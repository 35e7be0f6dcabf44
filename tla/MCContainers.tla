---------------------------- MODULE MCContainers ----------------------------
(* The containers over three texts: "A" and "a", one in lower case, and    *)
(* "b".                                                                    *)
EXTENDS Containers, TLC

MCLower == 1 :> 2 @@ 2 :> 2 @@ 3 :> 3

=============================================================================
