----------------------------- MODULE MCSession -----------------------------
(***************************************************************************)
(* Two servers and two clients: enough for two starts at once, for a       *)
(* restart after a crash, and for a request while another one is in        *)
(* progress.                                                               *)
(***************************************************************************)
EXTENDS Session

=============================================================================
