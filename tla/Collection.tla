----------------------------- MODULE Collection -----------------------------
(***************************************************************************)
(* What lib/alex-c promises of a list, a set or a map: a sequence of       *)
(* entries in insertion order.  A call adds entries at the end (a list:    *)
(* anywhere), gives an entry of a list or a map another value, drops       *)
(* entries and keeps the others in order, or sorts; the keys of a map and  *)
(* the members of a set stay distinct.  Nothing is said of arrays,         *)
(* capacities, pointers or memory.                                         *)
(***************************************************************************)
EXTENDS Integers, Sequences, FiniteSets

VARIABLES shape,    \* "none", "list", "set" or "map"
          entries   \* the sequence of [k |-> key, v |-> value]

Distinct(es) == \A i, j \in DOMAIN es : es[i].k = es[j].k => i = j

Init == shape = "none" /\ entries = <<>>

Create == shape = "none" /\ shape' \in {"list", "set", "map"} /\ entries' = <<>>

Destroy == shape # "none" /\ shape' = "none" /\ entries' = <<>>

(* es with the entries at the places I left out. *)
Without(es, I) ==
  LET kept == {i \in DOMAIN es : i \notin I}
      nth(n) == CHOOSE i \in kept : Cardinality({j \in kept : j < i}) = n - 1
  IN  [n \in 1 .. Cardinality(kept) |-> es[nth(n)]]

Insert == /\ shape = "list"
          /\ Len(entries') = Len(entries) + 1
          /\ \E i \in 1 .. Len(entries) + 1 : Without(entries', {i}) = entries

(* A put: the keys known keep their places, at most Len more come after. *)
Put == /\ Len(entries') >= Len(entries)
       /\ \A i \in DOMAIN entries : entries'[i].k = entries[i].k \/ shape = "list"
       /\ shape # "map" => \A i \in DOMAIN entries : entries'[i].v = entries[i].v
       /\ shape # "list" => Distinct(entries')

Replace == /\ shape = "list"
           /\ Len(entries') = Len(entries)
           /\ \E i \in DOMAIN entries : \A j \in DOMAIN entries : j # i => entries'[j] = entries[j]

Drop == \E I \in SUBSET DOMAIN entries : entries' = Without(entries, I)

Sort == /\ shape \in {"list", "set"}
        /\ Len(entries') = Len(entries)
        /\ \A e \in {entries[i] : i \in DOMAIN entries} :
             Cardinality({i \in DOMAIN entries : entries[i] = e})
               = Cardinality({i \in DOMAIN entries : entries'[i] = e})

Next == \/ Create
        \/ Destroy
        \/ /\ shape # "none"
           /\ shape' = shape
           /\ Insert \/ Put \/ Replace \/ Drop \/ Sort

Spec == Init /\ [][Next]_<<shape, entries>>

=============================================================================
