--------------------------------- MODULE Pset ---------------------------------
(***************************************************************************)
(* lib/alex-c/src/pset.c: the array-backed pointer set, in insertion order.*)
(* Representation and results as in Plist; a set never holds NULL.         *)
(***************************************************************************)
EXTENDS Arrays, TLC

PsetParams(equal, alloc, clone_fn, initial, grow_by) ==
  [equal_val |-> equal, alloc_val |-> alloc, clone_val |-> clone_fn,
   initial |-> initial, grow |-> grow_by]

Vals(s) == SubSeq(s.vals, 1, s.size)

grow(s) == [s EXCEPT !.vals = @ \o Nulls(OrDefault(s.p.grow))]

pset_init_with(p) == [p |-> p, vals |-> Nulls(OrDefault(p.initial)), size |-> 0]

(* The zero-based places of val: at most one, when the set is one. *)
Places(s, val) ==
  IF val = NULL THEN {}
  ELSE {i \in 0 .. s.size - 1 : Equal(s.p.equal_val, s.vals[i + 1], val)}

pset_contains(s, val) == Places(s, val) # {}

add(s, val, copy, h) ==
  LET new == Clone(copy, val, h)
      g   == IF s.size >= Len(s.vals) THEN grow(s) ELSE s
  IN  IF val = NULL \/ pset_contains(s, val) THEN [c |-> s, h |-> h, r |-> FALSE]
      ELSE IF new.p = NULL THEN [c |-> s, h |-> new.h, r |-> FALSE]
      ELSE [c |-> [g EXCEPT !.vals = Assign(@, s.size, new.p), !.size = @ + 1],
            h |-> new.h, r |-> TRUE]

remove(s, val, do_free, h) ==
  LET i   == Lowest(Places(s, val))
      old == s.vals[i + 1]
  IN  IF Places(s, val) = {} THEN [c |-> s, h |-> h, r |-> NULL]
      ELSE [c |-> [s EXCEPT !.vals = ShiftDown(@, s.size, i), !.size = @ - 1],
            h |-> IF do_free THEN free(old, h) ELSE h, r |-> old]

free_vals(s, h) == FoldLeft(LAMBDA hp, v : free(v, hp), h, Vals(s))

(* The size is cleared before the memset that uses it: the slots keep what *)
(* they held.                                                              *)
remove_all(s) == [s EXCEPT !.size = 0, !.vals = Zeroed(@, 0)]

add_all(s, from, copy, h) ==
  FoldLeft(LAMBDA acc, v : add(acc.c, v, copy, acc.h), [c |-> s, h |-> h, r |-> TRUE], Vals(from))

remove_in(s, in, do_free, h) ==
  FoldLeft(LAMBDA acc, v : remove(acc.c, v, do_free, acc.h), [c |-> s, h |-> h, r |-> NULL], Vals(in))

clone(from, copy, h) == add_all(pset_init_with(from.p), from, copy, h)

-----------------------------------------------------------------------------

filter_blocks(filter, val) == \E accepts \in filter : TextOf(val) \notin accepts

pset_find(s, filter) ==
  LET passing == {i \in 1 .. s.size : ~filter_blocks(filter, s.vals[i])}
  IN  IF passing = {} THEN NULL ELSE s.vals[Lowest(passing)]

pset_at(s, i) == IF i < s.size THEN s.vals[i + 1] ELSE NULL

it_init(s, filter) ==
  IF s.size = 0 THEN NULL
  ELSE [filter |-> filter, position |-> 0, attached |-> FALSE, was_next |-> TRUE, val |-> NULL]

pset_it_next(s, it) ==
  LET from    == IF it.attached THEN it.position + 1 ELSE 0
      passing == {i \in from .. s.size - 1 : ~filter_blocks(it.filter, s.vals[i + 1])}
  IN  IF it = NULL \/ passing = {} THEN NULL
      ELSE [it EXCEPT !.position = Lowest(passing), !.attached = TRUE,
                      !.val = s.vals[Lowest(passing) + 1]]

(* Removes by value, not by position. *)
pset_it_remove(s, it, do_free, h) ==
  remove(s, it.val, do_free, h) @@
  [it |-> [it EXCEPT !.val = NULL, !.position = IF @ > 0 THEN @ - 1 ELSE @,
                     !.attached = @ /\ it.position > 0]]

-----------------------------------------------------------------------------

pset_add(s, val, h) == add(s, val, s.p.alloc_val, h)

(* Without clone_val the call does nothing. *)
pset_add_clone(s, val, h) ==
  IF s.p.clone_val = "none" THEN [c |-> s, h |-> h, r |-> FALSE]
  ELSE add(s, val, s.p.clone_val, h)

pset_add_all(s, from, h) == add_all(s, from, s.p.alloc_val, h)

pset_add_all_clone(s, from, h) ==
  IF s.p.clone_val = "none" THEN [c |-> s, h |-> h, r |-> FALSE]
  ELSE add_all(s, from, s.p.clone_val, h)

pset_remove_all(s, do_free, h) ==
  [c |-> remove_all(s), h |-> IF do_free THEN free_vals(s, h) ELSE h, r |-> s.size]

pset_clone(from, h) == clone(from, from.p.alloc_val, h)

pset_clone_deep(from, h) == clone(from, from.p.clone_val, h)

pset_sort(s, less) == [s EXCEPT !.vals = ShellSort(@, s.size, less)]

pset_equal(a, b) ==
  a.size = b.size /\ \A v \in Range(Vals(b)) : pset_contains(a, v)

pset_equal_ordered(a, b) ==
  a.size = b.size /\ \A i \in 1 .. a.size : Equal(a.p.equal_val, a.vals[i], b.vals[i])

=============================================================================
