-------------------------------- MODULE Plist --------------------------------
(***************************************************************************)
(* lib/alex-c/src/plist.c: the array-backed pointer list.                  *)
(*                                                                         *)
(* A list is its parameters p, the array vals (a sequence whose length is  *)
(* the capacity; slot i of the code is vals[i + 1]) and size.  Indices are *)
(* zero-based as in the code.  An operation answers a record: the list c,  *)
(* the heap h and, where the caller looks at it, the result r.  `copy' is  *)
(* the allocating function an operation hands down: alloc_val or clone_val.*)
(***************************************************************************)
EXTENDS Arrays, TLC

(* The optional parameters; "none" where a function is not given. *)
PlistParams(equal, alloc, clone, allow_null, initial, grow) ==
  [equal_val |-> equal, alloc_val |-> alloc, clone_val |-> clone,
   allow_null_val |-> allow_null, initial |-> initial, grow |-> grow]

(* The values the list holds. *)
Vals(l) == SubSeq(l.vals, 1, l.size)

grow(l) == [l EXCEPT !.vals = @ \o Nulls(OrDefault(l.p.grow))]

plist_init_with(p) ==
  [p |-> p, vals |-> Nulls(OrDefault(p.initial)), size |-> 0]

insert(l, index, val, copy, h) ==
  LET at  == IF index > l.size THEN l.size ELSE index
      new == Clone(copy, val, h)
      g   == IF l.size >= Len(l.vals) THEN grow(l) ELSE l
      shifted == [j \in DOMAIN g.vals |->
                    IF j > at + 1 /\ j <= l.size + 1 THEN g.vals[j - 1] ELSE g.vals[j]]
  IN  IF val = NULL /\ ~l.p.allow_null_val THEN [c |-> l, h |-> h, r |-> FALSE]
      ELSE IF new.p = NULL /\ ~l.p.allow_null_val THEN [c |-> l, h |-> new.h, r |-> FALSE]
      ELSE [c |-> [g EXCEPT !.vals = Assign(shifted, at, new.p), !.size = @ + 1],
            h |-> new.h, r |-> TRUE]

replace(l, index, val, do_free, copy, h) ==
  LET new == Clone(copy, val, h)
      old == l.vals[index + 1]
  IN  IF index >= l.size THEN [c |-> l, h |-> h, r |-> NULL]
      ELSE IF new.p = NULL /\ ~l.p.allow_null_val THEN [c |-> l, h |-> new.h, r |-> NULL]
      ELSE [c |-> [l EXCEPT !.vals = Assign(@, index, new.p)],
            h |-> IF do_free THEN free(old, new.h) ELSE new.h, r |-> old]

remove_at(l, i, do_free, h) ==
  LET old == l.vals[i + 1]
  IN  IF i >= l.size THEN [c |-> l, h |-> h, r |-> NULL]
      ELSE [c |-> [l EXCEPT !.vals = ShiftDown(@, l.size, i), !.size = @ - 1],
            h |-> IF do_free THEN free(old, h) ELSE h, r |-> old]

(* The zero-based places of val; index_of answers the first. *)
Places(l, val) ==
  IF val = NULL /\ ~l.p.allow_null_val THEN {}
  ELSE {i \in 0 .. l.size - 1 : Equal(l.p.equal_val, l.vals[i + 1], val)}

plist_index_of(l, val) ==
  IF Places(l, val) = {} THEN -1 ELSE Lowest(Places(l, val))

plist_contains(l, val) == plist_index_of(l, val) # -1

(* Removes every occurrence of every value of `in'; a pointer held twice is *)
(* freed once.                                                              *)
remove_in(l, in, do_free, h) ==
  LET taken == {i \in 1 .. l.size : \E v \in Range(Vals(in)) : i - 1 \in Places(l, v)}
      kept  == SelectSeq([i \in 1 .. l.size |-> i], LAMBDA i : i \notin taken)
      out   == SelectSeq([i \in 1 .. l.size |-> i], LAMBDA i : i \in taken)
      acc   == FoldLeft(LAMBDA a, i : FreeOnce(a, l.vals[i]), [h |-> h, freed |-> {}], out)
  IN  [c |-> [l EXCEPT !.vals = [j \in DOMAIN l.vals |->
                                   IF j <= Len(kept) THEN l.vals[kept[j]]
                                   ELSE IF j <= l.size THEN NULL ELSE l.vals[j]],
                       !.size = Len(kept)],
       h |-> IF do_free THEN acc.h ELSE h, r |-> Cardinality(taken)]

free_vals(l, h) == FoldLeft(FreeOnce, [h |-> h, freed |-> {}], Vals(l)).h

remove_all(l) ==
  [l EXCEPT !.vals = Zeroed(@, l.size), !.size = 0]

append_all(l, from, copy, h) ==
  FoldLeft(LAMBDA acc, v : insert(acc.c, acc.c.size, v, copy, acc.h),
           [c |-> l, h |-> h, r |-> TRUE], Vals(from))

clone(from, copy, h) == append_all(plist_init_with(from.p), from, copy, h)

-----------------------------------------------------------------------------
(* A filter is the set of its predicates, each the set of texts it accepts. *)

filter_blocks(filter, val) == \E accepts \in filter : TextOf(val) \notin accepts

plist_find(l, filter) ==
  LET passing == {i \in 1 .. l.size : ~filter_blocks(filter, l.vals[i])}
  IN  IF passing = {} THEN NULL ELSE l.vals[Lowest(passing)]

plist_at(l, i) == IF i < l.size THEN l.vals[i + 1] ELSE NULL

(* An iterator before its first step; NULL when there is none. *)
it_init(l, filter) ==
  IF l.size = 0 THEN NULL
  ELSE [filter |-> filter, position |-> 0, attached |-> FALSE, was_next |-> FALSE, val |-> NULL]

plist_it_next(l, it) ==
  LET from    == IF it.attached THEN it.position + 1 ELSE 0
      passing == {i \in from .. l.size - 1 : ~filter_blocks(it.filter, l.vals[i + 1])}
  IN  IF it = NULL \/ passing = {} THEN NULL
      ELSE [it EXCEPT !.position = Lowest(passing), !.attached = TRUE, !.was_next = TRUE,
                      !.val = l.vals[Lowest(passing) + 1]]

(* At position 0 the index wraps round and back: the iteration ends. *)
plist_it_prev(l, it) ==
  LET from    == IF it.attached THEN it.position - 1 ELSE l.size - 1
      passing == {i \in 0 .. from : ~filter_blocks(it.filter, l.vals[i + 1])}
  IN  IF it = NULL \/ passing = {} THEN NULL
      ELSE [it EXCEPT !.position = Highest(passing), !.attached = TRUE, !.was_next = FALSE,
                      !.val = l.vals[Highest(passing) + 1]]

\* Mutant: the iterator stays at the position.
plist_it_remove_stays(l, it, do_free, h) ==
  remove_at(l, it.position, do_free, h) @@ [it |-> [it EXCEPT !.val = NULL]]

plist_it_remove(l, it, do_free, h) ==
  remove_at(l, it.position, do_free, h) @@
  [it |-> [it EXCEPT !.val = NULL,
                     !.position = IF it.was_next /\ @ > 0 THEN @ - 1 ELSE @,
                     !.attached = @ /\ ~(it.was_next /\ it.position = 0)]]

-----------------------------------------------------------------------------

plist_insert(l, i, val, h) == insert(l, i, val, l.p.alloc_val, h)
plist_append(l, val, h) == insert(l, l.size, val, l.p.alloc_val, h)
plist_prepend(l, val, h) == insert(l, 0, val, l.p.alloc_val, h)
plist_replace(l, i, val, do_free, h) == replace(l, i, val, do_free, l.p.alloc_val, h)

(* Without clone_val the call does nothing. *)
plist_insert_clone(l, i, val, h) ==
  IF l.p.clone_val = "none" THEN [c |-> l, h |-> h, r |-> FALSE]
  ELSE insert(l, i, val, l.p.clone_val, h)

plist_replace_clone(l, i, val, do_free, h) ==
  IF l.p.clone_val = "none" THEN [c |-> l, h |-> h, r |-> NULL]
  ELSE replace(l, i, val, do_free, l.p.clone_val, h)

plist_remove(l, val, do_free, h) ==
  IF plist_contains(l, val) THEN remove_at(l, plist_index_of(l, val), do_free, h)
  ELSE [c |-> l, h |-> h, r |-> NULL]

plist_append_all(l, from, h) == append_all(l, from, l.p.alloc_val, h)

plist_append_all_clone(l, from, h) ==
  IF l.p.clone_val = "none" THEN [c |-> l, h |-> h, r |-> FALSE]
  ELSE append_all(l, from, l.p.clone_val, h)

plist_remove_all(l, do_free, h) ==
  [c |-> remove_all(l), h |-> IF do_free THEN free_vals(l, h) ELSE h, r |-> l.size]

plist_clone(from, h) == clone(from, from.p.alloc_val, h)

plist_clone_deep(from, h) == clone(from, from.p.clone_val, h)

plist_sort(l, less) == [l EXCEPT !.vals = ShellSort(@, l.size, less)]

-----------------------------------------------------------------------------

plist_equal(a, b) ==
  a.size = b.size /\ \A v \in Range(Vals(b)) : plist_contains(a, v)

plist_equal_ordered(a, b) ==
  a.size = b.size /\ \A i \in 1 .. a.size : Equal(a.p.equal_val, a.vals[i], b.vals[i])

=============================================================================
