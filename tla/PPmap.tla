-------------------------------- MODULE PPmap --------------------------------
(***************************************************************************)
(* lib/alex-c/src/ppmap.c: the pointer map in insertion order, two arrays  *)
(* of one capacity and one size.  Representation and results as in Plist.  *)
(***************************************************************************)
EXTENDS Arrays, TLC

PPmapParams(equal_key, equal_val, alloc_key, alloc_val, free_key, clone_val, allow_null, initial, grow_by) ==
  [equal_key |-> equal_key, equal_val |-> equal_val, alloc_key |-> alloc_key, alloc_val |-> alloc_val,
   free_key |-> free_key, clone_val |-> clone_val, allow_null_val |-> allow_null,
   initial |-> initial, grow |-> grow_by]

Keys(m) == SubSeq(m.keys, 1, m.size)

Vals(m) == SubSeq(m.vals, 1, m.size)

(* Both arrays grow together. *)
grow(m) == LET more == Nulls(OrDefault(m.p.grow))
           IN  [m EXCEPT !.keys = @ \o more, !.vals = @ \o more]

ppmap_init_with(p) ==
  LET none == Nulls(OrDefault(p.initial))
  IN  [p |-> p, keys |-> none, vals |-> none, size |-> 0]

(* The zero-based places of a key. *)
Places(m, key) == {i \in 0 .. m.size - 1 : Equal(m.p.equal_key, m.keys[i + 1], key)}

(* r: an old value was overwritten, or would be; old: that value. *)
put(m, key, val, copy, overwrite, h) ==
  LET at      == Lowest(Places(m, key)) + 1
      over    == Clone(copy, val, h)
      key_new == Clone(m.p.alloc_key, key, h)
      val_new == Clone(copy, val, key_new.h)
      g       == IF m.size >= Len(m.keys) THEN grow(m) ELSE m
      refused == [c |-> m, h |-> h, r |-> FALSE, old |-> NULL]
  IN  IF val = NULL /\ ~m.p.allow_null_val THEN refused
      ELSE IF Places(m, key) # {} THEN
             IF ~overwrite THEN [c |-> m, h |-> h, r |-> TRUE, old |-> m.vals[at]]
             ELSE IF over.p = NULL /\ ~m.p.allow_null_val THEN refused
             ELSE [c |-> [m EXCEPT !.vals = Assign(@, at - 1, over.p)], h |-> over.h, r |-> TRUE, old |-> m.vals[at]]
      ELSE IF key_new.p = NULL THEN refused
      ELSE IF val_new.p = NULL /\ ~m.p.allow_null_val THEN [refused EXCEPT !.h = val_new.h]
      ELSE [c |-> [g EXCEPT !.keys = Assign(@, m.size, key_new.p), !.vals = Assign(@, m.size, val_new.p), !.size = @ + 1],
            h |-> val_new.h, r |-> FALSE, old |-> NULL]

(* Each overwritten value is freed, once. *)
put_all(m, from, copy, do_free, h) ==
  FoldLeft(LAMBDA acc, i :
             LET res   == put(acc.c, from.keys[i], from.vals[i], copy, TRUE, acc.h)
                 freed == FreeOnce([h |-> res.h, freed |-> acc.freed], IF res.r THEN res.old ELSE NULL)
             IN  IF do_free THEN [c |-> res.c] @@ freed
                 ELSE [c |-> res.c, h |-> res.h, freed |-> {}],
           [c |-> m, h |-> h, freed |-> {}], [i \in 1 .. from.size |-> i])

clone(from, copy, h) == put_all(ppmap_init_with(from.p), from, copy, FALSE, h)

free_keys(m, h) ==
  IF m.p.free_key THEN FoldLeft(LAMBDA hp, k : free(k, hp), h, Keys(m)) ELSE h

free_vals(m, h) == FoldLeft(FreeOnce, [h |-> h, freed |-> {}], Vals(m)).h

(* r: something was removed; old: the value that was. *)
remove_(m, key, do_free, h) ==
  LET i   == Lowest(Places(m, key))
      hk  == IF m.p.free_key THEN free(m.keys[i + 1], h) ELSE h
      old == m.vals[i + 1]
  IN  IF key = NULL \/ Places(m, key) = {} THEN [c |-> m, h |-> h, r |-> FALSE, old |-> NULL]
      ELSE [c |-> [m EXCEPT !.keys = ShiftDown(@, m.size, i), !.vals = ShiftDown(@, m.size, i), !.size = @ - 1],
            h |-> IF do_free THEN free(old, hk) ELSE hk, r |-> TRUE, old |-> old]

remove_all(m) ==
  [m EXCEPT !.keys = Zeroed(@, m.size), !.vals = Zeroed(@, m.size), !.size = 0]

remove_in(m, in, do_free, h) ==
  FoldLeft(LAMBDA acc, k :
             LET res == remove_(acc.c, k, FALSE, acc.h)
             IN  IF do_free THEN [c |-> res.c] @@ FreeOnce([h |-> res.h, freed |-> acc.freed], res.old)
                 ELSE [c |-> res.c, h |-> res.h, freed |-> {}],
           [c |-> m, h |-> h, freed |-> {}], Keys(in))

-----------------------------------------------------------------------------
(* A filter is the set of its predicates, each the set of pairs of texts it *)
(* accepts.                                                                 *)
filter_blocks(filter, key, val) == \E accepts \in filter : <<TextOf(key), TextOf(val)>> \notin accepts

ppmap_get(m, key) ==
  IF key = NULL \/ Places(m, key) = {} THEN NULL ELSE m.vals[Lowest(Places(m, key)) + 1]

ppmap_contains_key(m, key) == key # NULL /\ Places(m, key) # {}

ValPlaces(m, val) == {i \in 1 .. m.size : Equal(m.p.equal_val, m.vals[i], val)}

ppmap_contains_val(m, val) == ValPlaces(m, val) # {}

ppmap_first_key(m, val) ==
  IF ValPlaces(m, val) = {} THEN NULL ELSE m.keys[Lowest(ValPlaces(m, val))]

ppmap_at(m, i) ==
  IF i < m.size THEN [key |-> m.keys[i + 1], val |-> m.vals[i + 1]] ELSE [key |-> NULL, val |-> NULL]

ppmap_find(m, filter) ==
  LET passing == {i \in 1 .. m.size : ~filter_blocks(filter, m.keys[i], m.vals[i])}
  IN  ppmap_at(m, IF passing = {} THEN m.size ELSE Lowest(passing) - 1)

it_init(m, filter) ==
  IF m.size = 0 THEN NULL
  ELSE [filter |-> filter, position |-> 0, attached |-> FALSE, was_next |-> TRUE, key |-> NULL, val |-> NULL]

ppmap_it_next(m, it) ==
  LET from    == IF it.attached THEN it.position + 1 ELSE 0
      passing == {i \in from .. m.size - 1 : ~filter_blocks(it.filter, m.keys[i + 1], m.vals[i + 1])}
      at      == Lowest(passing)
  IN  IF it = NULL \/ passing = {} THEN NULL
      ELSE [it EXCEPT !.position = at, !.attached = TRUE, !.key = m.keys[at + 1], !.val = m.vals[at + 1]]

(* Removes by the key the iterator shows, not by position. *)
ppmap_it_remove(m, it, do_free, h) ==
  remove_(m, it.key, do_free, h) @@
  [it |-> [it EXCEPT !.key = NULL, !.val = NULL, !.position = IF @ > 0 THEN @ - 1 ELSE @,
                     !.attached = @ /\ it.position > 0]]

-----------------------------------------------------------------------------

ppmap_put(m, key, val, h) == put(m, key, val, m.p.alloc_val, TRUE, h)

ppmap_put_free(m, key, val, h) ==
  LET res == ppmap_put(m, key, val, h) IN [res EXCEPT !.h = free(res.old, @), !.old = NULL]

(* Without clone_val the calls ending in _clone do nothing. *)
ppmap_put_clone(m, key, val, h) ==
  IF m.p.clone_val = "none" THEN [c |-> m, h |-> h, r |-> FALSE, old |-> NULL]
  ELSE put(m, key, val, m.p.clone_val, TRUE, h)

ppmap_put_clone_free(m, key, val, h) ==
  LET res == ppmap_put_clone(m, key, val, h)
  IN  [res EXCEPT !.h = IF res.r THEN free(res.old, @) ELSE @, !.old = NULL]

ppmap_put_if_absent(m, key, val, h) == put(m, key, val, m.p.alloc_val, FALSE, h)

ppmap_put_if_absent_clone(m, key, val, h) ==
  IF m.p.clone_val = "none" THEN [c |-> m, h |-> h, r |-> FALSE, old |-> NULL]
  ELSE put(m, key, val, m.p.clone_val, FALSE, h)

ppmap_put_all(m, from, do_free, h) == put_all(m, from, m.p.alloc_val, do_free, h)

ppmap_put_all_clone(m, from, do_free, h) ==
  IF m.p.clone_val = "none" THEN [c |-> m, h |-> h, freed |-> {}]
  ELSE put_all(m, from, m.p.clone_val, do_free, h)

ppmap_remove_all(m, do_free, h) ==
  LET hk == free_keys(m, h)
  IN  [c |-> remove_all(m), h |-> IF do_free THEN free_vals(m, hk) ELSE hk, r |-> m.size]

ppmap_clone(from, h) == clone(from, from.p.alloc_val, h)

ppmap_clone_deep(from, h) == clone(from, from.p.clone_val, h)

(* The heap once the map is freed, and once its values are too. *)
ppmap_free(m, h) == free_keys(m, h)

ppmap_free_vals(m, h) == ppmap_free(m, free_vals(m, h))

-----------------------------------------------------------------------------

\* Mutant: sizes are not compared.
ppmap_equal_one_way(a, b) ==
  \A i \in 1 .. a.size : 
    /\ ppmap_contains_key(b, a.keys[i])
    /\ Equal(a.p.equal_val, a.vals[i], ppmap_get(b, a.keys[i]))

ppmap_equal(a, b) ==
  a.size = b.size /\ \A i \in 1 .. b.size : Equal(a.p.equal_val, ppmap_get(a, b.keys[i]), b.vals[i])

ppmap_equal_ordered(a, b) ==
  /\ a.size = b.size
  /\ \A i \in 1 .. a.size : /\ Equal(a.p.equal_key, a.keys[i], b.keys[i])
                            /\ Equal(a.p.equal_val, a.vals[i], b.vals[i])

=============================================================================
