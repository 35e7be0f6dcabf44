----------------------------- MODULE Containers -----------------------------
(***************************************************************************)
(* A caller and a container of lib/alex-c: the pointer list, set and map   *)
(* (Plist, Pset, PPmap) and the string and number containers that wrap     *)
(* them.  The caller makes a container of some kind, calls its functions   *)
(* in any order, iterates, and frees it.                                   *)
(*                                                                         *)
(* A container without alloc_val takes over the objects it is given: the   *)
(* caller gives new ones, and frees what a call hands back.  A container   *)
(* with alloc_val copies: the caller's own value has address 0.            *)
(***************************************************************************)
EXTENDS Integers, Sequences, FiniteSets, TLC

CONSTANTS NULL, Lower,
          ValTexts,     \* the texts of values the caller uses
          MapTexts,     \* those of them it puts into maps
          KeyTexts,     \* the texts of keys the caller uses
          Initial, Grow,\* the capacity parameters
          MaxSize,      \* bound: the caller adds to no container of this size
          SortLengths, SortTexts \* bounds: what the sort is tried on

ASSUME LowerAssumption ==
  /\ DOMAIN Lower \subseteq Nat
  /\ \A t \in DOMAIN Lower : Lower[t] \in DOMAIN Lower /\ Lower[Lower[t]] = Lower[t]

ASSUME SortAssumption == SortLengths \subseteq Nat /\ SortTexts \subseteq DOMAIN Lower \cup {NULL}

VARIABLES kind,    \* what the container is, NULL when there is none
          c,       \* the container
          it,      \* the open iterator, or NULL
          heap,    \* the memory
          visit    \* history: the values an iteration had to show and those it showed

vars == <<kind, c, it, heap, visit>>

L == INSTANCE Plist
S == INSTANCE Pset
M == INSTANCE PPmap
F == INSTANCE Fn

-----------------------------------------------------------------------------
(* The kinds: shape, parameters, and the functions of the wrapped container *)
(* that the kind's functions call.                                          *)

plist_calls ==
  {"insert", "append", "prepend", "insert_clone", "replace", "replace_free", "replace_clone",
   "replace_clone_free", "append_all", "append_all_clone", "remove", "remove_free", "remove_at",
   "remove_at_free", "remove_all", "remove_all_free", "remove_in", "remove_in_free", "it_end",
   "it_remove", "it_remove_free", "clone", "clone_deep", "free_vals", "share"}

pset_calls ==
  {"add", "add_clone", "add_all_clone", "remove", "remove_free", "remove_all", "remove_all_free",
   "remove_in", "remove_in_free", "it_remove", "it_remove_free", "clone", "clone_deep", "free_vals"}

ppmap_calls ==
  {"put", "put_free", "put_clone", "put_clone_free", "put_if_absent", "put_if_absent_clone",
   "put_all", "put_all_free", "put_all_clone", "put_all_clone_free", "remove", "remove_free",
   "remove_all", "remove_all_free", "remove_in", "remove_in_free", "it_remove", "it_remove_free",
   "clone", "clone_deep", "free_vals", "share"}

(* slist_replace, slist_remove... free what they take out. *)
slist_calls ==
  {"insert", "append", "prepend", "replace_free", "append_all", "remove_free", "remove_at_free",
   "remove_all_free", "it_end", "it_remove_free", "sort", "clone", "free_vals"}

sset_calls ==
  {"add", "add_all", "remove_free", "remove_all_free", "remove_in_free", "it_remove_free", "sort",
   "clone", "free_vals"}

spmap_calls == ppmap_calls \ {"share"}

ipmap_calls == ppmap_calls \ {"share"}

ssmap_calls ==
  {"put_free", "put_if_absent", "put_all_free", "remove_free", "remove_all_free", "remove_in_free",
   "it_remove_free", "clone", "free_vals"}

simap_calls ==
  {"put_free", "put_if_absent", "put_all_free", "remove_free", "remove_all_free", "remove_in_free",
   "it_remove_free", "clone", "free_vals"}

equal_str(case_insensitive) == IF case_insensitive THEN "strcasecmp" ELSE "strcmp"

slist_init_with(ci, allow_null) ==
  L!plist_init_with(L!PlistParams(equal_str(ci), "strdup", "none", allow_null, Initial, Grow))

sset_init_with(ci) ==
  S!pset_init_with(S!PsetParams(equal_str(ci), "strdup", "none", Initial, Grow))

spmap_init_with(ci, allow_null) ==
  M!ppmap_init_with(M!PPmapParams(equal_str(ci), "strcmp", "strdup", "none", TRUE, "strdup", allow_null, Initial, Grow))

ipmap_init_with(allow_null) ==
  M!ppmap_init_with(M!PPmapParams("stp", "ptr", "size_t", "none", TRUE, "strdup", allow_null, Initial, Grow))

ssmap_init_with(ci_key, ci_val) ==
  M!ppmap_init_with(M!PPmapParams(equal_str(ci_key), equal_str(ci_val), "strdup", "strdup", TRUE, "none", FALSE, Initial, Grow))

simap_init_with(ci_key) ==
  M!ppmap_init_with(M!PPmapParams(equal_str(ci_key), "stp", "strdup", "size_t", TRUE, "none", FALSE, Initial, Grow))

(* Every kind the caller makes: shape, calls and the new container. *)
Kinds ==
  {[shape |-> "list", calls |-> plist_calls,
    new |-> L!plist_init_with(L!PlistParams("ptr", "none", "strdup", TRUE, Initial, Grow))],
   [shape |-> "list", calls |-> plist_calls,
    new |-> L!plist_init_with(L!PlistParams("strcmp", "none", "strdup", FALSE, Initial, Grow))],
   [shape |-> "list", calls |-> slist_calls, new |-> slist_init_with(TRUE, FALSE)],
   [shape |-> "set", calls |-> pset_calls,
    new |-> S!pset_init_with(S!PsetParams("strcmp", "none", "strdup", Initial, Grow))],
   [shape |-> "set", calls |-> sset_calls, new |-> sset_init_with(TRUE)],
   [shape |-> "map", calls |-> ppmap_calls,
    new |-> M!ppmap_init_with(M!PPmapParams("ptr", "strcmp", "none", "none", FALSE, "strdup", FALSE, Initial, Grow))],
   [shape |-> "map", calls |-> spmap_calls, new |-> spmap_init_with(TRUE, FALSE)],
   [shape |-> "map", calls |-> ipmap_calls, new |-> ipmap_init_with(TRUE)],
   [shape |-> "map", calls |-> ssmap_calls, new |-> ssmap_init_with(FALSE, TRUE)],
   [shape |-> "map", calls |-> simap_calls, new |-> simap_init_with(TRUE)]}

Shape == IF kind = NULL THEN "none" ELSE kind.shape

Vals == IF kind = NULL THEN <<>> ELSE SubSeq(c.vals, 1, c.size)

Keys == IF Shape = "map" THEN SubSeq(c.keys, 1, c.size) ELSE <<>>

(* The call is one of the kind's, and no iteration is open. *)
May(shape, call) == Shape = shape /\ call \in kind.calls /\ it = NULL

NoVisit == [start |-> <<>>, seen |-> <<>>, removed |-> FALSE]

-----------------------------------------------------------------------------
(* The caller's side of a call. *)

(* The value handed over: a new object, or the caller's own to be copied. *)
Given(t, h) ==
  IF t = NULL THEN [p |-> NULL, h |-> h]
  ELSE IF c.p.alloc_val = "none" THEN F!NewObject(t, h)
  ELSE [p |-> F!Pointer(t, 0), h |-> h]

Held(d) == {p \in {d.vals[i] : i \in 1 .. d.size} : p # NULL}

(* The caller frees p unless the container d still holds it. *)
Discard(p, d, h) == IF p = NULL \/ p \in Held(d) \/ p.addr = 0 THEN h ELSE F!free(p, h)

(* Freeing one holder's value is right only if there is no other holder. *)
Unshared(i) == c.vals[i] = NULL \/ \A j \in 1 .. c.size : c.vals[j] = c.vals[i] => j = i

Arguments == (IF Shape = "map" THEN MapTexts ELSE ValTexts) \cup (IF Shape # "set" /\ c.p.allow_null_val THEN {NULL} ELSE {})

Return(res) == /\ c' = res.c
               /\ heap' = F!Settled(res.h)
               /\ visit' = NoVisit
               /\ UNCHANGED <<kind, it>>

New == /\ kind = NULL
       /\ \E k \in Kinds : kind' = [shape |-> k.shape, calls |-> k.calls] /\ c' = k.new
       /\ UNCHANGED <<it, heap, visit>>

FreeAll(d, h) ==
  CASE Shape = "list" -> L!free_vals(d, h)
    [] Shape = "set"  -> S!free_vals(d, h)
    [] Shape = "map"  -> M!ppmap_free_vals(d, h)

(* plist_free and so on: the container goes, its values stay. *)
FreeShallow(d, h) == IF Shape = "map" THEN M!ppmap_free(d, h) ELSE h

Free == /\ kind # NULL /\ it = NULL
        /\ heap' = F!Settled(FreeAll(c, heap))
        /\ kind' = NULL /\ c' = NULL /\ visit' = NoVisit
        /\ UNCHANGED it

Clone == /\ kind # NULL /\ it = NULL /\ "clone" \in kind.calls
         /\ \E res \in {CASE Shape = "list" -> L!plist_clone(c, heap)
                          [] Shape = "set"  -> S!pset_clone(c, heap)
                          [] Shape = "map"  -> M!ppmap_clone(c, heap)} :
              Return([c |-> res.c, h |-> IF c.p.alloc_val = "none" THEN FreeShallow(c, res.h) ELSE FreeAll(c, res.h)])

CloneDeep == /\ kind # NULL /\ it = NULL /\ "clone_deep" \in kind.calls
             /\ \E res \in {CASE Shape = "list" -> L!plist_clone_deep(c, heap)
                              [] Shape = "set"  -> S!pset_clone_deep(c, heap)
                              [] Shape = "map"  -> M!ppmap_clone_deep(c, heap)} :
                  Return([c |-> res.c, h |-> FreeAll(c, res.h)])

-----------------------------------------------------------------------------
(* The other container of a call that takes two, made by the caller. *)

Texts2(ts) == UNION {[1 .. n -> ts] : n \in 1 .. 2}

IsDistinct(ts) == \A i, j \in DOMAIN ts : ts[i] = ts[j] => i = j

ListOf(ts, h) ==
  L!FoldLeft(LAMBDA acc, t : LET g == Given(t, acc.h) IN L!plist_append(acc.c, g.p, g.h),
             [c |-> L!plist_init_with(c.p), h |-> h, r |-> TRUE], ts)

SetOf(ts, h) ==
  L!FoldLeft(LAMBDA acc, t : LET g == Given(t, acc.h)
                                 res == S!pset_add(acc.c, g.p, g.h)
                             IN  [res EXCEPT !.h = Discard(g.p, res.c, @)],
             [c |-> S!pset_init_with(c.p), h |-> h, r |-> TRUE], ts)

MapOf(kts, h) ==
  L!FoldLeft(LAMBDA acc, kt : LET g == Given(kt[2], acc.h)
                              IN  M!ppmap_put(acc.c, F!Pointer(kt[1], 0), g.p, g.h),
             [c |-> M!ppmap_init_with(c.p), h |-> h, r |-> FALSE, old |-> NULL], kts)

Pairs == {kts \in Texts2(KeyTexts \X MapTexts) :
               \A i, j \in DOMAIN kts :
                 M!Equal(c.p.equal_key, F!Pointer(kts[i][1], 0), F!Pointer(kts[j][1], 0)) => i = j}

(* The values old held and now does not hold go back to the caller. *)
DiscardGone(old, now, h) ==
  L!FoldLeft(LAMBDA acc, v : L!FreeOnce(acc, v), [h |-> h, freed |-> Held(now)],
             SubSeq(old.vals, 1, old.size)).h

(* What the other container held has been taken over, or is freed with it. *)
FreeFrom(from, taken, h) == IF taken THEN FreeShallow(from, h) ELSE FreeAll(from, h)

-----------------------------------------------------------------------------
(* Lists. *)

Insert ==
  /\ Shape = "list" /\ it = NULL /\ c.size < MaxSize
  /\ \E t \in Arguments : \E g \in {Given(t, heap)} :
       \/ /\ "insert" \in kind.calls
          /\ \E i \in 0 .. c.size + 1 : Return(L!plist_insert(c, i, g.p, g.h))
       \/ "append" \in kind.calls /\ Return(L!plist_append(c, g.p, g.h))
       \/ "prepend" \in kind.calls /\ Return(L!plist_prepend(c, g.p, g.h))

(* The same pointer once more. *)
Share ==
  /\ May("list", "share") /\ c.size < MaxSize
  /\ \E p \in Held(c) : Return(L!plist_append(c, p, heap))

InsertClone ==
  /\ May("list", "insert_clone") /\ c.size < MaxSize
  /\ \E t \in ValTexts, i \in 0 .. c.size : Return(L!plist_insert_clone(c, i, F!Pointer(t, 0), heap))

Replace ==
  /\ Shape = "list" /\ it = NULL
  /\ \E t \in Arguments, i \in 0 .. c.size - 1 : \E g \in {Given(t, heap)} :
       \/ /\ "replace" \in kind.calls
          /\ \E res \in {L!plist_replace(c, i, g.p, FALSE, g.h)} :
               Return([res EXCEPT !.h = Discard(res.r, res.c, @)])
       \/ /\ "replace_free" \in kind.calls /\ Unshared(i + 1)
          /\ Return(L!plist_replace(c, i, g.p, TRUE, g.h))

ReplaceClone ==
  /\ May("list", "replace_clone")
  /\ \E t \in ValTexts, i \in 0 .. c.size - 1 :
       \/ \E res \in {L!plist_replace_clone(c, i, F!Pointer(t, 0), FALSE, heap)} :
            Return([res EXCEPT !.h = Discard(res.r, res.c, @)])
       \/ Unshared(i + 1) /\ Return(L!plist_replace_clone(c, i, F!Pointer(t, 0), TRUE, heap))

AppendAll ==
  /\ Shape = "list" /\ it = NULL
  /\ \E ts \in Texts2(ValTexts) : \E from \in {ListOf(ts, heap)} :
       /\ c.size + Len(ts) <= MaxSize
       /\ \/ /\ "append_all" \in kind.calls
             /\ \E res \in {L!plist_append_all(c, from.c, from.h)} :
                  Return([res EXCEPT !.h = FreeFrom(from.c, c.p.alloc_val = "none", @)])
          \/ /\ "append_all_clone" \in kind.calls
             /\ \E res \in {L!plist_append_all_clone(c, from.c, from.h)} :
                  Return([res EXCEPT !.h = FreeFrom(from.c, FALSE, @)])

Remove ==
  /\ Shape = "list" /\ it = NULL
  /\ \E p \in Held(c) \cup {F!Pointer(t, 0) : t \in ValTexts} \cup {NULL} :
       \/ /\ "remove" \in kind.calls
          /\ \E res \in {L!plist_remove(c, p, FALSE, heap)} :
               Return([res EXCEPT !.h = Discard(res.r, res.c, @)])
       \/ /\ "remove_free" \in kind.calls
          /\ L!plist_contains(c, p) => Unshared(L!plist_index_of(c, p) + 1)
          /\ Return(L!plist_remove(c, p, TRUE, heap))

RemoveAt ==
  /\ Shape = "list" /\ it = NULL
  /\ \E i \in 0 .. c.size :
       \/ /\ "remove_at" \in kind.calls
          /\ \E res \in {L!remove_at(c, i, FALSE, heap)} :
               Return([res EXCEPT !.h = Discard(res.r, res.c, @)])
       \/ /\ "remove_at_free" \in kind.calls /\ (i < c.size => Unshared(i + 1))
          /\ Return(L!remove_at(c, i, TRUE, heap))

-----------------------------------------------------------------------------
(* Sets. *)

Add ==
  /\ Shape = "set" /\ it = NULL /\ c.size < MaxSize
  /\ \E t \in ValTexts : \E g \in {Given(t, heap)} :
       \/ /\ "add" \in kind.calls
          /\ \E res \in {S!pset_add(c, g.p, g.h)} : Return([res EXCEPT !.h = Discard(g.p, res.c, @)])
       \/ "add_clone" \in kind.calls /\ Return(S!pset_add_clone(c, F!Pointer(t, 0), heap))

AddAll ==
  /\ Shape = "set" /\ it = NULL /\ c.size < MaxSize
  /\ \E ts \in Texts2(ValTexts) : \E from \in {SetOf(ts, heap)} :
       \/ /\ "add_all" \in kind.calls
          /\ \E res \in {S!pset_add_all(c, from.c, from.h)} :
               Return([res EXCEPT !.h = FreeFrom(from.c, FALSE, @)])
       \/ /\ "add_all_clone" \in kind.calls
          /\ \E res \in {S!pset_add_all_clone(c, from.c, from.h)} :
               Return([res EXCEPT !.h = FreeFrom(from.c, FALSE, @)])

RemoveMember ==
  /\ Shape = "set" /\ it = NULL
  /\ \E p \in {F!Pointer(t, 0) : t \in ValTexts} \cup {NULL} :
       \/ /\ "remove" \in kind.calls
          /\ \E res \in {S!remove(c, p, FALSE, heap)} : Return([res EXCEPT !.h = Discard(res.r, res.c, @)])
       \/ "remove_free" \in kind.calls /\ Return(S!remove(c, p, TRUE, heap))

-----------------------------------------------------------------------------
(* Maps. *)

KeyPointers == {F!Pointer(t, 0) : t \in KeyTexts}

AtKey(key) == {i + 1 : i \in M!Places(c, key)}

Put ==
  /\ Shape = "map" /\ it = NULL
  /\ \E key \in KeyPointers, t \in Arguments : \E g \in {Given(t, heap)} :
       /\ AtKey(key) # {} \/ c.size < MaxSize
       /\ \/ /\ "put" \in kind.calls
             /\ \E res \in {M!ppmap_put(c, key, g.p, g.h)} : Return([res EXCEPT !.h = Discard(res.old, res.c, @)])
          \/ /\ "put_free" \in kind.calls /\ \A i \in AtKey(key) : Unshared(i)
             /\ Return(M!ppmap_put_free(c, key, g.p, g.h))
          \/ /\ "put_if_absent" \in kind.calls
             /\ \E res \in {M!ppmap_put_if_absent(c, key, g.p, g.h)} :
                  Return([res EXCEPT !.h = Discard(g.p, res.c, @)])

ShareValue ==
  /\ May("map", "share") /\ c.size < MaxSize
  /\ \E key \in KeyPointers, p \in Held(c) :
       AtKey(key) = {} /\ Return(M!ppmap_put(c, key, p, heap))

PutClone ==
  /\ May("map", "put_clone")
  /\ \E key \in KeyPointers, t \in MapTexts : \E p \in {F!Pointer(t, 0)} :
       /\ AtKey(key) # {} \/ c.size < MaxSize
       /\ \/ \E res \in {M!ppmap_put_clone(c, key, p, heap)} : Return([res EXCEPT !.h = Discard(res.old, res.c, @)])
          \/ (\A i \in AtKey(key) : Unshared(i)) /\ Return(M!ppmap_put_clone_free(c, key, p, heap))
          \/ Return(M!ppmap_put_if_absent_clone(c, key, p, heap))

(* Both holders of a shared value are among the keys, or neither is. *)
AllOrNone(from) ==
  \A i, j \in 1 .. c.size :
    c.vals[i] = c.vals[j] /\ c.vals[i] # NULL
      => (M!ppmap_contains_key(from, c.keys[i]) <=> M!ppmap_contains_key(from, c.keys[j]))

PutAll ==
  /\ Shape = "map" /\ it = NULL
  /\ \E kts \in Pairs : \E from \in {MapOf(kts, heap)} :
       /\ c.size + Len(kts) <= MaxSize
       /\ \/ /\ "put_all" \in kind.calls
             /\ \E res \in {M!ppmap_put_all(c, from.c, FALSE, from.h)} :
                  Return([res EXCEPT !.h = FreeFrom(from.c, c.p.alloc_val = "none", DiscardGone(c, res.c, @))])
          \/ /\ "put_all_free" \in kind.calls /\ AllOrNone(from.c)
             /\ \E res \in {M!ppmap_put_all(c, from.c, TRUE, from.h)} :
                  Return([res EXCEPT !.h = FreeFrom(from.c, c.p.alloc_val = "none", @)])
          \/ /\ "put_all_clone" \in kind.calls
             /\ \E res \in {M!ppmap_put_all_clone(c, from.c, FALSE, from.h)} :
                  Return([res EXCEPT !.h = FreeFrom(from.c, FALSE, DiscardGone(c, res.c, @))])
          \/ /\ "put_all_clone_free" \in kind.calls /\ AllOrNone(from.c)
             /\ \E res \in {M!ppmap_put_all_clone(c, from.c, TRUE, from.h)} :
                  Return([res EXCEPT !.h = FreeFrom(from.c, FALSE, @)])

RemoveKey ==
  /\ Shape = "map" /\ it = NULL
  /\ \E key \in KeyPointers \cup {NULL} :
       \/ /\ "remove" \in kind.calls
          /\ \E res \in {M!remove_(c, key, FALSE, heap)} : Return([res EXCEPT !.h = Discard(res.old, res.c, @)])
       \/ /\ "remove_free" \in kind.calls /\ \A i \in AtKey(key) : Unshared(i)
          /\ Return(M!remove_(c, key, TRUE, heap))

-----------------------------------------------------------------------------
(* Of every shape. *)

RemoveAll ==
  /\ kind # NULL /\ it = NULL
  /\ \E do_free \in BOOLEAN :
       /\ (IF do_free THEN "remove_all_free" ELSE "remove_all") \in kind.calls
       /\ \E res \in {CASE Shape = "list" -> L!plist_remove_all(c, do_free, heap)
                        [] Shape = "set"  -> S!pset_remove_all(c, do_free, heap)
                        [] Shape = "map"  -> M!ppmap_remove_all(c, do_free, heap)} :
            Return([res EXCEPT !.h = IF do_free THEN @ ELSE DiscardGone(c, res.c, @)])

(* The values, or the keys, of another container are taken out of this one. *)
RemoveIn ==
  /\ kind # NULL /\ it = NULL
  /\ \E do_free \in BOOLEAN :
       /\ (IF do_free THEN "remove_in_free" ELSE "remove_in") \in kind.calls
       /\ \/ /\ Shape = "list"
             /\ \E ts \in Texts2(ValTexts) : \E in \in {ListOf(ts, heap)} :
                  \E res \in {L!remove_in(c, in.c, do_free, in.h)} :
                    Return([res EXCEPT !.h = FreeFrom(in.c, FALSE, IF do_free THEN @ ELSE DiscardGone(c, res.c, @))])
          \/ /\ Shape = "set"
             /\ \E ts \in Texts2(ValTexts) : \E in \in {SetOf(ts, heap)} :
                  \E res \in {S!remove_in(c, in.c, do_free, in.h)} :
                    Return([res EXCEPT !.h = FreeFrom(in.c, FALSE, IF do_free THEN @ ELSE DiscardGone(c, res.c, @))])
          \/ /\ Shape = "map"
             /\ \E kts \in Pairs : \E in \in {MapOf(kts, heap)} :
                  /\ do_free => AllOrNone(in.c)
                  /\ \E res \in {M!remove_in(c, in.c, do_free, in.h)} :
                       Return([res EXCEPT !.h = FreeFrom(in.c, FALSE, IF do_free THEN @ ELSE DiscardGone(c, res.c, @))])

Sort ==
  /\ kind # NULL /\ it = NULL /\ "sort" \in kind.calls
  /\ Return([c |-> IF Shape = "list" THEN L!plist_sort(c, c.p.equal_val) ELSE S!pset_sort(c, c.p.equal_val),
             h |-> heap])

-----------------------------------------------------------------------------
(* Conversions: another container with this one's values or keys. *)

(* The parameters a list or set made from c gets. *)
CapacityFor(initial) == IF c.size > initial THEN c.size ELSE initial

AsList(ps, equal, alloc, allow_null, copy, h) ==
  L!FoldLeft(LAMBDA acc, p : LET new == L!Clone(copy, p, acc.h)
                             IN  L!plist_append(acc.c, new.p, new.h),
             [c |-> L!plist_init_with(L!PlistParams(equal, alloc, "none", allow_null, CapacityFor(Initial), Grow)),
              h |-> h, r |-> TRUE], ps)

(* A copy that was not added is freed again. *)
AsSet(ps, equal, alloc, copy, h) ==
  L!FoldLeft(LAMBDA acc, p : LET new == L!Clone(copy, p, acc.h)
                                 res == S!pset_add(acc.c, new.p, new.h)
                             IN  [res EXCEPT !.h = IF copy # "none" /\ ~res.r THEN L!free(new.p, @) ELSE @],
             [c |-> S!pset_init_with(S!PsetParams(equal, alloc, "none", CapacityFor(Initial), Grow)),
              h |-> h, r |-> TRUE], ps)

\* Mutant: values are prepended.
vals_plist_reversed(copy, h) ==
  AsList(L!Reverse(Vals), c.p.equal_val, c.p.alloc_val,
         IF Shape = "map" THEN c.p.allow_null_val ELSE FALSE, copy, h)

vals_plist(copy, h) ==
  AsList(Vals, c.p.equal_val, c.p.alloc_val, IF Shape = "map" THEN c.p.allow_null_val ELSE FALSE, copy, h)

vals_pset(copy, h) == AsSet(Vals, c.p.equal_val, c.p.alloc_val, copy, h)

keys_plist(h) == AsList(Keys, c.p.equal_key, c.p.alloc_key, c.p.allow_null_val, "none", h)

keys_pset(h) == AsSet(Keys, c.p.equal_key, c.p.alloc_key, "none", h)

(* The conversions there are of a list, of a set and of a map. *)
Conversions ==
  (CASE Shape = "list" -> {"vals_pset"}
     [] Shape = "set"  -> {"vals_plist"}
     [] Shape = "map"  -> {"vals_pset", "vals_plist", "keys_pset", "keys_plist"})
  \cup (IF c.p.clone_val = "none" THEN {}
        ELSE CASE Shape = "list" -> {"vals_pset_clone"}
               [] Shape = "set"  -> {"vals_plist_clone"}
               [] Shape = "map"  -> {"vals_pset_clone", "vals_plist_clone"})

Converted(call, h) ==
  CASE call = "vals_pset"        -> vals_pset("none", h)
    [] call = "vals_pset_clone"  -> vals_pset(c.p.clone_val, h)
    [] call = "vals_plist"       -> vals_plist("none", h)
    [] call = "vals_plist_clone" -> vals_plist(c.p.clone_val, h)
    [] call = "keys_pset"        -> keys_pset(h)
    [] call = "keys_plist"       -> keys_plist(h)

IsCopy(call) == call \in {"vals_pset_clone", "vals_plist_clone"}

(* The caller frees what it got, the contents too where they were copied. *)
Convert ==
  /\ kind # NULL /\ it = NULL
  /\ \E call \in Conversions : \E res \in {Converted(call, heap)} :
       Return([c |-> c, h |-> IF IsCopy(call) \/ res.c.p.alloc_val # "none" THEN L!free_vals(res.c, res.h) ELSE res.h])

-----------------------------------------------------------------------------
(* Iteration.  slist_it... keep the wrapped iterator and show its value.    *)

Filters ==
  IF Shape = "map"
  THEN {{}, {{kv \in KeyTexts \X (ValTexts \cup {NULL}) : kv[1] # 1}},
        {{kv \in KeyTexts \X (ValTexts \cup {NULL}) : kv[1] # 1},
         {kv \in KeyTexts \X (ValTexts \cup {NULL}) : kv[2] # 1}}}
  ELSE {{}, {(ValTexts \cup {NULL}) \ {1}}, {(ValTexts \cup {NULL}) \ {1}, ValTexts \ {2}}}

Passes(filter, i) ==
  IF Shape = "map" THEN ~M!filter_blocks(filter, c.keys[i], c.vals[i]) ELSE ~L!filter_blocks(filter, c.vals[i])

(* The texts of the values at the places I that pass, in order. *)
Passing(filter, I) ==
  LET places == SelectSeq([i \in 1 .. c.size |-> i], LAMBDA i : i \in I /\ Passes(filter, i))
  IN  [n \in DOMAIN places |-> F!TextOf(c.vals[places[n]])]

(* What the iterator has still to show, in the direction it last went. *)
Ahead(i) == Passing(i.filter, IF i.attached THEN i.position + 2 .. c.size ELSE 1 .. c.size)

Behind(i) == L!Reverse(Passing(i.filter, IF i.attached THEN 1 .. i.position ELSE 1 .. c.size))

First(i) ==
  CASE Shape = "list" -> L!plist_it_next(c, i)
    [] Shape = "set"  -> S!pset_it_next(c, i)
    [] Shape = "map"  -> M!ppmap_it_next(c, i)

Show(i) == IF i = NULL THEN <<>> ELSE <<F!TextOf(i.val)>>

It ==
  /\ kind # NULL /\ it = NULL
  /\ \E filter \in Filters :
       /\ it' = First(CASE Shape = "list" -> L!it_init(c, filter)
                        [] Shape = "set"  -> S!it_init(c, filter)
                        [] Shape = "map"  -> M!it_init(c, filter))
       /\ visit' = [start |-> Passing(filter, 1 .. c.size), seen |-> Show(it'), removed |-> FALSE]
  /\ UNCHANGED <<kind, c, heap>>

ItEnd ==
  /\ May("list", "it_end")
  /\ \E filter \in Filters :
       /\ it' = L!plist_it_prev(c, L!it_init(c, filter))
       /\ visit' = [start |-> L!Reverse(Passing(filter, 1 .. c.size)), seen |-> Show(it'), removed |-> FALSE]
  /\ UNCHANGED <<kind, c, heap>>

(* Turning round begins another walk, from where the iterator stands.  The *)
(* caller does not turn round at a value it has just removed.              *)
ItNext ==
  /\ it # NULL
  /\ it.was_next \/ ~visit.removed
  /\ it' = First(it)
  /\ visit' = [start |-> IF it.was_next THEN visit.start ELSE Ahead(it),
               seen |-> (IF it.was_next THEN visit.seen ELSE <<>>) \o Show(it'), removed |-> FALSE]
  /\ UNCHANGED <<kind, c, heap>>

ItPrev ==
  /\ it # NULL /\ "it_end" \in kind.calls
  /\ it.was_next => ~visit.removed
  /\ it' = L!plist_it_prev(c, it)
  /\ visit' = [start |-> IF it.was_next THEN Behind(it) ELSE visit.start,
               seen |-> (IF it.was_next THEN <<>> ELSE visit.seen) \o Show(it'), removed |-> FALSE]
  /\ UNCHANGED <<kind, c, heap>>

ItRemove ==
  /\ it # NULL /\ ~visit.removed
  /\ \E do_free \in BOOLEAN :
       /\ (IF do_free THEN "it_remove_free" ELSE "it_remove") \in kind.calls
       /\ do_free => Unshared(it.position + 1)
       /\ \E res \in {CASE Shape = "list" -> L!plist_it_remove(c, it, do_free, heap)
                        [] Shape = "set"  -> S!pset_it_remove(c, it, do_free, heap)
                        [] Shape = "map"  -> M!ppmap_it_remove(c, it, do_free, heap)} :
            /\ c' = res.c
            /\ it' = res.it
            /\ heap' = F!Settled(IF do_free THEN res.h ELSE DiscardGone(c, res.c, res.h))
  /\ visit' = [visit EXCEPT !.removed = TRUE]
  /\ UNCHANGED kind

ItFree == it # NULL /\ it' = NULL /\ visit' = NoVisit /\ UNCHANGED <<kind, c, heap>>

-----------------------------------------------------------------------------

Init == kind = NULL /\ c = NULL /\ it = NULL /\ heap = F!EmptyHeap /\ visit = NoVisit

Next == \/ New \/ Free \/ Clone \/ CloneDeep
        \/ Insert \/ Share \/ InsertClone \/ Replace \/ ReplaceClone \/ AppendAll \/ Remove \/ RemoveAt
        \/ Add \/ AddAll \/ RemoveMember
        \/ Put \/ ShareValue \/ PutClone \/ PutAll \/ RemoveKey
        \/ RemoveAll \/ RemoveIn \/ Sort \/ Convert
        \/ It \/ ItEnd \/ ItNext \/ ItPrev \/ ItRemove \/ ItFree

Spec == Init /\ [][Next]_vars

-----------------------------------------------------------------------------
(* The arrays of a map have one capacity, grown from Initial by Grow; the   *)
(* slots past the size of a list or a map are NULL; NULL is held only where *)
(* it is allowed.                                                           *)
TypeOK ==
  /\ heap.live \subseteq Nat /\ heap.used = heap.live /\ heap.bad \in BOOLEAN
  /\ kind # NULL =>
       /\ c.size \in 0 .. Len(c.vals)
       /\ \E n \in 0 .. MaxSize : Len(c.vals) = Initial + n * Grow
       /\ Shape = "map" => Len(c.keys) = Len(c.vals) /\ NULL \notin {c.keys[i] : i \in 1 .. c.size}
       /\ Shape # "set" => \A i \in c.size + 1 .. Len(c.vals) : c.vals[i] = NULL
       /\ (Shape = "set" \/ ~c.p.allow_null_val) => NULL \notin {c.vals[i] : i \in 1 .. c.size}
       /\ it # NULL => it.position \in 0 .. MaxSize

(* Whatever calls were made: nothing was freed twice or without being      *)
(* live, what the container holds is live, and nothing is live that is not *)
(* held.  (insert, replace, remove_at, put, remove_ and the freeing loops  *)
(* of plist.c, pset.c and ppmap.c.)                                        *)
Ownership ==
  /\ ~heap.bad
  /\ heap.live = {p.addr : p \in (IF kind = NULL THEN {} ELSE Held(c)) \cup {Keys[i] : i \in DOMAIN Keys}} \ {0}

(* An iteration shows every value that passes its filter once and in order,*)
(* even if values are removed on the way (plist_it_next, plist_it_prev,    *)
(* it_remove and their like for sets and maps).                            *)
VisitsEach ==
  visit.seen \o (IF it = NULL THEN <<>> ELSE IF it.was_next THEN Ahead(it) ELSE Behind(it)) = visit.start

(* a may stand before b: NULLs are last. *)
InOrder(less, a, b) == b # NULL => a # NULL /\ F!Aspect(less, a) <= F!Aspect(less, b)

(* The shell sort leaves no value before a lesser one, loses none and      *)
(* repeats none, whatever the array (plist_sort and pset_sort; it is       *)
(* evaluated where there is no container).                                 *)
SortSorts ==
  kind = NULL =>
    \A less \in {"strcmp", "strcasecmp"}, n \in SortLengths : \A ts \in [1 .. n -> SortTexts] :
      LET before == [i \in 1 .. n |-> IF ts[i] = NULL THEN NULL ELSE F!Pointer(ts[i], i)]
          after  == L!ShellSort(before, n, less)
      IN  /\ \A i \in 1 .. n - 1 : InOrder(less, after[i], after[i + 1])
          /\ {after[i] : i \in 1 .. n} = {before[i] : i \in 1 .. n}
          /\ \A i, j \in 1 .. n : after[i] = after[j] /\ after[i] # NULL => i = j

AspectsOf(fn, ps) == {F!Aspect(fn, p) : p \in ps}

(* Two sets are equal when they have the same members, two maps without    *)
(* NULL values when they have the same keys with the same values           *)
(* (pset_equal and ppmap_equal compare sizes and look one way only).       *)
EqualIsSame ==
  /\ Shape = "set" /\ it = NULL =>
       \A ts \in Texts2(ValTexts) :
         LET b == SetOf(ts, heap).c
         IN  S!pset_equal(c, b) <=> AspectsOf(c.p.equal_val, Held(c)) = AspectsOf(c.p.equal_val, Held(b))
  /\ Shape = "map" /\ it = NULL /\ c.p.equal_val # "ptr" =>
       \A kts \in Pairs :
         LET b == MapOf(kts, heap).c
             graph(m) == {<<F!Aspect(c.p.equal_key, m.keys[i]), F!Aspect(c.p.equal_val, m.vals[i])>> : i \in 1 .. m.size}
         IN  M!ppmap_equal(c, b) <=> graph(c) = graph(b)

(* A list made from a container has its values, or keys, in order; a set   *)
(* has them without repetition, each where it first was.  Copies of one    *)
(* object are different objects to equal_ptr (plist_pset_clone, pset_plist,*)
(* ppmap_vals_plist, ppmap_keys_pset and their like).                      *)
ConversionsKeepOrder ==
  kind # NULL /\ it = NULL =>
    \A call \in Conversions :
      LET d     == Converted(call, heap).c
          of    == IF call \in {"keys_plist", "keys_pset"} THEN Keys ELSE Vals
          fn    == d.p.equal_val
          isset == call \in {"vals_pset", "vals_pset_clone", "keys_pset"}
          wanted(j) ==
            /\ of[j] = NULL => ~isset /\ d.p.allow_null_val
            /\ isset /\ ~(IsCopy(call) /\ fn = "ptr")
                 => \A n \in 1 .. j - 1 : of[n] # NULL => F!Aspect(fn, of[n]) # F!Aspect(fn, of[j])
          places == SelectSeq([j \in DOMAIN of |-> j], wanted)
      IN  [i \in 1 .. d.size |-> F!TextOf(d.vals[i])] = [i \in DOMAIN places |-> F!TextOf(of[places[i]])]

(* The state up to the choice of addresses: which objects are the same, not *)
(* where they are.                                                          *)
View ==
  <<kind, Ownership,
    IF kind = NULL THEN <<>>
    ELSE <<c.p, Len(c.vals), [i \in DOMAIN Keys |-> F!TextOf(Keys[i])],
           [i \in DOMAIN Vals |-> <<F!TextOf(Vals[i]), L!Lowest({j \in DOMAIN Vals : Vals[j] = Vals[i]})>>]>>,
    IF it = NULL THEN <<>> ELSE <<it.filter, it.position, it.attached, it.was_next, F!TextOf(it.val)>>,
    visit>>

(* The container as Collection sees it. *)
Entries ==
  [i \in DOMAIN Vals |->
     [k |-> CASE Shape = "list" -> NULL
              [] Shape = "set"  -> F!Aspect(c.p.equal_val, c.vals[i])
              [] Shape = "map"  -> F!Aspect(c.p.equal_key, c.keys[i]),
      v |-> F!TextOf(c.vals[i])]]

Abstract == INSTANCE Collection WITH shape <- Shape, entries <- Entries

(* The arrays, growth and shifting implement the ordered collection.       *)
IsCollection == Abstract!Spec

=============================================================================
