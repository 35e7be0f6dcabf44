--------------------------------- MODULE Fn ---------------------------------
(***************************************************************************)
(* lib/alex-c/src/fn.c: the equality, ordering and cloning functions the   *)
(* containers are given, over a small model of memory.                     *)
(*                                                                         *)
(* A pointer is NULL or a record of the text it points at and its address. *)
(* Texts are numbers in strcmp order (a size_t is its own text) and        *)
(* Lower[t] is the text in lower case.  Address 0 is memory the heap does  *)
(* not own: a literal, a local, an object of somebody else.  The heap keeps*)
(* the live addresses, the addresses used since the call began (so that a  *)
(* pointer left dangling by a call is not hidden by an allocation of the   *)
(* same call), and whether anything was ever freed that was not live.      *)
(***************************************************************************)
EXTENDS Integers, Sequences, FiniteSets

CONSTANTS NULL, Lower

Texts == DOMAIN Lower

Pointer(t, a) == [text |-> t, addr |-> a]

(* What a pointer points at. *)
TextOf(p) == IF p = NULL THEN NULL ELSE p.text

-----------------------------------------------------------------------------
(* Memory. *)

EmptyHeap == [live |-> {}, used |-> {}, bad |-> FALSE]

(* The heap as a call finds it. *)
Settled(h) == [h EXCEPT !.used = h.live]

calloc(h) == CHOOSE a \in 1 .. Cardinality(h.used) + 1 :
               a \notin h.used /\ \A b \in 1 .. a - 1 : b \in h.used

(* A new object with text t. *)
NewObject(t, h) ==
  LET a == calloc(h)
  IN  [p |-> Pointer(t, a), h |-> [h EXCEPT !.live = @ \cup {a}, !.used = @ \cup {a}]]

free(p, h) ==
  IF p = NULL THEN h
  ELSE [h EXCEPT !.live = @ \ {p.addr}, !.bad = @ \/ p.addr \notin h.live]

-----------------------------------------------------------------------------

equal_ptr(a, b) == a = b

equal_strcmp(a, b) ==
  a = b \/ (a # NULL /\ b # NULL /\ a.text = b.text)

equal_strcasecmp(a, b) ==
  a = b \/ (a # NULL /\ b # NULL /\ Lower[a.text] = Lower[b.text])

(* Unlike the others, not reflexive at NULL. *)
equal_stp(a, b) == a # NULL /\ b # NULL /\ a.text = b.text

(* NULLs last; TRUE of a pointer and itself. *)
less_than_strcmp(a, b) ==
  IF a = NULL \/ b = NULL THEN b = NULL ELSE a = b \/ a.text < b.text

less_than_strcasecmp(a, b) ==
  IF a = NULL \/ b = NULL THEN b = NULL ELSE a = b \/ Lower[a.text] < Lower[b.text]

(* A copy of what is pointed at, or NULL. *)
clone_strdup(p, h) ==
  IF p = NULL THEN [p |-> NULL, h |-> h] ELSE NewObject(p.text, h)

clone_size_t_ptr(p, h) ==
  IF p = NULL THEN [p |-> NULL, h |-> h] ELSE NewObject(p.text, h)

-----------------------------------------------------------------------------
(* The optional functions of a container's parameters, by name. *)

Equal(fn, a, b) ==
  CASE fn = "ptr"        -> equal_ptr(a, b)
    [] fn = "strcmp"     -> equal_strcmp(a, b)
    [] fn = "strcasecmp" -> equal_strcasecmp(a, b)
    [] fn = "stp"        -> equal_stp(a, b)

LessThan(fn, a, b) ==
  CASE fn = "strcmp"     -> less_than_strcmp(a, b)
    [] fn = "strcasecmp" -> less_than_strcasecmp(a, b)

Clone(fn, p, h) ==
  CASE fn = "none"   -> [p |-> p, h |-> h]
    [] fn = "strdup" -> clone_strdup(p, h)
    [] fn = "size_t" -> clone_size_t_ptr(p, h)

(* What an equality function looks at: equal pointers have equal aspects. *)
Aspect(fn, p) ==
  CASE fn = "ptr" -> p
    [] p = NULL -> NULL
    [] fn = "strcasecmp" -> Lower[p.text]
    [] OTHER -> p.text

\* Mutant: a pointer held twice is freed twice.
FreeEach(acc, p) ==
  IF p = NULL THEN acc ELSE [acc EXCEPT !.h = free(p, acc.h)]

(* Free p unless the loop that keeps the array `freed' freed it before. *)
FreeOnce(acc, p) ==
  IF p = NULL \/ p \in acc.freed THEN acc
  ELSE [h |-> free(p, acc.h), freed |-> acc.freed \cup {p}]

=============================================================================
