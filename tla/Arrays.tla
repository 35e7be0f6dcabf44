------------------------------- MODULE Arrays -------------------------------
(***************************************************************************)
(* What the array-backed containers of lib/alex-c do to their arrays.  An  *)
(* array is a sequence whose length is its capacity: slot i of the code is *)
(* element i + 1.  Sizes and indices are zero-based as in the code.        *)
(***************************************************************************)
EXTENDS Fn, SequencesExt

(* PLIST_, PSET_ and PPMAP_DEFAULT_INITIAL and _GROW. *)
DefaultSize == 10

OrDefault(n) == IF n # 0 THEN n ELSE DefaultSize

Nulls(n) == [i \in 1 .. n |-> NULL]

(* Slot i assigned. *)
Assign(arr, i, p) == [j \in DOMAIN arr |-> IF j = i + 1 THEN p ELSE arr[j]]

\* Mutant: the last slot is moved into the hole.
ShiftDownLast(arr, size, i) ==
  [j \in DOMAIN arr |-> IF j = size THEN NULL ELSE IF j = i + 1 THEN arr[size] ELSE arr[j]]

(* The removed slot i overwritten by the ones after it, the last one NULL. *)
ShiftDown(arr, size, i) ==
  [j \in DOMAIN arr |-> IF j = size THEN NULL
                        ELSE IF j > i /\ j < size THEN arr[j + 1]
                        ELSE arr[j]]

(* memset of the first n slots. *)
Zeroed(arr, n) == [j \in DOMAIN arr |-> IF j <= n THEN NULL ELSE arr[j]]

Lowest(S) == CHOOSE i \in S : \A j \in S : i <= j

Highest(S) == CHOOSE i \in S : \A j \in S : i >= j

(* One pass of the insertion for a gap at place i (zero-based): tmp moves  *)
(* down n times, from at(0) = i to at(n), where the loop stops.            *)
Sifted(vals, i, gap, stops(_)) ==
  LET at(m) == i - m * gap
      n     == Lowest({m \in 0 .. i : at(m) >= 0 /\ stops(at(m))})
  IN  [k \in DOMAIN vals |->
         IF k = at(n) + 1 THEN vals[i + 1]
         ELSE IF \E m \in 0 .. n - 1 : k = at(m) + 1 THEN vals[k - gap]
         ELSE vals[k]]

\* Mutant: the first slot is not compared.
SiftDownShort(vals, i, gap, less) ==
  Sifted(vals, i, gap, LAMBDA j : ~(j > gap /\ LessThan(less, vals[i + 1], vals[j - gap + 1])))

SiftDown(vals, i, gap, less) ==
  Sifted(vals, i, gap, LAMBDA j : ~(j >= gap /\ LessThan(less, vals[i + 1], vals[j - gap + 1])))

(* The places from gap to size - 1, one after the other. *)
Pass(vals, size, gap, less) ==
  LET upto[n \in 0 .. size] ==
        IF n <= gap THEN vals ELSE SiftDown(upto[n - 1], n - 1, gap, less)
  IN  upto[size]

Gaps == <<701, 301, 132, 57, 23, 10, 4, 1>>

ShellSort(vals, size, less) ==
  LET after[g \in 0 .. Len(Gaps)] ==
        IF g = 0 THEN vals ELSE Pass(after[g - 1], size, Gaps[g], less)
  IN  after[Len(Gaps)]

=============================================================================
