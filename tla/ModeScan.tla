------------------------------ MODULE ModeScan ------------------------------
(***************************************************************************)
(* mode_max of src/src/mode.c as the loop it is: one pass over the modes   *)
(* of a head in the order they were announced.  Mode gives the set-level   *)
(* result that the rest of the project uses; here the loop is shown to     *)
(* reach it whatever the order.                                            *)
(***************************************************************************)
EXTENDS Mode, Sequences

CONSTANT Announced   \* the sequences of modes a head may announce

ASSUME ScanAssumption == Announced \subseteq Seq(Modes)

VARIABLES modes,  \* head->modes, in insertion order
          i,      \* the next mode of the iterator
          max     \* mode_max

scanVars == <<modes, i, max>>

ScanInit == modes \in Announced /\ i = 1 /\ max = NULL

\* Mutant: a higher refresh wins at any size.
ExceedsRefresh(m, n) ==
    \/ n = NULL
    \/ Area(m) > Area(n)
    \/ ModeInfo[m].refresh_mhz > ModeInfo[n].refresh_mhz

(* More pixels win; between modes of the same size a higher refresh wins.  *)
Exceeds(m, n) ==
    \/ n = NULL
    \/ Area(m) > Area(n)
    \/ /\ mode_equal_res(ModeInfo[m], ModeInfo[n])
       /\ ModeInfo[m].refresh_mhz > ModeInfo[n].refresh_mhz

ScanNext ==
    /\ i <= Len(modes)
    /\ max' = IF Exceeds(modes[i], max) THEN modes[i] ELSE max
    /\ i' = i + 1
    /\ UNCHANGED modes

ScanSpec == ScanInit /\ [][ScanNext]_scanVars

Seen == {modes[k] : k \in 1..(i - 1)}

(* Whatever the order the modes were announced in, mode_max has after each *)
(* turn one of the modes seen, none seen has more pixels, and none of its  *)
(* size has a higher refresh: no later mode may displace the best refresh  *)
(* of the largest size.                                                    *)
MaxOfSeen ==
    IF i = 1 THEN max = NULL
    ELSE /\ max \in Seen
         /\ \A m \in Seen : /\ Area(m) <= Area(max)
                            /\ mode_equal_res(ModeInfo[m], ModeInfo[max])
                                  => ModeInfo[m].refresh_mhz <= ModeInfo[max].refresh_mhz
=============================================================================
