-------------------------------- MODULE Mode --------------------------------
(***************************************************************************)
(* The mode selection of src/src/mode.c and head_find_mode of              *)
(* src/src/head.c, over the set of modes a head currently offers.          *)
(*                                                                         *)
(* A zwlr_output_mode_v1 is an element of Modes; ModeInfo gives its size   *)
(* and refresh.  The code scans a plist sorted from the top down, or a     *)
(* ppmap in insertion order.  Over a set, the first match of a sorted scan *)
(* is the match that no other match exceeds.  Two modes that tie are told  *)
(* apart only by their insertion order, which ModeScan keeps and this      *)
(* module does not: the pick among them is some fixed one.                 *)
(***************************************************************************)
EXTENDS Integers

CONSTANTS Modes,     \* zwlr_output_mode_v1 objects of every head
          ModeInfo,  \* struct Mode: the size and refresh of each
          NULL

ModeRec == [width : Nat, height : Nat, refresh_mhz : Nat]

(* A user MODE: refresh -1 when unspecified, max for MAX, and              *)
(* max_preferred_refresh for MAX preferred refresh.                        *)
CfgMode == [width : Int, height : Int, refresh_mhz : Int,
            max : BOOLEAN, max_preferred_refresh : BOOLEAN]

ASSUME ModeAssumption == /\ ModeInfo \in [Modes -> ModeRec]
                         /\ NULL \notin Modes
                         /\ NULL \notin CfgMode

mode_equal_res(a, b) == a.width = b.width /\ a.height = b.height

mode_equal_res_mhz(a, b) == mode_equal_res(a, b) /\ a.refresh_mhz = b.refresh_mhz

mode_greater_than_res_refresh(a, b) ==
    \/ a.width > b.width
    \/ a.width = b.width /\ a.height > b.height
    \/ mode_equal_res(a, b) /\ a.refresh_mhz > b.refresh_mhz

\* int32_t division truncates; a refresh is never negative here
mode_hz_rounded(mode) == (mode.refresh_mhz + 500) \div 1000

mode_satisfies(mode, target) ==
    \/ target.max
    \/ /\ mode_equal_res(mode, target)
       /\ \/ target.refresh_mhz = -1
          \/ mode_hz_rounded(mode) = mode_hz_rounded(target)

(* plist_find on the sorted candidates: NULL when nothing matches.         *)
First(S) ==
    IF \E m \in S : \A n \in S : ~mode_greater_than_res_refresh(ModeInfo[n], ModeInfo[m])
    THEN CHOOSE m \in S : \A n \in S : ~mode_greater_than_res_refresh(ModeInfo[n], ModeInfo[m])
    ELSE NULL

mode_max_refresh(target, S) == First({m \in S : mode_equal_res(ModeInfo[m], target)})

mode_best_satisfying(target, S) ==
    LET exact == {m \in S : mode_equal_res_mhz(ModeInfo[m], target)}
    IN  First(IF exact # {} THEN exact
                            ELSE {m \in S : mode_satisfies(ModeInfo[m], target)})

Area(m) == ModeInfo[m].width * ModeInfo[m].height

mode_max(S) ==
    LET largest(m) == \A n \in S : /\ Area(n) <= Area(m)
                                   /\ mode_equal_res(ModeInfo[n], ModeInfo[m])
                                         => ModeInfo[n].refresh_mhz <= ModeInfo[m].refresh_mhz
    IN  IF \E m \in S : largest(m) THEN CHOOSE m \in S : largest(m) ELSE NULL

Or(m, n) == IF m # NULL THEN m ELSE n

(* The mode a head with the modes S and the preferred mode zmode_pref is   *)
(* given under the user mode cfg_mode, NULL when none is configured.       *)
head_find_mode(S, zmode_pref, cfg_mode) ==
    LET pref == IF zmode_pref \in S THEN zmode_pref ELSE NULL
        best == IF cfg_mode = NULL THEN NULL ELSE mode_best_satisfying(cfg_mode, S)
        user == IF cfg_mode # NULL /\ pref # NULL /\ cfg_mode.max_preferred_refresh
                THEN Or(best, mode_max_refresh(ModeInfo[pref], S))
                ELSE best
    IN  IF S = {} THEN NULL ELSE Or(user, Or(pref, mode_max(S)))
=============================================================================
