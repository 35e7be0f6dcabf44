-------------------------------- MODULE Cfg --------------------------------
(***************************************************************************)
(* The part of the configuration that decides what is desired of a head:   *)
(* struct Cfg of src/inc/cfg.h, the conditions of src/src/cfg/condition.c  *)
(* and src/src/cfg/disabled.c, and the merges of DISABLED and VRR_OFF in   *)
(* src/src/cfg/cfg.c.                                                      *)
(*                                                                         *)
(* A NAME_DESC string is modelled by the set of heads it matches           *)
(* (head_matches_name_desc), so h \in name_desc stands for the match.      *)
(***************************************************************************)
EXTENDS Mode

CONSTANTS Heads,   \* zwlr_output_head_v1 objects, each plugged in at most once
          Scales   \* what SCALE and TRANSFORM give a head

NameDesc == SUBSET Heads

LidStates == {"absent", "open", "closed"}  \* g_lid NULL, or g_lid->closed

Condition == [plugged : SUBSET NameDesc, unplugged : SUBSET NameDesc,
              lid : {"any", "LID_OPEN", "LID_CLOSED", "LID_NOT_PRESENT"}]

Disabled == [name_desc : NameDesc, conditions : SUBSET Condition]

CfgRec == [disableds : SUBSET Disabled,
           adaptive_sync_off : SUBSET NameDesc,
           modes : [Heads -> CfgMode \cup {NULL}],
           scales : [Heads -> Scales],
           order : [Heads -> Nat],         \* place of the head in ORDER
           laptop_lid_monitor : BOOLEAN]

ASSUME CfgAssumption == NULL \notin Heads \cup Scales

\* Mutant: a closed lid disables the only display too.
cfg_condition_met_alone(condition, heads, g_lid, fail_lid_closed) ==
    /\ \A nd \in condition.plugged : nd \cap heads # {}
    /\ \A nd \in condition.unplugged : nd \cap heads = {}
    /\ condition.lid = "LID_CLOSED" => g_lid = "closed"
    /\ condition.lid = "LID_OPEN" => g_lid = "open"
    /\ condition.lid = "LID_NOT_PRESENT" => g_lid = "absent"

cfg_condition_met(condition, heads, g_lid, fail_lid_closed) ==
    /\ \A nd \in condition.plugged : nd \cap heads # {}
    /\ \A nd \in condition.unplugged : nd \cap heads = {}
    /\ condition.lid = "LID_CLOSED" => g_lid = "closed" /\ ~fail_lid_closed
    /\ condition.lid = "LID_OPEN" => g_lid = "open"
    /\ condition.lid = "LID_NOT_PRESENT" => g_lid = "absent"

(* One matching entry without conditions, or with one condition that is    *)
(* met, disables the head.                                                 *)
cfg_disabled_applies_to_head(disableds, h, heads, g_lid, fail_lid_closed) ==
    \E d \in disableds :
        /\ h \in d.name_desc
        /\ \/ d.conditions = {}
           \/ \E c \in d.conditions : cfg_condition_met(c, heads, g_lid, fail_lid_closed)

cfg_disabled_conditionally_for_head(disabled, h) ==
    disabled.conditions # {} /\ h \in disabled.name_desc

(* cfg_disabled_cond_with_name_desc compares the two strings in both       *)
(* directions; two names clash here when some head answers to both.        *)
cfg_disabled_filter_conditional_clashes(disableds, name_desc) ==
    \E d \in disableds : d.conditions # {} /\ d.name_desc \cap name_desc # {}

(* The DISABLED part of cfg_merge_set, cfg_merge_del and cfg_merge_toggle  *)
(* for the one unconditional entry an IPC request carries.                 *)
cfg_merge_disabled(disableds, name_desc, command) ==
    LET others == {d \in disableds : d.name_desc # name_desc}
        entry  == {[name_desc |-> name_desc, conditions |-> {}]}
    IN  CASE command = "CFG_SET" -> others \cup entry
          [] command = "CFG_DEL" -> others
          [] command = "CFG_TOGGLE" -> IF others = disableds THEN disableds \cup entry ELSE others

(* The VRR_OFF part of the same three.                                     *)
cfg_merge_adaptive_sync_off(off, name_desc, command) ==
    CASE command = "CFG_SET" -> off \cup {name_desc}
      [] command = "CFG_DEL" -> off \ {name_desc}
      [] command = "CFG_TOGGLE" -> IF name_desc \in off THEN off \ {name_desc} ELSE off \cup {name_desc}
=============================================================================
