----------------------------- MODULE HeadState -----------------------------
(***************************************************************************)
(* struct Head and the operations on it: src/inc/head.h, src/src/head.c    *)
(* and the per-head steps of src/src/desire.c.                             *)
(*                                                                         *)
(* A HeadState is a current, desired or physical state.  Scale and         *)
(* transform are one value of Scales.  A position is the set of heads      *)
(* placed before this one with their mode and scale, from which            *)
(* desire_positions sums it (ARRANGE: ROW, ALIGN: TOP); {} is the origin.  *)
(***************************************************************************)
EXTENDS Cfg

Overrides == {"NoOverride", "OverrideTrue", "OverrideFalse"}

Positions == SUBSET (Heads \X Modes \X Scales)

HeadStates == [zmode : Modes \cup {NULL}, enabled : BOOLEAN,
               scale : Scales \cup {NULL}, pos : Positions, adaptive_sync : BOOLEAN]

HeadRec == [cur : HeadStates, des : HeadStates,
            modes : SUBSET Modes, modes_failed : SUBSET Modes,
            zmode_pref : Modes \cup {NULL},
            overrided_enabled : Overrides,
            reapply_required : BOOLEAN,
            adaptive_sync_failed : BOOLEAN,
            zconfig : BOOLEAN]              \* holds a configuration_head object

ZeroState == [zmode |-> NULL, enabled |-> FALSE, scale |-> NULL, pos |-> {},
              adaptive_sync |-> FALSE]

head_init == [cur |-> ZeroState, des |-> ZeroState, modes |-> {}, modes_failed |-> {},
              zmode_pref |-> NULL, overrided_enabled |-> "NoOverride",
              reapply_required |-> FALSE, adaptive_sync_failed |-> FALSE,
              zconfig |-> FALSE]

-----------------------------------------------------------------------------
(* Predicates and operations of head.c.                                    *)

head_current_not_desired(r) == r.reapply_required \/ r.des # r.cur

head_current_mode_not_desired(r) == r.des.zmode # r.cur.zmode

head_current_adaptive_sync_not_desired(r) == r.des.adaptive_sync # r.cur.adaptive_sync

(* A finished mode is dropped from modes; modes_failed is not looked at.   *)
head_release_mode(r, zmode) ==
    LET clear(s) == [s EXCEPT !.zmode = IF @ = zmode THEN NULL ELSE @]
    IN  [r EXCEPT !.modes = @ \ {zmode},
                  !.zmode_pref = IF @ = zmode THEN NULL ELSE @,
                  !.cur = clear(@),
                  !.des = clear(@)]

(* The first of several preferred modes wins while both are in modes.      *)
head_set_mode_pref(r, zmode) ==
    IF r.zmode_pref \in r.modes /\ zmode \in r.modes /\ r.zmode_pref # zmode
    THEN r ELSE [r EXCEPT !.zmode_pref = zmode]

(* The part of heads_reapply for one head.                                 *)
head_reapply(r) ==
    [r EXCEPT !.modes = @ \cup r.modes_failed,
              !.modes_failed = {},
              !.reapply_required = TRUE,
              !.cur.zmode = NULL]

head_apply_disabled_toggle(r) ==
    [r EXCEPT !.overrided_enabled =
        IF @ # "NoOverride" THEN "NoOverride"
        ELSE IF r.cur.enabled THEN "OverrideFalse" ELSE "OverrideTrue"]

(* A DISABLED request that meets a conditional DISABLED of the head        *)
(* becomes an override of the head's state.                                *)
head_overrides_ipc_disabled(h, disableds, name_desc) ==
    h \in name_desc /\ \E d \in disableds : cfg_disabled_conditionally_for_head(d, h)

head_override_ipc_disableds(r, command) ==
    IF \/ command = "CFG_TOGGLE"
       \/ command = "CFG_DEL" /\ ~r.cur.enabled
       \/ command = "CFG_SET" /\ r.cur.enabled
    THEN head_apply_disabled_toggle(r) ELSE r

-----------------------------------------------------------------------------
(* desire.c for one head: everything but the position.  The desired state  *)
(* starts as a copy of the current one.                                    *)

desire_override(r, auto) ==
    IF r.overrided_enabled # "NoOverride" /\ auto = (r.overrided_enabled = "OverrideTrue")
    THEN "NoOverride" ELSE r.overrided_enabled

desire_enabled(r, auto) ==
    CASE desire_override(r, auto) = "NoOverride" -> auto
      [] desire_override(r, auto) = "OverrideTrue" -> TRUE
      [] desire_override(r, auto) = "OverrideFalse" -> FALSE

desire_head(h, r, cfg, auto) ==
    LET zmode == head_find_mode(r.modes, r.zmode_pref, cfg.modes[h])
        on    == desire_enabled(r, auto) /\ zmode # NULL
        vrr   == \A nd \in cfg.adaptive_sync_off : h \notin nd
    IN  [r EXCEPT !.overrided_enabled = desire_override(r, auto),
                  !.des = [zmode   |-> IF on THEN zmode ELSE r.cur.zmode,
                           enabled |-> on /\ ~r.reapply_required,
                           scale   |-> IF on THEN cfg.scales[h] ELSE r.cur.scale,
                           pos     |-> r.cur.pos,
                           adaptive_sync |-> IF on /\ ~r.adaptive_sync_failed
                                             THEN vrr ELSE r.cur.adaptive_sync]]
=============================================================================
