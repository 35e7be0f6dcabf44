------------------------------ MODULE CfgMerge ------------------------------
(***************************************************************************)
(* The whole of struct Cfg as the file and IPC requests change it:         *)
(* defaults, validation, the migration of version 1 files, the merges of   *)
(* src/src/cfg/cfg.c, and what a cfg.yaml holds of it (src/src/yaml).      *)
(*                                                                         *)
(* NULL stands for an element that is not set.  A map keyed by NAME_DESC   *)
(* is a set of entries, the order of which is not kept.  scales stands for *)
(* SCALE and TRANSFORM, which are handled alike.  AUTO_SCALE_DPI stands    *)
(* for the elements that only a file sets; the others are left out.        *)
(***************************************************************************)
EXTENDS Integers, Sequences

CONSTANTS Names,         \* NAME_DESC strings
          LidName,       \* DISABLED_LAPTOP_DISPLAY_NAME_DESC_DEFAULT
          Clashes,       \* pairs of names of which one matches the other
          ScaleValues,   \* of SCALE and TRANSFORM
          NULL

ASSUME CfgMergeAssumption ==
    /\ LidName \in Names
    /\ Clashes \subseteq Names \X Names
    /\ NULL \notin Names \cup {"ROW", "COL", "ON", "OFF"}
    /\ NULL \notin {"TOP", "MIDDLE", "BOTTOM", "LEFT", "RIGHT", "", "default", "command"}

AUTO_SCALE_DPI_MIN == 8
AUTO_SCALE_DPI_DEFAULT == 96

OnOff == {"ON", "OFF"}
Aligns == {"TOP", "MIDDLE", "BOTTOM", "LEFT", "RIGHT"}
Commands == {"", "default", "command"}   \* CALLBACK_CMD; "" means no callback

Entries(V) == [name : Names, val : V]

\* a DISABLED entry applies always or under its IF conditions
DisabledEntries == Entries({"always", "IF"})

(* struct Mode of a MODE: -1 is not set.                                   *)
UserModes == [width : Int, height : Int, refresh_mhz : Int,
              max : BOOLEAN, max_preferred_refresh : BOOLEAN]

CfgData == [arrange : {"ROW", "COL", NULL}, align : Aligns \cup {NULL},
            scaling : OnOff \cup {NULL}, auto_scale : OnOff \cup {NULL},
            auto_scale_dpi : Int,               \* 0 is not set
            callback_cmd : Commands \cup {NULL},
            order_name_desc : Seq(Names),
            scales : SUBSET Entries(ScaleValues),
            modes : SUBSET Entries(UserModes),
            adaptive_sync_off : SUBSET Names,
            disableds : SUBSET DisabledEntries]

cfg_init == [arrange |-> NULL, align |-> NULL, scaling |-> NULL, auto_scale |-> NULL,
             auto_scale_dpi |-> 0, callback_cmd |-> NULL, order_name_desc |-> <<>>,
             scales |-> {}, modes |-> {}, adaptive_sync_off |-> {}, disableds |-> {}]

Set(value, default) == IF value = NULL THEN default ELSE value

HasName(entries, name) == \E e \in entries : e.name = name

cfg_disabled_add_lid_condition(disableds, name) ==
    IF HasName(disableds, name) THEN disableds
    ELSE disableds \cup {[name |-> name, val |-> "IF"]}

cfg_apply_defaults(cfg, disableds_empty) ==
    [cfg EXCEPT !.arrange = Set(@, "ROW"), !.align = Set(@, "TOP"),
                !.scaling = Set(@, "ON"), !.auto_scale = Set(@, "ON"),
                !.auto_scale_dpi = IF @ = 0 THEN AUTO_SCALE_DPI_DEFAULT ELSE @,
                !.callback_cmd = Set(@, "default"),
                !.disableds = IF @ = {} /\ ~disableds_empty
                              THEN cfg_disabled_add_lid_condition(@, LidName) ELSE @]

AlignsOf(arrange) == IF arrange = "COL" THEN {"LEFT", "MIDDLE", "RIGHT"}
                                        ELSE {"TOP", "MIDDLE", "BOTTOM"}

mode_is_invalid(mode) ==
    \/ mode.width # -1 /\ mode.width <= 0
    \/ mode.height # -1 /\ mode.height <= 0
    \/ mode.refresh_mhz # -1 /\ mode.refresh_mhz <= 0
    \/ /\ ~mode.max /\ ~mode.max_preferred_refresh
       /\ mode.width = -1 \/ mode.height = -1

cfg_validate_fix(cfg) ==
    [cfg EXCEPT !.align = IF @ \in AlignsOf(cfg.arrange) THEN @
                          ELSE IF cfg.arrange = "COL" THEN "LEFT" ELSE "TOP",
                !.auto_scale_dpi = IF @ <= AUTO_SCALE_DPI_MIN THEN AUTO_SCALE_DPI_DEFAULT ELSE @,
                !.modes = {e \in @ : ~mode_is_invalid(e.val)}]

-----------------------------------------------------------------------------
(* Merges.                                                                 *)

put_all(to, from) == {e \in to : ~HasName(from, e.name)} \cup from
remove_in(to, from) == {e \in to : ~HasName(from, e.name)}

cfg_merge_set(to, from) ==
    [to EXCEPT !.align = Set(from.align, @), !.arrange = Set(from.arrange, @),
               !.auto_scale = Set(from.auto_scale, @), !.scaling = Set(from.scaling, @),
               !.callback_cmd = Set(from.callback_cmd, @),
               !.disableds = put_all(@, from.disableds),
               !.modes = put_all(@, from.modes),
               !.scales = put_all(@, from.scales),
               !.adaptive_sync_off = @ \cup from.adaptive_sync_off,
               !.order_name_desc = IF from.order_name_desc = <<>> THEN @ ELSE from.order_name_desc]

cfg_merge_del(to, from) ==
    [to EXCEPT !.disableds = remove_in(@, from.disableds),
               !.modes = remove_in(@, from.modes),
               !.scales = remove_in(@, from.scales),
               !.adaptive_sync_off = @ \ from.adaptive_sync_off,
               !.callback_cmd = IF from.callback_cmd = NULL THEN @ ELSE ""]

on_off_invert(val) == IF val = "ON" THEN "OFF" ELSE "ON"

cfg_merge_toggle(to, from) ==
    [to EXCEPT !.scaling = IF from.scaling = "ON" THEN on_off_invert(@) ELSE @,
               !.auto_scale = IF from.auto_scale = "ON" THEN on_off_invert(@) ELSE @,
               !.adaptive_sync_off = (@ \ from.adaptive_sync_off) \cup (from.adaptive_sync_off \ @),
               !.disableds = remove_in(@, from.disableds)
                             \cup {e \in from.disableds : ~HasName(to.disableds, e.name)}]

merged(to, from, command) ==
    CASE command = "CFG_SET" -> cfg_merge_set(to, from)
      [] command = "CFG_DEL" -> cfg_merge_del(to, from)
      [] command = "CFG_TOGGLE" -> cfg_merge_toggle(to, from)

(* ORDER is compared as a set: as many names, and the same ones.           *)
sset_equal(a, b) ==
    /\ Len(a) = Len(b)
    /\ \A i \in 1..Len(b) : \E j \in 1..Len(a) : a[j] = b[i]

cfg_equal(a, b) ==
    /\ [a EXCEPT !.order_name_desc = <<>>] = [b EXCEPT !.order_name_desc = <<>>]
    /\ sset_equal(a.order_name_desc, b.order_name_desc)

KeptIfEqual(cfg, to) == IF cfg_equal(cfg, to) THEN to ELSE cfg

\* Mutant: the merged configuration is not validated.
cfg_merge_unfixed(to, from, command) == KeptIfEqual(merged(to, from, command), to)

(* What g_cfg is after a merge.  One that is equal is dropped (the code    *)
(* returns NULL), and g_cfg stays as it was.                               *)
cfg_merge(to, from, command) == KeptIfEqual(cfg_validate_fix(merged(to, from, command)), to)

cfg_disabled_cond_with_name_desc(entry, name) ==
    /\ entry.val = "IF"
    /\ entry.name = name \/ {<<entry.name, name>>, <<name, entry.name>>} \cap Clashes # {}

(* What is left of a request after its DISABLED entries that clash with a  *)
(* conditional one were dropped, and the ones in overridden, which heads   *)
(* took as overrides (what a head does with them is modelled in Displ).    *)
ipc_request_filter(from, disableds, overridden) ==
    [from EXCEPT !.disableds =
        {e \in @ : /\ e.name \notin overridden
                  /\ \A d \in disableds : ~cfg_disabled_cond_with_name_desc(d, e.name)}]

-----------------------------------------------------------------------------
(* A cfg.yaml: the elements it sets, whether it has DISABLED, and for a    *)
(* version 1 file the name its lid condition is migrated to.               *)
Files == [cfg : CfgData, disabled : BOOLEAN, v1 : Names \cup {NULL}]

disableds_empty(file) == file.disabled /\ file.cfg.disableds = {}

cfg_migrate_v1(cfg, name) ==
    IF name = NULL THEN cfg
    ELSE [cfg EXCEPT !.disableds = cfg_disabled_add_lid_condition(@, name)]

(* What reading a file leaves in g_cfg.                                    *)
load(file) ==
    cfg_validate_fix(cfg_apply_defaults(cfg_migrate_v1(file.cfg, file.v1), disableds_empty(file)))

(* A MODE is written as the one thing it is taken to say.                  *)
yaml_map_from_cfg_mode(mode) ==
    IF mode.max
    THEN [width |-> -1, height |-> -1, refresh_mhz |-> -1,
          max |-> TRUE, max_preferred_refresh |-> FALSE]
    ELSE IF mode.max_preferred_refresh
    THEN [width |-> -1, height |-> -1, refresh_mhz |-> -1,
          max |-> FALSE, max_preferred_refresh |-> TRUE]
    ELSE mode

yaml_map_from_cfg_modes(modes) ==
    {[name |-> e.name, val |-> yaml_map_from_cfg_mode(e.val)] : e \in modes}

\* Mutant: an empty DISABLED is left out of the file.
yaml_map_from_cfg_nonempty(cfg) ==
    [cfg |-> [cfg EXCEPT !.modes = yaml_map_from_cfg_modes(@)],
     disabled |-> cfg.disableds # {}, v1 |-> NULL]

(* Every element that is set is written; an empty map is written as an     *)
(* empty value, which for DISABLED is not the same as no element.          *)
yaml_map_from_cfg(cfg) ==
    [cfg |-> [cfg EXCEPT !.modes = yaml_map_from_cfg_modes(@)],
     disabled |-> TRUE, v1 |-> NULL]

default_cfg == cfg_validate_fix(cfg_apply_defaults(cfg_init, FALSE))
=============================================================================
