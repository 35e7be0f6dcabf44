--------------------------------- MODULE Yaml ---------------------------------
(***************************************************************************)
(* The documents of way-displays: cfg.yaml of version 2 and of version 1,  *)
(* IPC requests and IPC responses, read (src/src/yaml/unmarshal-types.c,   *)
(* unmarshal-types-v1.c, unmarshal.c) and written (marshal-types.c,        *)
(* marshal.c).  What cannot be read is skipped or takes a default.         *)
(*                                                                         *)
(* Scales and refresh rates are kept in thousandths, as in the code; the   *)
(* scale of a head in 1/256 (wl_fixed_t).  NULL is what is not set.  Of a  *)
(* head, name stands for all its texts and width_mm for both its lengths.  *)
(* A mode is in a head's modes or modes_failed under itself: in a response *)
(* there are no zwlr modes.  Log lines about bad input are left out.       *)
(***************************************************************************)
EXTENDS YamlNode

CONSTANTS BadRegexes,  \* the names that are regular expressions that do not compile
          Anchored     \* the regular expression for a LAPTOP_DISPLAY_PREFIX, by prefix

Milli(num) == (num + 50) \div 100    \* lround(x * 1000) of a number that is not negative

mode_init == [width |-> -1, height |-> -1, refresh_mhz |-> -1, max |-> FALSE, max_preferred_refresh |-> FALSE]

cfg_init ==
  [arrange |-> NULL, align |-> NULL, order_name_desc |-> <<>>, scaling |-> NULL, auto_scale |-> NULL,
   scales |-> <<>>, scale_round_to |-> 0, scale_round_strategy |-> NULL, modes |-> <<>>, transforms |-> <<>>,
   adaptive_sync_off |-> <<>>, callback_cmd |-> NULL, laptop_lid_monitor |-> NULL, log_threshold |-> NULL,
   disableds |-> <<>>, disableds_empty |-> FALSE, auto_scale_dpi |-> 0, auto_scale_min |-> 0, auto_scale_max |-> 0]

yaml_valid_name_desc(pattern) == pattern \notin BadRegexes

yaml_scalar_to_name_desc(node) ==
  IF yaml_scalar_to_string(node) # NULL /\ yaml_valid_name_desc(node.text) THEN node.text ELSE NULL

yaml_seq_into_name_desc_sset(sset, node) ==
  FoldLeft(LAMBDA s, n : IF yaml_scalar_to_name_desc(n) = NULL THEN s ELSE AddTo(s, n.text), sset, Items(node))

-----------------------------------------------------------------------------
(* Elements keyed by NAME_DESC. *)

(* Of a node that is there, the number it must be; NULL spoils the mode. *)
Field(m, key, was) == IF HasKey(m, key) THEN yaml_scalar_to_int(Get(m, key)) ELSE was

Flag(m, key) == IF HasKey(m, key) THEN yaml_scalar_to_on_off(Get(m, key)) ELSE "OFF"

(* The mode the entries of m say, or NULL. *)
ModeOf(m) ==
  LET hz == IF HasKey(m, "HZ") THEN yaml_scalar_to_float(Get(m, "HZ")) ELSE 0
  IN  IF NULL \in {Field(m, "WIDTH", -1), Field(m, "HEIGHT", -1), hz, Flag(m, "MAX"), Flag(m, "MAX_PREFERRED_REFRESH")}
      THEN NULL
      ELSE [width |-> Field(m, "WIDTH", -1), height |-> Field(m, "HEIGHT", -1),
            refresh_mhz |-> IF HasKey(m, "HZ") THEN Milli(hz) ELSE -1,
            max |-> Flag(m, "MAX") = "ON", max_preferred_refresh |-> Flag(m, "MAX_PREFERRED_REFRESH") = "ON"]

yaml_map_to_cfg_mode(node) == IF IsType(node, "map") THEN ModeOf(yaml_map_to_spmap(node)) ELSE NULL

(* A positive number, in thousandths. *)
Positive(num) == IF num = NULL \/ (num # NULL /\ num <= 0) THEN NULL ELSE Milli(num)

ScaleOf(node) == Positive(yaml_scalar_to_float(node))

TransformOf(node) == yaml_scalar_to_enum(transforms, node)

(* The entries of a mapping with a valid name, in order. *)
Named(node) == SelectSeq(OrElse(yaml_map_to_spmap(node), <<>>), LAMBDA e : yaml_valid_name_desc(e.k))

yaml_map_into_cfg_modes(modes, node) ==
  FoldLeft(LAMBDA m, e : put_if_absent(m, e.k, yaml_map_to_cfg_mode(e.v)), modes, Named(node))

yaml_map_into_scales(scales, node) ==
  FoldLeft(LAMBDA m, e : put_if_absent(m, e.k, ScaleOf(e.v)), scales, Named(node))

yaml_map_into_transforms(ts, node) ==
  FoldLeft(LAMBDA m, e : put_if_absent(m, e.k, TransformOf(e.v)), ts, Named(node))

ConditionsSame(a, b) == a.lid = b.lid /\ ToSet(a.plugged) = ToSet(b.plugged) /\ ToSet(a.unplugged) = ToSet(b.unplugged)

(* The condition the entries of m say: a LID that is no lid spoils it, and *)
(* so does none of the three.                                              *)
ConditionOf(m) ==
  [plugged   |-> yaml_seq_into_name_desc_sset(<<>>, Get(m, "PLUGGED")),
   unplugged |-> yaml_seq_into_name_desc_sset(<<>>, Get(m, "UNPLUGGED")),
   lid       |-> yaml_scalar_to_enum(condition_lids, Get(m, "LID"))]

Says(condition) == condition.plugged # <<>> \/ condition.unplugged # <<>> \/ condition.lid # NULL

AddCondition(conditions, spoilt, condition) ==
  IF spoilt \/ ~Says(condition) \/ \E i \in DOMAIN conditions : ConditionsSame(conditions[i], condition)
  THEN conditions ELSE Append(conditions, condition)

ConditionFrom(conditions, m) ==
  IF m = NULL THEN conditions
  ELSE AddCondition(conditions, HasKey(m, "LID") /\ yaml_scalar_to_enum(condition_lids, Get(m, "LID")) = NULL, ConditionOf(m))

yaml_map_into_conditions(conditions, node) == ConditionFrom(conditions, yaml_map_to_spmap(node))

(* The conditions of IF; none at all spoil the entry. *)
SomeOf(conditions) == IF conditions = <<>> THEN NULL ELSE conditions

yaml_map_to_disabled_cond(node) ==
  SomeOf(FoldLeft(yaml_map_into_conditions, <<>>, Items(Get(yaml_map_to_spmap(node), "IF"))))

(* A scalar disables always: no conditions. *)
yaml_map_into_disableds(disableds, node) ==
  FoldLeft(LAMBDA m, e : CASE IsType(e.v, "scalar") -> Put(m, e.k, <<>>)
                           [] IsType(e.v, "map")    -> Put(m, e.k, yaml_map_to_disabled_cond(e.v))
                           [] OTHER -> m,
           disableds, Named(node))

-----------------------------------------------------------------------------
(* Version 1: sequences of mappings with a NAME_DESC. *)

PutNamed(to, name, value) == IF name = NULL THEN to ELSE put_if_absent(to, name, value)

NameIn(m) == yaml_scalar_to_name_desc(Get(m, "NAME_DESC"))

PutMode(modes, m) == IF m = NULL THEN modes ELSE PutNamed(modes, NameIn(m), ModeOf(m))
PutScale(scales, m) == IF m = NULL THEN scales ELSE PutNamed(scales, NameIn(m), ScaleOf(Get(m, "SCALE")))
PutTransform(ts, m) == IF m = NULL THEN ts ELSE PutNamed(ts, NameIn(m), TransformOf(Get(m, "TRANSFORM")))

yaml_map_into_cfg_modes_v1(modes, node) == PutMode(modes, yaml_map_to_spmap(node))

\* Mutant: of two entries for a name the last one counts.
yaml_map_into_scales_v1_last(scales, node) ==
  LET m == OrElse(yaml_map_to_spmap(node), <<>>)
  IN  IF NameIn(m) = NULL THEN scales ELSE Put(scales, NameIn(m), ScaleOf(Get(m, "SCALE")))

yaml_map_into_scales_v1(scales, node) == PutScale(scales, yaml_map_to_spmap(node))

yaml_map_into_transforms_v1(ts, node) == PutTransform(ts, yaml_map_to_spmap(node))

(* A name, or a NAME_DESC with an IF whose conditions join those there are. *)
PutDisabled(disableds, name, m) ==
  IF name = NULL THEN disableds
  ELSE Put(disableds, name, FoldLeft(yaml_map_into_conditions, OrElse(Get(disableds, name), <<>>), Items(Get(m, "IF"))))

JoinDisabled(disableds, m) == PutDisabled(disableds, NameIn(m), m)

yaml_node_into_disableds_v1(disableds, node) ==
  CASE IsType(node, "scalar") -> PutNamed(disableds, yaml_scalar_to_name_desc(node), <<>>)
    [] IsType(node, "map")    -> JoinDisabled(disableds, yaml_map_to_spmap(node))
    [] OTHER -> disableds

-----------------------------------------------------------------------------
(* A configuration. *)

NonZero(val, def) == IF val = 0 THEN def ELSE val

yaml_scalar_to_scale_round_to(node) == NonZero(scale_round_to_val(OrElse(yaml_scalar_to_float(node), 0)), 8)

SetDisableds(cfg, disableds) == [cfg EXCEPT !.disableds = disableds, !.disableds_empty = disableds = <<>>]

SetElement(cfg, key, node) ==
  LET is_seq == IsType(node, "sequence")
      is_map == IsType(node, "map")
  IN
  CASE key = "ARRANGE" -> [cfg EXCEPT !.arrange = OrElse(yaml_scalar_to_enum_start(arranges, node), "ROW")]
    [] key = "ALIGN" -> [cfg EXCEPT !.align = OrElse(yaml_scalar_to_enum_start(aligns, node), "TOP")]
    [] key = "ORDER" -> [cfg EXCEPT !.order_name_desc = yaml_seq_into_name_desc_sset(@, node)]
    [] key = "SCALING" -> [cfg EXCEPT !.scaling = OrElse(yaml_scalar_to_on_off(node), "ON")]
    [] key = "AUTO_SCALE" -> [cfg EXCEPT !.auto_scale = OrElse(yaml_scalar_to_on_off(node), "ON")]
    [] key = "SCALE" /\ is_map -> [cfg EXCEPT !.scales = yaml_map_into_scales(@, node)]
    [] key = "SCALE" /\ is_seq -> [cfg EXCEPT !.scales = FoldLeft(yaml_map_into_scales_v1, @, node.items)]
    [] key = "SCALE_ROUND_TO" -> [cfg EXCEPT !.scale_round_to = yaml_scalar_to_scale_round_to(node)]
    [] key = "SCALE_ROUND_STRATEGY" ->
         [cfg EXCEPT !.scale_round_strategy = OrElse(yaml_scalar_to_enum(scale_round_strategies, node), "NEAREST")]
    [] key = "MODE" /\ is_map -> [cfg EXCEPT !.modes = yaml_map_into_cfg_modes(@, node)]
    [] key = "MODE" /\ is_seq -> [cfg EXCEPT !.modes = FoldLeft(yaml_map_into_cfg_modes_v1, @, node.items)]
    [] key = "TRANSFORM" /\ is_map -> [cfg EXCEPT !.transforms = yaml_map_into_transforms(@, node)]
    [] key = "TRANSFORM" /\ is_seq -> [cfg EXCEPT !.transforms = FoldLeft(yaml_map_into_transforms_v1, @, node.items)]
    [] key = "VRR_OFF" -> [cfg EXCEPT !.adaptive_sync_off = yaml_seq_into_name_desc_sset(@, node)]
    [] key = "CALLBACK_CMD" -> [cfg EXCEPT !.callback_cmd = OrElse(yaml_scalar_to_string(node), "default")]
    [] key = "LAPTOP_LID_MONITOR" -> [cfg EXCEPT !.laptop_lid_monitor = OrElse(yaml_scalar_to_on_off(node), "ON")]
    [] key = "LOG_THRESHOLD" -> [cfg EXCEPT !.log_threshold = yaml_scalar_to_enum(log_thresholds, node)]
    [] key = "DISABLED" /\ is_map ->
         SetDisableds(cfg, yaml_map_into_disableds(cfg.disableds, node))
    [] key = "DISABLED" /\ is_seq -> [cfg EXCEPT !.disableds = FoldLeft(yaml_node_into_disableds_v1, @, node.items)]
    [] key = "DISABLED" /\ ~is_map /\ ~is_seq -> [cfg EXCEPT !.disableds_empty = TRUE]
    [] key = "AUTO_SCALE_DPI" -> [cfg EXCEPT !.auto_scale_dpi = OrElse(yaml_scalar_to_int(node), 96)]
    [] key = "AUTO_SCALE_MIN" -> [cfg EXCEPT !.auto_scale_min = OrElse(yaml_scalar_to_float(node), Unit)]
    [] key = "AUTO_SCALE_MAX" -> [cfg EXCEPT !.auto_scale_max = OrElse(yaml_scalar_to_float(node), -Unit)]
    [] OTHER -> cfg

yaml_map_to_cfg(node) ==
  FoldLeft(LAMBDA cfg, pair : IF IsType(pair[1], "scalar") THEN SetElement(cfg, Val(cfg_elements, pair[1].text), pair[2]) ELSE cfg,
           cfg_init, node.pairs)

(* uc.v1_present: a sequence with an item was read by a v1 function. *)
IsV1(node) ==
  \E i \in DOMAIN node.pairs : /\ yaml_scalar_to_string(node.pairs[i][1]) \in {"SCALE", "MODE", "TRANSFORM", "DISABLED"}
                               /\ Items(node.pairs[i][2]) # <<>>

(* The name the lid condition of a version 1 file is migrated to, or NULL. *)
PrefixOf(node) == yaml_scalar_to_string(Get(yaml_map_to_spmap(node), "LAPTOP_DISPLAY_PREFIX"))

LidClosed == [plugged |-> <<>>, unplugged |-> <<>>, lid |-> "CLOSED"]

LaptopDisplay == "!^eDP-[0-9]"    \* DISABLED_LAPTOP_DISPLAY_NAME_DESC_DEFAULT

(* cfg_migrate_v1: a DISABLED by lid for the laptop display. *)
cfg_migrate_v1(cfg, prefix) ==
  LET name == IF prefix = NULL THEN LaptopDisplay ELSE Anchored[prefix]
  IN  [cfg EXCEPT !.disableds = put_if_absent(@, name, <<LidClosed>>)]

Migrated(cfg, is_v1, prefix) ==
  IF is_v1 \/ prefix \notin {NULL, ""} THEN cfg_migrate_v1(cfg, IF prefix = "" THEN NULL ELSE prefix) ELSE cfg

yaml_root_to_cfg(root) ==
  IF IsType(root, "map") THEN Migrated(yaml_map_to_cfg(root), IsV1(root), PrefixOf(root)) ELSE NULL

(* cfg_apply_defaults: what a file leaves out.  No DISABLED at all stands  *)
(* for the laptop display by its lid.                                      *)
cfg_apply_defaults(cfg) ==
  [cfg EXCEPT !.arrange = OrElse(@, "ROW"), !.align = OrElse(@, "TOP"),
              !.scaling = OrElse(@, "ON"), !.auto_scale = OrElse(@, "ON"),
              !.scale_round_to = NonZero(@, 8), !.scale_round_strategy = OrElse(@, "NEAREST"),
              !.auto_scale_dpi = NonZero(@, 96), !.auto_scale_min = NonZero(@, Unit), !.auto_scale_max = NonZero(@, -Unit),
              !.callback_cmd = OrElse(@, "default"), !.laptop_lid_monitor = OrElse(@, "ON"),
              !.disableds = IF @ = <<>> /\ ~cfg.disableds_empty THEN <<[k |-> LaptopDisplay, v |-> <<LidClosed>>]>> ELSE @]

-----------------------------------------------------------------------------
(* A configuration written. *)

yaml_map_from_cfg_mode(mode) ==
  Mapping(IF mode.max THEN yaml_map_add_bool("MAX", TRUE)
          ELSE IF mode.max_preferred_refresh THEN yaml_map_add_bool("MAX_PREFERRED_REFRESH", TRUE)
          ELSE yaml_map_add_int("WIDTH", mode.width) \o yaml_map_add_int("HEIGHT", mode.height)
               \o (IF mode.refresh_mhz = -1 THEN <<>>
                   ELSE yaml_map_add_node("HZ", Number(Printed(mode.refresh_mhz * 100)))))

yaml_map_from_cfg_modes(modes) ==
  MapOrEmpty([i \in DOMAIN modes |-> <<Word(modes[i].k), yaml_map_from_cfg_mode(modes[i].v)>>])

yaml_map_from_condition(condition) ==
  Mapping((IF condition.plugged = <<>> THEN <<>> ELSE yaml_map_add_sset("PLUGGED", condition.plugged))
          \o (IF condition.unplugged = <<>> THEN <<>> ELSE yaml_map_add_sset("UNPLUGGED", condition.unplugged))
          \o yaml_map_add_enum("LID", condition_lids, condition.lid))

yaml_map_from_disabled(conditions) ==
  IF conditions = <<>> THEN Empty
  ELSE Mapping(yaml_map_add_plist("IF", [i \in DOMAIN conditions |-> yaml_map_from_condition(conditions[i])]))

yaml_map_from_disableds(disableds) ==
  MapOrEmpty([i \in DOMAIN disableds |-> <<Word(disableds[i].k), yaml_map_from_disabled(disableds[i].v)>>])

\* Mutant: scales are written as whole numbers.
yaml_map_from_scales_whole(scales) ==
  IF scales = <<>> THEN Empty
  ELSE Mapping(FlattenSeq([i \in DOMAIN scales |-> yaml_map_add_int_nz(scales[i].k, scales[i].v \div 1000)]))

(* A scale of 0 is not written, though its map is. *)
yaml_map_from_scales(scales) ==
  IF scales = <<>> THEN Empty
  ELSE Mapping(FlattenSeq([i \in DOMAIN scales |-> yaml_map_add_float_nz(scales[i].k, scales[i].v * 100)]))

yaml_map_from_transforms(ts) ==
  MapOrEmpty([i \in DOMAIN ts |-> <<Word(ts[i].k), Word(Name(transforms, ts[i].v))>>])

scale_round_to_name(val) == IF val = 0 THEN NULL ELSE Number(Unit \div val)

yaml_map_from_cfg(cfg) ==
  Mapping(
    yaml_map_add_enum("ARRANGE", arranges, cfg.arrange)
    \o yaml_map_add_enum("ALIGN", aligns, cfg.align)
    \o yaml_map_add_sset("ORDER", cfg.order_name_desc)
    \o yaml_map_add_enum("SCALING", on_offs, cfg.scaling)
    \o yaml_map_add_node("SCALE_ROUND_TO", scale_round_to_name(cfg.scale_round_to))
    \o yaml_map_add_enum("SCALE_ROUND_STRATEGY", scale_round_strategies, cfg.scale_round_strategy)
    \o yaml_map_add_enum("AUTO_SCALE", on_offs, cfg.auto_scale)
    \o yaml_map_add_int_nz("AUTO_SCALE_DPI", cfg.auto_scale_dpi)
    \o yaml_map_add_float_nz("AUTO_SCALE_MIN", cfg.auto_scale_min)
    \o yaml_map_add_float_nz("AUTO_SCALE_MAX", cfg.auto_scale_max)
    \o yaml_map_add_node("SCALE", yaml_map_from_scales(cfg.scales))
    \o yaml_map_add_node("MODE", yaml_map_from_cfg_modes(cfg.modes))
    \o yaml_map_add_node("TRANSFORM", yaml_map_from_transforms(cfg.transforms))
    \o yaml_map_add_sset("VRR_OFF", cfg.adaptive_sync_off)
    \o yaml_map_add_str("CALLBACK_CMD", cfg.callback_cmd)
    \o yaml_map_add_enum("LAPTOP_LID_MONITOR", on_offs, cfg.laptop_lid_monitor)
    \o yaml_map_add_enum("LOG_THRESHOLD", log_thresholds, cfg.log_threshold)
    \o yaml_map_add_node("DISABLED", yaml_map_from_disableds(cfg.disableds)))

\* Mutant: empty maps are left out of the file.
yaml_root_from_cfg_nonempty(cfg) ==
  Mapping(SelectSeq(yaml_map_from_cfg(cfg).pairs, LAMBDA pair : pair[2] # Empty))

yaml_root_from_cfg(cfg) == yaml_map_from_cfg(cfg)

=============================================================================
