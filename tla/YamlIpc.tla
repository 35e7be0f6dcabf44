------------------------------- MODULE YamlIpc -------------------------------
(***************************************************************************)
(* IPC requests and responses as YAML (src/src/yaml/marshal-types.c and    *)
(* unmarshal-types.c).                                                     *)
(***************************************************************************)
EXTENDS Yaml

(* A request; yaml is the client's own and is not sent. *)
ipc_request_init(command) == [command |-> command, log_threshold |-> NULL, cfg |-> NULL, yaml |-> FALSE]

yaml_root_from_ipc_request(request) ==
  Mapping(yaml_map_add_str("OP", Name(ipc_commands, request.command))
          \o yaml_map_add_str("LOG_THRESHOLD", request.log_threshold)
          \o yaml_map_add_node("CFG", IF request.cfg = NULL THEN NULL ELSE yaml_map_from_cfg(request.cfg)))

RequestOf(command, m) ==
  IF command = NULL THEN NULL
  ELSE [command |-> command, yaml |-> FALSE,
        log_threshold |-> yaml_scalar_to_enum(log_thresholds, Get(m, "LOG_THRESHOLD")),
        cfg |-> IF HasKey(m, "CFG") THEN yaml_map_to_cfg(Get(m, "CFG")) ELSE NULL]

RequestIn(m) == RequestOf(yaml_scalar_to_enum(ipc_commands, Get(m, "OP")), m)

yaml_root_to_ipc_request(root) == RequestIn(yaml_map_to_spmap(root))

-----------------------------------------------------------------------------
(* Scales of heads: wl_fixed_to_double, and wl_fixed_from_double, which    *)
(* rounds.                                                                 *)

wl_fixed_to_double(fixed) == (fixed * (Unit \div 32) + 4) \div 8

\* Mutant: the fraction is cut off.
wl_fixed_from_double_truncated(num) == (num * 8) \div (Unit \div 32)

wl_fixed_from_double(num) == (num * 8 + Unit \div 64) \div (Unit \div 32)

(* A refresh rate in mHz is a number in whole units here. *)
yaml_map_from_head_mode(mode) ==
  IF mode = NULL THEN NULL
  ELSE Mapping(yaml_map_add_int("WIDTH", mode.width) \o yaml_map_add_int("HEIGHT", mode.height)
               \o yaml_map_add_node("REFRESH_MHZ", Scalar("mhz", mode.refresh_mhz)))

(* ppmap_get(head->modes): a failed mode is not found. *)
ModeIn(head, mode) == IF mode # NULL /\ Contains(head.modes, mode) THEN mode ELSE NULL

yaml_map_from_head_state(state, head) ==
  Mapping(yaml_map_add_float_nz("SCALE", wl_fixed_to_double(state.scale))
          \o yaml_map_add_bool("ENABLED", state.enabled)
          \o yaml_map_add_int("X", state.x) \o yaml_map_add_int("Y", state.y)
          \o yaml_map_add_bool("VRR", state.adaptive_sync)
          \o yaml_map_add_enum("TRANSFORM", transforms, state.transform)
          \o yaml_map_add_node("MODE", yaml_map_from_head_mode(ModeIn(head, state.mode))))

yaml_map_from_head_overrides(head) ==
  Mapping(IF head.overrided_enabled = "NoOverride" THEN <<>>
          ELSE yaml_map_add_bool("DISABLED", head.overrided_enabled = "OverrideTrue"))

Nodes(seq, node(_)) == [i \in DOMAIN seq |-> node(seq[i])]

yaml_map_from_head(head) ==
  Mapping(yaml_map_add_str("NAME", head.name)
          \o yaml_map_add_int("WIDTH_MM", head.width_mm)
          \o yaml_map_add_node("CURRENT", yaml_map_from_head_state(head.cur, head))
          \o yaml_map_add_node("DESIRED", yaml_map_from_head_state(head.des, head))
          \o yaml_map_add_node("OVERRIDES", yaml_map_from_head_overrides(head))
          \o yaml_map_add_node("MODE_PREFERRED", yaml_map_from_head_mode(ModeIn(head, head.mode_pref)))
          \o yaml_map_add_plist("MODES", Nodes(head.modes, yaml_map_from_head_mode))
          \o yaml_map_add_plist("MODES_FAILED", Nodes(head.modes_failed, yaml_map_from_head_mode)))

yaml_map_from_lid(lid) ==
  IF lid = NULL THEN NULL
  ELSE Mapping(yaml_map_add_bool("CLOSED", lid.closed) \o yaml_map_add_str("DEVICE_PATH", lid.device_path))

yaml_map_from_state(lid, heads) ==
  Mapping(yaml_map_add_node("LID", yaml_map_from_lid(lid)) \o yaml_map_add_plist("HEADS", Nodes(heads, yaml_map_from_head)))

(* The captured lines the client asked for; no sequence if there are none. *)
SomeList(nodes) == IF nodes = <<>> THEN NULL ELSE List(nodes)

MessageNode(line) == Mapping(yaml_map_add_str(line.threshold, line.line))

yaml_seq_from_messages(lines, threshold) ==
  SomeList(Nodes(SelectSeq(lines, LAMBDA l : Level(l.threshold) >= Level(threshold)), MessageNode))

(* op: request, done, send_state, rc, log_cap_lines, and the globals cfg,  *)
(* lid and heads.                                                          *)
yaml_map_from_ipc_operation(op) ==
  Mapping(yaml_map_add_bool("DONE", op.done)
          \o (IF op.send_state THEN yaml_map_add_node("CFG", yaml_map_from_cfg(op.cfg))
                                    \o yaml_map_add_node("STATE", yaml_map_from_state(op.lid, op.heads))
              ELSE <<>>)
          \o yaml_map_add_node("MESSAGES", yaml_seq_from_messages(op.log_cap_lines, op.request.log_threshold))
          \o yaml_map_add_int("RC", op.rc))

yaml_root_from_ipc_operation(op) ==
  IF op.request.command = "GET" THEN yaml_map_from_ipc_operation(op) ELSE List(<<yaml_map_from_ipc_operation(op)>>)

-----------------------------------------------------------------------------
(* A response read. *)

IntOr(node, was) == OrElse(yaml_scalar_to_int(node), was)

(* A mode of a head always comes out, with what could not be read not set. *)
HeadModeOf(m) ==
  IF m = NULL THEN NULL
  ELSE [mode_init EXCEPT !.width = IntOr(Get(m, "WIDTH"), -1), !.height = IntOr(Get(m, "HEIGHT"), -1),
                         !.refresh_mhz = OrElse(yaml_scalar_to_float(Get(m, "REFRESH_MHZ")), -1)]

yaml_map_to_head_mode(node) == HeadModeOf(yaml_map_to_spmap(node))

(* Keyed by themselves: equal modes are put once each, as keys differ. *)
AddMode(modes, mode) == IF mode = NULL THEN modes ELSE Append(modes, mode)

yaml_map_into_head_modes(modes, node) == AddMode(modes, yaml_map_to_head_mode(node))

(* The mode as one of the modes or the failed ones, or NULL. *)
FindMode(modes, mode) == IF mode # NULL /\ Contains(modes, mode) THEN mode ELSE NULL

HeadStateZero == [enabled |-> FALSE, x |-> 0, y |-> 0, transform |-> NULL, scale |-> 0, adaptive_sync |-> FALSE, mode |-> NULL]

FixedOr(num, was) == IF num = NULL THEN was ELSE wl_fixed_from_double(num)

HeadStateOf(state, modes, m) ==
  IF m = NULL THEN state
  ELSE [enabled |-> yaml_scalar_to_boolean(state.enabled, Get(m, "ENABLED")),
        x |-> IntOr(Get(m, "X"), state.x), y |-> IntOr(Get(m, "Y"), state.y),
        transform |-> yaml_scalar_to_enum(transforms, Get(m, "TRANSFORM")),
        scale |-> FixedOr(yaml_scalar_to_float(Get(m, "SCALE")), state.scale),
        adaptive_sync |-> yaml_scalar_to_boolean(state.adaptive_sync, Get(m, "VRR")),
        mode |-> FindMode(modes, yaml_map_to_head_mode(Get(m, "MODE")))]

yaml_map_into_head_state(state, modes, node) == HeadStateOf(state, modes, yaml_map_to_spmap(node))

Overrided(disabled) ==
  CASE disabled = NULL  -> "NoOverride"
    [] disabled = "ON"  -> "OverrideFalse"
    [] disabled = "OFF" -> "OverrideTrue"

ModesIn(node) == FoldLeft(yaml_map_into_head_modes, <<>>, Items(node))

HeadWith(m, modes, failed) ==
  [name |-> yaml_scalar_to_string(Get(m, "NAME")), width_mm |-> IntOr(Get(m, "WIDTH_MM"), 0),
   modes |-> modes, modes_failed |-> failed,
   mode_pref |-> FindMode(modes \o failed, yaml_map_to_head_mode(Get(m, "MODE_PREFERRED"))),
   cur |-> yaml_map_into_head_state(HeadStateZero, modes \o failed, Get(m, "CURRENT")),
   des |-> yaml_map_into_head_state(HeadStateZero, modes \o failed, Get(m, "DESIRED")),
   overrided_enabled |-> Overrided(yaml_scalar_to_on_off(Get(yaml_map_to_spmap(Get(m, "OVERRIDES")), "DISABLED")))]

AddHead(heads, m) ==
  IF m = NULL THEN heads
  ELSE Append(heads, HeadWith(m, ModesIn(Get(m, "MODES")), ModesIn(Get(m, "MODES_FAILED"))))

yaml_map_into_heads(heads, node) == AddHead(heads, yaml_map_to_spmap(node))

LidOf(m) ==
  IF m = NULL THEN NULL
  ELSE [device_path |-> yaml_scalar_to_string(Get(m, "DEVICE_PATH")),
        closed |-> yaml_scalar_to_boolean(FALSE, Get(m, "CLOSED"))]

yaml_map_to_lid(node) == LidOf(yaml_map_to_spmap(node))

LineOf(e) == [threshold |-> Val(log_thresholds, e.k), line |-> e.v.text]

yaml_map_into_log_cap_lines(lines, node) ==
  lines \o Nodes(SelectSeq(OrElse(yaml_map_to_spmap(node), <<>>),
                           LAMBDA e : Val(log_thresholds, e.k) # NULL /\ yaml_scalar_to_string(e.v) # NULL), LineOf)

(* DONE and RC are required. *)
ResponseWith(m, done, rc, state) ==
  [done |-> done = "ON", rc |-> rc,
   cfg |-> IF HasKey(m, "CFG") THEN yaml_map_to_cfg(Get(m, "CFG")) ELSE NULL,
   lid |-> yaml_map_to_lid(Get(state, "LID")),
   heads |-> FoldLeft(yaml_map_into_heads, <<>>, Items(Get(state, "HEADS"))),
   log_cap_lines |-> FoldLeft(yaml_map_into_log_cap_lines, <<>>, Items(Get(m, "MESSAGES")))]

AddResponse(responses, m, done, rc) ==
  IF m = NULL \/ done = NULL \/ rc = NULL THEN responses
  ELSE Append(responses, ResponseWith(m, done, rc, yaml_map_to_spmap(Get(m, "STATE"))))

ResponseIn(responses, m) == AddResponse(responses, m, yaml_scalar_to_on_off(Get(m, "DONE")), yaml_scalar_to_int(Get(m, "RC")))

yaml_map_into_ipc_responses(responses, node) == ResponseIn(responses, yaml_map_to_spmap(node))

(* One response or a sequence of them; NULL if there is none. *)
yaml_root_to_ipc_response_plist(root) ==
  SomeOf(FoldLeft(yaml_map_into_ipc_responses, <<>>, IF IsType(root, "map") THEN <<root>> ELSE Items(root)))

=============================================================================
