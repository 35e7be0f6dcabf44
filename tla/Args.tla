-------------------------------- MODULE Args --------------------------------
(***************************************************************************)
(* The command line (src/src/args.c, src/src/cli.c): what the words of     *)
(* argv make of a request.                                                 *)
(*                                                                         *)
(* argv is a sequence of words (scalars of YamlNode) and of options        *)
(* [opt, optarg, text]; an option and its own argument are one word.       *)
(* getopt_long steps over words that are no options, and a command sees    *)
(* all that follows it as its arguments: argv from optind.                 *)
(*                                                                         *)
(* A parse ends in a request, or in an exit: "failure" or "success".       *)
(***************************************************************************)
EXTENDS YamlIpc

Option(opt, optarg, text) == [type |-> "option", opt |-> opt, optarg |-> optarg, text |-> text, num |-> NULL]

(* strtof, atof and atoi: 0 for what is no number. *)
strtof(word) == OrElse(word.num, 0)
atoi(word) == strtof(word) \div Unit

Texts(args) == [i \in DOMAIN args |-> args[i].text]

NoRepeats(names) == FoldLeft(AddTo, <<>>, names)

-----------------------------------------------------------------------------
(* args_cfg: the configuration for one element, or NULL. *)

(* MAX, or width, height and Hz. *)
ModeWith(width, height, hz) ==
  IF width > 0 /\ height > 0 THEN [mode_init EXCEPT !.width = width, !.height = height, !.refresh_mhz = hz] ELSE NULL

ArgsMode(args) ==
  CASE args[2].text = "MAX" -> [mode_init EXCEPT !.max = TRUE]
    [] args[2].text # "MAX" /\ Len(args) = 2 -> NULL
    [] args[2].text # "MAX" /\ Len(args) = 3 -> ModeWith(atoi(args[2]), atoi(args[3]), -1)
    [] args[2].text # "MAX" /\ Len(args) = 4 ->
         IF Milli(strtof(args[4])) > 0 THEN ModeWith(atoi(args[2]), atoi(args[3]), Milli(strtof(args[4]))) ELSE NULL

OneEntry(key, val) == <<[k |-> key, v |-> val]>>

(* cfg with what was parsed, or NULL. *)
Parsed(ok, cfg) == IF ok THEN cfg ELSE NULL

args_cfg_set(element, args) ==
  CASE element = "ARRANGE_ALIGN" ->
         Parsed(NULL \notin {ValStart(arranges, args[1].text), ValStart(aligns, args[2].text)},
                [cfg_init EXCEPT !.arrange = ValStart(arranges, args[1].text), !.align = ValStart(aligns, args[2].text)])
    [] element = "SCALING" ->
         Parsed(Val(on_offs, args[1].text) # NULL, [cfg_init EXCEPT !.scaling = Val(on_offs, args[1].text)])
    [] element = "AUTO_SCALE" ->
         Parsed(Val(on_offs, args[1].text) # NULL, [cfg_init EXCEPT !.auto_scale = Val(on_offs, args[1].text)])
    [] element = "SCALE" ->
         Parsed(strtof(args[2]) > 0, [cfg_init EXCEPT !.scales = OneEntry(args[1].text, Milli(strtof(args[2])))])
    [] element = "MODE" ->
         Parsed(ArgsMode(args) # NULL, [cfg_init EXCEPT !.modes = OneEntry(args[1].text, ArgsMode(args))])
    [] element = "TRANSFORM" ->
         Parsed(Val(transforms, args[2].text) # NULL,
                [cfg_init EXCEPT !.transforms = OneEntry(args[1].text, Val(transforms, args[2].text))])
    [] element = "CALLBACK_CMD" -> [cfg_init EXCEPT !.callback_cmd = args[1].text]

(* CFG_DEL carries a dummy value under the name. *)
args_cfg_del(element, args) ==
  CASE element = "SCALE" -> [cfg_init EXCEPT !.scales = OneEntry(args[1].text, 1000)]
    [] element = "MODE" -> [cfg_init EXCEPT !.modes = OneEntry(args[1].text, [mode_init EXCEPT !.max = TRUE])]
    [] element = "TRANSFORM" -> [cfg_init EXCEPT !.transforms = OneEntry(args[1].text, "90")]
    [] element = "CALLBACK_CMD" -> [cfg_init EXCEPT !.callback_cmd = ""]

(* ON stands for a toggle. *)
args_cfg_toggle(element) ==
  IF element = "SCALING" THEN [cfg_init EXCEPT !.scaling = "ON"] ELSE [cfg_init EXCEPT !.auto_scale = "ON"]

Disabled(name) == [k |-> name, v |-> <<>>]

args_cfg(command, element, args) ==
  CASE element = "VRR_OFF" -> [cfg_init EXCEPT !.adaptive_sync_off = NoRepeats(Texts(args))]
    [] element = "DISABLED" -> [cfg_init EXCEPT !.disableds = Nodes(NoRepeats(Texts(args)), Disabled)]
    [] element = "ORDER" -> [cfg_init EXCEPT !.order_name_desc = NoRepeats(Texts(args))]
    [] OTHER -> CASE command = "CFG_SET" -> args_cfg_set(element, args)
                  [] command = "CFG_DEL" -> args_cfg_del(element, args)
                  [] command = "CFG_TOGGLE" -> args_cfg_toggle(element)

-----------------------------------------------------------------------------
(* The commands: a request, or NULL for an exit with failure. *)

WithCfg(command, cfg) == IF cfg = NULL THEN NULL ELSE [ipc_request_init(command) EXCEPT !.cfg = cfg]

args_ipc_plain(command, args) == IF args = <<>> THEN ipc_request_init(command) ELSE NULL

args_ipc_set(element, args) ==
  IF CASE element = "MODE" -> Len(args) \in 2..4
       [] element \in {"ARRANGE_ALIGN", "SCALE", "TRANSFORM"} -> Len(args) = 2
       [] element \in {"SCALING", "AUTO_SCALE", "DISABLED", "VRR_OFF", "CALLBACK_CMD"} -> Len(args) = 1
       [] element = "ORDER" -> Len(args) >= 1
       [] OTHER -> FALSE
  THEN WithCfg("CFG_SET", args_cfg("CFG_SET", element, args)) ELSE NULL

args_ipc_del(element, args) ==
  IF CASE element \in {"MODE", "TRANSFORM", "SCALE", "DISABLED", "VRR_OFF"} -> Len(args) = 1
       [] element = "CALLBACK_CMD" -> args = <<>>
       [] OTHER -> FALSE
  THEN WithCfg("CFG_DEL", args_cfg("CFG_DEL", element, args)) ELSE NULL

args_ipc_toggle(element, args) ==
  IF CASE element \in {"SCALING", "AUTO_SCALE"} -> args = <<>>
       [] element \in {"VRR_OFF", "DISABLED"} -> Len(args) = 1
       [] OTHER -> FALSE
  THEN WithCfg("CFG_TOGGLE", args_cfg("CFG_TOGGLE", element, args)) ELSE NULL

Plain == [l |-> "LIST", g |-> "GET", w |-> "CFG_WRITE", r |-> "REAPPLY"]

IsCommand(opt) == opt \in DOMAIN Plain \cup {"s", "d", "t"}

Command(opt, element, args) ==
  CASE opt = "s" -> args_ipc_set(element, args)
    [] opt = "d" -> args_ipc_del(element, args)
    [] opt = "t" -> args_ipc_toggle(element, args)
    [] OTHER -> args_ipc_plain(Plain[opt], args)

-----------------------------------------------------------------------------
(* cli_parse: the options in turn; of two commands the later one counts,   *)
(* and what ended the parse ends it.                                       *)

cli_init == [exit |-> NULL, ipc_request |-> NULL, cfg_path |-> NULL, yaml |-> FALSE, threshold |-> NULL]

cli_threshold(cli, threshold) ==
  IF threshold = NULL THEN [cli EXCEPT !.exit = "failure"] ELSE [cli EXCEPT !.threshold = threshold]

cli_command(cli, request) ==
  IF request = NULL THEN [cli EXCEPT !.exit = "failure"] ELSE [cli EXCEPT !.ipc_request = request]

cli_option(cli, option, args) ==
  CASE option.opt = "L" -> cli_threshold(cli, Val(log_thresholds, option.optarg))
    [] option.opt \in {"h", "v"} -> [cli EXCEPT !.exit = "success"]
    [] option.opt = "c" -> [cli EXCEPT !.cfg_path = option.optarg]
    [] option.opt = "y" -> [cli EXCEPT !.yaml = TRUE]
    [] IsCommand(option.opt) -> cli_command(cli, Command(option.opt, Val(cfg_elements, option.optarg), args))
    [] OTHER -> [cli EXCEPT !.exit = "failure"]

(* -y asks for warnings and errors only, whatever -L says. *)
cli_finish(cli) ==
  IF cli.exit # NULL \/ cli.ipc_request = NULL THEN cli
  ELSE [cli EXCEPT !.ipc_request.yaml = cli.yaml,
                   !.ipc_request.log_threshold = IF cli.yaml THEN "WARNING" ELSE cli.threshold]

cli_parse(argv) ==
  cli_finish(FoldLeft(LAMBDA cli, i : IF cli.exit # NULL \/ argv[i].type # "option" THEN cli
                                      ELSE cli_option(cli, argv[i], SubSeq(argv, i + 1, Len(argv))),
                      cli_init, [i \in DOMAIN argv |-> i]))

=============================================================================
