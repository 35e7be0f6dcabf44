------------------------------- MODULE Service -------------------------------
(***************************************************************************)
(* The life of the server process: server of src/src/server.c from the log *)
(* to the teardown, with the parts that Displ leaves out: the log          *)
(* (src/src/log.c, module Log), the discovery and the queue of the lid     *)
(* switch (src/src/lid.c), the registry and the xdg outputs                *)
(* (src/src/listener, src/src/output.c), the descriptors that are polled   *)
(* (src/src/fds.c), and g_displ_init and g_displ_destroy.                  *)
(*                                                                         *)
(* The compositor and libinput are external: wire holds the registry       *)
(* events not dispatched yet, queue the switch events not read yet.        *)
(* Proxies are counted: a bind adds one, a destroy takes one away.         *)
(***************************************************************************)
EXTENDS Log

CONSTANTS NULL, Outputs,
          StartCfgs,   \* the configurations the file may hold
          CliThresholds,  \* what --log-threshold may be, 0 for none
          Greetings,   \* the globals a compositor may announce, in its order
          MaxLines,    \* bound on the lines said while the file is read
          MaxEvents    \* bound on what happens once the server runs

ASSUME ServiceAssumption ==
    /\ MaxLines \in Nat /\ MaxEvents \in Nat
    /\ "startup" \in CapLists
    /\ CliThresholds \subseteq {0} \cup (DEBUG..FATAL)
    /\ \A c \in StartCfgs : c.log_threshold \in DEBUG..FATAL

(* The events of the registry: what a compositor announces at first, and   *)
(* what it takes back.  It announces an output, or the xdg output manager, *)
(* at most once.                                                           *)
Announcement == [type : {"zwlr", "zxdg"}, output : {NULL}, old : BOOLEAN] \cup [type : {"wl_output"}, output : Outputs]
RegistryEvent == Announcement \cup [type : {"remove"}, output : Outputs \cup {NULL}]

AnnouncedOnce(events_sent) ==
    \A j, k \in DOMAIN events_sent :
        j # k /\ events_sent[j].type = events_sent[k].type /\ events_sent[j].type # "zwlr" =>
            events_sent[j].type = "wl_output" /\ events_sent[j].output # events_sent[k].output

ASSUME GreetingsAssumption ==
    /\ NULL \notin Outputs
    /\ \A greeting \in Greetings : greeting \in Seq(Announcement) /\ AnnouncedOnce(greeting)

VARIABLES stage,      \* how far server has come; "ended"
          ended,      \* how: "clean" after the teardown, "exit", "killed"
          log, cli, g_cfg,
          calls,      \* the callbacks executed
          said,       \* the lines said before the threshold was known
          it,         \* the iterator over the captured lines, 0 for none
          g_lid, held,   \* struct Lid, and what libinput and lid.c have allocated
          switch, queue, ignored,  \* the real lid, its events, and whether the last one was ignored
          wire, displ, wl_output, xdg_output, manager,
          events

serverVars == <<stage, ended>>
logVars == <<log, calls, said, it>>
lidVars == <<g_lid, held, switch, queue, ignored>>
displVars == <<wire, displ, wl_output, xdg_output, manager>>
vars == <<serverVars, logVars, cli, g_cfg, lidVars, displVars, events>>

At(s) == stage = s
Goto(s) == stage' = s /\ UNCHANGED ended
End(how) == stage' = "ended" /\ ended' = how

-----------------------------------------------------------------------------
(* Until the threshold is known the lines are captured and not printed.    *)

\* Mutant: the threshold of the file is not set before the lines are played back.
ThresholdLate(lg, threshold) == log_cap_lines_stop(log_suppress_stop(lg), "startup")

ThresholdKnown(lg, threshold) ==
    log_cap_lines_stop(log_suppress_stop(log_set_threshold(lg, threshold, FALSE)), "startup")

(* plist_free_vals of the captured lines. *)
Freed(lg) == [lg EXCEPT !.captured = [c \in CapLists |-> IF c = "startup" THEN <<>> ELSE lg.captured[c]]]

LogStart ==
    /\ At("log")
    /\ log' = log_info(log_suppress_start(log_cap_lines_start(log, "startup")), 1)
    /\ said' = <<Line(1, INFO)>>
    /\ Goto("cfg")
    /\ UNCHANGED <<calls, it, cli, g_cfg, lidVars, displVars, events>>

(* The parser, the validation and the printing of g_cfg_file_init_read.    *)
CfgSays(threshold) ==
    LET n == Len(said) + 1
    IN  /\ At("cfg")
        /\ Len(said) <= MaxLines
        /\ log' = log_(log, threshold, n)
        /\ said' = Append(said, Line(n, threshold))
        /\ UNCHANGED <<serverVars, calls, it, cli, g_cfg, lidVars, displVars, events>>

(* cfg_migrate_v1 warns, and calls back with the threshold of before.      *)
CfgMigrates ==
    LET n == Len(said) + 1
    IN  /\ At("cfg")
        /\ Len(said) <= MaxLines /\ calls = <<>>
        /\ log' = log_warn(log, n)
        /\ said' = Append(said, Line(n, WARNING))
        /\ calls' = callback_with_cfg(calls, log, g_cfg, WARNING)
        /\ UNCHANGED <<serverVars, it, cli, g_cfg, lidVars, displVars, events>>

CfgRead ==
    /\ At("cfg")
    /\ log' = ThresholdKnown(log, g_cfg.log_threshold)
    /\ it' = 1
    /\ Goto("playback")
    /\ UNCHANGED <<calls, said, cli, g_cfg, lidVars, displVars, events>>

PlayLine ==
    /\ At("playback") /\ it <= Len(log.captured["startup"])
    /\ log' = log_cap_lines_playback(log, "startup", it)
    /\ it' = it + 1
    /\ UNCHANGED <<serverVars, calls, said, cli, g_cfg, lidVars, displVars, events>>

PlayedBack ==
    /\ At("playback") /\ it > Len(log.captured["startup"])
    /\ log' = Freed(log)
    /\ it' = 0
    /\ Goto("lid")
    /\ UNCHANGED <<calls, said, cli, g_cfg, lidVars, displVars, events>>

-----------------------------------------------------------------------------
(* The lid.                                                                *)

(* The failures of the discovery and of the monitor, with what each leaves *)
(* allocated: they do not release what they had.                           *)
create_libinput_discovery == [no_udev |-> {}, no_context |-> {"udev"}, no_seat |-> {"udev", "discovery"}]
create_libinput_monitor == [no_monitor |-> {"device_path"}, not_added |-> {"device_path", "monitor"}]

(* The input devices: one that the user may not open is not announced.     *)
Devices == {<<>>, <<"keyboard">>, <<"keyboard", "lid">>, <<"locked_lid">>}

libinput_open_restricted(device) == device # "locked_lid"

discover_lid_device(devices) ==
    \E k \in DOMAIN devices : libinput_open_restricted(devices[k]) /\ devices[k] = "lid"

\* Mutant: only the first event of the queue is looked at.
Switched_first(lid, events_read) == IF events_read = <<>> THEN lid ELSE Head(events_read)

Switched(lid, events_read) == IF events_read = <<>> THEN lid ELSE events_read[Len(events_read)]

(* The whole queue is read; a toggle is believed only while monitoring.    *)
g_lid_update(lid, pending) ==
    IF g_cfg.laptop_lid_monitor THEN Switched(lid, pending) ELSE lid

NoLid(left) == g_lid' = NULL /\ held' = left

(* libinput reports a switch that is on when the device is added; server   *)
(* reads it at once.                                                       *)
g_lid_init ==
    /\ At("lid")
    /\ \/ ~g_cfg.laptop_lid_monitor /\ NoLid({})
       \/ /\ g_cfg.laptop_lid_monitor
          /\ \/ \E failure \in DOMAIN create_libinput_discovery : NoLid(create_libinput_discovery[failure])
             \/ \E devices \in Devices : ~discover_lid_device(devices) /\ NoLid({})
             \/ \E devices \in Devices :
                   /\ discover_lid_device(devices)
                   /\ \/ \E failure \in DOMAIN create_libinput_monitor : NoLid(create_libinput_monitor[failure])
                      \/ /\ held' = {"device_path", "monitor"}
                         /\ g_lid' = g_lid_update("open", IF switch = "closed" THEN <<"closed">> ELSE <<>>)
    /\ Goto("connect")
    /\ UNCHANGED <<logVars, cli, g_cfg, switch, queue, ignored, displVars, events>>

g_lid_destroy ==
    /\ held' = IF g_lid = NULL THEN held ELSE held \ {"device_path", "monitor"}
    /\ g_lid' = NULL

-----------------------------------------------------------------------------
(* The registry.                                                           *)

g_displ_init ==
    /\ At("connect")
    /\ \/ End("exit")
       \/ Goto("roundtrip")
    /\ UNCHANGED <<logVars, cli, g_cfg, lidVars, displVars, events>>

Registry(type) ==
    /\ stage \in {"roundtrip", "loop"}
    /\ wire # <<>>
    /\ Head(wire).type = type
    /\ wire' = Tail(wire)
    /\ UNCHANGED <<logVars, cli, g_cfg, lidVars, events>>

bind_zwlr_output_manager ==
    /\ Registry("zwlr")
    /\ IF Head(wire).old THEN End("exit") /\ UNCHANGED <<displ, manager>>
       ELSE /\ displ' = [displ EXCEPT !.zwlr = TRUE]
            /\ manager' = [manager EXCEPT !.zwlr = @ + 1]
            /\ UNCHANGED serverVars
    /\ UNCHANGED <<wl_output, xdg_output>>

bind_zxdg_output_manager ==
    /\ Registry("zxdg")
    /\ displ' = [displ EXCEPT !.zxdg = TRUE]
    /\ manager' = [manager EXCEPT !.zxdg = @ + 1]
    /\ UNCHANGED <<serverVars, wl_output, xdg_output>>

\* Mutant: an output without an xdg output is not destroyed.
bind_wl_output_kept ==
    LET o == Head(wire).output
    IN  /\ Registry("wl_output")
        /\ wl_output' = [wl_output EXCEPT ![o] = @ + 1]
        /\ xdg_output' = [xdg_output EXCEPT ![o] = @ + (IF displ.zxdg THEN 1 ELSE 0)]
        /\ displ' = IF displ.zxdg THEN [displ EXCEPT !.outputs = @ \cup {o}] ELSE displ
        /\ UNCHANGED <<serverVars, manager>>

(* output_init needs the xdg output manager: an output that the compositor *)
(* announces before it is bound, and destroyed again.                      *)
output_init(d) == IF d.zxdg THEN 1 ELSE 0

bind_wl_output ==
    LET o == Head(wire).output
        kept == output_init(displ)
    IN  /\ Registry("wl_output")
        /\ wl_output' = [wl_output EXCEPT ![o] = @ + kept]
        /\ xdg_output' = [xdg_output EXCEPT ![o] = @ + kept]
        /\ displ' = IF kept = 1 THEN [displ EXCEPT !.outputs = @ \cup {o}] ELSE displ
        /\ UNCHANGED <<serverVars, manager>>

(* output_destroy of the outputs os. *)
Destroyed(count, os) == [o \in Outputs |-> IF o \in os THEN count[o] - 1 ELSE count[o]]

(* global_remove of an output, which displ->outputs may not have, and of   *)
(* the output manager.                                                     *)
GlobalRemoveOutput ==
    LET o == Head(wire).output
        os == {o} \cap displ.outputs
    IN  /\ Registry("remove")
        /\ o # NULL
        /\ wl_output' = Destroyed(wl_output, os)
        /\ xdg_output' = Destroyed(xdg_output, os)
        /\ displ' = [displ EXCEPT !.outputs = @ \ os, !.named = @ \ os]
        /\ UNCHANGED <<serverVars, manager>>

GlobalRemoveManager ==
    /\ Registry("remove")
    /\ Head(wire).output = NULL
    /\ End("exit")
    /\ UNCHANGED <<displ, wl_output, xdg_output, manager>>

(* zxdg_output_name, with the position and the size: print_head_current    *)
(* finds the output from now on.                                           *)
zxdg_output_name(o) ==
    /\ stage \in {"roundtrip", "loop"}
    /\ xdg_output[o] = 1 /\ o \in displ.outputs \ displ.named
    /\ displ' = [displ EXCEPT !.named = @ \cup {o}]
    /\ UNCHANGED <<serverVars, logVars, cli, g_cfg, lidVars, wire, wl_output, xdg_output, manager, events>>

(* The manager has finished: the proxy is destroyed and the pointer kept.  *)
ManagerFinished ==
    /\ At("loop") /\ manager.zwlr = 1 /\ events < MaxEvents
    /\ manager' = [manager EXCEPT !.zwlr = @ - 1]
    /\ events' = events + 1
    /\ UNCHANGED <<serverVars, logVars, cli, g_cfg, lidVars, wire, displ, wl_output, xdg_output>>

(* The end of the round trip. *)
RoundTrip ==
    /\ At("roundtrip")
    /\ \/ End("exit")
       \/ wire = <<>> /\ ~displ.zwlr /\ End("exit")
       \/ wire = <<>> /\ displ.zwlr /\ Goto("fds")
    /\ UNCHANGED <<logVars, cli, g_cfg, lidVars, displVars, events>>

-----------------------------------------------------------------------------
(* The loop.                                                               *)

(* create_fds; the configuration directory may not be there to watch, and  *)
(* the watch may fail.                                                     *)
create_fds ==
    /\ At("fds")
    /\ \/ Goto("loop")
       \/ g_cfg.dir /\ End("exit")
    /\ UNCHANGED <<logVars, cli, g_cfg, lidVars, displVars, events>>

pfds_init == {"signal", "wayland"} \cup (IF g_lid # NULL THEN {"lid"} ELSE {})
                                   \cup (IF g_cfg.dir THEN {"cfg_dir"} ELSE {})

(* poll has returned for a descriptor. *)
Poll(fd) == At("loop") /\ fd \in pfds_init

ReadLid ==
    /\ Poll("lid") /\ queue # <<>>
    /\ g_lid' = g_lid_update(g_lid, queue)
    /\ ignored' = ~g_cfg.laptop_lid_monitor
    /\ queue' = <<>>
    /\ UNCHANGED <<serverVars, logVars, cli, g_cfg, held, switch, displVars, events>>

(* A reload that succeeds: the lid is not looked for again.                *)
Reload(cfg) ==
    /\ Poll("cfg_dir") /\ events < MaxEvents /\ cfg.dir
    /\ g_cfg' = cfg
    /\ log' = log_set_threshold(log, cfg.log_threshold, FALSE)
    /\ events' = events + 1
    /\ UNCHANGED <<serverVars, cli, calls, said, it, lidVars, displVars>>

(* Something that is logged and called back (act, head_find_mode).         *)
Report(level) ==
    /\ At("loop") /\ events < MaxEvents
    /\ log' = log_(log, level, 0)
    /\ calls' = callback_with_cfg(calls, log, g_cfg, level)
    /\ events' = events + 1
    /\ UNCHANGED <<serverVars, cli, g_cfg, said, it, lidVars, displVars>>

(* What the user and the compositor do.                                    *)
MoveLid ==
    /\ events < MaxEvents /\ ~At("ended")
    /\ switch' = IF switch = "open" THEN "closed" ELSE "open"
    /\ queue' = IF g_lid # NULL THEN Append(queue, switch') ELSE queue
    /\ events' = events + 1
    /\ UNCHANGED <<serverVars, logVars, cli, g_cfg, g_lid, held, ignored, displVars>>

Global(o) == [type |-> "wl_output", output |-> o]
Remove(o) == [type |-> "remove", output |-> o]

\* the outputs whose global is there, as the client will know them
Present == {o \in Outputs : \/ \E k \in DOMAIN wire : wire[k] = Global(o)
                            \/ wl_output[o] > 0 /\ \A k \in DOMAIN wire : wire[k] # Remove(o)}

Compositor ==
    /\ stage \in {"fds", "loop"} /\ events < MaxEvents /\ wire = <<>>
    /\ \/ \E o \in Outputs : wire' = <<IF o \in Present THEN Remove(o) ELSE Global(o)>>
       \/ wire' = <<Remove(NULL)>>
    /\ events' = events + 1
    /\ UNCHANGED <<serverVars, logVars, cli, g_cfg, lidVars, displ, wl_output, xdg_output, manager>>

(* Until create_fds a signal kills; then it is read.  EPIPE of the display *)
(* ends the loop as well, any other failure exits.                         *)
Killed ==
    /\ stage \notin {"loop", "teardown", "ended"}
    /\ End("killed")
    /\ UNCHANGED <<logVars, cli, g_cfg, lidVars, displVars, events>>

LoopReturns ==
    /\ Poll("signal")
    /\ Goto("teardown")
    /\ UNCHANGED <<logVars, cli, g_cfg, lidVars, displVars, events>>

WaylandFails ==
    /\ Poll("wayland")
    /\ End("exit")
    /\ UNCHANGED <<logVars, cli, g_cfg, lidVars, displVars, events>>

g_displ_destroy ==
    /\ wl_output' = Destroyed(wl_output, displ.outputs)
    /\ xdg_output' = Destroyed(xdg_output, displ.outputs)
    /\ manager' = [zwlr |-> manager.zwlr - (IF displ.zwlr THEN 1 ELSE 0),
                   zxdg |-> manager.zxdg - (IF displ.zxdg THEN 1 ELSE 0)]
    /\ displ' = [zwlr |-> FALSE, zxdg |-> FALSE, outputs |-> {}, named |-> {}]

Teardown ==
    /\ At("teardown")
    /\ g_lid_destroy
    /\ g_displ_destroy
    /\ End("clean")
    /\ UNCHANGED <<logVars, cli, g_cfg, switch, queue, ignored, wire, events>>

Init ==
    /\ stage = "log" /\ ended = "no"
    /\ cli \in CliThresholds /\ g_cfg \in StartCfgs
    /\ log = log_set_threshold(log_init, cli, TRUE)
    /\ calls = <<>> /\ said = <<>> /\ it = 0
    /\ g_lid = NULL /\ held = {} /\ switch \in {"open", "closed"} /\ queue = <<>> /\ ignored = FALSE
    /\ wire \in Greetings
    /\ displ = [zwlr |-> FALSE, zxdg |-> FALSE, outputs |-> {}, named |-> {}]
    /\ wl_output = [o \in Outputs |-> 0] /\ xdg_output = [o \in Outputs |-> 0]
    /\ manager = [zwlr |-> 0, zxdg |-> 0]
    /\ events = 0

Next ==
    \/ LogStart \/ (\E t \in DEBUG..ERROR : CfgSays(t)) \/ CfgMigrates \/ CfgRead \/ PlayLine \/ PlayedBack
    \/ g_lid_init \/ g_displ_init
    \/ bind_zwlr_output_manager \/ bind_zxdg_output_manager \/ bind_wl_output
    \/ GlobalRemoveOutput \/ GlobalRemoveManager \/ (\E o \in Outputs : zxdg_output_name(o))
    \/ ManagerFinished \/ RoundTrip \/ create_fds
    \/ ReadLid \/ (\E cfg \in StartCfgs : Reload(cfg)) \/ (\E t \in INFO..FATAL : Report(t))
    \/ MoveLid \/ Compositor \/ Killed \/ LoopReturns \/ WaylandFails \/ Teardown

Spec == Init /\ [][Next]_vars

-----------------------------------------------------------------------------
(* What was printed of the lines said at the start before the one numbered *)
(* upto: those that reach the threshold wanted and no others, each once,   *)
(* in order and before any later line.                                     *)
Played(upto, wanted) ==
    /\ {log.printed[k].n : k \in {j \in DOMAIN log.printed : log.printed[j].n # 0}}
          = {n \in DOMAIN said : n < upto /\ said[n].threshold >= wanted}
    /\ \A k \in DOMAIN log.printed : log.printed[k].n # 0 =>
          /\ log.printed[k] = said[log.printed[k].n]
          /\ \A j \in 1..(k - 1) : 0 < log.printed[j].n /\ log.printed[j].n < log.printed[k].n

(* Every line said before the threshold was known is printed once, in      *)
(* order and before any other, exactly if it reaches the threshold that    *)
(* holds at last: the one of the command line, else the one of the file    *)
(* (server, log_cap_lines_playback).  And the command line's threshold is  *)
(* never displaced by a reload.                                            *)
StartupLogged ==
    /\ cli # 0 => log.threshold = cli
    /\ stage \in {"log", "cfg"} => log.printed = <<>>
    /\ At("playback") => Played(it, log.threshold)
    /\ stage \notin {"log", "cfg", "playback"} /\ ended # "killed" =>
          \E wanted \in IF cli # 0 THEN {cli} ELSE IF At("lid") THEN {g_cfg.log_threshold} ELSE DEBUG..FATAL :
              Played(Len(said) + 1, wanted)

(* With all its events read and the last one not ignored, the server knows *)
(* the lid as it is: the state at the start, and events that came between  *)
(* the discovery and the loop, are not lost (g_lid_init, g_lid_update).    *)
LidTracked ==
    g_lid # NULL /\ queue = <<>> /\ ~ignored => g_lid = switch

(* Every wl_output and xdg_output proxy that is bound belongs to an output *)
(* of displ->outputs, each is destroyed once, when the global goes or at   *)
(* the end, whatever the order of the globals; a clean end leaves no       *)
(* proxy.  The output manager is left out: finished destroys it, the       *)
(* pointer stays, and the teardown destroys it again.                      *)
Released ==
    /\ \A o \in Outputs : /\ wl_output[o] = (IF o \in displ.outputs THEN 1 ELSE 0)
                          /\ xdg_output[o] = wl_output[o]
    /\ held = {"device_path", "monitor"} \/ g_lid = NULL
    /\ ended = "clean" => displ.outputs = {} /\ manager.zxdg = 0 /\ g_lid = NULL

-----------------------------------------------------------------------------
(* What the documentation promises and the code does not keep.             *)

(* The manual: when LAPTOP_LID_MONITOR is FALSE, NOT_PRESENT will evaluate;*)
(* LID_NOT_PRESENT is met when there is no g_lid (cfg_condition_met).      *)
NotPresentUnmonitored ==
    At("loop") /\ ~g_cfg.laptop_lid_monitor => g_lid = NULL

(* The manual: CALLBACK_CMD obeys LOG_THRESHOLD.                           *)
CallbackObeys ==
    At("lid") => \A k \in DOMAIN calls : calls[k] >= log.threshold
=============================================================================
