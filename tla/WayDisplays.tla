---------------------------- MODULE WayDisplays ----------------------------
(***************************************************************************)
(* The server and the compositor together, with the properties that make   *)
(* way-displays correct.                                                   *)
(***************************************************************************)
EXTENDS Displ, Compositor

VARIABLE refused   \* history: the modes refused since the last REAPPLY

vars == <<wire, config, inputs, displVars, compositorVars, refused>>

TypeOK ==
    /\ wire \in Seq(Events)
    /\ config \in Configs
    /\ inputs \in Nat
    /\ DisplTypeOK
    /\ CompositorTypeOK
    /\ refused \subseteq Heads \X Modes

Init == DisplInit /\ CompositorInit /\ refused = {}

Listen ==
    \/ HeadAdded \/ ModeAdded \/ ModePreferred \/ ModeFinished \/ HeadEnabled
    \/ HeadCurrentMode \/ HeadGeometry \/ HeadAdaptiveSync \/ HeadFinished
    \/ ManagerDone \/ succeeded \/ failed \/ cancelled

act ==
    \/ ActIdle \/ ActOutstanding \/ ActSucceeded \/ ActFailed \/ ActCrash
    \/ ActExit \/ ActRetry \/ ActGiveUp

Commands == {"CFG_SET", "CFG_DEL", "CFG_TOGGLE"}

Inputs ==
    \/ "reload" \in Scenario /\ \E c \in Cfgs \cup {g_cfg} : g_cfg_file_reload(c)
    \/ "lid" \in Scenario /\ \E closed \in BOOLEAN : g_lid_update(closed)
    \/ "ipc_cfg" \in Scenario /\ \E h \in Heads, c \in Commands : IpcVrrOff(c, {h})
    \/ "ipc_disabled" \in Scenario /\ \E h \in Heads, c \in Commands : IpcDisabled(c, {h})
    \/ Scenario \cap {"ipc_cfg", "ipc_disabled", "reapply"} # {} /\ IpcInProgress
    \/ "signal" \in Scenario /\ Signalled

Reapply == "reapply" \in Scenario /\ IpcReapply /\ refused' = {}

Plugging ==
    \E h \in Heads : (\E on \in BOOLEAN : Plug(h, on)) \/ Unplug(h)

Changes ==
    \E h \in Heads : FinishMode(h) \/ (\E m \in Modes : OtherClient(h, m))

Reporting == \E h \in Heads : Report(h)

Decide == Apply \/ Succeed \/ Cancel

Refusal ==
    /\ Refuse
    /\ refused' = refused \cup
            IF config.kind = "MODE" THEN {<<h, config.want[h].zmode>> : h \in config.on} ELSE {}

Next ==
    \/ (Listen \/ act \/ Inputs) /\ UNCHANGED <<compositorVars, refused>>
    \/ Reapply /\ UNCHANGED compositorVars
    \/ (Plugging \/ Changes \/ Reporting \/ Decide) /\ UNCHANGED <<displVars, refused>>
    \/ Refusal /\ UNCHANGED displVars

Spec == Init /\ [][Next]_vars

(* poll returns while an event is queued and the loop then calls act; the  *)
(* compositor answers a configuration and sends the changes it made.       *)
Fairness ==
    /\ WF_vars(Listen /\ UNCHANGED <<compositorVars, refused>>)
    /\ WF_vars(act /\ UNCHANGED <<compositorVars, refused>>)
    /\ WF_vars((Decide /\ UNCHANGED <<displVars, refused>>) \/ (Refusal /\ UNCHANGED displVars))
    /\ WF_vars(Reporting /\ UNCHANGED <<displVars, refused>>)

FairSpec == Spec /\ Fairness

-----------------------------------------------------------------------------
(* Properties.                                                             *)

(* The server has one configuration at a time: it is OUTSTANDING exactly   *)
(* while a configuration waits for the compositor or its answer waits to   *)
(* be dispatched, and no other answer is on its way (act_apply, cleanup).  *)
OneConfiguration ==
    /\ state = "OUTSTANDING" <=> (config.status # "none" \/ AnswersIn(wire) # {})
    /\ config.status # "none" => AnswersIn(wire) = {}
    /\ \A i, j \in AnswersIn(wire) : i = j

(* An answer is charged to the change it is about: while a configuration   *)
(* is with the compositor, delta names its kind, its one head and its mode *)
(* (displ_delta_init in act_apply, read by act_handle_success/failure).    *)
DeltaMatchesConfig ==
    config.status # "none" =>
        /\ (delta.element = "MODE") = (config.kind = "MODE")
        /\ (delta.element = "VRR_OFF") = (config.kind = "VRR")
        /\ config.kind \in {"MODE", "VRR"} => config.on = {delta.head}
        /\ config.kind = "MODE" => delta.zmode = config.want[delta.head].zmode

(* A change of mode or of adaptive sync is sent alone and enables its      *)
(* head.  The comments of act_apply rely on the desire: such a change is   *)
(* only desired of a head that is to be enabled, with a mode, also while a *)
(* reapply disables it (desire_mode, desire_adaptive_sync, desire_reapply).*)
ChangeIsEnabled ==
    config.status # "none" /\ config.kind \in {"MODE", "VRR"} =>
        \A h \in config.on : config.want[h].enabled /\ config.want[h].zmode # NULL

Quiet ==
    /\ alive = "running"
    /\ phase = "poll"
    /\ state = "IDLE"
    /\ wire = <<>>
    /\ told = screen

GaveUp == g_cancellation_retries > MAX_CANCELLATION_RETRIES

(* When nothing is left to do, every screen shows what the configuration,  *)
(* the lid and the overrides desire of it now: no change is forgotten      *)
(* whatever was cancelled, refused or changed meanwhile.  Adaptive sync    *)
(* that failed is exempt (desire, act_apply, the listeners).               *)
ScreensAsDesired ==
    Quiet /\ ~GaveUp =>
        /\ heads = plugged
        /\ \E want \in {desire(hd)} : \A h \in heads :
              /\ screen[h].enabled = want[h].des.enabled
              /\ screen[h].enabled =>
                    /\ screen[h].zmode = want[h].des.zmode
                    /\ screen[h].scale = want[h].des.scale
                    /\ screen[h].pos = want[h].des.pos
                    /\ screen[h].adaptive_sync = want[h].des.adaptive_sync

(* Closing the lid never leaves the only display dark: when the panel is   *)
(* alone, has a mode, is not overridden, and every DISABLED that matches   *)
(* it asks for a closed lid, it is lit once nothing is left to do          *)
(* (fail_lid_closed in desire_enabled and cfg_condition_met).              *)
LonePanelLit ==
    \A h \in heads :
        /\ Quiet
        /\ ~GaveUp
        /\ heads = {h}
        /\ hd[h].modes # {}
        /\ hd[h].overrided_enabled = "NoOverride"
        /\ \A d \in g_cfg.disableds :
              h \in d.name_desc => /\ d.conditions # {}
                                   /\ \A c \in d.conditions : c.lid = "LID_CLOSED"
        => screen[h].enabled

(* A configuration that takes effect names only heads that are plugged in  *)
(* and only modes they offer, however old the view it was made from was    *)
(* (the serial of create_zwlr_output_config_listener, head_release_mode).  *)
AppliedExists ==
    [][config.status = "sent" /\ config'.status = "applied" =>
        /\ config.on \cup config.off \subseteq plugged
        /\ config.kind = "MODE" =>
            \A h \in config.on : \E i \in 1..Len(offer[h]) : offer[h][i] = config.want[h].zmode]_vars

(* A mode the compositor refused is not asked for again until the user     *)
(* reapplies (modes_failed in act_handle_failure, heads_reapply).          *)
RefusedNotAskedAgain ==
    [][config.status = "none" /\ config'.status = "sent" /\ config'.kind = "MODE" =>
        \A h \in config'.on : <<h, config'.want[h].zmode>> \notin refused]_vars

(* An IPC client that is still there is told that its operation is done    *)
(* only when no live head differs from what is desired of it, or the       *)
(* server has given up (ipc_operation->done in loop).                      *)
IpcDoneWhenApplied ==
    [][ipc_operation /\ ~ipc_operation' => Changing(desire(hd))' = {} \/ GaveUp']_vars

(* After the last input the server comes to rest: it does not retry, apply *)
(* or wait for ever (act).                                                 *)
Settles == <>[](Quiet \/ alive # "running")

(* An IPC client gets the last response to its request, whatever happens   *)
(* to the changes it asked for (notify_ipc_operation).                     *)
IpcAnswered == ipc_operation ~> (~ipc_operation \/ alive # "running")

-----------------------------------------------------------------------------
(* The change the server asks for, as Exchange sees it: asked for or in    *)
(* effect while the compositor has the configuration, answered from then   *)
(* on until act has used the answer, whichever queue holds it.             *)

AnsweredAs(type, displ_state) ==
    state = displ_state \/ \E i \in 1..Len(wire) : wire[i].type = type

Stage ==
    IF config.status = "sent" THEN "asked"
    ELSE IF config.status = "applied" THEN "applied"
    ELSE IF AnsweredAs("succeeded", "SUCCEEDED") THEN "succeeded"
    ELSE IF AnsweredAs("failed", "FAILED") THEN "failed"
    ELSE IF AnsweredAs("cancelled", "CANCELLED") THEN "cancelled"
    ELSE "idle"

Asked == INSTANCE Exchange WITH stage <- Stage,
                                change <- IF Stage = "idle" THEN NULL ELSE delta,
                                States <- HeadStates

(* The loop, the listeners and the compositor do what Exchange says: one   *)
(* change at a time, the answer charged to the change asked for, a change  *)
(* of mode seen on its head alone, none of one refused or cancelled        *)
(* (act_apply, act_handle_success, act_handle_failure, the listeners).     *)
IsExchange == Asked!Spec

-----------------------------------------------------------------------------
(* What the documentation promises and the code does not keep.             *)

(* server.c: the loop "only stops when signalled or display goes away".    *)
OnlyStopsWhenSignalled == alive \in {"running", "signalled"}

(* way-displays(1), --reapply: "Disables all displays" before they are     *)
(* enabled according to the configuration.                                 *)
ReapplyDisables ==
    \A h \in Heads : (h \in heads /\ hd[h].reapply_required) ~>
                        (~screen[h].enabled \/ alive # "running")

(* way-displays(1), VRR_OFF: "Disable VRR for a display".                  *)
VrrOffHonoured ==
    Quiet /\ ~GaveUp =>
        \A h \in heads : screen[h].adaptive_sync =>
                            \A nd \in g_cfg.adaptive_sync_off : h \notin nd
=============================================================================
