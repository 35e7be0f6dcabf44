------------------------------- MODULE Displ -------------------------------
(***************************************************************************)
(* The server: g_displ of src/src/displ.c, the listeners of                *)
(* src/src/listener, act of src/src/act.c, desire of src/src/desire.c and  *)
(* the loop of src/src/server.c that calls them.                           *)
(*                                                                         *)
(* One iteration of the loop dispatches wayland events, handles the other  *)
(* inputs (the cfg file, the lid, one IPC request, in this order) and then *)
(* always calls act.  phase says how far it is; act leads back to "poll".  *)
(* How many events one iteration dispatches is up to the socket, so any    *)
(* split of the queue over iterations is allowed.                          *)
(***************************************************************************)
EXTENDS Protocol

CONSTANTS MAX_CANCELLATION_RETRIES,
          Cfgs       \* the configurations a user may load or set

ASSUME DisplAssumption ==
    /\ MAX_CANCELLATION_RETRIES \in Nat
    /\ Cfgs \subseteq CfgRec

VARIABLES heads,      \* g_displ->heads
          hd,         \* struct Head of every zwlr_output_head_v1
          state,      \* g_displ->state
          delta,      \* g_displ->delta
          g_cancellation_retries,
          g_cfg,
          g_lid,
          ipc_operation,  \* an IPC client waits for its operation to be done
          phase,
          alive       \* "running", or how the server ended

displVars == <<heads, hd, state, delta, g_cancellation_retries, g_cfg, g_lid,
               ipc_operation, phase, alive>>

DisplStates == {"IDLE", "OUTSTANDING", "SUCCEEDED", "FAILED", "CANCELLED"}

Deltas == [element : {"none", "MODE", "VRR_OFF"}, head : Heads \cup {NULL},
           zmode : Modes \cup {NULL}]

NoDelta == [element |-> "none", head |-> NULL, zmode |-> NULL]

DisplTypeOK ==
    /\ heads \subseteq Heads
    /\ hd \in [Heads -> HeadRec]
    /\ state \in DisplStates
    /\ delta \in Deltas
    /\ g_cancellation_retries \in Nat
    /\ g_cfg \in CfgRec
    /\ g_lid \in LidStates
    /\ ipc_operation \in BOOLEAN
    /\ phase \in {"poll", "dispatch", "cfg", "lid", "ipc"}
    /\ alive \in {"running", "signalled", "failed", "crashed"}

DisplInit ==
    /\ heads = {}
    /\ hd = [h \in Heads |-> head_init]
    /\ state = "IDLE"
    /\ delta = NoDelta
    /\ g_cancellation_retries = 0
    /\ g_cfg \in Cfgs
    /\ g_lid \in IF g_cfg.laptop_lid_monitor THEN LidStates ELSE {"absent"}
    /\ ipc_operation = FALSE
    /\ phase = "poll"
    /\ alive = "running"
    /\ config = NoConfig

-----------------------------------------------------------------------------
(* Listeners.  Each takes the next event off the queue.                    *)

Dispatch(type) ==
    /\ alive = "running"
    /\ phase \in {"poll", "dispatch"}
    /\ wire # <<>>
    /\ Head(wire).type = type
    /\ wire' = Tail(wire)
    /\ phase' = "dispatch"
    /\ UNCHANGED <<delta, g_cancellation_retries, g_cfg, g_lid, ipc_operation, alive,
                   inputs, config>>

(* An event about one head changes its record and nothing else.            *)
DispatchHead(type, handler(_, _)) ==
    /\ Dispatch(type)
    /\ LET e == Head(wire)
       IN  hd' = [hd EXCEPT ![e.head] = handler(@, e.state)]
    /\ UNCHANGED <<heads, state>>

HeadAdded ==
    /\ Dispatch("head")
    /\ heads' = heads \cup {Head(wire).head}
    /\ hd' = [hd EXCEPT ![Head(wire).head] = head_init]
    /\ UNCHANGED state

(* displ_finished_head frees the head; delta may still point to it.        *)
HeadFinished ==
    /\ Dispatch("finished")
    /\ heads' = heads \ {Head(wire).head}
    /\ hd' = [hd EXCEPT ![Head(wire).head] = head_init]
    /\ UNCHANGED state

add_mode(r, s) == [r EXCEPT !.modes = @ \cup {s.zmode}]
preferred(r, s) == head_set_mode_pref(r, s.zmode)
mode_finished(r, s) == head_release_mode(r, s.zmode)
set_enabled(r, s) == [r EXCEPT !.cur = [@ EXCEPT !.enabled = s.enabled]]
set_current_mode(r, s) == [r EXCEPT !.cur = [@ EXCEPT !.zmode = s.zmode]]
set_geometry(r, s) == [r EXCEPT !.cur = [@ EXCEPT !.scale = s.scale, !.pos = s.pos]]
set_adaptive_sync(r, s) == [r EXCEPT !.cur = [@ EXCEPT !.adaptive_sync = s.adaptive_sync]]

ModeAdded == DispatchHead("mode", add_mode)
ModePreferred == DispatchHead("preferred", preferred)
ModeFinished == DispatchHead("mode_finished", mode_finished)
HeadEnabled == DispatchHead("enabled", set_enabled)
HeadCurrentMode == DispatchHead("current_mode", set_current_mode)
HeadGeometry == DispatchHead("geometry", set_geometry)
HeadAdaptiveSync == DispatchHead("adaptive_sync", set_adaptive_sync)

ManagerDone == Dispatch("done") /\ UNCHANGED <<heads, hd, state>>

(* cleanup destroys the zconfig of the heads that are still there.         *)
cleanup(type, displ_state) ==
    /\ Dispatch(type)
    /\ state' = displ_state
    /\ hd' = [h \in Heads |-> IF h \in heads THEN [hd[h] EXCEPT !.zconfig = FALSE] ELSE hd[h]]
    /\ UNCHANGED heads

succeeded == cleanup("succeeded", "SUCCEEDED")

failed == cleanup("failed", "FAILED")

cancelled == cleanup("cancelled", "CANCELLED")

-----------------------------------------------------------------------------
(* desire: the desired state of every live head, from the records r.       *)

desire(r) ==
    LET alone    == \E h \in heads : heads = {h}
        auto(h)  == ~cfg_disabled_applies_to_head(g_cfg.disableds, h, heads, g_lid, alone)
        want     == [h \in heads |-> desire_head(h, r[h], g_cfg, auto(h))]
        Placed   == {h \in heads : want[h].des.enabled /\ want[h].des.zmode # NULL}
        before(h) == {<<g, want[g].des.zmode, want[g].des.scale>> :
                         g \in {f \in Placed : g_cfg.order[f] < g_cfg.order[h]}}
    IN  [h \in Heads |->
            IF h \in Placed THEN [want[h] EXCEPT !.des = [@ EXCEPT !.pos = before(h)]]
            ELSE IF h \in heads THEN want[h] ELSE r[h]]

-----------------------------------------------------------------------------
(* act_apply with the desired records r: create one configuration for the  *)
(* first kind of change that is needed, or none.  ppmap_find returns the   *)
(* first head in the order of arrival; here it is any of them.             *)

Changing(r) == {h \in heads : head_current_not_desired(r[h])}
ReapplyHeads(r) == {h \in Changing(r) : r[h].reapply_required}
ModeHeads(r) == {h \in Changing(r) : head_current_mode_not_desired(r[h])}
VrrHeads(r) == {h \in Changing(r) : head_current_adaptive_sync_not_desired(r[h])}

Nothing(r) ==
    /\ Changing(r) = {}
    /\ hd' = r
    /\ delta' = NoDelta
    /\ state' = "IDLE"
    /\ UNCHANGED config

\* Mutant: the configuration is created with a serial not received yet.
ConfigureAnySerial(kind, on, off, r) ==
    /\ config' = [status |-> "sent", kind |-> kind, on |-> on, off |-> off,
                  want |-> [h \in Heads |-> r[h].des], stale |-> FALSE]
    /\ state' = "OUTSTANDING"

Configure(kind, on, off, r) ==
    /\ config' = [status |-> "sent", kind |-> kind, on |-> on, off |-> off,
                  want |-> [h \in Heads |-> r[h].des], stale |-> DonePending]
    /\ state' = "OUTSTANDING"

WithZconfig(r, on) == [h \in Heads |-> IF h \in on THEN [r[h] EXCEPT !.zconfig = TRUE] ELSE r[h]]

ApplyReapply(h, r) ==
    /\ Configure("REAPPLY", {}, {h}, r)
    /\ hd' = [r EXCEPT ![h] = [@ EXCEPT !.reapply_required = FALSE]]
    /\ delta' = [element |-> "none", head |-> h, zmode |-> NULL]

\* Mutant: delta is given the current mode.
ApplyModeCurrent(h, r) ==
    /\ Configure("MODE", {h}, {}, r)
    /\ hd' = WithZconfig(r, {h})
    /\ delta' = [element |-> "MODE", head |-> h, zmode |-> r[h].cur.zmode]

ApplyMode(h, r) ==
    /\ Configure("MODE", {h}, {}, r)
    /\ hd' = WithZconfig(r, {h})
    /\ delta' = [element |-> "MODE", head |-> h, zmode |-> r[h].des.zmode]

ApplyVrr(h, r) ==
    /\ Configure("VRR", {h}, {}, r)
    /\ hd' = WithZconfig(r, {h})
    /\ delta' = [element |-> "VRR_OFF", head |-> h, zmode |-> NULL]

ApplyOther(r) ==
    LET on == {h \in Changing(r) : r[h].des.enabled}
    IN  /\ Configure("OTHER", on, Changing(r) \ on, r)
        /\ hd' = WithZconfig(r, on)
        /\ delta' = NoDelta

\* Mutant: a change of mode is looked for before a reapply.
act_apply_mode_first(r) ==
    \/ Nothing(r)
    \/ \E h \in ModeHeads(r) : ApplyMode(h, r)
    \/ ModeHeads(r) = {} /\ \E h \in ReapplyHeads(r) : ApplyReapply(h, r)
    \/ ReapplyHeads(r) \cup ModeHeads(r) = {} /\ \E h \in VrrHeads(r) : ApplyVrr(h, r)
    \/ /\ ReapplyHeads(r) \cup ModeHeads(r) \cup VrrHeads(r) = {}
       /\ Changing(r) # {}
       /\ ApplyOther(r)

act_apply(r) ==
    \/ Nothing(r)
    \/ \E h \in ReapplyHeads(r) : ApplyReapply(h, r)
    \/ ReapplyHeads(r) = {} /\ \E h \in ModeHeads(r) : ApplyMode(h, r)
    \/ ReapplyHeads(r) \cup ModeHeads(r) = {} /\ \E h \in VrrHeads(r) : ApplyVrr(h, r)
    \/ /\ ReapplyHeads(r) \cup ModeHeads(r) \cup VrrHeads(r) = {}
       /\ Changing(r) # {}
       /\ ApplyOther(r)

-----------------------------------------------------------------------------
(* act, and the notification of the IPC client that follows it.            *)

\* Mutant: the failed mode stays in modes.
mode_refused_kept(r, zmode) ==
    [r EXCEPT !.modes_failed = @ \cup ({zmode} \cap r.modes),
              !.cur = [r.cur EXCEPT !.zmode = NULL]]

(* A failed mode moves to modes_failed when it is still one of the modes.  *)
mode_refused(r, zmode) ==
    [r EXCEPT !.modes = @ \ {zmode},
              !.modes_failed = @ \cup ({zmode} \cap r.modes),
              !.cur = [r.cur EXCEPT !.zmode = NULL]]

adaptive_sync_refused(r) ==
    [r EXCEPT !.adaptive_sync_failed = @ \/ head_current_adaptive_sync_not_desired(r)]

act_handle_failure ==
    CASE delta.element = "MODE" -> [hd EXCEPT ![delta.head] = mode_refused(@, delta.zmode)]
      [] delta.element = "VRR_OFF" -> [hd EXCEPT ![delta.head] = adaptive_sync_refused(@)]
      [] OTHER -> hd

act_handle_success ==
    CASE delta.element = "MODE" ->
            [hd EXCEPT ![delta.head] = set_current_mode(@, delta)]
      [] delta.element = "VRR_OFF" -> act_handle_failure
      [] OTHER -> hd

(* delta.head is followed after displ_finished_head freed it.              *)
Dangling == delta.element # "none" /\ delta.head \notin heads

\* Mutant: done is taken from the state before act.
notify_before_act == ipc_operation' = (ipc_operation /\ state # "IDLE")

(* done when act left the server IDLE, or when the client can no longer be *)
(* written to.                                                             *)
notify_ipc_operation ==
    \/ ipc_operation' = (ipc_operation /\ state' # "IDLE")
    \/ "client_gone" \in Scenario /\ ipc_operation' = FALSE

BeginAct(s) ==
    /\ alive = "running"
    /\ phase # "poll"
    /\ state = s
    /\ phase' = "poll"
    /\ UNCHANGED <<heads, g_cfg, g_lid, inputs, wire>>

ActIdle ==
    /\ BeginAct("IDLE")
    /\ \E r \in {desire(hd)} : act_apply(r)
    /\ notify_ipc_operation
    /\ UNCHANGED <<g_cancellation_retries, alive>>

\* Mutant: act does not wait for the answer.
ActOutstandingApplies ==
    /\ BeginAct("OUTSTANDING")
    /\ \E r \in {desire(hd)} : act_apply(r)
    /\ notify_ipc_operation
    /\ UNCHANGED <<g_cancellation_retries, alive>>

ActOutstanding ==
    /\ BeginAct("OUTSTANDING")
    /\ UNCHANGED <<hd, state, delta, config, g_cancellation_retries, alive>>
    /\ notify_ipc_operation

\* Mutant: what was desired before is applied again, without desire.
ActSucceededStale ==
    /\ BeginAct("SUCCEEDED")
    /\ g_cancellation_retries' = 0
    /\ \E r \in {IF Dangling THEN hd ELSE act_handle_success} : act_apply(r)
    /\ notify_ipc_operation
    /\ UNCHANGED alive

(* Writes through a dangling delta.head land in freed memory.              *)
ActSucceeded ==
    /\ BeginAct("SUCCEEDED")
    /\ g_cancellation_retries' = 0
    /\ \E r \in {desire(IF Dangling THEN hd ELSE act_handle_success)} : act_apply(r)
    /\ notify_ipc_operation
    /\ UNCHANGED alive

ActFailed ==
    /\ BeginAct("FAILED")
    /\ delta.element # "none"
    /\ \E r \in {desire(IF Dangling THEN hd ELSE act_handle_failure)} : act_apply(r)
    /\ notify_ipc_operation
    /\ UNCHANGED <<g_cancellation_retries, alive>>

ActCrash ==
    /\ BeginAct(state)
    /\ state \in {"SUCCEEDED", "FAILED"}
    /\ Dangling
    /\ alive' = "crashed"
    /\ UNCHANGED <<hd, state, delta, config, g_cancellation_retries, ipc_operation>>

ActExit ==
    /\ BeginAct("FAILED")
    /\ delta.element = "none"
    /\ alive' = "failed"
    /\ UNCHANGED <<hd, state, delta, config, g_cancellation_retries, ipc_operation>>

\* Mutant: act returns on the first cancellation.
ActRetryReturns ==
    /\ BeginAct("CANCELLED")
    /\ g_cancellation_retries + 1 <= MAX_CANCELLATION_RETRIES
    /\ g_cancellation_retries' = g_cancellation_retries + 1
    /\ state' = "IDLE"
    /\ notify_ipc_operation
    /\ UNCHANGED <<hd, delta, config, alive>>

\* Mutant: retries are counted down.
ActRetryDown ==
    /\ BeginAct("CANCELLED")
    /\ g_cancellation_retries + 1 <= MAX_CANCELLATION_RETRIES
    /\ g_cancellation_retries' = g_cancellation_retries - 1
    /\ \E r \in {desire(hd)} : act_apply(r)
    /\ notify_ipc_operation
    /\ UNCHANGED alive

ActRetry ==
    /\ BeginAct("CANCELLED")
    /\ g_cancellation_retries + 1 <= MAX_CANCELLATION_RETRIES
    /\ g_cancellation_retries' = g_cancellation_retries + 1
    /\ \E r \in {desire(hd)} : act_apply(r)
    /\ notify_ipc_operation
    /\ UNCHANGED alive

\* Mutant: giving up skips the rest of the iteration.
ActGiveUpSilently ==
    /\ BeginAct("CANCELLED")
    /\ g_cancellation_retries + 1 > MAX_CANCELLATION_RETRIES
    /\ g_cancellation_retries' = g_cancellation_retries + 1
    /\ state' = "IDLE"
    /\ UNCHANGED <<hd, delta, config, ipc_operation, alive>>

ActGiveUp ==
    /\ BeginAct("CANCELLED")
    /\ g_cancellation_retries + 1 > MAX_CANCELLATION_RETRIES
    /\ g_cancellation_retries' = g_cancellation_retries + 1
    /\ state' = "IDLE"
    /\ notify_ipc_operation
    /\ UNCHANGED <<hd, delta, config, alive>>

-----------------------------------------------------------------------------
(* The other inputs of the loop.                                           *)

Earlier == [cfg |-> {"poll", "dispatch"},
            lid |-> {"poll", "dispatch", "cfg"},
            ipc |-> {"poll", "dispatch", "cfg", "lid"}]

Input(stage) ==
    /\ alive = "running"
    /\ phase \in Earlier[stage]
    /\ CountInput
    /\ phase' = stage
    /\ UNCHANGED <<wire, config, heads, state, delta, g_cancellation_retries, alive>>

\* c is g_cfg itself when the file cannot be read
g_cfg_file_reload(c) ==
    /\ Input("cfg")
    /\ g_cfg' = c
    /\ UNCHANGED <<hd, g_lid, ipc_operation>>

g_lid_update(closed) ==
    /\ Input("lid")
    /\ g_lid # "absent"
    /\ g_lid' = IF ~g_cfg.laptop_lid_monitor THEN g_lid
                ELSE IF closed THEN "closed" ELSE "open"
    /\ UNCHANGED <<hd, g_cfg, ipc_operation>>

(* handle_ipc_in_progress: a second request changes nothing.               *)
IpcInProgress ==
    /\ Input("ipc")
    /\ ipc_operation
    /\ UNCHANGED <<hd, g_cfg, g_lid, ipc_operation>>

(* A request that changes the configuration is ongoing, else it is done.   *)
IpcMerged(c) ==
    /\ g_cfg' = c
    /\ ipc_operation' = (c # g_cfg)

IpcVrrOff(command, name_desc) ==
    /\ Input("ipc")
    /\ ~ipc_operation
    /\ IpcMerged([g_cfg EXCEPT !.adaptive_sync_off =
                     cfg_merge_adaptive_sync_off(@, name_desc, command)])
    /\ UNCHANGED <<hd, g_lid>>

(* ipc_request_filter turns the request into overrides of the heads it     *)
(* conditionally disables and drops it, or drops it when it clashes with a *)
(* condition of no present head; otherwise it is merged.                   *)
IpcDisabled(command, name_desc) ==
    LET overridden == {h \in heads : head_overrides_ipc_disabled(h, g_cfg.disableds, name_desc)}
        dropped == \/ overridden # {}
                   \/ cfg_disabled_filter_conditional_clashes(g_cfg.disableds, name_desc)
    IN  /\ Input("ipc")
        /\ ~ipc_operation
        /\ hd' = [h \in Heads |-> IF h \in overridden
                                  THEN head_override_ipc_disableds(hd[h], command) ELSE hd[h]]
        /\ IpcMerged(IF dropped THEN g_cfg
                     ELSE [g_cfg EXCEPT !.disableds = cfg_merge_disabled(@, name_desc, command)])
        /\ UNCHANGED g_lid

IpcReapply ==
    /\ Input("ipc")
    /\ ~ipc_operation
    /\ hd' = [h \in Heads |-> IF h \in heads THEN head_reapply(hd[h]) ELSE hd[h]]
    /\ ipc_operation' = TRUE
    /\ UNCHANGED <<g_cfg, g_lid>>

(* A signal other than SIGPIPE ends the loop; so does the departure of the *)
(* output manager.                                                         *)
Signalled ==
    /\ alive = "running"
    /\ phase \in Earlier["cfg"]
    /\ alive' = "signalled"
    /\ UNCHANGED <<wire, config, heads, hd, state, delta, g_cancellation_retries, g_cfg, g_lid,
                   ipc_operation, phase, inputs>>
=============================================================================
