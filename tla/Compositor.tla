----------------------------- MODULE Compositor -----------------------------
(***************************************************************************)
(* The compositor, external to the repository, as the server meets it: it  *)
(* announces heads and their changes, and applies, refuses or cancels a    *)
(* configuration.  Scenario says which of this one model allows.           *)
(***************************************************************************)
EXTENDS Protocol, FiniteSets

CONSTANTS Offer,     \* the modes of a head, in the order they are announced
          Preferred, \* the mode of a head announced as preferred, or NULL
          Removable, \* the heads that can be unplugged; a panel is built in
          Rounded    \* the scale a compositor that rounds really applies

ASSUME CompositorAssumption ==
    /\ Offer \in [Heads -> Seq(Modes)]
    /\ Preferred \in [Heads -> Modes \cup {NULL}]
    /\ Removable \subseteq Heads
    /\ Rounded \in [Scales -> Scales]

VARIABLES screen,  \* the physical state of every head
          told,    \* what the events sent so far say about it
          offer,   \* the modes of every head that are not finished
          plugged, \* heads announced and not finished
          used     \* heads that were ever announced

compositorVars == <<screen, told, offer, plugged, used>>

CompositorTypeOK ==
    /\ screen \in [Heads -> HeadStates]
    /\ told \in [Heads -> HeadStates]
    /\ offer \in [Heads -> Seq(Modes)]
    /\ plugged \subseteq used
    /\ used \subseteq Heads

CompositorInit ==
    /\ screen = [h \in Heads |-> ZeroState]
    /\ told = [h \in Heads |-> ZeroState]
    /\ offer = Offer
    /\ plugged = {}
    /\ used = {}
    /\ wire = <<>>
    /\ inputs = 0

ModeEvents(type, h) == [i \in 1..Len(offer[h]) |-> ModeEvent(type, h, offer[h][i])]

If(cond, e) == IF cond THEN <<e>> ELSE <<>>

(* The events that bring a client from one state of h to the next.  Only   *)
(* an enabled head has a mode, a geometry and an adaptive sync state; a    *)
(* head that becomes enabled is described anew.                            *)
Describe(h, from, to) ==
    LET fresh == to.enabled /\ ~from.enabled
        sent(changed) == to.enabled /\ (fresh \/ changed)
    IN  If(from.enabled # to.enabled, Event("enabled", h, to))
        \o If(sent(from.zmode # to.zmode), Event("current_mode", h, to))
        \o If(sent(<<from.scale, from.pos>> # <<to.scale, to.pos>>), Event("geometry", h, to))
        \o If(sent(from.adaptive_sync # to.adaptive_sync), Event("adaptive_sync", h, to))

(* A done makes a configuration that was not applied yet outdated.         *)
Outdated == [config EXCEPT !.stale = @ \/ config.status = "sent"]

Send(events) == wire' = wire \o events /\ UNCHANGED inputs
Announce(events) == Send(events \o <<Signal("done")>>) /\ config' = Outdated

-----------------------------------------------------------------------------
(* A head is plugged in, enabled with its first mode or disabled.          *)
Plug(h, on) ==
    /\ h \notin used
    /\ on \/ "plug_disabled" \in Scenario
    /\ LET s == [ZeroState EXCEPT !.zmode = IF Offer[h] = <<>> THEN NULL ELSE Offer[h][1],
                                  !.enabled = on /\ Offer[h] # <<>>]
       IN  /\ screen' = [screen EXCEPT ![h] = s]
           /\ told' = [told EXCEPT ![h] = s]
           /\ Announce(<<Event("head", h, ZeroState)>>
                       \o ModeEvents("mode", h)
                       \o If(Preferred[h] # NULL, ModeEvent("preferred", h, Preferred[h]))
                       \o Describe(h, ZeroState, s))
    /\ plugged' = plugged \cup {h}
    /\ used' = used \cup {h}
    /\ UNCHANGED offer

(* A head is unplugged: its modes are finished, then the head is.          *)
Unplug(h) ==
    /\ "unplug" \in Scenario
    /\ h \in plugged \cap Removable
    /\ Announce(ModeEvents("mode_finished", h) \o <<Event("finished", h, ZeroState)>>)
    /\ plugged' = plugged \ {h}
    /\ screen' = [screen EXCEPT ![h] = ZeroState]
    /\ told' = [told EXCEPT ![h] = ZeroState]
    /\ UNCHANGED <<offer, used>>

(* The last mode of a head is withdrawn; it is not the one in use.         *)
FinishMode(h) ==
    LET n == Len(offer[h])
    IN  /\ "mode_finished" \in Scenario
        /\ h \in plugged
        /\ n > 1
        /\ screen[h].zmode # offer[h][n]
        /\ Announce(<<ModeEvent("mode_finished", h, offer[h][n])>>)
        /\ offer' = [offer EXCEPT ![h] = [i \in 1..(n - 1) |-> offer[h][i]]]
        /\ UNCHANGED <<screen, told, plugged, used>>

(* Another client of the compositor changes the mode of a head.            *)
OtherClient(h, m) ==
    /\ "other_client" \in Scenario
    /\ CountInput
    /\ h \in plugged
    /\ screen[h].enabled
    /\ \E i \in 1..Len(offer[h]) : offer[h][i] = m
    /\ screen[h].zmode # m
    /\ screen' = [screen EXCEPT ![h].zmode = m]
    /\ UNCHANGED <<told, offer, plugged, used, wire, config>>

(* The changes of a head are sent, followed by done.                       *)
Report(h) ==
    /\ h \in plugged
    /\ told[h] # screen[h]
    /\ Announce(Describe(h, told[h], screen[h]))
    /\ told' = [told EXCEPT ![h] = screen[h]]
    /\ UNCHANGED <<screen, offer, plugged, used>>

-----------------------------------------------------------------------------
(* What an accepted configuration does to a head.                          *)
Configured(h, round, ignore) ==
    LET s == screen[h]
        w == config.want[h]
    IN  CASE h \in config.off \ config.on -> [s EXCEPT !.enabled = FALSE]
          [] h \in config.on /\ config.kind = "MODE" -> [s EXCEPT !.enabled = TRUE, !.zmode = w.zmode]
          [] h \in config.on /\ config.kind = "VRR" ->
                [s EXCEPT !.enabled = TRUE, !.adaptive_sync = IF ignore THEN @ ELSE w.adaptive_sync]
          [] h \in config.on /\ config.kind = "OTHER" ->
                [s EXCEPT !.enabled = TRUE, !.pos = w.pos,
                          !.scale = IF round /\ w.scale # NULL THEN Rounded[w.scale] ELSE w.scale]
          [] OTHER -> s

(* The configuration takes effect.  The answer and the events about the    *)
(* changes follow in either order.  A compositor may say nothing of a new  *)
(* mode, ignore an adaptive sync request, or round a scale.                *)
Apply ==
    /\ config.status = "sent"
    /\ ~config.stale
    /\ \E round, ignore, silent \in BOOLEAN :
        /\ round => "round" \in Scenario /\ config.kind = "OTHER"
        /\ ignore => "vrr_ignored" \in Scenario /\ config.kind = "VRR"
        /\ silent => "silent_mode" \in Scenario /\ config.kind = "MODE"
        /\ screen' = [h \in Heads |-> Configured(h, round, ignore)]
        /\ told' = IF silent
                   THEN [h \in Heads |-> IF h \in config.on
                                         THEN [told[h] EXCEPT !.zmode = config.want[h].zmode]
                                         ELSE told[h]]
                   ELSE told
    /\ config' = [config EXCEPT !.status = "applied"]
    /\ UNCHANGED <<wire, inputs, offer, plugged, used>>

Answer(type) == Send(<<Signal(type)>>) /\ config' = NoConfig /\ UNCHANGED compositorVars

Succeed == config.status = "applied" /\ Answer("succeeded")

Refuse ==
    /\ config.status = "sent"
    /\ ~config.stale
    /\ \/ config.kind = "MODE" /\ "refuse_mode" \in Scenario
       \/ config.kind = "VRR" /\ "refuse_vrr" \in Scenario
       \/ config.kind \in {"REAPPLY", "OTHER"} /\ "refuse_other" \in Scenario
    /\ Answer("failed")

Cancel == config.status = "sent" /\ config.stale /\ Answer("cancelled")
=============================================================================
