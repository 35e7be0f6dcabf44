---------------------------- MODULE MirrorProofs ----------------------------
(***************************************************************************)
(* What the server knows of the screens, and what it makes of it: theorems *)
(* about WayDisplays for every set of heads, modes, scales and             *)
(* configurations.                                                         *)
(***************************************************************************)
EXTENDS WayDisplaysProofs

-----------------------------------------------------------------------------
(* desire twice is desire once.                                            *)

(* desire_head writes the override and the desired state, and computes     *)
(* neither from the desired state of before.                               *)
LEMMA DesireHeadAgain ==
    ASSUME NEW h \in Heads, NEW r \in HeadRec, NEW cfg \in CfgRec, NEW auto \in BOOLEAN,
           NEW s \in HeadStates
    PROVE  LET d == desire_head(h, r, cfg, auto)
           IN  /\ desire_head(h, [d EXCEPT !.des = s], cfg, auto) = d
               /\ d.cur = r.cur /\ d.modes = r.modes /\ d.modes_failed = r.modes_failed
               /\ d.reapply_required = r.reapply_required
<1> DEFINE of(x) == [zmode   |-> IF desire_enabled(x, auto) /\ head_find_mode(x.modes, x.zmode_pref, cfg.modes[h]) # NULL
                                 THEN head_find_mode(x.modes, x.zmode_pref, cfg.modes[h]) ELSE x.cur.zmode,
                     enabled |-> desire_enabled(x, auto) /\ head_find_mode(x.modes, x.zmode_pref, cfg.modes[h]) # NULL
                                 /\ ~x.reapply_required,
                     scale   |-> IF desire_enabled(x, auto) /\ head_find_mode(x.modes, x.zmode_pref, cfg.modes[h]) # NULL
                                 THEN cfg.scales[h] ELSE x.cur.scale,
                     pos     |-> x.cur.pos,
                     adaptive_sync |-> IF desire_enabled(x, auto) /\ head_find_mode(x.modes, x.zmode_pref, cfg.modes[h]) # NULL
                                          /\ ~x.adaptive_sync_failed
                                       THEN \A nd \in cfg.adaptive_sync_off : h \notin nd ELSE x.cur.adaptive_sync]
           ov(x) == desire_override(x, auto)
           d == [r EXCEPT !.overrided_enabled = ov(r), !.des = of(r)]
           e == [d EXCEPT !.des = s]
<1>1. \A x : desire_head(h, x, cfg, auto) = [x EXCEPT !.overrided_enabled = ov(x), !.des = of(x)]
  BY DEF desire_head
<1>2. d = desire_head(h, r, cfg, auto)
  BY <1>1
<1>3. d \in HeadRec
  BY <1>2, DesireHeadType
<1>4. /\ d.modes = r.modes /\ d.modes_failed = r.modes_failed /\ d.zmode_pref = r.zmode_pref /\ d.cur = r.cur
      /\ d.reapply_required = r.reapply_required /\ d.adaptive_sync_failed = r.adaptive_sync_failed
      /\ d.overrided_enabled = ov(r) /\ d.des = of(r)
  <2> HIDE DEF ov, of
  <2>1. QED
    BY DEF HeadRec
<1> HIDE DEF d
<1>5. /\ e.modes = d.modes /\ e.zmode_pref = d.zmode_pref /\ e.cur = d.cur
      /\ e.reapply_required = d.reapply_required /\ e.adaptive_sync_failed = d.adaptive_sync_failed
      /\ e.overrided_enabled = d.overrided_enabled
  BY <1>3 DEF HeadRec
<1> HIDE DEF e
<1>6. ov(e) = ov(r) /\ desire_enabled(e, auto) = desire_enabled(r, auto)
  <2>1. ov(e) = ov(r)
    BY <1>4, <1>5 DEF desire_override
  <2>2. QED
    BY <2>1 DEF desire_enabled
<1>7. of(e) = of(r)
  BY <1>4, <1>5, <1>6
<1> HIDE DEF ov, of
<1>8. [e EXCEPT !.overrided_enabled = ov(r), !.des = of(r)] = d
  BY <1>3, <1>4 DEF e, HeadRec
<1>9. desire_head(h, e, cfg, auto) = d
  BY <1>1, <1>6, <1>7, <1>8
<1>10. QED
  BY <1>2, <1>4, <1>9 DEF e

(* desire computes the same a second time, and leaves what the compositor  *)
(* said of a head alone; a head it enables is given one of its modes.      *)
LEMMA DesireFacts ==
    ASSUME DisplTypeOK, NEW r \in [Heads -> HeadRec]
    PROVE  /\ desire(desire(r)) = desire(r)
           /\ \A h \in Heads :
                 /\ desire(r)[h].cur = r[h].cur
                 /\ desire(r)[h].modes = r[h].modes
                 /\ desire(r)[h].modes_failed = r[h].modes_failed
                 /\ desire(r)[h].reapply_required = r[h].reapply_required
                 /\ h \in heads /\ desire(r)[h].des.enabled => desire(r)[h].des.zmode \in r[h].modes
                 /\ h \notin heads => desire(r)[h] = r[h]
<1> DEFINE alone    == \E h \in heads : heads = {h}
           auto(h)  == ~cfg_disabled_applies_to_head(g_cfg.disableds, h, heads, g_lid, alone)
           want     == [h \in heads |-> desire_head(h, r[h], g_cfg, auto(h))]
           Placed   == {h \in heads : want[h].des.enabled /\ want[h].des.zmode # NULL}
           before(h) == {<<g, want[g].des.zmode, want[g].des.scale>> :
                            g \in {f \in Placed : g_cfg.order[f] < g_cfg.order[h]}}
           q        == desire(r)
           again    == [h \in heads |-> desire_head(h, q[h], g_cfg, auto(h))]
           AgPlaced == {h \in heads : again[h].des.enabled /\ again[h].des.zmode # NULL}
           agBefore(h) == {<<g, again[g].des.zmode, again[g].des.scale>> :
                            g \in {f \in AgPlaced : g_cfg.order[f] < g_cfg.order[h]}}
<1>1. heads \subseteq Heads /\ g_cfg \in CfgRec /\ q \in [Heads -> HeadRec]
  BY DesireType DEF DisplTypeOK
<1>2. /\ q = [h \in Heads |->
                IF h \in Placed THEN [want[h] EXCEPT !.des = [@ EXCEPT !.pos = before(h)]]
                ELSE IF h \in heads THEN want[h] ELSE r[h]]
      /\ desire(q) = [h \in Heads |->
                IF h \in AgPlaced THEN [again[h] EXCEPT !.des = [@ EXCEPT !.pos = agBefore(h)]]
                ELSE IF h \in heads THEN again[h] ELSE q[h]]
  BY DEF desire
<1> HIDE DEF q
<1>3. ASSUME NEW h \in heads
      PROVE  /\ again[h] = want[h] /\ want[h] \in HeadRec
             /\ want[h].cur = r[h].cur /\ want[h].modes = r[h].modes
             /\ want[h].modes_failed = r[h].modes_failed
             /\ want[h].reapply_required = r[h].reapply_required
             /\ want[h].des.enabled => want[h].des.zmode \in r[h].modes
             /\ q[h].cur = want[h].cur /\ q[h].modes = want[h].modes
             /\ q[h].modes_failed = want[h].modes_failed
             /\ q[h].reapply_required = want[h].reapply_required
             /\ q[h].des.enabled = want[h].des.enabled /\ q[h].des.zmode = want[h].des.zmode
  <2>1. PICK a \in BOOLEAN : a = auto(h)
    OBVIOUS
  <2>2. h \in Heads /\ r[h] \in HeadRec /\ q[h] \in HeadRec
    BY <1>1
  <2>3. want[h] = desire_head(h, r[h], g_cfg, a) /\ again[h] = desire_head(h, q[h], g_cfg, a)
    BY <2>1
  <2>4. q[h] = IF h \in Placed THEN [want[h] EXCEPT !.des = [@ EXCEPT !.pos = before(h)]] ELSE want[h]
    BY <1>2, <2>2
  <2> HIDE DEF auto, want, again, Placed, before
  <2>5. want[h] \in HeadRec /\ (want[h].des.enabled => want[h].des.zmode \in r[h].modes)
    BY <1>1, <2>2, <2>3, DesireHeadType
  <2>6. /\ q[h] = [want[h] EXCEPT !.des = q[h].des]
        /\ q[h].des.enabled = want[h].des.enabled /\ q[h].des.zmode = want[h].des.zmode
    <3>1. CASE h \in Placed
      BY <2>4, <2>5, <3>1 DEF HeadRec, HeadStates
    <3>2. CASE h \notin Placed
      BY <2>4, <2>5, <3>2 DEF HeadRec
    <3>3. QED
      BY <3>1, <3>2
  <2>7. PICK s \in HeadStates : s = q[h].des
    BY <2>2 DEF HeadRec
  <2>8. /\ desire_head(h, [want[h] EXCEPT !.des = s], g_cfg, a) = want[h]
        /\ want[h].cur = r[h].cur /\ want[h].modes = r[h].modes
        /\ want[h].modes_failed = r[h].modes_failed
        /\ want[h].reapply_required = r[h].reapply_required
    BY <1>1, <2>2, <2>3, DesireHeadAgain
  <2>9. again[h] = want[h]
    BY <2>3, <2>6, <2>7, <2>8
  <2>10. /\ q[h].cur = want[h].cur /\ q[h].modes = want[h].modes
         /\ q[h].modes_failed = want[h].modes_failed
         /\ q[h].reapply_required = want[h].reapply_required
    <3>1. PICK w \in HeadRec : w = want[h]
      BY <2>5
    <3>2. q[h] = [w EXCEPT !.des = s]
      BY <2>6, <2>7, <3>1
    <3>3. QED
      BY <3>1, <3>2 DEF HeadRec
  <2>11. QED
    BY <2>5, <2>6, <2>8, <2>9, <2>10
<1>4. again = want
  <2>1. \A h \in heads : again[h] = want[h]
    BY <1>3
  <2>2. QED
    BY <2>1
<1>5. desire(q) = q
  <2> DEFINE F(w, x) == LET P == {h \in heads : w[h].des.enabled /\ w[h].des.zmode # NULL}
                            b(h) == {<<g, w[g].des.zmode, w[g].des.scale>> :
                                       g \in {f \in P : g_cfg.order[f] < g_cfg.order[h]}}
                        IN  [h \in Heads |->
                               IF h \in P THEN [w[h] EXCEPT !.des = [@ EXCEPT !.pos = b(h)]]
                               ELSE IF h \in heads THEN w[h] ELSE x[h]]
  <2>1. q = F(want, r) /\ desire(q) = F(again, q)
    BY <1>2
  <2>2. ASSUME NEW h \in Heads
        PROVE  h \notin heads => q[h] = r[h]
    BY <1>2, <2>2
  <2> HIDE DEF want, again
  <2>3. F(want, q) = F(want, r)
    BY <2>2
  <2> HIDE DEF F
  <2>4. QED
    BY <1>4, <2>1, <2>3
<1>6. ASSUME NEW h \in Heads, h \notin heads
      PROVE  q[h] = r[h]
  BY <1>2, <1>6
<1>7. ASSUME NEW h \in Heads
      PROVE  /\ q[h].cur = r[h].cur
             /\ q[h].modes = r[h].modes
             /\ q[h].modes_failed = r[h].modes_failed
             /\ q[h].reapply_required = r[h].reapply_required
             /\ h \in heads /\ q[h].des.enabled => q[h].des.zmode \in r[h].modes
  <2> HIDE DEF want, again
  <2>1. CASE h \in heads
    BY <1>3, <2>1
  <2>2. CASE h \notin heads
    BY <1>6, <2>2
  <2>3. QED
    BY <2>1, <2>2
<1>8. QED
  BY <1>5, <1>6, <1>7 DEF q

-----------------------------------------------------------------------------
(* The server rests only when nothing is left to change.                   *)

(* What is desired depends on the heads, the configuration and the lid.    *)
LEMMA DesireUnchanged ==
    ASSUME NEW r, hd' = r, UNCHANGED <<heads, g_cfg, g_lid>>
    PROVE  (Changing(desire(hd)))' = Changing(desire(r))
<1>1. (desire(hd))' = desire(r)
  BY DEF desire
<1>2. QED
  BY <1>1 DEF Changing

(* An act that applies the desire and ends IDLE found nothing to change.   *)
LEMMA AppliedRests ==
    ASSUME DisplTypeOK, NEW x \in [Heads -> HeadRec], act_apply(desire(x)), state' = "IDLE",
           UNCHANGED <<heads, g_cfg, g_lid>>
    PROVE  (Changing(desire(hd)))' = {}
<1>1. Nothing(desire(x))
  BY DEF act_apply, ApplyReapply, ApplyMode, ApplyVrr, ApplyOther, Configure
<1>2. hd' = desire(x) /\ Changing(desire(x)) = {}
  BY <1>1 DEF Nothing
<1>3. desire(desire(x)) = desire(x)
  BY DesireFacts
<1>4. QED
  BY <1>2, <1>3, DesireUnchanged

(* The records an act starts from: those of the server, with the outcome   *)
(* of the last configuration entered.                                      *)
Handled(x) ==
    x = CASE state = "SUCCEEDED" /\ ~Dangling -> act_handle_success
          [] state = "FAILED" /\ ~Dangling -> act_handle_failure
          [] OTHER -> hd

(* What an act may do: end the server, wait, give up, or apply the desire. *)
LEMMA ActCases ==
    ASSUME IInv, act
    PROVE  /\ UNCHANGED <<heads, g_cfg, g_lid, wire, inputs>>
           /\ phase' = "poll" /\ alive = "running" /\ phase # "poll"
           /\ \/ /\ alive' # "running"
                 /\ UNCHANGED <<hd, state, delta, config, ipc_operation, g_cancellation_retries>>
              \/ /\ state = "OUTSTANDING" /\ UNCHANGED <<hd, state, delta, config, g_cancellation_retries>>
                 /\ notify_ipc_operation /\ alive' = alive
              \/ /\ state = "CANCELLED" /\ state' = "IDLE" /\ GaveUp' /\ UNCHANGED <<hd, delta, config>>
                 /\ notify_ipc_operation /\ alive' = alive
              \/ /\ state # "OUTSTANDING" /\ notify_ipc_operation /\ alive' = alive
                 /\ \E x \in [Heads -> HeadRec] : Handled(x) /\ act_apply(desire(x))
<1>1. hd \in [Heads -> HeadRec] /\ TypeOK
  BY DEF IInv, TypeOK, DisplTypeOK
<1>2. \A s : BeginAct(s) => /\ UNCHANGED <<heads, g_cfg, g_lid, wire, inputs>> /\ state = s
                            /\ phase' = "poll" /\ alive = "running" /\ phase # "poll"
  BY DEF BeginAct
<1>3. CASE ActIdle
  <2>1. BeginAct("IDLE") /\ act_apply(desire(hd)) /\ notify_ipc_operation /\ alive' = alive
    BY <1>3 DEF ActIdle
  <2>2. QED
    BY <1>1, <1>2, <2>1 DEF Handled
<1>4. CASE ActOutstanding
  BY <1>2, <1>4 DEF ActOutstanding
<1>5. CASE ActSucceeded
  <2> DEFINE r == IF Dangling THEN hd ELSE act_handle_success
  <2>1. BeginAct("SUCCEEDED") /\ act_apply(desire(r)) /\ notify_ipc_operation /\ alive' = alive
    BY <1>5 DEF ActSucceeded
  <2>2. r \in [Heads -> HeadRec]
    BY <1>1, HandledType
  <2>3. state = "SUCCEEDED" => Handled(r)
    BY DEF Handled
  <2> HIDE DEF r
  <2>4. QED
    BY <1>2, <2>1, <2>2, <2>3
<1>6. CASE ActFailed
  <2> DEFINE r == IF Dangling THEN hd ELSE act_handle_failure
  <2>1. BeginAct("FAILED") /\ act_apply(desire(r)) /\ notify_ipc_operation /\ alive' = alive
    BY <1>6 DEF ActFailed
  <2>2. r \in [Heads -> HeadRec]
    BY <1>1, HandledType
  <2>3. state = "FAILED" => Handled(r)
    BY DEF Handled
  <2> HIDE DEF r
  <2>4. QED
    BY <1>2, <2>1, <2>2, <2>3
<1>7. CASE ActCrash
  BY <1>2, <1>7 DEF ActCrash
<1>8. CASE ActExit
  BY <1>2, <1>8 DEF ActExit
<1>9. CASE ActRetry
  <2>1. BeginAct("CANCELLED") /\ act_apply(desire(hd)) /\ notify_ipc_operation /\ alive' = alive
    BY <1>9 DEF ActRetry
  <2>2. QED
    BY <1>1, <1>2, <2>1 DEF Handled
<1>10. CASE ActGiveUp
  <2>1. GaveUp'
    BY <1>10 DEF ActGiveUp, GaveUp
  <2>2. QED
    BY <1>2, <1>10, <2>1 DEF ActGiveUp
<1>11. QED
  BY <1>3, <1>4, <1>5, <1>6, <1>7, <1>8, <1>9, <1>10 DEF act

(* An act that ends IDLE leaves no change undone, or has given up.         *)
LEMMA ActRests ==
    ASSUME IInv, act, state' = "IDLE", alive' = "running"
    PROVE  (Changing(desire(hd)))' = {} \/ GaveUp'
<1>1. DisplTypeOK
  BY DEF IInv, TypeOK
<1>2. UNCHANGED <<heads, g_cfg, g_lid>>
  BY ActCases
<1>3. ASSUME NEW x \in [Heads -> HeadRec], act_apply(desire(x))
      PROVE  (Changing(desire(hd)))' = {}
  BY <1>1, <1>2, <1>3, AppliedRests
<1>4. QED
  BY <1>3, ActCases

(* While the server waits in poll and is IDLE, no live head differs from   *)
(* what is desired of it, or the server has given up.                      *)
Rested ==
    alive = "running" /\ phase = "poll" /\ state = "IDLE" /\ ~GaveUp => Changing(desire(hd)) = {}

(* The steps that are not act leave poll, or leave the server alone.       *)
LEMMA OtherSteps ==
    ASSUME [Next]_vars, ~(act /\ UNCHANGED <<compositorVars, refused>>)
    PROVE  \/ UNCHANGED displVars
           \/ /\ phase' # "poll" \/ alive' # "running"
              /\ ipc_operation => ipc_operation'
<1>1. CASE UNCHANGED vars
  BY <1>1 DEF vars
<1>2. CASE Listen
  <2>1. \A type : Dispatch(type) => phase' = "dispatch" /\ ipc_operation' = ipc_operation
    BY DEF Dispatch
  <2>2. QED
    BY <1>2, <2>1 DEF Listen, HeadAdded, ModeAdded, ModePreferred, ModeFinished, HeadEnabled,
         HeadCurrentMode, HeadGeometry, HeadAdaptiveSync, HeadFinished, ManagerDone, DispatchHead,
         succeeded, failed, cancelled, cleanup
<1>3. CASE Inputs \/ Reapply
  <2>1. \A stage \in {"cfg", "lid", "ipc"} : Input(stage) => phase' # "poll"
    BY DEF Input
  <2>2. CASE Inputs
    BY <2>1, <2>2 DEF Inputs, g_cfg_file_reload, g_lid_update, IpcInProgress, IpcVrrOff, IpcDisabled, Signalled
  <2>3. CASE Reapply
    BY <2>1, <2>3 DEF Reapply, IpcReapply
  <2>4. QED
    BY <1>3, <2>2, <2>3
<1>4. QED
  BY <1>1, <1>2, <1>3 DEF Next

(* Every step keeps the server at rest or sets it to work.                 *)
LEMMA RestedInv == IInv /\ Rested /\ [Next]_vars => Rested'
<1> SUFFICES ASSUME IInv, Rested, [Next]_vars PROVE Rested'
  OBVIOUS
<1>1. CASE act
  BY <1>1, ActRests DEF Rested
<1>2. CASE ~act
  <2>1. CASE UNCHANGED displVars
    <3>1. UNCHANGED <<hd, heads, g_cfg, g_lid, alive, phase, state, g_cancellation_retries>>
      BY <2>1 DEF displVars
    <3>2. (Changing(desire(hd)))' = Changing(desire(hd))
      BY <3>1, DesireUnchanged
    <3>3. GaveUp' = GaveUp
      BY <3>1 DEF GaveUp
    <3>4. QED
      BY <3>1, <3>2, <3>3 DEF Rested
  <2>2. CASE phase' # "poll" \/ alive' # "running"
    BY <2>2 DEF Rested
  <2>3. QED
    BY <1>2, <2>1, <2>2, OtherSteps
<1>3. QED
  BY <1>1, <1>2

(* Whenever the server waits and is IDLE there is nothing left to change,  *)
(* whatever was refused, cancelled or changed before: act always desires   *)
(* again before it comes to rest.                                          *)
THEOREM RestsWhenDone == Spec => []Rested
<1>1. Init => Rested
  <2>1. ASSUME Init PROVE Changing(desire(hd)) = {}
    BY <2>1 DEF Init, DisplInit, Changing
  <2>2. QED
    BY <2>1 DEF Rested
<1>2. QED
  BY <1>1, RestedInv, Invariance, PTL DEF Spec

(* A client that stays to the end is told that its operation is done only  *)
(* by an act that left no change undone, or gave up.                       *)
THEOREM IpcDoneIsDone ==
    ASSUME "client_gone" \notin Scenario
    PROVE  Spec => IpcDoneWhenApplied
<1>1. ASSUME IInv, [Next]_vars, ipc_operation, ~ipc_operation'
      PROVE  (Changing(desire(hd)))' = {} \/ GaveUp'
  <2>1. act
    BY <1>1, OtherSteps DEF displVars
  <2>2. notify_ipc_operation => state' = "IDLE"
    BY <1>1 DEF notify_ipc_operation
  <2>3. state' = "IDLE" /\ alive' = "running"
    BY <1>1, <2>1, <2>2, ActCases
  <2>4. QED
    BY <1>1, <2>1, <2>3, ActRests
<1>2. ASSUME IInv, [Next]_vars
      PROVE  [ipc_operation /\ ~ipc_operation' => (Changing(desire(hd)))' = {} \/ GaveUp']_vars
  BY <1>1, <1>2
<1>3. QED
  BY <1>2, Invariance, PTL DEF Spec, IpcDoneWhenApplied

-----------------------------------------------------------------------------
(* What the events on the wire will tell.                                  *)

Elems(w) == {w[i] : i \in 1..Len(w)}

(* The events of a queue that grows are the old ones and the new ones.     *)
LEMMA ElemsConcat ==
    ASSUME NEW w \in Seq(Events), NEW t \in Seq(Events)
    PROVE  Elems(w \o t) = Elems(w) \cup Elems(t)
<1>1. /\ Len(w \o t) = Len(w) + Len(t) /\ Len(w) \in Nat /\ Len(t) \in Nat
      /\ \A i \in 1..Len(w) : (w \o t)[i] = w[i]
      /\ \A i \in 1..Len(t) : (w \o t)[Len(w) + i] = t[i]
  OBVIOUS
<1>2. \A i \in 1..Len(w \o t) : i \in 1..Len(w) \/ (i - Len(w) \in 1..Len(t) /\ i = Len(w) + (i - Len(w)))
  BY <1>1
<1>3. Elems(w \o t) \subseteq Elems(w) \cup Elems(t)
  BY <1>1, <1>2 DEF Elems
<1>4. \A i \in 1..Len(t) : Len(w) + i \in 1..Len(w \o t)
  BY <1>1
<1>5. Elems(w) \cup Elems(t) \subseteq Elems(w \o t)
  BY <1>1, <1>4 DEF Elems
<1>6. QED
  BY <1>3, <1>5

(* Dispatching an event leaves those behind it.                            *)
LEMMA ElemsTail ==
    ASSUME NEW w \in Seq(Events), w # <<>>
    PROVE  Elems(Tail(w)) \subseteq Elems(w) /\ Head(w) \in Elems(w)
BY DEF Elems

(* The elements of a sequence of one event.                                *)
LEMMA ElemsOne ==
    ASSUME NEW e
    PROVE  Elems(<<e>>) = {e}
BY DEF Elems

(* The elements of an event that is sent under a condition.                *)
LEMMA ElemsIf ==
    ASSUME NEW c, NEW e
    PROVE  Elems(If(c, e)) = IF c THEN {e} ELSE {}
BY DEF If, Elems

(* The parts of a head that a client learns from the events.               *)
Tells == {"present", "enabled", "geometry", "adaptive_sync"}

Field(T, s) == CASE T = "enabled" -> s.enabled
                 [] T = "geometry" -> <<s.scale, s.pos>>
                 [] OTHER -> s.adaptive_sync

(* An event sets the part its type names; head and finished set them all.  *)
Sets(e, h, T) == e.head = h /\ e.type \in {T, "head", "finished"}

Val(e, T) == CASE e.type = T -> Field(T, e.state)
               [] T = "present" -> e.type = "head"
               [] OTHER -> Field(T, ZeroState)

(* A client that has seen base will have seen v after the events w.        *)
Tell(w, h, T, base, v) ==
    /\ \A i \in 1..Len(w) :
          Sets(w[i], h, T) /\ (\A j \in 1..Len(w) : j > i => ~Sets(w[j], h, T)) => Val(w[i], T) = v
    /\ (\A i \in 1..Len(w) : ~Sets(w[i], h, T)) => base = v

(* Events are told one after the other.                                    *)
LEMMA TellConcat ==
    ASSUME NEW w \in Seq(Events), NEW t \in Seq(Events), NEW h, NEW T, NEW a, NEW b, NEW c,
           Tell(w, h, T, a, b) \/ (\E e \in Elems(t) : Sets(e, h, T)), Tell(t, h, T, b, c)
    PROVE  Tell(w \o t, h, T, a, c)
<1> DEFINE n == Len(w)
           m == Len(t)
           W(i) == Sets(w[i], h, T)
           V(i) == Sets(t[i], h, T)
<1>1. /\ Len(w \o t) = n + m /\ n \in Nat /\ m \in Nat
      /\ \A i \in 1..n : (w \o t)[i] = w[i]
      /\ \A i \in 1..m : (w \o t)[n + i] = t[i]
  OBVIOUS
<1>2. /\ \A i \in 1..n : n + m >= i
      /\ \A i \in 1..(n + m) : i \in 1..n \/ (i - n \in 1..m /\ i = n + (i - n))
      /\ \A i \in 1..m : n + i \in 1..(n + m)
      /\ \A i \in 1..n : i \in 1..(n + m)
      /\ \A i \in 1..n, j \in 1..m : n + j > i
      /\ \A i \in 1..m, j \in 1..m : j > i <=> n + j > n + i
  BY <1>1
<1>3. ASSUME NEW i \in 1..(n + m), Sets((w \o t)[i], h, T),
             \A j \in 1..(n + m) : j > i => ~Sets((w \o t)[j], h, T)
      PROVE  Val((w \o t)[i], T) = c
  <2>1. CASE i \in 1..n
    <3>1. \A j \in 1..m : ~V(j)
      BY <1>1, <1>2, <1>3, <2>1
    <3>2. b = c /\ Tell(w, h, T, a, b)
      BY <3>1 DEF Tell, Elems
    <3>3. W(i) /\ \A j \in 1..n : j > i => ~W(j)
      BY <1>1, <1>2, <1>3, <2>1
    <3>4. QED
      BY <1>1, <2>1, <3>2, <3>3 DEF Tell
  <2>2. CASE i \notin 1..n
    <3>1. PICK k \in 1..m : i = n + k
      BY <1>2, <2>2
    <3>2. V(k) /\ \A j \in 1..m : j > k => ~V(j)
      BY <1>1, <1>2, <1>3, <3>1
    <3>3. QED
      BY <1>1, <3>1, <3>2 DEF Tell
  <2>3. QED
    BY <2>1, <2>2
<1>4. ASSUME \A i \in 1..(n + m) : ~Sets((w \o t)[i], h, T)
      PROVE  a = c
  <2>1. (\A i \in 1..n : ~W(i)) /\ (\A i \in 1..m : ~V(i))
    BY <1>1, <1>2, <1>4
  <2>2. QED
    BY <2>1 DEF Tell, Elems
<1>5. QED
  BY <1>1, <1>3, <1>4 DEF Tell

(* Events that are about something else tell nothing.                      *)
LEMMA TellNothing ==
    ASSUME NEW w, NEW h, NEW T, NEW a, \A e \in Elems(w) : ~Sets(e, h, T)
    PROVE  Tell(w, h, T, a, a)
BY DEF Tell, Elems

(* One event tells its value.                                              *)
LEMMA TellOne ==
    ASSUME NEW e, NEW h, NEW T, NEW a, Sets(e, h, T)
    PROVE  Tell(<<e>>, h, T, a, Val(e, T))
BY DEF Tell

(* A client that has dispatched an event has seen what it says.            *)
LEMMA TellTail ==
    ASSUME NEW w \in Seq(Events), w # <<>>, NEW h, NEW T, NEW a, NEW c, Tell(w, h, T, a, c)
    PROVE  Tell(Tail(w), h, T, IF Sets(Head(w), h, T) THEN Val(Head(w), T) ELSE a, c)
<1>1. /\ Head(w) = w[1] /\ Len(w) \in Nat /\ Len(w) >= 1 /\ Len(Tail(w)) = Len(w) - 1
      /\ \A i \in 1..(Len(w) - 1) : Tail(w)[i] = w[i + 1] /\ i + 1 \in 1..Len(w)
      /\ 1 \in 1..Len(w)
      /\ \A i \in 1..Len(w) : i = 1 \/ (i - 1 \in 1..(Len(w) - 1) /\ i = (i - 1) + 1)
      /\ \A i, j \in 1..(Len(w) - 1) : j > i <=> j + 1 > i + 1
      /\ \A i \in 1..Len(w) : i > 1 <=> i # 1
  OBVIOUS
<1>2. ASSUME NEW i \in 1..(Len(w) - 1), Sets(Tail(w)[i], h, T),
             \A j \in 1..(Len(w) - 1) : j > i => ~Sets(Tail(w)[j], h, T)
      PROVE  Val(Tail(w)[i], T) = c
  <2>1. Sets(w[i + 1], h, T)
    BY <1>1, <1>2
  <2>2. \A j \in 1..Len(w) : j > i + 1 => ~Sets(w[j], h, T)
    BY <1>1, <1>2
  <2>3. QED
    BY <1>1, <2>1, <2>2 DEF Tell
<1>3. ASSUME \A i \in 1..(Len(w) - 1) : ~Sets(Tail(w)[i], h, T)
      PROVE  (IF Sets(Head(w), h, T) THEN Val(Head(w), T) ELSE a) = c
  <2>1. ASSUME NEW i \in 1..Len(w), i # 1
        PROVE  ~Sets(w[i], h, T)
    <3>1. PICK k \in 1..(Len(w) - 1) : k = i - 1
      BY <1>1, <2>1
    <3>2. w[i] = Tail(w)[k]
      BY <1>1, <3>1
    <3>3. QED
      BY <1>3, <3>2
  <2>2. QED
    BY <1>1, <2>1 DEF Tell
<1>4. QED
  BY <1>1, <1>2, <1>3 DEF Tell

(* An event that is sent under a condition tells its value, or nothing.    *)
LEMMA TellIf ==
    ASSUME NEW c, NEW e, NEW h, NEW T, NEW a, NEW v,
           IF c /\ Sets(e, h, T) THEN Val(e, T) = v ELSE a = v
    PROVE  Tell(If(c, e), h, T, a, v)
BY DEF Tell, If

(* The description of a head is made of events about that head and its     *)
(* new state, and tells a client that knew the old state the new one; when *)
(* the head becomes enabled it tells everything anew.                      *)
LEMMA DescribeTells ==
    ASSUME NEW h \in Heads, NEW from \in HeadStates, NEW to \in HeadStates
    PROVE  LET D == Describe(h, from, to)
           IN  /\ D \in Seq(Events)
               /\ \A e \in Elems(D) : /\ e.head = h /\ e.state = to
                                      /\ e.type \in {"enabled", "current_mode", "geometry", "adaptive_sync"}
               /\ Tell(D, h, "enabled", from.enabled, to.enabled)
               /\ to.enabled => \A T \in {"geometry", "adaptive_sync"} :
                     /\ from.enabled => Tell(D, h, T, Field(T, from), Field(T, to))
                     /\ ~from.enabled => /\ \A a : Tell(D, h, T, a, Field(T, to))
                                         /\ \E e \in Elems(D) : Sets(e, h, T)
<1> DEFINE fresh == to.enabled /\ ~from.enabled
           sent(changed) == to.enabled /\ (fresh \/ changed)
           a1 == from.enabled # to.enabled
           b1 == sent(from.zmode # to.zmode)
           c1 == sent(<<from.scale, from.pos>> # <<to.scale, to.pos>>)
           d1 == sent(from.adaptive_sync # to.adaptive_sync)
           ea == Event("enabled", h, to)
           eb == Event("current_mode", h, to)
           ec == Event("geometry", h, to)
           ed == Event("adaptive_sync", h, to)
           A == If(a1, ea)
           B == If(b1, eb)
           C == If(c1, ec)
           D == If(d1, ed)
<1>1. Describe(h, from, to) = A \o B \o C \o D
  BY DEF Describe
<1>2. /\ ea.head = h /\ ea.state = to /\ ea.type = "enabled"
      /\ eb.head = h /\ eb.state = to /\ eb.type = "current_mode"
      /\ ec.head = h /\ ec.state = to /\ ec.type = "geometry"
      /\ ed.head = h /\ ed.state = to /\ ed.type = "adaptive_sync"
  BY DEF Event
<1>3. ea \in Events /\ eb \in Events /\ ec \in Events /\ ed \in Events
  <2>1. {"enabled", "current_mode", "geometry", "adaptive_sync"} \subseteq HeadEventTypes \ ModeEventTypes
    BY DEF HeadEventTypes, ModeEventTypes
  <2>2. QED
    BY <2>1, EventType
<1> HIDE DEF ea, eb, ec, ed
<1>4. A \in Seq(Events) /\ B \in Seq(Events) /\ C \in Seq(Events) /\ D \in Seq(Events)
  BY <1>3 DEF If
<1>45. A \o B \in Seq(Events) /\ (A \o B) \o C \in Seq(Events)
  <2> HIDE DEF A, B, C, D
  <2>1. A \o B \in Seq(Events)
    BY <1>4
  <2>2. QED
    BY <1>4, <2>1
<1>5. /\ Elems(A) = (IF a1 THEN {ea} ELSE {}) /\ Elems(B) = (IF b1 THEN {eb} ELSE {})
      /\ Elems(C) = (IF c1 THEN {ec} ELSE {}) /\ Elems(D) = (IF d1 THEN {ed} ELSE {})
  BY ElemsIf
<1>6. ASSUME NEW T, NEW p, NEW v,
             IF a1 /\ T = "enabled" THEN to.enabled = v
             ELSE IF c1 /\ T = "geometry" THEN <<to.scale, to.pos>> = v
             ELSE IF d1 /\ T = "adaptive_sync" THEN to.adaptive_sync = v
             ELSE p = v,
             T \in {"enabled", "geometry", "adaptive_sync"}
      PROVE  Tell(A \o B \o C \o D, h, T, p, v)
  <2>1. /\ \A x \in {ea, eb, ec, ed} : Sets(x, h, T) <=> x.type = T
        /\ \A x \in {ea, ec, ed} : x.type = T => Val(x, T) = Field(T, to)
    BY <1>2, <1>6 DEF Sets, Val
  <2>2. /\ Field("enabled", to) = to.enabled /\ Field("geometry", to) = <<to.scale, to.pos>>
        /\ Field("adaptive_sync", to) = to.adaptive_sync
    BY DEF Field
  <2> DEFINE pa == IF T = "enabled" THEN v ELSE p
             pc == IF T \in {"enabled", "geometry"} THEN v ELSE p
  <2>3. Tell(A, h, T, p, pa)
    <3>1. IF a1 /\ Sets(ea, h, T) THEN Val(ea, T) = pa ELSE p = pa
      BY <1>2, <1>6, <2>1, <2>2
    <3>2. QED
      BY <3>1, TellIf
  <2>4. Tell(B, h, T, pa, pa)
    <3>1. ~Sets(eb, h, T)
      BY <1>2, <1>6, <2>1
    <3>2. QED
      BY <3>1, TellIf
  <2>5. Tell(C, h, T, pa, pc)
    <3>1. IF c1 /\ Sets(ec, h, T) THEN Val(ec, T) = pc ELSE pa = pc
      BY <1>2, <1>6, <2>1, <2>2
    <3>2. QED
      BY <3>1, TellIf
  <2>6. Tell(D, h, T, pc, v)
    <3>1. IF d1 /\ Sets(ed, h, T) THEN Val(ed, T) = v ELSE pc = v
      BY <1>2, <1>6, <2>1, <2>2
    <3>2. QED
      BY <3>1, TellIf
  <2> HIDE DEF A, B, C, D, pa, pc
  <2>7. Tell(A \o B, h, T, p, pa)
    BY <1>4, <2>3, <2>4, TellConcat
  <2>8. Tell((A \o B) \o C, h, T, p, pc)
    BY <1>4, <1>45, <2>5, <2>7, TellConcat
  <2>9. QED
    BY <1>4, <1>45, <2>6, <2>8, TellConcat
<1>7. Elems(A \o B \o C \o D) = Elems(A) \cup Elems(B) \cup Elems(C) \cup Elems(D)
  <2> HIDE DEF A, B, C, D
  <2>1. Elems(A \o B) = Elems(A) \cup Elems(B)
    BY <1>4, ElemsConcat
  <2>2. Elems((A \o B) \o C) = Elems(A \o B) \cup Elems(C)
    BY <1>4, <1>45, ElemsConcat
  <2>3. Elems(((A \o B) \o C) \o D) = Elems((A \o B) \o C) \cup Elems(D)
    BY <1>4, <1>45, ElemsConcat
  <2>4. QED
    BY <2>1, <2>2, <2>3
<1>8. A \o B \o C \o D \in Seq(Events)
  <2> HIDE DEF A, B, C, D
  <2>1. QED
    BY <1>4, <1>45
<1> DEFINE S == A \o B \o C \o D
<1>9. \A e \in Elems(S) : /\ e.head = h /\ e.state = to
                          /\ e.type \in {"enabled", "current_mode", "geometry", "adaptive_sync"}
  BY <1>2, <1>5, <1>7
<1>10. Tell(S, h, "enabled", from.enabled, to.enabled)
  BY <1>6
<1>11. ASSUME to.enabled, NEW T \in {"geometry", "adaptive_sync"}, from.enabled
       PROVE  Tell(S, h, T, Field(T, from), Field(T, to))
  <2>1. CASE T = "geometry"
    <3>1. Tell(S, h, "geometry", <<from.scale, from.pos>>, <<to.scale, to.pos>>)
      BY <1>6, <1>11
    <3>2. QED
      BY <2>1, <3>1 DEF Field
  <2>2. CASE T = "adaptive_sync"
    <3>1. Tell(S, h, "adaptive_sync", from.adaptive_sync, to.adaptive_sync)
      BY <1>6, <1>11
    <3>2. QED
      BY <2>2, <3>1 DEF Field
  <2>3. QED
    BY <2>1, <2>2
<1>12. ASSUME to.enabled, NEW T \in {"geometry", "adaptive_sync"}, ~from.enabled
       PROVE  (\A p : Tell(S, h, T, p, Field(T, to))) /\ (\E e \in Elems(S) : Sets(e, h, T))
  <2>1. c1 /\ d1
    BY <1>12
  <2>2. ec \in Elems(S) /\ ed \in Elems(S)
    BY <1>5, <1>7, <2>1
  <2>3. \E e \in Elems(S) : Sets(e, h, T)
    BY <1>2, <2>2 DEF Sets
  <2>4. \A p : Tell(S, h, "geometry", p, <<to.scale, to.pos>>)
    BY <1>6, <2>1
  <2>5. \A p : Tell(S, h, "adaptive_sync", p, to.adaptive_sync)
    BY <1>6, <2>1
  <2>6. QED
    BY <2>3, <2>4, <2>5 DEF Field
<1> HIDE DEF S
<1>13. S = Describe(h, from, to) /\ S \in Seq(Events)
  BY <1>1, <1>8 DEF S
<1>14. QED
  BY <1>9, <1>10, <1>11, <1>12, <1>13

-----------------------------------------------------------------------------
(* What a listener does to the server.                                     *)

(* The record of a head after an event about it.                           *)
After(e, r) ==
    CASE e.type = "mode" -> add_mode(r, e.state)
      [] e.type = "preferred" -> preferred(r, e.state)
      [] e.type = "mode_finished" -> mode_finished(r, e.state)
      [] e.type = "enabled" -> set_enabled(r, e.state)
      [] e.type = "current_mode" -> set_current_mode(r, e.state)
      [] e.type = "geometry" -> set_geometry(r, e.state)
      [] e.type = "adaptive_sync" -> set_adaptive_sync(r, e.state)
      [] OTHER -> head_init

(* The state of the server after an answer.                                *)
StateAfter(type) == CASE type = "succeeded" -> "SUCCEEDED"
                      [] type = "failed" -> "FAILED"
                      [] type = "cancelled" -> "CANCELLED"
                      [] OTHER -> state

(* A listener takes the first event e off the queue and enters it.         *)
Enters(e) ==
    /\ wire # <<>> /\ wire' = Tail(wire) /\ e = Head(wire) /\ e \in Events /\ e \in Elems(wire)
    /\ Elems(wire') \subseteq Elems(wire)
    /\ UNCHANGED <<delta, config, g_cfg, g_lid, alive, inputs>> /\ phase' = "dispatch"
    /\ state' = StateAfter(e.type)
    /\ heads' = IF e.type = "head" THEN heads \cup {e.head}
                ELSE IF e.type = "finished" THEN heads \ {e.head} ELSE heads
    /\ e.type \in HeadEventTypes =>
          e.head \in Heads /\ hd' = [hd EXCEPT ![e.head] = After(e, hd[e.head])]
    /\ e.type \notin HeadEventTypes =>
          \A h \in Heads : /\ hd'[h].cur = hd[h].cur /\ hd'[h].modes = hd[h].modes
                           /\ hd'[h].modes_failed = hd[h].modes_failed

(* Every listener does.                                                    *)
LEMMA ListenEnters ==
    ASSUME IInv, Listen
    PROVE  \E e \in Events : Enters(e)
<1>0. PICK e : e = Head(wire)
  OBVIOUS
<1> SUFFICES Enters(e)
  BY DEF Enters
<1>1. wire \in Seq(Events) /\ hd \in [Heads -> HeadRec]
  BY DEF IInv, TypeOK, DisplTypeOK
<1>2. ASSUME NEW type, Dispatch(type)
      PROVE  /\ wire # <<>> /\ wire' = Tail(wire) /\ e = Head(wire) /\ e \in Events /\ e \in Elems(wire)
             /\ Elems(wire') \subseteq Elems(wire) /\ e.type = type
             /\ UNCHANGED <<delta, config, g_cfg, g_lid, alive, inputs>> /\ phase' = "dispatch"
  <2>1. /\ wire # <<>> /\ Head(wire).type = type /\ wire' = Tail(wire) /\ phase' = "dispatch"
        /\ UNCHANGED <<delta, config, g_cfg, g_lid, alive, inputs>>
    BY <1>2 DEF Dispatch
  <2>2. Elems(Tail(wire)) \subseteq Elems(wire) /\ Head(wire) \in Elems(wire)
    BY <1>1, <2>1, ElemsTail
  <2>3. Head(wire) \in Events
    BY <1>1, <2>1
  <2>4. QED
    BY <1>0, <2>1, <2>2, <2>3
<1>3. e \in Events /\ e.type \in HeadEventTypes => e.head \in Heads
  BY DEF Events
<1>4. ASSUME NEW type \in HeadEventTypes \ {"head", "finished"}, Dispatch(type),
             hd' = [hd EXCEPT ![e.head] = After(e, hd[e.head])], UNCHANGED <<heads, state>>
      PROVE  Enters(e)
  <2>1. type \notin Answers /\ e.type = type /\ e.type # "head" /\ e.type # "finished"
    BY <1>2, <1>4 DEF HeadEventTypes, ModeEventTypes, Answers
  <2>2. StateAfter(e.type) = state
    BY <2>1 DEF StateAfter, Answers
  <2>3. QED
    BY <1>2, <1>3, <1>4, <2>1, <2>2 DEF Enters
<1>5. CASE HeadAdded \/ HeadFinished
  <2>1. PICK type \in {"head", "finished"} : Dispatch(type) /\ hd' = [hd EXCEPT ![e.head] = head_init]
            /\ heads' = (IF type = "head" THEN heads \cup {e.head} ELSE heads \ {e.head}) /\ state' = state
    BY <1>0, <1>5 DEF HeadAdded, HeadFinished
  <2>2. e.type = type /\ After(e, hd[e.head]) = head_init /\ StateAfter(e.type) = state /\ type \in HeadEventTypes
    BY <1>2, <2>1 DEF After, StateAfter, HeadEventTypes
  <2>3. QED
    BY <1>2, <1>3, <2>1, <2>2 DEF Enters
<1>6. CASE ModeAdded
  <2>1. Dispatch("mode") /\ UNCHANGED <<heads, state>> /\ hd' = [hd EXCEPT ![e.head] = add_mode(hd[e.head], e.state)]
    BY <1>0, <1>6 DEF ModeAdded, DispatchHead
  <2>2. After(e, hd[e.head]) = add_mode(hd[e.head], e.state)
    BY <1>2, <2>1 DEF After
  <2>3. "mode" \in HeadEventTypes \ {"head", "finished"}
    BY DEF HeadEventTypes, ModeEventTypes
  <2>4. QED
    BY <1>4, <2>1, <2>2, <2>3
<1>7. CASE ModePreferred
  <2>1. Dispatch("preferred") /\ UNCHANGED <<heads, state>> /\ hd' = [hd EXCEPT ![e.head] = preferred(hd[e.head], e.state)]
    BY <1>0, <1>7 DEF ModePreferred, DispatchHead
  <2>2. After(e, hd[e.head]) = preferred(hd[e.head], e.state)
    BY <1>2, <2>1 DEF After
  <2>3. "preferred" \in HeadEventTypes \ {"head", "finished"}
    BY DEF HeadEventTypes, ModeEventTypes
  <2>4. QED
    BY <1>4, <2>1, <2>2, <2>3
<1>8. CASE ModeFinished
  <2>1. Dispatch("mode_finished") /\ UNCHANGED <<heads, state>> /\ hd' = [hd EXCEPT ![e.head] = mode_finished(hd[e.head], e.state)]
    BY <1>0, <1>8 DEF ModeFinished, DispatchHead
  <2>2. After(e, hd[e.head]) = mode_finished(hd[e.head], e.state)
    BY <1>2, <2>1 DEF After
  <2>3. "mode_finished" \in HeadEventTypes \ {"head", "finished"}
    BY DEF HeadEventTypes, ModeEventTypes
  <2>4. QED
    BY <1>4, <2>1, <2>2, <2>3
<1>9. CASE HeadEnabled
  <2>1. Dispatch("enabled") /\ UNCHANGED <<heads, state>> /\ hd' = [hd EXCEPT ![e.head] = set_enabled(hd[e.head], e.state)]
    BY <1>0, <1>9 DEF HeadEnabled, DispatchHead
  <2>2. After(e, hd[e.head]) = set_enabled(hd[e.head], e.state)
    BY <1>2, <2>1 DEF After
  <2>3. "enabled" \in HeadEventTypes \ {"head", "finished"}
    BY DEF HeadEventTypes, ModeEventTypes
  <2>4. QED
    BY <1>4, <2>1, <2>2, <2>3
<1>10. CASE HeadCurrentMode
  <2>1. Dispatch("current_mode") /\ UNCHANGED <<heads, state>> /\ hd' = [hd EXCEPT ![e.head] = set_current_mode(hd[e.head], e.state)]
    BY <1>0, <1>10 DEF HeadCurrentMode, DispatchHead
  <2>2. After(e, hd[e.head]) = set_current_mode(hd[e.head], e.state)
    BY <1>2, <2>1 DEF After
  <2>3. "current_mode" \in HeadEventTypes \ {"head", "finished"}
    BY DEF HeadEventTypes, ModeEventTypes
  <2>4. QED
    BY <1>4, <2>1, <2>2, <2>3
<1>11. CASE HeadGeometry
  <2>1. Dispatch("geometry") /\ UNCHANGED <<heads, state>> /\ hd' = [hd EXCEPT ![e.head] = set_geometry(hd[e.head], e.state)]
    BY <1>0, <1>11 DEF HeadGeometry, DispatchHead
  <2>2. After(e, hd[e.head]) = set_geometry(hd[e.head], e.state)
    BY <1>2, <2>1 DEF After
  <2>3. "geometry" \in HeadEventTypes \ {"head", "finished"}
    BY DEF HeadEventTypes, ModeEventTypes
  <2>4. QED
    BY <1>4, <2>1, <2>2, <2>3
<1>12. CASE HeadAdaptiveSync
  <2>1. Dispatch("adaptive_sync") /\ UNCHANGED <<heads, state>> /\ hd' = [hd EXCEPT ![e.head] = set_adaptive_sync(hd[e.head], e.state)]
    BY <1>0, <1>12 DEF HeadAdaptiveSync, DispatchHead
  <2>2. After(e, hd[e.head]) = set_adaptive_sync(hd[e.head], e.state)
    BY <1>2, <2>1 DEF After
  <2>3. "adaptive_sync" \in HeadEventTypes \ {"head", "finished"}
    BY DEF HeadEventTypes, ModeEventTypes
  <2>4. QED
    BY <1>4, <2>1, <2>2, <2>3
<1>13. CASE ManagerDone
  <2>1. Dispatch("done") /\ UNCHANGED <<heads, hd, state>>
    BY <1>13 DEF ManagerDone
  <2>2. e.type = "done" /\ e.type \notin HeadEventTypes /\ StateAfter(e.type) = state
    BY <1>2, <2>1 DEF HeadEventTypes, ModeEventTypes, StateAfter
  <2>3. QED
    BY <1>2, <2>1, <2>2 DEF Enters
<1>14. CASE succeeded \/ failed \/ cancelled
  <2>1. PICK type \in Answers : cleanup(type, StateAfter(type))
    BY <1>14 DEF succeeded, failed, cancelled, Answers, StateAfter
  <2>2. /\ Dispatch(type) /\ heads' = heads /\ state' = StateAfter(type)
        /\ hd' = [h \in Heads |-> IF h \in heads THEN [hd[h] EXCEPT !.zconfig = FALSE] ELSE hd[h]]
    BY <2>1 DEF cleanup
  <2>3. e.type = type /\ e.type \notin HeadEventTypes /\ e.type # "head" /\ e.type # "finished"
    BY <1>2, <2>2 DEF HeadEventTypes, ModeEventTypes, Answers
  <2>4. \A h \in Heads : /\ hd'[h].cur = hd[h].cur /\ hd'[h].modes = hd[h].modes
                         /\ hd'[h].modes_failed = hd[h].modes_failed
    BY <1>1, <2>2 DEF HeadRec
  <2>5. QED
    BY <1>2, <2>2, <2>3, <2>4 DEF Enters
<1>15. QED
  BY <1>5, <1>6, <1>7, <1>8, <1>9, <1>10, <1>11, <1>12, <1>13, <1>14 DEF Listen

(* The part of a head a listener changes is the one its event is about.    *)
LEMMA AfterSeen ==
    ASSUME NEW r \in HeadRec, NEW e \in Events, e.type \in HeadEventTypes
    PROVE  /\ \A T \in Tells \ {"present"} :
                 Field(T, After(e, r).cur) = IF e.type \in {T, "head", "finished"} THEN Val(e, T)
                                             ELSE Field(T, r.cur)
           /\ \/ After(e, r).cur.zmode \in {NULL, r.cur.zmode}
              \/ e.type = "current_mode" /\ After(e, r).cur.zmode = e.state.zmode
           /\ After(e, r).modes = CASE e.type = "mode" -> r.modes \cup {e.state.zmode}
                                    [] e.type = "mode_finished" -> r.modes \ {e.state.zmode}
                                    [] e.type \in {"head", "finished"} -> {}
                                    [] OTHER -> r.modes
           /\ After(e, r).modes_failed = IF e.type \in {"head", "finished"} THEN {} ELSE r.modes_failed
<1>1. r.cur \in HeadStates /\ r.des \in HeadStates
  BY DEF HeadRec
<1>2. CASE e.type = "mode"
  <2>1. After(e, r) = add_mode(r, e.state)
    BY <1>2 DEF After
  <2>2. /\ After(e, r).cur = r.cur /\ After(e, r).modes = r.modes \cup {e.state.zmode}
        /\ After(e, r).modes_failed = r.modes_failed
    BY <2>1 DEF add_mode, HeadRec
  <2>3. QED
    BY <1>2, <2>2 DEF Tells
<1>3. CASE e.type = "preferred"
  <2>1. After(e, r) = preferred(r, e.state)
    BY <1>3 DEF After
  <2>2. After(e, r).cur = r.cur /\ After(e, r).modes = r.modes /\ After(e, r).modes_failed = r.modes_failed
    BY <2>1 DEF preferred, head_set_mode_pref, HeadRec
  <2>3. QED
    BY <1>3, <2>2 DEF Tells
<1>4. CASE e.type = "mode_finished"
  <2> DEFINE z == e.state.zmode
             c == [r.cur EXCEPT !.zmode = IF @ = z THEN NULL ELSE @]
             d == [r.des EXCEPT !.zmode = IF @ = z THEN NULL ELSE @]
             p == IF r.zmode_pref = z THEN NULL ELSE r.zmode_pref
  <2>1. After(e, r) = [r EXCEPT !.modes = r.modes \ {z}, !.zmode_pref = p, !.cur = c, !.des = d]
    BY <1>4 DEF After, mode_finished, head_release_mode
  <2>2. /\ c.enabled = r.cur.enabled /\ c.scale = r.cur.scale /\ c.pos = r.cur.pos
        /\ c.adaptive_sync = r.cur.adaptive_sync /\ c.zmode \in {NULL, r.cur.zmode}
    BY <1>1 DEF HeadStates
  <2> HIDE DEF c, d, p
  <2>3. /\ After(e, r).cur = c /\ After(e, r).modes = r.modes \ {z}
        /\ After(e, r).modes_failed = r.modes_failed
    BY <2>1 DEF HeadRec
  <2>4. \A T : Field(T, c) = Field(T, r.cur)
    BY <2>2 DEF Field
  <2>5. QED
    BY <1>4, <2>2, <2>3, <2>4 DEF Tells
<1>5. CASE e.type = "enabled"
  <2> DEFINE c == [r.cur EXCEPT !.enabled = e.state.enabled]
  <2>1. After(e, r) = [r EXCEPT !.cur = c]
    BY <1>5 DEF After, set_enabled
  <2>2. /\ c.enabled = e.state.enabled /\ c.scale = r.cur.scale /\ c.pos = r.cur.pos
        /\ c.adaptive_sync = r.cur.adaptive_sync /\ c.zmode = r.cur.zmode
    BY <1>1 DEF HeadStates
  <2> HIDE DEF c
  <2>3. After(e, r).cur = c /\ After(e, r).modes = r.modes /\ After(e, r).modes_failed = r.modes_failed
    BY <2>1 DEF HeadRec
  <2>4. QED
    BY <1>5, <2>2, <2>3 DEF Field, Val, Tells
<1>6. CASE e.type = "current_mode"
  <2> DEFINE c == [r.cur EXCEPT !.zmode = e.state.zmode]
  <2>1. After(e, r) = [r EXCEPT !.cur = c]
    BY <1>6 DEF After, set_current_mode
  <2>2. /\ c.enabled = r.cur.enabled /\ c.scale = r.cur.scale /\ c.pos = r.cur.pos
        /\ c.adaptive_sync = r.cur.adaptive_sync /\ c.zmode = e.state.zmode
    BY <1>1 DEF HeadStates
  <2> HIDE DEF c
  <2>3. After(e, r).cur = c /\ After(e, r).modes = r.modes /\ After(e, r).modes_failed = r.modes_failed
    BY <2>1 DEF HeadRec
  <2>4. QED
    BY <1>6, <2>2, <2>3 DEF Field, Val, Tells
<1>7. CASE e.type = "geometry"
  <2> DEFINE c == [r.cur EXCEPT !.scale = e.state.scale, !.pos = e.state.pos]
  <2>1. After(e, r) = [r EXCEPT !.cur = c]
    BY <1>7 DEF After, set_geometry
  <2>2. /\ c.enabled = r.cur.enabled /\ c.scale = e.state.scale /\ c.pos = e.state.pos
        /\ c.adaptive_sync = r.cur.adaptive_sync /\ c.zmode = r.cur.zmode
    BY <1>1 DEF HeadStates
  <2> HIDE DEF c
  <2>3. After(e, r).cur = c /\ After(e, r).modes = r.modes /\ After(e, r).modes_failed = r.modes_failed
    BY <2>1 DEF HeadRec
  <2>4. QED
    BY <1>7, <2>2, <2>3 DEF Field, Val, Tells
<1>8. CASE e.type = "adaptive_sync"
  <2> DEFINE c == [r.cur EXCEPT !.adaptive_sync = e.state.adaptive_sync]
  <2>1. After(e, r) = [r EXCEPT !.cur = c]
    BY <1>8 DEF After, set_adaptive_sync
  <2>2. /\ c.enabled = r.cur.enabled /\ c.scale = r.cur.scale /\ c.pos = r.cur.pos
        /\ c.adaptive_sync = e.state.adaptive_sync /\ c.zmode = r.cur.zmode
    BY <1>1 DEF HeadStates
  <2> HIDE DEF c
  <2>3. After(e, r).cur = c /\ After(e, r).modes = r.modes /\ After(e, r).modes_failed = r.modes_failed
    BY <2>1 DEF HeadRec
  <2>4. QED
    BY <1>8, <2>2, <2>3 DEF Field, Val, Tells
<1>9. CASE e.type \in {"head", "finished"}
  <2>1. After(e, r) = head_init
    BY <1>9 DEF After
  <2>2. head_init.cur = ZeroState /\ head_init.modes = {} /\ head_init.modes_failed = {} /\ ZeroState.zmode = NULL
    BY DEF head_init, ZeroState
  <2>3. \A T \in Tells \ {"present"} : Val(e, T) = Field(T, ZeroState)
    BY <1>9 DEF Val, Tells
  <2>4. QED
    BY <1>9, <2>1, <2>2, <2>3
<1>10. QED
  BY <1>2, <1>3, <1>4, <1>5, <1>6, <1>7, <1>8, <1>9 DEF HeadEventTypes, ModeEventTypes

(* act_apply leaves what is known of the heads alone.                      *)
LEMMA ApplySeen ==
    ASSUME heads \subseteq Heads, NEW r \in [Heads -> HeadRec], act_apply(r)
    PROVE  \A h \in Heads : /\ hd'[h].cur = r[h].cur /\ hd'[h].modes = r[h].modes
                            /\ hd'[h].modes_failed = r[h].modes_failed
<1>1. ASSUME NEW on
      PROVE  \A h \in Heads : /\ WithZconfig(r, on)[h].cur = r[h].cur
                              /\ WithZconfig(r, on)[h].modes = r[h].modes
                              /\ WithZconfig(r, on)[h].modes_failed = r[h].modes_failed
  BY DEF WithZconfig, HeadRec
<1>2. CASE hd' = r
  BY <1>2
<1>3. CASE \E on : hd' = WithZconfig(r, on)
  BY <1>1, <1>3
<1>4. CASE \E g \in Heads : hd' = [r EXCEPT ![g] = [@ EXCEPT !.reapply_required = FALSE]]
  BY <1>4 DEF HeadRec
<1>5. CASE \E g \in ReapplyHeads(r) : ApplyReapply(g, r)
  <2>1. PICK g \in Heads : ApplyReapply(g, r)
    BY <1>5 DEF ReapplyHeads, Changing
  <2>2. QED
    BY <1>4, <2>1 DEF ApplyReapply
<1>6. QED
  BY <1>2, <1>3, <1>5 DEF act_apply, Nothing, ApplyMode, ApplyVrr, ApplyOther

(* The outcome of the last configuration that act enters.                  *)
Gains(h) == state = "SUCCEEDED" /\ ~Dangling /\ delta.element = "MODE" /\ delta.head = h
Loses(h) == state = "FAILED" /\ ~Dangling /\ delta.element = "MODE" /\ delta.head = h

(* Entering the answer of the compositor (act_handle_success,              *)
(* act_handle_failure) changes only the mode of the head that delta names, *)
(* and moves a refused mode.                                               *)
LEMMA HandledSeen ==
    ASSUME IInv, NEW x, Handled(x), NEW h \in Heads
    PROVE  /\ \A T \in Tells \ {"present"} : Field(T, x[h].cur) = Field(T, hd[h].cur)
           /\ x[h].cur.zmode = IF Gains(h) THEN delta.zmode ELSE IF Loses(h) THEN NULL ELSE hd[h].cur.zmode
           /\ x[h].modes = IF Loses(h) THEN hd[h].modes \ {delta.zmode} ELSE hd[h].modes
           /\ x[h].modes_failed \subseteq hd[h].modes_failed \cup hd[h].modes
<1>1. hd \in [Heads -> HeadRec] /\ hd[h] \in HeadRec /\ hd[h].cur \in HeadStates /\ TypeOK
  BY DEF IInv, TypeOK, DisplTypeOK, HeadRec
<1>2. ~Dangling /\ delta.element # "none" => delta.head \in Heads
  BY DEF Dangling, IInv, TypeOK, DisplTypeOK
<1>3. ASSUME NEW d, d = delta.zmode
      PROVE  LET c == set_current_mode(hd[h], delta)
                 n == mode_refused(hd[h], d)
             IN  /\ \A T : Field(T, c.cur) = Field(T, hd[h].cur) /\ Field(T, n.cur) = Field(T, hd[h].cur)
                 /\ c.cur.zmode = d /\ c.modes = hd[h].modes /\ c.modes_failed = hd[h].modes_failed
                 /\ n.cur.zmode = NULL /\ n.modes = hd[h].modes \ {d}
                 /\ n.modes_failed \subseteq hd[h].modes_failed \cup hd[h].modes
  <2> DEFINE cc == [hd[h].cur EXCEPT !.zmode = d]
             nc == [hd[h].cur EXCEPT !.zmode = NULL]
             nm == hd[h].modes \ {d}
             nf == hd[h].modes_failed \cup ({d} \cap hd[h].modes)
  <2>1. set_current_mode(hd[h], delta) = [hd[h] EXCEPT !.cur = cc]
    BY <1>3 DEF set_current_mode
  <2>2. mode_refused(hd[h], d) = [hd[h] EXCEPT !.modes = nm, !.modes_failed = nf, !.cur = nc]
    BY DEF mode_refused
  <2>3. /\ cc.enabled = hd[h].cur.enabled /\ cc.scale = hd[h].cur.scale /\ cc.pos = hd[h].cur.pos
        /\ cc.adaptive_sync = hd[h].cur.adaptive_sync /\ cc.zmode = d
        /\ nc.enabled = hd[h].cur.enabled /\ nc.scale = hd[h].cur.scale /\ nc.pos = hd[h].cur.pos
        /\ nc.adaptive_sync = hd[h].cur.adaptive_sync /\ nc.zmode = NULL
    BY <1>1 DEF HeadStates
  <2>4. nf \subseteq hd[h].modes_failed \cup hd[h].modes
    OBVIOUS
  <2> HIDE DEF cc, nc, nm, nf
  <2>5. /\ set_current_mode(hd[h], delta).cur = cc
        /\ set_current_mode(hd[h], delta).modes = hd[h].modes
        /\ set_current_mode(hd[h], delta).modes_failed = hd[h].modes_failed
    BY <1>1, <2>1 DEF HeadRec
  <2>6. /\ mode_refused(hd[h], d).cur = nc
        /\ mode_refused(hd[h], d).modes = nm
        /\ mode_refused(hd[h], d).modes_failed = nf
    BY <1>1, <2>2 DEF HeadRec
  <2>7. \A T : Field(T, cc) = Field(T, hd[h].cur) /\ Field(T, nc) = Field(T, hd[h].cur)
    BY <2>3 DEF Field
  <2>8. QED
    BY <2>3, <2>4, <2>5, <2>6, <2>7 DEF nm
<1>4. /\ adaptive_sync_refused(hd[h]).cur = hd[h].cur /\ adaptive_sync_refused(hd[h]).modes = hd[h].modes
      /\ adaptive_sync_refused(hd[h]).modes_failed = hd[h].modes_failed
  BY <1>1 DEF adaptive_sync_refused, HeadRec
<1>5. CASE state = "SUCCEEDED" /\ ~Dangling
  <2>1. x = act_handle_success /\ ~Loses(h)
    BY <1>5 DEF Handled, Loses
  <2>2. CASE delta.element = "MODE"
    <3>1. x = [hd EXCEPT ![delta.head] = set_current_mode(@, delta)]
      BY <2>1, <2>2 DEF act_handle_success
    <3>2. Gains(h) <=> delta.head = h
      BY <1>5, <2>2 DEF Gains
    <3>3. x[h] = IF Gains(h) THEN set_current_mode(hd[h], delta) ELSE hd[h]
      BY <1>1, <3>1, <3>2
    <3>4. QED
      BY <1>3, <2>1, <3>3
  <2>3. CASE delta.element = "VRR_OFF"
    <3>1. x = [hd EXCEPT ![delta.head] = adaptive_sync_refused(@)] /\ ~Gains(h)
      BY <2>1, <2>3 DEF act_handle_success, act_handle_failure, Gains
    <3>2. x[h] \in {hd[h], adaptive_sync_refused(hd[h])}
      BY <1>1, <3>1
    <3>3. QED
      BY <1>4, <2>1, <3>1, <3>2
  <2>4. CASE delta.element \notin {"MODE", "VRR_OFF"}
    BY <2>1, <2>4 DEF act_handle_success, Gains
  <2>5. QED
    BY <2>2, <2>3, <2>4
<1>6. CASE state = "FAILED" /\ ~Dangling
  <2>1. x = act_handle_failure /\ ~Gains(h)
    BY <1>6 DEF Handled, Gains
  <2>2. CASE delta.element = "MODE"
    <3>1. x = [hd EXCEPT ![delta.head] = mode_refused(@, delta.zmode)]
      BY <2>1, <2>2 DEF act_handle_failure
    <3>2. Loses(h) <=> delta.head = h
      BY <1>6, <2>2 DEF Loses
    <3>3. x[h] = IF Loses(h) THEN mode_refused(hd[h], delta.zmode) ELSE hd[h]
      BY <1>1, <3>1, <3>2
    <3>4. QED
      BY <1>3, <2>1, <3>3
  <2>3. CASE delta.element = "VRR_OFF"
    <3>1. x = [hd EXCEPT ![delta.head] = adaptive_sync_refused(@)] /\ ~Loses(h)
      BY <2>1, <2>3 DEF act_handle_failure, Loses
    <3>2. x[h] \in {hd[h], adaptive_sync_refused(hd[h])}
      BY <1>1, <3>1
    <3>3. QED
      BY <1>4, <2>1, <3>1, <3>2
  <2>4. CASE delta.element \notin {"MODE", "VRR_OFF"}
    BY <2>1, <2>4 DEF act_handle_failure, Loses
  <2>5. QED
    BY <2>2, <2>3, <2>4
<1>7. CASE Dangling \/ state \notin {"SUCCEEDED", "FAILED"}
  BY <1>7 DEF Handled, Gains, Loses
<1>8. QED
  BY <1>5, <1>6, <1>7

(* What act does to the record of a head.                                  *)
ActEnters(h) ==
    /\ \A T \in Tells \ {"present"} : Field(T, hd'[h].cur) = Field(T, hd[h].cur)
    /\ hd'[h].cur.zmode \in IF Gains(h) /\ alive' = "running" THEN {delta.zmode} ELSE {NULL, hd[h].cur.zmode}
    /\ hd'[h].modes = IF Loses(h) /\ alive' = "running" THEN hd[h].modes \ {delta.zmode} ELSE hd[h].modes
    /\ hd'[h].modes_failed \subseteq hd[h].modes_failed \cup hd[h].modes

(* Every branch of act changes the record of a head in this way.           *)
LEMMA ActSeen ==
    ASSUME IInv, act, NEW h \in Heads
    PROVE  ActEnters(h)
<1>1. CASE UNCHANGED hd /\ (alive' # "running" \/ state \in {"OUTSTANDING", "CANCELLED"})
  BY <1>1 DEF Gains, Loses, ActEnters
<1>2. ASSUME NEW x \in [Heads -> HeadRec], Handled(x), act_apply(desire(x)), alive' = "running"
      PROVE  ActEnters(h)
  <2>1. DisplTypeOK /\ heads \subseteq Heads
    BY DEF IInv, TypeOK, DisplTypeOK
  <2>2. desire(x) \in [Heads -> HeadRec]
    BY <2>1, DesireType
  <2>3. /\ hd'[h].cur = desire(x)[h].cur /\ hd'[h].modes = desire(x)[h].modes
        /\ hd'[h].modes_failed = desire(x)[h].modes_failed
    BY <1>2, <2>1, <2>2, ApplySeen
  <2>4. desire(x)[h].cur = x[h].cur /\ desire(x)[h].modes = x[h].modes /\ desire(x)[h].modes_failed = x[h].modes_failed
    BY <2>1, DesireFacts
  <2>5. hd'[h].cur = x[h].cur /\ hd'[h].modes = x[h].modes /\ hd'[h].modes_failed = x[h].modes_failed
    BY <2>3, <2>4
  <2>6. /\ \A T \in Tells \ {"present"} : Field(T, x[h].cur) = Field(T, hd[h].cur)
        /\ x[h].cur.zmode = IF Gains(h) THEN delta.zmode ELSE IF Loses(h) THEN NULL ELSE hd[h].cur.zmode
        /\ x[h].modes = IF Loses(h) THEN hd[h].modes \ {delta.zmode} ELSE hd[h].modes
        /\ x[h].modes_failed \subseteq hd[h].modes_failed \cup hd[h].modes
    BY <1>2, HandledSeen
  <2>7. QED
    BY <1>2, <2>5, <2>6 DEF ActEnters
<1>3. QED
  BY <1>1, <1>2, ActCases

(* The configuration that act sends: about live heads, from what the       *)
(* server has received, and with a mode the server knows of.               *)
SendsOne ==
    /\ state' = "OUTSTANDING" /\ config'.status = "sent" /\ config'.stale = DonePending
    /\ config'.on \cup config'.off \subseteq heads
    /\ config'.kind = "MODE" => \A h \in config'.on : config'.want[h].zmode \in hd'[h].modes
    /\ delta'.element = "MODE" => delta'.head \in heads

(* act keeps the configuration as it is, or sends one when there is none.  *)
LEMMA ActSends ==
    ASSUME IInv, act
    PROVE  \/ /\ config' = config /\ delta' = delta
              /\ state' = state \/ (state' = "IDLE" /\ state = "CANCELLED")
              /\ alive' = "running" => state \in {"OUTSTANDING", "CANCELLED"}
           \/ config' = config /\ delta' = NoDelta /\ state' = "IDLE" /\ state # "OUTSTANDING"
           \/ SendsOne /\ state # "OUTSTANDING"
<1>1. DisplTypeOK /\ heads \subseteq Heads
  BY DEF IInv, TypeOK, DisplTypeOK
<1>2. ASSUME NEW x \in [Heads -> HeadRec], act_apply(desire(x)), state # "OUTSTANDING"
      PROVE  \/ config' = config /\ delta' = NoDelta /\ state' = "IDLE"
             \/ SendsOne
  <2> DEFINE r == desire(x)
  <2>1. r \in [Heads -> HeadRec] /\ EnabledIfChanged(r)
    BY <1>1, DesireType
  <2>2. \A h \in heads : r[h].des.enabled => r[h].des.zmode \in r[h].modes
    BY <1>1, DesireFacts
  <2>3. \A h \in Heads : hd'[h].modes = r[h].modes
    BY <1>1, <1>2, <2>1, ApplySeen
  <2>4. act_apply(r)
    BY <1>2
  <2> HIDE DEF r
  <2>5. ASSUME NEW kind, NEW on, NEW off, Configure(kind, on, off, r)
        PROVE  /\ state' = "OUTSTANDING" /\ config'.status = "sent" /\ config'.stale = DonePending
               /\ config'.on = on /\ config'.off = off /\ config'.kind = kind
               /\ \A h \in Heads : config'.want[h] = r[h].des
    BY <2>5 DEF Configure
  <2>6. CASE Nothing(r)
    BY <2>6 DEF Nothing
  <2>7. CASE \E h \in ReapplyHeads(r) : ApplyReapply(h, r)
    <3>1. PICK h \in heads : ApplyReapply(h, r)
      BY <2>7 DEF ReapplyHeads, Changing
    <3>2. Configure("REAPPLY", {}, {h}, r) /\ delta'.element = "none"
      BY <3>1 DEF ApplyReapply
    <3>3. /\ state' = "OUTSTANDING" /\ config'.status = "sent" /\ config'.stale = DonePending
          /\ config'.on = {} /\ config'.off = {h} /\ config'.kind = "REAPPLY"
      BY <2>5, <3>2
    <3>4. QED
      BY <3>2, <3>3 DEF SendsOne
  <2>8. CASE ReapplyHeads(r) = {} /\ \E h \in ModeHeads(r) : ApplyMode(h, r)
    <3>1. PICK h \in heads : ApplyMode(h, r) /\ r[h].des.enabled
      BY <2>1, <2>8 DEF ModeHeads, ReapplyHeads, Changing, EnabledIfChanged
    <3>2. Configure("MODE", {h}, {}, r) /\ delta'.head = h
      BY <3>1 DEF ApplyMode
    <3>3. /\ state' = "OUTSTANDING" /\ config'.status = "sent" /\ config'.stale = DonePending
          /\ config'.on = {h} /\ config'.off = {} /\ config'.kind = "MODE"
          /\ config'.want[h] = r[h].des
      BY <1>1, <2>5, <3>2
    <3>4. r[h].des.zmode \in hd'[h].modes
      BY <1>1, <2>2, <2>3, <3>1
    <3>5. QED
      BY <3>2, <3>3, <3>4 DEF SendsOne
  <2>9. CASE \E h \in VrrHeads(r) : ApplyVrr(h, r)
    <3>1. PICK h \in heads : ApplyVrr(h, r)
      BY <2>9 DEF VrrHeads, Changing
    <3>2. Configure("VRR", {h}, {}, r) /\ delta'.element = "VRR_OFF"
      BY <3>1 DEF ApplyVrr
    <3>3. /\ state' = "OUTSTANDING" /\ config'.status = "sent" /\ config'.stale = DonePending
          /\ config'.on = {h} /\ config'.off = {} /\ config'.kind = "VRR"
      BY <2>5, <3>2
    <3>4. QED
      BY <3>2, <3>3 DEF SendsOne
  <2>10. CASE ApplyOther(r)
    <3>1. PICK on, off : Configure("OTHER", on, off, r) /\ on \cup off \subseteq heads
      BY <2>10 DEF ApplyOther, Changing
    <3>2. delta'.element = "none"
      BY <2>10 DEF ApplyOther, NoDelta
    <3>3. /\ state' = "OUTSTANDING" /\ config'.status = "sent" /\ config'.stale = DonePending
          /\ config'.on = on /\ config'.off = off /\ config'.kind = "OTHER"
      BY <2>5, <3>1
    <3>4. QED
      BY <3>1, <3>2, <3>3 DEF SendsOne
  <2>11. QED
    BY <2>4, <2>6, <2>7, <2>8, <2>9, <2>10 DEF act_apply
<1>3. QED
  BY <1>2, ActCases

(* The other inputs of the loop forget at most which mode a head has, and  *)
(* take no more than the failed modes back.                                *)
InputEnters(h) ==
    /\ UNCHANGED <<wire, config, heads, state, delta>>
    /\ \A T \in Tells \ {"present"} : Field(T, hd'[h].cur) = Field(T, hd[h].cur)
    /\ hd'[h].cur.zmode \in {NULL, hd[h].cur.zmode}
    /\ Inputs => hd'[h].modes = hd[h].modes /\ hd'[h].modes_failed = hd[h].modes_failed
    /\ hd'[h].modes \cup hd'[h].modes_failed = hd[h].modes \cup hd[h].modes_failed
    /\ hd[h].modes \subseteq hd'[h].modes

(* Every input of the loop changes the record of a head in this way:       *)
(* reload, lid and requests leave what was learnt of the compositor alone. *)
LEMMA InputsSeen ==
    ASSUME IInv, Inputs \/ Reapply, NEW h \in Heads
    PROVE  InputEnters(h)
<1>1. hd \in [Heads -> HeadRec] /\ hd[h] \in HeadRec /\ hd[h].cur \in HeadStates
  BY DEF IInv, TypeOK, DisplTypeOK, HeadRec
<1>2. \A stage : Input(stage) => UNCHANGED <<wire, config, heads, state, delta>>
  BY DEF Input
<1>3. CASE UNCHANGED hd
  <2>1. UNCHANGED <<wire, config, heads, state, delta>>
    BY <1>2, <1>3 DEF Inputs, Reapply, g_cfg_file_reload, g_lid_update, IpcInProgress, IpcVrrOff,
                      IpcDisabled, IpcReapply, Signalled
  <2>2. QED
    BY <1>3, <2>1 DEF InputEnters
<1>4. ASSUME NEW c, NEW n, IpcDisabled(c, n)
      PROVE  InputEnters(h)
  <2>1. UNCHANGED <<wire, config, heads, state, delta>>
    BY <1>2, <1>4 DEF IpcDisabled
  <2>2. hd'[h] \in {hd[h], head_override_ipc_disableds(hd[h], c)}
    BY <1>4 DEF IpcDisabled
  <2>3. /\ head_override_ipc_disableds(hd[h], c).cur = hd[h].cur
        /\ head_override_ipc_disableds(hd[h], c).modes = hd[h].modes
        /\ head_override_ipc_disableds(hd[h], c).modes_failed = hd[h].modes_failed
    BY <1>1 DEF head_override_ipc_disableds, head_apply_disabled_toggle, HeadRec
  <2>4. QED
    BY <2>1, <2>2, <2>3 DEF InputEnters
<1>5. CASE Reapply
  <2>1. UNCHANGED <<wire, config, heads, state, delta>>
    BY <1>2, <1>5 DEF Reapply, IpcReapply
  <2>2. hd'[h] \in {hd[h], head_reapply(hd[h])}
    BY <1>5 DEF Reapply, IpcReapply
  <2> DEFINE c == [hd[h].cur EXCEPT !.zmode = NULL]
             m == hd[h].modes \cup hd[h].modes_failed
  <2>3. head_reapply(hd[h]) = [hd[h] EXCEPT !.modes = m, !.modes_failed = {}, !.reapply_required = TRUE, !.cur = c]
    BY DEF head_reapply
  <2>4. /\ c.enabled = hd[h].cur.enabled /\ c.scale = hd[h].cur.scale /\ c.pos = hd[h].cur.pos
        /\ c.adaptive_sync = hd[h].cur.adaptive_sync /\ c.zmode = NULL
    BY <1>1 DEF HeadStates
  <2> HIDE DEF c, m
  <2>5. head_reapply(hd[h]).cur = c /\ head_reapply(hd[h]).modes = m /\ head_reapply(hd[h]).modes_failed = {}
    BY <1>1, <2>3 DEF HeadRec
  <2>6. \A T : Field(T, c) = Field(T, hd[h].cur)
    BY <2>4 DEF Field
  <2>7. /\ \A T \in Tells \ {"present"} : Field(T, hd'[h].cur) = Field(T, hd[h].cur)
        /\ hd'[h].cur.zmode \in {NULL, hd[h].cur.zmode}
    BY <2>2, <2>4, <2>5, <2>6
  <2>8. /\ hd'[h].modes \cup hd'[h].modes_failed = hd[h].modes \cup hd[h].modes_failed
        /\ hd[h].modes \subseteq hd'[h].modes
    BY <2>2, <2>5 DEF m
  <2>9. Inputs => UNCHANGED hd \/ \E x, n : IpcDisabled(x, n)
    BY DEF Inputs, g_cfg_file_reload, g_lid_update, IpcInProgress, IpcVrrOff, Signalled
  <2>10. CASE Inputs
    BY <1>3, <1>4, <2>9, <2>10
  <2>11. CASE ~Inputs
    BY <2>1, <2>7, <2>8, <2>11 DEF InputEnters
  <2>12. QED
    BY <2>10, <2>11
<1>6. CASE Inputs
  BY <1>3, <1>4, <1>6 DEF Inputs, g_cfg_file_reload, g_lid_update, IpcInProgress, IpcVrrOff, Signalled
<1>7. QED
  BY <1>5, <1>6

-----------------------------------------------------------------------------
(* The queue between the compositor and the server.                        *)

(* What the server has seen of a head, and what it has been told.          *)
Cur(h, T) == IF T = "present" THEN h \in heads ELSE Field(T, hd[h].cur)
Now(h, T) == IF T = "present" THEN h \in plugged ELSE Field(T, told[h])

(* The server has seen what it was told, or will once it has dispatched    *)
(* what is queued.  The geometry and the adaptive sync of a head count     *)
(* only while the head is enabled.                                         *)
Mirror ==
    \A h \in Heads, T \in Tells :
        T \in {"present", "enabled"} \/ told[h].enabled => Tell(wire, h, T, Cur(h, T), Now(h, T))

(* Every event about a head is followed by a done.                         *)
Followed ==
    \A i \in 1..Len(wire) : wire[i].type \in HeadEventTypes =>
        \E j \in 1..Len(wire) : j > i /\ wire[j].type = "done"

(* A configuration that is not stale was made when no done was queued.     *)
FreshConfig == config.status = "sent" /\ ~config.stale => ~DonePending

Known == heads \subseteq used /\ \A e \in Elems(wire) : e.type \in HeadEventTypes => e.head \in used

Gone == \A e \in Elems(wire) : e.type = "finished" => e.head \notin plugged

(* The head of delta is live, or is not plugged any more.                  *)
DeltaLive ==
    delta.element = "MODE" => delta.head \in used /\ (delta.head \in heads \/ delta.head \notin plugged)

Dark == \A h \in Heads : h \notin plugged => ~told[h].enabled

WireInv == Mirror /\ Followed /\ FreshConfig /\ Known /\ Gone /\ DeltaLive /\ Dark

(* Listening keeps the invariant.                                          *)
LEMMA ListenWire ==
    ASSUME IInv, WireInv, Listen, UNCHANGED compositorVars
    PROVE  WireInv'
<1>1. PICK e \in Events : Enters(e)
  BY ListenEnters
<1>2. /\ wire # <<>> /\ wire' = Tail(wire) /\ e = Head(wire) /\ e \in Elems(wire)
      /\ Elems(wire') \subseteq Elems(wire) /\ UNCHANGED <<delta, config>>
      /\ heads' = IF e.type = "head" THEN heads \cup {e.head}
                  ELSE IF e.type = "finished" THEN heads \ {e.head} ELSE heads
      /\ e.type \in HeadEventTypes =>
            e.head \in Heads /\ hd' = [hd EXCEPT ![e.head] = After(e, hd[e.head])]
      /\ e.type \notin HeadEventTypes => \A h \in Heads : hd'[h].cur = hd[h].cur
  BY <1>1 DEF Enters
<1>3. /\ wire \in Seq(Events) /\ hd \in [Heads -> HeadRec] /\ UNCHANGED <<told, plugged, used>>
      /\ plugged \subseteq used /\ used \subseteq Heads
  BY DEF IInv, TypeOK, DisplTypeOK, CompositorTypeOK, compositorVars
<1>4. Mirror'
  <2>1. ASSUME NEW h \in Heads, NEW T \in Tells, T \in {"present", "enabled"} \/ told[h].enabled
        PROVE  Tell(wire', h, T, (Cur(h, T))', (Now(h, T))')
    <3>1. Tell(wire, h, T, Cur(h, T), Now(h, T))
      BY <2>1 DEF WireInv, Mirror
    <3>2. Tell(wire', h, T, IF Sets(e, h, T) THEN Val(e, T) ELSE Cur(h, T), Now(h, T))
      BY <1>2, <1>3, <3>1, TellTail
    <3>3. (Now(h, T))' = Now(h, T)
      BY <1>3 DEF Now
    <3>4. (Cur(h, T))' = IF Sets(e, h, T) THEN Val(e, T) ELSE Cur(h, T)
      <4>1. CASE T = "present"
        <5>1. Sets(e, h, T) => Val(e, T) = (e.type = "head")
          BY <4>1 DEF Sets, Val
        <5>2. (h \in heads') = IF Sets(e, h, T) THEN e.type = "head" ELSE h \in heads
          BY <1>2, <4>1 DEF Sets, Events, EventTypes, HeadEventTypes, ModeEventTypes, Answers
        <5>3. QED
          BY <4>1, <5>1, <5>2 DEF Cur
      <4>2. CASE T # "present" /\ e.type \in HeadEventTypes /\ e.head = h
        <5>1. hd'[h] = After(e, hd[h]) /\ hd[h] \in HeadRec
          BY <1>2, <1>3, <4>2
        <5>2. Field(T, After(e, hd[h]).cur) = IF e.type \in {T, "head", "finished"} THEN Val(e, T)
                                              ELSE Field(T, hd[h].cur)
          <6>1. PICK r \in HeadRec : r = hd[h]
            BY <5>1
          <6>2. \A U \in Tells \ {"present"} :
                   Field(U, After(e, r).cur) = IF e.type \in {U, "head", "finished"} THEN Val(e, U)
                                               ELSE Field(U, r.cur)
            BY <4>2, AfterSeen
          <6>3. QED
            BY <4>2, <6>1, <6>2
        <5>3. Sets(e, h, T) <=> e.type \in {T, "head", "finished"}
          BY <4>2 DEF Sets
        <5>4. QED
          BY <4>2, <5>1, <5>2, <5>3 DEF Cur
      <4>3. CASE T # "present" /\ ~(e.type \in HeadEventTypes /\ e.head = h)
        <5>1. ~Sets(e, h, T)
          BY <4>3 DEF Sets, Tells, HeadEventTypes
        <5>2. hd'[h].cur = hd[h].cur
          BY <1>2, <1>3, <4>3
        <5>3. QED
          BY <4>3, <5>1, <5>2 DEF Cur
      <4>4. QED
        BY <4>1, <4>2, <4>3
    <3>5. QED
      BY <3>2, <3>3, <3>4
  <2>2. QED
    BY <1>3, <2>1 DEF Mirror
<1>5. Followed' /\ FreshConfig'
  <2>1. /\ Len(wire') = Len(wire) - 1 /\ Len(wire) \in Nat
        /\ \A i \in 1..Len(wire') : wire'[i] = wire[i + 1] /\ i + 1 \in 1..Len(wire)
        /\ \A i \in 1..Len(wire') : \A j \in 1..Len(wire) :
              j > i + 1 => j - 1 \in 1..Len(wire') /\ j - 1 > i /\ wire'[j - 1] = wire[j]
    BY <1>2, <1>3
  <2>2. ASSUME NEW i \in 1..Len(wire'), wire'[i].type \in HeadEventTypes
        PROVE  \E k \in 1..Len(wire') : k > i /\ wire'[k].type = "done"
    <3>1. PICK j \in 1..Len(wire) : j > i + 1 /\ wire[j].type = "done"
      BY <2>1, <2>2 DEF WireInv, Followed
    <3>2. j - 1 \in 1..Len(wire') /\ j - 1 > i /\ wire'[j - 1] = wire[j]
      BY <2>1, <3>1
    <3>3. QED
      BY <3>1, <3>2
  <2>3. DonePending' => DonePending
    BY <2>1 DEF DonePending
  <2>4. QED
    BY <1>2, <2>2, <2>3 DEF WireInv, FreshConfig, Followed
<1>6. Known' /\ Gone'
  <2>1. e.type = "head" => e.head \in used
    BY <1>2 DEF WireInv, Known, HeadEventTypes
  <2>2. QED
    BY <1>2, <1>3, <2>1 DEF WireInv, Known, Gone
<1>7. DeltaLive' /\ Dark'
  BY <1>2, <1>3 DEF WireInv, DeltaLive, Gone, Dark
<1>8. QED
  BY <1>4, <1>5, <1>6, <1>7 DEF WireInv

(* So does everything else the server does.                                *)
LEMMA ServerWire ==
    ASSUME IInv, WireInv, act \/ Inputs \/ Reapply, UNCHANGED compositorVars
    PROVE  WireInv'
<1>1. UNCHANGED <<told, plugged, used>> /\ heads \subseteq Heads
  BY DEF compositorVars, IInv, TypeOK, DisplTypeOK
<1>2. UNCHANGED <<wire, heads>> /\ \A h \in Heads, T \in Tells \ {"present"} : Field(T, hd'[h].cur) = Field(T, hd[h].cur)
  <2>1. CASE act
    BY <2>1, ActCases, ActSeen DEF ActEnters
  <2>2. CASE Inputs \/ Reapply
    <3>1. UNCHANGED <<wire, heads>>
      BY <2>2 DEF Inputs, Reapply, Input, g_cfg_file_reload, g_lid_update, IpcInProgress, IpcVrrOff,
                  IpcDisabled, IpcReapply, Signalled
    <3>2. QED
      BY <2>2, <3>1, InputsSeen DEF InputEnters
  <2>3. QED
    BY <2>1, <2>2
<1>3. Mirror'
  <2>1. \A h \in Heads, T \in Tells : (Cur(h, T))' = Cur(h, T) /\ (Now(h, T))' = Now(h, T)
    BY <1>1, <1>2 DEF Cur, Now
  <2>2. QED
    BY <1>1, <1>2, <2>1 DEF WireInv, Mirror
<1>4. Followed' /\ Known' /\ Gone' /\ Dark'
  BY <1>1, <1>2 DEF WireInv, Followed, Known, Gone, Dark
<1>5. FreshConfig' /\ DeltaLive'
  <2>1. DonePending' = DonePending
    BY <1>2 DEF DonePending
  <2>2. CASE act
    <3>1. CASE config' = config /\ delta' = delta
      BY <1>1, <1>2, <2>1, <3>1 DEF WireInv, FreshConfig, DeltaLive
    <3>2. CASE config' = config /\ delta' = NoDelta
      BY <2>1, <3>2 DEF WireInv, FreshConfig, DeltaLive, NoDelta
    <3>3. CASE SendsOne
      BY <1>1, <1>2, <2>1, <3>3 DEF WireInv, Known, FreshConfig, DeltaLive, SendsOne
    <3>4. QED
      BY <2>2, <3>1, <3>2, <3>3, ActSends
  <2>3. CASE Inputs \/ Reapply
    <3>1. UNCHANGED <<config, delta>>
      BY <2>3 DEF Inputs, Reapply, Input, g_cfg_file_reload, g_lid_update, IpcInProgress, IpcVrrOff,
                  IpcDisabled, IpcReapply, Signalled
    <3>2. QED
      BY <1>1, <1>2, <2>1, <3>1 DEF WireInv, FreshConfig, DeltaLive
  <2>4. QED
    BY <2>2, <2>3
<1>6. QED
  BY <1>3, <1>4, <1>5 DEF WireInv

(* A sequence of events that ends in a given event.                        *)
LEMMA ConcatOne ==
    ASSUME NEW t \in Seq(Events), NEW e \in Events
    PROVE  /\ t \o <<e>> \in Seq(Events) /\ Len(t \o <<e>>) = Len(t) + 1 /\ Len(t) \in Nat
           /\ (t \o <<e>>)[Len(t \o <<e>>)] = e
OBVIOUS

(* Events are announced with a done behind them.                           *)
LEMMA Announced ==
    ASSUME IInv, NEW t \in Seq(Events), Announce(t)
    PROVE  /\ Elems(wire') = Elems(wire) \cup Elems(t) \cup {Signal("done")}
           /\ Followed' /\ FreshConfig'
           /\ \A h, a, b, c : \A T \in Tells :
                 /\ Tell(wire, h, T, a, b) \/ \E e \in Elems(t) : Sets(e, h, T)
                 /\ Tell(t, h, T, b, c)
                 => Tell(wire', h, T, a, c)
<1> DEFINE d == <<Signal("done")>>
           u == t \o d
<1>1. Signal("done") \in Events /\ Signal("done").type = "done"
  BY SignalType
<1>2. wire \in Seq(Events) /\ wire' = wire \o u /\ config' = Outdated /\ config \in Configs
  BY DEF IInv, TypeOK, Announce, Send
<1>3. d \in Seq(Events) /\ Len(d) = 1 /\ d[1] = Signal("done")
  BY <1>1
<1> HIDE DEF d
<1>4. u \in Seq(Events) /\ Len(u) = Len(t) + 1 /\ u[Len(u)] = Signal("done") /\ Len(t) \in Nat
  BY <1>1, ConcatOne DEF d
<1>5. Elems(u) = Elems(t) \cup Elems(d) /\ Elems(d) = {Signal("done")}
  <2>1. Elems(d) = {Signal("done")}
    BY ElemsOne DEF d
  <2>2. QED
    BY <1>3, <2>1, ElemsConcat
<1> HIDE DEF u
<1>6. Elems(wire') = Elems(wire) \cup Elems(t) \cup {Signal("done")}
  <2>1. Elems(wire \o u) = Elems(wire) \cup Elems(u)
    BY <1>2, <1>4, ElemsConcat
  <2>2. QED
    BY <1>2, <1>5, <2>1
<1>7. Followed'
  <2>1. Len(wire') \in Nat /\ wire'[Len(wire')] = Signal("done") /\ Len(wire') >= 1
    BY <1>2, <1>4
  <2>2. "done" \notin HeadEventTypes
    BY DEF HeadEventTypes, ModeEventTypes
  <2>3. ASSUME NEW i \in 1..Len(wire'), wire'[i].type \in HeadEventTypes
        PROVE  \E j \in 1..Len(wire') : j > i /\ wire'[j].type = "done"
    <3>1. Len(wire') \in 1..Len(wire') /\ wire'[Len(wire')].type = "done"
      BY <1>1, <2>1
    <3>2. i # Len(wire')
      BY <1>1, <2>1, <2>2, <2>3
    <3>3. QED
      BY <2>1, <3>1, <3>2
  <2>4. QED
    BY <2>3 DEF Followed
<1>8. FreshConfig'
  BY <1>2 DEF FreshConfig, Outdated, Configs
<1>9. ASSUME NEW h, NEW T \in Tells, NEW a, NEW b, NEW c,
             Tell(wire, h, T, a, b) \/ \E e \in Elems(t) : Sets(e, h, T), Tell(t, h, T, b, c)
      PROVE  Tell(wire', h, T, a, c)
  <2>1. ~Sets(Signal("done"), h, T)
    BY <1>1 DEF Sets, Tells
  <2>2. Tell(d, h, T, c, c)
    BY <1>5, <2>1, TellNothing
  <2>3. Tell(u, h, T, b, c)
    BY <1>3, <1>9, <2>2, TellConcat DEF u
  <2>4. Tell(wire, h, T, a, b) \/ \E e \in Elems(u) : Sets(e, h, T)
    BY <1>5, <1>9
  <2>5. Tell(wire \o u, h, T, a, c)
    BY <1>2, <1>4, <2>3, <2>4, TellConcat
  <2>6. QED
    BY <1>2, <2>5
<1>10. QED
  BY <1>6, <1>7, <1>8, <1>9

(* The announcement of modes is about modes of the head on offer.          *)
LEMMA ModeEventsElems ==
    ASSUME IInv, NEW h \in Heads, NEW type \in ModeEventTypes
    PROVE  /\ ModeEvents(type, h) \in Seq(Events)
           /\ \A e \in Elems(ModeEvents(type, h)) :
                 e.head = h /\ e.type = type /\ \E i \in 1..Len(offer[h]) : offer[h][i] = e.state.zmode
<1>1. offer \in [Heads -> Seq(Modes)] /\ Len(offer[h]) \in Nat
  BY DEF IInv, TypeOK, CompositorTypeOK
<1>2. ModeEvents(type, h) \in Seq(Events)
  BY <1>1, ModeEventsQuietly DEF Quietly
<1>3. \A m : /\ ModeEvent(type, h, m).head = h /\ ModeEvent(type, h, m).type = type
             /\ ModeEvent(type, h, m).state.zmode = m
  BY DEF ModeEvent, Event, ZeroState
<1>4. /\ Len(ModeEvents(type, h)) = Len(offer[h])
      /\ \A i \in 1..Len(offer[h]) : ModeEvents(type, h)[i] = ModeEvent(type, h, offer[h][i])
  BY <1>1 DEF ModeEvents
<1>5. QED
  BY <1>2, <1>3, <1>4 DEF Elems

(* The events that announce a new head with the state s.                   *)
PlugEvents(h, s) ==
    <<Event("head", h, ZeroState)>>
    \o ModeEvents("mode", h)
    \o If(Preferred[h] # NULL, ModeEvent("preferred", h, Preferred[h]))
    \o Describe(h, ZeroState, s)

(* They tell everything of the head.                                       *)
LEMMA PlugTells ==
    ASSUME IInv, NEW h \in Heads, NEW s \in HeadStates
    PROVE  LET t == PlugEvents(h, s)
           IN  /\ t \in Seq(Events)
               /\ \A e \in Elems(t) :
                     /\ e.head = h
                     /\ e.type \in HeadEventTypes \ {"finished", "mode_finished"}
                     /\ e.type = "current_mode" => e.state = s
                     /\ e.type = "mode" => \E i \in 1..Len(offer[h]) : offer[h][i] = e.state.zmode
               /\ \A T \in Tells :
                     /\ \E e \in Elems(t) : Sets(e, h, T)
                     /\ T \in {"present", "enabled"} \/ s.enabled =>
                           \A a : Tell(t, h, T, a, IF T = "present" THEN TRUE ELSE Field(T, s))
<1> DEFINE ea == Event("head", h, ZeroState)
           ec == ModeEvent("preferred", h, Preferred[h])
           A == <<ea>>
           B == ModeEvents("mode", h)
           C == If(Preferred[h] # NULL, ec)
           D == Describe(h, ZeroState, s)
           v0(T) == IF T = "present" THEN TRUE ELSE Field(T, ZeroState)
           v(T) == IF T = "present" THEN TRUE ELSE Field(T, s)
<1>1. ea \in Events /\ ea.head = h /\ ea.type = "head" /\ A \in Seq(Events) /\ Elems(A) = {ea}
  <2>1. "head" \in HeadEventTypes \ ModeEventTypes
    BY DEF HeadEventTypes, ModeEventTypes
  <2>2. ea \in Events
    BY <2>1, ZeroStateType, EventType
  <2>3. ea.head = h /\ ea.type = "head"
    BY DEF Event
  <2>4. QED
    BY <2>2, <2>3, ElemsOne
<1>2. /\ B \in Seq(Events)
      /\ \A e \in Elems(B) : e.head = h /\ e.type = "mode" /\ \E i \in 1..Len(offer[h]) : offer[h][i] = e.state.zmode
  BY ModeEventsElems DEF ModeEventTypes
<1>3. /\ C \in Seq(Events)
      /\ \A e \in Elems(C) : e.head = h /\ e.type = "preferred"
  <2>1. Preferred[h] # NULL => Preferred[h] \in Modes
    BY CompositorAssumption
  <2>2. Preferred[h] # NULL => ec \in Events
    BY <2>1, ModeEventType DEF ModeEventTypes
  <2>3. ec.head = h /\ ec.type = "preferred"
    BY DEF ModeEvent, Event
  <2> HIDE DEF ec
  <2>4. Elems(C) \subseteq {ec}
    BY ElemsIf
  <2>5. C \in Seq(Events)
    BY <2>2 DEF If
  <2>6. QED
    BY <2>3, <2>4, <2>5
<1>4. /\ D \in Seq(Events)
      /\ \A e \in Elems(D) : /\ e.head = h /\ e.state = s
                             /\ e.type \in {"enabled", "current_mode", "geometry", "adaptive_sync"}
      /\ Tell(D, h, "enabled", FALSE, s.enabled)
      /\ s.enabled => \A T \in {"geometry", "adaptive_sync"} : \A a : Tell(D, h, T, a, Field(T, s))
  <2>1. ZeroState \in HeadStates /\ ZeroState.enabled = FALSE
    BY ZeroStateType DEF ZeroState
  <2>2. PICK z \in HeadStates : z = ZeroState
    BY <2>1
  <2>3. /\ Describe(h, z, s) \in Seq(Events)
        /\ \A e \in Elems(Describe(h, z, s)) :
              /\ e.head = h /\ e.state = s
              /\ e.type \in {"enabled", "current_mode", "geometry", "adaptive_sync"}
        /\ Tell(Describe(h, z, s), h, "enabled", z.enabled, s.enabled)
        /\ s.enabled => \A T \in {"geometry", "adaptive_sync"} :
              ~z.enabled => \A a : Tell(Describe(h, z, s), h, T, a, Field(T, s))
    BY DescribeTells
  <2>4. D = Describe(h, z, s)
    BY <2>2
  <2> HIDE DEF D
  <2>5. z.enabled = FALSE
    BY <2>1, <2>2
  <2>6. QED
    BY <2>3, <2>4, <2>5
<1>5. PlugEvents(h, s) = ((A \o B) \o C) \o D
  BY DEF PlugEvents
<1> HIDE DEF A, B, C, D, ea
<1>6. A \o B \in Seq(Events) /\ (A \o B) \o C \in Seq(Events) /\ ((A \o B) \o C) \o D \in Seq(Events)
  <2>1. A \o B \in Seq(Events)
    BY <1>1, <1>2
  <2>2. (A \o B) \o C \in Seq(Events)
    BY <1>3, <2>1
  <2>3. QED
    BY <1>4, <2>1, <2>2
<1>7. Elems(((A \o B) \o C) \o D) = Elems(A) \cup Elems(B) \cup Elems(C) \cup Elems(D)
  <2>1. Elems(A \o B) = Elems(A) \cup Elems(B)
    BY <1>1, <1>2, ElemsConcat
  <2>2. Elems((A \o B) \o C) = Elems(A \o B) \cup Elems(C)
    BY <1>3, <1>6, ElemsConcat
  <2>3. Elems(((A \o B) \o C) \o D) = Elems((A \o B) \o C) \cup Elems(D)
    BY <1>4, <1>6, ElemsConcat
  <2>4. QED
    BY <2>1, <2>2, <2>3
<1>8. ASSUME NEW e \in Elems(PlugEvents(h, s))
      PROVE  /\ e.head = h
             /\ e.type \in HeadEventTypes \ {"finished", "mode_finished"}
             /\ e.type = "current_mode" => e.state = s
             /\ e.type = "mode" => \E i \in 1..Len(offer[h]) : offer[h][i] = e.state.zmode
  <2>1. {"head", "mode", "preferred", "enabled", "current_mode", "geometry", "adaptive_sync"}
           \subseteq HeadEventTypes \ {"finished", "mode_finished"}
    BY DEF HeadEventTypes, ModeEventTypes
  <2>2. CASE e \in Elems(A)
    BY <1>1, <2>1, <2>2
  <2>3. CASE e \in Elems(B)
    BY <1>2, <2>1, <2>3
  <2>4. CASE e \in Elems(C)
    BY <1>3, <2>1, <2>4
  <2>5. CASE e \in Elems(D)
    BY <1>4, <2>1, <2>5
  <2>6. QED
    BY <1>5, <1>7, <1>8, <2>2, <2>3, <2>4, <2>5
<1>9. ASSUME NEW T \in Tells
      PROVE  \E e \in Elems(PlugEvents(h, s)) : Sets(e, h, T)
  <2>1. ea \in Elems(PlugEvents(h, s)) /\ Sets(ea, h, T)
    BY <1>1, <1>5, <1>7 DEF Sets
  <2>2. QED
    BY <2>1
<1>10. ASSUME NEW T \in Tells, T \in {"present", "enabled"} \/ s.enabled, NEW a
       PROVE  Tell(PlugEvents(h, s), h, T, a, v(T))
  <2>1. Tell(A, h, T, a, v0(T))
    <3>1. Sets(ea, h, T) /\ Val(ea, T) = v0(T)
      BY <1>1 DEF Sets, Val, Tells
    <3>2. Tell(<<ea>>, h, T, a, Val(ea, T))
      BY <3>1, TellOne
    <3>3. QED
      BY <3>1, <3>2 DEF A
  <2>2. (\A e \in Elems(B) : ~Sets(e, h, T)) /\ (\A e \in Elems(C) : ~Sets(e, h, T))
    BY <1>2, <1>3 DEF Sets, Tells
  <2>3. Tell(B, h, T, v0(T), v0(T)) /\ Tell(C, h, T, v0(T), v0(T))
    BY <2>2, TellNothing
  <2>4. Tell(D, h, T, v0(T), v(T))
    <3>1. CASE T = "present"
      <4>1. \A e \in Elems(D) : ~Sets(e, h, T)
        BY <1>4, <3>1 DEF Sets
      <4>2. Tell(D, h, T, TRUE, TRUE)
        BY <4>1, TellNothing
      <4>3. QED
        BY <3>1, <4>2
    <3>2. CASE T = "enabled"
      <4>1. Field("enabled", ZeroState) = FALSE /\ Field("enabled", s) = s.enabled
        BY DEF Field, ZeroState
      <4>2. QED
        BY <1>4, <3>2, <4>1
    <3>3. CASE T \in {"geometry", "adaptive_sync"}
      BY <1>4, <1>10, <3>3
    <3>4. QED
      BY <3>1, <3>2, <3>3 DEF Tells
  <2> HIDE DEF v0, v
  <2>5. Tell(A \o B, h, T, a, v0(T))
    BY <1>1, <1>2, <2>1, <2>3, TellConcat
  <2>6. Tell((A \o B) \o C, h, T, a, v0(T))
    BY <1>3, <1>6, <2>3, <2>5, TellConcat
  <2>7. Tell(((A \o B) \o C) \o D, h, T, a, v(T))
    BY <1>4, <1>6, <2>4, <2>6, TellConcat
  <2>8. QED
    BY <1>5, <2>7
<1>11. PlugEvents(h, s) \in Seq(Events)
  BY <1>5, <1>6
<1>12. QED
  BY <1>8, <1>9, <1>10, <1>11

(* What it takes to announce events t about the head h.                    *)
LEMMA AnnounceWire ==
    ASSUME IInv, WireInv, NEW t \in Seq(Events), Announce(t), NEW h \in Heads, UNCHANGED displVars,
           \A e \in Elems(t) : /\ e.head = h /\ e.type \in HeadEventTypes
                               /\ e.type = "finished" => h \notin plugged',
           plugged' \ {h} = plugged \ {h}, h \in plugged' => h \in plugged \/ h \notin used,
           used' = used \cup {h},
           \A g \in Heads : g # h => told'[g] = told[g],
           h \notin plugged' => ~told'[h].enabled,
           \A T \in Tells : T \in {"present", "enabled"} \/ told'[h].enabled =>
               Tell(wire', h, T, Cur(h, T), (Now(h, T))')
    PROVE  WireInv'
<1>1. /\ Elems(wire') = Elems(wire) \cup Elems(t) \cup {Signal("done")}
      /\ Followed' /\ FreshConfig'
      /\ \A g, a, b, c : \A T \in Tells :
            /\ Tell(wire, g, T, a, b) \/ \E e \in Elems(t) : Sets(e, g, T)
            /\ Tell(t, g, T, b, c)
            => Tell(wire', g, T, a, c)
  BY Announced
<1>2. UNCHANGED <<heads, hd, delta>> /\ Signal("done").type \notin HeadEventTypes /\ Signal("done").type # "finished"
  BY SignalType DEF displVars, HeadEventTypes, ModeEventTypes
<1>3. Mirror'
  <2>1. ASSUME NEW g \in Heads, NEW T \in Tells, T \in {"present", "enabled"} \/ told'[g].enabled
        PROVE  Tell(wire', g, T, (Cur(g, T))', (Now(g, T))')
    <3>1. (Cur(g, T))' = Cur(g, T)
      BY <1>2 DEF Cur
    <3>2. CASE g = h
      BY <2>1, <3>1, <3>2
    <3>3. CASE g # h
      <4>1. (Now(g, T))' = Now(g, T) /\ told'[g] = told[g]
        BY <3>3 DEF Now
      <4>2. Tell(wire, g, T, Cur(g, T), Now(g, T))
        BY <2>1, <4>1 DEF WireInv, Mirror
      <4>3. \A e \in Elems(t) : ~Sets(e, g, T)
        BY <3>3 DEF Sets
      <4>4. Tell(t, g, T, Now(g, T), Now(g, T))
        BY <4>3, TellNothing
      <4>5. Tell(wire', g, T, Cur(g, T), Now(g, T))
        <5>1. PICK a, b : a = Cur(g, T) /\ b = Now(g, T)
          OBVIOUS
        <5>2. Tell(wire, g, T, a, b) /\ Tell(t, g, T, b, b)
          BY <4>2, <4>4, <5>1
        <5>3. Tell(wire', g, T, a, b)
          BY <1>1, <5>2
        <5>4. QED
          BY <5>1, <5>3
      <4>6. QED
        BY <3>1, <4>1, <4>5
    <3>4. QED
      BY <3>2, <3>3
  <2>2. QED
    BY <2>1 DEF Mirror
<1>4. Known'
  BY <1>1, <1>2 DEF WireInv, Known
<1>5. Gone'
  BY <1>1, <1>2 DEF WireInv, Known, Gone, HeadEventTypes
<1>6. DeltaLive' /\ Dark'
  BY <1>2 DEF WireInv, DeltaLive, Dark
<1>7. QED
  BY <1>1, <1>3, <1>4, <1>5, <1>6 DEF WireInv

(* The state of a head that is plugged in.                                 *)
PlugState(h, on) == [ZeroState EXCEPT !.zmode = IF Offer[h] = <<>> THEN NULL ELSE Offer[h][1],
                                      !.enabled = on /\ Offer[h] # <<>>]

(* A head that is plugged in is new, and is announced with the state it    *)
(* has.                                                                    *)
LEMMA PlugFacts ==
    ASSUME NEW h \in Heads, NEW on \in BOOLEAN, Plug(h, on)
    PROVE  /\ PlugState(h, on) \in HeadStates /\ Announce(PlugEvents(h, PlugState(h, on)))
           /\ h \notin used /\ screen' = [screen EXCEPT ![h] = PlugState(h, on)]
           /\ told' = [told EXCEPT ![h] = PlugState(h, on)]
           /\ plugged' = plugged \cup {h} /\ used' = used \cup {h} /\ offer' = offer
<1>1. PlugState(h, on) \in HeadStates
  <2>1. Offer[h] \in Seq(Modes)
    BY CompositorAssumption
  <2>2. (IF Offer[h] = <<>> THEN NULL ELSE Offer[h][1]) \in Modes \cup {NULL}
    BY <2>1
  <2>3. \A m \in Modes \cup {NULL}, b \in BOOLEAN :
           [ZeroState EXCEPT !.zmode = m, !.enabled = b] \in HeadStates
    BY ZeroStateType DEF HeadStates
  <2>4. (on /\ Offer[h] # <<>>) \in BOOLEAN
    OBVIOUS
  <2>5. QED
    BY <2>2, <2>3, <2>4 DEF PlugState
<1>2. QED
  BY <1>1 DEF Plug, PlugState, PlugEvents

(* Displays that arrive and depart.                                        *)
LEMMA PluggingWire ==
    ASSUME IInv, WireInv, Plugging, UNCHANGED displVars
    PROVE  WireInv'
<1>1. told \in [Heads -> HeadStates] /\ plugged \subseteq used /\ used \subseteq Heads
  BY DEF IInv, TypeOK, CompositorTypeOK
<1>2. ASSUME NEW h \in Heads, NEW on \in BOOLEAN, Plug(h, on)
      PROVE  WireInv'
  <2>1. PICK s \in HeadStates : s = PlugState(h, on)
    BY <1>2, PlugFacts
  <2>2. /\ Announce(PlugEvents(h, s)) /\ h \notin used /\ told' = [told EXCEPT ![h] = s]
        /\ plugged' = plugged \cup {h} /\ used' = used \cup {h}
    BY <1>2, <2>1, PlugFacts
  <2>3. PICK t : t = PlugEvents(h, s)
    OBVIOUS
  <2>4. /\ t \in Seq(Events)
        /\ \A e \in Elems(t) : e.head = h /\ e.type \in HeadEventTypes \ {"finished", "mode_finished"}
        /\ \A T \in Tells :
              /\ \E e \in Elems(t) : Sets(e, h, T)
              /\ T \in {"present", "enabled"} \/ s.enabled =>
                    \A a : Tell(t, h, T, a, IF T = "present" THEN TRUE ELSE Field(T, s))
    BY <2>3, PlugTells
  <2>5. ASSUME NEW T \in Tells, T \in {"present", "enabled"} \/ told'[h].enabled
        PROVE  Tell(wire', h, T, Cur(h, T), (Now(h, T))')
    <3>1. told'[h] = s /\ h \in plugged'
      BY <1>1, <2>2
    <3>2. (Now(h, T))' = IF T = "present" THEN TRUE ELSE Field(T, s)
      BY <3>1 DEF Now
    <3>3. \A b : Tell(t, h, T, b, (Now(h, T))')
      BY <2>4, <2>5, <3>1, <3>2
    <3>4. PICK a, b : a = Cur(h, T) /\ b = (Now(h, T))'
      OBVIOUS
    <3>5. Tell(t, h, T, b, b) /\ \E e \in Elems(t) : Sets(e, h, T)
      BY <2>4, <3>3, <3>4
    <3>6. Tell(wire', h, T, a, b)
      BY <2>2, <2>3, <2>4, <3>5, Announced
    <3>7. QED
      BY <3>4, <3>6
  <2>6. Announce(t)
    BY <2>2, <2>3
  <2>7. /\ \A e \in Elems(t) : e.head = h /\ e.type \in HeadEventTypes /\ (e.type = "finished" => h \notin plugged')
        /\ plugged' \ {h} = plugged \ {h} /\ (h \in plugged' => h \in plugged \/ h \notin used)
        /\ \A g \in Heads : g # h => told'[g] = told[g]
        /\ (h \notin plugged' => ~told'[h].enabled)
    BY <1>1, <2>2, <2>4
  <2>8. QED
    BY <2>2, <2>4, <2>5, <2>6, <2>7, AnnounceWire
<1>3. ASSUME NEW h \in Heads, Unplug(h)
      PROVE  WireInv'
  <2> DEFINE fin == Event("finished", h, ZeroState)
             M == ModeEvents("mode_finished", h)
             t == M \o <<fin>>
  <2>1. /\ Announce(t) /\ h \in plugged /\ told' = [told EXCEPT ![h] = ZeroState]
        /\ plugged' = plugged \ {h} /\ used' = used
    BY <1>3 DEF Unplug
  <2>2. fin \in Events /\ fin.head = h /\ fin.type = "finished"
    <3>1. "finished" \in HeadEventTypes \ ModeEventTypes
      BY DEF HeadEventTypes, ModeEventTypes
    <3>2. QED
      BY <3>1, ZeroStateType, EventType DEF Event
  <2>3. M \in Seq(Events) /\ \A e \in Elems(M) : e.head = h /\ e.type = "mode_finished"
    BY ModeEventsElems DEF ModeEventTypes
  <2> HIDE DEF fin, M
  <2>4. t \in Seq(Events) /\ <<fin>> \in Seq(Events) /\ Elems(t) = Elems(M) \cup {fin}
    <3>1. t \in Seq(Events) /\ <<fin>> \in Seq(Events)
      BY <2>2, <2>3, ConcatOne
    <3>2. Elems(t) = Elems(M) \cup Elems(<<fin>>)
      BY <2>3, <3>1, ElemsConcat
    <3>3. QED
      BY <3>1, <3>2, ElemsOne
  <2>5. \A T \in Tells : Sets(fin, h, T) /\ Val(fin, T) = IF T = "present" THEN FALSE ELSE Field(T, ZeroState)
    BY <2>2 DEF Sets, Val, Tells
  <2>6. ASSUME NEW T \in Tells, NEW b
        PROVE  Tell(t, h, T, b, Val(fin, T))
    <3>1. \A e \in Elems(M) : ~Sets(e, h, T)
      BY <2>3 DEF Sets, Tells
    <3>2. Tell(M, h, T, b, b)
      BY <3>1, TellNothing
    <3>3. Tell(<<fin>>, h, T, b, Val(fin, T))
      BY <2>5, TellOne
    <3>4. QED
      BY <2>3, <2>4, <3>2, <3>3, TellConcat
  <2> HIDE DEF t
  <2>7. ASSUME NEW T \in Tells
        PROVE  Tell(wire', h, T, Cur(h, T), (Now(h, T))')
    <3>1. told'[h] = ZeroState /\ h \notin plugged'
      BY <1>1, <2>1
    <3>2. (Now(h, T))' = IF T = "present" THEN FALSE ELSE Field(T, ZeroState)
      <4>1. (h \in plugged') = FALSE
        BY <3>1
      <4>2. CASE T = "present"
        BY <4>1, <4>2, Zenon DEF Now
      <4>3. CASE T # "present"
        BY <3>1, <4>3 DEF Now
      <4>4. QED
        BY <4>2, <4>3
    <3>3. (Now(h, T))' = Val(fin, T)
      BY <2>5, <3>2
    <3>4. \E e \in Elems(t) : Sets(e, h, T)
      BY <2>4, <2>5
    <3>5. PICK a, b : a = Cur(h, T) /\ b = Val(fin, T)
      OBVIOUS
    <3>6. Tell(t, h, T, b, b)
      BY <2>6, <3>5
    <3>7. Tell(wire', h, T, a, b)
      BY <2>1, <2>4, <3>4, <3>6, Announced
    <3>8. QED
      BY <3>3, <3>5, <3>7
  <2>8. /\ \A e \in Elems(t) : e.head = h /\ e.type \in HeadEventTypes /\ (e.type = "finished" => h \notin plugged')
        /\ plugged' \ {h} = plugged \ {h} /\ (h \in plugged' => h \in plugged \/ h \notin used)
        /\ \A g \in Heads : g # h => told'[g] = told[g]
        /\ used' = used \cup {h}
    BY <1>1, <2>1, <2>2, <2>3, <2>4 DEF HeadEventTypes, ModeEventTypes
  <2>9. ~told'[h].enabled
    BY <1>1, <2>1 DEF ZeroState
  <2>10. QED
    BY <2>1, <2>4, <2>7, <2>8, <2>9, AnnounceWire
<1>4. QED
  BY <1>2, <1>3 DEF Plugging

(* Withdrawn modes, other clients and reports.                             *)
LEMMA ChangesWire ==
    ASSUME IInv, WireInv, Changes \/ Reporting, UNCHANGED displVars
    PROVE  WireInv'
<1>1. /\ told \in [Heads -> HeadStates] /\ screen \in [Heads -> HeadStates] /\ plugged \subseteq used
      /\ used \subseteq Heads /\ offer \in [Heads -> Seq(Modes)]
  BY DEF IInv, TypeOK, CompositorTypeOK
<1>2. ASSUME NEW h \in Heads, FinishMode(h)
      PROVE  WireInv'
  <2> DEFINE n == Len(offer[h])
             e == ModeEvent("mode_finished", h, offer[h][n])
  <2>1. n > 1 /\ Announce(<<e>>) /\ h \in plugged /\ UNCHANGED <<told, plugged, used>>
    BY <1>2 DEF FinishMode
  <2>2. offer[h][n] \in Modes
    BY <1>1, <2>1
  <2>3. e \in Events /\ e.head = h /\ e.type = "mode_finished"
    BY <2>2, ModeEventType DEF ModeEventTypes, ModeEvent, Event
  <2> HIDE DEF e, n
  <2>4. PICK t \in Seq(Events) : t = <<e>> /\ Elems(t) = {e}
    <3>1. <<e>> \in Seq(Events)
      BY <2>3
    <3>2. Elems(<<e>>) = {e}
      BY ElemsOne
    <3>3. QED
      BY <3>1, <3>2
  <2>5. ASSUME NEW T \in Tells, T \in {"present", "enabled"} \/ told'[h].enabled
        PROVE  Tell(wire', h, T, Cur(h, T), (Now(h, T))')
    <3>1. PICK a, b : a = Cur(h, T) /\ b = Now(h, T)
      OBVIOUS
    <3>2. Tell(wire, h, T, a, b)
      BY <2>1, <2>5, <3>1 DEF WireInv, Mirror
    <3>3. Tell(t, h, T, b, b)
      <4>1. ~Sets(e, h, T)
        BY <2>3 DEF Sets, Tells
      <4>2. QED
        BY <2>4, <4>1, TellNothing
    <3>4. Tell(wire', h, T, a, b)
      BY <2>1, <2>4, <3>2, <3>3, Announced
    <3>5. (Now(h, T))' = Now(h, T)
      BY <2>1 DEF Now
    <3>6. QED
      BY <3>1, <3>4, <3>5
  <2>6. Announce(t)
    BY <2>1, <2>4
  <2>7. /\ \A x \in Elems(t) : x.head = h /\ x.type \in HeadEventTypes /\ (x.type = "finished" => h \notin plugged')
        /\ plugged' \ {h} = plugged \ {h} /\ (h \in plugged' => h \in plugged \/ h \notin used)
        /\ \A g \in Heads : g # h => told'[g] = told[g]
        /\ used' = used \cup {h} /\ (h \notin plugged' => ~told'[h].enabled)
    BY <1>1, <2>1, <2>3, <2>4 DEF HeadEventTypes, ModeEventTypes
  <2>8. QED
    BY <2>5, <2>6, <2>7, AnnounceWire
<1>3. ASSUME NEW h \in Heads, Report(h)
      PROVE  WireInv'
  <2>1. PICK from \in HeadStates, to \in HeadStates : from = told[h] /\ to = screen[h]
    BY <1>1
  <2>2. PICK t : t = Describe(h, from, to)
    OBVIOUS
  <2>3. Announce(t) /\ h \in plugged /\ told' = [told EXCEPT ![h] = to] /\ UNCHANGED <<plugged, used>>
    BY <1>3, <2>1, <2>2 DEF Report
  <2>4. /\ t \in Seq(Events)
        /\ \A e \in Elems(t) : /\ e.head = h /\ e.state = to
                               /\ e.type \in {"enabled", "current_mode", "geometry", "adaptive_sync"}
        /\ Tell(t, h, "enabled", from.enabled, to.enabled)
        /\ to.enabled => \A T \in {"geometry", "adaptive_sync"} :
              /\ from.enabled => Tell(t, h, T, Field(T, from), Field(T, to))
              /\ ~from.enabled => /\ \A a : Tell(t, h, T, a, Field(T, to))
                                  /\ \E e \in Elems(t) : Sets(e, h, T)
    BY <2>2, DescribeTells
  <2>5. told'[h] = to /\ h \in plugged'
    BY <1>1, <2>3
  <2>6. ASSUME NEW T \in Tells, T \in {"present", "enabled"} \/ told'[h].enabled
        PROVE  Tell(wire', h, T, Cur(h, T), (Now(h, T))')
    <3>1. PICK a, b, c : a = Cur(h, T) /\ b = Now(h, T) /\ c = (Now(h, T))'
      OBVIOUS
    <3>2. T \in {"present", "enabled"} \/ from.enabled => Tell(wire, h, T, a, b)
      BY <2>1, <2>6, <3>1 DEF WireInv, Mirror
    <3>3. (Tell(wire, h, T, a, b) \/ \E e \in Elems(t) : Sets(e, h, T)) /\ Tell(t, h, T, b, c)
      <4>1. CASE T = "present"
        <5>1. \A e \in Elems(t) : ~Sets(e, h, T)
          BY <2>4, <4>1 DEF Sets
        <5>2. b = c
          BY <2>3, <3>1, <4>1 DEF Now
        <5>3. QED
          BY <3>2, <4>1, <5>1, <5>2, TellNothing
      <4>2. CASE T = "enabled"
        <5>1. b = from.enabled /\ c = to.enabled
          BY <2>1, <2>5, <3>1, <4>2 DEF Now, Field
        <5>2. QED
          BY <2>4, <3>2, <4>2, <5>1
      <4>3. CASE T \in {"geometry", "adaptive_sync"}
        <5>1. b = Field(T, from) /\ c = Field(T, to) /\ to.enabled
          BY <2>1, <2>5, <2>6, <3>1, <4>3 DEF Now
        <5>2. CASE from.enabled
          BY <2>4, <3>2, <4>3, <5>1, <5>2
        <5>3. CASE ~from.enabled
          BY <2>4, <4>3, <5>1, <5>3
        <5>4. QED
          BY <5>2, <5>3
      <4>4. QED
        BY <4>1, <4>2, <4>3 DEF Tells
    <3>4. Tell(wire', h, T, a, c)
      BY <2>3, <2>4, <3>3, Announced
    <3>5. QED
      BY <3>1, <3>4
  <2>7. /\ \A x \in Elems(t) : x.head = h /\ x.type \in HeadEventTypes /\ (x.type = "finished" => h \notin plugged')
        /\ plugged' \ {h} = plugged \ {h} /\ (h \in plugged' => h \in plugged \/ h \notin used)
        /\ \A g \in Heads : g # h => told'[g] = told[g]
        /\ used' = used \cup {h} /\ (h \notin plugged' => ~told'[h].enabled)
    BY <1>1, <2>3, <2>4, <2>5 DEF HeadEventTypes
  <2>8. QED
    BY <2>3, <2>4, <2>6, <2>7, AnnounceWire
<1>4. ASSUME NEW h \in Heads, NEW m \in Modes, OtherClient(h, m)
      PROVE  WireInv'
  <2>1. UNCHANGED <<told, plugged, used, wire, config, heads, hd, delta>>
    BY <1>4 DEF OtherClient, displVars
  <2>2. Mirror'
    BY <2>1 DEF WireInv, Mirror, Cur, Now
  <2>3. QED
    BY <2>1, <2>2 DEF WireInv, Followed, FreshConfig, Known, Gone, DeltaLive, Dark, DonePending
<1>5. QED
  BY <1>2, <1>3, <1>4 DEF Changes, Reporting

(* The compositor answers a configuration.                                 *)
LEMMA AnswerWire ==
    ASSUME IInv, WireInv, NEW type \in Answers, Answer(type), UNCHANGED displVars
    PROVE  WireInv' /\ Elems(wire') = Elems(wire) \cup {Signal(type)}
<1>1. /\ wire \in Seq(Events) /\ wire' = wire \o <<Signal(type)>> /\ config' = NoConfig
      /\ UNCHANGED <<told, plugged, used, heads, hd, delta>>
  BY DEF IInv, TypeOK, Answer, Send, compositorVars, displVars
<1>2. PICK e \in Events : e = Signal(type) /\ e.type = type
  BY SignalType
<1>3. PICK t \in Seq(Events) : t = <<e>> /\ Elems(t) = {e}
  <2>1. <<e>> \in Seq(Events)
    BY <1>2
  <2>2. Elems(<<e>>) = {e}
    BY ElemsOne
  <2>3. QED
    BY <2>1, <2>2
<1>4. wire' = wire \o t
  BY <1>1, <1>2, <1>3
<1>5. Elems(wire') = Elems(wire) \cup {e}
  BY <1>1, <1>3, <1>4, ElemsConcat
<1>6. Mirror'
  <2>1. ASSUME NEW h \in Heads, NEW T \in Tells, T \in {"present", "enabled"} \/ told[h].enabled
        PROVE  Tell(wire', h, T, (Cur(h, T))', (Now(h, T))')
    <3>1. PICK a, b : a = Cur(h, T) /\ b = Now(h, T)
      OBVIOUS
    <3>2. Tell(wire, h, T, a, b)
      BY <2>1, <3>1 DEF WireInv, Mirror
    <3>3. Tell(t, h, T, b, b)
      <4>1. ~Sets(e, h, T)
        BY <1>2 DEF Sets, Tells, Answers
      <4>2. QED
        BY <1>3, <4>1, TellNothing
    <3>4. Tell(wire', h, T, a, b)
      BY <1>1, <1>4, <3>2, <3>3, TellConcat
    <3>5. (Now(h, T))' = Now(h, T) /\ (Cur(h, T))' = Cur(h, T)
      BY <1>1 DEF Now, Cur
    <3>6. QED
      BY <3>1, <3>4, <3>5
  <2>2. QED
    BY <1>1, <2>1 DEF Mirror
<1>7. type \notin HeadEventTypes /\ type # "finished"
  BY DEF Answers, HeadEventTypes, ModeEventTypes
<1>8. Followed'
  <2>1. /\ Len(wire') = Len(wire) + 1 /\ Len(wire) \in Nat /\ wire'[Len(wire) + 1] = e
        /\ \A i \in 1..Len(wire) : wire'[i] = wire[i] /\ i \in 1..Len(wire')
        /\ \A i \in 1..Len(wire') : i \in 1..Len(wire) \/ i = Len(wire) + 1
    BY <1>1, <1>3, <1>4
  <2>2. QED
    BY <1>2, <1>7, <2>1 DEF WireInv, Followed
<1>9. FreshConfig'
  BY <1>1 DEF FreshConfig, NoConfig
<1>10. Known' /\ Gone' /\ DeltaLive' /\ Dark'
  BY <1>1, <1>2, <1>5, <1>7 DEF WireInv, Known, Gone, DeltaLive, Dark
<1>11. QED
  BY <1>2, <1>5, <1>6, <1>8, <1>9, <1>10 DEF WireInv

(* What an applied configuration does to the screens.                      *)
LEMMA ApplyScreens ==
    ASSUME IInv, Apply
    PROVE  /\ config.status = "sent" /\ ~config.stale /\ UNCHANGED <<wire, plugged, used, offer>>
           /\ config' = [config EXCEPT !.status = "applied"] /\ config'.status = "applied"
           /\ \A h \in Heads : \A T \in Tells \ {"present"} : Field(T, told'[h]) = Field(T, told[h])
           /\ \A h \in Heads :
                 screen'[h].zmode = IF h \in config.on /\ config.kind = "MODE"
                                    THEN config.want[h].zmode ELSE screen[h].zmode
<1>1. /\ config.status = "sent" /\ ~config.stale /\ UNCHANGED <<wire, plugged, used, offer>>
      /\ config' = [config EXCEPT !.status = "applied"]
  BY DEF Apply
<1>2. /\ config \in Configs /\ screen \in [Heads -> HeadStates] /\ told \in [Heads -> HeadStates]
  BY DEF IInv, TypeOK, CompositorTypeOK
<1>3. PICK round \in BOOLEAN, ignore \in BOOLEAN, silent \in BOOLEAN :
            /\ screen' = [h \in Heads |-> Configured(h, round, ignore)]
            /\ told' = IF silent
                       THEN [h \in Heads |-> IF h \in config.on
                                             THEN [told[h] EXCEPT !.zmode = config.want[h].zmode]
                                             ELSE told[h]]
                       ELSE told
  BY DEF Apply
<1>4. \A h \in Heads : \A T \in Tells \ {"present"} : Field(T, told'[h]) = Field(T, told[h])
  BY <1>2, <1>3 DEF Field, HeadStates
<1>5. ASSUME NEW h \in Heads
      PROVE  screen'[h].zmode = IF h \in config.on /\ config.kind = "MODE"
                                THEN config.want[h].zmode ELSE screen[h].zmode
  <2>1. PICK s, w : s = screen[h] /\ w = config.want[h]
    OBVIOUS
  <2>2. screen'[h] = Configured(h, round, ignore) /\ s \in HeadStates
    BY <1>2, <1>3, <2>1
  <2>3. CASE h \in config.off \ config.on
    BY <2>1, <2>2, <2>3 DEF Configured, HeadStates
  <2>4. CASE h \in config.on /\ config.kind = "MODE"
    BY <2>1, <2>2, <2>4 DEF Configured, HeadStates
  <2>5. CASE h \in config.on /\ config.kind = "VRR"
    BY <2>1, <2>2, <2>5 DEF Configured, HeadStates
  <2>6. CASE h \in config.on /\ config.kind = "OTHER"
    BY <2>1, <2>2, <2>6 DEF Configured, HeadStates
  <2>7. CASE h \notin config.off \cup config.on \/ (h \in config.on /\ config.kind = "REAPPLY")
    BY <2>1, <2>2, <2>7 DEF Configured
  <2>8. QED
    BY <1>2, <2>3, <2>4, <2>5, <2>6, <2>7 DEF Configs, Kinds
<1>6. QED
  BY <1>1, <1>2, <1>4, <1>5 DEF Configs

(* The view of the server stays right when the compositor applies, refuses *)
(* or cancels a configuration.                                             *)
LEMMA DecideWire ==
    ASSUME IInv, WireInv, Decide \/ Refusal, UNCHANGED displVars
    PROVE  WireInv'
<1>1. CASE Apply
  <2>1. /\ UNCHANGED <<wire, plugged, used, heads, hd, delta>> /\ config'.status = "applied"
        /\ \A h \in Heads : \A T \in Tells \ {"present"} : Field(T, told'[h]) = Field(T, told[h])
    BY <1>1, ApplyScreens DEF displVars
  <2>2. \A h \in Heads : told'[h].enabled = told[h].enabled
    BY <2>1 DEF Field, Tells
  <2>3. \A h \in Heads, T \in Tells : (Cur(h, T))' = Cur(h, T) /\ (Now(h, T))' = Now(h, T)
    BY <2>1 DEF Cur, Now
  <2>4. Mirror'
    BY <2>1, <2>2, <2>3 DEF WireInv, Mirror
  <2>5. QED
    BY <2>1, <2>2, <2>4 DEF WireInv, Followed, FreshConfig, Known, Gone, DeltaLive, Dark
<1>2. CASE Succeed \/ Cancel \/ Refuse
  <2>1. PICK type \in Answers : Answer(type)
    BY <1>2 DEF Succeed, Cancel, Refuse, Answers
  <2>2. QED
    BY <2>1, AnswerWire
<1>3. QED
  BY <1>1, <1>2 DEF Decide, Refusal

(* The view of the server stays right in every step.                       *)
LEMMA WireNext == IInv /\ WireInv /\ [Next]_vars => WireInv'
<1> SUFFICES ASSUME IInv, WireInv, [Next]_vars PROVE WireInv'
  OBVIOUS
<1>1. CASE UNCHANGED vars
  <2>1. UNCHANGED <<wire, config, told, plugged, used, heads, hd, delta>>
    BY <1>1 DEF vars, displVars, compositorVars
  <2>2. Mirror'
    BY <2>1 DEF WireInv, Mirror, Cur, Now
  <2>3. QED
    BY <2>1, <2>2 DEF WireInv, Followed, FreshConfig, Known, Gone, DeltaLive, Dark, DonePending
<1>2. CASE (Listen \/ act \/ Inputs) /\ UNCHANGED <<compositorVars, refused>>
  BY <1>2, ListenWire, ServerWire
<1>3. CASE Reapply /\ UNCHANGED compositorVars
  BY <1>3, ServerWire
<1>4. CASE (Plugging \/ Changes \/ Reporting \/ Decide) /\ UNCHANGED <<displVars, refused>>
  BY <1>4, PluggingWire, ChangesWire, DecideWire
<1>5. CASE Refusal /\ UNCHANGED displVars
  BY <1>5, DecideWire
<1>6. QED
  BY <1>1, <1>2, <1>3, <1>4, <1>5 DEF Next

(* The server's view of the displays is never wrong by more than what is   *)
(* still queued: once the queue is empty, every head that is plugged in is *)
(* known, and known to be enabled, placed, scaled and synchronised as the  *)
(* compositor said, whatever the interleaving of announcements, answers,   *)
(* unplugging and requests.                                                *)
THEOREM MirrorAlways == Spec => []WireInv
<1>1. Init => WireInv
  <2> SUFFICES ASSUME Init PROVE WireInv
    OBVIOUS
  <2>1. /\ wire = <<>> /\ heads = {} /\ hd = [h \in Heads |-> head_init] /\ delta = NoDelta
        /\ config = NoConfig /\ told = [h \in Heads |-> ZeroState] /\ plugged = {} /\ used = {}
    BY DEF Init, DisplInit, CompositorInit
  <2>2. Elems(wire) = {}
    BY <2>1 DEF Elems
  <2>3. \A h \in Heads : told[h] = ZeroState /\ hd[h].cur = ZeroState /\ ~told[h].enabled
    BY <2>1 DEF head_init, ZeroState
  <2>4. Mirror
    <3>1. \A h \in Heads, T \in Tells : Cur(h, T) = Now(h, T)
      BY <2>1, <2>3 DEF Cur, Now
    <3>2. QED
      BY <2>2, <3>1, TellNothing DEF Mirror
  <2>5. QED
    BY <2>1, <2>2, <2>3, <2>4
       DEF WireInv, Followed, FreshConfig, Known, Gone, DeltaLive, Dark, NoDelta, NoConfig
<1>2. QED
  BY <1>1, WireNext, Invariance, PTL DEF Spec
=============================================================================
