---------------------------- MODULE ScreenProofs ----------------------------
(***************************************************************************)
(* What the mirror of MirrorProofs is worth: when nothing is left to do,   *)
(* the screens show what is desired; a configuration that takes effect     *)
(* names what exists; a refused mode is not asked for again.               *)
(***************************************************************************)
EXTENDS MirrorProofs

(* The modes of a head that are not finished.                              *)
Offers(h, m) == \E i \in 1..Len(offer[h]) : offer[h][i] = m

(* The compositor announces the events t about the head h.                 *)
Announces(h, t) ==
    /\ t \in Seq(Events)
    /\ Elems(wire') = Elems(wire) \cup Elems(t) \cup {Signal("done")}
    /\ \E s : wire' = wire \o (t \o <<s>>) /\ s = Signal("done")
    /\ config'.status = config.status /\ (config'.status = "sent" => config'.stale)
    /\ used' = used \cup {h} /\ plugged' \ {h} = plugged \ {h}
    /\ h \in plugged' => h \in plugged \/ h \notin used
    /\ h \in plugged' => screen'[h].zmode = screen[h].zmode \/ h \notin used
    /\ \A g \in Heads \ {h} : screen'[g] = screen[g] /\ offer'[g] = offer[g]
    /\ \A m \in Modes : Offers(h, m) =>
          \/ (Offers(h, m))'
          \/ /\ "mode_finished" \in Scenario
             /\ \E e \in Elems(t) : e.type = "mode_finished" /\ e.state.zmode = m
    /\ \A e \in Elems(t) :
          /\ e.head = h /\ e.type \in HeadEventTypes
          /\ e.type = "current_mode" => e.state = screen'[h]
          /\ e.type \in {"mode", "head"} => h \notin used
          /\ e.type = "mode" => (Offers(h, e.state.zmode))'
          /\ e.type = "mode_finished" => h \in used

(* Every announcement of the compositor is one of these.                   *)
LEMMA CompositorAnnounces ==
    ASSUME IInv, Plugging \/ Changes \/ Reporting
    PROVE  \/ \E h \in Heads, t \in Seq(Events) : Announces(h, t)
           \/ "other_client" \in Scenario /\ UNCHANGED <<told, offer, plugged, used, wire, config>>
<1>1. /\ told \in [Heads -> HeadStates] /\ screen \in [Heads -> HeadStates] /\ plugged \subseteq used
      /\ used \subseteq Heads /\ offer \in [Heads -> Seq(Modes)] /\ config \in Configs
  BY DEF IInv, TypeOK, CompositorTypeOK
<1>2. ASSUME NEW t \in Seq(Events), Announce(t)
      PROVE  /\ Elems(wire') = Elems(wire) \cup Elems(t) \cup {Signal("done")}
             /\ \E s : wire' = wire \o (t \o <<s>>) /\ s = Signal("done")
             /\ config'.status = config.status /\ (config'.status = "sent" => config'.stale)
  <2>1. Elems(wire') = Elems(wire) \cup Elems(t) \cup {Signal("done")}
    BY <1>2, Announced
  <2>2. config' = Outdated /\ wire' = wire \o (t \o <<Signal("done")>>)
    BY <1>2 DEF Announce, Send
  <2>3. QED
    BY <1>1, <2>1, <2>2 DEF Outdated, Configs
<1>3. ASSUME NEW h \in Heads, NEW on \in BOOLEAN, Plug(h, on)
      PROVE  \E t \in Seq(Events) : Announces(h, t)
  <2>1. PICK s \in HeadStates : s = PlugState(h, on)
    BY <1>3, PlugFacts
  <2>2. /\ Announce(PlugEvents(h, s)) /\ h \notin used /\ screen' = [screen EXCEPT ![h] = s]
        /\ plugged' = plugged \cup {h} /\ used' = used \cup {h} /\ offer' = offer
    BY <1>3, <2>1, PlugFacts
  <2>3. PICK t : t = PlugEvents(h, s)
    OBVIOUS
  <2>4. /\ t \in Seq(Events)
        /\ \A e \in Elems(t) :
              /\ e.head = h /\ e.type \in HeadEventTypes \ {"finished", "mode_finished"}
              /\ e.type = "current_mode" => e.state = s
              /\ e.type = "mode" => Offers(h, e.state.zmode)
    <3>1. /\ PlugEvents(h, s) \in Seq(Events)
          /\ \A e \in Elems(PlugEvents(h, s)) :
                /\ e.head = h
                /\ e.type \in HeadEventTypes \ {"finished", "mode_finished"}
                /\ e.type = "current_mode" => e.state = s
                /\ e.type = "mode" => \E i \in 1..Len(offer[h]) : offer[h][i] = e.state.zmode
      BY PlugTells, Zenon
    <3>2. QED
      BY <2>3, <3>1, Zenon DEF Offers
  <2>5. Announce(t) /\ screen'[h] = s /\ \A g \in Heads \ {h} : screen'[g] = screen[g]
    BY <1>1, <2>2, <2>3
  <2>6. \A m : (Offers(h, m))' <=> Offers(h, m)
    BY <2>2 DEF Offers
  <2>7. \A e \in Elems(t) :
          /\ e.head = h /\ e.type \in HeadEventTypes
          /\ e.type = "current_mode" => e.state = screen'[h]
          /\ e.type \in {"mode", "head"} => h \notin used
          /\ e.type = "mode" => (Offers(h, e.state.zmode))'
          /\ e.type = "mode_finished" => h \in used
    BY <2>2, <2>4, <2>5, <2>6
  <2>8. QED
    BY <1>2, <2>2, <2>4, <2>5, <2>6, <2>7 DEF Announces
<1>4. ASSUME NEW h \in Heads, Unplug(h)
      PROVE  \E t \in Seq(Events) : Announces(h, t)
  <2> DEFINE fin == Event("finished", h, ZeroState)
             M == ModeEvents("mode_finished", h)
             t == M \o <<fin>>
  <2>1. /\ Announce(t) /\ h \in plugged /\ screen' = [screen EXCEPT ![h] = ZeroState]
        /\ plugged' = plugged \ {h} /\ used' = used /\ offer' = offer
    BY <1>4 DEF Unplug
  <2>2. fin \in Events /\ fin.head = h /\ fin.type = "finished"
    <3>1. "finished" \in HeadEventTypes \ ModeEventTypes
      BY DEF HeadEventTypes, ModeEventTypes
    <3>2. QED
      BY <3>1, ZeroStateType, EventType DEF Event
  <2>3. M \in Seq(Events) /\ \A e \in Elems(M) : e.head = h /\ e.type = "mode_finished"
    BY ModeEventsElems DEF ModeEventTypes
  <2> HIDE DEF fin, M
  <2>4. t \in Seq(Events) /\ Elems(t) = Elems(M) \cup {fin}
    <3>1. t \in Seq(Events) /\ <<fin>> \in Seq(Events)
      BY <2>2, <2>3, ConcatOne
    <3>2. Elems(t) = Elems(M) \cup Elems(<<fin>>)
      BY <2>3, <3>1, ElemsConcat
    <3>3. QED
      BY <3>1, <3>2, ElemsOne
  <2> HIDE DEF t
  <2>5. h \in used /\ used' = used \cup {h} /\ h \notin plugged' /\ plugged' \ {h} = plugged \ {h}
        /\ \A g \in Heads \ {h} : screen'[g] = screen[g] /\ offer'[g] = offer[g]
    BY <1>1, <2>1
  <2>6. \A m : Offers(h, m) => (Offers(h, m))'
    BY <2>1 DEF Offers
  <2>7. \A e \in Elems(t) :
          /\ e.head = h /\ e.type \in HeadEventTypes
          /\ e.type = "current_mode" => e.state = screen'[h]
          /\ e.type \in {"mode", "head"} => h \notin used
          /\ e.type = "mode" => (Offers(h, e.state.zmode))'
          /\ e.type = "mode_finished" => h \in used
    BY <2>2, <2>3, <2>4, <2>5 DEF HeadEventTypes, ModeEventTypes
  <2>8. QED
    BY <1>2, <2>1, <2>4, <2>5, <2>6, <2>7 DEF Announces
<1>5. ASSUME NEW h \in Heads, FinishMode(h)
      PROVE  \E t \in Seq(Events) : Announces(h, t)
  <2>1. PICK s \in Seq(Modes), n \in Nat : s = offer[h] /\ n = Len(s)
    BY <1>1
  <2> DEFINE e == ModeEvent("mode_finished", h, s[n])
  <2>2. /\ n > 1 /\ Announce(<<e>>) /\ h \in plugged /\ UNCHANGED <<screen, told, plugged, used>>
        /\ offer' = [offer EXCEPT ![h] = [i \in 1..(n - 1) |-> s[i]]] /\ "mode_finished" \in Scenario
    BY <1>5, <2>1 DEF FinishMode
  <2>3. s[n] \in Modes
    BY <2>1, <2>2
  <2>4. e \in Events /\ e.head = h /\ e.type = "mode_finished" /\ e.state.zmode = s[n]
    BY <2>3, ModeEventType DEF ModeEventTypes, ModeEvent, Event, ZeroState
  <2> HIDE DEF e
  <2>5. PICK t \in Seq(Events) : t = <<e>> /\ Elems(t) = {e}
    <3>1. <<e>> \in Seq(Events)
      BY <2>4
    <3>2. Elems(<<e>>) = {e}
      BY ElemsOne
    <3>3. QED
      BY <3>1, <3>2
  <2>6. offer'[h] = [i \in 1..(n - 1) |-> s[i]] /\ \A g \in Heads \ {h} : offer'[g] = offer[g]
    BY <1>1, <2>2
  <2>7. Len(offer'[h]) = n - 1 /\ \A i \in 1..(n - 1) : offer'[h][i] = s[i]
    BY <2>1, <2>2, <2>6
  <2>8. \A m \in Modes : Offers(h, m) => (Offers(h, m))' \/ m = s[n]
    <3> SUFFICES ASSUME NEW m \in Modes, Offers(h, m), m # s[n]
                 PROVE  (Offers(h, m))'
      OBVIOUS
    <3>1. PICK i \in 1..n : s[i] = m
      BY <2>1 DEF Offers
    <3>2. i \in 1..(n - 1)
      BY <2>2, <3>1
    <3>3. i \in 1..Len(offer'[h]) /\ offer'[h][i] = m
      BY <2>7, <3>1, <3>2
    <3>4. QED
      BY <3>3 DEF Offers
  <2>9. \A x \in Elems(t) :
          /\ x.head = h /\ x.type \in HeadEventTypes
          /\ x.type = "current_mode" => x.state = screen'[h]
          /\ x.type \in {"mode", "head"} => h \notin used
          /\ x.type = "mode" => (Offers(h, x.state.zmode))'
          /\ x.type = "mode_finished" => h \in used
    BY <1>1, <2>2, <2>4, <2>5 DEF HeadEventTypes, ModeEventTypes
  <2>10. Announce(t) /\ h \in used /\ used' = used \cup {h}
    BY <1>1, <2>2, <2>5
  <2>11. QED
    BY <1>2, <2>2, <2>4, <2>5, <2>6, <2>8, <2>9, <2>10 DEF Announces
<1>6. ASSUME NEW h \in Heads, Report(h)
      PROVE  \E t \in Seq(Events) : Announces(h, t)
  <2>1. PICK from \in HeadStates, to \in HeadStates : from = told[h] /\ to = screen[h]
    BY <1>1
  <2>2. PICK t : t = Describe(h, from, to)
    OBVIOUS
  <2>3. Announce(t) /\ h \in plugged /\ UNCHANGED <<screen, offer, plugged, used>>
    BY <1>6, <2>1, <2>2 DEF Report
  <2>4. /\ t \in Seq(Events)
        /\ \A e \in Elems(t) : /\ e.head = h /\ e.state = to
                               /\ e.type \in {"enabled", "current_mode", "geometry", "adaptive_sync"}
    BY <2>2, DescribeTells
  <2>5. \A m : Offers(h, m) => (Offers(h, m))'
    BY <2>3 DEF Offers
  <2>6. \A x \in Elems(t) :
          /\ x.head = h /\ x.type \in HeadEventTypes
          /\ x.type = "current_mode" => x.state = screen'[h]
          /\ x.type \in {"mode", "head"} => h \notin used
          /\ x.type = "mode" => (Offers(h, x.state.zmode))'
          /\ x.type = "mode_finished" => h \in used
    BY <2>1, <2>3, <2>4 DEF HeadEventTypes
  <2>7. h \in used /\ used' = used \cup {h}
    BY <1>1, <2>3
  <2>8. QED
    BY <1>2, <2>3, <2>4, <2>5, <2>6, <2>7 DEF Announces
<1>7. ASSUME NEW h \in Heads, NEW m \in Modes, OtherClient(h, m)
      PROVE  "other_client" \in Scenario /\ UNCHANGED <<told, offer, plugged, used, wire, config>>
  BY <1>7 DEF OtherClient
<1>8. QED
  BY <1>3, <1>4, <1>5, <1>6, <1>7 DEF Plugging, Changes, Reporting

-----------------------------------------------------------------------------
(* The mode of a head.  The compositor need not say anything of a mode it  *)
(* applied, so that the server learns it from the answer: between the      *)
(* moment the configuration takes effect and the act that enters it, delta *)
(* holds the mode, and the record of the head is out of date.              *)

InProgress(h) ==
    /\ delta.element = "MODE" /\ delta.head = h
    /\ config.status = "applied" \/ state = "SUCCEEDED" \/ \E e \in Elems(wire) : e.type = "succeeded"

(* What is queued about the mode of a head that is plugged in, the mode in *)
(* progress, and else the mode in the record, are the one on its screen.   *)
ModeKnown ==
    \A h \in plugged :
        /\ \A e \in Elems(wire) : e.type = "current_mode" /\ e.head = h => e.state.zmode = screen[h].zmode
        /\ InProgress(h) => delta.zmode = screen[h].zmode
        /\ ~InProgress(h) => hd[h].cur.zmode \in {NULL, screen[h].zmode}

ModeInv == ModeKnown /\ \A h \in Heads \ used : hd[h].cur.zmode = NULL

(* An element of a sequence is its head or in its tail.                    *)
LEMMA ElemsHead ==
    ASSUME NEW w \in Seq(Events), w # <<>>, NEW e \in Elems(w)
    PROVE  e = Head(w) \/ e \in Elems(Tail(w))
<1>1. PICK i \in 1..Len(w) : w[i] = e
  BY DEF Elems
<1>2. CASE i = 1
  BY <1>1, <1>2
<1>3. CASE i # 1
  <2>1. i - 1 \in 1..Len(Tail(w)) /\ Tail(w)[i - 1] = w[i]
    BY <1>1, <1>3
  <2>2. QED
    BY <1>1, <2>1 DEF Elems
<1>4. QED
  BY <1>2, <1>3

(* The answers that are queued, by OneConfiguration.                       *)
LEMMA AnswersQueued ==
    ASSUME IInv
    PROVE  /\ state # "OUTSTANDING" \/ config.status # "none" => \A e \in Elems(wire) : e.type \notin Answers
           /\ \A e, f \in Elems(wire) : e.type \in Answers /\ f.type \in Answers => e = f
           /\ state # "OUTSTANDING" => config.status = "none"
<1>1. OneConfiguration
  BY DEF IInv
<1>2. \A e \in Elems(wire) : e.type \in Answers => \E i \in AnswersIn(wire) : wire[i] = e
  BY DEF Elems, AnswersIn
<1>3. QED
  BY <1>1, <1>2 DEF OneConfiguration

(* A configuration the compositor may still apply leaves nothing about a   *)
(* head in the queue: the server has seen all there was to see.            *)
LEMMA FreshSeesAll ==
    ASSUME IInv, WireInv, config.status = "sent", ~config.stale
    PROVE  /\ \A e \in Elems(wire) : e.type \notin HeadEventTypes
           /\ heads = plugged
<1>1. ~DonePending /\ Followed
  BY DEF WireInv, FreshConfig
<1>2. \A e \in Elems(wire) : e.type \notin HeadEventTypes
  BY <1>1 DEF DonePending, Followed, Elems
<1>3. ASSUME NEW h \in Heads
      PROVE  h \in heads <=> h \in plugged
  <2>1. Tell(wire, h, "present", Cur(h, "present"), Now(h, "present"))
    BY DEF WireInv, Mirror, Tells
  <2>2. \A e \in Elems(wire) : ~Sets(e, h, "present")
    <3>1. \A e \in Elems(wire) : e \in Events
      BY DEF Elems, IInv, TypeOK
    <3>2. \A e \in Events : e.type \notin HeadEventTypes => e.type \notin {"present", "head", "finished"}
      BY DEF Events, EventTypes, HeadEventTypes, ModeEventTypes, Answers
    <3>3. QED
      BY <1>2, <3>1, <3>2 DEF Sets
  <2>3. Cur(h, "present") = Now(h, "present")
    BY <2>1, <2>2 DEF Tell, Elems
  <2>4. QED
    BY <2>3 DEF Cur, Now
<1>4. heads \subseteq Heads /\ plugged \subseteq Heads
  BY DEF IInv, TypeOK, DisplTypeOK, CompositorTypeOK
<1>5. QED
  BY <1>2, <1>3, <1>4

(* Listening keeps the modes known.                                        *)
LEMMA ListenMode ==
    ASSUME IInv, WireInv, ModeInv, Listen, UNCHANGED compositorVars
    PROVE  ModeInv'
<1>1. PICK e \in Events : Enters(e)
  BY ListenEnters
<1>2. /\ wire # <<>> /\ wire' = Tail(wire) /\ e = Head(wire) /\ e \in Elems(wire)
      /\ Elems(wire') \subseteq Elems(wire) /\ UNCHANGED <<delta, config>>
      /\ state' = StateAfter(e.type)
      /\ UNCHANGED <<screen, plugged, used>>
  BY <1>1 DEF Enters, compositorVars
<1>3. hd \in [Heads -> HeadRec] /\ wire \in Seq(Events) /\ plugged \subseteq used /\ used \subseteq Heads
  BY DEF IInv, TypeOK, DisplTypeOK, CompositorTypeOK
<1>4. ASSUME NEW h \in Heads
      PROVE  \/ hd'[h].cur.zmode \in {NULL, hd[h].cur.zmode}
             \/ e.type = "current_mode" /\ e.head = h /\ hd'[h].cur.zmode = e.state.zmode
  <2>1. CASE e.type \notin HeadEventTypes
    BY <1>1, <2>1 DEF Enters
  <2>2. CASE e.type \in HeadEventTypes
    <3>1. e.head \in Heads /\ hd' = [hd EXCEPT ![e.head] = After(e, hd[e.head])]
      BY <1>1, <2>2 DEF Enters
    <3>2. CASE e.head = h
      <4>1. PICK r \in HeadRec : r = hd[h]
        BY <1>3
      <4>2. \/ After(e, r).cur.zmode \in {NULL, r.cur.zmode}
            \/ e.type = "current_mode" /\ After(e, r).cur.zmode = e.state.zmode
        BY <2>2, AfterSeen
      <4>3. hd'[h] = After(e, r)
        BY <1>3, <3>1, <3>2, <4>1
      <4>4. QED
        BY <3>2, <4>1, <4>2, <4>3
    <3>3. CASE e.head # h
      BY <1>3, <3>1, <3>3
    <3>4. QED
      BY <3>2, <3>3
  <2>3. QED
    BY <2>1, <2>2
<1>5. ASSUME NEW h
      PROVE  (InProgress(h))' <=> InProgress(h)
  <2>1. state' = "SUCCEEDED" => state = "SUCCEEDED" \/ e.type = "succeeded"
    BY <1>2 DEF StateAfter
  <2>2. state = "SUCCEEDED" => state' = "SUCCEEDED"
    BY <1>2, AnswersQueued DEF StateAfter, Answers
  <2>3. e.type = "succeeded" => state' = "SUCCEEDED"
    BY <1>2 DEF StateAfter
  <2>4. \A f \in Elems(wire) : f = e \/ f \in Elems(wire')
    BY <1>2, <1>3, ElemsHead
  <2>5. QED
    BY <1>2, <2>1, <2>2, <2>3, <2>4 DEF InProgress
<1>6. ModeKnown'
  BY <1>2, <1>3, <1>4, <1>5 DEF ModeInv, ModeKnown
<1>7. \A h \in Heads \ used' : hd'[h].cur.zmode = NULL
  <2>1. e.type = "current_mode" => e.head \in used
    BY <1>2 DEF WireInv, Known, HeadEventTypes
  <2>2. QED
    BY <1>2, <1>4, <2>1 DEF ModeInv
<1>8. QED
  BY <1>6, <1>7 DEF ModeInv

(* The act of the server keeps the modes known: a success enters the mode  *)
(* in progress.                                                            *)
LEMMA ActMode ==
    ASSUME IInv, WireInv, ModeInv, act, UNCHANGED compositorVars
    PROVE  ModeInv'
<1>1. UNCHANGED <<wire, heads, screen, plugged, used>> /\ plugged \subseteq Heads
  BY ActCases DEF compositorVars, IInv, TypeOK, CompositorTypeOK
<1>2. \A h \in Heads :
         hd'[h].cur.zmode \in IF Gains(h) /\ alive' = "running" THEN {delta.zmode} ELSE {NULL, hd[h].cur.zmode}
  BY ActSeen DEF ActEnters
<1>3. \A h \in Heads \ used : hd'[h].cur.zmode = NULL
  <2>1. \A h \in Heads \ used : ~Gains(h)
    BY DEF WireInv, DeltaLive, Gains
  <2>2. QED
    BY <1>2, <2>1 DEF ModeInv
<1>4. CASE UNCHANGED <<hd, state, delta, config>>
  <2>1. \A h : (InProgress(h))' <=> InProgress(h)
    BY <1>1, <1>4 DEF InProgress
  <2>2. QED
    BY <1>1, <1>3, <1>4, <2>1 DEF ModeInv, ModeKnown
<1>5. CASE state = "CANCELLED" /\ state' = "IDLE" /\ UNCHANGED <<hd, delta, config>>
  <2>1. \A h : (InProgress(h))' <=> InProgress(h)
    BY <1>1, <1>5 DEF InProgress
  <2>2. QED
    BY <1>1, <1>3, <1>5, <2>1 DEF ModeInv, ModeKnown
<1>6. CASE state # "OUTSTANDING" /\ alive' = "running" /\ ~UNCHANGED <<hd, state, delta, config>>
           /\ ~(state = "CANCELLED" /\ state' = "IDLE" /\ UNCHANGED <<hd, delta, config>>)
  <2>1. config.status = "none" /\ \A e \in Elems(wire) : e.type # "succeeded"
    BY <1>6, AnswersQueued DEF Answers
  <2>2. ASSUME NEW h \in plugged
        PROVE  hd'[h].cur.zmode \in {NULL, screen[h].zmode}
    <3>1. InProgress(h) => Gains(h)
      BY <2>1 DEF InProgress, Gains, Dangling, WireInv, DeltaLive
    <3>2. Gains(h) => InProgress(h)
      BY DEF InProgress, Gains
    <3>3. QED
      BY <1>1, <1>2, <1>6, <3>1, <3>2 DEF ModeInv, ModeKnown
  <2>3. ASSUME NEW h PROVE ~(InProgress(h))' \/ (config' = config /\ delta' = delta /\ state' = state)
    <3>1. CASE config' = config /\ delta' = NoDelta
      BY <3>1 DEF InProgress, NoDelta
    <3>2. CASE SendsOne
      BY <1>1, <2>1, <3>2 DEF SendsOne, InProgress
    <3>3. CASE config' = config /\ delta' = delta /\ state' = "IDLE"
      BY <1>1, <2>1, <3>3 DEF InProgress
    <3>4. QED
      BY <3>1, <3>2, <3>3, ActSends
  <2>4. CASE config' = config /\ delta' = delta /\ state' = state
    <3>1. \A h : (InProgress(h))' <=> state = "SUCCEEDED" /\ InProgress(h)
      BY <1>1, <2>1, <2>4 DEF InProgress
    <3>2. state \in {"OUTSTANDING", "CANCELLED"} \/ delta = NoDelta \/ state = "OUTSTANDING"
      BY <1>6, <2>4, ActSends DEF SendsOne
    <3>3. \A h : ~(InProgress(h))'
      BY <3>1, <3>2 DEF InProgress, NoDelta
    <3>4. QED
      BY <1>1, <1>3, <2>2, <3>3 DEF ModeInv, ModeKnown
  <2>5. CASE ~(config' = config /\ delta' = delta /\ state' = state)
    BY <1>1, <1>3, <2>2, <2>3, <2>5 DEF ModeInv, ModeKnown
  <2>6. QED
    BY <2>4, <2>5
<1>7. QED
  BY <1>4, <1>5, <1>6, ActCases

(* Inputs forget modes at most, and announcements tell the new ones.       *)
LEMMA OtherMode ==
    ASSUME IInv, WireInv, ModeInv,
           \/ (Inputs \/ Reapply) /\ UNCHANGED compositorVars
           \/ UNCHANGED displVars /\ \E h \in Heads, t \in Seq(Events) : Announces(h, t)
    PROVE  ModeInv'
<1>1. plugged \subseteq used /\ used \subseteq Heads
  BY DEF IInv, TypeOK, CompositorTypeOK
<1>2. CASE (Inputs \/ Reapply) /\ UNCHANGED compositorVars
  <2>1. /\ \A h \in Heads : hd'[h].cur.zmode \in {NULL, hd[h].cur.zmode} /\ InputEnters(h)
        /\ UNCHANGED <<screen, plugged, used>>
    BY <1>2, InputsSeen DEF InputEnters, compositorVars
  <2>2. ASSUME NEW h \in Heads PROVE (InProgress(h))' <=> InProgress(h)
    BY <2>1 DEF InProgress, InputEnters
  <2>3. ASSUME NEW h \in Heads PROVE wire' = wire /\ delta' = delta
    BY <2>1 DEF InputEnters
  <2>4. QED
    BY <1>1, <2>1, <2>2, <2>3 DEF ModeInv, ModeKnown
<1>3. ASSUME UNCHANGED displVars, NEW h \in Heads, NEW t \in Seq(Events), Announces(h, t)
      PROVE  ModeInv'
  <2>1. UNCHANGED <<hd, delta, state>>
    BY <1>3 DEF displVars
  <2>2. /\ Elems(wire') = Elems(wire) \cup Elems(t) \cup {Signal("done")}
        /\ config'.status = config.status
        /\ used' = used \cup {h} /\ plugged' \ {h} = plugged \ {h}
        /\ h \in plugged' => h \in plugged \/ h \notin used
        /\ h \in plugged' => screen'[h].zmode = screen[h].zmode \/ h \notin used
        /\ \A g \in Heads \ {h} : screen'[g] = screen[g]
        /\ \A e \in Elems(t) : /\ e.head = h /\ e.type \in HeadEventTypes
                               /\ e.type = "current_mode" => e.state = screen'[h]
    BY <1>3 DEF Announces
  <2>3. Signal("done").type = "done"
    BY SignalType
  <2>4. \A g : (InProgress(g))' <=> InProgress(g)
    BY <2>1, <2>2, <2>3 DEF InProgress, HeadEventTypes, ModeEventTypes
  <2>5. ASSUME NEW g \in plugged', g # h
        PROVE  /\ \A e \in Elems(wire') : e.type = "current_mode" /\ e.head = g => e.state.zmode = screen'[g].zmode
               /\ g \in plugged /\ screen'[g] = screen[g]
    BY <1>1, <2>2, <2>3, <2>5 DEF ModeInv, ModeKnown
  <2>6. ASSUME h \in plugged'
        PROVE  /\ \A e \in Elems(wire') : e.type = "current_mode" /\ e.head = h => e.state.zmode = screen'[h].zmode
               /\ InProgress(h) => delta.zmode = screen'[h].zmode
               /\ ~InProgress(h) => hd[h].cur.zmode \in {NULL, screen'[h].zmode}
    <3>1. CASE h \in used
      BY <2>2, <2>3, <2>6, <3>1 DEF ModeInv, ModeKnown
    <3>2. CASE h \notin used
      <4>1. \A e \in Elems(wire) : e.type = "current_mode" => e.head # h
        BY <3>2 DEF WireInv, Known, HeadEventTypes
      <4>2. ~InProgress(h)
        BY <3>2 DEF InProgress, WireInv, DeltaLive
      <4>3. hd[h].cur.zmode = NULL
        BY <3>2 DEF ModeInv
      <4>4. QED
        BY <2>2, <2>3, <4>1, <4>2, <4>3
    <3>3. QED
      BY <3>1, <3>2
  <2>7. ModeKnown'
    BY <2>1, <2>4, <2>5, <2>6 DEF ModeInv, ModeKnown
  <2>8. QED
    BY <2>1, <2>2, <2>7 DEF ModeInv
<1>4. QED
  BY <1>2, <1>3

(* A configuration that takes effect puts its mode in progress; an answer  *)
(* moves it on.                                                            *)
LEMMA DecideMode ==
    ASSUME IInv, WireInv, ModeInv, Decide \/ Refusal, UNCHANGED displVars
    PROVE  ModeInv'
<1>1. UNCHANGED <<hd, delta, state>> /\ plugged \subseteq Heads
  BY DEF displVars, IInv, TypeOK, CompositorTypeOK
<1>2. CASE Apply
  <2>1. /\ config.status = "sent" /\ ~config.stale /\ UNCHANGED <<wire, plugged, used>>
        /\ config'.status = "applied"
        /\ \A h \in Heads :
              screen'[h].zmode = IF h \in config.on /\ config.kind = "MODE"
                                 THEN config.want[h].zmode ELSE screen[h].zmode
    BY <1>2, ApplyScreens
  <2>2. /\ \A e \in Elems(wire) : e.type \notin HeadEventTypes
        /\ \A e \in Elems(wire) : e.type \notin Answers
        /\ state = "OUTSTANDING"
    BY <2>1, FreshSeesAll, AnswersQueued
  <2>3. \A h : ~InProgress(h)
    BY <2>1, <2>2 DEF InProgress, Answers
  <2>4. /\ (delta.element = "MODE") <=> (config.kind = "MODE")
        /\ config.kind = "MODE" => config.on = {delta.head} /\ delta.zmode = config.want[delta.head].zmode
    BY <2>1 DEF IInv, DeltaMatchesConfig
  <2>5. \A h : (InProgress(h))' <=> config.kind = "MODE" /\ delta.head = h
    BY <1>1, <2>1, <2>4 DEF InProgress
  <2>6. \A e \in Elems(wire) : e.type # "current_mode"
    BY <2>2 DEF HeadEventTypes
  <2>7. ModeKnown'
    BY <1>1, <2>1, <2>3, <2>4, <2>5, <2>6 DEF ModeInv, ModeKnown
  <2>8. QED
    BY <1>1, <2>1, <2>7 DEF ModeInv
<1>3. ASSUME NEW type \in Answers, Answer(type),
             type = "succeeded" <=> config.status = "applied", config.status # "none"
      PROVE  ModeInv'
  <2>1. Elems(wire') = Elems(wire) \cup {Signal(type)} /\ Signal(type).type = type
    BY <1>3, AnswerWire, SignalType
  <2>2. config'.status = "none" /\ UNCHANGED <<screen, plugged, used>>
    BY <1>3 DEF Answer, NoConfig, compositorVars
  <2>3. state = "OUTSTANDING" /\ \A e \in Elems(wire) : e.type \notin Answers
    BY <1>3, AnswersQueued
  <2>4. \A h : (InProgress(h))' <=> InProgress(h)
    BY <1>1, <1>3, <2>1, <2>2, <2>3 DEF InProgress, Answers
  <2>5. \A e \in Elems(wire') : e.type = "current_mode" => e \in Elems(wire)
    BY <1>3, <2>1 DEF Answers
  <2>6. QED
    BY <1>1, <2>2, <2>4, <2>5 DEF ModeInv, ModeKnown
<1>4. CASE Succeed
  BY <1>3, <1>4 DEF Succeed, Answers
<1>5. CASE Cancel
  BY <1>3, <1>5 DEF Cancel, Answers
<1>6. CASE Refuse
  BY <1>3, <1>6 DEF Refuse, Answers
<1>7. QED
  BY <1>2, <1>4, <1>5, <1>6 DEF Decide, Refusal

(* The server knows the modes, as long as no other client changes them.    *)
THEOREM ModesKnown ==
    ASSUME "other_client" \notin Scenario
    PROVE  Spec => []ModeInv
<1>1. ASSUME Init PROVE ModeInv
  BY <1>1 DEF Init, DisplInit, CompositorInit, ModeInv, ModeKnown, head_init, ZeroState
<1>2. ASSUME IInv, WireInv, ModeInv, [Next]_vars
      PROVE  ModeInv'
  <2>1. CASE UNCHANGED vars
    <3>1. UNCHANGED <<hd, wire, config, delta, state, screen, plugged, used>>
      BY <2>1 DEF vars, displVars, compositorVars
    <3>2. \A h : (InProgress(h))' <=> InProgress(h)
      BY <3>1 DEF InProgress
    <3>3. QED
      BY <1>2, <3>1, <3>2 DEF ModeInv, ModeKnown
  <2>2. CASE (Listen \/ act \/ Inputs) /\ UNCHANGED <<compositorVars, refused>>
    BY <1>2, <2>2, ListenMode, ActMode, OtherMode
  <2>3. CASE Reapply /\ UNCHANGED compositorVars
    BY <1>2, <2>3, OtherMode
  <2>4. CASE (Plugging \/ Changes \/ Reporting \/ Decide) /\ UNCHANGED <<displVars, refused>>
    BY <1>2, <2>4, CompositorAnnounces, OtherMode, DecideMode
  <2>5. CASE Refusal /\ UNCHANGED displVars
    BY <1>2, <2>5, DecideMode
  <2>6. QED
    BY <1>2, <2>1, <2>2, <2>3, <2>4, <2>5 DEF Next
<1>3. QED
  BY <1>1, <1>2, Invariance, MirrorAlways, PTL DEF Spec

(* With an empty queue the server's view of a head is what it was told.    *)
LEMMA EmptyMirror ==
    ASSUME IInv, WireInv, wire = <<>>
    PROVE  /\ heads = plugged
           /\ \A h \in Heads : /\ hd[h].cur.enabled = told[h].enabled
                               /\ told[h].enabled => /\ hd[h].cur.scale = told[h].scale
                                                     /\ hd[h].cur.pos = told[h].pos
                                                     /\ hd[h].cur.adaptive_sync = told[h].adaptive_sync
<1>1. heads \subseteq Heads /\ plugged \subseteq Heads
  BY DEF IInv, TypeOK, DisplTypeOK, CompositorTypeOK
<1>2. Elems(wire) = {}
  BY DEF Elems
<1>3. ASSUME NEW h \in Heads, NEW T \in Tells, T \in {"present", "enabled"} \/ told[h].enabled
      PROVE  Cur(h, T) = Now(h, T)
  <2>1. Tell(wire, h, T, Cur(h, T), Now(h, T))
    BY <1>3 DEF WireInv, Mirror
  <2>2. QED
    BY <1>2, <2>1 DEF Tell, Elems
<1>4. \A h \in Heads : h \in heads <=> h \in plugged
  BY <1>3 DEF Cur, Now, Tells
<1>5. ASSUME NEW h \in Heads
      PROVE  hd[h].cur.enabled = told[h].enabled
  BY <1>3 DEF Cur, Now, Tells, Field
<1>6. ASSUME NEW h \in Heads, told[h].enabled
      PROVE  /\ hd[h].cur.scale = told[h].scale /\ hd[h].cur.pos = told[h].pos
             /\ hd[h].cur.adaptive_sync = told[h].adaptive_sync
  <2>1. Cur(h, "geometry") = Now(h, "geometry") /\ Cur(h, "adaptive_sync") = Now(h, "adaptive_sync")
    BY <1>3, <1>6 DEF Tells
  <2>2. QED
    BY <2>1 DEF Cur, Now, Field
<1>7. QED
  BY <1>1, <1>4, <1>5, <1>6

(* When nothing is left to do, every screen shows what is desired of it,   *)
(* whatever was plugged, unplugged, refused, cancelled, reloaded or asked  *)
(* for meanwhile: the desire is at rest, the queue is empty, and the       *)
(* server's records are what the compositor did.  Another client that      *)
(* changes a mode can race the server's own change; TLC shows how.         *)
THEOREM ScreensAlwaysAsDesired ==
    ASSUME "other_client" \notin Scenario
    PROVE  Spec => []ScreensAsDesired
<1>1. ASSUME IInv, WireInv, ModeInv, Rested
      PROVE  ScreensAsDesired
  <2> SUFFICES ASSUME Quiet, ~GaveUp
               PROVE  /\ heads = plugged
                      /\ \E want \in {desire(hd)} : \A h \in heads :
                            /\ screen[h].enabled = want[h].des.enabled
                            /\ screen[h].enabled =>
                                  /\ screen[h].zmode = want[h].des.zmode
                                  /\ screen[h].scale = want[h].des.scale
                                  /\ screen[h].pos = want[h].des.pos
                                  /\ screen[h].adaptive_sync = want[h].des.adaptive_sync
    BY DEF ScreensAsDesired
  <2>1. /\ alive = "running" /\ phase = "poll" /\ state = "IDLE" /\ wire = <<>> /\ told = screen
    BY DEF Quiet
  <2>2. heads \subseteq Heads /\ DisplTypeOK /\ hd \in [Heads -> HeadRec]
    BY <1>1 DEF IInv, TypeOK, DisplTypeOK
  <2>3. PICK want : want = desire(hd)
    OBVIOUS
  <2>4. ASSUME NEW h \in heads
        PROVE  want[h].des = hd[h].cur /\ (want[h].des.enabled => want[h].des.zmode \in Modes)
    <3>1. Changing(want) = {}
      BY <1>1, <2>1, <2>3 DEF Rested
    <3>2. want[h].des = want[h].cur
      BY <3>1 DEF Changing, head_current_not_desired
    <3>3. want[h].cur = hd[h].cur /\ (want[h].des.enabled => want[h].des.zmode \in hd[h].modes)
      BY <2>2, <2>3, DesireFacts
    <3>4. hd[h].modes \subseteq Modes
      BY <2>2 DEF HeadRec
    <3>5. QED
      BY <3>2, <3>3, <3>4
  <2>5. /\ heads = plugged
        /\ \A h \in heads : /\ hd[h].cur.enabled = screen[h].enabled
                            /\ screen[h].enabled => /\ hd[h].cur.scale = screen[h].scale
                                                    /\ hd[h].cur.pos = screen[h].pos
                                                    /\ hd[h].cur.adaptive_sync = screen[h].adaptive_sync
    BY <1>1, <2>1, <2>2, EmptyMirror
  <2>6. ASSUME NEW h \in heads
        PROVE  hd[h].cur.zmode \in {NULL, screen[h].zmode}
    <3>1. ~InProgress(h)
      BY <1>1, <2>1, AnswersQueued DEF InProgress, Elems
    <3>2. QED
      BY <1>1, <2>5, <3>1 DEF ModeInv, ModeKnown
  <2>7. \A h \in heads :
           /\ screen[h].enabled = want[h].des.enabled
           /\ screen[h].enabled =>
                 /\ screen[h].zmode = want[h].des.zmode
                 /\ screen[h].scale = want[h].des.scale
                 /\ screen[h].pos = want[h].des.pos
                 /\ screen[h].adaptive_sync = want[h].des.adaptive_sync
    BY <2>4, <2>5, <2>6, ModeAssumption
  <2>8. QED
    BY <2>3, <2>5, <2>7
<1>2. Spec => []ModeInv
  BY ModesKnown
<1>3. QED
  BY <1>1, <1>2, Invariance, MirrorAlways, RestsWhenDone, PTL

-----------------------------------------------------------------------------
(* What desire makes of the panel alone.                                   *)

(* A head that has modes, is not overridden and is not being reapplied is  *)
(* desired to be enabled when no DISABLED applies to it.                   *)
LEMMA DesireEnables ==
    ASSUME DisplTypeOK, NEW r \in [Heads -> HeadRec], NEW h \in heads, IsFiniteSet(Modes),
           r[h].modes # {}, r[h].overrided_enabled = "NoOverride", ~r[h].reapply_required,
           ~cfg_disabled_applies_to_head(g_cfg.disableds, h, heads, g_lid, \E g \in heads : heads = {g})
    PROVE  desire(r)[h].des.enabled
<1> DEFINE alone    == \E g \in heads : heads = {g}
           auto(g)  == ~cfg_disabled_applies_to_head(g_cfg.disableds, g, heads, g_lid, alone)
           want     == [g \in heads |-> desire_head(g, r[g], g_cfg, auto(g))]
           Placed   == {g \in heads : want[g].des.enabled /\ want[g].des.zmode # NULL}
           before(f) == {<<g, want[g].des.zmode, want[g].des.scale>> :
                            g \in {k \in Placed : g_cfg.order[k] < g_cfg.order[f]}}
           q        == desire(r)
<1>1. heads \subseteq Heads /\ g_cfg \in CfgRec /\ h \in Heads /\ r[h] \in HeadRec
  BY DEF DisplTypeOK
<1>2. q = [g \in Heads |->
                IF g \in Placed THEN [want[g] EXCEPT !.des = [@ EXCEPT !.pos = before(g)]]
                ELSE IF g \in heads THEN want[g] ELSE r[g]]
  BY DEF desire
<1> HIDE DEF q
<1>3. want[h] = desire_head(h, r[h], g_cfg, TRUE)
  BY Zenon
<1>4. q[h] = IF h \in Placed THEN [want[h] EXCEPT !.des = [@ EXCEPT !.pos = before(h)]] ELSE want[h]
  BY <1>1, <1>2
<1> HIDE DEF want, Placed, before, auto, alone
<1>5. want[h] \in HeadRec
  BY <1>1, <1>3, DesireHeadType
<1>6. head_find_mode(r[h].modes, r[h].zmode_pref, g_cfg.modes[h]) # NULL
  <2>1. r[h].modes \in SUBSET Modes /\ IsFiniteSet(r[h].modes)
    BY <1>1, FS_Subset DEF HeadRec
  <2>2. head_find_mode(r[h].modes, r[h].zmode_pref, g_cfg.modes[h]) \in r[h].modes
    BY <2>1, FindModeFinds
  <2>3. QED
    BY <2>1, <2>2, ModeAssumption
<1>7. desire_enabled(r[h], TRUE)
  BY DEF desire_enabled, desire_override
<1>8. want[h].des.enabled
  <2> DEFINE zmode == head_find_mode(r[h].modes, r[h].zmode_pref, g_cfg.modes[h])
             on    == desire_enabled(r[h], TRUE) /\ zmode # NULL
             vrr   == \A nd \in g_cfg.adaptive_sync_off : h \notin nd
             o     == desire_override(r[h], TRUE)
             des   == [zmode   |-> IF on THEN zmode ELSE r[h].cur.zmode,
                       enabled |-> on /\ ~r[h].reapply_required,
                       scale   |-> IF on THEN g_cfg.scales[h] ELSE r[h].cur.scale,
                       pos     |-> r[h].cur.pos,
                       adaptive_sync |-> IF on /\ ~r[h].adaptive_sync_failed
                                         THEN vrr ELSE r[h].cur.adaptive_sync]
  <2>1. want[h] = [r[h] EXCEPT !.overrided_enabled = o, !.des = des]
    BY <1>3 DEF desire_head
  <2>2. on
    BY <1>6, <1>7
  <2>3. des.enabled
    BY <2>2
  <2> HIDE DEF des, o
  <2>4. QED
    BY <1>1, <2>1, <2>3 DEF HeadRec
<1>9. q[h].des.enabled
  <2>1. CASE h \in Placed
    BY <1>4, <1>5, <1>8, <2>1 DEF HeadRec, HeadStates
  <2>2. CASE h \notin Placed
    BY <1>4, <1>8, <2>2
  <2>3. QED
    BY <2>1, <2>2
<1>10. QED
  BY <1>9 DEF q

(* Closing the lid never leaves the only display dark, for every           *)
(* configuration and every history: a DISABLED that asks for a closed lid  *)
(* is not met when the panel is alone, its modes yield one, and at rest    *)
(* the screen is what is desired.  Modes are finitely many.                *)
THEOREM LonePanelAlwaysLit ==
    ASSUME IsFiniteSet(Modes)
    PROVE  Spec => []LonePanelLit
<1>1. ASSUME IInv, WireInv, Rested
      PROVE  LonePanelLit
  <2> SUFFICES ASSUME NEW h \in heads, Quiet, ~GaveUp, heads = {h}, hd[h].modes # {},
                      hd[h].overrided_enabled = "NoOverride",
                      \A d \in g_cfg.disableds :
                         h \in d.name_desc => /\ d.conditions # {}
                                              /\ \A c \in d.conditions : c.lid = "LID_CLOSED"
               PROVE  screen[h].enabled
    BY DEF LonePanelLit
  <2>1. /\ alive = "running" /\ phase = "poll" /\ state = "IDLE" /\ wire = <<>> /\ told = screen
    BY DEF Quiet
  <2>2. heads \subseteq Heads /\ DisplTypeOK /\ hd \in [Heads -> HeadRec]
    BY <1>1 DEF IInv, TypeOK, DisplTypeOK
  <2>3. Changing(desire(hd)) = {}
    BY <1>1, <2>1 DEF Rested
  <2>4. desire(hd)[h].des = desire(hd)[h].cur /\ ~desire(hd)[h].reapply_required
    BY <2>3 DEF Changing, head_current_not_desired
  <2>5. desire(hd)[h].cur = hd[h].cur /\ desire(hd)[h].reapply_required = hd[h].reapply_required
    BY <2>2, DesireFacts
  <2>6. ~cfg_disabled_applies_to_head(g_cfg.disableds, h, heads, g_lid, \E g \in heads : heads = {g})
    BY DEF cfg_disabled_applies_to_head, cfg_condition_met
  <2>7. desire(hd)[h].des.enabled
    BY <2>2, <2>4, <2>5, <2>6, DesireEnables
  <2>8. hd[h].cur.enabled = screen[h].enabled
    BY <1>1, <2>1, <2>2, EmptyMirror
  <2>9. QED
    BY <2>4, <2>5, <2>7, <2>8
<1>2. QED
  BY <1>1, Invariance, MirrorAlways, RestsWhenDone, PTL

-----------------------------------------------------------------------------
(* What a configuration asks for, and the modes of a head.                 *)

(* A configuration that is not outdated names heads and modes the server   *)
(* has.                                                                    *)
ConfigKnown ==
    config.status = "sent" /\ ~config.stale =>
        /\ config.on \cup config.off \subseteq heads
        /\ config.kind = "MODE" => \A h \in config.on : config.want[h].zmode \in hd[h].modes

(* The modes of a head are announced before one of them is finished.       *)
InOrder ==
    \A i, j \in 1..Len(wire) :
        i < j /\ wire[i].type = "mode_finished" /\ wire[j].type = "mode" => wire[i].head # wire[j].head

Queued(type, h, m) == \E e \in Elems(wire) : e.type = type /\ e.head = h /\ e.state.zmode = m

(* A mode the server has, or will have, is offered, or its end is queued.  *)
(* Where users reapply, the failed modes come back and must be offered.    *)
OfferKnown ==
    \A h \in Heads, m \in Modes :
        /\ m \in hd[h].modes \/ Queued("mode", h, m) =>
              Offers(h, m) \/ ("reapply" \notin Scenario /\ Queued("mode_finished", h, m))
        /\ "reapply" \in Scenario /\ m \in hd[h].modes_failed => Offers(h, m)

OfferInv == ConfigKnown /\ InOrder /\ OfferKnown

(* The order of the queue survives what is appended to it.                 *)
LEMMA AppendInOrder ==
    ASSUME IInv, WireInv, InOrder, NEW u \in Seq(Events), wire' = wire \o u,
           \A e \in Elems(u) : e.type = "mode" => /\ e.head \notin used
                                                  /\ \A f \in Elems(u) : f.type # "mode_finished"
    PROVE  InOrder'
<1>1. wire \in Seq(Events)
  BY DEF IInv, TypeOK
<1>2. /\ Len(wire') = Len(wire) + Len(u) /\ Len(wire) \in Nat /\ Len(u) \in Nat
      /\ \A i \in 1..Len(wire') :
            IF i <= Len(wire) THEN wire'[i] = wire[i] ELSE wire'[i] = u[i - Len(wire)]
  BY <1>1
<1>3. \A i \in 1..Len(wire') :
         \/ i \in 1..Len(wire) /\ wire'[i] = wire[i] /\ wire'[i] \in Elems(wire)
         \/ i > Len(wire) /\ wire'[i] \in Elems(u)
  <2> SUFFICES ASSUME NEW i \in 1..Len(wire')
               PROVE  \/ i \in 1..Len(wire) /\ wire'[i] = wire[i] /\ wire'[i] \in Elems(wire)
                      \/ i > Len(wire) /\ wire'[i] \in Elems(u)
    OBVIOUS
  <2>1. CASE i <= Len(wire)
    BY <1>2, <2>1 DEF Elems
  <2>2. CASE i > Len(wire)
    <3>1. i - Len(wire) \in 1..Len(u) /\ wire'[i] = u[i - Len(wire)]
      BY <1>2, <2>2
    <3>2. QED
      BY <2>2, <3>1 DEF Elems
  <2>3. QED
    BY <1>2, <2>1, <2>2
<1>4. \A e \in Elems(wire) : e.type = "mode_finished" => e.head \in used
  BY DEF WireInv, Known, HeadEventTypes, ModeEventTypes
<1> SUFFICES ASSUME NEW i \in 1..Len(wire'), NEW j \in 1..Len(wire'), i < j,
                    wire'[i].type = "mode_finished", wire'[j].type = "mode"
             PROVE  wire'[i].head # wire'[j].head
  BY DEF InOrder
<1>5. CASE j \in 1..Len(wire) /\ wire'[j] = wire[j]
  <2>1. i \in 1..Len(wire) /\ wire'[i] = wire[i]
    BY <1>2, <1>3, <1>5
  <2>2. QED
    BY <1>5, <2>1 DEF InOrder
<1>6. CASE wire'[j] \in Elems(u)
  BY <1>3, <1>4, <1>6
<1>7. QED
  BY <1>3, <1>5, <1>6

(* Listening keeps what is known of the modes.                             *)
LEMMA ListenOffer ==
    ASSUME IInv, WireInv, OfferInv, Listen, UNCHANGED compositorVars
    PROVE  OfferInv'
<1>1. PICK e \in Events : Enters(e)
  BY ListenEnters
<1>2. /\ wire # <<>> /\ wire' = Tail(wire) /\ e = Head(wire) /\ e \in Elems(wire)
      /\ Elems(wire') \subseteq Elems(wire) /\ UNCHANGED <<config, offer>>
  BY <1>1 DEF Enters, compositorVars
<1>3. hd \in [Heads -> HeadRec] /\ wire \in Seq(Events)
  BY DEF IInv, TypeOK, DisplTypeOK
<1>4. /\ Len(wire') = Len(wire) - 1 /\ Len(wire) \in Nat /\ Len(wire) > 0 /\ e = wire[1]
      /\ \A i \in 1..Len(wire') : i + 1 \in 1..Len(wire) /\ wire'[i] = wire[i + 1]
  BY <1>2, <1>3
<1>5. InOrder'
  <2> SUFFICES ASSUME NEW i \in 1..Len(wire'), NEW j \in 1..Len(wire'), i < j,
                      wire'[i].type = "mode_finished", wire'[j].type = "mode"
               PROVE  wire'[i].head # wire'[j].head
    BY DEF InOrder
  <2>1. i + 1 \in 1..Len(wire) /\ j + 1 \in 1..Len(wire) /\ i + 1 < j + 1
        /\ wire'[i] = wire[i + 1] /\ wire'[j] = wire[j + 1]
    BY <1>4
  <2>2. QED
    BY <2>1 DEF OfferInv, InOrder
<1>6. ASSUME NEW f \in Elems(wire'), f.type = "mode", e.type = "mode_finished"
      PROVE  e.head # f.head
  <2>1. PICK i \in 1..Len(wire') : f = wire'[i]
    BY DEF Elems
  <2>2. 1 \in 1..Len(wire) /\ i + 1 \in 1..Len(wire) /\ 1 < i + 1 /\ f = wire[i + 1]
    BY <1>4, <2>1
  <2>3. QED
    BY <1>4, <1>6, <2>2 DEF OfferInv, InOrder
<1>7. ASSUME NEW h \in Heads
      PROVE  /\ hd'[h].modes \subseteq
                   IF e.head # h THEN hd[h].modes
                   ELSE IF e.type = "mode" THEN hd[h].modes \cup {e.state.zmode}
                   ELSE IF e.type = "mode_finished" THEN hd[h].modes \ {e.state.zmode} ELSE hd[h].modes
             /\ hd'[h].modes_failed \subseteq hd[h].modes_failed
  <2>1. CASE e.type \notin HeadEventTypes
    BY <1>1, <2>1 DEF Enters, HeadEventTypes, ModeEventTypes
  <2>2. CASE e.type \in HeadEventTypes
    <3>1. e.head \in Heads /\ hd' = [hd EXCEPT ![e.head] = After(e, hd[e.head])]
      BY <1>1, <2>2 DEF Enters
    <3>2. CASE e.head = h
      <4>1. PICK r \in HeadRec : r = hd[h]
        BY <1>3
      <4>2. /\ After(e, r).modes = CASE e.type = "mode" -> r.modes \cup {e.state.zmode}
                                     [] e.type = "mode_finished" -> r.modes \ {e.state.zmode}
                                     [] e.type \in {"head", "finished"} -> {}
                                     [] OTHER -> r.modes
            /\ After(e, r).modes_failed = IF e.type \in {"head", "finished"} THEN {} ELSE r.modes_failed
        BY <2>2, AfterSeen
      <4>3. hd'[h] = After(e, r)
        BY <1>3, <3>1, <3>2, <4>1
      <4>4. QED
        BY <3>2, <4>1, <4>2, <4>3
    <3>3. CASE e.head # h
      BY <1>3, <3>1, <3>3
    <3>4. QED
      BY <3>2, <3>3
  <2>3. QED
    BY <2>1, <2>2
<1>8. \A f \in Elems(wire) : f = e \/ f \in Elems(wire')
  BY <1>2, <1>3, ElemsHead
<1>9. OfferKnown'
  <2>1. ASSUME NEW h \in Heads, NEW m \in Modes, m \in hd'[h].modes \/ (Queued("mode", h, m))'
        PROVE  Offers(h, m) \/ ("reapply" \notin Scenario /\ (Queued("mode_finished", h, m))')
    <3>1. ~(e.type = "mode_finished" /\ e.head = h /\ e.state.zmode = m)
      BY <1>6, <1>7, <2>1 DEF Queued
    <3>2. m \in hd[h].modes \/ Queued("mode", h, m)
      BY <1>2, <1>7, <2>1 DEF Queued
    <3>3. Queued("mode_finished", h, m) => (Queued("mode_finished", h, m))'
      BY <1>8, <3>1 DEF Queued
    <3>4. QED
      BY <3>2, <3>3 DEF OfferInv, OfferKnown
  <2>2. \A h \in Heads, m \in Modes : "reapply" \in Scenario /\ m \in hd'[h].modes_failed => Offers(h, m)
    BY <1>7 DEF OfferInv, OfferKnown
  <2>3. \A h, m : (Offers(h, m))' <=> Offers(h, m)
    BY <1>2 DEF Offers
  <2>4. QED
    BY <2>1, <2>2, <2>3 DEF OfferKnown
<1>10. ConfigKnown'
  <2> SUFFICES ASSUME config.status = "sent", ~config.stale
               PROVE  /\ config.on \cup config.off \subseteq heads'
                      /\ config.kind = "MODE" => \A h \in config.on : config.want[h].zmode \in hd'[h].modes
    BY <1>2 DEF ConfigKnown
  <2>1. e.type \notin HeadEventTypes
    BY <1>2, FreshSeesAll
  <2>2. heads' = heads /\ \A h \in Heads : hd'[h].modes = hd[h].modes
    BY <1>1, <2>1 DEF Enters, HeadEventTypes
  <2>3. config.on \subseteq Heads
    BY DEF IInv, TypeOK, Configs
  <2>4. QED
    BY <2>2, <2>3 DEF OfferInv, ConfigKnown
<1>11. QED
  BY <1>5, <1>9, <1>10 DEF OfferInv

(* So do act and the other inputs.                                         *)
LEMMA ServerOffer ==
    ASSUME IInv, WireInv, OfferInv, act \/ Inputs \/ Reapply, UNCHANGED compositorVars
    PROVE  OfferInv'
<1>1. /\ UNCHANGED offer /\ wire' = wire /\ heads' = heads /\ config \in Configs
      /\ Inputs \/ Reapply => config' = config
  <2>1. act => wire' = wire /\ heads' = heads
    BY ActCases
  <2>2. Inputs \/ Reapply => wire' = wire /\ heads' = heads /\ config' = config
    <3>1. \A stage : Input(stage) => wire' = wire /\ heads' = heads /\ config' = config
      BY DEF Input
    <3>2. QED
      BY <3>1 DEF Inputs, Reapply, g_cfg_file_reload, g_lid_update, IpcInProgress, IpcVrrOff,
                  IpcDisabled, IpcReapply, Signalled
  <2>3. QED
    BY <2>1, <2>2 DEF compositorVars, IInv, TypeOK
<1>2. \A h, m, type : ((Offers(h, m))' <=> Offers(h, m)) /\ ((Queued(type, h, m))' <=> Queued(type, h, m))
  BY <1>1 DEF Offers, Queued
<1>3. InOrder'
  BY <1>1 DEF OfferInv, InOrder
<1>4. CASE act
  <2>1. \A h \in Heads : /\ hd'[h].modes \subseteq hd[h].modes
                         /\ hd'[h].modes_failed \subseteq hd[h].modes_failed \cup hd[h].modes
    BY <1>4, ActSeen DEF ActEnters
  <2>2. OfferKnown'
    BY <1>2, <2>1 DEF OfferInv, OfferKnown
  <2>3. ConfigKnown'
    <3>1. CASE SendsOne
      BY <1>1, <3>1 DEF SendsOne, ConfigKnown
    <3>2. CASE config' = config /\ state # "OUTSTANDING"
      BY <3>2, AnswersQueued DEF ConfigKnown
    <3>3. CASE config' = config /\ state = "OUTSTANDING"
      <4>1. hd' = hd
        BY <1>4, <3>3, ActCases
      <4>2. QED
        BY <1>1, <3>3, <4>1 DEF OfferInv, ConfigKnown
    <3>4. QED
      BY <1>4, <3>1, <3>2, <3>3, ActSends
  <2>4. QED
    BY <1>3, <2>2, <2>3 DEF OfferInv
<1>5. CASE Inputs \/ Reapply
  <2>1. \A h \in Heads : InputEnters(h)
    BY <1>5, InputsSeen
  <2>2. OfferKnown'
    <3>1. ASSUME NEW h \in Heads, NEW m \in Modes
          PROVE  /\ m \in hd'[h].modes \/ Queued("mode", h, m) =>
                       Offers(h, m) \/ ("reapply" \notin Scenario /\ Queued("mode_finished", h, m))
                 /\ "reapply" \in Scenario /\ m \in hd'[h].modes_failed => Offers(h, m)
      <4>1. CASE "reapply" \in Scenario
        <5>1. m \in hd'[h].modes \cup hd'[h].modes_failed => m \in hd[h].modes \cup hd[h].modes_failed
          BY <2>1 DEF InputEnters
        <5>2. QED
          BY <4>1, <5>1 DEF OfferInv, OfferKnown
      <4>2. CASE "reapply" \notin Scenario
        <5>1. hd'[h].modes = hd[h].modes
          BY <1>5, <2>1, <4>2 DEF InputEnters, Reapply
        <5>2. QED
          BY <4>2, <5>1 DEF OfferInv, OfferKnown
      <4>3. QED
        BY <4>1, <4>2
    <3>2. QED
      BY <1>2, <3>1 DEF OfferKnown
  <2>3. ConfigKnown'
    <3>1. config.on \subseteq Heads
      BY <1>1 DEF Configs
    <3>2. \A h \in Heads : hd[h].modes \subseteq hd'[h].modes
      BY <2>1 DEF InputEnters
    <3>3. QED
      BY <1>1, <1>5, <3>1, <3>2 DEF OfferInv, ConfigKnown
  <2>4. QED
    BY <1>3, <2>2, <2>3 DEF OfferInv
<1>6. QED
  BY <1>4, <1>5

(* And so does the compositor, when modes are not finished where users     *)
(* reapply.                                                                *)
LEMMA AnnounceOffer ==
    ASSUME IInv, WireInv, OfferInv, UNCHANGED displVars,
           "mode_finished" \notin Scenario \/ "reapply" \notin Scenario,
           NEW h \in Heads, NEW t \in Seq(Events), Announces(h, t)
    PROVE  OfferInv'
<1>1. UNCHANGED <<hd, heads>>
  BY DEF displVars
<1>2. /\ Elems(wire') = Elems(wire) \cup Elems(t) \cup {Signal("done")}
      /\ \E s : wire' = wire \o (t \o <<s>>) /\ s = Signal("done")
      /\ config'.status = "sent" => config'.stale
      /\ \A g \in Heads \ {h} : offer'[g] = offer[g]
      /\ \A m \in Modes : Offers(h, m) =>
            \/ (Offers(h, m))'
            \/ /\ "mode_finished" \in Scenario
               /\ \E e \in Elems(t) : e.type = "mode_finished" /\ e.state.zmode = m
      /\ \A e \in Elems(t) :
            /\ e.head = h
            /\ e.type \in {"mode", "head"} => h \notin used
            /\ e.type = "mode" => (Offers(h, e.state.zmode))'
            /\ e.type = "mode_finished" => h \in used
  BY DEF Announces
<1>3. Signal("done").type = "done" /\ Signal("done") \in Events
  BY SignalType
<1>4. InOrder'
  <2>1. PICK s \in Events : wire' = wire \o (t \o <<s>>) /\ s = Signal("done")
    BY <1>2, <1>3
  <2>2. PICK u : u = t \o <<s>>
    OBVIOUS
  <2>3. u \in Seq(Events) /\ <<s>> \in Seq(Events)
    BY <2>2, ConcatOne
  <2>4. Elems(u) = Elems(t) \cup {s}
    BY <2>2, <2>3, ElemsConcat, ElemsOne
  <2>5. \A e \in Elems(u) : e.type = "mode" => /\ e.head \notin used
                                               /\ \A f \in Elems(u) : f.type # "mode_finished"
    BY <1>2, <1>3, <2>1, <2>4
  <2>6. wire' = wire \o u
    BY <2>1, <2>2
  <2>7. QED
    BY <2>3, <2>5, <2>6, AppendInOrder DEF OfferInv
<1>5. OfferKnown'
  <2>1. ASSUME NEW g \in Heads, NEW m \in Modes
        PROVE  /\ m \in hd[g].modes \/ (Queued("mode", g, m))' =>
                     (Offers(g, m))' \/ ("reapply" \notin Scenario /\ (Queued("mode_finished", g, m))')
               /\ "reapply" \in Scenario /\ m \in hd[g].modes_failed => (Offers(g, m))'
    <3>1. Queued("mode_finished", g, m) => (Queued("mode_finished", g, m))'
      BY <1>2 DEF Queued
    <3>2. (Queued("mode", g, m))' => Queued("mode", g, m) \/ (g = h /\ (Offers(h, m))')
      BY <1>2, <1>3 DEF Queued
    <3>3. Offers(g, m) => (Offers(g, m))' \/ ("reapply" \notin Scenario /\ (Queued("mode_finished", g, m))')
      <4>1. CASE g = h
        BY <1>2, <4>1 DEF Queued
      <4>2. CASE g # h
        BY <1>2, <4>2 DEF Offers
      <4>3. QED
        BY <4>1, <4>2
    <3>4. QED
      BY <3>1, <3>2, <3>3 DEF OfferInv, OfferKnown
  <2>2. QED
    BY <1>1, <2>1 DEF OfferKnown
<1>6. ConfigKnown'
  BY <1>2 DEF ConfigKnown
<1>7. QED
  BY <1>4, <1>5, <1>6 DEF OfferInv

(* Deciding about a configuration does not touch the modes.                *)
LEMMA DecideOffer ==
    ASSUME IInv, WireInv, OfferInv, Decide \/ Refusal, UNCHANGED displVars
    PROVE  OfferInv'
<1>1. UNCHANGED <<hd, heads>>
  BY DEF displVars
<1>2. CASE Apply
  <2>1. UNCHANGED <<wire, offer>> /\ config'.status = "applied"
    BY <1>2, ApplyScreens
  <2>2. \A h, m, type : ((Offers(h, m))' <=> Offers(h, m)) /\ ((Queued(type, h, m))' <=> Queued(type, h, m))
    BY <2>1 DEF Offers, Queued
  <2>3. QED
    BY <1>1, <2>1, <2>2 DEF OfferInv, ConfigKnown, OfferKnown, InOrder
<1>3. ASSUME NEW type \in Answers, Answer(type)
      PROVE  OfferInv'
  <2>1. Elems(wire') = Elems(wire) \cup {Signal(type)} /\ Signal(type).type = type
    BY <1>3, AnswerWire, SignalType
  <2>2. config'.status = "none" /\ UNCHANGED offer /\ wire' = wire \o <<Signal(type)>>
    BY <1>3 DEF Answer, Send, NoConfig, compositorVars
  <2>3. \A h, m : /\ (Offers(h, m))' <=> Offers(h, m)
                  /\ (Queued("mode", h, m))' <=> Queued("mode", h, m)
                  /\ (Queued("mode_finished", h, m))' <=> Queued("mode_finished", h, m)
    BY <1>3, <2>1, <2>2 DEF Offers, Queued, Answers
  <2>4. InOrder'
    <3>1. PICK s \in Events : s = Signal(type)
      BY SignalType
    <3>2. PICK u : u = <<s>>
      OBVIOUS
    <3>3. Elems(u) = {s}
      BY <3>2, ElemsOne
    <3>4. u \in Seq(Events)
      BY <3>2
    <3>5. wire' = wire \o u
      BY <2>2, <3>1, <3>2
    <3>6. \A e \in Elems(u) : e.type # "mode"
      BY <1>3, <2>1, <3>1, <3>3 DEF Answers
    <3>7. QED
      BY <3>4, <3>5, <3>6, AppendInOrder DEF OfferInv
  <2>5. OfferKnown'
    BY <1>1, <2>3 DEF OfferInv, OfferKnown
  <2>6. ConfigKnown'
    BY <2>2 DEF ConfigKnown
  <2>7. QED
    BY <2>4, <2>5, <2>6 DEF OfferInv
<1>4. QED
  BY <1>2, <1>3 DEF Decide, Refusal, Succeed, Cancel, Refuse, Answers

(* What the server knows of the modes is an invariant.                     *)
THEOREM OffersKnown ==
    ASSUME "mode_finished" \notin Scenario \/ "reapply" \notin Scenario
    PROVE  Spec => []OfferInv
<1>1. ASSUME Init PROVE OfferInv
  <2>1. wire = <<>> /\ hd = [h \in Heads |-> head_init] /\ config.status = "none"
    BY <1>1 DEF Init, DisplInit, CompositorInit, NoConfig
  <2>2. QED
    BY <2>1 DEF OfferInv, ConfigKnown, InOrder, OfferKnown, Queued, Elems, head_init
<1>2. ASSUME IInv, WireInv, OfferInv, [Next]_vars
      PROVE  OfferInv'
  <2>1. ASSUME UNCHANGED <<hd, heads, wire, config, offer>>
        PROVE  OfferInv'
    <3>1. \A h, m, type : ((Offers(h, m))' <=> Offers(h, m)) /\ ((Queued(type, h, m))' <=> Queued(type, h, m))
      BY <2>1 DEF Offers, Queued
    <3>2. QED
      BY <1>2, <2>1, <3>1 DEF OfferInv, ConfigKnown, InOrder, OfferKnown
  <2>2. CASE UNCHANGED vars
    BY <2>1, <2>2 DEF vars, displVars, compositorVars
  <2>3. CASE (Listen \/ act \/ Inputs) /\ UNCHANGED <<compositorVars, refused>>
    BY <1>2, <2>3, ListenOffer, ServerOffer
  <2>4. CASE Reapply /\ UNCHANGED compositorVars
    BY <1>2, <2>4, ServerOffer
  <2>5. CASE (Plugging \/ Changes \/ Reporting) /\ UNCHANGED displVars
    <3>1. CASE \E h \in Heads, t \in Seq(Events) : Announces(h, t)
      BY <1>2, <2>5, <3>1, AnnounceOffer
    <3>2. CASE UNCHANGED <<told, offer, plugged, used, wire, config>>
      BY <2>1, <2>5, <3>2 DEF displVars
    <3>3. QED
      BY <1>2, <2>5, <3>1, <3>2, CompositorAnnounces
  <2>6. CASE (Decide \/ Refusal) /\ UNCHANGED displVars
    BY <1>2, <2>6, DecideOffer
  <2>7. QED
    BY <1>2, <2>2, <2>3, <2>4, <2>5, <2>6 DEF Next
<1>3. QED
  BY <1>1, <1>2, Invariance, MirrorAlways, PTL DEF Spec

(* A configuration that takes effect names only heads that are plugged in  *)
(* and modes they offer, for every number of heads and modes and every     *)
(* interleaving: what is not outdated was made from all there was to see.  *)
(* The hypothesis is needed: a mode that failed, was finished and comes    *)
(* back with a reapply is asked for although it is gone.                   *)
THEOREM AppliedAlwaysExists ==
    ASSUME "mode_finished" \notin Scenario \/ "reapply" \notin Scenario
    PROVE  Spec => AppliedExists
<1>1. ASSUME IInv, WireInv, OfferInv, [Next]_vars, config.status = "sent", config'.status = "applied"
      PROVE  /\ config.on \cup config.off \subseteq plugged
             /\ config.kind = "MODE" =>
                  \A h \in config.on : \E i \in 1..Len(offer[h]) : offer[h][i] = config.want[h].zmode
  <2>1. Apply
    <3>1. CASE UNCHANGED config
      BY <1>1, <3>1
    <3>2. CASE Listen \/ Inputs \/ Reapply
      <4>1. config' = config
        <5>1. Listen => config' = config
          BY <1>1, ListenEnters DEF Enters
        <5>2. \A stage : Input(stage) => config' = config
          BY DEF Input
        <5>3. QED
          BY <3>2, <5>1, <5>2 DEF Inputs, Reapply, g_cfg_file_reload, g_lid_update, IpcInProgress, IpcVrrOff,
                  IpcDisabled, IpcReapply, Signalled
      <4>2. QED
        BY <3>1, <4>1
    <3>3. CASE act
      BY <1>1, <3>3, ActSends DEF SendsOne
    <3>4. CASE Plugging \/ Changes \/ Reporting
      BY <1>1, <3>4, CompositorAnnounces DEF Announces
    <3>5. CASE Decide \/ Refusal
      BY <1>1, <3>5 DEF Decide, Refusal, Succeed, Cancel, Refuse, Answer, NoConfig
    <3>6. QED
      BY <1>1, <3>1, <3>2, <3>3, <3>4, <3>5 DEF Next, vars
  <2>2. ~config.stale
    BY <2>1 DEF Apply
  <2>3. heads = plugged /\ \A e \in Elems(wire) : e.type \notin HeadEventTypes
    BY <1>1, <2>2, FreshSeesAll
  <2>4. /\ config.on \cup config.off \subseteq heads
        /\ config.kind = "MODE" => \A h \in config.on : config.want[h].zmode \in hd[h].modes
    BY <1>1, <2>2 DEF OfferInv, ConfigKnown
  <2>5. config.on \subseteq Heads /\ hd \in [Heads -> HeadRec]
    BY <1>1 DEF IInv, TypeOK, Configs, DisplTypeOK
  <2>6. ASSUME NEW h \in config.on, config.kind = "MODE"
        PROVE  Offers(h, config.want[h].zmode)
    <3>1. PICK m \in Modes : m = config.want[h].zmode /\ m \in hd[h].modes
      BY <2>4, <2>5, <2>6 DEF HeadRec
    <3>2. ~Queued("mode_finished", h, m)
      BY <2>3 DEF Queued, HeadEventTypes, ModeEventTypes
    <3>3. QED
      BY <1>1, <2>5, <3>1, <3>2 DEF OfferInv, OfferKnown
  <2>7. QED
    BY <2>3, <2>4, <2>6 DEF Offers
<1>2. ASSUME IInv, WireInv, OfferInv, [Next]_vars
      PROVE  [config.status = "sent" /\ config'.status = "applied" =>
                /\ config.on \cup config.off \subseteq plugged
                /\ config.kind = "MODE" =>
                    \A h \in config.on : \E i \in 1..Len(offer[h]) : offer[h][i] = config.want[h].zmode]_vars
  BY <1>1, <1>2
<1>3. Spec => []OfferInv
  BY OffersKnown
<1>4. QED
  BY <1>2, <1>3, Invariance, MirrorAlways, PTL DEF Spec, AppliedExists

-----------------------------------------------------------------------------
(* Refused modes.                                                          *)

(* The compositor has refused the mode m of h and act has not seen it yet. *)
Pending(h, m) ==
    /\ delta.element = "MODE" /\ delta.head = h /\ delta.zmode = m
    /\ state = "FAILED" \/ \E e \in Elems(wire) : e.type = "failed"

(* A refused mode is not among the modes of its head, or act is about to   *)
(* remove it, and it will not be announced again.                          *)
RefusedGone ==
    \A h \in Heads, m \in Modes : <<h, m>> \in refused =>
        /\ h \in used
        /\ \A e \in Elems(wire) : e.type \in {"mode", "head"} => e.head # h
        /\ m \notin hd[h].modes \/ (Pending(h, m) /\ h \in heads)

ConfigLive == config.status = "sent" /\ ~config.stale => config.on \subseteq heads

RefusedInv == RefusedGone /\ ConfigLive

(* Listening keeps a refused mode out.                                     *)
LEMMA ListenRefused ==
    ASSUME IInv, WireInv, RefusedInv, Listen, UNCHANGED <<compositorVars, refused>>
    PROVE  RefusedInv'
<1>1. PICK e \in Events : Enters(e)
  BY ListenEnters
<1>2. /\ wire # <<>> /\ wire' = Tail(wire) /\ e = Head(wire) /\ e \in Elems(wire)
      /\ Elems(wire') \subseteq Elems(wire) /\ UNCHANGED <<config, used, refused, delta>>
      /\ state' = StateAfter(e.type)
      /\ heads' = IF e.type = "head" THEN heads \cup {e.head}
                  ELSE IF e.type = "finished" THEN heads \ {e.head} ELSE heads
  BY <1>1 DEF Enters, compositorVars
<1>3. hd \in [Heads -> HeadRec] /\ wire \in Seq(Events)
  BY DEF IInv, TypeOK, DisplTypeOK
<1>4. ASSUME NEW h \in Heads, e.type # "mode" \/ e.head # h
      PROVE  /\ hd'[h].modes \subseteq hd[h].modes
             /\ e.type = "finished" /\ e.head = h => hd'[h].modes = {}
  <2>1. CASE e.type \notin HeadEventTypes
    BY <1>1, <2>1 DEF Enters, HeadEventTypes
  <2>2. CASE e.type \in HeadEventTypes
    <3>1. e.head \in Heads /\ hd' = [hd EXCEPT ![e.head] = After(e, hd[e.head])]
      BY <1>1, <2>2 DEF Enters
    <3>2. CASE e.head = h
      <4>1. PICK r \in HeadRec : r = hd[h]
        BY <1>3
      <4>2. After(e, r).modes = CASE e.type = "mode" -> r.modes \cup {e.state.zmode}
                                  [] e.type = "mode_finished" -> r.modes \ {e.state.zmode}
                                  [] e.type \in {"head", "finished"} -> {}
                                  [] OTHER -> r.modes
        BY <2>2, AfterSeen
      <4>3. hd'[h] = After(e, r)
        BY <1>3, <3>1, <3>2, <4>1
      <4>4. QED
        BY <1>4, <3>2, <4>1, <4>2, <4>3
    <3>3. CASE e.head # h
      BY <1>3, <3>1, <3>3
    <3>4. QED
      BY <3>2, <3>3
  <2>3. QED
    BY <2>1, <2>2
<1>5. ASSUME NEW h, NEW m, Pending(h, m)
      PROVE  (Pending(h, m))'
  <2>1. CASE state = "FAILED"
    <3>1. e.type \notin Answers
      BY <1>2, <2>1, AnswersQueued
    <3>2. state' = "FAILED"
      BY <1>2, <2>1, <3>1 DEF StateAfter, Answers
    <3>3. QED
      BY <1>2, <1>5, <3>2 DEF Pending
  <2>2. CASE \E f \in Elems(wire) : f.type = "failed"
    <3>1. PICK f \in Elems(wire) : f.type = "failed"
      BY <2>2
    <3>2. f = e \/ f \in Elems(wire')
      BY <1>2, <1>3, ElemsHead
    <3>3. f = e => state' = "FAILED"
      BY <1>2, <3>1 DEF StateAfter
    <3>4. QED
      BY <1>2, <1>5, <3>1, <3>2, <3>3 DEF Pending
  <2>3. QED
    BY <1>5, <2>1, <2>2 DEF Pending
<1>6. RefusedGone'
  <2> SUFFICES ASSUME NEW h \in Heads, NEW m \in Modes, <<h, m>> \in refused
               PROVE  /\ h \in used
                      /\ \A f \in Elems(wire') : f.type \in {"mode", "head"} => f.head # h
                      /\ m \notin hd'[h].modes \/ ((Pending(h, m))' /\ h \in heads')
    BY <1>2 DEF RefusedGone
  <2>1. /\ h \in used
        /\ \A f \in Elems(wire) : f.type \in {"mode", "head"} => f.head # h
        /\ m \notin hd[h].modes \/ (Pending(h, m) /\ h \in heads)
    BY DEF RefusedInv, RefusedGone
  <2>2. /\ hd'[h].modes \subseteq hd[h].modes
        /\ e.type = "finished" /\ e.head = h => hd'[h].modes = {}
    BY <1>2, <1>4, <2>1
  <2>3. QED
    BY <1>2, <1>5, <2>1, <2>2
<1>7. ConfigLive'
  <2> SUFFICES ASSUME config.status = "sent", ~config.stale
               PROVE  config.on \subseteq heads'
    BY <1>2 DEF ConfigLive
  <2>1. e.type \notin HeadEventTypes
    BY <1>2, FreshSeesAll
  <2>2. heads' = heads
    BY <1>2, <2>1 DEF HeadEventTypes
  <2>3. QED
    BY <2>2 DEF RefusedInv, ConfigLive
<1>8. QED
  BY <1>6, <1>7 DEF RefusedInv

(* act removes the mode whose refusal it sees, and the other inputs bring  *)
(* no mode back.                                                           *)
LEMMA ServerRefused ==
    ASSUME IInv, WireInv, RefusedInv, act \/ Inputs, UNCHANGED <<compositorVars, refused>>
    PROVE  RefusedInv'
<1>1. UNCHANGED <<used, refused>>
  BY DEF compositorVars
<1>2. CASE act
  <2>1. UNCHANGED <<wire, heads>>
    BY <1>2, ActCases
  <2>2. \A h \in Heads :
           hd'[h].modes = IF Loses(h) /\ alive' = "running" THEN hd[h].modes \ {delta.zmode} ELSE hd[h].modes
    BY <1>2, ActSeen DEF ActEnters
  <2>3. ASSUME NEW h \in Heads, NEW m, Pending(h, m), h \in heads
        PROVE  m \notin hd'[h].modes \/ (Pending(h, m))'
    <3>1. CASE state = "FAILED"
      <4>1. Loses(h)
        BY <2>3, <3>1 DEF Pending, Loses, Dangling
      <4>2. CASE alive' = "running"
        BY <2>2, <2>3, <4>1, <4>2 DEF Pending
      <4>3. CASE alive' # "running"
        <5>1. UNCHANGED <<state, delta>>
          BY <1>2, <3>1, <4>3, ActCases DEF Answers
        <5>2. QED
          BY <2>1, <2>3, <5>1 DEF Pending
      <4>4. QED
        BY <4>2, <4>3
    <3>2. CASE state # "FAILED"
      <4>1. \E e \in Elems(wire) : e.type = "failed"
        BY <2>3, <3>2 DEF Pending
      <4>2. state = "OUTSTANDING"
        BY <4>1, AnswersQueued DEF Answers
      <4>3. delta' = delta
        BY <1>2, <4>2, ActSends
      <4>4. QED
        BY <2>1, <2>3, <4>1, <4>3 DEF Pending
    <3>3. QED
      BY <3>1, <3>2
  <2>4. RefusedGone'
    BY <1>1, <2>1, <2>2, <2>3 DEF RefusedInv, RefusedGone
  <2>5. ConfigLive'
    BY <1>2, <2>1, ActSends DEF SendsOne, RefusedInv, ConfigLive
  <2>6. QED
    BY <2>4, <2>5 DEF RefusedInv
<1>3. CASE Inputs
  <2>1. UNCHANGED <<wire, heads, config, state, delta>>
    <3>1. \A stage : Input(stage) => UNCHANGED <<wire, heads, config, state, delta>>
      BY DEF Input
    <3>2. QED
      BY <1>3, <3>1 DEF Inputs, g_cfg_file_reload, g_lid_update, IpcInProgress, IpcVrrOff,
                        IpcDisabled, Signalled
  <2>2. \A h \in Heads : hd'[h].modes = hd[h].modes
    BY <1>3, InputsSeen DEF InputEnters
  <2>3. \A h, m : (Pending(h, m))' <=> Pending(h, m)
    BY <2>1 DEF Pending
  <2>4. QED
    BY <1>1, <2>1, <2>2, <2>3 DEF RefusedInv, RefusedGone, ConfigLive
<1>4. QED
  BY <1>2, <1>3

(* The compositor announces modes with new heads only, and refuses what    *)
(* delta names.                                                            *)
LEMMA CompositorRefused ==
    ASSUME IInv, WireInv, RefusedInv, UNCHANGED displVars,
           \/ (Plugging \/ Changes \/ Reporting \/ Decide) /\ UNCHANGED refused
           \/ Refusal
    PROVE  RefusedInv'
<1>1. UNCHANGED <<hd, heads, delta, state>>
  BY DEF displVars
<1>2. ASSUME NEW h \in Heads, NEW t \in Seq(Events), Announces(h, t), UNCHANGED refused
      PROVE  RefusedInv'
  <2>1. /\ Elems(wire') = Elems(wire) \cup Elems(t) \cup {Signal("done")}
        /\ config'.status = "sent" => config'.stale
        /\ used' = used \cup {h}
        /\ \A e \in Elems(t) : e.head = h /\ (e.type \in {"mode", "head"} => h \notin used)
    BY <1>2 DEF Announces
  <2>2. Signal("done").type = "done"
    BY SignalType
  <2>3. \A g, m : Pending(g, m) => (Pending(g, m))'
    BY <1>1, <2>1 DEF Pending
  <2>4. QED
    BY <1>1, <1>2, <2>1, <2>2, <2>3 DEF RefusedInv, RefusedGone, ConfigLive
<1>3. CASE UNCHANGED <<told, offer, plugged, used, wire, config>> /\ UNCHANGED refused
  <2>1. \A g, m : (Pending(g, m))' <=> Pending(g, m)
    BY <1>1, <1>3 DEF Pending
  <2>2. QED
    BY <1>1, <1>3, <2>1 DEF RefusedInv, RefusedGone, ConfigLive
<1>4. CASE Apply /\ UNCHANGED refused
  <2>1. UNCHANGED <<wire, used>> /\ config'.status = "applied"
    BY <1>4, ApplyScreens
  <2>2. \A g, m : (Pending(g, m))' <=> Pending(g, m)
    BY <1>1, <2>1 DEF Pending
  <2>3. QED
    BY <1>1, <1>4, <2>1, <2>2 DEF RefusedInv, RefusedGone, ConfigLive
<1>5. ASSUME NEW type \in Answers, Answer(type)
      PROVE  /\ Elems(wire') = Elems(wire) \cup {Signal(type)} /\ Signal(type).type = type
             /\ config'.status = "none" /\ used' = used
             /\ \A e \in Elems(wire') : e.type \in {"mode", "head"} => e \in Elems(wire)
             /\ \A g, m : Pending(g, m) => (Pending(g, m))'
  <2>1. Elems(wire') = Elems(wire) \cup {Signal(type)} /\ Signal(type).type = type
    BY <1>5, AnswerWire, SignalType
  <2>2. config'.status = "none" /\ used' = used
    BY <1>5 DEF Answer, NoConfig, compositorVars
  <2>3. \A e \in Elems(wire') : e.type \in {"mode", "head"} => e \in Elems(wire)
    BY <1>5, <2>1 DEF Answers
  <2>4. \A g, m : Pending(g, m) => (Pending(g, m))'
    BY <1>1, <2>1 DEF Pending
  <2>5. QED
    BY <2>1, <2>2, <2>3, <2>4
<1>6. CASE (Succeed \/ Cancel) /\ UNCHANGED refused
  <2>1. PICK type \in Answers : Answer(type)
    BY <1>6 DEF Succeed, Cancel, Answers
  <2>2. /\ config'.status = "none" /\ used' = used
        /\ \A e \in Elems(wire') : e.type \in {"mode", "head"} => e \in Elems(wire)
        /\ \A g, m : Pending(g, m) => (Pending(g, m))'
    BY <1>5, <2>1
  <2>3. QED
    BY <1>1, <1>6, <2>2 DEF RefusedInv, RefusedGone, ConfigLive
<1>7. CASE Refusal
  <2>1. config.status = "sent" /\ ~config.stale /\ Answer("failed")
    BY <1>7 DEF Refusal, Refuse
  <2>2. /\ Elems(wire') = Elems(wire) \cup {Signal("failed")} /\ Signal("failed").type = "failed"
        /\ config'.status = "none" /\ used' = used
        /\ \A e \in Elems(wire') : e.type \in {"mode", "head"} => e \in Elems(wire)
        /\ \A g, m : Pending(g, m) => (Pending(g, m))'
    BY <1>5, <2>1 DEF Answers
  <2>3. ASSUME NEW h \in Heads, NEW m \in Modes, <<h, m>> \in refused', <<h, m>> \notin refused
        PROVE  /\ h \in used /\ (Pending(h, m))' /\ h \in heads
               /\ \A e \in Elems(wire) : e.type \notin {"mode", "head"}
    <3>1. config.kind = "MODE" /\ \E g \in config.on : <<h, m>> = <<g, config.want[g].zmode>>
      BY <1>7, <2>3 DEF Refusal
    <3>2. config.on = {delta.head} /\ delta.zmode = config.want[delta.head].zmode /\ delta.element = "MODE"
      BY <2>1, <3>1 DEF IInv, DeltaMatchesConfig
    <3>3. h = delta.head /\ m = delta.zmode
      BY <3>1, <3>2
    <3>4. (Pending(h, m))'
      BY <1>1, <2>2, <3>2, <3>3 DEF Pending
    <3>5. h \in used
      BY <3>2, <3>3 DEF WireInv, DeltaLive
    <3>6. h \in heads
      BY <2>1, <3>2, <3>3 DEF RefusedInv, ConfigLive
    <3>7. \A e \in Elems(wire) : e.type \notin {"mode", "head"}
      BY <2>1, FreshSeesAll DEF HeadEventTypes, ModeEventTypes
    <3>8. QED
      BY <3>4, <3>5, <3>6, <3>7
  <2>4. ASSUME NEW h \in Heads, NEW m \in Modes, <<h, m>> \in refused'
        PROVE  /\ h \in used'
               /\ \A e \in Elems(wire') : e.type \in {"mode", "head"} => e.head # h
               /\ m \notin hd'[h].modes \/ ((Pending(h, m))' /\ h \in heads')
    <3>1. CASE <<h, m>> \in refused
      BY <1>1, <2>2, <3>1 DEF RefusedInv, RefusedGone
    <3>2. CASE <<h, m>> \notin refused
      BY <1>1, <2>2, <2>3, <2>4, <3>2
    <3>3. QED
      BY <3>1, <3>2
  <2>5. QED
    BY <2>2, <2>4 DEF RefusedInv, RefusedGone, ConfigLive
<1>8. QED
  BY <1>2, <1>3, <1>4, <1>6, <1>7, CompositorAnnounces DEF Decide

(* A refused mode is gone, for good or until the user reapplies.           *)
THEOREM RefusedAlwaysGone == Spec => []RefusedInv
<1>1. ASSUME Init PROVE RefusedInv
  BY <1>1 DEF Init, DisplInit, NoConfig, RefusedInv, RefusedGone, ConfigLive
<1>2. ASSUME IInv, WireInv, RefusedInv, [Next]_vars
      PROVE  RefusedInv'
  <2>1. CASE UNCHANGED vars
    <3>1. UNCHANGED <<hd, heads, wire, config, used, refused, state, delta>>
      BY <2>1 DEF vars, displVars, compositorVars
    <3>2. \A g, m : (Pending(g, m))' <=> Pending(g, m)
      BY <3>1 DEF Pending
    <3>3. QED
      BY <1>2, <3>1, <3>2 DEF RefusedInv, RefusedGone, ConfigLive
  <2>2. CASE (Listen \/ act \/ Inputs) /\ UNCHANGED <<compositorVars, refused>>
    BY <1>2, <2>2, ListenRefused, ServerRefused
  <2>3. CASE Reapply /\ UNCHANGED compositorVars
    <3>1. refused' = {} /\ UNCHANGED <<heads, config>>
      BY <2>3 DEF Reapply, IpcReapply, Input
    <3>2. QED
      BY <1>2, <3>1 DEF RefusedInv, RefusedGone, ConfigLive
  <2>4. CASE (Plugging \/ Changes \/ Reporting \/ Decide) /\ UNCHANGED <<displVars, refused>>
    BY <1>2, <2>4, CompositorRefused
  <2>5. CASE Refusal /\ UNCHANGED displVars
    BY <1>2, <2>5, CompositorRefused
  <2>6. QED
    BY <1>2, <2>1, <2>2, <2>3, <2>4, <2>5 DEF Next
<1>3. QED
  BY <1>1, <1>2, Invariance, MirrorAlways, PTL DEF Spec

(* A mode the compositor refused is not asked for again until the user     *)
(* reapplies, in every environment: what act asks for is among the modes   *)
(* of the head, and the refused one is not.                                *)
THEOREM RefusedNeverAskedAgain == Spec => RefusedNotAskedAgain
<1>1. ASSUME IInv, RefusedInv, IInv', RefusedInv', [Next]_vars,
             config.status = "none", config'.status = "sent", config'.kind = "MODE"
      PROVE  \A h \in config'.on : <<h, config'.want[h].zmode>> \notin refused
  <2>1. SendsOne /\ refused' = refused
    <3>1. CASE UNCHANGED config
      BY <1>1, <3>1
    <3>2. CASE Listen \/ Inputs \/ Reapply
      <4>1. config' = config
        <5>1. Listen => config' = config
          BY <1>1, ListenEnters DEF Enters
        <5>2. \A stage : Input(stage) => config' = config
          BY DEF Input
        <5>3. QED
          BY <3>2, <5>1, <5>2 DEF Inputs, Reapply, g_cfg_file_reload, g_lid_update, IpcInProgress, IpcVrrOff,
                  IpcDisabled, IpcReapply, Signalled
      <4>2. QED
        BY <3>1, <4>1
    <3>3. CASE act /\ UNCHANGED <<compositorVars, refused>>
      BY <1>1, <3>3, ActSends
    <3>4. CASE Plugging \/ Changes \/ Reporting
      BY <1>1, <3>4, CompositorAnnounces DEF Announces
    <3>5. CASE Decide \/ Refusal
      BY <1>1, <3>5 DEF Decide, Refusal, Apply, Succeed, Cancel, Refuse, Answer, NoConfig
    <3>6. QED
      BY <1>1, <3>1, <3>2, <3>3, <3>4, <3>5 DEF Next, vars
  <2>2. state' = "OUTSTANDING" /\ \A h \in config'.on : config'.want[h].zmode \in hd'[h].modes
    BY <1>1, <2>1 DEF SendsOne
  <2>3. AnswersIn(wire') = {}
    BY <1>1 DEF IInv, OneConfiguration
  <2>4. \A e \in Elems(wire') : e.type # "failed"
    BY <2>3 DEF AnswersIn, Elems, Answers
  <2>5. \A h, m : ~(Pending(h, m))'
    BY <2>2, <2>4 DEF Pending
  <2>6. config'.on \subseteq Heads /\ hd' \in [Heads -> HeadRec]
    BY <1>1 DEF IInv, TypeOK, Configs, DisplTypeOK
  <2>7. ASSUME NEW h \in config'.on
        PROVE  <<h, config'.want[h].zmode>> \notin refused
    <3>1. h \in Heads /\ config'.want[h].zmode \in Modes /\ config'.want[h].zmode \in hd'[h].modes
      BY <2>2, <2>6 DEF HeadRec
    <3>2. PICK m \in Modes : m = config'.want[h].zmode
      BY <3>1
    <3>3. <<h, m>> \notin refused'
      BY <1>1, <2>5, <3>1, <3>2 DEF RefusedInv, RefusedGone
    <3>4. QED
      BY <2>1, <3>2, <3>3
  <2>8. QED
    BY <2>7
<1>2. ASSUME IInv, RefusedInv, IInv', RefusedInv', [Next]_vars
      PROVE  [config.status = "none" /\ config'.status = "sent" /\ config'.kind = "MODE" =>
                \A h \in config'.on : <<h, config'.want[h].zmode>> \notin refused]_vars
  BY <1>1, <1>2
<1>3. QED
  BY <1>2, Invariance, RefusedAlwaysGone, PTL DEF Spec, RefusedNotAskedAgain

-----------------------------------------------------------------------------
(* The exchange with the compositor implements Exchange.                   *)

(* The answers on their way.                                               *)
Arriving(w) == {w[i].type : i \in AnswersIn(w)}

(* delta names the change as Exchange does, and a configuration that is    *)
(* with the compositor has the shape of that change: act_apply sends a     *)
(* reapply, a change of mode or one of adaptive sync for one head alone.   *)
ChangeInv ==
    /\ delta.element # "none" => delta.head \in Heads
    /\ delta.element = "MODE" <=> delta.zmode # NULL
    /\ config.status # "none" =>
          /\ config.kind \in {"MODE", "VRR"} => config.off = {}
          /\ config.kind = "REAPPLY" => config.on = {} /\ config.off = {delta.head} /\ delta.head # NULL
          /\ config.kind = "OTHER" => delta.head = NULL

(* What the change has come to, from the answers that are on their way.    *)
StageFrom(arriving, status, s) ==
    IF status = "sent" THEN "asked"
    ELSE IF status = "applied" THEN "applied"
    ELSE IF s = "SUCCEEDED" \/ "succeeded" \in arriving THEN "succeeded"
    ELSE IF s = "FAILED" \/ "failed" \in arriving THEN "failed"
    ELSE IF s = "CANCELLED" \/ "cancelled" \in arriving THEN "cancelled"
    ELSE "idle"

(* Stage only looks at the answers among the events of the queue.          *)
LEMMA StageArriving ==
    /\ Stage = StageFrom(Arriving(wire), config.status, state)
    /\ Stage' = StageFrom(Arriving(wire'), config'.status, state')
<1>1. \A type \in Answers : (\E i \in 1..Len(wire) : wire[i].type = type) <=> type \in Arriving(wire)
  BY DEF Arriving, AnswersIn
<1>2. \A type \in Answers : (\E i \in 1..Len(wire') : wire'[i].type = type) <=> type \in Arriving(wire')
  BY DEF Arriving, AnswersIn
<1>3. "succeeded" \in Answers /\ "failed" \in Answers /\ "cancelled" \in Answers
  BY DEF Answers
<1>4. QED
  BY <1>1, <1>2, <1>3 DEF Stage, StageFrom, AnsweredAs

(* While the compositor has the configuration no answer is on its way; one *)
(* that is is the only one, and the server waits for it.                   *)
LEMMA ArrivingOne ==
    ASSUME IInv
    PROVE  /\ Arriving(wire) \subseteq Answers
           /\ config.status # "none" => Arriving(wire) = {} /\ state = "OUTSTANDING"
           /\ Arriving(wire) # {} => state = "OUTSTANDING"
           /\ \A t, u \in Arriving(wire) : t = u
BY DEF IInv, OneConfiguration, Arriving, AnswersIn

(* Appending events leaves the answers on their way where they are, and    *)
(* adds those among the new ones.                                          *)
LEMMA ArrivingElems ==
    ASSUME NEW w
    PROVE  \A type : type \in Arriving(w) <=> type \in Answers /\ \E e \in Elems(w) : e.type = type
BY DEF Arriving, AnswersIn, Elems

(* act sends a configuration of the shape ChangeInv says.                  *)
LEMMA ApplyChange ==
    ASSUME IInv, IInv', NEW r \in [Heads -> HeadRec], act_apply(r), state # "OUTSTANDING"
    PROVE  ChangeInv'
<1>1. heads \subseteq Heads /\ NULL \notin Heads /\ config.status = "none"
  BY CfgAssumption DEF IInv, TypeOK, DisplTypeOK, OneConfiguration
<1>2. ASSUME NEW kind, NEW on, NEW off, Configure(kind, on, off, r)
      PROVE  /\ config'.status = "sent" /\ config'.kind = kind /\ config'.on = on /\ config'.off = off
             /\ \A h \in Heads : config'.want[h] = r[h].des
  BY <1>2 DEF Configure
<1>3. CASE Nothing(r)
  BY <1>1, <1>3 DEF Nothing, NoDelta, ChangeInv
<1>4. CASE \E h \in ReapplyHeads(r) : ApplyReapply(h, r)
  <2>1. PICK h \in Heads : ApplyReapply(h, r)
    BY <1>1, <1>4 DEF ReapplyHeads, Changing
  <2>2. /\ Configure("REAPPLY", {}, {h}, r)
        /\ delta'.element = "none" /\ delta'.head = h /\ delta'.zmode = NULL
    BY <2>1 DEF ApplyReapply
  <2>3. config'.kind = "REAPPLY" /\ config'.on = {} /\ config'.off = {h}
    BY <1>2, <2>2
  <2>4. QED
    BY <1>1, <2>2, <2>3 DEF ChangeInv
<1>5. CASE \E h \in ModeHeads(r) : ApplyMode(h, r)
  <2>1. PICK h \in Heads : ApplyMode(h, r)
    BY <1>1, <1>5 DEF ModeHeads, Changing
  <2>2. /\ Configure("MODE", {h}, {}, r)
        /\ delta'.element = "MODE" /\ delta'.head = h /\ delta'.zmode = r[h].des.zmode
    BY <2>1 DEF ApplyMode
  <2>3. /\ config'.status = "sent" /\ config'.kind = "MODE" /\ config'.on = {h} /\ config'.off = {}
        /\ config'.want[h].zmode = r[h].des.zmode
    BY <1>2, <2>2
  <2>4. config'.want[h].zmode # NULL
    BY <2>3 DEF IInv, ChangeIsEnabled
  <2>5. QED
    BY <2>2, <2>3, <2>4 DEF ChangeInv
<1>6. CASE \E h \in VrrHeads(r) : ApplyVrr(h, r)
  <2>1. PICK h \in Heads : ApplyVrr(h, r)
    BY <1>1, <1>6 DEF VrrHeads, Changing
  <2>2. /\ Configure("VRR", {h}, {}, r)
        /\ delta'.element = "VRR_OFF" /\ delta'.head = h /\ delta'.zmode = NULL
    BY <2>1 DEF ApplyVrr
  <2>3. config'.kind = "VRR" /\ config'.off = {}
    BY <1>2, <2>2
  <2>4. QED
    BY <2>2, <2>3 DEF ChangeInv
<1>7. CASE ApplyOther(r)
  <2>1. PICK on, off : Configure("OTHER", on, off, r)
    BY <1>7 DEF ApplyOther
  <2>2. delta' = NoDelta
    BY <1>7 DEF ApplyOther
  <2>3. config'.kind = "OTHER"
    BY <1>2, <2>1
  <2>4. QED
    BY <2>2, <2>3 DEF ChangeInv, NoDelta
<1>8. QED
  BY <1>3, <1>4, <1>5, <1>6, <1>7 DEF act_apply

(* delta and the configuration part only in act.                           *)
LEMMA ChangeNext ==
    ASSUME IInv, IInv', ChangeInv, [Next]_vars
    PROVE  ChangeInv'
<1>1. CASE delta' = delta /\ (config'.status # "none" =>
              /\ config.status # "none"
              /\ config'.kind = config.kind /\ config'.on = config.on /\ config'.off = config.off)
  BY <1>1 DEF ChangeInv
<1>2. CASE Listen \/ Inputs \/ Reapply \/ UNCHANGED vars
  <2>1. Listen => UNCHANGED <<delta, config>>
    BY ListenEnters DEF Enters
  <2>2. \A stage : Input(stage) => UNCHANGED <<delta, config>>
    BY DEF Input
  <2>3. UNCHANGED <<delta, config>>
    BY <1>2, <2>1, <2>2 DEF Inputs, Reapply, g_cfg_file_reload, g_lid_update, IpcInProgress, IpcVrrOff,
            IpcDisabled, IpcReapply, Signalled, vars, displVars
  <2>4. QED
    BY <1>1, <2>3
<1>3. CASE act
  <2>1. \/ UNCHANGED <<delta, config>>
        \/ state # "OUTSTANDING" /\ \E x \in [Heads -> HeadRec] : act_apply(desire(x))
    BY <1>3, ActCases
  <2>2. ASSUME NEW x \in [Heads -> HeadRec], act_apply(desire(x)), state # "OUTSTANDING"
        PROVE  ChangeInv'
    <3>1. desire(x) \in [Heads -> HeadRec]
      BY DesireType DEF IInv, TypeOK
    <3>2. QED
      BY <2>2, <3>1, ApplyChange
  <2>3. QED
    BY <1>1, <2>1, <2>2
<1>4. CASE (Plugging \/ Changes \/ Reporting \/ Decide \/ Refusal) /\ UNCHANGED displVars
  <2>1. config \in Configs
    BY DEF IInv, TypeOK
  <2>2. CASE Plugging \/ Changes \/ Reporting
    <3>1. \A h \in Heads, on \in BOOLEAN : Plug(h, on) => config' = Outdated
      BY PlugFacts DEF Announce
    <3>2. \A h \in Heads, m \in Modes : OtherClient(h, m) => config' = config
      BY DEF OtherClient
    <3>3. \A h \in Heads : Unplug(h) \/ FinishMode(h) \/ Report(h) => config' = Outdated
      BY DEF Unplug, FinishMode, Report, Announce
    <3>4. config' = config \/ config' = Outdated
      BY <2>2, <3>1, <3>2, <3>3 DEF Plugging, Changes, Reporting
    <3>5. QED
      BY <1>1, <1>4, <2>1, <3>4 DEF displVars, Configs, Outdated
  <2>3. CASE Decide \/ Refusal
    <3>1. \/ config' = NoConfig
          \/ config.status = "sent" /\ config' = [config EXCEPT !.status = "applied"]
      BY <2>3 DEF Decide, Refusal, Apply, Succeed, Cancel, Refuse, Answer
    <3>2. QED
      BY <1>1, <1>4, <2>1, <3>1 DEF displVars, Configs, NoConfig
  <2>4. QED
    BY <1>4, <2>2, <2>3
<1>5. QED
  BY <1>2, <1>3, <1>4 DEF Next

(* The shape of the change, always.                                        *)
LEMMA ChangeAlways == Spec => []ChangeInv
<1>1. ASSUME Init PROVE ChangeInv
  BY <1>1 DEF Init, DisplInit, NoDelta, NoConfig, ChangeInv
<1>2. QED
  BY <1>1, ChangeNext, Invariance, PTL DEF Spec

(* What the compositor does of itself changes the screen of one head.      *)
LEMMA ScreensMove ==
    ASSUME IInv, Plugging \/ Changes \/ Reporting
    PROVE  \E h \in Heads : \A g \in Heads \ {h} : screen'[g] = screen[g]
<1>1. screen \in [Heads -> HeadStates]
  BY DEF IInv, TypeOK, CompositorTypeOK
<1>2. CASE Plugging
  <2>1. PICK h \in Heads : (\E on \in BOOLEAN : Plug(h, on)) \/ Unplug(h)
    BY <1>2 DEF Plugging
  <2>2. \A g \in Heads \ {h} : screen'[g] = screen[g]
    BY <1>1, <2>1, PlugFacts DEF Unplug
  <2>3. QED
    BY <2>2
<1>3. CASE Changes
  BY <1>1, <1>3 DEF Changes, FinishMode, OtherClient
<1>4. CASE Reporting
  BY <1>4 DEF Reporting, Report
<1>5. QED
  BY <1>2, <1>3, <1>4

(* A configuration that takes effect touches the heads it names only, and  *)
(* lights the head of a change of mode or of adaptive sync.                *)
LEMMA ApplyTouches ==
    ASSUME IInv, Apply, NEW h \in Heads
    PROVE  /\ h \notin config.on \cup config.off => screen'[h] = screen[h]
           /\ h \in config.on /\ config.kind \in {"MODE", "VRR"} => screen'[h].enabled
<1>1. PICK round \in BOOLEAN, ignore \in BOOLEAN : screen' = [g \in Heads |-> Configured(g, round, ignore)]
  BY DEF Apply
<1>2. PICK s, w : s = screen[h] /\ w = config.want[h]
  OBVIOUS
<1>3. screen'[h] = Configured(h, round, ignore) /\ s \in HeadStates
  BY <1>1, <1>2 DEF IInv, TypeOK, CompositorTypeOK
<1>4. CASE h \notin config.on \cup config.off
  BY <1>2, <1>3, <1>4 DEF Configured
<1>5. CASE h \in config.on /\ config.kind = "MODE"
  BY <1>2, <1>3, <1>5 DEF Configured, HeadStates
<1>6. CASE h \in config.on /\ config.kind = "VRR"
  <2>1. screen'[h] = [s EXCEPT !.enabled = TRUE,
                               !.adaptive_sync = IF ignore THEN @ ELSE w.adaptive_sync]
    BY <1>2, <1>3, <1>6 DEF Configured
  <2>2. QED
    BY <1>3, <1>6, <2>1 DEF HeadStates
<1>7. QED
  BY <1>4, <1>5, <1>6

(* A listener moves an answer from the queue to the state; to Exchange     *)
(* nothing happens.                                                        *)
LEMMA ListenExchange ==
    ASSUME IInv, Listen
    PROVE  Stage' = Stage /\ delta' = delta
<1>1. PICK e \in Events : Enters(e)
  BY ListenEnters
<1>2. /\ wire \in Seq(Events) /\ wire # <<>> /\ wire' = Tail(wire) /\ e = Head(wire)
      /\ UNCHANGED <<delta, config>> /\ state' = StateAfter(e.type)
  BY <1>1 DEF Enters, IInv, TypeOK
<1>3. Elems(wire) = {e} \cup Elems(wire')
  <2>1. Elems(wire') \subseteq Elems(wire) /\ e \in Elems(wire)
    BY <1>2, ElemsTail
  <2>2. \A f \in Elems(wire) : f = e \/ f \in Elems(wire')
    BY <1>2, ElemsHead
  <2>3. QED
    BY <2>1, <2>2
<1>4. \A type : type \in Arriving(wire) <=> type \in Answers /\ (e.type = type \/ type \in Arriving(wire'))
  <2>1. \A type : type \in Arriving(wire) <=> type \in Answers /\ \E f \in Elems(wire) : f.type = type
    BY DEF Arriving, AnswersIn, Elems
  <2>2. \A type : type \in Arriving(wire') <=> type \in Answers /\ \E f \in Elems(wire') : f.type = type
    BY DEF Arriving, AnswersIn, Elems
  <2>3. QED
    BY <1>3, <2>1, <2>2
<1>5. CASE e.type \notin Answers
  <2>1. Arriving(wire') = Arriving(wire)
    BY <1>4, <1>5 DEF Arriving, AnswersIn
  <2>2. state' = state
    BY <1>2, <1>5 DEF StateAfter, Answers
  <2>3. QED
    BY <1>2, <2>1, <2>2, StageArriving
<1>6. CASE e.type \in Answers
  <2>1. AnswersIn(wire') = {}
    BY <1>2, <1>6, TailAnswers DEF IInv, OneConfiguration
  <2>2. Arriving(wire') = {}
    BY <2>1 DEF Arriving
  <2>3. Arriving(wire) = {e.type}
    BY <1>4, <1>6, <2>2
  <2>4. config.status = "none" /\ state = "OUTSTANDING" /\ config \in Configs
    BY <2>3, ArrivingOne DEF IInv, TypeOK
  <2>5. e.type \in {"succeeded", "failed", "cancelled"}
    BY <1>6 DEF Answers
  <2>6. QED
    BY <1>2, <2>2, <2>3, <2>4, <2>5, StageArriving DEF StageFrom, StateAfter
<1>7. QED
  BY <1>2, <1>5, <1>6

(* An act asks for the next change, comes to rest, or is not seen.         *)
LEMMA ActExchange ==
    ASSUME IInv, IInv', ChangeInv', RefusedInv', act, UNCHANGED <<compositorVars, refused>>
    PROVE  (Stage' = Stage /\ delta' = delta) \/ Asked!Ask \/ Asked!Rest \/ (Stage = "idle" /\ Stage' = "idle")
<1>1. wire' = wire
  BY ActCases
<1>2. screen' = screen /\ refused' = refused
  BY DEF compositorVars
<1>3. state # "OUTSTANDING" =>
        /\ Arriving(wire) = {} /\ config.status = "none"
        /\ Stage \in {"idle", "succeeded", "failed", "cancelled"}
  BY ArrivingOne, StageArriving DEF StageFrom
<1>4. CASE config' = config /\ delta' = delta /\ state' = state
  BY <1>1, <1>4, StageArriving
<1>5. CASE config' = config /\ state' = "IDLE" /\ state # "OUTSTANDING"
  <2>1. Stage' = "idle"
    BY <1>1, <1>3, <1>5, StageArriving DEF StageFrom
  <2>2. QED
    BY <1>2, <1>3, <1>5, <2>1 DEF Asked!Rest, Asked!Answers
<1>6. CASE SendsOne /\ state # "OUTSTANDING"
  <2>1. state' = "OUTSTANDING" /\ config'.status = "sent" /\ Stage' = "asked"
    BY <1>6, StageArriving DEF SendsOne, StageFrom
  <2>2. delta' \in Deltas
    BY DEF IInv, TypeOK, DisplTypeOK
  <2>3. delta' \in Asked!Changes
    BY <2>2 DEF ChangeInv, Deltas, Asked!Changes
  <2>4. ASSUME delta'.element = "MODE"
        PROVE  <<delta'.head, delta'.zmode>> \notin refused
    <3>1. /\ config'.kind = "MODE" /\ config'.on = {delta'.head}
          /\ delta'.zmode = config'.want[delta'.head].zmode
      BY <2>1, <2>4 DEF IInv, DeltaMatchesConfig
    <3>2. delta'.zmode \in hd'[delta'.head].modes
      BY <1>6, <3>1 DEF SendsOne
    <3>3. delta'.head \in Heads /\ delta'.zmode \in Modes
      BY <2>2, <2>4 DEF ChangeInv, Deltas
    <3>4. PICK h \in Heads, m \in Modes : h = delta'.head /\ m = delta'.zmode
      BY <3>3
    <3>5. AnswersIn(wire') = {}
      BY <2>1 DEF IInv, OneConfiguration
    <3>6. \A e \in Elems(wire') : e.type # "failed"
      BY <3>5 DEF AnswersIn, Elems, Answers
    <3>7. ~(Pending(h, m))'
      BY <2>1, <3>6 DEF Pending
    <3>8. <<h, m>> \notin refused'
      BY <3>2, <3>4, <3>7 DEF RefusedInv, RefusedGone
    <3>9. QED
      BY <1>2, <3>4, <3>8
  <2>5. QED
    BY <1>2, <1>3, <1>6, <2>1, <2>3, <2>4 DEF Asked!Ask, Asked!Answers
<1>7. QED
  BY <1>4, <1>5, <1>6, ActSends

(* A configuration takes effect as Exchange says.                          *)
LEMMA ApplyExchange ==
    ASSUME IInv, IInv', ChangeInv, Apply, UNCHANGED <<displVars, refused>>
    PROVE  Asked!TakeEffect
<1>1. /\ config.status = "sent" /\ config'.status = "applied" /\ UNCHANGED <<delta, state>>
      /\ \A h \in Heads : screen'[h].zmode = IF h \in config.on /\ config.kind = "MODE"
                                             THEN config.want[h].zmode ELSE screen[h].zmode
  BY ApplyScreens DEF displVars
<1>2. Stage = "asked" /\ Stage' = "applied"
  BY <1>1, StageArriving DEF StageFrom
<1>3. screen' \in [Heads -> HeadStates] /\ config \in Configs /\ NULL \notin Heads /\ delta \in Deltas
  BY CfgAssumption DEF IInv, TypeOK, CompositorTypeOK, DisplTypeOK
<1>4. ASSUME NEW h \in Heads
      PROVE  /\ delta.head \notin {NULL, h} => screen'[h] = screen[h]
             /\ screen'[h].zmode = IF delta.element = "MODE" /\ delta.head = h
                                   THEN delta.zmode ELSE screen[h].zmode
             /\ delta.element # "none" /\ delta.head = h => screen'[h].enabled
  <2>1. /\ h \notin config.on \cup config.off => screen'[h] = screen[h]
        /\ h \in config.on /\ config.kind \in {"MODE", "VRR"} => screen'[h].enabled
    BY ApplyTouches
  <2>2. delta.head \notin {NULL, h} => h \notin config.on \cup config.off
    BY <1>1, <1>3 DEF ChangeInv, IInv, DeltaMatchesConfig, Configs, Kinds
  <2>3. h \in config.on /\ config.kind = "MODE" <=> delta.element = "MODE" /\ delta.head = h
    BY <1>1 DEF IInv, DeltaMatchesConfig
  <2>4. delta.element = "MODE" /\ delta.head = h => config.want[h].zmode = delta.zmode
    BY <1>1 DEF IInv, DeltaMatchesConfig
  <2>5. delta.element # "none" /\ delta.head = h => h \in config.on /\ config.kind \in {"MODE", "VRR"}
    BY <1>1, <1>3 DEF IInv, DeltaMatchesConfig, Deltas
  <2>6. screen'[h].zmode = IF delta.element = "MODE" /\ delta.head = h
                           THEN delta.zmode ELSE screen[h].zmode
    BY <1>1, <2>3, <2>4
  <2>7. QED
    BY <2>1, <2>2, <2>5, <2>6
<1>5. QED
  BY <1>1, <1>2, <1>3, <1>4 DEF Asked!TakeEffect

(* An answer leaves the compositor.                                        *)
LEMMA AnswerExchange ==
    ASSUME IInv, IInv', WireInv, NEW type \in Answers, Answer(type), UNCHANGED displVars,
           config.status # "none"
    PROVE  Stage' = type /\ delta' = delta /\ screen' = screen
<1>1. state = "OUTSTANDING" /\ Arriving(wire) = {}
  BY ArrivingOne
<1>2. Elems(wire') = Elems(wire) \cup {Signal(type)} /\ Signal(type).type = type
  BY AnswerWire, SignalType
<1>3. Arriving(wire') = {type}
  BY <1>1, <1>2, ArrivingElems
<1>4. config'.status = "none" /\ UNCHANGED <<state, delta, screen>>
  BY DEF Answer, NoConfig, displVars, compositorVars
<1>5. QED
  BY <1>1, <1>3, <1>4, StageArriving DEF StageFrom, Answers

(* What the compositor does of itself is not about the change.             *)
LEMMA MoveExchange ==
    ASSUME IInv, IInv', Plugging \/ Changes \/ Reporting, UNCHANGED <<displVars, refused>>
    PROVE  Asked!Elsewhere
<1>1. Arriving(wire') = Arriving(wire) /\ config'.status = config.status
  <2>1. CASE \E h \in Heads, t \in Seq(Events) : Announces(h, t)
    <3>1. PICK h \in Heads, t \in Seq(Events) : Announces(h, t)
      BY <2>1
    <3>2. /\ Elems(wire') = Elems(wire) \cup Elems(t) \cup {Signal("done")} /\ config'.status = config.status
          /\ \A e \in Elems(t) : e.type \in HeadEventTypes
      BY <3>1 DEF Announces
    <3>3. \A e \in Elems(t) \cup {Signal("done")} : e.type \notin Answers
      BY <3>2, SignalType DEF HeadEventTypes, ModeEventTypes, Answers
    <3>4. PICK v, w : v = wire /\ w = wire'
      OBVIOUS
    <3>5. \A type : type \in Arriving(w) <=> type \in Arriving(v)
      BY <3>2, <3>3, <3>4, ArrivingElems
    <3>6. Arriving(w) = Arriving(v)
      BY <3>5
    <3>7. QED
      BY <3>2, <3>4, <3>6
  <2>2. CASE UNCHANGED <<wire, config>>
    BY <2>2
  <2>3. QED
    BY <2>1, <2>2, CompositorAnnounces
<1>2. UNCHANGED <<state, delta>>
  BY DEF displVars
<1>3. Stage' = Stage
  BY <1>1, <1>2, StageArriving
<1>4. screen' \in [Heads -> HeadStates]
  BY DEF IInv, TypeOK, CompositorTypeOK
<1>5. \E h \in Heads : \A g \in Heads \ {h} : screen'[g] = screen[g]
  BY ScreensMove
<1>6. QED
  BY <1>2, <1>3, <1>4, <1>5 DEF Asked!Elsewhere

(* The server, the queue and the compositor implement Exchange, whatever   *)
(* the heads, their modes and the environment: an answer is charged to the *)
(* change it is about although it, the events of the change and those of   *)
(* other changes overtake one another in the queue.                        *)
THEOREM ExchangeImplemented == Spec => IsExchange
<1>1. ASSUME Init PROVE Asked!Init
  <2>1. /\ wire = <<>> /\ config.status = "none" /\ state = "IDLE" /\ refused = {}
        /\ screen = [h \in Heads |-> ZeroState]
    BY <1>1 DEF Init, DisplInit, CompositorInit, NoConfig
  <2>2. AnswersIn(wire) = {}
    BY <2>1 DEF AnswersIn
  <2>3. Arriving(wire) = {}
    BY <2>2 DEF Arriving
  <2>4. Stage = "idle"
    BY <2>1, <2>3, StageArriving DEF StageFrom
  <2>5. screen \in [Heads -> HeadStates]
    BY <2>1, ZeroStateType
  <2>6. QED
    BY <2>1, <2>4, <2>5 DEF Asked!Init
<1>2. ASSUME IInv, IInv', WireInv, ChangeInv, ChangeInv', RefusedInv', [Next]_vars
      PROVE  [Asked!Next]_(Asked!vars)
  <2>1. CASE Stage' = Stage /\ delta' = delta /\ screen' = screen /\ refused' = refused
    BY <2>1 DEF Asked!vars
  <2>2. CASE UNCHANGED vars
    <3>1. UNCHANGED <<wire, config, state, delta, screen, refused>>
      BY <2>2 DEF vars, displVars, compositorVars
    <3>2. Stage' = Stage
      BY <3>1, StageArriving
    <3>3. QED
      BY <2>1, <3>1, <3>2
  <2>3. CASE Listen /\ UNCHANGED <<compositorVars, refused>>
    BY <1>2, <2>1, <2>3, ListenExchange DEF compositorVars
  <2>4. CASE act /\ UNCHANGED <<compositorVars, refused>>
    <3>1. CASE Stage = "idle" /\ Stage' = "idle"
      BY <2>4, <3>1 DEF Asked!vars, compositorVars
    <3>2. QED
      BY <1>2, <2>1, <2>4, <3>1, ActExchange DEF Asked!Next, compositorVars
  <2>5. CASE (Inputs /\ UNCHANGED <<compositorVars, refused>>) \/ (Reapply /\ UNCHANGED compositorVars)
    <3>1. \A stage : Input(stage) => UNCHANGED <<wire, config, state, delta>>
      BY DEF Input
    <3>2. UNCHANGED <<wire, config, state, delta, screen>>
      BY <2>5, <3>1 DEF Inputs, Reapply, g_cfg_file_reload, g_lid_update, IpcInProgress, IpcVrrOff,
            IpcDisabled, IpcReapply, Signalled, compositorVars
    <3>3. Stage' = Stage
      BY <3>2, StageArriving
    <3>4. refused' = refused \/ refused' = {}
      BY <2>5 DEF Reapply
    <3>5. CASE refused' = {}
      BY <3>2, <3>3, <3>5 DEF Asked!Next, Asked!Reapply
    <3>6. QED
      BY <2>1, <3>2, <3>3, <3>4, <3>5
  <2>6. CASE (Plugging \/ Changes \/ Reporting) /\ UNCHANGED <<displVars, refused>>
    BY <1>2, <2>6, MoveExchange DEF Asked!Next
  <2>7. CASE Apply /\ UNCHANGED <<displVars, refused>>
    BY <1>2, <2>7, ApplyExchange DEF Asked!Next
  <2>8. CASE Succeed /\ UNCHANGED <<displVars, refused>>
    <3>1. config.status = "applied" /\ Answer("succeeded")
      BY <2>8 DEF Succeed
    <3>2. Stage = "applied"
      BY <3>1, StageArriving DEF StageFrom
    <3>3. Stage' = "succeeded" /\ UNCHANGED <<delta, screen>>
      BY <1>2, <2>8, <3>1, AnswerExchange DEF Answers
    <3>4. QED
      BY <2>8, <3>2, <3>3 DEF Asked!Next, Asked!Succeed
  <2>9. CASE Cancel /\ UNCHANGED <<displVars, refused>>
    <3>1. config.status = "sent" /\ Answer("cancelled")
      BY <2>9 DEF Cancel
    <3>2. Stage = "asked"
      BY <3>1, StageArriving DEF StageFrom
    <3>3. Stage' = "cancelled" /\ UNCHANGED <<delta, screen>>
      BY <1>2, <2>9, <3>1, AnswerExchange DEF Answers
    <3>4. QED
      BY <2>9, <3>2, <3>3 DEF Asked!Next, Asked!Cancel
  <2>10. CASE Refusal /\ UNCHANGED displVars
    <3>1. config.status = "sent" /\ Answer("failed")
      BY <2>10 DEF Refusal, Refuse
    <3>2. Stage = "asked"
      BY <3>1, StageArriving DEF StageFrom
    <3>3. Stage' = "failed" /\ UNCHANGED <<delta, screen>>
      BY <1>2, <2>10, <3>1, AnswerExchange DEF Answers
    <3>4. refused' = refused \cup
             IF delta.element = "MODE" THEN {<<delta.head, delta.zmode>>} ELSE {}
      BY <1>2, <2>10, <3>1 DEF Refusal, IInv, DeltaMatchesConfig
    <3>5. QED
      BY <3>2, <3>3, <3>4 DEF Asked!Next, Asked!Refuse
  <2>11. QED
    BY <1>2, <2>2, <2>3, <2>4, <2>5, <2>6, <2>7, <2>8, <2>9, <2>10 DEF Next, Decide
<1>3. QED
  BY <1>1, <1>2, Invariance, MirrorAlways, ChangeAlways, RefusedAlwaysGone, PTL
     DEF Spec, IsExchange, Asked!Spec
=============================================================================
