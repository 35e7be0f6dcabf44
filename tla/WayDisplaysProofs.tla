------------------------- MODULE WayDisplaysProofs -------------------------
(***************************************************************************)
(* Theorems about WayDisplays for every set of heads, modes, scales and    *)
(* configurations, every bound and every behaviour of the compositor.      *)
(***************************************************************************)
EXTENDS WayDisplays, FiniteSetTheorems, TLAPS

-----------------------------------------------------------------------------
(* What the operators on modes, configurations and heads return.           *)

(* The scan for the first mode of the sorted candidates returns one of     *)
(* them or NULL (plist_find in mode.c).                                    *)
LEMMA FirstType ==
    ASSUME NEW S
    PROVE  First(S) \in S \cup {NULL}
BY DEF First

(* mode_max returns one of the modes or NULL.                              *)
LEMMA ModeMaxType ==
    ASSUME NEW S
    PROVE  mode_max(S) \in S \cup {NULL}
BY DEF mode_max

(* head_find_mode only ever returns a mode the head has now, or NULL.      *)
THEOREM FindModeType ==
    ASSUME NEW S, NEW p, NEW c
    PROVE  head_find_mode(S, p, c) \in S \cup {NULL}
<1>1. mode_best_satisfying(c, S) \in S \cup {NULL}
  <2> DEFINE E == {m \in S : mode_equal_res_mhz(ModeInfo[m], c)}
             F == {m \in S : mode_satisfies(ModeInfo[m], c)}
  <2>1. First(E) \in E \cup {NULL} /\ First(F) \in F \cup {NULL}
    BY FirstType
  <2>2. QED
    BY <2>1 DEF mode_best_satisfying
<1>2. ASSUME NEW t
      PROVE  mode_max_refresh(t, S) \in S \cup {NULL}
  <2> DEFINE E == {m \in S : mode_equal_res(ModeInfo[m], t)}
  <2>1. First(E) \in E \cup {NULL}
    BY FirstType
  <2>2. QED
    BY <2>1 DEF mode_max_refresh
<1>3. QED
  BY <1>1, <1>2, ModeMaxType DEF head_find_mode, Or

(* A finite set that is not empty has an element that no other exceeds in  *)
(* the strict order R: the least of the sets of what exceeds an element is *)
(* empty.                                                                  *)
LEMMA FiniteTop ==
    ASSUME NEW S, IsFiniteSet(S), S # {}, NEW R,
           \A a \in S : <<a, a>> \notin R,
           \A a, b, c \in S : <<a, b>> \in R /\ <<b, c>> \in R => <<a, c>> \in R
    PROVE  \E m \in S : \A n \in S : <<n, m>> \notin R
<1> DEFINE Up(m) == {n \in S : <<n, m>> \in R}
           F == {Up(m) : m \in S}
           O == StrictSubsetOrdering(S)
<1>1. IsWellFoundedOn(O, SUBSET S)
  <2>1. IsWellFoundedOn(O, FiniteSubsetsOf(S))
    BY FS_StrictSubsetOrderingWellFounded
  <2>2. FiniteSubsetsOf(S) = SUBSET S
    BY FS_FiniteSubsetsOfFinite
  <2>3. QED
    BY <2>1, <2>2
<1>2. F \subseteq SUBSET S /\ F # {}
  <2>1. \A m \in S : Up(m) \subseteq S
    OBVIOUS
  <2> HIDE DEF Up
  <2>2. F \subseteq SUBSET S
    BY <2>1
  <2>3. \E m \in S : Up(m) \in F
    OBVIOUS
  <2>4. QED
    BY <2>2, <2>3
<1>3. \E x \in F : \A y \in F : ~(<<y, x>> \in O)
  <2> HIDE DEF F, O
  <2>1. QED
    BY <1>1, <1>2, WFMin
<1>4. PICK m \in S : \A n \in S : <<Up(n), Up(m)>> \notin O
  <2> HIDE DEF Up, O
  <2>1. PICK x \in F : \A y \in F : ~(<<y, x>> \in O)
    BY <1>3
  <2>2. PICK m \in S : x = Up(m)
    OBVIOUS
  <2>3. \A n \in S : Up(n) \in F
    OBVIOUS
  <2>4. QED
    BY <2>1, <2>2, <2>3
<1>5. ASSUME NEW n \in S, <<n, m>> \in R
      PROVE  FALSE
  <2>1. Up(n) \subseteq Up(m) /\ n \in Up(m) /\ n \notin Up(n)
    BY <1>5
  <2>2. <<Up(n), Up(m)>> \in (SUBSET S) \X (SUBSET S)
    OBVIOUS
  <2>3. <<Up(n), Up(m)>> \in O
    BY <2>1, <2>2 DEF StrictSubsetOrdering
  <2>4. QED
    BY <1>4, <2>3
<1>6. QED
  BY <1>4, <1>5

(* mode_max finds a mode whenever there is one.                            *)
LEMMA ModeMaxFinds ==
    ASSUME NEW S \in SUBSET Modes, IsFiniteSet(S), S # {}
    PROVE  mode_max(S) \in S
<1>1. \A m \in S : ModeInfo[m].refresh_mhz \in Nat /\ Area(m) \in Nat
  BY ModeAssumption DEF ModeRec, Area
<1> DEFINE more(n, m) == \/ Area(n) > Area(m)
                         \/ Area(n) = Area(m) /\ ModeInfo[n].refresh_mhz > ModeInfo[m].refresh_mhz
           R == {p \in S \X S : more(p[1], p[2])}
<1>2. \A n, m \in S : <<n, m>> \in R <=> more(n, m)
  OBVIOUS
<1>3. /\ \A a \in S : ~more(a, a)
      /\ \A a, b, c \in S : more(a, b) /\ more(b, c) => more(a, c)
  BY <1>1
<1> HIDE DEF R
<1>4. PICK m \in S : \A n \in S : <<n, m>> \notin R
  <2>1. /\ \A a \in S : <<a, a>> \notin R
        /\ \A a, b, c \in S : <<a, b>> \in R /\ <<b, c>> \in R => <<a, c>> \in R
    BY <1>2, <1>3
  <2>2. QED
    BY <2>1, FiniteTop
<1>5. \A n \in S : ~more(n, m)
  BY <1>2, <1>4
<1>6. \A n \in S : /\ Area(n) <= Area(m)
                   /\ mode_equal_res(ModeInfo[n], ModeInfo[m])
                         => ModeInfo[n].refresh_mhz <= ModeInfo[m].refresh_mhz
  <2> SUFFICES ASSUME NEW n \in S
               PROVE  /\ Area(n) <= Area(m)
                      /\ mode_equal_res(ModeInfo[n], ModeInfo[m])
                            => ModeInfo[n].refresh_mhz <= ModeInfo[m].refresh_mhz
    OBVIOUS
  <2>1. mode_equal_res(ModeInfo[n], ModeInfo[m]) => Area(n) = Area(m)
    BY DEF mode_equal_res, Area
  <2>2. QED
    BY <1>1, <1>5, <2>1
<1>7. QED
  BY <1>6 DEF mode_max

(* head_find_mode finds a mode for every head that has one, whatever the   *)
(* user asked for and whichever mode is preferred: an unsatisfiable MODE   *)
(* falls back and never leaves a display without a mode.                   *)
THEOREM FindModeFinds ==
    ASSUME NEW S \in SUBSET Modes, IsFiniteSet(S), S # {}, NEW p, NEW c
    PROVE  head_find_mode(S, p, c) \in S
<1>1. mode_max(S) \in S
  BY ModeMaxFinds
<1>2. head_find_mode(S, p, c) \in S \cup {NULL}
  BY FindModeType
<1>3. head_find_mode(S, p, c) # NULL
  <2>1. mode_max(S) # NULL
    BY <1>1, ModeAssumption
  <2>2. QED
    BY <2>1 DEF head_find_mode, Or
<1>4. QED
  BY <1>2, <1>3

-----------------------------------------------------------------------------
(* The handlers keep a struct Head well formed.                            *)

(* The state of a head that was just created is a state.                   *)
LEMMA ZeroStateType == ZeroState \in HeadStates
BY DEF ZeroState, HeadStates, Positions

(* A new head is well formed (head_init).                                  *)
LEMMA HeadInitType == head_init \in HeadRec
BY ZeroStateType DEF head_init, HeadRec, Overrides

(* The operations of head.c keep a head well formed.                       *)
LEMMA HeadOpsType ==
    ASSUME NEW r \in HeadRec, NEW m \in Modes \cup {NULL}
    PROVE  /\ head_release_mode(r, m) \in HeadRec
           /\ head_set_mode_pref(r, m) \in HeadRec
           /\ head_reapply(r) \in HeadRec
           /\ head_apply_disabled_toggle(r) \in HeadRec
<1>1. head_release_mode(r, m) \in HeadRec
  <2> DEFINE clear(s) == [s EXCEPT !.zmode = IF s.zmode = m THEN NULL ELSE s.zmode]
  <2>1. ASSUME NEW s \in HeadStates
        PROVE  clear(s) \in HeadStates
    BY DEF HeadStates
  <2>2. r.cur \in HeadStates /\ r.des \in HeadStates
    BY DEF HeadRec
  <2>3. clear(r.cur) \in HeadStates /\ clear(r.des) \in HeadStates
    BY <2>1, <2>2
  <2>4. head_release_mode(r, m) =
          [r EXCEPT !.modes = r.modes \ {m},
                    !.zmode_pref = IF r.zmode_pref = m THEN NULL ELSE r.zmode_pref,
                    !.cur = clear(r.cur),
                    !.des = clear(r.des)]
    BY DEF head_release_mode
  <2> HIDE DEF clear
  <2>5. QED
    BY <2>3, <2>4 DEF HeadRec
<1>2. head_set_mode_pref(r, m) \in HeadRec
  BY DEF head_set_mode_pref, HeadRec
<1>3. head_reapply(r) \in HeadRec
  BY DEF head_reapply, HeadRec, HeadStates
<1>4. head_apply_disabled_toggle(r) \in HeadRec
  BY DEF head_apply_disabled_toggle, HeadRec, Overrides
<1>5. QED
  BY <1>1, <1>2, <1>3, <1>4

(* So does the override a DISABLED request becomes.                        *)
LEMMA OverrideIpcType ==
    ASSUME NEW r \in HeadRec, NEW command
    PROVE  head_override_ipc_disableds(r, command) \in HeadRec
<1>1. head_apply_disabled_toggle(r) \in HeadRec
  BY DEF head_apply_disabled_toggle, HeadRec, Overrides
<1>2. QED
  BY <1>1 DEF head_override_ipc_disableds

(* What desire_head gives a head: it is well formed, a head that is to be  *)
(* enabled gets one of its modes and a scale, and a change of mode or of   *)
(* adaptive sync is only desired of a head that is to be enabled.          *)
THEOREM DesireHeadType ==
    ASSUME NEW h \in Heads, NEW r \in HeadRec, NEW cfg \in CfgRec, NEW auto \in BOOLEAN
    PROVE  LET d == desire_head(h, r, cfg, auto)
           IN  /\ d \in HeadRec
               /\ d.des.enabled => d.des.zmode \in r.modes /\ d.des.scale \in Scales
               /\ (head_current_mode_not_desired(d) \/ head_current_adaptive_sync_not_desired(d))
                  /\ ~d.reapply_required => d.des.enabled
<1> DEFINE z == head_find_mode(r.modes, r.zmode_pref, cfg.modes[h])
           on == desire_enabled(r, auto) /\ z # NULL
           vrr == \A nd \in cfg.adaptive_sync_off : h \notin nd
           ov == desire_override(r, auto)
           s == [zmode   |-> IF on THEN z ELSE r.cur.zmode,
                 enabled |-> on /\ ~r.reapply_required,
                 scale   |-> IF on THEN cfg.scales[h] ELSE r.cur.scale,
                 pos     |-> r.cur.pos,
                 adaptive_sync |-> IF on /\ ~r.adaptive_sync_failed
                                   THEN vrr ELSE r.cur.adaptive_sync]
<1>1. z \in r.modes \cup {NULL}
  BY FindModeType
<1>2. r.modes \subseteq Modes /\ r.cur \in HeadStates
  BY DEF HeadRec
<1>3. cfg.scales[h] \in Scales
  BY DEF CfgRec
<1>4. ov \in Overrides
  BY DEF desire_override, HeadRec, Overrides
<1>5. on \in BOOLEAN /\ vrr \in BOOLEAN
  OBVIOUS
<1>6. s \in HeadStates
  BY <1>1, <1>2, <1>3, <1>5 DEF HeadStates
<1>7. desire_head(h, r, cfg, auto) = [r EXCEPT !.overrided_enabled = ov, !.des = s]
  BY DEF desire_head
<1>8. [r EXCEPT !.overrided_enabled = ov, !.des = s] \in HeadRec
  <2> HIDE DEF ov, s
  <2>1. QED
    BY <1>4, <1>6 DEF HeadRec
<1>9. /\ [r EXCEPT !.overrided_enabled = ov, !.des = s].des = s
      /\ [r EXCEPT !.overrided_enabled = ov, !.des = s].cur = r.cur
      /\ [r EXCEPT !.overrided_enabled = ov, !.des = s].reapply_required = r.reapply_required
  <2> HIDE DEF ov, s
  <2>1. QED
    BY DEF HeadRec
<1>10. s.enabled => s.zmode \in r.modes /\ s.scale \in Scales
  BY <1>1, <1>3
<1>11. (s.zmode # r.cur.zmode \/ s.adaptive_sync # r.cur.adaptive_sync) /\ ~r.reapply_required
          => s.enabled
  OBVIOUS
<1> HIDE DEF ov, s
<1>12. QED
  BY <1>7, <1>8, <1>9, <1>10, <1>11
     DEF head_current_mode_not_desired, head_current_adaptive_sync_not_desired

-----------------------------------------------------------------------------
(* Sequences of events.                                                    *)

NoAnswer(s) == \A i \in 1..Len(s) : s[i].type \notin Answers

Quietly(s) == s \in Seq(Events) /\ NoAnswer(s)

(* Two sequences without answers make one without answers.                 *)
LEMMA QuietlyConcat ==
    ASSUME NEW s, NEW t, Quietly(s), Quietly(t)
    PROVE  Quietly(s \o t)
BY DEF Quietly, NoAnswer

(* An event that is no answer, alone, holds no answer.                     *)
LEMMA QuietlyOne ==
    ASSUME NEW e \in Events, e.type \notin Answers
    PROVE  Quietly(<<e>>)
BY DEF Quietly, NoAnswer

(* Neither does one that is sent only under a condition.                   *)
LEMMA QuietlyIf ==
    ASSUME NEW e \in Events, e.type \notin Answers, NEW c
    PROVE  Quietly(If(c, e))
BY QuietlyOne DEF If, Quietly, NoAnswer

(* Events that answer nothing leave the answers on the wire alone.         *)
LEMMA ConcatAnswers ==
    ASSUME NEW s \in Seq(Events), NEW t, Quietly(t)
    PROVE  /\ s \o t \in Seq(Events)
           /\ AnswersIn(s \o t) = AnswersIn(s)
BY DEF Quietly, NoAnswer, AnswersIn

(* An answer sent when none is on the wire is the only one.                *)
LEMMA AppendAnswer ==
    ASSUME NEW s \in Seq(Events), NEW e \in Events, e.type \in Answers, AnswersIn(s) = {}
    PROVE  /\ s \o <<e>> \in Seq(Events)
           /\ AnswersIn(s \o <<e>>) = {Len(s) + 1}
BY DEF AnswersIn

(* Taking the first event off the wire.                                    *)
LEMMA TailAnswers ==
    ASSUME NEW s \in Seq(Events), s # <<>>
    PROVE  /\ Tail(s) \in Seq(Events)
           /\ Head(s) \in Events
           /\ Head(s).type \notin Answers =>
                 /\ AnswersIn(Tail(s)) = {} <=> AnswersIn(s) = {}
                 /\ (\A i, j \in AnswersIn(s) : i = j) => (\A i, j \in AnswersIn(Tail(s)) : i = j)
           /\ Head(s).type \in Answers =>
                 /\ AnswersIn(s) # {}
                 /\ (\A i, j \in AnswersIn(s) : i = j) => AnswersIn(Tail(s)) = {}
<1>1. Tail(s) \in Seq(Events) /\ Head(s) \in Events /\ Head(s) = s[1] /\ Len(s) \in Nat /\ Len(s) # 0
  OBVIOUS
<1>2. /\ Len(Tail(s)) = Len(s) - 1
      /\ \A i \in 1..(Len(s) - 1) : Tail(s)[i] = s[i + 1]
  BY <1>1
<1>3. \A i : i \in AnswersIn(Tail(s)) => i + 1 \in AnswersIn(s) /\ i \in Nat /\ i # 0
  BY <1>1, <1>2 DEF AnswersIn
<1>4. \A i : i \in AnswersIn(s) => i = 1 \/ i - 1 \in AnswersIn(Tail(s))
  BY <1>1, <1>2 DEF AnswersIn
<1>5. 1 \in AnswersIn(s) <=> Head(s).type \in Answers
  BY <1>1 DEF AnswersIn
<1>6. QED
  BY <1>1, <1>3, <1>4, <1>5

-----------------------------------------------------------------------------
(* Typing of what the compositor sends.                                    *)

(* An event about a head is an event and no answer.                        *)
LEMMA EventType ==
    ASSUME NEW h \in Heads, NEW s \in HeadStates, NEW type \in HeadEventTypes \ ModeEventTypes
    PROVE  Event(type, h, s) \in Events /\ Event(type, h, s).type \notin Answers
BY DEF Event, Events, EventTypes, HeadEventTypes, ModeEventTypes, Answers

(* An event about a mode is an event and no answer.                        *)
LEMMA ModeEventType ==
    ASSUME NEW h \in Heads, NEW m \in Modes, NEW type \in ModeEventTypes
    PROVE  ModeEvent(type, h, m) \in Events /\ ModeEvent(type, h, m).type \notin Answers
<1> DEFINE s == [ZeroState EXCEPT !.zmode = m]
<1>1. s \in HeadStates /\ s.zmode = m
  BY DEF ZeroState, HeadStates, Positions
<1>2. ModeEvent(type, h, m) = [type |-> type, head |-> h, state |-> s]
  BY DEF ModeEvent, Event
<1> HIDE DEF s
<1>3. QED
  BY <1>1, <1>2 DEF Events, EventTypes, HeadEventTypes, ModeEventTypes, Answers

(* An answer or a done is an event of its own type.                        *)
LEMMA SignalType ==
    ASSUME NEW type \in Answers \cup {"done"}
    PROVE  Signal(type) \in Events /\ Signal(type).type = type
BY ZeroStateType DEF Signal, Event, Events, EventTypes, HeadEventTypes, ModeEventTypes, Answers

(* The description of a head holds no answer.                              *)
LEMMA DescribeQuietly ==
    ASSUME NEW h \in Heads, NEW from \in HeadStates, NEW to \in HeadStates
    PROVE  Quietly(Describe(h, from, to))
<1>1. ASSUME NEW c, NEW type \in {"enabled", "current_mode", "geometry", "adaptive_sync"}
      PROVE  Quietly(If(c, Event(type, h, to)))
  <2>1. type \in HeadEventTypes \ ModeEventTypes
    BY DEF HeadEventTypes, ModeEventTypes
  <2>2. QED
    BY <2>1, EventType, QuietlyIf
<1> DEFINE fresh == to.enabled /\ ~from.enabled
           sent(changed) == to.enabled /\ (fresh \/ changed)
           A == If(from.enabled # to.enabled, Event("enabled", h, to))
           B == If(sent(from.zmode # to.zmode), Event("current_mode", h, to))
           C == If(sent(<<from.scale, from.pos>> # <<to.scale, to.pos>>), Event("geometry", h, to))
           D == If(sent(from.adaptive_sync # to.adaptive_sync), Event("adaptive_sync", h, to))
<1>2. Quietly(A) /\ Quietly(B) /\ Quietly(C) /\ Quietly(D)
  BY <1>1
<1>3. Describe(h, from, to) = A \o B \o C \o D
  BY DEF Describe
<1> HIDE DEF A, B, C, D
<1>4. Quietly(A \o B)
  BY <1>2, QuietlyConcat
<1>5. Quietly((A \o B) \o C)
  BY <1>2, <1>4, QuietlyConcat
<1>6. QED
  BY <1>2, <1>3, <1>5, QuietlyConcat

(* The announcement of the modes of a head holds no answer.                *)
LEMMA ModeEventsQuietly ==
    ASSUME NEW h \in Heads, NEW type \in ModeEventTypes, offer \in [Heads -> Seq(Modes)]
    PROVE  Quietly(ModeEvents(type, h))
<1>1. offer[h] \in Seq(Modes) /\ Len(offer[h]) \in Nat
  OBVIOUS
<1>2. \A i \in 1..Len(offer[h]) : offer[h][i] \in Modes
  BY <1>1
<1>3. \A i \in 1..Len(offer[h]) :
        ModeEvent(type, h, offer[h][i]) \in Events /\ ModeEvent(type, h, offer[h][i]).type \notin Answers
  BY <1>2, ModeEventType
<1>4. QED
  BY <1>1, <1>3 DEF ModeEvents, Quietly, NoAnswer

-----------------------------------------------------------------------------
(* Typing of what the server computes.                                     *)

EnabledIfChanged(r) ==
    \A h \in heads :
        /\ head_current_mode_not_desired(r[h]) \/ head_current_adaptive_sync_not_desired(r[h])
        /\ ~r[h].reapply_required
        => r[h].des.enabled /\ r[h].des.zmode # NULL

(* desire gives every head a well formed record, and wants a new mode or   *)
(* adaptive sync only of a head that is to be enabled with a mode.         *)
LEMMA DesireType ==
    ASSUME DisplTypeOK, NEW r \in [Heads -> HeadRec]
    PROVE  desire(r) \in [Heads -> HeadRec] /\ EnabledIfChanged(desire(r))
<1> DEFINE alone    == \E h \in heads : heads = {h}
           auto(h)  == ~cfg_disabled_applies_to_head(g_cfg.disableds, h, heads, g_lid, alone)
           want     == [h \in heads |-> desire_head(h, r[h], g_cfg, auto(h))]
           Placed   == {h \in heads : want[h].des.enabled /\ want[h].des.zmode # NULL}
           before(h) == {<<g, want[g].des.zmode, want[g].des.scale>> :
                            g \in {f \in Placed : g_cfg.order[f] < g_cfg.order[h]}}
<1>1. heads \subseteq Heads /\ g_cfg \in CfgRec
  BY DEF DisplTypeOK
<1>2. ASSUME NEW h \in heads
      PROVE  /\ want[h] \in HeadRec
             /\ want[h].des.enabled => want[h].des.zmode \in Modes /\ want[h].des.scale \in Scales
             /\ (head_current_mode_not_desired(want[h]) \/ head_current_adaptive_sync_not_desired(want[h]))
                /\ ~want[h].reapply_required => want[h].des.enabled
  <2>1. auto(h) \in BOOLEAN /\ h \in Heads /\ r[h] \in HeadRec
    BY <1>1
  <2>2. want[h] = desire_head(h, r[h], g_cfg, auto(h))
    OBVIOUS
  <2>3. r[h].modes \subseteq Modes
    BY <2>1 DEF HeadRec
  <2> HIDE DEF want, auto
  <2>4. QED
    BY <1>1, <2>1, <2>2, <2>3, DesireHeadType
<1> HIDE DEF want
<1>3. ASSUME NEW h \in Heads
      PROVE  before(h) \in Positions
  BY <1>1, <1>2 DEF Positions
<1> HIDE DEF before
<1> DEFINE placed(h) == [want[h] EXCEPT !.des = [@ EXCEPT !.pos = before(h)]]
<1>4. ASSUME NEW h \in Placed
      PROVE  /\ placed(h) \in HeadRec
             /\ placed(h).cur = want[h].cur
             /\ placed(h).reapply_required = want[h].reapply_required
             /\ placed(h).des.enabled = want[h].des.enabled
             /\ placed(h).des.zmode = want[h].des.zmode
             /\ placed(h).des.adaptive_sync = want[h].des.adaptive_sync
  <2>1. want[h] \in HeadRec /\ before(h) \in Positions
    BY <1>1, <1>2, <1>3
  <2>2. QED
    BY <2>1 DEF HeadRec, HeadStates
<1>5. desire(r) = [h \in Heads |->
            IF h \in Placed THEN placed(h) ELSE IF h \in heads THEN want[h] ELSE r[h]]
  BY DEF desire, want, before
<1> HIDE DEF Placed, placed
<1>6. desire(r) \in [Heads -> HeadRec]
  BY <1>1, <1>2, <1>4, <1>5
<1>7. ASSUME NEW h \in heads,
             head_current_mode_not_desired(desire(r)[h]) \/ head_current_adaptive_sync_not_desired(desire(r)[h]),
             ~desire(r)[h].reapply_required
      PROVE  desire(r)[h].des.enabled /\ desire(r)[h].des.zmode # NULL
  <2>1. desire(r)[h] = IF h \in Placed THEN placed(h) ELSE want[h]
    BY <1>1, <1>5
  <2>2. want[h].des.enabled
    BY <1>2, <1>4, <1>7, <2>1
       DEF head_current_mode_not_desired, head_current_adaptive_sync_not_desired
  <2>3. want[h].des.zmode # NULL
    BY <1>2, <2>2, ModeAssumption
  <2>4. QED
    BY <1>4, <2>1, <2>2, <2>3
<1>8. QED
  BY <1>6, <1>7 DEF EnabledIfChanged

(* act_apply creates a well formed configuration, or none.                 *)
LEMMA ActApplyType ==
    ASSUME TypeOK, NEW r \in [Heads -> HeadRec], act_apply(r)
    PROVE  /\ hd' \in [Heads -> HeadRec]
           /\ state' \in {"IDLE", "OUTSTANDING"}
           /\ delta' \in Deltas
           /\ config' \in Configs
<1>1. heads \subseteq Heads /\ config \in Configs
  BY DEF TypeOK, DisplTypeOK
<1>2. ASSUME NEW on \in SUBSET Heads
      PROVE  WithZconfig(r, on) \in [Heads -> HeadRec]
  BY DEF WithZconfig, HeadRec
<1>3. ASSUME NEW on \in SUBSET Heads, NEW off \in SUBSET Heads, NEW kind \in Kinds,
             Configure(kind, on, off, r)
      PROVE  config' \in Configs /\ state' = "OUTSTANDING"
  <2>1. [h \in Heads |-> r[h].des] \in [Heads -> HeadStates]
    BY DEF HeadRec
  <2>2. DonePending \in BOOLEAN
    BY DEF DonePending
  <2>3. QED
    BY <1>3, <2>1, <2>2 DEF Configure, Configs
<1>4. CASE Nothing(r)
  BY <1>1, <1>4 DEF Nothing, NoDelta, Deltas
<1>5. CASE \E h \in ReapplyHeads(r) : ApplyReapply(h, r)
  <2>1. PICK h \in Heads : ApplyReapply(h, r)
    BY <1>1, <1>5 DEF ReapplyHeads, Changing
  <2>2. Configure("REAPPLY", {}, {h}, r)
    BY <2>1 DEF ApplyReapply
  <2>3. config' \in Configs /\ state' = "OUTSTANDING"
    BY <1>3, <2>2 DEF Kinds
  <2>4. hd' \in [Heads -> HeadRec] /\ delta' \in Deltas
    BY <2>1 DEF ApplyReapply, HeadRec, Deltas
  <2>5. QED
    BY <2>3, <2>4
<1>6. CASE \E h \in ModeHeads(r) : ApplyMode(h, r)
  <2>1. PICK h \in Heads : ApplyMode(h, r)
    BY <1>1, <1>6 DEF ModeHeads, Changing
  <2>2. Configure("MODE", {h}, {}, r)
    BY <2>1 DEF ApplyMode
  <2>3. config' \in Configs /\ state' = "OUTSTANDING"
    BY <1>3, <2>2 DEF Kinds
  <2>4. hd' \in [Heads -> HeadRec] /\ delta' \in Deltas
    BY <1>2, <2>1 DEF ApplyMode, HeadRec, HeadStates, Deltas
  <2>5. QED
    BY <2>3, <2>4
<1>7. CASE \E h \in VrrHeads(r) : ApplyVrr(h, r)
  <2>1. PICK h \in Heads : ApplyVrr(h, r)
    BY <1>1, <1>7 DEF VrrHeads, Changing
  <2>2. Configure("VRR", {h}, {}, r)
    BY <2>1 DEF ApplyVrr
  <2>3. config' \in Configs /\ state' = "OUTSTANDING"
    BY <1>3, <2>2 DEF Kinds
  <2>4. hd' \in [Heads -> HeadRec] /\ delta' \in Deltas
    BY <1>2, <2>1 DEF ApplyVrr, Deltas
  <2>5. QED
    BY <2>3, <2>4
<1>8. CASE ApplyOther(r)
  <2> DEFINE on == {h \in Changing(r) : r[h].des.enabled}
  <2>1. on \in SUBSET Heads /\ Changing(r) \ on \in SUBSET Heads
    BY <1>1 DEF Changing
  <2>2. /\ Configure("OTHER", on, Changing(r) \ on, r)
        /\ hd' = WithZconfig(r, on)
        /\ delta' = NoDelta
    BY <1>8 DEF ApplyOther
  <2> HIDE DEF on
  <2>3. QED
    BY <1>2, <1>3, <2>1, <2>2 DEF Kinds, NoDelta, Deltas
<1>9. QED
  BY <1>4, <1>5, <1>6, <1>7, <1>8 DEF act_apply

(* The listeners keep the record of a head well formed.                    *)
LEMMA HandlersType ==
    ASSUME NEW r \in HeadRec, NEW s \in HeadStates
    PROVE  /\ s.zmode \in Modes => add_mode(r, s) \in HeadRec
           /\ preferred(r, s) \in HeadRec
           /\ mode_finished(r, s) \in HeadRec
           /\ set_enabled(r, s) \in HeadRec
           /\ set_current_mode(r, s) \in HeadRec
           /\ set_geometry(r, s) \in HeadRec
           /\ set_adaptive_sync(r, s) \in HeadRec
<1>1. s.zmode \in Modes => add_mode(r, s) \in HeadRec
  BY DEF add_mode, HeadRec
<1>2. preferred(r, s) \in HeadRec /\ mode_finished(r, s) \in HeadRec
  <2>1. s.zmode \in Modes \cup {NULL}
    BY DEF HeadStates
  <2>2. QED
    BY <2>1, HeadOpsType DEF preferred, mode_finished
<1>3. set_enabled(r, s) \in HeadRec /\ set_current_mode(r, s) \in HeadRec
  BY DEF set_enabled, set_current_mode, HeadRec, HeadStates
<1>4. set_geometry(r, s) \in HeadRec /\ set_adaptive_sync(r, s) \in HeadRec
  BY DEF set_geometry, set_adaptive_sync, HeadRec, HeadStates
<1>5. QED
  BY <1>1, <1>2, <1>3, <1>4

(* Moving a refused mode away keeps the head well formed.                  *)
LEMMA FailedModeType ==
    ASSUME NEW r \in HeadRec, NEW m
    PROVE  mode_refused(r, m) \in HeadRec
<1> DEFINE c == [r.cur EXCEPT !.zmode = NULL]
           S == r.modes \ {m}
           F == r.modes_failed \cup ({m} \cap r.modes)
<1>1. c \in HeadStates
  BY DEF HeadRec, HeadStates
<1>2. S \in SUBSET Modes /\ F \in SUBSET Modes
  BY DEF HeadRec
<1>3. mode_refused(r, m) = [r EXCEPT !.modes = S, !.modes_failed = F, !.cur = c]
  BY DEF mode_refused
<1> HIDE DEF c, S, F
<1>4. QED
  BY <1>1, <1>2, <1>3 DEF HeadRec

(* Marking adaptive sync as failed keeps the head well formed.             *)
LEMMA VrrFailedType ==
    ASSUME NEW r \in HeadRec
    PROVE  adaptive_sync_refused(r) \in HeadRec
<1> DEFINE b == r.adaptive_sync_failed \/ head_current_adaptive_sync_not_desired(r)
<1>1. b \in BOOLEAN
  BY DEF head_current_adaptive_sync_not_desired
<1>2. adaptive_sync_refused(r) = [r EXCEPT !.adaptive_sync_failed = b]
  BY DEF adaptive_sync_refused
<1> HIDE DEF b
<1>3. QED
  BY <1>1, <1>2 DEF HeadRec

(* Recording the mode that succeeded keeps the head well formed.           *)
LEMMA CurModeType ==
    ASSUME NEW r \in HeadRec, NEW s, s.zmode \in Modes \cup {NULL}
    PROVE  set_current_mode(r, s) \in HeadRec
BY DEF set_current_mode, HeadRec, HeadStates

(* So act_handle_success and act_handle_failure give well formed heads.    *)
LEMMA HandledType ==
    ASSUME TypeOK, ~Dangling
    PROVE  /\ act_handle_failure \in [Heads -> HeadRec]
           /\ act_handle_success \in [Heads -> HeadRec]
<1>1. /\ hd \in [Heads -> HeadRec]
      /\ delta.element \in {"none", "MODE", "VRR_OFF"}
      /\ delta.zmode \in Modes \cup {NULL}
  BY DEF TypeOK, DisplTypeOK, Deltas
<1>2. delta.element # "none" => delta.head \in Heads
  BY DEF Dangling, TypeOK, DisplTypeOK
<1>3. ASSUME NEW h \in Heads, NEW g \in HeadRec
      PROVE  [hd EXCEPT ![h] = g] \in [Heads -> HeadRec]
  BY <1>1
<1>4. act_handle_failure \in [Heads -> HeadRec]
  <2>1. CASE delta.element = "MODE"
    <3> DEFINE h == delta.head
               g == mode_refused(hd[h], delta.zmode)
    <3>1. h \in Heads /\ hd[h] \in HeadRec
      BY <1>1, <1>2, <2>1
    <3>2. g \in HeadRec
      BY <3>1, FailedModeType
    <3>3. act_handle_failure = [hd EXCEPT ![h] = g]
      BY <2>1 DEF act_handle_failure
    <3> HIDE DEF g, h
    <3>4. QED
      BY <1>3, <3>1, <3>2, <3>3
  <2>2. CASE delta.element = "VRR_OFF"
    <3> DEFINE h == delta.head
               g == adaptive_sync_refused(hd[h])
    <3>1. h \in Heads /\ hd[h] \in HeadRec
      BY <1>1, <1>2, <2>2
    <3>2. g \in HeadRec
      BY <3>1, VrrFailedType
    <3>3. act_handle_failure = [hd EXCEPT ![h] = g]
      BY <2>2 DEF act_handle_failure
    <3> HIDE DEF g, h
    <3>4. QED
      BY <1>3, <3>1, <3>2, <3>3
  <2>3. CASE delta.element = "none"
    BY <1>1, <2>3 DEF act_handle_failure
  <2>4. QED
    BY <1>1, <2>1, <2>2, <2>3
<1>5. act_handle_success \in [Heads -> HeadRec]
  <2>1. CASE delta.element = "MODE"
    <3> DEFINE h == delta.head
               g == set_current_mode(hd[h], delta)
    <3>1. h \in Heads /\ hd[h] \in HeadRec
      BY <1>1, <1>2, <2>1
    <3>2. g \in HeadRec
      BY <1>1, <3>1, CurModeType
    <3>3. act_handle_success = [hd EXCEPT ![h] = g]
      BY <2>1 DEF act_handle_success
    <3> HIDE DEF g, h
    <3>4. QED
      BY <1>3, <3>1, <3>2, <3>3
  <2>2. CASE delta.element = "VRR_OFF"
    BY <1>4, <2>2 DEF act_handle_success
  <2>3. CASE delta.element = "none"
    BY <1>1, <2>3 DEF act_handle_success
  <2>4. QED
    BY <1>1, <2>1, <2>2, <2>3
<1>6. QED
  BY <1>4, <1>5

-----------------------------------------------------------------------------
(* The inductive invariant.  DeltaMatchesConfig needs OneConfiguration: no *)
(* act that writes delta may run while a configuration is unanswered.      *)

IInv == TypeOK /\ OneConfiguration /\ DeltaMatchesConfig /\ ChangeIsEnabled

(* The initial states satisfy the invariant.                               *)
LEMMA InitInv == Init => IInv
<1> SUFFICES ASSUME Init PROVE IInv
  OBVIOUS
<1>1. NoConfig \in Configs
  BY ZeroStateType DEF NoConfig, Configs, Kinds
<1>2. DisplTypeOK
  BY HeadInitType, DisplAssumption DEF Init, DisplInit, DisplTypeOK, DisplStates, NoDelta, Deltas, LidStates
<1>3. CompositorTypeOK
  BY ZeroStateType, CompositorAssumption DEF Init, CompositorInit, CompositorTypeOK
<1>4. config.status = "none" /\ wire = <<>> /\ inputs = 0 /\ refused = {} /\ config = NoConfig
  BY DEF Init, DisplInit, CompositorInit, NoConfig
<1>5. state = "IDLE"
  BY DEF Init, DisplInit
<1>6. TypeOK
  BY <1>1, <1>2, <1>3, <1>4 DEF TypeOK
<1>7. AnswersIn(wire) = {}
  BY <1>4 DEF AnswersIn
<1>8. QED
  BY <1>4, <1>5, <1>6, <1>7 DEF IInv, OneConfiguration, DeltaMatchesConfig, ChangeIsEnabled

(* What a listener must do to keep the invariant.                          *)
LEMMA DispatchInv ==
    ASSUME IInv, NEW type, Dispatch(type),
           hd' \in [Heads -> HeadRec], heads' \subseteq Heads,
           IF type \in Answers THEN state' \in DisplStates \ {"OUTSTANDING"} ELSE state' = state,
           UNCHANGED <<compositorVars, refused>>
    PROVE  IInv'
<1>1. /\ wire \in Seq(Events) /\ wire # <<>> /\ Head(wire).type = type /\ wire' = Tail(wire)
      /\ UNCHANGED <<delta, g_cancellation_retries, g_cfg, g_lid, ipc_operation, alive, inputs, config>>
      /\ phase' = "dispatch"
  BY DEF Dispatch, IInv, TypeOK
<1>2. /\ wire' \in Seq(Events)
      /\ type \notin Answers => /\ AnswersIn(wire') = {} <=> AnswersIn(wire) = {}
                                /\ (\A i, j \in AnswersIn(wire) : i = j) => (\A i, j \in AnswersIn(wire') : i = j)
      /\ type \in Answers => /\ AnswersIn(wire) # {}
                             /\ (\A i, j \in AnswersIn(wire) : i = j) => AnswersIn(wire') = {}
  BY <1>1, TailAnswers
<1>3. TypeOK'
  BY <1>1, <1>2 DEF IInv, TypeOK, DisplTypeOK, CompositorTypeOK, compositorVars, DisplStates
<1>4. OneConfiguration'
  BY <1>1, <1>2 DEF IInv, OneConfiguration
<1>5. DeltaMatchesConfig' /\ ChangeIsEnabled'
  BY <1>1 DEF IInv, DeltaMatchesConfig, ChangeIsEnabled
<1>6. QED
  BY <1>3, <1>4, <1>5 DEF IInv

(* Every listener keeps the invariant.                                     *)
LEMMA ListenInv ==
    ASSUME IInv, Listen, UNCHANGED <<compositorVars, refused>>
    PROVE  IInv'
<1>1. /\ hd \in [Heads -> HeadRec] /\ heads \subseteq Heads /\ head_init \in HeadRec
      /\ wire \in Seq(Events)
  BY HeadInitType DEF IInv, TypeOK, DisplTypeOK
<1>2. ASSUME NEW type \in HeadEventTypes, Dispatch(type)
      PROVE  /\ Head(wire).head \in Heads
             /\ Head(wire).state \in HeadStates
             /\ type \in ModeEventTypes => Head(wire).state.zmode \in Modes
             /\ type \notin Answers
  <2>1. Head(wire) \in Events /\ Head(wire).type = type
    BY <1>1, <1>2, TailAnswers DEF Dispatch
  <2>2. QED
    BY <2>1 DEF Events, HeadEventTypes, ModeEventTypes, Answers
<1>3. ASSUME NEW g \in HeadRec, NEW h \in Heads
      PROVE  [hd EXCEPT ![h] = g] \in [Heads -> HeadRec]
  BY <1>1
<1>4. CASE HeadAdded
  <2>1. Dispatch("head") /\ "head" \in HeadEventTypes
    BY <1>4 DEF HeadAdded, HeadEventTypes
  <2>2. Head(wire).head \in Heads /\ "head" \notin Answers
    BY <1>2, <2>1
  <2>3. heads' = heads \cup {Head(wire).head} /\ hd' = [hd EXCEPT ![Head(wire).head] = head_init] /\ state' = state
    BY <1>4 DEF HeadAdded
  <2>4. heads' \subseteq Heads /\ hd' \in [Heads -> HeadRec]
    BY <1>1, <1>3, <2>2, <2>3
  <2>5. QED
    BY <2>1, <2>2, <2>3, <2>4, DispatchInv
<1>5. CASE HeadFinished
  <2>1. Dispatch("finished") /\ "finished" \in HeadEventTypes
    BY <1>5 DEF HeadFinished, HeadEventTypes
  <2>2. Head(wire).head \in Heads /\ "finished" \notin Answers
    BY <1>2, <2>1
  <2>3. heads' = heads \ {Head(wire).head} /\ hd' = [hd EXCEPT ![Head(wire).head] = head_init] /\ state' = state
    BY <1>5 DEF HeadFinished
  <2>4. heads' \subseteq Heads /\ hd' \in [Heads -> HeadRec]
    BY <1>1, <1>3, <2>2, <2>3
  <2>5. QED
    BY <2>1, <2>2, <2>3, <2>4, DispatchInv
<1>6. ASSUME NEW type \in HeadEventTypes, Dispatch(type), NEW g,
             g \in HeadRec, hd' = [hd EXCEPT ![Head(wire).head] = g], UNCHANGED <<heads, state>>
      PROVE  IInv'
  <2>1. Head(wire).head \in Heads /\ type \notin Answers
    BY <1>2, <1>6
  <2>2. hd' \in [Heads -> HeadRec] /\ heads' \subseteq Heads /\ state' = state
    BY <1>1, <1>3, <1>6, <2>1
  <2>3. QED
    BY <1>6, <2>1, <2>2, DispatchInv
<1> DEFINE r == hd[Head(wire).head]
           s == Head(wire).state
<1>7. ASSUME NEW type \in HeadEventTypes, Dispatch(type)
      PROVE  /\ type \in ModeEventTypes => add_mode(r, s) \in HeadRec
             /\ preferred(r, s) \in HeadRec
             /\ mode_finished(r, s) \in HeadRec
             /\ set_enabled(r, s) \in HeadRec
             /\ set_current_mode(r, s) \in HeadRec
             /\ set_geometry(r, s) \in HeadRec
             /\ set_adaptive_sync(r, s) \in HeadRec
  <2>1. r \in HeadRec /\ s \in HeadStates /\ (type \in ModeEventTypes => s.zmode \in Modes)
    BY <1>1, <1>2, <1>7
  <2> HIDE DEF r, s
  <2>2. QED
    BY <2>1, HandlersType
<1>8. CASE ModeAdded
  <2>1. Dispatch("mode") /\ "mode" \in HeadEventTypes /\ "mode" \in ModeEventTypes
    BY <1>8 DEF ModeAdded, DispatchHead, HeadEventTypes, ModeEventTypes
  <2>2. hd' = [hd EXCEPT ![Head(wire).head] = add_mode(r, s)] /\ UNCHANGED <<heads, state>>
    BY <1>8 DEF ModeAdded, DispatchHead
  <2>3. QED
    BY <1>6, <1>7, <2>1, <2>2
<1>9. CASE ModePreferred
  <2>1. Dispatch("preferred") /\ "preferred" \in HeadEventTypes
    BY <1>9 DEF ModePreferred, DispatchHead, HeadEventTypes, ModeEventTypes
  <2>2. hd' = [hd EXCEPT ![Head(wire).head] = preferred(r, s)] /\ UNCHANGED <<heads, state>>
    BY <1>9 DEF ModePreferred, DispatchHead
  <2>3. QED
    BY <1>6, <1>7, <2>1, <2>2
<1>10. CASE ModeFinished
  <2>1. Dispatch("mode_finished") /\ "mode_finished" \in HeadEventTypes
    BY <1>10 DEF ModeFinished, DispatchHead, HeadEventTypes, ModeEventTypes
  <2>2. hd' = [hd EXCEPT ![Head(wire).head] = mode_finished(r, s)] /\ UNCHANGED <<heads, state>>
    BY <1>10 DEF ModeFinished, DispatchHead
  <2>3. QED
    BY <1>6, <1>7, <2>1, <2>2
<1>11. CASE HeadEnabled
  <2>1. Dispatch("enabled") /\ "enabled" \in HeadEventTypes
    BY <1>11 DEF HeadEnabled, DispatchHead, HeadEventTypes
  <2>2. hd' = [hd EXCEPT ![Head(wire).head] = set_enabled(r, s)] /\ UNCHANGED <<heads, state>>
    BY <1>11 DEF HeadEnabled, DispatchHead
  <2>3. QED
    BY <1>6, <1>7, <2>1, <2>2
<1>12. CASE HeadCurrentMode
  <2>1. Dispatch("current_mode") /\ "current_mode" \in HeadEventTypes
    BY <1>12 DEF HeadCurrentMode, DispatchHead, HeadEventTypes
  <2>2. hd' = [hd EXCEPT ![Head(wire).head] = set_current_mode(r, s)] /\ UNCHANGED <<heads, state>>
    BY <1>12 DEF HeadCurrentMode, DispatchHead
  <2>3. QED
    BY <1>6, <1>7, <2>1, <2>2
<1>13. CASE HeadGeometry
  <2>1. Dispatch("geometry") /\ "geometry" \in HeadEventTypes
    BY <1>13 DEF HeadGeometry, DispatchHead, HeadEventTypes
  <2>2. hd' = [hd EXCEPT ![Head(wire).head] = set_geometry(r, s)] /\ UNCHANGED <<heads, state>>
    BY <1>13 DEF HeadGeometry, DispatchHead
  <2>3. QED
    BY <1>6, <1>7, <2>1, <2>2
<1>14. CASE HeadAdaptiveSync
  <2>1. Dispatch("adaptive_sync") /\ "adaptive_sync" \in HeadEventTypes
    BY <1>14 DEF HeadAdaptiveSync, DispatchHead, HeadEventTypes
  <2>2. hd' = [hd EXCEPT ![Head(wire).head] = set_adaptive_sync(r, s)] /\ UNCHANGED <<heads, state>>
    BY <1>14 DEF HeadAdaptiveSync, DispatchHead
  <2>3. QED
    BY <1>6, <1>7, <2>1, <2>2
<1>15. CASE ManagerDone
  <2>1. Dispatch("done") /\ "done" \notin Answers /\ UNCHANGED <<heads, hd, state>>
    BY <1>15 DEF ManagerDone, Answers
  <2>2. hd' \in [Heads -> HeadRec] /\ heads' \subseteq Heads /\ state' = state
    BY <1>1, <2>1
  <2>3. QED
    BY <2>1, <2>2, DispatchInv
<1>16. CASE succeeded \/ failed \/ cancelled
  <2>1. PICK type \in Answers, st \in DisplStates \ {"OUTSTANDING"} : cleanup(type, st)
    BY <1>16 DEF succeeded, failed, cancelled, Answers, DisplStates
  <2>2. hd' \in [Heads -> HeadRec]
    BY <1>1, <2>1 DEF cleanup, HeadRec
  <2>3. Dispatch(type) /\ state' = st /\ heads' = heads
    BY <2>1 DEF cleanup
  <2>4. QED
    BY <1>1, <2>2, <2>3, DispatchInv
<1>17. QED
  BY <1>4, <1>5, <1>8, <1>9, <1>10, <1>11, <1>12, <1>13, <1>14, <1>15, <1>16 DEF Listen

(* act_apply runs when nothing is unanswered, and delta names what it sent. *)
LEMMA ApplyInv ==
    ASSUME IInv, state # "OUTSTANDING", NEW r \in [Heads -> HeadRec], EnabledIfChanged(r),
           act_apply(r), wire' = wire
    PROVE  OneConfiguration' /\ DeltaMatchesConfig' /\ ChangeIsEnabled'
<1>1. config.status = "none" /\ AnswersIn(wire) = {} /\ AnswersIn(wire') = {}
  BY DEF IInv, OneConfiguration
<1>2. ASSUME NEW kind, NEW on, NEW off, Configure(kind, on, off, r)
      PROVE  /\ config'.status = "sent" /\ config'.kind = kind /\ config'.on = on
             /\ \A h \in Heads : config'.want[h] = r[h].des
             /\ OneConfiguration'
  BY <1>1, <1>2 DEF Configure, OneConfiguration
<1>3. heads \subseteq Heads
  BY DEF IInv, TypeOK, DisplTypeOK
<1>4. CASE Nothing(r)
  BY <1>1, <1>4 DEF Nothing, OneConfiguration, DeltaMatchesConfig, ChangeIsEnabled
<1>5. CASE \E h \in ReapplyHeads(r) : ApplyReapply(h, r)
  <2>1. PICK h : ApplyReapply(h, r)
    BY <1>5
  <2>2. Configure("REAPPLY", {}, {h}, r) /\ delta'.element = "none"
    BY <2>1 DEF ApplyReapply
  <2>3. config'.kind = "REAPPLY" /\ OneConfiguration'
    BY <1>2, <2>2
  <2>4. QED
    BY <2>2, <2>3 DEF DeltaMatchesConfig, ChangeIsEnabled
<1>6. CASE ReapplyHeads(r) = {} /\ \E h \in ModeHeads(r) : ApplyMode(h, r)
  <2>1. PICK h \in Heads : ApplyMode(h, r) /\ r[h].des.enabled /\ r[h].des.zmode # NULL
    BY <1>3, <1>6 DEF ModeHeads, Changing, ReapplyHeads, EnabledIfChanged
  <2>2. /\ Configure("MODE", {h}, {}, r)
        /\ delta'.element = "MODE" /\ delta'.head = h /\ delta'.zmode = r[h].des.zmode
    BY <2>1 DEF ApplyMode
  <2>3. config'.kind = "MODE" /\ config'.on = {h} /\ config'.want[h] = r[h].des /\ OneConfiguration'
    BY <1>2, <2>2
  <2>4. QED
    BY <2>1, <2>2, <2>3 DEF DeltaMatchesConfig, ChangeIsEnabled
<1>7. CASE ReapplyHeads(r) = {} /\ \E h \in VrrHeads(r) : ApplyVrr(h, r)
  <2>1. PICK h \in Heads : ApplyVrr(h, r) /\ r[h].des.enabled /\ r[h].des.zmode # NULL
    BY <1>3, <1>7 DEF VrrHeads, Changing, ReapplyHeads, EnabledIfChanged
  <2>2. Configure("VRR", {h}, {}, r) /\ delta'.element = "VRR_OFF" /\ delta'.head = h
    BY <2>1 DEF ApplyVrr
  <2>3. config'.kind = "VRR" /\ config'.on = {h} /\ config'.want[h] = r[h].des /\ OneConfiguration'
    BY <1>2, <2>2
  <2>4. QED
    BY <2>1, <2>2, <2>3 DEF DeltaMatchesConfig, ChangeIsEnabled
<1>8. CASE ApplyOther(r)
  <2>1. PICK on, off : Configure("OTHER", on, off, r)
    BY <1>8 DEF ApplyOther
  <2>2. delta'.element = "none"
    BY <1>8 DEF ApplyOther, NoDelta
  <2>3. config'.kind = "OTHER" /\ OneConfiguration'
    BY <1>2, <2>1
  <2>4. QED
    BY <2>2, <2>3 DEF DeltaMatchesConfig, ChangeIsEnabled
<1>9. QED
  BY <1>4, <1>5, <1>6, <1>7, <1>8 DEF act_apply

(* The part of the type that no act changes.                               *)
LEMMA BeginActType ==
    ASSUME IInv, NEW s, BeginAct(s), UNCHANGED <<compositorVars, refused>>,
           hd' \in [Heads -> HeadRec], state' \in DisplStates, delta' \in Deltas, config' \in Configs,
           g_cancellation_retries' \in Nat, ipc_operation' \in BOOLEAN,
           alive' \in {"running", "failed", "crashed"}
    PROVE  TypeOK'
BY DEF IInv, BeginAct, TypeOK, DisplTypeOK, CompositorTypeOK, compositorVars

(* An act that applies what is desired of the handled records r.           *)
LEMMA ActApplies ==
    ASSUME IInv, NEW s, s # "OUTSTANDING", BeginAct(s), NEW r \in [Heads -> HeadRec],
           act_apply(desire(r)), notify_ipc_operation, g_cancellation_retries' \in Nat,
           UNCHANGED <<alive, compositorVars, refused>>
    PROVE  IInv'
<1>1. /\ TypeOK /\ DisplTypeOK /\ wire' = wire /\ state # "OUTSTANDING" /\ alive' = "running"
  BY DEF IInv, TypeOK, BeginAct
<1>2. desire(r) \in [Heads -> HeadRec] /\ EnabledIfChanged(desire(r))
  BY <1>1, DesireType
<1>3. hd' \in [Heads -> HeadRec] /\ state' \in {"IDLE", "OUTSTANDING"} /\ delta' \in Deltas /\ config' \in Configs
  BY <1>1, <1>2, ActApplyType
<1>4. ipc_operation' \in BOOLEAN
  BY DEF notify_ipc_operation
<1>5. TypeOK'
  BY <1>1, <1>3, <1>4, BeginActType DEF DisplStates
<1>6. OneConfiguration' /\ DeltaMatchesConfig' /\ ChangeIsEnabled'
  BY <1>1, <1>2, ApplyInv
<1>7. QED
  BY <1>5, <1>6 DEF IInv

(* An act that leaves the configuration alone, and waits, gives up or ends. *)
LEMMA ActKeeps ==
    ASSUME IInv, NEW s, BeginAct(s), UNCHANGED <<hd, delta, config, compositorVars, refused>>,
           state' = state \/ (state = "CANCELLED" /\ state' = "IDLE"),
           g_cancellation_retries' \in Nat, ipc_operation' \in BOOLEAN,
           alive' \in {"running", "failed", "crashed"}
    PROVE  IInv'
<1>1. /\ hd \in [Heads -> HeadRec] /\ state' \in DisplStates /\ delta \in Deltas /\ config \in Configs
      /\ wire' = wire
  BY DEF IInv, TypeOK, DisplTypeOK, DisplStates, BeginAct
<1>2. TypeOK'
  BY <1>1, BeginActType
<1>3. OneConfiguration' /\ DeltaMatchesConfig' /\ ChangeIsEnabled'
  BY <1>1 DEF IInv, OneConfiguration, DeltaMatchesConfig, ChangeIsEnabled, AnswersIn
<1>4. QED
  BY <1>2, <1>3 DEF IInv

(* Every branch of act keeps the invariant.                                *)
LEMMA ActInv ==
    ASSUME IInv, act, UNCHANGED <<compositorVars, refused>>
    PROVE  IInv'
<1>1. /\ hd \in [Heads -> HeadRec] /\ g_cancellation_retries \in Nat /\ ipc_operation \in BOOLEAN
      /\ g_cancellation_retries + 1 \in Nat /\ 0 \in Nat /\ TypeOK
      /\ alive \in {"running", "signalled", "failed", "crashed"}
  BY DEF IInv, TypeOK, DisplTypeOK
<1>2. notify_ipc_operation => ipc_operation' \in BOOLEAN
  BY DEF notify_ipc_operation
<1>3. \A s : BeginAct(s) => alive = "running"
  BY DEF BeginAct
<1>4. CASE ActIdle
  <2>1. /\ BeginAct("IDLE") /\ act_apply(desire(hd)) /\ notify_ipc_operation
        /\ UNCHANGED <<g_cancellation_retries, alive>>
    BY <1>4 DEF ActIdle
  <2>2. QED
    BY <1>1, <2>1, ActApplies
<1>5. CASE ActOutstanding
  <2>1. BeginAct("OUTSTANDING") /\ UNCHANGED <<hd, state, delta, config, g_cancellation_retries, alive>>
        /\ notify_ipc_operation
    BY <1>5 DEF ActOutstanding
  <2>2. QED
    BY <1>1, <1>2, <1>3, <2>1, ActKeeps
<1>6. CASE ActSucceeded
  <2> DEFINE r == IF Dangling THEN hd ELSE act_handle_success
  <2>1. /\ BeginAct("SUCCEEDED") /\ act_apply(desire(r)) /\ notify_ipc_operation
        /\ g_cancellation_retries' = 0 /\ UNCHANGED alive
    BY <1>6 DEF ActSucceeded
  <2>2. r \in [Heads -> HeadRec]
    BY <1>1, HandledType
  <2> HIDE DEF r
  <2>3. QED
    BY <1>1, <2>1, <2>2, ActApplies
<1>7. CASE ActFailed
  <2> DEFINE r == IF Dangling THEN hd ELSE act_handle_failure
  <2>1. /\ BeginAct("FAILED") /\ act_apply(desire(r)) /\ notify_ipc_operation
        /\ UNCHANGED <<g_cancellation_retries, alive>>
    BY <1>7 DEF ActFailed
  <2>2. r \in [Heads -> HeadRec]
    BY <1>1, HandledType
  <2> HIDE DEF r
  <2>3. QED
    BY <1>1, <2>1, <2>2, ActApplies
<1>8. CASE ActCrash
  <2>1. /\ BeginAct(state) /\ alive' = "crashed"
        /\ UNCHANGED <<hd, state, delta, config, g_cancellation_retries, ipc_operation>>
    BY <1>8 DEF ActCrash
  <2>2. QED
    BY <1>1, <2>1, ActKeeps
<1>9. CASE ActExit
  <2>1. /\ BeginAct("FAILED") /\ alive' = "failed"
        /\ UNCHANGED <<hd, state, delta, config, g_cancellation_retries, ipc_operation>>
    BY <1>9 DEF ActExit
  <2>2. QED
    BY <1>1, <2>1, ActKeeps
<1>10. CASE ActRetry
  <2>1. /\ BeginAct("CANCELLED") /\ act_apply(desire(hd)) /\ notify_ipc_operation
        /\ g_cancellation_retries' = g_cancellation_retries + 1 /\ UNCHANGED alive
    BY <1>10 DEF ActRetry
  <2>2. QED
    BY <1>1, <2>1, ActApplies
<1>11. CASE ActGiveUp
  <2>1. /\ BeginAct("CANCELLED") /\ state = "CANCELLED" /\ state' = "IDLE" /\ notify_ipc_operation
        /\ g_cancellation_retries' = g_cancellation_retries + 1
        /\ UNCHANGED <<hd, delta, config, alive>>
    BY <1>11 DEF ActGiveUp, BeginAct
  <2>2. QED
    BY <1>1, <1>2, <1>3, <2>1, ActKeeps
<1>12. QED
  BY <1>4, <1>5, <1>6, <1>7, <1>8, <1>9, <1>10, <1>11 DEF act

(* An input that touches neither the wire nor the configuration.           *)
LEMMA InputInv ==
    ASSUME IInv, NEW stage \in {"cfg", "lid", "ipc"}, Input(stage),
           hd' \in [Heads -> HeadRec], g_cfg' \in CfgRec, g_lid' \in LidStates,
           ipc_operation' \in BOOLEAN, UNCHANGED compositorVars, refused' \subseteq Heads \X Modes
    PROVE  IInv'
<1>1. /\ inputs' \in Nat /\ phase' \in {"cfg", "lid", "ipc"}
      /\ UNCHANGED <<wire, config, heads, state, delta, g_cancellation_retries, alive>>
  BY DEF IInv, TypeOK, Input, CountInput
<1>2. TypeOK'
  BY <1>1 DEF IInv, TypeOK, DisplTypeOK, CompositorTypeOK, compositorVars
<1>3. OneConfiguration' /\ DeltaMatchesConfig' /\ ChangeIsEnabled'
  BY <1>1 DEF IInv, OneConfiguration, DeltaMatchesConfig, ChangeIsEnabled, AnswersIn
<1>4. QED
  BY <1>2, <1>3 DEF IInv

(* The merges of an IPC request keep a configuration well formed.          *)
LEMMA MergeType ==
    ASSUME NEW cfg \in CfgRec, NEW nd \in NameDesc, NEW c \in Commands
    PROVE  /\ [cfg EXCEPT !.disableds = cfg_merge_disabled(@, nd, c)] \in CfgRec
           /\ [cfg EXCEPT !.adaptive_sync_off = cfg_merge_adaptive_sync_off(@, nd, c)] \in CfgRec
<1>1. cfg_merge_disabled(cfg.disableds, nd, c) \in SUBSET Disabled
  <2> DEFINE others == {d \in cfg.disableds : d.name_desc # nd}
             entry  == {[name_desc |-> nd, conditions |-> {}]}
  <2>1. others \in SUBSET Disabled /\ cfg.disableds \in SUBSET Disabled /\ entry \in SUBSET Disabled
    BY DEF CfgRec, Disabled
  <2>2. cfg_merge_disabled(cfg.disableds, nd, c) \in
            {others, others \cup entry, cfg.disableds \cup entry}
    <3>1. CASE c = "CFG_SET"
      BY <3>1 DEF cfg_merge_disabled
    <3>2. CASE c = "CFG_DEL"
      BY <3>2 DEF cfg_merge_disabled
    <3>3. CASE c = "CFG_TOGGLE"
      BY <3>3 DEF cfg_merge_disabled
    <3>4. QED
      BY <3>1, <3>2, <3>3 DEF Commands
  <2> HIDE DEF others, entry
  <2>3. QED
    BY <2>1, <2>2
<1>2. cfg_merge_adaptive_sync_off(cfg.adaptive_sync_off, nd, c) \in SUBSET NameDesc
  <2>1. cfg.adaptive_sync_off \in SUBSET NameDesc
    BY DEF CfgRec
  <2>2. CASE c = "CFG_SET"
    BY <2>1, <2>2 DEF cfg_merge_adaptive_sync_off
  <2>3. CASE c = "CFG_DEL"
    BY <2>1, <2>3 DEF cfg_merge_adaptive_sync_off
  <2>4. CASE c = "CFG_TOGGLE"
    BY <2>1, <2>4 DEF cfg_merge_adaptive_sync_off
  <2>5. QED
    BY <2>2, <2>3, <2>4 DEF Commands
<1>3. QED
  BY <1>1, <1>2 DEF CfgRec

(* The cfg file, the lid, IPC requests and signals keep the invariant.     *)
LEMMA InputsInv ==
    ASSUME IInv, Inputs, UNCHANGED <<compositorVars, refused>>
    PROVE  IInv'
<1>1. /\ hd \in [Heads -> HeadRec] /\ g_cfg \in CfgRec /\ g_lid \in LidStates /\ ipc_operation \in BOOLEAN
      /\ heads \subseteq Heads /\ refused' \subseteq Heads \X Modes
  BY DEF IInv, TypeOK, DisplTypeOK
<1>2. ASSUME NEW c \in Cfgs \cup {g_cfg}, g_cfg_file_reload(c)
      PROVE  IInv'
  <2>1. Input("cfg") /\ g_cfg' \in CfgRec /\ UNCHANGED <<hd, g_lid, ipc_operation>>
    BY <1>1, <1>2, DisplAssumption DEF g_cfg_file_reload
  <2>2. QED
    BY <1>1, <2>1, InputInv
<1>3. ASSUME NEW closed \in BOOLEAN, g_lid_update(closed)
      PROVE  IInv'
  <2>1. Input("lid") /\ g_lid' \in LidStates /\ UNCHANGED <<hd, g_cfg, ipc_operation>>
    BY <1>1, <1>3 DEF g_lid_update, LidStates
  <2>2. QED
    BY <1>1, <2>1, InputInv
<1>4. ASSUME NEW h \in Heads, NEW c \in Commands, IpcVrrOff(c, {h})
      PROVE  IInv'
  <2>1. {h} \in NameDesc
    BY DEF NameDesc
  <2>2. /\ Input("ipc") /\ UNCHANGED <<hd, g_lid>> /\ ipc_operation' \in BOOLEAN
        /\ g_cfg' = [g_cfg EXCEPT !.adaptive_sync_off = cfg_merge_adaptive_sync_off(@, {h}, c)]
    BY <1>4 DEF IpcVrrOff, IpcMerged
  <2>3. g_cfg' \in CfgRec
    BY <1>1, <2>1, <2>2, MergeType
  <2>4. QED
    BY <1>1, <2>2, <2>3, InputInv
<1>5. ASSUME NEW h \in Heads, NEW c \in Commands, IpcDisabled(c, {h})
      PROVE  IInv'
  <2>1. {h} \in NameDesc
    BY DEF NameDesc
  <2> DEFINE merged == [g_cfg EXCEPT !.disableds = cfg_merge_disabled(@, {h}, c)]
             O == {k \in heads : head_overrides_ipc_disabled(k, g_cfg.disableds, {h})}
  <2>2. /\ Input("ipc") /\ UNCHANGED g_lid /\ ipc_operation' \in BOOLEAN
        /\ g_cfg' = g_cfg \/ g_cfg' = merged
        /\ hd' = [k \in Heads |-> IF k \in O THEN head_override_ipc_disableds(hd[k], c) ELSE hd[k]]
    BY <1>5 DEF IpcDisabled, IpcMerged
  <2>3. merged \in CfgRec
    BY <1>1, <2>1, MergeType
  <2>4. \A k \in Heads : head_override_ipc_disableds(hd[k], c) \in HeadRec
    BY <1>1, OverrideIpcType
  <2> HIDE DEF merged, O
  <2>5. hd' \in [Heads -> HeadRec]
    BY <1>1, <2>2, <2>4
  <2>6. QED
    BY <1>1, <2>2, <2>3, <2>5, InputInv
<1>6. ASSUME IpcInProgress
      PROVE  IInv'
  <2>1. Input("ipc") /\ UNCHANGED <<hd, g_cfg, g_lid, ipc_operation>>
    BY <1>6 DEF IpcInProgress
  <2>2. QED
    BY <1>1, <2>1, InputInv
<1>7. ASSUME Signalled
      PROVE  IInv'
  <2>1. /\ UNCHANGED <<wire, config, heads, hd, state, delta, g_cancellation_retries, g_cfg, g_lid,
                       ipc_operation, phase, inputs>>
        /\ alive' = "signalled"
    BY <1>7 DEF Signalled
  <2>2. TypeOK'
    BY <2>1 DEF IInv, TypeOK, DisplTypeOK, CompositorTypeOK, compositorVars
  <2>3. OneConfiguration' /\ DeltaMatchesConfig' /\ ChangeIsEnabled'
    BY <2>1 DEF IInv, OneConfiguration, DeltaMatchesConfig, ChangeIsEnabled, AnswersIn
  <2>4. QED
    BY <2>2, <2>3 DEF IInv
<1>8. QED
  BY <1>2, <1>3, <1>4, <1>5, <1>6, <1>7 DEF Inputs

(* A REAPPLY request keeps the invariant.                                  *)
LEMMA ReapplyInv ==
    ASSUME IInv, Reapply, UNCHANGED compositorVars
    PROVE  IInv'
<1>1. /\ Input("ipc") /\ ipc_operation' = TRUE /\ UNCHANGED <<g_cfg, g_lid>> /\ refused' = {}
      /\ hd' = [h \in Heads |-> IF h \in heads THEN head_reapply(hd[h]) ELSE hd[h]]
  BY DEF Reapply, IpcReapply
<1>2. hd \in [Heads -> HeadRec] /\ g_cfg \in CfgRec /\ g_lid \in LidStates
  BY DEF IInv, TypeOK, DisplTypeOK
<1>3. \A h \in Heads : head_reapply(hd[h]) \in HeadRec
  BY <1>2, HeadOpsType
<1>4. hd' \in [Heads -> HeadRec]
  BY <1>1, <1>2, <1>3
<1>5. QED
  BY <1>1, <1>2, <1>4, InputInv

-----------------------------------------------------------------------------
(* Steps of the compositor.                                                *)

(* Making a configuration outdated changes neither its kind nor its heads. *)
LEMMA OutdatedType ==
    ASSUME config \in Configs
    PROVE  /\ Outdated \in Configs
           /\ Outdated.status = config.status /\ Outdated.kind = config.kind
           /\ Outdated.on = config.on /\ Outdated.want = config.want
<1> DEFINE b == config.stale \/ config.status = "sent"
<1>1. b \in BOOLEAN
  BY DEF Configs
<1>2. Outdated = [config EXCEPT !.stale = b]
  BY DEF Outdated
<1> HIDE DEF b
<1>3. QED
  BY <1>1, <1>2 DEF Configs

(* A step that sends events other than answers.                            *)
LEMMA AnnounceInv ==
    ASSUME IInv, NEW events, Quietly(events), Announce(events),
           UNCHANGED <<displVars, refused>>, CompositorTypeOK'
    PROVE  IInv'
<1>1. Quietly(events \o <<Signal("done")>>)
  <2>1. Signal("done") \in Events /\ Signal("done").type \notin Answers
    BY SignalType DEF Answers
  <2>2. QED
    BY <2>1, QuietlyOne, QuietlyConcat
<1>2. wire' = wire \o (events \o <<Signal("done")>>) /\ inputs' = inputs /\ config' = Outdated
  BY DEF Announce, Send
<1>3. wire' \in Seq(Events) /\ AnswersIn(wire') = AnswersIn(wire)
  BY <1>1, <1>2, ConcatAnswers DEF IInv, TypeOK
<1>4. /\ config' \in Configs /\ config'.status = config.status /\ config'.kind = config.kind
      /\ config'.on = config.on /\ config'.want = config.want
  BY <1>2, OutdatedType DEF IInv, TypeOK
<1>5. TypeOK'
  BY <1>2, <1>3, <1>4 DEF IInv, TypeOK, DisplTypeOK, displVars
<1>6. OneConfiguration'
  BY <1>3, <1>4 DEF IInv, OneConfiguration, displVars
<1>7. DeltaMatchesConfig' /\ ChangeIsEnabled'
  BY <1>4 DEF IInv, DeltaMatchesConfig, ChangeIsEnabled, displVars
<1>8. QED
  BY <1>5, <1>6, <1>7 DEF IInv

(* A step that sends the answer to the configuration.                      *)
LEMMA AnswerInv ==
    ASSUME IInv, NEW type \in Answers, config.status # "none", Answer(type),
           UNCHANGED displVars, refused' \subseteq Heads \X Modes
    PROVE  IInv'
<1>1. Signal(type) \in Events /\ Signal(type).type \in Answers
  BY SignalType
<1>2. wire' = wire \o <<Signal(type)>> /\ inputs' = inputs /\ config' = NoConfig /\ UNCHANGED compositorVars
  BY DEF Answer, Send
<1>3. AnswersIn(wire) = {} /\ state = "OUTSTANDING" /\ wire \in Seq(Events)
  BY DEF IInv, OneConfiguration, TypeOK
<1>4. wire' \in Seq(Events) /\ AnswersIn(wire') = {Len(wire) + 1}
  BY <1>1, <1>2, <1>3, AppendAnswer
<1>5. NoConfig \in Configs /\ NoConfig.status = "none"
  BY ZeroStateType DEF NoConfig, Configs, Kinds
<1>6. TypeOK'
  BY <1>2, <1>4, <1>5 DEF IInv, TypeOK, DisplTypeOK, CompositorTypeOK, displVars, compositorVars
<1>7. OneConfiguration'
  BY <1>2, <1>3, <1>4, <1>5 DEF OneConfiguration, displVars
<1>8. DeltaMatchesConfig' /\ ChangeIsEnabled'
  BY <1>2, <1>5 DEF DeltaMatchesConfig, ChangeIsEnabled
<1>9. QED
  BY <1>6, <1>7, <1>8 DEF IInv

(* Displays that arrive and depart keep the invariant.                     *)
LEMMA PluggingInv ==
    ASSUME IInv, Plugging, UNCHANGED <<displVars, refused>>
    PROVE  IInv'
<1>1. /\ screen \in [Heads -> HeadStates] /\ told \in [Heads -> HeadStates]
      /\ offer \in [Heads -> Seq(Modes)] /\ plugged \subseteq used /\ used \subseteq Heads
  BY DEF IInv, TypeOK, CompositorTypeOK
<1>2. ASSUME NEW h \in Heads, NEW on \in BOOLEAN, Plug(h, on)
      PROVE  IInv'
  <2> DEFINE s == [ZeroState EXCEPT !.zmode = IF Offer[h] = <<>> THEN NULL ELSE Offer[h][1],
                                    !.enabled = on /\ Offer[h] # <<>>]
             events == <<Event("head", h, ZeroState)>>
                       \o ModeEvents("mode", h)
                       \o If(Preferred[h] # NULL, ModeEvent("preferred", h, Preferred[h]))
                       \o Describe(h, ZeroState, s)
  <2>1. /\ Announce(events) /\ screen' = [screen EXCEPT ![h] = s] /\ told' = [told EXCEPT ![h] = s]
        /\ plugged' = plugged \cup {h} /\ used' = used \cup {h} /\ offer' = offer
    BY <1>2 DEF Plug
  <2>2. s \in HeadStates
    <3>1. Offer[h] \in Seq(Modes)
      BY CompositorAssumption
    <3>2. (IF Offer[h] = <<>> THEN NULL ELSE Offer[h][1]) \in Modes \cup {NULL}
      BY <3>1
    <3>3. (on /\ Offer[h] # <<>>) \in BOOLEAN
      OBVIOUS
    <3>4. \A m \in Modes \cup {NULL}, b \in BOOLEAN :
             [ZeroState EXCEPT !.zmode = m, !.enabled = b] \in HeadStates
      BY ZeroStateType DEF HeadStates
    <3>5. QED
      BY <3>2, <3>3, <3>4
  <2>3. Quietly(events)
    <3> DEFINE A == <<Event("head", h, ZeroState)>>
               B == ModeEvents("mode", h)
               C == If(Preferred[h] # NULL, ModeEvent("preferred", h, Preferred[h]))
               D == Describe(h, ZeroState, s)
    <3>1. Quietly(A)
      <4>1. "head" \in HeadEventTypes \ ModeEventTypes
        BY DEF HeadEventTypes, ModeEventTypes
      <4>2. QED
        BY <4>1, ZeroStateType, EventType, QuietlyOne
    <3>2. Quietly(B)
      BY <1>1, ModeEventsQuietly DEF ModeEventTypes
    <3>3. Quietly(C)
      <4>1. CASE Preferred[h] = NULL
        BY <4>1 DEF If, Quietly, NoAnswer
      <4>2. CASE Preferred[h] # NULL
        <5>1. Preferred[h] \in Modes /\ "preferred" \in ModeEventTypes
          BY <4>2, CompositorAssumption DEF ModeEventTypes
        <5>2. QED
          BY <5>1, ModeEventType, QuietlyIf
      <4>3. QED
        BY <4>1, <4>2
    <3>4. Quietly(D)
      BY <2>2, ZeroStateType, DescribeQuietly
    <3>5. events = A \o B \o C \o D
      OBVIOUS
    <3> HIDE DEF A, B, C, D
    <3>6. Quietly(A \o B)
      BY <3>1, <3>2, QuietlyConcat
    <3>7. Quietly((A \o B) \o C)
      BY <3>3, <3>6, QuietlyConcat
    <3>8. QED
      BY <3>4, <3>5, <3>7, QuietlyConcat
  <2> HIDE DEF s, events
  <2>4. CompositorTypeOK'
    BY <1>1, <2>1, <2>2 DEF CompositorTypeOK
  <2>5. QED
    BY <2>1, <2>3, <2>4, AnnounceInv
<1>3. ASSUME NEW h \in Heads, Unplug(h)
      PROVE  IInv'
  <2> DEFINE events == ModeEvents("mode_finished", h) \o <<Event("finished", h, ZeroState)>>
  <2>1. /\ Announce(events) /\ screen' = [screen EXCEPT ![h] = ZeroState]
        /\ told' = [told EXCEPT ![h] = ZeroState]
        /\ plugged' = plugged \ {h} /\ UNCHANGED <<offer, used>>
    BY <1>3 DEF Unplug
  <2>2. Quietly(ModeEvents("mode_finished", h))
    BY <1>1, ModeEventsQuietly DEF ModeEventTypes
  <2>3. Quietly(<<Event("finished", h, ZeroState)>>)
    <3>1. "finished" \in HeadEventTypes \ ModeEventTypes
      BY DEF HeadEventTypes, ModeEventTypes
    <3>2. QED
      BY <3>1, ZeroStateType, EventType, QuietlyOne
  <2>4. Quietly(events)
    BY <2>2, <2>3, QuietlyConcat
  <2> HIDE DEF events
  <2>5. CompositorTypeOK'
    BY <1>1, <2>1, ZeroStateType DEF CompositorTypeOK
  <2>6. QED
    BY <2>1, <2>4, <2>5, AnnounceInv
<1>4. QED
  BY <1>2, <1>3 DEF Plugging

(* Withdrawn modes and other clients keep the invariant.                   *)
LEMMA ChangesInv ==
    ASSUME IInv, Changes \/ Reporting, UNCHANGED <<displVars, refused>>
    PROVE  IInv'
<1>1. /\ screen \in [Heads -> HeadStates] /\ told \in [Heads -> HeadStates]
      /\ offer \in [Heads -> Seq(Modes)] /\ plugged \subseteq used /\ used \subseteq Heads
  BY DEF IInv, TypeOK, CompositorTypeOK
<1>2. ASSUME NEW h \in Heads, FinishMode(h)
      PROVE  IInv'
  <2> DEFINE n == Len(offer[h])
             events == <<ModeEvent("mode_finished", h, offer[h][n])>>
  <2>1. /\ n > 1 /\ Announce(events)
        /\ offer' = [offer EXCEPT ![h] = [i \in 1..(n - 1) |-> offer[h][i]]]
        /\ UNCHANGED <<screen, told, plugged, used>>
    BY <1>2 DEF FinishMode
  <2>2. offer[h] \in Seq(Modes) /\ n \in Nat
    BY <1>1
  <2>3. offer[h][n] \in Modes /\ [i \in 1..(n - 1) |-> offer[h][i]] \in Seq(Modes)
    BY <2>1, <2>2
  <2>4. Quietly(events)
    BY <2>3, ModeEventType, QuietlyOne DEF ModeEventTypes
  <2> HIDE DEF events, n
  <2>5. CompositorTypeOK'
    BY <1>1, <2>1, <2>3 DEF CompositorTypeOK
  <2>6. QED
    BY <2>1, <2>4, <2>5, AnnounceInv
<1>3. ASSUME NEW h \in Heads, NEW m \in Modes, OtherClient(h, m)
      PROVE  IInv'
  <2>1. /\ screen' = [screen EXCEPT ![h].zmode = m] /\ inputs' = inputs + 1
        /\ UNCHANGED <<told, offer, plugged, used, wire, config>>
    BY <1>3 DEF OtherClient, CountInput
  <2>2. screen' \in [Heads -> HeadStates]
    BY <1>1, <2>1 DEF HeadStates
  <2>3. TypeOK'
    BY <1>1, <2>1, <2>2 DEF IInv, TypeOK, DisplTypeOK, CompositorTypeOK, displVars
  <2>4. OneConfiguration' /\ DeltaMatchesConfig' /\ ChangeIsEnabled'
    BY <2>1 DEF IInv, OneConfiguration, DeltaMatchesConfig, ChangeIsEnabled, AnswersIn, displVars
  <2>5. QED
    BY <2>3, <2>4 DEF IInv
<1>4. ASSUME NEW h \in Heads, Report(h)
      PROVE  IInv'
  <2>1. /\ Announce(Describe(h, told[h], screen[h])) /\ told' = [told EXCEPT ![h] = screen[h]]
        /\ UNCHANGED <<screen, offer, plugged, used>>
    BY <1>4 DEF Report
  <2>2. Quietly(Describe(h, told[h], screen[h]))
    BY <1>1, DescribeQuietly
  <2>3. CompositorTypeOK'
    BY <1>1, <2>1 DEF CompositorTypeOK
  <2>4. QED
    BY <2>1, <2>2, <2>3, AnnounceInv
<1>5. QED
  BY <1>2, <1>3, <1>4 DEF Changes, Reporting

(* An accepted configuration leaves a head in a well formed state.         *)
LEMMA ConfiguredType ==
    ASSUME TypeOK, NEW h \in Heads, NEW round \in BOOLEAN, NEW ignore \in BOOLEAN
    PROVE  Configured(h, round, ignore) \in HeadStates
<1> DEFINE s == screen[h]
           w == config.want[h]
<1>1. s \in HeadStates /\ w \in HeadStates
  BY DEF TypeOK, CompositorTypeOK, Configs
<1>2. \A b \in BOOLEAN : [s EXCEPT !.enabled = b] \in HeadStates
  BY <1>1 DEF HeadStates
<1>3. [s EXCEPT !.enabled = TRUE, !.zmode = w.zmode] \in HeadStates
  BY <1>1 DEF HeadStates
<1>4. [s EXCEPT !.enabled = TRUE, !.adaptive_sync = IF ignore THEN @ ELSE w.adaptive_sync] \in HeadStates
  BY <1>1 DEF HeadStates
<1>5. [s EXCEPT !.enabled = TRUE, !.pos = w.pos,
                !.scale = IF round /\ w.scale # NULL THEN Rounded[w.scale] ELSE w.scale] \in HeadStates
  <2>1. (IF round /\ w.scale # NULL THEN Rounded[w.scale] ELSE w.scale) \in Scales \cup {NULL}
    BY <1>1, CompositorAssumption DEF HeadStates
  <2>2. \A x \in Scales \cup {NULL} :
           [s EXCEPT !.enabled = TRUE, !.pos = w.pos, !.scale = x] \in HeadStates
    BY <1>1 DEF HeadStates
  <2>3. QED
    BY <2>1, <2>2
<1>6. Configured(h, round, ignore) \in
        {s, [s EXCEPT !.enabled = FALSE],
         [s EXCEPT !.enabled = TRUE, !.zmode = w.zmode],
         [s EXCEPT !.enabled = TRUE, !.adaptive_sync = IF ignore THEN @ ELSE w.adaptive_sync],
         [s EXCEPT !.enabled = TRUE, !.pos = w.pos,
                   !.scale = IF round /\ w.scale # NULL THEN Rounded[w.scale] ELSE w.scale]}
  BY DEF Configured
<1> HIDE DEF s, w
<1>7. QED
  BY <1>1, <1>2, <1>3, <1>4, <1>5, <1>6

(* Applying, answering and cancelling keep the invariant.                  *)
LEMMA DecideInv ==
    ASSUME IInv, Decide, UNCHANGED <<displVars, refused>>
    PROVE  IInv'
<1>1. CASE Apply
  <2>1. PICK round \in BOOLEAN, ignore \in BOOLEAN, silent \in BOOLEAN :
            /\ screen' = [h \in Heads |-> Configured(h, round, ignore)]
            /\ told' = IF silent
                       THEN [h \in Heads |-> IF h \in config.on
                                             THEN [told[h] EXCEPT !.zmode = config.want[h].zmode]
                                             ELSE told[h]]
                       ELSE told
    BY <1>1 DEF Apply
  <2>2. /\ config.status = "sent" /\ config' = [config EXCEPT !.status = "applied"]
        /\ UNCHANGED <<wire, inputs, offer, plugged, used>>
    BY <1>1 DEF Apply
  <2>3. config \in Configs /\ told \in [Heads -> HeadStates] /\ TypeOK
    BY DEF IInv, TypeOK, CompositorTypeOK
  <2>4. screen' \in [Heads -> HeadStates]
    BY <2>1, <2>3, ConfiguredType
  <2>5. told' \in [Heads -> HeadStates]
    BY <2>1, <2>3 DEF Configs, HeadStates
  <2>6. /\ config' \in Configs /\ config'.status = "applied" /\ config'.kind = config.kind
        /\ config'.on = config.on /\ config'.want = config.want
    BY <2>2, <2>3 DEF Configs
  <2>7. TypeOK'
    BY <2>2, <2>4, <2>5, <2>6 DEF IInv, TypeOK, DisplTypeOK, CompositorTypeOK, displVars
  <2>8. OneConfiguration'
    BY <2>2, <2>6 DEF IInv, OneConfiguration, AnswersIn, displVars
  <2>9. DeltaMatchesConfig' /\ ChangeIsEnabled'
    BY <2>2, <2>6 DEF IInv, DeltaMatchesConfig, ChangeIsEnabled, displVars
  <2>10. QED
    BY <2>7, <2>8, <2>9 DEF IInv
<1>2. CASE Succeed \/ Cancel
  <2>1. PICK type \in Answers : config.status # "none" /\ Answer(type)
    BY <1>2 DEF Succeed, Cancel, Answers
  <2>2. refused' \subseteq Heads \X Modes
    BY DEF IInv, TypeOK
  <2>3. QED
    BY <2>1, <2>2, AnswerInv
<1>3. QED
  BY <1>1, <1>2 DEF Decide

(* Refusing a configuration keeps the invariant.                           *)
LEMMA RefusalInv ==
    ASSUME IInv, Refusal, UNCHANGED displVars
    PROVE  IInv'
<1>1. config.status = "sent" /\ Answer("failed") /\ "failed" \in Answers
  BY DEF Refusal, Refuse, Answers
<1>2. \A h \in config.on : config.kind = "MODE" =>
         h \in Heads /\ config.want[h].zmode \in Modes
  BY <1>1, ModeAssumption DEF IInv, ChangeIsEnabled, TypeOK, Configs, HeadStates
<1>3. refused' \subseteq Heads \X Modes
  BY <1>2 DEF Refusal, IInv, TypeOK
<1>4. QED
  BY <1>1, <1>3, AnswerInv

-----------------------------------------------------------------------------
(* Every step keeps the invariant.                                         *)
LEMMA NextInv == IInv /\ [Next]_vars => IInv'
<1> SUFFICES ASSUME IInv, [Next]_vars PROVE IInv'
  OBVIOUS
<1>1. CASE UNCHANGED vars
  BY <1>1 DEF vars, displVars, compositorVars, IInv, TypeOK, DisplTypeOK, CompositorTypeOK,
              OneConfiguration, DeltaMatchesConfig, ChangeIsEnabled, AnswersIn
<1>2. CASE (Listen \/ act \/ Inputs) /\ UNCHANGED <<compositorVars, refused>>
  BY <1>2, ListenInv, ActInv, InputsInv
<1>3. CASE Reapply /\ UNCHANGED compositorVars
  BY <1>3, ReapplyInv
<1>4. CASE (Plugging \/ Changes \/ Reporting \/ Decide) /\ UNCHANGED <<displVars, refused>>
  BY <1>4, PluggingInv, ChangesInv, DecideInv
<1>5. CASE Refusal /\ UNCHANGED displVars
  BY <1>5, RefusalInv
<1>6. QED
  BY <1>1, <1>2, <1>3, <1>4, <1>5 DEF Next

(* The inductive invariant holds in every reachable state.                 *)
THEOREM Invariance == Spec => []IInv
BY InitInv, NextInv, PTL DEF Spec

(* Every variable of the server and of the compositor keeps its type: no   *)
(* handler writes a head, a mode or a state that does not exist.           *)
THEOREM TypeCorrect == Spec => []TypeOK
<1>1. IInv => TypeOK
  BY DEF IInv
<1>2. QED
  BY <1>1, Invariance, PTL

(* The server never has more than one configuration with the compositor,   *)
(* and its state is OUTSTANDING exactly as long as one is unanswered.      *)
THEOREM OneConfigurationAlways == Spec => []OneConfiguration
<1>1. IInv => OneConfiguration
  BY DEF IInv
<1>2. QED
  BY <1>1, Invariance, PTL

(* The answer the compositor will give is charged to the head and the mode *)
(* that were asked for.                                                    *)
THEOREM DeltaAlwaysMatches == Spec => []DeltaMatchesConfig
<1>1. IInv => DeltaMatchesConfig
  BY DEF IInv
<1>2. QED
  BY <1>1, Invariance, PTL

(* A mode or adaptive sync is only asked of a head that is to be enabled   *)
(* with a mode.                                                            *)
THEOREM ChangeAlwaysEnabled == Spec => []ChangeIsEnabled
<1>1. IInv => ChangeIsEnabled
  BY DEF IInv
<1>2. QED
  BY <1>1, Invariance, PTL
=============================================================================
