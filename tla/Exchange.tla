------------------------------ MODULE Exchange ------------------------------
(***************************************************************************)
(* What the user of a display may rely on, however the server's view and   *)
(* the compositor's screens drift apart: the server asks for one change at *)
(* a time, a change takes effect on the head it names and nowhere else,    *)
(* the answer is about the change that was asked for, one that was refused *)
(* or cancelled left no trace on any screen, and a refused mode is not     *)
(* asked for again before a reapply.  WayDisplays, the loop, the listeners *)
(* and the queue of events, implements this.                               *)
(***************************************************************************)
EXTENDS Integers

CONSTANTS Heads, Modes, States, NULL

VARIABLES stage,    \* how far the change is
          change,   \* the change asked for last, NULL at rest
          screen,   \* the physical state of every head
          refused   \* heads with the modes refused since the last reapply

vars == <<stage, change, screen, refused>>

Answers == {"succeeded", "failed", "cancelled"}

(* A change of mode or of adaptive sync names its head.  Any other change  *)
(* names the head a reapply disables, or none when several are arranged.   *)
Changes == {c \in [element : {"none", "MODE", "VRR_OFF"}, head : Heads \cup {NULL},
                   zmode : Modes \cup {NULL}] :
               /\ c.element # "none" => c.head \in Heads
               /\ c.element = "MODE" <=> c.zmode # NULL}

Init ==
    /\ stage = "idle"
    /\ change = NULL
    /\ screen \in [Heads -> States]
    /\ refused = {}

Ask ==
    /\ stage \in Answers \cup {"idle"}
    /\ stage' = "asked"
    /\ change' \in Changes
    /\ change'.element = "MODE" => <<change'.head, change'.zmode>> \notin refused
    /\ UNCHANGED <<screen, refused>>

(* Nothing is left to change, or the server gave up. *)
Rest ==
    /\ stage \in Answers
    /\ stage' = "idle"
    /\ change' = NULL
    /\ UNCHANGED <<screen, refused>>

(* Only the head a change names is touched, only a change of mode changes  *)
(* a mode, and it lights the head with exactly that mode.                  *)
TakeEffect ==
    /\ stage = "asked"
    /\ stage' = "applied"
    /\ screen' \in [Heads -> States]
    /\ \A h \in Heads :
          /\ change.head \notin {NULL, h} => screen'[h] = screen[h]
          /\ screen'[h].zmode = IF change.element = "MODE" /\ change.head = h
                                THEN change.zmode ELSE screen[h].zmode
          /\ change.element # "none" /\ change.head = h => screen'[h].enabled
    /\ UNCHANGED <<change, refused>>

Succeed ==
    /\ stage = "applied"
    /\ stage' = "succeeded"
    /\ UNCHANGED <<change, screen, refused>>

Refuse ==
    /\ stage = "asked"
    /\ stage' = "failed"
    /\ refused' = refused \cup
            IF change.element = "MODE" THEN {<<change.head, change.zmode>>} ELSE {}
    /\ UNCHANGED <<change, screen>>

Cancel ==
    /\ stage = "asked"
    /\ stage' = "cancelled"
    /\ UNCHANGED <<change, screen, refused>>

Reapply ==
    /\ refused' = {}
    /\ UNCHANGED <<stage, change, screen>>

(* A head is plugged in or out, or another client changes its mode. *)
Elsewhere ==
    /\ screen' \in [Heads -> States]
    /\ \E h \in Heads : \A g \in Heads \ {h} : screen'[g] = screen[g]
    /\ UNCHANGED <<stage, change, refused>>

Next ==
    \/ Ask \/ Rest \/ TakeEffect \/ Succeed \/ Refuse \/ Cancel
    \/ Reapply \/ Elsewhere

Spec == Init /\ [][Next]_vars
=============================================================================
