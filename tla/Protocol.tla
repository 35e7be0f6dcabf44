------------------------------ MODULE Protocol ------------------------------
(***************************************************************************)
(* What the server and the compositor share: the queue of events of        *)
(* zwlr_output_manager_v1 and the configuration the server asked for       *)
(* (src/pro/wlr-output-management-unstable-v1.xml).                        *)
(*                                                                         *)
(* The serial of zwlr_output_manager_v1.done is modelled by what it is     *)
(* for: a configuration is stale when the compositor has sent a done that  *)
(* the server had not received when it created the configuration.          *)
(***************************************************************************)
EXTENDS HeadState, Sequences

CONSTANTS MaxInputs,  \* bound on what users and other clients do
          Scenario    \* what the environment may do in this model

Behaviours == {"unplug", "mode_finished", "other_client", "silent_mode", "vrr_ignored",
               "round", "refuse_mode", "refuse_vrr", "refuse_other", "plug_disabled",
               "reload", "lid", "ipc_cfg", "ipc_disabled", "reapply", "client_gone", "signal"}

ASSUME ProtocolAssumption == MaxInputs \in Nat /\ Scenario \subseteq Behaviours

VARIABLES wire,    \* events sent by the compositor, not dispatched yet
          config,  \* the zwlr_output_configuration_v1 that was applied last
          inputs   \* how often users and other clients have acted

Answers == {"succeeded", "failed", "cancelled"}

ModeEventTypes == {"mode", "preferred", "mode_finished"}

HeadEventTypes == ModeEventTypes \cup
    {"head", "enabled", "current_mode", "geometry", "adaptive_sync", "finished"}

EventTypes == HeadEventTypes \cup Answers \cup {"done"}

Events == {e \in [type : EventTypes, head : Heads \cup {NULL}, state : HeadStates] :
              /\ e.type \in HeadEventTypes => e.head \in Heads
              /\ e.type \in ModeEventTypes => e.state.zmode \in Modes}

(* Every event carries a state; only the field its type names is read.     *)
Event(type, h, s) == [type |-> type, head |-> h, state |-> s]
ModeEvent(type, h, m) == Event(type, h, [ZeroState EXCEPT !.zmode = m])
Signal(type) == Event(type, NULL, ZeroState)

(* kind says which of the four requests of act_apply it is; want holds the *)
(* states asked of the heads in on; heads in off are to be disabled.       *)
Kinds == {"REAPPLY", "MODE", "VRR", "OTHER"}

Configs == [status : {"none", "sent", "applied"},
            kind   : Kinds,
            on     : SUBSET Heads,
            off    : SUBSET Heads,
            want   : [Heads -> HeadStates],
            stale  : BOOLEAN]

NoConfig == [status |-> "none", kind |-> "OTHER", on |-> {}, off |-> {},
             want |-> [h \in Heads |-> ZeroState], stale |-> FALSE]

CountInput == inputs < MaxInputs /\ inputs' = inputs + 1

AnswersIn(w) == {i \in 1..Len(w) : w[i].type \in Answers}

DonePending == \E i \in 1..Len(wire) : wire[i].type = "done"
=============================================================================
