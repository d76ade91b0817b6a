---------------------------- MODULE MCFleetWork ----------------------------
(***************************************************************************)
(* Small instances of the work of a fleet: the executions, the phones that *)
(* are registered for them, and the editor of the flows that they run.     *)
(* Each module takes what the others store as it may come; a behaviour     *)
(* follows one of them, which is `focus`, and the others stay in an        *)
(* initial state.  The safety of the queue is checked with the editor, the *)
(* stop of an execution with the registration.                             *)
(***************************************************************************)
EXTENDS MCExecutionQueue, Registration, FlowEditor

VARIABLE focus
queueVars == <<vars, scenario>>
workVars == <<focus, queueVars, gVars, eVars>>

Queued(Step) == focus = "queue" /\ Step /\ UNCHANGED <<focus, gVars, eVars>>
Registered(Step) == focus = "registration" /\ Step /\ UNCHANGED <<focus, queueVars, eVars>>
Editing(Step) == focus = "flow" /\ Step /\ UNCHANGED <<focus, queueVars, gVars>>

WorkInit == GInit /\ EInit /\ (focus # "flow" => eused = {})

\* The safety of the queue (in its scenarios), and the editor.
SafetyInit ==
  /\ focus \in {"queue", "flow"} /\ MCInit /\ WorkInit
  /\ focus # "queue" => scenario = "passes"
SafetyNext == Queued(MCNext) \/ Editing(ENext)
SafetySpec == SafetyInit /\ [][SafetyNext]_workVars

\* The stop of an execution, and the registration, in which a write that fails matters
\* while a call may still follow it.
FailsInTime == gunsaved' \subseteq gunsaved \/ gcalls' < MaxCalls
StopInit == focus \in {"queue", "registration"} /\ OrderedInit /\ WorkInit
StopNext == Queued(OrderedNext) \/ Registered(GNext /\ FailsInTime)
WorkStopSpec == StopInit /\ [][StopNext]_workVars /\ Scheduling
=============================================================================
