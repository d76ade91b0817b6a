-------------------------- MODULE MCExecutionQueue --------------------------
(***************************************************************************)
(* Small instances of ExecutionQueue for TLC: one device, because queues   *)
(* of different devices share nothing but the reconcile pass.  All parties *)
(* at once are too many states for the safety run, so each of its          *)
(* behaviours belongs to one scenario, which keeps some parties away:      *)
(*   passes: e1, the handler, both reconcile iterations and three jobs;    *)
(*   retry:  e1 and e2, the handler, the request and two jobs.             *)
(***************************************************************************)
EXTENDS ExecutionQueue, TLC

CONSTANTS e1, e2, d1, j1

VARIABLE scenario

OneDevice == [e \in Executions |-> d1]
NoRetries == [e \in Executions |-> 0]
OneRetry == [e \in Executions |-> 1]

JobsUsed == Cardinality({j \in Jobs : job[j].state # "missing"})

Present ==
    \/ scenario = "passes" /\ UNCHANGED oper /\ exec'[e2].status = "absent"
    \/ scenario = "retry" /\ UNCHANGED rec /\ JobsUsed' <= 2

MCInit == Init /\ scenario \in {"passes", "retry"}
MCNext == Next /\ UNCHANGED scenario /\ Present
MCSpec == MCInit /\ [][MCNext]_<<vars, scenario>>

\* Jobs and reconcile iterations are interchangeable: sound for the invariants and
\* action properties.
Symmetry == Permutations(Jobs) \cup Permutations(Reconcilers)

\* Symmetry is not used with liveness: there, a send takes j1 while it is free.
FirstJobFirst ==
    \A j \in Jobs \ {j1} :
        job[j].state = "missing" /\ job'[j].state # "missing" => job[j1].state # "missing"

OrderedInit == Init /\ scenario = "all"
OrderedNext == Next /\ UNCHANGED scenario /\ FirstJobFirst
OrderedSpec == OrderedInit /\ [][OrderedNext]_<<vars, scenario>>
EndsSpec == OrderedSpec /\ Scheduling /\ \A e \in Executions : WF_vars(PassDeadline(e))
=============================================================================
