--------------------------- MODULE ExecutionLife ---------------------------
(***************************************************************************)
(* What the scheduler promises of the executions of tasks that must not be *)
(* repeated (posts, DMs, likes: retryLimit 0), without jobs, handlers,     *)
(* passes or requests: each is created, its body starts, and it ends and   *)
(* stays so.  A body starts again only after something broke.  It may      *)
(* start when the row has ended already: a request can record a queued     *)
(* execution as cancelled while the worker has it in hand.                 *)
(***************************************************************************)
EXTENDS Naturals

CONSTANT Executions

VARIABLES
    life,      \* life[e]: "absent", "pending" (queued or running) or "over"
    starts,    \* starts[e]: how often the body was started
    broken     \* a process died, a call failed or a live job expired

lifeVars == <<life, starts, broken>>

LifeInit ==
    /\ life = [e \in Executions |-> "absent"]
    /\ starts = [e \in Executions |-> 0]
    /\ broken = FALSE

Appear(e) ==
    /\ life[e] = "absent"
    /\ life' = [life EXCEPT ![e] = "pending"]
    /\ UNCHANGED <<starts, broken>>

Start(e) ==
    /\ life[e] # "absent"
    /\ starts[e] = 0 \/ broken
    /\ starts' = [starts EXCEPT ![e] = @ + 1]
    /\ UNCHANGED <<life, broken>>

Conclude(e) ==
    /\ life[e] = "pending"
    /\ life' = [life EXCEPT ![e] = "over"]
    /\ UNCHANGED <<starts, broken>>

Break ==
    /\ ~broken
    /\ broken' = TRUE
    /\ UNCHANGED <<life, starts>>

LifeNext ==
    \/ Break
    \/ \E e \in Executions : Appear(e) \/ Start(e) \/ Conclude(e)

LifeSpec == LifeInit /\ [][LifeNext]_lifeVars
=============================================================================
