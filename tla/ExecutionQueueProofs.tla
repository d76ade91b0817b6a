------------------------ MODULE ExecutionQueueProofs ------------------------
(***************************************************************************)
(* What holds of ExecutionQueue for any number of executions, jobs,        *)
(* devices, reconcile iterations, requests and faults.                     *)
(***************************************************************************)
EXTENDS ExecutionQueue, TLAPS

USE QueueAssumption

-----------------------------------------------------------------------------
(* Type correctness.  One lemma per kind of update; then one step per action. *)

LEMMA WriteType ==
    ASSUME exec \in [Executions -> Row], NEW e, NEW s \in Status, Write(e, s)
    PROVE  exec' \in [Executions -> Row]
BY DEF Write, Row

LEMMA AgedType ==
    ASSUME exec \in [Executions -> Row], NEW e, NEW a \in BOOLEAN,
           exec' = [exec EXCEPT ![e].aged = a]
    PROVE  exec' \in [Executions -> Row]
BY DEF Row

LEMMA CreateType ==
    ASSUME TypeOK, NEW e \in Executions, NEW j \in Jobs, Create(e, j)
    PROVE  exec' \in [Executions -> Row] /\ job' \in [Jobs -> JobRow]
<1>1. exec' \in [Executions -> Row]
  BY DEF TypeOK, Create, NoRow, Row, Status, Pending
<1>2. job' \in [Jobs -> JobRow]
  BY DEF TypeOK, Create, NewJob, JobRow, JobStates, Live
<1> QED BY <1>1, <1>2

LEMMA JobStateType ==
    ASSUME job \in [Jobs -> JobRow], NEW j, NEW s \in JobStates
    PROVE  [job EXCEPT ![j].state = s] \in [Jobs -> JobRow]
BY DEF JobRow

LEMMA CancelType ==
    ASSUME TypeOK, NEW j, CancelJob(j)
    PROVE  job' \in [Jobs -> JobRow] /\ faults' \in 0 .. MaxFaults
<1>1. Cancelled(j) \in [Jobs -> JobRow]
  <2>1. "cancelled" \in JobStates
    BY DEF JobStates, Dead
  <2> QED BY <2>1, JobStateType DEF TypeOK, Cancelled
<1> QED BY <1>1 DEF CancelJob, Fault, TypeOK

LEMMA FaultType ==
    ASSUME TypeOK, Fault
    PROVE  faults' \in 0 .. MaxFaults
BY DEF TypeOK, Fault

LEMMA WorkerType ==
    ASSUME worker \in [Devices -> WorkerState], NEW d,
           NEW p \in {"claimed", "body", "return", "throw"},
           worker' = [worker EXCEPT ![d].pc = p]
    PROVE  worker' \in [Devices -> WorkerState]
BY DEF WorkerState

LEMMA IdleTypes ==
    /\ IdleWorker \in WorkerState
    /\ IdleRec \in RecState
    /\ IdleOper \in OperState
BY DEF IdleWorker, IdleRec, IdleOper, WorkerState, RecState, OperState, NoRow, Row, Status

LEMMA DecidedType ==
    ASSUME TypeOK, NEW r \in Reconcilers,
           NEW d \in {"idle", "reset", "fail", "stop", "cancelRun", "cancelQueued", "requeue"}
    PROVE  Decided(r, d) \in RecState
BY IdleTypes DEF TypeOK, Decided, RecState, IdleRec

LEMMA DecisionRange ==
    ASSUME NEW row, NEW seen, NEW aged
    PROVE  Decision(row, seen, aged) \in {"idle", "reset", "fail", "stop", "cancelRun", "cancelQueued", "requeue"}
BY DEF Decision

LEMMA TerminalStatus == Terminal \subseteq Status /\ Pending \subseteq Status
BY DEF Status

\* Every reachable state is well typed: rows, jobs, handlers, iterations, requests.
THEOREM TypeCorrect == Spec => []TypeOK
<1>1. Init => TypeOK
  BY IdleTypes DEF Init, TypeOK, NoRow, NoSuchJob, JobRow, JobStates, Dead, Row, Status, RunsBound
<1>2. TypeOK /\ [Next]_vars => TypeOK'
  <2> SUFFICES ASSUME TypeOK, [Next]_vars PROVE TypeOK'
    OBVIOUS
  <2>0. CASE UNCHANGED vars
    BY <2>0 DEF vars, TypeOK
  <2>1. ASSUME NEW d \in Devices, NEW j \in Jobs, Fetch(d, j) PROVE TypeOK'
    <3>1. job' \in [Jobs -> JobRow]
      <4> DEFINE n == IF job[j].state = "retry" THEN job[j].retries + 1 ELSE job[j].retries
      <4>1. job[j] \in JobRow /\ "active" \in JobStates
        BY DEF TypeOK, JobStates, Live
      <4>2. n \in Nat
        BY <4>1 DEF JobRow
      <4>3. job' = [job EXCEPT ![j] = [job[j] EXCEPT !.state = "active", !.retries = n]]
        BY <2>1 DEF Fetch, TypeOK
      <4>4. [job[j] EXCEPT !.state = "active", !.retries = n] \in JobRow
        BY <4>1, <4>2 DEF JobRow
      <4> QED
        BY <4>3, <4>4 DEF TypeOK
    <3>2. worker' \in [Devices -> WorkerState]
      BY <2>1 DEF Fetch, TypeOK, WorkerState
    <3> QED
      BY <2>1, <3>1, <3>2 DEF Fetch, TypeOK
  <2>2. ASSUME NEW d \in Devices, StartAttempt(d) PROVE TypeOK'
    <3>1. exec' \in [Executions -> Row]
      BY <2>2, WriteType DEF StartAttempt, TypeOK, Status, Pending
    <3>2. worker' \in [Devices -> WorkerState]
      BY <2>2, WorkerType DEF StartAttempt, TypeOK
    <3> QED
      BY <2>2, <3>1, <3>2 DEF StartAttempt, TypeOK
  <2>3. ASSUME NEW d \in Devices, StartBody(d) PROVE TypeOK'
    <3>1. worker' \in [Devices -> WorkerState]
      BY <2>3, WorkerType DEF StartBody, TypeOK
    <3>2. runs' \in [Executions -> 0 .. RunsBound]
      <4> DEFINE x == ExecOf(d)
                 n == IF runs[x] < RunsBound THEN runs[x] + 1 ELSE runs[x]
      <4>1. x \in Executions => n \in 0 .. RunsBound
        BY DEF TypeOK, RunsBound
      <4>2. runs' = [runs EXCEPT ![x] = n]
        BY <2>3 DEF StartBody, TypeOK
      <4> QED
        BY <4>1, <4>2 DEF TypeOK
    <3> QED
      BY <2>3, <3>1, <3>2 DEF StartBody, TypeOK
  <2>4. ASSUME NEW d \in Devices, Heartbeat(d) PROVE TypeOK'
    <3>1. exec' \in [Executions -> Row]
      BY <2>4, AgedType DEF Heartbeat, TypeOK
    <3> QED
      BY <2>4, <3>1 DEF Heartbeat, TypeOK
  <2>5. ASSUME NEW d \in Devices, NEW o \in {"ok", "error", "stopped"}, EndBody(d, o) PROVE TypeOK'
    <3>1. worker' \in [Devices -> WorkerState]
      <4>1. worker' = [worker EXCEPT ![d] = [@ EXCEPT !.pc = "ended", !.outcome = o]]
        BY <2>5 DEF EndBody
      <4>2. [worker[d] EXCEPT !.pc = "ended", !.outcome = o] \in WorkerState
        <5>1. worker[d] \in WorkerState
          BY DEF TypeOK
        <5> QED
          BY <5>1 DEF WorkerState
      <4> QED
        BY <4>1, <4>2 DEF TypeOK
    <3> QED
      BY <2>5, <3>1 DEF EndBody, TypeOK
  <2>6. ASSUME NEW d \in Devices, Settle(d) PROVE TypeOK'
    <3>1. exec' \in [Executions -> Row]
      BY <2>6, WriteType DEF Settle, TypeOK, Status, Pending, Terminal
    <3>2. worker' \in [Devices -> WorkerState]
      <4>1. PICK p \in {"return", "throw"} : worker' = [worker EXCEPT ![d].pc = p]
        BY <2>6 DEF Settle
      <4> QED
        BY <4>1, WorkerType DEF TypeOK
    <3> QED
      BY <2>6, <3>1, <3>2 DEF Settle, TypeOK
  <2>7. ASSUME NEW d \in Devices, HandlerThrows(d) PROVE TypeOK'
    BY <2>7, WorkerType, FaultType DEF HandlerThrows, TypeOK
  <2>8. ASSUME NEW d \in Devices, Return(d) PROVE TypeOK'
    <3>1. job' \in [Jobs -> JobRow]
      BY <2>8, JobStateType DEF Return, TypeOK, JobStates, Dead
    <3> QED
      BY <2>8, <3>1, IdleTypes DEF Return, TypeOK
  <2>9. ASSUME NEW d \in Devices, Throw(d) PROVE TypeOK'
    <3>1. job' \in [Jobs -> JobRow]
      BY <2>9, JobStateType DEF Throw, AfterFailure, SentLimit, TypeOK, JobStates, Dead, Live
    <3> QED
      BY <2>9, <3>1, IdleTypes DEF Throw, TypeOK
  <2>10. ASSUME NEW d \in Devices, Crash(d) PROVE TypeOK'
    BY <2>10, IdleTypes, FaultType DEF Crash, TypeOK
  <2>11. ASSUME NEW r \in Reconcilers, NEW e \in Executions, Select(r, e) PROVE TypeOK'
    <3>1. rec' \in [Reconcilers -> RecState]
      BY <2>11 DEF Select, TypeOK, RecState, IdleRec
    <3> QED
      BY <2>11, <3>1 DEF Select, TypeOK
  <2>12. ASSUME NEW r \in Reconcilers, FindJob(r) PROVE TypeOK'
    <3>1. rec' \in [Reconcilers -> RecState]
      BY <2>12, DecidedType, DecisionRange DEF FindJob, TypeOK
    <3> QED
      BY <2>12, <3>1, FaultType DEF FindJob, TypeOK
  <2>13. ASSUME NEW r \in Reconcilers, ResetInterrupted(r) PROVE TypeOK'
    BY <2>13, WriteType, IdleTypes DEF ResetInterrupted, NextIteration, TypeOK, Status, Pending
  <2>14. ASSUME NEW r \in Reconcilers, CancelZombieRun(r) PROVE TypeOK'
    BY <2>14, CancelType, DecidedType DEF CancelZombieRun, TypeOK
  <2>15. ASSUME NEW r \in Reconcilers, FinishDead(r) PROVE TypeOK'
    BY <2>15, WriteType, IdleTypes DEF FinishDead, NextIteration, TypeOK, Status, Terminal
  <2>16. ASSUME NEW r \in Reconcilers, CancelZombieQueued(r) PROVE TypeOK'
    BY <2>16, CancelType, DecidedType DEF CancelZombieQueued, TypeOK
  <2>17. ASSUME NEW r \in Reconcilers, NEW j \in Jobs, SendAgain(r, j) PROVE TypeOK'
    <3>1. job' \in [Jobs -> JobRow]
      BY <2>17 DEF SendAgain, NewJob, TypeOK, JobRow, JobStates, Live, RecState
    <3>2. rec' \in [Reconcilers -> RecState]
      <4>1. rec' = [rec EXCEPT ![r] = [@ EXCEPT !.pc = "link", !.new = j]]
        BY <2>17 DEF SendAgain
      <4>2. [rec[r] EXCEPT !.pc = "link", !.new = j] \in RecState
        <5>1. rec[r] \in RecState
          BY DEF TypeOK
        <5> QED
          BY <5>1 DEF RecState
      <4> QED
        BY <4>1, <4>2 DEF TypeOK
    <3> QED
      BY <2>17, <3>1, <3>2 DEF SendAgain, TypeOK
  <2>18. ASSUME NEW r \in Reconcilers, Link(r) PROVE TypeOK'
    <3>1. exec' \in [Executions -> Row]
      <4> DEFINE e == rec[r].exec
                 row == [exec[e] EXCEPT !.job = rec[r].new, !.aged = FALSE]
      <4>1. e \in Executions => row \in Row
        <5>1. rec[r].new \in Jobs \cup {NoJob}
          BY DEF TypeOK, RecState
        <5>2. e \in Executions => exec[e] \in Row
          BY DEF TypeOK
        <5> QED
          BY <5>1, <5>2 DEF Row
      <4>2. exec' = exec \/ exec' = [exec EXCEPT ![e] = row]
        BY <2>18, ZenonT(60) DEF Link, TypeOK
      <4> QED
        BY <4>1, <4>2 DEF TypeOK
    <3> QED
      BY <2>18, <3>1, IdleTypes DEF Link, NextIteration, TypeOK
  <2>19. ASSUME NEW r \in Reconcilers, BreakOff(r) PROVE TypeOK'
    BY <2>19, IdleTypes, FaultType DEF BreakOff, NextIteration, TypeOK
  <2>20. ASSUME NEW o \in Operators, NEW e \in Executions,
                ReadForStop(o, e) \/ ReadForDrop(o, e) \/ ReadForRetry(o, e) PROVE TypeOK'
    <3>1. PICK pc \in {"stopQueued", "stopRunning", "drop", "retry"} : Request(o, pc, e)
      BY <2>20 DEF ReadForStop, ReadForDrop, ReadForRetry
    <3>2. exec[e].job \in Jobs \cup {NoJob}
      BY DEF TypeOK, Row
    <3>3. oper' \in [Operators -> OperState]
      BY <3>1, <3>2 DEF Request, TypeOK, OperState
    <3> QED
      BY <3>1, <3>3 DEF Request, TypeOK
  <2>21. ASSUME NEW o \in Operators, StopQueued(o) \/ DropJob(o) PROVE TypeOK'
    <3>1. oper' \in [Operators -> OperState]
      BY <2>21, SMTT(60) DEF StopQueued, DropJob, Proceed, TypeOK, OperState
    <3> QED
      BY <2>21, <3>1, CancelType DEF StopQueued, DropJob, TypeOK
  <2>22. ASSUME NEW o \in Operators, FinishCancelled(o) \/ DropQueued(o) PROVE TypeOK'
    <3>1. exec' \in [Executions -> Row]
      BY <2>22, WriteType DEF FinishCancelled, DropQueued, TypeOK, Status, Terminal
    <3> QED
      BY <2>22, <3>1, IdleTypes DEF FinishCancelled, DropQueued, Answer, TypeOK
  <2>23. ASSUME NEW o \in Operators, StopRunning(o) PROVE TypeOK'
    <3>1. exec' \in [Executions -> Row]
      <4> DEFINE e == oper[o].exec
                 row == [exec[e] EXCEPT !.stop = TRUE, !.aged = FALSE]
      <4>1. e \in Executions => row \in Row
        <5>1. e \in Executions => exec[e] \in Row
          BY DEF TypeOK
        <5> QED
          BY <5>1 DEF Row
      <4>2. exec' = [exec EXCEPT ![e] = row]
        BY <2>23 DEF StopRunning, TypeOK
      <4> QED
        BY <4>1, <4>2 DEF TypeOK
    <3> QED
      BY <2>23, <3>1, IdleTypes DEF StopRunning, Answer, TypeOK
  <2>24. ASSUME NEW o \in Operators, NEW e \in Executions, NEW j \in Jobs, InsertRetry(o, e, j)
         PROVE TypeOK'
    BY <2>24, CreateType, IdleTypes DEF InsertRetry, Answer, TypeOK
  <2>25. ASSUME NEW e \in Executions, NEW j \in Jobs, Materialize(e, j) PROVE TypeOK'
    BY <2>25, CreateType DEF Materialize, TypeOK
  <2>26. ASSUME NEW j \in Jobs, ExpireJob(j) PROVE TypeOK'
    <3>1. job' \in [Jobs -> JobRow]
      BY <2>26, JobStateType DEF ExpireJob, AfterFailure, SentLimit, TypeOK, JobStates, Dead, Live
    <3> QED
      BY <2>26, <3>1, FaultType DEF ExpireJob, TypeOK
  <2>27. ASSUME NEW j \in Jobs, DeleteJob(j) PROVE TypeOK'
    <3>1. NoSuchJob \in JobRow
      BY DEF NoSuchJob, JobRow, JobStates, Dead
    <3> QED
      BY <2>27, <3>1 DEF DeleteJob, TypeOK
  <2>28. ASSUME NEW e \in Executions, Grow(e) \/ PassDeadline(e) PROVE TypeOK'
    <3>1. exec' \in [Executions -> Row]
      BY <2>28, AgedType DEF Grow, PassDeadline, TypeOK
    <3> QED
      BY <2>28, <3>1 DEF Grow, PassDeadline, TypeOK
  <2> QED
    BY <2>0, <2>1, <2>2, <2>3, <2>4, <2>5, <2>6, <2>7, <2>8, <2>9, <2>10, <2>11, <2>12, <2>13,
       <2>14, <2>15, <2>16, <2>17, <2>18, <2>19, <2>20, <2>21, <2>22, <2>23, <2>24, <2>25, <2>26,
       <2>27, <2>28
       DEF Next, WorkerStep, ReconcileStep, OperatorStep, Environment
<1> QED
  BY <1>1, <1>2, PTL DEF Spec

-----------------------------------------------------------------------------
(* The inductive invariant.  First what each kind of update leaves alone. *)

LEMMA WriteFacts ==
    ASSUME TypeOK, NEW e \in Executions, NEW s \in Status, Write(e, s)
    PROVE  /\ exec'[e].status = s
           /\ \A x \in Executions : exec'[x].job = exec[x].job
           /\ \A x \in Executions \ {e} : exec'[x].status = exec[x].status
<1>1. \A x \in Executions : exec[x] \in Row
  BY DEF TypeOK
<1>2. exec' = [exec EXCEPT ![e] = [exec[e] EXCEPT !.status = s, !.aged = FALSE]]
  BY DEF Write, TypeOK
<1> QED BY <1>1, <1>2 DEF TypeOK, Row

LEMMA AgedFacts ==
    ASSUME TypeOK, NEW e \in Executions, NEW a \in BOOLEAN, exec' = [exec EXCEPT ![e].aged = a]
    PROVE  \A x \in Executions : exec'[x].job = exec[x].job /\ exec'[x].status = exec[x].status
<1>1. \A x \in Executions : exec[x] \in Row
  BY DEF TypeOK
<1> QED BY <1>1 DEF TypeOK, Row

LEMMA JobStateFacts ==
    ASSUME TypeOK, NEW j \in Jobs, NEW s, job' = [job EXCEPT ![j].state = s]
    PROVE  /\ job'[j].state = s
           /\ \A k \in Jobs : job'[k].exec = job[k].exec /\ job'[k].retries = job[k].retries
           /\ \A k \in Jobs \ {j} : job'[k].state = job[k].state
<1>1. \A k \in Jobs : job[k] \in JobRow
  BY DEF TypeOK
<1> QED BY <1>1 DEF TypeOK, JobRow

LEMMA WorkerFacts ==
    ASSUME TypeOK, NEW d \in Devices, NEW p, worker' = [worker EXCEPT ![d].pc = p]
    PROVE  /\ worker'[d].pc = p
           /\ \A x \in Devices : worker'[x].job = worker[x].job
           /\ \A x \in Devices \ {d} : worker'[x].pc = worker[x].pc
<1>1. \A x \in Devices : worker[x] \in WorkerState
  BY DEF TypeOK
<1> QED BY <1>1 DEF TypeOK, WorkerState

LEMMA IdleWorkerFacts ==
    ASSUME TypeOK, NEW d \in Devices, worker' = [worker EXCEPT ![d] = IdleWorker]
    PROVE  /\ worker'[d].pc = "idle"
           /\ \A x \in Devices \ {d} : worker'[x] = worker[x]
BY DEF TypeOK, IdleWorker

LEMMA IdleRecFacts ==
    ASSUME TypeOK, NEW r \in Reconcilers, rec' = [rec EXCEPT ![r] = IdleRec]
    PROVE  rec'[r] = IdleRec /\ \A x \in Reconcilers \ {r} : rec'[x] = rec[x]
BY DEF TypeOK

LEMMA IdleOperFacts ==
    ASSUME TypeOK, NEW o \in Operators, oper' = [oper EXCEPT ![o] = IdleOper]
    PROVE  /\ oper'[o].pc = "idle"
           /\ \A x \in Operators \ {o} : oper'[x] = oper[x]
BY DEF TypeOK, IdleOper

LEMMA CancelFacts ==
    ASSUME TypeOK, NEW i \in Jobs \cup {NoJob}, CancelJob(i)
    PROVE  /\ \A k \in Jobs : job'[k].exec = job[k].exec /\ job'[k].retries = job[k].retries
           /\ \A k \in Jobs : \/ job'[k].state = job[k].state
                              \/ job'[k].state = "cancelled" /\ job[k].state # "missing"
           /\ faults' = 0 => faults = 0
<1>1. CASE job' = job
  BY <1>1 DEF CancelJob, Fault, TypeOK
<1>2. CASE i \in Jobs /\ job[i].state \in Live /\ job' = [job EXCEPT ![i].state = "cancelled"]
  BY <1>2, JobStateFacts DEF CancelJob, Fault, TypeOK, Live
<1> QED
  BY <1>1, <1>2 DEF CancelJob, Cancelled

LEMMA FaultFacts ==
    ASSUME TypeOK, Fault
    PROVE  faults' # 0
BY DEF TypeOK, Fault

\* What a step that touches little leaves alone: the ids, the outcomes of executions
\* without retry, and the account of their runs.
EndedNow(x) == exec'[x].status \in Terminal
JobsKept ==
    \A k \in Jobs :
        /\ job'[k].exec = job[k].exec
        /\ job'[k].state = "missing" <=> job[k].state = "missing"
InUse(k) ==
    \/ \E e \in Executions : exec[e].job = k
    \/ \E r \in Reconcilers : rec[r].row.job = k \/ rec[r].new = k
    \/ \E d \in Devices : worker[d].pc # "idle" /\ worker[d].job = k
IdsKept == \A k \in Jobs : InUse(k) => job'[k].exec = job[k].exec
RowsKept == \A x \in Executions : exec'[x].status = "absent" => exec[x].status = "absent"
LinksKept == \A x \in Executions : exec'[x].job = exec[x].job
RecsKept ==
    \A r \in Reconcilers :
        \/ rec'[r] = rec[r]
        \/ rec'[r] = IdleRec
        \/ /\ rec[r].pc # "idle" /\ rec'[r].pc \notin {"idle", "link"}
           /\ rec'[r].exec = rec[r].exec
           /\ rec'[r].row.job \in {rec[r].row.job, NoJob}
           /\ rec'[r].new \in {rec[r].new, NoJob}
OpersKept ==
    \A o \in Operators :
        \/ oper'[o] = oper[o]
        \/ oper'[o].pc = "idle"
        \/ oper[o].pc # "idle" /\ oper'[o].exec = oper[o].exec
HandlersKept ==
    \A d \in Devices :
        \/ worker'[d] = worker[d]
        \/ worker'[d].pc = "idle"
        \/ worker[d].pc # "idle" /\ worker'[d].job = worker[d].job
RetriesKept ==
    \A k \in Jobs :
        /\ job'[k].exec = job[k].exec
        /\ job'[k].retries = job[k].retries
        /\ job'[k].state = "retry" => job[k].state = "retry"
ResetsKept ==
    \A r \in Reconcilers :
        rec'[r].pc = "reset" => rec[r].pc = "reset" /\ rec'[r].exec = rec[r].exec
EndsKept ==
    \A x \in Executions : SideEffecting(x) /\ Finished(x) => EndedNow(x)
RecordKept ==
    /\ \A k \in Jobs :
        job'[k].state = "completed" =>
            /\ job'[k].exec = job[k].exec
            /\ SideEffecting(job[k].exec) => job[k].state = "completed" \/ EndedNow(job[k].exec)
    /\ \A d \in Devices :
        worker'[d].pc = "return" =>
            /\ worker[d].pc # "idle" /\ worker'[d].job = worker[d].job
            /\ SideEffecting(ExecOf(d)) => worker[d].pc = "return" \/ EndedNow(ExecOf(d))
RunsKept ==
    /\ runs' = runs
    /\ faults' = 0 => faults = 0
    /\ faults' = 0 => \A d \in Devices :
        /\ worker'[d].pc = "claimed" => worker[d].pc = "claimed" /\ worker'[d].job = worker[d].job
        /\ worker[d].pc \in {"body", "ended"} /\ SideEffecting(ExecOf(d)) =>
            \/ worker'[d].pc \in {"body", "ended"} /\ worker'[d].job = worker[d].job
            \/ EndedNow(ExecOf(d))

LEMMA JobRefsKept ==
    ASSUME JobRefs, JobsKept, RowsKept PROVE JobRefs'
BY DEF JobRefs, JobsKept, RowsKept

LEMMA JobsIdsKept == ASSUME JobsKept PROVE IdsKept
BY DEF JobsKept, IdsKept

LEMMA RowRefsKept ==
    ASSUME RowRefs, IdsKept, LinksKept PROVE RowRefs'
BY DEF RowRefs, IdsKept, InUse, LinksKept

LEMMA RecRefsKept ==
    ASSUME RecRefs, IdsKept, RowsKept, RecsKept PROVE RecRefs'
<1> SUFFICES ASSUME NEW r \in Reconcilers
             PROVE  /\ rec'[r].pc # "idle" => rec'[r].exec \in Executions /\ exec'[rec'[r].exec].status # "absent"
                    /\ rec'[r].row.job \in Jobs => job'[rec'[r].row.job].exec = rec'[r].exec
                    /\ rec'[r].new \in Jobs => job'[rec'[r].new].exec = rec'[r].exec
                    /\ rec'[r].pc = "link" => rec'[r].new \in Jobs
                    /\ rec'[r].pc = "idle" => rec'[r] = IdleRec
  BY DEF RecRefs
<1>1. CASE rec'[r] = IdleRec
  BY <1>1 DEF IdleRec, NoRow
<1>2. CASE rec'[r] # IdleRec
  BY <1>2 DEF RecRefs, IdsKept, InUse, RowsKept, RecsKept
<1> QED BY <1>1, <1>2

LEMMA OperRefsKept ==
    ASSUME OperRefs, RowsKept, OpersKept PROVE OperRefs'
BY DEF OperRefs, RowsKept, OpersKept

LEMMA HandlerRefsKept ==
    ASSUME HandlerRefs, IdsKept, HandlersKept PROVE HandlerRefs'
BY DEF HandlerRefs, IdsKept, InUse, HandlersKept, ExecOf

LEMMA ReferencesKept ==
    ASSUME References, JobsKept, RowsKept, LinksKept, RecsKept, OpersKept, HandlersKept
    PROVE  References'
BY JobsIdsKept, JobRefsKept, RowRefsKept, RecRefsKept, OperRefsKept, HandlerRefsKept DEF References

LEMMA DeliveriesKept ==
    ASSUME TypeOK, DeliveriesWithinPolicy, RetriesKept PROVE DeliveriesWithinPolicy'
BY DEF DeliveriesWithinPolicy, RetriesKept

LEMMA ResetsAreKept ==
    ASSUME ResetsAreRetryable, ResetsKept PROVE ResetsAreRetryable'
BY DEF ResetsAreRetryable, ResetsKept

LEMMA RecordIsKept ==
    ASSUME TypeOK, References, CompletedJobIsRecorded, ReturnsAreRecorded,
           IdsKept, EndsKept, RecordKept
    PROVE  CompletedJobIsRecorded' /\ ReturnsAreRecorded'
<1>1. \A k \in Jobs : job[k].state = "completed" => job[k].exec \in Executions
  BY DEF TypeOK, JobRow, References, JobRefs
<1>2. CompletedJobIsRecorded'
  BY <1>1 DEF CompletedJobIsRecorded, EndsKept, RecordKept, SideEffecting, EndedNow, Finished
<1>3. \A d \in Devices : worker[d].pc = "return" => ExecOf(d) \in Executions /\ worker[d].job \in Jobs
  BY DEF References, HandlerRefs
<1>4. ReturnsAreRecorded'
  <2> SUFFICES ASSUME NEW d \in Devices, worker'[d].pc = "return", SideEffecting(ExecOf(d))'
               PROVE  Finished(ExecOf(d))'
    BY DEF ReturnsAreRecorded
  <2>1. worker[d].pc # "idle" /\ worker'[d].job = worker[d].job
    BY DEF RecordKept
  <2>2. ExecOf(d)' = ExecOf(d) /\ ExecOf(d) \in Executions
    BY <2>1 DEF References, HandlerRefs, IdsKept, InUse, ExecOf
  <2> QED BY <2>1, <2>2 DEF ReturnsAreRecorded, EndsKept, RecordKept, SideEffecting, EndedNow, Finished
<1> QED BY <1>2, <1>4

LEMMA RunsAreKept ==
    ASSUME TypeOK, References, OneRunWithoutFaults, RunsAreAccounted, IdsKept, EndsKept, RunsKept
    PROVE  OneRunWithoutFaults' /\ RunsAreAccounted'
<1>1. OneRunWithoutFaults'
  BY DEF OneRunWithoutFaults, RunsKept, SideEffecting
<1>2. RunsAreAccounted'
  <2> SUFFICES ASSUME faults' = 0
               PROVE  /\ \A e \in Executions :
                          SideEffecting(e) /\ runs'[e] > 0 =>
                            \/ Finished(e)'
                            \/ worker'[DeviceOf[e]].pc \in {"body", "ended"} /\ ExecOf(DeviceOf[e])' = e
                      /\ \A d \in Devices :
                          worker'[d].pc = "claimed" /\ SideEffecting(ExecOf(d)') => runs'[ExecOf(d)'] = 0
    BY DEF RunsAreAccounted, SideEffecting
  <2>1. \A d \in Devices : worker[d].pc # "idle" /\ worker'[d].job = worker[d].job => ExecOf(d)' = ExecOf(d)
    BY DEF References, HandlerRefs, IdsKept, InUse, ExecOf
  <2>2. \A e \in Executions : DeviceOf[e] \in Devices
    OBVIOUS
  <2>3. ASSUME NEW e \in Executions, SideEffecting(e), runs'[e] > 0
        PROVE  \/ Finished(e)'
               \/ worker'[DeviceOf[e]].pc \in {"body", "ended"} /\ ExecOf(DeviceOf[e])' = e
    <3>1. CASE Finished(e)
      BY <2>3, <3>1 DEF EndsKept, EndedNow, Finished
    <3>2. CASE worker[DeviceOf[e]].pc \in {"body", "ended"} /\ ExecOf(DeviceOf[e]) = e
      <4>1. \/ worker'[DeviceOf[e]].pc \in {"body", "ended"}
               /\ worker'[DeviceOf[e]].job = worker[DeviceOf[e]].job
            \/ EndedNow(ExecOf(DeviceOf[e]))
        BY <2>2, <2>3, <3>2 DEF RunsKept
      <4>2. ExecOf(DeviceOf[e])' = e \/ worker'[DeviceOf[e]].job # worker[DeviceOf[e]].job
        BY <2>1, <2>2, <3>2
      <4> QED BY <3>2, <4>1, <4>2 DEF EndedNow, Finished
    <3> QED BY <2>3, <3>1, <3>2 DEF RunsAreAccounted, RunsKept
  <2>4. ASSUME NEW d \in Devices, worker'[d].pc = "claimed", SideEffecting(ExecOf(d)')
        PROVE  runs'[ExecOf(d)'] = 0
    BY <2>1, <2>4 DEF RunsAreAccounted, RunsKept
  <2> QED BY <2>3, <2>4
<1> QED BY <1>1, <1>2

LEMMA AllKept ==
    ASSUME TypeOK, IInv, JobsKept, RowsKept, LinksKept, RecsKept, OpersKept, HandlersKept,
           RetriesKept, ResetsKept, EndsKept, RecordKept, RunsKept
    PROVE  IInv'
BY JobsIdsKept, ReferencesKept, DeliveriesKept, ResetsAreKept, RecordIsKept, RunsAreKept DEF IInv

\* The kinds of update, in these terms.
LEMMA WriteKept ==
    ASSUME TypeOK, NEW e \in Executions, NEW s \in Status, Write(e, s), s # "absent",
           s \in Terminal \/ ~SideEffecting(e) \/ exec[e].status \in Pending
    PROVE  RowsKept /\ LinksKept /\ EndsKept /\ exec'[e].status = s
<1>1. /\ exec'[e].status = s
      /\ \A x \in Executions : exec'[x].job = exec[x].job
      /\ \A x \in Executions \ {e} : exec'[x].status = exec[x].status
  BY WriteFacts
<1>2. ~(exec[e].status \in Pending /\ exec[e].status \in Terminal)
  BY DEF Pending, Terminal
<1> QED BY <1>1, <1>2 DEF RowsKept, LinksKept, EndsKept, EndedNow, Finished

LEMMA RowsSame ==
    ASSUME \A x \in Executions : exec'[x].job = exec[x].job /\ exec'[x].status = exec[x].status
    PROVE  RowsKept /\ LinksKept /\ EndsKept
BY DEF RowsKept, LinksKept, EndsKept, EndedNow, Finished

LEMMA ExecSame == ASSUME exec' = exec PROVE RowsKept /\ LinksKept /\ EndsKept
BY RowsSame

LEMMA JobSame == ASSUME job' = job PROVE JobsKept /\ RetriesKept
BY DEF JobsKept, RetriesKept

LEMMA CancelKept ==
    ASSUME TypeOK, NEW i \in Jobs \cup {NoJob}, CancelJob(i)
    PROVE  /\ JobsKept /\ RetriesKept
           /\ \A k \in Jobs : job'[k].state = "completed" => job[k].state = "completed"
           /\ faults' = 0 => faults = 0
BY CancelFacts DEF JobsKept, RetriesKept

LEMMA RecSame == ASSUME rec' = rec PROVE RecsKept /\ ResetsKept
BY DEF RecsKept, ResetsKept

LEMMA RecIdle ==
    ASSUME TypeOK, NEW r \in Reconcilers, NextIteration(r) PROVE RecsKept /\ ResetsKept
BY IdleRecFacts DEF NextIteration, RecsKept, ResetsKept, IdleRec

LEMMA RecDecided ==
    ASSUME TypeOK, NEW r \in Reconcilers, rec[r].pc # "idle", NEW d,
           d \in {"idle", "fail", "stop", "cancelRun", "cancelQueued", "requeue", "reset"},
           rec' = [rec EXCEPT ![r] = Decided(r, d)]
    PROVE  RecsKept /\ (d # "reset" => ResetsKept)
<1>1. \A x \in Reconcilers : rec[x] \in RecState
  BY DEF TypeOK
<1>2. rec'[r] = Decided(r, d) /\ \A x \in Reconcilers \ {r} : rec'[x] = rec[x]
  BY DEF TypeOK
<1>3. /\ Decided(r, d).pc = d
      /\ \/ Decided(r, d) = IdleRec
         \/ /\ d # "idle"
            /\ Decided(r, d).exec = rec[r].exec
            /\ Decided(r, d).row.job \in {rec[r].row.job, NoJob}
            /\ Decided(r, d).new \in {rec[r].new, NoJob}
  BY <1>1 DEF Decided, IdleRec, NoRow, RecState
<1> QED BY <1>2, <1>3 DEF RecsKept, ResetsKept

LEMMA OperSame == ASSUME oper' = oper PROVE OpersKept
BY DEF OpersKept

LEMMA OperAnswer == ASSUME TypeOK, NEW o \in Operators, Answer(o) PROVE OpersKept
BY IdleOperFacts DEF Answer, OpersKept

LEMMA WorkerSame == ASSUME worker' = worker PROVE HandlersKept
BY DEF HandlersKept

\* Rows and jobs may change, the handlers do not.
LEMMA OutsideHandlers ==
    ASSUME TypeOK, worker' = worker, runs' = runs, JobsKept, faults' = 0 => faults = 0,
           \A k \in Jobs : job'[k].state = "completed" => job[k].state = "completed"
    PROVE  HandlersKept /\ RecordKept /\ RunsKept
BY DEF HandlersKept, RecordKept, RunsKept, JobsKept

\* A job nobody refers to may come and go.
LEMMA FreeJobUnused ==
    ASSUME TypeOK, References, NEW j \in Jobs, job[j].state = "missing"
    PROVE  ~InUse(j)
<1>1. job[j].exec = NoExec
  BY DEF References, JobRefs
<1>2. \A e \in Executions : exec[e].job # j
  BY <1>1 DEF References, RowRefs
<1>3. \A r \in Reconcilers : rec[r].row.job # j /\ rec[r].new # j
  <2> SUFFICES ASSUME NEW r \in Reconcilers PROVE rec[r].row.job # j /\ rec[r].new # j
    OBVIOUS
  <2>1. CASE rec[r].pc = "idle"
    BY <2>1 DEF References, RecRefs, IdleRec, NoRow
  <2>2. CASE rec[r].pc # "idle"
    BY <1>1, <2>2 DEF References, RecRefs
  <2> QED BY <2>1, <2>2
<1>4. \A d \in Devices : worker[d].pc # "idle" => worker[d].job # j
  BY <1>1 DEF References, HandlerRefs, ExecOf
<1> QED BY <1>2, <1>3, <1>4 DEF InUse

LEMMA FailureKept ==
    ASSUME TypeOK, IInv, NEW j \in Jobs, job[j].state \in Live,
           job' = [job EXCEPT ![j].state = AfterFailure(j)]
    PROVE  /\ JobsKept /\ DeliveriesWithinPolicy'
           /\ \A k \in Jobs : job'[k].state = "completed" => job[k].state = "completed"
<1>1. /\ job'[j].state = AfterFailure(j)
      /\ \A k \in Jobs : job'[k].exec = job[k].exec /\ job'[k].retries = job[k].retries
      /\ \A k \in Jobs \ {j} : job'[k].state = job[k].state
  BY JobStateFacts
<1>2. /\ AfterFailure(j) \in {"retry", "failed"}
      /\ AfterFailure(j) = "retry" => job[j].retries < RetryLimit[job[j].exec]
  BY DEF AfterFailure, SentLimit
<1>3. job[j].state # "missing"
  BY DEF Live
<1> QED BY <1>1, <1>2, <1>3 DEF JobsKept, DeliveriesWithinPolicy, IInv

LEMMA MostKept ==
    ASSUME TypeOK, IInv, JobsKept, RowsKept, LinksKept, RecsKept, OpersKept, HandlersKept,
           DeliveriesWithinPolicy', ResetsKept, EndsKept, RecordKept, RunsKept
    PROVE  IInv'
BY JobsIdsKept, ReferencesKept, ResetsAreKept, RecordIsKept, RunsAreKept DEF IInv

\* Every step from a well-typed state that satisfies IInv leads to one that does, and
\* no step takes a finished execution without retry back.
LEMMA Inductive == TypeOK /\ IInv /\ [Next]_vars => IInv' /\ EndsKept
<1> SUFFICES ASSUME TypeOK, IInv, [Next]_vars PROVE IInv' /\ EndsKept
  OBVIOUS
<1> USE DEF EndsKept, EndedNow, Finished
<1>a. \A x \in Executions : SideEffecting(x) /\ Finished(x) => exec[x].status \notin Pending
  BY DEF Finished, Terminal, Pending
<1>0. CASE UNCHANGED vars
  BY <1>0 DEF vars, IInv, References, JobRefs, RowRefs, RecRefs, OperRefs, HandlerRefs,
     DeliveriesWithinPolicy, ResetsAreRetryable, CompletedJobIsRecorded, ReturnsAreRecorded,
     OneRunWithoutFaults, RunsAreAccounted, ExecOf, Finished
<1>1. ASSUME NEW d \in Devices, NEW j \in Jobs, Fetch(d, j) PROVE IInv' /\ EndsKept
  <2>0. DeviceOf[job[j].exec] = d /\ job[j].exec \in Executions
    BY <1>1 DEF Fetch, TypeOK, JobRow, IInv, References, JobRefs
  <2>1. /\ job'[j].state = "active"
        /\ job'[j].retries = IF job[j].state = "retry" THEN job[j].retries + 1 ELSE job[j].retries
        /\ \A k \in Jobs : job'[k].exec = job[k].exec
        /\ \A k \in Jobs \ {j} : job'[k] = job[k]
    <3>1. \A k \in Jobs : job[k] \in JobRow
      BY DEF TypeOK
    <3> QED BY <1>1, <3>1 DEF Fetch, TypeOK, JobRow
  <2>2. /\ worker[d].pc = "idle" /\ worker'[d].pc = "fetched" /\ worker'[d].job = j
        /\ \A x \in Devices \ {d} : worker'[x] = worker[x]
    BY <1>1 DEF Fetch, TypeOK
  <2>3. JobsKept /\ \A k \in Jobs : job'[k].state = "completed" => job[k].state = "completed"
    BY <1>1, <2>1 DEF Fetch, JobsKept
  <2>4. DeliveriesWithinPolicy'
    <3>1. \A k \in Jobs : job[k].retries \in Nat
      BY DEF TypeOK, JobRow
    <3>2. job'[j].retries <= RetryLimit[job[j].exec]
      BY <2>0, <2>1, <3>1 DEF IInv, DeliveriesWithinPolicy
    <3> QED BY <2>1, <3>2 DEF IInv, DeliveriesWithinPolicy
  <2>5. References'
    <3>1. HandlerRefs'
      BY <2>0, <2>1, <2>2 DEF HandlerRefs, ExecOf, IInv, References
    <3> QED
      BY <1>1, <2>3, <3>1, ExecSame, RecSame, OperSame, JobsIdsKept, JobRefsKept, RowRefsKept, RecRefsKept, OperRefsKept
         DEF Fetch, IInv, References
  <2>6. RecordKept
    BY <2>2, <2>3 DEF RecordKept, JobsKept
  <2>7. RunsKept
    BY <1>1, <2>2 DEF Fetch, RunsKept
  <2> QED
    BY <1>1, <2>3, <2>4, <2>5, <2>6, <2>7, ExecSame, RecSame, ResetsAreKept, JobsIdsKept, RecordIsKept, RunsAreKept
       DEF Fetch, IInv
<1>2. ASSUME NEW d \in Devices, StartAttempt(d) PROVE IInv' /\ EndsKept
  <2>0. ExecOf(d) \in Executions /\ DeviceOf[ExecOf(d)] = d /\ worker[d].pc = "fetched"
    BY <1>2 DEF StartAttempt, IInv, References, HandlerRefs
  <2>1. PICK p \in {"claimed", "return"} : worker' = [worker EXCEPT ![d].pc = p]
    BY <1>2 DEF StartAttempt
  <2>2. /\ worker'[d].pc = p
        /\ \A x \in Devices : worker'[x].job = worker[x].job
        /\ \A x \in Devices \ {d} : worker'[x].pc = worker[x].pc
    BY <2>1, WorkerFacts
  <2>3. HandlersKept
    BY <2>0, <2>1, <2>2 DEF TypeOK, HandlersKept
  <2>4. CASE exec[ExecOf(d)].status \in Pending
    <3>1. Write(ExecOf(d), "running") /\ p = "claimed"
      <4>1. worker' = [worker EXCEPT ![d].pc = "claimed"]
        BY <1>2, <2>4 DEF StartAttempt
      <4>2. worker'[d].pc = "claimed"
        BY <4>1, WorkerFacts
      <4> QED BY <1>2, <2>2, <2>4, <4>2 DEF StartAttempt
    <3>2. RowsKept /\ LinksKept /\ EndsKept
      <4>1. "running" \in Status
        BY DEF Status, Pending
      <4> QED BY <2>0, <2>4, <3>1, <4>1, WriteKept
    <3>3. RecordKept
      BY <1>2, <2>2, <3>1 DEF StartAttempt, RecordKept
    <3>4. References' /\ JobsKept
      BY <1>2, <2>3, <3>2, JobSame, RecSame, OperSame, ReferencesKept DEF StartAttempt, IInv
    <3>5. OneRunWithoutFaults'
      BY <1>2 DEF StartAttempt, IInv, OneRunWithoutFaults
    <3>6. RunsAreAccounted'
      <4> SUFFICES ASSUME faults = 0
                   PROVE  /\ \A e \in Executions :
                              SideEffecting(e) /\ runs[e] > 0 =>
                                \/ EndedNow(e)
                                \/ worker'[DeviceOf[e]].pc \in {"body", "ended"} /\ ExecOf(DeviceOf[e])' = e
                          /\ \A x \in Devices :
                              worker'[x].pc = "claimed" /\ SideEffecting(ExecOf(x)) => runs[ExecOf(x)] = 0
        <5>1. \A x \in Devices : ExecOf(x)' = ExecOf(x)
          BY <1>2, <2>2 DEF StartAttempt, ExecOf
        <5> QED BY <1>2, <5>1 DEF StartAttempt, RunsAreAccounted, SideEffecting
      <4>1. \A x \in Devices : ExecOf(x)' = ExecOf(x)
        BY <1>2, <2>2 DEF StartAttempt, ExecOf
      <4>2. ASSUME NEW e \in Executions, SideEffecting(e), runs[e] > 0
            PROVE  \/ EndedNow(e)
                   \/ worker'[DeviceOf[e]].pc \in {"body", "ended"} /\ ExecOf(DeviceOf[e])' = e
        <5>1. CASE Finished(e)
          BY <3>2, <4>2, <5>1
        <5>2. CASE worker[DeviceOf[e]].pc \in {"body", "ended"} /\ ExecOf(DeviceOf[e]) = e
          BY <2>0, <2>2, <4>1, <5>2
        <5> QED BY <4>2, <5>1, <5>2 DEF IInv, RunsAreAccounted
      <4>3. ASSUME SideEffecting(ExecOf(d)) PROVE runs[ExecOf(d)] = 0
        <5>1. ~Finished(ExecOf(d))
          BY <2>4 DEF Pending, Terminal
        <5>2. runs[ExecOf(d)] \in Nat
          BY <2>0 DEF TypeOK, RunsBound
        <5> QED BY <2>0, <4>3, <5>1, <5>2 DEF IInv, RunsAreAccounted
      <4> QED BY <2>2, <4>2, <4>3 DEF IInv, RunsAreAccounted
    <3> QED
      BY <1>2, <3>2, <3>3, <3>4, <3>5, <3>6, JobSame, RecSame, DeliveriesKept, ResetsAreKept, JobsIdsKept, RecordIsKept
         DEF StartAttempt, IInv
  <2>5. CASE exec[ExecOf(d)].status \notin Pending
    <3>1. Finished(ExecOf(d))
      <4>1. exec[ExecOf(d)].status \in Status
        BY <2>0 DEF TypeOK, Row
      <4>2. exec[ExecOf(d)].status # "absent"
        BY <2>0 DEF IInv, References, HandlerRefs, JobRefs, ExecOf
      <4> QED
        BY <2>5, <4>1, <4>2 DEF Status
    <3>2. exec' = exec /\ p = "return"
      <4>1. exec' = exec /\ worker' = [worker EXCEPT ![d].pc = "return"]
        BY <1>2, <2>5 DEF StartAttempt
      <4>2. worker'[d].pc = "return"
        BY <4>1, WorkerFacts
      <4> QED BY <2>2, <4>1, <4>2
    <3>3. RecordKept
      BY <1>2, <2>0, <2>2, <3>1, <3>2 DEF StartAttempt, RecordKept
    <3>4. RunsKept
      BY <1>2, <2>0, <2>2, <3>2 DEF StartAttempt, RunsKept
    <3> QED
      BY <1>2, <2>3, <3>2, <3>3, <3>4, ExecSame, JobSame, RecSame, OperSame, AllKept DEF StartAttempt
  <2> QED
    BY <2>4, <2>5
<1>3. ASSUME NEW d \in Devices, StartBody(d) PROVE IInv' /\ EndsKept
  <2>0. ExecOf(d) \in Executions /\ DeviceOf[ExecOf(d)] = d /\ worker[d].pc = "claimed"
    BY <1>3 DEF StartBody, IInv, References, HandlerRefs
  <2>1. /\ worker'[d].pc = "body"
        /\ \A x \in Devices : worker'[x].job = worker[x].job
        /\ \A x \in Devices \ {d} : worker'[x].pc = worker[x].pc
    BY <1>3, WorkerFacts DEF StartBody
  <2>2. /\ \A x \in Executions \ {ExecOf(d)} : runs'[x] = runs[x]
        /\ runs[ExecOf(d)] = 0 => runs'[ExecOf(d)] = 1
    BY <1>3, <2>0 DEF StartBody, TypeOK, RunsBound
  <2>3. HandlersKept
    BY <1>3, <2>0, <2>1 DEF StartBody, TypeOK, HandlersKept
  <2>4. RecordKept
    BY <1>3, <2>1 DEF StartBody, RecordKept
  <2>5. References' /\ JobsKept
    BY <1>3, <2>3, ExecSame, JobSame, RecSame, OperSame, ReferencesKept DEF StartBody, IInv
  <2>6. \A x \in Devices : ExecOf(x)' = ExecOf(x)
    BY <1>3, <2>1 DEF StartBody, ExecOf
  <2>7. ASSUME faults = 0, SideEffecting(ExecOf(d)) PROVE runs[ExecOf(d)] = 0
    BY <2>0, <2>7 DEF IInv, RunsAreAccounted
  <2>8. OneRunWithoutFaults'
    BY <1>3, <2>2, <2>7 DEF StartBody, IInv, OneRunWithoutFaults
  <2>9. ASSUME faults' = 0
        PROVE  /\ \A e \in Executions :
                   SideEffecting(e) /\ runs'[e] > 0 =>
                     \/ Finished(e)'
                     \/ worker'[DeviceOf[e]].pc \in {"body", "ended"} /\ ExecOf(DeviceOf[e])' = e
               /\ \A x \in Devices :
                   worker'[x].pc = "claimed" /\ SideEffecting(ExecOf(x)') => runs'[ExecOf(x)'] = 0
    <3>0. faults = 0
      BY <1>3, <2>9 DEF StartBody
    <3>1. ASSUME NEW e \in Executions, SideEffecting(e), runs'[e] > 0
          PROVE  \/ Finished(e)'
                 \/ worker'[DeviceOf[e]].pc \in {"body", "ended"} /\ ExecOf(DeviceOf[e])' = e
      <4>1. CASE e = ExecOf(d)
        BY <2>0, <2>1, <2>6, <4>1
      <4>2. CASE e # ExecOf(d)
        BY <1>3, <2>0, <2>1, <2>2, <2>6, <3>0, <3>1, <4>2 DEF StartBody, IInv, RunsAreAccounted
      <4> QED BY <4>1, <4>2
    <3>2. ASSUME NEW x \in Devices, worker'[x].pc = "claimed", SideEffecting(ExecOf(x)')
          PROVE  runs'[ExecOf(x)'] = 0
      <4>1. x # d /\ worker[x].pc = "claimed"
        BY <2>1, <3>2
      <4>2. ExecOf(x) \in Executions /\ DeviceOf[ExecOf(x)] = x
        BY <4>1 DEF IInv, References, HandlerRefs
      <4> QED BY <2>0, <2>2, <2>6, <3>0, <3>2, <4>1, <4>2 DEF IInv, RunsAreAccounted
    <3> QED BY <3>1, <3>2
  <2>10. RunsAreAccounted'
    BY <2>9 DEF RunsAreAccounted, SideEffecting
  <2> QED
    BY <1>3, <2>4, <2>5, <2>8, <2>10, ExecSame, JobSame, RecSame, DeliveriesKept, ResetsAreKept, JobsIdsKept, RecordIsKept
       DEF StartBody, IInv
<1>4. ASSUME NEW d \in Devices, Heartbeat(d) PROVE IInv' /\ EndsKept
  <2>1. \A x \in Executions : exec'[x].job = exec[x].job /\ exec'[x].status = exec[x].status
    BY <1>4, AgedFacts DEF Heartbeat, IInv, References, HandlerRefs
  <2>2. JobsKept /\ RowsKept /\ LinksKept /\ RecsKept /\ OpersKept /\ HandlersKept
    BY <1>4, <2>1 DEF Heartbeat, JobsKept, RowsKept, LinksKept, RecsKept, OpersKept, HandlersKept
  <2>3. RetriesKept /\ ResetsKept
    BY <1>4 DEF Heartbeat, RetriesKept, ResetsKept
  <2>4. EndsKept /\ RecordKept /\ RunsKept
    BY <1>4, <2>1 DEF Heartbeat, RecordKept, RunsKept, Finished
  <2> QED
    BY <2>2, <2>3, <2>4, AllKept
<1>5. ASSUME NEW d \in Devices, NEW o \in {"ok", "error", "stopped"}, EndBody(d, o) PROVE IInv' /\ EndsKept
  <2>1. /\ worker'[d].pc = "ended" /\ worker[d].pc \in {"body", "claimed"}
        /\ \A x \in Devices : worker'[x].job = worker[x].job
        /\ \A x \in Devices \ {d} : worker'[x] = worker[x]
    <3>1. \A x \in Devices : worker[x] \in WorkerState
      BY DEF TypeOK
    <3> QED BY <1>5, <3>1 DEF EndBody, TypeOK, WorkerState
  <2>2. JobsKept /\ RowsKept /\ LinksKept /\ RecsKept /\ OpersKept /\ HandlersKept
    BY <1>5, <2>1 DEF EndBody, JobsKept, RowsKept, LinksKept, RecsKept, OpersKept, HandlersKept
  <2>3. RetriesKept /\ ResetsKept
    BY <1>5 DEF EndBody, RetriesKept, ResetsKept
  <2>4. EndsKept /\ RecordKept /\ RunsKept
    BY <1>5, <2>1 DEF EndBody, RecordKept, RunsKept, Finished
  <2> QED
    BY <2>2, <2>3, <2>4, AllKept
<1>6. ASSUME NEW d \in Devices, Settle(d) PROVE IInv' /\ EndsKept
  <2>0. ExecOf(d) \in Executions /\ worker[d].job \in Jobs /\ worker[d].pc = "ended"
    BY <1>6 DEF Settle, IInv, References, HandlerRefs
  <2>1. PICK s \in Status, p \in {"return", "throw"} :
          /\ Write(ExecOf(d), s) /\ worker' = [worker EXCEPT ![d].pc = p]
          /\ s \in Terminal \/ (s = "queued" /\ p = "throw" /\ MayRetry(d))
    <3>1. {"succeeded", "failed", "stopped", "queued"} \subseteq Status
          /\ {"succeeded", "failed", "stopped"} \subseteq Terminal
      BY DEF Status, Terminal, Pending
    <3>2. CASE worker[d].outcome = "error" /\ MayRetry(d)
      BY <1>6, <3>1, <3>2 DEF Settle
    <3>3. CASE worker[d].outcome = "error" /\ ~MayRetry(d)
      BY <1>6, <3>1, <3>3 DEF Settle
    <3>4. CASE worker[d].outcome # "error"
      BY <1>6, <3>1, <3>4 DEF Settle
    <3> QED BY <3>2, <3>3, <3>4
  <2>2. s \in Terminal \/ (p = "throw" /\ s = "queued" /\ ~SideEffecting(ExecOf(d)))
    <3>1. job[worker[d].job].retries \in Nat /\ RetryLimit[ExecOf(d)] \in Nat
      BY <2>0 DEF TypeOK, JobRow
    <3>2. MayRetry(d) => ~SideEffecting(ExecOf(d))
      BY <3>1 DEF MayRetry, SideEffecting
    <3> QED
      BY <2>1, <3>2
  <2>3. /\ exec'[ExecOf(d)].status = s
        /\ \A x \in Executions : exec'[x].job = exec[x].job
        /\ \A x \in Executions \ {ExecOf(d)} : exec'[x].status = exec[x].status
    BY <2>0, <2>1, WriteFacts
  <2>4. /\ worker'[d].pc = p
        /\ \A x \in Devices : worker'[x].job = worker[x].job
        /\ \A x \in Devices \ {d} : worker'[x].pc = worker[x].pc
    BY <2>1, WorkerFacts
  <2>5. /\ s # "absent" /\ (s \in Terminal \/ (~SideEffecting(ExecOf(d)) /\ p # "return"))
        /\ UNCHANGED <<job, rec, oper, runs, faults>>
    BY <1>6, <2>2 DEF Settle, Terminal
  <2>6. JobsKept /\ RowsKept /\ LinksKept /\ RecsKept /\ OpersKept
    BY <2>3, <2>5 DEF JobsKept, RowsKept, LinksKept, RecsKept, OpersKept
  <2>7. HandlersKept
    BY <2>0, <2>1, <2>4 DEF TypeOK, HandlersKept
  <2>8. RetriesKept /\ ResetsKept
    BY <2>5 DEF RetriesKept, ResetsKept
  <2>9. EndsKept
    BY <2>3, <2>5 DEF Finished
  <2>10. RecordKept
    BY <2>0, <2>3, <2>4, <2>5 DEF RecordKept, Finished
  <2>11. RunsKept
    BY <2>0, <2>3, <2>4, <2>5 DEF RunsKept, Finished
  <2> QED
    BY <2>6, <2>7, <2>8, <2>9, <2>10, <2>11, AllKept
<1>7. ASSUME NEW d \in Devices, HandlerThrows(d) PROVE IInv' /\ EndsKept
  <2>1. /\ worker'[d].pc = "throw" /\ worker[d].pc # "idle"
        /\ \A x \in Devices : worker'[x].job = worker[x].job
        /\ \A x \in Devices \ {d} : worker'[x].pc = worker[x].pc
    BY <1>7, WorkerFacts DEF HandlerThrows
  <2>2. HandlersKept
    BY <1>7, <2>1 DEF HandlersKept, HandlerThrows, TypeOK
  <2>3. RecordKept /\ RunsKept
    BY <1>7, <2>1, FaultFacts DEF HandlerThrows, RecordKept, RunsKept
  <2> QED
    BY <1>7, <2>2, <2>3, ExecSame, JobSame, RecSame, OperSame, AllKept DEF HandlerThrows
<1>8. ASSUME NEW d \in Devices, Return(d) PROVE IInv' /\ EndsKept
  <2>0. ExecOf(d) \in Executions /\ worker[d].job \in Jobs /\ worker[d].pc = "return"
    BY <1>8 DEF Return, IInv, References, HandlerRefs
  <2>1. /\ worker'[d].pc = "idle"
        /\ \A x \in Devices \ {d} : worker'[x] = worker[x]
    BY <1>8, IdleWorkerFacts DEF Return
  <2>2. /\ \A k \in Jobs : job'[k].exec = job[k].exec /\ job'[k].retries = job[k].retries
        /\ \A k \in Jobs : \/ job'[k].state = job[k].state
                           \/ /\ k = worker[d].job
                              /\ job[k].state = "active" /\ job'[k].state = "completed"
    BY <1>8, <2>0, JobStateFacts DEF Return
  <2>3. JobsKept /\ RetriesKept
    BY <2>2 DEF JobsKept, RetriesKept
  <2>4. HandlersKept
    BY <2>1 DEF HandlersKept
  <2>5. RecordKept
    BY <1>8, <2>0, <2>1, <2>2 DEF Return, RecordKept, IInv, ReturnsAreRecorded, ExecOf
  <2>6. RunsKept
    BY <1>8, <2>0, <2>1 DEF Return, RunsKept
  <2> QED
    BY <1>8, <2>3, <2>4, <2>5, <2>6, ExecSame, RecSame, OperSame, AllKept DEF Return
<1>9. ASSUME NEW d \in Devices, Throw(d) PROVE IInv' /\ EndsKept
  <2>0. ExecOf(d) \in Executions /\ worker[d].job \in Jobs /\ worker[d].pc = "throw"
    BY <1>9 DEF Throw, IInv, References, HandlerRefs
  <2>1. /\ worker'[d].pc = "idle"
        /\ \A x \in Devices \ {d} : worker'[x] = worker[x]
    BY <1>9, IdleWorkerFacts DEF Throw
  <2>2. \/ job' = job
        \/ job' = [job EXCEPT ![worker[d].job].state = AfterFailure(worker[d].job)] /\ job[worker[d].job].state \in Live
    BY <1>9 DEF Throw
  <2>3. JobsKept /\ DeliveriesWithinPolicy' /\ \A k \in Jobs : job'[k].state = "completed" => job[k].state = "completed"
    BY <2>0, <2>2, FailureKept, DeliveriesKept, JobSame DEF IInv
  <2>4. HandlersKept
    BY <2>1 DEF HandlersKept
  <2>5. RecordKept
    BY <2>1, <2>3 DEF RecordKept, JobsKept
  <2>6. RunsKept
    BY <1>9, <2>0, <2>1 DEF Throw, RunsKept
  <2> QED
    BY <1>9, <2>3, <2>4, <2>5, <2>6, ExecSame, RecSame, OperSame, MostKept DEF Throw
<1>10. ASSUME NEW d \in Devices, Crash(d) PROVE IInv' /\ EndsKept
  <2>1. /\ worker'[d].pc = "idle"
        /\ \A x \in Devices \ {d} : worker'[x] = worker[x]
    BY <1>10, IdleWorkerFacts DEF Crash
  <2>2. HandlersKept
    BY <2>1 DEF HandlersKept
  <2>3. RecordKept /\ RunsKept
    BY <1>10, <2>1, FaultFacts DEF Crash, RecordKept, RunsKept
  <2> QED
    BY <1>10, <2>2, <2>3, ExecSame, JobSame, RecSame, OperSame, AllKept DEF Crash
<1>11. ASSUME NEW r \in Reconcilers, NEW e \in Executions, Select(r, e) PROVE IInv' /\ EndsKept
  <2>1. /\ rec'[r].pc = "selected" /\ rec'[r].exec = e /\ rec'[r].row = exec[e] /\ rec'[r].new = NoJob
        /\ \A x \in Reconcilers \ {r} : rec'[x] = rec[x]
    BY <1>11 DEF Select, IdleRec, TypeOK
  <2>2. RecRefs'
    <3>1. exec[e].status # "absent"
      BY <1>11 DEF Select, Pending
    <3> QED BY <1>11, <2>1, <3>1 DEF Select, RecRefs, RowRefs, IInv, References
  <2>3. References'
    BY <1>11, <2>2, ExecSame, JobSame, OperSame, WorkerSame, JobsIdsKept, JobRefsKept, RowRefsKept, OperRefsKept, HandlerRefsKept
       DEF Select, IInv, References
  <2>4. ResetsKept
    BY <2>1 DEF ResetsKept
  <2> QED
    BY <1>11, <2>3, <2>4, ExecSame, JobSame, OutsideHandlers, DeliveriesKept, ResetsAreKept, JobsIdsKept, RecordIsKept, RunsAreKept
       DEF Select, IInv
<1>12. ASSUME NEW r \in Reconcilers, FindJob(r) PROVE IInv' /\ EndsKept
  <2>0. rec[r].pc = "selected" /\ rec[r].exec \in Executions
    BY <1>12 DEF FindJob, IInv, References, RecRefs
  <2>1. PICK seen, aged :
          /\ rec' = [rec EXCEPT ![r] = Decided(r, Decision(rec[r].row, seen, aged))]
          /\ seen = "missing" \/ (rec[r].row.job # NoJob /\ seen = job[rec[r].row.job].state)
    <3>1. PICK aged \in {rec[r].row.aged, AgedSince(r)} :
            \/ rec' = [rec EXCEPT ![r] = Decided(r, Decision(rec[r].row,
                  IF rec[r].row.job = NoJob THEN "missing" ELSE job[rec[r].row.job].state, aged))]
            \/ rec' = [rec EXCEPT ![r] = Decided(r, Decision(rec[r].row, "missing", aged))]
      BY <1>12 DEF FindJob
    <3> QED BY <3>1
  <2>2. DEFINE dec == Decision(rec[r].row, seen, aged)
  <2>3. dec \in {"idle", "reset", "fail", "stop", "cancelRun", "cancelQueued", "requeue"}
    BY DecisionRange
  <2>4. RecsKept
    BY <2>0, <2>1, <2>3, RecDecided
  <2>5. ResetsAreRetryable'
    <3>1. CASE dec = "reset"
      <4>1. seen = "retry"
        BY <3>1 DEF Decision
      <4>2. rec[r].row.job \in Jobs /\ job[rec[r].row.job].state = "retry"
        BY <2>1, <4>1 DEF TypeOK, RecState, Row
      <4>3. job[rec[r].row.job].exec = rec[r].exec /\ job[rec[r].row.job].retries \in Nat
        BY <4>2 DEF IInv, References, RecRefs, TypeOK, JobRow
      <4>4. ~SideEffecting(rec[r].exec)
        BY <2>0, <4>2, <4>3 DEF IInv, DeliveriesWithinPolicy, SideEffecting
      <4>5. rec'[r].exec = rec[r].exec /\ \A x \in Reconcilers \ {r} : rec'[x] = rec[x]
        BY <2>1, <3>1 DEF Decided, IdleRec, TypeOK
      <4> QED BY <4>4, <4>5 DEF IInv, ResetsAreRetryable, SideEffecting
    <3>2. CASE dec # "reset"
      BY <2>0, <2>1, <2>3, <3>2, RecDecided, ResetsAreKept DEF IInv
    <3> QED BY <3>1, <3>2
  <2>6. JobsKept /\ RowsKept /\ LinksKept /\ EndsKept /\ OpersKept /\ RetriesKept
    BY <1>12, ExecSame, JobSame, OperSame DEF FindJob
  <2>7. HandlersKept /\ RecordKept /\ RunsKept
    BY <1>12, <2>6, FaultFacts, OutsideHandlers DEF FindJob
  <2> QED
    BY <2>4, <2>5, <2>6, <2>7, ReferencesKept, DeliveriesKept, JobsIdsKept, RecordIsKept, RunsAreKept DEF IInv
<1>13. ASSUME NEW r \in Reconcilers, ResetInterrupted(r) PROVE IInv' /\ EndsKept
  <2>1. rec[r].exec \in Executions /\ ~SideEffecting(rec[r].exec)
    BY <1>13 DEF ResetInterrupted, IInv, References, RecRefs, ResetsAreRetryable
  <2>2. RowsKept /\ LinksKept /\ EndsKept
    <3>1. "queued" \in Status
      BY DEF Status, Pending
    <3> QED BY <1>13, <2>1, <3>1, WriteKept DEF ResetInterrupted
  <2> QED
    BY <1>13, <2>2, JobSame, RecIdle, OperSame, OutsideHandlers, AllKept DEF ResetInterrupted
<1>14. ASSUME NEW r \in Reconcilers, CancelZombieRun(r) \/ CancelZombieQueued(r) PROVE IInv' /\ EndsKept
  <2>1. rec[r].row.job \in Jobs \cup {NoJob}
    BY DEF TypeOK, RecState, Row
  <2>2. RecsKept /\ ResetsKept
    BY <1>14, RecDecided DEF CancelZombieRun, CancelZombieQueued
  <2> QED
    BY <1>14, <2>1, <2>2, CancelKept, ExecSame, OperSame, OutsideHandlers, AllKept
       DEF CancelZombieRun, CancelZombieQueued
<1>15. ASSUME NEW r \in Reconcilers, FinishDead(r) PROVE IInv' /\ EndsKept
  <2>1. rec[r].exec \in Executions
    BY <1>15 DEF FinishDead, IInv, References, RecRefs
  <2>2. RowsKept /\ LinksKept /\ EndsKept
    <3>1. {"stopped", "failed"} \subseteq Status /\ {"stopped", "failed"} \subseteq Terminal
      BY DEF Status, Terminal
    <3> QED BY <1>15, <2>1, <3>1, WriteKept DEF FinishDead
  <2> QED
    BY <1>15, <2>2, JobSame, RecIdle, OperSame, OutsideHandlers, AllKept DEF FinishDead
<1>17. ASSUME NEW r \in Reconcilers, NEW j \in Jobs, SendAgain(r, j) PROVE IInv' /\ EndsKept
  <2>0. rec[r].exec \in Executions /\ exec[rec[r].exec].status # "absent" /\ rec[r].pc = "requeue"
    BY <1>17 DEF SendAgain, IInv, References, RecRefs
  <2>1. job[j].state = "missing" /\ job'[j] = NewJob(rec[r].exec) /\ \A k \in Jobs \ {j} : job'[k] = job[k]
    BY <1>17 DEF SendAgain, FreeJob, TypeOK
  <2>2. /\ rec'[r].pc = "link" /\ rec'[r].exec = rec[r].exec /\ rec'[r].new = j
        /\ rec'[r].row.job = rec[r].row.job
        /\ \A x \in Reconcilers \ {r} : rec'[x] = rec[x]
    <3>1. \A x \in Reconcilers : rec[x] \in RecState
      BY DEF TypeOK
    <3> QED BY <1>17, <3>1 DEF SendAgain, TypeOK, RecState
  <2>3. ~InUse(j)
    BY <2>1, FreeJobUnused DEF IInv
  <2>4. IdsKept
    BY <2>1, <2>3 DEF IdsKept
  <2>5. RecRefs'
    <3> SUFFICES ASSUME NEW x \in Reconcilers
                 PROVE  /\ rec'[x].pc # "idle" => rec'[x].exec \in Executions /\ exec'[rec'[x].exec].status # "absent"
                        /\ rec'[x].row.job \in Jobs => job'[rec'[x].row.job].exec = rec'[x].exec
                        /\ rec'[x].new \in Jobs => job'[rec'[x].new].exec = rec'[x].exec
                        /\ rec'[x].pc = "link" => rec'[x].new \in Jobs
                        /\ rec'[x].pc = "idle" => rec'[x] = IdleRec
      BY DEF RecRefs
    <3>1. CASE x = r
      BY <1>17, <2>0, <2>1, <2>2, <2>4, <3>1
         DEF SendAgain, IdsKept, InUse, IInv, References, RecRefs, NewJob
    <3>2. CASE x # r
      <4>1. rec'[x] = rec[x] /\ exec' = exec
        BY <1>17, <2>2, <3>2 DEF SendAgain
      <4>2. /\ rec[x].row.job \in Jobs => job'[rec[x].row.job].exec = job[rec[x].row.job].exec
            /\ rec[x].new \in Jobs => job'[rec[x].new].exec = job[rec[x].new].exec
        BY <2>4 DEF IdsKept, InUse
      <4> QED BY <4>1, <4>2 DEF IInv, References, RecRefs
    <3> QED BY <3>1, <3>2
  <2>6. JobRefs'
    BY <1>17, <2>0, <2>1 DEF SendAgain, JobRefs, IInv, References, NewJob
  <2>7. References'
    BY <1>17, <2>4, <2>5, <2>6, ExecSame, OperSame, WorkerSame, RowRefsKept, OperRefsKept, HandlerRefsKept
       DEF SendAgain, IInv, References
  <2>8. ResetsKept
    BY <2>2 DEF ResetsKept
  <2>9. DeliveriesWithinPolicy'
    BY <2>0, <2>1 DEF DeliveriesWithinPolicy, IInv, NewJob
  <2>10. RecordKept /\ RunsKept
    BY <1>17, <2>1 DEF SendAgain, RecordKept, RunsKept, NewJob
  <2> QED
    BY <1>17, <2>4, <2>7, <2>8, <2>9, <2>10, ExecSame, ResetsAreKept, RecordIsKept, RunsAreKept DEF SendAgain, IInv
<1>18. ASSUME NEW r \in Reconcilers, Link(r) PROVE IInv' /\ EndsKept
  <2>0. rec[r].new \in Jobs /\ job[rec[r].new].exec = rec[r].exec /\ rec[r].exec \in Executions
    BY <1>18 DEF Link, IInv, References, RecRefs
  <2>1. /\ exec'[rec[r].exec].job \in {exec[rec[r].exec].job, rec[r].new}
        /\ \A x \in Executions : exec'[x].status = exec[x].status
        /\ \A x \in Executions \ {rec[r].exec} : exec'[x].job = exec[x].job
    <3>1. \A x \in Executions : exec[x] \in Row
      BY DEF TypeOK
    <3> QED BY <1>18, <2>0, <3>1 DEF Link, Row, TypeOK
  <2>2. RowRefs'
    <3>1. job' = job
      BY <1>18 DEF Link
    <3> QED BY <2>0, <2>1, <3>1 DEF RowRefs, IInv, References
  <2>3. RowsKept /\ EndsKept
    BY <2>1 DEF RowsKept
  <2>4. References'
    BY <1>18, <2>2, <2>3, JobSame, RecIdle, OperSame, WorkerSame, JobsIdsKept, JobRefsKept, RecRefsKept, OperRefsKept, HandlerRefsKept
       DEF Link, IInv, References
  <2> QED
    BY <1>18, <2>3, <2>4, JobSame, RecIdle, OutsideHandlers, DeliveriesKept, ResetsAreKept, JobsIdsKept, RecordIsKept, RunsAreKept
       DEF Link, IInv
<1>19. ASSUME NEW r \in Reconcilers, BreakOff(r) PROVE IInv' /\ EndsKept
  BY <1>19, FaultFacts, ExecSame, JobSame, RecIdle, OperSame, OutsideHandlers, AllKept DEF BreakOff
<1>20. ASSUME NEW o \in Operators, NEW e \in Executions,
              ReadForStop(o, e) \/ ReadForDrop(o, e) \/ ReadForRetry(o, e)
       PROVE  IInv' /\ EndsKept
  <2>1. exec[e].status # "absent" /\ \E pc \in {"stopQueued", "stopRunning", "drop", "retry"} : Request(o, pc, e)
    BY <1>20 DEF ReadForStop, ReadForDrop, ReadForRetry
  <2>2. /\ oper'[o].exec = e /\ \A x \in Operators \ {o} : oper'[x] = oper[x]
        /\ UNCHANGED <<exec, late, job, worker, rec, runs, faults>>
    BY <2>1 DEF Request, TypeOK
  <2>3. OperRefs'
    BY <2>1, <2>2 DEF OperRefs, IInv, References
  <2>4. References'
    BY <2>2, <2>3, ExecSame, JobSame, RecSame, WorkerSame, JobsIdsKept, JobRefsKept, RowRefsKept, RecRefsKept,
       HandlerRefsKept DEF IInv, References
  <2> QED
    BY <2>2, <2>4, ExecSame, JobSame, RecSame, OutsideHandlers, DeliveriesKept, ResetsAreKept, JobsIdsKept,
       RecordIsKept, RunsAreKept DEF IInv
<1>21. ASSUME NEW o \in Operators, StopQueued(o) \/ DropJob(o) PROVE IInv' /\ EndsKept
  <2>1. OpersKept
    <3>1. \A x \in Operators : oper[x] \in OperState
      BY DEF TypeOK
    <3> QED BY <1>21, <3>1 DEF StopQueued, DropJob, Proceed, OpersKept, OperState, TypeOK
  <2>2. oper[o].job \in Jobs \cup {NoJob}
    BY DEF TypeOK, OperState
  <2> QED
    BY <1>21, <2>1, <2>2, CancelKept, ExecSame, RecSame, OutsideHandlers, AllKept DEF StopQueued, DropJob
<1>22. ASSUME NEW o \in Operators, FinishCancelled(o) \/ DropQueued(o) PROVE IInv' /\ EndsKept
  <2>1. oper[o].exec \in Executions
    BY <1>22 DEF FinishCancelled, DropQueued, IInv, References, OperRefs
  <2>2. RowsKept /\ LinksKept /\ EndsKept
    <3>1. "cancelled" \in Status /\ "cancelled" \in Terminal
      BY DEF Status, Terminal
    <3> QED BY <1>22, <2>1, <3>1, WriteKept, ExecSame DEF FinishCancelled, DropQueued
  <2> QED
    BY <1>22, <2>2, JobSame, RecSame, OperAnswer, OutsideHandlers, AllKept DEF FinishCancelled, DropQueued
<1>23. ASSUME NEW o \in Operators, StopRunning(o) PROVE IInv' /\ EndsKept
  <2>1. \A x \in Executions : exec'[x].job = exec[x].job /\ exec'[x].status = exec[x].status
    <3>1. \A x \in Executions : exec[x] \in Row
      BY DEF TypeOK
    <3> QED BY <1>23, <3>1 DEF StopRunning, Row, TypeOK
  <2> QED
    BY <1>23, <2>1, RowsSame, JobSame, RecSame, OperAnswer, OutsideHandlers, AllKept DEF StopRunning
<1>24. ASSUME NEW e \in Executions, NEW j \in Jobs, Create(e, j), OpersKept,
              UNCHANGED <<worker, rec, runs, faults>>
       PROVE  IInv' /\ EndsKept
  <2>1. /\ exec[e].status = "absent" /\ exec'[e].status = "queued" /\ exec'[e].job = j
        /\ \A x \in Executions \ {e} : exec'[x] = exec[x]
    BY <1>24 DEF Create, TypeOK, NoRow
  <2>2. job[j].state = "missing" /\ job'[j] = NewJob(e) /\ \A k \in Jobs \ {j} : job'[k] = job[k]
    BY <1>24 DEF Create, FreeJob, TypeOK
  <2>3. ~InUse(j)
    BY <2>2, FreeJobUnused DEF IInv
  <2>4. IdsKept
    BY <2>2, <2>3 DEF IdsKept
  <2>5. RowsKept /\ EndsKept
    BY <2>1 DEF RowsKept, Terminal
  <2>6. RowRefs'
    BY <2>1, <2>2, <2>4 DEF RowRefs, IInv, References, IdsKept, InUse, NewJob
  <2>7. JobRefs'
    BY <2>1, <2>2 DEF JobRefs, IInv, References, NewJob
  <2>8. References'
    BY <1>24, <2>4, <2>5, <2>6, <2>7, RecSame, WorkerSame, RecRefsKept, OperRefsKept, HandlerRefsKept
       DEF IInv, References
  <2>9. DeliveriesWithinPolicy'
    BY <2>2 DEF DeliveriesWithinPolicy, IInv, NewJob
  <2>10. RecordKept /\ RunsKept
    BY <1>24, <2>2 DEF RecordKept, RunsKept, NewJob
  <2> QED
    BY <1>24, <2>4, <2>5, <2>8, <2>9, <2>10, RecSame, ResetsAreKept, RecordIsKept, RunsAreKept DEF IInv
<1>25. ASSUME NEW e \in Executions, NEW j \in Jobs,
              Materialize(e, j) \/ \E o \in Operators : InsertRetry(o, e, j)
       PROVE  IInv' /\ EndsKept
  <2>1. OpersKept
    BY <1>25, OperSame, OperAnswer DEF Materialize, InsertRetry
  <2> QED
    BY <1>24, <1>25, <2>1 DEF Materialize, InsertRetry
<1>26. ASSUME NEW j \in Jobs, ExpireJob(j) PROVE IInv' /\ EndsKept
  <2>1. JobsKept /\ DeliveriesWithinPolicy' /\ \A k \in Jobs : job'[k].state = "completed" => job[k].state = "completed"
    BY <1>26, FailureKept DEF ExpireJob, Live, IInv
  <2>2. faults' = 0 => faults = 0
    BY <1>26, FaultFacts DEF ExpireJob
  <2> QED
    BY <1>26, <2>1, <2>2, ExecSame, RecSame, OperSame, OutsideHandlers, MostKept DEF ExpireJob
<1>27. ASSUME NEW j \in Jobs, DeleteJob(j) PROVE IInv' /\ EndsKept
  <2>1. job'[j] = NoSuchJob /\ \A k \in Jobs \ {j} : job'[k] = job[k]
    BY <1>27 DEF DeleteJob, TypeOK
  <2>2. ~InUse(j)
    BY <1>27 DEF DeleteJob, InUse, Handled
  <2>3. IdsKept
    BY <2>1, <2>2 DEF IdsKept
  <2>4. JobRefs'
    BY <1>27, <2>1 DEF DeleteJob, JobRefs, IInv, References, NoSuchJob
  <2>5. References'
    BY <1>27, <2>3, <2>4, ExecSame, RecSame, OperSame, WorkerSame, RowRefsKept, RecRefsKept, OperRefsKept,
       HandlerRefsKept DEF DeleteJob, IInv, References
  <2>6. DeliveriesWithinPolicy'
    BY <2>1 DEF DeliveriesWithinPolicy, IInv, NoSuchJob
  <2>7. RecordKept /\ RunsKept
    BY <1>27, <2>1 DEF DeleteJob, RecordKept, RunsKept, NoSuchJob
  <2> QED
    BY <1>27, <2>3, <2>5, <2>6, <2>7, ExecSame, RecSame, ResetsAreKept, RecordIsKept, RunsAreKept
       DEF DeleteJob, IInv
<1>28. ASSUME NEW e \in Executions, Grow(e) \/ PassDeadline(e) PROVE IInv' /\ EndsKept
  <2>1. \A x \in Executions : exec'[x].job = exec[x].job /\ exec'[x].status = exec[x].status
    BY <1>28, AgedFacts DEF Grow, PassDeadline
  <2> QED
    BY <1>28, <2>1, RowsSame, JobSame, RecSame, OperSame, OutsideHandlers, AllKept DEF Grow, PassDeadline
<1> QED
  BY <1>0, <1>1, <1>2, <1>3, <1>4, <1>5, <1>6, <1>7, <1>8, <1>9, <1>10, <1>11, <1>12, <1>13, <1>14, <1>15,
     <1>17, <1>18, <1>19, <1>20, <1>21, <1>22, <1>23, <1>25, <1>26, <1>27, <1>28
     DEF Next, WorkerStep, ReconcileStep, OperatorStep, Environment

-----------------------------------------------------------------------------
(* The theorems *)

\* The ids, policies, records and runs of IInv are invariant.
THEOREM Invariance == Spec => []IInv
<1>1. Init => IInv
  BY DEF Init, IInv, References, JobRefs, RowRefs, RecRefs, OperRefs, HandlerRefs, DeliveriesWithinPolicy,
     ResetsAreRetryable, CompletedJobIsRecorded, ReturnsAreRecorded, OneRunWithoutFaults, RunsAreAccounted,
     NoRow, NoSuchJob, IdleWorker, IdleRec, IdleOper
<1>2. TypeOK /\ IInv /\ [Next]_vars => IInv'
  BY Inductive
<1> QED
  BY <1>1, <1>2, TypeCorrect, PTL DEF Spec

\* No job is ever delivered more often than its task's policy allows, whatever the
\* numbers of executions, jobs, devices, reconcile iterations, requests and faults.
THEOREM DeliveriesBounded == Spec => []DeliveriesWithinPolicy
<1>1. IInv => DeliveriesWithinPolicy
  BY DEF IInv
<1> QED BY <1>1, Invariance, PTL

\* A completed job of a side-effecting task always has its outcome recorded.
THEOREM CompletionRecorded == Spec => []CompletedJobIsRecorded
<1>1. IInv => CompletedJobIsRecorded
  BY DEF IInv
<1> QED BY <1>1, Invariance, PTL

\* Without faults the body of a side-effecting task is started at most once.
THEOREM RunsOnce == Spec => []OneRunWithoutFaults
<1>1. IInv => OneRunWithoutFaults
  BY DEF IInv
<1> QED BY <1>1, Invariance, PTL

\* A finished execution of a side-effecting task is never reopened, in any instance.
THEOREM NeverReopened == Spec => FinishedStaysFinished
<1>1. TypeOK /\ IInv /\ [Next]_vars =>
        [\A e \in Executions : SideEffecting(e) /\ Finished(e) => Finished(e)']_vars
  BY Inductive DEF EndsKept, EndedNow, Finished
<1> QED
  BY <1>1, TypeCorrect, Invariance, PTL DEF Spec, FinishedStaysFinished

\* Retry inserts its new execution only after the side-effecting source has finished.
THEOREM RetryAfterEnd == Spec => RetryFollowsEnd
<1> DEFINE Sources ==
      \A o \in Operators :
        oper[o].pc = "retry" /\ SideEffecting(oper[o].exec) =>
            oper[o].exec \in Executions /\ Finished(oper[o].exec)
<1>1. Init => Sources
  BY DEF Init, IdleOper
<1>2. TypeOK /\ EndsKept /\ Sources /\ [Next]_vars => Sources'
  <2> SUFFICES ASSUME TypeOK, EndsKept, Sources, [Next]_vars PROVE Sources'
    OBVIOUS
  <2>1. CASE \A o \in Operators : oper'[o] = oper[o] \/ oper'[o].pc # "retry"
    BY <2>1 DEF EndsKept, EndedNow, Finished, SideEffecting
  <2>2. ASSUME NEW o \in Operators, NEW e \in Executions, ReadForRetry(o, e) PROVE Sources'
    <3>1. /\ oper'[o].exec = e /\ \A x \in Operators \ {o} : oper'[x] = oper[x]
          /\ exec' = exec /\ Finished(e)
      BY <2>2 DEF ReadForRetry, Request, TypeOK, Finished, Terminal
    <3> QED BY <3>1 DEF Finished, SideEffecting
  <2>3. ASSUME NEW o \in Operators, NEW e \in Executions, ReadForStop(o, e) \/ ReadForDrop(o, e)
        PROVE  \A x \in Operators : oper'[x] = oper[x] \/ oper'[x].pc # "retry"
    BY <2>3 DEF ReadForStop, ReadForDrop, Request, TypeOK
  <2>4. ASSUME NEW o \in Operators, StopQueued(o) \/ DropJob(o)
        PROVE  \A x \in Operators : oper'[x] = oper[x] \/ oper'[x].pc # "retry"
    <3>1. \A x \in Operators : oper[x] \in OperState
      BY DEF TypeOK
    <3> QED BY <2>4, <3>1 DEF StopQueued, DropJob, Proceed, TypeOK, OperState
  <2>5. ASSUME NEW o \in Operators, Answer(o)
        PROVE  \A x \in Operators : oper'[x] = oper[x] \/ oper'[x].pc # "retry"
    BY <2>5, IdleOperFacts DEF Answer
  <2>6. \/ oper' = oper
        \/ \E o \in Operators : Answer(o) \/ StopQueued(o) \/ DropJob(o)
        \/ \E o \in Operators, e \in Executions : ReadForStop(o, e) \/ ReadForDrop(o, e) \/ ReadForRetry(o, e)
    <3>1. CASE UNCHANGED vars \/ Environment
      BY <3>1 DEF vars, Environment, Materialize, ExpireJob, DeleteJob, Grow, PassDeadline
    <3>2. CASE \E d \in Devices : WorkerStep(d)
      BY <3>2 DEF WorkerStep, Fetch, StartAttempt, StartBody, Heartbeat, EndBody, Settle, HandlerThrows,
         Return, Throw, Crash
    <3>3. CASE \E r \in Reconcilers : ReconcileStep(r)
      BY <3>3 DEF ReconcileStep, Select, FindJob, ResetInterrupted, CancelZombieRun, FinishDead,
         CancelZombieQueued, SendAgain, Link, BreakOff
    <3>4. CASE \E o \in Operators : OperatorStep(o)
      BY <3>4 DEF OperatorStep, FinishCancelled, StopRunning, DropQueued, InsertRetry
    <3> QED BY <3>1, <3>2, <3>3, <3>4 DEF Next
  <2> QED BY <2>1, <2>2, <2>3, <2>4, <2>5, <2>6
<1>3. TypeOK /\ IInv /\ [Next]_vars => EndsKept
  BY Inductive
<1>4. Sources =>
        [\A o \in Operators, e \in Executions, j \in Jobs :
            InsertRetry(o, e, j) /\ SideEffecting(oper[o].exec) => Finished(oper[o].exec)]_vars
  BY DEF InsertRetry
<1> QED
  BY <1>1, <1>2, <1>3, <1>4, TypeCorrect, Invariance, PTL DEF Spec, RetryFollowsEnd

-----------------------------------------------------------------------------
(* The refinement: what a step shows of itself in ExecutionLife.           *)

Unseen ==
    /\ \A x \in Executions : exec'[x].status = exec[x].status
    /\ runs' = runs /\ (faults' = faults \/ Fault)
SeenOf(e) ==
    /\ \A x \in Executions \ {e} : exec'[x].status = exec[x].status
    /\ runs' = runs /\ faults' = faults
    /\ exec[e].status = "absent" => exec'[e].status = "queued"
    /\ exec'[e].status \in Pending \cup Terminal

LEMMA RowWritten ==
    ASSUME TypeOK, NEW e \in Executions, exec[e].status # "absent",
           NEW s \in Pending \cup Terminal, Write(e, s), runs' = runs, faults' = faults
    PROVE  SeenOf(e)
BY WriteFacts DEF SeenOf, Status, Pending, Terminal

LEMMA RowsUnwritten ==
    ASSUME TypeOK, NEW e \in Executions, NEW a \in BOOLEAN, exec' = [exec EXCEPT ![e].aged = a],
           runs' = runs, faults' = faults
    PROVE  Unseen
BY AgedFacts DEF Unseen

\* A step starts one body, writes one row, or shows nothing but perhaps a fault.
LEMMA StepsSeen ==
    ASSUME TypeOK, IInv, Next
    PROVE  \/ Unseen
           \/ \E e \in Executions : SeenOf(e)
           \/ \E d \in Devices : StartBody(d)
<1> DEFINE Goal == Unseen \/ (\E e \in Executions : SeenOf(e)) \/ (\E d \in Devices : StartBody(d))
<1>1. ASSUME exec' = exec, runs' = runs, faults' = faults \/ Fault PROVE Unseen
  BY <1>1 DEF Unseen
<1>2. ASSUME NEW d \in Devices, worker[d].pc # "idle"
      PROVE  ExecOf(d) \in Executions /\ exec[ExecOf(d)].status # "absent"
  <2>1. worker[d].job \in Jobs /\ ExecOf(d) \in Executions
    BY <1>2 DEF IInv, References, HandlerRefs
  <2> QED  BY <2>1 DEF IInv, References, JobRefs, ExecOf
<1>3. ASSUME NEW r \in Reconcilers, rec[r].pc # "idle"
      PROVE  rec[r].exec \in Executions /\ exec[rec[r].exec].status # "absent"
  BY <1>3 DEF IInv, References, RecRefs
<1>4. ASSUME NEW o \in Operators, oper[o].pc # "idle"
      PROVE  oper[o].exec \in Executions /\ exec[oper[o].exec].status # "absent"
  BY <1>4 DEF IInv, References, OperRefs
<1>5. ASSUME NEW d \in Devices, WorkerStep(d) PROVE Goal
  <2>1. CASE StartAttempt(d)
    <3>1. ExecOf(d) \in Executions /\ exec[ExecOf(d)].status # "absent"
      BY <1>2, <2>1 DEF StartAttempt
    <3> QED  BY <1>1, <2>1, <3>1, RowWritten DEF StartAttempt, Pending
  <2>2. CASE Heartbeat(d)
    <3>1. ExecOf(d) \in Executions  BY <1>2, <2>2 DEF Heartbeat
    <3> QED  BY <2>2, <3>1, RowsUnwritten DEF Heartbeat
  <2>3. CASE Settle(d)
    <3>1. ExecOf(d) \in Executions /\ exec[ExecOf(d)].status # "absent"
      BY <1>2, <2>3 DEF Settle
    <3>2. PICK s \in Pending \cup Terminal : Write(ExecOf(d), s)
      BY <2>3 DEF Settle, Pending, Terminal
    <3> QED  BY <2>3, <3>1, <3>2, RowWritten DEF Settle
  <2>4. CASE exec' = exec /\ runs' = runs /\ (faults' = faults \/ Fault)
    BY <1>1, <2>4
  <2>5. CASE StartBody(d)  BY <2>5
  <2> QED
    BY <1>5, <2>1, <2>2, <2>3, <2>4, <2>5
    DEF WorkerStep, Fetch, EndBody, HandlerThrows, Return, Throw, Crash
<1>6. ASSUME NEW r \in Reconcilers, ReconcileStep(r) PROVE Goal
  <2>1. CASE ResetInterrupted(r)
    <3>1. rec[r].exec \in Executions /\ exec[rec[r].exec].status # "absent"
      BY <1>3, <2>1 DEF ResetInterrupted
    <3> QED  BY <2>1, <3>1, RowWritten DEF ResetInterrupted, Pending
  <2>2. CASE FinishDead(r)
    <3>1. rec[r].exec \in Executions /\ exec[rec[r].exec].status # "absent"
      BY <1>3, <2>2 DEF FinishDead
    <3>2. PICK s \in Terminal : Write(rec[r].exec, s)  BY <2>2 DEF FinishDead, Terminal
    <3> QED  BY <2>2, <3>1, <3>2, RowWritten DEF FinishDead
  <2>3. CASE Link(r)
    <3>1. \A x \in Executions : exec[x] \in Row  BY DEF TypeOK
    <3>2. \A x \in Executions : exec'[x].status = exec[x].status
      BY <2>3, <3>1 DEF Link, TypeOK, Row
    <3> QED  BY <2>3, <3>2 DEF Link, Unseen
  <2>4. CASE exec' = exec /\ runs' = runs /\ (faults' = faults \/ Fault)
    BY <1>1, <2>4
  <2> QED
    BY <1>6, <2>1, <2>2, <2>3, <2>4
    DEF ReconcileStep, Select, FindJob, CancelZombieRun, CancelZombieQueued, SendAgain, BreakOff,
        CancelJob
<1>7. ASSUME NEW e \in Executions, NEW j \in Jobs, Create(e, j), runs' = runs, faults' = faults
      PROVE  SeenOf(e)
  BY <1>7 DEF Create, SeenOf, NoRow, TypeOK, Pending
<1>8. ASSUME NEW o \in Operators, OperatorStep(o) PROVE Goal
  <2>1. CASE FinishCancelled(o)
    <3>1. oper[o].exec \in Executions /\ exec[oper[o].exec].status # "absent"
      BY <1>4, <2>1 DEF FinishCancelled
    <3> QED  BY <2>1, <3>1, RowWritten DEF FinishCancelled, Terminal
  <2>2. CASE StopRunning(o)
    <3>1. \A x \in Executions : exec[x] \in Row  BY DEF TypeOK
    <3>2. \A x \in Executions : exec'[x].status = exec[x].status
      BY <2>2, <3>1 DEF StopRunning, TypeOK, Row
    <3> QED  BY <2>2, <3>2 DEF StopRunning, Unseen
  <2>3. CASE DropQueued(o)
    <3>1. oper[o].exec \in Executions /\ exec[oper[o].exec].status # "absent"
      BY <1>4, <2>3 DEF DropQueued
    <3> QED  BY <1>1, <2>3, <3>1, RowWritten DEF DropQueued, Terminal
  <2>4. CASE \E e \in Executions, j \in Jobs : InsertRetry(o, e, j)
    BY <1>7, <2>4 DEF InsertRetry
  <2>5. CASE exec' = exec /\ runs' = runs /\ (faults' = faults \/ Fault)
    BY <1>1, <2>5
  <2> QED
    BY <1>8, <2>1, <2>2, <2>3, <2>4, <2>5
    DEF OperatorStep, ReadForStop, ReadForDrop, ReadForRetry, Request, StopQueued, DropJob, CancelJob
<1>9. CASE Environment
  <2>1. ASSUME NEW e \in Executions, Grow(e) PROVE Goal
    BY <2>1, RowsUnwritten DEF Grow
  <2> QED  BY <1>1, <1>7, <1>9, <2>1 DEF Environment, Materialize, ExpireJob, DeleteJob, PassDeadline
<1> QED  BY <1>5, <1>6, <1>8, <1>9 DEF Next

LEMMA StepsMap ==
    ASSUME TypeOK, IInv, IInv', EndsKept, [Next]_vars
    PROVE  [Life!LifeNext]_(Life!lifeVars)
<1> DEFINE life == [e \in SideEffects |-> LifeOf(e)]
           starts == [e \in SideEffects |-> runs[e]]
<1>1. ASSUME Unseen PROVE [Life!LifeNext]_(Life!lifeVars)
  <2>1. life' = life /\ starts' = starts  BY <1>1 DEF Unseen, LifeOf, SideEffects
  <2>2. CASE faults' = faults  BY <2>1, <2>2 DEF Life!lifeVars
  <2>3. CASE Fault
    <3>1. (faults' > 0) = TRUE  BY <2>3 DEF Fault, TypeOK
    <3>2. CASE faults > 0  BY <2>1, <3>1, <3>2 DEF Life!lifeVars
    <3>3. CASE ~(faults > 0)  BY <2>1, <3>1, <3>3 DEF Life!LifeNext, Life!Break
    <3> QED  BY <3>2, <3>3
  <2> QED  BY <1>1, <2>2, <2>3 DEF Unseen
<1>2. ASSUME NEW e \in Executions, SeenOf(e) PROVE [Life!LifeNext]_(Life!lifeVars)
  <2>1. starts' = starts /\ faults' = faults  BY <1>2 DEF SeenOf
  <2>2. \A x \in SideEffects \ {e} : LifeOf(x)' = LifeOf(x)
    BY <1>2 DEF SeenOf, LifeOf, SideEffects
  <2>3. CASE LifeOf(e)' = LifeOf(e) \/ e \notin SideEffects
    <3>1. life' = life  BY <2>2, <2>3
    <3> QED  BY <2>1, <3>1 DEF Life!lifeVars
  <2>4. CASE LifeOf(e)' # LifeOf(e) /\ e \in SideEffects
    <3>0. \A x \in SideEffects \ {e} : life'[x] = life[x]
      BY <2>2
    <3>1. SideEffecting(e) /\ (Finished(e) => exec'[e].status \in Terminal)
      BY <2>4 DEF SideEffects, EndsKept, EndedNow
    <3>2. exec[e].status \in Status  BY DEF TypeOK, Row
    <3>3. life' = [life EXCEPT ![e] = LifeOf(e)']
      <4>1. /\ life = [x \in SideEffects |-> life[x]] /\ life' = [x \in SideEffects |-> life'[x]]
            /\ life'[e] = LifeOf(e)'
        BY <2>4
      <4> HIDE DEF life
      <4> QED  BY <2>4, <3>0, <4>1
    <3>4. CASE exec[e].status = "absent"
      <4>1. LifeOf(e) = "absent" /\ LifeOf(e)' = "pending"
        BY <1>2, <3>4 DEF SeenOf, LifeOf, Pending
      <4>2. Life!Appear(e)  BY <2>1, <2>4, <3>3, <4>1 DEF Life!Appear
      <4> QED  BY <2>4, <4>2 DEF Life!LifeNext
    <3>5. CASE exec[e].status \in Pending
      <4>1. LifeOf(e) = "pending" /\ LifeOf(e)' = "over"
        BY <1>2, <2>4, <3>5 DEF SeenOf, LifeOf, Pending, Terminal
      <4>2. Life!Conclude(e)  BY <2>1, <2>4, <3>3, <4>1 DEF Life!Conclude
      <4> QED  BY <2>4, <4>2 DEF Life!LifeNext
    <3>6. CASE exec[e].status \in Terminal
      BY <2>4, <3>1, <3>6 DEF LifeOf, Finished, Pending, Terminal
    <3> QED  BY <3>2, <3>4, <3>5, <3>6 DEF Status
  <2> QED  BY <2>3, <2>4
<1>3. ASSUME NEW d \in Devices, StartBody(d) PROVE [Life!LifeNext]_(Life!lifeVars)
  <2>1. ExecOf(d) \in Executions /\ exec[ExecOf(d)].status # "absent"
    <3>1. worker[d].job \in Jobs /\ ExecOf(d) \in Executions
      BY <1>3 DEF StartBody, IInv, References, HandlerRefs
    <3> QED  BY <3>1 DEF IInv, References, JobRefs, ExecOf
  <2>2. PICK e \in Executions : e = ExecOf(d)  BY <2>1
  <2>3. /\ runs' = [runs EXCEPT ![e] = IF runs[e] < RunsBound THEN runs[e] + 1 ELSE runs[e]]
        /\ exec' = exec /\ faults' = faults
    BY <1>3, <2>2 DEF StartBody
  <2>4. life' = life  BY <2>3 DEF LifeOf
  <2>5. runs[e] \in 0 .. RunsBound /\ runs \in [Executions -> 0 .. RunsBound]
    BY DEF TypeOK
  <2>6. CASE e \notin SideEffects \/ ~(runs[e] < RunsBound)
    <3>1. \A x \in SideEffects : runs'[x] = runs[x]
      BY <2>3, <2>5, <2>6 DEF SideEffects
    <3>2. starts' = starts  BY <3>1
    <3> QED  BY <2>3, <2>4, <3>2 DEF Life!lifeVars
  <2>7. CASE e \in SideEffects /\ runs[e] < RunsBound
    <3>1. runs' = [runs EXCEPT ![e] = runs[e] + 1]
      BY <2>3, <2>7
    <3>2. starts' = [starts EXCEPT ![e] = starts[e] + 1]
      BY <2>5, <2>7, <3>1 DEF SideEffects
    <3>3. life[e] # "absent"  BY <2>1, <2>2, <2>7 DEF LifeOf, Pending
    <3>4. starts[e] = 0 \/ faults > 0
      <4>1. faults = 0 => runs'[e] <= 1
        BY <2>3, <2>7 DEF IInv, OneRunWithoutFaults, SideEffects
      <4>2. runs'[e] = runs[e] + 1  BY <2>5, <3>1
      <4>3. faults \in Nat  BY DEF TypeOK
      <4> QED  BY <2>5, <2>7, <4>1, <4>2, <4>3 DEF RunsBound
    <3>5. Life!Start(e)  BY <2>3, <2>4, <3>2, <3>3, <3>4 DEF Life!Start
    <3> QED  BY <2>7, <3>5 DEF Life!LifeNext
  <2> QED  BY <2>6, <2>7
<1>4. CASE UNCHANGED vars
  BY <1>4 DEF vars, Life!lifeVars, LifeOf
<1> QED  BY <1>1, <1>2, <1>3, <1>4, StepsSeen

\* Handler, passes and requests together implement the abstract life of an execution
\* (worker.ts, repository.ts:509-800), for any numbers of them and of faults.
THEOREM LifeImplemented == Spec => ImplementsLife
<1>1. Init => Life!LifeInit
  <2> SUFFICES ASSUME Init PROVE Life!LifeInit
    OBVIOUS
  <2>1. ASSUME NEW e \in SideEffects PROVE LifeOf(e) = "absent" /\ runs[e] = 0
    <3>1. e \in Executions  BY DEF SideEffects
    <3>2. exec[e].status = "absent" /\ runs[e] = 0  BY <3>1 DEF Init, NoRow
    <3> QED  BY <3>2 DEF LifeOf, Pending
  <2>2. (faults > 0) = FALSE  BY DEF Init
  <2> QED  BY <2>1, <2>2 DEF Life!LifeInit
<1>2. TypeOK /\ IInv /\ IInv' /\ [Next]_vars => [Life!LifeNext]_(Life!lifeVars)
  BY Inductive, StepsMap
<1> QED
  BY <1>1, <1>2, TypeCorrect, Invariance, PTL DEF Spec, ImplementsLife, Life!LifeSpec
=============================================================================
