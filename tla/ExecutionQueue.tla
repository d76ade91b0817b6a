--------------------------- MODULE ExecutionQueue ---------------------------
(***************************************************************************)
(* The life of an execution between three parties that share PostgreSQL:   *)
(*   - the worker's pg-boss handler      (src/scheduler/worker.ts),        *)
(*   - the reconcile pass of any worker  (repository.reconcileQueueStates),*)
(*   - an operator's API request         (requestStop, clearDeviceQueue,   *)
(*     cancelling a schedule, retryExecution).                             *)
(* Every `await` on the database or on pg-boss is a step boundary: what a  *)
(* party read before it may be stale when the party writes.                *)
(*                                                                         *)
(* Simplifications.  One iteration of a reconcile pass, and one execution  *)
(* of a clearDeviceQueue, is a process of its own: passes of the 15 s      *)
(* timer are not mutually exclusive, so iterations may overlap anyhow.     *)
(* Logs and attempt rows carry no status and are left out, but the         *)
(* heartbeat that appendLogs writes is kept.  Time is one flag per row,    *)
(* `aged`: updatedAt is older than the limit the code compares it with in  *)
(* the row's state (queued 45 s, running runningAbandonGraceMs, 5 s once a *)
(* stop was requested); every write that changes that state also writes    *)
(* updatedAt.  `late` holds the executions whose deadline has passed.      *)
(***************************************************************************)
EXTENDS Integers, FiniteSets

CONSTANTS
    Executions,     \* ids of rows of scheduler.executions
    Jobs,           \* ids of pg-boss jobs
    Devices,        \* registered devices: one singleton queue each
    Reconcilers,    \* reconcile iterations that may be in progress at once
    Operators,      \* API requests that may be in progress at once
    NoJob, NoExec,  \* "no id"
    DeviceOf,       \* DeviceOf[e]: the device an execution is addressed to
    RetryLimit,     \* RetryLimit[e]: retryPolicy(payload).retryLimit of its task
    Stoppable,      \* the executions whose task supports stop requests
    MaxFaults       \* bound: crashes, failed calls and false expiries

ASSUME QueueAssumption ==
    /\ NoJob \notin Jobs /\ NoExec \notin Executions
    /\ DeviceOf \in [Executions -> Devices]
    /\ RetryLimit \in [Executions -> Nat]
    /\ Stoppable \subseteq Executions
    /\ MaxFaults \in Nat

VARIABLES
    exec,    \* the rows: status, queueJobId, stopRequestedAt, updatedAt
    late,    \* executions whose deadlineAt has passed
    job,     \* pg-boss: state, execution id in the data, retry count
    worker,  \* worker[d]: the handler of the device's queue
    rec,     \* rec[r]: one reconcile iteration, with what it has read
    oper,    \* oper[o]: one API request, with what it has read
    runs,    \* history: how often the body of an execution was started, up to RunsBound
    faults   \* how many faults have happened

vars == <<exec, late, job, worker, rec, oper, runs, faults>>

(***************************************************************************)
(* Rows, jobs and handlers                                                 *)
(***************************************************************************)
Terminal == {"succeeded", "failed", "cancelled", "stopped"}
Pending == {"queued", "running"}
Status == {"absent"} \cup Pending \cup Terminal

Row == [status : Status, job : Jobs \cup {NoJob}, stop : BOOLEAN, aged : BOOLEAN]

Live == {"created", "retry", "active"}          \* pg-boss: state < 'completed'
Dead == {"missing", "failed", "cancelled", "completed"}
JobStates == Live \cup Dead

NoRow == [status |-> "absent", job |-> NoJob, stop |-> FALSE, aged |-> FALSE]
NoSuchJob == [state |-> "missing", exec |-> NoExec, retries |-> 0]

IdleWorker == [pc |-> "idle", job |-> NoJob, outcome |-> "none"]
IdleRec == [pc |-> "idle", exec |-> NoExec, row |-> NoRow, new |-> NoJob]
IdleOper == [pc |-> "idle", exec |-> NoExec, job |-> NoJob]

RunsBound == 2   \* "twice or more" is all the properties tell apart

JobRow == [state : JobStates, exec : Executions \cup {NoExec}, retries : Nat]
WorkerState ==
    [pc : {"idle", "fetched", "claimed", "body", "ended", "return", "throw"},
     job : Jobs \cup {NoJob}, outcome : {"none", "ok", "error", "stopped"}]
RecState ==
    [pc : {"idle", "selected", "reset", "fail", "stop", "cancelRun", "cancelQueued", "requeue", "link"},
     exec : Executions \cup {NoExec}, row : Row, new : Jobs \cup {NoJob}]
OperState ==
    [pc : {"idle", "stopQueued", "stopped", "stopRunning", "drop", "dropped", "retry"},
     exec : Executions \cup {NoExec}, job : Jobs \cup {NoJob}]

TypeOK ==
    /\ exec \in [Executions -> Row]
    /\ late \in SUBSET Executions
    /\ job \in [Jobs -> JobRow]
    /\ worker \in [Devices -> WorkerState]
    /\ rec \in [Reconcilers -> RecState]
    /\ oper \in [Operators -> OperState]
    /\ runs \in [Executions -> 0 .. RunsBound]
    /\ faults \in 0 .. MaxFaults

Init ==
    /\ exec = [e \in Executions |-> NoRow]
    /\ late = {}
    /\ job = [j \in Jobs |-> NoSuchJob]
    /\ worker = [d \in Devices |-> IdleWorker]
    /\ rec = [r \in Reconcilers |-> IdleRec]
    /\ oper = [o \in Operators |-> IdleOper]
    /\ runs = [e \in Executions |-> 0]
    /\ faults = 0

Fault == faults < MaxFaults /\ faults' = faults + 1

\* update executions set status = s, updatedAt = now where id = e: no guard on status.
Write(e, s) == exec' = [exec EXCEPT ![e].status = s, ![e].aged = FALSE]

(***************************************************************************)
(* pg-boss, as src/ uses it                                                *)
(***************************************************************************)
\* A send creates a job; an id is free while pg-boss has no row for it.
FreeJob(j) == job[j].state = "missing"
NewJob(e) == [state |-> "created", exec |-> e, retries |-> 0]

\* boss.cancel changes a job that has not ended, and a failed call is swallowed
\* by every caller: `cancelled` is the job table in either case.
Cancelled(j) ==
    IF j \in Jobs /\ job[j].state \in Live THEN [job EXCEPT ![j].state = "cancelled"] ELSE job
CancelJob(j) ==
    \/ job' = Cancelled(j) /\ faults' = faults
    \/ job' = job /\ Fault

\* The retryLimit every boss.send passes: that of the task's policy.
SentLimit(e) == RetryLimit[e]

\* A failed delivery is retried while the policy it was sent with allows.
AfterFailure(j) ==
    IF job[j].retries < SentLimit(job[j].exec) THEN "retry" ELSE "failed"

Handled(j) == \E d \in Devices : worker[d].job = j

\* A job whose worker stopped heartbeating, or that outlived expireInSeconds.
\* With a live handler it takes a lost connection: that is a fault.
ExpireJob(j) ==
    /\ job[j].state = "active"
    /\ job' = [job EXCEPT ![j].state = AfterFailure(j)]
    /\ IF Handled(j) THEN Fault ELSE faults' = faults
    /\ UNCHANGED <<exec, late, worker, rec, oper, runs>>

\* pg-boss deletes ended jobs after their retention; nobody refers to them by then.
DeleteJob(j) ==
    /\ job[j].state \in Dead \ {"missing"}
    /\ ~Handled(j)
    /\ \A e \in Executions : exec[e].job # j
    /\ \A r \in Reconcilers : rec[r].new # j /\ rec[r].row.job # j
    /\ \A o \in Operators : oper[o].job # j
    /\ job' = [job EXCEPT ![j] = NoSuchJob]
    /\ UNCHANGED <<exec, late, worker, rec, oper, runs, faults>>

(***************************************************************************)
(* Creation of an execution with its job, in one transaction               *)
(***************************************************************************)
Create(e, j) ==
    /\ exec[e].status = "absent"
    /\ FreeJob(j)
    /\ exec' = [exec EXCEPT ![e] = [NoRow EXCEPT !.status = "queued", !.job = j]]
    /\ job' = [job EXCEPT ![j] = NewJob(e)]

\* materializeDue: the insert, boss.send(db: tx) and the link commit together.
Materialize(e, j) == Create(e, j) /\ UNCHANGED <<late, worker, rec, oper, runs, faults>>

(***************************************************************************)
(* The worker's handler for one device queue                               *)
(***************************************************************************)
ExecOf(d) == job[worker[d].job].exec

\* pg-boss delivers one job at a time to the handler; policy 'singleton' keeps a
\* second job of the queue from becoming active.
Fetch(d, j) ==
    /\ worker[d].pc = "idle"
    /\ job[j].state \in {"created", "retry"}
    /\ DeviceOf[job[j].exec] = d
    /\ \A k \in Jobs : job[k].state = "active" => DeviceOf[job[k].exec] # d
    /\ job' = [job EXCEPT ![j].state = "active",
                          ![j].retries = IF job[j].state = "retry" THEN @ + 1 ELSE @]
    /\ worker' = [worker EXCEPT ![d] = [pc |-> "fetched", job |-> j, outcome |-> "none"]]
    /\ UNCHANGED <<exec, late, rec, oper, runs, faults>>

\* Slip: the update has no `status in (queued, running)`.
StartAttemptAnyStatus(d) ==
    /\ worker[d].pc = "fetched"
    /\ Write(ExecOf(d), "running")
    /\ worker' = [worker EXCEPT ![d].pc = "claimed"]
    /\ UNCHANGED <<late, job, rec, oper, runs, faults>>

StartAttempt(d) ==
    /\ worker[d].pc = "fetched"
    /\ IF exec[ExecOf(d)].status \in Pending
       THEN /\ Write(ExecOf(d), "running")
            /\ worker' = [worker EXCEPT ![d].pc = "claimed"]
       ELSE /\ worker' = [worker EXCEPT ![d].pc = "return"]
            /\ exec' = exec
    /\ UNCHANGED <<late, job, rec, oper, runs, faults>>

\* executeAutomation refuses an unregistered device, a missing route or a passed
\* deadline, and waits for the device at most until the deadline.
StartBody(d) ==
    /\ worker[d].pc = "claimed"
    /\ ExecOf(d) \notin late
    /\ worker' = [worker EXCEPT ![d].pc = "body"]
    /\ runs' = [runs EXCEPT ![ExecOf(d)] = IF @ < RunsBound THEN @ + 1 ELSE @]
    /\ UNCHANGED <<exec, late, job, rec, oper, faults>>

\* appendLogs: a log line is the heartbeat, while the row still says running.
Heartbeat(d) ==
    /\ worker[d].pc = "body"
    /\ exec[ExecOf(d)].status = "running"
    /\ exec' = [exec EXCEPT ![ExecOf(d)].aged = FALSE]
    /\ UNCHANGED <<late, job, worker, rec, oper, runs, faults>>

\* Slip: nobody polls stopRequested.
AbortedWithoutPoll(d) == ExecOf(d) \in late \/ job[worker[d].job].state # "active"

\* The abort signal: the stop poll, the deadline timer, or pg-boss gave the job up.
Aborted(d) ==
    \/ exec[ExecOf(d)].stop
    \/ ExecOf(d) \in late
    \/ job[worker[d].job].state # "active"

\* executeAutomation returns; finishAttempt is recorded.
EndBody(d, o) ==
    /\ \/ worker[d].pc = "body" /\ o \in {"ok", "error"}
       \/ worker[d].pc = "claimed" /\ o = "error"
       \/ worker[d].pc \in {"claimed", "body"} /\ o = "stopped" /\ Aborted(d)
    /\ worker' = [worker EXCEPT ![d].pc = "ended", ![d].outcome = o]
    /\ UNCHANGED <<exec, late, job, rec, oper, runs, faults>>

\* Slip: a failed attempt is reset to queued whatever the policy says.
MayRetryAlways(d) == ExecOf(d) \notin late

MayRetry(d) ==
    /\ job[worker[d].job].retries < RetryLimit[ExecOf(d)]
    /\ ExecOf(d) \notin late

\* finishExecution, or resetForRetry followed by a throw.
Settle(d) ==
    /\ worker[d].pc = "ended"
    /\ \/ /\ worker[d].outcome = "stopped"
          /\ Write(ExecOf(d), "stopped")
          /\ worker' = [worker EXCEPT ![d].pc = "return"]
       \/ /\ worker[d].outcome = "ok"
          /\ Write(ExecOf(d), "succeeded")
          /\ worker' = [worker EXCEPT ![d].pc = "return"]
       \/ /\ worker[d].outcome = "error"
          /\ MayRetry(d)
          /\ Write(ExecOf(d), "queued")
          /\ worker' = [worker EXCEPT ![d].pc = "throw"]
       \/ /\ worker[d].outcome = "error"
          /\ ~MayRetry(d)
          /\ Write(ExecOf(d), "failed")
          /\ worker' = [worker EXCEPT ![d].pc = "return"]
    /\ UNCHANGED <<late, job, rec, oper, runs, faults>>

\* A repository call of the handler rejects, before or after its first write, or the
\* plugin is gone.
HandlerThrows(d) ==
    /\ \/ worker[d].pc \in {"fetched", "claimed", "ended"}
       \/ worker[d].pc = "return" /\ worker[d].outcome # "none"
    /\ Fault
    /\ worker' = [worker EXCEPT ![d].pc = "throw"]
    /\ UNCHANGED <<exec, late, job, rec, oper, runs>>

\* pg-boss completes the job of a handler that returned, if it is still active.
Return(d) ==
    /\ worker[d].pc = "return"
    /\ job' = IF job[worker[d].job].state = "active"
              THEN [job EXCEPT ![worker[d].job].state = "completed"] ELSE job
    /\ worker' = [worker EXCEPT ![d] = IdleWorker]
    /\ UNCHANGED <<exec, late, rec, oper, runs, faults>>

\* ... and fails the job of one that threw.
Throw(d) ==
    /\ worker[d].pc = "throw"
    /\ job' = IF job[worker[d].job].state \in Live
              THEN [job EXCEPT ![worker[d].job].state = AfterFailure(worker[d].job)] ELSE job
    /\ worker' = [worker EXCEPT ![d] = IdleWorker]
    /\ UNCHANGED <<exec, late, rec, oper, runs, faults>>

\* The worker process dies: the job stays active and the row stays as it is.
Crash(d) ==
    /\ worker[d].pc # "idle"
    /\ Fault
    /\ worker' = [worker EXCEPT ![d] = IdleWorker]
    /\ UNCHANGED <<exec, late, job, rec, oper, runs>>

(***************************************************************************)
(* One iteration of reconcileQueueStates                                   *)
(***************************************************************************)
Select(r, e) ==
    /\ rec[r].pc = "idle"
    /\ exec[e].status \in Pending
    /\ rec' = [rec EXCEPT ![r] = [IdleRec EXCEPT !.pc = "selected", !.exec = e, !.row = exec[e]]]
    /\ UNCHANGED <<exec, late, job, worker, oper, runs, faults>>

\* Slip: queued executions with a dead job are left alone.
DecisionWithoutRequeue(row, seen, aged) ==
    CASE row.status = "running" /\ seen = "retry" -> "reset"
      [] row.status = "running" /\ seen \in Dead ->
            IF seen = "cancelled" \/ row.stop THEN "stop" ELSE "fail"
      [] row.status = "running" /\ seen = "active" /\ aged -> "cancelRun"
      [] row.status = "queued" /\ seen = "active" /\ aged -> "cancelQueued"
      [] OTHER -> "idle"

\* What an iteration decides from the row it selected, the state findJobs gave and
\* whether updatedAt, as selected, is too old by now.
Decision(row, seen, aged) ==
    CASE row.status = "running" /\ seen = "retry" -> "reset"
      [] row.status = "running" /\ seen \in Dead ->
            IF seen = "cancelled" \/ row.stop THEN "stop" ELSE "fail"
      [] row.status = "running" /\ seen = "active" /\ aged -> "cancelRun"
      [] row.status = "queued" /\ seen \in Dead -> "requeue"
      [] row.status = "queued" /\ seen = "active" /\ aged -> "cancelQueued"
      [] OTHER -> "idle"

\* After the decision the iteration needs the execution, and the row only where a
\* job is still to be cancelled.
Decided(r, d) ==
    CASE d = "idle" -> IdleRec
      [] d \in {"cancelRun", "cancelQueued"} -> [rec[r] EXCEPT !.pc = d]
      [] OTHER -> [IdleRec EXCEPT !.pc = d, !.exec = rec[r].exec]

\* The age is taken from the row as selected, but by the clock of now.
AgedSince(r) ==
    \/ rec[r].row.aged
    \/ exec[rec[r].exec].aged
    \/ exec[rec[r].exec].status # rec[r].row.status

\* findJobs and the decision; a lookup that throws counts as a missing job.
FindJob(r) ==
    /\ rec[r].pc = "selected"
    /\ \E aged \in {rec[r].row.aged, AgedSince(r)} :
        \/ /\ rec' = [rec EXCEPT ![r] = Decided(r, Decision(rec[r].row,
                        IF rec[r].row.job = NoJob THEN "missing" ELSE job[rec[r].row.job].state, aged))]
           /\ faults' = faults
        \/ /\ rec[r].row.job # NoJob
           /\ rec' = [rec EXCEPT ![r] = Decided(r, Decision(rec[r].row, "missing", aged))]
           /\ Fault
    /\ UNCHANGED <<exec, late, job, worker, oper, runs>>

NextIteration(r) == rec' = [rec EXCEPT ![r] = IdleRec]

\* resetForRetry: no guard on the status the row has by now.
ResetInterrupted(r) ==
    /\ rec[r].pc = "reset"
    /\ Write(rec[r].exec, "queued")
    /\ NextIteration(r)
    /\ UNCHANGED <<late, job, worker, oper, runs, faults>>

\* A zombie run: cancel the job that blocks the queue, then finish the execution.
CancelZombieRun(r) ==
    /\ rec[r].pc = "cancelRun"
    /\ CancelJob(rec[r].row.job)
    /\ rec' = [rec EXCEPT ![r] = Decided(r, IF rec[r].row.stop THEN "stop" ELSE "fail")]
    /\ UNCHANGED <<exec, late, worker, oper, runs>>

\* Slip: the verdict is written as the status.
FinishDeadVerdict(r) ==
    /\ rec[r].pc \in {"fail", "stop"}
    /\ Write(rec[r].exec, rec[r].pc)
    /\ NextIteration(r)
    /\ UNCHANGED <<late, job, worker, oper, runs, faults>>

\* finishExecution, of a zombie run or of one whose job is dead: no guard either.
FinishDead(r) ==
    /\ rec[r].pc \in {"fail", "stop"}
    /\ Write(rec[r].exec, IF rec[r].pc = "stop" THEN "stopped" ELSE "failed")
    /\ NextIteration(r)
    /\ UNCHANGED <<late, job, worker, oper, runs, faults>>

CancelZombieQueued(r) ==
    /\ rec[r].pc = "cancelQueued"
    /\ CancelJob(rec[r].row.job)
    /\ rec' = [rec EXCEPT ![r] = Decided(r, "requeue")]
    /\ UNCHANGED <<exec, late, worker, oper, runs>>

\* requeueQueuedExecution: a fresh job, outside any transaction ...
SendAgain(r, j) ==
    /\ rec[r].pc = "requeue"
    /\ FreeJob(j)
    /\ job' = [job EXCEPT ![j] = NewJob(rec[r].exec)]
    /\ rec' = [rec EXCEPT ![r].pc = "link", ![r].new = j]
    /\ UNCHANGED <<exec, late, worker, oper, runs, faults>>

\* Slip: the link puts the row back to queued without looking at it.
LinkAnyStatus(r) ==
    /\ rec[r].pc = "link"
    /\ exec' = [exec EXCEPT ![rec[r].exec].job = rec[r].new,
                            ![rec[r].exec].status = "queued", ![rec[r].exec].aged = FALSE]
    /\ NextIteration(r)
    /\ UNCHANGED <<late, job, worker, oper, runs, faults>>

\* ... and then the link, only if the row is still queued.
Link(r) ==
    /\ rec[r].pc = "link"
    /\ exec' = IF exec[rec[r].exec].status = "queued"
               THEN [exec EXCEPT ![rec[r].exec].job = rec[r].new, ![rec[r].exec].aged = FALSE]
               ELSE exec
    /\ NextIteration(r)
    /\ UNCHANGED <<late, job, worker, oper, runs, faults>>

\* The process running the pass dies, or a call of the iteration rejects.
BreakOff(r) ==
    /\ rec[r].pc # "idle"
    /\ Fault
    /\ NextIteration(r)
    /\ UNCHANGED <<exec, late, job, worker, oper, runs>>

(***************************************************************************)
(* Operator requests                                                       *)
(***************************************************************************)
Request(o, pc, e) ==
    /\ oper[o].pc = "idle"
    /\ oper' = [oper EXCEPT ![o] = [pc |-> pc, exec |-> e, job |->
                    IF pc \in {"stopQueued", "drop"} THEN exec[e].job ELSE NoJob]]
    /\ UNCHANGED <<exec, late, job, worker, rec, runs, faults>>

Proceed(o, pc) == oper' = [oper EXCEPT ![o].pc = pc, ![o].job = NoJob]
Answer(o) == oper' = [oper EXCEPT ![o] = IdleOper]

\* requestStop and clearDeviceQueue select the row first; a row that is neither
\* queued nor running, or whose task supports no stop, is answered at once.
ReadForStop(o, e) ==
    \/ exec[e].status = "queued" /\ Request(o, "stopQueued", e)
    \/ exec[e].status = "running" /\ e \in Stoppable /\ Request(o, "stopRunning", e)

StopQueued(o) ==
    /\ oper[o].pc = "stopQueued"
    /\ CancelJob(oper[o].job)
    /\ Proceed(o, "stopped")
    /\ UNCHANGED <<exec, late, worker, rec, runs>>

\* finishExecution('cancelled', 'Cancelled before execution'): no guard on the status.
FinishCancelled(o) ==
    /\ oper[o].pc = "stopped"
    /\ Write(oper[o].exec, "cancelled")
    /\ Answer(o)
    /\ UNCHANGED <<late, job, worker, rec, runs, faults>>

StopRunning(o) ==
    /\ oper[o].pc = "stopRunning"
    /\ exec' = [exec EXCEPT ![oper[o].exec].stop = TRUE, ![oper[o].exec].aged = FALSE]
    /\ Answer(o)
    /\ UNCHANGED <<late, job, worker, rec, runs, faults>>

\* setScheduleStatus('cancelled'): cancel the jobs of the queued executions it
\* selected, then one update guarded by status = 'queued'.
ReadForDrop(o, e) == exec[e].status = "queued" /\ Request(o, "drop", e)

DropJob(o) ==
    /\ oper[o].pc = "drop"
    /\ CancelJob(oper[o].job)
    /\ Proceed(o, "dropped")
    /\ UNCHANGED <<exec, late, worker, rec, runs>>

DropQueued(o) ==
    /\ oper[o].pc = "dropped"
    /\ IF exec[oper[o].exec].status = "queued" THEN Write(oper[o].exec, "cancelled") ELSE exec' = exec
    /\ Answer(o)
    /\ UNCHANGED <<late, job, worker, rec, runs, faults>>

\* Slip: any execution can be retried.
ReadForRetryAny(o, e) == exec[e].status # "absent" /\ Request(o, "retry", e)

\* retryExecution: the source must be failed or stopped when it is read; the new
\* execution of the same task and its job are inserted in a later transaction.
ReadForRetry(o, e) == exec[e].status \in {"failed", "stopped"} /\ Request(o, "retry", e)

InsertRetry(o, e, j) ==
    /\ oper[o].pc = "retry"
    /\ DeviceOf[e] = DeviceOf[oper[o].exec]
    /\ RetryLimit[e] = RetryLimit[oper[o].exec]
    /\ Create(e, j)
    /\ Answer(o)
    /\ UNCHANGED <<late, worker, rec, runs, faults>>

(***************************************************************************)
(* Time                                                                    *)
(***************************************************************************)
Grow(e) ==
    /\ exec[e].status \in Pending
    /\ ~exec[e].aged
    /\ exec' = [exec EXCEPT ![e].aged = TRUE]
    /\ UNCHANGED <<late, job, worker, rec, oper, runs, faults>>

PassDeadline(e) ==
    /\ exec[e].status \in Pending
    /\ late' = late \cup {e}
    /\ UNCHANGED <<exec, job, worker, rec, oper, runs, faults>>

-----------------------------------------------------------------------------
WorkerStep(d) ==
    \/ \E j \in Jobs : Fetch(d, j)
    \/ StartAttempt(d) \/ StartBody(d) \/ Heartbeat(d)
    \/ \E o \in {"ok", "error", "stopped"} : EndBody(d, o)
    \/ Settle(d) \/ HandlerThrows(d) \/ Return(d) \/ Throw(d) \/ Crash(d)

ReconcileStep(r) ==
    \/ \E e \in Executions : Select(r, e)
    \/ FindJob(r) \/ ResetInterrupted(r) \/ CancelZombieRun(r) \/ FinishDead(r)
    \/ CancelZombieQueued(r)
    \/ \E j \in Jobs : SendAgain(r, j)
    \/ Link(r) \/ BreakOff(r)

OperatorStep(o) ==
    \/ \E e \in Executions : ReadForStop(o, e) \/ ReadForDrop(o, e) \/ ReadForRetry(o, e)
    \/ StopQueued(o) \/ FinishCancelled(o) \/ StopRunning(o)
    \/ DropJob(o) \/ DropQueued(o)
    \/ \E e \in Executions, j \in Jobs : InsertRetry(o, e, j)

Environment ==
    \/ \E e \in Executions, j \in Jobs : Materialize(e, j)
    \/ \E j \in Jobs : ExpireJob(j) \/ DeleteJob(j)
    \/ \E e \in Executions : Grow(e) \/ PassDeadline(e)

Next ==
    \/ \E d \in Devices : WorkerStep(d)
    \/ \E r \in Reconcilers : ReconcileStep(r)
    \/ \E o \in Operators : OperatorStep(o)
    \/ Environment

Spec == Init /\ [][Next]_vars

(***************************************************************************)
(* Fairness.  The handler, pg-boss and the 15 s timer keep running, and    *)
(* time passes; requests, crashes and other faults are never forced.       *)
(***************************************************************************)
\* The handler never stalls between two awaits, and an aborted body is killed
\* (runPluginProcess escalates to SIGKILL); a body need not end otherwise.
WorkerFairness ==
    \A d \in Devices :
        /\ SF_vars(\E j \in Jobs : Fetch(d, j))
        /\ WF_vars(StartAttempt(d) \/ Settle(d) \/ Return(d) \/ Throw(d))
        /\ WF_vars(EndBody(d, "stopped"))

\* setInterval(reconcileQueueStates, 15_000): every pending row is looked at again
\* and again, and an iteration that started goes on.
ReconcileFairness ==
    \A r \in Reconcilers :
        /\ \A e \in Executions : SF_vars(Select(r, e))
        /\ WF_vars(FindJob(r) \/ ResetInterrupted(r) \/ CancelZombieRun(r) \/ FinishDead(r)
                     \/ CancelZombieQueued(r) \/ (\E j \in Jobs : SendAgain(r, j)) \/ Link(r))

\* heartbeatSeconds: 60 and expireInSeconds end the job of a dead handler;
\* deleteAfterSeconds removes ended jobs.
BossFairness ==
    \A j \in Jobs : WF_vars(~Handled(j) /\ ExpireJob(j)) /\ WF_vars(DeleteJob(j))

Scheduling == WorkerFairness /\ ReconcileFairness /\ BossFairness

FairSpec == Spec /\ Scheduling

\* The deadline timer: deadlineAt is a fixed instant, so it passes.
DeadlineSpec == FairSpec /\ \A e \in Executions : WF_vars(PassDeadline(e))

(***************************************************************************)
(* Properties                                                              *)
(***************************************************************************)
SideEffecting(e) == RetryLimit[e] = 0
Finished(e) == exec[e].status \in Terminal

\* An execution of a task without automatic retry (posts, DMs, likes: retryLimit 0)
\* that has finished is never queued or running again, whatever stale rows and job
\* states the handler, a reconcile pass and a request still hold when they write.
FinishedStaysFinished ==
    [][\A e \in Executions : SideEffecting(e) /\ Finished(e) => Finished(e)']_vars

\* pg-boss delivers a job at most retryLimit times more than once, over throws,
\* expiries and reconcile passes: a job without retries is never delivered twice.
DeliveriesWithinPolicy ==
    \A j \in Jobs : job[j].exec \in Executions =>
        /\ job[j].retries <= RetryLimit[job[j].exec]
        /\ job[j].state = "retry" => job[j].retries < RetryLimit[job[j].exec]

\* When pg-boss has completed a job of such a task, the outcome is on record: a crash
\* or a stale write never leaves the row pending behind a job nobody runs again.
CompletedJobIsRecorded ==
    \A j \in Jobs :
        job[j].state = "completed" /\ SideEffecting(job[j].exec) => Finished(job[j].exec)

\* As long as nothing fails, the body of such a task is started at most once, although
\* a slow handler may be taken for a zombie and its execution queued a second time.
OneRunWithoutFaults ==
    faults = 0 => \A e \in Executions : SideEffecting(e) => runs[e] <= 1

\* The strengthening of these invariants that is inductive.
\* Ids lead where they were meant to: a job to its execution, a row, an iteration, a
\* request and a handler to a job of theirs.
JobRefs ==
    \A j \in Jobs :
        /\ job[j].state = "missing" <=> job[j].exec = NoExec
        /\ job[j].exec \in Executions => exec[job[j].exec].status # "absent"
RowRefs == \A e \in Executions : exec[e].job \in Jobs => job[exec[e].job].exec = e
RecRefs ==
    \A r \in Reconcilers :
        /\ rec[r].pc # "idle" => rec[r].exec \in Executions /\ exec[rec[r].exec].status # "absent"
        /\ rec[r].row.job \in Jobs => job[rec[r].row.job].exec = rec[r].exec
        /\ rec[r].new \in Jobs => job[rec[r].new].exec = rec[r].exec
        /\ rec[r].pc = "link" => rec[r].new \in Jobs
        /\ rec[r].pc = "idle" => rec[r] = IdleRec
OperRefs ==
    \A o \in Operators :
        oper[o].pc # "idle" => oper[o].exec \in Executions /\ exec[oper[o].exec].status # "absent"
HandlerRefs ==
    \A d \in Devices :
        worker[d].pc # "idle" =>
            /\ worker[d].job \in Jobs
            /\ ExecOf(d) \in Executions
            /\ DeviceOf[ExecOf(d)] = d
References == JobRefs /\ RowRefs /\ RecRefs /\ OperRefs /\ HandlerRefs

\* An iteration resets only what may be retried.
ResetsAreRetryable == \A r \in Reconcilers : rec[r].pc = "reset" => ~SideEffecting(rec[r].exec)

\* A handler returns only once the outcome is recorded.
ReturnsAreRecorded ==
    \A d \in Devices :
        worker[d].pc = "return" /\ SideEffecting(ExecOf(d)) => Finished(ExecOf(d))

\* Without faults, an execution whose body was started has finished or is in the hands
\* of that very handler, and no handler is about to start it again.
RunsAreAccounted ==
    faults = 0 =>
        /\ \A e \in Executions :
            SideEffecting(e) /\ runs[e] > 0 =>
                \/ Finished(e)
                \/ worker[DeviceOf[e]].pc \in {"body", "ended"} /\ ExecOf(DeviceOf[e]) = e
        /\ \A d \in Devices :
            worker[d].pc = "claimed" /\ SideEffecting(ExecOf(d)) => runs[ExecOf(d)] = 0

IInv ==
    /\ References
    /\ DeliveriesWithinPolicy
    /\ ResetsAreRetryable
    /\ CompletedJobIsRecorded
    /\ ReturnsAreRecorded
    /\ OneRunWithoutFaults
    /\ RunsAreAccounted

\* When the dashboard's Retry inserts the new execution, the side-effecting source it
\* read as failed or stopped is finished still: the gap between the two is harmless.
RetryFollowsEnd ==
    [][\A o \in Operators, e \in Executions, j \in Jobs :
        InsertRetry(o, e, j) /\ SideEffecting(oper[o].exec) => Finished(oper[o].exec)]_vars

\* A running execution that was asked to stop ends, even if the body would never end
\* by itself, the worker dies, or a reconcile pass interferes.
StopIsHonoured ==
    \A e \in Executions :
        exec[e].status = "running" /\ exec[e].stop ~> Finished(e)

\* Every execution that was created ends: the deadline, the reconcile pass and the
\* job expiry together leave no row queued or running, and no queue blocked, forever.
EveryExecutionEnds ==
    \A e \in Executions : exec[e].status \in Pending ~> Finished(e)

\* The abstract life of the executions of tasks without automatic retry.
SideEffects == {e \in Executions : SideEffecting(e)}
LifeOf(e) ==
    CASE exec[e].status = "absent" -> "absent"
      [] exec[e].status \in Pending -> "pending"
      [] OTHER -> "over"

Life == INSTANCE ExecutionLife WITH
    Executions <- SideEffects,
    life <- [e \in SideEffects |-> LifeOf(e)],
    starts <- [e \in SideEffects |-> runs[e]],
    broken <- faults > 0

\* Handler, reconcile passes and requests together implement ExecutionLife: whatever
\* jobs, stale rows and faults do, an execution only appears, starts, and is over once.
ImplementsLife == Life!LifeSpec

\* Claims of the repository that the interleavings refute (see the README).

\* artifacts/design-docs: retries never apply to public posts and DMs by default.
NoAutomaticRerun == \A e \in Executions : SideEffecting(e) => runs[e] <= 1
=============================================================================
