----------------------------- MODULE Schedules -----------------------------
(***************************************************************************)
(* Schedules and campaigns: the rows that say what runs when, between      *)
(*   - API requests that create, edit, pause, resume or cancel a schedule  *)
(*     and create, launch or cancel a campaign                             *)
(*     (src/scheduler/repository.ts, reached from api/schedule-routes.ts,  *)
(*     campaign-routes.ts and dcreator-routes.ts), and                     *)
(*   - the materialize timer of the worker, which turns due schedules into *)
(*     executions.                                                         *)
(* A request is a sequence of awaits: each is a step, and what a request   *)
(* has read is in its record until it writes.  Transactions are one step.  *)
(*                                                                         *)
(* Simplifications.  Time counts minutes.  `daily` stands for every timing *)
(* that cron-parser computes (daily, weekly): a fixed grid of instants, so *)
(* daylight-saving shifts are left out.  All tasks take the same time.     *)
(* Assets, profiles and routes are left out: no decision here reads them.  *)
(* Of an execution only what the unique index and the sweep of a cancelled *)
(* schedule look at is kept; the rest of its life is ExecutionQueue.       *)
(***************************************************************************)
EXTENDS Integers, FiniteSets

CONSTANTS
    Schedules,        \* ids of rows of scheduler.schedules
    Campaigns,        \* ids of rows of scheduler.campaigns
    Requests,         \* API requests, each made once
    Operations,       \* what the requests of an instance may ask for
    DeviceOf,         \* DeviceOf[s]: the device a schedule is for
    CampaignOf,       \* CampaignOf[s]: the campaign s is a target of, or NoCampaign
    CampaignTiming,   \* CampaignTiming[c]: the timing all targets of c share
    Timings,          \* the timings requests post
    Externals,        \* ids dCreator gives its jobs
    Hashes,           \* contents of such jobs
    NoSchedule, NoCampaign, NoExternal, NoHash,
    Spacing,          \* estimated duration plus minimum gap; 0 if the gap is 0
    MaxTime,          \* bound: the last minute
    MaxFaults         \* bound: requests that break off

Timing == [kind : {"now", "once", "interval", "daily"}, at : Nat, every : Nat \ {0}]

AllOperations ==
    {"create", "edit", "retime", "activate", "pause", "cancel", "launch", "drop"}

ASSUME ScheduleAssumption ==
    /\ NoSchedule \notin Schedules /\ NoCampaign \notin Campaigns
    /\ NoExternal \notin Externals /\ NoHash \notin Hashes
    /\ CampaignOf \in [Schedules -> Campaigns \cup {NoCampaign}]
    /\ \A c \in Campaigns : \E s \in Schedules : CampaignOf[s] = c
    /\ CampaignTiming \in [Campaigns -> Timing]
    /\ Timings \subseteq Timing
    /\ Operations \subseteq AllOperations
    /\ Spacing \in Nat /\ MaxTime \in Nat /\ MaxFaults \in Nat

VARIABLES
    now,        \* minutes
    sched,      \* the rows of schedules: status, timing, nextRunAt, external id and hash
    exec,       \* exec[<<s, t>>]: the execution of s scheduled for t
    sends,      \* history: jobs sent for that execution, up to SendsBound
    camp,       \* status of the campaigns
    launches,   \* history: how often a campaign was launched, up to SendsBound
    req,        \* req[p]: one API request, with what it has read
    faults      \* how many requests have broken off

vars == <<now, sched, exec, sends, camp, launches, req, faults>>

(***************************************************************************)
(* Timings                                                                 *)
(***************************************************************************)
Never == -1                                  \* nextRunAt is null

OneShot(t) == t.kind \in {"now", "once"}

\* The first instant of a timing's grid from n on, and the last one up to n.
FirstTick(t, n) == n + ((t.at - n) % t.every)
LastTick(t, n) == n - ((n - t.at) % t.every)

ValidTiming(t, n) == t.kind = "once" => t.at >= n - 1

\* Slip: a one-shot whose instant has passed runs at once.
InitialRunCatchUp(t, n) ==
    CASE t.kind = "now" -> n
      [] t.kind = "once" -> IF t.at < n THEN n ELSE t.at
      [] t.kind = "interval" -> n + t.at
      [] t.kind = "daily" -> FirstTick(t, n)

InitialRun(t, n) ==
    CASE t.kind = "now" -> n
      [] t.kind = "once" -> t.at
      [] t.kind = "interval" -> n + t.at     \* at: startOffsetMinutes
      [] t.kind = "daily" -> FirstTick(t, n)

\* Slip: an interval runs when it is found due, not on the ticks of its stored run.
DueOccurrenceNow(t, next, n) ==
    CASE OneShot(t) -> next
      [] t.kind = "interval" -> n
      [] t.kind = "daily" -> IF LastTick(t, n) < next THEN next ELSE LastTick(t, n)

\* The occurrence a schedule stored as due at `next` gets at n >= next: the
\* latest one, so that ticks missed while no worker ran are skipped ...
DueOccurrence(t, next, n) ==
    CASE OneShot(t) -> next
      [] t.kind = "interval" -> n - ((n - next) % t.every)
      [] t.kind = "daily" -> IF LastTick(t, n) < next THEN next ELSE LastTick(t, n)

\* ... and the run after it.
FollowingRun(t, next, n) ==
    CASE OneShot(t) -> Never
      [] t.kind = "interval" -> DueOccurrence(t, next, n) + t.every
      [] t.kind = "daily" -> FirstTick(t, n + 1)

(***************************************************************************)
(* Rows and requests                                                       *)
(***************************************************************************)
Occurrences == Schedules \X (0 .. MaxTime)
SendsBound == 2    \* "twice or more" is all the properties tell apart

ScheduleStatus == {"absent", "active", "paused", "completed", "cancelled"}
CampaignStatus == {"absent", "draft", "active", "cancelled"}
NoTiming == [kind |-> "now", at |-> 0, every |-> 1]

ScheduleRow ==
    [status : ScheduleStatus, timing : Timing, next : Int,
     ext : Externals \cup {NoExternal}, hash : Hashes \cup {NoHash}]
NoRow == [status |-> "absent", timing |-> NoTiming, next |-> Never,
          ext |-> NoExternal, hash |-> NoHash]

Over == {"answered", "failed"}
RequestState ==
    [pc : {"new", "check", "recheck", "insert", "fire", "write", "status", "sweep",
           "select", "drop", "targets", "fireTargets"} \cup Over,
     op : AllOperations \cup {"none"}, s : Schedules \cup {NoSchedule},
     camp : Campaigns \cup {NoCampaign}, seen : CampaignStatus, todo : SUBSET Schedules,
     at : Int, timing : Timing, next : Int,
     ext : Externals \cup {NoExternal}, hash : Hashes \cup {NoHash}]
NewRequest ==
    [pc |-> "new", op |-> "none", s |-> NoSchedule, camp |-> NoCampaign, seen |-> "absent",
     todo |-> {}, at |-> 0, timing |-> NoTiming, next |-> Never,
     ext |-> NoExternal, hash |-> NoHash]

TypeOK ==
    /\ now \in 0 .. MaxTime
    /\ sched \in [Schedules -> ScheduleRow]
    /\ exec \in [Occurrences -> {"absent", "queued", "taken", "cancelled"}]
    /\ sends \in [Occurrences -> 0 .. SendsBound]
    /\ camp \in [Campaigns -> CampaignStatus]
    /\ launches \in [Campaigns -> 0 .. SendsBound]
    /\ req \in [Requests -> RequestState]
    /\ faults \in 0 .. MaxFaults

Init ==
    /\ now = 0
    /\ sched = [s \in Schedules |-> NoRow]
    /\ exec = [o \in Occurrences |-> "absent"]
    /\ sends = [o \in Occurrences |-> 0]
    /\ camp = [c \in Campaigns |-> "absent"]
    /\ launches = [c \in Campaigns |-> 0]
    /\ req = [p \in Requests |-> NewRequest]
    /\ faults = 0

Targets(c) == {s \in Schedules : CampaignOf[s] = c}
Exists(s) == sched[s].status # "absent"

\* A request of an instance's kinds begins; `at` is the `now` it goes on with.
Asks(p, op) == req[p].pc = "new" /\ op \in Operations
Asked(op) == [NewRequest EXCEPT !.op = op, !.at = now]
Goto(p, pc) == req' = [req EXCEPT ![p].pc = pc]

\* What is left of a request that is over: what it asked for, and of which row.
Closed(r, outcome, s) ==
    [pc |-> outcome, op |-> r.op, s |-> s, camp |-> r.camp, seen |-> "absent",
     todo |-> {}, at |-> 0, timing |-> NoTiming, next |-> Never,
     ext |-> r.ext, hash |-> r.hash]
Close(p, outcome) == req' = [req EXCEPT ![p] = Closed(req[p], outcome, req[p].s)]

(***************************************************************************)
(* materializeDue: one transaction                                         *)
(***************************************************************************)
\* Slip: a run whose instant has passed while no worker ran is not due any more.
DueRowsExactly(S, n) == {s \in S : sched[s].status = "active" /\ sched[s].next = n}

DueRows(S, n) ==
    {s \in S : sched[s].status = "active" /\ sched[s].next # Never /\ sched[s].next <= n}

Occurrence(s, n) == <<s, DueOccurrence(sched[s].timing, sched[s].next, n)>>

\* An occurrence that already has an execution gets no second one
\* (onConflictDoNothing), but its schedule moves on.
Inserted(D, n) == {o \in {Occurrence(s, n) : s \in D} : exec[o] = "absent"}

Advanced(row, n) ==
    LET following == FollowingRun(row.timing, row.next, n) IN
    [row EXCEPT !.next = following,
                !.status = IF following = Never THEN "completed" ELSE "active"]

MaterializeRows(D, n) ==
    LET new == Inserted(D, n) IN
    /\ sched' = [s \in Schedules |-> IF s \in D THEN Advanced(sched[s], n) ELSE sched[s]]
    /\ exec' = [o \in Occurrences |-> IF o \in new THEN "queued" ELSE exec[o]]
    /\ sends' = [o \in Occurrences |->
                    IF o \in new /\ sends[o] < SendsBound THEN sends[o] + 1 ELSE sends[o]]

\* The worker's 5 s timer.
Materialize ==
    /\ DueRows(Schedules, now) # {}
    /\ MaterializeRows(DueRows(Schedules, now), now)
    /\ UNCHANGED <<now, camp, launches, req, faults>>

\* The handler starts a queued execution.
Take(o) ==
    /\ exec[o] = "queued"
    /\ exec' = [exec EXCEPT ![o] = "taken"]
    /\ UNCHANGED <<now, sched, sends, camp, launches, req, faults>>

(***************************************************************************)
(* The minimum gap between schedules of one device                         *)
(***************************************************************************)
TooClose(a, b) == ~(a + Spacing <= b \/ b + Spacing <= a)

Conflict(s, next) ==
    /\ Spacing > 0
    /\ \E other \in Schedules \ {s} :
          /\ DeviceOf[other] = DeviceOf[s]
          /\ sched[other].status = "active" /\ sched[other].next # Never
          /\ TooClose(next, sched[other].next)

(***************************************************************************)
(* createTask                                                              *)
(***************************************************************************)
Known(x) == {s \in Schedules : x # NoExternal /\ Exists(s) /\ sched[s].ext = x}

\* Slip: whatever the content, the row of that external id is the answer.
AnswerWithoutHash(p, r, k) == req' = [req EXCEPT ![p] = Closed(r, "answered", k)]

\* The row that already has this external id is the answer, if the content agrees.
AnswerWith(p, r, k) ==
    req' = [req EXCEPT ![p] =
               Closed(r, IF sched[k].hash = r.hash THEN "answered" ELSE "failed", k)]

Reserved(s) == \E p \in Requests : req[p].s = s /\ req[p].pc \notin {"new"} \cup Over

\* s is the id the row will get, if there is to be one.
ReadExternal(p, s, t, x, h) ==
    LET r == [Asked("create") EXCEPT !.pc = "check", !.s = s, !.ext = x, !.hash = h,
                                     !.timing = t, !.next = InitialRun(t, now)]
    IN
    /\ Asks(p, "create")
    /\ ~Exists(s) /\ CampaignOf[s] = NoCampaign /\ ~Reserved(s)
    /\ (x = NoExternal) <=> (h = NoHash)
    /\ \/ /\ Known(x) = {} /\ ValidTiming(t, now)
          /\ req' = [req EXCEPT ![p] = r]
       \/ \E k \in Known(x) : AnswerWith(p, r, k)
    /\ UNCHANGED <<now, sched, exec, sends, camp, launches, faults>>

\* assertNoScheduleConflict of a creation or an edit: a read long before the write.
CheckConflict(p) ==
    /\ req[p].pc = "check"
    /\ \/ /\ req[p].next # Never /\ Conflict(req[p].s, req[p].next)
          /\ IF req[p].ext # NoExternal THEN Goto(p, "recheck") ELSE Close(p, "failed")
       \/ /\ ~(req[p].next # Never /\ Conflict(req[p].s, req[p].next))
          /\ Goto(p, IF req[p].op = "create" THEN "insert" ELSE "write")
    /\ UNCHANGED <<now, sched, exec, sends, camp, launches, faults>>

\* The conflict may be with the schedule of the same request, created meanwhile.
Recheck(p) ==
    /\ req[p].pc = "recheck"
    /\ \/ Known(req[p].ext) = {} /\ Close(p, "failed")
       \/ \E k \in Known(req[p].ext) : AnswerWith(p, req[p], k)
    /\ UNCHANGED <<now, sched, exec, sends, camp, launches, faults>>

\* The transaction: insert, or give way to the row that has the external id.
Insert(p) ==
    /\ req[p].pc = "insert"
    /\ \/ /\ Known(req[p].ext) = {}
          /\ sched' = [sched EXCEPT ![req[p].s] =
                          [status |-> "active", timing |-> req[p].timing,
                           next |-> req[p].next, ext |-> req[p].ext, hash |-> req[p].hash]]
          /\ IF req[p].next <= req[p].at THEN Goto(p, "fire") ELSE Close(p, "answered")
       \/ /\ \E k \in Known(req[p].ext) : AnswerWith(p, req[p], k)
          /\ UNCHANGED sched
    /\ UNCHANGED <<now, exec, sends, camp, launches, faults>>

\* materializeDue(now, schedule.id), with the `now` of the request.
Fire(p) ==
    /\ req[p].pc = "fire"
    /\ MaterializeRows(DueRows({req[p].s}, req[p].at), req[p].at)
    /\ Close(p, "answered")
    /\ UNCHANGED <<now, camp, launches, faults>>

(***************************************************************************)
(* updateSchedule                                                          *)
(***************************************************************************)
\* An edit of the payload keeps the timing and the stored next run.
ReadForEdit(p, s) ==
    /\ Asks(p, "edit")
    /\ sched[s].status \in {"active", "paused"} /\ ValidTiming(sched[s].timing, now)
    /\ req' = [req EXCEPT ![p] = [Asked("edit") EXCEPT !.pc = "check", !.s = s,
                 !.timing = sched[s].timing, !.next = sched[s].next]]
    /\ UNCHANGED <<now, sched, exec, sends, camp, launches, faults>>

ReadForRetime(p, s, t) ==
    /\ Asks(p, "retime")
    /\ sched[s].status \in {"active", "paused"} /\ ValidTiming(t, now)
    /\ req' = [req EXCEPT ![p] = [Asked("retime") EXCEPT !.pc = "check", !.s = s,
                 !.timing = t, !.next = InitialRun(t, now)]]
    /\ UNCHANGED <<now, sched, exec, sends, camp, launches, faults>>

\* No condition on what the row has become since it was read.
WriteEdit(p) ==
    /\ req[p].pc = "write"
    /\ sched' = [sched EXCEPT ![req[p].s].timing = req[p].timing,
                              ![req[p].s].next = req[p].next]
    /\ Close(p, "answered")
    /\ UNCHANGED <<now, exec, sends, camp, launches, faults>>

(***************************************************************************)
(* setScheduleStatus                                                       *)
(***************************************************************************)
Goal(op) ==
    CASE op = "activate" -> "active"
      [] op = "pause" -> "paused"
      [] OTHER -> "cancelled"

\* scheduleTransitionAllowed: to itself, between active and paused, and any but
\* absent to cancelled.
TransitionAllowed(from, to) ==
    \/ from = to
    \/ from \in {"active", "paused"} /\ to \in {"active", "paused"}
    \/ from \in {"active", "paused", "completed"} /\ to = "cancelled"

ReadForStatus(p, op, s) ==
    /\ op \in {"activate", "pause", "cancel"} /\ Asks(p, op)
    /\ Exists(s) /\ TransitionAllowed(sched[s].status, Goal(op))
    /\ req' = [req EXCEPT ![p] = [Asked(op) EXCEPT !.pc = "status", !.s = s,
                 !.next = IF op = "activate" THEN InitialRun(sched[s].timing, now)
                          ELSE sched[s].next]]
    /\ UNCHANGED <<now, sched, exec, sends, camp, launches, faults>>

\* The executionPolicy has been awaited: no condition on the status any more.
WriteStatus(p) ==
    /\ req[p].pc = "status"
    /\ sched' = [sched EXCEPT ![req[p].s].status = Goal(req[p].op),
                              ![req[p].s].next = req[p].next]
    /\ IF Goal(req[p].op) = "cancelled" THEN Goto(p, "sweep") ELSE Close(p, "answered")
    /\ UNCHANGED <<now, exec, sends, camp, launches, faults>>

\* Slip: only what was scheduled when the request began.
SweptOfItsTime(r, o) == o[1] = r.s /\ exec[o] = "queued" /\ o[2] <= r.at

\* The queued executions of a cancelled schedule are cancelled with it.
Swept(r, o) == o[1] = r.s /\ exec[o] = "queued"

Sweep(p) ==
    /\ req[p].pc = "sweep"
    /\ exec' = [o \in Occurrences |->
                   IF Swept(req[p], o) THEN "cancelled" ELSE exec[o]]
    /\ IF req[p].op = "drop" THEN Goto(p, "drop") ELSE Close(p, "answered")
    /\ UNCHANGED <<now, sched, sends, camp, launches, faults>>

(***************************************************************************)
(* Campaigns                                                               *)
(***************************************************************************)
CreateCampaign(c) ==
    /\ camp[c] = "absent"
    /\ camp' = [camp EXCEPT ![c] = "draft"]
    /\ UNCHANGED <<now, sched, exec, sends, launches, req, faults>>

ReadForLaunch(p, c) ==
    /\ Asks(p, "launch")
    /\ camp[c] = "draft" /\ ValidTiming(CampaignTiming[c], now)
    /\ req' = [req EXCEPT ![p] = [Asked("launch") EXCEPT !.pc = "targets", !.camp = c,
                 !.todo = Targets(c), !.timing = CampaignTiming[c],
                 !.next = InitialRun(CampaignTiming[c], now)]]
    /\ UNCHANGED <<now, sched, exec, sends, camp, launches, faults>>

CheckTarget(p, s) ==
    /\ req[p].pc = "targets" /\ s \in req[p].todo
    /\ IF Conflict(s, req[p].next) THEN Close(p, "failed")
       ELSE req' = [req EXCEPT ![p].todo = @ \ {s}]
    /\ UNCHANGED <<now, sched, exec, sends, camp, launches, faults>>

LaunchedRow(r) == [NoRow EXCEPT !.status = "active", !.timing = r.timing, !.next = r.next]

\* Slip: only a cancelled campaign is refused.
CanLaunchAgain(c) == camp[c] \in {"draft", "active"}

\* The transaction locks the campaign if it is a draft still; else it throws.
CanLaunch(c) == camp[c] = "draft"

Launch(p) ==
    LET r == req[p] IN
    /\ r.pc = "targets" /\ r.todo = {}
    /\ \/ /\ CanLaunch(r.camp)
          /\ camp' = [camp EXCEPT ![r.camp] = "active"]
          /\ launches' = [launches EXCEPT ![r.camp] = IF @ < SendsBound THEN @ + 1 ELSE @]
          /\ sched' = [s \in Schedules |->
                          IF s \in Targets(r.camp) THEN LaunchedRow(r) ELSE sched[s]]
          /\ IF r.next <= r.at
             THEN req' = [req EXCEPT ![p].pc = "fireTargets", ![p].todo = Targets(r.camp)]
             ELSE Close(p, "answered")
       \/ /\ ~CanLaunch(r.camp)
          /\ Close(p, "failed")
          /\ UNCHANGED <<camp, launches, sched>>
    /\ UNCHANGED <<now, exec, sends, faults>>

FireTarget(p, s) ==
    /\ req[p].pc = "fireTargets" /\ s \in req[p].todo
    /\ MaterializeRows(DueRows({s}, req[p].at), req[p].at)
    /\ IF req[p].todo = {s} THEN Close(p, "answered")
       ELSE req' = [req EXCEPT ![p].todo = @ \ {s}]
    /\ UNCHANGED <<now, camp, launches, faults>>

ReadForDrop(p, c) ==
    /\ Asks(p, "drop")
    /\ camp[c] \in {"draft", "active"}
    /\ req' = [req EXCEPT ![p] = [Asked("drop") EXCEPT !.pc = "select", !.camp = c,
                                                       !.seen = camp[c]]]
    /\ UNCHANGED <<now, sched, exec, sends, camp, launches, faults>>

SelectTargets(p) ==
    /\ req[p].pc = "select"
    /\ req' = [req EXCEPT ![p].pc = "drop", ![p].todo =
                  {s \in Targets(req[p].camp) : sched[s].status \in {"active", "paused"}}]
    /\ UNCHANGED <<now, sched, exec, sends, camp, launches, faults>>

\* setScheduleStatus(schedule.id, 'cancelled') reads the row again; any may be cancelled.
DropNext(p, s) ==
    /\ req[p].pc = "drop" /\ s \in req[p].todo
    /\ req' = [req EXCEPT ![p].pc = "status", ![p].s = s, ![p].next = sched[s].next,
                          ![p].todo = @ \ {s}]
    /\ UNCHANGED <<now, sched, exec, sends, camp, launches, faults>>

\* Slip: the cancellations are not awaited.
DropDoneEarly(r) == r.pc = "drop"

DropDone(r) == r.pc = "drop" /\ r.todo = {}

FinishDrop(p) ==
    /\ DropDone(req[p])
    /\ camp' = [camp EXCEPT ![req[p].camp] = "cancelled"]
    /\ Close(p, "answered")
    /\ UNCHANGED <<now, sched, exec, sends, launches, faults>>

(***************************************************************************)
(* Time, faults and the whole                                              *)
(***************************************************************************)
Tick ==
    /\ now < MaxTime
    /\ now' = now + 1
    /\ UNCHANGED <<sched, exec, sends, camp, launches, req, faults>>

\* The API process dies, or a call of the request rejects.
BreakOff(p) ==
    /\ req[p].pc \notin {"new"} \cup Over
    /\ faults < MaxFaults /\ faults' = faults + 1
    /\ Close(p, "failed")
    /\ UNCHANGED <<now, sched, exec, sends, camp, launches>>

Ask(p) ==
    \/ \E s \in Schedules, t \in Timings, x \in Externals \cup {NoExternal}, h \in Hashes \cup {NoHash} :
          ReadExternal(p, s, t, x, h)
    \/ \E s \in Schedules : ReadForEdit(p, s)
    \/ \E s \in Schedules, t \in Timings : ReadForRetime(p, s, t)
    \/ \E s \in Schedules, op \in AllOperations : ReadForStatus(p, op, s)
    \/ \E c \in Campaigns : ReadForLaunch(p, c) \/ ReadForDrop(p, c)

Proceed(p) ==
    \/ CheckConflict(p) \/ Recheck(p) \/ Insert(p) \/ Fire(p)
    \/ WriteEdit(p)
    \/ WriteStatus(p) \/ Sweep(p)
    \/ Launch(p) \/ SelectTargets(p) \/ FinishDrop(p)
    \/ \E s \in Schedules : CheckTarget(p, s) \/ FireTarget(p, s) \/ DropNext(p, s)

Next ==
    \/ \E p \in Requests : Ask(p) \/ Proceed(p) \/ BreakOff(p)
    \/ \E c \in Campaigns : CreateCampaign(c)
    \/ \E o \in Occurrences : Take(o)
    \/ Materialize
    \/ Tick

Spec == Init /\ [][Next]_vars

\* The timer runs again and again, whatever the requests do; nothing else is forced.
FairSpec == Spec /\ WF_vars(Materialize)

(***************************************************************************)
(* Properties                                                              *)
(***************************************************************************)
Fired(s, t) == exec[<<s, t>>] # "absent"
Requested(op, s) == \E p \in Requests : req[p].op = op /\ req[p].s = s
Answered(p, op) == req[p].pc = "answered" /\ req[p].op = op

\* However often the timer, the creating request and stale edits find an occurrence
\* due, one job is sent for it (materializeDue with the unique index of executions).
OneJobPerOccurrence == \A o \in Occurrences : sends[o] <= 1

\* A one-shot that nobody retimed fires once, even if an edit, a pause or a resume
\* that read it before it fired writes the old next run back.  (A `now` schedule is
\* exempt once somebody resumes it: see OneShotNeverRefires.)
OneShotFiresOnce ==
    \A s \in Schedules, t1, t2 \in 0 .. MaxTime :
        /\ OneShot(sched[s].timing) /\ ~Requested("retime", s)
        /\ sched[s].timing.kind = "once" \/ ~Requested("activate", s)
        /\ Fired(s, t1) /\ Fired(s, t2)
        => t1 = t2

\* Executions of an interval schedule that nobody retimed or resumed keep its
\* distance, however late the timer comes and whatever edits write back.
IntervalSpacing ==
    \A s \in Schedules, t1, t2 \in 0 .. MaxTime :
        /\ sched[s].timing.kind = "interval"
        /\ ~Requested("retime", s) /\ ~Requested("activate", s)
        /\ t1 < t2 /\ Fired(s, t1) /\ Fired(s, t2)
        => t2 - t1 >= sched[s].timing.every

\* dCreator is told the same schedule for the same external id, however its calls
\* are repeated and overlap, and never one made for another content.
AnswersAgree ==
    \A p, q \in Requests :
        /\ Answered(p, "create") /\ Answered(q, "create")
        /\ req[p].ext = req[q].ext /\ req[p].ext # NoExternal
        => req[p].s = req[q].s /\ req[p].hash = req[q].hash

\* Two launch requests that both read a draft do not both launch the campaign.
LaunchedOnce == \A c \in Campaigns : launches[c] <= 1

\* Once the cancellation of a schedule has been carried through, nothing of it is
\* queued: what the timer inserted before the status changed has been swept.
CancelledIsDrained ==
    faults = 0 =>
        \A o \in Occurrences :
            /\ sched[o[1]].status = "cancelled"
            /\ \A p \in Requests : ~(req[p].pc = "sweep" /\ req[p].s = o[1])
            => exec[o] # "queued"

\* Cancelling a campaign that was launched before leaves none of its schedules
\* active or paused, if nobody asked to pause or resume the schedule: such a request
\* writes what it read before the cancellation.  (Read while a draft, it may miss a
\* launch that is under way.)
DropIsComplete ==
    [][\A p \in Requests :
          /\ req[p].pc = "drop" /\ req'[p].pc = "answered" /\ req[p].seen = "active"
          => \A s \in Targets(req[p].camp) :
                sched'[s].status \in {"active", "paused"} =>
                    Requested("activate", s) \/ Requested("pause", s)]_vars

\* What is due is queued, even if the API dies between inserting a schedule and
\* materializing it, unless somebody pauses, cancels or retimes the schedule.
DueIsQueued ==
    \A s \in Schedules, t \in 0 .. MaxTime :
        (sched[s].status = "active" /\ sched[s].next = t /\ t <= now)
        ~> \/ \E t2 \in t .. MaxTime : Fired(s, t2)
           \/ \E op \in {"pause", "cancel", "retime"} : Requested(op, s)

(***************************************************************************)
(* The inductive invariant behind the safety properties                    *)
(***************************************************************************)
\* A request that is creating a schedule, before the row is there.
Creating(p) == req[p].op = "create" /\ req[p].pc \in {"check", "recheck", "insert"}

\* Where a request stands and what it asked for.
Control(p) ==
    /\ req[p].pc = "check" => req[p].op \in {"create", "edit", "retime"}
    /\ req[p].pc \in {"recheck", "insert", "fire"} => req[p].op = "create"
    /\ req[p].pc = "write" => req[p].op \in {"edit", "retime"}
    /\ req[p].pc \in {"status", "sweep"} => req[p].op \in {"activate", "pause", "cancel", "drop"}
    /\ req[p].pc \in {"select", "drop"} => req[p].op = "drop"
    /\ req[p].pc \in {"targets", "fireTargets"} => req[p].op = "launch"
    /\ req[p].op \in {"launch", "drop"} => req[p].camp \in Campaigns
    /\ req[p].op # "create" => req[p].ext = NoExternal

\* What a request will write to is a row, and stays one.
HoldsRows(p) ==
    /\ \/ req[p].pc \in {"write", "status", "sweep"}
       \/ req[p].pc = "check" /\ req[p].op # "create"
       => req[p].s \in Schedules /\ Exists(req[p].s)
    /\ req[p].op = "drop" => \A s \in req[p].todo : Exists(s)

\* The id of a row to be created is nobody else's.
OwnsItsId(p) ==
    Creating(p) =>
        /\ req[p].s \in Schedules /\ ~Exists(req[p].s) /\ CampaignOf[req[p].s] = NoCampaign
        /\ \A q \in Requests \ {p} : Creating(q) => req[q].s # req[p].s

\* What dCreator was told is a row with the external id and the content it asked for.
AnswerIsRow(p) ==
    req[p].op = "create" /\ req[p].pc \in {"fire", "answered"} =>
        /\ req[p].s \in Schedules /\ Exists(req[p].s)
        /\ sched[req[p].s].ext = req[p].ext /\ sched[req[p].s].hash = req[p].hash

\* The unique index on the external id; targets of campaigns have none.
ExternalsUnique ==
    /\ \A s, r \in Schedules :
          Exists(s) /\ Exists(r) /\ sched[s].ext = sched[r].ext /\ sched[s].ext # NoExternal
          => s = r
    /\ \A s \in Schedules : CampaignOf[s] # NoCampaign =>
          sched[s].ext = NoExternal /\ sched[s].hash = NoHash

JobsCounted == \A o \in Occurrences : sends[o] <= 1 /\ (exec[o] = "absent" => sends[o] = 0)
LaunchesCounted ==
    \A c \in Campaigns : launches[c] <= 1 /\ (camp[c] \in {"absent", "draft"} => launches[c] = 0)

\* The inductive invariant: every id a request holds leads where it was meant to, so
\* that no write reaches a row of another content, and what is counted was recorded.
IInv ==
    /\ TypeOK
    /\ \A p \in Requests : Control(p) /\ HoldsRows(p) /\ OwnsItsId(p) /\ AnswerIsRow(p)
    /\ ExternalsUnique
    /\ JobsCounted
    /\ LaunchesCounted
    /\ CancelledIsDrained

(***************************************************************************)
(* What the source says and the code does not do                           *)
(***************************************************************************)
\* repository.ts:43-45: "A completed or cancelled schedule can only be cancelled -
\* never resumed, which would recompute nextRunAt and re-fire a one-shot (a duplicate
\* public post)".
OneShotNeverRefires ==
    \A s \in Schedules, t1, t2 \in 0 .. MaxTime :
        /\ OneShot(sched[s].timing) /\ ~Requested("retime", s)
        /\ Fired(s, t1) /\ Fired(s, t2)
        => t1 = t2
=============================================================================
