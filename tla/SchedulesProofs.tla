-------------------------- MODULE SchedulesProofs --------------------------
(***************************************************************************)
(* Theorems about Schedules, for every value of its constants:             *)
(*   TypeCorrect           the type invariant,                             *)
(*   Invariance            IInv is an invariant,                           *)
(*   OneJobEach, LaunchesOnce, AnswersConsistent, CancelDrains             *)
(*                         the safety properties that follow from it,      *)
(*   OneShotsFireOnce, IntervalsKeepDistance                               *)
(*                         from a second invariant, GridInv: all instants  *)
(*                         held of a schedule fit one anchor,              *)
(*   DropsAreComplete      an action property of cancelled campaigns.      *)
(***************************************************************************)
EXTENDS Schedules, TLAPS

(***************************************************************************)
(* Timings                                                                 *)
(***************************************************************************)
\* Times that are computed from times are times (recurrence.ts).
LEMMA TickTypes ==
    ASSUME NEW t \in Timing, NEW n \in Int
    PROVE  FirstTick(t, n) \in Int /\ LastTick(t, n) \in Int
  BY DEF Timing, FirstTick, LastTick

LEMMA InitialRunType ==
    ASSUME NEW t \in Timing, NEW n \in Int
    PROVE  InitialRun(t, n) \in Int
  BY TickTypes DEF Timing, InitialRun

LEMMA DueOccurrenceType ==
    ASSUME NEW t \in Timing, NEW next \in Int, NEW n \in Int
    PROVE  DueOccurrence(t, next, n) \in Int
  BY TickTypes DEF Timing, DueOccurrence, OneShot

LEMMA FollowingRunType ==
    ASSUME NEW t \in Timing, NEW next \in Int, NEW n \in Int
    PROVE  FollowingRun(t, next, n) \in Int
<1>1. DueOccurrence(t, next, n) \in Int  BY DueOccurrenceType
<1>2. FirstTick(t, n + 1) \in Int        BY TickTypes
<1> QED  BY <1>1, <1>2 DEF Timing, FollowingRun, OneShot, Never

(***************************************************************************)
(* Types                                                                   *)
(***************************************************************************)
USE ScheduleAssumption DEF Over

LEMMA NewRequestType == NewRequest \in RequestState
  BY DEF NewRequest, RequestState, NoTiming, Timing, Never, CampaignStatus, AllOperations

\* A request that is over holds no more than its question and its answer.
LEMMA ClosedType ==
    ASSUME NEW r \in RequestState, NEW outcome \in Over, NEW s \in Schedules \cup {NoSchedule}
    PROVE  Closed(r, outcome, s) \in RequestState
<1>1. /\ r.op \in AllOperations \cup {"none"}
      /\ r.camp \in Campaigns \cup {NoCampaign}
      /\ r.ext \in Externals \cup {NoExternal}
      /\ r.hash \in Hashes \cup {NoHash}
  BY DEF RequestState
<1>2. NoTiming \in Timing /\ Never \in Int /\ "absent" \in CampaignStatus
  BY DEF NoTiming, Timing, Never, CampaignStatus
<1> QED  BY <1>1, <1>2 DEF Closed, RequestState

LEMMA AskedType ==
    ASSUME NEW op \in AllOperations, TypeOK
    PROVE  Asked(op) \in RequestState
<1>1. now \in Int  BY DEF TypeOK
<1> QED  BY <1>1, NewRequestType DEF Asked, RequestState, NewRequest

LEMMA AdvancedType ==
    ASSUME NEW row \in ScheduleRow, NEW n \in Int
    PROVE  Advanced(row, n) \in ScheduleRow
<1>1. FollowingRun(row.timing, row.next, n) \in Int
  BY FollowingRunType DEF ScheduleRow
<1> QED  BY <1>1 DEF Advanced, ScheduleRow, ScheduleStatus

\* materializeDue writes rows of the right types, whatever is due.
LEMMA MaterializeTypes ==
    ASSUME TypeOK, NEW D, NEW n \in Int, MaterializeRows(D, n)
    PROVE  /\ sched' \in [Schedules -> ScheduleRow]
           /\ exec' \in [Occurrences -> {"absent", "queued", "taken", "cancelled"}]
           /\ sends' \in [Occurrences -> 0 .. SendsBound]
<1>1. sched' \in [Schedules -> ScheduleRow]
  <2>1. \A s \in Schedules : Advanced(sched[s], n) \in ScheduleRow
    BY AdvancedType DEF TypeOK
  <2> QED  BY <2>1 DEF MaterializeRows, TypeOK
<1>2. exec' \in [Occurrences -> {"absent", "queued", "taken", "cancelled"}]
  BY DEF MaterializeRows, TypeOK
<1>3. sends' \in [Occurrences -> 0 .. SendsBound]
  BY DEF MaterializeRows, TypeOK, SendsBound
<1> QED  BY <1>1, <1>2, <1>3

\* The steps a request takes from one await to the next, and its end.
LEMMA GotoType ==
    ASSUME TypeOK, NEW p \in Requests,
           NEW pc \in {"check", "recheck", "insert", "fire", "write", "status", "sweep",
                       "select", "drop", "targets", "fireTargets"},
           Goto(p, pc)
    PROVE  req' \in [Requests -> RequestState]
<1>1. req \in [Requests -> RequestState]  BY DEF TypeOK
<1>2. [req[p] EXCEPT !.pc = pc] \in RequestState  BY <1>1 DEF RequestState
<1> QED  BY <1>1, <1>2 DEF Goto

LEMMA TodoType ==
    ASSUME TypeOK, NEW p \in Requests, NEW S \in SUBSET Schedules,
           NEW pc \in {"fireTargets", "drop"},
           \/ req' = [req EXCEPT ![p].todo = S]
           \/ req' = [req EXCEPT ![p].pc = pc, ![p].todo = S]
    PROVE  req' \in [Requests -> RequestState]
<1>1. req \in [Requests -> RequestState]  BY DEF TypeOK
<1>2. [req[p] EXCEPT !.todo = S] \in RequestState  BY <1>1 DEF RequestState
<1>3. [req[p] EXCEPT !.pc = pc, !.todo = S] \in RequestState
  <2>1. req[p] \in RequestState  BY <1>1
  <2> QED  BY <2>1 DEF RequestState
<1>4. CASE req' = [req EXCEPT ![p].todo = S]  BY <1>1, <1>2, <1>4
<1>5. CASE req' = [req EXCEPT ![p].pc = pc, ![p].todo = S]
  <2>1. req' = [req EXCEPT ![p] = [req[p] EXCEPT !.pc = pc, !.todo = S]]  BY <1>1, <1>5
  <2> QED  BY <1>1, <1>3, <2>1
<1> QED  BY <1>4, <1>5

LEMMA RowWriteType ==
    ASSUME TypeOK, NEW s, NEW t \in Timing, NEW n \in Int, NEW status \in ScheduleStatus,
           \/ sched' = [sched EXCEPT ![s].timing = t, ![s].next = n]
           \/ sched' = [sched EXCEPT ![s].status = status, ![s].next = n]
    PROVE  sched' \in [Schedules -> ScheduleRow]
<1>1. sched \in [Schedules -> ScheduleRow]  BY DEF TypeOK
<1>2. CASE s \notin Schedules  BY <1>1, <1>2
<1>3. CASE s \in Schedules
  <2>0. sched[s] \in ScheduleRow  BY <1>1, <1>3
  <2>1. [sched[s] EXCEPT !.timing = t, !.next = n] \in ScheduleRow  BY <2>0 DEF ScheduleRow
  <2>2. [sched[s] EXCEPT !.status = status, !.next = n] \in ScheduleRow
    BY <2>0 DEF ScheduleRow
  <2>3. \/ sched' = [sched EXCEPT ![s] = [sched[s] EXCEPT !.timing = t, !.next = n]]
        \/ sched' = [sched EXCEPT ![s] = [sched[s] EXCEPT !.status = status, !.next = n]]
    BY <1>1, <1>3
  <2> QED  BY <1>1, <2>1, <2>2, <2>3
<1> QED  BY <1>2, <1>3

LEMMA CloseType ==
    ASSUME TypeOK, NEW p \in Requests, NEW outcome \in Over, Close(p, outcome)
    PROVE  req' \in [Requests -> RequestState]
<1>1. req[p] \in RequestState /\ req[p].s \in Schedules \cup {NoSchedule}
  BY DEF TypeOK, RequestState
<1>2. Closed(req[p], outcome, req[p].s) \in RequestState  BY <1>1, ClosedType
<1> QED  BY <1>2 DEF Close, TypeOK

LEMMA AnswerType ==
    ASSUME TypeOK, NEW p \in Requests, NEW r \in RequestState, NEW k \in Schedules,
           AnswerWith(p, r, k)
    PROVE  req' \in [Requests -> RequestState]
<1>1. Closed(r, IF sched[k].hash = r.hash THEN "answered" ELSE "failed", k) \in RequestState
  BY ClosedType
<1> QED  BY <1>1 DEF AnswerWith, TypeOK

\* A request puts its own record in place and leaves the database alone.
LEMMA ReadTypes ==
    ASSUME TypeOK, req' \in [Requests -> RequestState],
           UNCHANGED <<now, sched, exec, sends, camp, launches, faults>>
    PROVE  TypeOK'
  BY DEF TypeOK

LEMMA AskTypes ==
    ASSUME TypeOK, NEW p \in Requests, Ask(p)
    PROVE  TypeOK'
<1>0. now \in Int /\ sched \in [Schedules -> ScheduleRow] /\ req \in [Requests -> RequestState]
  BY DEF TypeOK
<1>1. ASSUME NEW s \in Schedules, NEW t \in Timings, NEW x \in Externals \cup {NoExternal},
             NEW h \in Hashes \cup {NoHash}, ReadExternal(p, s, t, x, h)
      PROVE  TypeOK'
  <2> DEFINE r == [Asked("create") EXCEPT !.pc = "check", !.s = s, !.ext = x, !.hash = h,
                                          !.timing = t, !.next = InitialRun(t, now)]
  <2>1. t \in Timing /\ InitialRun(t, now) \in Int  BY <1>0, InitialRunType
  <2>2. Asked("create") \in RequestState  BY AskedType DEF AllOperations
  <2>3. r \in RequestState  BY <2>1, <2>2 DEF RequestState
  <2>4. req' \in [Requests -> RequestState]
    <3>1. CASE req' = [req EXCEPT ![p] = r]  BY <3>1, <2>3, <1>0
    <3>2. CASE \E k \in Known(x) : AnswerWith(p, r, k)
      BY <3>2, <2>3, AnswerType DEF Known
    <3> QED  BY <1>1, <3>1, <3>2 DEF ReadExternal
  <2> QED  BY <2>4, <1>1, ReadTypes DEF ReadExternal
<1>2. ASSUME NEW s \in Schedules, ReadForEdit(p, s)
      PROVE  TypeOK'
  <2>1. Asked("edit") \in RequestState  BY AskedType DEF AllOperations
  <2>2. sched[s].timing \in Timing /\ sched[s].next \in Int  BY <1>0 DEF ScheduleRow
  <2>3. [Asked("edit") EXCEPT !.pc = "check", !.s = s, !.timing = sched[s].timing,
                              !.next = sched[s].next] \in RequestState
    BY <2>1, <2>2 DEF RequestState
  <2> QED  BY <2>3, <1>0, <1>2, ReadTypes DEF ReadForEdit
<1>3. ASSUME NEW s \in Schedules, NEW t \in Timings, ReadForRetime(p, s, t)
      PROVE  TypeOK'
  <2>1. Asked("retime") \in RequestState  BY AskedType DEF AllOperations
  <2>2. t \in Timing /\ InitialRun(t, now) \in Int  BY <1>0, InitialRunType
  <2>3. [Asked("retime") EXCEPT !.pc = "check", !.s = s, !.timing = t,
                                !.next = InitialRun(t, now)] \in RequestState
    BY <2>1, <2>2 DEF RequestState
  <2> QED  BY <2>3, <1>0, <1>3, ReadTypes DEF ReadForRetime
<1>4. ASSUME NEW s \in Schedules, NEW op \in AllOperations, ReadForStatus(p, op, s)
      PROVE  TypeOK'
  <2> DEFINE n == IF op = "activate" THEN InitialRun(sched[s].timing, now) ELSE sched[s].next
  <2>1. Asked(op) \in RequestState  BY AskedType
  <2>2. sched[s].timing \in Timing /\ sched[s].next \in Int  BY <1>0 DEF ScheduleRow
  <2>3. n \in Int  BY <2>2, <1>0, InitialRunType
  <2>4. req' = [req EXCEPT ![p] = [Asked(op) EXCEPT !.pc = "status", !.s = s, !.next = n]]
    BY <1>4 DEF ReadForStatus
  <2> HIDE DEF n
  <2>5. [Asked(op) EXCEPT !.pc = "status", !.s = s, !.next = n] \in RequestState
    BY <2>1, <2>3 DEF RequestState
  <2> QED  BY <2>4, <2>5, <1>0, <1>4, ReadTypes DEF ReadForStatus
<1>5. ASSUME NEW c \in Campaigns, ReadForLaunch(p, c)
      PROVE  TypeOK'
  <2>1. Asked("launch") \in RequestState  BY AskedType DEF AllOperations
  <2>2. CampaignTiming[c] \in Timing /\ InitialRun(CampaignTiming[c], now) \in Int
    BY <1>0, InitialRunType
  <2>3. Targets(c) \in SUBSET Schedules  BY DEF Targets
  <2>4. [Asked("launch") EXCEPT !.pc = "targets", !.camp = c, !.todo = Targets(c),
            !.timing = CampaignTiming[c], !.next = InitialRun(CampaignTiming[c], now)]
        \in RequestState
    BY <2>1, <2>2, <2>3 DEF RequestState
  <2> QED  BY <2>4, <1>0, <1>5, ReadTypes DEF ReadForLaunch
<1>6. ASSUME NEW c \in Campaigns, ReadForDrop(p, c)
      PROVE  TypeOK'
  <2>1. Asked("drop") \in RequestState  BY AskedType DEF AllOperations
  <2>2. camp[c] \in CampaignStatus  BY DEF TypeOK
  <2>3. [Asked("drop") EXCEPT !.pc = "select", !.camp = c, !.seen = camp[c]] \in RequestState
    BY <2>1, <2>2 DEF RequestState
  <2> QED  BY <2>3, <1>0, <1>6, ReadTypes DEF ReadForDrop
<1> QED  BY <1>1, <1>2, <1>3, <1>4, <1>5, <1>6 DEF Ask

LEMMA ProceedTypes ==
    ASSUME TypeOK, NEW p \in Requests, Proceed(p)
    PROVE  TypeOK'
<1>0. /\ now \in Int /\ sched \in [Schedules -> ScheduleRow]
      /\ req \in [Requests -> RequestState] /\ req[p] \in RequestState
  BY DEF TypeOK
<1>1. CASE CheckConflict(p)
  <2>1. req' \in [Requests -> RequestState]
    BY <1>1, CloseType, GotoType DEF CheckConflict
  <2> QED  BY <2>1, <1>1, ReadTypes DEF CheckConflict
<1>2. CASE Recheck(p)
  <2>1. req' \in [Requests -> RequestState]
    BY <1>2, <1>0, CloseType, AnswerType DEF Recheck, Known
  <2> QED  BY <2>1, <1>2, ReadTypes DEF Recheck
<1>3. CASE Insert(p)
  <2>1. req' \in [Requests -> RequestState]
    BY <1>3, <1>0, CloseType, GotoType, AnswerType DEF Insert, Known
  <2>2. sched' \in [Schedules -> ScheduleRow]
    <3>1. [status |-> "active", timing |-> req[p].timing, next |-> req[p].next,
           ext |-> req[p].ext, hash |-> req[p].hash] \in ScheduleRow
      BY <1>0 DEF RequestState, ScheduleRow, ScheduleStatus
    <3> QED  BY <3>1, <1>0, <1>3 DEF Insert
  <2> QED  BY <2>1, <2>2, <1>3 DEF Insert, TypeOK
<1>4. CASE Fire(p)
  <2>1. req[p].at \in Int  BY <1>0 DEF RequestState
  <2> QED  BY <2>1, <1>4, CloseType, MaterializeTypes DEF Fire, TypeOK
<1>5. CASE WriteEdit(p)
  <2>1. req[p].timing \in Timing /\ req[p].next \in Int  BY <1>0 DEF RequestState
  <2>2. "active" \in ScheduleStatus  BY DEF ScheduleStatus
  <2>3. sched' \in [Schedules -> ScheduleRow]  BY <2>1, <2>2, <1>5, RowWriteType DEF WriteEdit
  <2> QED  BY <2>3, <1>5, CloseType DEF WriteEdit, TypeOK
<1>6. CASE WriteStatus(p)
  <2>1. sched' \in [Schedules -> ScheduleRow]
    <3>1. Goal(req[p].op) \in ScheduleStatus  BY DEF Goal, ScheduleStatus
    <3>2. req[p].timing \in Timing /\ req[p].next \in Int  BY <1>0 DEF RequestState
    <3> QED  BY <3>1, <3>2, <1>6, RowWriteType DEF WriteStatus
  <2>2. req' \in [Requests -> RequestState]
    BY <1>6, CloseType, GotoType DEF WriteStatus
  <2> QED  BY <2>1, <2>2, <1>6 DEF WriteStatus, TypeOK
<1>7. CASE Sweep(p)
  <2>1. req' \in [Requests -> RequestState]
    BY <1>7, CloseType, GotoType DEF Sweep
  <2> QED  BY <2>1, <1>7 DEF Sweep, TypeOK
<1>8. CASE Launch(p)
  <2>1. req' \in [Requests -> RequestState]
    <3>1. Targets(req[p].camp) \in SUBSET Schedules  BY DEF Targets
    <3> QED  BY <3>1, <1>8, CloseType, TodoType DEF Launch
  <2>2. sched' \in [Schedules -> ScheduleRow]
    <3>1. LaunchedRow(req[p]) \in ScheduleRow
      BY <1>0 DEF LaunchedRow, NoRow, NoTiming, RequestState, ScheduleRow, ScheduleStatus
    <3> QED  BY <3>1, <1>0, <1>8 DEF Launch
  <2> QED  BY <2>1, <2>2, <1>8 DEF Launch, TypeOK, CampaignStatus, SendsBound
<1>9. CASE SelectTargets(p)
  <2>1. {s \in Targets(req[p].camp) : sched[s].status \in {"active", "paused"}} \in SUBSET Schedules
    BY DEF Targets
  <2> QED  BY <2>1, <1>9, TodoType, ReadTypes DEF SelectTargets
<1>10. CASE FinishDrop(p)
  BY <1>10, CloseType DEF FinishDrop, TypeOK, CampaignStatus
<1>11. ASSUME NEW s \in Schedules, CheckTarget(p, s)
       PROVE  TypeOK'
  <2>1. req[p].todo \ {s} \in SUBSET Schedules  BY <1>0 DEF RequestState
  <2>2. req' \in [Requests -> RequestState]
    BY <2>1, <1>11, <1>0, CloseType, TodoType DEF CheckTarget
  <2> QED  BY <2>2, <1>11, ReadTypes DEF CheckTarget
<1>12. ASSUME NEW s \in Schedules, FireTarget(p, s)
       PROVE  TypeOK'
  <2>1. req[p].todo \ {s} \in SUBSET Schedules /\ req[p].at \in Int  BY <1>0 DEF RequestState
  <2>2. req' \in [Requests -> RequestState]
    BY <2>1, <1>12, <1>0, CloseType, TodoType DEF FireTarget
  <2> QED  BY <2>1, <2>2, <1>12, MaterializeTypes DEF FireTarget, TypeOK
<1>13. ASSUME NEW s \in Schedules, DropNext(p, s)
       PROVE  TypeOK'
  <2>1. sched[s].next \in Int  BY <1>0 DEF ScheduleRow
  <2>2. [req[p] EXCEPT !.pc = "status", !.s = s, !.next = sched[s].next, !.todo = @ \ {s}]
        \in RequestState
    BY <2>1, <1>0 DEF RequestState
  <2>3. req' = [req EXCEPT ![p] = [req[p] EXCEPT !.pc = "status", !.s = s,
                                      !.next = sched[s].next, !.todo = @ \ {s}]]
    BY <1>13, <1>0 DEF DropNext, RequestState
  <2> QED  BY <2>2, <2>3, <1>0, <1>13, ReadTypes DEF DropNext
<1> QED  BY <1>1, <1>2, <1>3, <1>4, <1>5, <1>6, <1>7, <1>8, <1>9, <1>10, <1>11, <1>12, <1>13
         DEF Proceed

LEMMA InitTypes == Init => TypeOK
  BY NewRequestType DEF Init, TypeOK, NoRow, NoTiming, Timing, Never, ScheduleRow, ScheduleStatus,
     CampaignStatus, SendsBound

LEMMA NextTypes ==
    ASSUME TypeOK, [Next]_vars
    PROVE  TypeOK'
<1>1. ASSUME NEW p \in Requests, Ask(p) PROVE TypeOK'      BY <1>1, AskTypes
<1>2. ASSUME NEW p \in Requests, Proceed(p) PROVE TypeOK'  BY <1>2, ProceedTypes
<1>3. ASSUME NEW p \in Requests, BreakOff(p) PROVE TypeOK'
  BY <1>3, CloseType DEF BreakOff, TypeOK
<1>4. ASSUME NEW c \in Campaigns, CreateCampaign(c) PROVE TypeOK'
  BY <1>4 DEF CreateCampaign, TypeOK, CampaignStatus
<1>5. ASSUME NEW o \in Occurrences, Take(o) PROVE TypeOK'
  BY <1>5 DEF Take, TypeOK
<1>6. CASE Materialize
  <2>1. now \in Int  BY DEF TypeOK
  <2> QED  BY <2>1, <1>6, MaterializeTypes DEF Materialize, TypeOK
<1>7. CASE Tick
  BY <1>7 DEF Tick, TypeOK
<1>8. CASE UNCHANGED vars
  BY <1>8 DEF vars, TypeOK
<1> QED  BY <1>1, <1>2, <1>3, <1>4, <1>5, <1>6, <1>7, <1>8 DEF Next

\* TypeOK is an invariant: every value a request, the timer or a transaction writes
\* is one the table's columns can hold.
THEOREM TypeCorrect == Spec => []TypeOK
  BY InitTypes, NextTypes, PTL DEF Spec

(***************************************************************************)
(* The inductive invariant.  What a step must do to the rows and to the    *)
(* requests for each part of IInv to be kept.                              *)
(***************************************************************************)
Local(p) == Control(p) /\ HoldsRows(p) /\ OwnsItsId(p) /\ AnswerIsRow(p)

Content(s) == <<sched[s].ext, sched[s].hash>>

\* A row stays a row, of the same content.
RowsKept == \A s \in Schedules : Exists(s) => Exists(s)' /\ Content(s)' = Content(s)

\* New rows are targets of a launched campaign, or the one request p creates.
NewRowsOf(p) ==
    \A s \in Schedules :
        Exists(s)' => Exists(s) \/ CampaignOf[s] # NoCampaign \/ (Creating(p) /\ s = req[p].s)

OthersWait(p) == \A q \in Requests \ {p} : req'[q] = req[q]

\* A request that begins to create a schedule takes an id nobody holds.
TakesFreeId(p) ==
    Creating(p)' => \/ Creating(p) /\ req'[p].s = req[p].s
                    \/ ~Reserved(req'[p].s)

LEMMA OthersLocal ==
    ASSUME TypeOK, NEW p \in Requests, \A q \in Requests : Local(q),
           RowsKept, NewRowsOf(p), OthersWait(p), TakesFreeId(p)
    PROVE  \A q \in Requests \ {p} : Local(q)'
<1> SUFFICES ASSUME NEW q \in Requests \ {p} PROVE Local(q)'
  OBVIOUS
<1>0. Local(q) /\ req'[q] = req[q]  BY DEF OthersWait
<1>1. Control(q)'  BY <1>0 DEF Local, Control
<1>2. HoldsRows(q)'
  <2>1. req[q].todo \subseteq Schedules  BY DEF TypeOK, RequestState
  <2> QED  BY <1>0, <2>1 DEF Local, HoldsRows, RowsKept
<1>3. AnswerIsRow(q)'  BY <1>0 DEF Local, AnswerIsRow, RowsKept, Content
<1>4. OwnsItsId(q)'
  <2> SUFFICES ASSUME Creating(q)' PROVE OwnsItsId(q)'
    BY DEF OwnsItsId
  <2>1. Creating(q) /\ OwnsItsId(q)  BY <1>0 DEF Creating, Local
  <2>2. ~Exists(req[q].s)'
    BY <1>0, <2>1 DEF OwnsItsId, NewRowsOf
  <2>3. ASSUME NEW r \in Requests \ {q}, Creating(r)' PROVE req'[r].s # req[q].s
    <3>1. CASE r # p
      <4>1. req'[r] = req[r] /\ Creating(r)  BY <3>1, <2>3 DEF OthersWait, Creating
      <4> QED  BY <4>1, <2>1 DEF OwnsItsId
    <3>2. CASE r = p
      <4>1. Reserved(req[q].s)  BY <2>1 DEF Reserved, Creating
      <4> QED  BY <4>1, <3>2, <2>1, <2>3 DEF TakesFreeId, OwnsItsId
    <3> QED  BY <3>1, <3>2
  <2> QED  BY <1>0, <2>1, <2>2, <2>3 DEF OwnsItsId
<1> QED  BY <1>1, <1>2, <1>3, <1>4 DEF Local

\* No two rows get the same external id while rows keep theirs and new ones have none.
LEMMA ExternalsKept ==
    ASSUME ExternalsUnique, NEW p, NewRowsOf(p), ~Creating(p),
           \A s \in Schedules : Content(s)' = Content(s)
    PROVE  ExternalsUnique'
<1>1. \A s \in Schedules : sched'[s].ext = sched[s].ext /\ sched'[s].hash = sched[s].hash
  BY DEF Content
<1>2. \A s \in Schedules : Exists(s)' /\ sched'[s].ext # NoExternal => Exists(s)
  BY <1>1 DEF NewRowsOf, ExternalsUnique
<1> QED  BY <1>1, <1>2 DEF ExternalsUnique

\* The sweep that follows every cancellation is what keeps cancelled schedules drained.
LEMMA DrainKept ==
    ASSUME CancelledIsDrained, NEW p \in Requests, OthersWait(p), faults' = faults,
           \A s \in Schedules : sched'[s].status = "cancelled" =>
               sched[s].status = "cancelled" \/ (req'[p].pc = "sweep" /\ req'[p].s = s),
           \A o \in Occurrences : exec'[o] = "queued" =>
               exec[o] = "queued" \/ sched'[o[1]].status # "cancelled",
           req[p].pc = "sweep" =>
               \A o \in Occurrences : o[1] = req[p].s => exec'[o] # "queued"
    PROVE  CancelledIsDrained'
<1> SUFFICES ASSUME faults' = 0, NEW o \in Occurrences, sched'[o[1]].status = "cancelled",
                    \A q \in Requests : ~(req'[q].pc = "sweep" /\ req'[q].s = o[1]),
                    exec'[o] = "queued"
             PROVE  FALSE
  BY DEF CancelledIsDrained
<1>1. o[1] \in Schedules  BY DEF Occurrences
<1>2. sched[o[1]].status = "cancelled" /\ exec[o] = "queued"  BY <1>1
<1>3. PICK q \in Requests : req[q].pc = "sweep" /\ req[q].s = o[1]
  BY <1>2 DEF CancelledIsDrained
<1>4. q = p  BY <1>3 DEF OthersWait
<1> QED  BY <1>3, <1>4

\* Everything together, for a step of request p.
LEMMA StepKeeps ==
    ASSUME IInv, TypeOK', NEW p \in Requests,
           RowsKept, NewRowsOf(p), OthersWait(p), TakesFreeId(p), Local(p)',
           ExternalsUnique', JobsCounted', LaunchesCounted', CancelledIsDrained'
    PROVE  IInv'
<1>1. \A q \in Requests : Local(q)  BY DEF IInv, Local
<1>2. \A q \in Requests : Local(q)'  BY <1>1, OthersLocal DEF IInv
<1> QED  BY <1>2 DEF IInv, Local

\* ... and for a step that reads: nothing in the database changes.
LEMMA ReadKeeps ==
    ASSUME IInv, TypeOK', NEW p \in Requests, OthersWait(p), TakesFreeId(p), Local(p)',
           req[p].pc # "sweep",
           UNCHANGED <<sched, exec, sends, camp, launches, faults>>
    PROVE  IInv'
<1>1. RowsKept /\ NewRowsOf(p)  BY DEF RowsKept, NewRowsOf, Exists, Content
<1>2. ExternalsUnique'  BY DEF IInv, ExternalsUnique, Exists
<1>3. JobsCounted' /\ LaunchesCounted'  BY DEF IInv, JobsCounted, LaunchesCounted
<1>4. CancelledIsDrained'  BY DrainKept DEF IInv
<1> QED  BY <1>1, <1>2, <1>3, <1>4, StepKeeps

\* A request that is over keeps what it was and holds nothing more.
LEMMA CloseLocal ==
    ASSUME TypeOK, NEW p \in Requests, NEW outcome \in Over, Local(p), Close(p, outcome),
           req[p].op = "create" /\ outcome = "answered" =>
               /\ req[p].s \in Schedules /\ Exists(req[p].s)'
               /\ sched'[req[p].s].ext = req[p].ext /\ sched'[req[p].s].hash = req[p].hash
    PROVE  Local(p)' /\ OthersWait(p) /\ TakesFreeId(p) /\ req'[p].pc = outcome
<1>0. req \in [Requests -> RequestState]  BY DEF TypeOK
<1>1. /\ req'[p] = Closed(req[p], outcome, req[p].s)
      /\ \A q \in Requests \ {p} : req'[q] = req[q]
  BY <1>0 DEF Close
<1>2. /\ req'[p].pc = outcome /\ req'[p].op = req[p].op /\ req'[p].s = req[p].s
      /\ req'[p].camp = req[p].camp /\ req'[p].todo = {}
      /\ req'[p].ext = req[p].ext /\ req'[p].hash = req[p].hash
  BY <1>1 DEF Closed, NewRequest
<1>3. ~Creating(p)'  BY <1>2 DEF Creating
<1>4. Control(p)'  BY <1>2 DEF Local, Control
<1>5. HoldsRows(p)'  BY <1>2 DEF HoldsRows
<1>6. OwnsItsId(p)'  BY <1>3 DEF OwnsItsId
<1>7. AnswerIsRow(p)'  BY <1>2 DEF AnswerIsRow
<1> QED  BY <1>1, <1>2, <1>3, <1>4, <1>5, <1>6, <1>7 DEF Local, OthersWait, TakesFreeId

\* Answering with the row that has the external id.
LEMMA AnswerLocal ==
    ASSUME TypeOK, NEW p \in Requests, NEW r, NEW k \in Known(r.ext),
           r.op = "create", UNCHANGED sched, AnswerWith(p, r, k)
    PROVE  Local(p)' /\ OthersWait(p) /\ TakesFreeId(p)
<1>0. req \in [Requests -> RequestState]  BY DEF TypeOK
<1> DEFINE outcome == IF sched[k].hash = r.hash THEN "answered" ELSE "failed"
<1>1. /\ req'[p] = Closed(r, outcome, k)
      /\ \A q \in Requests \ {p} : req'[q] = req[q]
  BY <1>0 DEF AnswerWith
<1>2. /\ req'[p].pc = outcome /\ req'[p].op = "create" /\ req'[p].s = k
      /\ req'[p].ext = r.ext /\ req'[p].hash = r.hash
  BY <1>1 DEF Closed, NewRequest
<1>3. k \in Schedules /\ Exists(k) /\ sched[k].ext = r.ext  BY DEF Known
<1>4. ~Creating(p)'  BY <1>2 DEF Creating
<1>5. Control(p)' /\ HoldsRows(p)'  BY <1>2 DEF Control, HoldsRows
<1>6. OwnsItsId(p)'  BY <1>4 DEF OwnsItsId
<1>7. AnswerIsRow(p)'  BY <1>2, <1>3 DEF AnswerIsRow, Exists
<1> QED  BY <1>1, <1>4, <1>5, <1>6, <1>7 DEF Local, OthersWait, TakesFreeId

\* What a materialize transaction does to rows, counts and queues.  Occurrences that
\* have an execution already are not sent again: that is what bounds the jobs.
LEMMA MaterializeKeeps ==
    ASSUME IInv, NEW S \in SUBSET Schedules, NEW n \in Int, MaterializeRows(DueRows(S, n), n)
    PROVE  /\ \A s \in Schedules : (Exists(s)' <=> Exists(s)) /\ Content(s)' = Content(s)
           /\ \A s \in Schedules : sched'[s].status = "cancelled" => sched[s].status = "cancelled"
           /\ \A o \in Occurrences : exec'[o] = "queued" =>
                 exec[o] = "queued" \/ sched'[o[1]].status # "cancelled"
           /\ JobsCounted'
<1> DEFINE D == DueRows(S, n)
           new == Inserted(D, n)
<1>0. sched \in [Schedules -> ScheduleRow] /\ sends \in [Occurrences -> 0 .. SendsBound]
  BY DEF IInv, TypeOK
<1>1. \A s \in D : s \in Schedules /\ sched[s].status = "active"  BY DEF DueRows
<1>2. \A s \in Schedules : sched'[s] = IF s \in D THEN Advanced(sched[s], n) ELSE sched[s]
  BY DEF MaterializeRows
<1>3. \A s \in D : /\ Advanced(sched[s], n).status \in {"active", "completed"}
                   /\ Advanced(sched[s], n).ext = sched[s].ext
                   /\ Advanced(sched[s], n).hash = sched[s].hash
  BY <1>0, <1>1 DEF Advanced, ScheduleRow
<1>4. \A s \in Schedules : (Exists(s)' <=> Exists(s)) /\ Content(s)' = Content(s)
  BY <1>1, <1>2, <1>3 DEF Exists, Content
<1>5. \A s \in Schedules : sched'[s].status = "cancelled" => sched[s].status = "cancelled"
  BY <1>2, <1>3
<1>6. \A o \in new : o[1] \in D /\ exec[o] = "absent"
  BY DEF Inserted, Occurrence
<1>7. \A o \in Occurrences : exec'[o] = "queued" =>
          exec[o] = "queued" \/ sched'[o[1]].status # "cancelled"
  <2> SUFFICES ASSUME NEW o \in Occurrences, o \in new PROVE sched'[o[1]].status # "cancelled"
    BY DEF MaterializeRows
  <2> QED  BY <1>1, <1>2, <1>3, <1>6
<1>8. JobsCounted'
  <2> SUFFICES ASSUME NEW o \in Occurrences
               PROVE  sends'[o] <= 1 /\ (exec'[o] = "absent" => sends'[o] = 0)
    BY DEF JobsCounted
  <2>1. /\ sends[o] \in 0 .. SendsBound /\ sends[o] <= 1
        /\ exec[o] = "absent" => sends[o] = 0
    BY <1>0 DEF IInv, JobsCounted
  <2>2. /\ exec'[o] = IF o \in new THEN "queued" ELSE exec[o]
        /\ sends'[o] = IF o \in new /\ sends[o] < SendsBound THEN sends[o] + 1 ELSE sends[o]
    BY DEF MaterializeRows
  <2>3. CASE o \in new
    <3>1. exec[o] = "absent" /\ sends[o] = 0  BY <1>6, <2>1, <2>3
    <3>2. exec'[o] = "queued" /\ sends'[o] = 1  BY <3>1, <2>2, <2>3 DEF SendsBound
    <3> QED  BY <3>2
  <2>4. CASE o \notin new
    <3>1. exec'[o] = exec[o] /\ sends'[o] = sends[o]  BY <2>2, <2>4
    <3> QED  BY <3>1, <2>1
  <2> QED  BY <2>3, <2>4
<1> QED  BY <1>4, <1>5, <1>7, <1>8

\* ... and so of a request that materializes the schedule it made.
LEMMA FireKeeps ==
    ASSUME IInv, TypeOK', NEW p \in Requests, NEW S \in SUBSET Schedules, NEW n \in Int,
           MaterializeRows(DueRows(S, n), n), UNCHANGED <<camp, launches, faults>>,
           OthersWait(p), TakesFreeId(p), Local(p)', req[p].pc # "sweep", ~Creating(p)
    PROVE  IInv'
<1>1. RowsKept /\ NewRowsOf(p) /\ (\A s \in Schedules : Content(s)' = Content(s))
  BY MaterializeKeeps DEF RowsKept, NewRowsOf
<1>2. ExternalsUnique'  BY <1>1, ExternalsKept DEF IInv
<1>3. JobsCounted'  BY MaterializeKeeps
<1>4. LaunchesCounted'  BY DEF IInv, LaunchesCounted
<1>5. CancelledIsDrained'  BY MaterializeKeeps, DrainKept DEF IInv
<1> QED  BY <1>1, <1>2, <1>3, <1>4, <1>5, StepKeeps

\* A request begins.
LEMMA AskKeeps ==
    ASSUME IInv, TypeOK', NEW p \in Requests, Ask(p)
    PROVE  IInv'
<1>0. TypeOK /\ req \in [Requests -> RequestState]  BY DEF IInv, TypeOK
<1>1. ASSUME NEW s \in Schedules, NEW t \in Timings, NEW x \in Externals \cup {NoExternal},
             NEW h \in Hashes \cup {NoHash}, ReadExternal(p, s, t, x, h)
      PROVE  IInv'
  <2> DEFINE r == [Asked("create") EXCEPT !.pc = "check", !.s = s, !.ext = x, !.hash = h,
                                          !.timing = t, !.next = InitialRun(t, now)]
  <2>0. /\ req[p].pc = "new" /\ ~Exists(s) /\ CampaignOf[s] = NoCampaign /\ ~Reserved(s)
        /\ UNCHANGED <<now, sched, exec, sends, camp, launches, faults>>
        /\ r.pc = "check" /\ r.op = "create" /\ r.s = s /\ r.ext = x /\ r.hash = h
    BY <1>1 DEF ReadExternal, Asks, Asked, NewRequest
  <2>1. CASE req' = [req EXCEPT ![p] = r]
    <3> HIDE DEF r
    <3>1. OthersWait(p) /\ req'[p] = r  BY <1>0, <2>1 DEF OthersWait
    <3>2. TakesFreeId(p)  BY <2>0, <3>1 DEF TakesFreeId
    <3>3. Control(p)' /\ HoldsRows(p)' /\ AnswerIsRow(p)'
      BY <2>0, <3>1 DEF Control, HoldsRows, AnswerIsRow
    <3>4. OwnsItsId(p)'
      <4>1. ASSUME NEW q \in Requests \ {p}, Creating(q)' PROVE req'[q].s # s
        <5>1. req'[q] = req[q]  BY <3>1 DEF OthersWait
        <5> QED  BY <5>1, <4>1, <2>0 DEF Creating, Reserved
      <4> QED  BY <4>1, <2>0, <3>1 DEF OwnsItsId, Exists
    <3> QED  BY <2>0, <3>1, <3>2, <3>3, <3>4, ReadKeeps DEF Local
  <2>2. CASE \E k \in Known(x) : AnswerWith(p, r, k)
    <3> HIDE DEF r
    <3>1. OthersWait(p) /\ TakesFreeId(p) /\ Local(p)'  BY <2>2, <2>0, <1>0, AnswerLocal
    <3> QED  BY <2>0, <3>1, ReadKeeps
  <2> QED  BY <1>1, <2>1, <2>2 DEF ReadExternal
<1>2. ASSUME NEW s \in Schedules,
             \/ ReadForEdit(p, s)
             \/ \E t \in Timings : ReadForRetime(p, s, t)
             \/ \E op \in AllOperations : ReadForStatus(p, op, s)
      PROVE  IInv'
  <2>1. /\ OthersWait(p) /\ req[p].pc = "new" /\ Exists(s)
        /\ req'[p].s = s /\ req'[p].todo = {} /\ req'[p].ext = NoExternal
        /\ \/ req'[p].pc = "check" /\ req'[p].op \in {"edit", "retime"}
           \/ req'[p].pc = "status" /\ req'[p].op \in {"activate", "pause", "cancel"}
        /\ UNCHANGED <<sched, exec, sends, camp, launches, faults>>
    <3>1. CASE ReadForEdit(p, s)
      BY <1>0, <3>1 DEF ReadForEdit, Asks, Asked, NewRequest, OthersWait, Exists
    <3>2. ASSUME NEW t \in Timings, ReadForRetime(p, s, t)
          PROVE  <2>1!:
      BY <1>0, <3>2 DEF ReadForRetime, Asks, Asked, NewRequest, OthersWait, Exists
    <3>3. ASSUME NEW op \in AllOperations, ReadForStatus(p, op, s)
          PROVE  <2>1!:
      BY <1>0, <3>3 DEF ReadForStatus, Asks, Asked, NewRequest, OthersWait, Exists
    <3> QED  BY <1>2, <3>1, <3>2, <3>3
  <2>2. TakesFreeId(p)  BY <2>1 DEF TakesFreeId, Creating
  <2>3. Local(p)'
    BY <2>1 DEF Local, Control, HoldsRows, OwnsItsId, Creating, AnswerIsRow, Exists
  <2> QED  BY <2>1, <2>2, <2>3, ReadKeeps
<1>3. ASSUME NEW c \in Campaigns, ReadForLaunch(p, c) \/ ReadForDrop(p, c)
      PROVE  IInv'
  <2>1. /\ OthersWait(p) /\ req[p].pc = "new" /\ req'[p].camp = c /\ req'[p].ext = NoExternal
        /\ \/ req'[p].pc = "targets" /\ req'[p].op = "launch"
           \/ req'[p].pc = "select" /\ req'[p].op = "drop" /\ req'[p].todo = {}
        /\ UNCHANGED <<sched, exec, sends, camp, launches, faults>>
    <3>1. CASE ReadForLaunch(p, c)
      BY <1>0, <3>1 DEF ReadForLaunch, Asks, Asked, NewRequest, OthersWait
    <3>2. CASE ReadForDrop(p, c)
      BY <1>0, <3>2 DEF ReadForDrop, Asks, Asked, NewRequest, OthersWait
    <3> QED  BY <1>3, <3>1, <3>2
  <2>2. TakesFreeId(p)  BY <2>1 DEF TakesFreeId, Creating
  <2>3. Local(p)'
    BY <2>1 DEF Local, Control, HoldsRows, OwnsItsId, Creating, AnswerIsRow
  <2> QED  BY <2>1, <2>2, <2>3, ReadKeeps
<1> QED  BY <1>1, <1>2, <1>3 DEF Ask

\* The awaits of a creation or an edit that only read.
LEMMA CheckKeeps ==
    ASSUME IInv, TypeOK', NEW p \in Requests, CheckConflict(p) \/ Recheck(p)
    PROVE  IInv'
<1>0. /\ TypeOK /\ Local(p) /\ req \in [Requests -> RequestState]
      /\ UNCHANGED <<sched, exec, sends, camp, launches, faults>>
      /\ req[p].pc \in {"check", "recheck"}
  BY DEF IInv, TypeOK, Local, CheckConflict, Recheck
<1>1. CASE Close(p, "failed")
  <2>1. Local(p)' /\ OthersWait(p) /\ TakesFreeId(p)  BY <1>0, <1>1, CloseLocal
  <2> QED  BY <1>0, <2>1, ReadKeeps
<1>2. CASE \E k \in Known(req[p].ext) : Recheck(p) /\ AnswerWith(p, req[p], k)
  <2>1. req[p].op = "create"  BY <1>0, <1>2 DEF Recheck, Local, Control
  <2>2. Local(p)' /\ OthersWait(p) /\ TakesFreeId(p)  BY <1>0, <1>2, <2>1, AnswerLocal
  <2> QED  BY <1>0, <2>2, ReadKeeps
<1>3. CASE CheckConflict(p) /\ ~Close(p, "failed")
  <2>1. /\ \A q \in Requests \ {p} : req'[q] = req[q]
        /\ req'[p] = [req[p] EXCEPT !.pc = req'[p].pc]
        /\ req'[p].pc \in {"recheck", "insert", "write"}
        /\ req'[p].pc = "recheck" => req[p].ext # NoExternal
        /\ req'[p].pc = "insert" => req[p].op = "create"
        /\ req'[p].pc = "write" => req[p].op # "create"
        /\ req[p].pc = "check"
    <3>1. PICK pc \in {"recheck", "insert", "write"} :
             /\ req' = [req EXCEPT ![p].pc = pc]
             /\ pc = "recheck" => req[p].ext # NoExternal
             /\ pc = "insert" => req[p].op = "create"
             /\ pc = "write" => req[p].op # "create"
      BY <1>3 DEF CheckConflict, Goto
    <3>2. req[p].pc = "check"  BY <1>3 DEF CheckConflict
    <3>3. req'[p] = [req[p] EXCEPT !.pc = pc] /\ req'[p].pc = pc
      BY <1>0, <3>1 DEF RequestState
    <3> QED  BY <1>0, <3>1, <3>2, <3>3
  <2>2. /\ req'[p].op = req[p].op /\ req'[p].s = req[p].s /\ req'[p].camp = req[p].camp
        /\ req'[p].todo = req[p].todo /\ req'[p].ext = req[p].ext
    BY <1>0, <2>1 DEF RequestState
  <2>3. OthersWait(p)  BY <2>1 DEF OthersWait
  <2>4. TakesFreeId(p)  BY <2>1, <2>2 DEF TakesFreeId, Creating
  <2>5. Control(p)'  BY <1>0, <2>1, <2>2 DEF Local, Control
  <2>6. HoldsRows(p)'  BY <1>0, <2>1, <2>2 DEF Local, Control, HoldsRows, Exists
  <2>7. OwnsItsId(p)'  BY <1>0, <2>1, <2>2 DEF Local, OwnsItsId, Creating, Exists
  <2>8. AnswerIsRow(p)'  BY <2>1 DEF AnswerIsRow
  <2> QED  BY <1>0, <2>3, <2>4, <2>5, <2>6, <2>7, <2>8, ReadKeeps DEF Local
<1> QED  BY <1>1, <1>2, <1>3 DEF CheckConflict, Recheck

\* The transaction of createTask.
LEMMA InsertKeeps ==
    ASSUME IInv, TypeOK', NEW p \in Requests, Insert(p)
    PROVE  IInv'
<1>0. /\ TypeOK /\ Local(p) /\ req[p].pc = "insert" /\ req[p].op = "create" /\ Creating(p)
      /\ req \in [Requests -> RequestState] /\ sched \in [Schedules -> ScheduleRow]
      /\ UNCHANGED <<exec, sends, camp, launches, faults>>
  BY DEF IInv, TypeOK, Local, Control, Creating, Insert
<1>1. CASE \E k \in Known(req[p].ext) : AnswerWith(p, req[p], k) /\ UNCHANGED sched
  <2>1. Local(p)' /\ OthersWait(p) /\ TakesFreeId(p)  BY <1>0, <1>1, AnswerLocal
  <2> QED  BY <1>0, <1>1, <2>1, ReadKeeps
<1>2. CASE /\ Known(req[p].ext) = {}
           /\ sched' = [sched EXCEPT ![req[p].s] =
                           [status |-> "active", timing |-> req[p].timing,
                            next |-> req[p].next, ext |-> req[p].ext, hash |-> req[p].hash]]
           /\ Goto(p, "fire") \/ Close(p, "answered")
  <2>1. PICK s \in Schedules : s = req[p].s /\ ~Exists(s) /\ CampaignOf[s] = NoCampaign
    BY <1>0 DEF Local, OwnsItsId
  <2>2. /\ sched'[s].status = "active" /\ sched'[s].ext = req[p].ext
        /\ sched'[s].hash = req[p].hash
        /\ \A r \in Schedules \ {s} : sched'[r] = sched[r]
    BY <1>0, <1>2, <2>1
  <2>3. Exists(s)' /\ RowsKept /\ NewRowsOf(p)
    BY <1>0, <2>1, <2>2 DEF RowsKept, NewRowsOf, Exists, Content
  <2>4. ExternalsUnique'
    <3>1. \A r \in Schedules : Exists(r) /\ req[p].ext # NoExternal => sched[r].ext # req[p].ext
      BY <1>2 DEF Known
    <3> QED  BY <2>1, <2>2, <3>1 DEF IInv, ExternalsUnique, Exists
  <2>5. Local(p)' /\ OthersWait(p) /\ TakesFreeId(p)
    <3>1. CASE Close(p, "answered")
      <4>1. req'[p].s = s  BY <3>1, <1>0, <2>1 DEF Close, Closed, NewRequest
      <4> QED  BY <3>1, <4>1, <1>0, <2>1, <2>2, CloseLocal DEF Exists
    <3>2. CASE Goto(p, "fire")
      <4>1. /\ OthersWait(p) /\ req'[p].pc = "fire" /\ req'[p].op = "create"
            /\ req'[p].s = s /\ req'[p].ext = req[p].ext /\ req'[p].hash = req[p].hash
        BY <3>2, <1>0, <2>1 DEF Goto, OthersWait, RequestState
      <4>2. Control(p)' /\ HoldsRows(p)'  BY <4>1 DEF Control, HoldsRows
      <4>3. ~Creating(p)'  BY <4>1 DEF Creating
      <4>4. OwnsItsId(p)' /\ TakesFreeId(p)  BY <4>3 DEF OwnsItsId, TakesFreeId
      <4>5. AnswerIsRow(p)'  BY <4>1, <2>1, <2>2 DEF AnswerIsRow, Exists
      <4> QED  BY <4>1, <4>2, <4>4, <4>5 DEF Local
    <3> QED  BY <1>2, <3>1, <3>2
  <2>6. JobsCounted' /\ LaunchesCounted'
    BY <1>0 DEF IInv, JobsCounted, LaunchesCounted
  <2>7. CancelledIsDrained'
    <3>1. \A r \in Schedules : sched'[r].status = "cancelled" => sched[r].status = "cancelled"
      BY <2>2
    <3> QED  BY <3>1, <1>0, <2>5, DrainKept DEF IInv
  <2> QED  BY <2>3, <2>4, <2>5, <2>6, <2>7, StepKeeps
<1> QED  BY <1>1, <1>2 DEF Insert

\* A request that writes into a row it holds: an edit or a change of status.
LEMMA WriteKeeps ==
    ASSUME IInv, TypeOK', NEW p \in Requests, WriteEdit(p) \/ WriteStatus(p)
    PROVE  IInv'
<1> DEFINE s == req[p].s
<1>0. /\ TypeOK /\ Local(p) /\ req[p].pc \in {"write", "status"}
      /\ req[p].op \in {"edit", "retime", "activate", "pause", "cancel", "drop"}
      /\ req \in [Requests -> RequestState] /\ sched \in [Schedules -> ScheduleRow]
      /\ UNCHANGED <<exec, sends, camp, launches, faults>>
  BY DEF IInv, TypeOK, Local, Control, WriteEdit, WriteStatus
<1>1. s \in Schedules /\ Exists(s)  BY <1>0 DEF Local, HoldsRows
<1>2. /\ \A r \in Schedules \ {s} : sched'[r] = sched[r]
      /\ sched'[s].ext = sched[s].ext /\ sched'[s].hash = sched[s].hash
      /\ \/ sched'[s].status = sched[s].status
         \/ req[p].pc = "status" /\ sched'[s].status = Goal(req[p].op)
  BY <1>0, <1>1 DEF WriteEdit, WriteStatus, ScheduleRow
<1>3. Goal(req[p].op) \in {"active", "paused", "cancelled"}  BY DEF Goal
<1>4. /\ RowsKept /\ NewRowsOf(p) /\ ~Creating(p)
      /\ \A r \in Schedules : Content(r)' = Content(r)
  BY <1>0, <1>1, <1>2, <1>3 DEF RowsKept, NewRowsOf, Exists, Content, Creating
<1>5. ExternalsUnique'  BY <1>4, ExternalsKept DEF IInv
<1>6. JobsCounted' /\ LaunchesCounted'  BY <1>0 DEF IInv, JobsCounted, LaunchesCounted
<1>7. CASE Close(p, "answered") /\ ~(req[p].pc = "status" /\ Goal(req[p].op) = "cancelled")
  <2>1. Local(p)' /\ OthersWait(p) /\ TakesFreeId(p)  BY <1>0, <1>7, CloseLocal
  <2>2. CancelledIsDrained'
    <3>1. \A r \in Schedules : sched'[r].status = "cancelled" => sched[r].status = "cancelled"
      BY <1>2, <1>3, <1>7
    <3> QED  BY <3>1, <1>0, <2>1, DrainKept DEF IInv
  <2> QED  BY <1>4, <1>5, <1>6, <2>1, <2>2, StepKeeps
<1>8. CASE Goto(p, "sweep") /\ req[p].pc = "status"
  <2>1. /\ OthersWait(p) /\ req'[p].pc = "sweep" /\ req'[p].op = req[p].op
        /\ req'[p].s = s /\ req'[p].camp = req[p].camp /\ req'[p].todo = req[p].todo
        /\ req'[p].ext = req[p].ext
    BY <1>8, <1>0 DEF Goto, OthersWait, RequestState
  <2>3. req[p].op \in {"activate", "pause", "cancel", "drop"}  BY <1>0, <1>8 DEF Local, Control
  <2>4. Control(p)'  BY <1>0, <2>1, <2>3 DEF Local, Control
  <2>5. HoldsRows(p)'
    <3>1. req[p].todo \subseteq Schedules  BY <1>0 DEF RequestState
    <3> QED  BY <1>0, <1>1, <1>4, <2>1, <3>1 DEF Local, HoldsRows, RowsKept
  <2>6. OwnsItsId(p)' /\ AnswerIsRow(p)' /\ TakesFreeId(p)
    BY <2>1 DEF OwnsItsId, AnswerIsRow, TakesFreeId, Creating
  <2>7. CancelledIsDrained'
    BY <1>0, <1>2, <2>1, DrainKept DEF IInv
  <2> QED  BY <1>4, <1>5, <1>6, <2>1, <2>4, <2>5, <2>6, <2>7, StepKeeps DEF Local
<1> QED  BY <1>0, <1>7, <1>8 DEF WriteEdit, WriteStatus

LEMMA SweepKeeps ==
    ASSUME IInv, TypeOK', NEW p \in Requests, Sweep(p)
    PROVE  IInv'
<1>0. /\ TypeOK /\ Local(p) /\ req[p].pc = "sweep" /\ ~Creating(p)
      /\ req[p].op \in {"activate", "pause", "cancel", "drop"}
      /\ req \in [Requests -> RequestState]
      /\ UNCHANGED <<sched, sends, camp, launches, faults>>
  BY DEF IInv, TypeOK, Local, Control, Creating, Sweep
<1>1. /\ \A o \in Occurrences : exec'[o] = IF Swept(req[p], o) THEN "cancelled" ELSE exec[o]
      /\ RowsKept /\ NewRowsOf(p)
  BY <1>0 DEF Sweep, RowsKept, NewRowsOf, Exists, Content
<1>2. ExternalsUnique' /\ LaunchesCounted'
  BY <1>0 DEF IInv, ExternalsUnique, LaunchesCounted, Exists
<1>3. JobsCounted'
  BY <1>0, <1>1 DEF IInv, JobsCounted, Swept
<1>4. Local(p)' /\ OthersWait(p) /\ TakesFreeId(p)
  <2>1. CASE Close(p, "answered")  BY <2>1, <1>0, CloseLocal
  <2>2. CASE Goto(p, "drop") /\ req[p].op = "drop"
    <3>1. /\ OthersWait(p) /\ req'[p].pc = "drop" /\ req'[p].op = "drop"
          /\ req'[p].camp = req[p].camp /\ req'[p].todo = req[p].todo
          /\ req'[p].ext = req[p].ext
      BY <2>2, <1>0 DEF Goto, OthersWait, RequestState
    <3>2. Control(p)' /\ HoldsRows(p)'
      BY <1>0, <2>2, <3>1 DEF Local, Control, HoldsRows, Exists
    <3>3. OwnsItsId(p)' /\ AnswerIsRow(p)' /\ TakesFreeId(p)
      BY <3>1 DEF OwnsItsId, AnswerIsRow, TakesFreeId, Creating
    <3> QED  BY <3>1, <3>2, <3>3 DEF Local
  <2> QED  BY <2>1, <2>2 DEF Sweep
<1>5. CancelledIsDrained'
  <2>1. \A o \in Occurrences : o[1] = req[p].s => exec'[o] # "queued"
    BY <1>1 DEF Swept
  <2>2. \A o \in Occurrences : exec'[o] = "queued" => exec[o] = "queued"
    BY <1>1
  <2> QED  BY <1>0, <1>4, <2>1, <2>2, DrainKept DEF IInv
<1> QED  BY <1>1, <1>2, <1>3, <1>4, <1>5, StepKeeps

LEMMA FireStepsKeep ==
    ASSUME IInv, TypeOK', NEW p \in Requests,
           Fire(p) \/ \E s \in Schedules : FireTarget(p, s)
    PROVE  IInv'
<1>0. /\ TypeOK /\ Local(p) /\ req[p].pc \in {"fire", "fireTargets"} /\ req[p].at \in Int
      /\ req \in [Requests -> RequestState] /\ req[p] \in RequestState
  BY DEF IInv, TypeOK, RequestState, Local, Fire, FireTarget
<1>1. ~Creating(p) /\ req[p].pc # "sweep"  BY <1>0 DEF Creating
<1>2. CASE Fire(p)
  <2>1. /\ req[p].op = "create" /\ req[p].s \in Schedules /\ Exists(req[p].s)
        /\ sched[req[p].s].ext = req[p].ext /\ sched[req[p].s].hash = req[p].hash
    BY <1>0, <1>2 DEF Fire, Local, Control, AnswerIsRow
  <2>2. /\ MaterializeRows(DueRows({req[p].s}, req[p].at), req[p].at)
        /\ {req[p].s} \in SUBSET Schedules /\ Close(p, "answered")
        /\ UNCHANGED <<camp, launches, faults>>
    BY <1>2, <2>1 DEF Fire
  <2>3. PICK s \in Schedules : s = req[p].s  BY <2>1
  <2>4. Exists(s)' /\ Content(s)' = Content(s)
    BY <1>0, <2>1, <2>2, <2>3, MaterializeKeeps
  <2>5. req'[p].s = s  BY <1>0, <2>2, <2>3 DEF Close, Closed, NewRequest
  <2>6. Local(p)' /\ OthersWait(p) /\ TakesFreeId(p)
    BY <1>0, <2>1, <2>2, <2>3, <2>4, <2>5, CloseLocal DEF Content, Exists
  <2> QED  BY <1>0, <1>1, <2>2, <2>6, FireKeeps
<1>3. ASSUME NEW s \in Schedules, FireTarget(p, s)
      PROVE  IInv'
  <2>1. /\ req[p].op = "launch" /\ req[p].pc = "fireTargets"
        /\ MaterializeRows(DueRows({s}, req[p].at), req[p].at)
        /\ {s} \in SUBSET Schedules
        /\ UNCHANGED <<camp, launches, faults>>
    BY <1>0, <1>3 DEF FireTarget, Local, Control
  <2>2. Local(p)' /\ OthersWait(p) /\ TakesFreeId(p)
    <3>1. CASE Close(p, "answered")  BY <3>1, <2>1, <1>0, CloseLocal
    <3>2. CASE req' = [req EXCEPT ![p].todo = @ \ {s}]
      <4>1. /\ OthersWait(p) /\ req'[p].pc = "fireTargets" /\ req'[p].op = "launch"
            /\ req'[p].camp = req[p].camp /\ req'[p].ext = req[p].ext
        BY <3>2, <2>1, <1>0 DEF OthersWait, RequestState
      <4> QED  BY <1>0, <2>1, <4>1
               DEF Local, Control, HoldsRows, OwnsItsId, AnswerIsRow, Creating, TakesFreeId
    <3> QED  BY <1>3, <3>1, <3>2 DEF FireTarget
  <2> QED  BY <1>0, <1>1, <2>1, <2>2, FireKeeps
<1> QED  BY <1>2, <1>3

LEMMA LaunchKeeps ==
    ASSUME IInv, TypeOK', NEW p \in Requests, Launch(p)
    PROVE  IInv'
<1> DEFINE c == req[p].camp
<1>0. /\ TypeOK /\ Local(p) /\ req[p].pc = "targets" /\ req[p].op = "launch" /\ ~Creating(p)
      /\ req \in [Requests -> RequestState] /\ sched \in [Schedules -> ScheduleRow]
      /\ camp \in [Campaigns -> CampaignStatus]
      /\ launches \in [Campaigns -> 0 .. SendsBound]
      /\ UNCHANGED <<exec, sends, faults>>
  BY DEF IInv, TypeOK, Local, Control, Creating, Launch
<1>1. c \in Campaigns  BY <1>0 DEF Local, Control
<1>2. CASE ~CanLaunch(c)
  <2>1. Close(p, "failed") /\ UNCHANGED <<camp, launches, sched>>  BY <1>2 DEF Launch
  <2>2. Local(p)' /\ OthersWait(p) /\ TakesFreeId(p)  BY <1>0, <2>1, CloseLocal
  <2> QED  BY <1>0, <2>1, <2>2, ReadKeeps
<1>3. CASE CanLaunch(c)
  <2>1. /\ sched' = [s \in Schedules |->
                        IF s \in Targets(c) THEN LaunchedRow(req[p]) ELSE sched[s]]
        /\ camp' = [camp EXCEPT ![c] = "active"]
        /\ launches' = [launches EXCEPT ![c] = IF @ < SendsBound THEN @ + 1 ELSE @]
        /\ \/ req' = [req EXCEPT ![p].pc = "fireTargets", ![p].todo = Targets(c)]
           \/ Close(p, "answered")
    BY <1>3 DEF Launch
  <2>2. \A s \in Schedules :
           \/ sched'[s] = sched[s]
           \/ /\ CampaignOf[s] # NoCampaign /\ sched'[s].status = "active"
              /\ sched'[s].ext = NoExternal /\ sched'[s].hash = NoHash
    BY <1>1, <2>1 DEF Targets, LaunchedRow, NoRow
  <2>3. \A s \in Schedules : Content(s)' = Content(s)
    BY <2>2 DEF IInv, ExternalsUnique, Content
  <2>4. RowsKept /\ NewRowsOf(p)  BY <2>2, <2>3 DEF RowsKept, NewRowsOf, Exists
  <2>5. ExternalsUnique'  BY <1>0, <2>3, <2>4, ExternalsKept DEF IInv
  <2>6. JobsCounted'  BY <1>0 DEF IInv, JobsCounted
  <2>7. LaunchesCounted'
    <3>1. camp[c] = "draft" /\ launches[c] = 0
      BY <1>1, <1>3 DEF CanLaunch, IInv, LaunchesCounted
    <3>2. launches'[c] = 1 /\ camp'[c] = "active"  BY <1>0, <1>1, <2>1, <3>1 DEF SendsBound
    <3>3. \A d \in Campaigns \ {c} : launches'[d] = launches[d] /\ camp'[d] = camp[d]
      BY <1>0, <2>1
    <3> QED  BY <1>1, <3>2, <3>3 DEF IInv, LaunchesCounted
  <2>8. Local(p)' /\ OthersWait(p) /\ TakesFreeId(p)
    <3>1. CASE Close(p, "answered")  BY <3>1, <1>0, CloseLocal
    <3>2. CASE req' = [req EXCEPT ![p].pc = "fireTargets", ![p].todo = Targets(c)]
      <4>1. /\ OthersWait(p) /\ req'[p].pc = "fireTargets" /\ req'[p].op = "launch"
            /\ req'[p].camp = c /\ req'[p].ext = req[p].ext
        BY <3>2, <1>0 DEF OthersWait, RequestState
      <4> QED  BY <1>0, <1>1, <4>1
               DEF Local, Control, HoldsRows, OwnsItsId, AnswerIsRow, Creating, TakesFreeId
    <3> QED  BY <2>1, <3>1, <3>2
  <2>9. CancelledIsDrained'
    <3>1. \A s \in Schedules : sched'[s].status = "cancelled" => sched[s].status = "cancelled"
      BY <2>2
    <3> QED  BY <3>1, <1>0, <2>8, DrainKept DEF IInv
  <2> QED  BY <2>4, <2>5, <2>6, <2>7, <2>8, <2>9, StepKeeps
<1> QED  BY <1>2, <1>3

\* The other steps of a launch or a cancellation, all of which only read.
LEMMA CampaignReadsKeep ==
    ASSUME IInv, TypeOK', NEW p \in Requests,
           SelectTargets(p) \/ \E s \in Schedules : CheckTarget(p, s) \/ DropNext(p, s)
    PROVE  IInv'
<1>0. /\ TypeOK /\ Local(p) /\ req[p].pc \in {"select", "drop", "targets"}
      /\ req \in [Requests -> RequestState] /\ req[p] \in RequestState
      /\ UNCHANGED <<sched, exec, sends, camp, launches, faults>>
  BY DEF IInv, TypeOK, Local, SelectTargets, CheckTarget, DropNext
<1>1. ~Creating(p) /\ req[p].pc # "sweep"  BY <1>0 DEF Creating
<1>2. CASE SelectTargets(p)
  <2>1. /\ OthersWait(p) /\ req'[p].pc = "drop" /\ req'[p].op = req[p].op
        /\ req'[p].camp = req[p].camp /\ req'[p].ext = req[p].ext
        /\ req'[p].todo = {s \in Targets(req[p].camp) : sched[s].status \in {"active", "paused"}}
    BY <1>0, <1>2 DEF SelectTargets, OthersWait, RequestState
  <2>2. Control(p)'  BY <1>0, <1>2, <2>1 DEF Local, Control, SelectTargets
  <2>3. HoldsRows(p)'
    <3>1. \A s \in req'[p].todo : sched'[s].status # "absent"  BY <1>0, <2>1
    <3> QED  BY <2>1, <3>1 DEF HoldsRows, Exists
  <2>4. OwnsItsId(p)' /\ AnswerIsRow(p)' /\ TakesFreeId(p)
    BY <2>1 DEF OwnsItsId, AnswerIsRow, Creating, TakesFreeId
  <2> QED  BY <1>0, <1>1, <2>1, <2>2, <2>3, <2>4, ReadKeeps DEF Local
<1>3. ASSUME NEW s \in Schedules, CheckTarget(p, s)
      PROVE  IInv'
  <2>1. CASE Close(p, "failed")
    <3>1. Local(p)' /\ OthersWait(p) /\ TakesFreeId(p)  BY <2>1, <1>0, CloseLocal
    <3> QED  BY <1>0, <1>1, <3>1, ReadKeeps
  <2>2. CASE req' = [req EXCEPT ![p].todo = @ \ {s}]
    <3>1. req[p].pc = "targets" /\ req[p].op = "launch"
      BY <1>0, <1>3 DEF CheckTarget, Local, Control
    <3>2. /\ OthersWait(p) /\ req'[p].pc = "targets" /\ req'[p].op = "launch"
          /\ req'[p].camp = req[p].camp /\ req'[p].ext = req[p].ext
      BY <2>2, <3>1, <1>0 DEF OthersWait, RequestState
    <3>3. Local(p)' /\ TakesFreeId(p)
      BY <1>0, <3>1, <3>2
         DEF Local, Control, HoldsRows, OwnsItsId, AnswerIsRow, Creating, TakesFreeId
    <3> QED  BY <1>0, <1>1, <3>2, <3>3, ReadKeeps
  <2> QED  BY <1>3, <2>1, <2>2 DEF CheckTarget
<1>4. ASSUME NEW s \in Schedules, DropNext(p, s)
      PROVE  IInv'
  <2>1. /\ req[p].pc = "drop" /\ req[p].op = "drop" /\ s \in req[p].todo /\ Exists(s)
    BY <1>0, <1>4 DEF DropNext, Local, Control, HoldsRows
  <2>2. /\ OthersWait(p) /\ req'[p].pc = "status" /\ req'[p].op = "drop" /\ req'[p].s = s
        /\ req'[p].camp = req[p].camp /\ req'[p].ext = req[p].ext
        /\ req'[p].todo = req[p].todo \ {s}
    BY <1>0, <1>4, <2>1 DEF DropNext, OthersWait, RequestState
  <2>3. Control(p)'  BY <1>0, <2>1, <2>2 DEF Local, Control
  <2>4. HoldsRows(p)'  BY <1>0, <2>1, <2>2 DEF Local, HoldsRows, Exists
  <2>5. OwnsItsId(p)' /\ AnswerIsRow(p)' /\ TakesFreeId(p)
    BY <2>2 DEF OwnsItsId, AnswerIsRow, Creating, TakesFreeId
  <2> QED  BY <1>0, <1>1, <2>2, <2>3, <2>4, <2>5, ReadKeeps DEF Local
<1> QED  BY <1>2, <1>3, <1>4

\* A campaign is marked cancelled, or a request breaks off.
LEMMA EndKeeps ==
    ASSUME IInv, TypeOK', NEW p \in Requests, FinishDrop(p) \/ BreakOff(p)
    PROVE  IInv'
<1>0. /\ TypeOK /\ Local(p) /\ UNCHANGED <<sched, exec, sends, launches>>
      /\ req[p].op = "create" => ~FinishDrop(p)
  BY DEF IInv, Local, Control, FinishDrop, DropDone, BreakOff
<1>1. Local(p)' /\ OthersWait(p) /\ TakesFreeId(p)
  BY <1>0, CloseLocal DEF FinishDrop, BreakOff
<1>2. RowsKept /\ NewRowsOf(p)  BY <1>0 DEF RowsKept, NewRowsOf, Exists, Content
<1>3. ExternalsUnique' /\ JobsCounted'  BY <1>0 DEF IInv, ExternalsUnique, JobsCounted, Exists
<1>4. LaunchesCounted'
  <2>1. camp \in [Campaigns -> CampaignStatus]  BY <1>0 DEF TypeOK
  <2>2. \A c \in Campaigns : camp'[c] = camp[c] \/ camp'[c] = "cancelled"
    BY <2>1 DEF FinishDrop, BreakOff
  <2> QED  BY <1>0, <2>2 DEF IInv, LaunchesCounted
<1>5. CancelledIsDrained'
  <2>1. CASE FinishDrop(p)
    <3>1. req[p].pc = "drop" /\ faults' = faults  BY <2>1 DEF FinishDrop, DropDone
    <3> QED  BY <1>0, <1>1, <3>1, DrainKept DEF IInv
  <2>2. CASE BreakOff(p)
    <3>1. faults' # 0  BY <1>0, <2>2 DEF BreakOff, TypeOK
    <3> QED  BY <3>1 DEF CancelledIsDrained
  <2> QED  BY <2>1, <2>2
<1> QED  BY <1>1, <1>2, <1>3, <1>4, <1>5, StepKeeps

\* Steps of the database, the worker and the clock leave all requests as they are.
LEMMA QuietKeeps ==
    ASSUME IInv, TypeOK', UNCHANGED <<req, faults>>,
           \A s \in Schedules : (Exists(s)' <=> Exists(s)) /\ Content(s)' = Content(s),
           \A s \in Schedules : sched'[s].status = "cancelled" => sched[s].status = "cancelled",
           \A o \in Occurrences : exec'[o] = "queued" =>
               exec[o] = "queued" \/ sched'[o[1]].status # "cancelled",
           JobsCounted', LaunchesCounted'
    PROVE  IInv'
<1>1. ASSUME NEW p \in Requests
      PROVE  (Control(p) /\ HoldsRows(p) /\ OwnsItsId(p) /\ AnswerIsRow(p))'
  <2>1. Control(p)'  BY DEF IInv, Control
  <2>2. HoldsRows(p)'
    <3>1. req[p].todo \subseteq Schedules  BY DEF IInv, TypeOK, RequestState
    <3> QED  BY <3>1 DEF IInv, HoldsRows
  <2>3. OwnsItsId(p)'  BY DEF IInv, OwnsItsId, Creating
  <2>4. AnswerIsRow(p)'  BY DEF IInv, AnswerIsRow, Content
  <2> QED  BY <2>1, <2>2, <2>3, <2>4
<1>2. ExternalsUnique'  BY DEF IInv, ExternalsUnique, Content
<1>3. CancelledIsDrained'
  <2>1. \A o \in Occurrences : o[1] \in Schedules  BY DEF Occurrences
  <2> QED  BY <2>1 DEF IInv, CancelledIsDrained
<1> QED  BY <1>1, <1>2, <1>3 DEF IInv

LEMMA NextKeeps ==
    ASSUME IInv, [Next]_vars
    PROVE  IInv'
<1>0. TypeOK'  BY NextTypes DEF IInv
<1>1. ASSUME NEW p \in Requests, Ask(p) PROVE IInv'  BY <1>0, <1>1, AskKeeps
<1>2. ASSUME NEW p \in Requests, Proceed(p) PROVE IInv'
  BY <1>0, <1>2, CheckKeeps, InsertKeeps, WriteKeeps, SweepKeeps, FireStepsKeep, LaunchKeeps,
     CampaignReadsKeep, EndKeeps DEF Proceed
<1>3. ASSUME NEW p \in Requests, BreakOff(p) PROVE IInv'  BY <1>0, <1>3, EndKeeps
<1>4. ASSUME NEW c \in Campaigns, CreateCampaign(c) PROVE IInv'
  <2>1. LaunchesCounted'
    BY <1>4 DEF CreateCampaign, IInv, TypeOK, LaunchesCounted
  <2> QED  BY <1>0, <1>4, <2>1, QuietKeeps
           DEF CreateCampaign, IInv, JobsCounted, Exists, Content
<1>5. ASSUME NEW o \in Occurrences, Take(o) PROVE IInv'
  <2>1. JobsCounted'  BY <1>5 DEF Take, IInv, TypeOK, JobsCounted
  <2>2. \A x \in Occurrences : exec'[x] = "queued" => exec[x] = "queued"
    BY <1>5 DEF Take, IInv, TypeOK
  <2> QED  BY <1>0, <1>5, <2>1, <2>2, QuietKeeps
           DEF Take, IInv, LaunchesCounted, Exists, Content
<1>6. CASE Materialize
  <2>1. now \in Int /\ Schedules \in SUBSET Schedules  BY DEF IInv, TypeOK
  <2>2. LaunchesCounted'  BY <1>6 DEF Materialize, IInv, LaunchesCounted
  <2> QED  BY <1>0, <1>6, <2>1, <2>2, MaterializeKeeps, QuietKeeps DEF Materialize
<1>7. CASE Tick \/ UNCHANGED vars
  BY <1>0, <1>7, QuietKeeps
     DEF Tick, vars, IInv, JobsCounted, LaunchesCounted, Exists, Content
<1> QED  BY <1>1, <1>2, <1>3, <1>4, <1>5, <1>6, <1>7 DEF Next

LEMMA InitHolds == Init => IInv
<1> SUFFICES ASSUME Init PROVE IInv
  OBVIOUS
<1>1. \A p \in Requests : req[p].pc = "new" /\ req[p].op = "none" /\ req[p].ext = NoExternal
  BY DEF Init, NewRequest
<1>2. \A p \in Requests : Control(p) /\ HoldsRows(p) /\ OwnsItsId(p) /\ AnswerIsRow(p)
  BY <1>1 DEF Control, HoldsRows, OwnsItsId, Creating, AnswerIsRow
<1>3. ExternalsUnique  BY DEF Init, NoRow, ExternalsUnique, Exists
<1>4. JobsCounted /\ LaunchesCounted  BY DEF Init, JobsCounted, LaunchesCounted
<1>5. CancelledIsDrained  BY DEF Init, CancelledIsDrained
<1> QED  BY <1>2, <1>3, <1>4, <1>5, InitTypes DEF IInv

(***************************************************************************)
(* The theorems                                                            *)
(***************************************************************************)
\* The inductive invariant holds: requests, timer and transactions keep every id a
\* request holds pointing at the row it was read for.
THEOREM Invariance == Spec => []IInv
  BY InitHolds, NextKeeps, PTL DEF Spec

\* One job per occurrence, for any number of requests and any clock.
THEOREM OneJobEach == Spec => []OneJobPerOccurrence
<1>1. IInv => OneJobPerOccurrence  BY DEF IInv, JobsCounted, OneJobPerOccurrence
<1> QED  BY <1>1, Invariance, PTL

\* A campaign is launched at most once.
THEOREM LaunchesOnce == Spec => []LaunchedOnce
<1>1. IInv => LaunchedOnce  BY DEF IInv, LaunchesCounted, LaunchedOnce
<1> QED  BY <1>1, Invariance, PTL

\* Repeated and overlapping calls of dCreator with one external id get one schedule,
\* and only for one content.
THEOREM AnswersConsistent == Spec => []AnswersAgree
<1>1. IInv => AnswersAgree
  <2> SUFFICES ASSUME IInv, NEW p \in Requests, NEW q \in Requests,
                      Answered(p, "create"), Answered(q, "create"),
                      req[p].ext = req[q].ext, req[p].ext # NoExternal
               PROVE  req[p].s = req[q].s /\ req[p].hash = req[q].hash
    BY DEF AnswersAgree
  <2>1. AnswerIsRow(p) /\ AnswerIsRow(q) /\ ExternalsUnique  BY DEF IInv
  <2> QED  BY <2>1 DEF AnswerIsRow, Answered, ExternalsUnique
<1> QED  BY <1>1, Invariance, PTL

\* Without faults, a schedule whose cancellation went through has nothing queued.
THEOREM CancelDrains == Spec => []CancelledIsDrained
<1>1. IInv => CancelledIsDrained  BY DEF IInv
<1> QED  BY <1>1, Invariance, PTL

(***************************************************************************)
(* The grid of a schedule: what its occurrences have in common while       *)
(* nobody retimes it.  Every instant that is stored as its next run, that  *)
(* a request has read and will write back, or that has an execution, fits  *)
(* one anchor.                                                             *)
(***************************************************************************)
SameGrid(t, a, x) ==
    /\ OneShot(t) => a = x
    /\ t.kind = "interval" => \E m \in Int : a = x + m * t.every

\* p has read the row of s, or a new next run for it, and will write that.
Writes(p, s) ==
    req[p].s = s /\ req[p].op # "create" /\ req[p].pc \in {"check", "write", "status"}

Held(s) ==
    {sched[s].next} \cup {req[p].next : p \in {q \in Requests : Writes(q, s)}}
        \cup {t \in 0 .. MaxTime : Fired(s, t)}

Anchored(s, x) ==
    /\ sched[s].timing.kind = "once" => x = sched[s].timing.at
    /\ \A a \in Held(s) \ {Never} : SameGrid(sched[s].timing, a, x)

OnGrid(s) ==
    ~Requested("retime", s) =>
        /\ \A p \in Requests :
              Writes(p, s) /\ req[p].op = "edit" => req[p].timing = sched[s].timing
        /\ sched[s].timing.kind = "once" \/ ~Requested("activate", s)
              => \E x \in Int : Anchored(s, x)

\* A request that will create rows has computed their first run from their timing.
StartsOnTime(p) ==
    /\ req[p].pc = "new" => req[p].op = "none"
    /\ req[p].pc \in {"check", "recheck", "insert", "targets"} /\ req[p].op \in {"create", "launch"}
         /\ req[p].timing.kind = "once" => req[p].next = req[p].timing.at

\* Only rows have executions, and only targets of a launched campaign are rows.
FiredIsRow == \A s \in Schedules, t \in 0 .. MaxTime : Fired(s, t) => Exists(s)
TargetsLaunched ==
    \A s \in Schedules : Exists(s) /\ CampaignOf[s] # NoCampaign
        => camp[CampaignOf[s]] \notin {"absent", "draft"}

GridInv ==
    /\ FiredIsRow
    /\ TargetsLaunched
    /\ \A p \in Requests : StartsOnTime(p)
    /\ \A s \in Schedules : Exists(s) => OnGrid(s)

\* Instants that fit the anchor of s whatever it is.
Fits(s, a) ==
    \/ a = Never \/ a \in Held(s)
    \/ sched[s].timing.kind = "once" /\ a = sched[s].timing.at
    \/ sched[s].timing.kind = "daily"
    \/ /\ sched[s].timing.kind = "interval"
       /\ \E b \in Held(s) \ {Never}, m \in Int : a = b + m * sched[s].timing.every

LEMMA HeldType ==
    ASSUME TypeOK, NEW s \in Schedules
    PROVE  Held(s) \subseteq Int
<1>1. sched[s].next \in Int  BY DEF TypeOK, ScheduleRow
<1>2. \A p \in Requests : req[p].next \in Int  BY DEF TypeOK, RequestState
<1> QED  BY <1>1, <1>2 DEF Held

LEMMA FitsAnchor ==
    ASSUME TypeOK, NEW s \in Schedules, NEW x \in Int, Anchored(s, x), NEW a, Fits(s, a), a # Never
    PROVE  SameGrid(sched[s].timing, a, x)
<1> DEFINE t == sched[s].timing
<1>0. t \in Timing  BY DEF TypeOK, ScheduleRow
<1>1. CASE a \in Held(s)  BY <1>1 DEF Anchored
<1>2. CASE t.kind = "once" /\ a = t.at  BY <1>2 DEF Anchored, SameGrid
<1>3. CASE t.kind = "daily"  BY <1>3 DEF SameGrid, OneShot
<1>4. CASE t.kind = "interval" /\ \E b \in Held(s) \ {Never}, m \in Int : a = b + m * t.every
  <2>1. PICK b \in Held(s) \ {Never}, m \in Int : a = b + m * t.every  BY <1>4
  <2>2. PICK l \in Int : b = x + l * t.every  BY <1>4 DEF Anchored, SameGrid
  <2> DEFINE e == t.every
  <2>3. e \in Int  BY <1>0 DEF Timing
  <2>4. a = b + m * e /\ b = x + l * e  BY <2>1, <2>2
  <2> HIDE DEF e
  <2>5. a = x + (m + l) * e  BY <2>3, <2>4
  <2> QED  BY <2>5, <1>4 DEF SameGrid, OneShot, e
<1> QED  BY <1>1, <1>2, <1>3, <1>4 DEF Fits

\* What a step must do to a row and to what is held of it.
Steady(p) ==
    req[p].op \in {"retime", "activate", "pause"} =>
        req'[p].op = req[p].op /\ req'[p].s = req[p].s

LEMMA RequestedKept ==
    ASSUME NEW s, \A p \in Requests : Steady(p), NEW op \in {"retime", "activate", "pause"},
           Requested(op, s)
    PROVE  Requested(op, s)'
  BY DEF Requested, Steady

LEMMA GridKept ==
    ASSUME TypeOK, NEW s \in Schedules, OnGrid(s), \A p \in Requests : Steady(p),
           ~Requested("retime", s)' =>
              /\ sched'[s].timing = sched[s].timing
              /\ \A p \in Requests : Writes(p, s)' /\ req'[p].op = "edit"
                                        => req'[p].timing = sched[s].timing
              /\ sched[s].timing.kind = "once" \/ ~Requested("activate", s)' =>
                    /\ Fits(s, sched'[s].next)
                    /\ \A p \in Requests : Writes(p, s)' => Fits(s, req'[p].next)
              /\ \A t \in 0 .. MaxTime : Fired(s, t)' => Fits(s, t)
    PROVE  OnGrid(s)'
<1> SUFFICES ASSUME ~Requested("retime", s)' PROVE OnGrid(s)'
  BY DEF OnGrid
<1>1. ~Requested("retime", s)  BY RequestedKept
<1>2. ASSUME sched[s].timing.kind = "once" \/ ~Requested("activate", s)'
      PROVE  \E x \in Int : Anchored(s, x)'
  <2>1. sched[s].timing.kind = "once" \/ ~Requested("activate", s)  BY <1>2, RequestedKept
  <2>2. PICK x \in Int : Anchored(s, x)  BY <1>1, <2>1 DEF OnGrid
  <2>3. \A a \in Held(s)' : Fits(s, a)  BY <1>2 DEF Held
  <2>4. \A a \in Held(s)' \ {Never} : SameGrid(sched[s].timing, a, x)  BY <2>2, <2>3, FitsAnchor
  <2>5. sched'[s].timing = sched[s].timing  OBVIOUS
  <2>6. Anchored(s, x)'  BY <2>2, <2>4, <2>5 DEF Anchored
  <2> QED  BY <2>6
<1> QED  BY <1>2 DEF OnGrid

\* A row that was not there before holds its first run only.
LEMMA GridStarts ==
    ASSUME TypeOK', NEW s \in Schedules,
           \A p \in Requests : ~Writes(p, s)',
           \A t \in 0 .. MaxTime : ~Fired(s, t)',
           sched'[s].timing.kind = "once" => sched'[s].next = sched'[s].timing.at
    PROVE  OnGrid(s)'
<1>0. sched'[s].next \in Int /\ sched'[s].timing \in Timing  BY DEF TypeOK, ScheduleRow
<1>1. PICK x \in Int : x = sched'[s].next  BY <1>0
<1>2. Held(s)' = {x}  BY <1>1 DEF Held
<1>3. sched'[s].timing.every \in Int  BY <1>0 DEF Timing
<1>4. x = x + 0 * sched'[s].timing.every  BY <1>3
<1>5. SameGrid(sched'[s].timing, x, x)  BY <1>4 DEF SameGrid
<1>6. Anchored(s, x)'  BY <1>1, <1>2, <1>5 DEF Anchored
<1> QED  BY <1>6 DEF OnGrid

LEMMA Division ==
    ASSUME NEW x \in Int, NEW k \in Nat \ {0}
    PROVE  x \div k \in Int /\ x = (x \div k) * k + (x % k)
  BY SMT

\* materializeDue goes on along the grid.
LEMMA OccurrenceFits ==
    ASSUME TypeOK, NEW s \in Schedules, NEW n \in Int, sched[s].next # Never
    PROVE  /\ Fits(s, DueOccurrence(sched[s].timing, sched[s].next, n))
           /\ Fits(s, FollowingRun(sched[s].timing, sched[s].next, n))
<1> DEFINE t == sched[s].timing
           next == sched[s].next
           e == t.every
           k == (n - next) \div e
<1>0. t \in Timing /\ next \in Int  BY DEF TypeOK, ScheduleRow
<1>1. next \in Held(s) \ {Never}  BY DEF Held
<1>2. CASE OneShot(t)  BY <1>1, <1>2 DEF Fits, DueOccurrence, FollowingRun, OneShot
<1>3. CASE t.kind = "daily"  BY <1>3 DEF Fits
<1>4. CASE t.kind = "interval"
  <2>0. e \in Nat \ {0} /\ n - next \in Int  BY <1>0 DEF Timing
  <2>1. DueOccurrence(t, next, n) = n - ((n - next) % e)
    BY <1>4 DEF DueOccurrence, OneShot
  <2>2. FollowingRun(t, next, n) = n - ((n - next) % e) + e
    BY <1>4, <2>1 DEF FollowingRun, OneShot
  <2>3. k \in Int /\ n - next = k * e + ((n - next) % e)  BY <2>0, Division
  <2>4. (n - next) % e \in Int  BY <2>0
  <2> HIDE DEF k, e
  <2>5. k * e \in Int  BY <2>0, <2>3
  <2>6. n - ((n - next) % e) = next + k * e  BY <1>0, <2>3, <2>4, <2>5
  <2>7. next + k * e + e = next + (k + 1) * e  BY <1>0, <2>0, <2>3
  <2>8. DueOccurrence(t, next, n) = next + k * e /\ FollowingRun(t, next, n) = next + (k + 1) * e
    BY <2>1, <2>2, <2>6, <2>7
  <2>9. k + 1 \in Int  BY <2>3
  <2>10. ASSUME NEW m \in Int, NEW a, a = next + m * e
         PROVE  Fits(s, a)
    BY <1>1, <1>4, <2>10 DEF Fits, e
  <2> HIDE DEF next, t
  <2>11. Fits(s, DueOccurrence(t, next, n)) /\ Fits(s, FollowingRun(t, next, n))
    BY <2>3, <2>8, <2>9, <2>10
  <2> QED  BY <2>11 DEF next, t
<1> QED  BY <1>0, <1>2, <1>3, <1>4 DEF Timing, OneShot

LEMMA MaterializeGrid ==
    ASSUME TypeOK, NEW S \in SUBSET Schedules, NEW n \in Int, MaterializeRows(DueRows(S, n), n),
           NEW s \in Schedules
    PROVE  /\ sched'[s].timing = sched[s].timing
           /\ Exists(s)' <=> Exists(s)
           /\ Fits(s, sched'[s].next)
           /\ \A t \in 0 .. MaxTime : Fired(s, t)' => Fits(s, t)
           /\ \A t \in 0 .. MaxTime : Fired(s, t)' => Fired(s, t) \/ Exists(s)
<1> DEFINE D == DueRows(S, n)
           new == Inserted(D, n)
<1>0. sched \in [Schedules -> ScheduleRow]  BY DEF TypeOK
<1>1. sched'[s] = IF s \in D THEN Advanced(sched[s], n) ELSE sched[s]  BY DEF MaterializeRows
<1>2. ASSUME s \in D
      PROVE  /\ sched[s].status = "active" /\ sched[s].next # Never
             /\ sched'[s].timing = sched[s].timing
             /\ sched'[s].status \in {"active", "completed"}
             /\ sched'[s].next = FollowingRun(sched[s].timing, sched[s].next, n)
  BY <1>0, <1>1, <1>2 DEF DueRows, Advanced, ScheduleRow
<1>3. Fits(s, sched'[s].next)
  <2>1. CASE s \in D  BY <1>2, <2>1, OccurrenceFits
  <2>2. CASE s \notin D
    <3>1. sched'[s].next \in Held(s)  BY <1>1, <2>2 DEF Held
    <3> QED  BY <3>1 DEF Fits
  <2> QED  BY <2>1, <2>2
<1>4. ASSUME NEW t \in 0 .. MaxTime, Fired(s, t)'
      PROVE  Fits(s, t) /\ (Fired(s, t) \/ Exists(s))
  <2>1. <<s, t>> \in Occurrences  BY DEF Occurrences
  <2>2. CASE <<s, t>> \in new
    <3>1. PICK d \in D : <<s, t>> = Occurrence(d, n)  BY <2>2 DEF Inserted
    <3>2. d = s /\ t = DueOccurrence(sched[s].timing, sched[s].next, n)  BY <3>1 DEF Occurrence
    <3> QED  BY <3>2, <1>2, OccurrenceFits DEF Exists
  <2>3. CASE <<s, t>> \notin new
    <3>1. Fired(s, t)  BY <1>4, <2>1, <2>3 DEF MaterializeRows, Fired
    <3> QED  BY <3>1 DEF Fits, Held
  <2> QED  BY <2>2, <2>3
<1>5. Exists(s)' <=> Exists(s)  BY <1>1, <1>2 DEF Exists
<1> QED  BY <1>1, <1>2, <1>3, <1>4, <1>5

\* What a step of request p may do to a row that is there, and to one that is new.
KeepsGrid(p, s) ==
    ~Requested("retime", s)' =>
        /\ sched'[s].timing = sched[s].timing
        /\ Writes(p, s)' /\ req'[p].op = "edit" => req'[p].timing = sched[s].timing
        /\ sched[s].timing.kind = "once" \/ ~Requested("activate", s)' =>
              /\ Fits(s, sched'[s].next)
              /\ Writes(p, s)' => Fits(s, req'[p].next)
        /\ \A t \in 0 .. MaxTime : Fired(s, t)' => Fits(s, t)

StartsGrid(p, s) ==
    /\ sched'[s].timing.kind = "once" => sched'[s].next = sched'[s].timing.at
    /\ ~Writes(p, s)'
    /\ \A t \in 0 .. MaxTime : ~Fired(s, t)'

LEMMA GridStep ==
    ASSUME IInv, TypeOK', GridInv, NEW p \in Requests, OthersWait(p), Steady(p), StartsOnTime(p)',
           FiredIsRow', TargetsLaunched',
           \A s \in Schedules : Exists(s) => KeepsGrid(p, s),
           \A s \in Schedules : ~Exists(s) /\ Exists(s)' => StartsGrid(p, s)
    PROVE  GridInv'
<1>0. TypeOK /\ \A q \in Requests : StartsOnTime(q)  BY DEF IInv, GridInv
<1>1. \A q \in Requests \ {p} : req'[q] = req[q]  BY DEF OthersWait
<1>2. \A q \in Requests : Steady(q)  BY <1>1 DEF Steady
<1>3. \A q \in Requests : StartsOnTime(q)'
  <2>1. ASSUME NEW q \in Requests \ {p} PROVE StartsOnTime(q)'
    BY <1>0, <1>1 DEF StartsOnTime
  <2> QED  BY <2>1
<1>4. ASSUME NEW s \in Schedules, Exists(s)' PROVE OnGrid(s)'
  <2>1. CASE Exists(s)
    <3>1. OnGrid(s) /\ KeepsGrid(p, s)  BY <2>1 DEF GridInv
    <3>2. \A q \in Requests \ {p} : Writes(q, s)' =>
              /\ Fits(s, req'[q].next)
              /\ req'[q].op = "edit" => req[q].op = "edit" /\ Writes(q, s) /\ req'[q].timing = req[q].timing
      BY <1>1 DEF Writes, Fits, Held
    <3>3. ~Requested("retime", s)' => ~Requested("retime", s)
      BY <1>2, RequestedKept
    <3>4. ~Requested("retime", s)' =>
              \A q \in Requests : Writes(q, s)' /\ req'[q].op = "edit" => req'[q].timing = sched[s].timing
      BY <3>1, <3>2, <3>3 DEF KeepsGrid, OnGrid
    <3>5. ~Requested("retime", s)' =>
              (sched[s].timing.kind = "once" \/ ~Requested("activate", s)' =>
                  /\ Fits(s, sched'[s].next)
                  /\ \A q \in Requests : Writes(q, s)' => Fits(s, req'[q].next))
      BY <3>1, <3>2 DEF KeepsGrid
    <3> HIDE DEF Requested, Writes, Fits
    <3> QED  BY <1>0, <1>2, <3>1, <3>4, <3>5, GridKept DEF KeepsGrid
  <2>2. CASE ~Exists(s)
    <3>1. StartsGrid(p, s)  BY <1>4, <2>2
    <3>2. ASSUME NEW q \in Requests, Writes(q, s)' PROVE FALSE
      <4>1. q # p  BY <3>1, <3>2 DEF StartsGrid
      <4>2. Writes(q, s) /\ HoldsRows(q) /\ Control(q)  BY <1>1, <3>2, <4>1 DEF Writes, IInv
      <4> QED  BY <2>2, <4>2 DEF Writes, HoldsRows
    <3> QED  BY <3>1, <3>2, GridStarts DEF StartsGrid
  <2> QED  BY <2>1, <2>2
<1> QED  BY <1>3, <1>4 DEF GridInv, FiredIsRow, TargetsLaunched

\* ... of a step that leaves the rows and the executions alone.
LEMMA GridRead ==
    ASSUME IInv, TypeOK', GridInv, NEW p \in Requests, OthersWait(p), Steady(p), StartsOnTime(p)',
           UNCHANGED sched, \A s \in Schedules, t \in 0 .. MaxTime : Fired(s, t)' => Fired(s, t),
           \A c \in Campaigns : camp'[c] \in {"absent", "draft"} => camp[c] \in {"absent", "draft"},
           \A s \in Schedules : Writes(p, s)' /\ ~Requested("retime", s)' =>
              /\ req'[p].op = "edit" => req'[p].timing = sched[s].timing
              /\ sched[s].timing.kind = "once" \/ ~Requested("activate", s)' => Fits(s, req'[p].next)
    PROVE  GridInv'
<1>1. FiredIsRow' /\ TargetsLaunched'
  <2>1. FiredIsRow'  BY DEF GridInv, FiredIsRow, Fired, Exists
  <2>2. TargetsLaunched'
    <3> SUFFICES ASSUME NEW s \in Schedules, Exists(s)', CampaignOf[s] # NoCampaign
                 PROVE  camp'[CampaignOf[s]] \notin {"absent", "draft"}
      BY DEF TargetsLaunched
    <3>1. CampaignOf[s] \in Campaigns  OBVIOUS
    <3>2. camp[CampaignOf[s]] \notin {"absent", "draft"}
      BY DEF GridInv, TargetsLaunched, Exists
    <3> QED  BY <3>1, <3>2
  <2> QED  BY <2>1, <2>2
<1>2. \A s \in Schedules : KeepsGrid(p, s)
  <2>1. \A s \in Schedules : Fits(s, sched'[s].next)
    BY DEF Fits, Held
  <2>2. \A s \in Schedules, t \in 0 .. MaxTime : Fired(s, t)' => Fits(s, t)
    BY DEF Fits, Held, Fired
  <2> QED  BY <2>1, <2>2 DEF KeepsGrid
<1>3. \A s \in Schedules : Exists(s)' => Exists(s)  BY DEF Exists
<1> QED  BY <1>1, <1>2, <1>3, GridStep

\* A request that is over writes nothing any more.
LEMMA CloseGrid ==
    ASSUME TypeOK, NEW p \in Requests, NEW outcome \in Over, Close(p, outcome)
    PROVE  /\ OthersWait(p) /\ Steady(p) /\ StartsOnTime(p)'
           /\ \A s \in Schedules : ~Writes(p, s)'
<1>1. req \in [Requests -> RequestState]  BY DEF TypeOK
<1>2. /\ req'[p] = Closed(req[p], outcome, req[p].s)
      /\ \A q \in Requests \ {p} : req'[q] = req[q]
  BY <1>1 DEF Close
<1>3. req'[p].pc = outcome /\ req'[p].op = req[p].op /\ req'[p].s = req[p].s
  BY <1>2 DEF Closed
<1> QED  BY <1>2, <1>3 DEF OthersWait, Steady, StartsOnTime, Writes

LEMMA AnswerGrid ==
    ASSUME TypeOK, NEW p \in Requests, NEW r, NEW k, r.op = "create",
           req[p].op \in {"none", "create"}, AnswerWith(p, r, k)
    PROVE  /\ OthersWait(p) /\ Steady(p) /\ StartsOnTime(p)'
           /\ \A s \in Schedules : ~Writes(p, s)'
<1>1. req \in [Requests -> RequestState]  BY DEF TypeOK
<1> DEFINE outcome == IF sched[k].hash = r.hash THEN "answered" ELSE "failed"
<1>2. /\ req'[p] = Closed(r, outcome, k)
      /\ \A q \in Requests \ {p} : req'[q] = req[q]
  BY <1>1 DEF AnswerWith
<1>3. req'[p].pc \in Over /\ req'[p].op = "create"
  BY <1>2 DEF Closed
<1> QED  BY <1>2, <1>3 DEF OthersWait, Steady, StartsOnTime, Writes

LEMMA AskGrid ==
    ASSUME IInv, TypeOK', GridInv, NEW p \in Requests, Ask(p)
    PROVE  GridInv'
<1>0. TypeOK /\ req \in [Requests -> RequestState] /\ StartsOnTime(p)
  BY DEF IInv, TypeOK, GridInv
<1>1. ASSUME NEW s \in Schedules, NEW t \in Timings, NEW x \in Externals \cup {NoExternal},
             NEW h \in Hashes \cup {NoHash}, ReadExternal(p, s, t, x, h)
      PROVE  GridInv'
  <2> DEFINE r == [Asked("create") EXCEPT !.pc = "check", !.s = s, !.ext = x, !.hash = h,
                                          !.timing = t, !.next = InitialRun(t, now)]
  <2>0. /\ req[p].op = "none" /\ UNCHANGED <<sched, exec, camp>>
        /\ r.pc = "check" /\ r.op = "create" /\ r.timing = t /\ r.next = InitialRun(t, now)
    BY <1>0, <1>1 DEF ReadExternal, Asks, Asked, NewRequest, StartsOnTime
  <2>1. /\ OthersWait(p) /\ Steady(p) /\ StartsOnTime(p)'
        /\ \A z \in Schedules : ~Writes(p, z)'
    <3>1. CASE req' = [req EXCEPT ![p] = r]
      <4> HIDE DEF r
      <4>1. req'[p] = r /\ \A q \in Requests \ {p} : req'[q] = req[q]  BY <1>0, <3>1
      <4>2. t.kind = "once" => InitialRun(t, now) = t.at  BY DEF InitialRun
      <4> QED  BY <2>0, <4>1, <4>2 DEF OthersWait, Steady, StartsOnTime, Writes
    <3>2. CASE \E k \in Known(x) : AnswerWith(p, r, k)
      <4> HIDE DEF r
      <4> QED  BY <1>0, <2>0, <3>2, AnswerGrid
    <3> QED  BY <1>1, <3>1, <3>2 DEF ReadExternal
  <2> HIDE DEF r
  <2> QED  BY <2>0, <2>1, GridRead DEF Fired
<1>2. ASSUME NEW s \in Schedules, ReadForEdit(p, s) \/ \E t \in Timings : ReadForRetime(p, s, t)
      PROVE  GridInv'
  <2>1. /\ req[p].op = "none" /\ UNCHANGED <<sched, exec, camp>>
        /\ \A q \in Requests \ {p} : req'[q] = req[q]
        /\ req'[p].s = s /\ req'[p].pc = "check"
        /\ \/ req'[p].op = "edit" /\ req'[p].timing = sched[s].timing /\ req'[p].next = sched[s].next
           \/ req'[p].op = "retime"
    <3>1. CASE ReadForEdit(p, s)
      BY <1>0, <3>1 DEF ReadForEdit, Asks, Asked, NewRequest, StartsOnTime
    <3>2. ASSUME NEW t \in Timings, ReadForRetime(p, s, t) PROVE <2>1!:
      BY <1>0, <3>2 DEF ReadForRetime, Asks, Asked, NewRequest, StartsOnTime
    <3> QED  BY <1>2, <3>1, <3>2
  <2>2. OthersWait(p) /\ Steady(p) /\ StartsOnTime(p)'
    BY <2>1 DEF OthersWait, Steady, StartsOnTime
  <2>3. \A z \in Schedules : Writes(p, z)' /\ ~Requested("retime", z)' =>
           /\ req'[p].timing = sched[z].timing /\ Fits(z, req'[p].next)
    BY <2>1 DEF Writes, Requested, Fits, Held
  <2> QED  BY <2>1, <2>2, <2>3, GridRead DEF Fired
<1>3. ASSUME NEW s \in Schedules, NEW op \in AllOperations, ReadForStatus(p, op, s)
      PROVE  GridInv'
  <2>1. /\ req[p].op = "none" /\ UNCHANGED <<sched, exec, camp>>
        /\ \A q \in Requests \ {p} : req'[q] = req[q]
        /\ req'[p].s = s /\ req'[p].pc = "status" /\ req'[p].op = op
        /\ op \in {"activate", "pause", "cancel"}
        /\ req'[p].next = IF op = "activate" THEN InitialRun(sched[s].timing, now) ELSE sched[s].next
    BY <1>0, <1>3 DEF ReadForStatus, Asks, Asked, NewRequest, StartsOnTime
  <2>2. OthersWait(p) /\ Steady(p) /\ StartsOnTime(p)'
    BY <2>1 DEF OthersWait, Steady, StartsOnTime
  <2>3. op # "activate" => Fits(s, req'[p].next)  BY <2>1 DEF Fits, Held
  <2>4. op = "activate" /\ sched[s].timing.kind = "once" => Fits(s, req'[p].next)
    BY <2>1 DEF Fits, InitialRun
  <2>5. op = "activate" => Requested("activate", s)'  BY <2>1 DEF Requested
  <2>6. \A z \in Schedules : Writes(p, z)' =>
           /\ req'[p].op # "edit"
           /\ sched[z].timing.kind = "once" \/ ~Requested("activate", z)' => Fits(z, req'[p].next)
    BY <2>1, <2>3, <2>4, <2>5 DEF Writes
  <2> QED  BY <2>1, <2>2, <2>6, GridRead DEF Fired
<1>4. ASSUME NEW c \in Campaigns, ReadForLaunch(p, c) \/ ReadForDrop(p, c)
      PROVE  GridInv'
  <2>1. /\ req[p].op = "none" /\ UNCHANGED <<sched, exec, camp>>
        /\ \A q \in Requests \ {p} : req'[q] = req[q]
        /\ \/ /\ req'[p].pc = "targets" /\ req'[p].op = "launch"
              /\ req'[p].timing = CampaignTiming[c]
              /\ req'[p].next = InitialRun(CampaignTiming[c], now)
           \/ req'[p].pc = "select" /\ req'[p].op = "drop"
    <3>1. CASE ReadForLaunch(p, c)
      BY <1>0, <3>1 DEF ReadForLaunch, Asks, Asked, NewRequest, StartsOnTime
    <3>2. CASE ReadForDrop(p, c)
      BY <1>0, <3>2 DEF ReadForDrop, Asks, Asked, NewRequest, StartsOnTime
    <3> QED  BY <1>4, <3>1, <3>2
  <2>2. OthersWait(p) /\ Steady(p) /\ StartsOnTime(p)'
    BY <2>1 DEF OthersWait, Steady, StartsOnTime, InitialRun
  <2>3. \A z \in Schedules : ~Writes(p, z)'  BY <2>1 DEF Writes
  <2> QED  BY <2>1, <2>2, <2>3, GridRead DEF Fired
<1> QED  BY <1>1, <1>2, <1>3, <1>4 DEF Ask

\* The steps of a request that write no row.
LEMMA WaitGrid ==
    ASSUME IInv, TypeOK', GridInv, NEW p \in Requests,
           \/ CheckConflict(p) \/ Recheck(p) \/ Sweep(p) \/ SelectTargets(p)
           \/ FinishDrop(p) \/ BreakOff(p)
           \/ \E s \in Schedules : CheckTarget(p, s) \/ DropNext(p, s)
    PROVE  GridInv'
<1>0. /\ TypeOK /\ req \in [Requests -> RequestState] /\ req[p] \in RequestState
      /\ StartsOnTime(p) /\ Control(p) /\ HoldsRows(p)
  BY DEF IInv, TypeOK, GridInv
<1>1. UNCHANGED sched
  BY DEF CheckConflict, Recheck, Sweep, SelectTargets, FinishDrop, BreakOff, CheckTarget, DropNext
<1>2. \A s \in Schedules, t \in 0 .. MaxTime : Fired(s, t)' => Fired(s, t)
  <2>1. CASE Sweep(p)  BY <2>1 DEF Sweep, Swept, Fired, Occurrences
  <2>2. CASE ~Sweep(p)
    <3>1. exec' = exec
      BY <2>2 DEF CheckConflict, Recheck, SelectTargets, FinishDrop, BreakOff, CheckTarget, DropNext
    <3> QED  BY <3>1 DEF Fired
  <2> QED  BY <2>1, <2>2
<1>3. \A c \in Campaigns : camp'[c] \in {"absent", "draft"} => camp[c] \in {"absent", "draft"}
  BY <1>0 DEF TypeOK, CheckConflict, Recheck, Sweep, SelectTargets, FinishDrop, BreakOff,
              CheckTarget, DropNext
<1>4. CASE \/ \E outcome \in Over : Close(p, outcome)
           \/ Recheck(p) /\ \E k \in Known(req[p].ext) : AnswerWith(p, req[p], k)
  <2>1. /\ OthersWait(p) /\ Steady(p) /\ StartsOnTime(p)'
        /\ \A s \in Schedules : ~Writes(p, s)'
    <3>1. CASE \E outcome \in Over : Close(p, outcome)  BY <1>0, <3>1, CloseGrid
    <3>2. CASE Recheck(p) /\ \E k \in Known(req[p].ext) : AnswerWith(p, req[p], k)
      <4>1. req[p].op = "create"  BY <1>0, <3>2 DEF Recheck, Control
      <4> QED  BY <1>0, <3>2, <4>1, AnswerGrid
    <3> QED  BY <1>4, <3>1, <3>2
  <2> QED  BY <1>1, <1>2, <1>3, <2>1, GridRead
<1>5. CASE \E pc \in {"recheck", "insert", "write"} : CheckConflict(p) /\ Goto(p, pc)
  <2>1. PICK pc \in {"recheck", "insert", "write"} : CheckConflict(p) /\ Goto(p, pc)  BY <1>5
  <2>2. /\ req[p].pc = "check" /\ req'[p] = [req[p] EXCEPT !.pc = pc]
        /\ \A q \in Requests \ {p} : req'[q] = req[q]
    BY <1>0, <2>1 DEF CheckConflict, Goto
  <2>3. /\ req'[p].pc = pc /\ req'[p].op = req[p].op /\ req'[p].s = req[p].s
        /\ req'[p].timing = req[p].timing /\ req'[p].next = req[p].next
    BY <1>0, <2>2 DEF RequestState
  <2>4. OthersWait(p) /\ Steady(p) /\ StartsOnTime(p)'
    BY <1>0, <2>2, <2>3 DEF OthersWait, Steady, StartsOnTime
  <2>5. \A s \in Schedules : Writes(p, s)' => Writes(p, s) /\ Fits(s, req'[p].next)
    BY <2>2, <2>3 DEF Writes, Fits, Held
  <2>6. \A s \in Schedules : Writes(p, s)' /\ ~Requested("retime", s)' /\ req'[p].op = "edit" =>
            req'[p].timing = sched[s].timing
    <3> SUFFICES ASSUME NEW s \in Schedules, Writes(p, s)', ~Requested("retime", s)', req'[p].op = "edit"
                 PROVE  req[p].timing = sched[s].timing
      BY <2>3
    <3>1. Writes(p, s) /\ req[p].op = "edit"  BY <2>3, <2>5
    <3>2. Exists(s)  BY <1>0, <2>2, <3>1 DEF HoldsRows, Writes
    <3>3. ~Requested("retime", s)
      <4>1. \A q \in Requests : Steady(q)  BY <2>2, <2>4 DEF Steady
      <4> QED  BY <4>1, RequestedKept
    <3> QED  BY <3>1, <3>2, <3>3 DEF GridInv, OnGrid
  <2> QED  BY <1>1, <1>2, <1>3, <2>4, <2>5, <2>6, GridRead
<1>6. CASE \/ Sweep(p) /\ Goto(p, "drop")
           \/ SelectTargets(p)
           \/ \E s \in Schedules : DropNext(p, s)
           \/ \E s \in Schedules : CheckTarget(p, s) /\ req' = [req EXCEPT ![p].todo = @ \ {s}]
  <2>1. /\ \A q \in Requests \ {p} : req'[q] = req[q]
        /\ req'[p].op = req[p].op /\ req[p].pc # "new"
        /\ \/ req[p].op = "drop" /\ req'[p].pc = "drop"
           \/ /\ req[p].op = "drop" /\ req'[p].pc = "status"
              /\ \A s \in Schedules : req'[p].s = s => req'[p].next = sched[s].next
           \/ /\ req'[p].pc = "targets" /\ req'[p].s = req[p].s /\ req[p].op = "launch"
              /\ req'[p].timing = req[p].timing /\ req'[p].next = req[p].next /\ req[p].pc = "targets"
    <3>1. CASE Sweep(p) /\ Goto(p, "drop")
      <4>1. req'[p].op = req[p].op  BY <1>0, <3>1 DEF Goto, RequestState
      <4>2. req'[p].s = req[p].s  BY <1>0, <3>1 DEF Goto, RequestState
      <4>3. req'[p].pc = "drop" /\ req[p].pc = "sweep"  BY <1>0, <3>1 DEF Goto, Sweep, RequestState
      <4>4. req[p].op = "drop"
        BY <1>0, <3>1 DEF Sweep, Goto, Close, Closed, RequestState
      <4> QED  BY <1>0, <3>1, <4>1, <4>2, <4>3, <4>4 DEF Goto
    <3>2. CASE SelectTargets(p)
      BY <1>0, <3>2 DEF SelectTargets, RequestState, Control
    <3>3. ASSUME NEW s \in Schedules, DropNext(p, s) PROVE <2>1!:
      BY <1>0, <3>3, ZenonT(60) DEF DropNext, RequestState, Control
    <3>4. ASSUME NEW s \in Schedules, CheckTarget(p, s), req' = [req EXCEPT ![p].todo = @ \ {s}]
          PROVE  <2>1!:
      BY <1>0, <3>4 DEF CheckTarget, RequestState, Control
    <3> QED  BY <1>6, <3>1, <3>2, <3>3, <3>4
  <2>2. OthersWait(p) /\ Steady(p) /\ StartsOnTime(p)'
    BY <1>0, <2>1 DEF OthersWait, Steady, StartsOnTime
  <2>3. \A s \in Schedules : Writes(p, s)' => req'[p].op # "edit" /\ Fits(s, req'[p].next)
    BY <2>1 DEF Writes, Fits, Held
  <2> QED  BY <1>1, <1>2, <1>3, <2>2, <2>3, GridRead
<1> QED  BY <1>4, <1>5, <1>6 DEF CheckConflict, Recheck, Sweep, SelectTargets, FinishDrop, BreakOff,
                                 CheckTarget, DropNext

\* A write puts back what was read.
LEMMA WriteGrid ==
    ASSUME IInv, TypeOK', GridInv, NEW p \in Requests, WriteEdit(p) \/ WriteStatus(p)
    PROVE  GridInv'
<1>0. /\ TypeOK /\ req \in [Requests -> RequestState] /\ sched \in [Schedules -> ScheduleRow]
      /\ req[p] \in RequestState /\ StartsOnTime(p) /\ Control(p) /\ HoldsRows(p)
      /\ UNCHANGED <<exec, camp>>
  BY DEF IInv, TypeOK, GridInv, WriteEdit, WriteStatus
<1>1. PICK s \in Schedules : s = req[p].s /\ Exists(s) /\ Writes(p, s)
  BY <1>0 DEF WriteEdit, WriteStatus, HoldsRows, Control, Writes
<1>2. \A z \in Schedules \ {s} : sched'[z] = sched[z]
  BY <1>0, <1>1 DEF WriteEdit, WriteStatus
<1>3. /\ sched'[s].next = req[p].next /\ sched'[s].status # "absent"
      /\ sched'[s].timing = IF req[p].pc = "write" THEN req[p].timing ELSE sched[s].timing
  <2>1. CASE WriteEdit(p)
    BY <1>0, <1>1, <2>1 DEF WriteEdit, ScheduleRow, Exists
  <2>2. CASE WriteStatus(p)
    <3>1. Goal(req[p].op) # "absent"  BY DEF Goal
    <3>2. sched'[s].next = req[p].next /\ sched'[s].status = Goal(req[p].op)
          /\ sched'[s].timing = sched[s].timing
      BY <1>0, <1>1, <2>2 DEF WriteStatus, ScheduleRow
    <3> QED  BY <2>2, <3>1, <3>2 DEF WriteStatus
  <2> QED  BY <2>1, <2>2
<1>4. /\ OthersWait(p) /\ Steady(p) /\ StartsOnTime(p)'
      /\ \A z \in Schedules : ~Writes(p, z)'
  <2>1. CASE \E outcome \in Over : Close(p, outcome)  BY <1>0, <2>1, CloseGrid
  <2>2. CASE Goto(p, "sweep")
    <3>1. /\ req'[p].pc = "sweep" /\ req'[p].op = req[p].op /\ req'[p].s = req[p].s
          /\ \A q \in Requests \ {p} : req'[q] = req[q]
      BY <1>0, <2>2 DEF Goto, RequestState
    <3> QED  BY <3>1 DEF OthersWait, Steady, StartsOnTime, Writes
  <2> QED  BY <2>1, <2>2 DEF WriteEdit, WriteStatus
<1>5. /\ \A z \in Schedules : Exists(z)' <=> Exists(z)
      /\ \A z \in Schedules, t \in 0 .. MaxTime : Fired(z, t)' <=> Fired(z, t)
  BY <1>0, <1>1, <1>2, <1>3 DEF Exists, Fired
<1>6. FiredIsRow' /\ TargetsLaunched'
  BY <1>0, <1>5 DEF GridInv, FiredIsRow, TargetsLaunched
<1>7. ASSUME NEW z \in Schedules, Exists(z) PROVE KeepsGrid(p, z)
  <2> SUFFICES ASSUME ~Requested("retime", z)'
               PROVE  sched'[z].timing = sched[z].timing /\ Fits(z, sched'[z].next)
    BY <1>4, <1>5 DEF KeepsGrid, Fits, Held
  <2>1. ~Requested("retime", z)
    <3>1. \A q \in Requests : Steady(q)  BY <1>4 DEF OthersWait, Steady
    <3> QED  BY <3>1, RequestedKept
  <2>2. CASE z # s  BY <1>2, <2>2 DEF Fits, Held
  <2>3. CASE z = s
    <3>1. Fits(s, req[p].next)  BY <1>1 DEF Fits, Held
    <3>2. req[p].op # "retime"  BY <1>1, <2>1, <2>3 DEF Requested
    <3>3. req[p].pc = "write" => req[p].timing = sched[s].timing
      <4>1. OnGrid(s)  BY <1>1 DEF GridInv
      <4> QED  BY <1>0, <1>1, <2>1, <2>3, <3>2, <4>1 DEF OnGrid, Control
    <3> QED  BY <1>3, <2>3, <3>1, <3>3
  <2> QED  BY <2>2, <2>3
<1> QED  BY <1>0, <1>4, <1>5, <1>6, <1>7, GridStep

\* The transactions that create rows: their executions are still to come.
LEMMA CreateGrid ==
    ASSUME IInv, TypeOK', GridInv, NEW p \in Requests, Insert(p) \/ Launch(p)
    PROVE  GridInv'
<1>0. /\ TypeOK /\ req \in [Requests -> RequestState] /\ sched \in [Schedules -> ScheduleRow]
      /\ req[p] \in RequestState /\ StartsOnTime(p) /\ Control(p) /\ OwnsItsId(p)
      /\ exec' = exec /\ camp \in [Campaigns -> CampaignStatus]
  BY DEF IInv, TypeOK, GridInv, Insert, Launch
<1>1. CASE \/ Insert(p) /\ UNCHANGED sched
           \/ Launch(p) /\ UNCHANGED <<sched, camp>> /\ Close(p, "failed")
  <2>1. /\ OthersWait(p) /\ Steady(p) /\ StartsOnTime(p)'
        /\ \A s \in Schedules : ~Writes(p, s)'
    <3>1. CASE \E outcome \in Over : Close(p, outcome)  BY <1>0, <3>1, CloseGrid
    <3>2. CASE Insert(p) /\ \E k \in Known(req[p].ext) : AnswerWith(p, req[p], k)
      <4>1. req[p].op = "create"  BY <1>0, <3>2 DEF Insert, Control
      <4> QED  BY <1>0, <3>2, <4>1, AnswerGrid
    <3>3. CASE Insert(p) /\ Goto(p, "fire")
      <4>1. /\ req'[p].pc = "fire" /\ req'[p].op = req[p].op /\ req'[p].s = req[p].s
            /\ \A q \in Requests \ {p} : req'[q] = req[q]
        BY <1>0, <3>3 DEF Goto, RequestState
      <4> QED  BY <4>1 DEF OthersWait, Steady, StartsOnTime, Writes
    <3> QED  BY <1>1, <3>1, <3>2, <3>3 DEF Insert
  <2>2. UNCHANGED <<sched, camp>>  BY <1>1 DEF Insert
  <2> QED  BY <1>0, <2>1, <2>2, GridRead DEF Fired
<1>2. CASE \/ /\ Insert(p)
              /\ sched' = [sched EXCEPT ![req[p].s] =
                              [status |-> "active", timing |-> req[p].timing,
                               next |-> req[p].next, ext |-> req[p].ext, hash |-> req[p].hash]]
              /\ Goto(p, "fire") \/ Close(p, "answered")
           \/ /\ Launch(p) /\ CanLaunch(req[p].camp)
              /\ camp' = [camp EXCEPT ![req[p].camp] = "active"]
              /\ sched' = [s \in Schedules |->
                              IF s \in Targets(req[p].camp) THEN LaunchedRow(req[p]) ELSE sched[s]]
              /\ \/ req' = [req EXCEPT ![p].pc = "fireTargets", ![p].todo = Targets(req[p].camp)]
                 \/ Close(p, "answered")
  <2> DEFINE New == IF Insert(p) THEN {req[p].s} ELSE Targets(req[p].camp)
  <2>1. \A s \in New : s \in Schedules /\ ~Exists(s)
    <3>1. CASE Insert(p)
      BY <1>0, <3>1 DEF Insert, Control, OwnsItsId, Creating
    <3>2. CASE ~Insert(p)
      <4>1. camp[req[p].camp] = "draft"  BY <1>2, <3>2 DEF CanLaunch
      <4>2. req[p].camp # NoCampaign  BY <1>0, <1>2, <3>2 DEF Launch, Control
      <4> QED  BY <3>2, <4>1, <4>2 DEF Targets, GridInv, TargetsLaunched
    <3> QED  BY <3>1, <3>2
  <2>2. /\ \A s \in New : /\ sched'[s].status = "active" /\ sched'[s].timing = req[p].timing
                          /\ sched'[s].next = req[p].next
        /\ \A s \in Schedules \ New : sched'[s] = sched[s]
    <3>1. CASE Insert(p)
      <4>1. req[p].s \in Schedules  BY <2>1, <3>1
      <4>2. req[p].pc = "insert"  BY <3>1 DEF Insert
      <4>3. ~Launch(p)  BY <4>2 DEF Launch
      <4> QED  BY <1>0, <1>2, <3>1, <4>1, <4>3
    <3>2. CASE ~Insert(p)  BY <1>2, <3>2, <2>1 DEF LaunchedRow, NoRow
    <3> QED  BY <3>1, <3>2
  <2>3. /\ OthersWait(p) /\ Steady(p) /\ StartsOnTime(p)'
        /\ \A s \in Schedules : ~Writes(p, s)'
    <3>1. CASE \E outcome \in Over : Close(p, outcome)  BY <1>0, <3>1, CloseGrid
    <3>2. CASE Insert(p) /\ Goto(p, "fire")
      <4>1. /\ req'[p].pc = "fire" /\ req'[p].op = req[p].op /\ req'[p].s = req[p].s
            /\ \A q \in Requests \ {p} : req'[q] = req[q]
        BY <1>0, <3>2 DEF Goto, RequestState
      <4> QED  BY <4>1 DEF OthersWait, Steady, StartsOnTime, Writes
    <3>3. CASE req' = [req EXCEPT ![p].pc = "fireTargets", ![p].todo = Targets(req[p].camp)]
      <4>1. /\ req'[p].pc = "fireTargets" /\ req'[p].op = req[p].op /\ req'[p].s = req[p].s
            /\ \A q \in Requests \ {p} : req'[q] = req[q]
        BY <1>0, <3>3 DEF RequestState
      <4> QED  BY <4>1 DEF OthersWait, Steady, StartsOnTime, Writes
    <3> QED  BY <1>2, <3>1, <3>2, <3>3
  <2>4. \A s \in Schedules : Exists(s)' <=> Exists(s) \/ s \in New
    BY <2>1, <2>2 DEF Exists
  <2>5. \A s \in Schedules, t \in 0 .. MaxTime : (Fired(s, t)' <=> Fired(s, t)) /\ (Fired(s, t) => Exists(s))
    BY <1>0 DEF Fired, GridInv, FiredIsRow
  <2>6. FiredIsRow'  BY <2>4, <2>5 DEF FiredIsRow
  <2>7. TargetsLaunched'
    <3>1. CASE Insert(p)
      <4>1. CampaignOf[req[p].s] = NoCampaign /\ camp' = camp
        BY <1>0, <3>1 DEF Insert, Control, OwnsItsId, Creating
      <4> QED  BY <3>1, <2>4, <4>1 DEF GridInv, TargetsLaunched
    <3>2. CASE ~Insert(p)
      <4>1. req[p].camp \in Campaigns  BY <1>0, <1>2, <3>2 DEF Launch, Control
      <4> QED  BY <1>0, <1>2, <2>4, <3>2, <4>1 DEF GridInv, TargetsLaunched, Targets
    <3> QED  BY <3>1, <3>2
  <2>8. \A s \in Schedules : Exists(s) => KeepsGrid(p, s)
    BY <2>1, <2>2, <2>3, <2>5 DEF KeepsGrid, Fits, Held
  <2>9. \A s \in Schedules : ~Exists(s) /\ Exists(s)' => StartsGrid(p, s)
    <3>1. req[p].timing.kind = "once" => req[p].next = req[p].timing.at
      BY <1>0, <1>2 DEF StartsOnTime, Insert, Launch, Control
    <3> QED  BY <2>2, <2>3, <2>4, <2>5, <3>1 DEF StartsGrid
  <2> HIDE DEF New
  <2> QED  BY <2>3, <2>6, <2>7, <2>8, <2>9, GridStep
<1> QED  BY <1>1, <1>2 DEF Insert, Launch

\* Materializing, by a request and by the timer.
LEMMA FireGrid ==
    ASSUME IInv, TypeOK', GridInv, NEW p \in Requests,
           Fire(p) \/ \E s \in Schedules : FireTarget(p, s)
    PROVE  GridInv'
<1>0. /\ TypeOK /\ req \in [Requests -> RequestState] /\ req[p] \in RequestState /\ Control(p)
      /\ UNCHANGED camp
  BY DEF IInv, TypeOK, Fire, FireTarget
<1>1. req[p].at \in Int /\ (Fire(p) => req[p].s \in Schedules)
  <2>1. req[p].at \in Int  BY <1>0 DEF RequestState
  <2>2. AnswerIsRow(p)  BY DEF IInv
  <2> QED  BY <1>0, <2>1, <2>2 DEF Fire, AnswerIsRow, Control
<1>2. PICK S \in SUBSET Schedules : MaterializeRows(DueRows(S, req[p].at), req[p].at)
  BY <1>1 DEF Fire, FireTarget
<1>3. /\ OthersWait(p) /\ Steady(p) /\ StartsOnTime(p)'
      /\ \A s \in Schedules : ~Writes(p, s)'
  <2>1. CASE \E outcome \in Over : Close(p, outcome)  BY <1>0, <2>1, CloseGrid
  <2>2. ASSUME NEW s \in Schedules, FireTarget(p, s), req' = [req EXCEPT ![p].todo = @ \ {s}]
        PROVE  <1>3!:
    <3>1. /\ req'[p].pc = "fireTargets" /\ req'[p].op = req[p].op /\ req'[p].s = req[p].s
          /\ \A q \in Requests \ {p} : req'[q] = req[q]
      BY <1>0, <2>2 DEF FireTarget, RequestState
    <3> QED  BY <3>1 DEF OthersWait, Steady, StartsOnTime, Writes
  <2> QED  BY <2>1, <2>2 DEF Fire, FireTarget
<1>4. \A s \in Schedules :
         /\ sched'[s].timing = sched[s].timing /\ (Exists(s)' <=> Exists(s))
         /\ Fits(s, sched'[s].next)
         /\ \A t \in 0 .. MaxTime : Fired(s, t)' => Fits(s, t)
         /\ \A t \in 0 .. MaxTime : Fired(s, t)' => Fired(s, t) \/ Exists(s)
  BY <1>0, <1>1, <1>2, MaterializeGrid
<1>5. FiredIsRow' /\ TargetsLaunched'
  BY <1>0, <1>4 DEF GridInv, FiredIsRow, TargetsLaunched
<1>6. \A s \in Schedules : KeepsGrid(p, s)  BY <1>3, <1>4 DEF KeepsGrid
<1> QED  BY <1>3, <1>4, <1>5, <1>6, GridStep

LEMMA QuietGrid ==
    ASSUME IInv, TypeOK', GridInv, UNCHANGED req,
           \/ \E c \in Campaigns : CreateCampaign(c)
           \/ \E o \in Occurrences : Take(o)
           \/ Materialize \/ Tick \/ UNCHANGED vars
    PROVE  GridInv'
<1>0. TypeOK  BY DEF IInv
<1>1. \A s \in Schedules :
         /\ sched'[s].timing = sched[s].timing /\ (Exists(s)' <=> Exists(s))
         /\ Fits(s, sched'[s].next)
         /\ \A t \in 0 .. MaxTime : Fired(s, t)' => Fits(s, t)
         /\ \A t \in 0 .. MaxTime : Fired(s, t)' => Fired(s, t) \/ Exists(s)
  <2>1. CASE Materialize
    <3>1. now \in Int /\ Schedules \in SUBSET Schedules  BY <1>0 DEF TypeOK
    <3> QED  BY <1>0, <2>1, <3>1, MaterializeGrid DEF Materialize
  <2>2. CASE ~Materialize
    <3>1. UNCHANGED sched  BY <2>2 DEF CreateCampaign, Take, Tick, vars
    <3>2. \A s \in Schedules, t \in 0 .. MaxTime : Fired(s, t)' => Fired(s, t)
      <4>1. CASE \E o \in Occurrences : Take(o)
        <5>1. PICK o \in Occurrences : Take(o)  BY <4>1
        <5>2. exec \in [Occurrences -> {"absent", "queued", "taken", "cancelled"}]  BY <1>0 DEF TypeOK
        <5> QED  BY <5>1, <5>2 DEF Take, Fired, Occurrences
      <4>2. CASE UNCHANGED exec  BY <4>2 DEF Fired
      <4> QED  BY <2>2, <4>1, <4>2 DEF CreateCampaign, Tick, vars
    <3> QED  BY <3>1, <3>2 DEF Exists, Fits, Held
  <2> QED  BY <2>1, <2>2
<1>2. \A c \in Campaigns : camp'[c] \in {"absent", "draft"} => camp[c] \in {"absent", "draft"}
  <2>1. camp \in [Campaigns -> CampaignStatus]  BY <1>0 DEF TypeOK
  <2> QED  BY <2>1 DEF CreateCampaign, Take, Materialize, Tick, vars
<1>3. FiredIsRow' /\ TargetsLaunched'
  <2>1. FiredIsRow'  BY <1>1 DEF GridInv, FiredIsRow
  <2>2. TargetsLaunched'
    <3>1. \A s \in Schedules : CampaignOf[s] # NoCampaign => CampaignOf[s] \in Campaigns
      OBVIOUS
    <3> QED  BY <1>1, <1>2, <3>1 DEF GridInv, TargetsLaunched
  <2> QED  BY <2>1, <2>2
<1>4. \A p \in Requests : StartsOnTime(p)'  BY DEF GridInv, StartsOnTime
<1>5. ASSUME NEW s \in Schedules, Exists(s)' PROVE OnGrid(s)'
  <2>1. OnGrid(s)  BY <1>1, <1>5 DEF GridInv
  <2>2. \A p \in Requests : Steady(p)  BY DEF Steady
  <2>3. \A p \in Requests : Writes(p, s)' => Writes(p, s) /\ Fits(s, req'[p].next)
    BY DEF Writes, Fits, Held
  <2>4. ~Requested("retime", s)' =>
           \A p \in Requests : Writes(p, s)' /\ req'[p].op = "edit" => req'[p].timing = sched[s].timing
    BY <2>1, <2>3 DEF OnGrid, Requested
  <2> QED  BY <1>0, <1>1, <2>1, <2>2, <2>3, <2>4, GridKept
<1> QED  BY <1>3, <1>4, <1>5 DEF GridInv

LEMMA GridInit == Init => GridInv
  BY DEF Init, GridInv, FiredIsRow, TargetsLaunched, StartsOnTime, NewRequest, NoRow, Exists, Fired,
         Occurrences

LEMMA GridNext ==
    ASSUME IInv, GridInv, [Next]_vars
    PROVE  GridInv'
<1>0. TypeOK'  BY NextTypes DEF IInv
<1>1. ASSUME NEW p \in Requests, Ask(p) PROVE GridInv'  BY <1>0, <1>1, AskGrid
<1>2. ASSUME NEW p \in Requests, Proceed(p) PROVE GridInv'
  BY <1>0, <1>2, WaitGrid, WriteGrid, CreateGrid, FireGrid DEF Proceed
<1>3. ASSUME NEW p \in Requests, BreakOff(p) PROVE GridInv'  BY <1>0, <1>3, WaitGrid
<1>4. CASE \/ \E c \in Campaigns : CreateCampaign(c)
           \/ \E o \in Occurrences : Take(o)
           \/ Materialize \/ Tick \/ UNCHANGED vars
  <2>1. UNCHANGED req  BY <1>4 DEF CreateCampaign, Take, Materialize, Tick, vars
  <2> QED  BY <1>0, <1>4, <2>1, QuietGrid
<1> QED  BY <1>1, <1>2, <1>3, <1>4 DEF Next

\* The grid invariant holds, on top of IInv: HoldsRows is what lets a pending write be
\* attributed to a row, and OwnsItsId what keeps a new row from being an old one.
LEMMA GridInvariance == Spec => []GridInv
<1>1. IInv /\ GridInv /\ [Next]_vars => GridInv'  BY GridNext
<1> QED  BY <1>1, GridInit, Invariance, PTL DEF Spec

\* A one-shot that nobody retimed has one occurrence: edits, pauses, resumes and the
\* timer hand on the one instant it was created with.
THEOREM OneShotsFireOnce == Spec => []OneShotFiresOnce
<1>1. ASSUME GridInv PROVE OneShotFiresOnce
  <2> SUFFICES ASSUME NEW s \in Schedules, NEW t1 \in 0 .. MaxTime, NEW t2 \in 0 .. MaxTime,
                      OneShot(sched[s].timing), ~Requested("retime", s),
                      sched[s].timing.kind = "once" \/ ~Requested("activate", s),
                      Fired(s, t1), Fired(s, t2)
               PROVE  t1 = t2
    BY DEF OneShotFiresOnce
  <2>1. OnGrid(s)  BY <1>1 DEF GridInv, FiredIsRow
  <2>2. PICK x \in Int : Anchored(s, x)  BY <2>1 DEF OnGrid
  <2>3. {t1, t2} \subseteq Held(s) \ {Never}  BY DEF Held, Never
  <2> QED  BY <2>2, <2>3 DEF Anchored, SameGrid
<1> QED  BY <1>1, GridInvariance, PTL

LEMMA Apart ==
    ASSUME NEW a \in Int, NEW b \in Int, NEW x \in Int, NEW l \in Int, NEW m \in Int,
           NEW k \in Nat \ {0}, a = x + l * k, b = x + m * k, a < b
    PROVE  b - a >= k
<1>1. l * k \in Int /\ m * k \in Int  OBVIOUS
<1>2. b - a = (m - l) * k  BY <1>1
<1>3. m - l > 0
  <2> SUFFICES ASSUME m - l <= 0 PROVE FALSE
    OBVIOUS
  <2>1. (l - m) * k >= 0  OBVIOUS
  <2>2. (l - m) * k = l * k - m * k  OBVIOUS
  <2> QED  BY <1>1, <2>1, <2>2
<1>4. (m - l - 1) * k >= 0  BY <1>3
<1>5. (m - l - 1) * k = (m - l) * k - k  OBVIOUS
<1> QED  BY <1>2, <1>4, <1>5

\* Occurrences of an interval schedule lie on one grid, whatever a late timer skips.
THEOREM IntervalsKeepDistance == Spec => []IntervalSpacing
<1>1. ASSUME TypeOK, GridInv PROVE IntervalSpacing
  <2> SUFFICES ASSUME NEW s \in Schedules, NEW t1 \in 0 .. MaxTime, NEW t2 \in 0 .. MaxTime,
                      sched[s].timing.kind = "interval", ~Requested("retime", s),
                      ~Requested("activate", s), t1 < t2, Fired(s, t1), Fired(s, t2)
               PROVE  t2 - t1 >= sched[s].timing.every
    BY DEF IntervalSpacing
  <2>1. OnGrid(s)  BY <1>1 DEF GridInv, FiredIsRow
  <2>2. PICK x \in Int : Anchored(s, x)  BY <2>1 DEF OnGrid
  <2>3. {t1, t2} \subseteq Held(s) \ {Never}  BY DEF Held, Never
  <2>4. PICK l \in Int, m \in Int :
            t1 = x + l * sched[s].timing.every /\ t2 = x + m * sched[s].timing.every
    BY <2>2, <2>3 DEF Anchored, SameGrid
  <2>5. sched[s].timing.every \in Nat \ {0}  BY <1>1 DEF TypeOK, ScheduleRow, Timing
  <2>6. t1 \in Int /\ t2 \in Int  OBVIOUS
  <2> HIDE DEF Fired
  <2> QED  BY <2>4, <2>5, <2>6, Apart
<1> QED  BY <1>1, GridInvariance, TypeCorrect, PTL

(***************************************************************************)
(* Cancelling a campaign                                                   *)
(***************************************************************************)
Live(s) == sched[s].status \in {"active", "paused"}
Revived(s) == Requested("activate", s) \/ Requested("pause", s)

Dropping(p) ==
    req[p].op = "drop" /\ req[p].seen = "active" /\ req[p].pc \notin Over =>
        /\ camp[req[p].camp] \notin {"absent", "draft"}
        /\ req[p].pc # "select" =>
              \A s \in Targets(req[p].camp) : Live(s) =>
                  \/ Revived(s) \/ s \in req[p].todo
                  \/ req[p].pc = "status" /\ req[p].s = s


\* What any step may do that matters to a cancellation under way.
Effects ==
    /\ \A p \in Requests : Steady(p)
    /\ \A c \in Campaigns : camp'[c] \in {"absent", "draft"} => camp[c] \in {"absent", "draft"}
    /\ \A s \in Schedules : CampaignOf[s] # NoCampaign /\ Live(s)' =>
           Live(s) \/ Revived(s) \/ camp[CampaignOf[s]] = "draft"

LEMMA RequestEffects ==
    ASSUME IInv, GridInv, NEW p \in Requests, Ask(p) \/ Proceed(p) \/ BreakOff(p)
    PROVE  Effects /\ OthersWait(p)
<1>0. /\ TypeOK /\ req \in [Requests -> RequestState] /\ sched \in [Schedules -> ScheduleRow]
      /\ camp \in [Campaigns -> CampaignStatus]
      /\ req[p] \in RequestState /\ StartsOnTime(p) /\ Control(p) /\ HoldsRows(p) /\ OwnsItsId(p)
  BY DEF IInv, TypeOK, GridInv
<1>1. OthersWait(p) /\ Steady(p)
  <2>1. CASE \E outcome \in Over : Close(p, outcome)  BY <1>0, <2>1, CloseGrid
  <2>2. CASE \E r, k : r.op = "create" /\ req[p].op \in {"none", "create"} /\ AnswerWith(p, r, k)
    BY <1>0, <2>2, AnswerGrid
  <2>3. CASE Ask(p)
    <3>1. req[p].op = "none"
      <4>1. req[p].pc = "new"
        BY <2>3 DEF Ask, ReadExternal, ReadForEdit, ReadForRetime, ReadForStatus, ReadForLaunch,
           ReadForDrop, Asks
      <4> QED  BY <1>0, <4>1 DEF StartsOnTime
    <3>2. \E v : req' = [req EXCEPT ![p] = v]
      <4>1. ASSUME NEW s, NEW t, NEW x, NEW h, ReadExternal(p, s, t, x, h) PROVE <3>2!:
        BY <4>1 DEF ReadExternal, AnswerWith
      <4>2. ASSUME NEW s, ReadForEdit(p, s) PROVE <3>2!:
        BY <4>2 DEF ReadForEdit
      <4>3. ASSUME NEW s, NEW t, ReadForRetime(p, s, t) PROVE <3>2!:
        BY <4>3 DEF ReadForRetime
      <4>4. ASSUME NEW s, NEW op, ReadForStatus(p, op, s) PROVE <3>2!:
        BY <4>4 DEF ReadForStatus
      <4>5. ASSUME NEW c, ReadForLaunch(p, c) \/ ReadForDrop(p, c) PROVE <3>2!:
        BY <4>5 DEF ReadForLaunch, ReadForDrop
      <4> QED  BY <2>3, <4>1, <4>2, <4>3, <4>4, <4>5 DEF Ask
    <3>3. OthersWait(p)  BY <1>0, <3>2 DEF OthersWait
    <3> QED  BY <3>1, <3>3 DEF Steady
  <2>4. CASE \E pc : Goto(p, pc)
    BY <1>0, <2>4 DEF Goto, OthersWait, Steady, RequestState
  <2>5. CASE \E S, pc : \/ req' = [req EXCEPT ![p].pc = pc, ![p].todo = S]
                        \/ req' = [req EXCEPT ![p].todo = S]
    <3>1. PICK S, pc : \/ req' = [req EXCEPT ![p].pc = pc, ![p].todo = S]
                       \/ req' = [req EXCEPT ![p].todo = S]
      BY <2>5
    <3>2. req'[p].op = req[p].op /\ req'[p].s = req[p].s
      BY <1>0, <3>1 DEF RequestState
    <3> QED  BY <1>0, <3>1, <3>2 DEF OthersWait, Steady
  <2>6. ASSUME NEW s \in Schedules, DropNext(p, s) PROVE OthersWait(p) /\ Steady(p)
    BY <1>0, <2>6 DEF DropNext, OthersWait, Steady, RequestState, Control
  <2>7. CASE Proceed(p) \/ BreakOff(p)
    <3>1. ASSUME NEW k, Insert(p) \/ Recheck(p), AnswerWith(p, req[p], k)
          PROVE  OthersWait(p) /\ Steady(p)
      <4>1. req[p].op = "create"  BY <1>0, <3>1 DEF Insert, Recheck, Control
      <4> QED  BY <2>2, <3>1, <4>1
    <3>2. CASE CheckConflict(p) \/ Fire(p) \/ WriteEdit(p) \/ WriteStatus(p) \/ Sweep(p) \/ FinishDrop(p) \/ BreakOff(p)
      BY <2>1, <2>4, <3>2 DEF CheckConflict, Fire, WriteEdit, WriteStatus, Sweep, FinishDrop, BreakOff
    <3>3. CASE Insert(p) \/ Recheck(p)
      BY <2>1, <2>4, <3>1, <3>3 DEF Insert, Recheck
    <3>4. CASE Launch(p) \/ SelectTargets(p)
      BY <2>1, <2>5, <3>4 DEF Launch, SelectTargets
    <3>5. ASSUME NEW s \in Schedules, CheckTarget(p, s) \/ FireTarget(p, s)
          PROVE  OthersWait(p) /\ Steady(p)
      BY <2>1, <2>5, <3>5 DEF CheckTarget, FireTarget
    <3> QED  BY <2>6, <2>7, <3>2, <3>3, <3>4, <3>5 DEF Proceed
  <2> QED  BY <2>3, <2>7
<1>2. \A q \in Requests : Steady(q)  BY <1>1 DEF OthersWait, Steady
<1>3. \A c \in Campaigns : camp'[c] \in {"absent", "draft"} => camp[c] \in {"absent", "draft"}
  BY <1>0 DEF Ask, ReadExternal, ReadForEdit, ReadForRetime, ReadForStatus, ReadForLaunch,
     ReadForDrop, Proceed, CheckConflict, Recheck, Insert, Fire, WriteEdit, WriteStatus, Sweep,
     Launch, SelectTargets, FinishDrop, CheckTarget, FireTarget, DropNext, BreakOff
<1>4. ASSUME NEW s \in Schedules, CampaignOf[s] # NoCampaign, Live(s)'
      PROVE  Live(s) \/ Revived(s) \/ camp[CampaignOf[s]] = "draft"
  <2>1. CASE UNCHANGED sched  BY <1>4, <2>1 DEF Live
  <2>2. CASE Insert(p)
    <3>1. CampaignOf[req[p].s] = NoCampaign
      BY <1>0, <2>2 DEF Insert, Control, OwnsItsId, Creating
    <3>2. sched'[s] = sched[s]  BY <1>0, <1>4, <2>2, <3>1 DEF Insert
    <3> QED  BY <1>4, <3>2 DEF Live
  <2>3. CASE WriteEdit(p)
    BY <1>0, <1>4, <2>3 DEF WriteEdit, Live, ScheduleRow
  <2>4. CASE WriteStatus(p)
    <3>1. CASE s = req[p].s
      <4>1. sched'[s].status = Goal(req[p].op)  BY <1>0, <2>4, <3>1 DEF WriteStatus, ScheduleRow
      <4>2. req[p].op \in {"activate", "pause"}
        BY <1>0, <1>4, <2>4, <4>1 DEF Live, Goal, WriteStatus, Control
      <4> QED  BY <3>1, <4>2 DEF Revived, Requested
    <3>2. CASE s # req[p].s  BY <1>0, <1>4, <2>4, <3>2 DEF WriteStatus, Live
    <3> QED  BY <3>1, <3>2
  <2>5. CASE Launch(p)
    BY <1>0, <1>4, <2>5 DEF Launch, CanLaunch, Live, Targets
  <2>6. CASE Fire(p) \/ \E z \in Schedules : FireTarget(p, z)
    <3>1. PICK S, n : MaterializeRows(DueRows(S, n), n)  BY <2>6 DEF Fire, FireTarget
    <3>2. sched'[s] = sched[s] \/ sched[s].status = "active"
      BY <3>1 DEF MaterializeRows, DueRows
    <3> QED  BY <1>4, <3>2 DEF Live
  <2> QED  BY <2>1, <2>2, <2>3, <2>4, <2>5, <2>6
           DEF Ask, ReadExternal, ReadForEdit, ReadForRetime, ReadForStatus, ReadForLaunch,
               ReadForDrop, Proceed, CheckConflict, Recheck, Sweep, SelectTargets, FinishDrop,
               CheckTarget, DropNext, BreakOff
<1> QED  BY <1>1, <1>2, <1>3, <1>4 DEF Effects

LEMMA StepEffects ==
    ASSUME IInv, GridInv, [Next]_vars
    PROVE  Effects
<1>1. ASSUME NEW p \in Requests, Ask(p) \/ Proceed(p) \/ BreakOff(p) PROVE Effects
  BY <1>1, RequestEffects
<1>2. CASE \/ \E c \in Campaigns : CreateCampaign(c)
           \/ \E o \in Occurrences : Take(o)
           \/ Materialize \/ Tick \/ UNCHANGED vars
  <2>1. UNCHANGED req  BY <1>2 DEF CreateCampaign, Take, Materialize, Tick, vars
  <2>2. \A p \in Requests : Steady(p)  BY <2>1 DEF Steady
  <2>3. camp \in [Campaigns -> CampaignStatus]  BY DEF IInv, TypeOK
  <2>4. \A c \in Campaigns : camp'[c] \in {"absent", "draft"} => camp[c] \in {"absent", "draft"}
    BY <1>2, <2>3 DEF CreateCampaign, Take, Materialize, Tick, vars
  <2>5. ASSUME NEW s \in Schedules, Live(s)' PROVE Live(s)
    <3>1. CASE UNCHANGED sched  BY <2>5, <3>1 DEF Live
    <3>2. CASE Materialize
      <4>1. sched'[s] = sched[s] \/ sched[s].status = "active"
        BY <3>2 DEF Materialize, MaterializeRows, DueRows
      <4> QED  BY <2>5, <4>1 DEF Live
    <3> QED  BY <1>2, <3>1, <3>2 DEF CreateCampaign, Take, Tick, vars
  <2> QED  BY <2>2, <2>4, <2>5 DEF Effects
<1> QED  BY <1>1, <1>2 DEF Next

\* The cancellation's own steps.
LEMMA DropStep ==
    ASSUME IInv, GridInv, NEW p \in Requests, Dropping(p), Effects,
           Ask(p) \/ Proceed(p) \/ BreakOff(p), req'[p].op = "drop", req'[p].seen = "active",
           req'[p].pc \notin Over
    PROVE  Dropping(p)'
<1>0. /\ TypeOK /\ req \in [Requests -> RequestState] /\ sched \in [Schedules -> ScheduleRow]
      /\ camp \in [Campaigns -> CampaignStatus] /\ req[p] \in RequestState /\ Control(p)
  BY DEF IInv, TypeOK
<1>1. \A outcome \in Over : ~Close(p, outcome)
  BY <1>0 DEF Close, Closed
<1>2. CASE Ask(p)
  <2>1. ASSUME NEW s, NEW t, NEW x, NEW h, ReadExternal(p, s, t, x, h) PROVE FALSE
    <3> DEFINE r == [Asked("create") EXCEPT !.pc = "check", !.s = s, !.ext = x, !.hash = h,
                                            !.timing = t, !.next = InitialRun(t, now)]
    <3>1. r.op = "create"  BY DEF Asked, NewRequest
    <3>2. req' = [req EXCEPT ![p] = r] \/ \E k : AnswerWith(p, r, k)
      BY <2>1 DEF ReadExternal
    <3> HIDE DEF r
    <3> QED  BY <1>0, <3>1, <3>2 DEF AnswerWith, Closed
  <2>2. ASSUME NEW s, ReadForEdit(p, s) PROVE FALSE
    BY <1>0, <2>2 DEF ReadForEdit, Asked, NewRequest
  <2>3. ASSUME NEW s, NEW t, ReadForRetime(p, s, t) PROVE FALSE
    BY <1>0, <2>3 DEF ReadForRetime, Asked, NewRequest
  <2>4. ASSUME NEW s, NEW op, ReadForStatus(p, op, s) PROVE FALSE
    BY <1>0, <2>4 DEF ReadForStatus, Asked, NewRequest
  <2>5. ASSUME NEW c, ReadForLaunch(p, c) PROVE FALSE
    BY <1>0, <2>5 DEF ReadForLaunch, Asked, NewRequest
  <2>6. ASSUME NEW c \in Campaigns, ReadForDrop(p, c) PROVE Dropping(p)'
    BY <1>0, <2>6 DEF ReadForDrop, Asked, NewRequest, Dropping
  <2> QED  BY <1>2, <2>1, <2>2, <2>3, <2>4, <2>5, <2>6 DEF Ask
<1>3. CASE SelectTargets(p)
  <2>1. /\ req'[p].pc = "drop" /\ req'[p].camp = req[p].camp
        /\ req'[p].todo = {s \in Targets(req[p].camp) : Live(s)}
        /\ req[p].op = "drop" /\ req[p].seen = "active" /\ req[p].pc = "select"
    BY <1>0, <1>3 DEF SelectTargets, RequestState, Live
  <2>2. camp' = camp /\ sched' = sched  BY <1>3 DEF SelectTargets
  <2> QED  BY <2>1, <2>2 DEF Dropping, Live
<1>4. ASSUME NEW s \in Schedules, DropNext(p, s) PROVE Dropping(p)'
  <2>1. /\ req'[p].pc = "status" /\ req'[p].camp = req[p].camp /\ req'[p].s = s
        /\ req'[p].todo = req[p].todo \ {s}
        /\ req[p].op = "drop" /\ req[p].seen = "active" /\ req[p].pc = "drop"
    BY <1>0, <1>4 DEF DropNext, RequestState
  <2>2. camp' = camp /\ sched' = sched  BY <1>4 DEF DropNext
  <2>3. \A z \in Schedules : Revived(z) => Revived(z)'
    BY RequestedKept DEF Effects, Revived
  <2> QED  BY <2>1, <2>2, <2>3 DEF Dropping, Live, Targets
<1>5. CASE WriteStatus(p) \/ Sweep(p)
  <2>1. /\ req'[p] = [req[p] EXCEPT !.pc = req'[p].pc]
        /\ req'[p].pc \in {"sweep", "drop"} /\ req[p].pc \in {"status", "sweep"}
    <3>1. CASE WriteStatus(p)
      <4>1. Goto(p, "sweep")  BY <1>1, <3>1 DEF WriteStatus
      <4> QED  BY <1>0, <3>1, <4>1 DEF Goto, WriteStatus, RequestState
    <3>2. CASE Sweep(p)
      <4>1. Goto(p, "drop")  BY <1>1, <3>2 DEF Sweep
      <4> QED  BY <1>0, <3>2, <4>1 DEF Goto, Sweep, RequestState
    <3> QED  BY <1>5, <3>1, <3>2
  <2>2. /\ req'[p].camp = req[p].camp /\ req'[p].todo = req[p].todo
        /\ req[p].op = "drop" /\ req[p].seen = "active" /\ req[p].camp \in Campaigns
    BY <1>0, <2>1 DEF RequestState, Control
  <2>3. camp' = camp  BY <1>5 DEF WriteStatus, Sweep
  <2>4. ASSUME NEW s \in Targets(req[p].camp), Live(s)'
        PROVE  Revived(s)' \/ s \in req[p].todo
    <3>1. s \in Schedules /\ camp[CampaignOf[s]] # "draft" /\ CampaignOf[s] # NoCampaign
      BY <2>1, <2>2, <2>4 DEF Targets, Dropping
    <3>2. Live(s) \/ Revived(s)  BY <3>1, <2>4 DEF Effects
    <3>3. ~(WriteStatus(p) /\ req[p].s = s)
      BY <1>0, <2>2, <2>4, <3>1 DEF WriteStatus, Goal, Live, ScheduleRow
    <3>4. Revived(s) \/ s \in req[p].todo
      BY <1>5, <2>1, <2>2, <2>4, <3>2, <3>3 DEF Dropping, Sweep
    <3> QED  BY <3>1, <3>4, RequestedKept DEF Effects, Revived
  <2> QED  BY <2>1, <2>2, <2>3, <2>4 DEF Dropping, Targets
<1>6. CASE Proceed(p) \/ BreakOff(p)
  <2>1. ~Insert(p) /\ ~Recheck(p)
    <3>1. req[p].op = "create" /\ (Insert(p) \/ Recheck(p)) => req'[p].op = "create"
      BY <1>0 DEF Insert, Recheck, Goto, Close, Closed, AnswerWith, RequestState
    <3> QED  BY <1>0, <3>1 DEF Insert, Recheck, Control
  <2>2. ~CheckConflict(p)
    BY <1>0, <1>1 DEF CheckConflict, Goto, Control, RequestState
  <2>3. ~Launch(p) /\ \A s : ~CheckTarget(p, s) /\ ~FireTarget(p, s)
    BY <1>0, <1>1 DEF Launch, CheckTarget, FireTarget, Control, RequestState
  <2> QED  BY <1>1, <1>3, <1>4, <1>5, <1>6, <2>1, <2>2, <2>3
           DEF Proceed, BreakOff, Fire, WriteEdit, FinishDrop
<1> QED  BY <1>2, <1>6

LEMMA DroppingKept ==
    ASSUME IInv, GridInv, \A p \in Requests : Dropping(p), [Next]_vars
    PROVE  \A p \in Requests : Dropping(p)'
<1> SUFFICES ASSUME NEW p \in Requests, req'[p].op = "drop", req'[p].seen = "active",
                    req'[p].pc \notin Over
             PROVE  Dropping(p)'
  BY DEF Dropping
<1>1. Effects  BY StepEffects
<1>2. CASE Ask(p) \/ Proceed(p) \/ BreakOff(p)  BY <1>1, <1>2, DropStep
<1>3. CASE req'[p] = req[p]
  <2>1. Control(p) /\ Dropping(p)  BY DEF IInv
  <2>2. camp[req[p].camp] \notin {"absent", "draft"} /\ req[p].camp \in Campaigns
    BY <1>3, <2>1 DEF Dropping, Control
  <2>3. camp'[req[p].camp] \notin {"absent", "draft"}  BY <1>1, <2>2 DEF Effects
  <2>4. ASSUME NEW s \in Targets(req[p].camp), Live(s)' PROVE Live(s) \/ Revived(s)
    BY <1>1, <2>2, <2>4 DEF Effects, Targets
  <2>5. \A s \in Schedules : Revived(s) => Revived(s)'
    BY <1>1, RequestedKept DEF Effects, Revived
  <2> QED  BY <1>3, <2>1, <2>3, <2>4, <2>5 DEF Dropping, Targets
<1>4. ASSUME NEW q \in Requests \ {p}, Ask(q) \/ Proceed(q) \/ BreakOff(q)
      PROVE  req'[p] = req[p]
  BY <1>4, RequestEffects DEF OthersWait
<1>5. CASE UNCHANGED req  BY <1>3, <1>5
<1> QED  BY <1>2, <1>3, <1>4, <1>5 DEF Next, CreateCampaign, Take, Materialize, Tick, vars

\* A cancelled campaign leaves none of its schedules running, unless a request to pause
\* or resume one of them was made: what such a request read it writes.
THEOREM DropsAreComplete == Spec => DropIsComplete
<1> DEFINE Inv == IInv /\ GridInv /\ \A p \in Requests : Dropping(p)
<1>1. Init => \A p \in Requests : Dropping(p)
  BY DEF Init, NewRequest, Dropping
<1>2. IInv /\ GridInv /\ (\A p \in Requests : Dropping(p)) /\ [Next]_vars
        => (\A p \in Requests : Dropping(p))'
  BY DroppingKept
<1>3. ASSUME IInv, GridInv, \A p \in Requests : Dropping(p), [Next]_vars,
             NEW p \in Requests, req[p].pc = "drop", req'[p].pc = "answered",
             req[p].seen = "active", NEW s \in Targets(req[p].camp),
             sched'[s].status \in {"active", "paused"}
      PROVE  Requested("activate", s) \/ Requested("pause", s)
  <2>0. /\ req \in [Requests -> RequestState] /\ req[p] \in RequestState /\ Control(p)
    BY <1>3 DEF IInv, TypeOK
  <2>1. FinishDrop(p)
    <3>1. ASSUME NEW q \in Requests, Ask(q) \/ Proceed(q) \/ BreakOff(q) PROVE q = p
      BY <1>3, <3>1, RequestEffects DEF OthersWait
    <3>2. Ask(p) \/ Proceed(p) \/ BreakOff(p)
      BY <1>3, <3>1 DEF Next, CreateCampaign, Take, Materialize, Tick, vars
    <3>3. ~Ask(p)
      BY <1>3 DEF Ask, ReadExternal, ReadForEdit, ReadForRetime, ReadForStatus, ReadForLaunch,
         ReadForDrop, Asks
    <3>4. ~BreakOff(p)  BY <1>3, <2>0 DEF BreakOff, Close, Closed
    <3>5. \A z \in Schedules : ~DropNext(p, z)
      BY <1>3, <2>0 DEF DropNext, RequestState
    <3> QED  BY <1>3, <3>2, <3>3, <3>4, <3>5
             DEF Proceed, CheckConflict, Recheck, Insert, Fire, WriteEdit, WriteStatus, Sweep,
                 Launch, SelectTargets, CheckTarget, FireTarget
  <2>2. req[p].op = "drop" /\ req[p].todo = {} /\ sched' = sched
    BY <1>3, <2>0, <2>1 DEF Control, FinishDrop, DropDone
  <2> QED  BY <1>3, <2>2 DEF Dropping, Live, Revived
<1>4. IInv /\ GridInv /\ (\A p \in Requests : Dropping(p)) /\ [Next]_vars
        => [\A p \in Requests :
              /\ req[p].pc = "drop" /\ req'[p].pc = "answered" /\ req[p].seen = "active"
              => \A s \in Targets(req[p].camp) :
                    sched'[s].status \in {"active", "paused"} =>
                        Requested("activate", s) \/ Requested("pause", s)]_vars
  BY <1>3
<1> QED  BY <1>1, <1>2, <1>4, Invariance, GridInvariance, PTL DEF Spec, DropIsComplete
=============================================================================
