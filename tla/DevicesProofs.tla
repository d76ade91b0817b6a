---------------------------- MODULE DevicesProofs ----------------------------
(***************************************************************************)
(* What holds of the modules that run a phone's WDA and of the workers      *)
(* that have the phones, for any number of phones, supervisors, workers and *)
(* requests:                                                               *)
(*   OneSupervisorPerPhone    the supervisors, their lock and children     *)
(*   RegistrationIsSafe       the drafts of phones that are registered     *)
(*   FleetIsTyped             a phone between its worker and the registry  *)
(***************************************************************************)
EXTENDS Supervision, Registration, Fleet, FiniteSetTheorems, TLAPS

USE SupervisionAssumption

-----------------------------------------------------------------------------
(* Supervision.  A supervisor that is past the lock, or is about to write   *)
(* its pid into it, has its name in the lock file, unless a lock was        *)
(* removed that was not the stale one; and the manager's child is never one *)
(* that a stop under way is waiting for.                                    *)

LockFile == [by : Sups \cup {"nobody", "dead"}, told : BOOLEAN]
SupRow == [pc : BeforeLock \cup {"free", "loop", "connect", "stopping"},
           by : {"nobody", "hand", "manager", "orphan"}, stopping : BOOLEAN,
           down : {"no", "stop", "unlock", "done"}, child : BOOLEAN, old : BOOLEAN,
           fwd : BOOLEAN, read : LockFile]
RunRow == [known : BOOLEAN, child : Sups \cup {"none", "unborn"}, phase : Phases]
PassRow == [pc : {"idle", "apply", "probe", "drop"}, reg : BOOLEAN, wire : BOOLEAN,
            old : Sups \cup {"none"}]
CallRow == [pc : {"idle", "stop", "start"}, old : Sups \cup {"none"}, mine : BOOLEAN]

\* A supervisor's state by itself: a shutdown begins and a runner exists behind the
\* lock only, and what is about to be removed was read as stale.
WellFormed(rec) ==
  /\ rec \in SupRow
  /\ rec.stopping <=> rec.down # "no"
  /\ rec.pc \in BeforeLock \cup {"free"} => ~rec.stopping /\ ~rec.child /\ ~rec.old
  /\ rec.pc = "free" => rec.by = "nobody"
  /\ rec.pc = "remove" => ~(rec.read.told /\ rec.read.by \in Sups)
Claims(rec) == rec.pc = "write" \/ (rec.pc \in {"loop", "connect", "stopping"} /\ ~rec.stopping)

SupsWell ==
  /\ sup \in [Sups -> SupRow] /\ \A s \in Sups : WellFormed(sup[s])
LockWell ==
  /\ slock \in LockFile /\ sstolen \in BOOLEAN
  /\ ~sstolen => \A s \in Sups : Claims(sup[s]) => slock.by = s
ChildWell ==
  /\ mrun \in RunRow /\ mpass \in PassRow /\ mcall \in CallRow
  /\ mrun.child \in Sups =>
       /\ Alive(mrun.child) /\ sup[mrun.child].by = "manager"
       /\ mrun.child \notin {mcall.old, mpass.old}
CountsWell ==
  /\ sfaults \in 0..MaxFaults /\ srequests \in 0..MaxRequests
  /\ swire \in BOOLEAN /\ mreg \in BOOLEAN

SInv == SupsWell /\ LockWell /\ ChildWell /\ CountsWell

LEMMA FreeWell == WellFormed(Free) /\ ~Claims(Free)
  BY DEF WellFormed, Free, SupRow, LockFile, NoLock, BeforeLock, Claims

LEMMA BornWell ==
  ASSUME NEW by \in {"hand", "manager", "orphan"}
  PROVE  LET born == [Free EXCEPT !.pc = "create", !.by = by]
         IN  WellFormed(born) /\ ~Claims(born) /\ born.pc # "free" /\ born.by = by
  BY FreeWell DEF WellFormed, Free, SupRow, LockFile, NoLock, BeforeLock, Claims

LEMMA SInitHolds == SInit => SInv
<1> SUFFICES ASSUME SInit PROVE SInv
  OBVIOUS
<1>1. \A s \in Sups : sup[s] = Free  BY DEF SInit
<1>2. SupsWell
  <2>1. Free \in SupRow  BY FreeWell DEF WellFormed
  <2> QED  BY <1>1, <2>1, FreeWell DEF SInit, SupsWell
<1>3. LockWell
  <2>1. slock \in {[by |-> "nobody", told |-> FALSE], [by |-> "dead", told |-> TRUE]}
    BY DEF SInit
  <2>2. /\ [by |-> "nobody", told |-> FALSE] \in LockFile
        /\ [by |-> "dead", told |-> TRUE] \in LockFile
    BY DEF LockFile
  <2> QED  BY <1>1, <2>1, <2>2, FreeWell DEF SInit, LockWell
<1>4. ChildWell
  BY DEF SInit, ChildWell, NoRuntime, NoPass, RunRow, PassRow, CallRow, Phases
<1>5. CountsWell  BY DEF SInit, CountsWell
<1> QED  BY <1>2, <1>3, <1>4, <1>5 DEF SInv

\* One supervisor's record is replaced: what that takes for each part.
LEMMA PutSups ==
  ASSUME SupsWell, NEW s \in Sups, NEW rec, WellFormed(rec), SPut(s, rec)
  PROVE  SupsWell' /\ sup'[s] = rec /\ \A q \in Sups \ {s} : sup'[q] = sup[q]
  BY DEF SupsWell, SPut, WellFormed

LEMMA PutLock ==
  ASSUME SupsWell, LockWell, NEW s \in Sups, NEW rec, SPut(s, rec),
         slock' \in LockFile, sstolen' \in BOOLEAN, sstolen => sstolen',
         \/ sstolen'
         \/ /\ Claims(rec) => slock'.by = s
            /\ \A q \in Sups \ {s} : slock.by = q => slock'.by = q
  PROVE  LockWell'
<1>1. sup'[s] = rec /\ \A q \in Sups \ {s} : sup'[q] = sup[q]  BY DEF SupsWell, SPut
<1> QED  BY <1>1 DEF LockWell

LEMMA PutChild ==
  ASSUME SupsWell, ChildWell, NEW s \in Sups, NEW rec, SPut(s, rec),
         mrun' \in RunRow, mpass' \in PassRow, mcall' \in CallRow,
         mrun'.child \in Sups =>
            /\ mrun'.child = mrun.child
            /\ mrun.child = s => rec.pc # "free" /\ rec.by = sup[s].by
            /\ {mcall'.old, mpass'.old} \ {"none"} \subseteq {mcall.old, mpass.old}
  PROVE  ChildWell'
<1>1. sup'[s] = rec /\ \A q \in Sups \ {s} : sup'[q] = sup[q]  BY DEF SupsWell, SPut
<1> SUFFICES ASSUME mrun'.child \in Sups
             PROVE  /\ sup'[mrun'.child].pc # "free" /\ sup'[mrun'.child].by = "manager"
                    /\ mrun'.child \notin {mcall'.old, mpass'.old}
  BY DEF ChildWell, Alive
<1>2. mrun.child \in Sups /\ mrun'.child = mrun.child /\ mrun.child # "none"  OBVIOUS
<1> QED  BY <1>1, <1>2 DEF ChildWell, Alive

\* A report changes the manager's phase at most.
LEMMA ReportPuts ==
  ASSUME NEW s, NEW rec, NEW phase \in Phases, Report(s, rec, phase), mrun \in RunRow
  PROVE  SPut(s, rec) /\ mrun' \in RunRow /\ mrun'.child = mrun.child
  BY DEF Report, RunRow

\* A process that is gone has nothing.
LEMMA VanishKeeps ==
  ASSUME SInv, NEW s \in Sups, NEW tidy \in BOOLEAN, Vanish(s, tidy),
         UNCHANGED <<sstolen, manager>>, CountsWell'
  PROVE  SInv'
<1>1. SPut(s, Free) /\ slock' \in LockFile /\ mrun' \in RunRow
  BY DEF Vanish, SInv, LockWell, LockFile, ChildWell, RunRow, Phases
<1>2. SupsWell'  BY <1>1, FreeWell, PutSups DEF SInv
<1>3. LockWell'
  <2>1. \A q \in Sups \ {s} : slock.by = q => slock'.by = q
    BY DEF Vanish, SInv, LockWell, LockFile
  <2> QED  BY <1>1, <2>1, FreeWell, PutLock DEF SInv, LockWell
<1>4. ChildWell'
  <2>1. mrun'.child \in Sups => mrun'.child = mrun.child /\ mrun.child # s
    BY DEF Vanish, SInv, ChildWell, RunRow
  <2>2. mpass' = mpass /\ mcall' = mcall  BY DEF manager
  <2> QED  BY <1>1, <2>1, <2>2, PutChild DEF SInv, ChildWell
<1> QED  BY <1>2, <1>3, <1>4 DEF SInv

\* A step of a supervisor that keeps the lock and stays the process it was.
LEMMA MoveKeeps ==
  ASSUME SInv, NEW s \in Sups, NEW rec, SPut(s, rec), WellFormed(rec),
         Claims(rec) => Claims(sup[s]), rec.pc # "free", rec.by = sup[s].by,
         mrun' \in RunRow, mrun'.child = mrun.child,
         UNCHANGED <<lockfile, mcall, mpass>>, CountsWell'
  PROVE  SInv'
<1>1. slock' = slock /\ sstolen' = sstolen  BY DEF lockfile
<1>2. SupsWell'  BY PutSups DEF SInv
<1>3. LockWell'  BY <1>1, PutLock DEF SInv, LockWell
<1>4. ChildWell'  BY PutChild DEF SInv, ChildWell
<1> QED  BY <1>2, <1>3, <1>4 DEF SInv

LEMMA CountsKept ==
  ASSUME CountsWell, UNCHANGED mreg \/ mreg' = ~mreg, UNCHANGED swire \/ swire' = ~swire,
         UNCHANGED faults \/ Fault \/ Request
  PROVE  CountsWell'
<1>1. sfaults' \in 0..MaxFaults /\ srequests' \in 0..MaxRequests
  BY DEF CountsWell, faults, Fault, Request
<1>2. swire' \in BOOLEAN  BY DEF CountsWell
<1>3. mreg' \in BOOLEAN  BY DEF CountsWell
<1> QED  BY <1>1, <1>2, <1>3 DEF CountsWell

\* The steps of a supervisor up to and past the lock.
LEMMA LockSteps ==
  ASSUME SInv, NEW s \in Sups,
         SCreate(s) \/ SWritePid(s) \/ SInspect(s) \/ SRemoveStale(s) \/ SUnlock(s)
  PROVE  SInv'
<1>0. /\ sup \in [Sups -> SupRow] /\ sup[s] \in SupRow /\ WellFormed(sup[s])
      /\ slock \in LockFile /\ sstolen \in BOOLEAN /\ s # "nobody" /\ s # "dead"
  BY DEF SInv, SupsWell, LockWell
<1>1. CountsWell'
  BY CountsKept DEF SInv, SCreate, SWritePid, SInspect, SRemoveStale, SUnlock, world, manager
<1>2. mcall' = mcall /\ mpass' = mpass
  BY DEF SCreate, SWritePid, SInspect, SRemoveStale, SUnlock, manager
\* A step that writes or removes the lock file.
<1>3. ASSUME NEW rec, SPut(s, rec), WellFormed(rec), rec.pc # "free", rec.by = sup[s].by,
             slock' \in LockFile, sstolen' \in BOOLEAN, sstolen => sstolen', mrun' = mrun,
             \/ sstolen'
             \/ /\ Claims(rec) => slock'.by = s
                /\ \A q \in Sups \ {s} : slock.by = q => slock'.by = q
      PROVE  SInv'
  <2>1. SupsWell'  BY <1>3, PutSups DEF SInv
  <2>2. LockWell'  BY <1>3, PutLock DEF SInv
  <2>3. ChildWell'  BY <1>2, <1>3, PutChild DEF SInv, ChildWell
  <2> QED  BY <1>1, <2>1, <2>2, <2>3 DEF SInv
<1>4. CASE SCreate(s)
  <2>1. CASE slock = NoLock
    <3> DEFINE rec == [sup[s] EXCEPT !.pc = "write"]
    <3>1. SPut(s, rec) /\ slock' = [by |-> s, told |-> FALSE] /\ sstolen' = sstolen /\ mrun' = mrun
      BY <1>4, <2>1 DEF SCreate, lockfile
    <3>2. slock' \in LockFile  BY <3>1 DEF LockFile
    <3>3. WellFormed(rec) /\ rec.pc # "free" /\ rec.by = sup[s].by
      BY <1>0, <1>4 DEF SCreate, WellFormed, SupRow, BeforeLock
    <3>4. \A q \in Sups \ {s} : slock.by # q  BY <2>1 DEF NoLock
    <3> HIDE DEF rec
    <3> QED  BY <1>0, <1>3, <3>1, <3>2, <3>3, <3>4
  <2>2. CASE slock # NoLock
    <3> DEFINE rec == [sup[s] EXCEPT !.pc = "inspect"]
    <3>1. SPut(s, rec) /\ UNCHANGED lockfile /\ mrun' = mrun
      BY <1>4, <2>2 DEF SCreate, lockfile
    <3>2. WellFormed(rec) /\ rec.pc # "free" /\ rec.by = sup[s].by /\ ~Claims(rec)
      BY <1>0, <1>4 DEF SCreate, WellFormed, SupRow, BeforeLock, Claims
    <3> HIDE DEF rec
    <3> QED  BY <1>1, <1>2, <3>1, <3>2, MoveKeeps DEF SInv, ChildWell
  <2> QED  BY <2>1, <2>2
<1>5. CASE SWritePid(s)
  <2> DEFINE rec == [sup[s] EXCEPT !.pc = "loop"]
  <2>1. /\ SPut(s, rec) /\ sstolen' = sstolen /\ mrun' = mrun
        /\ slock' = IF slock.by = s THEN [slock EXCEPT !.told = TRUE] ELSE slock
    BY <1>5 DEF SWritePid
  <2>2. slock' \in LockFile /\ slock'.by = slock.by  BY <1>0, <2>1 DEF LockFile
  <2>3. WellFormed(rec) /\ rec.pc # "free" /\ rec.by = sup[s].by
    BY <1>0, <1>5 DEF SWritePid, WellFormed, SupRow, BeforeLock
  <2>4. sstolen \/ slock.by = s
    BY <1>5 DEF SInv, LockWell, SWritePid, Claims
  <2> HIDE DEF rec
  <2> QED  BY <1>0, <1>3, <2>1, <2>2, <2>3, <2>4
<1>6. CASE SInspect(s)
  <2>1. CASE LockHeld
    <3>1. Vanish(s, TRUE) /\ UNCHANGED <<sstolen, manager>>  BY <1>6, <2>1 DEF SInspect
    <3> QED  BY <1>1, <3>1, VanishKeeps
  <2>2. CASE ~LockHeld
    <3> DEFINE rec == [sup[s] EXCEPT !.pc = "remove", !.read = slock]
    <3>1. SPut(s, rec) /\ UNCHANGED lockfile /\ mrun' = mrun
      BY <1>6, <2>2 DEF SInspect, lockfile
    <3>2. WellFormed(rec) /\ rec.pc # "free" /\ rec.by = sup[s].by /\ ~Claims(rec)
      BY <1>0, <1>6, <2>2 DEF SInspect, LockHeld, WellFormed, SupRow, BeforeLock, Claims
    <3> HIDE DEF rec
    <3> QED  BY <1>1, <1>2, <3>1, <3>2, MoveKeeps DEF SInv, ChildWell
  <2> QED  BY <2>1, <2>2
<1>7. CASE SRemoveStale(s)
  <2> DEFINE rec == [sup[s] EXCEPT !.pc = "create", !.read = NoLock]
             removed == slock.by \in Sups /\ ~(sup[s].read.told /\ sup[s].read.by \in Sups)
  <2>1. SPut(s, rec) /\ slock' = NoLock /\ mrun' = mrun /\ sstolen' = (sstolen \/ removed)
    BY <1>7 DEF SRemoveStale
  <2>2. NoLock \in LockFile  BY DEF NoLock, LockFile
  <2>3. WellFormed(rec) /\ rec.pc # "free" /\ rec.by = sup[s].by /\ ~Claims(rec)
    BY <1>0, <1>7, <2>2 DEF SRemoveStale, WellFormed, SupRow, BeforeLock, Claims
  <2>4. slock.by \in Sups => removed  BY <1>0, <1>7 DEF SRemoveStale, WellFormed
  <2>5. sstolen' \in BOOLEAN /\ (sstolen => sstolen') /\ (removed => sstolen')
    BY <2>1
  <2> HIDE DEF rec, removed
  <2> QED  BY <1>3, <2>1, <2>2, <2>3, <2>4, <2>5
<1>8. CASE SUnlock(s)
  <2> DEFINE rec == [sup[s] EXCEPT !.down = "done"]
             stole == slock.by \in Sups \ {s}
  <2>1. SPut(s, rec) /\ slock' = NoLock /\ mrun' = mrun /\ sstolen' = (sstolen \/ stole)
    BY <1>8 DEF SUnlock
  <2>2. NoLock \in LockFile  BY DEF NoLock, LockFile
  <2>3. WellFormed(rec) /\ rec.pc # "free" /\ rec.by = sup[s].by /\ ~Claims(rec)
    BY <1>0, <1>8 DEF SUnlock, WellFormed, SupRow, BeforeLock, Claims
  <2>4. \A q \in Sups \ {s} : slock.by = q => stole  OBVIOUS
  <2>5. sstolen' \in BOOLEAN /\ (sstolen => sstolen') /\ (stole => sstolen')
    BY <2>1
  <2> HIDE DEF rec, stole
  <2> QED  BY <1>3, <2>1, <2>2, <2>3, <2>4, <2>5
<1> QED  BY <1>4, <1>5, <1>6, <1>7, <1>8

\* Records of a supervisor past the lock.
LEMMA PastLockWell ==
  ASSUME NEW rec \in SupRow, WellFormed(rec), rec.pc \notin BeforeLock \cup {"free"},
         NEW pc \in {"loop", "connect", "stopping"}, NEW child \in BOOLEAN,
         NEW old \in BOOLEAN, NEW fwd \in BOOLEAN
  PROVE  LET next == [rec EXCEPT !.pc = pc, !.child = child, !.old = old, !.fwd = fwd]
         IN  WellFormed(next) /\ (Claims(next) => Claims(rec)) /\ next.pc # "free" /\ next.by = rec.by
  BY ZenonT(60) DEF WellFormed, SupRow, BeforeLock, Claims

LEMMA StopRunnerWell ==
  ASSUME NEW rec \in SupRow, WellFormed(rec), rec.pc \notin BeforeLock \cup {"free"}
  PROVE  /\ WellFormed(StopRunner(rec)) /\ (Claims(StopRunner(rec)) => Claims(rec))
         /\ StopRunner(rec).pc # "free" /\ StopRunner(rec).by = rec.by
<1>1. rec.child \in BOOLEAN /\ rec.old \in BOOLEAN  BY DEF SupRow
<1> DEFINE o == rec.child \/ rec.old
<1>2. o \in BOOLEAN  BY <1>1
<1> HIDE DEF o
<1>3. [rec EXCEPT !.pc = "stopping", !.child = FALSE, !.old = o] \in SupRow
  BY <1>2 DEF SupRow
<1> DEFINE next == [rec EXCEPT !.pc = "stopping", !.child = FALSE, !.old = o]
<1>4. /\ next.pc = "stopping" /\ next.by = rec.by /\ next.stopping = rec.stopping
      /\ next.down = rec.down
  BY DEF SupRow
<1>5. StopRunner(rec) = next  BY DEF StopRunner, o
<1>6. next \in SupRow  BY <1>3
<1> HIDE DEF next
<1> QED  BY <1>4, <1>5, <1>6 DEF WellFormed, Claims, BeforeLock, SupRow

\* SIGTERM of a supervisor that has its handlers, by whoever sends it.
ShutDown(rec) ==
  [rec EXCEPT !.stopping = TRUE, !.down = IF @ = "no" THEN "stop" ELSE @,
              !.child = FALSE, !.old = rec.child \/ rec.old]

LEMMA ShutDownWell ==
  ASSUME NEW rec \in SupRow, WellFormed(rec), rec.pc \notin BeforeLock \cup {"free"}
  PROVE  /\ WellFormed(ShutDown(rec)) /\ ~Claims(ShutDown(rec))
         /\ ShutDown(rec).pc # "free" /\ ShutDown(rec).by = rec.by
<1>1. rec.child \in BOOLEAN /\ rec.old \in BOOLEAN  BY DEF SupRow
<1> DEFINE o == rec.child \/ rec.old
           d == IF rec.down = "no" THEN "stop" ELSE rec.down
           next == [rec EXCEPT !.stopping = TRUE, !.down = d, !.child = FALSE, !.old = o]
<1>2. o \in BOOLEAN  BY <1>1
<1>3. d \in {"stop", "unlock", "done"}  BY DEF SupRow
<1>4. ShutDown(rec) = next  BY DEF ShutDown, SupRow
<1> HIDE DEF o, d
<1>5. next \in SupRow  BY <1>2, <1>3 DEF SupRow
<1>6. next.pc = rec.pc /\ next.by = rec.by /\ next.stopping = TRUE /\ next.down = d
  BY DEF SupRow
<1> HIDE DEF next
<1> QED  BY <1>3, <1>4, <1>5, <1>6 DEF WellFormed, Claims, BeforeLock

\* The steps of a supervisor past the lock.
LEMMA RunnerSteps ==
  ASSUME SInv, NEW s \in Sups,
         \/ SConnect(s) \/ SLoop(s) \/ SStopped(s) \/ SDownStopped(s)
         \/ SReaped(s) \/ SRunnerDies(s)
  PROVE  SInv'
<1>0. /\ sup \in [Sups -> SupRow] /\ sup[s] \in SupRow /\ WellFormed(sup[s]) /\ mrun \in RunRow
      /\ {"connecting", "error", "disconnected", "ready"} \subseteq Phases
  BY DEF SInv, SupsWell, ChildWell, Phases
<1>1. CountsWell'
  BY CountsKept DEF SInv, SConnect, SLoop, SStopped, SDownStopped, SReaped, SRunnerDies, world,
     manager, faults
<1>2. UNCHANGED <<lockfile, mcall, mpass>>
  BY DEF SConnect, SLoop, SStopped, SDownStopped, SReaped, SRunnerDies, manager
\* The record it becomes; the manager may be told.
<1>3. ASSUME NEW rec, WellFormed(rec), Claims(rec) => Claims(sup[s]), rec.pc # "free",
             rec.by = sup[s].by,
             \/ SPut(s, rec) /\ mrun' = mrun
             \/ \E phase \in Phases : Report(s, rec, phase)
      PROVE  SInv'
  <2>1. SPut(s, rec) /\ mrun' \in RunRow /\ mrun'.child = mrun.child
    BY <1>0, <1>3, ReportPuts
  <2> QED  BY <1>1, <1>2, <1>3, <2>1, MoveKeeps
<1>4. CASE SConnect(s)
  <2>0. sup[s].pc = "connect" /\ sup[s].child \in BOOLEAN /\ sup[s].old \in BOOLEAN
        /\ sup[s].fwd \in BOOLEAN
    BY <1>0, <1>4 DEF SConnect, SupRow
  <2>1. ASSUME NEW kept \in BOOLEAN,
               Report(s, [sup[s] EXCEPT !.pc = "loop", !.child = TRUE, !.fwd = kept], "connecting")
        PROVE  SInv'
    <3> DEFINE rec == [sup[s] EXCEPT !.pc = "loop", !.child = TRUE, !.fwd = kept]
    <3>1. WellFormed(rec) /\ (Claims(rec) => Claims(sup[s])) /\ rec.pc # "free" /\ rec.by = sup[s].by
      BY <1>0, <2>0 DEF WellFormed, SupRow, BeforeLock, Claims
    <3>2. Report(s, rec, "connecting")  BY <2>1
    <3> HIDE DEF rec
    <3> QED  BY <1>0, <1>3, <3>1, <3>2
  <2>2. CASE Report(s, [sup[s] EXCEPT !.pc = "loop"], "error")
    <3> DEFINE rec == [sup[s] EXCEPT !.pc = "loop"]
    <3>1. WellFormed(rec) /\ (Claims(rec) => Claims(sup[s])) /\ rec.pc # "free" /\ rec.by = sup[s].by
      BY <1>0, <2>0 DEF WellFormed, SupRow, BeforeLock, Claims
    <3>2. Report(s, rec, "error")  BY <2>2
    <3> HIDE DEF rec
    <3> QED  BY <1>0, <1>3, <3>1, <3>2
  <2> QED  BY <1>4, <2>1, <2>2 DEF SConnect
<1>5. CASE SLoop(s)
  <2>0. sup[s].pc = "loop" /\ sup[s].pc \notin BeforeLock \cup {"free"}
    BY <1>5 DEF SLoop, BeforeLock
  <2>1. ASSUME NEW phase \in Phases, Report(s, StopRunner(sup[s]), phase) PROVE SInv'
    BY <1>0, <1>3, <2>0, <2>1, StopRunnerWell
  <2>2. ASSUME NEW phase \in Phases, Report(s, sup[s], phase) PROVE SInv'
    BY <1>0, <1>3, <2>0, <2>2
  <2>3. CASE SPut(s, [sup[s] EXCEPT !.pc = "connect"]) /\ UNCHANGED mrun
    <3> DEFINE rec == [sup[s] EXCEPT !.pc = "connect"]
    <3>1. WellFormed(rec) /\ (Claims(rec) => Claims(sup[s])) /\ rec.pc # "free" /\ rec.by = sup[s].by
      BY <1>0, <2>0 DEF WellFormed, SupRow, BeforeLock, Claims
    <3>2. SPut(s, rec) /\ mrun' = mrun  BY <2>3
    <3> HIDE DEF rec
    <3> QED  BY <1>3, <3>1, <3>2
  <2> QED  BY <1>0, <1>5, <2>1, <2>2, <2>3 DEF SLoop
<1>6. CASE SStopped(s)
  <2> DEFINE rec == [sup[s] EXCEPT !.pc = "loop", !.fwd = FALSE]
  <2>1. WellFormed(rec) /\ (Claims(rec) => Claims(sup[s])) /\ rec.pc # "free" /\ rec.by = sup[s].by
    BY <1>0, <1>6 DEF SStopped, WellFormed, SupRow, BeforeLock, Claims
  <2>2. SPut(s, rec) /\ mrun' = mrun  BY <1>6 DEF SStopped
  <2> HIDE DEF rec
  <2> QED  BY <1>3, <2>1, <2>2
<1>7. CASE SDownStopped(s)
  <2> DEFINE rec == [sup[s] EXCEPT !.down = "unlock", !.fwd = FALSE]
  <2>1. WellFormed(rec) /\ (Claims(rec) => Claims(sup[s])) /\ rec.pc # "free" /\ rec.by = sup[s].by
    BY <1>0, <1>7 DEF SDownStopped, WellFormed, SupRow, BeforeLock, Claims
  <2>2. SPut(s, rec) /\ mrun' = mrun  BY <1>7 DEF SDownStopped
  <2> HIDE DEF rec
  <2> QED  BY <1>3, <2>1, <2>2
<1>8. CASE SReaped(s) \/ SRunnerDies(s)
  <2>1. PICK from \in {[sup[s] EXCEPT !.old = FALSE], [sup[s] EXCEPT !.child = FALSE]} :
            ExitEvent(s, from)
    BY <1>8 DEF SReaped, SRunnerDies
  <2> DEFINE rec == [from EXCEPT !.fwd = FALSE]
  <2>2. WellFormed(rec) /\ (Claims(rec) => Claims(sup[s])) /\ rec.by = sup[s].by
        /\ rec.pc = sup[s].pc
    BY <1>0, <2>1, ZenonT(60) DEF WellFormed, SupRow, BeforeLock, Claims
  <2>3. sup[s].pc # "free"
    BY <1>0, <1>8 DEF SReaped, SRunnerDies, WellFormed
  <2>4. (SPut(s, rec) /\ mrun' = mrun) \/ Report(s, rec, "error")
    BY <2>1 DEF ExitEvent
  <2> HIDE DEF rec
  <2> QED  BY <1>0, <1>3, <2>2, <2>3, <2>4
<1> QED  BY <1>4, <1>5, <1>6, <1>7, <1>8

\* A new process, in a slot that nobody uses.
LEMMA BirthKeeps ==
  ASSUME SInv, NEW by \in {"hand", "manager", "orphan"}, Slots # {},
         SPut(NewSlot, [Free EXCEPT !.pc = "create", !.by = by]), UNCHANGED lockfile,
         mpass' \in PassRow, mcall' \in CallRow,
         {mcall'.old, mpass'.old} \ {"none"} \subseteq {mcall.old, mpass.old},
         mrun' \in RunRow, mrun'.child \in Sups =>
             mrun'.child = mrun.child \/ (mrun'.child = NewSlot /\ by = "manager"),
         CountsWell'
  PROVE  SInv'
<1> DEFINE born == [Free EXCEPT !.pc = "create", !.by = by]
<1>1. PICK s \in Sups : /\ s = NewSlot /\ sup[s].pc = "free"
                        /\ s \notin {mrun.child, mcall.old, mpass.old}
  BY DEF Slots, NewSlot
<1>2. WellFormed(born) /\ ~Claims(born) /\ born.pc # "free" /\ born.by = by  BY BornWell
<1>3. SPut(s, born)  BY <1>1
<1> HIDE DEF born
<1>4. SupsWell' /\ sup'[s] = born /\ \A q \in Sups \ {s} : sup'[q] = sup[q]
  BY <1>2, <1>3, PutSups DEF SInv
<1>5. LockWell'
  <2>1. slock' = slock /\ sstolen' = sstolen  BY DEF lockfile
  <2> QED  BY <1>2, <1>3, <2>1, PutLock DEF SInv, LockWell
<1>6. ChildWell'
  <2> SUFFICES ASSUME mrun'.child \in Sups
               PROVE  /\ sup'[mrun'.child].pc # "free" /\ sup'[mrun'.child].by = "manager"
                      /\ mrun'.child \notin {mcall'.old, mpass'.old}
    BY DEF ChildWell, Alive
  <2>1. mrun'.child \in Sups  OBVIOUS
  <2>2. CASE mrun'.child = s
    BY <1>1, <1>2, <1>4, <2>1, <2>2 DEF SInv, ChildWell
  <2>3. CASE mrun'.child # s
    <3>1. mrun'.child = mrun.child  BY <1>1, <2>3
    <3> QED  BY <1>4, <2>1, <2>3, <3>1 DEF SInv, ChildWell, Alive
  <2> QED  BY <2>2, <2>3
<1> QED  BY <1>4, <1>5, <1>6 DEF SInv

\* Processes that end, and the world outside.
LEMMA WorldSteps ==
  ASSUME SInv,
         \/ SCable \/ SSick \/ SByHand
         \/ \E s \in Sups : SCrash(s) \/ SExit(s) \/ SEndByHand(s)
  PROVE  SInv'
<1>0. mrun \in RunRow /\ mpass \in PassRow /\ mcall \in CallRow  BY DEF SInv, ChildWell
<1>1. CountsWell'
  BY CountsKept DEF SInv, SCable, SSick, SByHand, SCrash, SExit, SEndByHand, world, manager
<1>2. UNCHANGED manager
  BY DEF SCable, SSick, SByHand, SCrash, SExit, SEndByHand
<1>3. CASE SCable \/ SSick
  BY <1>1, <1>2, <1>3 DEF SCable, SSick, SInv, SupsWell, LockWell, ChildWell, lockfile, manager, Alive
<1>4. CASE SByHand
  <2>1. mpass' = mpass /\ mcall' = mcall /\ mrun' = mrun  BY <1>4 DEF SByHand, manager
  <2> QED  BY <1>0, <1>1, <1>4, <2>1, BirthKeeps DEF SByHand, Born
<1>5. ASSUME NEW s \in Sups, SCrash(s) \/ SExit(s) PROVE SInv'
  BY <1>1, <1>2, <1>5, VanishKeeps DEF SCrash, SExit
<1>6. ASSUME NEW s \in Sups, SEndByHand(s) PROVE SInv'
  <2>1. CASE sup[s].pc \in BeforeLock
    <3>1. Vanish(s, FALSE) /\ UNCHANGED sstolen  BY <1>6, <2>1 DEF SEndByHand, Terminated
    <3> QED  BY <1>1, <1>2, <3>1, VanishKeeps
  <2>2. CASE sup[s].pc \notin BeforeLock
    <3>0. sup[s] \in SupRow /\ WellFormed(sup[s])  BY DEF SInv, SupsWell
    <3>1. sup[s].by = "hand" /\ ~sup[s].stopping /\ sup[s].pc # "free"
      BY <1>6, <3>0 DEF SEndByHand, WellFormed
    <3>2. SPut(s, ShutDown(sup[s]))
      <4>1. sup[s].down = "no"  BY <3>0, <3>1 DEF WellFormed
      <4> QED  BY <1>6, <2>2, <3>1, <4>1 DEF SEndByHand, Terminated, ShutDown
    <3>3. UNCHANGED <<lockfile, mrun>>
      BY <1>6, <2>2 DEF SEndByHand, Terminated, lockfile
    <3> QED  BY <1>0, <1>1, <1>2, <2>2, <3>0, <3>1, <3>2, <3>3, ShutDownWell, MoveKeeps DEF manager
  <2> QED  BY <2>1, <2>2
<1> QED  BY <1>3, <1>4, <1>5, <1>6

\* The manager tells its child to stop and has none any more.
LEMMA StopChildKeeps ==
  ASSUME SInv, StopChild(mrun), UNCHANGED sstolen, mpass' \in PassRow, mcall' \in CallRow,
         CountsWell'
  PROVE  SInv'
<1>0. /\ mrun \in RunRow /\ sup \in [Sups -> SupRow] /\ slock \in LockFile /\ sstolen \in BOOLEAN
      /\ "none" \notin Sups
  BY DEF SInv, ChildWell, SupsWell, LockWell
<1>1. mrun' \in RunRow /\ mrun'.child = "none"
  BY <1>0 DEF StopChild, RunRow
<1>2. ChildWell'  BY <1>1 DEF ChildWell
<1>3. CASE mrun.child \notin Sups
  <2>1. UNCHANGED <<sup, slock>>  BY <1>3 DEF StopChild
  <2> QED  BY <1>2, <2>1 DEF SInv, SupsWell, LockWell
<1>4. CASE mrun.child \in Sups
  <2>1. PICK s \in Sups : s = mrun.child /\ sup[s].pc # "free"
    BY <1>4 DEF SInv, ChildWell, Alive
  <2>2. WellFormed(sup[s])  BY DEF SInv, SupsWell
  <2>3. CASE sup[s].pc \in BeforeLock
    <3>1. SPut(s, Free) /\ slock' = IF slock.by = s THEN [slock EXCEPT !.by = "dead"] ELSE slock
      BY <1>4, <2>1, <2>3 DEF StopChild
    <3>2. slock' \in LockFile  BY <1>0, <3>1 DEF LockFile
    <3>3. SupsWell' /\ LockWell'
      BY <1>0, <3>1, <3>2, FreeWell, PutSups, PutLock DEF SInv
    <3> QED  BY <1>2, <3>3 DEF SInv
  <2>4. CASE sup[s].pc \notin BeforeLock
    <3>1. SPut(s, ShutDown(sup[s])) /\ slock' = slock
      BY <1>4, <2>1, <2>4 DEF StopChild, ShutDown
    <3>2. WellFormed(ShutDown(sup[s])) /\ ~Claims(ShutDown(sup[s]))
      BY <1>0, <2>1, <2>2, <2>4, ShutDownWell
    <3>3. SupsWell' /\ LockWell'
      BY <1>0, <3>1, <3>2, PutSups, PutLock DEF SInv
    <3> QED  BY <1>2, <3>3 DEF SInv
  <2> QED  BY <2>3, <2>4
<1> QED  BY <1>3, <1>4

\* The wait for a child that was told to stop is over: it is gone, or is killed.
LEMMA StopEndsKeeps ==
  ASSUME SInv, NEW s \in {mpass.old, mcall.old}, StopEnds(s, TRUE), UNCHANGED sstolen,
         mrun' \in RunRow, mrun'.child \in {"none", mrun.child},
         mpass' \in PassRow, mcall' \in CallRow,
         {mcall'.old, mpass'.old} \ {"none"} \subseteq {mcall.old, mpass.old},
         CountsWell'
  PROVE  SInv'
<1>0. /\ mrun \in RunRow /\ sup \in [Sups -> SupRow] /\ slock \in LockFile /\ sstolen \in BOOLEAN
      /\ s \in Sups \cup {"none"}
  BY DEF SInv, ChildWell, SupsWell, LockWell, PassRow, CallRow
<1>1. CASE UNCHANGED <<sup, slock>>
  <2>1. ChildWell'  BY <1>0, <1>1 DEF SInv, ChildWell, Alive
  <2> QED  BY <1>1, <2>1 DEF SInv, SupsWell, LockWell
<1>2. CASE /\ s # "none" /\ SPut(s, Free)
           /\ slock' = IF slock.by = s THEN [slock EXCEPT !.by = "dead"] ELSE slock
  <2>1. s \in Sups  BY <1>0, <1>2
  <2>2. slock' \in LockFile  BY <1>0, <1>2 DEF LockFile
  <2>3. SupsWell' /\ LockWell'
    BY <1>0, <1>2, <2>1, <2>2, FreeWell, PutSups, PutLock DEF SInv
  <2>4. mrun.child \in Sups => mrun.child # s  BY DEF SInv, ChildWell
  <2>5. ChildWell'  BY <1>0, <1>2, <2>1, <2>4, PutChild DEF SInv
  <2> QED  BY <2>3, <2>5 DEF SInv
<1> QED  BY <1>1, <1>2 DEF StopEnds

\* A runtime is dropped: the child it has by then is an orphan, which is still the
\* supervisor it was; the one that was told to stop is gone.
DropsWell == SupsWell' /\ LockWell'
LEMMA DropKeeps == ASSUME SInv, MDrop PROVE DropsWell
<1> DEFINE base == Orphaned(mrun.child)
<1>0. /\ sup \in [Sups -> SupRow] /\ \A q \in Sups : WellFormed(sup[q])
      /\ slock \in LockFile /\ sstolen \in BOOLEAN /\ sstolen' = sstolen
      /\ mpass.old \in Sups \cup {"none"}
  BY DEF SInv, SupsWell, LockWell, ChildWell, PassRow, MDrop
<1>1. /\ base \in [Sups -> SupRow]
      /\ \A q \in Sups : WellFormed(base[q]) /\ (Claims(base[q]) => Claims(sup[q]))
  <2>1. CASE mrun.child \in Sups /\ Alive(mrun.child)
    <3> DEFINE rec == [sup[mrun.child] EXCEPT !.by = "orphan"]
    <3>1. base = [sup EXCEPT ![mrun.child] = rec]  BY <2>1 DEF Orphaned
    <3>2. /\ sup[mrun.child] \in SupRow /\ WellFormed(sup[mrun.child])
          /\ sup[mrun.child].pc # "free"
      BY <1>0, <2>1 DEF Alive
    <3>3. rec \in SupRow /\ WellFormed(rec) /\ (Claims(rec) => Claims(sup[mrun.child]))
      BY <3>2 DEF WellFormed, SupRow, BeforeLock, Claims
    <3> HIDE DEF base, rec
    <3> QED  BY <1>0, <2>1, <3>1, <3>3
  <2>2. CASE ~(mrun.child \in Sups /\ Alive(mrun.child))  BY <1>0, <2>2 DEF Orphaned
  <2> QED  BY <2>1, <2>2
<1> HIDE DEF base
<1>2. \/ sup' = base /\ slock' = slock
      \/ /\ mpass.old \in Sups /\ sup' = [base EXCEPT ![mpass.old] = Free]
         /\ slock' = IF slock.by = mpass.old THEN [slock EXCEPT !.by = "dead"] ELSE slock
  BY <1>0 DEF MDrop, base
<1>3. CASE sup' = base /\ slock' = slock
  BY <1>0, <1>1, <1>3 DEF DropsWell, SInv, SupsWell, LockWell
<1>4. CASE /\ mpass.old \in Sups /\ sup' = [base EXCEPT ![mpass.old] = Free]
           /\ slock' = IF slock.by = mpass.old THEN [slock EXCEPT !.by = "dead"] ELSE slock
  <2>1. Free \in SupRow  BY FreeWell DEF WellFormed
  <2>2. /\ sup' \in [Sups -> SupRow] /\ sup'[mpass.old] = Free
        /\ \A q \in Sups \ {mpass.old} : sup'[q] = base[q]
    BY <1>1, <1>4, <2>1
  <2>3. SupsWell'  BY <1>1, <2>2, FreeWell DEF SupsWell
  <2>4. slock' \in LockFile /\ \A q \in Sups \ {mpass.old} : slock.by = q => slock'.by = q
    BY <1>0, <1>4 DEF LockFile
  <2>5. LockWell'  BY <1>0, <1>1, <2>2, <2>4, FreeWell DEF SInv, LockWell
  <2> QED  BY <2>3, <2>5 DEF DropsWell
<1> QED  BY <1>2, <1>3, <1>4

LEMMA StartChildKeeps ==
  ASSUME SInv, NEW run \in RunRow, run.child = mrun.child, StartChild(run), UNCHANGED lockfile,
         mpass' \in PassRow, mcall' \in CallRow,
         {mcall'.old, mpass'.old} \ {"none"} \subseteq {mcall.old, mpass.old},
         CountsWell'
  PROVE  SInv'
<1>1. ASSUME UNCHANGED sup, mrun' \in RunRow, mrun'.child \in {mrun.child, "none", "unborn"}
      PROVE  SInv'
  <2>1. ChildWell'
    <3>1. mrun'.child \in Sups => mrun'.child = mrun.child  BY <1>1
    <3>2. mrun'.child \in Sups => mrun'.child \notin {mcall'.old, mpass'.old}
      BY <1>1, <3>1 DEF SInv, ChildWell
    <3> QED  BY <1>1, <3>1, <3>2 DEF SInv, ChildWell, Alive
  <2> QED  BY <1>1, <2>1 DEF SInv, SupsWell, LockWell, lockfile
<1>2. CASE /\ Slots # {}
           /\ mrun' = [run EXCEPT !.child = NewSlot, !.phase = "connecting"]
           /\ SPut(NewSlot, [Free EXCEPT !.pc = "create", !.by = "manager"])
  <2>1. NewSlot \in Sups  BY <1>2 DEF Slots, NewSlot
  <2>2. mrun' \in RunRow /\ mrun'.child = NewSlot  BY <1>2, <2>1 DEF RunRow, Phases
  <2> QED  BY <1>2, <2>2, BirthKeeps
<1>3. CASE /\ UNCHANGED sup
           /\ \E child \in {"none", "unborn"} : mrun' = [run EXCEPT !.child = child, !.phase = "error"]
  <2>1. PICK child \in {"none", "unborn"} : mrun' = [run EXCEPT !.child = child, !.phase = "error"]
    BY <1>3
  <2>2. mrun' \in RunRow /\ mrun'.child = child  BY <2>1 DEF RunRow, Phases
  <2> QED  BY <1>1, <1>3, <2>2
<1>4. CASE mrun' = run /\ UNCHANGED sup  BY <1>1, <1>4
<1> QED  BY <1>2, <1>3, <1>4 DEF StartChild, Born

LEMMA ManagerSteps ==
  ASSUME SInv, Reconcile \/ MReconnect \/ Reconnected \/ MRegister \/ MClose \/ MCloseKills
  PROVE  SInv'
<1>0. /\ mrun \in RunRow /\ mpass \in PassRow /\ mcall \in CallRow
      /\ mreg \in BOOLEAN /\ swire \in BOOLEAN
  BY DEF SInv, ChildWell, CountsWell
<1>1. CountsWell'
  <2>1. UNCHANGED faults \/ Fault \/ Request
    BY DEF Reconcile, MRead, MApply, MDrop, MProbe, MReconnect, Reconnected, MReconnectStopped,
           MReconnectStart, MRegister, MClose, MCloseKills, StopEnds, StartChild, faults, world
  <2>2. /\ mreg' = mreg \/ mreg' = ~mreg
        /\ swire' = swire
    BY DEF Reconcile, MRead, MApply, MDrop, MProbe, MReconnect, Reconnected, MReconnectStopped,
           MReconnectStart, MRegister, MClose, MCloseKills, world, manager
  <2> QED  BY <2>1, <2>2, CountsKept DEF SInv
<1>2. CASE MRead \/ MRegister
  <2>1. UNCHANGED <<sup, slock, sstolen, mrun, mcall>>  BY <1>2 DEF MRead, MRegister, lockfile
  <2>2. mpass' \in PassRow /\ mpass'.old \in {"none", mpass.old}
    BY <1>0, <1>2 DEF MRead, MRegister, PassRow
  <2>3. ChildWell'
    <3>1. mrun.child \in Sups => mrun.child # "none"  OBVIOUS
    <3> QED  BY <2>1, <2>2, <3>1 DEF SInv, ChildWell, Alive
  <2> QED  BY <1>1, <2>1, <2>3 DEF SInv, SupsWell, LockWell
<1>3. CASE MApply
  <2>0. UNCHANGED <<sstolen, mcall>>  BY <1>3 DEF MApply
  <2>1. CASE mpass.reg
    <3> DEFINE run == [mrun EXCEPT !.known = TRUE]
    <3>1. run \in RunRow /\ run.child = mrun.child  BY <1>0 DEF RunRow
    <3>2. StartChild(run) /\ UNCHANGED lockfile  BY <1>3, <2>1 DEF MApply, lockfile
    <3>3. mpass' \in PassRow /\ mpass'.old = mpass.old  BY <1>0, <1>3, <2>1 DEF MApply, PassRow
    <3>4. PICK r \in RunRow : r = run  BY <3>1
    <3> HIDE DEF run
    <3>5. StartChild(r) /\ r.child = mrun.child  BY <3>1, <3>2, <3>4
    <3> QED  BY <1>0, <1>1, <2>0, <3>2, <3>3, <3>5, StartChildKeeps
  <2>2. CASE ~mpass.reg
    <3>1. StopChild(mrun)  BY <1>3, <2>2 DEF MApply
    <3>2. mpass' \in PassRow  BY <1>0, <1>3, <2>2 DEF MApply, NoPass, PassRow, Process
    <3> QED  BY <1>0, <1>1, <2>0, <3>1, <3>2, StopChildKeeps
  <2> QED  BY <2>1, <2>2
<1>4. CASE MDrop
  <2>2. /\ mpass' = NoPass /\ mrun' = NoRuntime /\ mcall' = [mcall EXCEPT !.mine = mcall.pc = "idle"]
        /\ sstolen' = sstolen
    BY <1>4 DEF MDrop
  <2>3. /\ mpass' \in PassRow /\ mrun' \in RunRow /\ mrun'.child = "none"
    BY <2>2 DEF NoPass, NoRuntime, PassRow, RunRow, Phases
  <2>4. mcall' \in CallRow
    <3> DEFINE mine == mcall.pc = "idle"
    <3>1. mine \in BOOLEAN  OBVIOUS
    <3>2. mcall' = [mcall EXCEPT !.mine = mine]  BY <2>2
    <3> HIDE DEF mine
    <3> QED  BY <1>0, <3>1, <3>2 DEF CallRow
  <2>5. ChildWell'  BY <2>3, <2>4 DEF ChildWell
  <2>6. DropsWell  BY <1>4, DropKeeps
  <2> QED  BY <1>1, <2>2, <2>5, <2>6 DEF SInv, DropsWell
<1>5. CASE MProbe
  <2>1. UNCHANGED <<lockfile, sup, mcall>> /\ mpass' = NoPass  BY <1>5 DEF MProbe
  <2>2. mpass' \in PassRow /\ mpass'.old = "none"  BY <2>1 DEF NoPass, PassRow
  <2>3. PICK phase \in Phases : mrun' = [mrun EXCEPT !.phase = phase]
    BY <1>0, <1>5 DEF MProbe, RunRow, Phases
  <2>4. mrun' \in RunRow /\ mrun'.child = mrun.child  BY <1>0, <2>3 DEF RunRow
  <2>5. ChildWell'
    <3>1. mrun.child \in Sups => mrun.child # "none"  OBVIOUS
    <3> QED  BY <2>1, <2>2, <2>4, <3>1 DEF SInv, ChildWell, Alive
  <2> QED  BY <1>1, <2>1, <2>5 DEF SInv, SupsWell, LockWell, lockfile
<1>6. CASE MReconnect
  <2>1. StopChild(mrun) /\ UNCHANGED <<sstolen, mpass>>  BY <1>6 DEF MReconnect
  <2>2. mcall' \in CallRow  BY <1>0, <1>6 DEF MReconnect, CallRow, Process
  <2> QED  BY <1>0, <1>1, <2>1, <2>2, StopChildKeeps
<1>7. CASE MReconnectStopped
  <2>1. StopEnds(mcall.old, TRUE) /\ UNCHANGED <<sstolen, mrun, mpass>>
    BY <1>7 DEF MReconnectStopped, StopEnds
  <2>2. mcall' = [mcall EXCEPT !.pc = "start", !.old = "none"]
    BY <1>7 DEF MReconnectStopped, StopEnds
  <2>3. mcall' \in CallRow /\ mcall'.old = "none"  BY <1>0, <2>2 DEF CallRow
  <2> QED  BY <1>0, <1>1, <2>1, <2>3, StopEndsKeeps
<1>8. CASE MReconnectStart
  <2>1. UNCHANGED <<lockfile, mpass>> /\ mcall' = [pc |-> "idle", old |-> "none", mine |-> TRUE]
    BY <1>8 DEF MReconnectStart
  <2>2. mcall' \in CallRow /\ mcall'.old = "none"  BY <2>1 DEF CallRow
  <2>3. CASE mcall.mine
    <3> DEFINE run == [mrun EXCEPT !.phase = "connecting"]
    <3>1. run \in RunRow /\ run.child = mrun.child  BY <1>0 DEF RunRow, Phases
    <3>2. StartChild(run)  BY <1>8, <2>3 DEF MReconnectStart
    <3>3. PICK r \in RunRow : r = run  BY <3>1
    <3> HIDE DEF run
    <3>4. StartChild(r) /\ r.child = mrun.child  BY <3>1, <3>2, <3>3
    <3> QED  BY <1>0, <1>1, <2>1, <2>2, <3>4, StartChildKeeps
  <2>4. CASE ~mcall.mine
    <3>1. CASE UNCHANGED <<sup, mrun>>
      <4>1. ChildWell'
        <5>1. mrun.child \in Sups => mrun.child # "none"  OBVIOUS
        <5> QED  BY <1>0, <2>1, <2>2, <3>1, <5>1 DEF SInv, ChildWell, Alive
      <4> QED  BY <1>1, <2>1, <3>1, <4>1 DEF SInv, SupsWell, LockWell, lockfile
    <3>2. CASE Born("orphan") /\ UNCHANGED mrun
      <4>1. Slots # {} /\ SPut(NewSlot, [Free EXCEPT !.pc = "create", !.by = "orphan"])
        BY <3>2 DEF Born
      <4> QED  BY <1>0, <1>1, <2>1, <2>2, <3>2, <4>1, BirthKeeps
    <3> QED  BY <1>8, <2>4, <3>1, <3>2 DEF MReconnectStart
  <2> QED  BY <2>3, <2>4
<1>9. CASE MClose
  <2>1. StopChild(mrun) /\ UNCHANGED <<sstolen, mpass, mcall>>  BY <1>9 DEF MClose
  <2> QED  BY <1>0, <1>1, <2>1, StopChildKeeps
<1>10. CASE MCloseKills
  BY <1>1, <1>10, VanishKeeps DEF MCloseKills
<1> QED  BY <1>2, <1>3, <1>4, <1>5, <1>6, <1>7, <1>8, <1>9, <1>10 DEF Reconcile, Reconnected

LEMMA SNextKeeps == SInv /\ [SNext]_sVars => SInv'
<1> SUFFICES ASSUME SInv, [SNext]_sVars PROVE SInv'
  OBVIOUS
<1>1. ASSUME NEW s \in Sups, Main(s) \/ Shutdown(s) \/ SReaped(s) \/ SEndByHand(s) PROVE SInv'
  BY <1>1, LockSteps, RunnerSteps, WorldSteps DEF Main, Shutdown
<1>2. CASE SFaults  BY <1>2, WorldSteps, RunnerSteps DEF SFaults
<1>3. CASE UNCHANGED sVars
  BY <1>3 DEF sVars, faults, SInv, SupsWell, LockWell, ChildWell, CountsWell, Alive
<1> QED  BY <1>1, <1>2, <1>3, ManagerSteps DEF SNext

\* One phone's supervision, for any number of processes, faults and interventions: one
\* supervisor is past the lock, unless a lock was removed that was not the stale one
\* (start.ts:56-95), and the manager's child, if it could be spawned, is alive and its
\* own, whatever stops, starts and drops cross (connection-manager.ts:136-197, 232-286).
THEOREM OneSupervisorPerPhone == SSpec => []SSafe
<1>1. SInv => SSafe
  <2> SUFFICES ASSUME SInv PROVE SSafe
    OBVIOUS
  <2>1. STypeOK
    <3>1. slock \in LockFile /\ mrun \in RunRow /\ CountsWell
      BY DEF SInv, LockWell, ChildWell
    <3>2. \A s \in Sups : sup[s] \in SupRow /\ WellFormed(sup[s])  BY DEF SInv, SupsWell
    <3> QED  BY <3>1, <3>2 DEF STypeOK, LockFile, RunRow, SupRow, CountsWell, WellFormed
  <2>2. SOneSupervisor
    <3> DEFINE Up == {s \in Sups : Holds(s)}
    <3>1. ~sstolen => Up \subseteq {slock.by}
      BY DEF SInv, SupsWell, SupRow, LockWell, Holds, Alive, Claims, BeforeLock
    <3>2. ASSUME Up \subseteq {slock.by} PROVE Cardinality(Up) <= 1
      <4>1. IsFiniteSet({slock.by}) /\ Cardinality({slock.by}) = 1  BY FS_Singleton
      <4> HIDE DEF Up
      <4> QED  BY <3>2, <4>1, FS_Subset
    <3> QED  BY <3>1, <3>2 DEF SOneSupervisor
  <2>3. MChildIsOurs  BY DEF SInv, ChildWell, MChildIsOurs
  <2> QED  BY <2>1, <2>2, <2>3 DEF SSafe
<1> QED  BY <1>1, SInitHolds, SNextKeeps, PTL DEF SSpec

-----------------------------------------------------------------------------

USE RegistrationAssumption DEF Nothing

-----------------------------------------------------------------------------
(* Registration.  An action that goes on has its draft in sessions, and     *)
(* holds it busy, or its phone is among those of which a draft was          *)
(* cancelled in use or replaced; so a phone has one such action besides     *)
(* looks, and only the phone that holds activePreparation is prepared.  The *)
(* pair that a create has chosen is no other phone's.                       *)

DraftRow == [on : BOOLEAN, port : Ports \cup {Nothing}, cable : BOOLEAN, wda : BOOLEAN,
             seen : BOOLEAN, final : BOOLEAN, busy : BOOLEAN, sup : BOOLEAN]
JobRow == [phone : Phones, kind : {"look", "refresh", "prepare", "verify", "finalize"},
           pc : {"look", "prepare", "xcode", "wait", "verify", "stop", "handed"},
           mine : BOOLEAN, port : Ports]
MakeRow == [phone : Phones, nth : 1..2, port : Ports \cup {Nothing}]

GShape ==
  /\ gdraft \in [Phones -> DraftRow] /\ gfile \in [Phones -> DraftRow]
  /\ gmake \subseteq MakeRow /\ gcancel \subseteq Phones /\ gunsaved \subseteq Phones
  /\ greg \in [Phones -> Ports \cup {Nothing}]
  /\ gjob \subseteq JobRow /\ gprep \in Phones \cup {Nothing}
  /\ gcut \subseteq Phones /\ gtwin \in BOOLEAN /\ gcalls \in 0..MaxCalls

\* A draft has ports; what is on disk has no supervisor and runs nothing; and until a
\* draft is cancelled in use or replaced, what a restart brings back is a draft that is there.
HasPorts(draft) == draft.on <=> draft.port # Nothing
DraftWell(d) ==
  /\ HasPorts(gdraft[d]) /\ HasPorts(gfile[d])
  /\ ~gfile[d].busy /\ ~gfile[d].sup
  /\ gcut = {} /\ gfile[d].on /\ ~gfile[d].final =>
       gdraft[d].on /\ gdraft[d].port = gfile[d].port

JobWell(j) ==
  /\ j.pc \in {"prepare", "xcode", "wait"} => j.kind = "prepare"
  /\ j.mine => gdraft[j.phone].on /\ (j.kind # "look" => gdraft[j.phone].busy)
  /\ ~j.mine => j.phone \in gcut
OneAction ==
  \A i, j \in gjob : i.phone = j.phone /\ i.mine /\ j.mine /\ i.kind # "look" /\ j.kind # "look"
    => i = j
PreparedHere == gcut = {} => \A j \in gjob : j.kind = "prepare" => gprep = j.phone

Owned(d) == {gdraft[d].port, greg[d]}
Chosen == {m \in gmake : m.port # Nothing}
PortsWell ==
  ~gtwin /\ gcut = {} =>
    /\ \A d, e \in Phones : d # e => Owned(d) \cap Owned(e) \subseteq {Nothing}
    /\ \A m \in Chosen :
         /\ \A e \in Phones : e # m.phone => m.port \notin Owned(e)
         /\ \A n \in Chosen : n.phone = m.phone

GInv ==
  /\ GShape
  /\ \A d \in Phones : DraftWell(d)
  /\ \A j \in gjob : JobWell(j)
  /\ OneAction /\ PreparedHere /\ PortsWell /\ GSaved /\ GReleased

LEMMA NoDraftShape == NoDraft \in DraftRow /\ HasPorts(NoDraft)
<1>1. NoDraft \in DraftRow  BY DEF NoDraft, DraftRow
<1>2. HasPorts(NoDraft)  BY DEF NoDraft, HasPorts
<1> QED  BY <1>1, <1>2

LEMMA StoredShape ==
  ASSUME NEW draft \in DraftRow
  PROVE  /\ Stored(draft) \in DraftRow /\ ~Stored(draft).busy /\ ~Stored(draft).sup
         /\ Stored(draft).on = draft.on /\ Stored(draft).port = draft.port
         /\ Stored(draft).final = draft.final
  BY DEF Stored, DraftRow

LEMMA GInitHolds == GInit => GInv
<1> SUFFICES ASSUME GInit PROVE GInv
  OBVIOUS
<1>1. \A d \in Phones : gdraft[d] = NoDraft /\ gfile[d] = NoDraft
  BY DEF GInit
<1>2. GShape
  <2>1. gtwin \in BOOLEAN  BY DEF GInit
  <2> QED  BY <2>1, NoDraftShape DEF GInit, GShape
<1>3. \A d \in Phones : DraftWell(d)
  BY <1>1 DEF DraftWell, NoDraft, HasPorts
<1>4. gjob = {} /\ gprep = Nothing  BY DEF GInit
<1>5. PortsWell  BY <1>1 DEF GInit, PortsWell, Owned, Chosen, NoDraft
<1>6. GSaved  BY <1>1 DEF GSaved, NoDraft
<1> QED  BY <1>2, <1>3, <1>4, <1>5, <1>6 DEF GInv, OneAction, PreparedHere, GReleased

\* Ports stay who they belong to when nobody takes new ones.
LEMMA PortsKept ==
  ASSUME GInv, gtwin' = gtwin, gcut \subseteq gcut', gmake' \subseteq gmake,
         gcut' = {} => \A d \in Phones : Owned(d)' \subseteq Owned(d) \cup {Nothing}
  PROVE  PortsWell'
<1> SUFFICES ASSUME ~gtwin', gcut' = {}
             PROVE  /\ \A d, e \in Phones : d # e => Owned(d)' \cap Owned(e)' \subseteq {Nothing}
                    /\ \A m \in Chosen' :
                         /\ \A e \in Phones : e # m.phone => m.port \notin Owned(e)'
                         /\ \A n \in Chosen' : n.phone = m.phone
  BY DEF PortsWell
<1>1. /\ \A d, e \in Phones : d # e => Owned(d) \cap Owned(e) \subseteq {Nothing}
      /\ \A m \in Chosen : /\ \A e \in Phones : e # m.phone => m.port \notin Owned(e)
                           /\ \A n \in Chosen : n.phone = m.phone
  BY DEF GInv, PortsWell
<1>2. \A m \in Chosen' : m \in Chosen /\ m.port # Nothing  BY DEF Chosen
<1> HIDE DEF Owned, Chosen
<1> QED  BY <1>1, <1>2

\* One draft is replaced, in sessions and perhaps on disk, and keeps its ports.
LEMMA DraftKept ==
  ASSUME GInv, NEW d \in Phones, NEW draft \in DraftRow, NEW file \in DraftRow,
         gdraft' = [gdraft EXCEPT ![d] = draft], gfile' = [gfile EXCEPT ![d] = file],
         draft.on = gdraft[d].on, draft.port = gdraft[d].port, file \in {gfile[d], Stored(draft)},
         gcut \subseteq gcut'
  PROVE  /\ gdraft' \in [Phones -> DraftRow] /\ gfile' \in [Phones -> DraftRow]
         /\ gdraft'[d] = draft /\ \A e \in Phones \ {d} : gdraft'[e] = gdraft[e]
         /\ \A e \in Phones : DraftWell(e)'
<1>0. gdraft \in [Phones -> DraftRow] /\ gfile \in [Phones -> DraftRow]  BY DEF GInv, GShape
<1>1. /\ gdraft'[d] = draft /\ \A e \in Phones \ {d} : gdraft'[e] = gdraft[e]
      /\ gfile'[d] = file /\ \A e \in Phones \ {d} : gfile'[e] = gfile[e]
  BY <1>0
<1>2. \A e \in Phones : gdraft'[e].on = gdraft[e].on /\ gdraft'[e].port = gdraft[e].port
  BY <1>1
<1>4. \A e \in Phones \ {d} : DraftWell(e)'  BY <1>1 DEF GInv, DraftWell
<1>5. DraftWell(d)'
  <2>0. DraftWell(d)  BY DEF GInv
  <2>1. CASE file = gfile[d]  BY <1>1, <2>0, <2>1 DEF DraftWell, HasPorts
  <2>2. CASE file = Stored(draft)
    <3>1. /\ ~file.busy /\ ~file.sup /\ file.on = draft.on /\ file.port = draft.port
      BY <2>2, StoredShape
    <3> QED  BY <1>1, <2>0, <3>1 DEF DraftWell, HasPorts
  <2> QED  BY <2>1, <2>2
<1> QED  BY <1>0, <1>1, <1>4, <1>5

\* The phone of a job has a draft of the model's phones, and keeps its shape.
LEMMA JobShape ==
  ASSUME GInv, NEW j \in gjob
  PROVE  j \in JobRow /\ j.phone \in Phones /\ j.port \in Ports /\ gdraft[j.phone] \in DraftRow
  BY DEF GInv, GShape, JobRow

\* A job goes on: only its pc changes, and its draft keeps ports and busy.
LEMMA JobGoesOn ==
  ASSUME GInv, NEW j \in gjob, NEW pc \in {"xcode", "wait", "handed"}, Goes(j, pc),
         pc \in {"xcode", "wait"} => j.kind = "prepare",
         NEW draft \in DraftRow, gdraft' = [gdraft EXCEPT ![j.phone] = draft],
         draft.on = gdraft[j.phone].on, draft.port = gdraft[j.phone].port,
         draft.busy = gdraft[j.phone].busy,
         UNCHANGED <<gfile, gunsaved, gprep, pending, greg, history, gcalls>>
  PROVE  GInv'
<1> DEFINE d == j.phone
           jj == [j EXCEPT !.pc = pc]
<1>0. j \in JobRow /\ d \in Phones /\ gdraft[d] \in DraftRow  BY JobShape
<1>1. jj \in JobRow /\ jj.phone = d /\ jj.kind = j.kind /\ jj.mine = j.mine /\ jj.pc = pc
  BY <1>0 DEF JobRow
<1>2. gjob' = (gjob \ {j}) \cup {jj}  BY DEF Goes
<1> HIDE DEF jj
<1>3. GShape /\ gcut' = gcut /\ gtwin' = gtwin /\ gmake' = gmake  BY DEF GInv, history, pending
<1>4. gfile' = [gfile EXCEPT ![d] = gfile[d]] /\ gfile[d] \in DraftRow  BY <1>0, <1>3 DEF GShape
<1>5. /\ gdraft' \in [Phones -> DraftRow]
      /\ gdraft'[d] = draft /\ \A e \in Phones \ {d} : gdraft'[e] = gdraft[e]
      /\ \A e \in Phones : DraftWell(e)'
  <2>1. gfile[d] \in {gfile[d], Stored(draft)}  OBVIOUS
  <2> QED  BY <1>0, <1>3, <1>4, <2>1, DraftKept
<1>6. GShape'
  <2>1. gjob' \subseteq JobRow  BY <1>1, <1>2, <1>3 DEF GShape
  <2> QED  BY <1>3, <1>5, <2>1 DEF GShape, history, pending
<1>7. \A i \in gjob' : JobWell(i)'
  <2>1. \A i \in gjob : JobWell(i)  BY DEF GInv
  <2>2. \A e \in Phones : gdraft'[e].on = gdraft[e].on /\ gdraft'[e].busy = gdraft[e].busy
    BY <1>5
  <2>3. \A i \in gjob : i.phone \in Phones  BY JobShape
  <2>4. \A i \in gjob : JobWell(i)'  BY <1>3, <2>1, <2>2, <2>3 DEF JobWell
  <2>5. JobWell(jj)'  BY <1>1, <2>4, <1>0 DEF JobWell
  <2> QED  BY <1>2, <2>4, <2>5
<1>8. OneAction'  BY <1>1, <1>2 DEF GInv, OneAction
<1>9. PreparedHere'  BY <1>1, <1>2, <1>3 DEF GInv, PreparedHere
<1>10. PortsWell'
  <2>1. \A e \in Phones : gdraft'[e].port = gdraft[e].port  BY <1>5
  <2>2. \A e \in Phones : Owned(e)' = Owned(e)  BY <2>1 DEF Owned
  <2> QED  BY <1>3, <2>2, PortsKept
<1>11. GSaved'
  <2>1. jj \in gjob' /\ jj.phone = d  BY <1>1, <1>2
  <2>2. JobsOf(d)' # {}  BY <2>1 DEF JobsOf
  <2>3. \A e \in Phones \ {d} : JobsOf(e)' = {} => JobsOf(e) = {}  BY <1>2 DEF JobsOf
  <2> QED  BY <1>3, <1>5, <2>2, <2>3 DEF GInv, GSaved
<1>12. GReleased'
  <2>1. CASE gprep = Nothing  BY <2>1 DEF GReleased
  <2>2. CASE gprep # Nothing
    <3>1. PICK i \in JobsOf(gprep) : i.kind = "prepare"  BY <2>2 DEF GInv, GReleased
    <3>2. i \in gjob /\ i.phone = gprep  BY <3>1 DEF JobsOf
    <3>3. \E k \in gjob' : k.phone = gprep /\ k.kind = "prepare"
      BY <1>1, <1>2, <3>1, <3>2
    <3> QED  BY <3>3 DEF GReleased, JobsOf
  <2> QED  BY <2>1, <2>2
<1> QED  BY <1>5, <1>6, <1>7, <1>8, <1>9, <1>10, <1>11, <1>12 DEF GInv

\* A file that comes back: the draft of an action whose phone was cancelled in use.
LEMMA FileReturns ==
  ASSUME NEW port \in Ports
  PROVE  LET file == [NoDraft EXCEPT !.on = TRUE, !.port = port]
         IN  file \in DraftRow /\ HasPorts(file) /\ ~file.busy /\ ~file.sup
  BY DEF NoDraft, DraftRow, HasPorts

\* What a write leaves: the draft is on disk, or is known not to be.
Unsaved(d, draft, file) ==
  /\ gunsaved' \subseteq Phones
  /\ \A e \in Phones \ {d} : e \in gunsaved => e \in gunsaved'
  /\ d \notin gunsaved' => file = Stored(draft)

LEMMA SaveCases ==
  ASSUME GShape, NEW d \in Phones, NEW draft, Save(d, draft)
  PROVE  \E file \in {gfile[d], Stored(draft)} :
           /\ gdraft' = [gdraft EXCEPT ![d] = draft] /\ gfile' = [gfile EXCEPT ![d] = file]
           /\ Unsaved(d, draft, file)
<1>1. gdraft' = [gdraft EXCEPT ![d] = draft]  BY DEF Save
<1>2. CASE gfile' = [gfile EXCEPT ![d] = Stored(draft)] /\ gunsaved' = gunsaved \ {d}
  <2>1. Unsaved(d, draft, Stored(draft))  BY <1>2 DEF GShape, Unsaved
  <2> QED  BY <1>1, <1>2, <2>1
<1>3. CASE gunsaved \subseteq {d} /\ gunsaved' = {d} /\ UNCHANGED gfile
  <2>1. Unsaved(d, draft, gfile[d])  BY <1>3 DEF Unsaved
  <2>2. gfile' = [gfile EXCEPT ![d] = gfile[d]]  BY <1>3 DEF GShape
  <2> QED  BY <1>1, <2>1, <2>2
<1> QED  BY <1>2, <1>3 DEF Save

\* An action ends with a draft that has the same ports and is as busy as before.
LEMMA JobEnds ==
  ASSUME GInv, NEW j \in gjob, NEW draft \in DraftRow, Ended(j, draft),
         draft.on = gdraft[j.phone].on, draft.port = gdraft[j.phone].port,
         draft.busy = gdraft[j.phone].busy,
         UNCHANGED <<pending, greg, history, gcalls>>
  PROVE  GInv'
<1> DEFINE d == j.phone
           last == IF j.kind = "look" THEN draft ELSE [draft EXCEPT !.busy = FALSE]
           file == [NoDraft EXCEPT !.on = TRUE, !.port = j.port]
<1>0. j \in JobRow /\ d \in Phones /\ j.port \in Ports /\ gdraft[d] \in DraftRow  BY JobShape
<1>1. /\ last \in DraftRow /\ last.on = draft.on /\ last.port = draft.port
      /\ j.kind # "look" => ~last.busy
      /\ j.kind = "look" => last.busy = draft.busy
  BY DEF DraftRow
<1>2. PICK kept \in {gfile[d], Stored(last)} :
        j.mine => /\ gdraft' = [gdraft EXCEPT ![d] = last] /\ gfile' = [gfile EXCEPT ![d] = kept]
                  /\ Unsaved(d, last, kept)
  <2>1. j.mine => Save(d, last)  BY DEF Ended
  <2>2. GShape  BY DEF GInv
  <2> HIDE DEF last
  <2> QED  BY <1>0, <2>1, <2>2, SaveCases
<1>3. ~j.mine => gdraft' = gdraft /\ gfile' = [gfile EXCEPT ![d] = file] /\ gunsaved' = gunsaved
  BY DEF Ended
<1>4. gjob' = gjob \ {j} /\ gprep' = IF j.kind = "prepare" /\ gprep = d THEN Nothing ELSE gprep
  BY DEF Ended
<1> HIDE DEF last
<1>5. /\ GShape /\ gcut' = gcut /\ gtwin' = gtwin /\ gmake' = gmake
      /\ JobWell(j) /\ OneAction /\ PreparedHere
      /\ \A i \in gjob : JobWell(i) /\ i.phone \in Phones
      /\ \A e \in Phones : DraftWell(e)
  BY JobShape DEF GInv, history, pending
<1>6. ~j.mine => d \in gcut  BY <1>5 DEF JobWell
<1>7. kept \in DraftRow  BY <1>0, <1>1, <1>2, <1>5, StoredShape DEF GShape
<1>8. file \in DraftRow /\ HasPorts(file) /\ ~file.busy /\ ~file.sup  BY <1>0, FileReturns
<1> HIDE DEF file
<1>9. /\ gdraft' \in [Phones -> DraftRow] /\ gfile' \in [Phones -> DraftRow]
      /\ j.mine => gdraft'[d] = last
      /\ ~j.mine => gdraft'[d] = gdraft[d]
      /\ \A e \in Phones \ {d} : gdraft'[e] = gdraft[e]
      /\ \A e \in Phones : DraftWell(e)'
  <2>1. CASE j.mine
    <3> QED  BY <1>0, <1>1, <1>2, <1>5, <1>7, <2>1, DraftKept
  <2>2. CASE ~j.mine
    <3>1. gfile' \in [Phones -> DraftRow] /\ gdraft' \in [Phones -> DraftRow]
      BY <1>3, <1>5, <1>8, <2>2 DEF GShape
    <3>2. \A e \in Phones : gdraft'[e] = gdraft[e]
      BY <1>3, <1>5, <2>2
    <3>3. gfile'[d] = file /\ \A e \in Phones \ {d} : gfile'[e] = gfile[e]
      BY <1>0, <1>3, <1>5, <2>2 DEF GShape
    <3>4. \A e \in Phones : DraftWell(e)'
      <4>1. \A e \in Phones \ {d} : DraftWell(e)'  BY <1>5, <3>2, <3>3 DEF DraftWell
      <4>2. DraftWell(d)'  BY <1>0, <1>5, <1>6, <1>8, <2>2, <3>2, <3>3 DEF DraftWell, HasPorts
      <4> QED  BY <4>1, <4>2
    <3> QED  BY <1>0, <2>2, <3>1, <3>2, <3>4
  <2> QED  BY <2>1, <2>2
<1>10. GShape'
  <2>1. gprep' \in Phones \cup {Nothing}  BY <1>4, <1>5 DEF GShape
  <2>2. gunsaved' \subseteq Phones  BY <1>2, <1>3, <1>5 DEF Unsaved, GShape
  <2> QED  BY <1>4, <1>5, <1>9, <2>1, <2>2 DEF GShape, history, pending
<1>11. \A i \in gjob' : JobWell(i)'
  <2> SUFFICES ASSUME NEW i \in gjob, i # j PROVE JobWell(i)'
    BY <1>4
  <2>1. JobWell(i) /\ i.phone \in Phones  BY <1>5
  <2>2. i.mine => gdraft'[i.phone].on  BY <1>1, <1>9, <2>1, <1>0 DEF JobWell
  <2>3. i.mine /\ i.kind # "look" => gdraft'[i.phone].busy
    <3>1. CASE i.phone = d /\ j.mine
      <4>1. i.mine /\ i.kind # "look" => j.kind = "look"  BY <1>5, <3>1 DEF OneAction
      <4> QED  BY <1>1, <1>9, <2>1, <3>1, <4>1 DEF JobWell
    <3>2. CASE ~(i.phone = d /\ j.mine)
      BY <1>9, <2>1, <3>2 DEF JobWell
    <3> QED  BY <3>1, <3>2
  <2> QED  BY <1>5, <2>1, <2>2, <2>3 DEF JobWell
<1>12. OneAction'  BY <1>4, <1>5 DEF OneAction
<1>13. PreparedHere'
  <2> SUFFICES ASSUME gcut = {}, NEW i \in gjob, i # j, i.kind = "prepare" PROVE gprep' = i.phone
    BY <1>4, <1>5 DEF PreparedHere
  <2>1. gprep = i.phone /\ i.mine /\ j.mine  BY <1>5, <1>6 DEF PreparedHere, JobWell
  <2>2. j.kind = "prepare" => j.phone # i.phone  BY <1>5, <2>1 DEF OneAction
  <2> QED  BY <1>4, <2>1, <2>2
<1>14. PortsWell'
  <2>1. \A e \in Phones : gdraft'[e].port = gdraft[e].port  BY <1>1, <1>9
  <2>2. \A e \in Phones : Owned(e)' = Owned(e)  BY <2>1 DEF Owned
  <2> QED  BY <1>5, <2>2, PortsKept
<1>15. GSaved'
  <2> SUFFICES ASSUME NEW e \in Phones \ (gcut \cup gunsaved'), gdraft'[e].on, JobsOf(e)' = {}
               PROVE  gfile'[e] = Stored(gdraft'[e])
    BY <1>5 DEF GSaved
  <2>1. CASE e = d
    <3>1. j.mine  BY <1>6, <2>1
    <3>2. kept = Stored(last)  BY <1>2, <2>1, <3>1 DEF Unsaved
    <3> QED  BY <1>0, <1>2, <1>5, <1>9, <2>1, <3>1, <3>2 DEF GShape
  <2>2. CASE e # d
    <3>1. JobsOf(e) = {}  BY <1>4, <2>2 DEF JobsOf
    <3>2. gdraft'[e] = gdraft[e] /\ gfile'[e] = gfile[e]
      <4>1. gdraft'[e] = gdraft[e]  BY <1>9, <2>2
      <4>2. gfile'[e] = gfile[e]
        BY <1>2, <1>3, <1>5, <2>2 DEF GShape
      <4> QED  BY <4>1, <4>2
    <3>3. e \notin gunsaved  BY <1>2, <1>3, <2>2 DEF Unsaved
    <3> QED  BY <3>1, <3>2, <3>3 DEF GInv, GSaved
  <2> QED  BY <2>1, <2>2
<1>16. GReleased'
  <2> SUFFICES ASSUME gprep' # Nothing PROVE \E i \in gjob' : i.phone = gprep' /\ i.kind = "prepare"
    BY DEF GReleased, JobsOf
  <2>1. gprep' = gprep /\ ~(j.kind = "prepare" /\ gprep = d)  BY <1>4
  <2>2. PICK i \in gjob : i.phone = gprep /\ i.kind = "prepare"
    BY <2>1 DEF GInv, GReleased, JobsOf
  <2>3. i # j  BY <2>1, <2>2
  <2> QED  BY <1>4, <2>1, <2>2, <2>3
<1> QED  BY <1>9, <1>10, <1>11, <1>12, <1>13, <1>14, <1>15, <1>16 DEF GInv

\* Every step of an action of a phone.
LEMMA GAction == ASSUME GInv, NEW j \in gjob, Action(j) PROVE GInv'
<1> DEFINE d == j.phone
           held == gdraft[d]
<1>0. /\ j \in JobRow /\ d \in Phones /\ held \in DraftRow
      /\ gdraft \in [Phones -> DraftRow] /\ JobWell(j)
  BY JobShape DEF GInv, GShape
<1>1. UNCHANGED <<pending, greg, history, gcalls>>  BY DEF Action
<1>2. gdraft = [gdraft EXCEPT ![d] = held]  BY <1>0
<1>3. CASE Look(j)
  <2>1. PICK cable, wda \in BOOLEAN : Ended(j, [held EXCEPT !.cable = cable, !.wda = wda])
    BY <1>3 DEF Look
  <2> DEFINE draft == [held EXCEPT !.cable = cable, !.wda = wda]
  <2>2. /\ draft \in DraftRow /\ draft.on = held.on /\ draft.port = held.port
        /\ draft.busy = held.busy
    BY <1>0 DEF DraftRow
  <2>3. Ended(j, draft)  BY <2>1
  <2> HIDE DEF draft
  <2> QED  BY <1>1, <2>2, <2>3, JobEnds
<1>4. CASE Prepare(j)
  <2>1. CASE Ended(j, held)  BY <1>0, <1>1, <2>1, JobEnds
  <2>2. CASE Goes(j, "xcode") /\ UNCHANGED <<gdraft, gfile, gunsaved, gprep>>
    <3>1. j.kind = "prepare"  BY <1>0, <1>4 DEF Prepare, JobWell
    <3>2. gdraft' = [gdraft EXCEPT ![d] = held]  BY <1>2, <2>2
    <3>3. "xcode" \in {"xcode", "wait", "handed"}  OBVIOUS
    <3> QED  BY <1>0, <1>1, <2>2, <3>1, <3>2, <3>3, JobGoesOn
  <2> QED  BY <1>4, <2>1, <2>2 DEF Prepare
<1>5. CASE Xcode(j)
  <2>1. CASE Ended(j, [held EXCEPT !.wda = FALSE])
    <3> DEFINE draft == [held EXCEPT !.wda = FALSE]
    <3>1. /\ draft \in DraftRow /\ draft.on = held.on /\ draft.port = held.port
          /\ draft.busy = held.busy
      BY <1>0 DEF DraftRow
    <3>2. Ended(j, draft)  BY <2>1
    <3> HIDE DEF draft
    <3> QED  BY <1>1, <3>1, <3>2, JobEnds
  <2>2. CASE /\ Goes(j, "wait") /\ UNCHANGED <<gfile, gunsaved, gprep>>
             /\ gdraft' = IF j.mine THEN [gdraft EXCEPT ![j.phone].sup = TRUE] ELSE gdraft
    <3> DEFINE draft == IF j.mine THEN [held EXCEPT !.sup = TRUE] ELSE held
    <3>1. /\ draft \in DraftRow /\ draft.on = held.on /\ draft.port = held.port
          /\ draft.busy = held.busy
      BY <1>0 DEF DraftRow
    <3>2. gdraft' = [gdraft EXCEPT ![d] = draft]  BY <1>2, <2>2
    <3> HIDE DEF draft
    <3>3. j.kind = "prepare"  BY <1>0, <1>5 DEF Xcode, JobWell
    <3>4. "wait" \in {"xcode", "wait", "handed"}  OBVIOUS
    <3> QED  BY <1>1, <2>2, <3>1, <3>2, <3>3, <3>4, JobGoesOn
  <2> QED  BY <1>5, <2>1, <2>2 DEF Xcode
<1>6. CASE Wait(j)
  <2>1. PICK ready \in BOOLEAN : Ended(j, [held EXCEPT !.wda = ready])  BY <1>6 DEF Wait
  <2> DEFINE draft == [held EXCEPT !.wda = ready]
  <2>2. /\ draft \in DraftRow /\ draft.on = held.on /\ draft.port = held.port
        /\ draft.busy = held.busy
    BY <1>0 DEF DraftRow
  <2>3. Ended(j, draft)  BY <2>1
  <2> HIDE DEF draft
  <2> QED  BY <1>1, <2>2, <2>3, JobEnds
<1>7. CASE Verify(j)
  <2>1. PICK wda, seen \in BOOLEAN :
          Ended(j, [held EXCEPT !.wda = wda, !.seen = IF wda THEN seen ELSE @])
    BY <1>7 DEF Verify
  <2> DEFINE draft == [held EXCEPT !.wda = wda, !.seen = IF wda THEN seen ELSE @]
  <2>2. /\ draft \in DraftRow /\ draft.on = held.on /\ draft.port = held.port
        /\ draft.busy = held.busy
    BY <1>0 DEF DraftRow
  <2>3. Ended(j, draft)  BY <2>1
  <2> HIDE DEF draft
  <2> QED  BY <1>1, <2>2, <2>3, JobEnds
<1>8. CASE HandOver(j)
  <2> DEFINE draft == IF j.mine THEN [held EXCEPT !.sup = FALSE, !.wda = FALSE] ELSE held
  <2>1. /\ draft \in DraftRow /\ draft.on = held.on /\ draft.port = held.port
        /\ draft.busy = held.busy
    BY <1>0 DEF DraftRow
  <2>2. gdraft' = [gdraft EXCEPT ![d] = draft]
    <3>1. CASE j.mine
      <4>1. gdraft' = [gdraft EXCEPT ![d].sup = FALSE, ![d].wda = FALSE]
        BY <1>8, <3>1 DEF HandOver
      <4> QED  BY <1>0, <3>1, <4>1
    <3>2. CASE ~j.mine  BY <1>2, <1>8, <3>2 DEF HandOver
    <3> QED  BY <3>1, <3>2
  <2> HIDE DEF draft
  <2>3. Goes(j, "handed") /\ UNCHANGED <<gfile, gunsaved, gprep>>  BY <1>8 DEF HandOver
  <2>4. "handed" \in {"xcode", "wait", "handed"} /\ "handed" \notin {"xcode", "wait"}  OBVIOUS
  <2> QED  BY <1>1, <2>1, <2>2, <2>3, <2>4, JobGoesOn
<1>9. CASE HandedOver(j)
  <2>1. PICK ready \in BOOLEAN : Ended(j, [held EXCEPT !.wda = ready, !.final = @ \/ ready])
    BY <1>9 DEF HandedOver
  <2> DEFINE draft == [held EXCEPT !.wda = ready, !.final = @ \/ ready]
  <2>2. /\ draft \in DraftRow /\ draft.on = held.on /\ draft.port = held.port
        /\ draft.busy = held.busy
    BY <1>0 DEF DraftRow
  <2>3. Ended(j, draft)  BY <2>1
  <2> HIDE DEF draft
  <2> QED  BY <1>1, <2>2, <2>3, JobEnds
<1> QED  BY <1>3, <1>4, <1>5, <1>6, <1>7, <1>8, <1>9 DEF Action

\* Facts of the invariant about one phone without an action, or with none besides looks.
LEMMA PhoneFacts ==
  ASSUME GInv, NEW d \in Phones
  PROVE  /\ GShape /\ gdraft[d] \in DraftRow /\ gfile[d] \in DraftRow
         /\ DraftWell(d)
         /\ ~gdraft[d].on => \A j \in JobsOf(d) : ~j.mine
         /\ ~gdraft[d].busy => \A j \in JobsOf(d) : j.mine => j.kind = "look"
         /\ gdraft[d].on => gdraft[d].port \in Ports
<1>1. GShape /\ DraftWell(d) /\ \A j \in gjob : JobWell(j)  BY DEF GInv
<1>2. gdraft[d] \in DraftRow /\ gfile[d] \in DraftRow
  BY <1>1 DEF GShape
<1>3. ~gdraft[d].on => \A j \in JobsOf(d) : ~j.mine  BY <1>1 DEF JobsOf, JobWell
<1>4. ~gdraft[d].busy => \A j \in JobsOf(d) : j.mine => j.kind = "look"
  BY <1>1 DEF JobsOf, JobWell
<1>5. gdraft[d].on => gdraft[d].port \in Ports
  BY <1>1, <1>2 DEF DraftWell, HasPorts, DraftRow
<1> QED  BY <1>1, <1>2, <1>3, <1>4, <1>5

\* A call that only changes a draft's checks or supervisor, or its own step.
LEMMA DraftReplaced ==
  ASSUME GInv, NEW d \in Phones, NEW draft \in DraftRow, NEW file \in DraftRow,
         gdraft' = [gdraft EXCEPT ![d] = draft], gfile' = [gfile EXCEPT ![d] = file],
         draft.on = gdraft[d].on, draft.port = gdraft[d].port, draft.busy = gdraft[d].busy,
         file \in {gfile[d], Stored(draft)},
         \/ Unsaved(d, draft, file)
         \/ gunsaved' = gunsaved /\ file = gfile[d] /\ Stored(draft) = Stored(gdraft[d]),
         gmake' = gmake, gcancel' \subseteq Phones, gcalls' \in 0..MaxCalls,
         UNCHANGED <<gjob, gprep, greg, history>>
  PROVE  GInv'
<1>1. GShape /\ gcut' = gcut /\ gtwin' = gtwin  BY DEF GInv, history
<1>2. /\ gdraft' \in [Phones -> DraftRow] /\ gfile' \in [Phones -> DraftRow]
      /\ gdraft'[d] = draft /\ \A e \in Phones \ {d} : gdraft'[e] = gdraft[e]
      /\ \A e \in Phones : DraftWell(e)'
  <2> QED  BY <1>1, DraftKept
<1>3. GShape'
  <2>1. gunsaved' \subseteq Phones  BY <1>1 DEF Unsaved, GShape
  <2> QED  BY <1>1, <1>2, <2>1 DEF GShape, history
<1>4. \A j \in gjob' : JobWell(j)'
  <2>1. \A e \in Phones : gdraft'[e].on = gdraft[e].on /\ gdraft'[e].busy = gdraft[e].busy
    BY <1>2
  <2>2. \A j \in gjob : JobWell(j) /\ j.phone \in Phones  BY JobShape DEF GInv
  <2> QED  BY <1>1, <2>1, <2>2 DEF JobWell
<1>5. OneAction' /\ PreparedHere' /\ GReleased'
  BY <1>1 DEF GInv, OneAction, PreparedHere, GReleased, JobsOf
<1>6. PortsWell'
  <2>1. \A e \in Phones : gdraft'[e].port = gdraft[e].port  BY <1>2
  <2>2. \A e \in Phones : Owned(e)' = Owned(e)  BY <2>1 DEF Owned
  <2> QED  BY <1>1, <2>2, PortsKept
<1>7. GSaved'
  <2> SUFFICES ASSUME NEW e \in Phones \ (gcut \cup gunsaved'), gdraft'[e].on, JobsOf(e) = {}
               PROVE  gfile'[e] = Stored(gdraft'[e])
    BY <1>1 DEF GSaved, JobsOf
  <2>1. gfile'[d] = file /\ \A k \in Phones \ {d} : gfile'[k] = gfile[k]  BY <1>1 DEF GShape
  <2>2. gdraft[e].on  BY <1>2
  <2>3. e \notin gunsaved => gfile[e] = Stored(gdraft[e])  BY <2>2 DEF GInv, GSaved
  <2>4. CASE e = d
    <3>1. file = Stored(draft)  BY <2>3, <2>4 DEF Unsaved
    <3> QED  BY <1>2, <2>1, <2>4, <3>1
  <2>5. CASE e # d
    <3>1. e \notin gunsaved  BY <2>5 DEF Unsaved
    <3> QED  BY <1>2, <2>1, <2>3, <2>5, <3>1
  <2> QED  BY <2>4, <2>5
<1> QED  BY <1>2, <1>3, <1>4, <1>5, <1>6, <1>7 DEF GInv

\* A call that starts an action.  Any but a look wants a draft that is not busy, and
\* makes it busy.
LEMMA JobStarts ==
  ASSUME GInv, NEW d \in Phones, NEW draft \in DraftRow, NEW file \in DraftRow,
         NEW kind \in {"look", "refresh", "prepare", "verify", "finalize"},
         NEW pc \in {"look", "prepare", "verify", "stop"},
         gdraft' = [gdraft EXCEPT ![d] = draft], gfile' = [gfile EXCEPT ![d] = file],
         gdraft[d].on, draft.on, draft.port = gdraft[d].port,
         kind = "look" => draft.busy = gdraft[d].busy,
         kind # "look" => ~gdraft[d].busy /\ draft.busy,
         file \in {gfile[d], Stored(draft)}, gjob' = gjob \cup {Job(d, kind, pc)},
         pc = "prepare" => kind = "prepare",
         gprep' = IF kind = "prepare" THEN d ELSE gprep, kind = "prepare" => MayPrepare(d),
         greg' \in [Phones -> Ports \cup {Nothing}], gcalls' \in 0..MaxCalls,
         \A e \in Phones : greg'[e] \in {greg[e], gdraft[e].port},
         Unsaved(d, draft, file) \/ gunsaved' = gunsaved, UNCHANGED <<pending, history>>
  PROVE  GInv'
<1>0. /\ GShape /\ gcut' = gcut /\ gtwin' = gtwin /\ gmake' = gmake /\ gdraft[d].port \in Ports
      /\ OneAction /\ PreparedHere
  BY PhoneFacts DEF GInv, history, pending
<1>1. PICK j \in JobRow : /\ j = Job(d, kind, pc)
                        /\ j.phone = d /\ j.kind = kind /\ j.pc = pc /\ j.mine
  <2>1. Job(d, kind, pc) \in JobRow
    <3>1. /\ kind \in {"look", "refresh", "prepare", "verify", "finalize"}
          /\ pc \in {"look", "prepare", "xcode", "wait", "verify", "stop", "handed"}
      OBVIOUS
    <3> QED  BY <1>0, <3>1 DEF Job, JobRow
  <2>2. /\ Job(d, kind, pc).phone = d /\ Job(d, kind, pc).kind = kind
        /\ Job(d, kind, pc).pc = pc /\ Job(d, kind, pc).mine
    BY DEF Job
  <2> QED  BY <2>1, <2>2
<1>2. gjob' = gjob \cup {j}  BY <1>1
<1>3. /\ gdraft' \in [Phones -> DraftRow] /\ gfile' \in [Phones -> DraftRow]
      /\ gdraft'[d] = draft /\ \A e \in Phones \ {d} : gdraft'[e] = gdraft[e]
      /\ \A e \in Phones : DraftWell(e)'
  <2>1. draft.on = gdraft[d].on
    <3>1. draft.on \in BOOLEAN /\ gdraft[d].on \in BOOLEAN  BY PhoneFacts DEF DraftRow
    <3> QED  BY <3>1
  <2> QED  BY <1>0, <2>1, DraftKept
<1>4. GShape'
  <2>1. gprep' \in Phones \cup {Nothing}  BY <1>0 DEF GShape
  <2>2. gjob' \subseteq JobRow  BY <1>0, <1>1, <1>2 DEF GShape
  <2>3. gunsaved' \subseteq Phones  BY <1>0 DEF Unsaved, GShape
  <2> QED  BY <1>0, <1>3, <2>1, <2>2, <2>3 DEF GShape, history, pending
<1>5. kind # "look" => \A i \in gjob : i.phone = d /\ i.mine => i.kind = "look"
  BY PhoneFacts DEF JobsOf
<1>6. \A i \in gjob' : JobWell(i)'
  <2>1. \A i \in gjob : JobWell(i) /\ i.phone \in Phones  BY JobShape DEF GInv
  <2>2. ASSUME NEW i \in gjob PROVE JobWell(i)'
    <3>1. i.mine => gdraft'[i.phone].on  BY <1>3, <2>1 DEF JobWell
    <3>2. i.mine /\ i.kind # "look" => gdraft'[i.phone].busy
      <4>1. CASE i.phone = d  BY <1>3, <2>1, <4>1 DEF JobWell
      <4>2. CASE i.phone # d  BY <1>3, <2>1, <4>2 DEF JobWell
      <4> QED  BY <4>1, <4>2
    <3> QED  BY <1>0, <2>1, <3>1, <3>2 DEF JobWell
  <2>3. JobWell(j)'  BY <1>1, <1>3 DEF JobWell
  <2> QED  BY <1>2, <2>2, <2>3
<1>7. OneAction'  BY <1>0, <1>1, <1>2, <1>5 DEF OneAction
<1>8. PreparedHere'
  <2>1. CASE kind = "prepare"
    <3>1. gprep \in {Nothing, d}  BY <2>1 DEF MayPrepare
    <3>2. \A i \in gjob : gcut = {} /\ i.kind = "prepare" => i.phone = d
      <4>1. \A i \in gjob : i.phone \in Phones  BY JobShape
      <4> QED  BY <1>0, <3>1, <4>1 DEF PreparedHere
    <3> QED  BY <1>0, <1>1, <1>2, <2>1, <3>2 DEF PreparedHere
  <2>2. CASE kind # "prepare"  BY <1>0, <1>1, <1>2, <2>2 DEF PreparedHere
  <2> QED  BY <2>1, <2>2
<1>9. PortsWell'
  <2>1. \A e \in Phones : gdraft'[e].port = gdraft[e].port  BY <1>3
  <2>2. \A e \in Phones : Owned(e)' \subseteq Owned(e) \cup {Nothing}  BY <2>1 DEF Owned
  <2> QED  BY <1>0, <2>2, PortsKept
<1>10. GSaved'
  <2>1. JobsOf(d)' # {}  BY <1>1, <1>2 DEF JobsOf
  <2>2. \A e \in Phones : JobsOf(e)' = {} => JobsOf(e) = {}  BY <1>2 DEF JobsOf
  <2>3. \A e \in Phones \ {d} : gfile'[e] = gfile[e]  BY <1>0 DEF GShape
  <2>4. \A e \in Phones \ {d} : e \in gunsaved => e \in gunsaved'  BY DEF Unsaved
  <2> QED  BY <1>0, <1>3, <2>1, <2>2, <2>3, <2>4 DEF GInv, GSaved
<1>11. GReleased'
  <2>1. CASE kind = "prepare"  BY <1>1, <1>2, <2>1 DEF GReleased, JobsOf
  <2>2. CASE kind # "prepare"  BY <1>2, <2>2 DEF GInv, GReleased, JobsOf
  <2> QED  BY <2>1, <2>2
<1> QED  BY <1>3, <1>4, <1>6, <1>7, <1>8, <1>9, <1>10, <1>11 DEF GInv

LEMMA CallCounted == ASSUME GInv, Call PROVE gcalls' \in 0..MaxCalls
  BY DEF GInv, GShape, Call

\* A create begins, with no pair yet.
LEMMA GAskKeeps == ASSUME GInv, NEW d \in Phones, GAsk(d) PROVE GInv'
<1>0. GShape /\ gcalls' \in 0..MaxCalls  BY CallCounted DEF GInv, GAsk
<1>1. PICK m \in MakeRow : m.port = Nothing /\ gmake' = gmake \cup {m}
  <2>1. \A nth \in 1..2 : [phone |-> d, nth |-> nth, port |-> Nothing] \in MakeRow  BY DEF MakeRow
  <2> QED  BY <2>1 DEF GAsk
<1>2. /\ UNCHANGED <<gdraft, gfile, gjob, gcancel, gprep, greg, gunsaved, history>>
      /\ gcut' = gcut /\ gtwin' = gtwin
  BY DEF GAsk, history
<1>3. GShape'
  <2>1. gmake' \subseteq MakeRow  BY <1>0, <1>1 DEF GShape
  <2> QED  BY <1>0, <1>2, <2>1 DEF GShape
<1>4. /\ \A e \in Phones : DraftWell(e)'
      /\ \A j \in gjob' : JobWell(j)'
      /\ OneAction' /\ PreparedHere' /\ GSaved' /\ GReleased'
  BY <1>2 DEF GInv, DraftWell, JobWell, OneAction, PreparedHere, GSaved, GReleased, JobsOf
<1>5. PortsWell'
  <2>1. Chosen' = Chosen  BY <1>1 DEF Chosen
  <2> QED  BY <1>2, <2>1 DEF GInv, PortsWell, Owned
<1> QED  BY <1>3, <1>4, <1>5 DEF GInv

\* The pair that is chosen is nobody's.
LEMMA GAllocateKeeps == ASSUME GInv, NEW m \in gmake, GAllocate(m) PROVE GInv'
<1>0. GShape /\ m \in MakeRow /\ gtwin \in BOOLEAN  BY DEF GInv, GShape
<1>2. UNCHANGED <<gdraft, gfile, gjob, gcancel, gprep, greg, gunsaved, gcut, gcalls>>
  BY DEF GAllocate
<1>3. /\ \A e \in Phones : DraftWell(e)'
      /\ \A j \in gjob' : JobWell(j)'
      /\ OneAction' /\ PreparedHere' /\ GSaved' /\ GReleased'
  BY <1>2 DEF GInv, DraftWell, JobWell, OneAction, PreparedHere, GSaved, GReleased, JobsOf
<1>4. CASE gmake' = gmake \ {m} /\ UNCHANGED gtwin
  <2>1. GShape'  BY <1>0, <1>2, <1>4 DEF GShape
  <2>2. PortsWell'
    <3>1. \A e \in Phones : Owned(e)' = Owned(e)  BY <1>2 DEF Owned
    <3> QED  BY <1>2, <1>4, <3>1, PortsKept
  <2> QED  BY <1>3, <2>1, <2>2 DEF GInv
<1>5. CASE ~(gmake' = gmake \ {m} /\ UNCHANGED gtwin)
  <2>1. PICK p \in Ports : /\ p \notin Taken
                           /\ gmake' = (gmake \ {m}) \cup {[m EXCEPT !.port = p]}
                           /\ gtwin' = (gtwin \/ \E n \in gmake : n.phone # m.phone /\ n.port # Nothing)
    <3>1. /\ Ports \ Taken # {}
          /\ gmake' = (gmake \ {m}) \cup {[m EXCEPT !.port = CHOOSE p \in Ports : p \notin Taken]}
          /\ gtwin' = (gtwin \/ \E n \in gmake : n.phone # m.phone /\ n.port # Nothing)
      BY <1>5 DEF GAllocate
    <3>2. \E p \in Ports : p \notin Taken  BY <3>1
    <3>3. /\ (CHOOSE p \in Ports : p \notin Taken) \in Ports
          /\ (CHOOSE p \in Ports : p \notin Taken) \notin Taken
      BY <3>2
    <3> QED  BY <3>1, <3>3
  <2> DEFINE mm == [m EXCEPT !.port = p]
  <2>2. mm \in MakeRow /\ mm.phone = m.phone /\ mm.port = p  BY <1>0 DEF MakeRow
  <2>3. gmake' = (gmake \ {m}) \cup {mm}  BY <2>1
  <2> HIDE DEF mm
  <2>4. GShape'
    <3>1. gmake' \subseteq MakeRow /\ gtwin' \in BOOLEAN  BY <1>0, <2>1, <2>2, <2>3 DEF GShape
    <3> QED  BY <1>0, <1>2, <3>1 DEF GShape
  <2>5. PortsWell'
    <3> SUFFICES ASSUME ~gtwin', gcut = {}
                 PROVE  /\ \A d, e \in Phones : d # e => Owned(d) \cap Owned(e) \subseteq {Nothing}
                        /\ \A n \in Chosen' :
                             /\ \A e \in Phones : e # n.phone => n.port \notin Owned(e)
                             /\ \A k \in Chosen' : k.phone = n.phone
      BY <1>2 DEF PortsWell, Owned
    <3>1. ~gtwin /\ \A n \in Chosen : n.phone = m.phone
      BY <1>0, <2>1 DEF Chosen
    <3>2. /\ \A d, e \in Phones : d # e => Owned(d) \cap Owned(e) \subseteq {Nothing}
          /\ \A n \in Chosen : \A e \in Phones : e # n.phone => n.port \notin Owned(e)
      BY <3>1 DEF GInv, PortsWell
    <3>3. \A n \in Chosen' : n = mm \/ n \in Chosen  BY <2>3 DEF Chosen
    <3>4. \A e \in Phones : p \notin Owned(e)  BY <2>1 DEF Taken, Owned
    <3> HIDE DEF Owned, Chosen
    <3> QED  BY <2>2, <3>1, <3>2, <3>3, <3>4
  <2> QED  BY <1>3, <2>4, <2>5 DEF GInv
<1> QED  BY <1>4, <1>5

\* What runs for a phone whose draft is no more in sessions.
LEMMA SeveredJobs ==
  ASSUME GInv, NEW d \in Phones
  PROVE  /\ Severed(d) \subseteq JobRow
         /\ \A i \in Severed(d) :
              /\ i.phone # d => i \in gjob
              /\ i.phone = d => ~i.mine
              /\ \E j \in gjob : j.phone = i.phone /\ j.kind = i.kind /\ j.pc = i.pc
         /\ \A j \in gjob : \E i \in Severed(d) : i.phone = j.phone /\ i.kind = j.kind
<1> DEFINE cut(j) == IF j.phone = d THEN [j EXCEPT !.mine = FALSE] ELSE j
<1>1. Severed(d) = {cut(j) : j \in gjob}  BY DEF Severed
<1>2. \A j \in gjob :
        /\ cut(j) \in JobRow /\ cut(j).phone = j.phone /\ cut(j).kind = j.kind /\ cut(j).pc = j.pc
        /\ j.phone = d => ~cut(j).mine
        /\ j.phone # d => cut(j) = j
  <2> SUFFICES ASSUME NEW j \in JobRow
               PROVE  /\ cut(j) \in JobRow /\ cut(j).phone = j.phone /\ cut(j).kind = j.kind
                      /\ cut(j).pc = j.pc /\ (j.phone = d => ~cut(j).mine)
                      /\ (j.phone # d => cut(j) = j)
    BY JobShape
  <2> QED  BY DEF JobRow
<1> HIDE DEF cut
<1> QED  BY <1>1, <1>2

\* The new draft takes the pair that was chosen for it, perhaps in place of another one.
LEMMA GCreateKeeps == ASSUME GInv, NEW m \in gmake, GCreate(m) PROVE GInv'
<1> DEFINE d == m.phone
           new == [NoDraft EXCEPT !.on = TRUE, !.port = m.port]
<1>0. /\ GShape /\ m \in MakeRow /\ d \in Phones /\ m.port \in Ports /\ m \in Chosen
      /\ \A e \in Phones : DraftWell(e)
      /\ UNCHANGED <<gfile, gcancel, gprep, greg, gunsaved, gtwin, gcalls>>
      /\ gmake' = gmake \ {m}
      /\ gcut' = IF gdraft[d].on THEN gcut \cup {d} ELSE gcut
  BY DEF GInv, GShape, MakeRow, GCreate, Chosen
<1>1. new \in DraftRow /\ HasPorts(new) /\ new.on /\ new.port = m.port /\ ~new.busy
  BY <1>0, FileReturns DEF NoDraft
<1>2. gdraft' = [gdraft EXCEPT ![d] = new]  BY DEF GCreate
<1> HIDE DEF new
<1>3. /\ gdraft' \in [Phones -> DraftRow] /\ gdraft'[d] = new
      /\ \A e \in Phones \ {d} : gdraft'[e] = gdraft[e]
  BY <1>0, <1>1, <1>2 DEF GShape
<1>4. gcut' = {} => gcut = {} /\ ~gdraft[d].on  BY <1>0
<1>5. PICK j \in JobRow : /\ j.phone = d /\ j.kind = "look" /\ j.pc = "look" /\ j.mine
                          /\ gjob' = Severed(d) \cup {j}
  <2> DEFINE old == Job(d, "look", "look")
             job == [old EXCEPT !.port = m.port]
  <2>1. /\ old \in [phone : Phones, kind : {"look"}, pc : {"look"}, mine : BOOLEAN,
                     port : Ports \cup {Nothing}]
        /\ old.phone = d /\ old.kind = "look" /\ old.pc = "look" /\ old.mine
    <3>1. gdraft[d].port \in Ports \cup {Nothing}  BY <1>0, PhoneFacts DEF DraftRow
    <3> QED  BY <1>0, <3>1 DEF Job
  <2>3. gjob' = Severed(d) \cup {job}  BY DEF GCreate
  <2> HIDE DEF old
  <2>2. job \in JobRow /\ job.phone = d /\ job.kind = "look" /\ job.pc = "look" /\ job.mine
    BY <1>0, <2>1 DEF JobRow
  <2> HIDE DEF job
  <2> QED  BY <2>2, <2>3
<1>55. /\ Severed(d) \subseteq JobRow
       /\ \A i \in Severed(d) :
            /\ i.phone # d => i \in gjob
            /\ i.phone = d => ~i.mine
            /\ \E k \in gjob : k.phone = i.phone /\ k.kind = i.kind /\ k.pc = i.pc
       /\ \A k \in gjob : \E i \in Severed(d) : i.phone = k.phone /\ i.kind = k.kind
  BY <1>0, SeveredJobs
<1> HIDE DEF d
<1>6. GShape'
  <2>1. gjob' \subseteq JobRow  BY <1>5, <1>55
  <2>2. gcut' \subseteq Phones /\ gmake' \subseteq MakeRow  BY <1>0 DEF GShape
  <2> QED  BY <1>0, <1>3, <2>1, <2>2 DEF GShape
<1>7. \A e \in Phones : DraftWell(e)'
  <2>2. \A e \in Phones \ {d} : DraftWell(e)'  BY <1>0, <1>3, <1>4 DEF DraftWell
  <2>3. DraftWell(d)'
    <3>1. gcut' = {} /\ gfile[d].on /\ ~gfile[d].final => FALSE  BY <1>0, <1>4 DEF DraftWell
    <3> QED  BY <1>0, <1>1, <1>3, <3>1 DEF DraftWell, HasPorts
  <2> QED  BY <2>2, <2>3
<1>77. \A i \in gjob : JobWell(i) /\ i.phone \in Phones  BY JobShape DEF GInv
<1>8. \A i \in gjob' : JobWell(i)'
  <2>2. ASSUME NEW i \in Severed(d) PROVE JobWell(i)'
    <3>1. CASE i.phone # d
      <4>1. i \in gjob /\ gdraft'[i.phone] = gdraft[i.phone]  BY <1>3, <1>55, <1>77, <3>1
      <4> QED  BY <1>0, <1>77, <4>1 DEF JobWell
    <3>2. CASE i.phone = d
      <4>1. PICK k \in gjob : k.phone = d /\ k.kind = i.kind /\ k.pc = i.pc
        BY <1>55, <3>2
      <4>2. ~i.mine  BY <1>55, <3>2
      <4>3. d \in gcut'
        <5>1. CASE gdraft[d].on  BY <1>0, <5>1
        <5>2. CASE ~gdraft[d].on  BY <1>0, <1>77, <4>1, <5>2 DEF JobWell
        <5> QED  BY <5>1, <5>2
      <4> QED  BY <1>77, <3>2, <4>1, <4>2, <4>3 DEF JobWell
    <3> QED  BY <3>1, <3>2
  <2>3. JobWell(j)'  BY <1>1, <1>3, <1>5 DEF JobWell
  <2> QED  BY <1>5, <2>2, <2>3
<1>9. OneAction' /\ PreparedHere' /\ GReleased'
  <2>1. OneAction'
    <3> SUFFICES ASSUME NEW i \in gjob', NEW k \in gjob', i.phone = k.phone, i.mine, k.mine,
                        i.kind # "look", k.kind # "look"
                 PROVE  i = k
      BY DEF OneAction
    <3>1. i \in gjob /\ k \in gjob  BY <1>5, <1>55
    <3> QED  BY <3>1 DEF GInv, OneAction
  <2>2. PreparedHere'
    <3> SUFFICES ASSUME gcut' = {}, NEW i \in gjob', i.kind = "prepare" PROVE gprep = i.phone
      BY <1>0 DEF PreparedHere
    <3>1. i \in Severed(d)  BY <1>5
    <3>2. PICK k \in gjob : k.phone = i.phone /\ k.kind = i.kind  BY <1>55, <3>1
    <3> QED  BY <1>4, <3>2 DEF GInv, PreparedHere
  <2>3. GReleased'
    <3> SUFFICES ASSUME gprep # Nothing PROVE \E i \in gjob' : i.phone = gprep /\ i.kind = "prepare"
      BY <1>0 DEF GReleased, JobsOf
    <3>1. PICK k \in gjob : k.phone = gprep /\ k.kind = "prepare"
      BY DEF GInv, GReleased, JobsOf
    <3> QED  BY <1>5, <1>55, <3>1
  <2> QED  BY <2>1, <2>2, <2>3
<1>10. PortsWell'
  <2> SUFFICES ASSUME ~gtwin, gcut' = {}
               PROVE  /\ \A a, b \in Phones : a # b => Owned(a)' \cap Owned(b)' \subseteq {Nothing}
                      /\ \A n \in Chosen' :
                           /\ \A e \in Phones : e # n.phone => n.port \notin Owned(e)'
                           /\ \A k \in Chosen' : k.phone = n.phone
    BY <1>0 DEF PortsWell
  <2>1. /\ \A a, b \in Phones : a # b => Owned(a) \cap Owned(b) \subseteq {Nothing}
        /\ \A n \in Chosen : /\ \A e \in Phones : e # n.phone => n.port \notin Owned(e)
                             /\ \A k \in Chosen : k.phone = n.phone
    BY <1>4 DEF GInv, PortsWell
  <2>2. Owned(d)' \subseteq Owned(d) \cup {m.port}  BY <1>0, <1>1, <1>3 DEF Owned
  <2>3. \A e \in Phones \ {d} : Owned(e)' = Owned(e)  BY <1>0, <1>3 DEF Owned
  <2>4. \A n \in Chosen' : n \in Chosen /\ n.phone = d
    <3>1. \A n \in Chosen' : n \in Chosen  BY <1>0 DEF Chosen
    <3> QED  BY <1>0, <2>1, <3>1 DEF d
  <2>5. \A e \in Phones : e # d => m.port \notin Owned(e)  BY <1>0, <2>1 DEF d
  <2> HIDE DEF Owned, Chosen
  <2>6. ASSUME NEW a \in Phones, NEW b \in Phones, a # b
        PROVE  Owned(a)' \cap Owned(b)' \subseteq {Nothing}
    <3>1. CASE a = d  BY <2>1, <2>2, <2>3, <2>5, <2>6, <3>1
    <3>2. CASE b = d  BY <2>1, <2>2, <2>3, <2>5, <2>6, <3>2
    <3>3. CASE a # d /\ b # d  BY <2>1, <2>3, <2>6, <3>3
    <3> QED  BY <3>1, <3>2, <3>3
  <2>7. ASSUME NEW n \in Chosen' PROVE /\ \A e \in Phones : e # n.phone => n.port \notin Owned(e)'
                                       /\ \A k \in Chosen' : k.phone = n.phone
    BY <2>1, <2>3, <2>4
  <2> QED  BY <2>6, <2>7
<1>11. GSaved'
  <2>1. JobsOf(d)' # {}  BY <1>5 DEF JobsOf
  <2>2. \A e \in Phones : JobsOf(e)' = {} => JobsOf(e) = {}  BY <1>5, <1>55 DEF JobsOf
  <2>3. gcut \subseteq gcut'  BY <1>0
  <2> QED  BY <1>0, <1>3, <2>1, <2>2, <2>3 DEF GInv, GSaved
<1> QED  BY <1>6, <1>7, <1>8, <1>9, <1>10, <1>11 DEF GInv

\* The calls that start an action, and those that only change a draft.
LEMMA GCreateAgainKeeps == ASSUME GInv, NEW d \in Phones, GCreateAgain(d) PROVE GInv'
<1>1. GShape /\ gdraft[d] \in DraftRow /\ gfile[d] \in DraftRow /\ gcalls' \in 0..MaxCalls
  BY PhoneFacts, CallCounted DEF GCreateAgain
<1>2. gdraft' = [gdraft EXCEPT ![d] = gdraft[d]] /\ gfile' = [gfile EXCEPT ![d] = gfile[d]]
  BY <1>1 DEF GCreateAgain, GShape
<1>3. /\ greg' \in [Phones -> Ports \cup {Nothing}]
      /\ \A e \in Phones : greg'[e] \in {greg[e], gdraft[e].port}
  BY <1>1 DEF GCreateAgain, GShape
<1>4. /\ "look" \in {"look", "refresh", "prepare", "verify", "finalize"}
      /\ "look" \in {"look", "prepare", "verify", "stop"} /\ gfile[d] \in {gfile[d], Stored(gdraft[d])}
  OBVIOUS
<1>5. gdraft[d].on /\ gjob' = gjob \cup {Job(d, "look", "look")} /\ UNCHANGED <<pending, history>>
      /\ gprep' = gprep /\ gunsaved' = gunsaved
  BY DEF GCreateAgain
<1> QED  BY <1>1, <1>2, <1>3, <1>4, <1>5, JobStarts

LEMMA GUpdateKeeps == ASSUME GInv, NEW d \in Phones, GUpdate(d) PROVE GInv'
<1> DEFINE draft == [gdraft[d] EXCEPT !.seen = FALSE]
<1>1. GShape /\ gdraft[d] \in DraftRow /\ gcalls' \in 0..MaxCalls
  BY PhoneFacts, CallCounted DEF GUpdate
<1>2. /\ draft \in DraftRow /\ draft.on = gdraft[d].on /\ draft.port = gdraft[d].port
      /\ draft.busy = gdraft[d].busy
  BY <1>1 DEF DraftRow
<1>3. Save(d, draft)  BY DEF GUpdate
<1> HIDE DEF draft
<1>4. PICK file \in {gfile[d], Stored(draft)} :
        /\ gdraft' = [gdraft EXCEPT ![d] = draft] /\ gfile' = [gfile EXCEPT ![d] = file]
        /\ Unsaved(d, draft, file)
  BY <1>1, <1>3, SaveCases
<1>5. file \in DraftRow  BY <1>1, <1>2, StoredShape DEF GShape
<1>6. UNCHANGED <<gjob, gprep, greg, history>> /\ gmake' = gmake /\ gcancel' = gcancel
  BY DEF GUpdate, pending
<1>7. gcancel' \subseteq Phones  BY <1>1, <1>6 DEF GShape
<1> QED  BY <1>1, <1>2, <1>4, <1>5, <1>6, <1>7, DraftReplaced

LEMMA GRunKeeps ==
  ASSUME GInv, NEW d \in Phones, NEW kind \in {"refresh", "prepare", "verify"}, GRun(d, kind)
  PROVE  GInv'
<1> DEFINE draft == [gdraft[d] EXCEPT !.busy = TRUE]
           pc == IF kind = "refresh" THEN "look" ELSE kind
<1>1. GShape /\ gdraft[d] \in DraftRow /\ gcalls' \in 0..MaxCalls
  BY PhoneFacts, CallCounted DEF GRun
<1>2. draft \in DraftRow /\ draft.on = gdraft[d].on /\ draft.port = gdraft[d].port /\ draft.busy
  BY <1>1 DEF DraftRow
<1>3. Save(d, draft)  BY DEF GRun
<1>4. /\ gjob' = gjob \cup {Job(d, kind, pc)} /\ gdraft[d].on /\ ~gdraft[d].busy
      /\ gprep' = (IF kind = "prepare" THEN d ELSE gprep) /\ (kind = "prepare" => MayPrepare(d))
      /\ UNCHANGED <<pending, history>> /\ greg' = greg
  BY DEF GRun
<1>5. /\ pc \in {"look", "prepare", "verify", "stop"} /\ (pc = "prepare" => kind = "prepare")
      /\ kind \in {"look", "refresh", "prepare", "verify", "finalize"} /\ kind # "look"
  OBVIOUS
<1> HIDE DEF draft, pc
<1>6. PICK file \in {gfile[d], Stored(draft)} :
        /\ gdraft' = [gdraft EXCEPT ![d] = draft] /\ gfile' = [gfile EXCEPT ![d] = file]
        /\ Unsaved(d, draft, file)
  BY <1>1, <1>3, SaveCases
<1>8. file \in DraftRow  BY <1>1, <1>2, StoredShape DEF GShape
<1>7. /\ greg' \in [Phones -> Ports \cup {Nothing}]
      /\ \A e \in Phones : greg'[e] \in {greg[e], gdraft[e].port}
  BY <1>1, <1>4 DEF GShape
<1> QED  BY <1>1, <1>2, <1>4, <1>5, <1>6, <1>7, <1>8, JobStarts

LEMMA GFinalizeKeeps == ASSUME GInv, NEW d \in Phones, GFinalize(d) PROVE GInv'
<1>1. /\ GShape /\ gdraft[d] \in DraftRow /\ gfile[d] \in DraftRow /\ gcalls' \in 0..MaxCalls
      /\ gdraft[d].on /\ ~gdraft[d].busy /\ gdraft[d].port \in Ports
  BY PhoneFacts, CallCounted DEF GFinalize
<1>2. /\ UNCHANGED <<pending, history>> /\ gprep' = gprep
      /\ gmake' = gmake /\ gcancel' = gcancel
  BY DEF GFinalize, pending
<1>3. CASE Save(d, gdraft[d]) /\ UNCHANGED <<gjob, greg>>
  <2>1. PICK file \in {gfile[d], Stored(gdraft[d])} :
          /\ gdraft' = [gdraft EXCEPT ![d] = gdraft[d]] /\ gfile' = [gfile EXCEPT ![d] = file]
          /\ Unsaved(d, gdraft[d], file)
    BY <1>1, <1>3, SaveCases
  <2>2. gcancel' \subseteq Phones /\ file \in DraftRow
    BY <1>1, <1>2, StoredShape DEF GShape
  <2> QED  BY <1>1, <1>2, <1>3, <2>1, <2>2, DraftReplaced
<1>4. CASE /\ gdraft' = [gdraft EXCEPT ![d].busy = TRUE] /\ UNCHANGED <<gfile, gunsaved>>
           /\ greg' = IF greg[d] = Nothing THEN [greg EXCEPT ![d] = gdraft[d].port] ELSE greg
           /\ gjob' = gjob \cup {Job(d, "finalize", "stop")}
  <2> DEFINE draft == [gdraft[d] EXCEPT !.busy = TRUE]
  <2>1. draft \in DraftRow /\ draft.on /\ draft.port = gdraft[d].port /\ draft.busy
    BY <1>1 DEF DraftRow
  <2>2. gdraft' = [gdraft EXCEPT ![d] = draft]  BY <1>4
  <2> HIDE DEF draft
  <2>3. gfile' = [gfile EXCEPT ![d] = gfile[d]]  BY <1>1, <1>4 DEF GShape
  <2>4. /\ greg' \in [Phones -> Ports \cup {Nothing}]
        /\ \A e \in Phones : greg'[e] \in {greg[e], gdraft[e].port}
    BY <1>1, <1>4 DEF GShape
  <2>5. /\ "finalize" \in {"look", "refresh", "prepare", "verify", "finalize"}
        /\ "stop" \in {"look", "prepare", "verify", "stop"} /\ gfile[d] \in {gfile[d], Stored(draft)}
    OBVIOUS
  <2> QED  BY <1>1, <1>2, <1>4, <2>1, <2>2, <2>3, <2>4, <2>5, JobStarts
<1> QED  BY <1>3, <1>4 DEF GFinalize

\* The supervisor is stopped, or exits: nothing that is on disk changes.
LEMMA SupervisorGone ==
  ASSUME GInv, NEW d \in Phones, gdraft' = [gdraft EXCEPT ![d].sup = FALSE],
         gmake' = gmake, gcancel' \subseteq Phones, gcalls' \in 0..MaxCalls,
         UNCHANGED <<gfile, gunsaved, gjob, gprep, greg, history>>
  PROVE  GInv'
<1> DEFINE draft == [gdraft[d] EXCEPT !.sup = FALSE]
<1>1. GShape /\ gdraft[d] \in DraftRow /\ gfile[d] \in DraftRow  BY PhoneFacts
<1>2. /\ draft \in DraftRow /\ draft.on = gdraft[d].on /\ draft.port = gdraft[d].port
      /\ draft.busy = gdraft[d].busy
  BY <1>1 DEF DraftRow
<1>3. Stored(draft) = Stored(gdraft[d])
  BY <1>1 DEF Stored, DraftRow
<1>4. gdraft' = [gdraft EXCEPT ![d] = draft]  OBVIOUS
<1> HIDE DEF draft
<1>5. PICK new \in DraftRow : new = draft  BY <1>2
<1>6. PICK file \in DraftRow : file = gfile[d]  BY <1>1
<1>7. /\ gdraft' = [gdraft EXCEPT ![d] = new] /\ gfile' = [gfile EXCEPT ![d] = file]
      /\ new.on = gdraft[d].on /\ new.port = gdraft[d].port /\ new.busy = gdraft[d].busy
      /\ file \in {gfile[d], Stored(new)}
      /\ gunsaved' = gunsaved /\ file = gfile[d] /\ Stored(new) = Stored(gdraft[d])
  BY <1>1, <1>2, <1>3, <1>4, <1>5, <1>6 DEF GShape
<1> QED  BY <1>7, DraftReplaced

LEMMA GCancelKeeps == ASSUME GInv, NEW d \in Phones, GCancel(d) PROVE GInv'
<1>1. /\ GShape /\ gcalls' \in 0..MaxCalls /\ gmake' = gmake
      /\ gcancel' = gcancel \cup {d} /\ gdraft' = [gdraft EXCEPT ![d].sup = FALSE]
      /\ UNCHANGED <<gfile, gunsaved, gjob, gprep, greg, history>>
  BY PhoneFacts, CallCounted DEF GCancel, Stop
<1>2. gcancel' \subseteq Phones  BY <1>1 DEF GShape
<1> QED  BY <1>1, <1>2, SupervisorGone

LEMMA GExitKeeps == ASSUME GInv, NEW d \in Phones, GExit(d) PROVE GInv'
<1>1. /\ GShape /\ gmake' = gmake /\ gcancel' = gcancel /\ gcalls' = gcalls
      /\ gdraft' = [gdraft EXCEPT ![d].sup = FALSE]
      /\ UNCHANGED <<gfile, gunsaved, gjob, gprep, greg, history>>
  BY DEF GExit, GInv, pending
<1>2. gcancel' \subseteq Phones /\ gcalls' \in 0..MaxCalls  BY <1>1 DEF GShape
<1> QED  BY <1>1, <1>2, SupervisorGone

LEMMA GUnregisterKeeps == ASSUME GInv, NEW d \in Phones, GUnregister(d) PROVE GInv'
<1>1. /\ GShape /\ gcalls' \in 0..MaxCalls /\ greg' = [greg EXCEPT ![d] = Nothing]
      /\ UNCHANGED <<gdraft, gfile, gjob, pending, gprep, gstray, gunsaved, history>>
      /\ gcut' = gcut /\ gtwin' = gtwin /\ gmake' = gmake
  BY CallCounted DEF GUnregister, GInv, history, pending
<1>2. GShape'  BY <1>1 DEF GShape, history, pending
<1>3. /\ \A e \in Phones : DraftWell(e)'
      /\ \A j \in gjob' : JobWell(j)'
      /\ OneAction' /\ PreparedHere' /\ GSaved' /\ GReleased'
  BY <1>1 DEF GInv, DraftWell, JobWell, OneAction, PreparedHere, GSaved, GReleased, JobsOf
<1>4. PortsWell'
  <2>1. \A e \in Phones : greg'[e] \in {greg[e], Nothing}  BY <1>1 DEF GShape
  <2>2. \A e \in Phones : Owned(e)' \subseteq Owned(e) \cup {Nothing}  BY <1>1, <2>1 DEF Owned
  <2> QED  BY <1>1, <2>2, PortsKept
<1> QED  BY <1>2, <1>3, <1>4 DEF GInv

\* The draft and its file go.  What still runs for it is nobody's from then on.
LEMMA GDeletedKeeps == ASSUME GInv, NEW d \in Phones, GDeleted(d) PROVE GInv'
<1>0. /\ GShape /\ \A e \in Phones : DraftWell(e)
      /\ UNCHANGED <<gmake, gprep, greg, gtwin, gcalls>>
      /\ gcancel' = gcancel \ {d} /\ gunsaved' = gunsaved \ {d}
      /\ gcut' = IF JobsOf(d) # {} THEN gcut \cup {d} ELSE gcut
  BY DEF GInv, GDeleted
<1> DEFINE cut(j) == IF j.phone = d THEN [j EXCEPT !.mine = FALSE] ELSE j
<1>1. gjob' = {cut(j) : j \in gjob}  BY DEF GDeleted, Severed
<1>2. \A j \in gjob :
        /\ cut(j) \in JobRow /\ cut(j).phone = j.phone /\ cut(j).kind = j.kind /\ cut(j).pc = j.pc
        /\ j.phone = d => ~cut(j).mine
        /\ j.phone # d => cut(j) = j
  <2> SUFFICES ASSUME NEW j \in JobRow
               PROVE  /\ cut(j) \in JobRow /\ cut(j).phone = j.phone /\ cut(j).kind = j.kind
                      /\ cut(j).pc = j.pc /\ (j.phone = d => ~cut(j).mine)
                      /\ (j.phone # d => cut(j) = j)
    BY JobShape
  <2> QED  BY DEF JobRow
<1> HIDE DEF cut
<1>3. gdraft' = [gdraft EXCEPT ![d] = NoDraft] /\ gfile' = [gfile EXCEPT ![d] = NoDraft]
  BY DEF GDeleted
<1>4. /\ gdraft' \in [Phones -> DraftRow] /\ gfile' \in [Phones -> DraftRow]
      /\ gdraft'[d] = NoDraft /\ gfile'[d] = NoDraft
      /\ \A e \in Phones \ {d} : gdraft'[e] = gdraft[e] /\ gfile'[e] = gfile[e]
  BY <1>0, <1>3, NoDraftShape DEF GShape
<1>5. GShape'
  <2>1. gjob' \subseteq JobRow  BY <1>1, <1>2
  <2>2. gcut' \subseteq Phones  BY <1>0 DEF GShape
  <2> QED  BY <1>0, <1>4, <2>1, <2>2 DEF GShape
<1>6. \A e \in Phones : DraftWell(e)'
  <2>1. gcut' = {} => gcut = {}  BY <1>0
  <2>2. \A e \in Phones \ {d} : DraftWell(e)'
    BY <1>0, <1>4, <2>1 DEF DraftWell
  <2>3. DraftWell(d)'
    <3>1. ~NoDraft.on /\ ~NoDraft.busy /\ ~NoDraft.sup  BY DEF NoDraft
    <3> QED  BY <1>4, <3>1, NoDraftShape DEF DraftWell, HasPorts
  <2> QED  BY <2>2, <2>3
<1>7. \A j \in gjob : JobWell(j) /\ j.phone \in Phones  BY JobShape DEF GInv
<1>8. \A i \in gjob' : JobWell(i)'
  <2> SUFFICES ASSUME NEW j \in gjob PROVE JobWell(cut(j))'
    BY <1>1
  <2>1. CASE j.phone = d
    <3>1. JobsOf(d) # {}  BY <2>1 DEF JobsOf
    <3>2. cut(j).phone \in gcut' /\ ~cut(j).mine  BY <1>0, <1>2, <2>1, <3>1
    <3>3. cut(j).pc \in {"prepare", "xcode", "wait"} => cut(j).kind = "prepare"
      BY <1>2, <1>7 DEF JobWell
    <3> PICK i : i = cut(j)  OBVIOUS
    <3>4. JobWell(i)'  BY <3>2, <3>3 DEF JobWell
    <3> QED  BY <3>4, <1>1 DEF JobWell
  <2>2. CASE j.phone # d
    <3>1. JobWell(j)'  BY <1>0, <1>4, <1>7, <2>2 DEF JobWell
    <3> QED  BY <1>2, <2>2, <3>1
  <2> QED  BY <2>1, <2>2
<1>9. OneAction'
  <2> SUFFICES ASSUME NEW i \in gjob, NEW j \in gjob, cut(i).phone = cut(j).phone,
                      cut(i).mine, cut(j).mine, cut(i).kind # "look", cut(j).kind # "look"
               PROVE  cut(i) = cut(j)
    BY <1>1 DEF OneAction
  <2>1. i.phone # d /\ j.phone # d  BY <1>2
  <2>2. cut(i) = i /\ cut(j) = j  BY <1>2, <2>1
  <2> QED  BY <2>2 DEF GInv, OneAction
<1>10. PreparedHere' /\ GReleased'
  <2>1. PreparedHere'
    <3>1. gcut' = {} => gcut = {} /\ JobsOf(d) = {}  BY <1>0
    <3>2. \A j \in gjob : cut(j).kind = j.kind /\ cut(j).phone = j.phone  BY <1>2
    <3> QED  BY <1>0, <1>1, <3>1, <3>2 DEF GInv, PreparedHere
  <2>2. GReleased'
    <3> SUFFICES ASSUME gprep # Nothing PROVE \E i \in gjob' : i.phone = gprep /\ i.kind = "prepare"
      BY <1>0 DEF GReleased, JobsOf
    <3>1. PICK j \in gjob : j.phone = gprep /\ j.kind = "prepare"
      BY DEF GInv, GReleased, JobsOf
    <3>2. cut(j).phone = gprep /\ cut(j).kind = "prepare" /\ cut(j) \in gjob'  BY <1>1, <1>2, <3>1
    <3> QED  BY <3>2
  <2> QED  BY <2>1, <2>2
<1>11. PortsWell'
  <2>1. \A e \in Phones : gdraft'[e].port \in {gdraft[e].port, Nothing}
    <3>1. NoDraft.port = Nothing  BY DEF NoDraft
    <3> QED  BY <1>4, <3>1
  <2>2. \A e \in Phones : Owned(e)' \subseteq Owned(e) \cup {Nothing}  BY <1>0, <2>1 DEF Owned
  <2>3. gtwin' = gtwin /\ gcut \subseteq gcut' /\ gmake' = gmake  BY <1>0
  <2> QED  BY <2>2, <2>3, PortsKept
<1>12. GSaved'
  <2>1. ~NoDraft.on  BY DEF NoDraft
  <2>2. \A e \in Phones : JobsOf(e)' = {} => JobsOf(e) = {}
    <3> SUFFICES ASSUME NEW e \in Phones, NEW j \in JobsOf(e) PROVE JobsOf(e)' # {}
      OBVIOUS
    <3>1. j \in gjob /\ j.phone = e  BY DEF JobsOf
    <3>2. cut(j) \in gjob' /\ cut(j).phone = e  BY <1>1, <1>2, <3>1
    <3> QED  BY <3>2 DEF JobsOf
  <2>3. /\ gcut \subseteq gcut'
        /\ \A e \in Phones \ {d} : e \in gunsaved => e \in gunsaved'
    BY <1>0
  <2> QED  BY <1>4, <2>1, <2>2, <2>3 DEF GInv, GSaved
<1> QED  BY <1>5, <1>6, <1>8, <1>9, <1>10, <1>11, <1>12 DEF GInv

\* What a restart brings back are the drafts on disk, at rest and with the ports they had.
LEMMA GRestartKeeps == ASSUME GInv, NEW clean \in BOOLEAN, GRestart(clean) PROVE GInv'
<1>0. /\ GShape /\ gcalls' \in 0..MaxCalls /\ \A e \in Phones : DraftWell(e)
      /\ UNCHANGED <<gfile, greg, history>> /\ gcut' = gcut /\ gtwin' = gtwin
      /\ gjob' = {} /\ gprep' = Nothing /\ gmake' = {} /\ gcancel' = {} /\ gunsaved' = {}
  BY CallCounted DEF GInv, GRestart, history
<1>1. /\ gdraft' \in [Phones -> DraftRow]
      /\ \A e \in Phones : gdraft'[e] = IF gfile[e].final THEN NoDraft ELSE gfile[e]
  BY <1>0, NoDraftShape DEF GRestart, GShape
<1>3. GShape'  BY <1>0, <1>1 DEF GShape, history
<1>4. NoDraft.port = Nothing /\ ~NoDraft.on  BY DEF NoDraft
<1>5. \A e \in Phones : DraftWell(e)'
  <2>2. ASSUME NEW e \in Phones PROVE DraftWell(e)'
    <3>1. CASE gfile[e].final  BY <1>0, <1>1, <3>1, NoDraftShape DEF DraftWell
    <3>2. CASE ~gfile[e].final  BY <1>0, <1>1, <3>2 DEF DraftWell
    <3> QED  BY <3>1, <3>2
  <2> QED  BY <2>2
<1>6. /\ \A j \in gjob' : JobWell(j)'
      /\ OneAction' /\ PreparedHere' /\ GReleased'
  BY <1>0 DEF OneAction, PreparedHere, GReleased
<1>7. PortsWell'
  <2>1. gcut' = {} => \A e \in Phones : gdraft'[e].port \in {gdraft[e].port, Nothing}
    <3> SUFFICES ASSUME gcut = {}, NEW e \in Phones
                 PROVE  gdraft'[e].port \in {gdraft[e].port, Nothing}
      BY <1>0
    <3>1. CASE gfile[e].final  BY <1>1, <1>4, <3>1
    <3>2. CASE ~gfile[e].final  BY <1>0, <1>1, <3>2 DEF DraftWell, HasPorts
    <3> QED  BY <3>1, <3>2
  <2>2. gcut' = {} => \A e \in Phones : Owned(e)' \subseteq Owned(e) \cup {Nothing}
    BY <1>0, <2>1 DEF Owned
  <2> QED  BY <1>0, <2>2, PortsKept
<1>8. GSaved'
  <2> SUFFICES ASSUME NEW e \in Phones, gdraft'[e].on PROVE gfile[e] = Stored(gdraft'[e])
    BY <1>0 DEF GSaved
  <2>1. gdraft'[e] = gfile[e]  BY <1>1, <1>4
  <2>2. gfile[e] \in DraftRow /\ ~gfile[e].busy /\ ~gfile[e].sup  BY <1>0, PhoneFacts DEF DraftWell
  <2>3. Stored(gfile[e]) = gfile[e]  BY <2>2 DEF Stored, DraftRow
  <2> QED  BY <2>1, <2>3
<1> QED  BY <1>3, <1>5, <1>6, <1>7, <1>8 DEF GInv

-----------------------------------------------------------------------------
LEMMA GNextKeeps == GInv /\ [GNext]_gVars => GInv'
<1> SUFFICES ASSUME GInv, [GNext]_gVars PROVE GInv'
  OBVIOUS
<1>1. ASSUME NEW d \in Phones, GCalls(d) PROVE GInv'
  BY <1>1, GAskKeeps, GCreateAgainKeeps, GUpdateKeeps, GFinalizeKeeps, GCancelKeeps,
     GUnregisterKeeps, GRunKeeps DEF GCalls
<1>2. ASSUME NEW d \in Phones, GDeleted(d) \/ GExit(d) PROVE GInv'
  BY <1>2, GDeletedKeeps, GExitKeeps
<1>6. ASSUME NEW m \in gmake, GAllocate(m) \/ GCreate(m) PROVE GInv'
  BY <1>6, GAllocateKeeps, GCreateKeeps
<1>3. ASSUME NEW j \in gjob, Action(j) PROVE GInv'
  BY <1>3, GAction
<1>4. ASSUME NEW clean \in BOOLEAN, GRestart(clean) PROVE GInv'
  BY <1>4, GRestartKeeps
<1>5. CASE UNCHANGED gVars
  BY <1>5 DEF gVars, history, GInv, GShape, DraftWell, JobWell, OneAction, PreparedHere,
     PortsWell, Owned, Chosen, GSaved, GReleased, JobsOf
<1> QED  BY <1>1, <1>2, <1>3, <1>4, <1>5, <1>6 DEF GNext

\* The invariant has everything that registration promises.
LEMMA GInvIsSafe == GInv => GSafe
<1> SUFFICES ASSUME GInv PROVE GSafe
  OBVIOUS
<1>0. /\ GShape /\ \A d \in Phones : DraftWell(d)
      /\ \A j \in gjob : JobWell(j)
      /\ OneAction /\ PreparedHere /\ PortsWell /\ GSaved /\ GReleased
  BY DEF GInv
<1>1. GTypeOK
  <2>1. \A d \in Phones : gdraft[d] \in DraftRow /\ gfile[d] \in DraftRow
                          /\ greg[d] \in Ports \cup {Nothing}
    BY <1>0 DEF GShape
  <2>2. \A d \in Phones :
          /\ {gdraft[d].port, gfile[d].port, greg[d]} \subseteq Ports \cup {Nothing}
          /\ gdraft[d].on <=> gdraft[d].port # Nothing
    BY <1>0, <2>1 DEF DraftRow, DraftWell, HasPorts
  <2>3. \A j \in gjob : j.pc \in {"look", "prepare", "xcode", "wait", "verify", "stop", "handed"}
    BY <1>0 DEF GShape, JobRow
  <2>4. gprep \in Phones \cup {Nothing} /\ gcalls \in 0..MaxCalls  BY <1>0 DEF GShape
  <2>5. /\ gmake \subseteq [phone : Phones, nth : 1..2, port : Ports \cup {Nothing}]
        /\ gcancel \subseteq Phones /\ gunsaved \subseteq Phones
    BY <1>0 DEF GShape, MakeRow
  <2> QED  BY <2>2, <2>3, <2>4, <2>5 DEF GTypeOK
<1>2. GPortsOwn  BY <1>0 DEF PortsWell, Owned, GPortsOwn
<1>3. GOneProvisioned
  <2> DEFINE Up == {j \in gjob : j.pc \in {"xcode", "wait"}}
  <2> SUFFICES ASSUME gcut = {} PROVE Cardinality(Up) <= 1
    BY DEF GOneProvisioned
  <2>1. CASE Up = {}
    <3>1. Cardinality(Up) = 0  BY <2>1, FS_EmptySet
    <3> QED  BY <3>1
  <2>2. CASE Up # {}
    <3>1. PICK j : j \in Up  BY <2>2
    <3>2. \A i \in Up : i = j
      <4>1. \A i \in Up : i.kind = "prepare" /\ i.mine /\ i.phone = gprep
        BY <1>0 DEF JobWell, PreparedHere
      <4> QED  BY <1>0, <3>1, <4>1 DEF OneAction
    <3>3. Up = {j}  BY <3>1, <3>2
    <3>4. Cardinality({j}) = 1  BY FS_Singleton
    <3> QED  BY <3>3, <3>4
  <2> QED  BY <2>1, <2>2
<1> QED  BY <1>0, <1>1, <1>2, <1>3 DEF GSafe

\* Whatever is cancelled, crossed, restarted or cannot be written, activePreparation is
\* held only by a preparation that runs; and as long as no draft was cancelled in use or
\* replaced by a second create, two phones never have the same port pair (unless both
\* chose at once), Xcode provisions one phone at a time, and a draft at rest is on disk
\* (unless its last write failed) (registration.ts:118-315).
THEOREM RegistrationIsSafe == GSpec => []GSafe
<1>1. GInit => GInv  BY GInitHolds
<1>2. GInv /\ [GNext]_gVars => GInv'  BY GNextKeeps
<1>3. GInv => GSafe  BY GInvIsSafe
<1> QED  BY <1>1, <1>2, <1>3, PTL DEF GSpec

HIDE RegistrationAssumption DEF Nothing
USE FleetAssumption
-----------------------------------------------------------------------------
(* The fleet: what a pass has seen, what is on its way and what a worker    *)
(* has are configurations.                                                  *)

Passes == Refreshes \cup {Operator}
PhoneRow == [has : BOOLEAN, off : BOOLEAN, profile : Profiles]
AnswerRow == [asked : BOOLEAN, has : BOOLEAN, profile : Profiles]
StepsRow == [pc : {"idle", "ask", "load", "sync"}, seen : [Workers -> AnswerRow]]
ConfigRow == [from : Passes, to : Workers, off : BOOLEAN, profile : Profiles \cup {"absent"}]

\* The record of the phone, and who has it.
RecordTyped ==
  /\ ureg \in [worker : Workers \cup {Nobody}, off : BOOLEAN, profile : Profiles]
  /\ uowner \in Workers \cup {Nobody} /\ ushown \in Workers \cup {Nobody}
\* The state of the workers, the passes and the network.
WorkersTyped == uworker \in [Workers -> [up : BOOLEAN, dev : PhoneRow]]
PassesTyped == upass \in [Passes -> StepsRow]
MailTyped == umail \subseteq ConfigRow
CountsTyped == uedits \in 0..MaxEdits /\ uoverlaps \in 0..MaxOverlaps /\ utroubles \in 0..MaxTroubles

UInv == RecordTyped /\ WorkersTyped /\ PassesTyped /\ MailTyped /\ CountsTyped

LEMMA IdleIsTyped == Idle \in StepsRow
  BY DEF Idle, Unasked, StepsRow, AnswerRow, Profiles

LEMMA UInitHolds == UInit => UInv
<1> SUFFICES ASSUME UInit PROVE UInv
  OBVIOUS
<1>1. RecordTyped /\ MailTyped /\ CountsTyped
  BY DEF UInit, NoDevice, RecordTyped, MailTyped, CountsTyped, Profiles
<1>2. WorkersTyped  BY DEF UInit, Unregistered, WorkersTyped, PhoneRow, Profiles
<1>3. PassesTyped  BY IdleIsTyped DEF UInit, PassesTyped, Passes
<1> QED  BY <1>1, <1>2, <1>3 DEF UInv

\* One trouble, or none, is within the bound.
LEMMA TroubleIsCounted == ASSUME CountsTyped, Trouble \/ NoTrouble PROVE CountsTyped'
  BY DEF CountsTyped, Trouble, NoTrouble

LEMMA GoIsTyped ==
  ASSUME PassesTyped, NEW p \in Passes, NEW pc \in {"idle", "ask", "load", "sync"}, UGo(p, pc)
  PROVE PassesTyped'
  BY DEF PassesTyped, UGo, StepsRow

\* The end of a pass: of the operator's request the owner is forgotten.
LEMMA EndIsTyped ==
  ASSUME PassesTyped, uowner \in Workers \cup {Nobody}, NEW p \in Passes, UEnded(p)
  PROVE PassesTyped' /\ uowner' \in Workers \cup {Nobody}
<1>1. PassesTyped'  BY GoIsTyped DEF UEnded
<1>2. uowner' \in Workers \cup {Nobody}  BY DEF UEnded
<1> QED  BY <1>1, <1>2

\* The one worker that advertises the phone, or nobody.
LEMMA OwnerIsAWorker == ASSUME NEW seen PROVE Owner(seen) \in Workers \cup {Nobody}
<1> DEFINE ads == {w \in Workers : seen[w].has}
<1>1. CASE Cardinality(ads) = 1
  <2>1. ads # {}  BY <1>1, FS_EmptySet
  <2>2. (CHOOSE w \in ads : TRUE) \in ads  BY <2>1
  <2> QED  BY <1>1, <2>2 DEF Owner
<1>2. CASE Cardinality(ads) # 1
  BY <1>2 DEF Owner
<1> QED  BY <1>1, <1>2

LEMMA TickKeeps == ASSUME UInv, NEW p \in Refreshes, UTick(p) PROVE UInv'
<1>1. PassesTyped'  BY GoIsTyped DEF UInv, UTick, Passes
<1>2. CountsTyped'  BY DEF UInv, UTick, CountsTyped, NoTrouble
<1>3. RecordTyped' /\ WorkersTyped' /\ MailTyped'
  BY DEF UInv, UTick, view, RecordTyped, WorkersTyped, MailTyped
<1> QED  BY <1>1, <1>2, <1>3 DEF UInv

LEMMA AskKeeps == ASSUME UInv, NEW p \in Passes, NEW w \in Workers, UAsk(p, w) PROVE UInv'
<1>1. PassesTyped'
  <2>1. PICK a \in AnswerRow : upass' = [upass EXCEPT ![p].seen[w] = a]
    <3>1. Silent \in AnswerRow  BY DEF Silent, Unasked, AnswerRow, Profiles
    <3>2. uworker[w].dev \in PhoneRow  BY DEF UInv, WorkersTyped
    <3>3. [asked |-> TRUE, has |-> uworker[w].dev.has, profile |-> uworker[w].dev.profile] \in AnswerRow
      BY <3>2 DEF PhoneRow, AnswerRow
    <3> QED  BY <3>1, <3>3 DEF UAsk
  <2>2. upass[p] \in StepsRow  BY DEF UInv, PassesTyped
  <2>3. [upass[p] EXCEPT !.seen[w] = a] \in StepsRow  BY <2>1, <2>2 DEF StepsRow
  <2> QED  BY <2>1, <2>3 DEF UInv, PassesTyped
<1>2. CountsTyped'  BY TroubleIsCounted DEF UInv, UAsk
<1>3. RecordTyped' /\ WorkersTyped' /\ MailTyped'
  BY DEF UInv, UAsk, view, RecordTyped, WorkersTyped, MailTyped
<1> QED  BY <1>1, <1>2, <1>3 DEF UInv

\* A pass merges when every worker was asked: what was seen is typed, and so is
\* the profile that is taken over.
LEMMA MergeKeeps == ASSUME UInv, NEW p \in Passes, UMerge(p) PROVE UInv'
<1> DEFINE w == Owner(upass[p].seen)
<1>0. upass[p] \in StepsRow /\ w \in Workers \cup {Nobody}
  BY OwnerIsAWorker DEF UInv, PassesTyped
<1>1. PassesTyped'
  <2>1. [Idle EXCEPT !.pc = "load"] \in StepsRow  BY IdleIsTyped DEF StepsRow
  <2> QED  BY <2>1, IdleIsTyped DEF UInv, UMerge, PassesTyped
<1>2. RecordTyped'
  <2>1. CASE ureg' = Merged(w, upass[p].seen) /\ uowner' = w /\ ushown' = w
    <3>1. CASE w = Nobody
      BY <1>0, <2>1, <3>1 DEF UInv, RecordTyped, Merged
    <3>2. CASE w # Nobody
      <4>1. upass[p].seen[w].profile \in Profiles  BY <1>0, <3>2 DEF StepsRow, AnswerRow
      <4> QED  BY <1>0, <2>1, <3>2, <4>1 DEF UInv, RecordTyped, Merged
    <3> QED  BY <3>1, <3>2
  <2>2. CASE UNCHANGED <<ureg, view>>
    BY <2>2 DEF UInv, RecordTyped, view
  <2> QED  BY <2>1, <2>2 DEF UMerge
<1>3. CountsTyped'  BY TroubleIsCounted DEF UInv, UMerge
<1>4. WorkersTyped' /\ MailTyped'  BY DEF UInv, UMerge, WorkersTyped, MailTyped
<1> QED  BY <1>1, <1>2, <1>3, <1>4 DEF UInv

LEMMA LoadKeeps == ASSUME UInv, NEW p \in Passes, ULoad(p) PROVE UInv'
<1>1. CountsTyped' /\ WorkersTyped'
  BY TroubleIsCounted DEF UInv, ULoad, WorkersTyped
<1>2. CASE ureg.worker = Nobody
  <2>1. PassesTyped' /\ uowner' \in Workers \cup {Nobody}
    BY <1>2, EndIsTyped DEF UInv, RecordTyped, ULoad
  <2> QED  BY <1>1, <1>2, <2>1 DEF UInv, ULoad, RecordTyped, MailTyped
<1>3. CASE ureg.worker # Nobody
  <2>1. Config(p) \in ConfigRow  BY <1>3 DEF UInv, RecordTyped, Config, ConfigRow
  <2>2. PassesTyped'  BY <1>3, GoIsTyped DEF UInv, ULoad
  <2> QED  BY <1>1, <1>3, <2>1, <2>2 DEF UInv, ULoad, view, RecordTyped, MailTyped
<1> QED  BY <1>2, <1>3

LEMMA ArrivalKeeps == ASSUME UInv, NEW x \in umail, UArrives(x) PROVE UInv'
<1>0. x \in ConfigRow  BY DEF UInv, MailTyped
<1>1. WorkersTyped'
  <2>1. uworker[x.to] \in [up : BOOLEAN, dev : PhoneRow]  BY <1>0 DEF UInv, WorkersTyped, ConfigRow
  <2>2. Applied(uworker[x.to].dev, x) \in PhoneRow  BY <1>0, <2>1 DEF Applied, PhoneRow, ConfigRow
  <2> QED  BY <2>1, <2>2 DEF UInv, UArrives, WorkersTyped
<1>2. PassesTyped' /\ uowner' \in Workers \cup {Nobody}
  <2>1. CASE UEnded(x.from)
    <3>1. x.from \in Passes  BY <1>0 DEF ConfigRow
    <3> QED  BY <2>1, <3>1, EndIsTyped DEF UInv, RecordTyped
  <2>2. CASE UNCHANGED <<upass, uowner>>
    BY <2>2 DEF UInv, RecordTyped, PassesTyped
  <2> QED  BY <2>1, <2>2 DEF UArrives
<1>3. RecordTyped' /\ MailTyped'  BY <1>2 DEF UInv, UArrives, RecordTyped, MailTyped
<1>4. CountsTyped'  BY TroubleIsCounted DEF UInv, UArrives
<1> QED  BY <1>1, <1>2, <1>3, <1>4 DEF UInv

LEMMA GiveUpKeeps == ASSUME UInv, NEW p \in Passes, UGivesUp(p) PROVE UInv'
<1>1. PassesTyped' /\ uowner' \in Workers \cup {Nobody}
  BY EndIsTyped DEF UInv, RecordTyped, UGivesUp
<1>2. CountsTyped'  BY TroubleIsCounted DEF UInv, UGivesUp
<1>3. RecordTyped' /\ WorkersTyped' /\ MailTyped'
  BY <1>1 DEF UInv, UGivesUp, RecordTyped, WorkersTyped, MailTyped
<1> QED  BY <1>1, <1>2, <1>3 DEF UInv

LEMMA EditKeeps == ASSUME UInv, UEdit PROVE UInv'
<1>1. PassesTyped'  BY GoIsTyped DEF UInv, UEdit, Passes
<1>2. RecordTyped'
  <2> DEFINE Row == [worker : Workers \cup {Nobody}, off : BOOLEAN, profile : Profiles]
  <2>1. ureg \in Row  BY DEF UInv, RecordTyped
  <2>2. NoDevice \in Row  BY DEF NoDevice, Profiles
  <2>3. [ureg EXCEPT !.off = ~@] \in Row
    <3>1. ureg.off \in BOOLEAN  BY <2>1
    <3>2. (~ureg.off) \in BOOLEAN  BY <3>1
    <3> QED  BY <2>1, <3>2
  <2>4. [ureg EXCEPT !.profile = "iphone11"] \in Row  BY <2>1 DEF Profiles
  <2>5. ureg' \in Row
    <3> HIDE DEF Row
    <3> QED  BY <2>2, <2>3, <2>4 DEF UEdit
  <2> QED  BY <2>5 DEF UInv, UEdit, view, RecordTyped
<1>3. CountsTyped'  BY DEF UInv, UEdit, CountsTyped
<1>4. WorkersTyped' /\ MailTyped'  BY DEF UInv, UEdit, WorkersTyped, MailTyped
<1> QED  BY <1>1, <1>2, <1>3, <1>4 DEF UInv

\* A worker registers the phone, goes or comes back.
LEMMA WorkerKeeps ==
  ASSUME UInv, NEW w \in Workers, URegister(w) \/ UUpDown(w) PROVE UInv'
<1>0. uworker[w] \in [up : BOOLEAN, dev : PhoneRow]  BY DEF UInv, WorkersTyped
<1>1. WorkersTyped'
  <2>1. CASE URegister(w)
    <3>1. [Unregistered EXCEPT !.has = TRUE, !.profile = Known[w]] \in PhoneRow
      BY DEF Unregistered, PhoneRow
    <3> QED  BY <1>0, <2>1, <3>1 DEF UInv, URegister, WorkersTyped
  <2>2. CASE UUpDown(w)
    BY <1>0, <2>2 DEF UInv, UUpDown, WorkersTyped
  <2> QED  BY <2>1, <2>2
<1>2. CountsTyped'  BY TroubleIsCounted DEF UInv, URegister, UUpDown
<1>3. RecordTyped' /\ PassesTyped' /\ MailTyped'
  BY DEF UInv, URegister, UUpDown, view, RecordTyped, PassesTyped, MailTyped
<1> QED  BY <1>1, <1>2, <1>3 DEF UInv

LEMMA UNextKeeps == UInv /\ [UNext]_uVars => UInv'
<1> SUFFICES ASSUME UInv, [UNext]_uVars PROVE UInv'
  OBVIOUS
<1>1. ASSUME NEW p \in Refreshes, UTick(p) PROVE UInv'  BY <1>1, TickKeeps
<1>2. ASSUME NEW p \in Passes, UPass(p) \/ UGivesUp(p) PROVE UInv'
  BY <1>2, AskKeeps, MergeKeeps, LoadKeeps, GiveUpKeeps DEF UPass
<1>3. ASSUME NEW x \in umail, UArrives(x) PROVE UInv'  BY <1>3, ArrivalKeeps
<1>4. CASE UEdit  BY <1>4, EditKeeps
<1>5. ASSUME NEW w \in Workers, URegister(w) \/ UUpDown(w) PROVE UInv'  BY <1>5, WorkerKeeps
<1>6. CASE UNCHANGED uVars
  BY <1>6 DEF uVars, UInv, RecordTyped, WorkersTyped, PassesTyped, MailTyped, CountsTyped
<1> QED  BY <1>1, <1>2, <1>3, <1>4, <1>5, <1>6 DEF UNext, Passes

LEMMA UInvIsTyped == UInv => UTypeOK
<1> SUFFICES ASSUME UInv PROVE UTypeOK
  OBVIOUS
<1>1. \A w \in Workers : uworker[w].dev.profile \in Profiles
  BY DEF UInv, WorkersTyped, PhoneRow
<1>2. \A p \in DOMAIN upass : upass[p].pc \in {"idle", "ask", "load", "sync"}
  BY DEF UInv, PassesTyped, StepsRow
<1> QED  BY <1>1, <1>2 DEF UInv, RecordTyped, CountsTyped, UTypeOK

\* Whatever is overtaken, lost or answered late, the registry and every worker have
\* a profile that is one and never an absent one, the phone is a configured worker's or
\* nobody's, and no request is left without a step (device-workers.ts:457-619).
THEOREM FleetIsTyped == USpec => []UTypeOK
<1>1. UInit => UInv  BY UInitHolds
<1>2. UInv /\ [UNext]_uVars => UInv'  BY UNextKeeps
<1>3. UInv => UTypeOK  BY UInvIsTyped
<1> QED  BY <1>1, <1>2, <1>3, PTL DEF USpec
=============================================================================
