---------------------------- MODULE Supervision ----------------------------
(***************************************************************************)
(* How one iPhone is kept ready for automation: supervisors                *)
(* (src/src/devices/wda/start.ts), each a process that starts WDA with     *)
(* xcodebuild and forwards its ports; and the manager of the WDA service   *)
(* (connection-manager.ts), which keeps a supervisor running.              *)
(*                                                                         *)
(* Supervisors are started by the manager or by hand.  Time is left out: a *)
(* retry comes at any later moment, a timeout strikes at any moment.  What *)
(* goes wrong by itself (a cable, a crash, a hung WDA, a refused           *)
(* connection, a late exit, a process that cannot be spawned) counts       *)
(* against MaxFaults, what an operator does (a supervisor by hand,         *)
(* reconnect, disable outside of that) against MaxRequests.  One reconnect *)
(* runs at a time.                                                         *)
(***************************************************************************)
EXTENDS Integers, FiniteSets

CONSTANTS Sups,          \* process slots for supervisors
          MaxFaults,     \* bound of sfaults
          MaxRequests    \* bound of srequests

ASSUME SupervisionAssumption ==
  /\ \A no \in {"none", "nobody", "dead", "unborn"} : no \notin Sups
  /\ MaxFaults \in Nat /\ MaxRequests \in Nat

VARIABLES slock,    \* the supervisor lock file: whose pid, and whether it is written
          sstolen,  \* a lock file was removed that was not the stale one that was read
          sup,      \* the supervisors
          swire,    \* the phone is on the cable
          ssick,    \* WDA runs, but does not answer
          sfaults,  \* faults so far
          srequests,\* an operator's interventions so far
          mreg,     \* the phone is registered and enabled
          mrun,     \* the manager's runtime of the phone; a child that could not be
                    \* spawned is "unborn"
          mpass,    \* reconcile: its step and what it read
          mcall,    \* reconnect: its step, its old child, whether its runtime is still known
          mclose    \* close: "open" or "stopping"

sVars == <<slock, sstolen, sup, swire, ssick, sfaults, srequests, mreg, mrun, mpass,
           mcall, mclose>>
faults == <<sfaults, srequests>>
world == <<swire, faults>>
lockfile == <<slock, sstolen>>
manager == <<mreg, mpass, mcall, mclose>>

NoLock == [by |-> "nobody", told |-> FALSE]
Free == [pc |-> "free", by |-> "nobody", stopping |-> FALSE, down |-> "no",
         child |-> FALSE, old |-> FALSE, fwd |-> FALSE, read |-> NoLock]
Phases == {"disconnected", "connecting", "ready", "error"}
NoPass == [pc |-> "idle", reg |-> FALSE, wire |-> FALSE, old |-> "none"]
NoRuntime == [known |-> FALSE, child |-> "none", phase |-> "disconnected"]

SInit ==
  /\ \E by \in {"nobody", "dead"} : slock = [by |-> by, told |-> by = "dead"]
  /\ sstolen = FALSE /\ sup = [s \in Sups |-> Free]
  /\ swire = TRUE /\ ssick = FALSE /\ sfaults = 0 /\ srequests = 0 /\ mreg \in BOOLEAN
  /\ mrun = NoRuntime /\ mpass = NoPass
  /\ mcall = [pc |-> "idle", old |-> "none", mine |-> TRUE]
  /\ mclose = "open"

\* The slots that no process uses and nobody waits for.
Slots == {s \in Sups : sup[s].pc = "free" /\ s \notin {mrun.child, mcall.old, mpass.old}}
NewSlot == CHOOSE s \in Slots : TRUE
Fault == sfaults < MaxFaults /\ sfaults' = sfaults + 1 /\ UNCHANGED srequests
Request == srequests < MaxRequests /\ srequests' = srequests + 1 /\ UNCHANGED sfaults
Alive(s) == sup[s].pc # "free"
BeforeLock == {"create", "write", "inspect", "remove"}
Holds(s) == Alive(s) /\ sup[s].pc \notin BeforeLock /\ ~sup[s].stopping
SPut(s, rec) == sup' = [sup EXCEPT ![s] = rec]
Born(by) == Slots # {} /\ SPut(NewSlot, [Free EXCEPT !.pc = "create", !.by = by])

\* GET /status over the forwarded port, from the supervisor or the manager.
Answers == swire /\ ~ssick /\ \E s \in Sups : sup[s].child /\ sup[s].fwd

\* report: a supervisor's phase reaches the manager, also that of a supervisor it
\* has replaced; one started by hand has no reader, one of a forgotten runtime is
\* read for nothing.
Report(s, rec, phase) ==
  /\ SPut(s, rec)
  /\ mrun' = IF rec.by = "manager" /\ mrun.known /\ (s = mcall.old => mcall.mine)
             THEN [mrun EXCEPT !.phase = phase] ELSE mrun

\* A process is gone: its pid in the lock file is that of no process, and the
\* manager's exit listener acts if this is still the runtime's child.
Vanish(s, tidy) ==
  /\ SPut(s, Free)
  /\ slock' = IF slock.by = s /\ ~tidy THEN [slock EXCEPT !.by = "dead"] ELSE slock
  /\ mrun' = IF mrun.child # s THEN mrun
             ELSE [mrun EXCEPT !.child = "none", !.phase = IF mclose = "open" THEN "error" ELSE @]

-----------------------------------------------------------------------------
(* The supervisor.                                                         *)

\* acquireDeviceLock: create the file exclusively, then write the pid into it;
\* or read it, give up if its process lives, and remove it otherwise.  A file
\* whose pid is not written yet reads as stale.
SCreate(s) ==
  /\ sup[s].pc = "create"
  /\ IF slock = NoLock
     THEN slock' = [by |-> s, told |-> FALSE] /\ SPut(s, [sup[s] EXCEPT !.pc = "write"])
     ELSE SPut(s, [sup[s] EXCEPT !.pc = "inspect"]) /\ UNCHANGED slock
  /\ UNCHANGED <<sstolen, world, ssick, manager, mrun>>

SWritePid(s) ==
  /\ sup[s].pc = "write"
  /\ slock' = IF slock.by = s THEN [slock EXCEPT !.told = TRUE] ELSE slock
  /\ SPut(s, [sup[s] EXCEPT !.pc = "loop"])
  /\ UNCHANGED <<sstolen, world, ssick, manager, mrun>>

LockHeldSlip == FALSE
LockHeld == slock.told /\ slock.by \in Sups
SInspect(s) ==
  /\ sup[s].pc = "inspect"
  /\ IF LockHeld THEN Vanish(s, TRUE)
     ELSE SPut(s, [sup[s] EXCEPT !.pc = "remove", !.read = slock]) /\ UNCHANGED <<slock, mrun>>
  /\ UNCHANGED <<sstolen, world, ssick, manager>>

SRemoveStale(s) ==
  /\ sup[s].pc = "remove"
  /\ sstolen' = (sstolen \/ (slock.by \in Sups /\ ~(sup[s].read.told /\ sup[s].read.by \in Sups)))
  /\ slock' = NoLock /\ SPut(s, [sup[s] EXCEPT !.pc = "create", !.read = NoLock])
  /\ UNCHANGED <<world, ssick, manager, mrun>>

PortsTaken(s) == \E q \in Sups \ {s} : sup[q].fwd

\* startRunner.  A connection that is refused (for certain while the ports are
\* taken), or a second one that is, leaves nothing forwarded.  A shutdown during
\* the awaits does not keep xcodebuild from being spawned after it.
SConnect(s) ==
  /\ sup[s].pc = "connect"
  /\ \/ \E kept \in IF sup[s].stopping THEN BOOLEAN ELSE {TRUE} :
          /\ ~PortsTaken(s)
          /\ Report(s, [sup[s] EXCEPT !.pc = "loop", !.child = TRUE, !.fwd = kept], "connecting")
          /\ UNCHANGED faults
     \/ /\ IF PortsTaken(s) THEN UNCHANGED faults ELSE Fault
        /\ Report(s, [sup[s] EXCEPT !.pc = "loop"], "error")
  /\ ssick' = FALSE
  /\ UNCHANGED <<lockfile, swire, manager>>

\* stopRunner: the child is no longer the current one, then is waited for.
StopRunner(rec) == [rec EXCEPT !.pc = "stopping", !.child = FALSE, !.old = rec.child \/ rec.old]

\* One turn of the loop: the cable first, then the child.
TimesOutSlip(s) == FALSE
TimesOut(s) == sup[s].child /\ ~Answers
SLoop(s) ==
  /\ sup[s].pc = "loop" /\ ~sup[s].stopping
  /\ \/ /\ ~swire
        /\ Report(s, IF sup[s].child \/ sup[s].fwd THEN StopRunner(sup[s]) ELSE sup[s], "disconnected")
     \/ swire /\ sup[s].child /\ Answers /\ Report(s, sup[s], "ready")
     \/ swire /\ TimesOut(s) /\ Report(s, StopRunner(sup[s]), "error")
     \/ /\ swire /\ ~sup[s].child
        /\ SPut(s, [sup[s] EXCEPT !.pc = "connect"]) /\ UNCHANGED mrun
  /\ UNCHANGED <<lockfile, world, ssick, manager>>

\* The runner exited, or three seconds passed and it was sent SIGKILL: an exit
\* event that is late even then meets the next runner.
SStopped(s) ==
  /\ sup[s].pc = "stopping"
  /\ IF sup[s].old THEN Fault ELSE UNCHANGED faults
  /\ SPut(s, [sup[s] EXCEPT !.pc = "loop", !.fwd = FALSE])
  /\ UNCHANGED <<lockfile, swire, ssick, manager, mrun>>

\* The exit event of xcodebuild, whichever one it was: forwarding is released
\* and a failure counted.
ExitEvent(s, rec) ==
  LET quiet == [rec EXCEPT !.fwd = FALSE]
  IN  IF rec.stopping THEN SPut(s, quiet) /\ UNCHANGED mrun ELSE Report(s, quiet, "error")
SReaped(s) ==
  /\ sup[s].old
  /\ ExitEvent(s, [sup[s] EXCEPT !.old = FALSE])
  /\ UNCHANGED <<lockfile, world, ssick, manager>>
SRunnerDies(s) ==
  /\ sup[s].child
  /\ IF sup[s].stopping THEN UNCHANGED faults ELSE Fault
  /\ ExitEvent(s, [sup[s] EXCEPT !.child = FALSE])
  /\ UNCHANGED <<lockfile, swire, ssick, manager>>

\* SIGTERM: before the handlers are installed it ends the process at once;
\* after that, shutdown stops the runner and then removes the lock file.
Terminated(s) ==
  IF sup[s].pc \in BeforeLock THEN Vanish(s, FALSE)
  ELSE /\ SPut(s, IF sup[s].stopping THEN sup[s]
                  ELSE [sup[s] EXCEPT !.stopping = TRUE, !.down = "stop",
                                      !.child = FALSE, !.old = sup[s].child \/ sup[s].old])
       /\ UNCHANGED <<slock, mrun>>
SDownStopped(s) ==
  /\ sup[s].down = "stop"
  /\ SPut(s, [sup[s] EXCEPT !.down = "unlock", !.fwd = FALSE])
  /\ UNCHANGED <<lockfile, world, ssick, manager, mrun>>
SUnlock(s) ==
  /\ sup[s].down = "unlock"
  /\ sstolen' = (sstolen \/ slock.by \in Sups \ {s})
  /\ slock' = NoLock /\ SPut(s, [sup[s] EXCEPT !.down = "done"])
  /\ UNCHANGED <<world, ssick, manager, mrun>>
SExit(s) ==
  /\ sup[s].pc = "loop" /\ sup[s].down = "done" /\ ~sup[s].child /\ ~sup[s].old
  /\ Vanish(s, FALSE)
  /\ UNCHANGED <<sstolen, world, ssick, manager>>

\* A supervisor crashes; the cable comes and goes; WDA stops answering; an
\* operator starts a supervisor with `npm run wda:start`, or ends it.
SCrash(s) ==
  /\ Alive(s) /\ Fault /\ Vanish(s, FALSE)
  /\ UNCHANGED <<sstolen, swire, ssick, manager>>
SCable ==
  /\ IF swire THEN Fault ELSE UNCHANGED faults
  /\ swire' = ~swire
  /\ UNCHANGED <<lockfile, sup, ssick, manager, mrun>>
SSick ==
  /\ Answers /\ Fault /\ ssick' = TRUE
  /\ UNCHANGED <<lockfile, sup, swire, manager, mrun>>
SByHand ==
  /\ Request
  /\ \A q \in Sups : sup[q].by # "hand"
  /\ Born("hand")
  /\ UNCHANGED <<lockfile, swire, ssick, manager, mrun>>
SEndByHand(s) ==
  /\ sup[s].by = "hand" /\ ~sup[s].stopping /\ Terminated(s)
  /\ UNCHANGED <<sstolen, world, ssick, manager>>

Main(s) ==
  SCreate(s) \/ SWritePid(s) \/ SInspect(s) \/ SRemoveStale(s) \/ SConnect(s)
  \/ SLoop(s) \/ SStopped(s) \/ SExit(s)
Shutdown(s) == SDownStopped(s) \/ SUnlock(s)
SFaults == SCable \/ SSick \/ SByHand \/ \E s \in Sups : SCrash(s) \/ SRunnerDies(s)

-----------------------------------------------------------------------------
(* The manager.                                                            *)

\* startChild for the given runtime record: a slot that is not in use is the new
\* process; without a free one the manager waits (a bound of the model).  Or the spawn
\* throws, and a later pass tries again; or it fails with an error event: then the
\* child is a process that never was, whose exit nobody will see.
StartChild(run) ==
  \/ /\ run.child # "none" \/ mclose # "open"
     /\ mrun' = run /\ UNCHANGED <<sup, faults>>
  \/ /\ run.child = "none" /\ mclose = "open"
     /\ Born("manager") /\ mrun' = [run EXCEPT !.child = NewSlot, !.phase = "connecting"]
     /\ UNCHANGED faults
  \/ /\ run.child = "none" /\ mclose = "open"
     /\ Fault /\ UNCHANGED sup
     /\ \E child \in {"none", "unborn"} : mrun' = [run EXCEPT !.child = child, !.phase = "error"]

\* stopChild, first half: the runtime has no child any more, the process gets
\* SIGTERM, if there is one.
Process(child) == IF child \in Sups THEN child ELSE "none"
StopChild(run) ==
  IF run.child \notin Sups THEN mrun' = [run EXCEPT !.child = "none"] /\ UNCHANGED <<sup, slock>>
  ELSE LET s == run.child IN
       IF sup[s].pc \in BeforeLock
       THEN /\ SPut(s, Free) /\ mrun' = [run EXCEPT !.child = "none"]
            /\ slock' = IF slock.by = s THEN [slock EXCEPT !.by = "dead"] ELSE slock
       ELSE /\ SPut(s, [sup[s] EXCEPT !.stopping = TRUE, !.down = IF @ = "no" THEN "stop" ELSE @,
                                      !.child = FALSE, !.old = sup[s].child \/ sup[s].old])
            /\ mrun' = [run EXCEPT !.child = "none"] /\ UNCHANGED slock

\* Second half: it exits, or five seconds pass and it is sent SIGKILL.
StopEnds(s, put) ==
  \/ /\ s # "none" => ~Alive(s)
     /\ put /\ UNCHANGED <<sup, slock, faults>>
  \/ /\ s # "none" /\ Alive(s) /\ put /\ UNCHANGED faults
     /\ SPut(s, Free) /\ slock' = IF slock.by = s THEN [slock EXCEPT !.by = "dead"] ELSE slock

\* reconcile reads the registry, the USB bus and Appium ...
MRead ==
  /\ mpass.pc = "idle" /\ mclose = "open"
  /\ mpass' = [pc |-> "apply", reg |-> mreg, wire |-> swire, old |-> "none"]
  /\ UNCHANGED <<lockfile, sup, world, ssick, mreg, mrun, mcall, mclose>>

\* ... and acts on that: a phone that is not registered loses its supervisor,
\* then its runtime; the others get a supervisor.
MApply ==
  /\ mpass.pc = "apply"
  /\ IF mpass.reg
     THEN /\ mpass' = [mpass EXCEPT !.pc = "probe", !.reg = FALSE]
          /\ StartChild([mrun EXCEPT !.known = TRUE])
          /\ UNCHANGED slock
     ELSE /\ mpass' = [NoPass EXCEPT !.pc = "drop", !.old = Process(mrun.child)]
          /\ StopChild(mrun) /\ UNCHANGED faults
  /\ UNCHANGED <<sstolen, swire, ssick, mreg, mcall, mclose>>

\* Before the runtime is dropped, a reconnect may have given it a new child: that one
\* is an orphan, nobody's to stop.
Orphaned(s) == IF s \in Sups /\ Alive(s) THEN [sup EXCEPT ![s].by = "orphan"] ELSE sup
MDrop ==
  /\ mpass.pc = "drop"
  /\ LET s == mpass.old IN
     \/ /\ s # "none" => ~Alive(s)
        /\ sup' = Orphaned(mrun.child) /\ UNCHANGED slock
     \/ /\ s # "none" /\ Alive(s)
        /\ sup' = [Orphaned(mrun.child) EXCEPT ![s] = Free]
        /\ slock' = IF slock.by = s THEN [slock EXCEPT !.by = "dead"] ELSE slock
  /\ mpass' = NoPass /\ mrun' = NoRuntime
  /\ mcall' = [mcall EXCEPT !.mine = mcall.pc = "idle"]
  /\ UNCHANGED <<sstolen, world, ssick, mreg, mclose>>

\* The phone's WDA is asked directly; its answer stands above what the
\* supervisor reported.
MProbe ==
  /\ mpass.pc = "probe"
  /\ mpass' = NoPass
  /\ mrun' = [mrun EXCEPT !.phase =
       IF mpass.wire /\ Answers THEN "ready"
       ELSE IF ~mpass.wire THEN "disconnected"
       ELSE IF @ \in {"ready", "disconnected"} THEN "connecting" ELSE @]
  /\ UNCHANGED <<lockfile, sup, world, ssick, mreg, mcall, mclose>>

\* reconnect(udid): the child is stopped, then another one is started unless
\* reconcile has done so meanwhile.
MReconnect ==
  /\ mcall.pc = "idle" /\ mrun.known /\ mclose = "open" /\ Request
  /\ mcall' = [pc |-> "stop", old |-> Process(mrun.child), mine |-> TRUE]
  /\ StopChild(mrun)
  /\ UNCHANGED <<sstolen, swire, ssick, mreg, mpass, mclose>>

MReconnectStopped ==
  /\ mcall.pc = "stop"
  /\ StopEnds(mcall.old, mcall' = [mcall EXCEPT !.pc = "start", !.old = "none"])
  /\ UNCHANGED <<sstolen, swire, ssick, mreg, mrun, mpass, mclose>>

\* A runtime the map no longer has is started all the same: its process is an orphan,
\* too.
MReconnectStart ==
  /\ mcall.pc = "start"
  /\ mcall' = [pc |-> "idle", old |-> "none", mine |-> TRUE]
  /\ \/ mcall.mine /\ StartChild([mrun EXCEPT !.phase = "connecting"])
     \/ /\ ~mcall.mine /\ UNCHANGED mrun
        /\ \/ mclose # "open" /\ UNCHANGED <<sup, faults>>
           \/ mclose = "open" /\ Born("orphan") /\ UNCHANGED faults
           \/ mclose = "open" /\ Fault /\ UNCHANGED sup
  /\ UNCHANGED <<lockfile, swire, ssick, mreg, mpass, mclose>>

\* The phone is disabled, removed or enabled again in the registry.
MRegister ==
  /\ mreg' = ~mreg
  /\ IF mreg /\ mcall.pc = "idle" THEN Request ELSE UNCHANGED faults
  /\ UNCHANGED <<lockfile, sup, swire, ssick, mrun, mpass, mcall, mclose>>

\* close(): no timer, no new child; the runtime's child is stopped.
MClose ==
  /\ mclose = "open" /\ mclose' = "stopping"
  /\ StopChild(mrun)
  /\ UNCHANGED <<sstolen, world, ssick, mreg, mpass, mcall>>

\* A child that does not end on SIGTERM is sent SIGKILL here, too.
MCloseKills ==
  /\ mclose = "stopping"
  /\ \E s \in Sups : sup[s].by = "manager" /\ sup[s].stopping /\ Vanish(s, FALSE)
  /\ UNCHANGED <<sstolen, world, ssick, manager>>

Reconcile == MRead \/ MApply \/ MDrop \/ MProbe
Reconnected == MReconnectStopped \/ MReconnectStart

-----------------------------------------------------------------------------
SNext ==
  \/ \E s \in Sups : Main(s) \/ Shutdown(s) \/ SReaped(s) \/ SEndByHand(s)
  \/ SFaults \/ Reconcile \/ MReconnect \/ Reconnected \/ MRegister \/ MClose \/ MCloseKills

\* Every process goes on and every timer fires.
SFairness ==
  /\ WF_sVars(Reconcile) /\ WF_sVars(Reconnected) /\ WF_sVars(MCloseKills)
  /\ \A s \in Sups : /\ WF_sVars(Main(s)) /\ WF_sVars(Shutdown(s)) /\ WF_sVars(SReaped(s))
                    
SSpec == SInit /\ [][SNext]_sVars /\ SFairness

-----------------------------------------------------------------------------
\* Types of the state.
STypeOK ==
  /\ slock \in [by : Sups \cup {"nobody", "dead"}, told : BOOLEAN]
  /\ \A s \in Sups :
       /\ sup[s].pc \in BeforeLock \cup {"free", "loop", "connect", "stopping"}
       /\ sup[s].down \in {"no", "stop", "unlock", "done"}
       /\ sup[s].stopping <=> sup[s].down # "no"
  /\ mrun.phase \in Phases /\ mrun.child \in Sups \cup {"none", "unborn"}
  /\ sfaults \in 0..MaxFaults /\ srequests \in 0..MaxRequests

\* "Only one start.ts per UDID is allowed at a time" (start.ts:58-61), except
\* where a lock file that was not the stale one was removed.
SOneSupervisor == sstolen \/ Cardinality({s \in Sups : Holds(s)}) <= 1

\* The manager's own child is never one it has told to stop, nor one that is
\* gone: whatever interleaves, its exit can still be noticed, if it could be spawned
\* (connection-manager.ts:232-261, 276-286).
MChildIsOurs ==
  mrun.child \in Sups => Alive(mrun.child) /\ sup[mrun.child].by = "manager"

\* The supervision of a phone, whatever crashes, is unplugged or crosses: one
\* supervisor, and the manager's child is its own (start.ts:56-95, connection-manager.ts:136-287).
SSafe == STypeOK /\ SOneSupervisor /\ MChildIsOurs

\* A phone that stays connected and enabled is ready again and again, whatever
\* crashed, hung, was refused or was locked before (start.ts:231-275,
\* connection-manager.ts:136-190), unless its supervisor could not be spawned: nothing
\* but a reconnect replaces that one.
MReady ==
  <>[](swire /\ mreg /\ mclose = "open" /\ mrun.child # "unborn") => []<>(mrun.phase = "ready")

\* After close() no supervisor of the manager is left, but orphans
\* (connection-manager.ts:192-197).
MCloseStops == <>[](mclose = "stopping" => \A s \in Sups : sup[s].by # "manager")

\* "Disabled devices are supervised exactly like unregistered ones: their WDA child is
\* stopped and their runtime forgotten" (connection-manager.ts:146-147): so it is,
\* except for an orphan, which a reconnect that was under way has started after that.
MDisabledStops == <>[](~mreg => \A s \in Sups : sup[s].by # "manager")

\* The manager follows what is wanted of it: phones that are to be ready come to be,
\* and nothing is left of those that are not, nor after its close.
MFollows == MReady /\ MCloseStops /\ MDisabledStops
=============================================================================
