----------------------------- MODULE WdaService -----------------------------
(***************************************************************************)
(* The WDA service as a process: how one is started                        *)
(* (ensure-wda-service.ts), stays the only one (wda-service.ts), answers   *)
(* (wda-service-http.ts), is stopped (stop-wda-service.ts), and what its   *)
(* client shows of it (wda-service-client.ts).                             *)
(*                                                                         *)
(* Two paths of the file system are shared: a directory that serves as the *)
(* lock and the socket.  A process that is killed leaves both behind.  The *)
(* deadlines are left out: where the code waits until one, it may give up  *)
(* at any moment.  The phones' phases are one value that changes now and   *)
(* then.                                                                   *)
(***************************************************************************)
EXTENDS Integers, FiniteSets

CONSTANTS Services,   \* processes of wda-service.ts
          MaxStarts,  \* bound of wstarts
          MaxChanges  \* bound of wchanges

ASSUME WdaServiceAssumption ==
  {"none", "dead"} \cap Services = {} /\ MaxStarts \in Nat /\ MaxChanges \in Nat

VARIABLES wproc,      \* where each process is
          wpoll,      \* its manager's first pass is under way, or its timer is set
          wlock,      \* the lock directory exists, and who made it
          wsocket,    \* the socket file: who listens there
          wtaken,     \* a lock was removed whose maker was alive
          wstarts,    \* processes started
          wensure,    \* ensureWdaService: "idle", "waiting", "ok" or "failed"
          wstop,      \* stop-wda-service: "idle", "waiting", "stopped" or "failed"
          wphase,     \* the phase the service has of a phone
          wchanges,   \* changes of wphase
          creconnect, \* reconnect: its answer is under way
          cpending,   \* refresh: its answer, if it is under way
          cvalue,     \* the phase the client shows
          crefreshing \* the client's flag

wVars == <<wproc, wpoll, wlock, wsocket, wtaken, wstarts, wensure, wstop, wphase,
           wchanges, creconnect, cpending, cvalue, crefreshing>>
paths == <<wlock, wsocket, wtaken>>
tools == <<wstarts, wensure, wstop>>
clientVars == <<creconnect, cpending, cvalue, crefreshing>>
phoneVars == <<wphase, wchanges>>

Listening == {"starting", "ready", "draining"}
Gone == {"none", "gone"}
WAlive(w) == wproc[w] \notin Gone
Responding == wsocket \in Services /\ wproc[wsocket] \in {"starting", "ready"}
WGo(w, pc) == wproc' = [wproc EXCEPT ![w] = pc]
WPoll(w, p) == wpoll' = [wpoll EXCEPT ![w] = p]

WInit ==
  /\ wproc = [w \in Services |-> "none"] /\ wpoll = [w \in Services |-> "none"]
  /\ wlock \in {"none", "dead"} /\ wsocket = wlock /\ wtaken = FALSE
  /\ wstarts = 0 /\ wensure = "idle" /\ wstop = "idle"
  /\ wphase = "connecting" /\ wchanges = 0 /\ creconnect = FALSE
  /\ cpending = "none" /\ cvalue = "error" /\ crefreshing = FALSE

-----------------------------------------------------------------------------
(* The service process.                                                    *)

WLook(w) ==
  /\ wproc[w] = "look"
  /\ WGo(w, IF Responding THEN "gone" ELSE "lock")
  /\ UNCHANGED <<paths, wpoll, tools, phoneVars, clientVars>>

\* acquireServiceLock: mkdir; on EEXIST wait for an answer until the deadline,
\* then remove the directory.  A directory that is gone by then is an error
\* nobody catches.
LockFreeSlip == TRUE
LockFree == wlock = "none"
WMkdir(w) ==
  /\ wproc[w] = "lock"
  /\ IF LockFree THEN wlock' = w /\ WGo(w, "again")
     ELSE WGo(w, "wait") /\ UNCHANGED wlock
  /\ UNCHANGED <<wsocket, wtaken, wpoll, tools, phoneVars, clientVars>>

DeadlineSlip == FALSE
Deadline == TRUE
WWait(w) ==
  /\ wproc[w] = "wait"
  /\ \/ Responding /\ WGo(w, "gone")
     \/ Deadline /\ ~Responding /\ WGo(w, "rmdir")
  /\ UNCHANGED <<paths, wpoll, tools, phoneVars, clientVars>>

WRmdir(w) ==
  /\ wproc[w] = "rmdir"
  /\ WGo(w, IF wlock = "none" THEN "gone" ELSE "lock")
  /\ wtaken' = (wtaken \/ (wlock \in Services /\ WAlive(wlock)))
  /\ wlock' = "none"
  /\ UNCHANGED <<wsocket, wpoll, tools, phoneVars, clientVars>>

\* With the lock: look once more, then unlink the socket and listen.
LookAgain(w) ==
  IF Responding THEN WGo(w, "gone") /\ wlock' = "none"
  ELSE WGo(w, "unlink") /\ UNCHANGED wlock
WAgain(w) ==
  /\ wproc[w] = "again" /\ LookAgain(w)
  /\ wtaken' = (wtaken \/ (Responding /\ wlock \in Services \ {w} /\ WAlive(wlock)))
  /\ UNCHANGED <<wsocket, wpoll, tools, phoneVars, clientVars>>
WUnlink(w) ==
  /\ wproc[w] = "unlink" /\ wsocket' = "none" /\ WGo(w, "listen")
  /\ UNCHANGED <<wlock, wtaken, wpoll, tools, phoneVars, clientVars>>
WListen(w) ==
  /\ wproc[w] = "listen"
  /\ IF wsocket = "none" THEN wsocket' = w /\ WGo(w, "starting") /\ WPoll(w, "first")
     ELSE WGo(w, "gone") /\ UNCHANGED <<wsocket, wpoll>>
  /\ UNCHANGED <<wlock, wtaken, tools, phoneVars, clientVars>>

\* The first reconcile of the connection manager returns: its timer is set, also when
\* the manager has been closed meanwhile.  A failure of it shuts down.
IfStarting(w, pc) == WGo(w, IF wproc[w] = "starting" THEN pc ELSE wproc[w])
WStarted(w) ==
  /\ wpoll[w] = "first"
  /\ \/ WPoll(w, "set") /\ IfStarting(w, "ready")
     \/ WPoll(w, "none") /\ IfStarting(w, "draining")
  /\ UNCHANGED <<paths, tools, phoneVars, clientVars>>

\* shutdown: requests drain, the manager is closed with the timer that it has, then the
\* socket and the lock are removed, whoever's they are.
WDrained(w) ==
  /\ wproc[w] = "draining" /\ WGo(w, "unlock") /\ wsocket' = "none"
  /\ WPoll(w, IF wpoll[w] = "set" THEN "none" ELSE wpoll[w])
  /\ UNCHANGED <<wlock, wtaken, tools, phoneVars, clientVars>>
WUnlock(w) ==
  /\ wproc[w] = "unlock" /\ WGo(w, "ended") /\ wlock' = "none"
  /\ wtaken' = (wtaken \/ (wlock \in Services \ {w} /\ WAlive(wlock)))
  /\ UNCHANGED <<wsocket, wpoll, tools, phoneVars, clientVars>>
\* The process exits when neither a pass nor a timer keeps it.
WExits(w) ==
  /\ wproc[w] = "ended" /\ wpoll[w] = "none" /\ WGo(w, "gone")
  /\ UNCHANGED <<wpoll, paths, tools, phoneVars, clientVars>>

\* Killed, or the machine goes down.
WKilled(w) ==
  /\ WAlive(w) /\ WGo(w, "gone") /\ WPoll(w, "none")
  /\ wlock' = IF wlock = w THEN "dead" ELSE wlock
  /\ wsocket' = IF wsocket = w THEN "dead" ELSE wsocket
  /\ UNCHANGED <<wtaken, tools, phoneVars, clientVars>>

WStep(w) == WLook(w) \/ WMkdir(w) \/ WWait(w) \/ WRmdir(w) \/ WAgain(w) \/ WUnlink(w)
            \/ WListen(w) \/ WStarted(w) \/ WDrained(w) \/ WUnlock(w) \/ WExits(w)

-----------------------------------------------------------------------------
(* The tools that start and stop it.                                       *)

Spawn == \E w \in Services : wproc[w] = "none" /\ WGo(w, "look")
Ready == Responding /\ wproc[wsocket] = "ready"

\* ensureWdaService: nothing to do, wait for one that starts, or spawn one.
WEnsure ==
  /\ wensure = "idle" /\ wstarts < MaxStarts
  /\ wensure' = IF Ready THEN "ok" ELSE "waiting"
  /\ IF Responding THEN UNCHANGED <<wproc, wstarts>> ELSE Spawn /\ wstarts' = wstarts + 1
  /\ UNCHANGED <<wpoll, paths, wstop, phoneVars, clientVars>>
\* Ready within the deadline, or given up.
Ensured == Ready
WEnsured ==
  /\ wensure = "waiting"
  /\ wensure' = IF Ensured THEN "ok" ELSE "failed"
  /\ UNCHANGED <<wproc, wpoll, paths, wstarts, wstop, phoneVars, clientVars>>
\* The command is run again later.
WEnsureAgain ==
  /\ wensure \in {"ok", "failed"} /\ wensure' = "idle"
  /\ UNCHANGED <<wproc, wpoll, paths, wstarts, wstop, phoneVars, clientVars>>
\* Somebody runs wda-service.ts itself.
WSpawnByHand ==
  /\ wstarts < MaxStarts /\ Spawn /\ wstarts' = wstarts + 1
  /\ UNCHANGED <<wpoll, paths, wensure, wstop, phoneVars, clientVars>>

\* POST /shutdown is answered, then done; SIGTERM does the same.  The tool
\* waits until socket and lock are gone.
WStop ==
  /\ wstop = "idle" /\ Responding
  /\ WGo(wsocket, "draining") /\ wstop' = "waiting"
  /\ UNCHANGED <<wpoll, paths, wstarts, wensure, phoneVars, clientVars>>
WStopped ==
  /\ wstop = "waiting"
  /\ wstop' = IF wsocket = "none" /\ wlock = "none" THEN "stopped" ELSE "failed"
  /\ UNCHANGED <<wproc, wpoll, paths, wstarts, wensure, phoneVars, clientVars>>

-----------------------------------------------------------------------------
(* The client.                                                             *)

PhoneChanges ==
  /\ wchanges < MaxChanges /\ wchanges' = wchanges + 1
  /\ wphase' \in {"connecting", "ready"} \ {wphase}
  /\ UNCHANGED <<wproc, wpoll, paths, tools, clientVars>>

\* refresh asks unless it is asking already; the service answers with what it
\* has at that moment, or does not answer.
CAsk ==
  /\ ~crefreshing /\ crefreshing' = TRUE
  /\ cpending' = IF Responding THEN wphase ELSE "failed"
  /\ UNCHANGED <<wproc, wpoll, paths, tools, phoneVars, cvalue, creconnect>>

\* The answer is shown; no answer shows "error" for the registered phones, and
\* when those cannot be read, everything stays.
RefreshEnds == crefreshing' = FALSE
CAnswer ==
  /\ cpending # "none" /\ cpending' = "none" /\ RefreshEnds
  /\ \/ cpending # "failed" /\ cvalue' = cpending
     \/ cpending = "failed" /\ cvalue' \in {"error", cvalue}
  /\ UNCHANGED <<wproc, wpoll, paths, tools, phoneVars, creconnect>>

\* reconnect restarts the phone's supervisor.  Its answer is shown when it comes, also
\* after newer ones, or gets lost.
CReconnect ==
  /\ Responding /\ ~creconnect /\ creconnect' = TRUE
  /\ wchanges < MaxChanges /\ wchanges' = wchanges + 1 /\ wphase' = "connecting"
  /\ UNCHANGED <<wproc, wpoll, paths, tools, cpending, cvalue, crefreshing>>
CReconnected ==
  /\ creconnect /\ creconnect' = FALSE
  /\ cvalue' \in {"connecting", cvalue}
  /\ UNCHANGED <<wproc, wpoll, paths, tools, phoneVars, cpending, crefreshing>>

WNext ==
  \/ \E w \in Services : WStep(w) \/ WKilled(w)
  \/ WEnsure \/ WEnsured \/ WEnsureAgain \/ WSpawnByHand \/ WStop \/ WStopped
  \/ PhoneChanges \/ CAsk \/ CAnswer \/ CReconnect \/ CReconnected

\* Processes go on, and the client's timer asks again and again.
Client == CAsk \/ CAnswer
WFairness == (\A w \in Services : WF_wVars(WStep(w))) /\ WF_wVars(Client)
WSpec == WInit /\ [][WNext]_wVars /\ WFairness

-----------------------------------------------------------------------------
\* Types of the state.
WTypeOK ==
  /\ wlock \in Services \cup {"none", "dead"} /\ wsocket \in Services \cup {"none", "dead"}
  /\ wstarts \in 0..MaxStarts /\ wchanges \in 0..MaxChanges
  /\ \A w \in Services : wproc[w] = "starting" => wpoll[w] = "first"
  /\ cvalue \in {"error", "connecting", "ready"}
  /\ crefreshing <=> cpending # "none"

\* At most one service is past the lock, and with it one connection manager,
\* unless the lock of a living process was removed (wda-service.ts:27-55).
WOneService ==
  wtaken \/ Cardinality({w \in Services : wproc[w] \in Listening \cup {"unlink", "listen"}}) <= 1

\* The service, whoever starts, stops or kills it: one at a time, and its client is
\* asking whenever it believes that it is (wda-service.ts:26-57, wda-service-client.ts:122-156).
WSafe == WTypeOK /\ WOneService

\* A process that was told to stop while it started: its manager sets a timer that
\* nobody clears (connection-manager.ts:115-125, 192-197).
Lingers(w) == wproc[w] = "ended" /\ wpoll[w] = "set"

\* Once nobody starts services any more, every process is the service or has
\* ended: neither a lock nor a socket left behind by a crash keeps one waiting for
\* ever (wda-service.ts:36-44).  One that lingers has given both back.
WSettles == <>[](\A w \in Services : wproc[w] \in {"none", "ready", "gone"} \/ Lingers(w))

\* A client whose service stays and whose phone settles shows its phase, however
\* many requests failed or crossed before (wda-service-client.ts:110-157).
CShows == <>[](Responding /\ wphase = "ready") => <>[](cvalue = "ready")

\* The service comes to rest and its client to the truth.
ServiceSettles == WSettles /\ CShows
=============================================================================
