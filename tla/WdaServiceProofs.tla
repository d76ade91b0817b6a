-------------------------- MODULE WdaServiceProofs --------------------------
(***************************************************************************)
(* What holds of the WDA service and of its client for any number of       *)
(* processes, starts and changes.                                          *)
(***************************************************************************)
EXTENDS WdaService, FiniteSetTheorems, TLAPS

USE WdaServiceAssumption

-----------------------------------------------------------------------------
(* While no lock was taken from a living process, whoever is past the lock  *)
(* still has it: also while it drains, and until it unlocks.                *)

PastLock == {"again", "unlink", "listen", "starting", "ready", "draining", "unlock"}
Places == {"none", "look", "lock", "wait", "rmdir", "ended", "gone"} \cup PastLock
Polls == {"none", "first", "set"}
Phases == {"connecting", "ready"}

HoldersHaveIt == \A w \in Services : wproc[w] \in PastLock => wlock = w
PathTypes ==
  /\ wlock \in Services \cup {"none", "dead"} /\ wsocket \in Services \cup {"none", "dead"}
  /\ wtaken \in BOOLEAN
ClientTypes ==
  /\ wphase \in Phases /\ wchanges \in 0..MaxChanges
  /\ cvalue \in {"error"} \cup Phases /\ cpending \in {"none", "failed"} \cup Phases
  /\ crefreshing \in BOOLEAN /\ (crefreshing <=> cpending # "none")

WInv ==
  /\ wproc \in [Services -> Places] /\ wpoll \in [Services -> Polls]
  /\ \A w \in Services : wproc[w] = "starting" => wpoll[w] = "first"
  /\ PathTypes /\ wstarts \in 0..MaxStarts /\ ClientTypes
  /\ ~wtaken => HoldersHaveIt

LEMMA WInitHolds == WInit => WInv
<1> SUFFICES ASSUME WInit PROVE WInv
  OBVIOUS
<1>1. /\ wproc \in [Services -> Places] /\ HoldersHaveIt /\ wpoll \in [Services -> Polls]
      /\ \A w \in Services : wproc[w] # "starting"
  BY DEF WInit, Places, PastLock, HoldersHaveIt, Polls
<1>2. PathTypes  BY DEF WInit, PathTypes
<1>3. ClientTypes
  <2>1. crefreshing = FALSE /\ cpending = "none"  BY DEF WInit
  <2>2. crefreshing \in BOOLEAN /\ (crefreshing <=> cpending # "none")  BY <2>1
  <2> QED  BY <2>1, <2>2 DEF WInit, ClientTypes, Phases
<1> QED  BY <1>1, <1>2, <1>3 DEF WInit, WInv

\* A step of one process that leaves the paths as they are, to a place it needs no
\* lock for or from a place it needs the lock for.
LEMMA GoKeeps ==
  ASSUME WInv, NEW w \in Services, NEW p \in Places, WGo(w, p), wlock' = wlock, wtaken' = wtaken,
         p \in PastLock => wproc[w] \in PastLock
  PROVE  wproc' \in [Services -> Places] /\ (~wtaken' => HoldersHaveIt')
<1>1. wproc' \in [Services -> Places]  BY DEF WInv, WGo
<1>2. HoldersHaveIt => HoldersHaveIt'  BY DEF WInv, WGo, HoldersHaveIt
<1> QED  BY <1>1, <1>2 DEF WInv

\* A step of one process that gives up a lock it may have.
LEMMA LeaveKeeps ==
  ASSUME WInv, NEW w \in Services, NEW p \in Places \ PastLock, WGo(w, p),
         ~wtaken' => ~wtaken /\ \A u \in Services \ {w} : wlock = u => wproc[u] \in Gone
  PROVE  wproc' \in [Services -> Places] /\ (~wtaken' => HoldersHaveIt')
<1>1. wproc' \in [Services -> Places]  BY DEF WInv, WGo
<1>2. ASSUME ~wtaken', NEW u \in Services, wproc'[u] \in PastLock PROVE wlock' = u
  <2>1. u # w /\ wproc[u] \in PastLock  BY <1>2 DEF WInv, WGo
  <2>2. wlock = u  BY <1>2, <2>1 DEF WInv, HoldersHaveIt
  <2> QED  BY <1>2, <2>1, <2>2 DEF Gone, PastLock
<1> QED  BY <1>1, <1>2 DEF HoldersHaveIt

LEMMA StepKeeps ==
  ASSUME WInv, NEW w \in Services, WStep(w)
  PROVE  wproc' \in [Services -> Places] /\ PathTypes' /\ (~wtaken' => HoldersHaveIt')
<1>0. wproc \in [Services -> Places] /\ PathTypes /\ (~wtaken => HoldersHaveIt)
  BY DEF WInv
<1>1. CASE WLook(w)
  <2>1. PathTypes'  BY <1>0, <1>1 DEF WLook, paths, PathTypes
  <2> QED  BY <1>1, <2>1, GoKeeps DEF WLook, paths, Places, PastLock
<1>2. CASE WMkdir(w)
  <2>1. CASE wlock = "none"
    <3>1. wlock' = w /\ WGo(w, "again") /\ wtaken' = wtaken /\ wsocket' = wsocket
      BY <1>2, <2>1 DEF WMkdir, LockFree
    <3>2. wproc' \in [Services -> Places]  BY <1>0, <3>1 DEF WGo, Places, PastLock
    <3>3. HoldersHaveIt => HoldersHaveIt'  BY <1>0, <2>1, <3>1 DEF WGo, HoldersHaveIt
    <3> QED  BY <1>0, <3>1, <3>2, <3>3 DEF PathTypes
  <2>2. CASE wlock # "none"
    <3>1. WGo(w, "wait") /\ UNCHANGED <<wlock, wtaken, wsocket>>
      BY <1>2, <2>2 DEF WMkdir, LockFree
    <3> QED  BY <1>0, <3>1, GoKeeps DEF Places, PastLock, PathTypes
  <2> QED  BY <2>1, <2>2
<1>3. CASE WWait(w)
  <2>1. PathTypes'  BY <1>0, <1>3 DEF WWait, paths, PathTypes
  <2> QED  BY <1>3, <2>1, GoKeeps DEF WWait, paths, Places, PastLock
<1>4. CASE WRmdir(w)
  <2>1. PathTypes'  BY <1>0, <1>4 DEF WRmdir, PathTypes
  <2>2. PICK p \in Places \ PastLock : WGo(w, p)
    BY <1>4 DEF WRmdir, Places, PastLock
  <2>3. ~wtaken' => ~wtaken /\ \A u \in Services \ {w} : wlock = u => wproc[u] \in Gone
    BY <1>4 DEF WRmdir, WAlive
  <2> QED  BY <2>1, <2>2, <2>3, LeaveKeeps
<1>5. CASE WAgain(w)
  <2>1. CASE Responding
    <3>1. PathTypes'  BY <1>0, <1>5, <2>1 DEF WAgain, LookAgain, PathTypes
    <3>2. ~wtaken' => ~wtaken /\ \A u \in Services \ {w} : wlock = u => wproc[u] \in Gone
      BY <1>5, <2>1 DEF WAgain, WAlive
    <3>3. WGo(w, "gone")  BY <1>5, <2>1 DEF WAgain, LookAgain
    <3> QED  BY <3>1, <3>2, <3>3, LeaveKeeps DEF Places, PastLock
  <2>2. CASE ~Responding
    <3>1. WGo(w, "unlink") /\ UNCHANGED <<wlock, wsocket>> /\ (wtaken' = wtaken)
      BY <1>0, <1>5, <2>2 DEF WAgain, LookAgain, PathTypes
    <3>2. wproc[w] = "again"  BY <1>5 DEF WAgain
    <3>3. PathTypes'  BY <1>0, <3>1 DEF PathTypes
    <3> QED  BY <3>1, <3>2, <3>3, GoKeeps DEF Places, PastLock
  <2> QED  BY <2>1, <2>2
<1>6. CASE WUnlink(w)
  <2>1. PathTypes'  BY <1>0, <1>6 DEF WUnlink, PathTypes
  <2> QED  BY <1>6, <2>1, GoKeeps DEF WUnlink, Places, PastLock
<1>7. CASE WListen(w)
  <2>1. PathTypes'  BY <1>0, <1>7 DEF WListen, PathTypes
  <2> QED  BY <1>7, <2>1, GoKeeps DEF WListen, Places, PastLock
<1>8. CASE WStarted(w)
  <2>1. PathTypes'  BY <1>0, <1>8 DEF WStarted, paths, PathTypes
  <2>2. PICK p \in {"ready", "draining"} : IfStarting(w, p)  BY <1>8 DEF WStarted
  <2>3. wlock' = wlock /\ (wtaken' = wtaken)  BY <1>8 DEF WStarted, paths
  <2>4. CASE wproc[w] = "starting"
    <3>1. WGo(w, p)  BY <2>2, <2>4 DEF IfStarting
    <3> QED  BY <2>1, <2>3, <2>4, <3>1, GoKeeps DEF Places, PastLock
  <2>5. CASE wproc[w] # "starting"
    <3>1. WGo(w, wproc[w])  BY <2>2, <2>5 DEF IfStarting
    <3> QED  BY <1>0, <2>1, <2>3, <3>1, GoKeeps
  <2> QED  BY <2>4, <2>5
<1>9. CASE WDrained(w)
  <2>1. PathTypes'  BY <1>0, <1>9 DEF WDrained, PathTypes
  <2> QED  BY <1>9, <2>1, GoKeeps DEF WDrained, Places, PastLock
<1>10. CASE WUnlock(w)
  <2>1. PathTypes'  BY <1>0, <1>10 DEF WUnlock, PathTypes
  <2>2. ~wtaken' => ~wtaken /\ \A u \in Services \ {w} : wlock = u => wproc[u] \in Gone
    BY <1>10 DEF WUnlock, WAlive
  <2> QED  BY <1>10, <2>1, <2>2, LeaveKeeps DEF WUnlock, Places, PastLock
<1>11. CASE WExits(w)
  <2>1. PathTypes'  BY <1>0, <1>11 DEF WExits, paths, PathTypes
  <2> QED  BY <1>11, <2>1, GoKeeps DEF WExits, paths, Places, PastLock
<1> QED  BY <1>1, <1>2, <1>3, <1>4, <1>5, <1>6, <1>7, <1>8, <1>9, <1>10, <1>11 DEF WStep

\* A process is starting from when it listens until its manager's first pass returns.
StartingPolls == \A w \in Services : wproc[w] = "starting" => wpoll[w] = "first"
LEMMA PollKeeps ==
  ASSUME WInv, NEW w \in Services, WStep(w) \/ WKilled(w)
  PROVE  wpoll' \in [Services -> Polls] /\ StartingPolls'
<1>0. wproc \in [Services -> Places] /\ wpoll \in [Services -> Polls] /\ StartingPolls
  BY DEF WInv, StartingPolls
<1>1. ASSUME NEW pc, WGo(w, pc), pc # "starting", NEW p \in Polls, WPoll(w, p)
      PROVE  wpoll' \in [Services -> Polls] /\ StartingPolls'
  BY <1>0, <1>1 DEF WGo, WPoll, StartingPolls
<1>2. ASSUME NEW pc, WGo(w, pc), pc # "starting", UNCHANGED wpoll
      PROVE  wpoll' \in [Services -> Polls] /\ StartingPolls'
  BY <1>0, <1>2 DEF WGo, StartingPolls
<1>3. CASE WLook(w) \/ WMkdir(w) \/ WWait(w) \/ WRmdir(w) \/ WAgain(w) \/ WUnlink(w) \/ WUnlock(w)
           \/ WExits(w)
  <2>1. UNCHANGED wpoll
    BY <1>3 DEF WLook, WMkdir, WWait, WRmdir, WAgain, WUnlink, WUnlock, WExits
  <2>2. \E pc \in Places \ {"starting"} : WGo(w, pc)
    BY <1>3 DEF WLook, WMkdir, WWait, WRmdir, WAgain, LookAgain, WUnlink, WUnlock, WExits, Places,
                PastLock
  <2> QED  BY <1>2, <2>1, <2>2
<1>4. CASE WListen(w)
  <2>1. CASE WGo(w, "starting") /\ WPoll(w, "first")
    BY <1>0, <2>1 DEF WGo, WPoll, StartingPolls, Polls
  <2>2. CASE WGo(w, "gone") /\ UNCHANGED wpoll  BY <1>2, <2>2
  <2> QED  BY <1>4, <2>1, <2>2 DEF WListen
<1>5. CASE WStarted(w)
  <2>1. PICK q \in {"ready", "draining"}, p \in Polls : IfStarting(w, q) /\ WPoll(w, p)
    BY <1>5 DEF WStarted, Polls
  <2>2. \E pc \in Places \ {"starting"} : WGo(w, pc)
    BY <1>0, <2>1 DEF IfStarting, Places, PastLock
  <2> QED  BY <1>1, <2>1, <2>2
<1>6. CASE WDrained(w)
  <2>1. WGo(w, "unlock") /\ WPoll(w, IF wpoll[w] = "set" THEN "none" ELSE wpoll[w])
    BY <1>6 DEF WDrained
  <2>2. (IF wpoll[w] = "set" THEN "none" ELSE wpoll[w]) \in Polls  BY <1>0 DEF Polls
  <2> QED  BY <1>1, <2>1, <2>2
<1>7. CASE WKilled(w)
  BY <1>1, <1>7 DEF WKilled, Polls
<1> QED  BY <1>3, <1>4, <1>5, <1>6, <1>7 DEF WStep

LEMMA OtherPollKeeps ==
  ASSUME WInv, UNCHANGED wpoll,
         \/ UNCHANGED wproc
         \/ \E w \in Services, pc \in {"look", "draining"} : WGo(w, pc)
  PROVE  wpoll' \in [Services -> Polls] /\ StartingPolls'
BY DEF WInv, WGo, StartingPolls

LEMMA KilledKeeps ==
  ASSUME WInv, NEW w \in Services, WKilled(w)
  PROVE  wproc' \in [Services -> Places] /\ PathTypes' /\ (~wtaken' => HoldersHaveIt')
<1>1. PathTypes'  BY DEF WInv, WKilled, PathTypes
<1>2. wproc' \in [Services -> Places]  BY DEF WInv, WKilled, WGo, Places
<1>3. HoldersHaveIt => HoldersHaveIt'
  BY DEF WInv, WKilled, WGo, HoldersHaveIt, PastLock
<1> QED  BY <1>1, <1>2, <1>3 DEF WInv, WKilled

LEMMA SpawnKeeps ==
  ASSUME WInv, Spawn, UNCHANGED paths
  PROVE  wproc' \in [Services -> Places] /\ PathTypes' /\ (~wtaken' => HoldersHaveIt')
<1>1. PathTypes'  BY DEF WInv, paths, PathTypes
<1> QED  BY <1>1, GoKeeps DEF Spawn, paths, Places, PastLock

LEMMA StopKeeps ==
  ASSUME WInv, WStop
  PROVE  wproc' \in [Services -> Places] /\ PathTypes' /\ (~wtaken' => HoldersHaveIt')
<1>1. PathTypes'  BY DEF WInv, WStop, paths, PathTypes
<1> QED  BY <1>1, GoKeeps DEF WStop, Responding, paths, Places, PastLock

LEMMA ClientKeeps ==
  ASSUME WInv, PhoneChanges \/ CAsk \/ CAnswer \/ CReconnect \/ CReconnected
  PROVE  ClientTypes'
<1>0. ClientTypes  BY DEF WInv
<1>1. CASE PhoneChanges
  BY <1>0, <1>1 DEF PhoneChanges, clientVars, ClientTypes, Phases
<1>2. CASE CAsk
  BY <1>0, <1>2 DEF CAsk, phoneVars, ClientTypes, Phases
<1>3. CASE CAnswer
  BY <1>0, <1>3 DEF CAnswer, RefreshEnds, phoneVars, ClientTypes, Phases
<1>4. CASE CReconnected
  BY <1>0, <1>4 DEF CReconnected, phoneVars, ClientTypes, Phases
<1>5. CASE CReconnect
  BY <1>0, <1>5 DEF CReconnect, ClientTypes, Phases
<1> QED  BY <1>1, <1>2, <1>3, <1>4, <1>5

LEMMA WNextKeeps == WInv /\ [WNext]_wVars => WInv'
<1> SUFFICES ASSUME WInv, [WNext]_wVars PROVE WInv'
  OBVIOUS
<1>1. CASE \E w \in Services : WStep(w) \/ WKilled(w)
  <2>1. UNCHANGED <<tools, phoneVars, clientVars>>
    BY <1>1 DEF WStep, WKilled, WLook, WMkdir, WWait, WRmdir, WAgain, WUnlink, WListen,
                WStarted, WDrained, WUnlock, WExits
  <2>2. wstarts' \in 0..MaxStarts /\ ClientTypes'
    BY <2>1 DEF WInv, tools, phoneVars, clientVars, ClientTypes
  <2> QED  BY <1>1, <2>2, StepKeeps, KilledKeeps, PollKeeps DEF WInv, StartingPolls
<1>2. CASE WEnsure \/ WSpawnByHand
  <2>1. UNCHANGED <<paths, phoneVars, clientVars>>  BY <1>2 DEF WEnsure, WSpawnByHand
  <2>2. ClientTypes'  BY <2>1 DEF WInv, phoneVars, clientVars, ClientTypes
  <2>3. wstarts' \in 0..MaxStarts  BY <1>2 DEF WInv, WEnsure, WSpawnByHand
  <2>4. CASE Spawn
    <3>1. wpoll' \in [Services -> Polls] /\ StartingPolls'
      BY <1>2, <2>4, OtherPollKeeps DEF WEnsure, WSpawnByHand, Spawn
    <3> QED  BY <2>1, <2>2, <2>3, <2>4, <3>1, SpawnKeeps DEF WInv, StartingPolls
  <2>5. CASE UNCHANGED wproc
    <3>1. wpoll' \in [Services -> Polls] /\ StartingPolls'
      BY <1>2, <2>5, OtherPollKeeps DEF WEnsure, WSpawnByHand
    <3> QED  BY <2>1, <2>2, <2>3, <2>5, <3>1 DEF WInv, paths, PathTypes, HoldersHaveIt, StartingPolls
  <2> QED  BY <1>2, <2>4, <2>5 DEF WEnsure, WSpawnByHand
<1>3. CASE WStop
  <2>1. UNCHANGED <<wstarts, phoneVars, clientVars>>  BY <1>3 DEF WStop
  <2>2. wpoll' \in [Services -> Polls] /\ StartingPolls'
    BY <1>3, OtherPollKeeps DEF WStop, Responding
  <2> QED  BY <1>3, <2>1, <2>2, StopKeeps
           DEF WInv, phoneVars, clientVars, ClientTypes, StartingPolls
<1>4. CASE WEnsured \/ WEnsureAgain \/ WStopped \/ UNCHANGED wVars
  <2>1. UNCHANGED <<wproc, wpoll, paths, wstarts, phoneVars, clientVars>>
    BY <1>4 DEF WEnsured, WEnsureAgain, WStopped, wVars, paths, phoneVars, clientVars
  <2> QED  BY <2>1 DEF WInv, paths, phoneVars, clientVars, PathTypes, HoldersHaveIt, ClientTypes
<1>5. CASE PhoneChanges \/ CAsk \/ CAnswer \/ CReconnect \/ CReconnected
  <2>1. UNCHANGED <<wproc, wpoll, paths, tools>>
    BY <1>5 DEF PhoneChanges, CAsk, CAnswer, CReconnect, CReconnected
  <2> QED  BY <1>5, <2>1, ClientKeeps DEF WInv, paths, tools, PathTypes, HoldersHaveIt
<1> QED  BY <1>1, <1>2, <1>3, <1>4, <1>5 DEF WNext

\* The WDA service, for any number of processes however they are started, stopped and
\* killed: one at a time is past the lock, unless the lock of a living one was removed
\* (wda-service.ts:26-57), and the client's flag says whether it is asking
\* (wda-service-client.ts:122-156).
THEOREM OneServiceAtATime == WSpec => []WSafe
<1>1. WInv => WSafe
  <2> SUFFICES ASSUME WInv PROVE WSafe
    OBVIOUS
  <2>1. WTypeOK  BY DEF WInv, PathTypes, ClientTypes, Phases, WTypeOK
  <2> DEFINE Up == {w \in Services : wproc[w] \in Listening \cup {"unlink", "listen"}}
  <2>2. ~wtaken => Up \subseteq {wlock}
    BY DEF WInv, HoldersHaveIt, PastLock, Listening
  <2>3. ASSUME Up \subseteq {wlock} PROVE Cardinality(Up) <= 1
    <3>1. IsFiniteSet({wlock}) /\ Cardinality({wlock}) = 1  BY FS_Singleton
    <3> HIDE DEF Up
    <3> QED  BY <2>3, <3>1, FS_Subset
  <2> QED  BY <2>1, <2>2, <2>3 DEF WSafe, WOneService, WInv, PathTypes
<1> QED  BY <1>1, WInitHolds, WNextKeeps, PTL DEF WSpec
=============================================================================
