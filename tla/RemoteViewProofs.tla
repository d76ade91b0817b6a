-------------------------- MODULE RemoteViewProofs --------------------------
(***************************************************************************)
(* What holds of the live streams and of the references of RemoteView for  *)
(* any number of viewers, agents and generations, and of the clients, the  *)
(* sessions and the sizes of RemoteControl for any number of requests.     *)
(***************************************************************************)
EXTENDS RemoteView, RemoteControl, FiniteSetTheorems, SequenceTheorems, TLAPS

USE RemoteViewAssumption

-----------------------------------------------------------------------------
(* The fleet's stream.  Three facts carry VOneFocused through a release of  *)
(* the lease: whoever waits, waits for a fleet stream that still runs; of   *)
(* the fleet's streams only the lease's runs; and no two wait for the same. *)
(* The last two hold until two requests have waited for the same stream.    *)

Running == {"connect", "live", "finish", "unread"}
StreamState ==
  [pc : {"new", "behind", "over"} \cup Running, fleet : BOOLEAN,
   behind : Viewers \cup {"none"}, aborted : BOOLEAN, left : BOOLEAN]
FleetRuns(v) == vstream[v].fleet /\ vstream[v].pc \in Running
Waits(v, w) == vstream[v].pc = "behind" /\ vstream[v].behind = w

WaitsForRunning ==
  \A v \in Viewers : vstream[v].pc = "behind" =>
      /\ vstream[v].fleet /\ vstream[v].behind \in Viewers
      /\ FleetRuns(vstream[v].behind)
OnlyTheLeaseRuns == \A v \in Viewers : FleetRuns(v) => vlease = v
OneWaitsForIt == \A u, v, w \in Viewers : Waits(u, w) /\ Waits(v, w) => u = v

VInv ==
  /\ vstream \in [Viewers -> StreamState] /\ vcrossed \in BOOLEAN
  /\ VTypeOK
  /\ WaitsForRunning
  /\ ~vcrossed => OnlyTheLeaseRuns /\ OneWaitsForIt

LEMMA VInitHolds == VInit => VInv
<1> SUFFICES ASSUME VInit PROVE VInv
  OBVIOUS
<1>1. NotAsked \in StreamState /\ NotAsked.pc = "new"  BY DEF NotAsked, StreamState
<1>2. vstream \in [Viewers -> StreamState] /\ \A v \in Viewers : vstream[v].pc = "new"
  BY <1>1 DEF VInit
<1>3. WaitsForRunning /\ OnlyTheLeaseRuns /\ OneWaitsForIt
  BY <1>2 DEF WaitsForRunning, OnlyTheLeaseRuns, OneWaitsForIt, FleetRuns, Waits, Running
<1> QED  BY <1>2, <1>3 DEF VInit, VInv, VTypeOK

\* A step of one stream that leaves the lease alone and neither starts nor ends to
\* run keeps the invariant.
LEMMA KeepsRunning ==
  ASSUME VInv, NEW v \in Viewers, NEW rec \in StreamState, VSet(v, rec),
         UNCHANGED <<vlease, vcrossed>>,
         rec.fleet = vstream[v].fleet,
         rec.pc \in Running <=> vstream[v].pc \in Running,
         rec.pc = "behind" => vstream[v].pc = "behind" /\ rec.behind = vstream[v].behind
  PROVE  VInv'
<1>1. /\ vstream' \in [Viewers -> StreamState] /\ vcrossed' = vcrossed /\ vlease' = vlease
      /\ \A w \in Viewers : vstream'[w] = IF w = v THEN rec ELSE vstream[w]
  BY DEF VInv, VSet
<1>2. \A w \in Viewers : FleetRuns(w)' <=> FleetRuns(w)  BY <1>1 DEF FleetRuns
<1>3. \A w, u \in Viewers : Waits(w, u)' => Waits(w, u)  BY <1>1 DEF Waits
<1>4. VTypeOK'  BY <1>1 DEF VInv, VTypeOK, Running
<1>5. WaitsForRunning'  BY <1>1, <1>2 DEF VInv, WaitsForRunning
<1>6. OnlyTheLeaseRuns => OnlyTheLeaseRuns'  BY <1>1, <1>2 DEF OnlyTheLeaseRuns
<1>7. OneWaitsForIt => OneWaitsForIt'  BY <1>3 DEF OneWaitsForIt
<1> QED  BY <1>1, <1>4, <1>5, <1>6, <1>7 DEF VInv

LEMMA AskKeeps == ASSUME VInv, NEW v \in Viewers, VAsk(v) PROVE VInv'
<1>1. /\ vstream \in [Viewers -> StreamState] /\ vstream[v] \in StreamState
      /\ vstream[v].pc = "new"
  BY DEF VInv, VAsk
<1>2. \A w \in Viewers : vstream[w].pc = "behind" => vstream[w].behind # v
  BY <1>1 DEF VInv, WaitsForRunning, FleetRuns, Running
<1>3. CASE VSet(v, [NotAsked EXCEPT !.pc = "over"]) /\ UNCHANGED <<vlease, vcrossed>>
  <2>1. /\ vstream' \in [Viewers -> StreamState]
        /\ \A w \in Viewers : vstream'[w] = IF w = v THEN [NotAsked EXCEPT !.pc = "over"]
                                            ELSE vstream[w]
    BY <1>1, <1>3 DEF VSet, NotAsked, StreamState
  <2> QED  BY <1>1, <1>2, <1>3, <2>1
           DEF VInv, VTypeOK, WaitsForRunning, FleetRuns, Running, Waits, OnlyTheLeaseRuns,
               OneWaitsForIt, NotAsked
<1>4. CASE VSet(v, [NotAsked EXCEPT !.pc = "connect"]) /\ UNCHANGED <<vlease, vcrossed>>
  <2>1. /\ vstream' \in [Viewers -> StreamState]
        /\ \A w \in Viewers : vstream'[w] = IF w = v THEN [NotAsked EXCEPT !.pc = "connect"]
                                            ELSE vstream[w]
    BY <1>1, <1>4 DEF VSet, NotAsked, StreamState, Running
  <2> QED  BY <1>1, <1>2, <1>4, <2>1
           DEF VInv, VTypeOK, WaitsForRunning, FleetRuns, Running, Waits, OnlyTheLeaseRuns,
               OneWaitsForIt, NotAsked
<1>5. CASE /\ vlease = "none" /\ vlease' = v /\ UNCHANGED vcrossed
           /\ VSet(v, [NotAsked EXCEPT !.pc = "connect", !.fleet = TRUE])
  <2>1. /\ vstream' \in [Viewers -> StreamState]
        /\ \A w \in Viewers : vstream'[w] = IF w = v
                                THEN [NotAsked EXCEPT !.pc = "connect", !.fleet = TRUE]
                                ELSE vstream[w]
    BY <1>1, <1>5 DEF VSet, NotAsked, StreamState, Running
  <2>2. /\ vstream'[v].pc = "connect" /\ vstream'[v].fleet
        /\ \A w \in Viewers : w # v => vstream'[w] = vstream[w]
    BY <2>1 DEF NotAsked
  <2>3. VTypeOK' /\ WaitsForRunning'
    BY <1>1, <1>2, <1>5, <2>2 DEF VInv, VTypeOK, WaitsForRunning, FleetRuns, Running
  <2>4. OnlyTheLeaseRuns => OnlyTheLeaseRuns'
    BY <1>5, <2>2 DEF OnlyTheLeaseRuns, FleetRuns
  <2>5. OneWaitsForIt => OneWaitsForIt'  BY <2>2 DEF OneWaitsForIt, Waits
  <2> QED  BY <1>5, <2>1, <2>3, <2>4, <2>5 DEF VInv
<1>6. CASE /\ vlease # "none" /\ UNCHANGED vlease
           /\ vstream' = [vstream EXCEPT ![v] = [NotAsked EXCEPT !.pc = "behind", !.fleet = TRUE,
                                                                 !.behind = vlease],
                                         ![vlease].aborted = TRUE]
           /\ vcrossed' = (vcrossed \/ Waiting(vlease) # {})
  <2>1. vlease \in Viewers /\ vlease # v /\ FleetRuns(vlease)
    BY <1>1, <1>6 DEF VInv, VTypeOK, FleetRuns, Running
  <2>2. /\ vstream' \in [Viewers -> StreamState]
        /\ vstream'[v] = [NotAsked EXCEPT !.pc = "behind", !.fleet = TRUE, !.behind = vlease]
        /\ vstream'[vlease] = [vstream[vlease] EXCEPT !.aborted = TRUE]
        /\ \A w \in Viewers \ {v, vlease} : vstream'[w] = vstream[w]
    BY <1>1, <1>6, <2>1, ZenonT(60) DEF NotAsked, StreamState
  <2>3. \A w \in Viewers : FleetRuns(w)' <=> FleetRuns(w)
    BY <1>1, <2>1, <2>2, ZenonT(60) DEF FleetRuns, Running, NotAsked, StreamState
  <2>4. \A w \in Viewers : w # v =>
          vstream'[w].pc = vstream[w].pc /\ vstream'[w].behind = vstream[w].behind
                                         /\ vstream'[w].fleet = vstream[w].fleet
    BY <1>1, <2>1, <2>2 DEF StreamState
  <2>5. vstream'[v].pc = "behind" /\ vstream'[v].behind = vlease /\ vstream'[v].fleet
    BY <2>2 DEF NotAsked
  <2>6. VTypeOK'  BY <1>6, <2>1, <2>4 DEF VTypeOK, FleetRuns, Running
  <2>7. WaitsForRunning'  BY <1>2, <2>1, <2>3, <2>4, <2>5 DEF VInv, WaitsForRunning
  <2>8. OnlyTheLeaseRuns => OnlyTheLeaseRuns'  BY <1>6, <2>3 DEF OnlyTheLeaseRuns
  <2>9. ~vcrossed' => \A w \in Viewers : ~Waits(w, vlease)
    BY <1>6 DEF Waiting, Waits
  <2>10. ~vcrossed' /\ OneWaitsForIt => OneWaitsForIt'
    BY <2>4, <2>5, <2>9 DEF OneWaitsForIt, Waits
  <2> QED  BY <1>6, <2>2, <2>6, <2>7, <2>8, <2>10 DEF VInv
<1> QED  BY <1>3, <1>4, <1>5, <1>6 DEF VAsk

LEMMA FinishedKeeps == ASSUME VInv, NEW v \in Viewers, VFinished(v) PROVE VInv'
<1>1. vstream \in [Viewers -> StreamState] /\ vstream[v].pc = "finish" /\ vcrossed' = vcrossed
  BY DEF VInv, VFinished
<1>2. vstream' \in [Viewers -> StreamState]
  BY <1>1 DEF VFinished, StreamState, Running
<1>3. \A w \in Viewers : Waits(w, v) =>
        vstream'[w].pc = "connect" /\ vstream'[w].fleet /\ w # v
  BY <1>1 DEF VFinished, Waiting, Waits, VInv, WaitsForRunning, StreamState
<1>4. vstream'[v].pc = "over"  BY <1>1 DEF VFinished, StreamState
<1>5. \A w \in Viewers : w # v /\ ~Waits(w, v) => vstream'[w] = vstream[w]
  BY DEF VFinished, Waiting, Waits
<1>6. \A w \in Viewers : FleetRuns(w)' <=> w # v /\ (FleetRuns(w) \/ Waits(w, v))
  BY <1>3, <1>4, <1>5 DEF FleetRuns, Running, Waits
<1>7. \A w, u \in Viewers : Waits(w, u)' <=> u # v /\ Waits(w, u)
  BY <1>1, <1>3, <1>4, <1>5 DEF Waits
<1>8. WaitsForRunning'
  <2> SUFFICES ASSUME NEW w \in Viewers, vstream'[w].pc = "behind"
               PROVE  /\ vstream'[w].fleet /\ vstream'[w].behind \in Viewers
                      /\ FleetRuns(vstream[w].behind)'
    BY DEF WaitsForRunning
  <2>1. vstream'[w] = vstream[w] /\ ~Waits(w, v)  BY <1>3, <1>4, <1>5
  <2>2. vstream[w].fleet /\ vstream[w].behind \in Viewers \ {v} /\ FleetRuns(vstream[w].behind)
    BY <2>1 DEF VInv, WaitsForRunning, Waits
  <2>3. \A u \in Viewers \ {v} : FleetRuns(u) => vstream'[u].fleet /\ vstream'[u].pc \in Running
    BY <1>6 DEF FleetRuns
  <2> QED  BY <2>1, <2>2, <2>3 DEF FleetRuns
<1>9. VTypeOK'
  <2>1. CASE Waiting(v) = {} /\ vlease' = Released(v)
    BY <1>5, <2>1 DEF VInv, VTypeOK, Released, Leave, Waiting, Waits
  <2>2. CASE vlease' \in Waiting(v)
    BY <1>3, <2>2 DEF VTypeOK, Waiting, Waits
  <2> QED  BY <2>1, <2>2 DEF VFinished
<1>10. OnlyTheLeaseRuns /\ OneWaitsForIt => OnlyTheLeaseRuns' /\ OneWaitsForIt'
  <2> SUFFICES ASSUME OnlyTheLeaseRuns, OneWaitsForIt
               PROVE  OnlyTheLeaseRuns' /\ OneWaitsForIt'
    OBVIOUS
  <2>1. OneWaitsForIt'  BY <1>7 DEF OneWaitsForIt
  <2>2. CASE Waiting(v) = {} /\ vlease' = Released(v)
    <3>1. \A w \in Viewers : ~Waits(w, v)  BY <2>2 DEF Waiting, Waits
    <3> QED  BY <1>6, <2>1, <2>2, <3>1 DEF OnlyTheLeaseRuns, Released, Leave
  <2>3. CASE vlease' \in Waiting(v)
    <3>1. vlease' \in Viewers /\ Waits(vlease', v)  BY <2>3 DEF Waiting, Waits
    <3>2. FleetRuns(v)  BY <3>1 DEF VInv, WaitsForRunning, Waits
    <3>3. \A w \in Viewers : FleetRuns(w) => w = v  BY <3>2 DEF OnlyTheLeaseRuns
    <3>4. \A w \in Viewers : Waits(w, v) => w = vlease'  BY <3>1 DEF OneWaitsForIt
    <3> QED  BY <1>6, <2>1, <3>3, <3>4 DEF OnlyTheLeaseRuns
  <2> QED  BY <2>2, <2>3 DEF VFinished
<1> QED  BY <1>1, <1>2, <1>8, <1>9, <1>10 DEF VInv

\* A request that waits gives up: nobody waits for it.
LEMMA GivesUpKeeps == ASSUME VInv, NEW v \in Viewers, VGivesUp(v) PROVE VInv'
<1>1. vstream \in [Viewers -> StreamState] /\ vstream[v] \in StreamState
  BY DEF VInv
<1>2. [vstream[v] EXCEPT !.pc = "over"] \in StreamState  BY <1>1 DEF StreamState
<1> QED  BY <1>1, <1>2, KeepsRunning DEF VGivesUp, StreamState, Running

LEMMA OtherStepsKeep ==
  ASSUME VInv, NEW v \in Viewers, VConnected(v) \/ VEnds(v) \/ VLeaves(v) \/ VBreaks(v)
  PROVE  VInv'
<1>1. vstream \in [Viewers -> StreamState] /\ vstream[v] \in StreamState
  BY DEF VInv
<1>2. CASE \/ /\ vstream[v].pc = "connect"
              /\ VSet(v, [vstream[v] EXCEPT !.pc = IF vstream[v].left THEN "unread" ELSE "live"])
           \/ vstream[v].pc \in {"connect", "live"} /\ VSet(v, [vstream[v] EXCEPT !.pc = "finish"])
  <2>1. \A p \in {"live", "unread", "finish"} :
          /\ [vstream[v] EXCEPT !.pc = p] \in StreamState
          /\ [vstream[v] EXCEPT !.pc = p].pc = p
          /\ [vstream[v] EXCEPT !.pc = p].fleet = vstream[v].fleet
    BY <1>1 DEF StreamState, Running
  <2>2. UNCHANGED <<vlease, vcrossed>>  BY DEF VConnected, VEnds, VLeaves, VBreaks
  <2>3. PICK p \in {"live", "unread", "finish"} : VSet(v, [vstream[v] EXCEPT !.pc = p])
    BY <1>2
  <2> DEFINE r == [vstream[v] EXCEPT !.pc = p]
  <2>4. r \in StreamState /\ r.pc = p /\ r.fleet = vstream[v].fleet  BY <2>1
  <2>5. VSet(v, r)  BY <2>3
  <2> HIDE DEF r
  <2> QED  BY <1>1, <1>2, <2>2, <2>4, <2>5, KeepsRunning DEF Running
<1>3. CASE VLeaves(v)
  <2> DEFINE r == [vstream[v] EXCEPT !.left = TRUE, !.aborted = @ \/ vstream[v].pc # "behind"]
  <2>1. /\ r \in StreamState /\ r.pc = vstream[v].pc /\ r.fleet = vstream[v].fleet
        /\ r.behind = vstream[v].behind
    BY <1>1 DEF StreamState
  <2>2. VSet(v, r) /\ UNCHANGED <<vlease, vcrossed>>  BY <1>3 DEF VLeaves
  <2> HIDE DEF r
  <2> QED  BY <1>1, <2>1, <2>2, KeepsRunning
<1> QED  BY <1>2, <1>3 DEF VConnected, VEnds, VLeaves, VBreaks

LEMMA VNextKeeps == VInv /\ [VNext]_vVars => VInv'
<1> SUFFICES ASSUME VInv, [VNext]_vVars PROVE VInv'
  OBVIOUS
<1>1. CASE UNCHANGED vVars
  BY <1>1 DEF vVars, VInv, VTypeOK, WaitsForRunning, OnlyTheLeaseRuns, OneWaitsForIt,
              FleetRuns, Waits
<1>2. CASE VNext
  BY <1>2, AskKeeps, FinishedKeeps, GivesUpKeeps, OtherStepsKeep DEF VNext, VGoes
<1> QED  BY <1>1, <1>2

\* The fleet page's stream, for any number of requests: whoever holds the lease is
\* asking for or sending a stream, and unless two requests waited for the same one,
\* no two are open (remote-routes.ts:112-196).
THEOREM OneFocusedStream == VSpec => []VSafe
<1>1. VInv => VSafe
  <2> SUFFICES ASSUME VInv PROVE VSafe
    OBVIOUS
  <2> DEFINE Opened == {v \in Viewers : vstream[v].fleet /\ Open(v)}
  <2>1. ~vcrossed => Opened \subseteq {vlease}
    BY DEF VInv, OnlyTheLeaseRuns, FleetRuns, Running, Open
  <2>2. ASSUME Opened \subseteq {vlease} PROVE Cardinality(Opened) <= 1
    <3>1. IsFiniteSet({vlease}) /\ Cardinality({vlease}) = 1  BY FS_Singleton
    <3> HIDE DEF Opened
    <3> QED  BY <2>2, <3>1, FS_Subset
  <2> QED  BY <2>1, <2>2 DEF VSafe, VOneFocused, VInv
<1> QED  BY <1>1, VInitHolds, VNextKeeps, PTL DEF VSpec

-----------------------------------------------------------------------------
(* The references.  The state holds references only of a generation above   *)
(* xfloor, since every answered input drops them with a new generation.     *)

AgentState == [pc : {"idle", "look", "input"}, gen : Nat, floor : Nat, sent : Nat]

XInv ==
  /\ xagent \in [Agents -> AgentState]
  /\ \A a \in Agents : xagent[a].sent <= xgen
  /\ xstored => xfloor < xgen
  /\ XTypeOK /\ XStaleRefused

LEMMA XInitHolds == XInit => XInv
<1>1. NoAgent \in AgentState /\ NoAgent.pc = "idle" /\ NoAgent.sent = 0
  BY DEF NoAgent, AgentState
<1> SUFFICES ASSUME XInit PROVE XInv
  OBVIOUS
<1>2. \A a \in Agents : xagent[a] = NoAgent  BY DEF XInit
<1>3. XStaleRefused  BY <1>1, <1>2 DEF XStaleRefused
<1>4. xgen \in Nat /\ xfloor \in 0..xgen /\ xknown \subseteq 1..xgen /\ xstored = FALSE
  BY DEF XInit
<1>5. XTypeOK  BY <1>4 DEF XTypeOK
<1> QED  BY <1>1, <1>2, <1>3, <1>4, <1>5 DEF XInit, XInv

LEMMA XNextKeeps == XInv /\ [XNext]_xVars => XInv'
<1> SUFFICES ASSUME XInv, [XNext]_xVars PROVE XInv'
  OBVIOUS
<1>0. /\ xagent \in [Agents -> AgentState] /\ xgen \in Nat /\ xfloor \in Nat /\ xfloor <= xgen
      /\ xknown \subseteq 1..xgen /\ xstored \in BOOLEAN /\ NoAgent \in AgentState
      /\ \A a \in Agents : xagent[a].sent \in Nat /\ xagent[a].sent <= xgen
  BY DEF XInv, XTypeOK, AgentState, NoAgent
<1>1. ASSUME NEW a \in Agents, XLook(a) PROVE XInv'
  <2>1. [NoAgent EXCEPT !.pc = "look"] \in AgentState  BY DEF NoAgent, AgentState
  <2> QED  BY <1>0, <1>1, <2>1 DEF XLook, XSet, XInv, XTypeOK, XStaleRefused, NoAgent
<1>2. ASSUME NEW a \in Agents, XStored(a) PROVE XInv'
  <2>1. xgen' = xgen + 1 /\ xfloor' = xfloor /\ xknown' = xknown \cup {xgen + 1} /\ xstored'
    BY <1>2 DEF XStored
  <2>2. XTypeOK' /\ xfloor' < xgen'  BY <1>0, <2>1 DEF XTypeOK
  <2>3. /\ xagent' \in [Agents -> AgentState]
        /\ \A b \in Agents : xagent'[b] = IF b = a THEN NoAgent ELSE xagent[b]
    BY <1>0, <1>2 DEF XStored, XSet
  <2>4. XStaleRefused'  BY <2>3 DEF XInv, XStaleRefused, NoAgent
  <2>5. \A b \in Agents : xagent'[b].sent <= xgen'  BY <1>0, <2>1, <2>3 DEF NoAgent
  <2> QED  BY <2>2, <2>3, <2>4, <2>5 DEF XInv
<1>3. ASSUME NEW a \in Agents, XTap(a) PROVE XInv'
  <2>1. PICK g \in xknown : /\ Resolves(g)
                            /\ XSet(a, [pc |-> "input", gen |-> g, floor |-> xfloor, sent |-> xgen])
    BY <1>3 DEF XTap
  <2>2. g \in Nat /\ g > xfloor  BY <1>0, <2>1 DEF Resolves, XInv
  <2>3. [pc |-> "input", gen |-> g, floor |-> xfloor, sent |-> xgen] \in AgentState
    BY <1>0, <2>2 DEF AgentState
  <2> QED  BY <1>0, <1>3, <2>1, <2>2, <2>3 DEF XTap, XSet, XInv, XTypeOK, XStaleRefused
<1>4. ASSUME NEW a \in Agents, XInput(a) PROVE XInv'
  <2>1. [pc |-> "input", gen |-> xgen + 1, floor |-> xfloor, sent |-> xgen] \in AgentState
    BY <1>0 DEF AgentState
  <2> QED  BY <1>0, <1>4, <2>1 DEF XInput, XSet, XInv, XTypeOK, XStaleRefused
<1>5. ASSUME NEW a \in Agents, XDone(a) PROVE XInv'
  <2>1. /\ xagent' \in [Agents -> AgentState]
        /\ \A b \in Agents : xagent'[b] = IF b = a THEN NoAgent ELSE xagent[b]
    BY <1>0, <1>5 DEF XDone, XSet
  <2>2. XStaleRefused'  BY <2>1 DEF XInv, XStaleRefused, NoAgent
  <2>3. CASE UNCHANGED <<xgen, xstored, xfloor>>
    BY <1>0, <1>5, <2>1, <2>2, <2>3 DEF XDone, XInv, XTypeOK, NoAgent
  <2>4. CASE /\ xgen' = xgen + 1 /\ xstored' = FALSE
             /\ xfloor' = IF xagent[a].sent > xfloor THEN xagent[a].sent ELSE xfloor
    <3>1. xknown' = xknown  BY <1>5 DEF XDone
    <3>2. xfloor' \in 0..xgen'  BY <1>0, <2>4
    <3>3. xgen' \in Nat /\ xknown' \subseteq 1..xgen'  BY <1>0, <2>4, <3>1
    <3>4. XTypeOK'  BY <2>4, <3>2, <3>3 DEF XTypeOK
    <3>5. \A b \in Agents : xagent'[b].sent <= xgen'  BY <1>0, <2>1, <2>4 DEF NoAgent
    <3> QED  BY <2>1, <2>2, <2>4, <3>4, <3>5 DEF XInv
  <2> QED  BY <1>5, <2>3, <2>4 DEF XDone
<1>6. CASE UNCHANGED xVars
  BY <1>0, <1>6 DEF xVars, XInv, XTypeOK, XStaleRefused
<1> QED  BY <1>1, <1>2, <1>3, <1>4, <1>5, <1>6 DEF XNext

\* A reference older than an answered input is never tapped, for any number of agents
\* whose looks and inputs cross (snapshot.ts:116-127, 209-218).
THEOREM StaleReferencesRefused == XSpec => []XSafe
<1>1. XInv => XSafe  BY DEF XInv, XSafe
<1> QED  BY <1>1, XInitHolds, XNextKeeps, PTL DEF XSpec

-----------------------------------------------------------------------------
(* The remote control of a phone.  A client of the current generation knows *)
(* whatever the cache was told to forget, and only the cached one is in use; *)
(* a session that runs is the cached client's, or a request is about to      *)
(* delete it; and of a size that is being read the phone was not turned      *)
(* since, unless the two were seen to cross.                                 *)

HIDE RemoteViewAssumption

\* A client, a session and a request.
Client ==
  [gen : Nat, ver : Nat \cup {-1}, backend : {"none", "wda", "appium", "failed"}, driver : Nat,
   size : Orientations \cup {"none"}]
Session == [state : {"opening", "live", "closed", "failed"}, drop : BOOLEAN]
InUse == {"use", "act", "release", "delete", "size", "touch", "turned"}
Request ==
  [pc : {"idle", "build"} \cup InUse, kind : {"tap", "look", "size", "turn"}, client : Nat,
   session : Nat, since : Nat, retried : BOOLEAN, runs : 0..2, lost : BOOLEAN,
   saw : Orientations \cup {"none"}]
ControlTypes ==
  /\ rentry \in [ver : Nat, backend : {"none", "wda", "appium"}] /\ rgen \in Nat
  /\ rforgot \in Nat /\ rforgot <= rentry.ver
  /\ rclient \in Seq(Client) /\ rsession \in Seq(Session) /\ rcall \in [Callers -> Request]
  /\ rcached \in 0..Len(rclient) /\ rbuild \in 0..Len(rclient)
  /\ rphone \in Orientations /\ rstray \in BOOLEAN /\ rcrossed \in BOOLEAN

\* A client of the generation that is current knows what the cache was told to forget; it
\* has a screen size only when it is the one in use.
Fresh(k) ==
  /\ rclient[k].gen <= rgen /\ rclient[k].ver <= rentry.ver
  /\ rclient[k].gen = rgen =>
       /\ rclient[k].ver # -1 => rclient[k].ver >= rforgot
       /\ rclient[k].size # "none" => k = rcached
  /\ rclient[k].driver # 0 =>
       /\ rclient[k].driver \in DOMAIN rsession
       /\ rsession[rclient[k].driver].state # "failed"
InCache == rcached # 0 => rclient[rcached].gen = rgen /\ rclient[rcached].ver # -1

\* What a request has got, and how often its tap was made.
Served(r) ==
  /\ r.client <= Len(rclient) /\ r.session <= Len(rsession) /\ r.since <= rforgot
  /\ r.pc = "build" => r.client # 0
  /\ r.pc \in InUse =>
       /\ r.client # 0 /\ rclient[r.client].ver >= r.since /\ rclient[r.client].ver # -1
       /\ rclient[r.client].gen = rgen => r.client = rcached
  /\ r.pc \in {"act", "release", "delete"} => r.session # 0
TapCounted(r) ==
  /\ r.kind = "tap" /\ r.retried => r.lost
  /\ r.kind # "tap" => r.runs = 0
  /\ ~r.retried => r.runs <= (IF r.pc = "release" THEN 1 ELSE 0)
  /\ r.pc # "release" => r.runs <= 1

\* A session that runs is the cached client's, or on its way to be deleted.
Runs(s) == rsession[s].state \in {"opening", "live"} /\ ~rsession[s].drop
Known(s) ==
  \/ rcached # 0 /\ rclient[rcached].driver = s
  \/ \E c \in Callers : rcall[c].pc = "delete" /\ rcall[c].session = s
SessionsKnown == ~rstray => \A s \in DOMAIN rsession : Runs(s) => Known(s)

\* The size of the client in use, and what is being read, while the phone is not turned.
Steady == ~rcrossed /\ \A c \in Callers : rcall[c].pc # "turned"
SizesKnown ==
  Steady => /\ \A c \in Callers : rcall[c].pc = "size" => rcall[c].saw = rphone
            /\ rcached # 0 => rclient[rcached].size \in {"none", rphone}

RInv ==
  /\ ControlTypes /\ InCache /\ \A k \in DOMAIN rclient : Fresh(k)
  /\ \A c \in Callers : Served(rcall[c]) /\ TapCounted(rcall[c])
  /\ SessionsKnown /\ SizesKnown

LEMMA RequestPut ==
  ASSUME rcall \in [Callers -> Request], NEW c \in Callers, NEW rec \in Request, Put(c, rec)
  PROVE  /\ rcall' \in [Callers -> Request] /\ rcall'[c] = rec
         /\ \A d \in Callers \ {c} : rcall'[d] = rcall[d]
BY DEF Put

LEMMA NoRequestIs ==
  ASSUME RInv
  PROVE  /\ NoRequest \in Request /\ NoRequest.pc = "idle"
         /\ Served(NoRequest) /\ TapCounted(NoRequest)
<1>1. /\ NoRequest \in Request /\ NoRequest.pc = "idle" /\ NoRequest.client = 0
      /\ NoRequest.session = 0 /\ NoRequest.since = 0 /\ NoRequest.runs = 0
      /\ ~NoRequest.retried
  BY DEF NoRequest, Request, InUse, Orientations
<1>2. Len(rclient) \in Nat /\ Len(rsession) \in Nat /\ rforgot \in Nat
  BY DEF RInv, ControlTypes
<1> HIDE DEF NoRequest
<1> QED  BY <1>1, <1>2 DEF Served, TapCounted, InUse

LEMMA ClientIs ==
  ASSUME RInv, NEW k \in DOMAIN rclient
  PROVE  /\ rclient[k] \in Client /\ k \in Nat /\ k # 0 /\ k <= Len(rclient)
         /\ rclient[k].gen \in Nat /\ rclient[k].ver \in Nat \cup {-1}
         /\ rclient[k].driver \in Nat
<1>1. rclient \in Seq(Client)  BY DEF RInv, ControlTypes
<1>2. rclient[k] \in Client /\ k \in 1..Len(rclient) /\ Len(rclient) \in Nat  BY <1>1
<1> QED  BY <1>2 DEF Client

LEMMA ControlInitHolds == RInit => RInv
<1> SUFFICES ASSUME RInit PROVE RInv  OBVIOUS
<1>1. rclient = <<>> /\ rsession = <<>> /\ rforgot = 0 /\ rgen = 0 /\ rcached = 0 /\ rbuild = 0
  BY DEF RInit
<1>2. NoRequest \in Request
  BY DEF NoRequest, Request, InUse, Orientations
<1>3. \A c \in Callers : rcall[c] = NoRequest  BY DEF RInit
<1>4. ControlTypes
  <2>1. rentry \in [ver : Nat, backend : {"none", "wda", "appium"}] /\ rentry.ver = 0
    BY DEF RInit
  <2>2. rcall \in [Callers -> Request]
    <3> HIDE DEF NoRequest
    <3> QED  BY <1>2 DEF RInit
  <2>3. rclient \in Seq(Client) /\ rsession \in Seq(Session) /\ Len(rclient) = 0
    BY <1>1
  <2>4. rphone \in Orientations /\ rstray \in BOOLEAN /\ rcrossed \in BOOLEAN
    BY DEF RInit, Orientations
  <2> QED  BY <1>1, <2>1, <2>2, <2>3, <2>4 DEF ControlTypes
<1>5. InCache /\ \A k \in DOMAIN rclient : Fresh(k)  BY <1>1 DEF InCache
<1>6. \A c \in Callers : Served(rcall[c]) /\ TapCounted(rcall[c])
  BY <1>1, <1>3 DEF NoRequest, Served, TapCounted, InUse
<1>7. SessionsKnown /\ SizesKnown
  BY <1>1, <1>3 DEF NoRequest, SessionsKnown, SizesKnown
<1> QED  BY <1>4, <1>5, <1>6, <1>7 DEF RInv

LEMMA ControlIsSafe == RInv => RSafe
<1> SUFFICES ASSUME RInv PROVE RSafe  OBVIOUS
<1>1. RTypeOK
  <2>1. /\ rcached \in 0..Len(rclient) /\ rbuild \in 0..Len(rclient)
        /\ \A c \in Callers : rcall[c] \in Request /\ rcall[c].client <= Len(rclient)
        /\ \A k \in DOMAIN rclient : rclient[k] \in Client
    BY DEF RInv, ControlTypes, Served
  <2>2. \A c \in Callers : rcall[c].client \in 0..Len(rclient) /\ rcall[c].runs \in 0..2
    BY <2>1 DEF Request, RInv, ControlTypes
  <2>3. \A k \in DOMAIN rclient :
          /\ rclient[k].gen <= rgen
          /\ rclient[k].driver \in {0} \cup {s \in DOMAIN rsession : rsession[s].state # "failed"}
    BY DEF RInv, Fresh
  <2>4. \A k \in DOMAIN rclient : rclient[k].size \in Orientations \cup {"none"}
    BY <2>1 DEF Client
  <2> QED  BY <2>1, <2>2, <2>3, <2>4 DEF RTypeOK
<1>2. RFreshClient
  BY DEF RInv, Served, InUse, RFreshClient
<1>3. RNoStraySession
  BY DEF RInv, SessionsKnown, Runs, Known, RNoStraySession
<1>4. RTapOnce
  <2> SUFFICES ASSUME NEW c \in Callers, rcall[c].runs > 1 PROVE rcall[c].lost  BY DEF RTapOnce
  <2>1. TapCounted(rcall[c]) /\ rcall[c].runs \in 0..2 /\ rcall[c].runs # 0
    BY DEF RInv, ControlTypes, Request
  <2> QED  BY <2>1 DEF TapCounted
<1>5. RSizeIsCurrent  BY DEF RInv, SizesKnown, Steady, RSizeIsCurrent
<1> QED  BY <1>1, <1>2, <1>3, <1>4, <1>5 DEF RSafe
-----------------------------------------------------------------------------
(* Only one request moves on, and maybe the build under way is another.     *)

LEMMA RequestMoves ==
  ASSUME RInv, NEW c \in Callers, NEW rec \in Request, Put(c, rec),
         UNCHANGED <<rentry, rgen, rforgot, rcached, rclient, rsession, rphone, rcrossed, rstray>>,
         rbuild' \in 0..Len(rclient), Served(rec), TapCounted(rec),
         rcall[c].pc # "delete", rcall[c].pc # "turned", rec.pc = "size" => rec.saw = rphone
  PROVE  RInv'
<1>1. /\ rcall' \in [Callers -> Request] /\ rcall'[c] = rec
      /\ \A d \in Callers \ {c} : rcall'[d] = rcall[d]
  BY RequestPut DEF RInv, ControlTypes
<1>2. ControlTypes'  BY <1>1 DEF RInv, ControlTypes
<1>3. InCache' /\ \A k \in DOMAIN rclient' : Fresh(k)'  BY DEF RInv, InCache, Fresh
<1>4. ASSUME NEW d \in Callers PROVE (Served(rcall[d]) /\ TapCounted(rcall[d]))'
  <2>1. Served(rcall'[d]) /\ TapCounted(rcall'[d])  BY <1>1 DEF RInv
  <2> QED  BY <2>1 DEF Served, TapCounted
<1>5. SessionsKnown'
  <2>1. \A s : Known(s) => Known(s)'  BY <1>1 DEF Known
  <2> QED  BY <2>1 DEF RInv, SessionsKnown, Runs
<1>6. SizesKnown'
  <2> SUFFICES ASSUME Steady' PROVE SizesKnown'  BY DEF SizesKnown
  <2>1. Steady  BY <1>1 DEF Steady
  <2> QED  BY <1>1, <2>1 DEF RInv, SizesKnown
<1> QED  BY <1>2, <1>3, <1>4, <1>5, <1>6 DEF RInv

LEMMA DoneKeeps ==
  ASSUME RInv, NEW c \in Callers, Done(c),
         UNCHANGED <<rentry, rgen, rforgot, rcached, rclient, rsession, rphone, rcrossed, rstray>>,
         rbuild' \in 0..Len(rclient), rcall[c].pc # "delete", rcall[c].pc # "turned"
  PROVE  RInv'
BY NoRequestIs, RequestMoves DEF Done, Put

-----------------------------------------------------------------------------
(* The cache of clients.                                                    *)

Going(r, pc, k) == [r EXCEPT !.pc = pc, !.client = k]
LEMMA GoesTo ==
  ASSUME NEW r \in Request, NEW pc \in {"idle", "build"} \cup InUse, NEW k \in Nat,
         TapCounted(r), r.pc # "release"
  PROVE  /\ Going(r, pc, k) \in Request /\ Going(r, pc, k).pc = pc /\ Going(r, pc, k).client = k
         /\ Going(r, pc, k).session = r.session /\ Going(r, pc, k).since = r.since
         /\ TapCounted(Going(r, pc, k))
<1> DEFINE to == Going(r, pc, k)
<1>1. /\ to \in Request /\ to.pc = pc /\ to.client = k /\ to.session = r.session
      /\ to.since = r.since /\ to.runs = r.runs /\ to.kind = r.kind
      /\ to.retried = r.retried /\ to.lost = r.lost
  BY DEF Request, Going
<1> HIDE DEF to
<1>2. TapCounted(to)
  <2>1. r.runs \in 0..2  BY DEF Request
  <2> QED  BY <1>1, <2>1 DEF TapCounted
<1> QED  BY <1>1, <1>2 DEF to

LEMMA LookedKeeps ==
  ASSUME RInv, NEW c \in Callers, NEW rec \in Request, NEW next \in 0..Len(rclient),
         Looked(c, rec, next), TapCounted(rec), rec.pc # "release",
         rec.session <= Len(rsession), rec.since <= rforgot,
         rcall[c].pc # "delete", rcall[c].pc # "turned",
         UNCHANGED <<rentry, rgen, rforgot, rcached, rsession, rphone, rcrossed, rstray>>
  PROVE  RInv'
<1>0. /\ rclient \in Seq(Client) /\ Len(rclient) \in Nat /\ rcached \in 0..Len(rclient)
      /\ rgen \in Nat /\ rforgot \in Nat
  BY DEF RInv, ControlTypes
<1>1. CASE rcached # 0
  <2> DEFINE used == Going(rec, "use", rcached)
  <2>1. Put(c, used) /\ rbuild' = next /\ UNCHANGED rclient  BY <1>1 DEF Looked, Going
  <2>2. rcached \in DOMAIN rclient /\ rclient[rcached] \in Client
    BY <1>0, <1>1
  <2>3. rclient[rcached].gen = rgen /\ rclient[rcached].ver >= rforgot /\ rclient[rcached].ver # -1
    BY <1>1, <2>2 DEF RInv, InCache, Fresh
  <2> HIDE DEF used
  <2>4. /\ used \in Request /\ used.pc = "use" /\ used.client = rcached
        /\ used.session = rec.session /\ used.since = rec.since /\ TapCounted(used)
    <3>1. "use" \in {"idle", "build"} \cup InUse /\ rcached \in Nat  BY <1>0 DEF InUse
    <3> QED  BY <3>1, GoesTo DEF used
  <2>5. rclient[rcached].ver >= rec.since
    <3>1. rec.since \in Nat /\ rclient[rcached].ver \in Nat \cup {-1}
      BY <2>2 DEF Request, Client
    <3> QED  BY <1>0, <2>3, <3>1
  <2>6. Served(used)  BY <1>0, <1>1, <2>3, <2>4, <2>5 DEF Served
  <2> QED  BY <2>1, <2>4, <2>6, RequestMoves
<1>3. CASE rcached = 0 /\ next # 0
  <2> DEFINE built == Going(rec, "build", next)
  <2>1. Put(c, built) /\ rbuild' = next /\ UNCHANGED rclient  BY <1>3 DEF Looked, Going
  <2> HIDE DEF built
  <2>2. /\ built \in Request /\ built.pc = "build" /\ built.client = next
        /\ built.session = rec.session /\ built.since = rec.since /\ TapCounted(built)
    <3>1. "build" \in {"idle", "build"} \cup InUse /\ next \in Nat  OBVIOUS
    <3> QED  BY <3>1, GoesTo DEF built
  <2>3. Served(built)  BY <1>0, <1>3, <2>2 DEF Served, InUse
  <2> QED  BY <2>1, <2>2, <2>3, RequestMoves
<1>4. CASE rcached = 0 /\ next = 0
  <2> DEFINE b == Len(rclient) + 1
             built == Going(rec, "build", b)
             new == [gen |-> rgen, ver |-> -1, backend |-> "none", driver |-> 0, size |-> "none"]
  <2>1. Put(c, built) /\ rbuild' = b /\ rclient' = Append(rclient, new)  BY <1>4 DEF Looked, Going
  <2>2. new \in Client  BY <1>0 DEF Client
  <2>3. /\ rclient' \in Seq(Client) /\ Len(rclient') = b /\ DOMAIN rclient' = 1..b
        /\ rclient'[b] = new /\ \A k \in DOMAIN rclient : k # b /\ rclient'[k] = rclient[k]
        /\ \A k \in DOMAIN rclient' : k # b => k \in DOMAIN rclient
    BY <1>0, <2>1, <2>2
  <2>4. b \in Nat \ {0} /\ Len(rclient) < b  BY <1>0
  <2>5. /\ built \in Request /\ built.pc = "build" /\ built.client = b
        /\ built.session = rec.session /\ built.since = rec.since /\ TapCounted(built)
    <3>1. "build" \in {"idle", "build"} \cup InUse  OBVIOUS
    <3> HIDE DEF b
    <3> QED  BY <2>4, <3>1, GoesTo
  <2>6. new.gen = rgen /\ new.ver = -1 /\ new.driver = 0 /\ new.size = "none"  OBVIOUS
  <2> HIDE DEF built, b, new
  <2>7. /\ rcall' \in [Callers -> Request] /\ rcall'[c] = built
        /\ \A d \in Callers \ {c} : rcall'[d] = rcall[d]
    BY <2>1, <2>5, RequestPut DEF RInv, ControlTypes
  <2>8. ControlTypes'
    BY <1>4, <2>1, <2>3, <2>4, <2>7 DEF RInv, ControlTypes
  <2>9. ASSUME NEW k \in DOMAIN rclient' PROVE Fresh(k)'
    <3>1. CASE k = b
      <4>1. -1 <= rentry.ver /\ rgen <= rgen  BY <1>0 DEF RInv, ControlTypes
      <4> QED  BY <2>3, <2>6, <3>1, <4>1 DEF Fresh
    <3>2. CASE k # b
      <4>1. k \in DOMAIN rclient /\ rclient'[k] = rclient[k] /\ Fresh(k)
        BY <2>3, <2>9, <3>2 DEF RInv
      <4> QED  BY <4>1 DEF Fresh
    <3> QED  BY <3>1, <3>2
  <2>10. ASSUME NEW d \in Callers PROVE (Served(rcall[d]) /\ TapCounted(rcall[d]))'
    <3>1. CASE d = c
      <4>1. rcall'[d] = built /\ built.client = Len(rclient') /\ built.client # 0
        BY <2>3, <2>4, <2>5, <2>7, <3>1
      <4>2. built.session <= Len(rsession) /\ built.since <= rforgot /\ built.pc = "build"
        BY <2>5
      <4>3. Len(rclient') \in Nat  BY <2>3, <2>4
      <4>4. built.client <= Len(rclient')  BY <4>1, <4>3
      <4> QED  BY <2>5, <4>1, <4>2, <4>4 DEF Served, TapCounted, InUse
    <3>2. CASE d # c
      <4>1. rcall'[d] = rcall[d] /\ rcall[d] \in Request /\ Served(rcall[d]) /\ TapCounted(rcall[d])
        BY <2>7, <3>2 DEF RInv, ControlTypes
      <4>2. rcall[d].client \in Nat  BY <4>1 DEF Request
      <4>3. rcall[d].client # 0 => rcall[d].client \in DOMAIN rclient
        BY <1>0, <4>1, <4>2 DEF Served
      <4>4. rcall[d].client <= Len(rclient')  BY <1>0, <2>3, <2>4, <4>1, <4>2 DEF Served, b
      <4> QED  BY <2>3, <4>1, <4>3, <4>4 DEF Served, TapCounted
    <3> QED  BY <3>1, <3>2
  <2>11. InCache' /\ SessionsKnown' /\ SizesKnown'
    <3>1. InCache'  BY <1>4 DEF InCache
    <3>2. SessionsKnown'
      <4>1. \A s : Known(s) => Known(s)'  BY <1>4, <2>7 DEF Known
      <4> QED  BY <4>1 DEF RInv, SessionsKnown, Runs
    <3>3. SizesKnown'
      <4> SUFFICES ASSUME Steady' PROVE SizesKnown'  BY DEF SizesKnown
      <4>1. Steady  BY <2>7 DEF Steady
      <4> QED  BY <1>4, <2>5, <2>7, <4>1 DEF RInv, SizesKnown
    <3> QED  BY <3>1, <3>2, <3>3
  <2> QED  BY <2>8, <2>9, <2>10, <2>11 DEF RInv
<1> QED  BY <1>1, <1>3, <1>4

LEMMA RCallKeeps == ASSUME RInv, NEW c \in Callers, RCall(c) PROVE RInv'
<1>1. PICK k \in Kinds(rentry.backend) :
        Looked(c, [NoRequest EXCEPT !.kind = k, !.since = rforgot], rbuild)
  BY DEF RCall
<1> DEFINE rec == [NoRequest EXCEPT !.kind = k, !.since = rforgot]
<1>2. rforgot \in Nat /\ Len(rsession) \in Nat /\ rbuild \in 0..Len(rclient)
  BY DEF RInv, ControlTypes
<1>3. k \in {"tap", "look", "size", "turn"}  BY DEF Kinds
<1>4. /\ rec \in Request /\ rec.pc = "idle" /\ rec.session = 0 /\ rec.since = rforgot
      /\ rec.runs = 0 /\ ~rec.retried
  <2>1. /\ NoRequest \in Request /\ NoRequest.pc = "idle" /\ NoRequest.session = 0
        /\ NoRequest.runs = 0 /\ ~NoRequest.retried
    BY DEF NoRequest, Request, InUse, Orientations
  <2> HIDE DEF NoRequest
  <2> QED  BY <1>2, <1>3, <2>1 DEF Request
<1>5. Looked(c, rec, rbuild)  BY <1>1
<1> HIDE DEF rec
<1>6. TapCounted(rec)  BY <1>4 DEF TapCounted
<1>7. /\ rcall[c].pc = "idle"
      /\ UNCHANGED <<rentry, rgen, rforgot, rcached, rsession, rphone, rcrossed, rstray>>
  BY DEF RCall, entryVars, screenVars
<1>8. rec.session <= Len(rsession) /\ rec.since <= rforgot  BY <1>2, <1>4
<1> QED  BY <1>2, <1>4, <1>5, <1>6, <1>7, <1>8, LookedKeeps

LEMMA RBuiltKeeps == ASSUME RInv, NEW c \in Callers, RBuilt(c) PROVE RInv'
<1> DEFINE b == rcall[c].client
           next == IF rbuild = b THEN 0 ELSE rbuild
           used == Going(rcall[c], "use", rcached')
<1>0. /\ rcall[c].pc = "build" /\ rclient[b].ver # -1
      /\ UNCHANGED <<rentry, rgen, rforgot, rsession, rphone, rcrossed, rstray>>
      /\ \/ Done(c) /\ UNCHANGED <<rcached, rbuild, rclient>>
         \/ Looked(c, rcall[c], next) /\ UNCHANGED rcached
         \/ rbuild' = next /\ Done(c) /\ UNCHANGED <<rcached, rclient>>
         \/ /\ rclient[b].gen = rgen /\ rbuild' = next
            /\ rcached' = IF rcached = 0 THEN b ELSE rcached
            /\ Put(c, used) /\ UNCHANGED rclient
  BY DEF RBuilt, IsCurrent, entryVars, cacheVars, screenVars, Going
<1>1. /\ rcall[c] \in Request /\ Served(rcall[c]) /\ TapCounted(rcall[c])
      /\ rclient \in Seq(Client) /\ Len(rclient) \in Nat /\ rbuild \in 0..Len(rclient)
      /\ rcached \in 0..Len(rclient) /\ rgen \in Nat /\ rforgot \in Nat
  BY DEF RInv, ControlTypes
<1>2. next \in 0..Len(rclient)  BY <1>1
<1>3. b \in DOMAIN rclient /\ b # 0
  <2>1. b \in Nat /\ b # 0 /\ b <= Len(rclient)  BY <1>0, <1>1 DEF Served, Request
  <2> QED  BY <1>1, <2>1
<1>4. CASE Done(c) /\ rbuild' \in {rbuild, next} /\ UNCHANGED <<rcached, rclient>>
  BY <1>0, <1>1, <1>2, <1>4, DoneKeeps
<1>5. CASE Looked(c, rcall[c], next) /\ UNCHANGED rcached
  <2>1. rcall[c].session <= Len(rsession) /\ rcall[c].since <= rforgot  BY <1>1 DEF Served
  <2> QED  BY <1>0, <1>1, <1>2, <1>5, <2>1, LookedKeeps
<1>6. CASE /\ rclient[b].gen = rgen /\ rbuild' = next
           /\ rcached' = IF rcached = 0 THEN b ELSE rcached
           /\ Put(c, used) /\ UNCHANGED rclient
  <2>1. rcached' \in DOMAIN rclient /\ rcached' \in Nat /\ rcached' # 0 /\ rcached' <= Len(rclient)
    BY <1>1, <1>3, <1>6
  <2>2. rclient[rcached'].gen = rgen /\ rclient[rcached'].ver # -1
    BY <1>0, <1>6 DEF RInv, InCache
  <2>3. rclient[rcached'].ver >= rforgot  BY <2>1, <2>2 DEF RInv, Fresh
  <2>4. /\ used \in Request /\ used.pc = "use" /\ used.client = rcached'
        /\ used.session = rcall[c].session /\ used.since = rcall[c].since /\ TapCounted(used)
    <3>1. "use" \in {"idle", "build"} \cup InUse  BY DEF InUse
    <3> QED  BY <1>0, <1>1, <2>1, <3>1, GoesTo
  <2> HIDE DEF used, next
  <2>5. rclient[rcached'].ver >= used.since
    <3>1. used.since \in Nat /\ used.since <= rforgot  BY <1>1, <2>4 DEF Request, Served
    <3>2. rclient[rcached'].ver \in Nat \cup {-1}  BY <2>1, ClientIs
    <3> QED  BY <1>1, <2>3, <3>1, <3>2
  <2>6. /\ rcall' \in [Callers -> Request] /\ rcall'[c] = used
        /\ \A d \in Callers \ {c} : rcall'[d] = rcall[d]
    BY <1>6, <2>4, RequestPut DEF RInv, ControlTypes
  <2>7. ControlTypes'
    BY <1>0, <1>1, <1>2, <1>6, <2>1, <2>6 DEF RInv, ControlTypes
  <2>8. InCache'  BY <1>0, <1>6, <2>2 DEF InCache
  <2>9. ASSUME NEW k \in DOMAIN rclient PROVE Fresh(k)'
    <3>1. k # 0 /\ Fresh(k)  BY <1>1 DEF RInv
    <3>2. rclient[k].gen = rgen /\ rclient[k].size # "none" => k = rcached'
      BY <1>6, <3>1 DEF Fresh
    <3> QED  BY <1>0, <1>6, <3>1, <3>2 DEF Fresh
  <2>10. ASSUME NEW d \in Callers PROVE (Served(rcall[d]) /\ TapCounted(rcall[d]))'
    <3>1. CASE d = c
      <4>1. used.session <= Len(rsession) /\ used.since <= rforgot  BY <1>1, <2>4 DEF Served
      <4>2. /\ rcall'[d] = used /\ used.client # 0 /\ used.client <= Len(rclient)
            /\ used.client = rcached' /\ rclient[used.client].ver >= used.since
            /\ rclient[used.client].ver # -1 /\ used.pc = "use"
        BY <2>1, <2>2, <2>4, <2>5, <2>6, <3>1
      <4> QED  BY <1>0, <1>6, <2>4, <4>1, <4>2 DEF Served, TapCounted
    <3>2. CASE d # c
      <4>1. rcall'[d] = rcall[d] /\ Served(rcall[d]) /\ TapCounted(rcall[d])
        BY <2>6, <3>2 DEF RInv
      <4>2. rcall[d].pc \in InUse /\ rclient[rcall[d].client].gen = rgen => rcall[d].client = rcached'
        BY <1>6, <4>1 DEF Served
      <4> QED  BY <1>0, <1>6, <4>1, <4>2 DEF Served, TapCounted
    <3> QED  BY <3>1, <3>2
  <2>11. SessionsKnown'
    <3>1. \A s : Known(s) => Known(s)'  BY <1>0, <1>6, <2>6 DEF Known
    <3> QED  BY <1>0, <3>1 DEF RInv, SessionsKnown, Runs
  <2>12. SizesKnown'
    <3> SUFFICES ASSUME Steady' PROVE SizesKnown'  BY DEF SizesKnown
    <3>1. Steady  BY <1>0, <2>6 DEF Steady
    <3>2. rclient[rcached'].size \in {"none", rphone}
      <4>1. CASE rcached = 0
        BY <1>3, <1>6, <4>1 DEF RInv, Fresh
      <4>2. CASE rcached # 0  BY <1>6, <3>1, <4>2 DEF RInv, SizesKnown
      <4> QED  BY <4>1, <4>2
    <3> QED  BY <1>0, <1>6, <2>4, <2>6, <3>1, <3>2 DEF RInv, SizesKnown
  <2> QED  BY <1>6, <2>7, <2>8, <2>9, <2>10, <2>11, <2>12 DEF RInv
<1> QED  BY <1>0, <1>4, <1>5, <1>6

LEMMA RReadKeeps == ASSUME RInv, NEW b \in DOMAIN rclient, RRead(b) PROVE RInv'
<1>0. /\ rclient[b].ver = -1
      /\ \E backend \in {rentry.backend, "failed"} :
           rclient' = [rclient EXCEPT ![b].ver = rentry.ver, ![b].backend = backend]
      /\ UNCHANGED <<rentry, rgen, rforgot, rcached, rbuild, rsession, rcall, rphone, rcrossed, rstray>>
  BY DEF RRead, entryVars, cacheVars, screenVars
<1>1. PICK backend \in {rentry.backend, "failed"} :
        rclient' = [rclient EXCEPT ![b].ver = rentry.ver, ![b].backend = backend]
  BY <1>0
<1> DEFINE new == [rclient[b] EXCEPT !.ver = rentry.ver, !.backend = backend]
<1>2. /\ rclient \in Seq(Client) /\ rentry.ver \in Nat /\ rforgot <= rentry.ver
      /\ rclient[b] \in Client /\ backend \in {"none", "wda", "appium", "failed"}
  BY DEF RInv, ControlTypes
<1>3. /\ new \in Client /\ new.gen = rclient[b].gen /\ new.ver = rentry.ver
      /\ new.driver = rclient[b].driver /\ new.size = rclient[b].size
  BY <1>2 DEF Client
<1>4. rclient' = [rclient EXCEPT ![b] = new]  BY <1>1
<1> HIDE DEF new
<1>5. /\ rclient' \in Seq(Client) /\ Len(rclient') = Len(rclient) /\ DOMAIN rclient' = DOMAIN rclient
      /\ rclient'[b] = new /\ \A k \in DOMAIN rclient \ {b} : rclient'[k] = rclient[k]
  BY <1>2, <1>3, <1>4, ExceptSeq
<1>6. ControlTypes'  BY <1>0, <1>5 DEF RInv, ControlTypes
<1>7. rcached # b  BY <1>0, ClientIs DEF RInv, InCache
<1>8. rcached # 0 => rcached \in DOMAIN rclient  BY <1>2 DEF RInv, ControlTypes
<1>9. InCache'  BY <1>0, <1>5, <1>7, <1>8 DEF RInv, InCache
<1>10. ASSUME NEW k \in DOMAIN rclient' PROVE Fresh(k)'
  <2>1. k \in DOMAIN rclient /\ Fresh(k)  BY <1>5 DEF RInv
  <2>2. CASE k = b
    <3>1. rentry.ver <= rentry.ver /\ rentry.ver >= rforgot
      BY <1>2 DEF RInv, ControlTypes
    <3> QED  BY <1>0, <1>3, <1>5, <2>1, <2>2, <3>1 DEF Fresh
  <2>3. CASE k # b  BY <1>0, <1>5, <2>1, <2>3 DEF Fresh
  <2> QED  BY <2>2, <2>3
<1>11. ASSUME NEW d \in Callers PROVE (Served(rcall[d]) /\ TapCounted(rcall[d]))'
  <2>1. Served(rcall[d]) /\ TapCounted(rcall[d]) /\ rcall[d] \in Request
    BY DEF RInv, ControlTypes
  <2>2. rcall[d].pc \in InUse =>
          rcall[d].client # b /\ rcall[d].client \in DOMAIN rclient
    <3>1. rcall[d].client \in Nat  BY <2>1 DEF Request
    <3> QED  BY <1>0, <1>2, <2>1, <3>1 DEF Served
  <2> QED  BY <1>0, <1>5, <2>1, <2>2 DEF Served, TapCounted
<1>12. SessionsKnown'
  <2>1. \A s : Known(s) => Known(s)'  BY <1>0, <1>5, <1>7, <1>8 DEF Known
  <2> QED  BY <1>0, <2>1 DEF RInv, SessionsKnown, Runs
<1>13. SizesKnown'  BY <1>0, <1>5, <1>7, <1>8 DEF RInv, SizesKnown, Steady
<1> QED  BY <1>6, <1>9, <1>10, <1>11, <1>12, <1>13 DEF RInv

LEMMA RChangeKeeps == ASSUME RInv, RChange PROVE RInv'
<1>0. /\ rentry' \in [ver : Nat, backend : {"none", "wda", "appium"}] /\ rentry'.ver = rentry.ver + 1
      /\ rentry.ver \in Nat
      /\ UNCHANGED <<rgen, rforgot, rcached, rbuild, rclient, rsession, rcall, rphone, rcrossed, rstray>>
  BY DEF RInv, ControlTypes, RChange, cacheVars, screenVars
<1>1. ControlTypes'  BY <1>0 DEF RInv, ControlTypes
<1>2. ASSUME NEW k \in DOMAIN rclient PROVE Fresh(k)'
  <2>1. rclient[k].ver \in Nat \cup {-1}  BY ClientIs
  <2>2. Fresh(k) /\ rclient[k].ver <= rentry'.ver  BY <1>0, <2>1 DEF RInv, Fresh
  <2> QED  BY <1>0, <2>2 DEF Fresh
<1>3. InCache' /\ SessionsKnown' /\ SizesKnown'
  BY <1>0 DEF RInv, InCache, SessionsKnown, Runs, Known, SizesKnown, Steady
<1>4. \A d \in Callers : (Served(rcall[d]) /\ TapCounted(rcall[d]))'
  BY <1>0 DEF RInv, Served, TapCounted
<1> QED  BY <1>0, <1>1, <1>2, <1>3, <1>4 DEF RInv

LEMMA RForgetKeeps == ASSUME RInv, RForget PROVE RInv'
<1> DEFINE old == IF rcached = 0 THEN 0 ELSE rclient[rcached].driver
<1>0. /\ rgen' = rgen + 1 /\ rforgot' = rentry.ver /\ rcached' = 0
      /\ rsession' = [i \in DOMAIN rsession |->
                       IF i = old THEN [rsession[i] EXCEPT !.drop = TRUE] ELSE rsession[i]]
      /\ rclient' = [i \in DOMAIN rclient |->
                      IF i = rcached THEN [rclient[i] EXCEPT !.driver = 0] ELSE rclient[i]]
      /\ UNCHANGED <<rentry, rbuild, rcall, rphone, rcrossed, rstray>>
  BY DEF RForget, screenVars
<1>1. /\ rclient \in Seq(Client) /\ rsession \in Seq(Session) /\ rgen \in Nat /\ rforgot \in Nat
      /\ rentry.ver \in Nat /\ rforgot <= rentry.ver /\ Len(rclient) \in Nat /\ Len(rsession) \in Nat
  BY DEF RInv, ControlTypes
<1> HIDE DEF old
<1>2. /\ rclient' \in Seq(Client) /\ Len(rclient') = Len(rclient) /\ DOMAIN rclient' = DOMAIN rclient
      /\ \A k \in DOMAIN rclient :
           /\ rclient'[k].gen = rclient[k].gen /\ rclient'[k].ver = rclient[k].ver
           /\ rclient'[k].size = rclient[k].size /\ rclient'[k].driver \in {0, rclient[k].driver}
  <2>2. ASSUME NEW k \in DOMAIN rclient
        PROVE  /\ rclient'[k] \in Client
               /\ rclient'[k].gen = rclient[k].gen /\ rclient'[k].ver = rclient[k].ver
               /\ rclient'[k].size = rclient[k].size /\ rclient'[k].driver \in {0, rclient[k].driver}
    <3>1. rclient[k] \in Client  BY ClientIs
    <3>2. CASE k = rcached
      <4>1. rclient'[k] = [rclient[k] EXCEPT !.driver = 0]  BY <1>0, <3>2
      <4> QED  BY <3>1, <4>1 DEF Client
    <3>3. CASE k # rcached
      <4>1. rclient'[k] = rclient[k]  BY <1>0, <3>3
      <4> QED  BY <3>1, <4>1
    <3> QED  BY <3>2, <3>3
  <2>3. DOMAIN rclient' = 1..Len(rclient) /\ DOMAIN rclient = 1..Len(rclient)  BY <1>0, <1>1
  <2>4. rclient' \in [1..Len(rclient) -> Client]
    <3>1. rclient' = [k \in DOMAIN rclient' |-> rclient'[k]]  BY <1>0
    <3> QED  BY <2>2, <2>3, <3>1
  <2>5. rclient' \in Seq(Client) /\ Len(rclient') = Len(rclient)  BY <1>1, <2>4, SeqDef
  <2> QED  BY <2>2, <2>3, <2>5
<1>3. /\ rsession' \in Seq(Session) /\ Len(rsession') = Len(rsession)
      /\ DOMAIN rsession' = DOMAIN rsession
      /\ \A s \in DOMAIN rsession :
           /\ rsession'[s].state = rsession[s].state
           /\ rsession[s].drop => rsession'[s].drop
           /\ s = old => rsession'[s].drop
  <2>2. ASSUME NEW s \in DOMAIN rsession
        PROVE  /\ rsession'[s] \in Session /\ rsession'[s].state = rsession[s].state
               /\ rsession[s].drop => rsession'[s].drop
               /\ s = old => rsession'[s].drop
    <3>1. rsession[s] \in Session  BY <1>1
    <3>2. CASE s = old
      <4>1. rsession'[s] = [rsession[s] EXCEPT !.drop = TRUE]  BY <1>0, <3>2
      <4> QED  BY <3>1, <4>1 DEF Session
    <3>3. CASE s # old
      <4>1. rsession'[s] = rsession[s]  BY <1>0, <3>3
      <4> QED  BY <3>1, <3>3, <4>1
    <3> QED  BY <3>2, <3>3
  <2>3. DOMAIN rsession' = 1..Len(rsession) /\ DOMAIN rsession = 1..Len(rsession)  BY <1>0, <1>1
  <2>4. rsession' \in [1..Len(rsession) -> Session]
    <3>1. rsession' = [k \in DOMAIN rsession' |-> rsession'[k]]  BY <1>0
    <3> QED  BY <2>2, <2>3, <3>1
  <2>5. rsession' \in Seq(Session) /\ Len(rsession') = Len(rsession)  BY <1>1, <2>4, SeqDef
  <2> QED  BY <2>2, <2>3, <2>5
<1>4. ControlTypes'
  BY <1>0, <1>1, <1>2, <1>3 DEF RInv, ControlTypes
<1>5. ASSUME NEW k \in DOMAIN rclient' PROVE Fresh(k)'
  <2>1. k \in DOMAIN rclient /\ Fresh(k) /\ rclient[k].gen \in Nat
    BY <1>2, ClientIs DEF RInv
  <2>2. rclient'[k].gen <= rgen /\ rclient'[k].gen # rgen'  BY <1>0, <1>1, <1>2, <2>1 DEF Fresh
  <2>3. rclient'[k].gen <= rgen'  BY <1>0, <1>1, <1>2, <2>1, <2>2
  <2> QED  BY <1>0, <1>2, <1>3, <2>1, <2>2, <2>3 DEF Fresh
<1>6. ASSUME NEW d \in Callers PROVE (Served(rcall[d]) /\ TapCounted(rcall[d]))'
  <2>1. Served(rcall[d]) /\ TapCounted(rcall[d]) /\ rcall[d] \in Request
    BY DEF RInv, ControlTypes
  <2>2. rcall[d].client \in Nat /\ rcall[d].since \in Nat  BY <2>1 DEF Request
  <2>3. rcall[d].since <= rentry.ver  BY <1>1, <2>1, <2>2 DEF Served
  <2>4. ASSUME rcall[d].pc \in InUse
        PROVE  /\ rcall[d].client # 0 /\ rclient'[rcall[d].client].ver >= rcall[d].since
               /\ rclient'[rcall[d].client].ver # -1 /\ rclient'[rcall[d].client].gen # rgen'
    <3>1. rcall[d].client \in DOMAIN rclient'  BY <1>1, <1>2, <2>1, <2>2, <2>4 DEF Served
    <3>2. rclient'[rcall[d].client].gen # rgen'
      <4>1. /\ rclient'[rcall[d].client].gen = rclient[rcall[d].client].gen
            /\ Fresh(rcall[d].client) /\ rclient[rcall[d].client].gen \in Nat
        BY <1>2, <3>1, ClientIs DEF RInv
      <4> QED  BY <1>0, <1>1, <4>1 DEF Fresh
    <3> QED  BY <1>2, <2>1, <2>4, <3>1, <3>2 DEF Served
  <2> QED  BY <1>0, <1>2, <1>3, <2>1, <2>3, <2>4 DEF Served, TapCounted
<1>7. SessionsKnown'
  <2> SUFFICES ASSUME ~rstray, NEW s \in DOMAIN rsession, Runs(s)' PROVE Known(s)'
    BY <1>0, <1>3 DEF SessionsKnown
  <2>1. s # old /\ Runs(s)  BY <1>3 DEF Runs
  <2>2. Known(s)  BY <2>1 DEF RInv, SessionsKnown
  <2> QED  BY <1>0, <2>1, <2>2 DEF Known, old
<1>8. InCache' /\ SizesKnown'
  BY <1>0 DEF RInv, InCache, SizesKnown, Steady
<1> QED  BY <1>4, <1>5, <1>6, <1>7, <1>8 DEF RInv

-----------------------------------------------------------------------------
(* The Appium session.                                                      *)

\* Clients may lose or get a session or a size: of each, what it was built from stays.
SameBuilds ==
  /\ rclient' \in Seq(Client) /\ Len(rclient') = Len(rclient)
  /\ \A k \in DOMAIN rclient :
       rclient'[k].gen = rclient[k].gen /\ rclient'[k].ver = rclient[k].ver

LEMMA BuildsStay ==
  ASSUME RInv, SameBuilds, UNCHANGED <<rgen, rforgot, rcached>>, rsession' \in Seq(Session),
         Len(rsession) <= Len(rsession')
  PROVE  /\ DOMAIN rclient' = DOMAIN rclient /\ InCache'
         /\ \A d \in Callers : rcall'[d] = rcall[d] => (Served(rcall[d]) /\ TapCounted(rcall[d]))'
<1>1. /\ rclient \in Seq(Client) /\ Len(rclient) \in Nat /\ Len(rsession) \in Nat
      /\ rcached \in 0..Len(rclient) /\ Len(rsession') \in Nat
  BY DEF RInv, ControlTypes
<1>2. DOMAIN rclient' = DOMAIN rclient /\ DOMAIN rclient = 1..Len(rclient)  BY <1>1 DEF SameBuilds
<1>3. InCache'  BY <1>1, <1>2 DEF RInv, InCache, SameBuilds
<1>4. ASSUME NEW d \in Callers, rcall'[d] = rcall[d] PROVE (Served(rcall[d]) /\ TapCounted(rcall[d]))'
  <2>1. Served(rcall[d]) /\ TapCounted(rcall[d]) /\ rcall[d] \in Request
    BY DEF RInv, ControlTypes
  <2>2. rcall[d].session \in Nat /\ rcall[d].client \in Nat  BY <2>1 DEF Request
  <2>3. rcall[d].session <= Len(rsession')  BY <1>1, <2>1, <2>2 DEF Served
  <2>4. rcall[d].client # 0 => rcall[d].client \in DOMAIN rclient
    BY <1>1, <1>2, <2>1, <2>2 DEF Served
  <2> QED  BY <1>4, <2>1, <2>3, <2>4 DEF Served, TapCounted, SameBuilds
<1> QED  BY <1>2, <1>3, <1>4

LEMMA ExceptClient ==
  ASSUME RInv, NEW k \in DOMAIN rclient, NEW new \in Client, new.gen = rclient[k].gen,
         new.ver = rclient[k].ver, rclient' = [rclient EXCEPT ![k] = new]
  PROVE  /\ SameBuilds /\ DOMAIN rclient' = DOMAIN rclient /\ rclient'[k] = new
         /\ \A i \in DOMAIN rclient \ {k} : rclient'[i] = rclient[i]
<1>1. rclient \in Seq(Client)  BY DEF RInv, ControlTypes
<1>2. /\ rclient' \in Seq(Client) /\ Len(rclient') = Len(rclient)
      /\ DOMAIN rclient' = DOMAIN rclient /\ rclient'[k] = new
      /\ \A i \in DOMAIN rclient \ {k} : rclient'[i] = rclient[i]
  BY <1>1, ExceptSeq
<1> QED  BY <1>2 DEF SameBuilds

LEMMA ExceptSession ==
  ASSUME RInv, NEW s \in DOMAIN rsession, NEW new \in Session,
         rsession' = [rsession EXCEPT ![s] = new]
  PROVE  /\ rsession' \in Seq(Session) /\ Len(rsession') = Len(rsession)
         /\ DOMAIN rsession' = DOMAIN rsession /\ rsession'[s] = new
         /\ \A i \in DOMAIN rsession \ {s} : rsession'[i] = rsession[i]
<1>1. rsession \in Seq(Session)  BY DEF RInv, ControlTypes
<1> QED  BY <1>1, ExceptSeq

\* A session opens, ends or is deleted, and is then nobody's where it could not be had.
LEMMA SessionTurns ==
  ASSUME RInv, NEW s \in DOMAIN rsession, NEW new \in Session,
         rsession' = [rsession EXCEPT ![s] = new],
         new.state \in {"opening", "live"} /\ ~new.drop => Runs(s),
         new.state = "failed" /\ rsession[s].state # "failed" => rclient' = Unhad(s),
         (new.state = "failed" /\ rsession[s].state # "failed") \/ rclient' = rclient,
         UNCHANGED <<rentry, rgen, rforgot, rcached, rbuild, rcall, rphone, rcrossed, rstray>>
  PROVE  RInv'
<1>1. /\ rsession' \in Seq(Session) /\ Len(rsession') = Len(rsession)
      /\ DOMAIN rsession' = DOMAIN rsession /\ rsession'[s] = new
      /\ \A i \in DOMAIN rsession \ {s} : rsession'[i] = rsession[i]
  BY ExceptSession
<1>2. /\ rclient \in Seq(Client) /\ Len(rclient) \in Nat /\ rcached \in 0..Len(rclient)
      /\ Len(rsession) \in Nat /\ DOMAIN rclient = 1..Len(rclient) /\ s \in Nat /\ s # 0
  BY DEF RInv, ControlTypes
<1>3. /\ SameBuilds
      /\ \A k \in DOMAIN rclient :
           /\ rclient'[k].size = rclient[k].size
           /\ rclient'[k].driver \in {0, rclient[k].driver}
           /\ rclient[k].driver # s => rclient'[k].driver = rclient[k].driver
           /\ rclient'[k].driver = s => ~(new.state = "failed" /\ rsession[s].state # "failed")
  <2>1. CASE new.state = "failed" /\ rsession[s].state # "failed"
    <3>1. rclient' = [k \in DOMAIN rclient |-> IF rclient[k].driver = s
                                              THEN [rclient[k] EXCEPT !.driver = 0] ELSE rclient[k]]
      BY <2>1 DEF Unhad
    <3>2. ASSUME NEW k \in DOMAIN rclient
          PROVE  /\ rclient'[k] \in Client
                 /\ rclient'[k].gen = rclient[k].gen /\ rclient'[k].ver = rclient[k].ver
                 /\ rclient'[k].size = rclient[k].size
                 /\ rclient'[k].driver = IF rclient[k].driver = s THEN 0 ELSE rclient[k].driver
      <4>1. rclient[k] \in Client  BY ClientIs
      <4>2. CASE rclient[k].driver = s
        <5>1. rclient'[k] = [rclient[k] EXCEPT !.driver = 0]  BY <3>1, <4>2
        <5> QED  BY <4>1, <4>2, <5>1 DEF Client
      <4>3. CASE rclient[k].driver # s
        <5>1. rclient'[k] = rclient[k]  BY <3>1, <4>3
        <5> QED  BY <4>1, <4>3, <5>1
      <4> QED  BY <4>2, <4>3
    <3>3. rclient' \in [1..Len(rclient) -> Client]
      <4>1. DOMAIN rclient' = 1..Len(rclient)  BY <1>2, <3>1
      <4>2. rclient' = [k \in DOMAIN rclient' |-> rclient'[k]]  BY <3>1
      <4> QED  BY <1>2, <3>2, <4>1, <4>2
    <3>4. rclient' \in Seq(Client) /\ Len(rclient') = Len(rclient)  BY <1>2, <3>3, SeqDef
    <3> QED  BY <1>2, <3>2, <3>4 DEF SameBuilds
  <2>2. CASE ~(new.state = "failed" /\ rsession[s].state # "failed")
    <3>1. rclient' = rclient  BY <2>2
    <3> QED  BY <1>2, <2>2, <3>1 DEF SameBuilds
  <2> QED  BY <2>1, <2>2
<1>4. /\ DOMAIN rclient' = DOMAIN rclient /\ InCache'
      /\ \A d \in Callers : (Served(rcall[d]) /\ TapCounted(rcall[d]))'
  <2>1. Len(rsession) <= Len(rsession')  BY <1>1, <1>2
  <2> QED  BY <1>1, <1>3, <2>1, BuildsStay
<1>5. ControlTypes'  BY <1>1, <1>3 DEF RInv, ControlTypes, SameBuilds
<1>6. ASSUME NEW k \in DOMAIN rclient' PROVE Fresh(k)'
  <2>1. k \in DOMAIN rclient /\ Fresh(k)  BY <1>4 DEF RInv
  <2>2. rclient'[k].driver # 0 => rclient'[k].driver \in DOMAIN rsession'
                                  /\ rsession'[rclient'[k].driver].state # "failed"
    BY <1>1, <1>3, <2>1 DEF Fresh
  <2> QED  BY <1>3, <2>1, <2>2 DEF Fresh, SameBuilds
<1>7. SessionsKnown'
  <2> SUFFICES ASSUME ~rstray, NEW t \in DOMAIN rsession, Runs(t)' PROVE Known(t)'
    BY <1>1 DEF SessionsKnown
  <2>1. Runs(t)  BY <1>1 DEF Runs
  <2>2. Known(t)  BY <2>1 DEF RInv, SessionsKnown
  <2>3. CASE rcached # 0 /\ rclient[rcached].driver = t
    <3>1. rcached \in DOMAIN rclient  BY <1>2, <2>3
    <3>2. rclient'[rcached].driver = t
      <4>1. CASE t # s  BY <1>3, <2>3, <3>1, <4>1
      <4>2. CASE t = s
        <5>1. new.state # "failed"  BY <1>1, <4>2 DEF Runs
        <5> QED  BY <2>3, <5>1
      <4> QED  BY <4>1, <4>2
    <3> QED  BY <2>3, <3>2 DEF Known
  <2>4. CASE \E c \in Callers : rcall[c].pc = "delete" /\ rcall[c].session = t
    BY <2>4 DEF Known
  <2> QED  BY <2>2, <2>3, <2>4 DEF Known
<1>8. SizesKnown'
  <2>1. rcached # 0 => rclient'[rcached].size = rclient[rcached].size  BY <1>2, <1>3
  <2> QED  BY <2>1 DEF RInv, SizesKnown, Steady
<1> QED  BY <1>4, <1>5, <1>6, <1>7, <1>8 DEF RInv

LEMMA SessionIs ==
  ASSUME RInv, NEW s \in DOMAIN rsession, NEW st \in {"live", "closed", "failed"}, NEW dr \in BOOLEAN
  PROVE  /\ rsession[s] \in Session /\ rsession[s].drop \in BOOLEAN
         /\ [rsession[s] EXCEPT !.state = st] \in Session
         /\ [rsession[s] EXCEPT !.state = st].state = st
         /\ [rsession[s] EXCEPT !.state = st].drop = rsession[s].drop
         /\ [state |-> st, drop |-> dr] \in Session
<1>1. rsession[s] \in Session
  <2>1. rsession \in Seq(Session)  BY DEF RInv, ControlTypes
  <2> QED  BY <2>1
<1> QED  BY <1>1 DEF Session

LEMMA ROpenedKeeps == ASSUME RInv, NEW s \in DOMAIN rsession, ROpened(s) PROVE RInv'
<1>0. /\ rsession[s].state = "opening"
      /\ \/ rsession' = [rsession EXCEPT ![s].state = "live"] /\ rclient' = rclient
         \/ rsession' = [rsession EXCEPT ![s].state = "failed"] /\ rclient' = Unhad(s)
      /\ UNCHANGED <<rentry, rgen, rforgot, rcached, rbuild, rcall, rphone, rcrossed, rstray>>
  BY DEF ROpened, entryVars, cacheVars, screenVars
<1>1. CASE rsession' = [rsession EXCEPT ![s].state = "live"] /\ rclient' = rclient
  <2> DEFINE new == [rsession[s] EXCEPT !.state = "live"]
  <2>1. new \in Session /\ new.state = "live" /\ new.drop = rsession[s].drop  BY SessionIs
  <2>2. rsession' = [rsession EXCEPT ![s] = new]  BY <1>1
  <2> HIDE DEF new
  <2>3. ~new.drop => Runs(s)  BY <1>0, <2>1 DEF Runs
  <2> QED  BY <1>0, <1>1, <2>1, <2>2, <2>3, SessionTurns
<1>2. CASE rsession' = [rsession EXCEPT ![s].state = "failed"] /\ rclient' = Unhad(s)
  <2> DEFINE new == [rsession[s] EXCEPT !.state = "failed"]
  <2>1. new \in Session /\ new.state = "failed"  BY SessionIs
  <2>2. rsession' = [rsession EXCEPT ![s] = new]  BY <1>2
  <2> HIDE DEF new
  <2> QED  BY <1>0, <1>2, <2>1, <2>2, SessionTurns
<1> QED  BY <1>0, <1>1, <1>2

LEMMA RDroppedKeeps == ASSUME RInv, NEW s \in DOMAIN rsession, RDropped(s) PROVE RInv'
<1> DEFINE st == IF rsession[s].state = "live" THEN "closed" ELSE rsession[s].state
           new == [state |-> st, drop |-> FALSE]
<1>0. /\ rsession[s].state # "opening" /\ rsession' = [rsession EXCEPT ![s] = new]
      /\ UNCHANGED <<rentry, rgen, rforgot, rcached, rbuild, rclient, rcall, rphone, rcrossed, rstray>>
  BY DEF RDropped, entryVars, cacheVars, screenVars
<1>1. rsession[s] \in Session  BY DEF RInv, ControlTypes
<1>2. st \in {"closed", "failed"} /\ (st = "failed" <=> rsession[s].state = "failed")
  BY <1>0, <1>1 DEF Session
<1>3. new \in Session /\ new.state = st  BY <1>2 DEF Session
<1> HIDE DEF st, new
<1> QED  BY <1>0, <1>2, <1>3, SessionTurns

LEMMA RSessionLostKeeps == ASSUME RInv, RSessionLost PROVE RInv'
<1>1. PICK s \in DOMAIN rsession :
        rsession[s].state = "live" /\ rsession' = [rsession EXCEPT ![s].state = "closed"]
  BY DEF RSessionLost
<1> DEFINE new == [rsession[s] EXCEPT !.state = "closed"]
<1>2. new \in Session /\ new.state = "closed"  BY SessionIs
<1>3. rsession' = [rsession EXCEPT ![s] = new]  BY <1>1
<1>4. UNCHANGED <<rentry, rgen, rforgot, rcached, rbuild, rclient, rcall, rphone, rcrossed, rstray>>
  BY DEF RSessionLost, entryVars, cacheVars, screenVars
<1> HIDE DEF new
<1> QED  BY <1>2, <1>3, <1>4, SessionTurns

\* A request gets the session of its client, or a new one.
LEMMA RUseKeeps == ASSUME RInv, NEW c \in Callers, RUse(c) PROVE RInv'
<1> DEFINE k == rcall[c].client
           s == rclient[k].driver
           more == Len(rsession) + 1
<1>0. /\ rcall[c].pc = "use" /\ Driver(c)
      /\ UNCHANGED <<rentry, rgen, rforgot, rcached, rbuild, rphone, rcrossed>>
  BY DEF RUse, entryVars, cacheVars, screenVars
<1>1. /\ rcall[c] \in Request /\ Served(rcall[c]) /\ TapCounted(rcall[c])
      /\ Len(rclient) \in Nat /\ rclient \in Seq(Client) /\ rsession \in Seq(Session)
      /\ Len(rsession) \in Nat /\ rbuild \in 0..Len(rclient) /\ rcached \in 0..Len(rclient)
  BY DEF RInv, ControlTypes
<1>2. k \in DOMAIN rclient /\ k # 0
  <2>1. k \in Nat /\ k # 0 /\ k <= Len(rclient)  BY <1>0, <1>1 DEF Served, Request, InUse
  <2> QED  BY <1>1, <2>1
<1>3. ASSUME NEW n \in Nat \ {0}
      PROVE  LET acts == [rcall[c] EXCEPT !.pc = "act", !.session = n]
             IN  /\ acts \in Request /\ acts.pc = "act" /\ acts.session = n
                 /\ acts.client = k /\ acts.since = rcall[c].since /\ TapCounted(acts)
  <2> DEFINE acts == [rcall[c] EXCEPT !.pc = "act", !.session = n]
  <2>1. /\ acts \in Request /\ acts.pc = "act" /\ acts.session = n
        /\ acts.client = k /\ acts.since = rcall[c].since
        /\ acts.runs = rcall[c].runs /\ acts.kind = rcall[c].kind
        /\ acts.retried = rcall[c].retried /\ acts.lost = rcall[c].lost
    BY <1>1 DEF Request, InUse
  <2> HIDE DEF acts, k
  <2>2. TapCounted(acts)
    <3>1. rcall[c].runs \in 0..2  BY <1>1 DEF Request
    <3> QED  BY <1>0, <1>1, <2>1, <3>1 DEF TapCounted
  <2> QED  BY <2>1, <2>2 DEF acts
<1>4. CASE s # 0
  <2> DEFINE acts == [rcall[c] EXCEPT !.pc = "act", !.session = s]
  <2>1. Put(c, acts) /\ UNCHANGED <<rclient, rsession, rstray>>
    BY <1>0, <1>4 DEF Driver, Acts
  <2>2. s \in DOMAIN rsession /\ s \in Nat /\ s <= Len(rsession)
    BY <1>1, <1>2, <1>4 DEF RInv, Fresh
  <2>3. /\ acts \in Request /\ acts.pc = "act" /\ acts.session = s
        /\ acts.client = k /\ acts.since = rcall[c].since /\ TapCounted(acts)
    BY <1>3, <1>4, <2>2
  <2> HIDE DEF acts
  <2>4. Served(acts)
    <3> HIDE DEF s, k
    <3> QED  BY <1>0, <1>1, <1>4, <2>2, <2>3 DEF Served, InUse, k
  <2> QED  BY <1>0, <1>1, <2>1, <2>3, <2>4, RequestMoves
<1>5. CASE s = 0
  <2> DEFINE acts == [rcall[c] EXCEPT !.pc = "act", !.session = more]
             opening == [state |-> "opening", drop |-> FALSE]
             new == [rclient[k] EXCEPT !.driver = more]
  <2>1. /\ rsession' = Append(rsession, opening)
        /\ rclient' = [rclient EXCEPT ![k].driver = more]
        /\ Put(c, acts) /\ rstray' = (rstray \/ rcached # k)
    BY <1>0, <1>5 DEF Driver, Acts
  <2>2. more \in Nat \ {0} /\ Len(rsession) < more  BY <1>1
  <2>3. /\ acts \in Request /\ acts.pc = "act" /\ acts.session = more
        /\ acts.client = k /\ acts.since = rcall[c].since /\ TapCounted(acts)
    <3> HIDE DEF more
    <3> QED  BY <1>3, <2>2
  <2>4. /\ new \in Client /\ new.gen = rclient[k].gen /\ new.ver = rclient[k].ver
        /\ new.size = rclient[k].size /\ new.driver = more
    <3>1. rclient[k] \in Client  BY <1>2, ClientIs
    <3> QED  BY <2>2, <3>1 DEF Client
  <2>5. opening \in Session /\ opening.state = "opening" /\ ~opening.drop  BY DEF Session
  <2>6. /\ rsession' \in Seq(Session) /\ Len(rsession') = more /\ DOMAIN rsession' = 1..more
        /\ rsession'[more] = opening
        /\ \A t \in DOMAIN rsession : t # more /\ rsession'[t] = rsession[t]
        /\ \A t \in DOMAIN rsession' : t # more => t \in DOMAIN rsession
    BY <1>1, <2>1, <2>5
  <2>7. rclient' = [rclient EXCEPT ![k] = new]  BY <2>1
  <2> HIDE DEF acts, opening, new, more, k
  <2>8. /\ SameBuilds /\ DOMAIN rclient' = DOMAIN rclient /\ rclient'[k] = new
        /\ \A i \in DOMAIN rclient \ {k} : rclient'[i] = rclient[i]
    BY <1>2, <2>4, <2>7, ExceptClient
  <2>9. /\ rcall' \in [Callers -> Request] /\ rcall'[c] = acts
        /\ \A d \in Callers \ {c} : rcall'[d] = rcall[d]
    BY <2>1, <2>3, RequestPut DEF RInv, ControlTypes
  <2>10. /\ InCache'
         /\ \A d \in Callers \ {c} : (Served(rcall[d]) /\ TapCounted(rcall[d]))'
    <3>1. Len(rsession) <= Len(rsession')  BY <1>1, <2>2, <2>6
    <3> QED  BY <1>0, <2>6, <2>8, <2>9, <3>1, BuildsStay
  <2>11. (Served(rcall[c]) /\ TapCounted(rcall[c]))'
    <3>1. acts.client <= Len(rclient') /\ acts.session <= Len(rsession') /\ acts.since <= rforgot
      BY <1>1, <2>2, <2>3, <2>6, <2>8 DEF Served, SameBuilds, k
    <3>2. /\ rclient[k].ver >= acts.since /\ rclient[k].ver # -1
          /\ rclient[k].gen = rgen => k = rcached
      BY <1>0, <1>1, <2>3 DEF Served, InUse, k
    <3> QED  BY <1>0, <1>2, <2>2, <2>3, <2>4, <2>8, <2>9, <3>1, <3>2 DEF Served, TapCounted, InUse
  <2>12. ControlTypes'
    BY <1>0, <1>1, <2>1, <2>6, <2>8, <2>9 DEF RInv, ControlTypes, SameBuilds
  <2>13. ASSUME NEW i \in DOMAIN rclient' PROVE Fresh(i)'
    <3>1. i \in DOMAIN rclient /\ Fresh(i)  BY <2>8, <2>13 DEF RInv
    <3>2. CASE i = k
      <4>1. more \in DOMAIN rsession'  BY <2>2, <2>6
      <4>2. rsession'[more].state # "failed"  BY <2>5, <2>6
      <4> QED  BY <1>0, <2>4, <2>8, <3>1, <3>2, <4>1, <4>2 DEF Fresh
    <3>3. CASE i # k
      <4>1. rclient'[i] = rclient[i]  BY <2>8, <3>1, <3>3
      <4>2. \A t \in DOMAIN rsession : t \in DOMAIN rsession' /\ rsession'[t] = rsession[t]
        BY <1>1, <2>2, <2>6
      <4> QED  BY <1>0, <3>1, <4>1, <4>2 DEF Fresh
    <3> QED  BY <3>2, <3>3
  <2>14. SessionsKnown'
    <3> SUFFICES ASSUME ~rstray', NEW t \in DOMAIN rsession', Runs(t)' PROVE Known(t)'
      BY DEF SessionsKnown
    <3>1. ~rstray /\ rcached = k  BY <2>1
    <3>2. CASE t = more
      BY <1>0, <1>2, <2>4, <2>8, <3>1, <3>2 DEF Known
    <3>3. CASE t # more
      <4>1. t \in DOMAIN rsession /\ Runs(t) /\ t # 0  BY <1>1, <2>6, <3>3 DEF Runs
      <4>2. Known(t)  BY <3>1, <4>1 DEF RInv, SessionsKnown
      <4>3. PICK d \in Callers : rcall[d].pc = "delete" /\ rcall[d].session = t
        BY <1>5, <3>1, <4>1, <4>2 DEF Known
      <4>4. d # c  BY <1>0, <4>3
      <4> QED  BY <2>9, <4>3, <4>4 DEF Known
    <3> QED  BY <3>2, <3>3
  <2>15. SizesKnown'
    <3> SUFFICES ASSUME Steady' PROVE SizesKnown'  BY DEF SizesKnown
    <3>1. Steady  BY <1>0, <2>9 DEF Steady
    <3>2. rcached # 0 => rclient'[rcached].size = rclient[rcached].size
      <4>1. rcached # 0 => rcached \in DOMAIN rclient  BY <1>1
      <4> QED  BY <2>4, <2>8, <4>1
    <3> QED  BY <1>0, <2>3, <2>9, <3>1, <3>2 DEF RInv, SizesKnown
  <2> QED  BY <2>10, <2>11, <2>12, <2>13, <2>14, <2>15 DEF RInv
<1> QED  BY <1>4, <1>5

\* A session whose command failed is given up: the request deletes it before the second
\* attempt.
LEMMA AgainKeeps ==
  ASSUME RInv, NEW c \in Callers, NEW gone \in BOOLEAN, NEW ran \in 0..2, Again(c, gone, ran),
         rcall[c].pc \in {"act", "release"},
         ran <= 1 \/ rcall[c].retried, rcall[c].kind # "tap" => ran = 0,
         UNCHANGED <<rentry, rgen, rforgot, rcached, rbuild, rsession, rphone, rcrossed, rstray>>
  PROVE  RInv'
<1> DEFINE k == rcall[c].client
           s == rcall[c].session
           drops == [rcall[c] EXCEPT !.pc = "delete", !.retried = TRUE, !.runs = ran,
                                     !.lost = rcall[c].lost \/ gone]
           left == IF GivenUp(c) THEN 0 ELSE rclient[k].driver
           new == [rclient[k] EXCEPT !.driver = left]
<1>1. /\ rcall[c] \in Request /\ Served(rcall[c]) /\ TapCounted(rcall[c])
      /\ Len(rclient) \in Nat /\ rclient \in Seq(Client) /\ rbuild \in 0..Len(rclient)
      /\ rcached \in 0..Len(rclient) /\ rsession \in Seq(Session) /\ Len(rsession) \in Nat
  BY DEF RInv, ControlTypes
<1>2. k \in DOMAIN rclient /\ k # 0 /\ s # 0
  <2>1. k \in Nat /\ k # 0 /\ k <= Len(rclient) /\ s # 0
    BY <1>1 DEF Served, Request, InUse
  <2> QED  BY <1>1, <2>1
<1>3. CASE ~MayRetry(c, gone)
  <2>1. Done(c) /\ UNCHANGED rclient  BY <1>3 DEF Again
  <2> QED  BY <1>1, <2>1, DoneKeeps
<1>4. CASE MayRetry(c, gone)
  <2>1. rclient' = [rclient EXCEPT ![k].driver = left] /\ Put(c, drops)
    BY <1>4 DEF Again
  <2>2. ~rcall[c].retried /\ (gone \/ rcall[c].kind # "tap")  BY <1>4 DEF MayRetry
  <2>3. /\ drops \in Request /\ drops.pc = "delete" /\ drops.client = k /\ drops.session = s
        /\ drops.since = rcall[c].since /\ drops.kind = rcall[c].kind /\ drops.retried
        /\ drops.runs = ran /\ drops.lost = (rcall[c].lost \/ gone)
    <3>1. (rcall[c].lost \/ gone) \in BOOLEAN  BY <1>1 DEF Request
    <3> QED  BY <1>1, <3>1 DEF Request, InUse
  <2>4. rclient[k] \in Client /\ left \in Nat  BY <1>2, ClientIs
  <2>5. /\ new \in Client /\ new.gen = rclient[k].gen /\ new.ver = rclient[k].ver
        /\ new.size = rclient[k].size /\ new.driver = left
    <3> HIDE DEF left
    <3> QED  BY <2>4 DEF Client
  <2>6. rclient' = [rclient EXCEPT ![k] = new]  BY <2>1
  <2>7. left \in {0, rclient[k].driver} /\ (rclient[k].driver # s => left = rclient[k].driver)
    BY DEF GivenUp
  <2>8. TapCounted(drops)  BY <1>1, <2>2, <2>3 DEF TapCounted
  <2> HIDE DEF drops, new, left, k, s
  <2>9. /\ SameBuilds /\ DOMAIN rclient' = DOMAIN rclient /\ rclient'[k] = new
        /\ \A i \in DOMAIN rclient \ {k} : rclient'[i] = rclient[i]
    BY <1>2, <2>5, <2>6, ExceptClient
  <2>10. /\ rcall' \in [Callers -> Request] /\ rcall'[c] = drops
         /\ \A d \in Callers \ {c} : rcall'[d] = rcall[d]
    BY <2>1, <2>3, RequestPut DEF RInv, ControlTypes
  <2>11. /\ InCache'
         /\ \A d \in Callers \ {c} : (Served(rcall[d]) /\ TapCounted(rcall[d]))'
    BY <1>1, <2>9, <2>10, BuildsStay
  <2>12. (Served(rcall[c]) /\ TapCounted(rcall[c]))'
    <3>1. /\ drops.client <= Len(rclient') /\ drops.session <= Len(rsession)
          /\ drops.since <= rforgot
      BY <1>1, <2>3, <2>9 DEF Served, SameBuilds, k, s
    <3>2. /\ rclient[k].ver >= drops.since /\ rclient[k].ver # -1
          /\ rclient[k].gen = rgen => k = rcached
      BY <1>1, <2>3 DEF Served, InUse, k
    <3> QED  BY <1>2, <2>3, <2>5, <2>8, <2>9, <2>10, <3>1, <3>2 DEF Served, TapCounted
  <2>13. ControlTypes'
    BY <1>1, <2>9, <2>10 DEF RInv, ControlTypes, SameBuilds
  <2>14. ASSUME NEW i \in DOMAIN rclient' PROVE Fresh(i)'
    <3>1. i \in DOMAIN rclient /\ Fresh(i)  BY <2>9, <2>14 DEF RInv
    <3>2. CASE i = k  BY <2>5, <2>7, <2>9, <3>1, <3>2 DEF Fresh
    <3>3. CASE i # k
      <4>1. rclient'[i] = rclient[i]  BY <2>9, <3>1, <3>3
      <4> QED  BY <3>1, <4>1 DEF Fresh
    <3> QED  BY <3>2, <3>3
  <2>15. SessionsKnown'
    <3> SUFFICES ASSUME ~rstray, NEW t \in DOMAIN rsession, Runs(t) PROVE Known(t)'
      BY DEF SessionsKnown, Runs
    <3>1. Known(t)  BY DEF RInv, SessionsKnown
    <3>2. CASE t = s  BY <2>3, <2>10, <3>2 DEF Known
    <3>3. CASE t # s
      <4>1. CASE rcached # 0 /\ rclient[rcached].driver = t
        <5>1. rcached \in DOMAIN rclient  BY <1>1, <4>1
        <5>2. rclient'[rcached].driver = t
          BY <2>5, <2>7, <2>9, <3>3, <4>1, <5>1
        <5> QED  BY <4>1, <5>2 DEF Known
      <4>2. ASSUME NEW d \in Callers, rcall[d].pc = "delete", rcall[d].session = t PROVE Known(t)'
        <5>1. rcall'[d] = rcall[d]  BY <2>10, <4>2
        <5> QED  BY <4>2, <5>1 DEF Known
      <4> QED  BY <3>1, <4>1, <4>2 DEF Known
    <3> QED  BY <3>2, <3>3
  <2>16. SizesKnown'
    <3> SUFFICES ASSUME Steady' PROVE SizesKnown'  BY DEF SizesKnown
    <3>1. Steady  BY <2>10 DEF Steady
    <3>2. rcached # 0 => rclient'[rcached].size = rclient[rcached].size
      <4>1. rcached # 0 => rcached \in DOMAIN rclient  BY <1>1
      <4> QED  BY <2>5, <2>9, <4>1
    <3> QED  BY <2>3, <2>10, <3>1, <3>2 DEF RInv, SizesKnown
  <2> QED  BY <2>11, <2>12, <2>13, <2>14, <2>15, <2>16 DEF RInv
<1> QED  BY <1>3, <1>4

LEMMA RCommandKeeps == ASSUME RInv, NEW c \in Callers, RCommand(c) PROVE RInv'
<1> DEFINE gesture == rcall[c].pc = "act" /\ rcall[c].kind = "tap"
           ran == rcall[c].runs + (IF gesture THEN 1 ELSE 0)
           frees == [rcall[c] EXCEPT !.pc = "release", !.runs = ran]
<1>0. /\ rcall[c].pc \in {"act", "release"}
      /\ \/ Done(c) /\ UNCHANGED rclient
         \/ Again(c, TRUE, rcall[c].runs)
         \/ Again(c, FALSE, ran)
         \/ gesture /\ Put(c, frees) /\ UNCHANGED rclient
      /\ UNCHANGED <<rentry, rgen, rforgot, rcached, rbuild, rsession, rphone, rcrossed, rstray>>
  BY DEF RCommand, entryVars, cacheVars, screenVars
<1>1. /\ rcall[c] \in Request /\ Served(rcall[c]) /\ TapCounted(rcall[c])
      /\ Len(rclient) \in Nat /\ rbuild \in 0..Len(rclient) /\ rcall[c].runs \in 0..2
  BY DEF RInv, ControlTypes, Request
<1>2. /\ rcall[c].runs <= 1 \/ rcall[c].retried
      /\ rcall[c].kind # "tap" => rcall[c].runs = 0
  BY <1>1 DEF TapCounted
<1>3. /\ ran \in 0..2 /\ (ran <= 1 \/ rcall[c].retried) /\ (rcall[c].kind # "tap" => ran = 0)
  <2>1. gesture => rcall[c].runs <= 1 /\ (~rcall[c].retried => rcall[c].runs = 0)
    BY <1>1 DEF TapCounted
  <2> QED  BY <1>1, <1>2, <2>1
<1>4. CASE Done(c) /\ UNCHANGED rclient
  BY <1>0, <1>1, <1>4, DoneKeeps
<1>5. CASE Again(c, TRUE, rcall[c].runs)
  BY <1>0, <1>1, <1>2, <1>5, AgainKeeps
<1>6. CASE Again(c, FALSE, ran)
  <2> HIDE DEF ran
  <2> QED  BY <1>0, <1>3, <1>6, AgainKeeps
<1>7. CASE gesture /\ Put(c, frees) /\ UNCHANGED rclient
  <2>1. /\ frees \in Request /\ frees.pc = "release" /\ frees.runs = ran
        /\ frees.client = rcall[c].client /\ frees.session = rcall[c].session
        /\ frees.since = rcall[c].since /\ frees.kind = "tap"
        /\ frees.retried = rcall[c].retried /\ frees.lost = rcall[c].lost
    <3> HIDE DEF ran
    <3> QED  BY <1>1, <1>3, <1>7 DEF Request, InUse
  <2>2. ~rcall[c].retried => ran <= 1
    BY <1>1, <1>7 DEF TapCounted
  <2> HIDE DEF frees, ran
  <2>3. TapCounted(frees)  BY <1>1, <1>3, <1>7, <2>1, <2>2 DEF TapCounted
  <2>4. Served(frees)  BY <1>0, <1>1, <2>1 DEF Served, InUse
  <2> QED  BY <1>0, <1>1, <1>7, <2>1, <2>3, <2>4, RequestMoves
<1> QED  BY <1>0, <1>4, <1>5, <1>6, <1>7

LEMMA RDeletedKeeps == ASSUME RInv, NEW c \in Callers, RDeleted(c) PROVE RInv'
<1> DEFINE s == rcall[c].session
           back == [rcall[c] EXCEPT !.pc = "use"]
           new == [rsession[s] EXCEPT !.state = "closed"]
<1>0. /\ rcall[c].pc = "delete" /\ Put(c, back)
      /\ \/ rsession' = [rsession EXCEPT ![s].state = "closed"] /\ rstray' = rstray
         \/ rstray' = TRUE /\ rsession' = rsession
      /\ UNCHANGED <<rentry, rgen, rforgot, rcached, rbuild, rclient, rphone, rcrossed>>
  BY DEF RDeleted, RGoes, entryVars, cacheVars, screenVars
<1>1. /\ rcall[c] \in Request /\ Served(rcall[c]) /\ TapCounted(rcall[c])
      /\ rclient \in Seq(Client) /\ Len(rclient) \in Nat /\ rsession \in Seq(Session)
      /\ Len(rsession) \in Nat
  BY DEF RInv, ControlTypes
<1>2. s \in DOMAIN rsession
  <2>1. s \in Nat /\ s # 0 /\ s <= Len(rsession)  BY <1>0, <1>1 DEF Served, Request
  <2> QED  BY <1>1, <2>1
<1>3. /\ back \in Request /\ back.pc = "use" /\ back.client = rcall[c].client
      /\ back.session = s /\ back.since = rcall[c].since /\ back.runs = rcall[c].runs
      /\ back.kind = rcall[c].kind /\ back.retried = rcall[c].retried /\ back.lost = rcall[c].lost
  BY <1>1 DEF Request, InUse
<1>4. /\ rsession' \in Seq(Session) /\ Len(rsession') = Len(rsession)
      /\ DOMAIN rsession' = DOMAIN rsession
      /\ \A t \in DOMAIN rsession : rsession'[t] = rsession[t] \/ rsession'[t].state = "closed"
      /\ ~rstray' => rsession'[s].state = "closed"
  <2>1. CASE rsession' = [rsession EXCEPT ![s].state = "closed"] /\ rstray' = rstray
    <3>1. new \in Session /\ new.state = "closed"  BY <1>2, SessionIs
    <3>2. rsession' = [rsession EXCEPT ![s] = new]  BY <2>1
    <3> HIDE DEF new, s
    <3>3. /\ rsession' \in Seq(Session) /\ Len(rsession') = Len(rsession)
          /\ DOMAIN rsession' = DOMAIN rsession /\ rsession'[s] = new
          /\ \A i \in DOMAIN rsession \ {s} : rsession'[i] = rsession[i]
      BY <1>2, <3>1, <3>2, ExceptSession
    <3> QED  BY <3>1, <3>3
  <2>2. CASE rstray' = TRUE /\ rsession' = rsession  BY <1>1, <2>2
  <2> QED  BY <1>0, <2>1, <2>2
<1> HIDE DEF back, new, s
<1>5. /\ rcall' \in [Callers -> Request] /\ rcall'[c] = back
      /\ \A d \in Callers \ {c} : rcall'[d] = rcall[d]
  BY <1>0, <1>3, RequestPut DEF RInv, ControlTypes
<1>6. SameBuilds  BY <1>0, <1>1 DEF SameBuilds
<1>7. /\ InCache'
      /\ \A d \in Callers \ {c} : (Served(rcall[d]) /\ TapCounted(rcall[d]))'
  BY <1>0, <1>1, <1>4, <1>5, <1>6, BuildsStay
<1>8. (Served(rcall[c]) /\ TapCounted(rcall[c]))'
  <2>1. Served(back)  BY <1>0, <1>1, <1>3 DEF Served, InUse, s
  <2>2. TapCounted(back)  BY <1>0, <1>1, <1>3 DEF TapCounted
  <2> QED  BY <1>0, <1>4, <1>5, <2>1, <2>2 DEF Served, TapCounted
<1>9. ControlTypes'
  <2>1. rstray' \in BOOLEAN  BY <1>0 DEF RInv, ControlTypes
  <2> QED  BY <1>0, <1>4, <1>5, <2>1 DEF RInv, ControlTypes
<1>10. ASSUME NEW k \in DOMAIN rclient PROVE Fresh(k)'
  <2>1. Fresh(k)  BY DEF RInv
  <2>2. rclient[k].driver # 0 => /\ rclient[k].driver \in DOMAIN rsession'
                                 /\ rsession'[rclient[k].driver].state # "failed"
    BY <1>4, <2>1 DEF Fresh
  <2> QED  BY <1>0, <2>1, <2>2 DEF Fresh
<1>11. SessionsKnown'
  <2> SUFFICES ASSUME ~rstray', NEW t \in DOMAIN rsession, Runs(t)' PROVE Known(t)'
    BY <1>4 DEF SessionsKnown
  <2>1. t # s /\ Runs(t) /\ ~rstray  BY <1>0, <1>4 DEF Runs
  <2>2. Known(t)  BY <2>1 DEF RInv, SessionsKnown
  <2>3. ASSUME NEW d \in Callers, rcall[d].pc = "delete", rcall[d].session = t PROVE Known(t)'
    <3>1. rcall'[d] = rcall[d]  BY <1>5, <2>1, <2>3 DEF s
    <3> QED  BY <2>3, <3>1 DEF Known
  <2> QED  BY <1>0, <2>2, <2>3 DEF Known
<1>12. SizesKnown'
  <2> SUFFICES ASSUME Steady' PROVE SizesKnown'  BY DEF SizesKnown
  <2>1. Steady  BY <1>0, <1>5 DEF Steady
  <2> QED  BY <1>0, <1>3, <1>5, <2>1 DEF RInv, SizesKnown
<1> QED  BY <1>0, <1>7, <1>8, <1>9, <1>10, <1>11, <1>12 DEF RInv

-----------------------------------------------------------------------------
(* WebDriverAgent without a session.                                        *)

\* The request goes on with what it has got.
LEMMA GoesOn ==
  ASSUME RInv, NEW c \in Callers, NEW pc \in {"size", "touch", "turned"},
         NEW saw \in Orientations \cup {"none"}, rcall[c].pc \in {"use", "size"}
  PROVE  LET rec == [rcall[c] EXCEPT !.pc = pc, !.saw = saw]
         IN  /\ rec \in Request /\ rec.pc = pc /\ rec.saw = saw
             /\ Served(rec) /\ TapCounted(rec)
<1> DEFINE rec == [rcall[c] EXCEPT !.pc = pc, !.saw = saw]
<1>1. rcall[c] \in Request /\ Served(rcall[c]) /\ TapCounted(rcall[c])  BY DEF RInv, ControlTypes
<1>2. /\ rec \in Request /\ rec.pc = pc /\ rec.saw = saw /\ rec.client = rcall[c].client
      /\ rec.session = rcall[c].session /\ rec.since = rcall[c].since
      /\ rec.kind = rcall[c].kind /\ rec.retried = rcall[c].retried /\ rec.lost = rcall[c].lost
      /\ rec.runs = rcall[c].runs
  BY <1>1 DEF Request, InUse
<1> HIDE DEF rec
<1>3. Served(rec)  BY <1>1, <1>2 DEF Served, InUse
<1>4. TapCounted(rec)  BY <1>1, <1>2 DEF TapCounted
<1> QED  BY <1>2, <1>3, <1>4 DEF rec

LEMMA RSizeKeeps == ASSUME RInv, NEW c \in Callers, RSize(c) PROVE RInv'
<1> DEFINE rec == [rcall[c] EXCEPT !.pc = "size", !.saw = rphone]
<1>0. /\ rcall[c].pc = "use" /\ Put(c, rec)
      /\ UNCHANGED <<rentry, rgen, rforgot, rcached, rbuild, rclient, rsession, rphone, rcrossed, rstray>>
  BY DEF RSize, entryVars, cacheVars, screenVars
<1>1. rphone \in Orientations \cup {"none"} /\ rbuild \in 0..Len(rclient)
  BY DEF RInv, ControlTypes
<1>2. /\ rec \in Request /\ rec.pc = "size" /\ rec.saw = rphone
      /\ Served(rec) /\ TapCounted(rec)
  BY <1>0, <1>1, GoesOn
<1> HIDE DEF rec
<1> QED  BY <1>0, <1>1, <1>2, RequestMoves

LEMMA RTouchKeeps == ASSUME RInv, NEW c \in Callers, RTouch(c) PROVE RInv'
<1>1. /\ rcall[c].pc \in {"touch", "use"} /\ Done(c)
      /\ UNCHANGED <<rentry, rgen, rforgot, rcached, rbuild, rclient, rsession, rphone, rcrossed, rstray>>
  BY DEF RTouch, entryVars, cacheVars, screenVars
<1>2. rbuild \in 0..Len(rclient)  BY DEF RInv, ControlTypes
<1> QED  BY <1>1, <1>2, DoneKeeps

LEMMA RTurnKeeps == ASSUME RInv, NEW c \in Callers, RTurn(c) PROVE RInv'
<1> DEFINE rec == [rcall[c] EXCEPT !.pc = "turned"]
<1>a. /\ rcall[c].pc = "use"
      /\ \/ Put(c, rec) /\ rphone' \in Orientations
         \/ Done(c) /\ UNCHANGED rphone
      /\ UNCHANGED <<rentry, rgen, rforgot, rcached, rbuild, rclient, rsession, rcrossed, rstray>>
  BY DEF RTurn, RGoes, entryVars, cacheVars
<1> HIDE DEF rec
<1>b. CASE Done(c) /\ UNCHANGED rphone
  <2>1. rbuild' \in 0..Len(rclient)  BY <1>a DEF RInv, ControlTypes
  <2> QED  BY <1>a, <1>b, <2>1, DoneKeeps
<1> SUFFICES ASSUME Put(c, rec), rphone' \in Orientations PROVE RInv'  BY <1>a, <1>b
<1> USE DEF rec
<1>0. /\ rcall[c].pc = "use" /\ Put(c, rec) /\ rphone' \in Orientations
      /\ UNCHANGED <<rentry, rgen, rforgot, rcached, rbuild, rclient, rsession, rcrossed, rstray>>
  BY <1>a
<1>1. rcall[c] \in Request /\ Served(rcall[c]) /\ TapCounted(rcall[c])
  BY DEF RInv, ControlTypes
<1>2. /\ rec \in Request /\ rec.pc = "turned" /\ rec.client = rcall[c].client
      /\ rec.session = rcall[c].session /\ rec.since = rcall[c].since
      /\ rec.kind = rcall[c].kind /\ rec.retried = rcall[c].retried /\ rec.lost = rcall[c].lost
      /\ rec.runs = rcall[c].runs
  BY <1>1 DEF Request, InUse
<1> HIDE DEF rec
<1>3. Served(rec) /\ TapCounted(rec)  BY <1>0, <1>1, <1>2 DEF Served, TapCounted, InUse
<1>4. /\ rcall' \in [Callers -> Request] /\ rcall'[c] = rec
      /\ \A d \in Callers \ {c} : rcall'[d] = rcall[d]
  BY <1>0, <1>2, RequestPut DEF RInv, ControlTypes
<1>5. ControlTypes'  BY <1>0, <1>4 DEF RInv, ControlTypes
<1>6. InCache' /\ \A k \in DOMAIN rclient' : Fresh(k)'  BY <1>0 DEF RInv, InCache, Fresh
<1>7. ASSUME NEW d \in Callers PROVE (Served(rcall[d]) /\ TapCounted(rcall[d]))'
  <2>1. Served(rcall'[d]) /\ TapCounted(rcall'[d])  BY <1>3, <1>4 DEF RInv
  <2> QED  BY <1>0, <2>1 DEF Served, TapCounted
<1>8. SessionsKnown'
  <2>1. \A s : Known(s) => Known(s)'  BY <1>0, <1>4 DEF Known
  <2> QED  BY <1>0, <2>1 DEF RInv, SessionsKnown, Runs
<1>9. SizesKnown'  BY <1>2, <1>4 DEF SizesKnown, Steady
<1> QED  BY <1>5, <1>6, <1>7, <1>8, <1>9 DEF RInv

\* The client of the request gets a screen size, or none.
LEMMA SizedMoves ==
  ASSUME RInv, NEW c \in Callers, NEW size \in Orientations \cup {"none"}, Sized(c, size),
         NEW rec \in Request, Put(c, rec), Served(rec), TapCounted(rec),
         rcall[c].pc \in {"size", "turned"}, rec.pc \in {"idle", "touch"},
         rcrossed' \in BOOLEAN,
         UNCHANGED <<rentry, rgen, rforgot, rcached, rbuild, rsession, rphone, rstray>>,
         Steady' => IF rcall[c].client = rcached THEN size \in {"none", rphone} ELSE Steady,
         Steady' => Steady \/ \A d \in Callers : rcall[d].pc # "size"
  PROVE  RInv'
<1> DEFINE k == rcall[c].client
           new == [rclient[k] EXCEPT !.size = size]
<1>1. /\ rcall[c] \in Request /\ Served(rcall[c])
      /\ Len(rclient) \in Nat /\ rclient \in Seq(Client) /\ rcached \in 0..Len(rclient)
      /\ rsession \in Seq(Session) /\ Len(rsession) \in Nat
  BY DEF RInv, ControlTypes
<1>2. k \in DOMAIN rclient /\ k # 0 /\ (rclient[k].gen = rgen => k = rcached)
  <2>1. k \in Nat /\ k # 0 /\ k <= Len(rclient) /\ (rclient[k].gen = rgen => k = rcached)
    BY <1>1 DEF Served, Request, InUse
  <2> QED  BY <1>1, <2>1
<1>3. /\ new \in Client /\ new.gen = rclient[k].gen /\ new.ver = rclient[k].ver
      /\ new.size = size /\ new.driver = rclient[k].driver
  <2>1. rclient[k] \in Client  BY <1>2, ClientIs
  <2> QED  BY <2>1 DEF Client
<1>4. rclient' = [rclient EXCEPT ![k] = new]  BY DEF Sized
<1> HIDE DEF new, k
<1>5. /\ SameBuilds /\ DOMAIN rclient' = DOMAIN rclient /\ rclient'[k] = new
      /\ \A i \in DOMAIN rclient \ {k} : rclient'[i] = rclient[i]
  BY <1>2, <1>3, <1>4, ExceptClient
<1>6. /\ rcall' \in [Callers -> Request] /\ rcall'[c] = rec
      /\ \A d \in Callers \ {c} : rcall'[d] = rcall[d]
  BY RequestPut DEF RInv, ControlTypes
<1>7. /\ InCache'
      /\ \A d \in Callers \ {c} : (Served(rcall[d]) /\ TapCounted(rcall[d]))'
  BY <1>1, <1>5, <1>6, BuildsStay
<1>8. (Served(rcall[c]) /\ TapCounted(rcall[c]))'
  <2>1. rec.client # 0 => rec.client \in DOMAIN rclient
    <3>1. rec.client \in Nat  BY DEF Request
    <3> QED  BY <1>1, <3>1 DEF Served
  <2> QED  BY <1>5, <1>6, <2>1 DEF Served, TapCounted, SameBuilds
<1>9. ControlTypes'  BY <1>5, <1>6 DEF RInv, ControlTypes, SameBuilds
<1>10. ASSUME NEW i \in DOMAIN rclient' PROVE Fresh(i)'
  <2>1. i \in DOMAIN rclient /\ Fresh(i)  BY <1>5, <1>10 DEF RInv
  <2>2. CASE i = k  BY <1>2, <1>3, <1>5, <2>1, <2>2 DEF Fresh
  <2>3. CASE i # k
    <3>1. rclient'[i] = rclient[i]  BY <1>5, <2>1, <2>3
    <3> QED  BY <2>1, <3>1 DEF Fresh
  <2> QED  BY <2>2, <2>3
<1>11. SessionsKnown'
  <2>1. rcached # 0 => rclient'[rcached].driver = rclient[rcached].driver
    <3>1. rcached # 0 => rcached \in DOMAIN rclient  BY <1>1
    <3> QED  BY <1>3, <1>5, <3>1
  <2>2. \A s : Known(s) => Known(s)'  BY <1>6, <2>1 DEF Known
  <2> QED  BY <2>2 DEF RInv, SessionsKnown, Runs
<1>12. SizesKnown'
  <2> SUFFICES ASSUME Steady' PROVE SizesKnown'  BY DEF SizesKnown
  <2>1. ASSUME NEW d \in Callers, rcall'[d].pc = "size" PROVE rcall'[d].saw = rphone
    <3>1. d # c /\ rcall'[d] = rcall[d]  BY <1>6, <2>1
    <3>2. Steady  BY <2>1, <3>1
    <3> QED  BY <2>1, <3>1, <3>2 DEF RInv, SizesKnown
  <2>2. ASSUME rcached # 0 PROVE rclient'[rcached].size \in {"none", rphone}
    <3>1. rcached \in DOMAIN rclient  BY <1>1, <2>2
    <3>2. CASE k = rcached  BY <1>3, <1>5, <3>2 DEF k
    <3>3. CASE k # rcached
      <4>1. Steady  BY <3>3 DEF k
      <4>2. rclient'[rcached] = rclient[rcached]  BY <1>5, <3>1, <3>3
      <4> QED  BY <2>2, <4>1, <4>2 DEF RInv, SizesKnown
    <3> QED  BY <3>2, <3>3
  <2> QED  BY <2>1, <2>2 DEF SizesKnown
<1> QED  BY <1>7, <1>8, <1>9, <1>10, <1>11, <1>12 DEF RInv

LEMMA RSizedKeeps == ASSUME RInv, NEW c \in Callers, RSized(c) PROVE RInv'
<1> DEFINE goes == [rcall[c] EXCEPT !.pc = "touch", !.saw = rcall[c].saw]
<1>a. /\ rcall[c].pc = "size"
      /\ UNCHANGED <<rentry, rgen, rforgot, rcached, rbuild, rsession, rphone, rcrossed, rstray>>
  BY DEF RSized, entryVars, cacheVars, screenVars
<1>b. CASE Done(c) /\ UNCHANGED rclient
  <2>1. rbuild' \in 0..Len(rclient)  BY <1>a, <1>b DEF RInv, ControlTypes
  <2> QED  BY <1>a, <1>b, <2>1, DoneKeeps
<1> SUFFICES ASSUME ~(Done(c) /\ UNCHANGED rclient) PROVE RInv'  BY <1>b
<1>0. /\ rcall[c].pc = "size" /\ Sized(c, rcall[c].saw)
      /\ Put(c, NoRequest) \/ Put(c, [rcall[c] EXCEPT !.pc = "touch"])
      /\ UNCHANGED <<rentry, rgen, rforgot, rcached, rbuild, rsession, rphone, rcrossed, rstray>>
  BY <1>a DEF RSized, Done, Put, RGoes
<1>1. rcall[c] \in Request /\ rcall[c].saw \in Orientations \cup {"none"} /\ rcrossed \in BOOLEAN
  BY DEF RInv, ControlTypes, Request
<1>2. goes = [rcall[c] EXCEPT !.pc = "touch"]  BY <1>1 DEF Request
<1>3. goes \in Request /\ goes.pc = "touch" /\ Served(goes) /\ TapCounted(goes)
  BY <1>0, <1>1, GoesOn
<1> HIDE DEF goes
<1>4. PICK rec \in {NoRequest, goes} : Put(c, rec)  BY <1>0, <1>2
<1>5. rec \in Request /\ rec.pc \in {"idle", "touch"} /\ Served(rec) /\ TapCounted(rec)
  BY <1>3, NoRequestIs
<1>6. Steady' => Steady
  <2>1. \A d \in Callers \ {c} : rcall'[d] = rcall[d]
    BY <1>4, <1>5, RequestPut DEF RInv, ControlTypes
  <2> QED  BY <1>0, <2>1 DEF Steady
<1>7. Steady' => rcall[c].saw = rphone
  BY <1>0, <1>6 DEF RInv, SizesKnown
<1> QED  BY <1>0, <1>1, <1>4, <1>5, <1>6, <1>7, SizedMoves

LEMMA RTurnedKeeps == ASSUME RInv, NEW c \in Callers, RTurned(c) PROVE RInv'
<1>a. /\ rcall[c].pc = "turned" /\ Put(c, NoRequest)
      /\ UNCHANGED <<rentry, rgen, rforgot, rcached, rbuild, rsession, rphone, rstray>>
  BY DEF RTurned, Done, Put, entryVars, cacheVars
<1>3. /\ NoRequest \in Request /\ NoRequest.pc \in {"idle", "touch"}
      /\ Served(NoRequest) /\ TapCounted(NoRequest)
  BY NoRequestIs
<1>b. CASE rcrossed' = TRUE /\ UNCHANGED rclient
  <2> DEFINE k == rcall[c].client
             size == rclient[k].size
  <2>1. k \in DOMAIN rclient
    <3>1. /\ rcall[c] \in Request /\ Served(rcall[c])
          /\ Len(rclient) \in Nat /\ rclient \in Seq(Client)
      BY DEF RInv, ControlTypes
    <3>2. k \in Nat /\ k # 0 /\ k <= Len(rclient)
      BY <1>a, <3>1 DEF Served, InUse, Request
    <3> QED  BY <3>1, <3>2
  <2>2. rclient[k] \in Client  BY <2>1, ClientIs
  <2>3. size \in Orientations \cup {"none"} /\ [rclient[k] EXCEPT !.size = size] = rclient[k]
    BY <2>2 DEF Client
  <2>4. Sized(c, size)
    <3>1. [rclient EXCEPT ![k].size = size] = [rclient EXCEPT ![k] = rclient[k]]
      BY <2>3
    <3>2. [rclient EXCEPT ![k] = rclient[k]] = rclient  BY <2>1 DEF RInv, ControlTypes
    <3> QED  BY <1>b, <3>1, <3>2 DEF Sized
  <2>5. ~Steady'  BY <1>b DEF Steady
  <2> HIDE DEF size
  <2> QED  BY <1>a, <1>b, <1>3, <2>3, <2>4, <2>5, SizedMoves
<1> SUFFICES ASSUME ~(rcrossed' = TRUE /\ UNCHANGED rclient) PROVE RInv'  BY <1>b
<1>0. /\ rcall[c].pc = "turned" /\ Sized(c, "none") /\ Put(c, NoRequest)
      /\ rcrossed' = (rcrossed \/ rcall[c].client # rcached \/ \E d \in Callers : rcall[d].pc = "size")
      /\ UNCHANGED <<rentry, rgen, rforgot, rcached, rbuild, rsession, rphone, rstray>>
  BY <1>a DEF RTurned, Forgotten
<1>1. rcrossed' \in BOOLEAN  BY <1>0 DEF RInv, ControlTypes
<1>2. Steady' => rcall[c].client = rcached /\ \A d \in Callers : rcall[d].pc # "size"
  BY <1>0 DEF Steady
<1> QED  BY <1>0, <1>1, <1>2, <1>3, SizedMoves
-----------------------------------------------------------------------------
LEMMA ControlStepKeeps == RInv /\ [RNext]_rVars => RInv'
<1> SUFFICES ASSUME RInv, [RNext]_rVars PROVE RInv'  OBVIOUS
<1>1. CASE \E c \in Callers : RCall(c) \/ RStep(c)
  BY <1>1, RCallKeeps, RBuiltKeeps, RUseKeeps, RCommandKeeps, RDeletedKeeps, RSizeKeeps,
     RSizedKeeps, RTouchKeeps, RTurnKeeps, RTurnedKeeps DEF RStep
<1>2. CASE RServed
  BY <1>2, RReadKeeps, ROpenedKeeps, RDroppedKeeps DEF RServed
<1>3. CASE RChange \/ RForget \/ RSessionLost
  BY <1>3, RChangeKeeps, RForgetKeeps, RSessionLostKeeps
<1>4. CASE UNCHANGED rVars
  BY <1>4 DEF rVars, entryVars, cacheVars, screenVars, RInv, ControlTypes, InCache, Fresh, Served,
     TapCounted, SessionsKnown, Runs, Known, SizesKnown, Steady
<1> QED  BY <1>1, <1>2, <1>3, <1>4 DEF RNext

\* The remote control of a phone for any number of requests, sessions, failures and changes
\* of its entry: a request is served by a client no older than the entry that the cache had
\* been told to forget when it came, at rest every session that runs is the client's, a tap
\* is made twice only when its session was gone, and it is checked against the size that the
\* phone has, unless the answer to a turn was lost or a size was read while the phone turned
\* (registry-remote.ts:24-57, appium-remote.ts:24-67, wda-remote.ts:178-322).
THEOREM ControlIsKnown == RSpec => []RSafe
<1>1. RSpec => []RInv
  BY ControlInitHolds, ControlStepKeeps, PTL DEF RSpec
<1> QED  BY <1>1, ControlIsSafe, PTL

=============================================================================
