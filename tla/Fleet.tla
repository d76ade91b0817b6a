------------------------------- MODULE Fleet -------------------------------
(***************************************************************************)
(* One phone between the control plane (DeviceWorkerFleet in               *)
(* src/src/device-workers.ts, the routes that write devices.json) and the  *)
(* device workers (src/src/device-worker-server.ts).                       *)
(*                                                                         *)
(* A timer starts a refresh whether or not the last one has ended: it asks *)
(* every worker for its inventory, merges that into devices.json and sends *)
(* every phone's configuration back.  An operator's edit sends it, too.    *)
(* These requests overtake one another.  Of a phone's record the disabled  *)
(* flag and the coordinate profile are kept: they stand for what only the  *)
(* control plane decides, and for what it takes over where it has none.    *)
(***************************************************************************)
EXTENDS Integers, FiniteSets

CONSTANTS Workers,     \* the configured device workers
          Refreshes,   \* refreshes that may overlap
          Known,       \* the profile the phone is registered with on each worker
          MaxEdits,    \* bound of uedits
          MaxOverlaps, \* bound of uoverlaps
          MaxTroubles  \* bound of utroubles

VARIABLES ureg,      \* the phone in the control plane's devices.json
          uowner,    \* DeviceWorkerFleet.ownership of the phone
          ushown,    \* the worker in DeviceWorkerFleet.snapshots
          uworker,   \* every worker: is it up, and the phone in its devices.json
          upass,     \* refreshes and the operator's request: step and answers
          umail,     \* configurations on their way
          uedits, uoverlaps, utroubles

uVars == <<ureg, uowner, ushown, uworker, upass, umail, uedits, uoverlaps, utroubles>>
view == <<uowner, ushown>>

Nobody == "nobody"
Operator == "operator"
Profiles == {"none", "iphone8", "iphone11"}

ASSUME FleetAssumption ==
  {MaxEdits, MaxOverlaps, MaxTroubles} \subseteq Nat /\ Known \in [Workers -> Profiles]

\* What a worker has of a phone, the control plane's record, an answer.
Unregistered == [has |-> FALSE, off |-> FALSE, profile |-> "none"]
NoDevice == [worker |-> Nobody, off |-> FALSE, profile |-> "none"]
Unasked == [asked |-> FALSE, has |-> FALSE, profile |-> "none"]
Silent == [Unasked EXCEPT !.asked = TRUE]
Idle == [pc |-> "idle", seen |-> [w \in Workers |-> Unasked]]

UInit ==
  /\ ureg = NoDevice /\ uowner = Nobody /\ ushown = Nobody
  /\ uworker = [w \in Workers |-> [up |-> TRUE, dev |-> Unregistered]]
  /\ upass = [p \in Refreshes \cup {Operator} |-> Idle]
  /\ umail = {} /\ uedits = 0 /\ uoverlaps = 0 /\ utroubles = 0

Trouble == utroubles < MaxTroubles /\ utroubles' = utroubles + 1 /\ UNCHANGED <<uedits, uoverlaps>>
NoTrouble == UNCHANGED <<uedits, uoverlaps, utroubles>>
UGo(p, pc) == upass' = [upass EXCEPT ![p].pc = pc]

-----------------------------------------------------------------------------
(* refresh                                                                 *)

\* The timer does not wait for the last refresh to end.
UTick(p) ==
  /\ upass[p].pc = "idle" /\ UGo(p, "ask")
  /\ IF \A q \in Refreshes : upass[q].pc = "idle" THEN NoTrouble
     ELSE /\ uoverlaps < MaxOverlaps /\ uoverlaps' = uoverlaps + 1
          /\ UNCHANGED <<uedits, utroubles>>
  /\ UNCHANGED <<ureg, view, uworker, umail>>

\* GET /health, /v1/devices and /v1/host.  A worker that is down, does not
\* answer in time or advertises a malformed phone has no phone.
UAsk(p, w) ==
  /\ upass[p].pc = "ask" /\ ~upass[p].seen[w].asked
  /\ \/ /\ uworker[w].up /\ NoTrouble
        /\ LET d == uworker[w].dev IN
           upass' = [upass EXCEPT ![p].seen[w] =
             [asked |-> TRUE, has |-> d.has, profile |-> d.profile]]
     \/ /\ IF uworker[w].up THEN Trouble ELSE NoTrouble
        /\ upass' = [upass EXCEPT ![p].seen[w] = Silent]
  /\ UNCHANGED <<ureg, view, uworker, umail>>

\* A phone that two workers advertise is quarantined.
Owner(seen) ==
  LET ads == {w \in Workers : seen[w].has} IN
  IF Cardinality(ads) = 1 THEN CHOOSE w \in ads : TRUE ELSE Nobody

\* `disabled` is not the worker's to say; a profile is taken over where there is
\* none (other fields always are).  An unknown phone is added.
MergedSlip(w, seen) == IF w = Nobody THEN ureg ELSE [ureg EXCEPT !.worker = w]
Merged(w, seen) ==
  IF w = Nobody THEN ureg
  ELSE [ureg EXCEPT !.worker = w, !.profile = IF @ = "none" THEN seen[w].profile ELSE @]

\* mutateRegisteredDevices: load, merge and save are one link of the chain; the
\* ownership and the snapshots are replaced when it resolves.  Where the save
\* fails the refresh does.
UMerge(p) ==
  /\ upass[p].pc = "ask" /\ \A w \in Workers : upass[p].seen[w].asked
  /\ \/ /\ LET w == Owner(upass[p].seen) IN
           ureg' = Merged(w, upass[p].seen) /\ uowner' = w /\ ushown' = w
        /\ upass' = [upass EXCEPT ![p] = [Idle EXCEPT !.pc = "load"]] /\ NoTrouble
     \/ /\ Trouble /\ upass' = [upass EXCEPT ![p] = Idle] /\ UNCHANGED <<ureg, view>>
  /\ UNCHANGED <<uworker, umail>>

\* The configuration that updateConfig sends: a profile that is not set is left
\* out of it, `disabled` never is.
Config(p) == [from |-> p, to |-> ureg.worker, off |-> ureg.off,
              profile |-> IF ureg.profile = "none" THEN "absent" ELSE ureg.profile]

\* The refresh ends; the operator's request forgets the owner then.
UEnded(p) ==
  /\ UGo(p, "idle")
  /\ uowner' = IF p = Operator THEN Nobody ELSE uowner

\* devices.json is read again, and every phone of a known worker is synchronised.
\* (A name is free for a new request only when its last one has arrived.)
ULoad(p) ==
  /\ upass[p].pc = "load"
  /\ IF ureg.worker = Nobody THEN UEnded(p) /\ UNCHANGED <<umail, ushown>>
     ELSE /\ UNCHANGED view /\ \A x \in umail : x.from # p
          /\ umail' = umail \cup {Config(p)} /\ UGo(p, "sync")
  /\ NoTrouble /\ UNCHANGED <<ureg, uworker>>

\* What a worker makes of PATCH /v1/devices/:udid/config.
AppliedSlip(dev, msg) == [dev EXCEPT !.off = msg.off, !.profile = msg.profile]
Applied(dev, msg) ==
  [dev EXCEPT !.off = msg.off,
              !.profile = IF msg.profile = "absent" THEN @ ELSE msg.profile]

\* The request arrives, now or after its sender gave up; or it does not.
UArrives(x) ==
  /\ umail' = umail \ {x}
  /\ IF uworker[x.to].up /\ uworker[x.to].dev.has
     THEN uworker' = [uworker EXCEPT ![x.to].dev = Applied(@, x)]
     ELSE UNCHANGED uworker
  /\ IF upass[x.from].pc = "sync" THEN UEnded(x.from) ELSE UNCHANGED <<upass, uowner>>
  /\ NoTrouble /\ UNCHANGED <<ureg, ushown>>
UGivesUp(p) ==
  /\ upass[p].pc = "sync" /\ Trouble /\ UEnded(p)
  /\ UNCHANGED <<ureg, ushown, uworker, umail>>

-----------------------------------------------------------------------------
(* The operator, the workers, the network.                                 *)

\* PATCH and DELETE /api/devices/:udid.
UEdit ==
  /\ upass[Operator].pc = "idle" /\ ureg.worker # Nobody
  /\ uedits < MaxEdits /\ uedits' = uedits + 1 /\ UNCHANGED <<uoverlaps, utroubles>>
  /\ \/ ureg' = [ureg EXCEPT !.off = ~@]
     \/ ureg' = [ureg EXCEPT !.profile = "iphone11"]
     \/ ureg' = NoDevice
  /\ ureg' # ureg
  /\ UGo(Operator, "load") /\ UNCHANGED <<view, uworker, umail>>

\* The phone is registered on a worker, there or by POST
\* /v1/runtime-devices/:udid/register (the refresh after that is any refresh).
URegister(w) ==
  /\ uworker[w].up /\ ~uworker[w].dev.has
  /\ uworker' = [uworker EXCEPT ![w].dev =
       [Unregistered EXCEPT !.has = TRUE, !.profile = Known[w]]]
  /\ NoTrouble /\ UNCHANGED <<ureg, view, upass, umail>>

UUpDown(w) ==
  /\ IF uworker[w].up THEN Trouble ELSE NoTrouble
  /\ uworker' = [uworker EXCEPT ![w].up = ~@]
  /\ UNCHANGED <<ureg, view, upass, umail>>

UPass(p) == (\E w \in Workers : UAsk(p, w)) \/ UMerge(p) \/ ULoad(p)
UNext ==
  \/ \E p \in Refreshes : UTick(p)
  \/ \E p \in Refreshes \cup {Operator} : UPass(p) \/ UGivesUp(p)
  \/ \E x \in umail : UArrives(x)
  \/ UEdit \/ \E w \in Workers : URegister(w) \/ UUpDown(w)

\* The timer fires, every await ends, every request arrives or is lost.
UTimer == \E p \in Refreshes : UTick(p)
UArrival(p) == \E x \in umail : x.from = p /\ UArrives(x)

USpec ==
  /\ UInit /\ [][UNext]_uVars /\ WF_uVars(UTimer)
  /\ \A p \in Refreshes \cup {Operator} : WF_uVars(UPass(p)) /\ WF_uVars(UArrival(p))

-----------------------------------------------------------------------------
\* Types of the state.
UTypeOK ==
  /\ ureg \in [worker : Workers \cup {Nobody}, off : BOOLEAN, profile : Profiles]
  /\ {uowner, ushown} \subseteq Workers \cup {Nobody}
  /\ \A w \in Workers : uworker[w].dev.profile \in Profiles
  /\ \A p \in DOMAIN upass : upass[p].pc \in {"idle", "ask", "load", "sync"}
  /\ uedits \in 0..MaxEdits /\ uoverlaps \in 0..MaxOverlaps /\ utroubles \in 0..MaxTroubles

Advertisers == {w \in Workers : uworker[w].up /\ uworker[w].dev.has}

\* Once workers come and go no more, the worker of a phone has the control plane's
\* `disabled` and profile and keeps them, whatever was overtaken, lost or answered
\* late: no synchronisation resets its transport any more (device-workers.ts:608-617,
\* device-worker-server.ts:103-109).
UConfigured ==
  <>[](Cardinality(Advertisers) = 1 =>
         \A w \in Advertisers :
           uworker[w].dev.off = ureg.off /\ uworker[w].dev.profile = ureg.profile)

\* A phone that exactly one worker that answers has ends up in the registry, as
\* that worker's, and stays visible and routed to it (device-workers.ts:550-607).
UOwned == <>[](Cardinality(Advertisers) = 1 => {ureg.worker, uowner, ushown} = Advertisers)

\* A phone that two workers claim ends up quarantined, and stays so, whichever
\* refresh overtook which (device-workers.ts:540-555).
UQuarantined == <>[](Cardinality(Advertisers) > 1 => uowner = Nobody /\ ushown = Nobody)

\* The control plane and the workers come to agree: on a phone's configuration, its
\* worker or its quarantine (device-workers.ts:517-619).
FleetSettles == UConfigured /\ UOwned /\ UQuarantined
=============================================================================
