---------------------------- MODULE Registration ----------------------------
(***************************************************************************)
(* The guided registration of iPhones (src/src/devices/registration.ts):   *)
(* drafts in memory and on disk, the actions that run on them in the       *)
(* background, the supervisor each may start, and the end in devices.json. *)
(*                                                                         *)
(* A draft's checks are three: the cable, WDA, and what `verify` looks at. *)
(* Whether a check passes is the phone's affair, so any outcome may come.  *)
(* An action goes on after its draft was cancelled, or replaced by that of *)
(* a second create, on an object that nobody else has; gcut keeps the      *)
(* phones where that happened.  A write to disk may fail, also the last    *)
(* one of a draft: gunsaved.                                               *)
(***************************************************************************)
EXTENDS Integers, FiniteSets

CONSTANTS Phones, Ports,
          MaxCalls    \* bound of gcalls

ASSUME RegistrationAssumption ==
  "none" \notin Ports /\ "none" \notin Phones /\ MaxCalls \in Nat

VARIABLES gdraft,  \* DeviceRegistrationService.sessions
          gfile,   \* the draft's file
          gjob,    \* actions under way; mine: their draft is still in sessions
          gmake,   \* creates under way; port: the pair each has chosen
          gcancel, \* the phones of which a draft is being cancelled
          gprep,   \* activePreparation
          greg,    \* the port pairs of the phones in devices.json
          gstray,  \* phones with a supervisor that no draft has
          gunsaved,\* drafts whose last write to disk failed
          gcut, gtwin,  \* history: cancelled in use, or replaced; two phones' pairs
                        \* were chosen at once
          gcalls

gVars == <<gdraft, gfile, gjob, gmake, gcancel, gprep, greg, gstray, gunsaved, gcut, gtwin, gcalls>>
pending == <<gmake, gcancel>>
history == <<gcut, gtwin>>

Nothing == "none"
NoDraft == [on |-> FALSE, port |-> Nothing, cable |-> FALSE, wda |-> FALSE, seen |-> FALSE,
            final |-> FALSE, busy |-> FALSE, sup |-> FALSE]

\* What persist writes: the checks, the ports, whether it is finalized.
Stored(draft) == [draft EXCEPT !.busy = FALSE, !.sup = FALSE]

GInit ==
  /\ gdraft = [d \in Phones |-> NoDraft] /\ gfile = gdraft
  /\ gjob = {} /\ gmake = {} /\ gcancel = {} /\ gprep = Nothing
  /\ greg = [d \in Phones |-> Nothing] /\ gstray = {} /\ gunsaved = {}
  /\ gcut = {} /\ gtwin = FALSE /\ gcalls = 0

Call == gcalls < MaxCalls /\ gcalls' = gcalls + 1
Job(d, kind, pc) ==
  [phone |-> d, kind |-> kind, pc |-> pc, mine |-> TRUE, port |-> gdraft[d].port]
JobsOf(d) == {j \in gjob : j.phone = d}
CanFinalize(draft) == draft.cable /\ draft.wda /\ draft.seen

\* The draft becomes `draft`, and is persisted, unless that fails, or a refresh of create
\* throws before it: the caller is told or a line is logged, and the draft stays as it is
\* in memory.  (One draft is unsaved
\* at a time: a bound.)
Save(d, draft) ==
  /\ gdraft' = [gdraft EXCEPT ![d] = draft]
  /\ \/ gfile' = [gfile EXCEPT ![d] = Stored(draft)] /\ gunsaved' = gunsaved \ {d}
     \/ gunsaved \subseteq {d} /\ gunsaved' = {d} /\ UNCHANGED gfile

\* What still runs for the phone has a draft that sessions has no more.  (One old action
\* of a phone at a time: a bound.)
Severed(d) == {IF j.phone = d THEN [j EXCEPT !.mine = FALSE] ELSE j : j \in gjob}
MaySever(d) == \A j \in JobsOf(d) : j.mine

-----------------------------------------------------------------------------
(* The calls                                                               *)

\* create of a phone without a draft (two at once are what the model bounds it to); its
\* first look at sessions is the last one ...
GAsk(d) ==
  /\ ~gdraft[d].on /\ Call
  /\ \E nth \in 1..2 :
       /\ \A m \in gmake : m.phone = d => m.nth < nth
       /\ gmake' = gmake \cup {[phone |-> d, nth |-> nth, port |-> Nothing]}
  /\ UNCHANGED <<gdraft, gfile, gjob, gcancel, gprep, greg, gstray, gunsaved, history>>

\* ... a phone that is registered by then, and has no draft in progress, is refused; the
\* port pairs of devices.json and of the drafts are read, the first free pair is chosen ...
TakenSlip == {greg[d] : d \in Phones}
Taken == {greg[d] : d \in Phones} \cup {gdraft[d].port : d \in Phones}
Candidate(d) == greg[d] = Nothing \/ (gdraft[d].on /\ ~gdraft[d].final)
GAllocate(m) ==
  /\ m.port = Nothing
  /\ IF Candidate(m.phone) /\ Ports \ Taken # {}
     THEN /\ gmake' = (gmake \ {m}) \cup {[m EXCEPT !.port = CHOOSE p \in Ports : p \notin Taken]}
          /\ gtwin' = (gtwin \/ \E n \in gmake : n.phone # m.phone /\ n.port # Nothing)
     ELSE gmake' = gmake \ {m} /\ UNCHANGED gtwin
  /\ UNCHANGED <<gdraft, gfile, gjob, gcancel, gprep, greg, gstray, gunsaved, gcut, gcalls>>

\* ... and tried, and only then taken by the new draft, which replaces the one that
\* another create has put in sessions meanwhile.  Its refresh does not make it busy.
GCreate(m) ==
  LET d == m.phone IN
  /\ m.port # Nothing /\ gmake' = gmake \ {m}
  /\ gdraft' = [gdraft EXCEPT ![d] = [NoDraft EXCEPT !.on = TRUE, !.port = m.port]]
  /\ gdraft[d].on => MaySever(d)
  /\ gjob' = Severed(d) \cup {[Job(d, "look", "look") EXCEPT !.port = m.port]}
  /\ gcut' = IF gdraft[d].on THEN gcut \cup {d} ELSE gcut
  /\ gstray' = IF gdraft[d].sup THEN gstray \cup {d} ELSE gstray
  /\ UNCHANGED <<gfile, gcancel, gprep, greg, gunsaved, gtwin, gcalls>>

\* create of a phone that has a draft refreshes it, also while an action runs.
GCreateAgain(d) ==
  /\ gdraft[d].on /\ Call
  /\ Job(d, "look", "look") \notin gjob /\ gjob' = gjob \cup {Job(d, "look", "look")}
  /\ UNCHANGED <<gdraft, gfile, pending, gprep, greg, gstray, gunsaved, history>>

\* update: other accounts have to be verified again.
GUpdate(d) ==
  /\ gdraft[d].on /\ ~gdraft[d].busy /\ gdraft[d].seen /\ Call
  /\ Save(d, [gdraft[d] EXCEPT !.seen = FALSE])
  /\ UNCHANGED <<gjob, pending, gprep, greg, gstray, history>>

\* run: refresh, prepare and verify go on in the background; one phone is
\* prepared at a time.
MayPrepare(d) == gprep \in {Nothing, d}
GRun(d, kind) ==
  /\ gdraft[d].on /\ ~gdraft[d].busy /\ Call
  /\ kind = "prepare" => MayPrepare(d)
  /\ gprep' = IF kind = "prepare" THEN d ELSE gprep
  /\ Save(d, [gdraft[d] EXCEPT !.busy = TRUE])
  /\ gjob' = gjob \cup {Job(d, kind, IF kind = "refresh" THEN "look" ELSE kind)}
  /\ UNCHANGED <<pending, greg, gstray, history>>

\* run("finalize"): refused, with the draft persisted, or the phone is added to
\* devices.json if it is not there.
GFinalize(d) ==
  /\ gdraft[d].on /\ ~gdraft[d].busy /\ Call
  /\ IF ~CanFinalize(gdraft[d]) THEN Save(d, gdraft[d]) /\ UNCHANGED <<gjob, greg>>
     ELSE /\ gdraft' = [gdraft EXCEPT ![d].busy = TRUE] /\ UNCHANGED <<gfile, gunsaved>>
          /\ greg' = IF greg[d] = Nothing THEN [greg EXCEPT ![d] = gdraft[d].port] ELSE greg
          /\ gjob' = gjob \cup {Job(d, "finalize", "stop")}
  /\ UNCHANGED <<pending, gprep, gstray, history>>

\* cancel: the supervisor is stopped; then the draft and its file are deleted, those that
\* are there by then.
Stop(d) == [gdraft EXCEPT ![d].sup = FALSE]
GCancel(d) ==
  /\ gdraft[d].on /\ d \notin gcancel /\ Call
  /\ gcancel' = gcancel \cup {d} /\ gdraft' = Stop(d)
  /\ UNCHANGED <<gfile, gjob, gmake, gprep, greg, gstray, gunsaved, history>>
GDeleted(d) ==
  /\ d \in gcancel /\ MaySever(d)
  /\ gcancel' = gcancel \ {d}
  /\ gdraft' = [gdraft EXCEPT ![d] = NoDraft] /\ gfile' = [gfile EXCEPT ![d] = NoDraft]
  /\ gstray' = IF gdraft[d].sup THEN gstray \cup {d} ELSE gstray
  /\ gcut' = IF JobsOf(d) # {} THEN gcut \cup {d} ELSE gcut
  /\ gjob' = Severed(d) /\ gunsaved' = gunsaved \ {d}
  /\ UNCHANGED <<gmake, gprep, greg, gtwin, gcalls>>

-----------------------------------------------------------------------------
(* The actions                                                             *)

\* The end of an action: activePreparation is released, busy cleared, the draft
\* persisted.  The file of a draft that was cancelled or replaced comes back.
Ended(j, draft) ==
  /\ IF j.mine
     THEN Save(j.phone, IF j.kind = "look" THEN draft ELSE [draft EXCEPT !.busy = FALSE])
     ELSE /\ UNCHANGED gdraft
          /\ gfile' = [gfile EXCEPT ![j.phone] = [NoDraft EXCEPT !.on = TRUE, !.port = j.port]]
          /\ UNCHANGED gunsaved
  /\ gprep' = IF j.kind = "prepare" /\ gprep = j.phone THEN Nothing ELSE gprep
  /\ gjob' = gjob \ {j}

Goes(j, pc) == gjob' = (gjob \ {j}) \cup {[j EXCEPT !.pc = pc]}

\* refresh: the cable and WDA, then persist.
Look(j) ==
  /\ j.pc = "look"
  /\ \E cable, wda \in BOOLEAN : Ended(j, [gdraft[j.phone] EXCEPT !.cable = cable, !.wda = wda])
  /\ UNCHANGED gstray

\* prepare: Xcode builds and provisions WDA for a phone on the cable ...
Prepare(j) ==
  /\ j.pc = "prepare" /\ UNCHANGED gstray
  /\ IF j.mine /\ ~gdraft[j.phone].cable THEN Ended(j, gdraft[j.phone])
     ELSE Goes(j, "xcode") /\ UNCHANGED <<gdraft, gfile, gunsaved, gprep>>
\* ... fails, or a supervisor is started in place of the last one ...
Xcode(j) ==
  /\ j.pc = "xcode"
  /\ \/ Ended(j, [gdraft[j.phone] EXCEPT !.wda = FALSE]) /\ UNCHANGED gstray
     \/ /\ Goes(j, "wait") /\ UNCHANGED <<gfile, gunsaved, gprep>>
        /\ gdraft' = IF j.mine THEN [gdraft EXCEPT ![j.phone].sup = TRUE] ELSE gdraft
        /\ gstray' = IF j.mine THEN gstray ELSE gstray \cup {j.phone}
\* ... and its WDA is waited for.
Wait(j) ==
  /\ j.pc = "wait" /\ UNCHANGED gstray
  /\ \E ready \in BOOLEAN : Ended(j, [gdraft[j.phone] EXCEPT !.wda = ready])

\* verify: WDA must answer; then Appium, video, touch and accounts pass or not.
Verify(j) ==
  /\ j.pc = "verify" /\ UNCHANGED gstray
  /\ \E wda, seen \in BOOLEAN :
       Ended(j, [gdraft[j.phone] EXCEPT !.wda = wda, !.seen = IF wda THEN seen ELSE @])

\* finalize: the wizard's supervisor is stopped for the fleet's, which must answer.
HandOver(j) ==
  /\ j.pc = "stop" /\ Goes(j, "handed") /\ UNCHANGED <<gfile, gunsaved, gprep, gstray>>
  /\ gdraft' = IF j.mine THEN [gdraft EXCEPT ![j.phone].sup = FALSE, ![j.phone].wda = FALSE] ELSE gdraft
HandedOver(j) ==
  /\ j.pc = "handed" /\ UNCHANGED gstray
  /\ \E ready \in BOOLEAN :
       Ended(j, [gdraft[j.phone] EXCEPT !.wda = ready, !.final = @ \/ ready])

Action(j) ==
  /\ Look(j) \/ Prepare(j) \/ Xcode(j) \/ Wait(j) \/ Verify(j) \/ HandOver(j) \/ HandedOver(j)
  /\ UNCHANGED <<pending, greg, history, gcalls>>

-----------------------------------------------------------------------------
\* The supervisor of a draft exits.
GExit(d) ==
  /\ gdraft[d].sup /\ gdraft' = [gdraft EXCEPT ![d].sup = FALSE]
  /\ UNCHANGED <<gfile, gjob, pending, gprep, greg, gstray, gunsaved, history, gcalls>>

\* The service stops and starts again: close() stops every draft's supervisor,
\* a crash none; start() restores the drafts that are not finalized.
GRestart(clean) ==
  /\ Call
  /\ gdraft' = [d \in Phones |-> IF gfile[d].final THEN NoDraft ELSE gfile[d]]
  /\ gjob' = {} /\ gmake' = {} /\ gcancel' = {} /\ gprep' = Nothing /\ gunsaved' = {}
  /\ gstray' = IF clean THEN gstray ELSE gstray \cup {d \in Phones : gdraft[d].sup}
  /\ UNCHANGED <<gfile, greg, history>>

\* DELETE /api/devices/:udid.
GUnregister(d) ==
  /\ greg[d] # Nothing /\ Call /\ greg' = [greg EXCEPT ![d] = Nothing]
  /\ UNCHANGED <<gdraft, gfile, gjob, pending, gprep, gstray, gunsaved, history>>

GCalls(d) ==
  \/ GAsk(d) \/ GCreateAgain(d) \/ GUpdate(d) \/ GFinalize(d) \/ GCancel(d) \/ GUnregister(d)
  \/ \E kind \in {"refresh", "prepare", "verify"} : GRun(d, kind)
GNext ==
  \/ \E d \in Phones : GCalls(d) \/ GDeleted(d) \/ GExit(d)
  \/ \E m \in gmake : GAllocate(m) \/ GCreate(m)
  \/ \E j \in gjob : Action(j)
  \/ \E clean \in BOOLEAN : GRestart(clean)

GSpec == GInit /\ [][GNext]_gVars

-----------------------------------------------------------------------------
\* Types of the state.
GTypeOK ==
  /\ \A d \in Phones :
       /\ {gdraft[d].port, gfile[d].port, greg[d]} \subseteq Ports \cup {Nothing}
       /\ gdraft[d].on <=> gdraft[d].port # Nothing
  /\ gmake \subseteq [phone : Phones, nth : 1..2, port : Ports \cup {Nothing}]
  /\ gcancel \subseteq Phones /\ gunsaved \subseteq Phones
  /\ gprep \in Phones \cup {Nothing} /\ gcalls \in 0..MaxCalls
  /\ \A j \in gjob : j.pc \in {"look", "prepare", "xcode", "wait", "verify", "stop", "handed"}

\* No two phones have the same port pair, drafts and registered phones, across
\* restarts and failed writes: unless the pairs of two phones were chosen at once, or an
\* old draft's file came back, of one that was cancelled in use or replaced
\* (registration.ts:118-139, 204-237).
GPortsOwn ==
  ~gtwin /\ gcut = {} =>
    \A d, e \in Phones : d # e =>
      {gdraft[d].port, greg[d]} \cap {gdraft[e].port, greg[e]} \subseteq {Nothing}

\* Xcode provisions one phone at a time (registration.ts:274-276), unless a draft
\* was cancelled in use or replaced.
GOneProvisioned == gcut = {} => Cardinality({j \in gjob : j.pc \in {"xcode", "wait"}}) <= 1

\* A draft at rest is on disk as it is, so that a restart brings it back with its ports,
\* unless its last write failed, or a draft of the phone was cancelled in use, or replaced
\* by a second create, whose actions write over it (registration.ts:160-192, 234, 288-308,
\* 701-707).
GSaved ==
  \A d \in Phones \ (gcut \cup gunsaved) :
    gdraft[d].on /\ JobsOf(d) = {} => gfile[d] = Stored(gdraft[d])

\* The place of the one preparation is held for a phone only while that phone's
\* preparation runs: none that failed, was cancelled or crossed another one keeps
\* the other phones from theirs (registration.ts:274-276, 286-302).
GReleased == gprep # Nothing => \E j \in JobsOf(gprep) : j.kind = "prepare"

\* The registration of phones, whatever is cancelled, crossed or restarted: ports,
\* preparations and files stay each phone's own (registration.ts:118-315, 701-707).
GSafe == GTypeOK /\ GPortsOwn /\ GOneProvisioned /\ GSaved /\ GReleased
=============================================================================
