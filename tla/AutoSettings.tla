---------------------------- MODULE AutoSettings ----------------------------
(***************************************************************************)
(* The automatic draining of the phones' video queues: the switch on the   *)
(* page (static/dashboard/ts/automations.ts), and the route behind it,     *)
(* which replaces a phone's schedules and the plugin's data of the phone   *)
(* in devices.json (tiktok-plugin.ts).  Every phone of a request goes      *)
(* through three steps that others may come between, and nothing keeps an  *)
(* operator from switching again before the last request is answered.      *)
(***************************************************************************)
EXTENDS Naturals, FiniteSets, SequencesExt

CONSTANTS AutoPhones,  \* the phones of the fleet, none of which is disabled
          MaxTurns,    \* clicks on the page
          MaxReads,    \* refreshes on their way at once
          MaxFlaws     \* calls that fail, and crashes of the API
ASSUME AutoSettingsAssumption ==
  /\ {MaxTurns, MaxReads, MaxFlaws} \subseteq Nat
  /\ IsFiniteSet(AutoPhones) /\ AutoPhones # {} /\ "fleet" \notin AutoPhones

VARIABLES hdata,       \* the plugin's data of each phone
          hactive,     \* schedules that drain queues
          hpage,       \* the page
          hreads,      \* refreshes on their way
          hsaves,      \* requests to /pipeline/auto on their way
          hchosen,     \* history: what the operator last switched a phone to
          hpast,       \* history: what excuses a phone, below
          hstray,      \* history: drains whose cancellation was rejected, or that a
                       \* failed call or a crash made and left to no one
          hturns, hflaws
hVars == <<hdata, hactive, hpage, hreads, hsaves, hchosen, hpast, hstray, hturns, hflaws>>

Ids == 1..MaxTurns     \* one schedule of a phone for each request
First == CHOOSE p \in AutoPhones : TRUE
NoData == [p \in AutoPhones |-> [on |-> FALSE, fleet |-> FALSE, ids |-> {}, flows |-> 0]]
HInit ==
  /\ hdata = NoData
  /\ hactive = {} /\ hsaves = {} /\ hstray = {}
  /\ hpage = [phone |-> First, fleet |-> FALSE, on |-> FALSE,
       shown |-> FALSE,     \* history: `on` is an answer for the phone that is chosen
       mixed |-> FALSE]     \* history: ... which may be older than a save, or set back
  /\ hchosen = [p \in AutoPhones |-> FALSE]
  /\ hpast = [p \in AutoPhones |-> [crossed |-> FALSE, failed |-> FALSE, early |-> FALSE,
                                    flows |-> 0]]
  /\ hreads = {[of |-> hpage.phone, read |-> FALSE, data |-> <<>>]}
  /\ hturns = 0 /\ hflaws = 0

\* selectedUdid: of a fleet, the first phone.
Selected == IF hpage.fleet THEN First ELSE hpage.phone
Order == SetToSeq(AutoPhones)

Turns == hturns < MaxTurns /\ hturns' = hturns + 1 /\ hflaws' = hflaws

-----------------------------------------------------------------------------
(***************************************************************************)
(* applyPipelineAuto: for each phone the schedules it had when the request *)
(* came are cancelled, new ones made, and its data written back as it was  *)
(* read, with the new settings.                                            *)
(***************************************************************************)

Switched(save) == IF save.fleet THEN AutoPhones ELSE {save.phone}
Meets(p) == \E s \in hsaves : p \in Switched(s)

\* The phones' data is read.
HReadsData(save) ==
  /\ save.at = "sent"
  /\ hsaves' = (hsaves \ {save}) \cup {[save EXCEPT !.at = "cancel", !.data = [p \in Switched(save) |-> hdata[p]],
       !.left = IF save.fleet THEN Order ELSE <<save.phone>>]}
  /\ UNCHANGED <<hdata, hactive, hpage, hreads, hchosen, hpast, hstray, hturns, hflaws>>

CancelledSlip(p, data) == hactive
Cancelled(p, data) == hactive \ {<<p, i>> : i \in data[p].ids}

\* A cancellation that is rejected is passed over.
HCancels(save) ==
  LET p == Head(save.left)
      next == Cancelled(p, save.data)
  IN  /\ save.at = "cancel"
      /\ \E kept \in SUBSET (hactive \ next) :
           /\ hactive' = next \cup kept /\ hstray' = hstray \cup kept
           /\ IF kept = {} THEN hflaws' = hflaws ELSE hflaws < MaxFlaws /\ hflaws' = hflaws + 1
      /\ hsaves' = (hsaves \ {save}) \cup {[save EXCEPT !.at = "create"]}
      /\ UNCHANGED <<hdata, hpage, hreads, hchosen, hpast, hturns>>

Created(p, save) == IF save.on THEN hactive \cup {<<p, save.id>>} ELSE hactive

HCreates(save) ==
  LET p == Head(save.left)
  IN  /\ save.at = "create"
      /\ hactive' = Created(p, save)
      /\ hsaves' = (hsaves \ {save}) \cup {[save EXCEPT !.at = "write"]}
      /\ UNCHANGED <<hdata, hpage, hreads, hchosen, hpast, hstray, hturns, hflaws>>

NextData(save, p) ==
  [save.data[p] EXCEPT !.on = save.on, !.fleet = save.fleet,
                       !.ids = IF save.on THEN {save.id} ELSE {}]

HWrites(save) ==
  LET p == Head(save.left)
  IN  /\ save.at = "write"
      /\ hdata' = [hdata EXCEPT ![p] = NextData(save, p)]
      /\ hsaves' = (hsaves \ {save}) \cup
           {IF Len(save.left) = 1
            THEN [save EXCEPT !.left = <<>>, !.at = "done", !.data = <<>>]
            ELSE [save EXCEPT !.left = Tail(@), !.at = "cancel"]}
      /\ UNCHANGED <<hactive, hpage, hreads, hchosen, hpast, hstray, hturns, hflaws>>

\* What a request is making, or has made and not written yet.
Halfway(save) ==
  IF save.at \in {"create", "write"} /\ save.on THEN {<<Head(save.left), save.id>>} ELSE {}
Failed(saves) ==
  [p \in AutoPhones |->
     [hpast[p] EXCEPT !.failed = @ \/ \E s \in saves : p \in Switched(s)]]

\* The phones cannot be read, a schedule cannot be made (or the answer to its making
\* is lost), or the phone is gone: all that the request made are cancelled, those of
\* the phones that were written too, and a cancellation that is rejected is passed over.
HFails(save) ==
  /\ save.at \in {"sent", "write"} \/ (save.at = "create" /\ save.on)
  /\ hflaws < MaxFlaws /\ hflaws' = hflaws + 1
  /\ LET made == {<<p, save.id>> : p \in AutoPhones}
     IN  \E kept \in SUBSET ((hactive \cap made) \cup Halfway(save)) :
           hactive' = (hactive \ made) \cup kept /\ hstray' = hstray \cup kept
  /\ hsaves' = (hsaves \ {save}) \cup {[save EXCEPT !.at = "failed", !.data = <<>>]}
  /\ hpast' = Failed({save})
  /\ UNCHANGED <<hdata, hpage, hreads, hchosen, hturns>>

\* The API crashes and is started again: what was under way fails and leaves what it
\* has done.
HCrash ==
  /\ hflaws < MaxFlaws /\ hflaws' = hflaws + 1
  /\ LET lost == {s \in hsaves : s.at \notin {"done", "failed"}}
         halves == UNION {Halfway(s) : s \in lost}
     IN  /\ \E made \in SUBSET halves : hactive' = hactive \cup made
         /\ hstray' = hstray \cup halves
         /\ hsaves' = (hsaves \ lost) \cup
              {[s EXCEPT !.at = "failed", !.data = <<>>] : s \in lost}
         /\ hpast' = Failed(lost)
  /\ hreads' = {r \in hreads : r.read}
  /\ UNCHANGED <<hdata, hpage, hchosen, hturns>>

\* A workflow of a phone is saved (POST workflows): other data of the same plugin.
HWorkflow(p) ==
  /\ Turns /\ hdata' = [hdata EXCEPT ![p].flows = hturns']
  /\ hpast' = [hpast EXCEPT ![p].flows = hturns',
       ![p].crossed = @ \/ Meets(p)]
  /\ UNCHANGED <<hactive, hpage, hreads, hsaves, hchosen, hstray>>

-----------------------------------------------------------------------------
(***************************************************************************)
(* The page.                                                               *)
(***************************************************************************)

\* refreshPipeline: of a fleet, each phone's state is read in its own time, which
\* is one reading here.
Reloads(page, saves) ==
  /\ Cardinality(hreads) < MaxReads
  /\ hreads' = hreads \cup {[of |-> IF page.fleet THEN "fleet" ELSE page.phone,
                              read |-> FALSE, data |-> <<>>]}
  /\ hpage' = [page EXCEPT !.shown = FALSE, !.mixed = hreads # {} \/ saves # {}]

HRefresh ==
  /\ Turns /\ Reloads(hpage, hsaves)
  /\ UNCHANGED <<hdata, hactive, hsaves, hchosen, hpast, hstray>>

\* Another phone is chosen, which a fleet's page does not offer, or the fleet.
HChoose ==
  /\ Turns
  /\ \E page \in {[hpage EXCEPT !.fleet = ~@]} \cup
                 {[hpage EXCEPT !.phone = p] : p \in AutoPhones \ {hpage.phone}} :
       /\ hpage.fleet => page.phone = hpage.phone
       /\ Reloads(page, hsaves)
  /\ UNCHANGED <<hdata, hactive, hsaves, hchosen, hpast, hstray>>

Seen(read) == IF read.of = "fleet" THEN AutoPhones ELSE {read.of}
State(read) == [p \in Seen(read) |-> [on |-> hdata[p].on, fleet |-> hdata[p].fleet]]

HRead(read) ==
  /\ ~read.read
  /\ hreads' = (hreads \ {read}) \cup {[read EXCEPT !.read = TRUE, !.data = State(read)]}
  /\ UNCHANGED <<hdata, hactive, hpage, hsaves, hchosen, hpast, hstray, hturns, hflaws>>

Shows(read) ==
  [hpage EXCEPT !.on = \A p \in Seen(read) : read.data[p].on,
                !.fleet = read.of = "fleet" \/ read.data[read.of].fleet,
                !.shown = read.of = hpage.phone /\ ~hpage.fleet]

HShown(read) ==
  /\ read.read /\ hreads' = hreads \ {read} /\ hpage' = Shows(read)
  /\ UNCHANGED <<hdata, hactive, hsaves, hchosen, hpast, hstray, hturns, hflaws>>

\* An answer is lost: a refresh leaves the switch as it is, a save counts as failed.
HLost ==
  /\ hflaws < MaxFlaws /\ hflaws' = hflaws + 1
  /\ \/ /\ \E read \in hreads : hreads' = hreads \ {read}
        /\ hsaves' = hsaves
     \/ /\ \E save \in hsaves :
             /\ save.at = "done"
             /\ hsaves' = (hsaves \ {save}) \cup {[save EXCEPT !.at = "failed"]}
        /\ hreads' = hreads
  /\ UNCHANGED <<hdata, hactive, hpage, hchosen, hpast, hstray, hturns>>

\* saveAutoSettings; two saves of one phone at once are remembered.
NewSave(on, toggle) ==
  [id |-> hturns', phone |-> Selected, fleet |-> hpage.fleet, on |-> on, toggle |-> toggle,
   at |-> "sent", data |-> <<>>, left |-> <<>>]
HToggle ==
  /\ Turns
  /\ LET save == NewSave(~hpage.on, TRUE)
     IN  /\ hsaves' = hsaves \cup {save}
         /\ hpage' = [hpage EXCEPT !.on = ~@, !.mixed = @ \/ hreads # {}]
         /\ hchosen' = [p \in AutoPhones |->
                          IF p \in Switched(save) THEN save.on ELSE hchosen[p]]
         /\ hpast' = [p \in AutoPhones |-> [hpast[p] EXCEPT
              !.crossed = @ \/ (p \in Switched(save) /\ Meets(p))]]
  /\ UNCHANGED <<hdata, hactive, hreads, hstray>>

\* The frequency is changed: the request carries the switch as it is shown.
HFrequency ==
  /\ Turns
  /\ LET save == NewSave(hpage.on, FALSE)
     IN  /\ hsaves' = hsaves \cup {save}
         /\ hpast' = [p \in AutoPhones |-> [hpast[p] EXCEPT
              !.crossed = @ \/ (p \in Switched(save) /\ Meets(p)),
              !.early = @ \/ (p \in Switched(save)
                                /\ (~hpage.shown \/ hpage.mixed \/ hpage.fleet))]]
  /\ UNCHANGED <<hdata, hactive, hpage, hreads, hchosen, hstray>>

\* The answer: the state is read again; a switch that failed is set back, of whichever
\* phone it is now.
HSaved(save) ==
  /\ save.at \in {"done", "failed"} /\ hsaves' = hsaves \ {save}
  /\ IF save.at = "done" \/ ~save.toggle THEN Reloads(hpage, hsaves')
     ELSE /\ hpage' = [hpage EXCEPT !.on = ~save.on, !.mixed = TRUE]
          /\ hreads' = hreads
  /\ UNCHANGED <<hdata, hactive, hchosen, hpast, hstray, hturns, hflaws>>

HOperator ==
  HRefresh \/ HChoose \/ HToggle \/ HFrequency \/ \E p \in AutoPhones : HWorkflow(p)
HNext ==
  \/ HOperator \/ \E r \in hreads : HRead(r) \/ HShown(r)
  \/ \E s \in hsaves : \/ HReadsData(s) \/ HCancels(s) \/ HCreates(s) \/ HWrites(s)
                       \/ HFails(s) \/ HSaved(s)
  \/ HCrash \/ HLost
HSpec == HInit /\ [][HNext]_hVars

-----------------------------------------------------------------------------
Data == [on : BOOLEAN, fleet : BOOLEAN, ids : SUBSET Ids, flows : 0..MaxTurns]

\* Types of the state.
HTypeOK ==
  /\ hdata \in [AutoPhones -> Data] /\ hactive \subseteq AutoPhones \X Ids
  /\ hstray \subseteq AutoPhones \X Ids
  /\ hpage \in [phone : AutoPhones, fleet : BOOLEAN, on : BOOLEAN, shown : BOOLEAN,
                mixed : BOOLEAN]
  /\ \A r \in hreads : r.of \in AutoPhones \cup {"fleet"}
  /\ \A s \in hsaves : s.at = "done" <=> s.left = <<>> /\ s.at \notin {"sent", "failed"}
  /\ \A p \in AutoPhones : hdata[p].on <=> hdata[p].ids # {}

\* Whatever drains a phone's queue is in the phone's data, where the next request
\* finds it to cancel it, or was made by a request that is still under way,
\* although requests fail and the API crashes between any two steps, unless it is one
\* whose own cancellation was rejected ("already gone", says the empty catch, and the
\* data then name only the new ones) or that a crash kept from the data, or two
\* requests for the phone were under way at once: each cancels what both found, and
\* the data of the second hide what the first made (tiktok-plugin.ts:622-684).
HNoOrphans ==
  \A d \in hactive :
    \/ d[2] \in hdata[d[1]].ids \/ d \in hstray \/ hpast[d[1]].crossed
    \/ \E s \in hsaves : s.id = d[2] /\ s.at = "write" /\ Head(s.left) = d[1]

\* A phone whose data say that its queue is drained is drained once no request is
\* under way, unless requests crossed or one failed after it had cancelled the
\* schedules, or had written the data (tiktok-plugin.ts:632-684).
HRuns ==
  \A p \in AutoPhones :
    (hdata[p].on /\ ~Meets(p) /\ ~hpast[p].crossed /\ ~hpast[p].failed)
      => \E i \in hdata[p].ids : <<p, i>> \in hactive

\* A workflow that was saved for the phone is not lost by the switch, whose request
\* writes the whole of the plugin's data back, unless it was saved while such a
\* request was under way (tiktok-plugin.ts:634-668, 192-208).
HWorkflowsKept ==
  \A p \in AutoPhones : hpast[p].crossed \/ hdata[p].flows = hpast[p].flows

\* A phone is drained or not as the operator last switched it, although a change
\* of the frequency sends the switch along, unless the frequency was changed for
\* the whole fleet, or before the page had shown the phone's own state
\* (automations.ts:776-852, 1101-1132).
HAsSwitched ==
  \A p \in AutoPhones :
    (~Meets(p) /\ ~hpast[p].crossed /\ ~hpast[p].failed /\ ~hpast[p].early)
      => hdata[p].on = hchosen[p]

\* The switch of the drains, whichever requests fail and whenever the API crashes: no
\* drain without its data but one that could not be cancelled, none against the
\* operator's choice, no workflow lost (tiktok-plugin.ts:622-684).
HSafe == HTypeOK /\ HNoOrphans /\ HRuns /\ HWorkflowsKept /\ HAsSwitched
=============================================================================
