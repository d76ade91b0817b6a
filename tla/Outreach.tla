------------------------------ MODULE Outreach ------------------------------
(***************************************************************************)
(* Instagram cold messages (src/src/instagram/cold-dms.ts) and the lead    *)
(* lists they work through (src/src/instagram/leads.ts).                   *)
(*                                                                         *)
(* A run reads the list and its contact file, picks the next leads nobody  *)
(* was told to have messaged, and sends to them one by one; after each it  *)
(* reads the contact file again, adds the outcome and renames a new file   *)
(* over it.  Runs on other phones do the same with the same two files and  *)
(* no lock.  Success is judged by reading the screen, which may miss a     *)
(* word but reads none that is not there; the model keeps apart what a     *)
(* lead got (ogot) and what the file says of it (ostate).  A lead is sent  *)
(* to once (COLD_DMS_CYCLES is 1) and the screen is read (the verification *)
(* is on), as they are unless the task says otherwise.                     *)
(***************************************************************************)
EXTENDS Integers, FiniteSets

CONSTANTS Leads,       \* the usernames of the list
          Runs,        \* executions of the task, each on its phone
          Together,    \* whether runs of one list overlap
          RetryFailed, \* COLD_DMS_RETRY_FAILED
          BatchSize,   \* COLD_DMS_LEAD_BATCH
          MaxTaps      \* MAX_SEND_TAPS

ASSUME OutreachAssumption ==
  /\ IsFiniteSet(Leads) /\ Leads \cap {"none", "namesake"} = {}
  /\ {Together, RetryFailed} \subseteq BOOLEAN
  /\ BatchSize \in Nat \ {0} /\ MaxTaps \in Nat \ {0}

VARIABLES olist,       \* the leads in the list file
          ostate,      \* the contact file: lead -> "none", "sent", "failed"
          ogot,        \* messages each lead received
          ostray,      \* leads whose name was read in somebody else's thread
          omisread,    \* leads judged "sent" on the text still in the composer
          ounsaid,     \* leads whose outcome could not be recorded
          orun         \* the runs

oVars == <<olist, ostate, ogot, ostray, omisread, ounsaid, orun>>
facts == <<ogot, ostray, omisread>>

ContactState == [Leads -> {"none", "sent", "failed"}]
IdleRun == [pc |-> "idle", todo |-> {}, lead |-> "none", thread |-> "none", taps |-> 0,
            outcome |-> "none", seen |-> [l \in Leads |-> "none"],
            sent |-> FALSE, stop |-> FALSE]

OInit ==
  /\ olist \in SUBSET Leads
  /\ ostate = [l \in Leads |-> "none"]
  /\ ogot = [l \in Leads |-> 0]
  /\ ostray = {} /\ omisread = {} /\ ounsaid = {}
  /\ orun = [r \in Runs |-> IdleRun]

OEnded == {"idle", "ok", "error", "killed"}
RunStates ==
  [pc : OEnded \cup {"next", "open", "send", "mark", "write"}, todo : SUBSET Leads,
   lead : Leads \cup {"none"}, thread : Leads \cup {"none", "namesake"}, taps : Nat,
   outcome : {"none", "gone", "sent", "failed"}, seen : ContactState,
   sent : BOOLEAN, stop : BOOLEAN]
Active(r) == orun[r].pc \notin OEnded
Put(r, rec) == orun' = [orun EXCEPT ![r] = rec]
Lead(r) == orun[r].lead

-----------------------------------------------------------------------------
\* A scraper export is imported under the list's name; the contact file of the
\* name is kept.
OImport ==
  /\ \E more \in SUBSET Leads : olist' = more /\ olist # olist'
  /\ UNCHANGED <<ostate, facts, ounsaid, orun>>

\* pickLeads: leads of the list that have no contact on record, or a failed one
\* when those are asked for.
PickableSlip(l) == ostate[l] # "sent"
Pickable(l) == ostate[l] = "none" \/ (RetryFailed /\ ostate[l] = "failed")

OPick(r) ==
  /\ orun[r].pc = "idle"
  /\ Together \/ \A q \in Runs : ~Active(q)
  /\ LET open == {l \in olist : Pickable(l)}
     IN  \/ /\ open = {}
            /\ Put(r, [orun[r] EXCEPT !.pc = "error"])
         \/ \E s \in SUBSET open :
              /\ s # {} /\ Cardinality(s) <= BatchSize
              /\ Cardinality(s) = BatchSize \/ s = open
              /\ Put(r, [orun[r] EXCEPT !.pc = "next", !.todo = s])
  /\ UNCHANGED <<olist, ostate, facts, ounsaid>>

\* The loop looks for a stop before it sends to the next lead (which one of them
\* the order of the list decides).  A run that sent nothing fails.
OAdvance(r) ==
  /\ orun[r].pc = "next"
  /\ IF orun[r].todo = {} \/ orun[r].stop
     THEN Put(r, [IdleRun EXCEPT !.pc = IF ~orun[r].sent THEN "error" ELSE "ok"])
     ELSE \E l \in orun[r].todo :
            Put(r, [orun[r] EXCEPT !.pc = "open", !.lead = l, !.taps = 0, !.thread = "none"])
  /\ UNCHANGED <<olist, ostate, facts, ounsaid>>

\* Inbox, composer, search and the top result, by blind taps: the thread that
\* opens is the lead's, somebody else's, or none.  It must show the handle, or
\* a word of the lead's display name, which somebody else may bear.
OOpen(r) ==
  /\ orun[r].pc = "open"
  /\ \/ \E t \in {Lead(r), "namesake"} :
          /\ Put(r, [orun[r] EXCEPT !.pc = "send", !.thread = t])
          /\ ostray' = IF t = "namesake" THEN ostray \cup {Lead(r)} ELSE ostray
     \/ /\ Put(r, [orun[r] EXCEPT !.pc = "mark", !.outcome = "failed"])
        /\ UNCHANGED ostray
  /\ UNCHANGED <<olist, ostate, ogot, omisread, ounsaid>>

\* The evidence a send is judged by: no Send label, and the placeholder or the
\* text anywhere below the header (in a bubble, or still in the composer).
Confirmed(sendLabel, placeholder, text) == ~sendLabel /\ (placeholder \/ text)

\* One tap on Send and the look after it.  The tap works or misses; a message
\* that is gone is not sent again by another tap.  What is on the screen may
\* be missed by the reader, and the tap or the look may throw.
OSend(r) ==
  /\ orun[r].pc = "send"
  /\ \E works, sawLabel, sawPlaceholder, sawText, throws \in BOOLEAN :
       LET already == orun[r].outcome = "gone"
           gone == works \/ already
           judged == ~throws /\ Confirmed(sawLabel, sawPlaceholder, sawText)
           taps == orun[r].taps + 1
       IN  /\ (sawLabel => ~gone) /\ (sawPlaceholder => gone)
           /\ ogot' = IF works /\ ~already /\ orun[r].thread = Lead(r)
                      THEN [ogot EXCEPT ![Lead(r)] = @ + 1] ELSE ogot
           /\ omisread' = IF judged /\ ~gone /\ sawText
                          THEN omisread \cup {Lead(r)} ELSE omisread
           /\ Put(r, CASE judged -> [orun[r] EXCEPT !.pc = "mark", !.outcome = "sent",
                                                    !.sent = TRUE, !.taps = taps]
                       [] ~judged /\ (throws \/ taps = MaxTaps) ->
                            [orun[r] EXCEPT !.pc = "mark", !.outcome = "failed", !.taps = taps]
                       [] OTHER -> [orun[r] EXCEPT !.taps = taps,
                                                   !.outcome = IF gone THEN "gone" ELSE @])
  /\ UNCHANGED <<olist, ostate, ostray, ounsaid>>

\* A lead is done with.
Done(r) == [orun[r] EXCEPT !.pc = "next", !.todo = @ \ {Lead(r)}, !.lead = "none",
                           !.outcome = "none", !.seen = IdleRun.seen]

\* markLeadContacted, first half: the contact file is read.  It may fail, which
\* is logged and otherwise ignored.
ORead(r) ==
  /\ orun[r].pc = "mark"
  /\ \/ /\ Put(r, [orun[r] EXCEPT !.pc = "write", !.seen = ostate])
        /\ UNCHANGED ounsaid
     \/ /\ ounsaid' = ounsaid \cup {Lead(r)}
        /\ Put(r, Done(r))
  /\ UNCHANGED <<olist, ostate, facts>>

\* Second half: what was read, with the outcome of this lead, is renamed over
\* the file.
Recorded(old, l, outcome) == [old EXCEPT ![l] = outcome]

OWrite(r) ==
  /\ orun[r].pc = "write"
  /\ ostate' = Recorded(orun[r].seen, Lead(r), orun[r].outcome)
  /\ Put(r, Done(r))
  /\ UNCHANGED <<olist, facts, ounsaid>>

\* SIGTERM; SIGKILL after its grace, or an error of Appium between two leads.
\* The lead in work has no outcome on record then.
OStop(r) ==
  /\ Active(r) /\ ~orun[r].stop
  /\ Put(r, [orun[r] EXCEPT !.stop = TRUE])
  /\ UNCHANGED <<olist, ostate, facts, ounsaid>>
OKill(r) ==
  /\ Active(r) /\ orun[r].stop
  /\ Put(r, [IdleRun EXCEPT !.pc = "killed"])
  /\ ounsaid' = IF Lead(r) # "none" THEN ounsaid \cup {Lead(r)} ELSE ounsaid
  /\ UNCHANGED <<olist, ostate, facts>>

OWork(r) == OPick(r) \/ OAdvance(r) \/ OOpen(r) \/ OSend(r) \/ ORead(r) \/ OWrite(r)
ONext == OImport \/ \E r \in Runs : OWork(r) \/ OStop(r) \/ OKill(r)
OSpec == OInit /\ [][ONext]_oVars

-----------------------------------------------------------------------------
\* Types of the state.
OTypeOK ==
  /\ olist \subseteq Leads /\ ostate \in ContactState
  /\ ogot \in [Leads -> Nat] /\ {ostray, omisread, ounsaid} \subseteq SUBSET Leads
  /\ orun \in [Runs -> RunStates]

\* Runs of a list that follow one another, with imports in between, message
\* nobody twice, however the reading of the screen went, unless failed ones are
\* to be tried again or an outcome could not be recorded (leads.ts:11-13).
OMessagedOnce == RetryFailed \/ \A l \in Leads : ogot[l] <= 1 \/ l \in ounsaid

\* A lead on record as "sent" did get the message, except where another person
\* bears the name or the text was read where it had been typed
\* (cold-dms.ts:48-51, 299-325).
OSentWasReceived ==
  \A l \in Leads : ostate[l] = "sent" => (ogot[l] > 0 \/ l \in ostray \cup omisread)

\* Runs that follow one another, whatever the screen showed: the contact file tells
\* who was messaged, and nobody is twice (leads.ts:169-201, cold-dms.ts:275-335).
OSafe == OTypeOK /\ OMessagedOnce /\ OSentWasReceived

\* An outcome on record stays on record: "Read-modify-write so concurrent
\* devices working the same list don't clobber each other" (leads.ts:176).
OOutcomesKept == [][\A l \in Leads : ostate[l] # "none" => ostate'[l] # "none"]_oVars
=============================================================================
