----------------------------- MODULE Workflows ------------------------------
(***************************************************************************)
(* Trained workflows: the page of a phone records the gestures an operator *)
(* makes on it (static/dashboard/ts/device.ts), the server turns a record- *)
(* ing into a pattern and keeps it in devices.json (tiktok/workflows.ts,   *)
(* tiktok-plugin.ts), and a script replays it (tiktok/workflow-replay.ts). *)
(* A gesture is sent, performed and answered in three steps, so that two of*)
(* them may overtake one another; a save is answered when it may be.       *)
(***************************************************************************)
EXTENDS Naturals, FiniteSets, Sequences, SequencesExt

CONSTANTS Gestures,    \* the gestures of an operator, each made once
          Times,       \* times since a recording began, in milliseconds
          MinGap,      \* 150 ms, the shortest gap that becomes a wait
          MaxWait,     \* 30 s, the longest wait
          Loops,       \* WORKFLOW_LOOPS of a replay
          MaxTrainings \* recordings
ASSUME WorkflowsAssumption ==
  Times \subseteq Nat /\ {MinGap, MaxWait, Loops, MaxTrainings} \subseteq Nat

VARIABLES tgesture,    \* how far each gesture is
          tphone,      \* the gestures the phone performed, in order
          tbeside,     \* pairs of gestures that were on their way together
          train,       \* the recorder of the page
          theard,      \* for each recording, the gestures answered while it ran
          tsave,       \* the save that is on its way
          tstore,      \* the stored patterns
          treplay      \* a replay
tVars == <<tgesture, tphone, tbeside, train, theard, tsave, tstore, treplay>>

NoSave == [asked |-> FALSE, events |-> <<>>]
NoReplay == [pc |-> "idle", steps |-> <<>>, next |-> 1, loop |-> 0,
             stop |-> FALSE, did |-> <<>>]

TInit ==
  /\ tgesture = [g \in Gestures |-> "idle"] /\ tphone = <<>> /\ tbeside = {}
  /\ train = [on |-> FALSE, events |-> <<>>, number |-> 0, dialog |-> FALSE]
  /\ theard = [n \in 1..MaxTrainings |-> <<>>]
  /\ tsave = NoSave /\ tstore = {} /\ treplay = NoReplay

-----------------------------------------------------------------------------
(***************************************************************************)
(* The page.                                                               *)
(***************************************************************************)

pageVars == <<train, theard, tsave, tstore, treplay>>

\* sendAction, from the screen or from a button; it is refused while the phone
\* has a script.  A gesture that fails is one that is never answered.
TSend(g) ==
  /\ tgesture[g] = "idle" /\ ~train.dialog /\ treplay.pc \in {"idle", "ended"}
  /\ LET going == {h \in Gestures : tgesture[h] \in {"sent", "performed"}}
     IN  tbeside' = tbeside \cup {{g, h} : h \in going}
  /\ tgesture' = [tgesture EXCEPT ![g] = "sent"]
  /\ UNCHANGED <<tphone, pageVars>>

TPerform(g) ==
  /\ tgesture[g] = "sent"
  /\ tgesture' = [tgesture EXCEPT ![g] = "performed"]
  /\ tphone' = Append(tphone, g)
  /\ UNCHANGED <<tbeside, pageVars>>

\* recordTrainEvent: the time is that of the answer.
WithEvent(events, g, t) == Append(events, [t |-> t, g |-> g])

TAnswer(g) ==
  /\ tgesture[g] = "performed"
  /\ tgesture' = [tgesture EXCEPT ![g] = "answered"]
  /\ IF train.on
     THEN /\ \E t \in Times :
               /\ \A i \in DOMAIN train.events : train.events[i].t <= t
               /\ train' = [train EXCEPT !.events = WithEvent(@, g, t)]
          /\ theard' = [theard EXCEPT ![train.number] = Append(@, g)]
     ELSE UNCHANGED <<train, theard>>
  /\ UNCHANGED <<tphone, tbeside, tsave, tstore, treplay>>

\* setTrainRecording(true).
StartedSlip(r) == [r EXCEPT !.on = TRUE, !.number = @ + 1]
Started(r) == [r EXCEPT !.on = TRUE, !.number = @ + 1, !.events = <<>>]

TToggle ==
  /\ ~train.dialog
  /\ IF train.on THEN train' = [train EXCEPT !.on = FALSE]
     ELSE train.number < MaxTrainings /\ train' = Started(train)
  /\ UNCHANGED <<tgesture, tphone, tbeside, theard, tsave, tstore, treplay>>

TClear ==
  /\ ~train.dialog /\ (train.on \/ train.events # <<>>)
  /\ train' = [train EXCEPT !.on = FALSE, !.events = <<>>]
  /\ UNCHANGED <<tgesture, tphone, tbeside, theard, tsave, tstore, treplay>>

\* The save button is there once the recording is over; its dialog covers the
\* page until it is saved or closed.
TDialog ==
  /\ IF train.dialog THEN TRUE ELSE ~train.on /\ train.events # <<>>
  /\ train' = [train EXCEPT !.dialog = ~@]
  /\ UNCHANGED <<tgesture, tphone, tbeside, theard, tsave, tstore, treplay>>

TSave ==
  /\ train.dialog /\ ~tsave.asked
  /\ tsave' = [asked |-> TRUE, events |-> train.events]
  /\ UNCHANGED <<tgesture, tphone, tbeside, train, theard, tstore, treplay>>

-----------------------------------------------------------------------------
(***************************************************************************)
(* The server.                                                             *)
(***************************************************************************)

Sorted(events) == SortSeq(events, LAMBDA a, b : a.t < b.t)

\* normalizeRecordedEvents, with the control or the gesture a step stands for
\* kept as the gesture: a wait before each but the first whose gap is long.
NormalizeRecordedEvents(events) ==
  LET sorted == Sorted(events)
      Gap(i) == sorted[i].t - sorted[i - 1].t
      Wait(i) == [kind |-> "wait", ms |-> IF Gap(i) < MaxWait THEN Gap(i) ELSE MaxWait]
      Step(i) == [kind |-> "gesture", g |-> sorted[i].g]
  IN  FlattenSeq([i \in DOMAIN sorted |->
        IF i > 1 /\ Gap(i) >= MinGap THEN <<Wait(i), Step(i)>> ELSE <<Step(i)>>])

\* POST workflows and its answer, which empties the recorder, whatever was
\* recorded since; or it fails, before or after the pattern is stored.
TSaved ==
  /\ tsave.asked /\ tsave' = NoSave
  /\ LET steps == NormalizeRecordedEvents(tsave.events)
     IN  \/ /\ steps # <<>> /\ tstore' = tstore \cup {steps}
            /\ train' = [train EXCEPT !.on = FALSE, !.events = <<>>, !.dialog = FALSE]
         \/ /\ tstore' \in {tstore, tstore \cup {steps}} /\ UNCHANGED train
  /\ UNCHANGED <<tgesture, tphone, tbeside, theard, treplay>>

TDelete(p) ==
  /\ p \in tstore /\ tstore' = tstore \ {p}
  /\ UNCHANGED <<tgesture, tphone, tbeside, train, theard, tsave, treplay>>

-----------------------------------------------------------------------------
(***************************************************************************)
(* A replay.  It reads its pattern once and plays it loop after loop.      *)
(***************************************************************************)

scriptVars == <<tgesture, tphone, tbeside, train, theard, tsave, tstore>>

\* The task is started for a pattern, which may be gone when the script looks.
TStart ==
  /\ treplay.pc = "idle" /\ \A g \in Gestures : tgesture[g] \in {"idle", "answered"}
  /\ \E p \in tstore : treplay' = [treplay EXCEPT !.pc = "loop", !.steps = p]
  /\ UNCHANGED scriptVars

TSignal ==
  /\ treplay.pc \in {"loop", "step"} /\ ~treplay.stop
  /\ treplay' = [treplay EXCEPT !.stop = TRUE]
  /\ UNCHANGED scriptVars

NextLoop(r) == [r EXCEPT !.pc = "step", !.next = 1]

\* The condition of the loop; the deadline may have passed.
TLoop ==
  /\ treplay.pc = "loop"
  /\ \/ /\ ~treplay.stop /\ treplay.loop < Loops
        /\ treplay' = NextLoop(treplay)
     \/ treplay' = [treplay EXCEPT !.pc = "ended"]
  /\ UNCHANGED scriptVars

\* runPatternOnce: a stop is heard between steps, and in a wait.
Heard(r) == r.stop \/ r.next > Len(r.steps)

TStep ==
  /\ treplay.pc = "step"
  /\ IF Heard(treplay)
     THEN treplay' = [treplay EXCEPT !.pc = "loop", !.loop = @ + 1]
     ELSE LET s == treplay.steps[treplay.next]
              after == [treplay EXCEPT !.next = @ + 1]
          IN  \/ s.kind = "wait" /\ treplay' = after
              \/ /\ s.kind = "gesture"
                 /\ treplay' = [after EXCEPT !.did = Append(@, s.g)]
              \/ /\ s.kind = "gesture"  \* it throws
                 /\ treplay' = [treplay EXCEPT !.pc = "ended"]
  /\ UNCHANGED scriptVars

TGesture(g) == TSend(g) \/ TPerform(g) \/ TAnswer(g)
TNext ==
  \/ \E g \in Gestures : TGesture(g)
  \/ TToggle \/ TClear \/ TDialog \/ TSave \/ TSaved
  \/ \E p \in tstore : TDelete(p)
  \/ TStart \/ TSignal \/ TLoop \/ TStep
TSpec == TInit /\ [][TNext]_tVars

-----------------------------------------------------------------------------
GesturesOf(steps) ==
  LET made == SelectSeq(steps, LAMBDA s : s.kind = "gesture")
  IN  [i \in DOMAIN made |-> made[i].g]

Steps == [kind : {"wait"}, ms : 0..MaxWait] \cup [kind : {"gesture"}, g : Gestures]
Events == [t : Times, g : Gestures]

\* Types of the state.
TTypeOK ==
  /\ tgesture \in [Gestures -> {"idle", "sent", "performed", "answered", "failed"}]
  /\ tphone \in Seq(Gestures) /\ tbeside \subseteq SUBSET Gestures
  /\ train \in [on : BOOLEAN, events : Seq(Events), number : 0..MaxTrainings,
                dialog : BOOLEAN]
  /\ theard \in [1..MaxTrainings -> Seq(Gestures)]
  /\ tsave \in [asked : BOOLEAN, events : Seq(Events)]
  /\ tstore \subseteq Seq(Steps)
  /\ treplay \in [pc : {"idle", "loop", "step", "ended"}, steps : Seq(Steps),
                  next : 1..(2 * Cardinality(Gestures)), loop : 0..Loops,
                  stop : BOOLEAN, did : Seq(Gestures)]
  /\ ~(train.dialog /\ train.on)

\* The gestures of a recording; the order in which the phone performed two.
Made(events) == [i \in DOMAIN events |-> events[i].g]
Before(g, h) == \E k, l \in DOMAIN tphone : k < l /\ tphone[k] = g /\ tphone[l] = h
InOrder(events) ==
  \A i, j \in DOMAIN events :
    (i < j /\ {events[i].g, events[j].g} \notin tbeside) => Before(events[i].g, events[j].g)

\* A save on its way carries one whole recording, in the order of the phone but for
\* gestures that were on their way together: what comes between is another recording
\* or none (device.ts:482-498, 784-800, 1735-1756).
TSaveIsWhole ==
  tsave.asked => /\ \E n \in 1..MaxTrainings : Made(tsave.events) = theard[n]
                 /\ InOrder(tsave.events)

\* A stored workflow is one whole recording: every gesture that was answered
\* while it ran and none of another, although the page goes on recording and
\* clearing while gestures and a save are on their way (device.ts:482-498,
\* 784-800, 1735-1756).
TWholeRecording ==
  \A p \in tstore : \E n \in 1..MaxTrainings : GesturesOf(p) = theard[n]

\* A stored workflow has its gestures in the order in which the phone performed
\* them, unless two of them were on their way together (workflows.ts:86-124).
TPhoneOrder ==
  \A p \in tstore : LET made == GesturesOf(p) IN
    \A i, j \in DOMAIN made :
      (i < j /\ {made[i], made[j]} \notin tbeside) => Before(made[i], made[j])

\* What a replay performs is the recording, loop after loop, cut short at most
\* in its last loop (workflow-replay.ts:193-209, 256-264).
TReplaysAsRecorded ==
  LET made == GesturesOf(treplay.steps)
  IN  \A i \in DOMAIN treplay.did : treplay.did[i] = made[((i - 1) % Len(made)) + 1]

\* A workflow, from the gestures of a training to its replays: whole, in order, as
\* performed (device.ts:475-498, 1720-1756, workflows.ts:86-145, workflow-replay.ts:193-272).
TSafe ==
  TTypeOK /\ TSaveIsWhole /\ TWholeRecording /\ TPhoneOrder /\ TReplaysAsRecorded

=============================================================================
