---------------------------- MODULE MCSchedules ----------------------------
(***************************************************************************)
(* Small instances of Schedules for TLC.  Each run makes the kinds of      *)
(* requests its question is about; the behaviours of the safety run belong *)
(* to one of two scenarios:                                                *)
(*   change:   requests, one of a kind, that create, edit, retime, pause,  *)
(*             resume and cancel the schedule s3, which is in no campaign; *)
(*   campaign: requests that launch the campaign c1, and one each that     *)
(*             drops it and that cancels one of its targets s1 and s2.     *)
(***************************************************************************)
EXTENDS Schedules, TLC

CONSTANTS s1, s2, s3, c1, d1

VARIABLE scenario

Now == [kind |-> "now", at |-> 0, every |-> 1]
Once(t) == [kind |-> "once", at |-> t, every |-> 1]
Interval(offset, n) == [kind |-> "interval", at |-> offset, every |-> n]
Daily(t, n) == [kind |-> "daily", at |-> t, every |-> n]

\* One device, where schedules can conflict at all, or none that two of them share.
OneDevice == [s \in Schedules |-> d1]
OwnDevices == [s \in Schedules |-> s]
CampaignOfTwo == [s \in Schedules |-> IF c1 \in Campaigns /\ s # s3 THEN c1 ELSE NoCampaign]
NowCampaign == [c \in Campaigns |-> Now]

OneShots == {Now, Once(1)}
AllKinds == {Now, Once(1), Interval(0, 2), Daily(1, 2)}

ChangeOf(r) ==
    \/ r.op \in {"none", "create", "edit", "retime", "activate", "pause"}
    \/ r.op = "cancel" /\ r.s = s3
CampaignOp(r) == r.op \in {"none", "launch", "drop", "cancel"}
Asking(op) == {p \in Requests : req[p].op = op}

Present ==
    \/ scenario = "change" /\ camp'[c1] = "absent" /\ \A p \in Requests : ChangeOf(req'[p])
       /\ \A op \in Operations : Cardinality(Asking(op)') <= 1
    \/ scenario = "campaign" /\ now' <= 1 /\ \A p \in Requests : CampaignOp(req'[p])
       /\ Cardinality(Asking("drop")') <= 1 /\ Cardinality(Asking("cancel")') <= 1
    \/ scenario = "all"

MCInit == Init /\ scenario \in {"change", "campaign"}
MCNext == Next /\ UNCHANGED scenario /\ Present
MCSpec == MCInit /\ [][MCNext]_<<vars, scenario>>

WholeInit == Init /\ scenario = "all"
WholeSpec == WholeInit /\ [][MCNext]_<<vars, scenario>>
TimerSpec == WholeSpec /\ WF_vars(Materialize)

\* Requests, and the two targets, are interchangeable: sound for invariants and action
\* properties.
RequestSymmetry == Permutations(Requests)
Symmetry == RequestSymmetry \cup Permutations({s1, s2})
=============================================================================
