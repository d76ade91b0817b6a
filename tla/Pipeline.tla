------------------------------ MODULE Pipeline ------------------------------
(***************************************************************************)
(* The post pipeline of one device: clips (a media asset and a caption)    *)
(* that wait in scheduler.pipeline_items and are posted by pipeline-drain  *)
(* executions, and the media behind them.  An asset is a row and a file;   *)
(* uploads, drains, cancellations, the reconcile pass and the hourly jobs  *)
(* of the worker change items, rows and files in separate awaits.          *)
(*                                                                         *)
(* Simplifications.  An item and its asset share an id, a number in the    *)
(* order of creation.  Items have a caption: the upload refuses others.    *)
(* Of an execution only its status is kept; who may write it when is the   *)
(* subject of ExecutionQueue.  Ages are left out: a job that takes what is *)
(* old enough may take anything it could find settled by then.  The files  *)
(* of one purge go in one step, its rows in a later one.                   *)
(***************************************************************************)
EXTENDS Integers, FiniteSets

CONSTANTS
    Items,           \* 1 .. n
    Drains,          \* executions of pipeline-drain
    Recurring,       \* those of a repeating schedule that is not cancelled
    Cancels,         \* cancel requests
    NoDrain, NoItem,
    PipelineFaults   \* bound: crashes and rejected calls

\* The medium of an item has the item's name.
Media == Items

ASSUME PipelineAssumption ==
    /\ Items \subseteq Nat
    /\ Recurring \subseteq Drains
    /\ NoDrain \notin Drains /\ NoItem \notin Items
    /\ PipelineFaults \in Nat

VARIABLES
    item,      \* pipeline_items: status, execution_id, whether asset_id is set
    asset,     \* assets: the row, its execution_id, and the file on disk
    drain,     \* executions: the status, and the handler that runs the task
    pass,      \* pass[x]: another party that finishes x: it may have read x long ago
    purges,    \* purgeAssetIds under way: the files are gone, these rows are to follow
    cancel,    \* cancel[r]: one cancel request, and the item it has selected
    made,      \* items of this phone that the fleet upload under way has made
    clean,     \* executions that the cleanup under way has selected
    posted,    \* history: how often the clip of an item was posted, up to PostedBound
    mishaps    \* how many faults have happened

pipelineVars == <<item, asset, drain, pass, purges, cancel, made, clean, posted, mishaps>>

ItemStatus == {"absent", "ready", "publishing", "published", "failed", "deleted"}
Ended == {"succeeded", "failed", "cancelled", "stopped"}
PostedBound == 2     \* "twice or more" is all the properties tell apart

PipelineTypeOK ==
    /\ item \in [Items -> [status : ItemStatus, exec : Drains \cup {NoDrain}, media : BOOLEAN]]
    /\ asset \in [Media -> [row : BOOLEAN, file : BOOLEAN, exec : Drains \cup {NoDrain}]]
    /\ drain \in [Drains -> [status : {"absent", "running", "deleted"} \cup Ended,
                             pc : {"none", "claim", "media", "post", "complete", "log", "fail",
                                   "end", "sync", "purge", "over"},
                             item : Items \cup {NoItem}, ok : BOOLEAN]]
    /\ pass \in [Drains -> [pc : {"none", "selected", "sync", "purge", "over"}, outcome : Ended]]
    /\ purges \subseteq SUBSET Media
    /\ cancel \in [Cancels -> [pc : {"new"}, item : {NoItem}] \cup [pc : {"delete", "over"}, item : Items]]
    /\ made \subseteq Items /\ clean \subseteq Drains
    /\ posted \in [Items -> 0 .. PostedBound]
    /\ mishaps \in 0 .. PipelineFaults

PipelineInit ==
    /\ item = [i \in Items |-> [status |-> "absent", exec |-> NoDrain, media |-> FALSE]]
    /\ asset = [a \in Media |-> [row |-> FALSE, file |-> FALSE, exec |-> NoDrain]]
    /\ drain = [x \in Drains |-> [status |-> "absent", pc |-> "none", item |-> NoItem, ok |-> FALSE]]
    /\ pass = [x \in Drains |-> [pc |-> "none", outcome |-> "failed"]]
    /\ purges = {}
    /\ cancel = [r \in Cancels |-> [pc |-> "new", item |-> NoItem]]
    /\ made = {} /\ clean = {}
    /\ posted = [i \in Items |-> 0]
    /\ mishaps = 0

Mishap == mishaps < PipelineFaults /\ mishaps' = mishaps + 1

Exists(i) == item[i].status \notin {"absent", "deleted"}
Settled(i, status) == [item[i] EXCEPT !.status = status, !.media = @ /\ status # "published"]

\* update pipeline_items ... where id = i: nothing happens if the row is gone.
SetItem(i, status) ==
    item' = IF Exists(i) THEN [item EXCEPT ![i] = Settled(i, status)] ELSE item

(***************************************************************************)
(* purgeAssetIds: the files first, then the rows                           *)
(***************************************************************************)
\* asset_id references assets on delete restrict.
Referenced(a) == a \in Items /\ Exists(a) /\ item[a].media

WithoutFiles(ids) == [a \in Media |-> IF a \in ids THEN [asset[a] EXCEPT !.file = FALSE] ELSE asset[a]]
WithoutRows(ids) == [a \in Media |-> IF a \in ids THEN [asset[a] EXCEPT !.row = FALSE] ELSE asset[a]]

RemoveFiles(ids) ==
    LET found == {a \in ids : asset[a].row} IN
    /\ asset' = WithoutFiles(found)
    /\ purges' = IF found = {} THEN purges ELSE purges \cup {found}

\* One statement deletes all the rows or, if an item refers to one of them, none.
DeleteRows(ids) ==
    /\ ids \in purges
    /\ asset' = IF \E a \in ids : Referenced(a) THEN asset ELSE WithoutRows(ids)
    /\ purges' = purges \ {ids}
    /\ UNCHANGED <<item, drain, pass, cancel, made, clean, posted, mishaps>>

(***************************************************************************)
(* POST .../tiktok/pipeline/items: for each target a copy, a row, an item  *)
(***************************************************************************)
Unused == {i \in Items : item[i].status = "absent" /\ ~asset[i].row /\ ~asset[i].file}

\* Ids are handed out in order.
NextId(i) == i \in Unused /\ \A k \in Unused : i <= k

\* The targets of a fleet upload are one item on each phone: that of this phone, and then
\* those of the others.
UploadTarget(i) ==
    /\ NextId(i) /\ made = {}
    /\ asset' = [asset EXCEPT ![i].file = TRUE, ![i].row = TRUE]
    /\ item' = [item EXCEPT ![i] = [status |-> "ready", exec |-> NoDrain, media |-> TRUE]]
    /\ \E fleet \in BOOLEAN : made' = IF fleet THEN {i} ELSE {}
    /\ UNCHANGED <<drain, pass, purges, cancel, clean, posted, mishaps>>

UploadEnds ==
    /\ made # {} /\ made' = {}
    /\ UNCHANGED <<item, asset, drain, pass, purges, cancel, clean, posted, mishaps>>

\* A target fails: deleteAssets of everything registered so far, also of the targets
\* whose items are ready.
UploadFails ==
    /\ Mishap
    /\ \/ /\ made # {}
          /\ RemoveFiles(made) /\ made' = {}
       \/ /\ made = {}
          /\ \E i \in Items : NextId(i) /\ asset' = [asset EXCEPT ![i].row = TRUE]
                                      /\ purges' = purges \cup {{i}}
          /\ made' = made
    /\ UNCHANGED <<item, drain, pass, cancel, clean, posted>>

(***************************************************************************)
(* The pipeline-drain task                                                 *)
(***************************************************************************)
Handler(x, pc) == drain' = [drain EXCEPT ![x].pc = pc]

\* The queue of a device is a singleton: a handler starts when no execution is running,
\* which another party that gave one up may have written while its handler goes on.
StartDrain(x) ==
    /\ drain[x].status = "absent"
    /\ \A y \in Drains : drain[y].status # "running"
    /\ drain' = [drain EXCEPT ![x].status = "running", ![x].pc = "claim"]
    /\ UNCHANGED <<item, asset, pass, purges, cancel, made, clean, posted, mishaps>>

\* Slip: failed items are offered again.
ClaimableAgain(i) == item[i].status \in {"ready", "failed"} /\ item[i].media

Claimable(i) == item[i].status = "ready" /\ item[i].media

\* claimNext: the oldest ready item, in one transaction with its asset.
Oldest(i) == Claimable(i) /\ \A k \in Items : Claimable(k) => i <= k
Claim(x) ==
    /\ drain[x].pc = "claim"
    /\ \/ /\ \A i \in Items : ~Claimable(i)
          /\ drain' = [drain EXCEPT ![x].pc = "end", ![x].ok = TRUE]
          /\ UNCHANGED <<item, asset>>
       \/ \E i \in Items :
             /\ Oldest(i)
             /\ item' = [item EXCEPT ![i].status = "publishing", ![i].exec = x]
             /\ asset' = [asset EXCEPT ![i].exec = x]
             /\ drain' = [drain EXCEPT ![x].pc = "media", ![x].item = i]
    /\ UNCHANGED <<pass, purges, cancel, made, clean, posted, mishaps>>

\* The clip whose row or file is missing is failed, and the drain ends as if empty.
FindMedia(x) ==
    LET i == drain[x].item IN
    /\ drain[x].pc = "media"
    /\ \/ /\ asset[i].row /\ asset[i].file
          /\ Handler(x, "post") /\ item' = item
       \/ /\ ~(asset[i].row /\ asset[i].file)
          /\ SetItem(i, "failed")
          /\ drain' = [drain EXCEPT ![x].pc = "end", ![x].ok = TRUE]
    /\ UNCHANGED <<asset, pass, purges, cancel, made, clean, posted, mishaps>>

\* The post process: it may fail before the clip is out, and after.
Post(x) ==
    /\ drain[x].pc = "post"
    /\ \/ /\ asset[drain[x].item].file
          /\ posted' = [posted EXCEPT ![drain[x].item] = IF @ < PostedBound THEN @ + 1 ELSE @]
          /\ \E next \in {"complete", "fail"} : Handler(x, next)
       \/ posted' = posted /\ Handler(x, "fail")
    /\ UNCHANGED <<item, asset, pass, purges, cancel, made, clean, mishaps>>

\* completePipelineItem, no condition on the status; then a log line, whose failure is
\* caught like that of the call before it.
Complete(x) ==
    /\ drain[x].pc = "complete"
    /\ \/ SetItem(drain[x].item, "published") /\ Handler(x, "log") /\ mishaps' = mishaps
       \/ Mishap /\ Handler(x, "fail") /\ item' = item
    /\ UNCHANGED <<asset, pass, purges, cancel, made, clean, posted>>

LogPublished(x) ==
    /\ drain[x].pc = "log"
    /\ \/ drain' = [drain EXCEPT ![x].pc = "end", ![x].ok = TRUE] /\ mishaps' = mishaps
       \/ Mishap /\ Handler(x, "fail")
    /\ UNCHANGED <<item, asset, pass, purges, cancel, made, clean, posted>>

FailItem(x) ==
    /\ drain[x].pc = "fail"
    /\ SetItem(drain[x].item, "failed")
    /\ Handler(x, "end")
    /\ UNCHANGED <<asset, pass, purges, cancel, made, clean, posted, mishaps>>

\* The worker dies, or the call that finishes the execution rejects.
HandlerDies(x) ==
    /\ drain[x].pc \notin {"none", "over"}
    /\ Mishap
    /\ Handler(x, "over")
    /\ UNCHANGED <<item, asset, pass, purges, cancel, made, clean, posted>>

(***************************************************************************)
(* finishExecution: the status, then the items, then the media             *)
(***************************************************************************)
\* Slip: every item of the execution, whatever has become of it.
SyncedAll(x, outcome) ==
    [i \in Items |->
        IF Exists(i) /\ item[i].exec = x
        THEN Settled(i, IF outcome = "succeeded" THEN "published" ELSE "failed") ELSE item[i]]

\* syncPipelineItemsForExecution
Synced(x, outcome) ==
    [i \in Items |->
        IF item[i].status = "publishing" /\ item[i].exec = x
        THEN Settled(i, IF outcome = "succeeded" THEN "published" ELSE "failed") ELSE item[i]]

\* purgeTerminalAssets keeps the media of a repeating schedule.
MediaToPurge(x) == IF x \in Recurring THEN {} ELSE {a \in Media : asset[a].row /\ asset[a].exec = x}

\* Other outcomes keep the media for the Retry button.
AfterSync(outcome) == IF outcome \in {"succeeded", "cancelled"} THEN "purge" ELSE "over"

Outcome(x) == IF drain[x].ok THEN "succeeded" ELSE "failed"

Write(x) ==
    /\ drain[x].pc = "end"
    /\ drain' = [drain EXCEPT ![x].pc = "sync", ![x].status = Outcome(x)]
    /\ UNCHANGED <<item, asset, pass, purges, cancel, made, clean, posted, mishaps>>

Sync(x) ==
    /\ drain[x].pc = "sync"
    /\ item' = Synced(x, Outcome(x))
    /\ Handler(x, AfterSync(Outcome(x)))
    /\ UNCHANGED <<asset, pass, purges, cancel, made, clean, posted, mishaps>>

PurgeEnded(x) ==
    /\ drain[x].pc = "purge"
    /\ RemoveFiles(MediaToPurge(x))
    /\ Handler(x, "over")
    /\ UNCHANGED <<item, pass, cancel, made, clean, posted, mishaps>>

\* A reconcile pass or an operator gives up an execution it has read as running.
GiveUp(x, outcome) ==
    /\ drain[x].status = "running" /\ pass[x].pc = "none"
    /\ pass' = [pass EXCEPT ![x] = [pc |-> "selected", outcome |-> outcome]]
    /\ UNCHANGED <<item, asset, drain, purges, cancel, made, clean, posted, mishaps>>

WriteGivenUp(x) ==
    /\ pass[x].pc = "selected"
    /\ drain' = [drain EXCEPT ![x].status = IF @ = "deleted" THEN @ ELSE pass[x].outcome]
    /\ pass' = [pass EXCEPT ![x].pc = "sync"]
    /\ UNCHANGED <<item, asset, purges, cancel, made, clean, posted, mishaps>>

SyncGivenUp(x) ==
    /\ pass[x].pc = "sync"
    /\ item' = Synced(x, pass[x].outcome)
    /\ pass' = [pass EXCEPT ![x].pc = AfterSync(pass[x].outcome)]
    /\ UNCHANGED <<asset, drain, purges, cancel, made, clean, posted, mishaps>>

PurgeGivenUp(x) ==
    /\ pass[x].pc = "purge"
    /\ RemoveFiles(MediaToPurge(x))
    /\ pass' = [pass EXCEPT ![x].pc = "over"]
    /\ UNCHANGED <<item, drain, cancel, made, clean, posted, mishaps>>

\* The process dies between two of these steps.
PassDies(x) ==
    /\ pass[x].pc \in {"selected", "sync", "purge"}
    /\ Mishap
    /\ pass' = [pass EXCEPT ![x].pc = IF @ = "selected" THEN "none" ELSE "over"]
    /\ UNCHANGED <<item, asset, drain, purges, cancel, made, clean, posted>>

\* Slip: an execution that was cancelled is forgotten.
OrphanedUnlessCancelled(i) ==
    /\ item[i].status = "publishing" /\ item[i].exec # NoDrain
    /\ drain[item[i].exec].status \in Ended \ {"cancelled"}

Orphaned(i) ==
    /\ item[i].status = "publishing" /\ item[i].exec # NoDrain
    /\ drain[item[i].exec].status \in Ended

\* releaseOrphanedPublishingItems, at the end of every reconcile pass.
Release ==
    /\ \E i \in Items : Orphaned(i)
    /\ item' = [i \in Items |->
          IF Orphaned(i)
          THEN Settled(i, IF drain[item[i].exec].status = "succeeded" THEN "published" ELSE "failed")
          ELSE item[i]]
    /\ UNCHANGED <<asset, drain, pass, purges, cancel, made, clean, posted, mishaps>>

(***************************************************************************)
(* Cancelling an item                                                      *)
(***************************************************************************)
SelectItem(r, i) ==
    /\ cancel[r].pc = "new"
    /\ item[i].status \in {"ready", "failed"}
    /\ cancel' = [cancel EXCEPT ![r] = [pc |-> "delete", item |-> i]]
    /\ UNCHANGED <<item, asset, drain, pass, purges, made, clean, posted, mishaps>>

\* Deleted by id, whatever its status has become; then the media it had.
DeleteItem(r) ==
    LET i == cancel[r].item IN
    /\ cancel[r].pc = "delete"
    /\ item' = [item EXCEPT ![i] = [status |-> "deleted", exec |-> NoDrain, media |-> FALSE]]
    /\ RemoveFiles({i})
    /\ cancel' = [cancel EXCEPT ![r].pc = "over"]
    /\ UNCHANGED <<drain, pass, made, clean, posted, mishaps>>

(***************************************************************************)
(* The hourly jobs of the worker                                           *)
(***************************************************************************)

\* Neither schedule nor execution, and no item that is to be posted or may be looked
\* at: media of a campaign qualifies as well.  A day old: not of an upload under way.
Abandoned(a) ==
    /\ asset[a].row /\ asset[a].exec = NoDrain /\ a \notin made
    /\ a \in Items => item[a].status \notin {"ready", "publishing", "failed"}

SweepOrphans ==
    LET found == {a \in Media : Abandoned(a)} IN
    /\ found # {} /\ found \notin purges
    /\ RemoveFiles(found)
    /\ UNCHANGED <<item, drain, pass, cancel, made, clean, posted, mishaps>>

\* Executions that ended thirty days ago: all else about them has come to rest.
Expired(x) ==
    /\ drain[x].status \in Ended
    /\ drain[x].pc = "over" /\ pass[x].pc \in {"none", "over"} /\ purges = {}
    /\ \A i \in Items : item[i].exec = x => item[i].status # "publishing"

\* cleanup: the media of each; the first row that an item refers to ends the job, and
\* the files of the execution it belongs to are gone by then.
StartCleanup ==
    LET old == {x \in Drains : Expired(x)}
        Refused(x) == \E a \in MediaToPurge(x) : Referenced(a)
        gone == UNION {MediaToPurge(x) : x \in {y \in old : ~Refused(y)}}
    IN
    /\ clean = {} /\ old # {}
    /\ \/ /\ \A x \in old : ~Refused(x)
          /\ asset' = [a \in Media |-> IF a \in gone
                          THEN [asset[a] EXCEPT !.row = FALSE, !.file = FALSE] ELSE asset[a]]
          /\ clean' = old
       \/ \E x \in old :
             /\ Refused(x)
             /\ asset' = WithoutFiles(MediaToPurge(x)) /\ clean' = {}
    /\ UNCHANGED <<item, drain, pass, purges, cancel, made, posted, mishaps>>

\* The rows of the executions go, and by cascade those of the assets they still have,
\* unless an item refers to one; what is left on disk stays there.
DeleteExecutions ==
    LET owned == {a \in Media : asset[a].row /\ asset[a].exec \in clean} IN
    /\ clean # {}
    /\ clean' = {}
    /\ \/ /\ \E a \in owned : Referenced(a)
          /\ UNCHANGED <<item, asset, drain>>
       \/ /\ ~\E a \in owned : Referenced(a)
          /\ drain' = [x \in Drains |-> IF x \in clean THEN [drain[x] EXCEPT !.status = "deleted"] ELSE drain[x]]
          /\ asset' = WithoutRows(owned)
          /\ item' = [i \in Items |-> IF item[i].exec \in clean THEN [item[i] EXCEPT !.exec = NoDrain] ELSE item[i]]
    /\ UNCHANGED <<pass, purges, cancel, made, posted, mishaps>>

-----------------------------------------------------------------------------
DrainStep(x) ==
    \/ StartDrain(x) \/ Claim(x) \/ FindMedia(x) \/ Post(x) \/ Complete(x) \/ LogPublished(x)
    \/ FailItem(x) \/ Write(x) \/ Sync(x) \/ PurgeEnded(x) \/ HandlerDies(x)

PassStep(x) ==
    \/ \E outcome \in {"failed", "cancelled"} : GiveUp(x, outcome)
    \/ WriteGivenUp(x) \/ SyncGivenUp(x) \/ PurgeGivenUp(x) \/ PassDies(x)

RequestStep ==
    \/ (\E i \in Items : UploadTarget(i)) \/ UploadEnds \/ UploadFails
    \/ \E r \in Cancels : (\E i \in Items : SelectItem(r, i)) \/ DeleteItem(r)

JobStep == Release \/ SweepOrphans \/ StartCleanup \/ DeleteExecutions

PipelineNext ==
    \/ \E x \in Drains : DrainStep(x) \/ PassStep(x)
    \/ \E ids \in purges : DeleteRows(ids)
    \/ RequestStep
    \/ JobStep

PipelineSpec == PipelineInit /\ [][PipelineNext]_pipelineVars

\* Handlers and passes go on; what a handler leaves running, somebody gives up in the end
\* (ExecutionQueue: EveryExecutionEnds); the reconcile pass keeps coming.  No more than
\* that some of these steps is taken as long as there is one: each can happen only a
\* bounded number of times.
Progress ==
    \/ \E x \in Drains :
          \/ Claim(x) \/ FindMedia(x) \/ Post(x) \/ Complete(x) \/ LogPublished(x) \/ FailItem(x)
          \/ Write(x) \/ Sync(x) \/ PurgeEnded(x)
          \/ drain[x].pc = "over" /\ GiveUp(x, "failed")
          \/ WriteGivenUp(x) \/ SyncGivenUp(x) \/ PurgeGivenUp(x)
    \/ Release
PipelineFairness == WF_pipelineVars(Progress)

(***************************************************************************)
(* Properties                                                              *)
(***************************************************************************)
\* A clip is posted once at most: neither a crash, nor an abandoned drain that goes on
\* beside the next one, nor a failed item brings it back (pipeline-repository.ts:60,
\* repository.ts:843).
PostedOnce == \A i \in Items : posted[i] <= 1

\* The list says published only of a clip that went out, whichever of the drain, the
\* finishing party and the release came last.
PublishedWasPosted == \A i \in Items : item[i].status = "published" => posted[i] > 0

\* Unless a call rejects, published is the last word about a clip: a party that gave the
\* drain up does not write failed over it, before or after (repository.ts:834).
PublishedIsFinal ==
    [][\A i \in Items :
          item[i].status = "published" /\ mishaps = 0 =>
              item'[i].status \in {"published", "deleted"}]_pipelineVars

\* What is ready can be posted: no purge, sweep or cleanup takes its media, unless a
\* fleet upload broke off (tiktok-plugin.ts:609 removes what the others registered).
ReadyHasMedia ==
    mishaps = 0 => \A i \in Items : item[i].status = "ready" => asset[i].row /\ asset[i].file

\* The clips of a phone, whoever dies, cancels or cleans up: posted once, published
\* only if posted, and ready only with their media (pipeline-repository.ts:52-130,
\* repository.ts:831-1000).
PipelineSafe == PipelineTypeOK /\ PostedOnce /\ PublishedWasPosted /\ ReadyHasMedia

\* Once all drains have come, no item stays in flight: whatever dies, the drain, the
\* party that gives it up or the next reconcile pass settles it (repository.ts:853).
PublishingSettles == <>[](\A i \in Items : item[i].status # "publishing")

\* In the end the files of the published clips are removed, of those whose drain
\* belongs to no repeating schedule, if nothing died (repository.ts:634).
PublishedMediaIsReclaimed ==
    <>[](mishaps = 0 =>
           \A i \in Items :
               item[i].status = "published" /\ item[i].exec \in Drains \ Recurring => ~asset[i].file)

\* Drains come to an end of their clips and of their media.
PipelineSettles == PublishingSettles /\ PublishedMediaIsReclaimed
=============================================================================
