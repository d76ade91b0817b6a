--------------------------- MODULE PipelineProofs ---------------------------
(***************************************************************************)
(* What holds of the post pipeline for any number of items, drains,        *)
(* cancellations and mishaps, and of the switch that has a phone's queue   *)
(* drained, for any number of phones, clicks, refreshes and faults.        *)
(***************************************************************************)
EXTENDS Pipeline, AutoSettings, SequenceTheorems, FiniteSetTheorems, TLAPS

USE PipelineAssumption

-----------------------------------------------------------------------------
(* The inductive invariant.  An item is claimed once: until then its asset  *)
(* belongs to no execution and its clip is not posted, and afterwards it is *)
(* that drain's for ever.  So what a drain has come to (its pc) tells what  *)
(* has become of its clip, whoever else wrote the item's status.            *)

Working == {"media", "post", "complete", "log", "fail"}

\* What nobody has claimed.
Fresh ==
    \A i \in Items : item[i].status \in {"absent", "ready"} =>
        /\ asset[i].exec = NoDrain /\ posted[i] = 0
        /\ item[i].status = "ready" => item[i].media
ReadyIsThere ==
    \A i \in Items : item[i].status = "ready" => asset[i].row /\ asset[i].file

\* An item is its drain's, and nobody else's.
ClaimedOnce ==
    /\ \A i \in Items, x \in Drains : item[i].exec = x => drain[x].item = i
    /\ \A i \in Items, x, y \in Drains : drain[x].item = i /\ drain[y].item = i => x = y
    /\ \A i \in Items, x \in Drains :
          drain[x].item = i => item[i].status \notin {"absent", "ready"}

\* What a drain's pc and result tell.
DrainControl(x) ==
    /\ drain[x].status = "absent" => drain[x].pc = "none"
    /\ drain[x].status = "succeeded" => drain[x].ok
    /\ drain[x].pc \in {"none", "claim"} => drain[x].item = NoItem
    /\ drain[x].pc \in {"none", "claim"} \cup Working => ~drain[x].ok
    /\ drain[x].pc \in Working => drain[x].item \in Items
DrainTells(x) ==
    \A i \in Items : drain[x].item = i =>
        /\ drain[x].pc \in {"media", "post"} => posted[i] = 0
        /\ drain[x].pc \in {"complete", "log"} => posted[i] > 0
        /\ drain[x].pc = "log" \/ drain[x].ok => item[i].status # "publishing"
        /\ mishaps = 0 /\ drain[x].pc \in {"media", "post", "complete", "fail"} =>
              item[i].status # "published"

PassesGiveUp == \A x \in Drains : pass[x].outcome \in {"failed", "cancelled"}

PipelineInv ==
    /\ PipelineTypeOK
    /\ Fresh /\ (mishaps = 0 => ReadyIsThere)
    /\ ClaimedOnce
    /\ \A x \in Drains : DrainControl(x) /\ DrainTells(x)
    /\ PassesGiveUp
    /\ PostedOnce /\ PublishedWasPosted

ItemRow == [status : ItemStatus, exec : Drains \cup {NoDrain}, media : BOOLEAN]
AssetRow == [row : BOOLEAN, file : BOOLEAN, exec : Drains \cup {NoDrain}]
DrainRow == [status : {"absent", "running", "deleted"} \cup Ended,
             pc : {"none", "claim", "media", "post", "complete", "log", "fail",
                   "end", "sync", "purge", "over"},
             item : Items \cup {NoItem}, ok : BOOLEAN]
PassRow == [pc : {"none", "selected", "sync", "purge", "over"}, outcome : Ended]

\* The type invariant, row by row.
RowTypes ==
    /\ item \in [Items -> ItemRow] /\ asset \in [Items -> AssetRow]
    /\ drain \in [Drains -> DrainRow] /\ pass \in [Drains -> PassRow]
    /\ posted \in [Items -> 0 .. PostedBound] /\ mishaps \in 0 .. PipelineFaults

\* ... and what else there is.
RequestTypes ==
    /\ purges \subseteq SUBSET Items
    /\ cancel \in [Cancels -> [pc : {"new"}, item : {NoItem}] \cup [pc : {"delete", "over"}, item : Items]]
    /\ made \subseteq Items /\ clean \subseteq Drains

LEMMA TypesSplit == PipelineTypeOK <=> RowTypes /\ RequestTypes
BY DEF PipelineTypeOK, RowTypes, RequestTypes, ItemRow, AssetRow, DrainRow, PassRow, Media

LEMMA TypesSplitNext == PipelineTypeOK' <=> RowTypes' /\ RequestTypes'
BY DEF PipelineTypeOK, RowTypes, RequestTypes, ItemRow, AssetRow, DrainRow, PassRow, Media

LEMMA PipelineInitHolds == PipelineInit => PipelineInv
<1> SUFFICES ASSUME PipelineInit PROVE PipelineInv
  OBVIOUS
<1>1. RowTypes
  <2>1. /\ [status |-> "absent", exec |-> NoDrain, media |-> FALSE] \in ItemRow
        /\ [row |-> FALSE, file |-> FALSE, exec |-> NoDrain] \in AssetRow
        /\ [status |-> "absent", pc |-> "none", item |-> NoItem, ok |-> FALSE] \in DrainRow
        /\ [pc |-> "none", outcome |-> "failed"] \in PassRow
    BY DEF ItemRow, ItemStatus, AssetRow, DrainRow, PassRow, Ended
  <2> QED  BY <2>1 DEF PipelineInit, RowTypes, Media, PostedBound
<1>2. RequestTypes  BY DEF PipelineInit, RequestTypes
<1>3. /\ \A i \in Items : /\ item[i].status = "absent" /\ item[i].exec = NoDrain
                          /\ asset[i].exec = NoDrain /\ posted[i] = 0
      /\ \A x \in Drains : /\ drain[x].item = NoItem /\ drain[x].pc = "none" /\ ~drain[x].ok
                           /\ drain[x].status = "absent" /\ pass[x].outcome = "failed"
  BY DEF PipelineInit, Media
<1>4. Fresh /\ ReadyIsThere /\ ClaimedOnce /\ PassesGiveUp /\ PostedOnce /\ PublishedWasPosted
  <2>1. Fresh /\ ReadyIsThere  BY <1>3 DEF Fresh, ReadyIsThere
  <2>2. ClaimedOnce
    <3>1. \A i \in Items, x \in Drains : item[i].exec # x /\ drain[x].item # i
      BY <1>3
    <3> QED  BY <3>1 DEF ClaimedOnce
  <2>3. PassesGiveUp /\ PostedOnce /\ PublishedWasPosted
    BY <1>3 DEF PassesGiveUp, PostedOnce, PublishedWasPosted
  <2> QED  BY <2>1, <2>2, <2>3
<1>5. \A x \in Drains : DrainControl(x) /\ DrainTells(x)
  BY <1>3 DEF DrainControl, DrainTells, Working
<1> QED  BY <1>1, <1>2, <1>4, <1>5, TypesSplit DEF PipelineInv

-----------------------------------------------------------------------------
(* What every step but an upload and a claim leaves of the invariant: no    *)
(* item becomes ready or publishing, and none changes hands.                *)

Stays(i) ==
    /\ item'[i].status \in {"absent", "ready"} =>
          /\ item'[i].status = item[i].status /\ item'[i].media = item[i].media
          /\ asset'[i].exec = asset[i].exec /\ posted'[i] = posted[i]
    /\ item'[i].status = "publishing" => item[i].status = "publishing"
    /\ item'[i].exec \in {item[i].exec, NoDrain}

LEMMA FreshStays == ASSUME PipelineInv, \A i \in Items : Stays(i) PROVE Fresh'
BY DEF PipelineInv, Fresh, Stays

LEMMA ThereStays ==
    ASSUME PipelineInv, mishaps' = 0 => mishaps = 0, \A i \in Items : Stays(i),
           mishaps' = 0 =>
             \A i \in Items : item'[i].status = "ready" /\ asset[i].row /\ asset[i].file =>
                               asset'[i].row /\ asset'[i].file
    PROVE  mishaps' = 0 => ReadyIsThere'
BY DEF PipelineInv, ReadyIsThere, Stays

LEMMA OwnStays ==
    ASSUME PipelineInv, \A i \in Items : Stays(i),
           \A x \in Drains : drain'[x].item = drain[x].item
    PROVE  ClaimedOnce'
BY DEF PipelineInv, ClaimedOnce, Stays

\* A drain that does nothing: others may not publish its clip.
LEMMA TellsStay ==
    ASSUME PipelineInv, NEW x \in Drains, \A i \in Items : Stays(i),
           mishaps' = 0 => mishaps = 0,
           drain'[x].item = drain[x].item, drain'[x].ok = drain[x].ok,
           drain'[x].pc = drain[x].pc \/ drain'[x].pc \in {"end", "sync", "purge", "over"},
           \A i \in Items : drain[x].item = i =>
               posted'[i] = posted[i] /\ (item'[i].status = "published" => item[i].status = "published")
    PROVE  DrainTells(x)'
<1> SUFFICES ASSUME NEW i \in Items, drain'[x].item = i
             PROVE  /\ drain'[x].pc \in {"media", "post"} => posted'[i] = 0
                    /\ drain'[x].pc \in {"complete", "log"} => posted'[i] > 0
                    /\ drain'[x].pc = "log" \/ drain'[x].ok => item'[i].status # "publishing"
                    /\ mishaps' = 0 /\ drain'[x].pc \in {"media", "post", "complete", "fail"} =>
                          item'[i].status # "published"
  BY DEF DrainTells
<1>1. DrainTells(x) /\ drain[x].item = i /\ Stays(i)  BY DEF PipelineInv
<1>2. posted'[i] = posted[i] /\ (item'[i].status = "published" => item[i].status = "published")
  OBVIOUS
<1> QED  BY <1>1, <1>2 DEF DrainTells, Stays

LEMMA PublishedStays ==
    ASSUME PipelineInv,
           \A i \in Items : item'[i].status = "published" =>
              posted'[i] > 0 \/ (item[i].status = "published" /\ posted'[i] = posted[i])
    PROVE  PublishedWasPosted'
BY DEF PipelineInv, PublishedWasPosted
-----------------------------------------------------------------------------
(* Uploads                                                                 *)

LEMMA UploadKeeps ==
    ASSUME PipelineInv, NEW i \in Items, UploadTarget(i)
    PROVE  PipelineInv'
<1>1. RowTypes /\ RequestTypes /\ i \in Items  BY TypesSplit DEF PipelineInv
<1>2. item[i].status = "absent"  BY DEF UploadTarget, NextId, Unused
<1>3. /\ item' = [item EXCEPT ![i] = [status |-> "ready", exec |-> NoDrain, media |-> TRUE]]
      /\ asset' = [asset EXCEPT ![i].file = TRUE, ![i].row = TRUE]
      /\ UNCHANGED <<drain, pass, posted, mishaps>>
  BY DEF UploadTarget
<1>4. RowTypes'
  <2>1. [status |-> "ready", exec |-> NoDrain, media |-> TRUE] \in ItemRow
    BY DEF ItemRow, ItemStatus
  <2>2. item' \in [Items -> ItemRow]  BY <1>1, <1>3, <2>1 DEF RowTypes
  <2>3. asset' \in [Items -> AssetRow]  BY <1>1, <1>3, ZenonT(60) DEF RowTypes, AssetRow
  <2> QED  BY <1>1, <1>3, <2>2, <2>3 DEF RowTypes
<1>5. RequestTypes'  BY <1>1 DEF UploadTarget, RequestTypes
<1>6. /\ item'[i] = [status |-> "ready", exec |-> NoDrain, media |-> TRUE]
      /\ asset'[i].exec = asset[i].exec /\ asset'[i].row /\ asset'[i].file
      /\ \A k \in Items \ {i} : item'[k] = item[k] /\ asset'[k] = asset[k]
  BY <1>1, <1>3 DEF RowTypes, AssetRow
<1>7. Fresh' /\ (mishaps' = 0 => ReadyIsThere')
  <2>1. Fresh /\ asset[i].exec = NoDrain /\ posted[i] = 0
    BY <1>2 DEF PipelineInv, Fresh
  <2>2. Fresh'
    <3> SUFFICES ASSUME NEW k \in Items, item'[k].status \in {"absent", "ready"}
                 PROVE  /\ asset'[k].exec = NoDrain /\ posted'[k] = 0
                        /\ item'[k].status = "ready" => item'[k].media
      BY DEF Fresh
    <3>1. CASE k = i  BY <1>3, <1>6, <2>1, <3>1
    <3>2. CASE k # i  BY <1>3, <1>6, <2>1, <3>2 DEF Fresh
    <3> QED  BY <3>1, <3>2
  <2>3. mishaps' = 0 => ReadyIsThere'  BY <1>3, <1>6 DEF PipelineInv, ReadyIsThere
  <2> QED  BY <2>2, <2>3
<1>8. \A x \in Drains : drain[x].item # i  BY <1>2 DEF PipelineInv, ClaimedOnce
<1>9. ClaimedOnce'  BY <1>3, <1>6, <1>8 DEF PipelineInv, ClaimedOnce
<1>10. \A x \in Drains : DrainControl(x)' /\ DrainTells(x)'
  BY <1>3, <1>6, <1>8 DEF PipelineInv, DrainControl, DrainTells
<1>11. PassesGiveUp' /\ PostedOnce' /\ PublishedWasPosted'
  BY <1>3, <1>6 DEF PipelineInv, PassesGiveUp, PostedOnce, PublishedWasPosted
<1> QED  BY <1>4, <1>5, <1>7, <1>9, <1>10, <1>11, TypesSplitNext DEF PipelineInv

\* purgeAssetIds removes files of rows that are there, and keeps the rows.
LEMMA FilesRemoved ==
    ASSUME PipelineInv, NEW ids \in SUBSET Items, RemoveFiles(ids)
    PROVE  /\ asset' \in [Items -> AssetRow] /\ purges' \subseteq SUBSET Items
           /\ \A a \in Items : /\ asset'[a].exec = asset[a].exec /\ asset'[a].row = asset[a].row
                               /\ a \notin ids => asset'[a] = asset[a]
<1>1. RowTypes /\ RequestTypes  BY TypesSplit DEF PipelineInv
<1> DEFINE found == {a \in ids : asset[a].row}
<1>2. found \in SUBSET ids  OBVIOUS
<1>3. asset' = WithoutFiles(found)  BY DEF RemoveFiles
<1>4. purges' = purges \/ purges' = purges \cup {found}  BY DEF RemoveFiles
<1> HIDE DEF found
<1>5. asset' \in [Items -> AssetRow]
  BY <1>1, <1>3, ZenonT(60) DEF WithoutFiles, Media, RowTypes, AssetRow
<1>6. \A a \in Items : /\ asset'[a].exec = asset[a].exec /\ asset'[a].row = asset[a].row
                       /\ a \notin ids => asset'[a] = asset[a]
  BY <1>1, <1>2, <1>3 DEF WithoutFiles, Media, RowTypes, AssetRow
<1>7. purges' \subseteq SUBSET Items
  <2>1. found \in SUBSET Items /\ purges \subseteq SUBSET Items
    BY <1>1, <1>2 DEF RequestTypes
  <2> QED  BY <1>4, <2>1
<1> QED  BY <1>5, <1>6, <1>7

\* A mishap leaves nothing to say about the media of what is ready.
LEMMA MishapCounts ==
    ASSUME PipelineInv, Mishap
    PROVE  mishaps' \in 0 .. PipelineFaults /\ mishaps' # 0
BY TypesSplit DEF PipelineInv, RowTypes, Mishap

-----------------------------------------------------------------------------
(* The drain                                                               *)

LEMMA DrainMoves ==
    ASSUME PipelineInv, NEW x \in Drains, UNCHANGED <<asset, pass, purges, cancel, made, clean>>,
           RowTypes', mishaps' = 0 => mishaps = 0,
           \A y \in Drains \ {x} : drain'[y] = drain[y], drain'[x].item = drain[x].item,
           \A i \in Items : Stays(i),
           \A i \in Items : drain[x].item # i =>
               posted'[i] = posted[i] /\ (item'[i].status = "published" => item[i].status = "published"),
           DrainControl(x)', DrainTells(x)', PostedOnce', PublishedWasPosted'
    PROVE  PipelineInv'
<1>1. RequestTypes'  BY TypesSplit DEF PipelineInv, RequestTypes
<1>2. Fresh' /\ (mishaps' = 0 => ReadyIsThere') /\ ClaimedOnce'
  BY FreshStays, ThereStays, OwnStays
<1>3. ASSUME NEW y \in Drains, y # x PROVE DrainControl(y)' /\ DrainTells(y)'
  <2>1. drain'[y] = drain[y]  BY <1>3
  <2>2. DrainControl(y)'  BY <2>1 DEF PipelineInv, DrainControl
  <2>3. ASSUME NEW i \in Items, drain[y].item = i PROVE drain[x].item # i
    <3>1. \A k \in Items, u, v \in Drains : drain[u].item = k /\ drain[v].item = k => u = v
      BY DEF PipelineInv, ClaimedOnce
    <3> QED  BY <1>3, <2>3, <3>1
  <2>4. DrainTells(y)'  BY <2>1, <2>3, TellsStay
  <2> QED  BY <2>2, <2>4
<1>4. PassesGiveUp'  BY DEF PipelineInv, PassesGiveUp
<1> QED  BY <1>1, <1>2, <1>3, <1>4, TypesSplitNext DEF PipelineInv

\* What is known of the item a drain works on.
LEMMA WorkedOn ==
    ASSUME PipelineInv, NEW x \in Drains, drain[x].pc \in Working
    PROVE  /\ drain[x].item \in Items /\ ~drain[x].ok
           /\ drain[x].status \notin {"absent", "succeeded"}
           /\ item[drain[x].item].status \notin {"absent", "ready"}
BY DEF PipelineInv, DrainControl, ClaimedOnce, Working

\* SetItem writes one row, if it is there.
LEMMA SetItemStays ==
    ASSUME PipelineInv, NEW i \in Items, item[i].status \notin {"absent", "ready"},
           NEW s \in {"published", "failed"}, SetItem(i, s), UNCHANGED <<asset, posted>>
    PROVE  /\ item' \in [Items -> ItemRow] /\ \A k \in Items : Stays(k)
           /\ \A k \in Items \ {i} : item'[k] = item[k]
           /\ item'[i].status \in {s, "deleted"} /\ item'[i].exec = item[i].exec
<1>1. item \in [Items -> ItemRow]  BY TypesSplit DEF PipelineInv, RowTypes
<1>2. CASE Exists(i)
  <2>1. item' = [item EXCEPT ![i] = Settled(i, s)]  BY <1>2 DEF SetItem
  <2>2. /\ Settled(i, s) \in ItemRow /\ Settled(i, s).status = s
        /\ Settled(i, s).exec = item[i].exec
    BY <1>1 DEF Settled, ItemRow, ItemStatus
  <2>3. /\ item' \in [Items -> ItemRow] /\ item'[i] = Settled(i, s)
        /\ \A k \in Items \ {i} : item'[k] = item[k]
    BY <1>1, <2>1, <2>2
  <2> QED  BY <1>1, <2>2, <2>3 DEF Stays, ItemRow
<1>3. CASE ~Exists(i)
  <2>1. item' = item /\ item[i].status = "deleted"
    BY <1>1, <1>3 DEF SetItem, Exists, ItemRow, ItemStatus
  <2> QED  BY <1>1, <2>1 DEF Stays
<1> QED  BY <1>2, <1>3

LEMMA StartDrainKeeps == ASSUME PipelineInv, NEW x \in Drains, StartDrain(x) PROVE PipelineInv'
<1>1. RowTypes  BY TypesSplit DEF PipelineInv
<1>2. /\ drain' = [drain EXCEPT ![x].status = "running", ![x].pc = "claim"]
      /\ UNCHANGED <<item, asset, pass, purges, cancel, made, clean, posted, mishaps>>
      /\ drain[x].status = "absent"
  BY DEF StartDrain
<1>3. RowTypes'
  <2>1. drain' \in [Drains -> DrainRow]
    <3>1. [drain[x] EXCEPT !.status = "running", !.pc = "claim"] \in DrainRow
      BY <1>1, ZenonT(60) DEF RowTypes, DrainRow
    <3>2. drain' = [drain EXCEPT ![x] = [drain[x] EXCEPT !.status = "running", !.pc = "claim"]]
      BY <1>1, <1>2 DEF RowTypes, DrainRow
    <3> QED  BY <1>1, <3>1, <3>2 DEF RowTypes
  <2> QED  BY <1>1, <1>2, <2>1 DEF RowTypes
<1>4. /\ drain'[x].status = "running" /\ drain'[x].pc = "claim"
      /\ drain'[x].item = drain[x].item /\ drain'[x].ok = drain[x].ok
      /\ \A y \in Drains \ {x} : drain'[y] = drain[y]
  BY <1>1, <1>2 DEF RowTypes, DrainRow
<1>5. drain[x].item = NoItem /\ ~drain[x].ok
  BY <1>2 DEF PipelineInv, DrainControl
<1>6. DrainControl(x)'  BY <1>4, <1>5 DEF DrainControl, Working
<1>7. DrainTells(x)'  BY <1>4, <1>5 DEF DrainTells
<1>8. PostedOnce' /\ PublishedWasPosted' /\ \A i \in Items : Stays(i)
  BY <1>1, <1>2 DEF PipelineInv, PostedOnce, PublishedWasPosted, Stays, RowTypes
<1> QED  BY <1>2, <1>3, <1>4, <1>6, <1>7, <1>8, DrainMoves

LEMMA ClaimKeeps == ASSUME PipelineInv, NEW x \in Drains, Claim(x) PROVE PipelineInv'
<1>1. RowTypes /\ RequestTypes  BY TypesSplit DEF PipelineInv
<1>2. /\ UNCHANGED <<pass, purges, cancel, made, clean, posted, mishaps>>
      /\ drain[x].pc = "claim"
  BY DEF Claim
<1>3. drain[x].item = NoItem /\ ~drain[x].ok /\ drain[x].status \notin {"absent", "succeeded"}
  BY <1>2 DEF PipelineInv, DrainControl
<1>4. \A i \in Items : item[i].exec # x
  BY <1>3 DEF PipelineInv, ClaimedOnce
<1>5. CASE /\ drain' = [drain EXCEPT ![x].pc = "end", ![x].ok = TRUE]
           /\ UNCHANGED <<item, asset>>
  <2>1. RowTypes'
    <3>1. [drain[x] EXCEPT !.pc = "end", !.ok = TRUE] \in DrainRow
      BY <1>1, ZenonT(60) DEF RowTypes, DrainRow
    <3>2. drain' = [drain EXCEPT ![x] = [drain[x] EXCEPT !.pc = "end", !.ok = TRUE]]
      BY <1>1, <1>5 DEF RowTypes, DrainRow
    <3>3. drain' \in [Drains -> DrainRow]  BY <1>1, <3>1, <3>2 DEF RowTypes
    <3> QED  BY <1>1, <1>2, <1>5, <3>3 DEF RowTypes
  <2>2. /\ drain'[x].status = drain[x].status /\ drain'[x].pc = "end"
        /\ drain'[x].item = drain[x].item /\ drain'[x].ok
        /\ \A y \in Drains \ {x} : drain'[y] = drain[y]
    BY <1>1, <1>5 DEF RowTypes, DrainRow
  <2>3. DrainControl(x)'  BY <1>3, <2>2 DEF DrainControl, Working
  <2>4. DrainTells(x)'  BY <1>3, <2>2 DEF DrainTells
  <2>5. PostedOnce' /\ PublishedWasPosted' /\ \A i \in Items : Stays(i)
    BY <1>1, <1>2, <1>5 DEF PipelineInv, PostedOnce, PublishedWasPosted, Stays, RowTypes
  <2> QED  BY <1>2, <1>5, <2>1, <2>2, <2>3, <2>4, <2>5, DrainMoves
<1>6. ASSUME NEW i \in Items, Oldest(i),
             item' = [item EXCEPT ![i].status = "publishing", ![i].exec = x],
             asset' = [asset EXCEPT ![i].exec = x],
             drain' = [drain EXCEPT ![x].pc = "media", ![x].item = i]
      PROVE  PipelineInv'
  <2>1. item[i].status = "ready" /\ posted[i] = 0
    BY <1>6 DEF Oldest, Claimable, PipelineInv, Fresh
  <2>2. /\ item' \in [Items -> ItemRow] /\ item'[i].status = "publishing" /\ item'[i].exec = x
        /\ \A k \in Items \ {i} : item'[k] = item[k]
    BY <1>1, <1>6, ZenonT(60) DEF RowTypes, ItemRow, ItemStatus
  <2>3. /\ asset' \in [Items -> AssetRow]
        /\ \A k \in Items \ {i} : asset'[k] = asset[k]
    BY <1>1, <1>6 DEF RowTypes, AssetRow
  <2>4. /\ drain' \in [Drains -> DrainRow] /\ drain'[x].status = drain[x].status
        /\ drain'[x].pc = "media" /\ drain'[x].item = i /\ drain'[x].ok = drain[x].ok
        /\ \A y \in Drains \ {x} : drain'[y] = drain[y]
    BY <1>1, <1>6, ZenonT(60) DEF RowTypes, DrainRow
  <2>5. RowTypes' /\ RequestTypes'
    BY <1>1, <1>2, <2>2, <2>3, <2>4 DEF RowTypes, RequestTypes
  <2>6. \A y \in Drains : drain[y].item # i
    BY <2>1 DEF PipelineInv, ClaimedOnce
  <2>7. Fresh' /\ (mishaps' = 0 => ReadyIsThere')
    BY <1>2, <2>2, <2>3 DEF PipelineInv, Fresh, ReadyIsThere
  <2>8. ClaimedOnce'
    <3>1. \A k \in Items, y \in Drains : item'[k].exec = y => drain'[y].item = k
      BY <1>4, <2>2, <2>4, <2>6 DEF PipelineInv, ClaimedOnce
    <3>2. ASSUME NEW k \in Items, NEW y \in Drains, NEW z \in Drains,
                 drain'[y].item = k, drain'[z].item = k
          PROVE  y = z
      <4>1. CASE k = i  BY <2>4, <2>6, <3>2, <4>1
      <4>2. CASE k # i
        <5>1. drain[y].item = k /\ drain[z].item = k  BY <2>4, <3>2, <4>2
        <5> QED  BY <5>1 DEF PipelineInv, ClaimedOnce
      <4> QED  BY <4>1, <4>2
    <3>3. ASSUME NEW k \in Items, NEW y \in Drains, drain'[y].item = k
          PROVE  item'[k].status \notin {"absent", "ready"}
      <4>1. CASE k = i  BY <2>2, <4>1
      <4>2. CASE k # i
        <5>1. drain[y].item = k /\ item'[k] = item[k]  BY <2>2, <2>4, <3>3, <4>2
        <5>2. drain[y].item = k => item[k].status \notin {"absent", "ready"}
          BY DEF PipelineInv, ClaimedOnce
        <5> QED  BY <5>1, <5>2
      <4> QED  BY <4>1, <4>2
    <3> QED  BY <3>1, <3>2, <3>3 DEF ClaimedOnce
  <2>9. DrainControl(x)' /\ DrainTells(x)'
    BY <1>2, <1>3, <2>1, <2>2, <2>4 DEF DrainControl, DrainTells, Working
  <2>10. ASSUME NEW y \in Drains, y # x PROVE DrainControl(y)' /\ DrainTells(y)'
    <3>1. drain'[y] = drain[y] /\ drain[y].item # i  BY <2>4, <2>6, <2>10
    <3>2. DrainControl(y) /\ DrainTells(y)  BY DEF PipelineInv
    <3> QED  BY <1>2, <2>2, <3>1, <3>2 DEF DrainControl, DrainTells
  <2>11. PassesGiveUp' /\ PostedOnce' /\ PublishedWasPosted'
    BY <1>2, <2>2 DEF PipelineInv, PassesGiveUp, PostedOnce, PublishedWasPosted
  <2> QED  BY <2>5, <2>7, <2>8, <2>9, <2>10, <2>11, TypesSplitNext DEF PipelineInv
<1> QED  BY <1>5, <1>6 DEF Claim

\* Every move of a handler: to a pc, and perhaps with its result or its status.
Moves(x, r) ==
    /\ drain' \in [Drains -> DrainRow] /\ drain'[x] = r
    /\ \A y \in Drains \ {x} : drain'[y] = drain[y]

LEMMA HandlerMoves ==
    ASSUME RowTypes, NEW x \in Drains,
           NEW p \in {"claim", "media", "post", "complete", "log", "fail", "end", "sync", "purge", "over"}
    PROVE  /\ Handler(x, p) => Moves(x, [drain[x] EXCEPT !.pc = p])
           /\ drain' = [drain EXCEPT ![x].pc = p, ![x].ok = TRUE] =>
                Moves(x, [drain[x] EXCEPT !.pc = p, !.ok = TRUE])
           /\ \A s \in Ended : drain' = [drain EXCEPT ![x].pc = p, ![x].status = s] =>
                Moves(x, [drain[x] EXCEPT !.pc = p, !.status = s])
<1>0. drain \in [Drains -> DrainRow] /\ drain[x] \in DrainRow  BY DEF RowTypes
<1>1. ASSUME NEW r \in DrainRow, drain' = [drain EXCEPT ![x] = r]
      PROVE  Moves(x, r)
  BY <1>0, <1>1 DEF Moves
<1>2. [drain[x] EXCEPT !.pc = p] \in DrainRow  BY <1>0 DEF DrainRow
<1>3. [drain[x] EXCEPT !.pc = p, !.ok = TRUE] \in DrainRow  BY <1>0 DEF DrainRow
<1>4. ASSUME NEW s \in Ended PROVE [drain[x] EXCEPT !.pc = p, !.status = s] \in DrainRow
  BY <1>0 DEF DrainRow
<1>5. ASSUME Handler(x, p) PROVE Moves(x, [drain[x] EXCEPT !.pc = p])
  <2>1. drain' = [drain EXCEPT ![x] = [drain[x] EXCEPT !.pc = p]]  BY <1>0, <1>5 DEF Handler
  <2> QED  BY <1>1, <1>2, <2>1
<1>6. ASSUME drain' = [drain EXCEPT ![x].pc = p, ![x].ok = TRUE]
      PROVE  Moves(x, [drain[x] EXCEPT !.pc = p, !.ok = TRUE])
  <2>1. drain' = [drain EXCEPT ![x] = [drain[x] EXCEPT !.pc = p, !.ok = TRUE]]
    BY <1>0, <1>6 DEF DrainRow
  <2> QED  BY <1>1, <1>3, <2>1
<1>7. ASSUME NEW s \in Ended, drain' = [drain EXCEPT ![x].pc = p, ![x].status = s]
      PROVE  Moves(x, [drain[x] EXCEPT !.pc = p, !.status = s])
  <2>1. drain' = [drain EXCEPT ![x] = [drain[x] EXCEPT !.pc = p, !.status = s]]
    BY <1>0, <1>7 DEF DrainRow
  <2> QED  BY <1>1, <1>4, <1>7, <2>1
<1> QED  BY <1>5, <1>6, <1>7

\* A handler that moves on and leaves item, asset and posts as they are.
LEMMA QuietMove ==
    ASSUME PipelineInv, NEW x \in Drains, NEW r, Moves(x, r),
           UNCHANGED <<item, asset, pass, purges, cancel, made, clean, posted>>,
           mishaps' \in 0 .. PipelineFaults, mishaps' = 0 => mishaps = 0,
           r.item = drain[x].item, DrainControl(x)', DrainTells(x)'
    PROVE  PipelineInv'
<1>1. RowTypes  BY TypesSplit DEF PipelineInv
<1>2. RowTypes'  BY <1>1 DEF Moves, RowTypes
<1>3. PostedOnce' /\ PublishedWasPosted' /\ \A i \in Items : Stays(i)
  BY <1>1 DEF PipelineInv, PostedOnce, PublishedWasPosted, Stays, RowTypes
<1> QED  BY <1>2, <1>3, DrainMoves DEF Moves

LEMMA FindMediaKeeps == ASSUME PipelineInv, NEW x \in Drains, FindMedia(x) PROVE PipelineInv'
<1>1. RowTypes  BY TypesSplit DEF PipelineInv
<1> DEFINE i == drain[x].item
<1>2. /\ UNCHANGED <<asset, pass, purges, cancel, made, clean, posted, mishaps>>
      /\ drain[x].pc = "media" /\ drain[x] \in DrainRow
  BY <1>1 DEF FindMedia, RowTypes
<1>3. /\ i \in Items /\ ~drain[x].ok /\ item[i].status \notin {"absent", "ready"}
      /\ drain[x].status \notin {"absent", "succeeded"}
  BY <1>2, WorkedOn DEF Working
<1>4. /\ posted[i] = 0 /\ (mishaps = 0 => item[i].status # "published")
  BY <1>2, <1>3 DEF PipelineInv, DrainTells
<1>5. CASE Handler(x, "post") /\ item' = item
  <2>1. Moves(x, [drain[x] EXCEPT !.pc = "post"])  BY <1>1, <1>5, HandlerMoves
  <2>2. DrainControl(x)' /\ DrainTells(x)'
    BY <1>2, <1>3, <1>4, <1>5, <2>1 DEF Moves, DrainRow, DrainControl, DrainTells, Working
  <2> QED  BY <1>1, <1>2, <1>5, <2>1, <2>2, QuietMove DEF RowTypes, DrainRow
<1>6. CASE /\ SetItem(i, "failed")
           /\ drain' = [drain EXCEPT ![x].pc = "end", ![x].ok = TRUE]
  <2>1. Moves(x, [drain[x] EXCEPT !.pc = "end", !.ok = TRUE])  BY <1>1, <1>6, HandlerMoves
  <2>2. /\ item' \in [Items -> ItemRow] /\ \A k \in Items : Stays(k)
        /\ \A k \in Items \ {i} : item'[k] = item[k]
        /\ item'[i].status \in {"failed", "deleted"}
    BY <1>2, <1>3, <1>6, SetItemStays
  <2>3. RowTypes'  BY <1>1, <1>2, <2>1, <2>2 DEF RowTypes, Moves
  <2>4. DrainControl(x)' /\ DrainTells(x)'
    BY <1>2, <1>3, <2>1, <2>2 DEF Moves, DrainRow, DrainControl, DrainTells, Working
  <2>5. PostedOnce' /\ PublishedWasPosted'
    BY <1>2, <2>2 DEF PipelineInv, PostedOnce, PublishedWasPosted
  <2>6. drain'[x].item = drain[x].item  BY <1>2, <2>1 DEF Moves, DrainRow
  <2> QED  BY <1>2, <2>1, <2>2, <2>3, <2>4, <2>5, <2>6, DrainMoves DEF Moves
<1> QED  BY <1>5, <1>6 DEF FindMedia

LEMMA PostKeeps == ASSUME PipelineInv, NEW x \in Drains, Post(x) PROVE PipelineInv'
<1>1. RowTypes  BY TypesSplit DEF PipelineInv
<1> DEFINE i == drain[x].item
<1>2. /\ UNCHANGED <<item, asset, pass, purges, cancel, made, clean, mishaps>>
      /\ drain[x].pc = "post" /\ drain[x] \in DrainRow
  BY <1>1 DEF Post, RowTypes
<1>3. /\ i \in Items /\ ~drain[x].ok /\ item[i].status \notin {"absent", "ready"}
      /\ drain[x].status \notin {"absent", "succeeded"}
  BY <1>2, WorkedOn DEF Working
<1>4. /\ posted[i] = 0 /\ (mishaps = 0 => item[i].status # "published")
  BY <1>2, <1>3 DEF PipelineInv, DrainTells
<1>5. ASSUME NEW p \in {"complete", "fail"}, Handler(x, p),
             posted' = [posted EXCEPT ![i] = IF @ < PostedBound THEN @ + 1 ELSE @]
      PROVE  PipelineInv'
  <2>1. Moves(x, [drain[x] EXCEPT !.pc = p])  BY <1>1, <1>5, HandlerMoves
  <2>2. /\ posted' \in [Items -> 0 .. PostedBound] /\ posted'[i] = 1
        /\ \A k \in Items \ {i} : posted'[k] = posted[k]
    BY <1>1, <1>3, <1>4, <1>5 DEF RowTypes, PostedBound
  <2>3. RowTypes'  BY <1>1, <1>2, <2>1, <2>2 DEF RowTypes, Moves
  <2>4. DrainControl(x)' /\ DrainTells(x)'
    BY <1>2, <1>3, <1>4, <1>5, <2>1, <2>2 DEF Moves, DrainRow, DrainControl, DrainTells, Working
  <2>5. PostedOnce'  BY <2>2 DEF PipelineInv, PostedOnce
  <2>6. PublishedWasPosted'  BY <1>2, <2>2 DEF PipelineInv, PublishedWasPosted
  <2>7. \A k \in Items : Stays(k)
    BY <1>1, <1>2, <1>3, <2>2 DEF Stays, RowTypes, ItemRow
  <2>8. drain'[x].item = drain[x].item  BY <1>2, <2>1 DEF Moves, DrainRow
  <2> QED  BY <1>2, <2>1, <2>2, <2>3, <2>4, <2>5, <2>6, <2>7, <2>8, DrainMoves DEF Moves
<1>6. CASE posted' = posted /\ Handler(x, "fail")
  <2>1. Moves(x, [drain[x] EXCEPT !.pc = "fail"])  BY <1>1, <1>6, HandlerMoves
  <2>2. DrainControl(x)' /\ DrainTells(x)'
    BY <1>2, <1>3, <1>4, <2>1 DEF Moves, DrainRow, DrainControl, DrainTells, Working
  <2> QED  BY <1>1, <1>2, <1>6, <2>1, <2>2, QuietMove DEF RowTypes, DrainRow
<1> QED  BY <1>5, <1>6 DEF Post

LEMMA CompleteKeeps == ASSUME PipelineInv, NEW x \in Drains, Complete(x) PROVE PipelineInv'
<1>1. RowTypes  BY TypesSplit DEF PipelineInv
<1> DEFINE i == drain[x].item
<1>2. /\ UNCHANGED <<asset, pass, purges, cancel, made, clean, posted>>
      /\ drain[x].pc = "complete" /\ drain[x] \in DrainRow
  BY <1>1 DEF Complete, RowTypes
<1>3. /\ i \in Items /\ ~drain[x].ok /\ item[i].status \notin {"absent", "ready"}
      /\ drain[x].status \notin {"absent", "succeeded"}
  BY <1>2, WorkedOn DEF Working
<1>4. posted[i] > 0
  BY <1>2, <1>3 DEF PipelineInv, DrainTells
<1>5. CASE SetItem(i, "published") /\ Handler(x, "log") /\ mishaps' = mishaps
  <2>1. Moves(x, [drain[x] EXCEPT !.pc = "log"])  BY <1>1, <1>5, HandlerMoves
  <2>2. /\ item' \in [Items -> ItemRow] /\ \A k \in Items : Stays(k)
        /\ \A k \in Items \ {i} : item'[k] = item[k]
        /\ item'[i].status \in {"published", "deleted"}
    BY <1>2, <1>3, <1>5, SetItemStays
  <2>3. RowTypes'  BY <1>1, <1>2, <1>5, <2>1, <2>2 DEF RowTypes, Moves
  <2>4. DrainControl(x)' /\ DrainTells(x)'
    BY <1>2, <1>3, <1>4, <2>1, <2>2 DEF Moves, DrainRow, DrainControl, DrainTells, Working
  <2>5. PostedOnce' /\ PublishedWasPosted'
    BY <1>2, <1>4, <2>2 DEF PipelineInv, PostedOnce, PublishedWasPosted
  <2>6. drain'[x].item = drain[x].item  BY <1>2, <2>1 DEF Moves, DrainRow
  <2> QED  BY <1>2, <1>5, <2>1, <2>2, <2>3, <2>4, <2>5, <2>6, DrainMoves DEF Moves
<1>6. CASE Mishap /\ Handler(x, "fail") /\ item' = item
  <2>1. Moves(x, [drain[x] EXCEPT !.pc = "fail"])  BY <1>1, <1>6, HandlerMoves
  <2>2. mishaps' \in 0 .. PipelineFaults /\ mishaps' # 0  BY <1>6, MishapCounts
  <2>3. DrainControl(x)' /\ DrainTells(x)'
    BY <1>2, <1>3, <1>4, <2>1, <2>2 DEF Moves, DrainRow, DrainControl, DrainTells, Working
  <2> QED  BY <1>1, <1>2, <1>6, <2>1, <2>2, <2>3, QuietMove DEF RowTypes, DrainRow
<1> QED  BY <1>5, <1>6 DEF Complete

LEMMA LogKeeps == ASSUME PipelineInv, NEW x \in Drains, LogPublished(x) PROVE PipelineInv'
<1>1. RowTypes  BY TypesSplit DEF PipelineInv
<1> DEFINE i == drain[x].item
<1>2. /\ UNCHANGED <<item, asset, pass, purges, cancel, made, clean, posted>>
      /\ drain[x].pc = "log" /\ drain[x] \in DrainRow
  BY <1>1 DEF LogPublished, RowTypes
<1>3. /\ i \in Items /\ ~drain[x].ok /\ item[i].status \notin {"absent", "ready"}
      /\ drain[x].status \notin {"absent", "succeeded"}
  BY <1>2, WorkedOn DEF Working
<1>4. posted[i] > 0 /\ item[i].status # "publishing"
  BY <1>2, <1>3 DEF PipelineInv, DrainTells
<1>5. CASE drain' = [drain EXCEPT ![x].pc = "end", ![x].ok = TRUE] /\ mishaps' = mishaps
  <2>1. Moves(x, [drain[x] EXCEPT !.pc = "end", !.ok = TRUE])  BY <1>1, <1>5, HandlerMoves
  <2>2. DrainControl(x)' /\ DrainTells(x)'
    BY <1>2, <1>3, <1>4, <2>1 DEF Moves, DrainRow, DrainControl, DrainTells, Working
  <2> QED  BY <1>1, <1>2, <1>5, <2>1, <2>2, QuietMove DEF RowTypes, DrainRow
<1>6. CASE Mishap /\ Handler(x, "fail")
  <2>1. Moves(x, [drain[x] EXCEPT !.pc = "fail"])  BY <1>1, <1>6, HandlerMoves
  <2>2. mishaps' \in 0 .. PipelineFaults /\ mishaps' # 0  BY <1>6, MishapCounts
  <2>3. DrainControl(x)' /\ DrainTells(x)'
    BY <1>2, <1>3, <2>1, <2>2 DEF Moves, DrainRow, DrainControl, DrainTells, Working
  <2> QED  BY <1>1, <1>2, <1>6, <2>1, <2>2, <2>3, QuietMove DEF RowTypes, DrainRow
<1> QED  BY <1>5, <1>6 DEF LogPublished

LEMMA FailItemKeeps == ASSUME PipelineInv, NEW x \in Drains, FailItem(x) PROVE PipelineInv'
<1>1. RowTypes  BY TypesSplit DEF PipelineInv
<1> DEFINE i == drain[x].item
<1>2. /\ UNCHANGED <<asset, pass, purges, cancel, made, clean, posted, mishaps>>
      /\ drain[x].pc = "fail" /\ drain[x] \in DrainRow
      /\ SetItem(i, "failed") /\ Handler(x, "end")
  BY <1>1 DEF FailItem, RowTypes
<1>3. /\ i \in Items /\ ~drain[x].ok /\ item[i].status \notin {"absent", "ready"}
      /\ drain[x].status \notin {"absent", "succeeded"}
  BY <1>2, WorkedOn DEF Working
<1>4. Moves(x, [drain[x] EXCEPT !.pc = "end"])  BY <1>1, <1>2, HandlerMoves
<1>5. /\ item' \in [Items -> ItemRow] /\ \A k \in Items : Stays(k)
      /\ \A k \in Items \ {i} : item'[k] = item[k]
      /\ item'[i].status \in {"failed", "deleted"}
  BY <1>2, <1>3, SetItemStays
<1>6. RowTypes'  BY <1>1, <1>2, <1>4, <1>5 DEF RowTypes, Moves
<1>7. DrainControl(x)' /\ DrainTells(x)'
  BY <1>2, <1>3, <1>4, <1>5 DEF Moves, DrainRow, DrainControl, DrainTells, Working
<1>8. PostedOnce' /\ PublishedWasPosted'
  BY <1>2, <1>5 DEF PipelineInv, PostedOnce, PublishedWasPosted
<1>9. drain'[x].item = drain[x].item  BY <1>2, <1>4 DEF Moves, DrainRow
<1> QED  BY <1>2, <1>4, <1>5, <1>6, <1>7, <1>8, <1>9, DrainMoves DEF Moves

LEMMA DiesKeeps == ASSUME PipelineInv, NEW x \in Drains, HandlerDies(x) PROVE PipelineInv'
<1>1. RowTypes  BY TypesSplit DEF PipelineInv
<1>2. /\ UNCHANGED <<item, asset, pass, purges, cancel, made, clean, posted>>
      /\ drain[x].pc \notin {"none", "over"} /\ drain[x] \in DrainRow /\ Handler(x, "over")
      /\ mishaps' \in 0 .. PipelineFaults /\ mishaps' # 0
  BY <1>1, MishapCounts DEF HandlerDies, RowTypes
<1>3. Moves(x, [drain[x] EXCEPT !.pc = "over"])  BY <1>1, <1>2, HandlerMoves
<1>4. DrainControl(x) /\ DrainTells(x)  BY DEF PipelineInv
<1>5. DrainControl(x)' /\ DrainTells(x)'
  BY <1>2, <1>3, <1>4 DEF Moves, DrainRow, DrainControl, DrainTells, Working
<1> QED  BY <1>1, <1>2, <1>3, <1>5, QuietMove DEF RowTypes, DrainRow

LEMMA WriteKeeps == ASSUME PipelineInv, NEW x \in Drains, Write(x) PROVE PipelineInv'
<1>1. RowTypes  BY TypesSplit DEF PipelineInv
<1>2. /\ UNCHANGED <<item, asset, pass, purges, cancel, made, clean, posted, mishaps>>
      /\ drain[x].pc = "end" /\ drain[x] \in DrainRow
      /\ drain' = [drain EXCEPT ![x].pc = "sync", ![x].status = Outcome(x)]
  BY <1>1 DEF Write, RowTypes
<1>3. Outcome(x) \in Ended /\ (Outcome(x) = "succeeded" => drain[x].ok)
  BY DEF Outcome, Ended
<1>4. Moves(x, [drain[x] EXCEPT !.pc = "sync", !.status = Outcome(x)])
  BY <1>1, <1>2, <1>3, HandlerMoves
<1>5. DrainControl(x) /\ DrainTells(x)  BY DEF PipelineInv
<1>6. DrainControl(x)' /\ DrainTells(x)'
  BY <1>2, <1>3, <1>4, <1>5 DEF Moves, DrainRow, DrainControl, DrainTells, Working, Ended
<1> QED  BY <1>1, <1>2, <1>4, <1>6, QuietMove DEF RowTypes, DrainRow

-----------------------------------------------------------------------------
(* Whoever finishes an execution.  One that succeeded has nothing in flight *)
(* any more, so nobody but the drain itself publishes.                      *)

LEMMA SettledFails ==
    ASSUME RowTypes, NEW i \in Items, NEW s \in {"published", "failed"}
    PROVE  /\ Settled(i, s) \in ItemRow /\ Settled(i, s).status = s
           /\ Settled(i, s).exec = item[i].exec
BY ZenonT(60) DEF RowTypes, Settled, ItemRow, ItemStatus

LEMMA SyncedStays ==
    ASSUME PipelineInv, NEW x \in Drains, NEW o, o = "succeeded" => drain[x].ok,
           item' = Synced(x, o), UNCHANGED <<asset, posted>>
    PROVE  /\ item' \in [Items -> ItemRow] /\ \A i \in Items : Stays(i)
           /\ \A i \in Items : item'[i].status = "published" => item[i].status = "published"
<1>1. RowTypes  BY TypesSplit DEF PipelineInv
<1>2. ASSUME NEW i \in Items
      PROVE  /\ item'[i] \in ItemRow /\ Stays(i)
             /\ item'[i].status = "published" => item[i].status = "published"
  <2>1. CASE item[i].status = "publishing" /\ item[i].exec = x
    <3>1. drain[x].item = i /\ ~drain[x].ok
      BY <2>1 DEF PipelineInv, ClaimedOnce, DrainTells
    <3>2. item'[i] = Settled(i, "failed")  BY <2>1, <3>1 DEF Synced
    <3> QED  BY <1>1, <2>1, <3>2, SettledFails DEF Stays
  <2>2. CASE ~(item[i].status = "publishing" /\ item[i].exec = x)
    <3>1. item'[i] = item[i]  BY <2>2 DEF Synced
    <3> QED  BY <1>1, <3>1 DEF Stays, RowTypes
  <2> QED  BY <2>1, <2>2
<1>3. item' = [i \in Items |-> item'[i]]  BY DEF Synced
<1> QED  BY <1>2, <1>3

LEMMA SyncKeeps == ASSUME PipelineInv, NEW x \in Drains, Sync(x) PROVE PipelineInv'
<1>1. RowTypes  BY TypesSplit DEF PipelineInv
<1>2. /\ UNCHANGED <<asset, pass, purges, cancel, made, clean, posted, mishaps>>
      /\ drain[x].pc = "sync" /\ drain[x] \in DrainRow
      /\ item' = Synced(x, Outcome(x))
  BY <1>1 DEF Sync, RowTypes
<1>3. /\ item' \in [Items -> ItemRow] /\ \A i \in Items : Stays(i)
      /\ \A i \in Items : item'[i].status = "published" => item[i].status = "published"
  <2>1. Outcome(x) = "succeeded" => drain[x].ok  BY DEF Outcome
  <2> QED  BY <1>2, <2>1, SyncedStays
<1>4. PICK p \in {"purge", "over"} : Handler(x, p)  BY DEF Sync, AfterSync
<1>5. Moves(x, [drain[x] EXCEPT !.pc = p])  BY <1>1, <1>4, HandlerMoves
<1>6. RowTypes'  BY <1>1, <1>2, <1>3, <1>5 DEF RowTypes, Moves
<1>7. /\ drain'[x].status = drain[x].status /\ drain'[x].ok = drain[x].ok
      /\ drain'[x].item = drain[x].item /\ drain'[x].pc = p
  BY <1>2, <1>5 DEF Moves, DrainRow
<1>8. DrainControl(x)'  BY <1>2, <1>7 DEF PipelineInv, DrainControl, Working
<1>9. DrainTells(x)'  BY <1>2, <1>3, <1>7, TellsStay
<1>10. PostedOnce' /\ PublishedWasPosted'
  BY <1>2, <1>3 DEF PipelineInv, PostedOnce, PublishedWasPosted
<1> QED  BY <1>2, <1>3, <1>5, <1>6, <1>7, <1>8, <1>9, <1>10, DrainMoves DEF Moves

\* Whoever else moves: no item is published, posted or made ready, and no drain goes
\* on with one.
LEMMA OthersMove ==
    ASSUME PipelineInv, RowTypes', RequestTypes', PassesGiveUp',
           mishaps' = 0 => mishaps = 0, posted' = posted,
           \A i \in Items : Stays(i),
           \A i \in Items : item'[i].status = "published" => item[i].status = "published",
           mishaps' = 0 =>
             \A i \in Items : item'[i].status = "ready" /\ asset[i].row /\ asset[i].file =>
                               asset'[i].row /\ asset'[i].file,
           \A x \in Drains :
             /\ drain'[x].item = drain[x].item /\ drain'[x].ok = drain[x].ok
             /\ \/ drain'[x].pc = drain[x].pc
                \/ drain[x].pc # "none" /\ drain'[x].pc = "over"
             /\ drain'[x].status \in {drain[x].status, "failed", "cancelled", "deleted"}
    PROVE  PipelineInv'
<1>1. Fresh' /\ (mishaps' = 0 => ReadyIsThere') /\ ClaimedOnce'
  BY FreshStays, ThereStays, OwnStays
<1>2. ASSUME NEW x \in Drains PROVE DrainControl(x)' /\ DrainTells(x)'
  <2>1. DrainTells(x)'  BY TellsStay
  <2>2. DrainControl(x)  BY DEF PipelineInv
  <2>3. DrainControl(x)'  BY <2>2 DEF DrainControl, Working
  <2> QED  BY <2>1, <2>3
<1>3. PostedOnce'  BY DEF PipelineInv, PostedOnce
<1>4. PublishedWasPosted'  BY PublishedStays
<1> QED  BY <1>1, <1>2, <1>3, <1>4, TypesSplitNext DEF PipelineInv

LEMMA SameItemsStay ==
    ASSUME RowTypes, UNCHANGED <<item, posted>>,
           \A i \in Items : asset'[i].exec = asset[i].exec
    PROVE  /\ \A i \in Items : Stays(i)
           /\ \A i \in Items : item'[i].status = "published" => item[i].status = "published"
BY DEF RowTypes, Stays

LEMMA PurgeEndedKeeps == ASSUME PipelineInv, NEW x \in Drains, PurgeEnded(x) PROVE PipelineInv'
<1>1. RowTypes /\ RequestTypes  BY TypesSplit DEF PipelineInv
<1>2. /\ UNCHANGED <<item, pass, cancel, made, clean, posted, mishaps>>
      /\ drain[x].pc = "purge" /\ drain[x] \in DrainRow /\ Handler(x, "over")
      /\ RemoveFiles(MediaToPurge(x))
  BY <1>1 DEF PurgeEnded, RowTypes
<1>3. MediaToPurge(x) \in SUBSET Items /\ \A a \in MediaToPurge(x) : asset[a].exec = x
  BY DEF MediaToPurge, Media
<1>4. /\ asset' \in [Items -> AssetRow] /\ purges' \subseteq SUBSET Items
      /\ \A a \in Items : /\ asset'[a].exec = asset[a].exec
                          /\ a \notin MediaToPurge(x) => asset'[a] = asset[a]
  BY <1>2, <1>3, FilesRemoved
<1>5. Moves(x, [drain[x] EXCEPT !.pc = "over"])  BY <1>1, <1>2, HandlerMoves
<1>6. RowTypes' /\ RequestTypes'
  BY <1>1, <1>2, <1>4, <1>5 DEF RowTypes, RequestTypes, Moves
<1>7. \A i \in Items : item[i].status = "ready" => i \notin MediaToPurge(x)
  BY <1>3 DEF PipelineInv, Fresh
<1>8. \A y \in Drains :
         /\ drain'[y].item = drain[y].item /\ drain'[y].ok = drain[y].ok
         /\ \/ drain'[y].pc = drain[y].pc
            \/ drain[y].pc # "none" /\ drain'[y].pc = "over"
         /\ drain'[y].status \in {drain[y].status, "failed", "cancelled", "deleted"}
  <2>1. drain[x].pc # "none"  BY <1>2
  <2> QED  BY <1>2, <1>5, <2>1 DEF Moves, DrainRow
<1>9. PassesGiveUp'  BY <1>2 DEF PipelineInv, PassesGiveUp
<1>10. /\ \A i \in Items : Stays(i)
       /\ \A i \in Items : item'[i].status = "published" => item[i].status = "published"
  BY <1>1, <1>2, <1>4, SameItemsStay
<1>11. mishaps' = 0 =>
         \A i \in Items : item'[i].status = "ready" /\ asset[i].row /\ asset[i].file =>
                          asset'[i].row /\ asset'[i].file
  BY <1>2, <1>4, <1>7
<1>12. (mishaps' = 0 => mishaps = 0) /\ posted' = posted  BY <1>2
<1> QED  BY <1>6, <1>8, <1>9, <1>10, <1>11, <1>12, OthersMove

LEMMA PassKeeps == ASSUME PipelineInv, NEW x \in Drains, PassStep(x) PROVE PipelineInv'
<1>1. RowTypes /\ RequestTypes  BY TypesSplit DEF PipelineInv
<1>2. pass \in [Drains -> PassRow] /\ pass[x] \in PassRow /\ drain[x] \in DrainRow
  BY <1>1 DEF RowTypes
<1>3. PassesGiveUp /\ pass[x].outcome \in {"failed", "cancelled"}
  BY DEF PipelineInv, PassesGiveUp
<1>4. ASSUME NEW r \in PassRow, r.outcome \in {"failed", "cancelled"}, pass' = [pass EXCEPT ![x] = r]
      PROVE  pass' \in [Drains -> PassRow] /\ PassesGiveUp'
  BY <1>2, <1>3, <1>4 DEF PassesGiveUp
<1>5. ASSUME NEW p \in {"none", "selected", "sync", "purge", "over"}, pass' = [pass EXCEPT ![x].pc = p]
      PROVE  pass' \in [Drains -> PassRow] /\ PassesGiveUp'
  <2>1. [pass[x] EXCEPT !.pc = p] \in PassRow /\ [pass[x] EXCEPT !.pc = p].outcome = pass[x].outcome
    BY <1>2 DEF PassRow
  <2>2. pass' = [pass EXCEPT ![x] = [pass[x] EXCEPT !.pc = p]]  BY <1>2, <1>5
  <2> QED  BY <1>3, <1>4, <2>1, <2>2
<1>6. ASSUME UNCHANGED <<item, asset, drain, purges, cancel, made, clean, posted>>,
             mishaps' \in 0 .. PipelineFaults, mishaps' = 0 => mishaps = 0,
             pass' \in [Drains -> PassRow] /\ PassesGiveUp'
      PROVE  PipelineInv'
  <2>1. RowTypes' /\ RequestTypes'  BY <1>1, <1>6 DEF RowTypes, RequestTypes
  <2> QED  BY <1>1, <1>6, <2>1, SameItemsStay, OthersMove
<1>7. ASSUME NEW o \in {"failed", "cancelled"}, GiveUp(x, o) PROVE PipelineInv'
  <2>1. [pc |-> "selected", outcome |-> o] \in PassRow  BY DEF PassRow, Ended
  <2> QED  BY <1>1, <1>4, <1>6, <1>7, <2>1 DEF GiveUp, RowTypes
<1>8. CASE PassDies(x)
  <2>1. mishaps' \in 0 .. PipelineFaults /\ mishaps' # 0  BY <1>8, MishapCounts DEF PassDies
  <2>2. \E p \in {"none", "over"} : pass' = [pass EXCEPT ![x].pc = p]
    BY <1>8 DEF PassDies
  <2> QED  BY <1>5, <1>6, <1>8, <2>1, <2>2 DEF PassDies
<1>9. CASE WriteGivenUp(x)
  <2>1. /\ UNCHANGED <<item, asset, purges, cancel, made, clean, posted, mishaps>>
        /\ pass' = [pass EXCEPT ![x].pc = "sync"]
        /\ \E s \in {"failed", "cancelled", "deleted"} : drain' = [drain EXCEPT ![x].status = s]
    BY <1>3, <1>9 DEF WriteGivenUp
  <2>2. PICK s \in {"failed", "cancelled", "deleted"} : drain' = [drain EXCEPT ![x].status = s]
    BY <2>1
  <2>3. [drain[x] EXCEPT !.status = s] \in DrainRow  BY <1>2 DEF DrainRow, Ended
  <2>4. drain' = [drain EXCEPT ![x] = [drain[x] EXCEPT !.status = s]]
    BY <1>1, <2>2 DEF RowTypes
  <2>5. drain' \in [Drains -> DrainRow]  BY <1>1, <2>3, <2>4 DEF RowTypes
  <2>6. \A y \in Drains : /\ drain'[y].item = drain[y].item /\ drain'[y].ok = drain[y].ok
                         /\ drain'[y].pc = drain[y].pc /\ drain'[y].status \in {drain[y].status, s}
    BY <1>1, <2>4 DEF RowTypes, DrainRow
  <2>7. pass' \in [Drains -> PassRow] /\ PassesGiveUp'  BY <1>5, <2>1
  <2>8. RowTypes' /\ RequestTypes'  BY <1>1, <2>1, <2>5, <2>7 DEF RowTypes, RequestTypes
  <2> QED  BY <1>1, <2>1, <2>6, <2>7, <2>8, SameItemsStay, OthersMove
<1>10. CASE SyncGivenUp(x)
  <2>1. /\ UNCHANGED <<asset, drain, purges, cancel, made, clean, posted, mishaps>>
        /\ item' = Synced(x, pass[x].outcome)
    BY <1>10 DEF SyncGivenUp
  <2>2. \E p \in {"purge", "over"} : pass' = [pass EXCEPT ![x].pc = p]
    BY <1>10 DEF SyncGivenUp, AfterSync
  <2>3. /\ item' \in [Items -> ItemRow] /\ \A i \in Items : Stays(i)
        /\ \A i \in Items : item'[i].status = "published" => item[i].status = "published"
    <3>1. pass[x].outcome = "succeeded" => drain[x].ok  BY <1>3
    <3> QED  BY <2>1, <3>1, SyncedStays
  <2>4. pass' \in [Drains -> PassRow] /\ PassesGiveUp'  BY <1>5, <2>2
  <2>5. RowTypes' /\ RequestTypes'  BY <1>1, <2>1, <2>3, <2>4 DEF RowTypes, RequestTypes
  <2> QED  BY <2>1, <2>3, <2>4, <2>5, OthersMove
<1>11. CASE PurgeGivenUp(x)
  <2>1. /\ UNCHANGED <<item, drain, cancel, made, clean, posted, mishaps>>
        /\ RemoveFiles(MediaToPurge(x)) /\ pass' = [pass EXCEPT ![x].pc = "over"]
    BY <1>11 DEF PurgeGivenUp
  <2>2. MediaToPurge(x) \in SUBSET Items /\ \A a \in MediaToPurge(x) : asset[a].exec = x
    BY DEF MediaToPurge, Media
  <2>3. /\ asset' \in [Items -> AssetRow] /\ purges' \subseteq SUBSET Items
        /\ \A a \in Items : /\ asset'[a].exec = asset[a].exec
                            /\ a \notin MediaToPurge(x) => asset'[a] = asset[a]
    BY <2>1, <2>2, FilesRemoved
  <2>4. \A i \in Items : item[i].status = "ready" => i \notin MediaToPurge(x)
    BY <2>2 DEF PipelineInv, Fresh
  <2>5. pass' \in [Drains -> PassRow] /\ PassesGiveUp'  BY <1>5, <2>1
  <2>6. RowTypes' /\ RequestTypes'  BY <1>1, <2>1, <2>3, <2>5 DEF RowTypes, RequestTypes
  <2> QED  BY <1>1, <2>1, <2>3, <2>4, <2>5, <2>6, SameItemsStay, OthersMove
<1> QED  BY <1>7, <1>8, <1>9, <1>10, <1>11 DEF PassStep

-----------------------------------------------------------------------------
(* Requests and jobs                                                       *)

\* Steps that touch neither items, drains nor passes, and no file or row of what is
\* ready; or only in a mishap.
LEMMA AssetsMove ==
    ASSUME PipelineInv, UNCHANGED <<item, drain, pass, posted>>, RequestTypes',
           asset' \in [Items -> AssetRow], mishaps' \in 0 .. PipelineFaults,
           mishaps' = 0 => mishaps = 0,
           \A i \in Items : asset'[i].exec = asset[i].exec,
           mishaps' = 0 =>
             \A i \in Items : item[i].status = "ready" /\ asset[i].row /\ asset[i].file =>
                               asset'[i].row /\ asset'[i].file
    PROVE  PipelineInv'
<1>1. RowTypes  BY TypesSplit DEF PipelineInv
<1>2. RowTypes' /\ PassesGiveUp'  BY <1>1 DEF RowTypes, PipelineInv, PassesGiveUp
<1>3. /\ \A i \in Items : Stays(i)
      /\ \A i \in Items : item'[i].status = "published" => item[i].status = "published"
  BY <1>1, SameItemsStay
<1> QED  BY <1>2, <1>3, OthersMove

LEMMA DeleteRowsKeeps == ASSUME PipelineInv, NEW ids \in purges, DeleteRows(ids) PROVE PipelineInv'
<1>1. RowTypes /\ RequestTypes  BY TypesSplit DEF PipelineInv
<1>2. /\ UNCHANGED <<item, drain, pass, cancel, made, clean, posted, mishaps>>
      /\ purges' = purges \ {ids} /\ ids \in SUBSET Items
  BY <1>1 DEF DeleteRows, RequestTypes
<1>3. RequestTypes'  BY <1>1, <1>2 DEF RequestTypes
<1>4. CASE asset' = asset
  BY <1>1, <1>2, <1>3, <1>4, AssetsMove DEF RowTypes
<1>5. CASE asset' = WithoutRows(ids) /\ ~\E a \in ids : Referenced(a)
  <2>1. /\ asset' \in [Items -> AssetRow]
        /\ \A i \in Items : /\ asset'[i].exec = asset[i].exec
                            /\ i \notin ids => asset'[i] = asset[i]
    BY <1>1, <1>5, ZenonT(60) DEF WithoutRows, Media, RowTypes, AssetRow
  <2>2. \A i \in Items : item[i].status = "ready" => Referenced(i)
    BY DEF PipelineInv, Fresh, Referenced, Exists
  <2>3. \A i \in Items : item[i].status = "ready" /\ asset[i].row /\ asset[i].file =>
                         asset'[i].row /\ asset'[i].file
    BY <1>5, <2>1, <2>2
  <2> QED  BY <1>1, <1>2, <1>3, <2>1, <2>3, AssetsMove DEF RowTypes
<1> QED  BY <1>4, <1>5 DEF DeleteRows

LEMMA UploadEndsKeeps == ASSUME PipelineInv, UploadEnds PROVE PipelineInv'
<1>1. RowTypes /\ RequestTypes  BY TypesSplit DEF PipelineInv
<1>2. RequestTypes'  BY <1>1 DEF UploadEnds, RequestTypes
<1> QED  BY <1>1, <1>2, AssetsMove DEF UploadEnds, RowTypes

LEMMA UploadFailsKeeps == ASSUME PipelineInv, UploadFails PROVE PipelineInv'
<1>1. RowTypes /\ RequestTypes  BY TypesSplit DEF PipelineInv
<1>2. mishaps' \in 0 .. PipelineFaults /\ mishaps' # 0  BY MishapCounts DEF UploadFails
<1>3. UNCHANGED <<item, drain, pass, cancel, clean, posted>>  BY DEF UploadFails
<1>4. CASE RemoveFiles(made) /\ made' = {}
  <2>1. /\ asset' \in [Items -> AssetRow] /\ purges' \subseteq SUBSET Items
        /\ \A i \in Items : asset'[i].exec = asset[i].exec
    BY <1>1, <1>4, FilesRemoved DEF RequestTypes
  <2>2. RequestTypes'  BY <1>1, <1>3, <1>4, <2>1 DEF RequestTypes
  <2> QED  BY <1>2, <1>3, <2>1, <2>2, AssetsMove
<1>5. ASSUME NEW i \in Items, asset' = [asset EXCEPT ![i].row = TRUE],
             purges' = purges \cup {{i}}, made' = made
      PROVE  PipelineInv'
  <2>1. /\ asset' \in [Items -> AssetRow]
        /\ \A k \in Items : asset'[k].exec = asset[k].exec
    BY <1>1, <1>5, ZenonT(60) DEF RowTypes, AssetRow
  <2>2. RequestTypes'  BY <1>1, <1>3, <1>5 DEF RequestTypes
  <2> QED  BY <1>2, <1>3, <2>1, <2>2, AssetsMove
<1> QED  BY <1>4, <1>5 DEF UploadFails

LEMMA CancelKeeps ==
    ASSUME PipelineInv, NEW r \in Cancels, (\E i \in Items : SelectItem(r, i)) \/ DeleteItem(r)
    PROVE  PipelineInv'
<1>1. RowTypes /\ RequestTypes  BY TypesSplit DEF PipelineInv
<1>2. ASSUME NEW i \in Items, SelectItem(r, i) PROVE PipelineInv'
  <2>1. RequestTypes'  BY <1>1, <1>2 DEF SelectItem, RequestTypes
  <2> QED  BY <1>1, <1>2, <2>1, AssetsMove DEF SelectItem, RowTypes
<1>3. CASE DeleteItem(r)
  <2> DEFINE i == cancel[r].item
             gone == [status |-> "deleted", exec |-> NoDrain, media |-> FALSE]
  <2>1. /\ UNCHANGED <<drain, pass, made, clean, posted, mishaps>>
        /\ item' = [item EXCEPT ![i] = gone] /\ RemoveFiles({i})
        /\ cancel' = [cancel EXCEPT ![r].pc = "over"]
    BY <1>3 DEF DeleteItem
  <2>2. i \in Items /\ cancel'[r] = [cancel[r] EXCEPT !.pc = "over"]
    BY <1>1, <1>3, <2>1 DEF DeleteItem, RequestTypes
  <2>3. /\ asset' \in [Items -> AssetRow] /\ purges' \subseteq SUBSET Items
        /\ \A a \in Items : asset'[a].exec = asset[a].exec /\ (a \notin {i} => asset'[a] = asset[a])
    BY <2>1, <2>2, FilesRemoved
  <2>4. gone \in ItemRow  BY DEF ItemRow, ItemStatus
  <2>5. /\ item' \in [Items -> ItemRow] /\ item'[i] = gone
        /\ \A k \in Items \ {i} : item'[k] = item[k]
    BY <1>1, <2>1, <2>2, <2>4 DEF RowTypes
  <2>6. RequestTypes'
    <3>1. cancel[r].pc = "delete" /\ cancel[r].item \in Items  BY <1>3, <2>2 DEF DeleteItem
    <3>2. cancel' \in [Cancels -> [pc : {"new"}, item : {NoItem}] \cup [pc : {"delete", "over"}, item : Items]]
      <4>1. cancel' = [cancel EXCEPT ![r] = [cancel[r] EXCEPT !.pc = "over"]]
        BY <1>1, <2>1 DEF RequestTypes
      <4>2. [cancel[r] EXCEPT !.pc = "over"] \in [pc : {"delete", "over"}, item : Items]
        BY <1>1, <3>1 DEF RequestTypes
      <4> HIDE DEF i
      <4> QED  BY <1>1, <4>1, <4>2 DEF RequestTypes
    <3> QED  BY <1>1, <2>1, <2>3, <3>2 DEF RequestTypes
  <2>7. RowTypes' /\ PassesGiveUp'
    BY <1>1, <2>1, <2>3, <2>5 DEF RowTypes, PipelineInv, PassesGiveUp
  <2>8. \A k \in Items : Stays(k)
    <3> TAKE k \in Items
    <3>1. CASE k = i  BY <2>5, <3>1 DEF Stays
    <3>2. CASE k # i  BY <1>1, <2>1, <2>3, <2>5, <3>2 DEF Stays, RowTypes
    <3> QED  BY <3>1, <3>2
  <2>9. \A k \in Items : item'[k].status = "published" => item[k].status = "published"
    <3>1. item'[i].status = "deleted"  BY <2>5
    <3> HIDE DEF i, gone
    <3> QED  BY <2>5, <3>1
  <2>10. mishaps' = 0 =>
           \A k \in Items : item'[k].status = "ready" /\ asset[k].row /\ asset[k].file =>
                            asset'[k].row /\ asset'[k].file
    BY <2>3, <2>5
  <2>11. \A x \in Drains :
           /\ drain'[x].item = drain[x].item /\ drain'[x].ok = drain[x].ok
           /\ \/ drain'[x].pc = drain[x].pc
              \/ drain[x].pc # "none" /\ drain'[x].pc = "over"
           /\ drain'[x].status \in {drain[x].status, "failed", "cancelled", "deleted"}
    BY <2>1
  <2>12. (mishaps' = 0 => mishaps = 0) /\ posted' = posted  BY <2>1
  <2> QED  BY <2>6, <2>7, <2>8, <2>9, <2>10, <2>11, <2>12, OthersMove
<1> QED  BY <1>2, <1>3

\* releaseOrphanedPublishingItems finds nothing to publish: a drain that succeeded has
\* left no clip in flight.
LEMMA ReleaseKeeps == ASSUME PipelineInv, Release PROVE PipelineInv'
<1>1. RowTypes /\ RequestTypes  BY TypesSplit DEF PipelineInv
<1>2. /\ UNCHANGED <<asset, drain, pass, purges, cancel, made, clean, posted, mishaps>>
      /\ item' = [i \in Items |->
            IF Orphaned(i)
            THEN Settled(i, IF drain[item[i].exec].status = "succeeded" THEN "published" ELSE "failed")
            ELSE item[i]]
  BY DEF Release
<1>3. ASSUME NEW i \in Items
      PROVE  /\ item'[i] \in ItemRow /\ Stays(i)
             /\ item'[i].status = "published" => item[i].status = "published"
             /\ item'[i].status = "ready" => item[i].status = "ready"
  <2>1. CASE Orphaned(i)
    <3>1. item[i].status = "publishing" /\ item[i].exec \in Drains
      BY <1>1, <2>1 DEF Orphaned, RowTypes, ItemRow
    <3>2. drain[item[i].exec].item = i /\ drain[item[i].exec].status # "succeeded"
      BY <3>1 DEF PipelineInv, ClaimedOnce, DrainControl, DrainTells
    <3>3. item'[i] = Settled(i, "failed")  BY <1>2, <2>1, <3>2
    <3> QED  BY <1>1, <3>1, <3>3, SettledFails DEF Stays
  <2>2. CASE ~Orphaned(i)
    <3>1. item'[i] = item[i]  BY <1>2, <2>2
    <3> QED  BY <1>1, <1>2, <3>1 DEF Stays, RowTypes
  <2> QED  BY <2>1, <2>2
<1>4. item' \in [Items -> ItemRow]
  <2>1. item' = [i \in Items |-> item'[i]]  BY <1>2
  <2> QED  BY <1>3, <2>1
<1>5. RowTypes' /\ RequestTypes' /\ PassesGiveUp'
  BY <1>1, <1>2, <1>4 DEF RowTypes, RequestTypes, PipelineInv, PassesGiveUp
<1>6. /\ \A i \in Items : Stays(i)
      /\ \A i \in Items : item'[i].status = "published" => item[i].status = "published"
  BY <1>3
<1> QED  BY <1>2, <1>5, <1>6, OthersMove

\* The sweep takes no medium of a ready item.
LEMMA SweepKeeps == ASSUME PipelineInv, SweepOrphans PROVE PipelineInv'
<1>1. RowTypes /\ RequestTypes  BY TypesSplit DEF PipelineInv
<1> DEFINE found == {a \in Media : Abandoned(a)}
<1>2. /\ UNCHANGED <<item, drain, pass, cancel, made, clean, posted, mishaps>>
      /\ RemoveFiles(found)
  BY DEF SweepOrphans
<1>3. found \in SUBSET Items /\ \A a \in found : item[a].status # "ready"
  BY DEF Media, Abandoned
<1> HIDE DEF found
<1>4. /\ asset' \in [Items -> AssetRow] /\ purges' \subseteq SUBSET Items
      /\ \A a \in Items : asset'[a].exec = asset[a].exec /\ (a \notin found => asset'[a] = asset[a])
  BY <1>2, <1>3, FilesRemoved
<1>5. RequestTypes'  BY <1>1, <1>2, <1>4 DEF RequestTypes
<1>6. mishaps' \in 0 .. PipelineFaults  BY <1>1, <1>2 DEF RowTypes
<1>7. \A i \in Items : item[i].status = "ready" => i \notin found  BY <1>3
<1> QED  BY <1>2, <1>4, <1>5, <1>6, <1>7, AssetsMove

\* Neither do the cleanup and the cascade that follows it: what is ready belongs to no
\* execution.
LEMMA StartCleanupKeeps == ASSUME PipelineInv, StartCleanup PROVE PipelineInv'
<1>1. RowTypes /\ RequestTypes  BY TypesSplit DEF PipelineInv
<1> DEFINE old == {x \in Drains : Expired(x)}
           Refused(x) == \E a \in MediaToPurge(x) : Referenced(a)
           gone == UNION {MediaToPurge(x) : x \in {y \in old : ~Refused(y)}}
<1>2. UNCHANGED <<item, drain, pass, purges, cancel, made, posted, mishaps>>
  BY DEF StartCleanup
<1>3. ASSUME NEW x \in Drains PROVE \A a \in MediaToPurge(x) : a \in Items /\ item[a].status # "ready"
  BY DEF MediaToPurge, Media, PipelineInv, Fresh
<1>4. \A a \in gone : item[a].status # "ready"  BY <1>3
<1>5. mishaps' \in 0 .. PipelineFaults  BY <1>1, <1>2 DEF RowTypes
<1>6. CASE /\ asset' = [a \in Media |-> IF a \in gone
                          THEN [asset[a] EXCEPT !.row = FALSE, !.file = FALSE] ELSE asset[a]]
           /\ clean' = old
  <2>1. old \subseteq Drains  OBVIOUS
  <2> HIDE DEF gone, old
  <2>2. \A a \in Items : [asset[a] EXCEPT !.row = FALSE, !.file = FALSE] \in AssetRow
                         /\ [asset[a] EXCEPT !.row = FALSE, !.file = FALSE].exec = asset[a].exec
    BY <1>1, ZenonT(60) DEF RowTypes, AssetRow
  <2>3. /\ asset' \in [Items -> AssetRow]
        /\ \A a \in Items : asset'[a].exec = asset[a].exec /\ (a \notin gone => asset'[a] = asset[a])
    BY <1>1, <1>6, <2>2 DEF RowTypes, Media
  <2>4. RequestTypes'  BY <1>1, <1>2, <1>6, <2>1 DEF RequestTypes
  <2>5. \A i \in Items : item[i].status = "ready" => i \notin gone  BY <1>4
  <2> QED  BY <1>2, <1>5, <2>3, <2>4, <2>5, AssetsMove
<1>7. ASSUME NEW x \in Drains, asset' = WithoutFiles(MediaToPurge(x)), clean' = {}
      PROVE  PipelineInv'
  <2>1. /\ asset' \in [Items -> AssetRow]
        /\ \A a \in Items : asset'[a].exec = asset[a].exec
                            /\ (a \notin MediaToPurge(x) => asset'[a] = asset[a])
    BY <1>1, <1>7, ZenonT(60) DEF WithoutFiles, Media, RowTypes, AssetRow
  <2>2. RequestTypes'  BY <1>1, <1>2, <1>7 DEF RequestTypes
  <2>3. \A i \in Items : item[i].status = "ready" => i \notin MediaToPurge(x)  BY <1>3
  <2> QED  BY <1>2, <1>5, <2>1, <2>2, <2>3, AssetsMove
<1> QED  BY <1>6, <1>7 DEF StartCleanup

LEMMA DeleteExecutionsKeeps == ASSUME PipelineInv, DeleteExecutions PROVE PipelineInv'
<1>1. RowTypes /\ RequestTypes  BY TypesSplit DEF PipelineInv
<1> DEFINE owned == {a \in Media : asset[a].row /\ asset[a].exec \in clean}
<1>2. UNCHANGED <<pass, purges, cancel, made, posted, mishaps>> /\ clean' = {}
  BY DEF DeleteExecutions
<1>3. RequestTypes' /\ PassesGiveUp' /\ (mishaps' = 0 => mishaps = 0) /\ posted' = posted
  BY <1>1, <1>2 DEF RequestTypes, PipelineInv, PassesGiveUp
<1>4. CASE UNCHANGED <<item, asset, drain>>
  <2>1. mishaps' \in 0 .. PipelineFaults  BY <1>1, <1>2 DEF RowTypes
  <2> QED  BY <1>1, <1>2, <1>3, <1>4, <2>1, AssetsMove DEF RowTypes
<1>5. CASE /\ drain' = [x \in Drains |->
                          IF x \in clean THEN [drain[x] EXCEPT !.status = "deleted"] ELSE drain[x]]
           /\ asset' = WithoutRows(owned)
           /\ item' = [i \in Items |->
                         IF item[i].exec \in clean THEN [item[i] EXCEPT !.exec = NoDrain] ELSE item[i]]
  <2>1. ASSUME NEW x \in Drains
        PROVE  /\ drain'[x] \in DrainRow
               /\ drain'[x].item = drain[x].item /\ drain'[x].ok = drain[x].ok
               /\ \/ drain'[x].pc = drain[x].pc
                  \/ drain[x].pc # "none" /\ drain'[x].pc = "over"
               /\ drain'[x].status \in {drain[x].status, "failed", "cancelled", "deleted"}
    <3>1. drain[x] \in DrainRow  BY <1>1 DEF RowTypes
    <3>2. drain'[x] = drain[x] \/ drain'[x] = [drain[x] EXCEPT !.status = "deleted"]  BY <1>5
    <3> QED  BY <3>1, <3>2 DEF DrainRow
  <2>2. ASSUME NEW i \in Items
        PROVE  /\ item'[i] \in ItemRow /\ item'[i].status = item[i].status
               /\ item'[i].media = item[i].media /\ item'[i].exec \in {item[i].exec, NoDrain}
    <3>1. item[i] \in ItemRow  BY <1>1 DEF RowTypes
    <3>2. item'[i] = item[i] \/ item'[i] = [item[i] EXCEPT !.exec = NoDrain]  BY <1>5
    <3> QED  BY <3>1, <3>2 DEF ItemRow
  <2>3. owned \subseteq Items /\ \A i \in Items : item[i].status = "ready" => i \notin owned
    BY <1>1 DEF Media, RequestTypes, PipelineInv, Fresh
  <2> HIDE DEF owned
  <2>4. /\ asset' \in [Items -> AssetRow]
        /\ \A a \in Items : asset'[a].exec = asset[a].exec /\ (a \notin owned => asset'[a] = asset[a])
    BY <1>1, <1>5, ZenonT(60) DEF WithoutRows, Media, RowTypes, AssetRow
  <2>5. RowTypes'
    <3>1. drain' \in [Drains -> DrainRow]
      <4>1. drain' = [x \in Drains |-> drain'[x]]  BY <1>5
      <4> QED  BY <2>1, <4>1
    <3>2. item' \in [Items -> ItemRow]
      <4>1. item' = [i \in Items |-> item'[i]]  BY <1>5
      <4> QED  BY <2>2, <4>1
    <3> QED  BY <1>1, <1>2, <2>4, <3>1, <3>2 DEF RowTypes
  <2>6. \A i \in Items : Stays(i)  BY <1>2, <2>2, <2>4 DEF Stays
  <2>7. \A i \in Items : item'[i].status = "published" => item[i].status = "published"
    BY <2>2
  <2>8. mishaps' = 0 =>
          \A i \in Items : item'[i].status = "ready" /\ asset[i].row /\ asset[i].file =>
                           asset'[i].row /\ asset'[i].file
    BY <2>2, <2>3, <2>4
  <2>9. \A x \in Drains :
          /\ drain'[x].item = drain[x].item /\ drain'[x].ok = drain[x].ok
          /\ \/ drain'[x].pc = drain[x].pc
             \/ drain[x].pc # "none" /\ drain'[x].pc = "over"
          /\ drain'[x].status \in {drain[x].status, "failed", "cancelled", "deleted"}
    BY <2>1
  <2> QED  BY <1>3, <2>5, <2>6, <2>7, <2>8, <2>9, OthersMove
<1> QED  BY <1>4, <1>5 DEF DeleteExecutions

-----------------------------------------------------------------------------
LEMMA PipelineNextKeeps == PipelineInv /\ [PipelineNext]_pipelineVars => PipelineInv'
<1> SUFFICES ASSUME PipelineInv, [PipelineNext]_pipelineVars PROVE PipelineInv'
  OBVIOUS
<1>1. ASSUME NEW x \in Drains, DrainStep(x) PROVE PipelineInv'
  BY <1>1, StartDrainKeeps, ClaimKeeps, FindMediaKeeps, PostKeeps, CompleteKeeps, LogKeeps,
     FailItemKeeps, WriteKeeps, SyncKeeps, PurgeEndedKeeps, DiesKeeps
  DEF DrainStep
<1>2. ASSUME NEW x \in Drains, PassStep(x) PROVE PipelineInv'  BY <1>2, PassKeeps
<1>3. ASSUME NEW ids \in purges, DeleteRows(ids) PROVE PipelineInv'  BY <1>3, DeleteRowsKeeps
<1>4. CASE RequestStep
  BY <1>4, UploadKeeps, UploadEndsKeeps, UploadFailsKeeps, CancelKeeps DEF RequestStep
<1>5. CASE JobStep
  BY <1>5, ReleaseKeeps, SweepKeeps, StartCleanupKeeps, DeleteExecutionsKeeps DEF JobStep
<1>6. CASE UNCHANGED pipelineVars
  <2>1. RowTypes /\ RequestTypes  BY TypesSplit DEF PipelineInv
  <2>2. RequestTypes'  BY <1>6, <2>1 DEF pipelineVars, RequestTypes
  <2> QED  BY <1>6, <2>1, <2>2, AssetsMove DEF pipelineVars, RowTypes
<1> QED  BY <1>1, <1>2, <1>3, <1>4, <1>5, <1>6 DEF PipelineNext

\* However many clips, drains, cancellations, deaths and cleanups: a clip is posted once,
\* listed as published only if it was, and one that is ready has its media
\* (pipeline-repository.ts:52-130, repository.ts:831-1000).
THEOREM PipelineIsSafe == PipelineSpec => []PipelineSafe
<1>1. PipelineInv => PipelineSafe
  BY DEF PipelineInv, PipelineSafe, ReadyIsThere, ReadyHasMedia
<1> QED  BY <1>1, PipelineInitHolds, PipelineNextKeeps, PTL DEF PipelineSpec

-----------------------------------------------------------------------------
(* Published is the last word.                                             *)

Final(i) == item[i].status = "published" /\ mishaps = 0 => item'[i].status \in {"published", "deleted"}

LEMMA SetItemFinal ==
    ASSUME PipelineInv, NEW j \in Items, NEW s, SetItem(j, s),
           s = "published" \/ (mishaps = 0 => item[j].status # "published")
    PROVE  \A i \in Items : Final(i)
<1>1. item \in [Items -> ItemRow]  BY TypesSplit DEF PipelineInv, RowTypes
<1>2. CASE Exists(j)
  <2>1. item' = [item EXCEPT ![j] = Settled(j, s)]  BY <1>2 DEF SetItem
  <2>2. Settled(j, s).status = s  BY <1>1 DEF Settled, ItemRow
  <2>3. item'[j].status = s /\ \A k \in Items \ {j} : item'[k] = item[k]
    BY <1>1, <2>1, <2>2
  <2> QED  BY <2>3 DEF Final
<1>3. CASE ~Exists(j)  BY <1>3 DEF SetItem, Final
<1> QED  BY <1>2, <1>3

LEMMA DrainFinal ==
    ASSUME PipelineInv, NEW x \in Drains, DrainStep(x) PROVE \A i \in Items : Final(i)
<1>1. item \in [Items -> ItemRow]  BY TypesSplit DEF PipelineInv, RowTypes
<1>2. CASE Claim(x)
  <2>1. ASSUME NEW k \in Items, Oldest(k),
               item' = [item EXCEPT ![k].status = "publishing", ![k].exec = x]
        PROVE  \A i \in Items : Final(i)
    BY <1>1, <2>1 DEF Oldest, Claimable, Final, ItemRow
  <2> QED  BY <1>2, <2>1 DEF Claim, Final
<1>3. ASSUME drain[x].pc \in {"media", "fail"}
      PROVE  /\ drain[x].item \in Items
             /\ mishaps = 0 => item[drain[x].item].status # "published"
  BY <1>3, WorkedOn DEF PipelineInv, DrainTells, Working
<1>4. CASE FindMedia(x)  BY <1>3, <1>4, SetItemFinal DEF FindMedia, Final
<1>5. CASE FailItem(x)  BY <1>3, <1>5, SetItemFinal DEF FailItem
<1>6. CASE Complete(x)
  <2>1. drain[x].item \in Items  BY <1>6, WorkedOn DEF Complete, Working
  <2> QED  BY <1>6, <2>1, SetItemFinal DEF Complete, Final
<1>7. CASE Sync(x)  BY <1>7 DEF Sync, Synced, Final
<1>8. CASE UNCHANGED item  BY <1>8 DEF Final
<1> QED
  BY <1>2, <1>4, <1>5, <1>6, <1>7, <1>8
  DEF DrainStep, StartDrain, Post, LogPublished, Write, PurgeEnded, HandlerDies

LEMMA NextFinal == ASSUME PipelineInv, PipelineNext PROVE \A i \in Items : Final(i)
<1>1. item \in [Items -> ItemRow]  BY TypesSplit DEF PipelineInv, RowTypes
<1>2. ASSUME NEW x \in Drains, PassStep(x) PROVE \A i \in Items : Final(i)
  <2>1. CASE SyncGivenUp(x)  BY <2>1 DEF SyncGivenUp, Synced, Final
  <2>2. CASE UNCHANGED item  BY <2>2 DEF Final
  <2> QED  BY <1>2, <2>1, <2>2 DEF PassStep, GiveUp, WriteGivenUp, PurgeGivenUp, PassDies
<1>3. ASSUME NEW k \in Items, UploadTarget(k) PROVE \A i \in Items : Final(i)
  BY <1>1, <1>3 DEF UploadTarget, NextId, Unused, Final
<1>4. ASSUME NEW r \in Cancels, DeleteItem(r) PROVE \A i \in Items : Final(i)
  <2> DEFINE gone == [status |-> "deleted", exec |-> NoDrain, media |-> FALSE]
  <2>1. \A i \in Items : item'[i] = item[i] \/ item'[i] = gone
    BY <1>1, <1>4 DEF DeleteItem
  <2> QED  BY <2>1 DEF Final
<1>5. CASE Release  BY <1>5 DEF Release, Orphaned, Final
<1>6. CASE DeleteExecutions
  <2>1. CASE UNCHANGED item  BY <2>1 DEF Final
  <2>2. CASE item' = [i \in Items |-> IF item[i].exec \in clean
                                     THEN [item[i] EXCEPT !.exec = NoDrain] ELSE item[i]]
    <3>1. \A i \in Items : item'[i].status = item[i].status  BY <1>1, <2>2 DEF ItemRow
    <3> QED  BY <3>1 DEF Final
  <2> QED  BY <1>6, <2>1, <2>2 DEF DeleteExecutions
<1>7. CASE UNCHANGED item  BY <1>7 DEF Final
<1> QED
  BY <1>2, <1>3, <1>4, <1>5, <1>6, <1>7, DrainFinal
  DEF PipelineNext, RequestStep, JobStep, DeleteRows, UploadEnds, UploadFails, SelectItem,
      SweepOrphans, StartCleanup

\* Where no call rejects and nothing dies, nobody writes over published: neither the party
\* that gave the drain up, nor the release, nor the drain itself (repository.ts:834).
THEOREM PublishedStaysPublished == PipelineSpec => PublishedIsFinal
<1>1. PipelineInv /\ [PipelineNext]_pipelineVars =>
        [\A i \in Items : item[i].status = "published" /\ mishaps = 0 =>
                            item'[i].status \in {"published", "deleted"}]_pipelineVars
  BY NextFinal DEF Final
<1> QED
  BY <1>1, PipelineInitHolds, PipelineNextKeeps, PTL DEF PipelineSpec, PublishedIsFinal

-----------------------------------------------------------------------------
(* The switch of the drains.  Where no two requests for a phone crossed, the *)
(* one that has it knows its data as they are, and cancels what drains its   *)
(* queue before it makes the next; every request carries the operator's      *)
(* choice, because a page that was shown one answer shows the last choice.   *)

HIDE PipelineAssumption
USE AutoSettingsAssumption

\* What a request has read of the phones it is for, and a refresh.
DataRead == {<<>>} \cup UNION {[S -> Data] : S \in SUBSET AutoPhones}
StateRead == {<<>>} \cup UNION {[S -> [on : BOOLEAN, fleet : BOOLEAN]] : S \in SUBSET AutoPhones}

Applying == {"cancel", "create", "write"}
Save ==
  [id : Ids, phone : AutoPhones, fleet : BOOLEAN, on : BOOLEAN, toggle : BOOLEAN,
   at : {"sent", "done", "failed"} \cup Applying,
   data : DataRead, left : Seq(AutoPhones)]
Left(s) == {s.left[i] : i \in DOMAIN s.left}

\* A request has an id of its own, and of the phones it is for those to come, once each.
SaveWell(s) ==
  /\ s \in Save /\ s.id <= hturns
  /\ s.at \in {"sent", "done"} => s.left = <<>>
  /\ s.at \in Applying =>
       /\ s.left # <<>> /\ Left(s) \subseteq Switched(s) /\ s.data \in [Switched(s) -> Data]
       /\ \A i, j \in DOMAIN s.left : s.left[i] = s.left[j] => i = j
SavesWell ==
  /\ hturns \in 0..MaxTurns
  /\ \A s \in hsaves : SaveWell(s)
  /\ \A s, t \in hsaves : s.id = t.id => s = t
DataWell ==
  /\ hdata \in [AutoPhones -> Data]
  /\ \A p \in AutoPhones : /\ hdata[p].on <=> hdata[p].ids # {}
                           /\ \A i \in hdata[p].ids : i <= hturns
  /\ hactive \subseteq AutoPhones \X Ids /\ \A d \in hactive : d[2] <= hturns
  /\ hstray \subseteq AutoPhones \X Ids
  /\ \A p \in AutoPhones, s \in hsaves : s.id \in hdata[p].ids => p \in Switched(s)
AutoPage ==
  [phone : AutoPhones, fleet : BOOLEAN, on : BOOLEAN, shown : BOOLEAN, mixed : BOOLEAN]
ReadWell(r) ==
  /\ r \in [of : AutoPhones \cup {"fleet"}, read : BOOLEAN, data : StateRead]
  /\ r.read => r.data \in [Seen(r) -> [on : BOOLEAN, fleet : BOOLEAN]]
AutoPageWell ==
  /\ hpage \in AutoPage /\ \A r \in hreads : ReadWell(r)
  /\ hchosen \in [AutoPhones -> BOOLEAN]
  /\ hpast \in [AutoPhones -> [crossed : BOOLEAN, failed : BOOLEAN, early : BOOLEAN,
                               flows : 0..MaxTurns]]

\* Where no requests crossed, one request has the phone, and knows its data.
Alone(p) == ~hpast[p].crossed
Applies(s, p) == s.at \in Applying /\ s.left # <<>> /\ Head(s.left) = p
Replaces(s, p) == Applies(s, p) /\ s.at # "cancel"
OneRequest(p) ==
  /\ \A s, t \in hsaves : p \in Switched(s) /\ p \in Switched(t) => s = t
  /\ \A s \in hsaves : s.at \in Applying /\ p \in Left(s) => s.data[p] = hdata[p]
  /\ \A s \in hsaves, i \in Ids :
       Replaces(s, p) /\ <<p, i>> \in hactive \ hstray => s.at = "write" /\ i = s.id /\ s.on
  /\ hdata[p].flows = hpast[p].flows

\* The request that has the phone cancels its drain before it makes the next one.
Drained(p) ==
  /\ \A s \in hsaves : Applies(s, p) /\ s.at = "write" /\ s.on => <<p, s.id>> \in hactive
  /\ hdata[p].on /\ (\A s \in hsaves : ~Replaces(s, p))
       => \E i \in hdata[p].ids : <<p, i>> \in hactive

\* Every request for the phone is the operator's choice, also one for the frequency.
Unwritten(s, p) == p \in Switched(s) /\ (s.at = "sent" \/ (s.at \in Applying /\ p \in Left(s)))
AsChosen(p) ==
  /\ \A s \in hsaves : p \in Switched(s) => s.on = hchosen[p]
  /\ (\A s \in hsaves : ~Unwritten(s, p)) => hdata[p].on = hchosen[p]
Certain(p) == ~hpast[p].crossed /\ ~hpast[p].failed /\ ~hpast[p].early

\* What a page that is not mixed up waits for, and what it shows.
PageChosen ==
  ~hpage.mixed =>
    /\ \A r, q \in hreads : r = q
    /\ hpage.shown => hreads = {}
    /\ \A p \in AutoPhones : hreads # {} /\ Certain(p) => ~Meets(p)
    /\ \A r \in hreads : \A p \in Seen(r) :
         r.read /\ Certain(p) => r.data[p].on = hchosen[p]
    /\ hpage.shown /\ Certain(hpage.phone) => hpage.on = hchosen[hpage.phone]

HInv ==
  /\ SavesWell /\ DataWell /\ AutoPageWell /\ HNoOrphans
  /\ \A p \in AutoPhones : /\ Alone(p) => OneRequest(p)
                           /\ Alone(p) /\ ~hpast[p].failed => Drained(p)
                           /\ Certain(p) => AsChosen(p)
  /\ PageChosen

\* The phones of the fleet, in some order.
LEMMA OrderIs ==
  /\ Order \in Seq(AutoPhones) /\ Order # <<>>
  /\ {Order[i] : i \in DOMAIN Order} = AutoPhones
  /\ \A i, j \in DOMAIN Order : Order[i] = Order[j] => i = j
<1> DEFINE n == Cardinality(AutoPhones)
<1>1. n \in Nat /\ n # 0 /\ ExistsBijection(1..n, AutoPhones)
  BY FS_CardinalityType, FS_EmptySet
<1>2. \E f \in [1..n -> AutoPhones] : IsInjective(f)
  BY <1>1, Zenon DEF ExistsBijection, Bijection, Injection
<1>3. Order \in [1..n -> AutoPhones] /\ IsInjective(Order)
  BY <1>2, Zenon DEF Order, SetToSeq
<1>4. Order \in Injection(1..n, AutoPhones)
  BY <1>3, Zenon DEF Injection
<1>5. Cardinality(1..n) = n
  BY <1>1, FS_Interval
<1> HIDE DEF n
<1>6. Order \in Surjection(1..n, AutoPhones)
  BY <1>4, <1>5, FS_Injection DEF n
<1>7. DOMAIN Order = 1..n  BY <1>3
<1>8. {Order[i] : i \in DOMAIN Order} = AutoPhones
  BY <1>3, <1>6, <1>7 DEF Surjection
<1>9. Order \in Seq(AutoPhones) /\ Order # <<>>
  BY <1>1, <1>3, <1>7
<1> QED  BY <1>3, <1>7, <1>8, <1>9 DEF IsInjective

\* A phone is done: the others are left.
LEMMA OneIsDone ==
  ASSUME NEW q \in Seq(AutoPhones), q # <<>>,
         \A i, j \in DOMAIN q : q[i] = q[j] => i = j
  PROVE  /\ Head(q) \in AutoPhones /\ Head(q) \in {q[i] : i \in DOMAIN q}
         /\ Len(q) = 1 => {q[i] : i \in DOMAIN q} = {Head(q)}
         /\ Len(q) # 1 =>
              /\ Tail(q) \in Seq(AutoPhones) /\ Tail(q) # <<>>
              /\ {Tail(q)[i] : i \in DOMAIN Tail(q)} = {q[i] : i \in DOMAIN q} \ {Head(q)}
              /\ \A i, j \in DOMAIN Tail(q) : Tail(q)[i] = Tail(q)[j] => i = j
<1>1. Len(q) \in Nat \ {0} /\ DOMAIN q = 1..Len(q) /\ Head(q) = q[1]
  OBVIOUS
<1>2. Head(q) \in AutoPhones  BY <1>1
<1>3. Len(q) = 1 => {q[i] : i \in DOMAIN q} = {Head(q)}
  BY <1>1
<1>4. ASSUME Len(q) # 1
      PROVE  /\ Tail(q) \in Seq(AutoPhones) /\ Tail(q) # <<>>
             /\ {Tail(q)[i] : i \in DOMAIN Tail(q)} = {q[i] : i \in DOMAIN q} \ {Head(q)}
             /\ \A i, j \in DOMAIN Tail(q) : Tail(q)[i] = Tail(q)[j] => i = j
  <2>1. /\ Tail(q) \in Seq(AutoPhones) /\ Len(Tail(q)) = Len(q) - 1
        /\ \A i \in 1..Len(Tail(q)) : Tail(q)[i] = q[i + 1]
    BY HeadTailProperties
  <2>2. DOMAIN Tail(q) = 1..(Len(q) - 1) /\ Len(q) - 1 > 0  BY <1>1, <1>4, <2>1
  <2>3. Tail(q) # <<>>  BY <1>1, <1>4, <2>1
  <2>4. \A i \in 1..(Len(q) - 1) : i + 1 \in DOMAIN q /\ Tail(q)[i] = q[i + 1] /\ i + 1 # 1
    BY <1>1, <2>1, <2>2
  <2>5. \A i, j \in DOMAIN Tail(q) : Tail(q)[i] = Tail(q)[j] => i = j
    BY <2>2, <2>4
  <2>6. \A i \in DOMAIN Tail(q) : Tail(q)[i] \in {q[j] : j \in DOMAIN q} \ {Head(q)}
    BY <1>1, <2>2, <2>4
  <2>7. ASSUME NEW j \in DOMAIN q, q[j] # Head(q) PROVE \E i \in DOMAIN Tail(q) : Tail(q)[i] = q[j]
    <3>1. j - 1 \in 1..(Len(q) - 1)  BY <1>1, <2>7
    <3> QED  BY <1>1, <2>2, <2>4, <3>1
  <2> QED  BY <2>1, <2>3, <2>5, <2>6, <2>7
<1>5. Head(q) \in {q[i] : i \in DOMAIN q}  BY <1>1
<1> QED  BY <1>2, <1>3, <1>4, <1>5

LEMMA AutoInitHolds == HInit => HInv
<1> SUFFICES ASSUME HInit PROVE HInv  OBVIOUS
<1>1. First \in AutoPhones  BY DEF First
<1>2. hsaves = {} /\ hactive = {} /\ hstray = {} /\ hturns = 0 /\ MaxTurns \in Nat  BY DEF HInit
<1>3. SavesWell  BY <1>2 DEF SavesWell
<1>4. DataWell  BY <1>2 DEF HInit, DataWell, NoData, Data
<1>5. AutoPageWell
  <2>1. \A r \in hreads : ReadWell(r)
    <3>1. \A r \in hreads : r = [of |-> First, read |-> FALSE, data |-> <<>>]
      BY DEF HInit
    <3>2. <<>> \in StateRead  BY DEF StateRead
    <3>3. ASSUME NEW r \in hreads PROVE ReadWell(r)
      <4>1. r = [of |-> First, read |-> FALSE, data |-> <<>>]  BY <3>1
      <4>2. First \in AutoPhones \cup {"fleet"}  BY <1>1
      <4> HIDE DEF First
      <4>3. r \in [of : AutoPhones \cup {"fleet"}, read : BOOLEAN, data : StateRead] /\ ~r.read
        BY <3>2, <4>1, <4>2
      <4> QED  BY <4>3 DEF ReadWell
    <3> QED  BY <3>3
  <2> QED  BY <1>1, <1>2, <2>1 DEF HInit, AutoPageWell, AutoPage
<1>6. HNoOrphans  BY <1>2 DEF HNoOrphans
<1>7. ASSUME NEW p \in AutoPhones PROVE OneRequest(p) /\ Drained(p) /\ AsChosen(p)
  BY <1>2 DEF HInit, NoData, OneRequest, Drained, AsChosen, Unwritten
<1>8. PageChosen
  BY <1>2 DEF HInit, PageChosen, Meets
<1> QED  BY <1>3, <1>4, <1>5, <1>6, <1>7, <1>8 DEF HInv

LEMMA AutoSafe == HInv => HSafe
<1> SUFFICES ASSUME HInv PROVE HSafe  OBVIOUS
<1>1. HTypeOK
  BY DEF HInv, SavesWell, SaveWell, Save, DataWell, AutoPageWell, AutoPage, ReadWell, HTypeOK, Applying
<1>2. HNoOrphans  BY DEF HInv
<1>3. HRuns
  <2> SUFFICES ASSUME NEW p \in AutoPhones, hdata[p].on, ~Meets(p), ~hpast[p].crossed,
                      ~hpast[p].failed
               PROVE  \E i \in hdata[p].ids : <<p, i>> \in hactive
    BY DEF HRuns
  <2>1. ASSUME NEW s \in hsaves, Replaces(s, p) PROVE FALSE
    <3>1. SaveWell(s) /\ s.at \in Applying /\ s.left # <<>> /\ p = Head(s.left)
      BY <2>1 DEF Replaces, Applies, HInv, SavesWell
    <3>2. p \in Left(s)  BY <3>1, OneIsDone DEF SaveWell, Save, Left
    <3> QED  BY <3>1, <3>2 DEF SaveWell, Meets
  <2> QED  BY <2>1 DEF HInv, Alone, Drained
<1>4. HWorkflowsKept  BY DEF HInv, Alone, OneRequest, HWorkflowsKept
<1>5. HAsSwitched  BY DEF HInv, Certain, AsChosen, Unwritten, HAsSwitched, Meets
<1> QED  BY <1>1, <1>2, <1>3, <1>4, <1>5 DEF HSafe

-----------------------------------------------------------------------------
(* What a step leaves alone.                                                *)

SameFor(save, next) ==
  /\ next.id = save.id /\ next.phone = save.phone /\ next.fleet = save.fleet
  /\ next.on = save.on

LEMMA SavesMove ==
  ASSUME HInv, NEW save \in hsaves, NEW next, hsaves' = (hsaves \ {save}) \cup {next},
         hturns' = hturns, SaveWell(next), SameFor(save, next)
  PROVE  /\ SavesWell' /\ Switched(next) = Switched(save)
         /\ \A p : Meets(p)' => Meets(p)
         /\ \A s, t \in hsaves' : s.id = t.id => s = t
<1>1. Switched(next) = Switched(save)  BY DEF SameFor, Switched
<1>2. \A s, t \in hsaves' : s.id = t.id => s = t  BY DEF HInv, SavesWell, SameFor
<1>3. \A s \in hsaves' : SaveWell(s)'
  <2>1. \A s \in hsaves' : SaveWell(s)  BY DEF HInv, SavesWell
  <2> QED  BY <2>1 DEF SaveWell, Left, Switched
<1>4. SavesWell'  BY <1>2, <1>3 DEF HInv, SavesWell
<1>5. \A p : Meets(p)' => Meets(p)  BY <1>1 DEF Meets, Switched
<1> QED  BY <1>1, <1>2, <1>4, <1>5

\* The page, where others take a step.
LEMMA AutoPageStays ==
  ASSUME HInv, UNCHANGED <<hpage, hchosen>>, hreads' \subseteq hreads,
         hpast' \in [AutoPhones -> [crossed : BOOLEAN, failed : BOOLEAN, early : BOOLEAN,
                                    flows : 0..MaxTurns]],
         \A p \in AutoPhones : Certain(p)' => Certain(p),
         \A p \in AutoPhones : Meets(p)' => Meets(p) \/ ~Certain(p)' \/ hreads = {}
  PROVE  AutoPageWell' /\ PageChosen'
<1>1. AutoPageWell'  BY DEF HInv, AutoPageWell, ReadWell, Seen
<1>2. PageChosen'
  <2> SUFFICES ASSUME ~hpage.mixed PROVE PageChosen'  BY DEF PageChosen
  <2>1. /\ \A r, q \in hreads : r = q
        /\ hpage.shown => hreads = {}
        /\ \A p \in AutoPhones : hreads # {} /\ Certain(p) => ~Meets(p)
        /\ \A r \in hreads : \A p \in Seen(r) :
             r.read /\ Certain(p) => r.data[p].on = hchosen[p]
        /\ hpage.shown /\ Certain(hpage.phone) => hpage.on = hchosen[hpage.phone]
    BY DEF HInv, PageChosen
  <2>2. hpage.phone \in AutoPhones /\ \A r \in hreads : Seen(r) \subseteq AutoPhones
    BY DEF HInv, AutoPageWell, AutoPage, ReadWell, Seen
  <2> HIDE DEF Certain, Meets, Seen
  <2>3. \A p \in AutoPhones : hreads' # {} /\ Certain(p)' => ~Meets(p)'  BY <2>1
  <2>4. \A r \in hreads : \A p \in Seen(r) : r.read /\ Certain(p)' => r.data[p].on = hchosen[p]
    BY <2>1, <2>2
  <2>5. hpage.shown /\ Certain(hpage.phone)' => hpage.on = hchosen[hpage.phone]
    BY <2>1, <2>2
  <2>6. \A r : Seen(r)' = Seen(r)  BY DEF Seen
  <2> QED  BY <2>1, <2>3, <2>4, <2>5, <2>6 DEF PageChosen, Certain, Meets
<1> QED  BY <1>1, <1>2

\* A refresh is sent.
LEMMA ReloadsWell ==
  ASSUME HInv, NEW page \in AutoPage, Reloads(page, hsaves'), UNCHANGED <<hchosen, hpast>>
  PROVE  AutoPageWell' /\ PageChosen'
<1> DEFINE new == [of |-> IF page.fleet THEN "fleet" ELSE page.phone,
                   read |-> FALSE, data |-> <<>>]
<1>1. /\ hreads' = hreads \cup {new}
      /\ hpage' = [page EXCEPT !.shown = FALSE, !.mixed = hreads # {} \/ hsaves' # {}]
  BY DEF Reloads
<1>2. new.read = FALSE /\ ReadWell(new)
  <2>1. <<>> \in StateRead  BY DEF StateRead
  <2>2. new.of \in AutoPhones \cup {"fleet"}  BY DEF AutoPage
  <2>3. new \in [of : AutoPhones \cup {"fleet"}, read : BOOLEAN, data : StateRead]
    BY <2>1, <2>2
  <2> QED  BY <2>3 DEF ReadWell
<1> HIDE DEF new
<1>3. hpage' \in AutoPage /\ ~hpage'.shown
  BY <1>1 DEF AutoPage
<1>4. ~hpage'.mixed => hreads = {} /\ hsaves' = {}
  BY <1>1 DEF AutoPage
<1>5. AutoPageWell'
  BY <1>1, <1>2, <1>3 DEF HInv, AutoPageWell, ReadWell, Seen
<1>6. PageChosen'
  BY <1>1, <1>2, <1>3, <1>4 DEF PageChosen, Meets
<1> QED  BY <1>5, <1>6

\* The phones and their requests, where only the page changes.
LEMMA PhonesStay ==
  ASSUME HInv, UNCHANGED <<hdata, hactive, hsaves, hchosen, hpast, hstray>>,
         hturns \in Nat, hturns' \in 0..MaxTurns, hturns <= hturns',
         AutoPageWell', PageChosen'
  PROVE  HInv'
<1>1. SavesWell'
  <2>1. \A s \in hsaves : SaveWell(s)'
    <3> TAKE s \in hsaves
    <3>1. SaveWell(s) /\ s.id \in Nat /\ s.id <= hturns
      BY DEF HInv, SavesWell, SaveWell, Save, Ids
    <3>2. s.id <= hturns'  BY <3>1
    <3> QED  BY <3>1, <3>2 DEF SaveWell, Left, Switched
  <2> QED  BY <2>1 DEF HInv, SavesWell
<1>2. DataWell'
  BY DEF HInv, DataWell, Data, Ids, Switched
<1>3. HNoOrphans'  BY DEF HInv, HNoOrphans
<1>4. ASSUME NEW p \in AutoPhones
      PROVE  /\ Alone(p)' => OneRequest(p)'
             /\ (Alone(p) /\ ~hpast[p].failed)' => Drained(p)'
             /\ Certain(p)' => AsChosen(p)'
  BY DEF HInv, Alone, OneRequest, Drained, AsChosen, Certain, Switched, Replaces, Applies,
         Left, Unwritten
<1> QED  BY <1>1, <1>2, <1>3, <1>4 DEF HInv

-----------------------------------------------------------------------------
(* The steps of a request.                                                  *)

LEMMA HReadsDataKeeps ==
  ASSUME HInv, NEW save \in hsaves, HReadsData(save)
  PROVE  HInv'
<1> DEFINE next == [save EXCEPT !.at = "cancel", !.data = [p \in Switched(save) |-> hdata[p]],
                                !.left = IF save.fleet THEN Order ELSE <<save.phone>>]
<1>0. /\ save.at = "sent" /\ hsaves' = (hsaves \ {save}) \cup {next}
      /\ UNCHANGED <<hdata, hactive, hpage, hreads, hchosen, hpast, hstray, hturns, hflaws>>
  BY Zenon DEF HReadsData
<1>1. SaveWell(save) /\ save \in Save /\ save.phone \in AutoPhones
  BY DEF HInv, SavesWell, SaveWell, Save
<1>2. SaveWell(next) /\ SameFor(save, next) /\ next.at = "cancel" /\ Left(next) = Switched(save)
      /\ \A p \in Left(next) : next.data[p] = hdata[p]
  <2> DEFINE data == [p \in Switched(save) |-> hdata[p]]
             left == IF save.fleet THEN Order ELSE <<save.phone>>
  <2>1. /\ left \in Seq(AutoPhones) /\ left # <<>>
        /\ {left[i] : i \in DOMAIN left} = Switched(save)
        /\ \A i, j \in DOMAIN left : left[i] = left[j] => i = j
    <3>1. CASE save.fleet  BY <3>1, OrderIs DEF Switched
    <3>2. CASE ~save.fleet  BY <1>1, <3>2 DEF Switched
    <3> QED  BY <3>1, <3>2
  <2>2. Switched(save) \subseteq AutoPhones  BY <1>1 DEF Switched
  <2>3. data \in [Switched(save) -> Data]  BY <2>2 DEF HInv, DataWell
  <2>4. data \in DataRead  BY <2>2, <2>3, Zenon DEF DataRead
  <2>5. \A p \in Switched(save) : data[p] = hdata[p]  OBVIOUS
  <2>0. next = [save EXCEPT !.at = "cancel", !.data = data, !.left = left]  OBVIOUS
  <2> HIDE DEF data, left, next
  <2>6. /\ next \in Save /\ next.id = save.id /\ next.phone = save.phone
        /\ next.fleet = save.fleet /\ next.on = save.on /\ next.at = "cancel"
        /\ next.data = data /\ next.left = left
    BY <1>1, <2>0, <2>1, <2>4 DEF Save, Applying
  <2>7. Left(next) = Switched(save) /\ Switched(next) = Switched(save)
    BY <2>1, <2>6 DEF Left, Switched
  <2>8. SaveWell(next)  BY <1>1, <2>1, <2>3, <2>6, <2>7 DEF SaveWell, Applying
  <2> QED  BY <2>5, <2>6, <2>7, <2>8 DEF SameFor
<1> HIDE DEF next
<1>3. /\ SavesWell' /\ Switched(next) = Switched(save)
      /\ \A p : Meets(p)' => Meets(p)
  BY <1>0, <1>2, SavesMove
<1>4. DataWell'  BY <1>0, <1>2, <1>3 DEF HInv, DataWell, SameFor, Switched
<1>5. AutoPageWell' /\ PageChosen'
  BY <1>0, <1>3, AutoPageStays DEF HInv, AutoPageWell, Certain
<1>6. HNoOrphans'  BY <1>0 DEF HInv, HNoOrphans
<1>7. ASSUME NEW p \in AutoPhones, Alone(p)'
      PROVE  OneRequest(p)' /\ (~hpast[p].failed => Drained(p)')
  <2>1. Alone(p) /\ OneRequest(p) /\ (~hpast[p].failed => Drained(p))
    BY <1>0, <1>7 DEF HInv, Alone
  <2>2. \A s \in hsaves' : s # next => s \in hsaves /\ s # save  BY <1>0
  <2>3. ~Replaces(next, p) /\ ~Replaces(save, p)  BY <1>0, <1>2 DEF Replaces, Applies, Applying
  <2>4. OneRequest(p)'
    <3>1. \A s, t \in hsaves' : p \in Switched(s) /\ p \in Switched(t) => s = t
      BY <1>0, <1>3, <2>1 DEF OneRequest
    <3>2. \A s \in hsaves' : s.at \in Applying /\ p \in Left(s) => s.data[p] = hdata[p]
      BY <1>2, <2>1, <2>2 DEF OneRequest
    <3>3. \A s \in hsaves', i \in Ids :
            Replaces(s, p) /\ <<p, i>> \in hactive \ hstray => s.at = "write" /\ i = s.id /\ s.on
      BY <2>1, <2>2, <2>3 DEF OneRequest
    <3> QED  BY <1>0, <2>1, <3>1, <3>2, <3>3 DEF OneRequest, Replaces, Applies, Switched, Left
  <2>5. ASSUME ~hpast[p].failed PROVE Drained(p)'
    BY <1>0, <1>2, <2>1, <2>2, <2>3, <2>5 DEF Drained, Replaces, Applies
  <2> QED  BY <2>4, <2>5
<1>8. ASSUME NEW p \in AutoPhones, Certain(p)' PROVE AsChosen(p)'
  <2>1. AsChosen(p)  BY <1>0, <1>8 DEF HInv, Certain
  <2>2. Unwritten(next, p) <=> Unwritten(save, p)
    BY <1>0, <1>2, <1>3 DEF Unwritten, Applying
  <2> QED  BY <1>0, <1>2, <1>3, <2>1, <2>2 DEF AsChosen, SameFor, Switched, Unwritten, Left
<1> QED  BY <1>0, <1>3, <1>4, <1>5, <1>6, <1>7, <1>8 DEF HInv, Alone

\* A request that is under way: whose turn it is, and what comes then.
LEMMA TurnIs ==
  ASSUME HInv, NEW save \in hsaves, save.at \in Applying
  PROVE  /\ SaveWell(save) /\ save.left # <<>> /\ Head(save.left) \in Left(save)
         /\ Head(save.left) \in AutoPhones /\ Left(save) \subseteq Switched(save)
         /\ Applies(save, Head(save.left))
<1>1. SaveWell(save) /\ save.left # <<>> /\ save.left \in Seq(AutoPhones)
      /\ \A i, j \in DOMAIN save.left : save.left[i] = save.left[j] => i = j
      /\ Left(save) \subseteq Switched(save)
  BY DEF HInv, SavesWell, SaveWell, Save
<1> QED  BY <1>1, OneIsDone DEF Left, Applies

LEMMA HCancelsKeeps ==
  ASSUME HInv, NEW save \in hsaves, HCancels(save)
  PROVE  HInv'
<1> DEFINE q == Head(save.left)
           next == [save EXCEPT !.at = "create"]
<1>0. /\ save.at = "cancel" /\ hsaves' = (hsaves \ {save}) \cup {next}
      /\ UNCHANGED <<hdata, hpage, hreads, hchosen, hpast, hturns>>
  BY DEF HCancels
<1>a. PICK kept \in SUBSET hactive :
        /\ hactive' = (hactive \ {<<q, i>> : i \in save.data[q].ids}) \cup kept
        /\ hstray' = hstray \cup kept
  BY DEF HCancels, Cancelled
<1>1. /\ SaveWell(save) /\ save \in Save /\ save.left # <<>> /\ q \in Left(save)
      /\ q \in AutoPhones /\ q \in Switched(save)
  BY <1>0, TurnIs DEF SaveWell, Applying
<1>2. /\ SaveWell(next) /\ SameFor(save, next) /\ next.at = "create" /\ next.left = save.left
      /\ next.data = save.data /\ Left(next) = Left(save)
  BY <1>0, <1>1 DEF SaveWell, Save, SameFor, Left, Switched, Applying
<1> HIDE DEF next, q
<1>3. /\ SavesWell' /\ Switched(next) = Switched(save)
      /\ \A p : Meets(p)' => Meets(p)
  BY <1>0, <1>2, SavesMove
<1>4. DataWell'  BY <1>0, <1>a, <1>2, <1>3 DEF HInv, DataWell, SameFor, Switched
<1>5. AutoPageWell' /\ PageChosen'
  BY <1>0, <1>3, AutoPageStays DEF HInv, AutoPageWell, Certain
<1>6. HNoOrphans'  BY <1>0, <1>a DEF HInv, HNoOrphans
<1>7. ASSUME NEW p \in AutoPhones, Alone(p)'
      PROVE  OneRequest(p)' /\ (~hpast[p].failed => Drained(p)')
  <2>1. Alone(p) /\ OneRequest(p) /\ (~hpast[p].failed => Drained(p))
    BY <1>0, <1>7 DEF HInv, Alone
  <2>2. \A s \in hsaves' : s # next => s \in hsaves /\ s # save  BY <1>0
  <2>3. ~Replaces(save, p) /\ (Replaces(next, p) <=> p = q)
    BY <1>0, <1>1, <1>2 DEF Replaces, Applies, Applying, q
  <2>4. p = q => \A t \in hsaves : p \in Switched(t) => t = save
    BY <1>1, <2>1 DEF OneRequest
  <2>5. \A t \in hsaves : Applies(t, p) => p \in Switched(t)
    BY TurnIs DEF Applies
  <2>6. ASSUME p = q, NEW i \in Ids, <<p, i>> \in hactive' \ hstray' PROVE FALSE
    <3>1. i \notin hdata[p].ids  BY <1>0, <1>a, <1>1, <2>1, <2>6 DEF OneRequest, Applying
    <3>2. PICK s \in hsaves : s.id = i /\ s.at = "write" /\ Head(s.left) = p
      BY <1>0, <1>a, <2>1, <2>6, <3>1 DEF HInv, HNoOrphans, Alone
    <3>3. p \in Switched(s)  BY <3>2, TurnIs DEF Applying
    <3> QED  BY <1>0, <2>4, <2>6, <3>2, <3>3
  <2>7. \A s \in hsaves', i \in Ids :
          Replaces(s, p) /\ <<p, i>> \in hactive' \ hstray' => s.at = "write" /\ i = s.id /\ s.on
    BY <1>a, <2>1, <2>2, <2>3, <2>6 DEF OneRequest
  <2>8. OneRequest(p)'
    <3>1. \A s, t \in hsaves' : p \in Switched(s) /\ p \in Switched(t) => s = t
      BY <1>0, <1>3, <2>1 DEF OneRequest
    <3>2. ASSUME NEW s \in hsaves', s.at \in Applying, p \in Left(s)
          PROVE  s.data[p] = hdata[p]
      <4>1. CASE s = next
        <5>1. save.at \in Applying /\ p \in Left(save)  BY <1>0, <1>2, <3>2, <4>1 DEF Applying
        <5> QED  BY <1>2, <2>1, <4>1, <5>1 DEF OneRequest
      <4>2. CASE s # next  BY <2>1, <2>2, <3>2, <4>2 DEF OneRequest
      <4> QED  BY <4>1, <4>2
    <3> QED  BY <1>0, <2>1, <2>7, <3>1, <3>2 DEF OneRequest, Replaces, Applies, Switched, Left
  <2>9. ASSUME ~hpast[p].failed PROVE Drained(p)'
    <3>1. \A s \in hsaves' : Applies(s, p) /\ s.at = "write" /\ s.on => <<p, s.id>> \in hactive'
      BY <1>0, <1>a, <1>2, <2>1, <2>2, <2>4, <2>5, <2>9 DEF Drained
    <3>2. hdata[p].on /\ (\A s \in hsaves' : ~Replaces(s, p))
             => \E i \in hdata[p].ids : <<p, i>> \in hactive'
      BY <1>0, <1>a, <2>1, <2>2, <2>3, <2>9 DEF Drained
    <3> QED  BY <1>0, <3>1, <3>2 DEF Drained, Replaces, Applies
  <2> QED  BY <2>8, <2>9
<1>8. ASSUME NEW p \in AutoPhones, Certain(p)' PROVE AsChosen(p)'
  <2>1. AsChosen(p)  BY <1>0, <1>8 DEF HInv, Certain
  <2>2. Unwritten(next, p) <=> Unwritten(save, p)
    BY <1>0, <1>2, <1>3 DEF Unwritten, Applying
  <2> QED  BY <1>0, <1>2, <1>3, <2>1, <2>2 DEF AsChosen, SameFor, Switched, Unwritten, Left
<1> QED  BY <1>0, <1>3, <1>4, <1>5, <1>6, <1>7, <1>8 DEF HInv, Alone

LEMMA HCreatesKeeps ==
  ASSUME HInv, NEW save \in hsaves, HCreates(save)
  PROVE  HInv'
<1> DEFINE q == Head(save.left)
           next == [save EXCEPT !.at = "write"]
<1>0. /\ save.at = "create" /\ hsaves' = (hsaves \ {save}) \cup {next}
      /\ hactive' = IF save.on THEN hactive \cup {<<q, save.id>>} ELSE hactive
      /\ UNCHANGED <<hdata, hpage, hreads, hchosen, hpast, hstray, hturns, hflaws>>
  BY DEF HCreates, Created
<1>1. /\ SaveWell(save) /\ save \in Save /\ save.left # <<>> /\ q \in Left(save)
      /\ q \in AutoPhones /\ q \in Switched(save) /\ save.id \in Ids /\ save.id <= hturns
  BY <1>0, TurnIs DEF SaveWell, Save, Applying
<1>2. /\ SaveWell(next) /\ SameFor(save, next) /\ next.at = "write" /\ next.left = save.left
      /\ next.data = save.data /\ Left(next) = Left(save)
  BY <1>0, <1>1 DEF SaveWell, Save, SameFor, Left, Switched, Applying
<1> HIDE DEF next, q
<1>3. /\ SavesWell' /\ Switched(next) = Switched(save)
      /\ \A p : Meets(p)' => Meets(p)
  BY <1>0, <1>2, SavesMove
<1>4. DataWell'
  BY <1>0, <1>1, <1>2, <1>3 DEF HInv, DataWell, SameFor, Switched
<1>5. AutoPageWell' /\ PageChosen'
  BY <1>0, <1>3, AutoPageStays DEF HInv, AutoPageWell, Certain
<1>6. HNoOrphans'
  <2>1. next.at = "write" /\ Head(next.left) = q /\ next.id = save.id /\ next \in hsaves'
    BY <1>0, <1>2 DEF q, SameFor
  <2> QED  BY <1>0, <2>1 DEF HInv, HNoOrphans
<1>7. ASSUME NEW p \in AutoPhones, Alone(p)'
      PROVE  OneRequest(p)' /\ (~hpast[p].failed => Drained(p)')
  <2>1. Alone(p) /\ OneRequest(p) /\ (~hpast[p].failed => Drained(p))
    BY <1>0, <1>7 DEF HInv, Alone
  <2>2. \A s \in hsaves' : s # next => s \in hsaves /\ s # save  BY <1>0
  <2>3. /\ Replaces(next, p) <=> p = q
        /\ Replaces(save, p) <=> p = q
    BY <1>0, <1>1, <1>2 DEF Replaces, Applies, Applying, q
  <2>4. p = q => \A t \in hsaves : p \in Switched(t) => t = save
    BY <1>1, <2>1 DEF OneRequest
  <2>5. \A t \in hsaves : Replaces(t, p) => p \in Switched(t)
    BY TurnIs DEF Applies, Replaces
  <2>6. next.at = "write" /\ next.id = save.id /\ next.on = save.on  BY <1>2 DEF SameFor
  <2>7. \A s \in hsaves', i \in Ids :
          Replaces(s, p) /\ <<p, i>> \in hactive' \ hstray => s.at = "write" /\ i = s.id /\ s.on
    <3> SUFFICES ASSUME NEW s \in hsaves', NEW i \in Ids, Replaces(s, p),
                        <<p, i>> \in hactive' \ hstray
                 PROVE  s.at = "write" /\ i = s.id /\ s.on
      OBVIOUS
    <3>1. CASE s = next
      <4>1. p = q /\ Replaces(save, p)  BY <2>3, <3>1
      <4>2. <<p, i>> \notin hactive  BY <1>0, <2>1, <4>1 DEF OneRequest
      <4> QED  BY <1>0, <2>6, <3>1, <4>2
    <3>2. CASE s # next
      <4>1. s \in hsaves /\ s # save /\ p # q  BY <2>2, <2>4, <2>5, <3>2
      <4>2. <<p, i>> \in hactive  BY <1>0, <4>1
      <4> QED  BY <2>1, <4>1, <4>2 DEF OneRequest
    <3> QED  BY <3>1, <3>2
  <2>8. OneRequest(p)'
    <3>1. \A s, t \in hsaves' : p \in Switched(s) /\ p \in Switched(t) => s = t
      BY <1>0, <1>3, <2>1 DEF OneRequest
    <3>2. \A s \in hsaves' : s.at \in Applying /\ p \in Left(s) => s.data[p] = hdata[p]
      BY <1>0, <1>2, <2>1, <2>2 DEF OneRequest, Applying
    <3> QED  BY <1>0, <2>1, <2>7, <3>1, <3>2 DEF OneRequest, Replaces, Applies, Switched, Left
  <2>9. ASSUME ~hpast[p].failed PROVE Drained(p)'
    <3>1. \A s \in hsaves' : Applies(s, p) /\ s.at = "write" /\ s.on => <<p, s.id>> \in hactive'
      <4> SUFFICES ASSUME NEW s \in hsaves', Applies(s, p), s.at = "write", s.on
                   PROVE  <<p, s.id>> \in hactive'
        OBVIOUS
      <4>1. CASE s = next  BY <1>0, <2>3, <2>6, <4>1 DEF Replaces
      <4>2. CASE s # next  BY <1>0, <2>1, <2>2, <2>9, <4>2 DEF Drained
      <4> QED  BY <4>1, <4>2
    <3>2. hdata[p].on /\ (\A s \in hsaves' : ~Replaces(s, p))
             => \E i \in hdata[p].ids : <<p, i>> \in hactive'
      BY <1>0, <2>1, <2>2, <2>3, <2>9 DEF Drained
    <3> QED  BY <1>0, <3>1, <3>2 DEF Drained, Replaces, Applies
  <2> QED  BY <2>8, <2>9
<1>8. ASSUME NEW p \in AutoPhones, Certain(p)' PROVE AsChosen(p)'
  <2>1. AsChosen(p)  BY <1>0, <1>8 DEF HInv, Certain
  <2>2. Unwritten(next, p) <=> Unwritten(save, p)
    BY <1>0, <1>2, <1>3 DEF Unwritten, Applying
  <2> QED  BY <1>0, <1>2, <1>3, <2>1, <2>2 DEF AsChosen, SameFor, Switched, Unwritten, Left
<1> QED  BY <1>0, <1>3, <1>4, <1>5, <1>6, <1>7, <1>8 DEF HInv, Alone

LEMMA HWritesKeeps ==
  ASSUME HInv, NEW save \in hsaves, HWrites(save)
  PROVE  HInv'
<1> DEFINE q == Head(save.left)
           last == [save EXCEPT !.left = <<>>, !.at = "done", !.data = <<>>]
           more == [save EXCEPT !.left = Tail(save.left), !.at = "cancel"]
           next == IF Len(save.left) = 1 THEN last ELSE more
           data == NextData(save, q)
<1>0. /\ save.at = "write" /\ hsaves' = (hsaves \ {save}) \cup {next}
      /\ hdata' = [hdata EXCEPT ![q] = data]
      /\ UNCHANGED <<hactive, hpage, hreads, hchosen, hpast, hstray, hturns, hflaws>>
  BY DEF HWrites
<1>1. /\ SaveWell(save) /\ save \in Save /\ save.left # <<>> /\ q \in Left(save)
      /\ q \in AutoPhones /\ q \in Switched(save) /\ save.id \in Ids /\ save.id <= hturns
      /\ Left(save) \subseteq Switched(save) /\ save.data \in [Switched(save) -> Data]
      /\ save.left \in Seq(AutoPhones)
      /\ \A i, j \in DOMAIN save.left : save.left[i] = save.left[j] => i = j
  BY <1>0, TurnIs DEF SaveWell, Save, Applying
<1>2. /\ SaveWell(next) /\ SameFor(save, next) /\ next.at \in {"done", "cancel"}
      /\ next.at = "cancel" => next.data = save.data
      /\ \A p : (next.at \in Applying /\ p \in Left(next)) <=> p \in Left(save) \ {q}
  <2>1. CASE Len(save.left) = 1
    <3>1. Left(save) = {q}  BY <1>1, <2>1, OneIsDone DEF Left
    <3>2. <<>> \in DataRead /\ <<>> \in Seq(AutoPhones)  BY DEF DataRead
    <3>3. /\ last \in Save /\ SameFor(save, last) /\ last.at = "done" /\ last.left = <<>>
          /\ last.id <= hturns
      BY <1>1, <3>2 DEF Save, SameFor
    <3>4. next = last  BY <2>1
    <3> HIDE DEF last
    <3>5. SaveWell(last)  BY <3>3 DEF SaveWell, Applying
    <3> QED  BY <3>1, <3>3, <3>4, <3>5 DEF Applying
  <2>2. CASE Len(save.left) # 1
    <3> DEFINE tail == Tail(save.left)
    <3>1. /\ tail \in Seq(AutoPhones) /\ tail # <<>>
          /\ {tail[i] : i \in DOMAIN tail} = Left(save) \ {q}
          /\ \A i, j \in DOMAIN tail : tail[i] = tail[j] => i = j
      BY <1>1, <2>2, OneIsDone DEF Left
    <3>2. more = [save EXCEPT !.left = tail, !.at = "cancel"]  OBVIOUS
    <3>3. next = more  BY <2>2
    <3> HIDE DEF tail, more
    <3>4. /\ more \in Save /\ SameFor(save, more) /\ more.at = "cancel" /\ more.left = tail
          /\ more.data = save.data /\ more.id <= hturns
      BY <1>1, <3>1, <3>2 DEF Save, SameFor, Applying
    <3>5. Left(more) = Left(save) \ {q} /\ Switched(more) = Switched(save)
      <4>1. Left(more) = {tail[i] : i \in DOMAIN tail}  BY <3>4 DEF Left
      <4>2. Switched(more) = Switched(save)  BY <3>4 DEF Switched, SameFor
      <4> QED  BY <3>1, <4>1, <4>2
    <3>6. SaveWell(more)  BY <1>1, <3>1, <3>4, <3>5 DEF SaveWell, Applying
    <3> QED  BY <3>3, <3>4, <3>5, <3>6 DEF Applying
  <2> QED  BY <2>1, <2>2
<1>3. /\ data \in Data /\ data.on = save.on /\ data.flows = save.data[q].flows
      /\ data.ids = IF save.on THEN {save.id} ELSE {}
  <2>1. save.data[q] \in Data  BY <1>1
  <2>2. save.id \in Ids /\ save.on \in BOOLEAN /\ save.fleet \in BOOLEAN  BY <1>1 DEF Save
  <2>3. (IF save.on THEN {save.id} ELSE {}) \in SUBSET Ids  BY <2>2
  <2> HIDE DEF q
  <2> QED  BY <2>1, <2>2, <2>3 DEF NextData, Data
<1> HIDE DEF next, q, data
<1>4. /\ SavesWell' /\ Switched(next) = Switched(save)
      /\ \A p : Meets(p)' => Meets(p)
      /\ \A s, t \in hsaves' : s.id = t.id => s = t
  BY <1>0, <1>2, SavesMove
<1>5. DataWell'
  <2>1. hdata' \in [AutoPhones -> Data] /\ hdata'[q] = data
        /\ \A p \in AutoPhones \ {q} : hdata'[p] = hdata[p]
    BY <1>0, <1>1, <1>3 DEF HInv, DataWell
  <2>2. \A p \in AutoPhones : /\ hdata'[p].on <=> hdata'[p].ids # {}
                              /\ \A i \in hdata'[p].ids : i <= hturns
    BY <1>1, <1>3, <2>1 DEF HInv, DataWell
  <2>3. \A p \in AutoPhones, s \in hsaves' : s.id \in hdata'[p].ids => p \in Switched(s)
    <3> SUFFICES ASSUME NEW p \in AutoPhones, NEW s \in hsaves', s.id \in hdata'[p].ids
                 PROVE  p \in Switched(s)
      OBVIOUS
    <3>1. CASE p = q
      <4>1. s.id = save.id /\ next \in hsaves' /\ next.id = save.id
        BY <1>0, <1>2, <1>3, <2>1, <3>1 DEF SameFor
      <4> QED  BY <1>1, <1>4, <3>1, <4>1
    <3>2. CASE p # q
      BY <1>0, <1>2, <1>4, <2>1, <3>2 DEF HInv, DataWell, SameFor
    <3> QED  BY <3>1, <3>2
  <2> QED  BY <1>0, <2>1, <2>2, <2>3 DEF HInv, DataWell, Switched
<1>6. AutoPageWell' /\ PageChosen'
  BY <1>0, <1>4, AutoPageStays DEF HInv, AutoPageWell, Certain
<1>7. hdata'[q] = data /\ \A p \in AutoPhones \ {q} : hdata'[p] = hdata[p]
  BY <1>0, <1>1 DEF HInv, DataWell
<1>8. Replaces(save, q) /\ Applies(save, q) /\ \A p : p # q => ~Applies(save, p)
  BY <1>0, <1>1 DEF Replaces, Applies, Applying, q
<1>9. HNoOrphans'
  <2> SUFFICES ASSUME NEW d \in hactive, ~hpast[d[1]].crossed, d \notin hstray
               PROVE  \/ d[2] \in hdata'[d[1]].ids
                      \/ \E s \in hsaves' : s.id = d[2] /\ s.at = "write" /\ Head(s.left) = d[1]
    BY <1>0 DEF HNoOrphans
  <2>0. d = <<d[1], d[2]>> /\ d[1] \in AutoPhones /\ d[2] \in Ids  BY DEF HInv, DataWell
  <2>1. CASE d[1] = q
    <3>1. OneRequest(q)  BY <2>0, <2>1 DEF HInv, Alone
    <3>2. d[2] = save.id /\ save.on  BY <1>8, <2>0, <2>1, <3>1 DEF OneRequest
    <3> QED  BY <1>3, <1>7, <2>1, <3>2
  <2>2. CASE d[1] # q
    BY <1>0, <1>7, <2>0, <2>2 DEF HInv, HNoOrphans, q
  <2> QED  BY <2>1, <2>2
<1>10. ASSUME NEW p \in AutoPhones, Alone(p)'
       PROVE  OneRequest(p)' /\ (~hpast[p].failed => Drained(p)')
  <2>1. Alone(p) /\ OneRequest(p) /\ (~hpast[p].failed => Drained(p))
    BY <1>0, <1>10 DEF HInv, Alone
  <2>2. \A s \in hsaves' : s # next => s \in hsaves /\ s # save  BY <1>0
  <2>3. ~Replaces(next, p) /\ ~(Applies(next, p) /\ next.at = "write")
    BY <1>2 DEF Replaces, Applies, Applying
  <2>4. p = q => \A t \in hsaves' : p \in Switched(t) => t = next
    BY <1>1, <2>1, <2>2 DEF OneRequest
  <2>5. \A t \in hsaves : /\ Applies(t, p) => p \in Switched(t)
                          /\ t.at \in Applying /\ p \in Left(t) => p \in Switched(t)
    BY TurnIs DEF Applies
  <2>6. \A s, t \in hsaves' : p \in Switched(s) /\ p \in Switched(t) => s = t
    BY <1>0, <1>4, <2>1 DEF OneRequest
  <2>7. \A s \in hsaves' : s.at \in Applying /\ p \in Left(s) => s.data[p] = hdata'[p]
    <3> SUFFICES ASSUME NEW s \in hsaves', s.at \in Applying, p \in Left(s)
                 PROVE  s.data[p] = hdata'[p]
      OBVIOUS
    <3>1. CASE s = next
      <4>1. p \in Left(save) \ {q} /\ s.data = save.data  BY <1>2, <3>1 DEF Applying
      <4> QED  BY <1>0, <1>7, <2>1, <4>1 DEF OneRequest, Applying
    <3>2. CASE s # next
      <4>1. s \in hsaves /\ p # q  BY <2>2, <2>4, <2>5, <3>2
      <4> QED  BY <1>7, <2>1, <4>1 DEF OneRequest
    <3> QED  BY <3>1, <3>2
  <2>8. \A s \in hsaves', i \in Ids :
          Replaces(s, p) /\ <<p, i>> \in hactive \ hstray => s.at = "write" /\ i = s.id /\ s.on
    BY <2>1, <2>2, <2>3 DEF OneRequest
  <2>9. hdata'[p].flows = hpast[p].flows
    <3>1. CASE p = q  BY <1>0, <1>1, <1>3, <1>7, <2>1, <3>1 DEF OneRequest, Applying
    <3>2. CASE p # q  BY <1>7, <2>1, <3>2 DEF OneRequest
    <3> QED  BY <3>1, <3>2
  <2>10. OneRequest(p)'
    BY <1>0, <2>6, <2>7, <2>8, <2>9 DEF OneRequest, Replaces, Applies, Switched, Left
  <2>11. ASSUME ~hpast[p].failed PROVE Drained(p)'
    <3>1. \A s \in hsaves' : Applies(s, p) /\ s.at = "write" /\ s.on => <<p, s.id>> \in hactive
      BY <2>1, <2>2, <2>3, <2>11 DEF Drained
    <3>2. hdata'[p].on /\ (\A s \in hsaves' : ~Replaces(s, p))
             => \E i \in hdata'[p].ids : <<p, i>> \in hactive
      <4>1. CASE p = q  BY <1>0, <1>3, <1>7, <1>8, <2>1, <2>11, <4>1 DEF Drained
      <4>2. CASE p # q
        BY <1>0, <1>7, <1>8, <2>1, <2>11, <4>2 DEF Drained, Replaces
      <4> QED  BY <4>1, <4>2
    <3> QED  BY <1>0, <3>1, <3>2 DEF Drained, Replaces, Applies
  <2> QED  BY <2>10, <2>11
<1>11. ASSUME NEW p \in AutoPhones, Certain(p)' PROVE AsChosen(p)'
  <2>1. AsChosen(p)  BY <1>0, <1>11 DEF HInv, Certain
  <2>2. \A s \in hsaves' : p \in Switched(s) => s.on = hchosen[p]
    BY <1>0, <1>2, <1>4, <2>1 DEF AsChosen, SameFor
  <2>3. (\A s \in hsaves' : ~Unwritten(s, p)) => hdata'[p].on = hchosen[p]
    <3>1. CASE p = q  BY <1>1, <1>3, <1>7, <2>1, <3>1 DEF AsChosen
    <3>2. CASE p # q
      <4>1. Unwritten(next, p) <=> Unwritten(save, p)
        BY <1>0, <1>2, <1>4, <3>2 DEF Unwritten, Applying
      <4> QED  BY <1>0, <1>7, <2>1, <3>2, <4>1 DEF AsChosen
    <3> QED  BY <3>1, <3>2
  <2> QED  BY <1>0, <2>2, <2>3 DEF AsChosen, Switched, Unwritten, Left
<1> QED  BY <1>0, <1>4, <1>5, <1>6, <1>9, <1>10, <1>11 DEF HInv, Alone

LEMMA HFailsKeeps ==
  ASSUME HInv, NEW save \in hsaves, HFails(save)
  PROVE  HInv'
<1> DEFINE next == [save EXCEPT !.at = "failed", !.data = <<>>]
           own == {<<p, save.id>> : p \in AutoPhones}
<1>0. /\ save.at \in {"sent", "create", "write"} /\ hsaves' = (hsaves \ {save}) \cup {next}
      /\ hpast' = [p \in AutoPhones |->
                    [hpast[p] EXCEPT !.failed = hpast[p].failed \/ p \in Switched(save)]]
      /\ UNCHANGED <<hdata, hpage, hreads, hchosen, hturns>>
  BY DEF HFails, Failed
<1>a. PICK kept \in SUBSET ((hactive \cap own) \cup Halfway(save)) :
        hactive' = (hactive \ own) \cup kept /\ hstray' = hstray \cup kept
  BY DEF HFails
<1>1. /\ SaveWell(save) /\ save \in Save /\ save.id \in Ids /\ save.id <= hturns
      /\ \A p : Applies(save, p) => p \in Switched(save)
  BY TurnIs DEF HInv, SavesWell, SaveWell, Save, Applies
<1>b. Halfway(save) \subseteq own
  BY TurnIs DEF Halfway, Applying
<1>c. kept \subseteq own /\ kept \subseteq hstray'  BY <1>a, <1>b
<1>2. SaveWell(next) /\ SameFor(save, next) /\ next.at = "failed"
  <2>1. <<>> \in DataRead  BY DEF DataRead
  <2>2. next \in Save /\ SameFor(save, next) /\ next.at = "failed" /\ next.id <= hturns
    BY <1>1, <2>1 DEF Save, SameFor, SaveWell
  <2> QED  BY <2>2 DEF SaveWell, Applying
<1> HIDE DEF next
<1>3. /\ SavesWell' /\ Switched(next) = Switched(save)
      /\ \A p : Meets(p)' => Meets(p)
  BY <1>0, <1>2, SavesMove
<1>4. DataWell'
  <2>1. \A d \in own : d \in AutoPhones \X Ids /\ d[2] <= hturns  BY <1>1
  <2> HIDE DEF own
  <2>2. /\ hactive' \subseteq AutoPhones \X Ids /\ \A d \in hactive' : d[2] <= hturns
        /\ hstray' \subseteq AutoPhones \X Ids
    BY <1>a, <1>c, <2>1 DEF HInv, DataWell
  <2> QED  BY <1>0, <1>2, <1>3, <2>2 DEF HInv, DataWell, SameFor, Switched
<1>5. /\ hpast' \in [AutoPhones -> [crossed : BOOLEAN, failed : BOOLEAN, early : BOOLEAN,
                                    flows : 0..MaxTurns]]
      /\ \A p \in AutoPhones : /\ hpast'[p].crossed = hpast[p].crossed
                               /\ hpast'[p].early = hpast[p].early
                               /\ hpast'[p].flows = hpast[p].flows
                               /\ hpast'[p].failed = (hpast[p].failed \/ p \in Switched(save))
  BY <1>0 DEF HInv, AutoPageWell
<1>6. AutoPageWell' /\ PageChosen'
  BY <1>0, <1>3, <1>5, AutoPageStays DEF Certain
<1>7. HNoOrphans'
  <2> SUFFICES ASSUME NEW d \in hactive' \ hstray', ~hpast[d[1]].crossed
               PROVE  \/ d[2] \in hdata[d[1]].ids
                      \/ \E s \in hsaves' : s.id = d[2] /\ s.at = "write" /\ Head(s.left) = d[1]
    BY <1>0, <1>4, <1>5 DEF HNoOrphans, DataWell
  <2>1. d \in hactive \ own  BY <1>a, <1>c
  <2>2. d = <<d[1], d[2]>> /\ d[1] \in AutoPhones /\ d[2] # save.id /\ d \notin hstray
    BY <1>a, <2>1 DEF HInv, DataWell
  <2> QED  BY <1>0, <2>1, <2>2 DEF HInv, HNoOrphans
<1>8. ASSUME NEW p \in AutoPhones, Alone(p)'
      PROVE  OneRequest(p)' /\ (~hpast'[p].failed => Drained(p)')
  <2>1. Alone(p) /\ OneRequest(p) /\ (~hpast[p].failed => Drained(p))
    BY <1>5, <1>8 DEF HInv, Alone
  <2>2. \A s \in hsaves' : s # next => s \in hsaves /\ s # save  BY <1>0
  <2>3. ~Replaces(next, p) /\ ~Applies(next, p) /\ next.at \notin Applying
    BY <1>2 DEF Replaces, Applies, Applying
  <2>4. \A s, t \in hsaves' : p \in Switched(s) /\ p \in Switched(t) => s = t
    BY <1>0, <1>3, <2>1 DEF OneRequest
  <2>5. \A s \in hsaves' : s.at \in Applying /\ p \in Left(s) => s.data[p] = hdata[p]
    BY <2>1, <2>2, <2>3 DEF OneRequest
  <2>6. \A s \in hsaves', i \in Ids :
          Replaces(s, p) /\ <<p, i>> \in hactive' \ hstray' => s.at = "write" /\ i = s.id /\ s.on
    BY <1>a, <1>c, <2>1, <2>2, <2>3 DEF OneRequest
  <2>7. OneRequest(p)'
    BY <1>0, <1>5, <2>1, <2>4, <2>5, <2>6 DEF OneRequest, Replaces, Applies, Switched, Left
  <2>8. ASSUME ~hpast'[p].failed PROVE Drained(p)'
    <3>1. p \notin Switched(save) /\ Drained(p) /\ ~Applies(save, p)
      BY <1>1, <1>5, <2>1, <2>8
    <3>2. \A s \in hsaves' : Applies(s, p) /\ s.at = "write" /\ s.on => <<p, s.id>> \in hactive'
      <4> SUFFICES ASSUME NEW s \in hsaves', Applies(s, p), s.at = "write", s.on
                   PROVE  <<p, s.id>> \in hactive'
        OBVIOUS
      <4>1. s \in hsaves /\ s # save  BY <2>2, <2>3
      <4>2. s.id # save.id  BY <4>1 DEF HInv, SavesWell
      <4>3. <<p, s.id>> \in hactive  BY <3>1, <4>1 DEF Drained
      <4> QED  BY <1>a, <4>2, <4>3
    <3>3. ASSUME hdata[p].on, \A s \in hsaves' : ~Replaces(s, p)
          PROVE  \E i \in hdata[p].ids : <<p, i>> \in hactive'
      <4>1. \A s \in hsaves : ~Replaces(s, p)  BY <1>0, <3>1, <3>3 DEF Replaces
      <4>2. PICK i \in hdata[p].ids : <<p, i>> \in hactive  BY <3>1, <3>3, <4>1 DEF Drained
      <4>3. i # save.id  BY <3>1 DEF HInv, DataWell
      <4> QED  BY <1>a, <4>2, <4>3
    <3> QED  BY <1>0, <3>2, <3>3 DEF Drained, Replaces, Applies
  <2> QED  BY <2>7, <2>8
<1>9. ASSUME NEW p \in AutoPhones, Certain(p)' PROVE AsChosen(p)'
  <2>1. AsChosen(p) /\ p \notin Switched(save)  BY <1>5, <1>9 DEF HInv, Certain
  <2>2. ~Unwritten(next, p) /\ ~Unwritten(save, p)  BY <1>3, <2>1 DEF Unwritten
  <2> QED  BY <1>0, <1>3, <2>1, <2>2 DEF AsChosen, Switched, Unwritten, Left
<1> QED  BY <1>0, <1>3, <1>4, <1>6, <1>7, <1>8, <1>9 DEF HInv, Alone

LEMMA HSavedKeeps ==
  ASSUME HInv, NEW save \in hsaves, HSaved(save)
  PROVE  HInv'
<1>0. /\ save.at \in {"done", "failed"} /\ hsaves' = hsaves \ {save}
      /\ UNCHANGED <<hdata, hactive, hchosen, hpast, hstray, hturns, hflaws>>
  BY DEF HSaved
<1>1. SavesWell'
  <2>1. \A s \in hsaves' : SaveWell(s)'
    <3>1. \A s \in hsaves' : SaveWell(s)  BY <1>0 DEF HInv, SavesWell
    <3> QED  BY <1>0, <3>1 DEF SaveWell, Left, Switched
  <2> QED  BY <1>0, <2>1 DEF HInv, SavesWell
<1>2. AutoPageWell' /\ PageChosen'
  <2>1. CASE save.at = "done" \/ ~save.toggle
    <3>1. Reloads(hpage, hsaves')  BY <2>1 DEF HSaved
    <3> QED  BY <1>0, <3>1, ReloadsWell DEF HInv, AutoPageWell
  <2>2. CASE ~(save.at = "done" \/ ~save.toggle)
    <3>1. hreads' = hreads /\ hpage' = [hpage EXCEPT !.on = ~save.on, !.mixed = TRUE]
      BY <2>2 DEF HSaved
    <3>2. hpage' \in AutoPage /\ hpage'.mixed
      BY <3>1 DEF HInv, AutoPageWell, AutoPage
    <3> QED  BY <1>0, <3>1, <3>2 DEF HInv, AutoPageWell, ReadWell, Seen, PageChosen
  <2> QED  BY <2>1, <2>2
<1>3. DataWell'  BY <1>0, HInv DEF HInv, DataWell, Switched
<1>4. \A p : ~Applies(save, p) /\ ~Replaces(save, p) /\ ~Unwritten(save, p)
  BY <1>0 DEF Applies, Replaces, Unwritten, Applying
<1>5. HNoOrphans'  BY <1>0 DEF HInv, HNoOrphans
<1>6. ASSUME NEW p \in AutoPhones
      PROVE  /\ Alone(p)' => OneRequest(p)'
             /\ (Alone(p) /\ ~hpast[p].failed)' => Drained(p)'
             /\ Certain(p)' => AsChosen(p)'
  <2>1. ASSUME Alone(p)' PROVE OneRequest(p)'
    BY <1>0, <2>1 DEF HInv, Alone, OneRequest, Switched, Replaces, Applies, Left
  <2>2. ASSUME (Alone(p) /\ ~hpast[p].failed)' PROVE Drained(p)'
    BY <1>0, <1>4, <2>2 DEF HInv, Alone, Drained, Replaces, Applies
  <2>3. ASSUME Certain(p)' PROVE AsChosen(p)'
    BY <1>0, <1>4, <2>3 DEF HInv, Certain, AsChosen, Unwritten, Switched, Left
  <2> QED  BY <2>1, <2>2, <2>3
<1> QED  BY <1>1, <1>2, <1>3, <1>5, <1>6 DEF HInv

\* The answer to a save or a refresh is lost.
LEMMA HLostKeeps == ASSUME HInv, HLost PROVE HInv'
<1>0. UNCHANGED <<hdata, hactive, hpage, hchosen, hpast, hstray, hturns>>  BY DEF HLost
<1>1. CASE hsaves' = hsaves /\ \E read \in hreads : hreads' = hreads \ {read}
  <2>1. AutoPageWell' /\ PageChosen'
    BY <1>0, <1>1, AutoPageStays DEF HInv, AutoPageWell, Certain, Meets, Switched
  <2>2. hturns \in Nat /\ hturns \in 0..MaxTurns  BY DEF HInv, SavesWell
  <2> QED  BY <1>0, <1>1, <2>1, <2>2, PhonesStay
<1>2. ASSUME NEW save \in hsaves, save.at = "done", hreads' = hreads,
             hsaves' = (hsaves \ {save}) \cup {[save EXCEPT !.at = "failed"]}
      PROVE  HInv'
  <2> DEFINE next == [save EXCEPT !.at = "failed"]
  <2>1. SaveWell(save) /\ save \in Save /\ save.at \notin Applying
    BY <1>2 DEF HInv, SavesWell, SaveWell, Applying
  <2>2. SaveWell(next) /\ SameFor(save, next) /\ next.at = "failed"
    BY <2>1 DEF SaveWell, Save, SameFor, Applying
  <2>3. hsaves' = (hsaves \ {save}) \cup {next}  BY <1>2
  <2> HIDE DEF next
  <2>4. /\ SavesWell' /\ Switched(next) = Switched(save)
        /\ \A p : Meets(p)' => Meets(p)
    BY <1>0, <2>2, <2>3, SavesMove
  <2>5. DataWell'  BY <1>0, <2>2, <2>3, <2>4 DEF HInv, DataWell, SameFor, Switched
  <2>6. AutoPageWell' /\ PageChosen'
    BY <1>0, <1>2, <2>4, AutoPageStays DEF HInv, AutoPageWell, Certain
  <2>7. HNoOrphans'  BY <1>0, <1>2, <2>3 DEF HInv, HNoOrphans
  <2>8. \A s \in hsaves' : s # next => s \in hsaves /\ s # save  BY <2>3
  <2>9. /\ next.at \notin Applying
        /\ \A p : /\ ~Applies(next, p) /\ ~Replaces(next, p) /\ ~Unwritten(next, p)
                 /\ ~Applies(save, p) /\ ~Replaces(save, p) /\ ~Unwritten(save, p)
    BY <1>2, <2>1, <2>2 DEF Applies, Replaces, Unwritten, Applying
  <2>10. ASSUME NEW p \in AutoPhones, Alone(p)'
         PROVE  OneRequest(p)' /\ (~hpast[p].failed => Drained(p)')
    <3>1. Alone(p) /\ OneRequest(p) /\ (~hpast[p].failed => Drained(p))
      BY <1>0, <2>10 DEF HInv, Alone
    <3>2. \A s, t \in hsaves' : p \in Switched(s) /\ p \in Switched(t) => s = t
      BY <2>3, <2>4, <3>1 DEF OneRequest
    <3>3. OneRequest(p)'
      BY <1>0, <2>8, <2>9, <3>1, <3>2 DEF OneRequest, Replaces, Applies, Switched, Left
    <3>4. ASSUME ~hpast[p].failed PROVE Drained(p)'
      <4>1. Drained(p)  BY <3>1, <3>4
      <4>2. \A s \in hsaves' : Applies(s, p) /\ s.at = "write" /\ s.on => <<p, s.id>> \in hactive
        BY <2>8, <2>9, <4>1 DEF Drained
      <4>3. hdata[p].on /\ (\A s \in hsaves' : ~Replaces(s, p))
              => \E i \in hdata[p].ids : <<p, i>> \in hactive
        BY <2>3, <2>9, <4>1 DEF Drained
      <4> QED  BY <1>0, <4>2, <4>3 DEF Drained, Replaces, Applies
    <3> QED  BY <3>3, <3>4
  <2>11. ASSUME NEW p \in AutoPhones, Certain(p)' PROVE AsChosen(p)'
    <3>1. AsChosen(p)  BY <1>0, <2>11 DEF HInv, Certain
    <3> QED  BY <1>0, <2>2, <2>3, <2>4, <2>9, <3>1 DEF AsChosen, SameFor, Switched, Unwritten, Left
  <2> QED  BY <1>0, <2>4, <2>5, <2>6, <2>7, <2>10, <2>11 DEF HInv, Alone
<1> QED  BY <1>1, <1>2 DEF HLost

\* The API crashes: what was under way has failed, and has left what it made.
LEMMA HCrashKeeps == ASSUME HInv, HCrash PROVE HInv'
<1> DEFINE lost == {s \in hsaves : s.at \notin {"done", "failed"}}
           halves == UNION {Halfway(s) : s \in lost}
           end(s) == [s EXCEPT !.at = "failed", !.data = <<>>]
<1>0. /\ hsaves' = (hsaves \ lost) \cup {end(s) : s \in lost} /\ hpast' = Failed(lost)
      /\ hstray' = hstray \cup halves /\ UNCHANGED <<hdata, hpage, hchosen, hturns>>
  BY Zenon DEF HCrash
<1>a. hreads' = {r \in hreads : r.read}  BY Zenon DEF HCrash
<1>1. PICK kept \in SUBSET halves : hactive' = hactive \cup kept
  BY Zenon DEF HCrash
<1>2. ASSUME NEW s \in lost
      PROVE  SaveWell(end(s)) /\ SameFor(s, end(s)) /\ end(s).at = "failed"
  <2>1. SaveWell(s) /\ s \in Save  BY DEF HInv, SavesWell, SaveWell
  <2>2. <<>> \in DataRead  BY DEF DataRead
  <2>3. /\ end(s) \in Save /\ SameFor(s, end(s)) /\ end(s).at = "failed"
        /\ end(s).id <= hturns
    BY <2>1, <2>2 DEF Save, SameFor, SaveWell
  <2> QED  BY <2>3 DEF SaveWell, Applying
<1>3. \A s \in hsaves : s \in lost <=> s.at \in {"sent"} \cup Applying
  BY DEF HInv, SavesWell, SaveWell, Save, Applying
<1>4. \A d \in halves :
        /\ d \in AutoPhones \X Ids /\ d[2] <= hturns
        /\ \E s \in lost : d = <<Head(s.left), s.id>>
  <2> SUFFICES ASSUME NEW s \in lost, NEW d \in Halfway(s)
               PROVE  /\ d \in AutoPhones \X Ids /\ d[2] <= hturns
                      /\ d = <<Head(s.left), s.id>>
    OBVIOUS
  <2>1. d = <<Head(s.left), s.id>> /\ s.at \in Applying  BY DEF Halfway, Applying
  <2>2. Head(s.left) \in AutoPhones /\ s.id \in Ids /\ s.id <= hturns
    BY <2>1, TurnIs DEF HInv, SavesWell, SaveWell, Save
  <2> QED  BY <2>1, <2>2
<1> HIDE DEF end, halves
<1>5. \A t \in hsaves' : \/ t \in hsaves /\ t \notin lost
                        \/ \E s \in lost : t = end(s)
  BY <1>0
<1>6. \A t \in hsaves' : t.at \in {"done", "failed"} /\ t.at \notin Applying
                        /\ \E s \in hsaves : SameFor(s, t) /\ (t \in hsaves => t = s)
                                          /\ (t.at = "done" => t = s)
                                          /\ (s \in lost => t = end(s)) /\ (s \notin lost => t = s)
  <2> SUFFICES ASSUME NEW t \in hsaves'
               PROVE  t.at \in {"done", "failed"}
                        /\ \E s \in hsaves : SameFor(s, t) /\ (t \in hsaves => t = s)
                                          /\ (t.at = "done" => t = s)
                                          /\ (s \in lost => t = end(s)) /\ (s \notin lost => t = s)
    BY DEF Applying
  <2>1. CASE t \in hsaves /\ t \notin lost  BY <2>1 DEF SameFor
  <2>2. ASSUME NEW s \in lost, t = end(s)
        PROVE  /\ t.at \in {"done", "failed"}
               /\ SameFor(s, t) /\ (t \in hsaves => t = s) /\ (t.at = "done" => t = s)
    <3>1. SameFor(s, t) /\ t.at = "failed"  BY <1>2, <2>2
    <3>2. t \in hsaves => t = s  BY <3>1 DEF HInv, SavesWell, SameFor
    <3> QED  BY <3>1, <3>2
  <2> QED  BY <1>5, <2>1, <2>2
<1> HIDE DEF lost
<1>7. SavesWell'
  <2>1. \A t \in hsaves' : SaveWell(t)'
    <3>1. \A t \in hsaves' : SaveWell(t)  BY <1>2, <1>5 DEF HInv, SavesWell
    <3> QED  BY <1>0, <3>1 DEF SaveWell, Left, Switched
  <2>2. \A s, t \in hsaves' : s.id = t.id => s = t
    BY <1>6 DEF HInv, SavesWell, SameFor
  <2> QED  BY <1>0, <2>1, <2>2 DEF HInv, SavesWell
<1>8. \A t \in hsaves' : \E s \in hsaves :
        SameFor(s, t) /\ Switched(t) = Switched(s) /\ (t.at = "done" => t = s)
        /\ (s \in lost => t = end(s)) /\ (s \notin lost => t = s)
  BY <1>6 DEF SameFor, Switched
<1>9. DataWell'
  <2>1. \A p \in AutoPhones, t \in hsaves' : t.id \in hdata[p].ids => p \in Switched(t)
    BY <1>8 DEF HInv, DataWell, SameFor
  <2> QED  BY <1>0, <1>1, <1>4, <2>1 DEF HInv, DataWell, Switched
<1>10. /\ hpast' \in [AutoPhones -> [crossed : BOOLEAN, failed : BOOLEAN, early : BOOLEAN,
                                     flows : 0..MaxTurns]]
       /\ \A p \in AutoPhones :
            /\ hpast'[p].crossed = hpast[p].crossed /\ hpast'[p].early = hpast[p].early
            /\ hpast'[p].flows = hpast[p].flows
            /\ hpast'[p].failed = (hpast[p].failed \/ \E s \in lost : p \in Switched(s))
  <2> DEFINE hit(p) == \E s \in lost : p \in Switched(s)
  <2>1. hpast' = [p \in AutoPhones |-> [hpast[p] EXCEPT !.failed = hpast[p].failed \/ hit(p)]]
    BY <1>0 DEF Failed
  <2>2. \A p : hit(p) \in BOOLEAN  OBVIOUS
  <2>3. \A p \in AutoPhones : hit(p) <=> \E s \in lost : p \in Switched(s)  OBVIOUS
  <2>4. \A p \in AutoPhones : hpast[p] \in [crossed : BOOLEAN, failed : BOOLEAN, early : BOOLEAN,
                                           flows : 0..MaxTurns]
    BY DEF HInv, AutoPageWell
  <2> HIDE DEF hit
  <2> QED  BY <2>1, <2>2, <2>3, <2>4
<1>11. AutoPageWell' /\ PageChosen'
  <2>1. \A p \in AutoPhones : Certain(p)' => Certain(p)  BY <1>10 DEF Certain
  <2>2. \A p \in AutoPhones : Meets(p)' => Meets(p)
    <3>1. \A t : Switched(t)' = Switched(t)  BY DEF Switched
    <3> QED  BY <1>8, <3>1 DEF Meets
  <2> HIDE DEF Certain, Meets
  <2> QED  BY <1>0, <1>a, <1>10, <2>1, <2>2, AutoPageStays
<1>12. HNoOrphans'
  <2> SUFFICES ASSUME NEW d \in hactive', ~hpast[d[1]].crossed, d \notin hstray'
               PROVE  \/ d[2] \in hdata[d[1]].ids
                      \/ \E s \in hsaves' : s.id = d[2] /\ s.at = "write" /\ Head(s.left) = d[1]
    BY <1>0, <1>9, <1>10 DEF HNoOrphans, DataWell
  <2>1. d \in hactive /\ d \notin hstray /\ d \notin halves  BY <1>0, <1>1
  <2>2. d = <<d[1], d[2]>> /\ d[1] \in AutoPhones /\ d[2] \in Ids
    BY <2>1 DEF HInv, DataWell
  <2>3. ASSUME NEW s \in hsaves, s.id = d[2], s.at = "write", Head(s.left) = d[1]
        PROVE  FALSE
    <3>1. s \in lost  BY <1>3, <2>3 DEF Applying
    <3>2. Replaces(s, d[1])  BY <2>3, TurnIs DEF Replaces, Applying
    <3>3. OneRequest(d[1])  BY <2>2 DEF HInv, Alone
    <3>4. s.on  BY <2>1, <2>2, <3>2, <3>3 DEF OneRequest
    <3>5. d \in Halfway(s)  BY <2>2, <2>3, <3>4 DEF Halfway
    <3> QED  BY <2>1, <3>1, <3>5 DEF halves
  <2> QED  BY <2>1, <2>3 DEF HInv, HNoOrphans
<1>13. \A p : \A t \in hsaves' : ~Applies(t, p) /\ ~Replaces(t, p) /\ ~Unwritten(t, p)
  BY <1>6 DEF Applies, Replaces, Unwritten
<1>14. ASSUME NEW p \in AutoPhones, Alone(p)'
       PROVE  OneRequest(p)' /\ (~hpast'[p].failed => Drained(p)')
  <2>1. Alone(p) /\ OneRequest(p) /\ (~hpast[p].failed => Drained(p))
    BY <1>10, <1>14 DEF HInv, Alone
  <2>2. \A s, t \in hsaves' : p \in Switched(s) /\ p \in Switched(t) => s = t
    BY <1>8, <2>1 DEF OneRequest
  <2>3. OneRequest(p)'
    BY <1>0, <1>6, <1>10, <1>13, <2>1, <2>2 DEF OneRequest, Replaces, Applies, Switched, Left
  <2>4. ASSUME ~hpast'[p].failed PROVE Drained(p)'
    <3>1. Drained(p) /\ \A s \in lost : p \notin Switched(s)  BY <1>10, <2>1, <2>4
    <3>2. \A s \in hsaves : ~Replaces(s, p)
      BY <1>3, <3>1, TurnIs DEF Replaces, Applies
    <3>3. hdata[p].on => \E i \in hdata[p].ids : <<p, i>> \in hactive'
      BY <1>1, <3>1, <3>2 DEF Drained
    <3> QED  BY <1>0, <1>13, <3>3 DEF Drained, Replaces, Applies
  <2> QED  BY <2>3, <2>4
<1>15. ASSUME NEW p \in AutoPhones, Certain(p)' PROVE AsChosen(p)'
  <2>1. AsChosen(p) /\ \A s \in lost : p \notin Switched(s)
    BY <1>10, <1>15 DEF HInv, Certain
  <2>2. \A s \in hsaves : ~Unwritten(s, p)  BY <1>3, <2>1 DEF Unwritten
  <2>3. \A t \in hsaves' : p \in Switched(t) => t.on = hchosen[p]
    BY <1>8, <2>1 DEF AsChosen, SameFor
  <2> QED  BY <1>0, <2>1, <2>2, <2>3 DEF AsChosen, Switched, Unwritten, Left
<1> QED  BY <1>7, <1>9, <1>11, <1>12, <1>14, <1>15 DEF HInv, Alone

-----------------------------------------------------------------------------
(* The page and its operator.                                               *)

LEMMA Turned ==
  ASSUME HInv, Turns
  PROVE  hturns \in Nat /\ hturns' = hturns + 1 /\ hturns' \in 1..MaxTurns /\ hflaws' = hflaws
BY DEF HInv, SavesWell, Turns

LEMMA HRefreshKeeps == ASSUME HInv, HRefresh PROVE HInv'
<1>0. /\ Turns /\ Reloads(hpage, hsaves')
      /\ UNCHANGED <<hdata, hactive, hsaves, hchosen, hpast, hstray>>
  BY DEF HRefresh
<1>1. AutoPageWell' /\ PageChosen'  BY <1>0, ReloadsWell DEF HInv, AutoPageWell
<1> QED  BY <1>0, <1>1, Turned, PhonesStay

LEMMA HChooseKeeps == ASSUME HInv, HChoose PROVE HInv'
<1>0. Turns /\ UNCHANGED <<hdata, hactive, hsaves, hchosen, hpast, hstray>>
  BY DEF HChoose
<1>1. PICK page \in {[hpage EXCEPT !.fleet = ~hpage.fleet]} \cup
                    {[hpage EXCEPT !.phone = p] : p \in AutoPhones \ {hpage.phone}} :
        Reloads(page, hsaves)
  BY DEF HChoose
<1>2. page \in AutoPage /\ Reloads(page, hsaves')
  BY <1>0, <1>1 DEF HInv, AutoPageWell, AutoPage
<1>3. AutoPageWell' /\ PageChosen'  BY <1>0, <1>2, ReloadsWell
<1> QED  BY <1>0, <1>3, Turned, PhonesStay

LEMMA HReadKeeps ==
  ASSUME HInv, NEW read \in hreads, HRead(read)
  PROVE  HInv'
<1> DEFINE new == [read EXCEPT !.read = TRUE, !.data = State(read)]
<1>0. /\ ~read.read /\ hreads' = (hreads \ {read}) \cup {new}
      /\ UNCHANGED <<hdata, hactive, hpage, hsaves, hchosen, hpast, hstray, hturns, hflaws>>
  BY DEF HRead
<1>1. ReadWell(read) /\ Seen(read) \subseteq AutoPhones
  BY DEF HInv, AutoPageWell, ReadWell, Seen
<1>2. /\ State(read) \in [Seen(read) -> [on : BOOLEAN, fleet : BOOLEAN]]
      /\ \A p \in Seen(read) : State(read)[p].on = hdata[p].on
  BY <1>1 DEF HInv, DataWell, Data, State
<1>3. State(read) \in StateRead  BY <1>1, <1>2, Zenon DEF StateRead
<1>4. new.of = read.of /\ new.read = TRUE /\ new.data = State(read)
      /\ new \in [of : AutoPhones \cup {"fleet"}, read : BOOLEAN, data : StateRead]
  BY <1>1, <1>3 DEF ReadWell
<1> HIDE DEF new
<1>5. Seen(new) = Seen(read)  BY <1>4 DEF Seen
<1>6. ReadWell(new)  BY <1>2, <1>4, <1>5 DEF ReadWell
<1>7. AutoPageWell'
  <2>1. \A r \in hreads' : ReadWell(r)  BY <1>0, <1>6 DEF HInv, AutoPageWell
  <2> QED  BY <1>0, <2>1 DEF HInv, AutoPageWell, ReadWell, Seen
<1>8. PageChosen'
  <2> SUFFICES ASSUME ~hpage.mixed PROVE PageChosen'  BY <1>0 DEF PageChosen
  <2>1. /\ \A r, q \in hreads : r = q
        /\ ~hpage.shown
        /\ \A p \in AutoPhones : Certain(p) => ~Meets(p)
    BY DEF HInv, PageChosen
  <2>2. hreads' = {new}  BY <1>0, <2>1
  <2>3. ASSUME NEW p \in Seen(new), Certain(p) PROVE new.data[p].on = hchosen[p]
    <3>1. p \in AutoPhones /\ ~Meets(p) /\ AsChosen(p)
      BY <1>1, <1>5, <2>1, <2>3 DEF HInv
    <3>2. hdata[p].on = hchosen[p]  BY <3>1 DEF AsChosen, Unwritten, Meets
    <3> QED  BY <1>2, <1>4, <1>5, <3>2
  <2>4. \A r : Seen(r)' = Seen(r)  BY DEF Seen
  <2>5. \A p \in AutoPhones : (Certain(p)' <=> Certain(p)) /\ (Meets(p)' <=> Meets(p))
    BY <1>0 DEF Certain, Meets, Switched
  <2>6. \A r \in hreads' : \A p \in Seen(r) :
          r.read /\ Certain(p) => r.data[p].on = hchosen[p]
    BY <2>2, <2>3
  <2> HIDE DEF Certain, Meets, Seen
  <2>7. \A r \in hreads' : Seen(r) \subseteq AutoPhones
    BY <1>1, <1>5, <2>2
  <2> QED  BY <1>0, <2>1, <2>2, <2>4, <2>5, <2>6, <2>7 DEF PageChosen
<1>9. hturns \in Nat /\ hturns \in 0..MaxTurns  BY DEF HInv, SavesWell
<1> QED  BY <1>0, <1>7, <1>8, <1>9, PhonesStay

LEMMA HShownKeeps ==
  ASSUME HInv, NEW read \in hreads, HShown(read)
  PROVE  HInv'
<1>0. /\ read.read /\ hreads' = hreads \ {read} /\ hpage' = Shows(read)
      /\ UNCHANGED <<hdata, hactive, hsaves, hchosen, hpast, hstray, hturns, hflaws>>
  BY DEF HShown
<1>1. ReadWell(read) /\ Seen(read) \subseteq AutoPhones /\ hpage \in AutoPage
      /\ read.of \in AutoPhones \cup {"fleet"}
      /\ read.data \in [Seen(read) -> [on : BOOLEAN, fleet : BOOLEAN]]
  BY <1>0 DEF HInv, AutoPageWell, ReadWell, Seen
<1>2. /\ hpage' \in AutoPage /\ hpage'.phone = hpage.phone /\ hpage'.mixed = hpage.mixed
      /\ hpage'.shown = (read.of = hpage.phone /\ ~hpage.fleet)
      /\ hpage'.on = \A p \in Seen(read) : read.data[p].on
  <2>1. (read.of = "fleet" \/ read.data[read.of].fleet) \in BOOLEAN
    BY <1>1 DEF Seen
  <2> QED  BY <1>0, <1>1, <2>1 DEF Shows, AutoPage
<1>3. AutoPageWell'
  BY <1>0, <1>2 DEF HInv, AutoPageWell, ReadWell, Seen
<1>4. PageChosen'
  <2> SUFFICES ASSUME ~hpage.mixed PROVE PageChosen'  BY <1>2 DEF PageChosen
  <2>1. hreads' = {}  BY <1>0 DEF HInv, PageChosen
  <2>2. ASSUME hpage'.shown, Certain(hpage.phone) PROVE hpage'.on = hchosen[hpage.phone]
    <3>1. hpage.phone \in AutoPhones  BY <1>1 DEF AutoPage
    <3>2. Seen(read) = {hpage.phone}  BY <1>2, <2>2, <3>1 DEF Seen
    <3>3. read.data[hpage.phone].on = hchosen[hpage.phone]
      BY <1>0, <2>2, <3>2 DEF HInv, PageChosen
    <3>4. hpage'.on = read.data[hpage.phone].on
      BY <1>1, <1>2, <3>2
    <3> QED  BY <3>3, <3>4
  <2> QED  BY <1>0, <1>2, <2>1, <2>2 DEF PageChosen, Certain
<1>5. hturns \in Nat /\ hturns \in 0..MaxTurns  BY DEF HInv, SavesWell
<1> QED  BY <1>0, <1>3, <1>4, <1>5, PhonesStay

LEMMA HWorkflowKeeps ==
  ASSUME HInv, NEW w \in AutoPhones, HWorkflow(w)
  PROVE  HInv'
<1>0. /\ Turns /\ hdata' = [hdata EXCEPT ![w].flows = hturns']
      /\ hpast' = [hpast EXCEPT ![w].flows = hturns',
                                ![w].crossed = hpast[w].crossed \/ Meets(w)]
      /\ UNCHANGED <<hactive, hpage, hreads, hsaves, hchosen, hstray>>
  BY DEF HWorkflow, HInv, AutoPageWell
<1>1. hturns \in Nat /\ hturns' = hturns + 1 /\ hturns' \in 1..MaxTurns
  BY <1>0, Turned
<1>2. /\ hdata' \in [AutoPhones -> Data]
      /\ \A p \in AutoPhones :
           /\ hdata'[p].on = hdata[p].on /\ hdata'[p].ids = hdata[p].ids
           /\ hdata'[p].flows = IF p = w THEN hturns' ELSE hdata[p].flows
           /\ p # w => hdata'[p] = hdata[p]
  BY <1>0, <1>1 DEF HInv, DataWell, Data
<1>3. /\ hpast' \in [AutoPhones -> [crossed : BOOLEAN, failed : BOOLEAN, early : BOOLEAN,
                                    flows : 0..MaxTurns]]
      /\ \A p \in AutoPhones :
           /\ hpast'[p].failed = hpast[p].failed /\ hpast'[p].early = hpast[p].early
           /\ hpast'[p].flows = IF p = w THEN hturns' ELSE hpast[p].flows
           /\ hpast'[p].crossed = (hpast[p].crossed \/ (p = w /\ Meets(w)))
  <2> DEFINE Past == [crossed : BOOLEAN, failed : BOOLEAN, early : BOOLEAN, flows : 0..MaxTurns]
             new == [hpast[w] EXCEPT !.flows = hturns', !.crossed = hpast[w].crossed \/ Meets(w)]
  <2>1. hpast \in [AutoPhones -> Past] /\ hturns' \in 0..MaxTurns
    BY <1>1 DEF HInv, AutoPageWell
  <2>2. hpast' = [hpast EXCEPT ![w] = new]  BY <1>0, <2>1
  <2>3. Meets(w) \in BOOLEAN  BY DEF Meets
  <2>4. /\ new \in Past /\ new.failed = hpast[w].failed /\ new.early = hpast[w].early
        /\ new.flows = hturns' /\ new.crossed = (hpast[w].crossed \/ Meets(w))
    BY <2>1, <2>3
  <2> HIDE DEF new
  <2>5. hpast' \in [AutoPhones -> Past] /\ hpast'[w] = new  BY <2>1, <2>2, <2>4
  <2>6. ASSUME NEW p \in AutoPhones, p # w PROVE hpast'[p] = hpast[p]  BY <2>1, <2>2, <2>6
  <2>7. ASSUME NEW p \in AutoPhones
        PROVE  /\ hpast'[p].failed = hpast[p].failed /\ hpast'[p].early = hpast[p].early
               /\ hpast'[p].flows = IF p = w THEN hturns' ELSE hpast[p].flows
               /\ hpast'[p].crossed = (hpast[p].crossed \/ (p = w /\ Meets(w)))
    <3>1. CASE p = w  BY <2>4, <2>5, <3>1
    <3>2. hpast[p].crossed \in BOOLEAN  BY <2>1
    <3>3. CASE p # w  BY <2>6, <3>2, <3>3
    <3> QED  BY <3>1, <3>3
  <2> QED  BY <2>5, <2>7
<1>4. SavesWell'
  <2>1. \A s \in hsaves : SaveWell(s)'
    <3> TAKE s \in hsaves
    <3>1. SaveWell(s) /\ s.id \in Nat /\ s.id <= hturns
      BY DEF HInv, SavesWell, SaveWell, Save, Ids
    <3>2. s.id <= hturns'  BY <1>1, <3>1
    <3> QED  BY <3>1, <3>2 DEF SaveWell, Left, Switched
  <2> QED  BY <1>0, <1>1, <2>1 DEF HInv, SavesWell
<1>5. DataWell'
  BY <1>0, <1>1, <1>2 DEF HInv, DataWell, Data, Ids, Switched
<1>6. AutoPageWell' /\ PageChosen'
  BY <1>0, <1>3, AutoPageStays DEF Certain, Meets, Switched
<1>7. HNoOrphans'
  BY <1>0, <1>2, <1>3 DEF HInv, DataWell, HNoOrphans
<1>8. ASSUME NEW p \in AutoPhones, Alone(p)' PROVE OneRequest(p)' /\ Alone(p)
  <2>1. OneRequest(p) /\ Alone(p)  BY <1>3, <1>8 DEF HInv, Alone
  <2>2. \A s \in hsaves : s.at \in Applying /\ p \in Left(s) => s.data[p] = hdata'[p]
    <3>1. CASE p = w
      <4>1. ~Meets(p)  BY <1>3, <1>8, <3>1 DEF Alone
      <4> QED  BY <4>1, TurnIs DEF Meets
    <3>2. CASE p # w  BY <1>2, <2>1, <3>2 DEF OneRequest
    <3> QED  BY <3>1, <3>2
  <2>3. hdata'[p].flows = hpast'[p].flows  BY <1>2, <1>3, <2>1 DEF OneRequest
  <2> QED  BY <1>0, <2>1, <2>2, <2>3 DEF OneRequest, Replaces, Applies, Switched, Left
<1>9. ASSUME NEW p \in AutoPhones, (Alone(p) /\ ~hpast[p].failed)' PROVE Drained(p)'
  <2>1. Drained(p)  BY <1>3, <1>9 DEF HInv, Alone
  <2>2. hdata'[p].on = hdata[p].on /\ hdata'[p].ids = hdata[p].ids  BY <1>2
  <2> QED  BY <1>0, <2>1, <2>2 DEF Drained, Replaces, Applies
<1>10. ASSUME NEW p \in AutoPhones, Certain(p)' PROVE AsChosen(p)'
  BY <1>0, <1>2, <1>3, <1>10 DEF HInv, Certain, AsChosen, Unwritten, Switched, Left
<1> QED  BY <1>4, <1>5, <1>6, <1>7, <1>8, <1>9, <1>10 DEF HInv

\* A new request: no other has its id, and where it is the phone's only one it has not
\* read anything yet.
LEMMA SaveArrives ==
  ASSUME HInv, NEW save \in Save, save.id = hturns', save.at = "sent", save.left = <<>>,
         hsaves' = hsaves \cup {save}, UNCHANGED <<hdata, hactive, hstray>>,
         hturns \in Nat, hturns' = hturns + 1, hturns' \in 1..MaxTurns,
         \A p \in AutoPhones :
           /\ hpast'[p].crossed = (hpast[p].crossed \/ (p \in Switched(save) /\ Meets(p)))
           /\ hpast'[p].failed = hpast[p].failed /\ hpast'[p].flows = hpast[p].flows
  PROVE  /\ SavesWell' /\ DataWell' /\ HNoOrphans'
         /\ \A p \in AutoPhones : /\ Alone(p)' => OneRequest(p)'
                                  /\ (Alone(p) /\ ~hpast[p].failed)' => Drained(p)'
<1>1. \A s \in hsaves : SaveWell(s) /\ s.id \in Nat /\ s.id <= hturns
  BY DEF HInv, SavesWell, SaveWell, Save, Ids
<1>2. SavesWell'
  <2>1. ASSUME NEW s \in hsaves PROVE SaveWell(s)'
    <3>1. SaveWell(s) /\ s.id <= hturns'  BY <1>1
    <3> QED  BY <3>1 DEF SaveWell, Left, Switched
  <2>2. SaveWell(save)'  BY DEF SaveWell, Applying
  <2>3. \A s \in hsaves : s.id # save.id  BY <1>1
  <2>4. \A s, t \in hsaves' : s.id = t.id => s = t  BY <2>3 DEF HInv, SavesWell
  <2> QED  BY <2>1, <2>2, <2>4 DEF SavesWell
<1>3. \A p \in AutoPhones : save.id \notin hdata[p].ids  BY DEF HInv, DataWell
<1>4. DataWell'
  <2>1. \A p \in AutoPhones : \A i \in hdata[p].ids : i \in Nat /\ i <= hturns'
    BY DEF HInv, DataWell, Data, Ids
  <2>2. \A d \in hactive : d[2] <= hturns'  BY DEF HInv, DataWell, Ids
  <2>3. \A p \in AutoPhones, s \in hsaves' : s.id \in hdata[p].ids => p \in Switched(s)
    BY <1>3 DEF HInv, DataWell
  <2> QED  BY <2>1, <2>2, <2>3 DEF HInv, DataWell, Data, Ids, Switched
<1>5. HNoOrphans'
  <2> SUFFICES ASSUME NEW d \in hactive \ hstray, ~hpast'[d[1]].crossed
               PROVE  \/ d[2] \in hdata[d[1]].ids
                      \/ \E s \in hsaves' : s.id = d[2] /\ s.at = "write" /\ Head(s.left) = d[1]
    BY DEF HNoOrphans
  <2>1. d[1] \in AutoPhones  BY DEF HInv, DataWell
  <2>2. ~hpast[d[1]].crossed  BY <2>1
  <2> QED  BY <2>2 DEF HInv, HNoOrphans
<1>6. \A p : ~Applies(save, p) /\ ~Replaces(save, p) /\ save.at \notin Applying
  BY DEF Applies, Replaces, Applying
<1>7. ASSUME NEW p \in AutoPhones, Alone(p)'
      PROVE  OneRequest(p)' /\ (~hpast'[p].failed => Drained(p)')
  <2>1. Alone(p) /\ OneRequest(p) /\ (~hpast[p].failed => Drained(p))
    BY <1>7 DEF HInv, Alone
  <2>2. p \in Switched(save) => ~Meets(p)  BY <1>7 DEF Alone
  <2>3. \A s, t \in hsaves' : p \in Switched(s) /\ p \in Switched(t) => s = t
    BY <2>1, <2>2 DEF OneRequest, Meets
  <2>4. OneRequest(p)'
    BY <1>6, <2>1, <2>3 DEF OneRequest, Replaces, Applies, Switched, Left
  <2>5. ASSUME ~hpast'[p].failed PROVE Drained(p)'
    <3>1. Drained(p)  BY <2>1, <2>5
    <3>2. \A s \in hsaves' : Applies(s, p) /\ s.at = "write" /\ s.on => <<p, s.id>> \in hactive
      BY <1>6, <3>1 DEF Drained
    <3>3. hdata[p].on /\ (\A s \in hsaves' : ~Replaces(s, p))
            => \E i \in hdata[p].ids : <<p, i>> \in hactive
      BY <3>1 DEF Drained
    <3> QED  BY <3>2, <3>3 DEF Drained, Replaces, Applies
  <2> QED  BY <2>4, <2>5
<1> QED  BY <1>2, <1>4, <1>5, <1>7 DEF Alone

LEMMA NewSaveIs ==
  ASSUME HInv, Turns, NEW on \in BOOLEAN, NEW toggle \in BOOLEAN
  PROVE  /\ NewSave(on, toggle) \in Save /\ NewSave(on, toggle).id = hturns' /\ NewSave(on, toggle).at = "sent"
         /\ NewSave(on, toggle).left = <<>> /\ NewSave(on, toggle).on = on
         /\ hpage.phone \in Switched(NewSave(on, toggle))
         /\ ~hpage.fleet => Switched(NewSave(on, toggle)) = {hpage.phone}
<1>1. hpage.phone \in AutoPhones /\ hpage.fleet \in BOOLEAN
  BY DEF HInv, AutoPageWell, AutoPage
<1>2. Selected \in AutoPhones  BY <1>1 DEF Selected, First
<1>3. hturns' \in Ids  BY Turned DEF Ids
<1>4. <<>> \in DataRead  BY DEF DataRead
<1>5. NewSave(on, toggle) \in Save  BY <1>1, <1>2, <1>3, <1>4 DEF NewSave, Save
<1>6. ~hpage.fleet => Selected = hpage.phone  BY DEF Selected
<1> HIDE DEF Selected
<1> QED  BY <1>1, <1>5, <1>6 DEF NewSave, Switched

LEMMA HToggleKeeps == ASSUME HInv, HToggle PROVE HInv'
<1> DEFINE save == NewSave(~hpage.on, TRUE)
           crossing(p) == p \in Switched(save) /\ Meets(p)
<1>0. /\ Turns /\ hsaves' = hsaves \cup {save}
      /\ hpage' = [hpage EXCEPT !.on = ~hpage.on, !.mixed = hpage.mixed \/ hreads # {}]
      /\ hchosen' = [p \in AutoPhones |-> IF p \in Switched(save) THEN save.on ELSE hchosen[p]]
      /\ hpast' = [p \in AutoPhones |->
                     [hpast[p] EXCEPT !.crossed = hpast[p].crossed \/ crossing(p)]]
      /\ UNCHANGED <<hdata, hactive, hreads, hstray>>
  BY DEF HToggle
<1>1. hturns \in Nat /\ hturns' = hturns + 1 /\ hturns' \in 1..MaxTurns
  BY <1>0, Turned
<1>2. hpage \in AutoPage /\ (~hpage.on) \in BOOLEAN
  <2>1. hpage \in AutoPage  BY DEF HInv, AutoPageWell
  <2>2. (~hpage.on) \in BOOLEAN  BY Zenon
  <2> QED  BY <2>1, <2>2
<1>3. /\ save \in Save /\ save.id = hturns' /\ save.at = "sent" /\ save.left = <<>>
      /\ save.on = ~hpage.on /\ hpage.phone \in Switched(save)
  BY <1>0, <1>2, NewSaveIs
<1> HIDE DEF save
<1>4. /\ hpast' \in [AutoPhones -> [crossed : BOOLEAN, failed : BOOLEAN, early : BOOLEAN,
                                    flows : 0..MaxTurns]]
      /\ \A p \in AutoPhones :
           /\ hpast'[p].crossed = (hpast[p].crossed \/ (p \in Switched(save) /\ Meets(p)))
           /\ hpast'[p].failed = hpast[p].failed /\ hpast'[p].flows = hpast[p].flows
           /\ hpast'[p].early = hpast[p].early
  <2>1. \A p \in AutoPhones : crossing(p) \in BOOLEAN  BY DEF Meets
  <2>2. \A p \in AutoPhones : hpast[p] \in [crossed : BOOLEAN, failed : BOOLEAN, early : BOOLEAN,
                                            flows : 0..MaxTurns]
    BY DEF HInv, AutoPageWell
  <2>3. \A p \in AutoPhones : crossing(p) <=> p \in Switched(save) /\ Meets(p)  OBVIOUS
  <2> HIDE DEF crossing
  <2> QED  BY <1>0, <2>1, <2>2, <2>3
<1>5. /\ SavesWell' /\ DataWell' /\ HNoOrphans'
      /\ \A p \in AutoPhones : /\ Alone(p)' => OneRequest(p)'
                               /\ (Alone(p) /\ ~hpast[p].failed)' => Drained(p)'
  BY <1>0, <1>1, <1>3, <1>4, SaveArrives
<1>6. save.on \in BOOLEAN  BY <1>3 DEF Save
<1>7. AutoPageWell'
  <2>1. hpage' \in AutoPage  BY <1>0, <1>2 DEF AutoPage
  <2>2. hchosen' \in [AutoPhones -> BOOLEAN]  BY <1>0, <1>6 DEF HInv, AutoPageWell
  <2> QED  BY <1>0, <1>4, <2>1, <2>2 DEF HInv, AutoPageWell, ReadWell, Seen
<1>8. PageChosen'
  <2> SUFFICES ASSUME ~hpage'.mixed PROVE PageChosen'  BY DEF PageChosen
  <2>1. hreads' = {} /\ hpage'.phone = hpage.phone /\ hpage'.on = ~hpage.on
    BY <1>0, <1>2 DEF AutoPage
  <2>2. hpage.phone \in AutoPhones  BY <1>2 DEF AutoPage
  <2>3. hchosen'[hpage.phone] = ~hpage.on  BY <1>0, <1>3, <2>2
  <2> QED  BY <2>1, <2>3 DEF PageChosen
<1>9. ASSUME NEW p \in AutoPhones, Certain(p)' PROVE AsChosen(p)'
  <2>1. AsChosen(p)  BY <1>4, <1>9 DEF HInv, Certain
  <2>2. CASE p \in Switched(save)
    <3>1. ~Meets(p)  BY <1>4, <1>9, <2>2 DEF Certain
    <3>2. hchosen'[p] = save.on  BY <1>0, <2>2
    <3>3. \A s \in hsaves' : p \in Switched(s) => s = save  BY <1>0, <3>1 DEF Meets
    <3>4. save \in hsaves' /\ Unwritten(save, p)  BY <1>0, <1>3, <2>2 DEF Unwritten
    <3> QED  BY <1>3, <3>2, <3>3, <3>4 DEF AsChosen, Switched, Unwritten, Left
  <2>3. CASE p \notin Switched(save)
    <3>1. hchosen'[p] = hchosen[p]  BY <1>0, <2>3
    <3>2. \A s \in hsaves' : p \in Switched(s) => s \in hsaves  BY <1>0, <2>3
    <3> QED  BY <1>0, <2>1, <3>1, <3>2 DEF AsChosen, Switched, Unwritten, Left
  <2> QED  BY <2>2, <2>3
<1> QED  BY <1>5, <1>7, <1>8, <1>9 DEF HInv

LEMMA HFrequencyKeeps == ASSUME HInv, HFrequency PROVE HInv'
<1> DEFINE save == NewSave(hpage.on, FALSE)
           crossing(p) == p \in Switched(save) /\ Meets(p)
           hasty(p) == p \in Switched(save) /\ (~hpage.shown \/ hpage.mixed \/ hpage.fleet)
           one(p) == [hpast[p] EXCEPT !.crossed = hpast[p].crossed \/ crossing(p)]
           two(p) == [one(p) EXCEPT !.early = hpast[p].early \/ hasty(p)]
<1>0. Turns /\ hsaves' = hsaves \cup {save} /\ UNCHANGED <<hdata, hactive, hpage, hreads, hchosen, hstray>>
  BY Zenon DEF HFrequency
<1>p. hpast' = [p \in AutoPhones |-> two(p)]
  BY Zenon DEF HFrequency
<1>1. hturns \in Nat /\ hturns' = hturns + 1 /\ hturns' \in 1..MaxTurns
  BY <1>0, Turned
<1>2. hpage \in AutoPage /\ hpage.on \in BOOLEAN  BY DEF HInv, AutoPageWell, AutoPage
<1>3. /\ save \in Save /\ save.id = hturns' /\ save.at = "sent" /\ save.left = <<>>
      /\ save.on = hpage.on
      /\ ~hpage.fleet => Switched(save) = {hpage.phone}
  BY <1>0, <1>2, NewSaveIs
<1> HIDE DEF save
<1>4. /\ hpast' \in [AutoPhones -> [crossed : BOOLEAN, failed : BOOLEAN, early : BOOLEAN,
                                    flows : 0..MaxTurns]]
      /\ \A p \in AutoPhones :
           /\ hpast'[p].crossed = (hpast[p].crossed \/ (p \in Switched(save) /\ Meets(p)))
           /\ hpast'[p].failed = hpast[p].failed /\ hpast'[p].flows = hpast[p].flows
           /\ hpast'[p].early = (hpast[p].early \/ hasty(p))
  <2>1. \A p \in AutoPhones : crossing(p) \in BOOLEAN /\ hasty(p) \in BOOLEAN  BY DEF Meets
  <2>2. \A p \in AutoPhones : hpast[p] \in [crossed : BOOLEAN, failed : BOOLEAN, early : BOOLEAN,
                                            flows : 0..MaxTurns]
    BY DEF HInv, AutoPageWell
  <2>3. \A p \in AutoPhones : crossing(p) <=> p \in Switched(save) /\ Meets(p)  OBVIOUS
  <2> HIDE DEF crossing, hasty
  <2>4. ASSUME NEW p \in AutoPhones
        PROVE  /\ one(p) \in [crossed : BOOLEAN, failed : BOOLEAN, early : BOOLEAN,
                             flows : 0..MaxTurns]
               /\ one(p).crossed = (hpast[p].crossed \/ crossing(p))
               /\ one(p).failed = hpast[p].failed /\ one(p).flows = hpast[p].flows
               /\ one(p).early = hpast[p].early
    BY <2>1, <2>2
  <2> HIDE DEF one
  <2>5. ASSUME NEW p \in AutoPhones
        PROVE  /\ two(p) \in [crossed : BOOLEAN, failed : BOOLEAN, early : BOOLEAN,
                             flows : 0..MaxTurns]
               /\ two(p).crossed = (hpast[p].crossed \/ crossing(p))
               /\ two(p).failed = hpast[p].failed /\ two(p).flows = hpast[p].flows
               /\ two(p).early = (hpast[p].early \/ hasty(p))
    BY <2>1, <2>2, <2>4
  <2> HIDE DEF two
  <2> QED  BY <1>p, <2>3, <2>5
<1>5. /\ SavesWell' /\ DataWell' /\ HNoOrphans'
      /\ \A p \in AutoPhones : /\ Alone(p)' => OneRequest(p)'
                               /\ (Alone(p) /\ ~hpast[p].failed)' => Drained(p)'
  <2>1. \A p \in AutoPhones :
          /\ hpast'[p].crossed = (hpast[p].crossed \/ (p \in Switched(save) /\ Meets(p)))
          /\ hpast'[p].failed = hpast[p].failed /\ hpast'[p].flows = hpast[p].flows
    BY <1>4
  <2>2. save \in Save /\ save.id = hturns' /\ save.at = "sent" /\ save.left = <<>>
    BY <1>3
  <2> HIDE DEF hasty, crossing
  <2> QED  BY <1>0, <1>1, <2>1, <2>2, SaveArrives
<1>6. \A p \in AutoPhones : Certain(p)' => Certain(p) /\ ~hasty(p)
  BY <1>4 DEF Certain
<1>7. AutoPageWell' /\ PageChosen'
  <2>1. ASSUME NEW p \in AutoPhones, Meets(p)', ~Meets(p), Certain(p)' PROVE hreads = {}
    <3>1. p \in Switched(save)  BY <1>0, <2>1 DEF Meets, Switched
    <3>2. hpage.shown /\ ~hpage.mixed  BY <1>6, <2>1, <3>1
    <3> QED  BY <3>2 DEF HInv, PageChosen
  <2> HIDE DEF hasty
  <2> QED  BY <1>0, <1>4, <1>6, <2>1, AutoPageStays
<1>8. ASSUME NEW p \in AutoPhones, Certain(p)' PROVE AsChosen(p)'
  <2>1. AsChosen(p) /\ Certain(p) /\ ~hasty(p)  BY <1>6, <1>8 DEF HInv
  <2>2. CASE p \in Switched(save)
    <3>1. ~Meets(p)  BY <1>4, <1>8, <2>2 DEF Certain
    <3>2. hpage.shown /\ ~hpage.mixed /\ p = hpage.phone  BY <1>3, <2>1, <2>2
    <3>3. hchosen[p] = save.on  BY <1>3, <2>1, <3>2 DEF HInv, PageChosen
    <3>4. \A s \in hsaves' : p \in Switched(s) => s = save  BY <1>0, <3>1 DEF Meets
    <3>5. save \in hsaves' /\ Unwritten(save, p)  BY <1>0, <1>3, <2>2 DEF Unwritten
    <3> QED  BY <1>0, <1>3, <3>3, <3>4, <3>5 DEF AsChosen, Switched, Unwritten, Left
  <2>3. CASE p \notin Switched(save)
    <3>1. \A s \in hsaves' : p \in Switched(s) => s \in hsaves  BY <1>0, <2>3
    <3> QED  BY <1>0, <2>1, <3>1 DEF AsChosen, Switched, Unwritten, Left
  <2> QED  BY <2>2, <2>3
<1> QED  BY <1>5, <1>7, <1>8 DEF HInv
-----------------------------------------------------------------------------
LEMMA AutoStepKeeps == HInv /\ [HNext]_hVars => HInv'
<1> SUFFICES ASSUME HInv, [HNext]_hVars PROVE HInv'  OBVIOUS
<1>1. CASE HOperator
  BY <1>1, HRefreshKeeps, HChooseKeeps, HToggleKeeps, HFrequencyKeeps, HWorkflowKeeps
     DEF HOperator
<1>2. CASE \E r \in hreads : HRead(r) \/ HShown(r)
  BY <1>2, HReadKeeps, HShownKeeps
<1>3. CASE \E s \in hsaves : \/ HReadsData(s) \/ HCancels(s) \/ HCreates(s) \/ HWrites(s)
                             \/ HFails(s) \/ HSaved(s)
  BY <1>3, HReadsDataKeeps, HCancelsKeeps, HCreatesKeeps, HWritesKeeps, HFailsKeeps, HSavedKeeps
<1>5. CASE HCrash \/ HLost  BY <1>5, HCrashKeeps, HLostKeeps
<1>4. CASE UNCHANGED hVars
  <2>1. UNCHANGED <<hdata, hactive, hpage, hreads, hsaves, hchosen, hpast, hstray, hturns>>
    BY <1>4 DEF hVars
  <2>2. AutoPageWell' /\ PageChosen'
    BY <2>1, AutoPageStays DEF HInv, AutoPageWell, Certain, Meets, Switched
  <2>3. hturns \in Nat /\ hturns \in 0..MaxTurns  BY DEF HInv, SavesWell
  <2> QED  BY <2>1, <2>2, <2>3, PhonesStay
<1> QED  BY <1>1, <1>2, <1>3, <1>4, <1>5 DEF HNext

\* The switch of the drains, for any phones and any requests between whose steps others
\* come, although calls fail, their answers are lost and the API crashes between any two
\* steps: no drain runs that the phone's data do not know but one whose cancellation was
\* rejected or that a crash kept from them, a phone whose data say that it is drained is
\* drained, the workflows that were saved for it are kept, and it is drained or not as
\* the operator last chose (tiktok-plugin.ts:622-684, automations.ts:776-852, 1101-1132).
THEOREM DrainsAsSwitched == HSpec => []HSafe
<1>1. HSpec => []HInv
  BY AutoInitHolds, AutoStepKeeps, PTL DEF HSpec
<1> QED  BY <1>1, AutoSafe, PTL

=============================================================================
