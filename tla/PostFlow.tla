------------------------------ MODULE PostFlow ------------------------------
(***************************************************************************)
(* The script that puts a clip on a phone (src/src/tiktok/post.ts and      *)
(* src/src/instagram/post.ts, with the helpers of src/src/social/): it     *)
(* imports the files into the phone's library, tries up to three times to  *)
(* bring an app to its caption screen, then types the caption and taps     *)
(* Post or Drafts exactly once.                                            *)
(*                                                                         *)
(* Most of the taps are blind (a coordinate and a pause), so the model     *)
(* keeps apart what the script believes (ppc) and where the app is         *)
(* (pscreen).  Two orders of the picker's grid are modelled, because the   *)
(* code is written for both: newest clip last (post.ts:293) and newest     *)
(* clip first (post-layout.ts:15).  A clip is the number of the file it    *)
(* was imported from, 0 for another clip of the library and -1 for another *)
(* clip that is as long as the first file.  The picture comparison of      *)
(* post-picker-match.ts may miss, but names only a clip that is the file.  *)
(***************************************************************************)
EXTENDS Integers, Sequences, FiniteSets, SequencesExt

CONSTANTS PostJobs,    \* the manifests, each with the phone it meets
          Attempts     \* REACH_CAPTION_SCREEN_ATTEMPTS

\* What a manifest says, and the library it meets, in which no clip is one of
\* the manifest's files yet.
Manifests ==
  [plat : {"tiktok", "instagram"}, files : Nat \ {0}, account : BOOLEAN,
   registered : BOOLEAN, caption : BOOLEAN, music : BOOLEAN,
   dest : {"publish", "draft"}, grid : {"newestFirst", "newestLast"},
   library : Seq({0, -1})]
ASSUME PostFlowAssumption == PostJobs \subseteq Manifests /\ Attempts \in Nat \ {0}

VARIABLES ppc,         \* the next part of the script
          pjob,        \* the manifest and the phone's library and grid
          ptry,        \* attempts made at the caption screen
          plib,        \* the phone's library, oldest clip first
          psigned,     \* the account signed in: "wanted" or "other"
          pwarned,     \* "Account switch skipped" was logged
          pscreen,     \* where the app is
          ppicked,     \* the clips in the composer
          pleft,       \* an unfinished composer the app offers to continue
          psession,    \* an Appium session this script holds
          pleaked,     \* a session whose deletion failed
          pposts,      \* posts made: clips and account
          pdrafts,     \* drafts made, counted by the tap that made them
          pexit        \* exit code, 2 while the script runs, 3 when killed

pVars == <<ppc, pjob, ptry, plib, psigned, pwarned, pscreen, ppicked, pleft,
           psession, pleaked, pposts, pdrafts, pexit>>

Columns == 3
FirstLength == {1, -1}
FileNumbers == [i \in 1..pjob.files |-> i]

PInit ==
  /\ pjob \in PostJobs
  /\ ppc = "start" /\ ptry = 0 /\ plib = pjob.library
  /\ psigned \in {"wanted", "other"} /\ pwarned = FALSE
  /\ pscreen = "closed" /\ ppicked = <<>> /\ pleft \in BOOLEAN
  /\ psession = FALSE /\ pleaked = FALSE
  /\ pposts = <<>> /\ pdrafts = [abandoned |-> 0, final |-> 0] /\ pexit = 2

PRunning == pexit = 2

Ends(code) == ppc' = "ended" /\ pexit' = code

\* The script throws outside the retried part and holds no session yet.
ThrowsEarly ==
  /\ Ends(1)
  /\ UNCHANGED <<pjob, ptry, psigned, pwarned, pscreen, ppicked, pleft,
                 psession, pleaked, pposts, pdrafts>>

\* An account that is not registered ends the script before the phone is
\* unlocked; the unlock itself may fail.
PStart ==
  /\ ppc = "start"
  /\ \/ ThrowsEarly /\ UNCHANGED plib
     \/ /\ pjob.account => pjob.registered
        /\ ppc' = "import"
        /\ UNCHANGED <<pjob, ptry, plib, psigned, pwarned, pscreen, ppicked,
                       pleft, psession, pleaked, pposts, pdrafts, pexit>>

\* The files, last one first, so that the first file is the newest clip.
ImportOrderSlip(n) == [i \in 1..n |-> i]
ImportOrder(n) == Reverse([i \in 1..n |-> i])

\* importWdaMedia: a file that is too large or refused leaves the ones before
\* it in the library and ends the script.
PImport ==
  /\ ppc = "import"
  /\ \E done \in 0..pjob.files :
       /\ plib' = plib \o SubSeq(ImportOrder(pjob.files), 1, done)
       /\ IF done = pjob.files
          THEN /\ ppc' = "open"
               /\ UNCHANGED <<pjob, ptry, psigned, pwarned, pscreen, ppicked,
                              pleft, psession, pleaked, pposts, pdrafts, pexit>>
          ELSE ThrowsEarly

\* The catch of the retry loop: the error is remembered, the session deleted
\* (a failure of that is ignored) and the loop ends the script or goes on.
AttemptFails(try, left) ==
  /\ IF try < Attempts THEN ppc' = "open" /\ pexit' = pexit ELSE Ends(1)
  /\ pleft' = left
  /\ psession' = FALSE /\ pleaked' \in {pleaked, TRUE}

NextTry == ptry + 1

\* One more attempt: a session with forceAppLaunch, which relaunches the app.
\* remote() may fail; so may the settings that follow, with the session open.
POpen ==
  /\ ppc = "open"
  /\ ptry' = NextTry
  /\ \/ /\ ppc' = IF pjob.account THEN "switch" ELSE "compose"
        /\ psession' = TRUE /\ pscreen' \in {"home", "elsewhere"}
        /\ UNCHANGED <<pleft, pleaked, pexit>>
     \/ AttemptFails(NextTry, pleft) /\ UNCHANGED pscreen
  /\ ppicked' = <<>>
  /\ UNCHANGED <<pjob, plib, psigned, pwarned, pposts, pdrafts>>

\* What switchAccount can come to: the account signed in afterwards and
\* whether it reports success.  The row may be tapped and the confirmation
\* missed; success is only reported when the profile shows the handle.
SwitchOutcomes ==
  {o \in [signed : {psigned, "wanted"}, ok : BOOLEAN] : o.ok => o.signed = "wanted"}

\* A switch that fails is only logged; the app is left on the profile.
PSwitch ==
  /\ ppc = "switch"
  /\ \/ \E o \in SwitchOutcomes :
          /\ psigned' = o.signed
          /\ pwarned' = (pwarned \/ ~o.ok)
          /\ ppc' = "compose" /\ pscreen' = "elsewhere"
          /\ UNCHANGED <<pleft, psession, pleaked, pexit>>
     \/ /\ AttemptFails(ptry, pleft)
        /\ UNCHANGED <<psigned, pwarned, pscreen>>
  /\ UNCHANGED <<pjob, ptry, plib, ppicked, pposts, pdrafts>>

\* openComposer, whose taps may end somewhere else than the gallery: whether
\* the unfinished composer of an attempt before becomes a draft on the way.  On
\* TikTok a blind tap saves it before Create is tapped; a music link leads past
\* that.  Instagram offers no such thing.
ComposeTikTok == ~pjob.music /\ pleft
ComposeInstagram == FALSE

PCompose ==
  /\ ppc = "compose"
  /\ LET saves == IF pjob.plat = "tiktok" THEN ComposeTikTok ELSE ComposeInstagram
     IN  /\ pdrafts' = IF saves THEN [pdrafts EXCEPT !.abandoned = @ + 1] ELSE pdrafts
         /\ \/ /\ ppc' = "choose" /\ pscreen' \in {"gallery", "elsewhere"}
               /\ pleft' = (pleft /\ ~saves)
               /\ UNCHANGED <<psession, pleaked, pexit>>
            \/ /\ AttemptFails(ptry, pleft /\ ~saves)
               /\ UNCHANGED pscreen
  /\ UNCHANGED <<pjob, ptry, plib, psigned, pwarned, ppicked, pposts>>

\* The picker's cells as listed: top to bottom, left to right.
Cells == IF pjob.grid = "newestFirst" THEN Reverse(plib) ELSE plib

BottomRow(cells) ==
  {i \in DOMAIN cells : (i - 1) \div Columns = (Len(cells) - 1) \div Columns}

\* One file on TikTok.  The reader of the badges on the bottom row may miss
\* some; a single badge that fits decides, otherwise the pictures of the row
\* (or of the cells whose badge fits) are compared, and without a match the
\* row's right end is taken.
SingleChoices(cells) ==
  LET row == BottomRow(cells)
      timed == {i \in row : cells[i] \in FirstLength}
      Chosen(seen) ==
        IF Cardinality(seen) = 1 THEN seen
        ELSE {Len(cells)} \cup {i \in IF seen = {} THEN row ELSE seen : cells[i] = 1}
  IN  {<<cells[i]>> : i \in UNION {Chosen(seen) : seen \in SUBSET timed}}

\* No cell is listed: the badge is looked for all over the screen.
BadgeChoices(cells) == {<<c>> : c \in Range(cells) \cap FirstLength}

\* Several files on TikTok: the first cells whose label has the length of the
\* first file, when the labels have it and there are enough, or the first ones.
\* `at` numbers those cells in their order and leaves none of them out.
FirstCells(cells) == SubSeq(cells, 1, pjob.files)
FirstTimed(cells) ==
  LET timed == {i \in DOMAIN cells : cells[i] \in FirstLength}
      InOrder(at) == /\ \A j, k \in 1..pjob.files : j < k => at[j] < at[k]
                     /\ \A i \in timed : i <= at[pjob.files] => i \in Range(at)
  IN  {[k \in 1..pjob.files |-> cells[at[k]]] :
         at \in {f \in [1..pjob.files -> timed] : InOrder(f)}}
SeveralChoices(cells) == {FirstCells(cells)} \cup FirstTimed(cells)

\* Instagram: the first cells of the grid, by their coordinates.
InstagramChoices(cells) == {FirstCells(cells)}

PickerChoices ==
  IF pjob.plat = "instagram" THEN InstagramChoices(Cells)
  ELSE IF pjob.files = 1 THEN SingleChoices(Cells) \cup BadgeChoices(Cells)
  ELSE SeveralChoices(Cells)

\* chooseRecentMedia and the two Next taps.  Off the gallery nothing is picked:
\* TikTok with one file finds no cell and throws; the blind taps of the other
\* cases go on regardless.  A throw after the selection leaves a composer.
PChoose ==
  /\ ppc = "choose"
  /\ \/ /\ pscreen = "gallery"
        /\ \E picked \in PickerChoices :
             /\ ppicked' = picked
             /\ \/ /\ ppc' = "caption" /\ pscreen' \in {"caption", "elsewhere"}
                   /\ UNCHANGED <<pleft, psession, pleaked, pexit>>
                \/ AttemptFails(ptry, TRUE) /\ UNCHANGED pscreen
     \/ /\ pscreen # "gallery"
        /\ pjob.plat = "instagram" \/ pjob.files > 1
        /\ ppc' = "caption"
        /\ UNCHANGED <<pscreen, ppicked, pleft, psession, pleaked, pexit>>
     \/ AttemptFails(ptry, pleft) /\ UNCHANGED <<pscreen, ppicked>>
  /\ UNCHANGED <<pjob, ptry, plib, psigned, pwarned, pposts, pdrafts>>

\* addCaption throws or not; Instagram stops at this screen.
PCaption ==
  /\ ppc = "caption"
  /\ \/ ppc' = IF pjob.plat = "tiktok" THEN "publish" ELSE "ok"
     \/ pjob.plat = "tiktok" /\ pjob.caption /\ ppc' = "failed"
  /\ UNCHANGED <<pjob, ptry, plib, psigned, pwarned, pscreen, ppicked, pleft,
                 psession, pleaked, pposts, pdrafts, pexit>>

\* tapPublishOrDraft.  The first tap may only have closed the keyboard: then
\* Post is still visible and is tapped again.  A Post that is still drawn after
\* it worked is tapped again too, on a composer that is gone.
AfterPublishSlip == {"ok"} \cup (IF ptry < Attempts THEN {"open"} ELSE {"failed"})
AfterPublish == {"ok", "failed"}

PPublish ==
  /\ ppc = "publish"
  /\ ppc' \in AfterPublish
  /\ \/ /\ pscreen = "caption"
        /\ pscreen' = "away" /\ ppicked' = <<>>
        /\ IF pjob.dest = "publish"
           THEN /\ pposts' = Append(pposts, [clips |-> ppicked, by |-> psigned])
                /\ UNCHANGED pdrafts
           ELSE /\ pdrafts' = [pdrafts EXCEPT !.final = @ + 1] /\ UNCHANGED pposts
     \/ UNCHANGED <<pscreen, ppicked, pposts, pdrafts>>
  /\ UNCHANGED <<pjob, ptry, plib, psigned, pwarned, pleft, psession, pleaked, pexit>>

\* The finally: a deletion that fails makes the script fail, posted or not.
PClose ==
  /\ ppc \in {"ok", "failed"}
  /\ psession' = FALSE
  /\ \/ Ends(IF ppc = "ok" THEN 0 ELSE 1) /\ UNCHANGED pleaked
     \/ Ends(1) /\ pleaked' = TRUE
  /\ UNCHANGED <<pjob, ptry, plib, psigned, pwarned, pscreen, ppicked, pleft,
                 pposts, pdrafts>>

\* The executor kills the script (a stop, the deadline); nothing is tidied up.
PKill ==
  /\ PRunning
  /\ Ends(3)
  /\ UNCHANGED <<pjob, ptry, plib, psigned, pwarned, pscreen, ppicked, pleft,
                 psession, pleaked, pposts, pdrafts>>

PStep == PStart \/ PImport \/ POpen \/ PSwitch \/ PCompose \/ PChoose
         \/ PCaption \/ PPublish \/ PClose
PNext == PStep \/ PKill
PSpec == PInit /\ [][PNext]_pVars

-----------------------------------------------------------------------------
\* Types of the state.
PTypeOK ==
  /\ ppc \in {"start", "import", "open", "switch", "compose", "choose",
              "caption", "publish", "ok", "failed", "ended"}
  /\ pjob \in PostJobs /\ ptry \in 0..Attempts
  /\ plib \in Seq(-1..pjob.files) /\ ppicked \in Seq(-1..pjob.files)
  /\ psigned \in {"wanted", "other"}
  /\ pscreen \in {"closed", "home", "elsewhere", "gallery", "caption", "away"}
  /\ {pwarned, pleft, psession, pleaked} \subseteq BOOLEAN
  /\ pposts \in Seq([clips : Seq(-1..pjob.files), by : {"wanted", "other"}])
  /\ pdrafts \in [abandoned : Nat, final : Nat] /\ pexit \in 0..3
  /\ PRunning <=> ppc # "ended"

\* A script posts at most once, and saves its post as a draft at most once,
\* however often it relaunched the app (post.ts:662-666).
PSubmittedOnce == Len(pposts) + pdrafts.final <= 1

\* Whenever the picker's grid has the order the path was written for, the
\* clips in the composer are the manifest's files in their order; only another
\* clip of the first file's length can stand in for it (post.ts:289-297,
\* post-runtime.ts:29, post-layout.ts:14-18).
PRightClips ==
  LET assumed == IF pjob.plat = "tiktok" /\ pjob.files = 1 THEN "newestLast"
                 ELSE "newestFirst"
  IN  (ppicked # <<>> /\ pjob.grid = assumed /\ -1 \notin Range(plib))
        => ppicked = FileNumbers

\* A post goes out under another account only when the log says that the
\* switch was skipped (post.ts:691-700, actions.ts:164-181).
PRightAccount ==
  (pjob.account /\ ~pwarned) => \A i \in DOMAIN pposts : pposts[i].by = "wanted"

\* A script that was not killed and whose deletions worked leaves no Appium
\* session behind, whatever failed (post.ts:706-711, 721-726).
PSessionClosed == (pexit \in {0, 1} /\ ~pleaked) => ~psession

\* A post script, whatever fails, comes late or is killed: it submits once, under
\* the account it names, and closes its session (post.ts:662-726).
PSafe == PTypeOK /\ PSubmittedOnce /\ PRightAccount /\ PSessionClosed

\* A script that went to work ends: three attempts at most, and nothing loops
\* after them (post.ts:672, 715-719).
PEnds == <>[](ppc \in {"start", "ended"})
=============================================================================
