---------------------------- MODULE ScriptsProofs ----------------------------
(***************************************************************************)
(* What is proved of the scripts that work on a phone, for every manifest, *)
(* library, list and number of runs: a feed script engages at most once    *)
(* with a video (EngagedOnce), a post script submits at most once, the     *)
(* right clips under the right account (SubmittedOnce, RightClips), and    *)
(* cold messages reach nobody twice and are on record for what they were   *)
(* (MessagedOnce, SentWasReceived).  What an operator trains is sent to be *)
(* stored whole and in order (SavesAreWhole).                              *)
(*                                                                         *)
(* Each part has its own inductive invariant (FInv; PInv; SentInv, which   *)
(* holds of overlapping runs, too, and OneInv, which does not; TInv), and  *)
(* lemmas for what each action leaves and for its keeping the invariant.   *)
(***************************************************************************)
EXTENDS PostFlow, FeedLoop, Outreach, Workflows, SequenceTheorems, TLAPS

-----------------------------------------------------------------------------
(* The feed scripts.                                                       *)

\* Looks are counted, and a recovery that an abandoned engagement asked for
\* still has something to give the video.
LooksWell ==
  /\ fattempt <= fmax
  /\ (fpc \in {"look", "recover"} /\ fmax = 2) => fwill # {}
  /\ fpc \in {"refine", "engage", "send"} => fwill # {}
  /\ fpc = "send" => "comment" \in fwill

\* Until the round engages, the video on the screen got nothing, and until it
\* is over the video got nothing of what is still to come.
Fresh == fpc \in {"open", "top", "look", "recover", "watch", "refine"} => fvid = Untouched
Pending == fpc \in {"engage", "send", "settle"} => \A e \in fwill : fvid[e] = 0
VideoWell == FEngagedOnce /\ (fmissed \/ (Fresh /\ Pending))

FInv == FTypeOK /\ LooksWell /\ VideoWell

\* Before a video has had anything, it has been engaged with at most once.
LEMMA UntouchedIsFresh ==
  Untouched \in [Engagements -> 0..2] /\ \A e \in Engagements : Untouched[e] = 0
BY DEF Untouched, Engagements

LEMMA SpendStays ==
  ASSUME FTypeOK, NEW n \in Nat, Spend(n)
  PROVE  fgrace' \in 0..Grace
BY FeedLoopAssumption DEF FTypeOK, Spend, Capped

\* What the phone answers is a screen, and the video it shows is the same one or
\* one that got nothing.
Same == UNCHANGED <<fvid, fmissed>>
New == fvid' = Untouched /\ fmissed' = FALSE

LEMMA FlickAnswers ==
  ASSUME FTypeOK, Flick PROVE fscreen' \in Screens /\ (Same \/ New)
BY DEF FTypeOK, Flick, NewVideo, Same, New, Screens

LEMMA DismissAnswers ==
  ASSUME FTypeOK, Dismiss PROVE fscreen' \in Screens /\ Same /\ fgrace' \in 0..Grace
<1>1. fscreen' \in Screens /\ Same
  BY DEF FTypeOK, Dismiss, DismissTikTok, DismissInstagram, SheetLeft, Screens, Same
<1>2. \E n \in Nat : Spend(n)
  BY DEF Dismiss, DismissTikTok, DismissInstagram
<1> QED
  BY <1>1, <1>2, SpendStays

LEMMA TabAnswers ==
  ASSUME FTypeOK, TabTapped PROVE fscreen' \in Screens /\ (Same \/ New)
BY DEF FTypeOK, TabTapped, NewVideo, Same, New, Screens

LEMMA RelaunchAnswers ==
  ASSUME FTypeOK, Relaunch PROVE fscreen' \in Screens /\ New /\ fgrace' \in 0..Grace
<1>1. PICK n \in Nat : Relaunched(n)
  BY DEF Relaunch, RelaunchForYou, RelaunchFollowing, RelaunchReels, RelaunchFriends
<1>2. PICK s \in Landings, again \in 0..3 : NewVideo(s) /\ Spend(n + 2 * again)
  BY <1>1 DEF Relaunched
<1>3. n + 2 * again \in Nat /\ s \in Screens
  BY DEF Landings, Screens
<1> QED
  BY <1>2, <1>3, SpendStays DEF NewVideo, New

\* A recovery has a name and leaves the counters within their bounds.
Plans == {"none", "go", "dismiss", "swipe", "tab", "wait", "relaunch"}
LEMMA RecoveryIsBounded ==
  ASSUME FTypeOK, NEW kind \in Screens
  PROVE  /\ Recovery(kind).plan \in Plans
         /\ Recovery(kind).soft \in 0..1
         /\ Recovery(kind).live \in 0..2
<1> USE DEF Plan, Plans, Screens, FTypeOK
<1>1. CASE fscript = "forYou"
  BY <1>1 DEF Recovery, EnsureForYou
<1>2. CASE fscript = "following"
  BY <1>2 DEF Recovery, EnsureFollowing
<1>3. CASE fscript = "reels"
  BY <1>3 DEF Recovery, EnsureReels
<1>4. CASE fscript \notin {"forYou", "following", "reels"}
  BY <1>4 DEF Recovery, EnsureFriends
<1> QED
  BY <1>1, <1>2, <1>3, <1>4

LEMMA IdentitiesAreScreens == ASSUME FTypeOK PROVE Identities \subseteq Screens
BY DEF FTypeOK, Identities, IdentifyTikTok, IdentifyInstagram, Screens

LEMMA GivesEngagements == Round.gives \subseteq Engagements
BY DEF Round, RoundForYou, RoundFollowing, RoundReels, RoundFriends, Engagements

LEMMA RecoverKeepsFInv == FInv /\ FRecover => FInv'
<1> SUFFICES ASSUME FInv, FRecover PROVE FInv'
  OBVIOUS
<1> USE DEF FInv
<1>1. fscreen' \in Screens /\ (Same \/ New) /\ fgrace' \in 0..Grace
  <2>1. CASE fplan = "dismiss" /\ Dismiss
    BY <2>1, DismissAnswers
  <2>2. CASE fplan = "swipe" /\ Flick /\ Spend(1)
    BY <2>2, FlickAnswers, SpendStays
  <2>3. CASE fplan = "tab" /\ TabTapped /\ Spend(2)
    BY <2>3, TabAnswers, SpendStays
  <2>4. CASE fplan = "wait" /\ UNCHANGED <<fscreen, fvid, fmissed>> /\ Spend(1)
    BY <2>4, SpendStays DEF Same, FTypeOK
  <2>5. CASE fplan = "relaunch" /\ Relaunch
    BY <2>5, RelaunchAnswers
  <2> QED
    BY <2>1, <2>2, <2>3, <2>4, <2>5 DEF FRecover
<1>2. FTypeOK'
  BY <1>1, UntouchedIsFresh DEF FRecover, FTypeOK, Same, New, round, outside
<1>3. LooksWell'
  BY DEF FRecover, LooksWell, round
<1>4. VideoWell'
  BY <1>1, UntouchedIsFresh DEF FRecover, VideoWell, FEngagedOnce, Fresh, Pending, Same, New
<1> QED
  BY <1>2, <1>3, <1>4

LEMMA RefineKeepsFInv == FInv /\ FRefine => FInv'
<1> SUFFICES ASSUME FInv, FRefine PROVE FInv'
  OBVIOUS
<1> USE DEF FInv
<1>1. fscreen' \in Screens /\ Same /\ fgrace' \in 0..Grace /\ fseen' \in Screens \cup {"none"}
  BY DismissAnswers, IdentitiesAreScreens DEF FRefine, FTypeOK, Same
<1>2. FTypeOK'
  BY <1>1 DEF FRefine, FTypeOK, Same, round, outside
<1>3. LooksWell'
  BY DEF FRefine, LooksWell, FTypeOK, round
<1>4. VideoWell'
  BY <1>1, UntouchedIsFresh, Zenon
  DEF FRefine, VideoWell, FEngagedOnce, Fresh, Pending, Same, FTypeOK
<1> QED
  BY <1>2, <1>3, <1>4

LEMMA SettleKeepsFInv == FInv /\ FSettle => FInv'
<1> SUFFICES ASSUME FInv, FSettle PROVE FInv'
  OBVIOUS
<1> USE DEF FInv
<1>1. fscreen' \in Screens /\ (Same \/ New) /\ fgrace' \in 0..Grace
      /\ fseen' \in Screens \cup {"none"}
  BY DismissAnswers, TabAnswers, SpendStays, IdentitiesAreScreens DEF FSettle, FTypeOK, Same
<1>2. FTypeOK'
  BY <1>1, UntouchedIsFresh DEF FSettle, FTypeOK, Same, New, round, outside, Following
<1>3. LooksWell'
  BY DEF FSettle, LooksWell, FTypeOK, round, Following
<1>4. VideoWell'
  BY <1>1, UntouchedIsFresh
  DEF FSettle, VideoWell, FEngagedOnce, Fresh, Pending, Same, New, FTypeOK, Following
<1> QED
  BY <1>2, <1>3, <1>4

LEMMA EngageKeepsFInv == FInv /\ FEngage => FInv'
<1> SUFFICES ASSUME FInv, FEngage PROVE FInv'
  OBVIOUS
<1> USE DEF FInv
<1>1. fwill # {} /\ fwill \subseteq Engagements /\ fpc = "engage" /\ Upcoming(fwill) \in fwill
  BY DEF FEngage, LooksWell, FTypeOK, Upcoming, Engagements
<1>2. CASE ~Alive
  BY <1>2 DEF FEngage, FTypeOK, LooksWell, VideoWell, FEngagedOnce, Fresh, Pending, round, outside
<1>3. CASE Alive /\ Upcoming(fwill) \in {"like", "save"}
  <2>1. PICK e \in {"like", "save"} : e = Upcoming(fwill)
    BY <1>3
  <2>2. /\ Tapped(e) /\ fwill' = fwill \ {e} /\ UNCHANGED fmissed
        /\ fpc' \in {"swipe", "engage", "settle"} /\ (fpc' = "engage" => fwill' # {})
        /\ fscreen' \in {fscreen, "sheet"}
    BY <1>3, <2>1 DEF FEngage, Following
  <2>3. fvid' \in [Engagements -> 0..2] /\ \A x \in Engagements \ {e} : fvid'[x] = fvid[x]
    BY <2>2 DEF Tapped, Capped, FTypeOK, Engagements
  <2>4. ~fmissed => fvid'[e] <= 1
    BY <1>1, <2>1, <2>2 DEF Tapped, Capped, FTypeOK, VideoWell, Pending, Engagements
  <2>5. FTypeOK'
    BY <1>1, <2>2, <2>3 DEF FEngage, FTypeOK, round, outside, Screens
  <2>6. LooksWell'
    BY <1>1, <2>2 DEF FEngage, LooksWell, round
  <2>7. VideoWell'
    BY <1>1, <2>2, <2>3, <2>4 DEF VideoWell, FEngagedOnce, Fresh, Pending
  <2> QED
    BY <2>5, <2>6, <2>7
<1>4. CASE Alive /\ Upcoming(fwill) = "comment"
  <2>1. /\ fscreen' \in {fscreen, "sheet"} /\ fpc' = "send" /\ UNCHANGED <<fwill, fvid, fmissed>>
    BY <1>4 DEF FEngage
  <2>2. FTypeOK'
    BY <2>1 DEF FEngage, FTypeOK, round, outside, Screens
  <2>3. LooksWell'
    BY <1>1, <1>4, <2>1 DEF FEngage, LooksWell, round
  <2>4. VideoWell'
    BY <1>1, <2>1 DEF VideoWell, FEngagedOnce, Fresh, Pending
  <2> QED
    BY <2>2, <2>3, <2>4
<1> QED
  BY <1>1, <1>2, <1>3, <1>4 DEF Engagements

LEMMA SendKeepsFInv == FInv /\ FSend => FInv'
<1> SUFFICES ASSUME FInv, FSend PROVE FInv'
  OBVIOUS
<1> USE DEF FInv
<1>1. "comment" \in fwill /\ fpc = "send" /\ fpc' = "settle" /\ fwill' = fwill \ {"comment"}
      /\ UNCHANGED fmissed
  BY DEF FSend, LooksWell
<1>2. /\ fvid' \in [Engagements -> 0..2]
      /\ \A x \in Engagements \ {"comment"} : fvid'[x] = fvid[x]
  BY DEF FSend, Capped, FTypeOK, Engagements
<1>3. ~fmissed => fvid'["comment"] <= 1
  BY <1>1 DEF FSend, Capped, FTypeOK, VideoWell, Pending, Engagements
<1>4. fscreen' \in Screens /\ fgrace' \in 0..Grace
  BY SpendStays DEF FSend, FTypeOK, Screens
<1>5. FTypeOK'
  BY <1>1, <1>2, <1>4 DEF FSend, FTypeOK, round, outside
<1>6. LooksWell'
  BY <1>1 DEF FSend, LooksWell, round
<1>7. VideoWell'
  BY <1>1, <1>2, <1>3 DEF VideoWell, FEngagedOnce, Fresh, Pending, FTypeOK
<1> QED
  BY <1>5, <1>6, <1>7

LEMMA SwipeKeepsFInv == FInv /\ FSwipe => FInv'
<1> SUFFICES ASSUME FInv, FSwipe PROVE FInv'
  OBVIOUS
<1> USE DEF FInv
<1>1. CASE ~Alive
  BY <1>1 DEF FSwipe, FTypeOK, LooksWell, VideoWell, FEngagedOnce, Fresh, Pending, round, outside
<1>2. CASE Alive /\ Scrolls /\ Flick
  <2>1. New /\ fscreen' \in Screens
    BY <1>2 DEF Flick, NewVideo, New, Scrolls, Screens
  <2>2. fpc' = "top" /\ UNCHANGED <<fwill, round, fseen, outside, fgrace, fsession, fexit>>
    BY <1>2 DEF FSwipe, AfterSwipe
  <2>3. FTypeOK'
    BY <2>1, <2>2, UntouchedIsFresh DEF FTypeOK, New, round, outside
  <2>4. LooksWell'
    BY <2>2 DEF LooksWell, round
  <2>5. VideoWell'
    BY <2>1, <2>2, UntouchedIsFresh DEF VideoWell, FEngagedOnce, Fresh, Pending, New
  <2> QED
    BY <2>3, <2>4, <2>5
<1>3. CASE Alive /\ ~Scrolls /\ fmissed' = TRUE /\ UNCHANGED <<fscreen, fvid>>
  BY <1>3 DEF FSwipe, AfterSwipe, FTypeOK, LooksWell, VideoWell, FEngagedOnce, round, outside
<1> QED
  BY <1>1, <1>2, <1>3 DEF FSwipe

LEMMA LookKeepsFInv == FInv /\ FLook => FInv'
<1> SUFFICES ASSUME FInv, FLook PROVE FInv'
  OBVIOUS
<1> USE DEF FInv
<1>1. /\ fpc = "look" /\ UNCHANGED <<fwill, phone, outside, fgrace, fsession, fexit>>
      /\ fpc' \in {"top", "watch", "recover"}
  BY DEF FLook
<1> DEFINE Bounded ==
             /\ fattempt' \in 0..6 /\ fmax' \in {2, 6} /\ fsoft' \in 0..1 /\ flive' \in 0..2
             /\ fplan' \in Plans /\ fseen' \in Screens \cup {"none"} /\ fattempt' <= fmax'
             /\ (fpc' = "recover" => fmax' = fmax)
<1>2. Bounded
  <2>1. CASE (fstop \/ fattempt = fmax) /\ fpc' = "top" /\ Returned(flive) /\ UNCHANGED fseen
    BY <2>1 DEF Returned, FTypeOK, Plans
  <2>2. CASE /\ fattempt # fmax
             /\ fplan' = "relaunch" /\ fpc' = "recover" /\ fattempt' = fattempt + 1
             /\ UNCHANGED <<fmax, fsoft, flive, fseen>>
    BY <2>2 DEF FTypeOK, LooksWell, Plans
  <2>3. ASSUME NEW kind \in Identities, fattempt # fmax, fseen' = kind,
               IF Recovery(kind).plan = "go"
               THEN fpc' = (IF fmax = 6 THEN "watch" ELSE "top") /\ Returned(Recovery(kind).live)
               ELSE /\ fpc' = "recover" /\ fattempt' = fattempt + 1
                    /\ fplan' = Recovery(kind).plan /\ fsoft' = Recovery(kind).soft
                    /\ flive' = Recovery(kind).live /\ UNCHANGED fmax
        PROVE  Bounded
    <3>1. kind \in Screens
      BY IdentitiesAreScreens
    <3>2. PICK r : r = Recovery(kind)
      OBVIOUS
    <3>3. r.plan \in Plans /\ r.soft \in 0..1 /\ r.live \in 0..2
      BY <3>1, <3>2, RecoveryIsBounded
    <3>4. CASE r.plan = "go"
      BY <2>3, <3>1, <3>2, <3>3, <3>4 DEF Returned, Plans
    <3>5. CASE r.plan # "go"
      BY <2>3, <3>1, <3>2, <3>3, <3>5 DEF FTypeOK, LooksWell
    <3> QED
      BY <3>4, <3>5
  <2> QED
    BY <2>1, <2>2, <2>3 DEF FLook
<1>3. FTypeOK'
  BY <1>1, <1>2 DEF FTypeOK, phone, outside, Plans
<1>4. LooksWell'
  BY <1>1, <1>2 DEF LooksWell, FTypeOK
<1>5. VideoWell'
  BY <1>1, Zenon DEF VideoWell, FEngagedOnce, Fresh, Pending, phone
<1> QED
  BY <1>3, <1>4, <1>5

LEMMA InitHasFInv == FInit => FInv
<1> SUFFICES ASSUME FInit PROVE FInv
  OBVIOUS
<1>1. FTypeOK
  <2>1. {fmissed, fstop, flate, fsession} \subseteq BOOLEAN
    BY DEF FInit
  <2>2. fgrace \in 0..Grace /\ fvid \in [Engagements -> 0..2]
    BY FeedLoopAssumption, UntouchedIsFresh DEF FInit
  <2> QED
    BY <2>1, <2>2 DEF FInit, FTypeOK, Screens
<1>2. LooksWell
  BY DEF FInit, LooksWell
<1>3. VideoWell
  BY UntouchedIsFresh DEF FInit, VideoWell, FEngagedOnce, Fresh, Pending
<1> QED
  BY <1>1, <1>2, <1>3 DEF FInv

\* The other parts of the script, the operator and the deadline leave the video alone.
LEMMA QuietKeepsFInv ==
  ASSUME FInv,
         FRefuse \/ FOpen \/ FTop \/ FWatch \/ FThrow \/ FClose \/ FPopup \/ FStop \/ FLate \/ FKill
  PROVE  FInv'
<1> USE DEF FInv, FTypeOK, LooksWell, VideoWell, FEngagedOnce, Fresh, Pending, round, phone, outside
<1>1. CASE FRefuse
  BY <1>1 DEF FRefuse
<1>2. CASE FOpen
  <2>1. fgrace' \in 0..Grace
    BY <1>2, SpendStays, FeedLoopAssumption DEF FOpen
  <2>2. fscreen' \in Screens
    BY <1>2 DEF FOpen, Opened, OpenForYou, OpenFollowing, OpenReels, OpenFriends, Screens
  <2> QED
    BY <1>2, <2>1, <2>2, ZenonT(60) DEF FOpen
<1>3. CASE FTop
  BY <1>3 DEF FTop, Returned
<1>4. CASE FWatch
  BY <1>4, GivesEngagements DEF FWatch
<1>5. CASE FThrow
  BY <1>5, UntouchedIsFresh DEF FThrow, Returned
<1>6. CASE FClose
  BY <1>6 DEF FClose
<1>7. CASE FPopup
  BY <1>7 DEF FPopup, Screens
<1>8. CASE FStop
  BY <1>8 DEF FStop
<1>9. CASE FLate
  BY <1>9 DEF FLate
<1>10. CASE FKill
  BY <1>10 DEF FKill
<1> QED
  BY <1>1, <1>2, <1>3, <1>4, <1>5, <1>6, <1>7, <1>8, <1>9, <1>10

LEMMA NextKeepsFInv == FInv /\ [FNext]_fVars => FInv'
<1> SUFFICES ASSUME FInv, [FNext]_fVars PROVE FInv'
  OBVIOUS
<1>1. CASE FNext
  BY <1>1, RecoverKeepsFInv, RefineKeepsFInv, SettleKeepsFInv, EngageKeepsFInv, SendKeepsFInv,
     SwipeKeepsFInv, LookKeepsFInv, QuietKeepsFInv DEF FNext, FStep
<1>2. CASE UNCHANGED fVars
  BY <1>2 DEF fVars, FInv, FTypeOK, LooksWell, VideoWell, FEngagedOnce, Fresh, Pending
<1> QED
  BY <1>1, <1>2

\* Whatever the app shows and whenever a stop comes, a video is liked, commented and
\* saved at most once, and the recoveries stay within their bounds
\* (doomscroll.ts:383-465, 586-613).
THEOREM EngagedOnce == FSpec => []FSafe
<1>1. FInv => FSafe
  BY DEF FInv, FSafe, VideoWell
<1> QED
  BY <1>1, InitHasFInv, NextKeepsFInv, PTL DEF FSpec

-----------------------------------------------------------------------------
(* The post script.                                                        *)

\* Until the files are imported the library is the one found; from then on it
\* ends with them, the first file last.
Imported == plib = pjob.library \o ImportOrder(pjob.files)
LibraryWell ==
  /\ ppc \in {"start", "import"} => plib = pjob.library /\ ppicked = <<>>
  /\ (ppc \in {"open", "switch", "compose", "choose", "caption", "publish"}
        \/ ppicked # <<>>) => Imported

\* Attempts are counted, and none is begun with a session of the one before.
TryWell ==
  /\ ppc \in {"start", "import", "open"} => ptry < Attempts /\ ~psession
  /\ PSessionClosed

\* Nothing is submitted before the last tap, which is made once.
OnceWell ==
  /\ ppc \notin {"ok", "failed", "ended"} => pposts = <<>> /\ pdrafts.final = 0
  /\ PSubmittedOnce

\* From the composer on, the account is the wanted one unless the log says that
\* the switch was skipped.
AccountWell ==
  /\ (ppc \in {"compose", "choose", "caption", "publish"} /\ pjob.account /\ ~pwarned)
       => psigned = "wanted"
  /\ PRightAccount

PInv == PTypeOK /\ LibraryWell /\ TryWell /\ OnceWell /\ AccountWell /\ PRightClips

LEMMA ImportOrderIs ==
  ASSUME NEW n \in Nat
  PROVE  /\ ImportOrder(n) \in Seq(1..n) /\ Len(ImportOrder(n)) = n
         /\ \A i \in 1..n : ImportOrder(n)[i] = n - i + 1
BY DEF ImportOrder, Reverse

LEMMA JobIs ==
  ASSUME PTypeOK
  PROVE  /\ pjob \in Manifests /\ pjob.files \in Nat \ {0}
         /\ pjob.library \in Seq({0, -1}) /\ pjob.account \in BOOLEAN
BY PostFlowAssumption DEF PTypeOK, Manifests

\* The library once the files are in it.
LEMMA ImportedIs ==
  ASSUME PTypeOK, Imported
  PROVE  /\ plib \in Seq(-1..pjob.files) /\ Len(plib) = Len(pjob.library) + pjob.files
         /\ \A i \in 1..pjob.files : plib[Len(plib) - i + 1] = i
         /\ \A i \in 1..(Len(plib) - pjob.files) : plib[i] \in {0, -1}
<1> DEFINE n == pjob.files  lib == pjob.library  imp == ImportOrder(n)
<1>1. n \in Nat \ {0} /\ lib \in Seq({0, -1})
  BY JobIs
<1>2. imp \in Seq(1..n) /\ Len(imp) = n /\ \A i \in 1..n : imp[i] = n - i + 1
  BY <1>1, ImportOrderIs
<1>3. plib = lib \o imp /\ plib \in Seq(-1..n)
  BY DEF Imported, PTypeOK
<1> HIDE DEF n, lib, imp
<1>9. lib \in Seq(Int) /\ imp \in Seq(Int)
  BY <1>1, <1>2, SMTT(30)
<1>4. /\ Len(plib) = Len(lib) + n /\ Len(lib) \in Nat
      /\ \A i \in 1..Len(lib) + n : plib[i] = IF i <= Len(lib) THEN lib[i] ELSE imp[i - Len(lib)]
  <2>1. /\ Len(lib \o imp) = Len(lib) + Len(imp)
        /\ \A i \in 1..Len(lib) + Len(imp) :
             (lib \o imp)[i] = IF i <= Len(lib) THEN lib[i] ELSE imp[i - Len(lib)]
    BY <1>9, ConcatProperties, Zenon
  <2> QED
    BY <1>2, <1>3, <1>9, <2>1
<1>5. \A i \in 1..Len(lib) : plib[i] \in {0, -1}
  BY <1>1, <1>4
<1>6. \A i \in 1..n : plib[Len(lib) + i] = imp[i]
  <2> TAKE i \in 1..n
  <2>1. Len(lib) + i \in 1..Len(lib) + n /\ ~(Len(lib) + i <= Len(lib)) /\ Len(lib) + i - Len(lib) = i
    BY <1>1, <1>4
  <2> QED
    BY <1>4, <2>1
<1>7. ASSUME NEW i \in 1..n PROVE plib[Len(plib) - i + 1] = i
  <2>1. n - i + 1 \in 1..n /\ Len(plib) - i + 1 = Len(lib) + (n - i + 1)
    BY <1>1, <1>4
  <2>2. plib[Len(plib) - i + 1] = imp[n - i + 1]
    BY <2>1, <1>6
  <2>3. imp[n - i + 1] = n - (n - i + 1) + 1
    BY <2>1, <1>2
  <2> QED
    BY <2>2, <2>3, <1>1
<1>8. Len(plib) - n = Len(lib)
  BY <1>1, <1>4
<1> QED
  BY <1>3, <1>4, <1>5, <1>7, <1>8 DEF n, lib

\* The picker's cells are the library's clips, in one order or the other.
LEMMA CellsAre ==
  ASSUME PTypeOK, Imported
  PROVE  /\ Cells \in Seq(-1..pjob.files) /\ Len(Cells) = Len(plib)
         /\ Len(Cells) \in Nat /\ Len(Cells) >= pjob.files
         /\ (pjob.grid # "newestFirst" => Cells = plib)
         /\ (pjob.grid = "newestFirst" =>
               \A i \in 1..Len(Cells) : Cells[i] = plib[Len(plib) - i + 1])
<1>1. plib \in Seq(-1..pjob.files) /\ Len(plib) = Len(pjob.library) + pjob.files
      /\ Len(pjob.library) \in Nat /\ pjob.files \in Nat \ {0}
  BY ImportedIs, JobIs
<1>2. CASE pjob.grid = "newestFirst"
  <2>1. Cells = [i \in 1..Len(plib) |-> plib[Len(plib) - i + 1]]
    BY <1>2 DEF Cells, Reverse
  <2>2. \A i \in 1..Len(plib) : Len(plib) - i + 1 \in 1..Len(plib)
    BY <1>1
  <2> DEFINE len == Len(plib)  C == -1..pjob.files
  <2>3. len \in Nat /\ plib \in Seq(C)
    BY <1>1
  <2> HIDE DEF C
  <2>5. \A i \in 1..len : plib[len - i + 1] \in C
    BY <2>2, <2>3
  <2> HIDE DEF len
  <2>4. Cells \in Seq(C) /\ Len(Cells) = len /\ \A i \in 1..len : Cells[i] = plib[len - i + 1]
    BY <2>1, <2>3, <2>5 DEF len
  <2> QED
    BY <1>1, <1>2, <2>3, <2>4 DEF len, C
<1>3. CASE pjob.grid # "newestFirst"
  BY <1>1, <1>3 DEF Cells
<1> QED
  BY <1>2, <1>3

\* The cells a script takes first.
LEMMA FirstCellsAre ==
  ASSUME PTypeOK, Imported
  PROVE  /\ FirstCells(Cells) \in Seq(-1..pjob.files)
         /\ Len(FirstCells(Cells)) = pjob.files
         /\ \A i \in 1..pjob.files : FirstCells(Cells)[i] = Cells[i]
<1> DEFINE n == pjob.files  C == -1..n
<1>1. n \in Nat \ {0} /\ Cells \in Seq(C) /\ Len(Cells) >= n /\ Len(Cells) \in Nat
  BY JobIs, CellsAre
<1> HIDE DEF n, C
<1>2. \A i \in 1..n : Cells[i] \in C
  BY <1>1
<1>3. 1 \in Int /\ n \in Int /\ 1 <= n /\ n - 1 + 1 = n /\ \A i \in 1..n : 1 + i - 1 = i
  BY <1>1
<1>4. /\ SubSeq(Cells, 1, n) \in Seq(C) /\ Len(SubSeq(Cells, 1, n)) = n
      /\ \A i \in 1..n : SubSeq(Cells, 1, n)[i] = Cells[i]
  BY <1>2, <1>3, SubSeqProperties
<1> QED
  BY <1>4 DEF FirstCells, n, C

LEMMA ChoicesAreClips ==
  ASSUME PTypeOK, Imported, NEW picked \in PickerChoices
  PROVE  picked \in Seq(-1..pjob.files)
<1> DEFINE n == pjob.files  C == -1..n
<1>1. n \in Nat \ {0} /\ Cells \in Seq(C) /\ Len(Cells) >= n /\ Len(Cells) \in Nat
  BY JobIs, CellsAre
<1>2. FirstCells(Cells) \in Seq(C)
  BY FirstCellsAre
<1>3. ASSUME picked \in SingleChoices(Cells) PROVE picked \in Seq(C)
  <2>1. PICK i \in 1..Len(Cells) : picked = <<Cells[i]>>
    BY <1>1, <1>3 DEF SingleChoices, BottomRow
  <2>2. Cells[i] \in C
    BY <1>1
  <2> QED
    BY <2>1, <2>2
<1>4. ASSUME picked \in BadgeChoices(Cells) PROVE picked \in Seq(C)
  <2>1. PICK c \in {1, -1} : picked = <<c>>
    BY <1>4 DEF BadgeChoices, FirstLength
  <2>2. c \in C
    BY <1>1
  <2> QED
    BY <2>1, <2>2
<1>5. ASSUME picked \in FirstTimed(Cells) PROVE picked \in Seq(C)
  <2>1. PICK at \in [1..n -> DOMAIN Cells] : picked = [k \in 1..n |-> Cells[at[k]]]
    BY <1>5 DEF FirstTimed
  <2> HIDE DEF C, n
  <2>2. DOMAIN Cells = 1..Len(Cells)
    BY <1>1
  <2>3. \A k \in 1..n : Cells[at[k]] \in C
    BY <1>1, <2>1, <2>2
  <2> QED
    BY <1>1, <2>1, <2>3
<1> QED
  BY <1>2, <1>3, <1>4, <1>5 DEF PickerChoices, InstagramChoices, SeveralChoices

\* Where the grid has the order the path was written for, and no other clip is as
\* long as the first file, every choice of the picker is the files in their order.
AssumedGrid == IF pjob.plat = "tiktok" /\ pjob.files = 1 THEN "newestLast" ELSE "newestFirst"

LEMMA FirstCellsAreFiles ==
  ASSUME PTypeOK, Imported, pjob.grid = "newestFirst"
  PROVE  FirstCells(Cells) = FileNumbers
<1> DEFINE n == pjob.files
<1>1. n \in Nat \ {0} /\ Len(Cells) = Len(plib) /\ Len(Cells) >= n /\ Len(Cells) \in Nat
      /\ FirstCells(Cells) \in Seq(-1..n) /\ Len(FirstCells(Cells)) = n
  BY JobIs, CellsAre, FirstCellsAre
<1>2. \A i \in 1..n : FirstCells(Cells)[i] = i
  <2> TAKE i \in 1..n
  <2>1. i \in 1..Len(Cells)
    BY <1>1
  <2>2. FirstCells(Cells)[i] = Cells[i]
    BY FirstCellsAre
  <2>3. Cells[i] = plib[Len(plib) - i + 1]
    BY <2>1, CellsAre
  <2>4. plib[Len(plib) - i + 1] = i
    BY ImportedIs
  <2> QED
    BY <2>2, <2>3, <2>4
<1> QED
  BY <1>1, <1>2 DEF FileNumbers

\* The first file is in the library once.
LEMMA FirstFileOnce ==
  ASSUME PTypeOK, Imported, -1 \notin Range(plib),
         NEW i \in 1..Len(plib), plib[i] \in FirstLength
  PROVE  i = Len(plib) /\ plib[i] = 1
<1> DEFINE n == pjob.files
<1>1. n \in Nat \ {0} /\ plib \in Seq(-1..n) /\ Len(plib) >= n /\ Len(plib) \in Nat
  BY JobIs, CellsAre, ImportedIs
<1>2. plib[i] = 1
  BY <1>1 DEF FirstLength, Range
<1>3. i > Len(plib) - n
  BY <1>1, <1>2, ImportedIs, SMTT(30)
<1>4. PICK k \in 1..n : i = Len(plib) - k + 1
  <2>1. Len(plib) - i + 1 \in 1..n /\ i = Len(plib) - (Len(plib) - i + 1) + 1
    BY <1>1, <1>3
  <2> QED
    BY <2>1
<1>5. k = 1
  BY <1>2, <1>4, ImportedIs
<1> QED
  BY <1>1, <1>2, <1>4, <1>5

LEMMA ChoicesAreRight ==
  ASSUME PTypeOK, Imported, pjob.grid = AssumedGrid, -1 \notin Range(plib),
         NEW picked \in PickerChoices
  PROVE  picked = FileNumbers
<1> DEFINE n == pjob.files
<1>1. n \in Nat \ {0} /\ pjob.plat \in {"tiktok", "instagram"} /\ plib \in Seq(-1..n)
      /\ Len(plib) \in Nat /\ Len(plib) >= n
  BY JobIs, CellsAre, ImportedIs DEF Manifests
<1>2. CASE pjob.plat = "instagram"
  BY <1>2, FirstCellsAreFiles DEF PickerChoices, InstagramChoices, AssumedGrid
<1>3. CASE pjob.plat = "tiktok" /\ n = 1
  <2>1. Cells = plib
    BY <1>3, CellsAre DEF AssumedGrid
  <2>2. FileNumbers = <<1>>
    BY <1>3 DEF FileNumbers
  <2>3. plib[Len(plib)] = 1
    <3>1. plib[Len(plib) - 1 + 1] = 1 /\ Len(plib) - 1 + 1 = Len(plib)
      BY <1>1, ImportedIs
    <3> QED
      BY <3>1
  <2>4. ASSUME picked \in SingleChoices(plib) PROVE picked = <<1>>
    <3>1. PICK i \in 1..Len(plib) : picked = <<plib[i]>> /\ (plib[i] \in FirstLength \/ i = Len(plib))
      BY <1>1, <2>4 DEF SingleChoices, BottomRow, FirstLength
    <3>2. plib[i] = 1
      BY <2>3, <3>1, FirstFileOnce
    <3> QED
      BY <3>1, <3>2
  <2>5. ASSUME picked \in BadgeChoices(plib) PROVE picked = <<1>>
    BY <2>5 DEF BadgeChoices, FirstLength
  <2> QED
    BY <1>3, <2>1, <2>2, <2>4, <2>5 DEF PickerChoices
<1>4. CASE pjob.plat = "tiktok" /\ n # 1
  <2>1. pjob.grid = "newestFirst"
    BY <1>4 DEF AssumedGrid
  <2>2. ASSUME picked \in FirstTimed(Cells) PROVE FALSE
    <3>1. PICK at \in [1..n -> {i \in 1..Len(plib) : Cells[i] \in FirstLength}] :
            \A j, k \in 1..n : j < k => at[j] < at[k]
      <4>1. DOMAIN Cells = 1..Len(plib)
        BY <1>1, CellsAre
      <4> DEFINE timed == {i \in DOMAIN Cells : Cells[i] \in FirstLength}
      <4>2. PICK f \in [1..n -> timed] : \A j, k \in 1..n : j < k => f[j] < f[k]
        BY <2>2 DEF FirstTimed
      <4> QED
        BY <4>1, <4>2
    <3>2. ASSUME NEW i \in 1..Len(plib), Cells[i] \in FirstLength PROVE i = 1
      <4>1. Len(plib) - i + 1 \in 1..Len(plib) /\ plib[Len(plib) - i + 1] \in FirstLength
        BY <1>1, <2>1, <3>2, CellsAre
      <4>2. Len(plib) - i + 1 = Len(plib)
        BY <4>1, FirstFileOnce
      <4> QED
        BY <1>1, <4>2
    <3>3. 1 \in 1..n /\ 2 \in 1..n /\ 1 < 2
      BY <1>1, <1>4
    <3>4. at[1] = 1 /\ at[2] = 1
      BY <3>1, <3>2, <3>3
    <3>5. at[1] < at[2]
      BY <3>1, <3>3
    <3> QED
      BY <3>4, <3>5
  <2>3. picked = FirstCells(Cells)
    BY <1>4, <2>2 DEF PickerChoices, SeveralChoices
  <2> QED
    BY <2>1, <2>3, FirstCellsAreFiles
<1> QED
  BY <1>1, <1>2, <1>3, <1>4

\* The library is full once the script goes on, and no conjunct looks at what the
\* step leaves alone.
LEMMA InitHasPInv == PInit => PInv
<1> SUFFICES ASSUME PInit PROVE PInv
  OBVIOUS
<1>1. /\ pjob \in Manifests /\ pjob.files \in Nat \ {0} /\ pjob.library \in Seq({0, -1})
      /\ Attempts \in Nat \ {0}
  BY PostFlowAssumption DEF PInit, Manifests
<1>2. PTypeOK
  <2>1. plib \in Seq(-1..pjob.files)
    <3>1. pjob.library \in Seq(-1..pjob.files)
      BY <1>1
    <3> QED
      BY <3>1 DEF PInit
  <2>2. {pwarned, pleft, psession, pleaked} \subseteq BOOLEAN
    BY DEF PInit
  <2> QED
    BY <1>1, <2>1, <2>2 DEF PInit, PTypeOK, PRunning
<1>3. LibraryWell /\ TryWell /\ PRightClips
  BY <1>1 DEF PInit, LibraryWell, TryWell, PSessionClosed, PRightClips
<1>4. OnceWell /\ AccountWell
  BY DEF PInit, OnceWell, PSubmittedOnce, AccountWell, PRightAccount
<1> QED
  BY <1>2, <1>3, <1>4 DEF PInv

\* What a failed attempt leaves: the next one, or the end.
LEMMA FailedAttempt ==
  ASSUME PTypeOK, NEW try \in 0..Attempts, NEW left \in BOOLEAN, AttemptFails(try, left)
  PROVE  /\ pleft' \in BOOLEAN /\ psession' = FALSE /\ pleaked' \in BOOLEAN
         /\ \/ ppc' = "open" /\ try < Attempts /\ pexit' = pexit
            \/ ppc' = "ended" /\ pexit' = 1
<1>1. pleaked \in BOOLEAN
  BY DEF PTypeOK
<1> QED
  BY <1>1, PostFlowAssumption DEF AttemptFails, Ends

LEMMA StartKeepsPInv == PInv /\ PStart => PInv'
<1> SUFFICES ASSUME PInv, PStart PROVE PInv'
  OBVIOUS
<1> USE DEF PInv
<1>1. /\ UNCHANGED <<pjob, ptry, plib, psigned, pwarned, pscreen, ppicked, pleft, psession,
                     pleaked, pposts, pdrafts>>
      /\ ppc = "start"
      /\ \/ ppc' = "ended" /\ pexit' = 1
         \/ ppc' = "import" /\ pexit' = pexit
  BY DEF PStart, ThrowsEarly, Ends
<1>2. PTypeOK'
  BY <1>1 DEF PTypeOK, PRunning
<1>3. LibraryWell' /\ TryWell'
  BY <1>1 DEF LibraryWell, Imported, TryWell, PSessionClosed
<1>4. OnceWell' /\ AccountWell'
  BY <1>1 DEF OnceWell, PSubmittedOnce, AccountWell, PRightAccount
<1>5. PRightClips'
  BY <1>1 DEF PRightClips, FileNumbers
<1> QED
  BY <1>2, <1>3, <1>4, <1>5

LEMMA ImportKeepsPInv == PInv /\ PImport => PInv'
<1> SUFFICES ASSUME PInv, PImport PROVE PInv'
  OBVIOUS
<1> USE DEF PInv
<1> DEFINE n == pjob.files  imp == ImportOrder(n)
<1>1. /\ n \in Nat \ {0} /\ imp \in Seq(1..n) /\ Len(imp) = n
      /\ pjob.library \in Seq({0, -1})
  BY JobIs, ImportOrderIs
<1>2. PICK done \in 0..n :
        /\ plib' = plib \o SubSeq(imp, 1, done)
        /\ \/ done = n /\ ppc' = "open" /\ pexit' = pexit
           \/ done # n /\ ppc' = "ended" /\ pexit' = 1
        /\ UNCHANGED <<pjob, ptry, psigned, pwarned, pscreen, ppicked, pleft, psession,
                       pleaked, pposts, pdrafts>>
  BY DEF PImport, ThrowsEarly, Ends
<1>3. ppc = "import" /\ plib = pjob.library /\ ppicked = <<>>
  BY DEF PImport, LibraryWell
<1> HIDE DEF imp
<1>4. SubSeq(imp, 1, done) \in Seq(1..n) /\ (done = n => SubSeq(imp, 1, done) = imp)
  <2>1. \A i \in 1..done : imp[i] \in 1..n
    BY <1>1, SMTT(30)
  <2>2. /\ SubSeq(imp, 1, done) \in Seq(1..n)
        /\ Len(SubSeq(imp, 1, done)) = IF 1 <= done THEN done - 1 + 1 ELSE 0
        /\ \A i \in 1..(done - 1 + 1) : SubSeq(imp, 1, done)[i] = imp[1 + i - 1]
    BY <2>1, SubSeqProperties
  <2>3. ASSUME done = n PROVE SubSeq(imp, 1, done) = imp
    <3>1. Len(SubSeq(imp, 1, n)) = Len(imp) /\ \A i \in 1..n : SubSeq(imp, 1, n)[i] = imp[i]
      BY <1>1, <2>2, <2>3
    <3> QED
      BY <1>1, <2>2, <2>3, <3>1, SeqEqual
  <2> QED
    BY <2>2, <2>3
<1>5. PTypeOK'
  <2>1. plib' \in Seq(-1..n)
    <3>1. plib \in Seq(-1..n) /\ SubSeq(imp, 1, done) \in Seq(-1..n)
      BY <1>1, <1>4, SMTT(30) DEF PTypeOK
    <3> QED
      BY <1>2, <3>1, ConcatProperties
  <2> QED
    BY <1>2, <1>3, <2>1 DEF PTypeOK, PRunning
<1>6. LibraryWell'
  <2>1. ppc' = "open" => Imported'
    BY <1>2, <1>3, <1>4 DEF Imported, imp
  <2> QED
    BY <1>2, <1>3, <2>1 DEF LibraryWell
<1>7. TryWell'
  BY <1>2, <1>3 DEF TryWell, PSessionClosed
<1>8. OnceWell' /\ AccountWell'
  BY <1>2, <1>3 DEF OnceWell, PSubmittedOnce, AccountWell, PRightAccount
<1>9. PRightClips'
  BY <1>2, <1>3 DEF PRightClips
<1> QED
  BY <1>5, <1>6, <1>7, <1>8, <1>9

LEMMA OpenKeepsPInv == PInv /\ POpen => PInv'
<1> SUFFICES ASSUME PInv, POpen PROVE PInv'
  OBVIOUS
<1> USE DEF PInv
<1>1. ppc = "open" /\ ptry \in 0..Attempts /\ ptry < Attempts /\ pjob.account \in BOOLEAN
  BY JobIs DEF POpen, TryWell, PTypeOK
<1>2. /\ ptry' = ptry + 1 /\ ptry' \in 0..Attempts /\ ppicked' = <<>>
      /\ UNCHANGED <<pjob, plib, psigned, pwarned, pposts, pdrafts>>
  BY <1>1, PostFlowAssumption DEF POpen, NextTry
<1>3. \/ /\ ppc' = IF pjob.account THEN "switch" ELSE "compose"
         /\ psession' = TRUE /\ pscreen' \in {"home", "elsewhere"}
         /\ UNCHANGED <<pleft, pleaked, pexit>>
      \/ /\ pleft' \in BOOLEAN /\ psession' = FALSE /\ pleaked' \in BOOLEAN /\ pscreen' = pscreen
         /\ \/ ppc' = "open" /\ ptry' < Attempts /\ pexit' = pexit
            \/ ppc' = "ended" /\ pexit' = 1
  <2>1. CASE AttemptFails(NextTry, pleft) /\ UNCHANGED pscreen
    <3>1. NextTry \in 0..Attempts /\ NextTry = ptry' /\ pleft \in BOOLEAN
      BY <1>2 DEF NextTry, PTypeOK
    <3> QED
      BY <2>1, <3>1, FailedAttempt
  <2> QED
    BY <2>1 DEF POpen
<1>8. /\ pexit = 2 /\ {pwarned, pleft, psession, pleaked} \subseteq BOOLEAN
      /\ pscreen \in {"closed", "home", "elsewhere", "gallery", "caption", "away"}
  BY <1>1 DEF PTypeOK, PRunning
<1>9. /\ ppc' \in {"switch", "compose", "open", "ended"} /\ pexit' \in {1, 2}
      /\ (pexit' = 2 <=> ppc' # "ended")
  BY <1>3, <1>8
<1>10. /\ pleft' \in BOOLEAN /\ psession' \in BOOLEAN /\ pleaked' \in BOOLEAN
       /\ pscreen' \in {"closed", "home", "elsewhere", "gallery", "caption", "away"}
  BY <1>3, <1>8
<1>4. PTypeOK'
  <2>1. {pwarned, pleft, psession, pleaked}' \subseteq BOOLEAN
    BY <1>2, <1>8, <1>10
  <2> QED
    BY <1>2, <1>9, <1>10, <2>1 DEF PTypeOK, PRunning
<1>5. LibraryWell' /\ TryWell'
  <2>1. LibraryWell'
    BY <1>1, <1>2, <1>9 DEF LibraryWell, Imported
  <2>2. (pexit' = 1 \/ ppc' = "open") => psession' = FALSE
    BY <1>3, <1>8
  <2>3. ppc' = "open" => ptry' < Attempts
    BY <1>3
  <2> QED
    BY <1>9, <2>1, <2>2, <2>3 DEF TryWell, PSessionClosed
<1>6. OnceWell' /\ AccountWell'
  BY <1>1, <1>2, <1>3 DEF OnceWell, PSubmittedOnce, AccountWell, PRightAccount
<1>7. PRightClips'
  BY <1>2 DEF PRightClips
<1> QED
  BY <1>4, <1>5, <1>6, <1>7

LEMMA SwitchKeepsPInv == PInv /\ PSwitch => PInv'
<1> SUFFICES ASSUME PInv, PSwitch PROVE PInv'
  OBVIOUS
<1> USE DEF PInv
<1>1. ppc = "switch" /\ UNCHANGED <<pjob, ptry, plib, ppicked, pposts, pdrafts>>
      /\ pwarned \in BOOLEAN /\ psigned \in {"wanted", "other"}
  BY DEF PSwitch, PTypeOK
<1>2. \/ /\ psigned' \in {"wanted", "other"} /\ pwarned' \in BOOLEAN
         /\ (~pwarned' => psigned' = "wanted" /\ ~pwarned)
         /\ ppc' = "compose" /\ pscreen' = "elsewhere"
         /\ UNCHANGED <<pleft, psession, pleaked, pexit>>
      \/ /\ pleft' \in BOOLEAN /\ psession' = FALSE /\ pleaked' \in BOOLEAN
         /\ \/ ppc' = "open" /\ ptry < Attempts /\ pexit' = pexit
            \/ ppc' = "ended" /\ pexit' = 1
         /\ UNCHANGED <<psigned, pwarned, pscreen>>
  <2>1. ASSUME NEW o \in SwitchOutcomes, psigned' = o.signed, pwarned' = (pwarned \/ ~o.ok)
        PROVE  /\ psigned' \in {"wanted", "other"} /\ pwarned' \in BOOLEAN
               /\ (~pwarned' => psigned' = "wanted" /\ ~pwarned)
    BY <1>1, <2>1 DEF SwitchOutcomes
  <2>2. CASE AttemptFails(ptry, pleft) /\ UNCHANGED <<psigned, pwarned, pscreen>>
    BY <2>2, FailedAttempt DEF PTypeOK
  <2> QED
    BY <2>1, <2>2 DEF PSwitch
<1>7. /\ pexit = 2 /\ {pwarned, pleft, psession, pleaked} \subseteq BOOLEAN
      /\ pscreen \in {"closed", "home", "elsewhere", "gallery", "caption", "away"}
  BY <1>1 DEF PTypeOK, PRunning
<1>8. /\ ppc' \in {"compose", "open", "ended"} /\ pexit' \in {1, 2}
      /\ (pexit' = 2 <=> ppc' # "ended")
  BY <1>2, <1>7
<1>9. /\ pleft' \in BOOLEAN /\ psession' \in BOOLEAN /\ pleaked' \in BOOLEAN
      /\ pwarned' \in BOOLEAN /\ psigned' \in {"wanted", "other"}
      /\ pscreen' \in {"closed", "home", "elsewhere", "gallery", "caption", "away"}
  BY <1>1, <1>2, <1>7
<1>3. PTypeOK'
  <2>1. {pwarned, pleft, psession, pleaked}' \subseteq BOOLEAN
    BY <1>9
  <2> QED
    BY <1>1, <1>8, <1>9, <2>1 DEF PTypeOK, PRunning
<1>4. LibraryWell' /\ TryWell'
  <2>1. LibraryWell'
    BY <1>1, <1>8 DEF LibraryWell, Imported
  <2>2. (pexit' = 1 \/ ppc' = "open") => psession' = FALSE
    BY <1>2, <1>7
  <2>3. ppc' = "open" => ptry' < Attempts
    BY <1>1, <1>2
  <2> QED
    BY <1>8, <2>1, <2>2, <2>3 DEF TryWell, PSessionClosed
<1>5. OnceWell' /\ AccountWell'
  BY <1>1, <1>2 DEF OnceWell, PSubmittedOnce, AccountWell, PRightAccount
<1>6. PRightClips'
  BY <1>1 DEF PRightClips, FileNumbers
<1> QED
  BY <1>3, <1>4, <1>5, <1>6

\* A step on the way to the caption screen: the app and the composer change, and
\* the script goes on, tries again or ends.
LEMMA AttemptGoesOn ==
  ASSUME PInv, ppc \in {"compose", "choose"},
         UNCHANGED <<pjob, ptry, plib, psigned, pwarned, pposts>>,
         pdrafts' \in [abandoned : Nat, final : Nat], pdrafts'.final = pdrafts.final,
         pscreen' \in {"closed", "home", "elsewhere", "gallery", "caption", "away"},
         pleft' \in BOOLEAN, ppicked' \in Seq(-1..pjob.files),
         \/ ppc' \in {"choose", "caption"} /\ UNCHANGED <<psession, pleaked, pexit>>
         \/ /\ psession' = FALSE /\ pleaked' \in BOOLEAN
            /\ \/ ppc' = "open" /\ ptry < Attempts /\ pexit' = pexit
               \/ ppc' = "ended" /\ pexit' = 1
  PROVE  PTypeOK' /\ LibraryWell' /\ TryWell' /\ OnceWell' /\ AccountWell'
<1> USE DEF PInv
<1>1. pexit = 2 /\ {pwarned, pleft, psession, pleaked} \subseteq BOOLEAN
  BY DEF PTypeOK, PRunning
<1>2. /\ ppc' \in {"choose", "caption", "open", "ended"} /\ pexit' \in {1, 2}
      /\ (pexit' = 2 <=> ppc' # "ended")
  BY <1>1
<1>3. PTypeOK'
  <2>1. {pwarned, pleft, psession, pleaked}' \subseteq BOOLEAN
    BY <1>1
  <2> QED
    BY <1>2, <2>1 DEF PTypeOK, PRunning
<1>4. LibraryWell'
  BY <1>2 DEF LibraryWell, Imported
<1>5. TryWell'
  BY <1>1, <1>2 DEF TryWell, PSessionClosed
<1>6. OnceWell'
  BY <1>2 DEF OnceWell, PSubmittedOnce
<1>7. AccountWell'
  BY <1>2 DEF AccountWell, PRightAccount
<1> QED
  BY <1>3, <1>4, <1>5, <1>6, <1>7

LEMMA ComposeKeepsPInv == PInv /\ PCompose => PInv'
<1> SUFFICES ASSUME PInv, PCompose PROVE PInv'
  OBVIOUS
<1> USE DEF PInv
<1>1. PICK saves \in BOOLEAN :
        /\ pdrafts' = IF saves THEN [pdrafts EXCEPT !.abandoned = @ + 1] ELSE pdrafts
        /\ \/ /\ ppc' = "choose" /\ pscreen' \in {"gallery", "elsewhere"}
              /\ pleft' = (pleft /\ ~saves) /\ UNCHANGED <<psession, pleaked, pexit>>
           \/ AttemptFails(ptry, pleft /\ ~saves) /\ UNCHANGED pscreen
  <2> DEFINE s == IF pjob.plat = "tiktok" THEN ComposeTikTok ELSE ComposeInstagram
  <2>1. s \in BOOLEAN
    BY DEF ComposeTikTok, ComposeInstagram
  <2> QED
    BY <2>1 DEF PCompose
<1>2. ppc = "compose" /\ UNCHANGED <<pjob, ptry, plib, psigned, pwarned, ppicked, pposts>>
  BY DEF PCompose
<1>3. /\ pleft \in BOOLEAN /\ ptry \in 0..Attempts /\ pdrafts \in [abandoned : Nat, final : Nat]
      /\ pscreen \in {"closed", "home", "elsewhere", "gallery", "caption", "away"}
      /\ ppicked \in Seq(-1..pjob.files)
  BY DEF PTypeOK
<1>4. pdrafts' \in [abandoned : Nat, final : Nat] /\ pdrafts'.final = pdrafts.final
  BY <1>1, <1>3
<1>5. PTypeOK' /\ LibraryWell' /\ TryWell' /\ OnceWell' /\ AccountWell'
  <2>1. CASE /\ ppc' = "choose" /\ pscreen' \in {"gallery", "elsewhere"}
             /\ pleft' = (pleft /\ ~saves) /\ UNCHANGED <<psession, pleaked, pexit>>
    BY <1>2, <1>3, <1>4, <2>1, AttemptGoesOn
  <2>2. CASE AttemptFails(ptry, pleft /\ ~saves) /\ UNCHANGED pscreen
    <3>1. (pleft /\ ~saves) \in BOOLEAN
      OBVIOUS
    <3>2. /\ pleft' \in BOOLEAN /\ psession' = FALSE /\ pleaked' \in BOOLEAN
          /\ \/ ppc' = "open" /\ ptry < Attempts /\ pexit' = pexit
             \/ ppc' = "ended" /\ pexit' = 1
      BY <1>3, <2>2, <3>1, FailedAttempt
    <3> QED
      BY <1>2, <1>3, <1>4, <2>2, <3>2, AttemptGoesOn
  <2> QED
    BY <1>1, <2>1, <2>2
<1>6. PRightClips'
  BY <1>2 DEF PRightClips, FileNumbers
<1> QED
  BY <1>5, <1>6

LEMMA ChooseKeepsPInv == PInv /\ PChoose => PInv'
<1> SUFFICES ASSUME PInv, PChoose PROVE PInv'
  OBVIOUS
<1> USE DEF PInv
<1>1. ppc = "choose" /\ UNCHANGED <<pjob, ptry, plib, psigned, pwarned, pposts, pdrafts>>
  BY DEF PChoose
<1>2. /\ pleft \in BOOLEAN /\ ptry \in 0..Attempts /\ pdrafts \in [abandoned : Nat, final : Nat]
      /\ pscreen \in {"closed", "home", "elsewhere", "gallery", "caption", "away"}
      /\ ppicked \in Seq(-1..pjob.files) /\ Imported
  BY <1>1 DEF PTypeOK, LibraryWell
<1>3. ppicked' = ppicked \/ ppicked' \in PickerChoices
  BY DEF PChoose
<1>4. ppicked' \in Seq(-1..pjob.files)
  BY <1>2, <1>3, ChoicesAreClips
<1>5. /\ pscreen' \in {"closed", "home", "elsewhere", "gallery", "caption", "away"}
      /\ pleft' \in BOOLEAN
      /\ \/ ppc' \in {"choose", "caption"} /\ UNCHANGED <<psession, pleaked, pexit>>
         \/ /\ psession' = FALSE /\ pleaked' \in BOOLEAN
            /\ \/ ppc' = "open" /\ ptry < Attempts /\ pexit' = pexit
               \/ ppc' = "ended" /\ pexit' = 1
  <2>1. \/ /\ ppc' = "caption" /\ pscreen' \in {pscreen, "caption", "elsewhere"}
           /\ UNCHANGED <<pleft, psession, pleaked, pexit>>
        \/ AttemptFails(ptry, TRUE) /\ UNCHANGED pscreen
        \/ AttemptFails(ptry, pleft) /\ UNCHANGED pscreen
    BY DEF PChoose
  <2>2. CASE AttemptFails(ptry, TRUE) /\ UNCHANGED pscreen
    BY <1>2, <2>2, FailedAttempt
  <2>3. CASE AttemptFails(ptry, pleft) /\ UNCHANGED pscreen
    BY <1>2, <2>3, FailedAttempt
  <2> QED
    BY <1>2, <2>1, <2>2, <2>3
<1>6. PTypeOK' /\ LibraryWell' /\ TryWell' /\ OnceWell' /\ AccountWell'
  BY <1>1, <1>2, <1>4, <1>5, AttemptGoesOn
<1>7. PRightClips'
  <2> SUFFICES ASSUME pjob.grid = AssumedGrid, -1 \notin Range(plib), ppicked' # <<>>
               PROVE  ppicked' = FileNumbers
    BY <1>1 DEF PRightClips, AssumedGrid, FileNumbers
  <2>1. CASE ppicked' = ppicked
    BY <2>1 DEF PRightClips, AssumedGrid
  <2>2. CASE ppicked' \in PickerChoices
    BY <1>2, <2>2, ChoicesAreRight
  <2> QED
    BY <1>3, <2>1, <2>2
<1> QED
  BY <1>6, <1>7

LEMMA CaptionKeepsPInv == PInv /\ PCaption => PInv'
<1> SUFFICES ASSUME PInv, PCaption PROVE PInv'
  OBVIOUS
<1> USE DEF PInv
<1>1. /\ ppc = "caption" /\ ppc' \in {"publish", "ok", "failed"}
      /\ UNCHANGED <<pjob, ptry, plib, psigned, pwarned, pscreen, ppicked, pleft,
                     psession, pleaked, pposts, pdrafts, pexit>>
  BY DEF PCaption
<1>2. PTypeOK'
  BY <1>1 DEF PTypeOK, PRunning
<1>3. LibraryWell' /\ TryWell'
  BY <1>1 DEF LibraryWell, Imported, TryWell, PSessionClosed, PTypeOK, PRunning
<1>4. OnceWell' /\ AccountWell'
  BY <1>1 DEF OnceWell, PSubmittedOnce, AccountWell, PRightAccount
<1>5. PRightClips'
  BY <1>1 DEF PRightClips, FileNumbers
<1> QED
  BY <1>2, <1>3, <1>4, <1>5

LEMMA PublishKeepsPInv == PInv /\ PPublish => PInv'
<1> SUFFICES ASSUME PInv, PPublish PROVE PInv'
  OBVIOUS
<1> USE DEF PInv
<1>1. /\ ppc = "publish" /\ ppc' \in {"ok", "failed"}
      /\ UNCHANGED <<pjob, ptry, plib, psigned, pwarned, pleft, psession, pleaked, pexit>>
  BY DEF PPublish, AfterPublish
<1>2. /\ pposts = <<>> /\ pdrafts.final = 0 /\ pdrafts \in [abandoned : Nat, final : Nat]
      /\ ppicked \in Seq(-1..pjob.files) /\ psigned \in {"wanted", "other"}
      /\ pscreen \in {"closed", "home", "elsewhere", "gallery", "caption", "away"}
  BY <1>1 DEF OnceWell, PTypeOK
<1>3. \/ /\ pscreen' = "away" /\ ppicked' = <<>>
         /\ pposts' = Append(pposts, [clips |-> ppicked, by |-> psigned]) /\ pdrafts' = pdrafts
      \/ /\ pscreen' = "away" /\ ppicked' = <<>>
         /\ pdrafts' = [pdrafts EXCEPT !.final = @ + 1] /\ pposts' = pposts
      \/ UNCHANGED <<pscreen, ppicked, pposts, pdrafts>>
  BY DEF PPublish
<1>4. /\ pposts' \in Seq([clips : Seq(-1..pjob.files), by : {"wanted", "other"}])
      /\ pdrafts' \in [abandoned : Nat, final : Nat]
      /\ Len(pposts') + pdrafts'.final <= 1
      /\ \A i \in DOMAIN pposts' : pposts'[i].by = psigned
  <2>1. PICK post : post = [clips |-> ppicked, by |-> psigned]
    OBVIOUS
  <2>2. post \in [clips : Seq(-1..pjob.files), by : {"wanted", "other"}] /\ post.by = psigned
    BY <1>2, <2>1
  <2>3. CASE pposts' = Append(pposts, post) /\ pdrafts' = pdrafts
    <3>1. pposts' = <<post>>
      BY <1>2, <2>3
    <3> QED
      BY <1>2, <2>2, <2>3, <3>1
  <2>4. CASE pdrafts' = [pdrafts EXCEPT !.final = @ + 1] /\ pposts' = pposts
    BY <1>2, <2>4
  <2>5. CASE pdrafts' = pdrafts /\ pposts' = pposts
    BY <1>2, <2>5
  <2> QED
    BY <1>3, <2>1, <2>3, <2>4, <2>5
<1>5. PTypeOK'
  <2>1. /\ ppicked' \in Seq(-1..pjob.files)
        /\ pscreen' \in {"closed", "home", "elsewhere", "gallery", "caption", "away"}
    <3>1. <<>> \in Seq(-1..pjob.files)
      OBVIOUS
    <3> QED
      BY <1>2, <1>3, <3>1
  <2>2. {pwarned, pleft, psession, pleaked}' \subseteq BOOLEAN
    BY <1>1 DEF PTypeOK
  <2> QED
    BY <1>1, <1>4, <2>1, <2>2 DEF PTypeOK, PRunning
<1>6. LibraryWell' /\ TryWell'
  BY <1>1, <1>3 DEF LibraryWell, Imported, TryWell, PSessionClosed, PTypeOK, PRunning
<1>7. OnceWell'
  BY <1>1, <1>4 DEF OnceWell, PSubmittedOnce
<1>8. AccountWell'
  BY <1>1, <1>4 DEF AccountWell, PRightAccount
<1>9. PRightClips'
  BY <1>1, <1>3 DEF PRightClips, FileNumbers
<1> QED
  BY <1>5, <1>6, <1>7, <1>8, <1>9

\* The end of a script, by its own or by a kill, submits nothing.
LEMMA EndKeepsPInv == PInv /\ (PClose \/ PKill) => PInv'
<1> SUFFICES ASSUME PInv, PClose \/ PKill PROVE PInv'
  OBVIOUS
<1> USE DEF PInv
<1>1. /\ ppc' = "ended" /\ pexit' \in {0, 1, 3}
      /\ (pexit' \in {0, 1} => ~psession')
      /\ psession' \in BOOLEAN /\ pleaked' \in BOOLEAN
      /\ UNCHANGED <<pjob, ptry, plib, psigned, pwarned, pscreen, ppicked, pleft, pposts, pdrafts>>
  <2>1. psession \in BOOLEAN /\ pleaked \in BOOLEAN
    BY DEF PTypeOK
  <2>2. CASE PClose
    BY <2>1, <2>2 DEF PClose, Ends
  <2>3. CASE PKill
    BY <2>1, <2>3 DEF PKill, Ends
  <2> QED
    BY <2>2, <2>3
<1>2. PTypeOK'
  <2>1. {pwarned, pleft, psession, pleaked}' \subseteq BOOLEAN
    BY <1>1 DEF PTypeOK
  <2> QED
    BY <1>1, <2>1 DEF PTypeOK, PRunning
<1>3. LibraryWell' /\ TryWell'
  BY <1>1 DEF LibraryWell, Imported, TryWell, PSessionClosed
<1>4. OnceWell' /\ AccountWell'
  BY <1>1 DEF OnceWell, PSubmittedOnce, AccountWell, PRightAccount
<1>5. PRightClips'
  BY <1>1 DEF PRightClips, FileNumbers
<1> QED
  BY <1>2, <1>3, <1>4, <1>5

LEMMA NextKeepsPInv == PInv /\ [PNext]_pVars => PInv'
<1> SUFFICES ASSUME PInv, [PNext]_pVars PROVE PInv'
  OBVIOUS
<1>1. CASE PNext
  BY <1>1, StartKeepsPInv, ImportKeepsPInv, OpenKeepsPInv, SwitchKeepsPInv, ComposeKeepsPInv,
     ChooseKeepsPInv, CaptionKeepsPInv, PublishKeepsPInv, EndKeepsPInv DEF PNext, PStep
<1>2. CASE UNCHANGED pVars
  <2>1. PTypeOK' /\ LibraryWell' /\ TryWell'
    BY <1>2 DEF pVars, PInv, PTypeOK, PRunning, LibraryWell, Imported, TryWell, PSessionClosed
  <2>2. OnceWell' /\ AccountWell' /\ PRightClips'
    BY <1>2 DEF pVars, PInv, OnceWell, PSubmittedOnce, AccountWell, PRightAccount, PRightClips,
                FileNumbers
  <2> QED
    BY <2>1, <2>2 DEF PInv
<1> QED
  BY <1>1, <1>2

\* However often the app is relaunched, and whatever fails on the way, a script submits
\* at most once, under the account it names, and closes its session (post.ts:662-726).
THEOREM SubmittedOnce == PSpec => []PSafe
<1>1. PInv => PSafe
  BY DEF PInv, PSafe, OnceWell, AccountWell, TryWell
<1> QED
  BY <1>1, InitHasPInv, NextKeepsPInv, PTL DEF PSpec

\* Where the picker's grid has the order the path was written for, the clips in the
\* composer are the manifest's files in their order, for any number of files and any
\* library (post.ts:289-297, post-runtime.ts:29, post-layout.ts:14-18).
THEOREM RightClips == PSpec => []PRightClips
<1>1. PInv => PRightClips
  BY DEF PInv
<1> QED
  BY <1>1, InitHasPInv, NextKeepsPInv, PTL DEF PSpec

-----------------------------------------------------------------------------
(* Cold messages.                                                          *)

\* A run has a lead in work between the opening of its thread and the record of
\* its outcome; the lead is one of those it picked.
InWork(r) == orun[r].pc \in {"open", "send", "mark", "write"}
WorkWell(run) ==
  /\ run.pc \in {"open", "send", "mark", "write"} <=> run.lead # "none"
  /\ run.lead # "none" => run.lead \in run.todo
  /\ run.pc \in OEnded => run.todo = {}
  /\ run.pc \in {"mark", "write"} => run.outcome \in {"sent", "failed"}
  /\ run.pc \in {"open", "next", "idle"} => run.outcome = "none"
  /\ run.pc = "send" => run.outcome \in {"none", "gone"} /\ run.thread \in {run.lead, "namesake"}

\* What a run knows of its lead is so, and what it read of the others was: a message
\* that is gone reached the lead or somebody else, and "sent" has its reason.
Reason(l) == ogot[l] > 0 \/ l \in ostray \cup omisread
ReasonsWell(r) ==
  /\ orun[r].pc = "send" =>
       /\ orun[r].thread # Lead(r) => Lead(r) \in ostray
       /\ (orun[r].outcome = "gone" /\ orun[r].thread = Lead(r)) => ogot[Lead(r)] > 0
  /\ (orun[r].pc \in {"mark", "write"} /\ orun[r].outcome = "sent") => Reason(Lead(r))
  /\ \A l \in Leads : orun[r].seen[l] = "sent" => Reason(l)

RunsWell == \A r \in Runs : WorkWell(orun[r])
SentInv ==
  /\ OTypeOK /\ RunsWell /\ OSentWasReceived
  /\ \A r \in Runs : ReasonsWell(r)

\* What a step of a run leaves: its own record, and the other runs as they were.
LEMMA PutIs ==
  ASSUME OTypeOK, NEW r \in Runs, NEW rec, Put(r, rec)
  PROVE  orun'[r] = rec /\ \A q \in Runs \ {r} : orun'[q] = orun[q]
BY DEF OTypeOK, Put

LEMMA PutKeepsTypes ==
  ASSUME OTypeOK, NEW r \in Runs, NEW rec \in RunStates, Put(r, rec)
  PROVE  orun' \in [Runs -> RunStates]
BY DEF OTypeOK, Put

LEMMA IdleRunIs ==
  /\ IdleRun \in RunStates /\ IdleRun.todo = {} /\ IdleRun.lead = "none"
  /\ IdleRun.outcome = "none" /\ IdleRun.seen = [l \in Leads |-> "none"]
  /\ IdleRun.pc = "idle"
BY DEF IdleRun, RunStates, OEnded, ContactState

\* What a run's record becomes in a step, for each of its parts.
LEMMA PickIs ==
  ASSUME OTypeOK, RunsWell, NEW r \in Runs, OPick(r)
  PROVE  \E rec \in RunStates, s \in SUBSET olist :
           /\ Put(r, rec) /\ orun[r].pc = "idle"
           /\ \A l \in s : Pickable(l)
           /\ \/ s = {} /\ rec.pc = "error"
              \/ rec.pc = "next"
           /\ rec.todo = s /\ rec.lead = "none" /\ rec.outcome = "none"
           /\ rec.seen = orun[r].seen
<1> DEFINE run == orun[r]
<1>1. run \in RunStates /\ run.pc = "idle" /\ run.todo = {} /\ run.lead = "none"
      /\ run.outcome = "none" /\ olist \subseteq Leads
  BY DEF OPick, OTypeOK, RunsWell, WorkWell, OEnded
<1>2. CASE Put(r, [run EXCEPT !.pc = "error"])
  <2>1. PICK rec : rec = [run EXCEPT !.pc = "error"]
    OBVIOUS
  <2>2. rec \in RunStates /\ rec.pc = "error" /\ rec.todo = {} /\ rec.lead = "none"
        /\ rec.outcome = "none" /\ rec.seen = run.seen
    BY <1>1, <2>1 DEF RunStates, OEnded
  <2> QED
    BY <1>1, <1>2, <2>1, <2>2
<1>3. ASSUME NEW s \in SUBSET {l \in olist : Pickable(l)},
             Put(r, [run EXCEPT !.pc = "next", !.todo = s])
      PROVE  \E rec \in RunStates :
               /\ Put(r, rec) /\ rec.pc = "next" /\ rec.todo = s /\ rec.lead = "none"
               /\ rec.outcome = "none" /\ rec.seen = run.seen
  <2>1. PICK rec : rec = [run EXCEPT !.pc = "next", !.todo = s]
    OBVIOUS
  <2>2. rec \in RunStates /\ rec.pc = "next" /\ rec.todo = s /\ rec.lead = "none"
        /\ rec.outcome = "none" /\ rec.seen = run.seen
    BY <1>1, <2>1 DEF RunStates, OEnded
  <2> QED
    BY <1>3, <2>1, <2>2
<1>4. \/ Put(r, [run EXCEPT !.pc = "error"])
      \/ \E s \in SUBSET {l \in olist : Pickable(l)} : Put(r, [run EXCEPT !.pc = "next", !.todo = s])
  BY DEF OPick
<1> QED
  BY <1>1, <1>2, <1>3, <1>4, ZenonT(60)

LEMMA AdvanceIs ==
  ASSUME OTypeOK, RunsWell, NEW r \in Runs, OAdvance(r)
  PROVE  \E rec \in RunStates :
           /\ Put(r, rec) /\ orun[r].pc = "next" /\ orun[r].lead = "none"
           /\ \/ /\ rec.pc \in {"error", "ok"} /\ rec.todo = {} /\ rec.lead = "none"
                 /\ rec.seen = [l \in Leads |-> "none"] /\ rec.outcome = "none"
              \/ /\ rec.pc = "open" /\ rec.todo = orun[r].todo /\ rec.lead \in orun[r].todo
                 /\ rec.seen = orun[r].seen /\ rec.outcome = "none"
<1> DEFINE run == orun[r]
<1>1. run \in RunStates /\ run.pc = "next" /\ run.lead = "none" /\ run.outcome = "none"
      /\ run.sent \in BOOLEAN /\ run.todo \subseteq Leads /\ "none" \notin Leads
  BY OutreachAssumption DEF OAdvance, OTypeOK, RunsWell, WorkWell, RunStates
<1>2. ASSUME Put(r, [IdleRun EXCEPT !.pc = IF ~run.sent THEN "error" ELSE "ok"])
      PROVE  \E rec \in RunStates :
               /\ Put(r, rec) /\ rec.pc \in {"error", "ok"} /\ rec.todo = {} /\ rec.lead = "none"
               /\ rec.seen = [l \in Leads |-> "none"] /\ rec.outcome = "none"
  <2>1. PICK pc \in {"error", "ok"} : pc = IF ~run.sent THEN "error" ELSE "ok"
    BY <1>1
  <2>2. PICK rec : rec = [IdleRun EXCEPT !.pc = pc]
    OBVIOUS
  <2>3. rec \in RunStates /\ rec.pc = pc /\ rec.todo = {} /\ rec.lead = "none"
        /\ rec.seen = [l \in Leads |-> "none"] /\ rec.outcome = "none"
    BY <2>2, IdleRunIs DEF RunStates, OEnded
  <2> QED
    BY <1>2, <2>1, <2>2, <2>3
<1>3. ASSUME NEW l \in run.todo,
             Put(r, [run EXCEPT !.pc = "open", !.lead = l, !.taps = 0, !.thread = "none"])
      PROVE  \E rec \in RunStates :
               /\ Put(r, rec) /\ rec.pc = "open" /\ rec.todo = run.todo /\ rec.lead = l
               /\ rec.seen = run.seen /\ rec.outcome = "none"
  <2>1. PICK rec : rec = [run EXCEPT !.pc = "open", !.lead = l, !.taps = 0, !.thread = "none"]
    OBVIOUS
  <2>2. rec \in RunStates /\ rec.pc = "open" /\ rec.todo = run.todo /\ rec.lead = l
        /\ rec.seen = run.seen /\ rec.outcome = "none"
    BY <1>1, <2>1 DEF RunStates, OEnded
  <2> QED
    BY <1>3, <2>1, <2>2
<1>4. \/ Put(r, [IdleRun EXCEPT !.pc = IF ~run.sent THEN "error" ELSE "ok"])
      \/ \E l \in run.todo :
           Put(r, [run EXCEPT !.pc = "open", !.lead = l, !.taps = 0, !.thread = "none"])
  BY DEF OAdvance
<1>5. ASSUME NEW l \in run.todo,
             Put(r, [run EXCEPT !.pc = "open", !.lead = l, !.taps = 0, !.thread = "none"])
      PROVE  \E rec \in RunStates :
               /\ Put(r, rec) /\ rec.pc = "open" /\ rec.todo = run.todo /\ rec.lead \in run.todo
               /\ rec.seen = run.seen /\ rec.outcome = "none"
  BY <1>3, <1>5
<1>6. \/ \E rec \in RunStates :
           /\ Put(r, rec) /\ rec.pc \in {"error", "ok"} /\ rec.todo = {} /\ rec.lead = "none"
           /\ rec.seen = [l \in Leads |-> "none"] /\ rec.outcome = "none"
      \/ \E rec \in RunStates :
           /\ Put(r, rec) /\ rec.pc = "open" /\ rec.todo = run.todo /\ rec.lead \in run.todo
           /\ rec.seen = run.seen /\ rec.outcome = "none"
  BY <1>2, <1>4, <1>5, Zenon
<1> QED
  BY <1>1, <1>6, Zenon

LEMMA OpenIs ==
  ASSUME OTypeOK, RunsWell, NEW r \in Runs, OOpen(r)
  PROVE  \E rec \in RunStates :
           /\ Put(r, rec) /\ orun[r].pc = "open" /\ rec.todo = orun[r].todo
           /\ Lead(r) \in Leads /\ rec.lead = Lead(r) /\ rec.seen = orun[r].seen
           /\ \/ /\ rec.pc = "send" /\ rec.outcome = "none" /\ rec.thread \in {Lead(r), "namesake"}
                 /\ ostray' = IF rec.thread = "namesake" THEN ostray \cup {Lead(r)} ELSE ostray
              \/ rec.pc = "mark" /\ rec.outcome = "failed" /\ ostray' = ostray
<1> DEFINE run == orun[r]
<1>1. run \in RunStates /\ run.pc = "open" /\ run.outcome = "none" /\ run.lead # "none"
  BY DEF OOpen, OTypeOK, RunsWell, WorkWell
<1>2. run.lead \in Leads /\ Lead(r) = run.lead
  BY <1>1 DEF RunStates, Lead
<1>3. ASSUME NEW t \in {Lead(r), "namesake"}, Put(r, [run EXCEPT !.pc = "send", !.thread = t])
      PROVE  \E rec \in RunStates :
               /\ Put(r, rec) /\ rec.todo = run.todo /\ rec.lead = run.lead /\ rec.seen = run.seen
               /\ rec.pc = "send" /\ rec.outcome = "none" /\ rec.thread = t
  <2>1. PICK rec : rec = [run EXCEPT !.pc = "send", !.thread = t]
    OBVIOUS
  <2>2. rec \in RunStates /\ rec.todo = run.todo /\ rec.lead = run.lead /\ rec.seen = run.seen
        /\ rec.pc = "send" /\ rec.outcome = "none" /\ rec.thread = t
    BY <1>1, <1>2, <2>1 DEF RunStates, OEnded
  <2> QED
    BY <1>3, <2>1, <2>2
<1>4. ASSUME Put(r, [run EXCEPT !.pc = "mark", !.outcome = "failed"])
      PROVE  \E rec \in RunStates :
               /\ Put(r, rec) /\ rec.todo = run.todo /\ rec.lead = run.lead /\ rec.seen = run.seen
               /\ rec.pc = "mark" /\ rec.outcome = "failed"
  <2>1. PICK rec : rec = [run EXCEPT !.pc = "mark", !.outcome = "failed"]
    OBVIOUS
  <2>2. rec \in RunStates /\ rec.todo = run.todo /\ rec.lead = run.lead /\ rec.seen = run.seen
        /\ rec.pc = "mark" /\ rec.outcome = "failed"
    BY <1>1, <2>1 DEF RunStates, OEnded
  <2> QED
    BY <1>4, <2>1, <2>2
<1>5. \/ \E t \in {Lead(r), "namesake"} :
           /\ Put(r, [run EXCEPT !.pc = "send", !.thread = t])
           /\ ostray' = IF t = "namesake" THEN ostray \cup {Lead(r)} ELSE ostray
      \/ Put(r, [run EXCEPT !.pc = "mark", !.outcome = "failed"]) /\ ostray' = ostray
  BY DEF OOpen
<1> QED
  BY <1>1, <1>2, <1>3, <1>4, <1>5

LEMMA DoneIs ==
  ASSUME OTypeOK, NEW r \in Runs, Put(r, Done(r))
  PROVE  \E rec \in RunStates :
           /\ Put(r, rec) /\ rec.pc = "next" /\ rec.todo = orun[r].todo \ {Lead(r)}
           /\ rec.lead = "none" /\ rec.outcome = "none" /\ rec.seen = [l \in Leads |-> "none"]
<1> DEFINE run == orun[r]
<1>1. run \in RunStates
  BY DEF OTypeOK
<1>2. PICK rec : rec = Done(r)
  OBVIOUS
<1>3. rec \in RunStates /\ rec.pc = "next" /\ rec.todo = run.todo \ {Lead(r)}
      /\ rec.lead = "none" /\ rec.outcome = "none" /\ rec.seen = [l \in Leads |-> "none"]
  BY <1>1, <1>2, IdleRunIs DEF Done, RunStates, OEnded
<1> QED
  BY <1>2, <1>3

\* Whether this message has gone, once the tap did what it did.
Gone(r, got) == orun[r].outcome = "gone" \/ orun[r].thread # Lead(r) \/ got = ogot[Lead(r)] + 1

LEMMA SendIs ==
  ASSUME OTypeOK, RunsWell, NEW r \in Runs, OSend(r)
  PROVE  \E rec \in RunStates :
           /\ Put(r, rec) /\ orun[r].pc = "send" /\ rec.todo = orun[r].todo
           /\ Lead(r) \in Leads /\ rec.lead = Lead(r) /\ rec.seen = orun[r].seen
           /\ rec.thread = orun[r].thread
           /\ \/ ogot' = ogot
              \/ /\ ogot' = [ogot EXCEPT ![Lead(r)] = @ + 1]
                 /\ orun[r].outcome = "none" /\ orun[r].thread = Lead(r)
           /\ omisread' \in SUBSET Leads /\ omisread \subseteq omisread'
           /\ \/ rec.pc = "send" /\ rec.outcome = "none" /\ orun[r].outcome = "none" /\ ogot' = ogot
              \/ rec.pc = "send" /\ rec.outcome = "gone" /\ Gone(r, ogot'[Lead(r)])
              \/ rec.pc = "mark" /\ rec.outcome = "failed"
              \/ /\ rec.pc = "mark" /\ rec.outcome = "sent"
                 /\ Gone(r, ogot'[Lead(r)]) \/ Lead(r) \in omisread'
<1> DEFINE run == orun[r]
<1>1. run \in RunStates /\ run.pc = "send" /\ run.outcome \in {"none", "gone"}
      /\ run.lead # "none" /\ omisread \subseteq Leads /\ ogot \in [Leads -> Nat]
  BY DEF OSend, OTypeOK, RunsWell, WorkWell
<1>2. run.lead \in Leads /\ Lead(r) = run.lead /\ run.taps + 1 \in Nat
  BY <1>1 DEF RunStates, Lead
<1>3. PICK works \in BOOLEAN, sawLabel \in BOOLEAN, sawPlaceholder \in BOOLEAN,
           sawText \in BOOLEAN, throws \in BOOLEAN :
        LET already == run.outcome = "gone"
            gone == works \/ already
            judged == ~throws /\ Confirmed(sawLabel, sawPlaceholder, sawText)
            taps == run.taps + 1
        IN  /\ (sawLabel => ~gone) /\ (sawPlaceholder => gone)
            /\ ogot' = IF works /\ ~already /\ run.thread = Lead(r)
                       THEN [ogot EXCEPT ![Lead(r)] = @ + 1] ELSE ogot
            /\ omisread' = IF judged /\ ~gone /\ sawText
                           THEN omisread \cup {Lead(r)} ELSE omisread
            /\ Put(r, CASE judged -> [run EXCEPT !.pc = "mark", !.outcome = "sent",
                                                 !.sent = TRUE, !.taps = taps]
                        [] ~judged /\ (throws \/ taps = MaxTaps) ->
                             [run EXCEPT !.pc = "mark", !.outcome = "failed", !.taps = taps]
                        [] OTHER -> [run EXCEPT !.taps = taps,
                                                !.outcome = IF gone THEN "gone" ELSE @])
  BY DEF OSend
<1>4. PICK already \in BOOLEAN, gone \in BOOLEAN, judged \in BOOLEAN :
        /\ already <=> run.outcome = "gone"
        /\ gone <=> works \/ already
        /\ judged <=> ~throws /\ Confirmed(sawLabel, sawPlaceholder, sawText)
  BY DEF Confirmed
<1>5. /\ ogot' = IF works /\ ~already /\ run.thread = Lead(r)
                 THEN [ogot EXCEPT ![Lead(r)] = @ + 1] ELSE ogot
      /\ omisread' = IF judged /\ ~gone /\ sawText THEN omisread \cup {Lead(r)} ELSE omisread
      /\ judged /\ ~gone => sawText
  BY <1>3, <1>4 DEF Confirmed
<1>6. gone => Gone(r, ogot'[Lead(r)])
  BY <1>1, <1>2, <1>4, <1>5 DEF Gone
<1>7. \/ judged /\ Put(r, [run EXCEPT !.pc = "mark", !.outcome = "sent", !.sent = TRUE,
                                      !.taps = run.taps + 1])
      \/ Put(r, [run EXCEPT !.pc = "mark", !.outcome = "failed", !.taps = run.taps + 1])
      \/ Put(r, [run EXCEPT !.taps = run.taps + 1, !.outcome = IF gone THEN "gone" ELSE @])
  BY <1>3, <1>4, Zenon
<1>8. \E rec \in RunStates :
        /\ Put(r, rec) /\ rec.todo = run.todo /\ rec.lead = run.lead /\ rec.seen = run.seen
        /\ rec.thread = run.thread
        /\ \/ rec.pc = "send" /\ rec.outcome = (IF gone THEN "gone" ELSE run.outcome)
           \/ rec.pc = "mark" /\ rec.outcome = "failed"
           \/ rec.pc = "mark" /\ rec.outcome = "sent" /\ judged
  <2>1. CASE judged /\ Put(r, [run EXCEPT !.pc = "mark", !.outcome = "sent", !.sent = TRUE,
                                          !.taps = run.taps + 1])
    <3>1. PICK rec : rec = [run EXCEPT !.pc = "mark", !.outcome = "sent", !.sent = TRUE,
                                       !.taps = run.taps + 1]
      OBVIOUS
    <3>2. rec \in RunStates /\ rec.todo = run.todo /\ rec.lead = run.lead /\ rec.seen = run.seen
          /\ rec.thread = run.thread /\ rec.pc = "mark" /\ rec.outcome = "sent"
      BY <1>1, <1>2, <3>1 DEF RunStates, OEnded
    <3> QED
      BY <2>1, <3>1, <3>2
  <2>2. CASE Put(r, [run EXCEPT !.pc = "mark", !.outcome = "failed", !.taps = run.taps + 1])
    <3>1. PICK rec : rec = [run EXCEPT !.pc = "mark", !.outcome = "failed", !.taps = run.taps + 1]
      OBVIOUS
    <3>2. rec \in RunStates /\ rec.todo = run.todo /\ rec.lead = run.lead /\ rec.seen = run.seen
          /\ rec.thread = run.thread /\ rec.pc = "mark" /\ rec.outcome = "failed"
      BY <1>1, <1>2, <3>1 DEF RunStates, OEnded
    <3> QED
      BY <2>2, <3>1, <3>2
  <2>3. CASE Put(r, [run EXCEPT !.taps = run.taps + 1, !.outcome = IF gone THEN "gone" ELSE @])
    <3>1. PICK out \in {"none", "gone"} : out = IF gone THEN "gone" ELSE run.outcome
      BY <1>1
    <3>2. PICK rec : rec = [run EXCEPT !.taps = run.taps + 1, !.outcome = out]
      OBVIOUS
    <3>3. rec \in RunStates /\ rec.todo = run.todo /\ rec.lead = run.lead /\ rec.seen = run.seen
          /\ rec.thread = run.thread /\ rec.pc = "send" /\ rec.outcome = out
      BY <1>1, <1>2, <3>2 DEF RunStates, OEnded
    <3>4. Put(r, rec)
      BY <2>3, <3>1, <3>2
    <3> QED
      BY <3>1, <3>3, <3>4
  <2> QED
    BY <1>7, <2>1, <2>2, <2>3
<1> QED
  BY <1>1, <1>2, <1>4, <1>5, <1>6, <1>8

LEMMA StopIs ==
  ASSUME OTypeOK, NEW r \in Runs, OStop(r)
  PROVE  \E rec \in RunStates :
           /\ Put(r, rec) /\ rec.pc = orun[r].pc /\ rec.todo = orun[r].todo
           /\ rec.lead = orun[r].lead /\ rec.outcome = orun[r].outcome
           /\ rec.thread = orun[r].thread /\ rec.seen = orun[r].seen
<1>1. PICK rec : rec = [orun[r] EXCEPT !.stop = TRUE]
  OBVIOUS
<1>2. orun[r] \in RunStates /\ Put(r, rec)
  BY <1>1 DEF OTypeOK, OStop
<1>3. /\ rec \in RunStates /\ rec.pc = orun[r].pc /\ rec.todo = orun[r].todo
      /\ rec.lead = orun[r].lead /\ rec.outcome = orun[r].outcome
      /\ rec.thread = orun[r].thread /\ rec.seen = orun[r].seen
  BY <1>1, <1>2 DEF RunStates
<1> QED
  BY <1>2, <1>3

LEMMA KillIs ==
  ASSUME OTypeOK, NEW r \in Runs, OKill(r)
  PROVE  \E rec \in RunStates :
           /\ Put(r, rec) /\ rec.pc = "killed" /\ rec.todo = {} /\ rec.lead = "none"
           /\ rec.outcome = "none" /\ rec.seen = [l \in Leads |-> "none"]
<1>1. PICK rec : rec = [IdleRun EXCEPT !.pc = "killed"]
  OBVIOUS
<1>2. /\ rec \in RunStates /\ rec.pc = "killed" /\ rec.todo = {} /\ rec.lead = "none"
      /\ rec.outcome = "none" /\ rec.seen = [l \in Leads |-> "none"]
  BY <1>1, IdleRunIs DEF RunStates, OEnded
<1> QED
  BY <1>1, <1>2 DEF OKill

\* Messages, stray threads and misread screens are only ever added, so that what had
\* its reason keeps it; a step need only account for its own run and its own record.
Grow == /\ ogot' \in [Leads -> Nat] /\ \A l \in Leads : ogot[l] <= ogot'[l]
        /\ ostray \subseteq ostray' /\ omisread \subseteq omisread'
        /\ {ostray, omisread, ounsaid}' \subseteq SUBSET Leads

LEMMA ReasonsStay ==
  ASSUME OTypeOK, Grow, NEW l \in Leads, Reason(l) PROVE Reason(l)'
BY DEF OTypeOK, Grow, Reason

LEMMA StepKeepsSent ==
  ASSUME SentInv, NEW r \in Runs, NEW rec \in RunStates, Put(r, rec), Grow,
         olist' \subseteq Leads, ostate' \in ContactState,
         WorkWell(rec), ReasonsWell(r)', OSentWasReceived'
  PROVE  SentInv'
<1>1. orun'[r] = rec /\ \A q \in Runs \ {r} : orun'[q] = orun[q]
  BY PutIs DEF SentInv
<1>2. OTypeOK'
  BY PutKeepsTypes DEF SentInv, OTypeOK, Grow
<1>3. RunsWell'
  BY <1>1 DEF SentInv, RunsWell
<1>4. ASSUME NEW q \in Runs \ {r} PROVE ReasonsWell(q)'
  <2>1. ReasonsWell(q) /\ orun'[q] = orun[q] /\ orun[q] \in RunStates /\ WorkWell(orun[q])
    BY <1>1 DEF SentInv, RunsWell, OTypeOK
  <2>2. ASSUME orun[q].pc = "send" PROVE orun[q].lead \in Leads
    BY <2>1, <2>2 DEF WorkWell, RunStates
  <2>3. ASSUME orun[q].pc \in {"mark", "write"} PROVE orun[q].lead \in Leads
    BY <2>1, <2>3 DEF WorkWell, RunStates
  <2>4. \A l \in Leads : Reason(l) => Reason(l)'
    BY ReasonsStay DEF SentInv
  <2>5. (orun[q].pc = "send" => /\ orun[q].thread # orun[q].lead => orun[q].lead \in ostray'
                                /\ (orun[q].outcome = "gone" /\ orun[q].thread = orun[q].lead)
                                     => ogot'[orun[q].lead] > 0)
    BY <2>1, <2>2 DEF ReasonsWell, Lead, Grow, SentInv, OTypeOK
  <2> QED
    BY <2>1, <2>3, <2>4, <2>5 DEF ReasonsWell, Lead
<1> QED
  BY <1>2, <1>3, <1>4 DEF SentInv

LEMMA NoChange == ASSUME SentInv, UNCHANGED <<ogot, ostray, omisread>>, ounsaid' \subseteq Leads
                  PROVE  Grow /\ \A l \in Leads : Reason(l)' <=> Reason(l)
BY DEF SentInv, OTypeOK, Grow, Reason

\* A step that changes nothing the reasons rest on.
LEMMA QuietKeepsSent ==
  ASSUME SentInv, NEW r \in Runs, NEW rec \in RunStates, Put(r, rec), WorkWell(rec),
         UNCHANGED <<ogot, ostray, omisread, ostate>>, olist' \subseteq Leads,
         ounsaid' \subseteq Leads,
         rec.pc # "send",
         (rec.pc \in {"mark", "write"} /\ rec.outcome = "sent") => Reason(rec.lead),
         \A l \in Leads : rec.seen[l] = "sent" => Reason(l)
  PROVE  SentInv'
<1>1. Grow /\ \A l \in Leads : Reason(l)' <=> Reason(l)
  BY NoChange
<1>2. orun'[r] = rec
  BY PutIs DEF SentInv
<1>3. rec.pc \in {"mark", "write"} => rec.lead \in Leads
  BY DEF WorkWell, RunStates
<1>4. ReasonsWell(r)'
  BY <1>1, <1>2, <1>3 DEF ReasonsWell, Lead
<1>5. OSentWasReceived' /\ ostate' \in ContactState
  BY DEF SentInv, OSentWasReceived, OTypeOK
<1> QED
  BY <1>1, <1>4, <1>5, StepKeepsSent

LEMMA SeenHasReason ==
  ASSUME SentInv, NEW r \in Runs
  PROVE  \A l \in Leads : orun[r].seen[l] = "sent" => Reason(l)
BY DEF SentInv, ReasonsWell

LEMMA PickKeepsSent == ASSUME SentInv, NEW r \in Runs, OPick(r) PROVE SentInv'
<1>1. PICK rec \in RunStates, s \in SUBSET olist :
        /\ Put(r, rec) /\ \/ s = {} /\ rec.pc = "error"
                          \/ rec.pc = "next"
        /\ rec.todo = s /\ rec.lead = "none" /\ rec.outcome = "none" /\ rec.seen = orun[r].seen
  BY PickIs DEF SentInv
<1>2. UNCHANGED <<ogot, ostray, omisread, ostate>> /\ olist' \subseteq Leads /\ ounsaid' \subseteq Leads
  BY DEF OPick, facts, SentInv, OTypeOK
<1>3. WorkWell(rec) /\ rec.pc # "send" /\ rec.pc \notin {"mark", "write"}
  BY <1>1 DEF WorkWell, OEnded
<1> QED
  BY <1>1, <1>2, <1>3, SeenHasReason, QuietKeepsSent

LEMMA AdvanceKeepsSent == ASSUME SentInv, NEW r \in Runs, OAdvance(r) PROVE SentInv'
<1>1. PICK rec \in RunStates :
        /\ Put(r, rec)
        /\ \/ /\ rec.pc \in {"error", "ok"} /\ rec.todo = {} /\ rec.lead = "none"
              /\ rec.seen = [l \in Leads |-> "none"] /\ rec.outcome = "none"
           \/ /\ rec.pc = "open" /\ rec.todo = orun[r].todo /\ rec.lead \in orun[r].todo
              /\ rec.seen = orun[r].seen /\ rec.outcome = "none"
  BY AdvanceIs DEF SentInv
<1>2. UNCHANGED <<ogot, ostray, omisread, ostate>> /\ olist' \subseteq Leads /\ ounsaid' \subseteq Leads
  BY DEF OAdvance, facts, SentInv, OTypeOK
<1>3. WorkWell(rec) /\ rec.pc # "send" /\ rec.pc \notin {"mark", "write"}
  <2>1. orun[r].todo \subseteq Leads /\ "none" \notin Leads
    BY OutreachAssumption DEF SentInv, OTypeOK, RunStates
  <2> QED
    BY <1>1, <2>1 DEF WorkWell, OEnded
<1>4. \A l \in Leads : rec.seen[l] = "sent" => Reason(l)
  BY <1>1, SeenHasReason
<1> QED
  BY <1>1, <1>2, <1>3, <1>4, QuietKeepsSent

LEMMA OpenKeepsSent == ASSUME SentInv, NEW r \in Runs, OOpen(r) PROVE SentInv'
<1>1. PICK rec \in RunStates :
        /\ Put(r, rec) /\ orun[r].pc = "open" /\ rec.todo = orun[r].todo
        /\ Lead(r) \in Leads /\ rec.lead = Lead(r) /\ rec.seen = orun[r].seen
        /\ \/ /\ rec.pc = "send" /\ rec.outcome = "none" /\ rec.thread \in {Lead(r), "namesake"}
              /\ ostray' = IF rec.thread = "namesake" THEN ostray \cup {Lead(r)} ELSE ostray
           \/ rec.pc = "mark" /\ rec.outcome = "failed" /\ ostray' = ostray
  BY OpenIs DEF SentInv
<1>2. UNCHANGED <<ogot, omisread, ostate, olist, ounsaid>> /\ ostray \subseteq ostray'
      /\ ostray' \subseteq Leads
  BY <1>1 DEF OOpen, SentInv, OTypeOK
<1>3. Grow /\ olist' \subseteq Leads /\ ostate' \in ContactState
  BY <1>2 DEF Grow, SentInv, OTypeOK
<1>4. orun'[r] = rec /\ \A l \in Leads : Reason(l) => Reason(l)'
  BY <1>1, <1>3, PutIs, ReasonsStay DEF SentInv
<1>5. WorkWell(rec)
  <2>1. WorkWell(orun[r]) /\ orun[r].lead = Lead(r)
    BY DEF SentInv, RunsWell, Lead
  <2> QED
    BY <1>1, <2>1 DEF WorkWell, OEnded
<1>6. ReasonsWell(r)'
  <2>1. \A l \in Leads : rec.seen[l] = "sent" => Reason(l)'
    BY <1>1, <1>4, SeenHasReason
  <2>2. rec.pc = "send" => (rec.thread # rec.lead => rec.lead \in ostray') /\ rec.outcome = "none"
    BY <1>1
  <2>3. rec.pc \in {"mark", "write"} => rec.outcome # "sent"
    BY <1>1
  <2> QED
    BY <1>4, <2>1, <2>2, <2>3 DEF ReasonsWell, Lead
<1>7. OSentWasReceived'
  BY <1>2, <1>4 DEF SentInv, OSentWasReceived, Reason
<1> QED
  BY <1>1, <1>3, <1>5, <1>6, <1>7, StepKeepsSent

LEMMA SendKeepsSent == ASSUME SentInv, NEW r \in Runs, OSend(r) PROVE SentInv'
<1>1. PICK rec \in RunStates :
        /\ Put(r, rec) /\ orun[r].pc = "send" /\ rec.todo = orun[r].todo
        /\ Lead(r) \in Leads /\ rec.lead = Lead(r) /\ rec.seen = orun[r].seen
        /\ rec.thread = orun[r].thread
        /\ \/ ogot' = ogot
           \/ ogot' = [ogot EXCEPT ![Lead(r)] = @ + 1]
        /\ omisread' \in SUBSET Leads /\ omisread \subseteq omisread'
        /\ \/ rec.pc = "send" /\ rec.outcome = "none"
           \/ rec.pc = "send" /\ rec.outcome = "gone" /\ Gone(r, ogot'[Lead(r)])
           \/ rec.pc = "mark" /\ rec.outcome = "failed"
           \/ /\ rec.pc = "mark" /\ rec.outcome = "sent"
              /\ Gone(r, ogot'[Lead(r)]) \/ Lead(r) \in omisread'
  BY SendIs DEF SentInv
<1>2. UNCHANGED <<ostray, ostate, olist, ounsaid>> /\ ogot \in [Leads -> Nat]
      /\ ostray \subseteq Leads /\ ounsaid \subseteq Leads
  BY DEF OSend, SentInv, OTypeOK
<1>3. Grow /\ olist' \subseteq Leads /\ ostate' \in ContactState
  BY <1>1, <1>2 DEF Grow, SentInv, OTypeOK
<1>4. orun'[r] = rec /\ \A l \in Leads : Reason(l) => Reason(l)'
  BY <1>1, <1>3, PutIs, ReasonsStay DEF SentInv
<1>5. WorkWell(orun[r]) /\ orun[r].lead = Lead(r) /\ ReasonsWell(r)
  BY DEF SentInv, RunsWell, Lead
<1>6. WorkWell(rec)
  BY <1>1, <1>5 DEF WorkWell, OEnded
<1>7. Gone(r, ogot'[Lead(r)]) => ogot'[Lead(r)] > 0 \/ Lead(r) \in ostray'
  BY <1>1, <1>2, <1>3, <1>5 DEF Gone, ReasonsWell, Grow
<1>8. ReasonsWell(r)'
  <2>1. \A l \in Leads : rec.seen[l] = "sent" => Reason(l)'
    BY <1>1, <1>4, SeenHasReason
  <2>2. rec.pc = "send" => (rec.thread # rec.lead => rec.lead \in ostray')
    BY <1>1, <1>2, <1>5 DEF ReasonsWell
  <2>3. (rec.pc = "send" /\ rec.outcome = "gone" /\ rec.thread = rec.lead) => ogot'[rec.lead] > 0
    BY <1>1, <1>2, <1>3, <1>5 DEF Gone, ReasonsWell, Grow
  <2>4. (rec.pc \in {"mark", "write"} /\ rec.outcome = "sent") => Reason(rec.lead)'
    BY <1>1, <1>7 DEF Reason
  <2> QED
    BY <1>4, <2>1, <2>2, <2>3, <2>4 DEF ReasonsWell, Lead
<1>9. OSentWasReceived'
  BY <1>2, <1>4 DEF SentInv, OSentWasReceived, Reason
<1> QED
  BY <1>1, <1>3, <1>6, <1>8, <1>9, StepKeepsSent

LEMMA NothingSeen == ASSUME NEW l \in Leads PROVE [x \in Leads |-> "none"][l] # "sent"
OBVIOUS

LEMMA ReadIs ==
  ASSUME OTypeOK, NEW r \in Runs, ORead(r)
  PROVE  /\ orun[r].pc = "mark" /\ UNCHANGED <<olist, ostate, ogot, ostray, omisread>>
         /\ \E rec \in RunStates :
              /\ Put(r, rec)
              /\ \/ /\ rec.pc = "write" /\ rec.todo = orun[r].todo /\ rec.lead = orun[r].lead
                    /\ rec.outcome = orun[r].outcome /\ rec.seen = ostate
                    /\ ounsaid' = ounsaid
                 \/ /\ rec.pc = "next" /\ rec.todo = orun[r].todo \ {Lead(r)}
                    /\ rec.lead = "none" /\ rec.outcome = "none"
                    /\ rec.seen = [l \in Leads |-> "none"]
                    /\ ounsaid' = ounsaid \cup {Lead(r)}
<1>1. CASE Put(r, [orun[r] EXCEPT !.pc = "write", !.seen = ostate]) /\ ounsaid' = ounsaid
  <2>1. PICK rec : rec = [orun[r] EXCEPT !.pc = "write", !.seen = ostate]
    OBVIOUS
  <2>2. /\ rec \in RunStates /\ rec.pc = "write" /\ rec.todo = orun[r].todo
        /\ rec.lead = orun[r].lead /\ rec.outcome = orun[r].outcome /\ rec.seen = ostate
    BY <2>1 DEF OTypeOK, RunStates
  <2> QED
    BY <1>1, <2>1, <2>2 DEF ORead, facts
<1>2. CASE Put(r, Done(r)) /\ ounsaid' = ounsaid \cup {Lead(r)}
  BY <1>2, DoneIs DEF ORead, facts
<1> QED
  BY <1>1, <1>2 DEF ORead

LEMMA ReadKeepsSent == ASSUME SentInv, NEW r \in Runs, ORead(r) PROVE SentInv'
<1>1. /\ orun[r].pc = "mark" /\ UNCHANGED <<olist, ostate, ogot, ostray, omisread>>
      /\ WorkWell(orun[r]) /\ ReasonsWell(r) /\ orun[r] \in RunStates
  BY ReadIs DEF SentInv, OTypeOK, RunsWell
<1>2. PICK rec \in RunStates :
        /\ Put(r, rec)
        /\ \/ /\ rec.pc = "write" /\ rec.todo = orun[r].todo /\ rec.lead = orun[r].lead
              /\ rec.outcome = orun[r].outcome /\ rec.seen = ostate
              /\ ounsaid' = ounsaid
           \/ /\ rec.pc = "next" /\ rec.todo = orun[r].todo \ {Lead(r)}
              /\ rec.lead = "none" /\ rec.outcome = "none"
              /\ rec.seen = [l \in Leads |-> "none"]
              /\ ounsaid' = ounsaid \cup {Lead(r)}
  BY ReadIs DEF SentInv
<1>3. Lead(r) \in Leads /\ Lead(r) = orun[r].lead
  BY <1>1 DEF WorkWell, RunStates, Lead
<1>4. WorkWell(rec) /\ rec.pc # "send"
  BY <1>1, <1>2 DEF WorkWell, OEnded
<1>5. (rec.pc \in {"mark", "write"} /\ rec.outcome = "sent") => Reason(rec.lead)
  BY <1>1, <1>2, <1>3 DEF ReasonsWell
<1>6. \A l \in Leads : rec.seen[l] = "sent" => Reason(l)
  BY <1>2, NothingSeen DEF SentInv, OSentWasReceived, Reason
<1>7. olist' \subseteq Leads /\ ounsaid' \subseteq Leads
  BY <1>1, <1>2, <1>3 DEF SentInv, OTypeOK
<1> QED
  BY <1>1, <1>2, <1>4, <1>5, <1>6, <1>7, QuietKeepsSent

LEMMA WriteKeepsSent == ASSUME SentInv, NEW r \in Runs, OWrite(r) PROVE SentInv'
<1>1. /\ orun[r].pc = "write" /\ UNCHANGED <<olist, ogot, ostray, omisread, ounsaid>>
      /\ WorkWell(orun[r]) /\ ReasonsWell(r) /\ orun[r] \in RunStates
      /\ ostate' = [orun[r].seen EXCEPT ![Lead(r)] = orun[r].outcome]
  BY DEF OWrite, Recorded, facts, SentInv, OTypeOK, RunsWell
<1>2. PICK rec \in RunStates :
        /\ Put(r, rec) /\ rec.pc = "next" /\ rec.todo = orun[r].todo \ {Lead(r)}
        /\ rec.lead = "none" /\ rec.outcome = "none" /\ rec.seen = [l \in Leads |-> "none"]
  BY DoneIs DEF OWrite, SentInv
<1>3. Lead(r) \in Leads /\ Lead(r) = orun[r].lead /\ orun[r].outcome \in {"sent", "failed"}
      /\ orun[r].seen \in ContactState
  BY <1>1 DEF WorkWell, RunStates, Lead
<1>4. Grow /\ \A l \in Leads : Reason(l)' <=> Reason(l)
  BY <1>1, NoChange DEF SentInv, OTypeOK
<1>5. WorkWell(rec) /\ orun'[r] = rec
  BY <1>2, PutIs DEF WorkWell, OEnded, SentInv
<1>6. ReasonsWell(r)'
  BY <1>2, <1>5, NothingSeen DEF ReasonsWell
<1>7. ostate' \in ContactState
  BY <1>1, <1>3 DEF ContactState
<1>8. OSentWasReceived'
  <2> SUFFICES ASSUME NEW l \in Leads, ostate'[l] = "sent" PROVE Reason(l)'
    BY DEF OSentWasReceived, Reason
  <2>1. CASE l = Lead(r)
    BY <1>1, <1>3, <1>4, <2>1 DEF ReasonsWell, ContactState
  <2>2. CASE l # Lead(r)
    BY <1>1, <1>3, <1>4, <2>2 DEF ReasonsWell, ContactState
  <2> QED
    BY <2>1, <2>2
<1>9. olist' \subseteq Leads
  BY <1>1 DEF SentInv, OTypeOK
<1> QED
  BY <1>2, <1>4, <1>5, <1>6, <1>7, <1>8, <1>9, StepKeepsSent

LEMMA StopKeepsSent == ASSUME SentInv, NEW r \in Runs, OStop(r) PROVE SentInv'
<1>1. PICK rec \in RunStates :
        /\ Put(r, rec) /\ rec.pc = orun[r].pc /\ rec.todo = orun[r].todo
        /\ rec.lead = orun[r].lead /\ rec.outcome = orun[r].outcome
        /\ rec.thread = orun[r].thread /\ rec.seen = orun[r].seen
  BY StopIs DEF SentInv
<1>2. UNCHANGED <<olist, ostate, ogot, ostray, omisread, ounsaid>> /\ WorkWell(orun[r])
      /\ ReasonsWell(r)
  BY DEF OStop, facts, SentInv, RunsWell
<1>3. WorkWell(rec) /\ orun'[r] = rec
  BY <1>1, <1>2, PutIs DEF WorkWell, SentInv
<1>4. Grow /\ \A l \in Leads : Reason(l)' <=> Reason(l)
  BY <1>2, NoChange DEF SentInv, OTypeOK
<1>5. ReasonsWell(r)'
  <2>1. rec.pc \in {"mark", "write"} => rec.lead \in Leads
    BY <1>3 DEF WorkWell, RunStates
  <2> QED
    BY <1>1, <1>2, <1>3, <1>4, <2>1 DEF ReasonsWell, Lead
<1>6. OSentWasReceived' /\ olist' \subseteq Leads /\ ostate' \in ContactState
  BY <1>2 DEF SentInv, OSentWasReceived, OTypeOK
<1> QED
  BY <1>1, <1>3, <1>4, <1>5, <1>6, StepKeepsSent

LEMMA KillKeepsSent == ASSUME SentInv, NEW r \in Runs, OKill(r) PROVE SentInv'
<1>1. PICK rec \in RunStates :
        /\ Put(r, rec) /\ rec.pc = "killed" /\ rec.todo = {} /\ rec.lead = "none"
        /\ rec.outcome = "none" /\ rec.seen = [l \in Leads |-> "none"]
  BY KillIs DEF SentInv
<1>2. UNCHANGED <<olist, ostate, ogot, ostray, omisread>> /\ olist' \subseteq Leads
  BY DEF OKill, facts, SentInv, OTypeOK
<1>3. ounsaid' \subseteq Leads
  <2>1. orun[r].lead \in Leads \cup {"none"} /\ ounsaid \subseteq Leads
    BY DEF SentInv, OTypeOK, RunStates
  <2> QED
    BY <2>1 DEF OKill, Lead
<1>4. WorkWell(rec) /\ rec.pc # "send" /\ rec.pc \notin {"mark", "write"}
  BY <1>1 DEF WorkWell, OEnded
<1> QED
  BY <1>1, <1>2, <1>3, <1>4, NothingSeen, QuietKeepsSent

LEMMA InitHasSent == OInit => SentInv
<1> SUFFICES ASSUME OInit PROVE SentInv
  OBVIOUS
<1>1. \A r \in Runs : orun[r] = IdleRun
  BY DEF OInit
<1>2. OTypeOK
  BY <1>1, IdleRunIs DEF OInit, OTypeOK, ContactState
<1>3. RunsWell /\ \A r \in Runs : ReasonsWell(r)
  BY <1>1, IdleRunIs DEF RunsWell, WorkWell, ReasonsWell, OEnded
<1>4. OSentWasReceived
  BY DEF OInit, OSentWasReceived
<1> QED
  BY <1>2, <1>3, <1>4 DEF SentInv

LEMMA NextKeepsSent == SentInv /\ [ONext]_oVars => SentInv'
<1> SUFFICES ASSUME SentInv, [ONext]_oVars PROVE SentInv'
  OBVIOUS
<1>1. ASSUME OImport \/ UNCHANGED oVars PROVE SentInv'
  <2>1. UNCHANGED <<ostate, ogot, ostray, omisread, ounsaid, orun>> /\ olist' \subseteq Leads
    BY <1>1 DEF OImport, oVars, facts, SentInv, OTypeOK
  <2>2. OTypeOK' /\ RunsWell' /\ OSentWasReceived'
    BY <2>1 DEF SentInv, OTypeOK, RunsWell, OSentWasReceived
  <2>3. \A r \in Runs : ReasonsWell(r)'
    BY <2>1 DEF SentInv, ReasonsWell, Reason, Lead
  <2> QED
    BY <2>2, <2>3 DEF SentInv
<1>2. ASSUME NEW r \in Runs, OWork(r) \/ OStop(r) \/ OKill(r) PROVE SentInv'
  BY <1>2, PickKeepsSent, AdvanceKeepsSent, OpenKeepsSent, SendKeepsSent, ReadKeepsSent,
     WriteKeepsSent, StopKeepsSent, KillKeepsSent DEF OWork
<1> QED
  BY <1>1, <1>2 DEF ONext

\* Whether or not runs of a list overlap, a lead on record as "sent" got the message,
\* or somebody else did who bears the name, or the text was read where it had been
\* typed (cold-dms.ts:48-51, 299-325).
THEOREM SentWasReceived == OSpec => []OSentWasReceived
<1>1. SentInv => OSentWasReceived
  BY DEF SentInv
<1> QED
  BY <1>1, InitHasSent, NextKeepsSent, PTL DEF OSpec

\* Runs that do not overlap: what the one that works wrote down is what the file says,
\* and a lead whose outcome could be recorded got at most one message, of which the
\* file knows or which the run is about to record; those still to come got none.
OnceFor(run, l, got, state) ==
  /\ got <= 1
  /\ (got > 0 /\ state = "none") => run.lead = l /\ run.pc \in {"send", "mark", "write"}
  /\ (l \in run.todo /\ (l # run.lead \/ run.pc = "open")) => got = 0 /\ state = "none"
  /\ (run.lead = l /\ run.pc = "send" /\ run.outcome = "none") => got = 0

Alone(r) == \A q \in Runs \ {r} : ~Active(q)
OnceKept ==
  RetryFailed \/ \A l \in Leads \ ounsaid :
    ogot[l] <= 1 /\ \A r \in Runs : Alone(r) => OnceFor(orun[r], l, ogot[l], ostate[l])

OneInv ==
  /\ SentInv
  /\ \A r \in Runs : Active(r) => Alone(r)
  /\ \A r \in Runs : orun[r].pc = "write" => orun[r].seen = ostate
  /\ OnceKept

LEMMA StepKeepsOne ==
  ASSUME OneInv, SentInv', NEW r \in Runs, Alone(r), NEW rec \in RunStates, Put(r, rec),
         rec.pc = "write" => rec.seen = ostate',
         RetryFailed \/ \A l \in Leads \ ounsaid' :
                          OnceFor(rec, l, ogot'[l], ostate'[l])
  PROVE  OneInv'
<1>1. orun'[r] = rec /\ \A q \in Runs \ {r} : orun'[q] = orun[q]
  BY PutIs DEF OneInv, SentInv
<1>2. \A q \in Runs \ {r} : orun[q].pc \in OEnded
  BY DEF Alone, Active
<1>3. \A q \in Runs : Active(q)' => Alone(q)'
  BY <1>1, <1>2 DEF Alone, Active
<1>4. \A q \in Runs : orun'[q].pc = "write" => orun'[q].seen = ostate'
  BY <1>1, <1>2 DEF OEnded
<1>5. OnceKept'
  <2> SUFFICES ASSUME ~RetryFailed, NEW l \in Leads \ ounsaid', NEW q \in Runs, Alone(q)'
               PROVE  ogot'[l] <= 1 /\ OnceFor(orun'[q], l, ogot'[l], ostate'[l])
    <3>1. ASSUME ~RetryFailed, NEW l \in Leads \ ounsaid' PROVE ogot'[l] <= 1
      BY <3>1 DEF OnceFor
    <3> QED
      BY <3>1 DEF OnceKept
  <2>1. OnceFor(rec, l, ogot'[l], ostate'[l])
    OBVIOUS
  <2>2. CASE q = r
    BY <1>1, <2>1, <2>2 DEF OnceFor
  <2>3. CASE q # r
    <3>1. rec.pc \in OEnded /\ orun'[q].pc \in OEnded
      BY <1>1, <1>2, <2>3 DEF Alone, Active
    <3>2. WorkWell(rec) /\ WorkWell(orun'[q])
      BY <1>1, <2>3 DEF SentInv, RunsWell
    <3>3. rec.lead = "none" /\ orun'[q].lead = "none" /\ orun'[q].todo = {} /\ l # "none"
      BY <3>1, <3>2, OutreachAssumption DEF WorkWell, OEnded
    <3> QED
      BY <2>1, <3>3 DEF OnceFor
  <2> QED
    BY <2>2, <2>3
<1> QED
  BY <1>3, <1>4, <1>5 DEF OneInv

\* A step that neither sends nor records.
LEMMA HereIs ==
  ASSUME OneInv, ~RetryFailed, NEW r \in Runs, Alone(r), NEW l \in Leads \ ounsaid
  PROVE  OnceFor(orun[r], l, ogot[l], ostate[l])
BY DEF OneInv, OnceKept

LEMMA PickKeepsOne == ASSUME OneInv, ~Together, NEW r \in Runs, OPick(r) PROVE OneInv'
<1>1. PICK rec \in RunStates, s \in SUBSET olist :
        /\ Put(r, rec) /\ orun[r].pc = "idle" /\ \A l \in s : Pickable(l)
        /\ \/ s = {} /\ rec.pc = "error"
           \/ rec.pc = "next"
        /\ rec.todo = s /\ rec.lead = "none" /\ rec.outcome = "none"
  BY PickIs DEF OneInv, SentInv
<1>2. Alone(r) /\ UNCHANGED <<ogot, ostate, ounsaid>> /\ orun[r].lead = "none"
  BY <1>1 DEF OPick, Alone, facts, OneInv, SentInv, RunsWell, WorkWell
<1>3. ASSUME ~RetryFailed, NEW l \in Leads \ ounsaid
      PROVE  OnceFor(rec, l, ogot[l], ostate[l])
  <2>1. OnceFor(orun[r], l, ogot[l], ostate[l]) /\ ogot[l] \in Nat /\ l # "none"
    BY <1>2, <1>3, HereIs, OutreachAssumption DEF OneInv, SentInv, OTypeOK
  <2>2. l \in s => ostate[l] = "none"
    BY <1>1, <1>3 DEF Pickable
  <2> QED
    BY <1>1, <1>2, <2>1, <2>2 DEF OnceFor
<1>4. rec.pc # "write"
  BY <1>1
<1>5. SentInv'
  BY PickKeepsSent DEF OneInv
<1> QED
  BY <1>1, <1>2, <1>3, <1>4, <1>5, StepKeepsOne

LEMMA AdvanceKeepsOne == ASSUME OneInv, ~Together, NEW r \in Runs, OAdvance(r) PROVE OneInv'
<1>1. PICK rec \in RunStates :
        /\ Put(r, rec) /\ orun[r].pc = "next" /\ orun[r].lead = "none"
        /\ \/ /\ rec.pc \in {"error", "ok"} /\ rec.todo = {} /\ rec.lead = "none"
           \/ /\ rec.pc = "open" /\ rec.todo = orun[r].todo /\ rec.lead \in orun[r].todo
  BY AdvanceIs DEF OneInv, SentInv
<1>2. Alone(r) /\ UNCHANGED <<ogot, ostate, ounsaid>>
  BY <1>1 DEF OAdvance, OneInv, facts, Active, OEnded
<1>3. ASSUME ~RetryFailed, NEW l \in Leads \ ounsaid
      PROVE  OnceFor(rec, l, ogot[l], ostate[l])
  <2>1. OnceFor(orun[r], l, ogot[l], ostate[l]) /\ ogot[l] \in Nat /\ l # "none"
    BY <1>2, <1>3, HereIs, OutreachAssumption DEF OneInv, SentInv, OTypeOK
  <2> QED
    BY <1>1, <2>1 DEF OnceFor
<1>4. rec.pc # "write"
  BY <1>1
<1>5. SentInv'
  BY AdvanceKeepsSent DEF OneInv
<1> QED
  BY <1>1, <1>2, <1>3, <1>4, <1>5, StepKeepsOne

LEMMA OpenKeepsOne == ASSUME OneInv, ~Together, NEW r \in Runs, OOpen(r) PROVE OneInv'
<1>1. PICK rec \in RunStates :
        /\ Put(r, rec) /\ orun[r].pc = "open" /\ rec.todo = orun[r].todo
        /\ rec.lead = Lead(r)
        /\ \/ rec.pc = "send" /\ rec.outcome = "none"
           \/ rec.pc = "mark" /\ rec.outcome = "failed"
  BY OpenIs DEF OneInv, SentInv
<1>2. Alone(r) /\ UNCHANGED <<ogot, ostate, ounsaid>> /\ WorkWell(orun[r])
  BY <1>1 DEF OOpen, OneInv, Active, OEnded, SentInv, RunsWell
<1>3. ASSUME ~RetryFailed, NEW l \in Leads \ ounsaid
      PROVE  OnceFor(rec, l, ogot[l], ostate[l])
  <2>1. OnceFor(orun[r], l, ogot[l], ostate[l]) /\ ogot[l] \in Nat
    BY <1>2, <1>3, HereIs DEF OneInv, SentInv, OTypeOK
  <2> QED
    BY <1>1, <1>2, <2>1 DEF OnceFor, Lead, WorkWell
<1>4. rec.pc # "write"
  BY <1>1
<1>5. SentInv'
  BY OpenKeepsSent DEF OneInv
<1> QED
  BY <1>1, <1>2, <1>3, <1>4, <1>5, StepKeepsOne

LEMMA SendKeepsOne == ASSUME OneInv, ~Together, NEW r \in Runs, OSend(r) PROVE OneInv'
<1>1. PICK rec \in RunStates :
        /\ Put(r, rec) /\ orun[r].pc = "send" /\ rec.todo = orun[r].todo
        /\ Lead(r) \in Leads /\ rec.lead = Lead(r)
        /\ \/ ogot' = ogot
           \/ ogot' = [ogot EXCEPT ![Lead(r)] = @ + 1] /\ orun[r].outcome = "none"
        /\ \/ /\ rec.pc = "send" /\ rec.outcome = "none" /\ orun[r].outcome = "none"
              /\ ogot' = ogot
           \/ rec.pc = "send" /\ rec.outcome = "gone"
           \/ rec.pc = "mark"
  BY SendIs DEF OneInv, SentInv
<1>2. Alone(r) /\ UNCHANGED <<ostate, ounsaid>> /\ ogot \in [Leads -> Nat]
  BY <1>1 DEF OSend, OneInv, Active, OEnded, SentInv, OTypeOK
<1>3. ASSUME ~RetryFailed, NEW l \in Leads \ ounsaid
      PROVE  OnceFor(rec, l, ogot'[l], ostate[l])
  <2>1. OnceFor(orun[r], l, ogot[l], ostate[l]) /\ ogot[l] \in Nat
    BY <1>2, <1>3, HereIs
  <2>2. CASE l = Lead(r)
    <3>1. orun[r].outcome = "none" => ogot[l] = 0
      BY <1>1, <2>1, <2>2 DEF OnceFor, Lead
    <3>2. ogot'[l] <= 1 /\ (rec.pc = "send" /\ rec.outcome = "none" => ogot'[l] = 0)
      BY <1>1, <1>2, <2>1, <2>2, <3>1 DEF OnceFor
    <3> QED
      BY <1>1, <2>2, <3>2 DEF OnceFor
  <2>3. CASE l # Lead(r)
    <3>1. ogot'[l] = ogot[l]
      BY <1>1, <1>2, <2>3
    <3> QED
      BY <1>1, <2>1, <2>3, <3>1 DEF OnceFor, Lead
  <2> QED
    BY <2>2, <2>3
<1>4. rec.pc # "write"
  BY <1>1
<1>5. SentInv'
  BY SendKeepsSent DEF OneInv
<1> QED
  BY <1>1, <1>2, <1>3, <1>4, <1>5, StepKeepsOne

LEMMA ReadKeepsOne == ASSUME OneInv, ~Together, NEW r \in Runs, ORead(r) PROVE OneInv'
<1>1. PICK rec \in RunStates :
        /\ Put(r, rec)
        /\ \/ /\ rec.pc = "write" /\ rec.todo = orun[r].todo /\ rec.lead = orun[r].lead
              /\ rec.seen = ostate /\ ounsaid' = ounsaid
           \/ /\ rec.pc = "next" /\ rec.todo = orun[r].todo \ {Lead(r)}
              /\ rec.lead = "none" /\ ounsaid' = ounsaid \cup {Lead(r)}
  BY ReadIs DEF OneInv, SentInv
<1>2. orun[r].pc = "mark" /\ UNCHANGED <<ogot, ostate>>
  BY ReadIs DEF OneInv, SentInv
<1>3. Alone(r)
  BY <1>2 DEF OneInv, Active, OEnded
<1>4. ASSUME ~RetryFailed, NEW l \in Leads \ ounsaid'
      PROVE  OnceFor(rec, l, ogot[l], ostate[l])
  <2>1. l \in Leads \ ounsaid
    BY <1>1
  <2>2. OnceFor(orun[r], l, ogot[l], ostate[l])
    BY <1>3, <1>4, <2>1, HereIs
  <2> QED
    BY <1>1, <1>2, <2>2 DEF OnceFor, Lead
<1>5. SentInv'
  BY ReadKeepsSent DEF OneInv
<1> QED
  BY <1>1, <1>2, <1>3, <1>4, <1>5, StepKeepsOne

LEMMA WriteKeepsOne == ASSUME OneInv, ~Together, NEW r \in Runs, OWrite(r) PROVE OneInv'
<1>1. PICK rec \in RunStates :
        /\ Put(r, rec) /\ rec.pc = "next" /\ rec.todo = orun[r].todo \ {Lead(r)}
        /\ rec.lead = "none"
  BY DoneIs DEF OWrite, OneInv, SentInv
<1>2. /\ orun[r].pc = "write" /\ UNCHANGED <<ogot, ounsaid>> /\ WorkWell(orun[r])
      /\ ostate' = [ostate EXCEPT ![Lead(r)] = orun[r].outcome] /\ ostate \in ContactState
  BY DEF OWrite, Recorded, facts, OneInv, SentInv, OTypeOK, RunsWell
<1>3. Alone(r) /\ orun[r].outcome # "none"
  BY <1>2 DEF OneInv, Active, OEnded, WorkWell
<1>4. ASSUME ~RetryFailed, NEW l \in Leads \ ounsaid
      PROVE  OnceFor(rec, l, ogot[l], ostate'[l])
  <2>1. OnceFor(orun[r], l, ogot[l], ostate[l]) /\ l # "none"
    BY <1>3, <1>4, HereIs, OutreachAssumption
  <2>2. CASE l = Lead(r)
    <3>1. ostate'[l] # "none" /\ l \notin rec.todo
      BY <1>1, <1>2, <1>3, <2>2 DEF ContactState
    <3> QED
      BY <1>1, <2>1, <3>1 DEF OnceFor
  <2>3. CASE l # Lead(r)
    <3>1. ostate'[l] = ostate[l]
      BY <1>2, <2>3 DEF ContactState
    <3> QED
      BY <1>1, <2>1, <2>3, <3>1 DEF OnceFor, Lead
  <2> QED
    BY <2>2, <2>3
<1>5. rec.pc # "write"
  BY <1>1
<1>6. SentInv'
  BY WriteKeepsSent DEF OneInv
<1> QED
  BY <1>1, <1>2, <1>3, <1>4, <1>5, <1>6, StepKeepsOne

LEMMA StopKeepsOne == ASSUME OneInv, ~Together, NEW r \in Runs, OStop(r) PROVE OneInv'
<1>1. PICK rec \in RunStates :
        /\ Put(r, rec) /\ rec.pc = orun[r].pc /\ rec.todo = orun[r].todo
        /\ rec.lead = orun[r].lead /\ rec.outcome = orun[r].outcome
        /\ rec.seen = orun[r].seen
  BY StopIs DEF OneInv, SentInv
<1>2. Alone(r) /\ UNCHANGED <<ogot, ostate, ounsaid>>
  BY DEF OStop, OneInv, facts
<1>3. ASSUME ~RetryFailed, NEW l \in Leads \ ounsaid
      PROVE  OnceFor(rec, l, ogot[l], ostate[l])
  <2>1. OnceFor(orun[r], l, ogot[l], ostate[l])
    BY <1>2, <1>3, HereIs
  <2> QED
    BY <1>1, <2>1 DEF OnceFor
<1>4. rec.pc = "write" => rec.seen = ostate'
  BY <1>1, <1>2 DEF OneInv
<1>5. SentInv'
  BY StopKeepsSent DEF OneInv
<1> QED
  BY <1>1, <1>2, <1>3, <1>4, <1>5, StepKeepsOne

LEMMA KillKeepsOne == ASSUME OneInv, ~Together, NEW r \in Runs, OKill(r) PROVE OneInv'
<1>1. PICK rec \in RunStates :
        /\ Put(r, rec) /\ rec.pc = "killed" /\ rec.todo = {} /\ rec.lead = "none"
  BY KillIs DEF OneInv, SentInv
<1>2. Alone(r) /\ UNCHANGED <<ogot, ostate>>
      /\ ounsaid' = IF Lead(r) # "none" THEN ounsaid \cup {Lead(r)} ELSE ounsaid
  BY DEF OKill, OneInv, facts
<1>3. ASSUME ~RetryFailed, NEW l \in Leads \ ounsaid'
      PROVE  OnceFor(rec, l, ogot[l], ostate[l])
  <2>1. l \in Leads \ ounsaid /\ l # "none" /\ l # Lead(r)
    BY <1>2, OutreachAssumption
  <2>2. OnceFor(orun[r], l, ogot[l], ostate[l])
    BY <1>2, <1>3, <2>1, HereIs
  <2> QED
    BY <1>1, <2>1, <2>2 DEF OnceFor, Lead
<1>4. rec.pc # "write"
  BY <1>1
<1>5. SentInv'
  BY KillKeepsSent DEF OneInv
<1> QED
  BY <1>1, <1>2, <1>3, <1>4, <1>5, StepKeepsOne

LEMMA InitHasOne == OInit => OneInv
<1> SUFFICES ASSUME OInit PROVE OneInv
  OBVIOUS
<1>1. SentInv /\ \A r \in Runs : orun[r] = IdleRun /\ ~Active(r)
  BY InitHasSent, IdleRunIs DEF OInit, Active, OEnded
<1>2. OnceKept
  BY <1>1, IdleRunIs DEF OInit, OnceKept, OnceFor
<1> QED
  BY <1>1, <1>2, IdleRunIs DEF OneInv

LEMMA NextKeepsOne == ~Together /\ OneInv /\ [ONext]_oVars => OneInv'
<1> SUFFICES ASSUME ~Together, OneInv, [ONext]_oVars PROVE OneInv'
  OBVIOUS
<1>1. ASSUME OImport \/ UNCHANGED oVars PROVE OneInv'
  <2>1. UNCHANGED <<ostate, ogot, ounsaid, orun>>
    BY <1>1 DEF OImport, oVars, facts
  <2>2. SentInv'
    BY NextKeepsSent DEF OneInv
  <2> QED
    BY <2>1, <2>2 DEF OneInv, OnceKept, Alone, Active
<1>2. ASSUME NEW r \in Runs, OWork(r) \/ OStop(r) \/ OKill(r) PROVE OneInv'
  BY <1>2, PickKeepsOne, AdvanceKeepsOne, OpenKeepsOne, SendKeepsOne, ReadKeepsOne,
     WriteKeepsOne, StopKeepsOne, KillKeepsOne DEF OWork
<1> QED
  BY <1>1, <1>2 DEF ONext

\* While the runs of a list do not overlap, nobody is messaged twice and the contact
\* file tells who was, unless failed leads are tried again or an outcome could not be
\* recorded (leads.ts:11-13, cold-dms.ts:275-335).
THEOREM MessagedOnce == ~Together => (OSpec => []OSafe)
<1>1. ASSUME ~Together PROVE OSpec => []OSafe
  <2>1. OneInv => OSafe
    BY DEF OneInv, SentInv, OnceKept, OSafe, OMessagedOnce
  <2>2. OneInv /\ [ONext]_oVars => OneInv'
    BY <1>1, NextKeepsOne
  <2> QED
    BY <2>1, <2>2, InitHasOne, PTL DEF OSpec
<1> QED
  BY <1>1

USE WorkflowsAssumption

-----------------------------------------------------------------------------
(* Trained workflows.  What is recorded or on its way to the server is one  *)
(* recording; two gestures of it that were not on their way together are in *)
(* the order of the phone, since the later one was sent when the phone had  *)
(* performed the earlier one.                                              *)

Going == {g \in Gestures : tgesture[g] \in {"sent", "performed"}}

\* The shape of the recorder, of the saves and of what the phone has done.
RecorderShape ==
  /\ tgesture \in [Gestures -> {"idle", "sent", "performed", "answered", "failed"}]
  /\ tphone \in Seq(Gestures)
  /\ train \in [on : BOOLEAN, events : Seq(Events), number : 0..MaxTrainings, dialog : BOOLEAN]
  /\ theard \in [1..MaxTrainings -> Seq(Gestures)]
  /\ tsave \in [asked : BOOLEAN, events : Seq(Events)]

\* Who is on the way together is known; who was answered had been performed, and
\* before whoever is performed now, unless they were on their way together.
GesturesWell ==
  /\ \A g, h \in Going : g # h => {g, h} \in tbeside
  /\ \A g \in Gestures : tgesture[g] = "answered" => \E k \in DOMAIN tphone : tphone[k] = g
  /\ \A g \in Gestures : tgesture[g] = "performed" => \E k \in DOMAIN tphone : tphone[k] = g
  /\ \A g, h \in Gestures :
       (tgesture[g] = "answered" /\ tgesture[h] = "performed" /\ {g, h} \notin tbeside)
         => Before(g, h)

\* The recorder has what was answered since it was started, and all of it.
RecorderWell ==
  /\ \A n \in 1..MaxTrainings : n > train.number => theard[n] = <<>>
  /\ (train.on \/ train.events # <<>>)
       => train.number >= 1 /\ Made(train.events) = theard[train.number]
  /\ train.dialog => ~train.on /\ train.events # <<>>
  /\ \A i \in DOMAIN train.events : tgesture[train.events[i].g] = "answered"
  /\ InOrder(train.events)

\* The recording of a save is over.
SaveWell ==
  tsave.asked =>
    /\ \E n \in 1..MaxTrainings :
         /\ n <= train.number /\ (n = train.number => ~train.on)
         /\ Made(tsave.events) = theard[n]
    /\ InOrder(tsave.events)

TInv == RecorderShape /\ GesturesWell /\ RecorderWell /\ SaveWell

LEMMA TInitHolds == TInit => TInv
<1> SUFFICES ASSUME TInit PROVE TInv
  OBVIOUS
<1>1. RecorderShape
  BY DEF TInit, RecorderShape, NoSave
<1>2. GesturesWell  BY DEF TInit, GesturesWell, Going
<1>3. RecorderWell  BY DEF TInit, RecorderWell, InOrder
<1>4. SaveWell  BY DEF TInit, SaveWell, NoSave
<1> QED  BY <1>1, <1>2, <1>3, <1>4 DEF TInv

\* What the phone has done stays done, and in its order.
PhoneGrows ==
  /\ \A g, h \in Gestures : Before(g, h) => Before(g, h)'
  /\ tbeside \subseteq tbeside'

LEMMA EventIsTyped ==
  ASSUME NEW events \in Seq(Events), NEW i \in DOMAIN events
  PROVE events[i].g \in Gestures
<1>1. events[i] \in Events  OBVIOUS
<1> QED  BY <1>1 DEF Events

LEMMA OrderStays ==
  ASSUME PhoneGrows, NEW events \in Seq(Events), InOrder(events)
  PROVE \A i, j \in DOMAIN events :
          (i < j /\ {events[i].g, events[j].g} \notin tbeside') => Before(events[i].g, events[j].g)'
  BY EventIsTyped DEF PhoneGrows, InOrder

LEMMA MadeIsTyped ==
  ASSUME NEW events \in Seq(Events)
  PROVE Made(events) \in Seq(Gestures) /\ Len(Made(events)) = Len(events)
<1>1. DOMAIN events = 1..Len(events) /\ Len(events) \in Nat  OBVIOUS
<1>2. Made(events) \in [1..Len(events) -> Gestures]  BY <1>1, EventIsTyped DEF Made
<1>3. Made(events) \in Seq(Gestures)
  <2> HIDE DEF Made
  <2> QED  BY <1>1, <1>2, SeqDef
<1>4. DOMAIN Made(events) = DOMAIN events  BY DEF Made
<1>5. Len(Made(events)) \in Nat /\ DOMAIN Made(events) = 1..Len(Made(events))
  BY <1>3, LenProperties
<1> QED  BY <1>1, <1>3, <1>4, <1>5

LEMMA MadeGrows ==
  ASSUME NEW events \in Seq(Events), NEW g \in Gestures, NEW t \in Times
  PROVE /\ WithEvent(events, g, t) \in Seq(Events)
        /\ Made(WithEvent(events, g, t)) = Append(Made(events), g)
<1> DEFINE e == [t |-> t, g |-> g]  more == Append(events, e)
<1>1. e \in Events  BY DEF Events
<1>2. more \in Seq(Events)  BY <1>1
<1>3. Len(more) = Len(events) + 1
      /\ \A i \in 1..Len(more) : more[i] = IF i = Len(events) + 1 THEN e ELSE events[i]
  BY <1>1
<1>4. Made(events) \in Seq(Gestures) /\ Len(Made(events)) = Len(events)
  BY MadeIsTyped
<1>5. Made(more) \in Seq(Gestures) /\ Len(Made(more)) = Len(events) + 1
  BY <1>2, <1>3, MadeIsTyped
<1>6. Append(Made(events), g) \in Seq(Gestures) /\ Len(Append(Made(events), g)) = Len(events) + 1
  BY <1>4
<1>7. \A i \in 1..(Len(events) + 1) : Made(more)[i] = Append(Made(events), g)[i]
  <2> TAKE i \in 1..(Len(events) + 1)
  <2>1. Made(more)[i] = more[i].g  BY <1>2, <1>3 DEF Made
  <2>2. CASE i = Len(events) + 1
    <3>1. more[i].g = g  BY <1>3, <2>2
    <3>2. Append(Made(events), g)[i] = g  BY <1>4, <2>2
    <3> QED  BY <2>1, <3>1, <3>2
  <2>3. CASE i # Len(events) + 1
    <3>1. i \in 1..Len(events)  BY <2>3
    <3>2. Made(more)[i] = events[i].g  BY <1>3, <2>1, <2>3
    <3>3. Append(Made(events), g)[i] = Made(events)[i]  BY <1>4, <3>1
    <3>4. Made(events)[i] = events[i].g  BY <3>1 DEF Made
    <3> QED  BY <3>2, <3>3, <3>4
  <2> QED  BY <2>2, <2>3
<1>8. Made(more) = Append(Made(events), g)
  <2> HIDE DEF more
  <2> QED  BY <1>5, <1>6, <1>7, SeqEqual
<1> QED  BY <1>2, <1>8 DEF WithEvent

\* Whether a gesture was answered does not go away.
AnsweredStays ==
  \A g \in Gestures : tgesture[g] = "answered" => tgesture'[g] = "answered"

\* A save whose recording and what was heard of it are as they were.
LEMMA SaveStays ==
  ASSUME TInv, PhoneGrows, UNCHANGED tsave,
         \A n \in 1..MaxTrainings :
           (n <= train.number /\ (n = train.number => ~train.on))
             => /\ theard'[n] = theard[n]
                /\ n <= train'.number /\ (n = train'.number => ~train'.on)
  PROVE SaveWell'
<1>1. SUFFICES ASSUME tsave.asked PROVE SaveWell'
  BY DEF SaveWell
<1>2. PICK n \in 1..MaxTrainings :
        n <= train.number /\ (n = train.number => ~train.on) /\ Made(tsave.events) = theard[n]
  BY <1>1 DEF TInv, SaveWell
<1>3. Made(tsave'.events) = theard'[n]  BY <1>2
<1>4. tsave.events \in Seq(Events) /\ InOrder(tsave.events)
  BY <1>1 DEF TInv, RecorderShape, SaveWell
<1>5. InOrder(tsave.events)'  BY <1>4, OrderStays DEF InOrder
<1> QED  BY <1>2, <1>3, <1>5 DEF SaveWell

\* A step that no gesture takes part in: the gestures, and the order of whatever
\* was recorded, stay.
LEMMA PageStep ==
  ASSUME TInv, UNCHANGED <<tgesture, tphone, tbeside>>
  PROVE GesturesWell' /\ PhoneGrows /\ AnsweredStays
<1>1. \A g, h : Before(g, h)' <=> Before(g, h)  BY DEF Before
<1>2. PhoneGrows /\ AnsweredStays  BY <1>1 DEF PhoneGrows, AnsweredStays
<1>3. GesturesWell'  BY <1>1 DEF TInv, GesturesWell, Going
<1> QED  BY <1>2, <1>3

\* A step of the gestures that the recorder does not hear.
LEMMA UnheardStep ==
  ASSUME TInv, PhoneGrows, AnsweredStays, UNCHANGED <<train, theard, tsave>>
  PROVE RecorderWell' /\ SaveWell'
<1>1. SaveWell'  BY SaveStays
<1>2. train.events \in Seq(Events) /\ InOrder(train.events)
  BY DEF TInv, RecorderShape, RecorderWell
<1>3. InOrder(train.events)'  BY <1>2, OrderStays DEF InOrder
<1>4. \A i \in DOMAIN train.events : tgesture'[train.events[i].g] = "answered"
  BY <1>2, EventIsTyped DEF TInv, RecorderWell, AnsweredStays
<1> QED  BY <1>1, <1>3, <1>4 DEF TInv, RecorderWell

LEMMA SendKeeps == ASSUME TInv, NEW g \in Gestures, TSend(g) PROVE TInv'
<1>0. tgesture \in [Gestures -> {"idle", "sent", "performed", "answered", "failed"}]
  BY DEF TInv, RecorderShape
<1>1. RecorderShape'  BY <1>0 DEF TInv, TSend, pageVars, RecorderShape
<1>2. \A a, b : Before(a, b)' <=> Before(a, b)  BY DEF TSend, Before
<1>3. PhoneGrows /\ AnsweredStays
  BY <1>0, <1>2 DEF TSend, PhoneGrows, AnsweredStays
<1>4. GesturesWell'
  <2>1. \A h \in Gestures : h # g => tgesture'[h] = tgesture[h]  BY <1>0 DEF TSend
  <2>2. tgesture'[g] = "sent"  BY <1>0 DEF TSend
  <2>3. tbeside' = tbeside \cup {{g, h} : h \in Going}  BY DEF TSend, Going
  <2>4. \A a, b \in Going' : a # b => {a, b} \in tbeside'
    <3> SUFFICES ASSUME NEW a \in Gestures, NEW b \in Gestures, a # b,
                        a \in Going', b \in Going'
                 PROVE {a, b} \in tbeside'
      BY DEF Going
    <3>1. CASE a # g /\ b # g
      BY <2>1, <2>3, <3>1 DEF TInv, GesturesWell, Going
    <3>2. CASE a = g
      <4>1. b \in Going  BY <2>1, <3>2 DEF Going
      <4> QED  BY <2>3, <3>2, <4>1
    <3>3. CASE b = g
      <4>1. a \in Going  BY <2>1, <3>3 DEF Going
      <4>2. {g, a} \in tbeside'  BY <2>3, <4>1
      <4>3. {g, a} = {a, b}  BY <3>3
      <4> QED  BY <4>2, <4>3
    <3> QED  BY <3>1, <3>2, <3>3
  <2>5. tphone' = tphone  BY DEF TSend
  <2> QED  BY <1>2, <2>1, <2>2, <2>3, <2>4, <2>5 DEF TInv, GesturesWell
<1>5. RecorderWell' /\ SaveWell'  BY <1>3, UnheardStep DEF TSend, pageVars
<1> QED  BY <1>1, <1>4, <1>5 DEF TInv

\* What the phone performs comes after all that was answered.
LEMMA PerformKeeps == ASSUME TInv, NEW g \in Gestures, TPerform(g) PROVE TInv'
<1>0. /\ tgesture \in [Gestures -> {"idle", "sent", "performed", "answered", "failed"}]
      /\ tphone \in Seq(Gestures) /\ tphone' = Append(tphone, g)
  BY DEF TInv, RecorderShape, TPerform
<1>1. RecorderShape'  BY <1>0 DEF TInv, TPerform, pageVars, RecorderShape
<1>2. /\ DOMAIN tphone = 1..Len(tphone) /\ DOMAIN tphone' = 1..(Len(tphone) + 1)
      /\ \A k \in 1..Len(tphone) : tphone'[k] = tphone[k]
      /\ tphone'[Len(tphone) + 1] = g /\ Len(tphone) \in Nat
  BY <1>0
<1>3. \A a, b : Before(a, b) => Before(a, b)'
  BY <1>2 DEF Before
<1>4. PhoneGrows /\ AnsweredStays
  BY <1>0, <1>3 DEF TPerform, PhoneGrows, AnsweredStays
<1>5. GesturesWell'
  <2>1. \A h \in Gestures : h # g => tgesture'[h] = tgesture[h]  BY <1>0 DEF TPerform
  <2>2. tgesture'[g] = "performed" /\ tgesture[g] = "sent" /\ tbeside' = tbeside
    BY <1>0 DEF TPerform
  <2>3. Going' = Going  BY <2>1, <2>2 DEF Going
  <2>4. \A h \in Gestures : (\E k \in DOMAIN tphone : tphone[k] = h)
                              => \E k \in DOMAIN tphone' : tphone'[k] = h
    BY <1>2
  <2>5. \E k \in DOMAIN tphone' : tphone'[k] = g  BY <1>2
  <2>6. \A h \in Gestures : (\E k \in DOMAIN tphone : tphone[k] = h) => Before(h, g)'
    BY <1>2 DEF Before
  <2>7. \A a, b \in Gestures :
          (tgesture'[a] = "answered" /\ tgesture'[b] = "performed" /\ {a, b} \notin tbeside')
            => Before(a, b)'
    <3> SUFFICES ASSUME NEW a \in Gestures, NEW b \in Gestures, tgesture'[a] = "answered",
                        tgesture'[b] = "performed", {a, b} \notin tbeside'
                 PROVE Before(a, b)'
      OBVIOUS
    <3>1. a # g /\ tgesture[a] = "answered"  BY <2>1, <2>2
    <3>2. CASE b = g
      <4>1. \E k \in DOMAIN tphone : tphone[k] = a  BY <3>1 DEF TInv, GesturesWell
      <4> QED  BY <2>6, <3>2, <4>1
    <3>3. CASE b # g
      <4>1. Before(a, b)  BY <2>1, <2>2, <3>1, <3>3 DEF TInv, GesturesWell
      <4> QED  BY <1>3, <4>1
    <3> QED  BY <3>2, <3>3
  <2>8. \A h \in Gestures : tgesture'[h] \in {"answered", "performed"}
                              => \E k \in DOMAIN tphone' : tphone'[k] = h
    BY <2>1, <2>2, <2>4, <2>5 DEF TInv, GesturesWell
  <2>9. \A a, b \in Going' : a # b => {a, b} \in tbeside'
    BY <2>2, <2>3 DEF TInv, GesturesWell
  <2> QED  BY <2>7, <2>8, <2>9 DEF GesturesWell
<1>6. RecorderWell' /\ SaveWell'  BY <1>4, UnheardStep DEF TPerform, pageVars
<1> QED  BY <1>1, <1>5, <1>6 DEF TInv

\* The recorder hears the answer: the gesture is after all that it has, except of
\* those it was on its way with.
LEMMA HeardKeeps ==
  ASSUME TInv, NEW g \in Gestures, TAnswer(g), train.on, GesturesWell', PhoneGrows, AnsweredStays,
         tgesture'[g] = "answered"
  PROVE RecorderShape' /\ RecorderWell' /\ SaveWell'
<1>0. PICK t \in Times : /\ \A i \in DOMAIN train.events : train.events[i].t <= t
                         /\ train' = [train EXCEPT !.events = WithEvent(@, g, t)]
  BY DEF TAnswer
<1> DEFINE events == train.events  more == WithEvent(events, g, t)  e == [t |-> t, g |-> g]
<1>1. /\ train \in [on : BOOLEAN, events : Seq(Events), number : 0..MaxTrainings, dialog : BOOLEAN]
      /\ events \in Seq(Events) /\ train.number \in 1..MaxTrainings
      /\ theard \in [1..MaxTrainings -> Seq(Gestures)]
  BY DEF TInv, RecorderShape, RecorderWell
<1>2. more \in Seq(Events) /\ Made(more) = Append(Made(events), g)
  BY <1>1, MadeGrows
<1>3. theard' = [theard EXCEPT ![train.number] = Append(@, g)]  BY DEF TAnswer
<1>4. train' = [train EXCEPT !.events = more]  BY <1>0
<1>5. tgesture' \in [Gestures -> {"idle", "sent", "performed", "answered", "failed"}]
  BY DEF TInv, RecorderShape, TAnswer
<1>6. RecorderShape'
  <2>1. train' \in [on : BOOLEAN, events : Seq(Events), number : 0..MaxTrainings, dialog : BOOLEAN]
    <3> HIDE DEF more, events
    <3> QED  BY <1>1, <1>2, <1>4
  <2>2. theard' \in [1..MaxTrainings -> Seq(Gestures)]  BY <1>1, <1>3
  <2> QED  BY <1>5, <2>1, <2>2 DEF TInv, RecorderShape, TAnswer
<1>7. DOMAIN more = 1..(Len(events) + 1) /\ DOMAIN events = 1..Len(events) /\ Len(events) \in Nat
      /\ more[Len(events) + 1] = e /\ \A i \in 1..Len(events) : more[i] = events[i]
  <2>1. e \in Events  BY DEF Events
  <2> QED  BY <1>1, <2>1 DEF WithEvent
<1>8. InOrder(more)
  <2> SUFFICES ASSUME NEW i \in DOMAIN more, NEW j \in DOMAIN more, i < j,
                      {more[i].g, more[j].g} \notin tbeside
               PROVE Before(more[i].g, more[j].g)
    BY DEF InOrder
  <2>1. i \in 1..Len(events) /\ more[i] = events[i]  BY <1>7
  <2>2. CASE j \in 1..Len(events)
    <3>1. more[j] = events[j]  BY <1>7, <2>2
    <3>2. Before(events[i].g, events[j].g)
      BY <1>7, <2>1, <2>2, <3>1 DEF TInv, RecorderWell, InOrder
    <3> HIDE DEF more, events
    <3> QED  BY <2>1, <3>1, <3>2
  <2>3. CASE j = Len(events) + 1
    <3>1. more[j].g = g  BY <1>7, <2>3
    <3>2. events[i].g \in Gestures  BY <1>1, <1>7, <2>1, EventIsTyped
    <3>3. tgesture[events[i].g] = "answered"  BY <1>7, <2>1 DEF TInv, RecorderWell
    <3>4. tgesture[g] = "performed"  BY DEF TAnswer
    <3>5. Before(events[i].g, g)
      BY <2>1, <3>1, <3>2, <3>3, <3>4 DEF TInv, GesturesWell
    <3> HIDE DEF more, events
    <3> QED  BY <2>1, <3>1, <3>5
  <2> QED  BY <1>7, <2>2, <2>3
<1>9. RecorderWell'
  <2>1. train'.number = train.number /\ train'.on /\ train'.dialog = train.dialog
        /\ train'.events = more
    BY <1>1, <1>4
  <2>2. \A n \in 1..MaxTrainings : n > train.number => theard'[n] = <<>>
    <3> TAKE n \in 1..MaxTrainings
    <3>1. n > train.number => theard'[n] = theard[n]  BY <1>1, <1>3
    <3> QED  BY <3>1 DEF TInv, RecorderWell
  <2>3. Made(more) = theard'[train.number]
    <3>1. Made(events) = theard[train.number]  BY DEF TInv, RecorderWell
    <3> QED  BY <1>1, <1>2, <1>3, <3>1
  <2>4. ~train.dialog  BY DEF TInv, RecorderWell
  <2>5. \A i \in DOMAIN more : tgesture'[more[i].g] = "answered"
    <3> TAKE i \in DOMAIN more
    <3>1. CASE i \in 1..Len(events)
      <4>1. more[i] = events[i] /\ events[i].g \in Gestures  BY <1>1, <1>7, <3>1, EventIsTyped
      <4>2. tgesture[events[i].g] = "answered"  BY <1>7, <3>1 DEF TInv, RecorderWell
      <4> QED  BY <4>1, <4>2 DEF AnsweredStays
    <3>2. CASE i = Len(events) + 1
      BY <1>7, <3>2
    <3> QED  BY <1>7, <3>1, <3>2
  <2>6. Made(train'.events) = theard'[train'.number]  BY <2>1, <2>3
  <2>7. InOrder(train.events)'
    <3>1. tphone' = tphone /\ tbeside' = tbeside  BY DEF TAnswer
    <3> HIDE DEF more, events
    <3> QED  BY <1>8, <2>1, <3>1 DEF InOrder, Before
  <2> HIDE DEF more, events
  <2> QED  BY <1>1, <2>1, <2>2, <2>4, <2>5, <2>6, <2>7 DEF RecorderWell
<1>10. SaveWell'
  <2>1. \A n \in 1..MaxTrainings :
          (n <= train.number /\ (n = train.number => ~train.on))
             => /\ theard'[n] = theard[n]
                /\ n <= train'.number /\ (n = train'.number => ~train'.on)
    <3> TAKE n \in 1..MaxTrainings
    <3>1. train'.number = train.number /\ train'.on = train.on  BY <1>1, <1>4
    <3>2. n # train.number => theard'[n] = theard[n]  BY <1>1, <1>3
    <3> QED  BY <3>1, <3>2
  <2>2. tsave' = tsave  BY DEF TAnswer
  <2> QED  BY <2>1, <2>2, SaveStays
<1> QED  BY <1>6, <1>9, <1>10

LEMMA AnswerKeeps == ASSUME TInv, NEW g \in Gestures, TAnswer(g) PROVE TInv'
<1>0. /\ tgesture \in [Gestures -> {"idle", "sent", "performed", "answered", "failed"}]
      /\ tphone' = tphone /\ tbeside' = tbeside /\ tsave' = tsave
  BY DEF TInv, RecorderShape, TAnswer
<1>1. /\ \A h \in Gestures : h # g => tgesture'[h] = tgesture[h]
      /\ tgesture[g] = "performed" /\ tgesture'[g] = "answered"
  BY <1>0 DEF TAnswer
<1>2. \A a, b : Before(a, b)' <=> Before(a, b)  BY <1>0 DEF Before
<1>3. PhoneGrows /\ AnsweredStays
  BY <1>0, <1>1, <1>2 DEF PhoneGrows, AnsweredStays
<1>4. GesturesWell'
  <2>1. \A a, b \in Going' : a # b => {a, b} \in tbeside'
    BY <1>0, <1>1 DEF TInv, GesturesWell, Going
  <2>2. \A h \in Gestures : tgesture'[h] \in {"answered", "performed"}
                              => \E k \in DOMAIN tphone' : tphone'[k] = h
    BY <1>0, <1>1 DEF TInv, GesturesWell
  <2>3. \A a, b \in Gestures :
          (tgesture'[a] = "answered" /\ tgesture'[b] = "performed" /\ {a, b} \notin tbeside')
            => Before(a, b)'
    <3> SUFFICES ASSUME NEW a \in Gestures, NEW b \in Gestures, tgesture'[a] = "answered",
                        tgesture'[b] = "performed", {a, b} \notin tbeside
                 PROVE Before(a, b)
      BY <1>0, <1>2
    <3>1. b # g /\ tgesture[b] = "performed"  BY <1>1
    <3>2. CASE a = g
      <4>1. a \in Going /\ b \in Going  BY <1>1, <3>1, <3>2 DEF Going
      <4> QED  BY <3>1, <3>2, <4>1 DEF TInv, GesturesWell
    <3>3. CASE a # g
      BY <1>1, <3>1, <3>3 DEF TInv, GesturesWell
    <3> QED  BY <3>2, <3>3
  <2> QED  BY <2>1, <2>2, <2>3 DEF GesturesWell
<1>5. CASE train.on
  BY <1>1, <1>3, <1>4, <1>5, HeardKeeps DEF TInv
<1>6. CASE ~train.on
  <2>1. UNCHANGED <<train, theard, tsave>>  BY <1>0, <1>6 DEF TAnswer
  <2>2. RecorderWell' /\ SaveWell'  BY <1>3, <2>1, UnheardStep
  <2>3. RecorderShape'  BY <1>0, <2>1 DEF TInv, RecorderShape, TAnswer
  <2> QED  BY <1>4, <2>2, <2>3 DEF TInv
<1> QED  BY <1>5, <1>6

\* The recorder is started, stopped or cleared, its dialog opened or closed; a start
\* is another recording.
LEMMA RecorderKeeps ==
  ASSUME TInv, TToggle \/ TClear \/ TDialog
  PROVE TInv'
<1>0. /\ train \in [on : BOOLEAN, events : Seq(Events), number : 0..MaxTrainings, dialog : BOOLEAN]
      /\ UNCHANGED <<tgesture, tphone, tbeside, theard, tsave>>
  BY DEF TInv, RecorderShape, TToggle, TClear, TDialog
<1>1. GesturesWell' /\ PhoneGrows /\ AnsweredStays  BY <1>0, PageStep
<1>2. \/ train' = [train EXCEPT !.on = FALSE] /\ train.on
      \/ train' = Started(train) /\ ~train.on /\ ~train.dialog /\ train.number < MaxTrainings
      \/ train' = [train EXCEPT !.on = FALSE, !.events = <<>>] /\ ~train.dialog
      \/ train' = [train EXCEPT !.dialog = ~@] /\ (train.dialog \/ (~train.on /\ train.events # <<>>))
  BY DEF TToggle, TClear, TDialog
<1>3. /\ train' \in [on : BOOLEAN, events : Seq(Events), number : 0..MaxTrainings, dialog : BOOLEAN]
      /\ train'.number >= train.number
      /\ train'.events \in {train.events, <<>>}
      /\ train'.on => train'.events = <<>> /\ train'.number > train.number
      /\ train'.number > train.number => train'.on
      /\ train'.events # <<>> => train'.number = train.number
      /\ train'.dialog => ~train'.on /\ train'.events # <<>>
  <2> DEFINE Recorder == [on : BOOLEAN, events : Seq(Events), number : 0..MaxTrainings, dialog : BOOLEAN]
  <2>0. <<>> \in Seq(Events) /\ train.number \in 0..MaxTrainings
    BY <1>0
  <2>1. CASE train' = [train EXCEPT !.on = FALSE] /\ train.on
    <3>1. train' \in Recorder  BY <1>0, <2>1
    <3>2. /\ ~train'.on /\ train'.events = train.events
          /\ train'.number = train.number /\ train'.dialog = train.dialog
      BY <1>0, <2>1
    <3>3. ~train.dialog  BY <2>1 DEF TInv, RecorderWell
    <3> QED  BY <2>0, <3>1, <3>2, <3>3
  <2>2. CASE train' = Started(train) /\ ~train.on /\ ~train.dialog /\ train.number < MaxTrainings
    <3>0. train.number + 1 \in 0..MaxTrainings  BY <2>0, <2>2
    <3>1. train' \in Recorder
      <4>1. train' = [train EXCEPT !.on = TRUE, !.number = train.number + 1, !.events = <<>>]
        BY <2>2 DEF Started
      <4> QED  BY <1>0, <2>0, <3>0, <4>1
    <3>2. /\ train'.on /\ train'.events = <<>>
          /\ train'.number = train.number + 1 /\ train'.dialog = train.dialog
      BY <1>0, <2>2 DEF Started
    <3> QED  BY <2>0, <2>2, <3>1, <3>2
  <2>3. CASE train' = [train EXCEPT !.on = FALSE, !.events = <<>>] /\ ~train.dialog
    <3>1. train' \in Recorder  BY <1>0, <2>0, <2>3
    <3>2. /\ ~train'.on /\ train'.events = <<>>
          /\ train'.number = train.number /\ train'.dialog = train.dialog
      BY <1>0, <2>3
    <3> QED  BY <2>0, <2>3, <3>1, <3>2
  <2>4. CASE /\ train' = [train EXCEPT !.dialog = ~@]
             /\ (train.dialog \/ (~train.on /\ train.events # <<>>))
    <3>1. ~train.on /\ train.events # <<>>  BY <2>4 DEF TInv, RecorderWell
    <3>2. (~train.dialog) \in BOOLEAN  BY <1>0
    <3>3. train' \in Recorder  BY <1>0, <2>4, <3>2
    <3>4. /\ train'.on = train.on /\ train'.events = train.events /\ train'.number = train.number
      BY <1>0, <2>4
    <3> QED  BY <2>0, <3>1, <3>3, <3>4
  <2> QED  BY <1>2, <2>1, <2>2, <2>3, <2>4
<1>4. RecorderShape'  BY <1>0, <1>3 DEF TInv, RecorderShape
<1>5. RecorderWell'
  <2>1. \A n \in 1..MaxTrainings : n > train'.number => theard'[n] = <<>>
    BY <1>0, <1>3 DEF TInv, RecorderWell
  <2>2. (train'.on \/ train'.events # <<>>)
           => train'.number >= 1 /\ Made(train'.events) = theard'[train'.number]
    <3>1. CASE train'.on
      <4>1. theard'[train'.number] = <<>> /\ train'.number \in 1..MaxTrainings
        BY <1>0, <1>3, <3>1 DEF TInv, RecorderWell
      <4>2. Made(<<>>) = <<>>
        <5>1. <<>> \in Seq(Events)  OBVIOUS
        <5>2. Made(<<>>) \in Seq(Gestures) /\ Len(Made(<<>>)) = 0  BY <5>1, MadeIsTyped
        <5> QED  BY <5>2, EmptySeq
      <4> QED  BY <1>3, <3>1, <4>1, <4>2
    <3>2. CASE ~train'.on /\ train'.events # <<>>
      BY <1>0, <1>3, <3>2 DEF TInv, RecorderWell
    <3> QED  BY <3>1, <3>2
  <2>3. \A i \in DOMAIN train'.events : tgesture'[train'.events[i].g] = "answered"
    BY <1>0, <1>3 DEF TInv, RecorderWell
  <2>4. InOrder(train.events)'
    <3>1. train.events \in Seq(Events) /\ InOrder(train.events)
      BY <1>0 DEF TInv, RecorderWell
    <3>2. train'.events = train.events \/ train'.events = <<>>  BY <1>3
    <3> QED  BY <1>0, <3>1, <3>2 DEF InOrder, Before
  <2> QED  BY <1>3, <2>1, <2>2, <2>3, <2>4 DEF RecorderWell
<1>6. SaveWell'
  <2>1. \A n \in 1..MaxTrainings :
          (n <= train.number /\ (n = train.number => ~train.on))
             => /\ theard'[n] = theard[n]
                /\ n <= train'.number /\ (n = train'.number => ~train'.on)
    BY <1>0, <1>3
  <2> QED  BY <1>0, <1>1, <2>1, SaveStays
<1> QED  BY <1>1, <1>4, <1>5, <1>6 DEF TInv

\* A save takes the recording that the dialog covers.
LEMMA SaveKeeps == ASSUME TInv, TSave PROVE TInv'
<1>0. /\ train \in [on : BOOLEAN, events : Seq(Events), number : 0..MaxTrainings, dialog : BOOLEAN]
      /\ UNCHANGED <<tgesture, tphone, tbeside, theard, train>>
      /\ tsave' = [asked |-> TRUE, events |-> train.events]
  BY DEF TInv, RecorderShape, TSave
<1>1. GesturesWell' /\ PhoneGrows /\ AnsweredStays  BY <1>0, PageStep
<1>2. RecorderShape'  BY <1>0 DEF TInv, RecorderShape
<1>3. RecorderWell'
  BY <1>0, <1>1 DEF TInv, RecorderWell, InOrder, Before
<1>4. SaveWell'
  <2>1. ~train.on /\ train.number \in 1..MaxTrainings /\ Made(train.events) = theard[train.number]
    BY <1>0 DEF TInv, RecorderWell, TSave
  <2>2. InOrder(train.events)  BY DEF TInv, RecorderWell
  <2>3. InOrder(tsave.events)'  BY <1>0, <2>2 DEF InOrder, Before
  <2> QED  BY <1>0, <2>1, <2>3 DEF SaveWell
<1> QED  BY <1>1, <1>2, <1>3, <1>4 DEF TInv

LEMMA SavedKeeps == ASSUME TInv, TSaved PROVE TInv'
<1>0. /\ train \in [on : BOOLEAN, events : Seq(Events), number : 0..MaxTrainings, dialog : BOOLEAN]
      /\ UNCHANGED <<tgesture, tphone, tbeside, theard>> /\ tsave' = NoSave
      /\ \/ train' = [train EXCEPT !.on = FALSE, !.events = <<>>, !.dialog = FALSE]
         \/ train' = train
  BY DEF TInv, RecorderShape, TSaved
<1>1. GesturesWell' /\ PhoneGrows /\ AnsweredStays  BY <1>0, PageStep
<1>2. RecorderShape'
  <2>1. <<>> \in Seq(Events)  OBVIOUS
  <2>2. train' \in [on : BOOLEAN, events : Seq(Events), number : 0..MaxTrainings, dialog : BOOLEAN]
    BY <1>0, <2>1
  <2>3. tsave' \in [asked : BOOLEAN, events : Seq(Events)]  BY <1>0, <2>1 DEF NoSave
  <2> QED  BY <1>0, <2>2, <2>3 DEF TInv, RecorderShape
<1>3. RecorderWell'
  <2>1. CASE train' = [train EXCEPT !.on = FALSE, !.events = <<>>, !.dialog = FALSE]
    BY <1>0, <2>1 DEF TInv, RecorderWell, InOrder
  <2>2. CASE train' = train
    BY <1>0, <2>2 DEF TInv, RecorderWell, InOrder, Before
  <2> QED  BY <1>0, <2>1, <2>2
<1>4. SaveWell'  BY <1>0 DEF SaveWell, NoSave
<1> QED  BY <1>1, <1>2, <1>3, <1>4 DEF TInv

LEMMA TNextKeeps == TInv /\ [TNext]_tVars => TInv'
<1> SUFFICES ASSUME TInv, [TNext]_tVars PROVE TInv'
  OBVIOUS
<1>1. ASSUME NEW g \in Gestures, TGesture(g) PROVE TInv'
  BY <1>1, SendKeeps, PerformKeeps, AnswerKeeps DEF TGesture
<1>2. CASE TToggle \/ TClear \/ TDialog  BY <1>2, RecorderKeeps
<1>3. CASE TSave  BY <1>3, SaveKeeps
<1>4. CASE TSaved  BY <1>4, SavedKeeps
<1>5. ASSUME UNCHANGED <<tgesture, tphone, tbeside, train, theard, tsave>> PROVE TInv'
  <2>1. GesturesWell' /\ PhoneGrows /\ AnsweredStays  BY <1>5, PageStep
  <2>2. RecorderWell' /\ SaveWell'  BY <1>5, <2>1, UnheardStep
  <2>3. RecorderShape'  BY <1>5 DEF TInv, RecorderShape
  <2> QED  BY <2>1, <2>2, <2>3 DEF TInv
<1>6. ASSUME NEW p \in tstore, TDelete(p) PROVE TInv'
  BY <1>5, <1>6 DEF TDelete
<1>7. CASE TStart \/ TSignal \/ TLoop \/ TStep
  BY <1>5, <1>7 DEF TStart, TSignal, TLoop, TStep, scriptVars
<1>8. CASE UNCHANGED tVars
  BY <1>5, <1>8 DEF tVars
<1> QED  BY <1>1, <1>2, <1>3, <1>4, <1>6, <1>7, <1>8 DEF TNext

\* What is sent to be stored is one whole recording in the order in which the phone
\* performed it, whatever is recorded, cleared, answered late or saved meanwhile: every
\* gesture that was answered while it ran, and none of another (device.ts:482-498,
\* 784-800, 1735-1756).
THEOREM SavesAreWhole == TSpec => []TSaveIsWhole
<1>1. TInit => TInv  BY TInitHolds
<1>2. TInv /\ [TNext]_tVars => TInv'  BY TNextKeeps
<1>3. TInv => TSaveIsWhole  BY DEF TInv, SaveWell, TSaveIsWhole
<1> QED  BY <1>1, <1>2, <1>3, PTL DEF TSpec
=============================================================================
