------------------------------ MODULE FeedLoop ------------------------------
(***************************************************************************)
(* The four scripts that scroll a feed and engage with it: For You and     *)
(* Following of TikTok (src/src/tiktok/doomscroll*.ts), Reels and its      *)
(* Following of Instagram (src/src/instagram/doomscroll*.ts).  All repeat  *)
(* look - watch - like, comment, save - linger - swipe until the deadline  *)
(* or a stop; they differ in what they recover from and how, which each    *)
(* script's own operators say.                                             *)
(*                                                                         *)
(* A screen is classified (identifyTikTokScreen, identifyInstagramScreen)  *)
(* as "feed" (the one the script wants), "otherTab" (a feed one tap away), *)
(* "sheet" (comments or collections), "live", or "away" (search,           *)
(* SpringBoard, anything else).  A tab that cannot be read counts as the   *)
(* wanted one; otherwise the classification is right, but may be late, and *)
(* a screenshot may fail.  Popups come and go at any moment.               *)
(***************************************************************************)
EXTENDS Integers, FiniteSets

CONSTANTS FeedScripts,     \* subset of {"forYou", "following", "reels", "friends"}
          Grace            \* seconds between SIGTERM and SIGKILL
ASSUME FeedLoopAssumption ==
  FeedScripts \subseteq {"forYou", "following", "reels", "friends"} /\ Grace \in Nat

VARIABLES fpc,        \* the next part of the script
          fscript,    \* which script
          fwill,      \* what this video is still to get
          fattempt,   \* looks made by the running ensure...Feed
          fmax,       \* and how many it may make
          fsoft,      \* softUnknownRetries
          flive,      \* liveSwipeAttempts
          fplan,      \* the recovery the last look chose
          fscreen,    \* the screen
          fseen,      \* the screen at the last look
          fvid,       \* how often the current video got each engagement
          fmissed,    \* the swipe at the end of the round did not advance
          fstop,      \* SIGTERM arrived
          flate,      \* the deadline of the script passed
          fgrace,     \* seconds of uninterruptible waits since SIGTERM
          fsession,   \* the Appium session is open
          fexit       \* "running", "ok", "error" or "killed"

fVars == <<fpc, fscript, fwill, fattempt, fmax, fsoft, flive, fplan, fscreen,
           fseen, fvid, fmissed, fstop, flate, fgrace, fsession, fexit>>
round == <<fattempt, fmax, fsoft, flive, fplan>>
phone == <<fscreen, fvid, fmissed>>
outside == <<fscript, fstop, flate>>

Engagements == {"like", "comment", "save"}
Untouched == [e \in Engagements |-> 0]
Screens == {"feed", "otherTab", "sheet", "live", "away"}
OnFeed == fscreen \in {"feed", "otherTab"}
TikTok == fscript \in {"forYou", "following"}
Capped(n, bound) == IF n > bound THEN bound ELSE n

AliveSlip == ~fstop
Alive == ~fstop /\ ~flate
Spend(seconds) == fgrace' = IF fstop THEN Capped(fgrace + seconds, Grace) ELSE fgrace

FInit ==
  /\ fscript \in FeedScripts /\ fpc = "open" /\ fwill = {}
  /\ fattempt = 0 /\ fmax = 6 /\ fsoft = 0 /\ flive = 0 /\ fplan = "none"
  /\ fscreen = "away" /\ fseen = "none" /\ fvid = Untouched /\ fmissed = FALSE
  /\ fstop = FALSE /\ flate = FALSE /\ fgrace = 0
  /\ fsession = FALSE /\ fexit = "running"

-----------------------------------------------------------------------------
(* What is particular to a script: what it engages with, and how it        *)
(* recovers from the screen it sees.  A recovery is the plan and the two   *)
(* counters of ensure...Feed after it.                                     *)
Plan(p, soft, live) == [plan |-> p, soft |-> soft, live |-> live]

\* TikTok For You: Live is swiped past twice, Following is left by its tab,
\* an unknown screen gets one more look, anything else a relaunch.
EnsureForYou(kind) ==
  CASE kind = "feed" -> Plan("go", 0, 0)
    [] kind = "sheet" -> Plan("dismiss", fsoft, flive)
    [] kind = "live" /\ flive < 2 -> Plan("swipe", fsoft, flive + 1)
    [] kind = "live" -> Plan("relaunch", fsoft, 0)
    [] kind = "otherTab" -> Plan("tab", 0, 0)
    [] kind = "away" /\ fsoft < 1 -> Plan("wait", fsoft + 1, flive)
    [] OTHER -> Plan("relaunch", 0, 0)

\* TikTok Following: the same with the tabs exchanged.
EnsureFollowing(kind) ==
  CASE kind = "feed" -> Plan("go", 0, 0)
    [] kind = "sheet" -> Plan("dismiss", fsoft, flive)
    [] kind = "live" -> IF flive < 2 THEN Plan("swipe", fsoft, flive + 1)
                        ELSE Plan("relaunch", fsoft, 0)
    [] kind = "otherTab" -> Plan("tab", 0, 0)
    [] kind = "away" /\ fsoft < 1 -> Plan("wait", fsoft + 1, flive)
    [] OTHER -> Plan("relaunch", 0, 0)

\* Instagram Reels knows no Live screen.
EnsureReels(kind) ==
  CASE kind = "feed" -> Plan("go", 0, flive)
    [] kind = "sheet" -> Plan("dismiss", fsoft, flive)
    [] kind = "otherTab" -> Plan("tab", 0, flive)
    [] kind = "away" /\ fsoft < 1 -> Plan("wait", fsoft + 1, flive)
    [] OTHER -> Plan("relaunch", 0, flive)

\* Following of Reels counts a soft retry for its tab, too; the second one
\* opens Reels again first.
EnsureFriends(kind) ==
  CASE kind = "feed" -> Plan("go", 0, flive)
    [] kind = "sheet" -> Plan("dismiss", fsoft, flive)
    [] kind = "otherTab" -> Plan("tab", IF fsoft + 1 >= 2 THEN 0 ELSE fsoft + 1, flive)
    [] kind = "away" /\ fsoft < 1 -> Plan("wait", fsoft + 1, flive)
    [] OTHER -> Plan("relaunch", 0, flive)

Recovery(kind) ==
  CASE fscript = "forYou" -> EnsureForYou(kind)
    [] fscript = "following" -> EnsureFollowing(kind)
    [] fscript = "reels" -> EnsureReels(kind)
    [] OTHER -> EnsureFriends(kind)

\* A round: the engagements it may plan, the screens on which it is given up
\* before the first tap, and those that are repaired after an engagement.
\* Instagram saves nothing.
RoundForYou == [gives |-> {"like", "comment", "save"},
                skips |-> {"live", "away", "otherTab"}, repairs |-> {"sheet", "otherTab"}]
RoundFollowing == [gives |-> {"like", "comment", "save"},
                   skips |-> {"live", "away", "otherTab"}, repairs |-> {"sheet", "otherTab"}]
RoundReels == [gives |-> {"like", "comment"},
               skips |-> {"away", "otherTab"}, repairs |-> {"sheet", "otherTab"}]
RoundFriends == [gives |-> {"like", "comment"},
                 skips |-> {"away", "otherTab"}, repairs |-> {"sheet", "otherTab"}]
Round ==
  CASE fscript = "forYou" -> RoundForYou
    [] fscript = "following" -> RoundFollowing
    [] fscript = "reels" -> RoundReels
    [] OTHER -> RoundFriends

\* What a screenshot is classified as.  TikTok looks for the engagement rail
\* first, then for Live, search, a sheet, SpringBoard and the tab bar; Instagram
\* for search and a sheet first.  An unreadable tab is the preferred one.
IdentifyTikTok == IF fscreen = "otherTab" THEN {"otherTab", "feed"} ELSE {fscreen}
IdentifyInstagram == IF fscreen = "otherTab" THEN {"otherTab", "feed"} ELSE {fscreen}
Identities == IF TikTok THEN IdentifyTikTok ELSE IdentifyInstagram

-----------------------------------------------------------------------------
(* The phone's answers.                                                    *)
NewVideo(s) == fscreen' = s /\ fvid' = Untouched /\ fmissed' = FALSE

\* A flick: the next video (or a Live, on TikTok) from a feed or a Live;
\* nothing that matters anywhere else.
Scrolls == fscreen \in {"feed", "otherTab", "live"}
Flick ==
  \/ fscreen = "otherTab" /\ NewVideo("otherTab")
  \/ fscreen \in {"feed", "live"} /\ NewVideo("feed")
  \/ fscreen \in {"feed", "live"} /\ TikTok /\ NewVideo("live")
  \/ ~Scrolls /\ UNCHANGED <<fscreen, fvid, fmissed>>

\* dismissCommentSheet: three ways to close a sheet (four on Instagram), none
\* of them certain, with a look after each that takes a failed screenshot for
\* "closed".
SheetLeft ==
  /\ fscreen' \in IF fscreen = "sheet" THEN {"feed", "sheet"} ELSE {fscreen}
  /\ UNCHANGED <<fvid, fmissed>>
DismissTikTok == SheetLeft /\ \E s \in 1..2 : Spend(s)
DismissInstagram == SheetLeft /\ \E s \in 1..3 : Spend(s)
Dismiss == IF TikTok THEN DismissTikTok ELSE DismissInstagram

\* The tab of the wanted feed: it works from the feed next to it.
TabTapped ==
  IF fscreen = "otherTab" THEN NewVideo("feed") \/ UNCHANGED <<fscreen, fvid, fmissed>>
  ELSE UNCHANGED <<fscreen, fvid, fmissed>>

\* The app is terminated and activated, up to three times more, and the feed
\* is opened by its tabs; For You is where TikTok opens.  An app that opened
\* stands on the feed, on another tab, or, after all, not there.
Landings == IF TikTok THEN {"feed", "otherTab", "live", "away"} ELSE {"feed", "otherTab", "away"}
Relaunched(seconds) == \E s \in Landings, again \in 0..3 : NewVideo(s) /\ Spend(seconds + 2 * again)
RelaunchForYou == Relaunched(4)
RelaunchFollowing == Relaunched(6)
RelaunchReels == Relaunched(5)
RelaunchFriends == Relaunched(7)
Relaunch ==
  CASE fscript = "forYou" -> RelaunchForYou
    [] fscript = "following" -> RelaunchFollowing
    [] fscript = "reels" -> RelaunchReels
    [] OTHER -> RelaunchFriends

\* A popup or a crash takes the feed away, and may go by itself.
FPopup ==
  /\ fexit = "running"
  /\ \/ OnFeed /\ fscreen' = "away"
     \/ fscreen = "away" /\ fscreen' = "feed"
  /\ UNCHANGED <<fvid, fmissed, fpc, fwill, round, fseen, outside,
                 fgrace, fsession, fexit>>

\* The executor's SIGTERM (a stop or the execution's deadline), the script's
\* own deadline, and SIGKILL once the grace is used up.
FStop == /\ fexit = "running" /\ ~fstop /\ fstop' = TRUE
         /\ UNCHANGED <<fpc, fwill, round, fseen, phone, fscript, flate, fgrace,
                        fsession, fexit>>
FLate == /\ fexit = "running" /\ ~flate /\ flate' = TRUE
         /\ UNCHANGED <<fpc, fwill, round, fseen, phone, fscript, fstop, fgrace,
                        fsession, fexit>>
FKill == /\ fexit = "running" /\ fstop /\ fgrace >= Grace
         /\ fexit' = "killed" /\ fpc' = "ended"
         /\ UNCHANGED <<fwill, round, fseen, phone, outside, fgrace, fsession>>

-----------------------------------------------------------------------------
(* The script.                                                             *)

\* The settings are read from the environment before anything is touched: a
\* number out of its range, a comment without a text or an account that
\* devices.json does not list ends the script.
FRefuse ==
  /\ fpc = "open" /\ fpc' = "ended" /\ fexit' = "error"
  /\ UNCHANGED <<fwill, round, fseen, phone, outside, fgrace, fsession>>

\* Where a script stands when it has opened its app: For You and Reels after
\* the tap on a tab at most; the other two also tap the feed beside it.
OpenForYou == {"feed", "otherTab", "live", "away"}
OpenFollowing == {"feed", "otherTab", "live", "away"}
OpenReels == {"feed", "otherTab", "away"}
OpenFriends == {"feed", "otherTab", "away"}
Opened ==
  CASE fscript = "forYou" -> OpenForYou
    [] fscript = "following" -> OpenFollowing
    [] fscript = "reels" -> OpenReels
    [] OTHER -> OpenFriends

\* Unlock, session, settings of the driver, account switch and the taps to the
\* feed, which nothing interrupts.  A switch that fails ends the script.
FOpen ==
  /\ fpc = "open"
  /\ \/ fsession' = TRUE /\ fpc' = "top" /\ fscreen' \in Opened
     \/ fsession' \in BOOLEAN /\ fpc' = "throw" /\ UNCHANGED fscreen
  /\ Spend(Grace)
  /\ UNCHANGED <<fvid, fmissed, fwill, round, fseen, outside, fexit>>

\* ensure...Feed returns: its locals are gone.
Returned(live) ==
  /\ fattempt' = 0 /\ fmax' = 6 /\ fsoft' = 0 /\ fplan' = "none" /\ flive' = live

\* The head of the loop.
FTop ==
  /\ fpc = "top"
  /\ fpc' = IF Alive THEN "look" ELSE "close"
  /\ Returned(flive) /\ fwill' = {} /\ fseen' = "none"
  /\ UNCHANGED <<phone, outside, fgrace, fsession, fexit>>

\* One look of ensure...Feed.  It gives up after fmax looks or when a stop
\* came; a screenshot that fails calls for a relaunch.  The answer of the two
\* looks after an abandoned engagement is ignored.
FLook ==
  /\ fpc = "look"
  /\ IF fstop \/ fattempt = fmax
     THEN fpc' = "top" /\ Returned(flive) /\ UNCHANGED fseen
     ELSE \/ /\ fplan' = "relaunch" /\ fpc' = "recover" /\ fattempt' = fattempt + 1
             /\ UNCHANGED <<fmax, fsoft, flive, fseen>>
          \/ \E kind \in Identities : LET r == Recovery(kind) IN
                /\ fseen' = kind
                /\ IF r.plan = "go"
                   THEN fpc' = (IF fmax = 6 THEN "watch" ELSE "top") /\ Returned(r.live)
                   ELSE /\ fpc' = "recover" /\ fattempt' = fattempt + 1
                        /\ fplan' = r.plan /\ fsoft' = r.soft /\ flive' = r.live
                        /\ UNCHANGED fmax
  /\ UNCHANGED <<fwill, phone, outside, fgrace, fsession, fexit>>

\* The recovery the look chose.  Its waits are driver.pause, which no stop
\* interrupts.
FRecover ==
  /\ fpc = "recover" /\ fpc' = "look"
  /\ \/ fplan = "dismiss" /\ Dismiss
     \/ fplan = "swipe" /\ Flick /\ Spend(1)
     \/ fplan = "tab" /\ TabTapped /\ Spend(2)
     \/ fplan = "wait" /\ UNCHANGED <<fscreen, fvid, fmissed>> /\ Spend(1)
     \/ fplan = "relaunch" /\ Relaunch
  /\ UNCHANGED <<fwill, round, fseen, outside, fsession, fexit>>

\* The video is watched (a stop ends the wait); then the profile's dice say
\* what it gets.
FWatch ==
  /\ fpc = "watch"
  /\ fwill' \in SUBSET Round.gives
  /\ fpc' = IF ~Alive THEN "close" ELSE IF fwill' = {} THEN "swipe" ELSE "refine"
  /\ UNCHANGED <<round, fseen, phone, outside, fgrace, fsession, fexit>>

\* A look before the first tap; a failure of it, or of what follows from it, is
\* ignored.
FRefine ==
  /\ fpc = "refine"
  /\ \/ /\ fseen' \in Identities
        /\ \/ /\ fseen' \in Round.skips
              /\ fpc' = "look" /\ fattempt' = 0 /\ fmax' = 2 /\ fsoft' = 0
              /\ UNCHANGED <<fscreen, fvid, fmissed, flive, fplan, fgrace>>
           \/ /\ fseen' = "sheet" /\ Dismiss /\ fpc' \in {"top", "engage"}
              /\ UNCHANGED round
           \/ /\ fseen' \notin Round.skips \cup {"sheet"} /\ fpc' = "engage"
              /\ UNCHANGED <<fscreen, fvid, fmissed, round, fgrace>>
     \/ fpc' = "engage" /\ UNCHANGED <<fscreen, fvid, fmissed, fseen, round, fgrace>>
  /\ UNCHANGED <<fwill, outside, fsession, fexit>>

\* The next of what is planned, and where the round goes after an engagement.
Upcoming(will) ==
  IF "like" \in will THEN "like" ELSE IF "comment" \in will THEN "comment" ELSE "save"
FollowingSlip(rest) == IF rest = {} THEN "top" ELSE "engage"
Following(rest) == IF rest = {} THEN "swipe" ELSE "engage"

\* The tap of Like or Save, at once after the check for a stop.  Off the feed
\* it touches no video.  A saved video may open a sheet.
Tapped(e) == fvid' = IF OnFeed THEN [fvid EXCEPT ![e] = Capped(@ + 1, 2)] ELSE fvid

FEngage ==
  /\ fpc = "engage"
  /\ IF ~Alive THEN fpc' = "close" /\ UNCHANGED <<fwill, fscreen, fvid>>
     ELSE CASE Upcoming(fwill) = "like" ->
                 /\ Tapped("like") /\ fscreen' = fscreen
                 /\ fwill' = fwill \ {"like"} /\ fpc' = Following(fwill \ {"like"})
            [] Upcoming(fwill) = "save" ->
                 /\ Tapped("save")
                 /\ fscreen' \in IF OnFeed THEN {fscreen, "sheet"} ELSE {fscreen}
                 /\ fwill' = fwill \ {"save"} /\ fpc' = "settle"
            [] OTHER ->
                 /\ fscreen' = IF OnFeed THEN "sheet" ELSE fscreen
                 /\ fpc' = "send" /\ UNCHANGED <<fwill, fvid>>
  /\ UNCHANGED <<fmissed, round, fseen, outside, fgrace, fsession, fexit>>

\* postComment from the composer on: nothing in it looks for a stop.
FSend ==
  /\ fpc = "send" /\ fpc' = "settle"
  /\ fvid' = IF fscreen = "sheet"
             THEN [fvid EXCEPT !["comment"] = Capped(@ + 1, 2)] ELSE fvid
  /\ fscreen' \in IF fscreen = "sheet" THEN {"feed", "sheet"} ELSE {fscreen}
  /\ fwill' = fwill \ {"comment"} /\ Spend(3)
  /\ UNCHANGED <<fmissed, round, fseen, outside, fsession, fexit>>

\* settleAfterEngage repairs a sheet or the tab; everything else, and a
\* screenshot that fails, is left to the next look, after the swipe.
FSettle ==
  /\ fpc = "settle" /\ fpc' = Following(fwill)
  /\ \/ /\ fseen' \in Identities
        /\ \/ fseen' \in Round.repairs /\ fseen' = "sheet" /\ Dismiss
           \/ fseen' \in Round.repairs /\ fseen' = "otherTab" /\ TabTapped /\ Spend(1)
           \/ fseen' \notin Round.repairs
              /\ UNCHANGED <<fscreen, fvid, fmissed, fgrace>>
     \/ UNCHANGED <<fseen, fscreen, fvid, fmissed, fgrace>>
  /\ UNCHANGED <<fwill, round, outside, fsession, fexit>>

\* The linger (a stop ends it) and the flick to the next video.
AfterSwipe == "top"
FSwipe ==
  /\ fpc = "swipe"
  /\ IF Alive
     THEN /\ fpc' = AfterSwipe
          /\ \/ Scrolls /\ Flick
             \/ ~Scrolls /\ fmissed' = TRUE /\ UNCHANGED <<fscreen, fvid>>
     ELSE fpc' = "close" /\ UNCHANGED <<fscreen, fvid, fmissed>>
  /\ UNCHANGED <<fwill, round, fseen, outside, fgrace, fsession, fexit>>

\* Any call of the driver may throw.  The recovery of an abandoned engagement
\* stands inside its try: the round then goes on as if it had not been abandoned.
FThrow ==
  /\ fpc \in {"recover", "engage", "send", "swipe"}
  /\ fpc' = IF fpc = "recover" /\ fmax = 2 THEN "engage" ELSE "throw"
  /\ Returned(flive)
  /\ UNCHANGED <<fwill, fseen, phone, outside, fgrace, fsession, fexit>>

\* The finally.  A deletion that fails keeps the session and fails the script.
FClose ==
  /\ fpc \in {"close", "throw"}
  /\ \/ /\ fsession' = FALSE /\ fexit' = IF fpc = "close" THEN "ok" ELSE "error"
     \/ fsession /\ fsession' = TRUE /\ fexit' = "error"
  /\ fpc' = "ended"
  /\ UNCHANGED <<fwill, round, fseen, phone, outside, fgrace>>

FStep == FRefuse \/ FOpen \/ FTop \/ FLook \/ FRecover \/ FWatch \/ FRefine \/ FEngage
         \/ FSend \/ FSettle \/ FSwipe \/ FClose
FNext == FStep \/ FThrow \/ FPopup \/ FStop \/ FLate \/ FKill
FSpec == FInit /\ [][FNext]_fVars

-----------------------------------------------------------------------------
\* Types of the state.
FTypeOK ==
  /\ fpc \in {"open", "top", "look", "recover", "watch", "refine", "engage",
              "send", "settle", "swipe", "throw", "close", "ended"}
  /\ fscript \in FeedScripts /\ fwill \subseteq Engagements
  /\ fattempt \in 0..6 /\ fmax \in {2, 6} /\ fsoft \in 0..1 /\ flive \in 0..2
  /\ fplan \in {"none", "go", "dismiss", "swipe", "tab", "wait", "relaunch"}
  /\ fscreen \in Screens /\ fseen \in Screens \cup {"none"}
  /\ fvid \in [Engagements -> 0..2]
  /\ {fmissed, fstop, flate, fsession} \subseteq BOOLEAN
  /\ fgrace \in 0..Grace /\ fexit \in {"running", "ok", "error", "killed"}

\* A video is liked, commented and saved at most once (Like and Save are
\* toggles, so twice means undone), unless the swipe that should have left it
\* met something else than the feed (doomscroll.ts:586-622).
FEngagedOnce == fmissed \/ \A e \in Engagements : fvid[e] <= 1

\* A feed script, whatever the app shows: its recoveries are bounded, and it engages
\* once with a video (doomscroll.ts:383-465, 586-613).
FSafe == FTypeOK /\ FEngagedOnce

\* A stop or the deadline ends the script: no recovery goes round for ever.
FStopEnds == <>[](fstop \/ flate => fpc = "ended")
=============================================================================
