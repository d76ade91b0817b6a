----------------------------- MODULE LiveScreen -----------------------------
(***************************************************************************)
(* The live screen of the page on which an operator watches one phone      *)
(* (static/dashboard/ts/device.ts): when the page asks for a stream, pauses*)
(* it, falls back to a still picture, polls until the phone is back, and   *)
(* records the picture.  Every `await` of the page is a request on its way,*)
(* and whatever the operator clicks, a timer or another answer may come    *)
(* first.  The phone, the browser's image and the server's answers are     *)
(* taken as they may come; an image whose stream breaks reports an error.  *)
(***************************************************************************)
EXTENDS Naturals

CONSTANTS MaxClicks,   \* clicks of the operator
          MaxTroubles  \* requests that fail, and changes of the phone
ASSUME LiveScreenAssumption == {MaxClicks, MaxTroubles} \subseteq Nat

VARIABLES lphone,      \* WebDriverAgent answers on the phone
          loff,        \* the phone is disabled, as the server knows it
          lactivity,   \* the phone has an execution: the activity is polled
          lpage,       \* the page
          lclicks, ltroubles

lVars == <<lphone, loff, lactivity, lpage, lclicks, ltroubles>>

Timers == {"none", "connect", "check", "reload"}
Checks == {"no", "check", "reload"}

\* A page as it is loaded; its summary is still on its way.
NewPage(off) ==
  [known |-> FALSE,       \* screenSize is known
   summary |-> TRUE,      \* the summary is on its way
   paused |-> FALSE, disabled |-> off,
   shown |-> "empty",     \* screenPresentation
   src |-> "none",        \* what the image shows
   image |-> "none",      \* how far the browser is with it
   asking |-> FALSE,      \* connecting: a stream token was asked for
   late |-> FALSE,        \* ... before the page was paused, or it was disabled
   timer |-> "none",      \* connectionPoll
   checking |-> "no",     \* connectionChecking, with what it was called for
   refreshing |-> FALSE,  \* POST reconnect
   stuck |-> FALSE,       \* a request failed that nothing repeats
   starting |-> 0,        \* recordings that wait for a first picture
   crossed |-> FALSE,     \* two of them waited at once
   session |-> FALSE,     \* screenCapture
   recorders |-> 0]       \* recorders that run

LInit ==
  /\ lphone \in BOOLEAN /\ loff \in BOOLEAN /\ lactivity \in BOOLEAN
  /\ lpage = NewPage(loff) /\ lclicks = 0 /\ ltroubles = 0

-----------------------------------------------------------------------------
(***************************************************************************)
(* What the page's functions make of it.                                   *)
(***************************************************************************)

Dark(p) == [p EXCEPT !.src = "none", !.image = "none"]

\* stopScreenCapture, which looks only at the session it knows.
Stops(p) ==
  IF p.session THEN [p EXCEPT !.session = FALSE, !.recorders = @ - 1] ELSE p

ShowsStill(p) ==
  IF ~p.known \/ p.disabled THEN p
  ELSE [p EXCEPT !.shown = "still", !.src = "still", !.image = "waiting"]

\* connectRemote and startStream, up to the request for a token.
AsksSlip(p) ==
  IF p.asking \/ ~p.known THEN p
  ELSE [p EXCEPT !.asking = TRUE, !.shown = "live"]
Asks(p) ==
  IF p.paused \/ p.asking \/ ~p.known THEN p
  ELSE [p EXCEPT !.asking = TRUE, !.shown = "live"]

\* pollConnection, up to its request.
Polls(p, kind) ==
  IF p.checking # "no" THEN p
  ELSE [p EXCEPT !.checking = kind, !.timer = "none"]

\* A pause of a disabled page may leave a stream open: it has no preview to show.
Pauses(p) == [p EXCEPT !.paused = TRUE, !.late = p.asking \/ p.disabled]

PausesForAutomation(p) ==
  IF p.paused /\ p.src = "none" THEN p ELSE Dark(Stops(Pauses(p)))

\* useDeviceSummary.
UsesSummary(p, off) ==
  LET q == [p EXCEPT !.known = TRUE, !.disabled = off]
  IN  IF off THEN [Dark(q) EXCEPT !.shown = "empty"] ELSE Asks(q)

-----------------------------------------------------------------------------
(***************************************************************************)
(* Answers, timers and events.                                             *)
(***************************************************************************)

Becomes(p) ==
  lpage' = p /\ UNCHANGED <<lphone, loff, lactivity, lclicks, ltroubles>>
Fails(p) ==
  /\ ltroubles < MaxTroubles /\ ltroubles' = ltroubles + 1
  /\ lpage' = p /\ UNCHANGED <<lphone, loff, lactivity, lclicks>>

\* The summary is loaded once.  That of a phone that does not answer has no
\* size of a screen, or is an error that htmx does not show.
LSummary ==
  /\ lpage.summary
  /\ LET p == [lpage EXCEPT !.summary = FALSE]
     IN  Becomes(IF lphone THEN UsesSummary(p, loff) ELSE p) \/ Fails(p)

\* htmx:afterSwap of the activity, which is polled every second once the phone
\* has an execution: the summary that is shown is used again.
LSwap == lactivity /\ lpage.known /\ Becomes(UsesSummary(lpage, lpage.disabled))

\* The token arrives and the stream opens, without another look at the page.
LToken ==
  /\ lpage.asking
  /\ LET p == [lpage EXCEPT !.asking = FALSE]
     IN  \/ Becomes([p EXCEPT !.src = "stream", !.stuck = FALSE,
                              !.image = IF lphone THEN "waiting" ELSE "broken"])
         \/ Fails([p EXCEPT !.stuck = TRUE])

\* The image's load event; setScreenPresentation unless a still was asked for.
LLoaded ==
  /\ lpage.image = "waiting" /\ lphone
  /\ Becomes([lpage EXCEPT !.image = "shown",
                           !.shown = IF @ = "still" THEN @ ELSE "live"])

\* The image's error event.
LError ==
  /\ lpage.image = "broken" \/ (lpage.image = "waiting" /\ ~lphone)
  /\ LET p == Stops(Dark(lpage))
     IN  Becomes(IF lpage.paused THEN [lpage EXCEPT !.image = "failed"]
                 ELSE IF p.shown = "live" THEN Polls(ShowsStill(p), "check")
                 ELSE Polls([p EXCEPT !.shown = "empty"], "check"))

\* The answer of GET connection.
CheckedSlip(p, ready, kind) ==
  [p EXCEPT !.checking = "no", !.timer = IF ready THEN "connect" ELSE "none"]
Checked(p, ready, kind) ==
  [p EXCEPT !.checking = "no", !.timer = IF ready THEN "connect" ELSE kind]

LChecked ==
  /\ lpage.checking # "no"
  /\ \/ /\ lphone /\ lpage.checking = "reload"
        /\ Becomes(NewPage(loff))
     \/ /\ ~lphone \/ lpage.checking = "check"
        /\ Becomes(Checked(lpage, lphone, lpage.checking))
     \/ Fails(Checked(lpage, FALSE, lpage.checking))

\* connectionPoll comes due.
LTimer ==
  /\ lpage.timer # "none"
  /\ LET p == [lpage EXCEPT !.timer = "none"]
     IN  Becomes(IF lpage.timer = "connect" THEN Asks(p) ELSE Polls(p, lpage.timer))

\* The answer of POST reconnect, which is refused while an automation runs.
LRefreshed ==
  /\ lpage.refreshing
  /\ LET p == [lpage EXCEPT !.refreshing = FALSE]
     IN  Becomes(Polls(p, "reload")) \/ Fails([p EXCEPT !.stuck = TRUE])

-----------------------------------------------------------------------------
(***************************************************************************)
(* What the operator does.                                                 *)
(***************************************************************************)

Clicks(p) ==
  /\ lclicks < MaxClicks /\ lclicks' = lclicks + 1
  /\ lpage' = p /\ UNCHANGED <<lphone, loff, lactivity, ltroubles>>

LRefresh ==
  /\ ~lpage.refreshing
  /\ Clicks([Dark(Stops(lpage)) EXCEPT !.refreshing = TRUE, !.timer = "none"])

LToggle ==
  Clicks(IF lpage.paused THEN Asks([lpage EXCEPT !.paused = FALSE])
         ELSE Dark(Stops(Pauses(lpage))))

LPreview == Clicks(ShowsStill(Pauses(lpage)))

\* A post is submitted, or the open list of tasks shows one that runs.
LAutomation == Clicks(PausesForAutomation(lpage))

\* The phone is disabled or enabled: here, which reloads the page, or on
\* another page, which this one hears of with its next summary.
LEnable ==
  /\ lclicks < MaxClicks /\ lclicks' = lclicks + 1
  /\ loff' = ~loff /\ lpage' \in {NewPage(~loff), lpage}
  /\ UNCHANGED <<lphone, lactivity, ltroubles>>

\* A rename asks for the summary again.
LRename == lphone /\ Clicks(UsesSummary(lpage, loff))

\* The record button: the recording waits up to 2.5 seconds for a picture.
MayStart(p) == ~p.session /\ ~p.paused /\ p.src # "none"

LRecord ==
  \/ lpage.session /\ Clicks(Stops(lpage))
  \/ /\ MayStart(lpage)
     /\ Clicks([lpage EXCEPT !.starting = @ + 1, !.crossed = @ \/ lpage.starting > 0])

\* ... and begins, without another look at the page, or fails.
LStarted ==
  /\ lpage.starting > 0
  /\ LET p == [lpage EXCEPT !.starting = @ - 1]
     IN  Becomes([p EXCEPT !.session = TRUE, !.recorders = @ + 1]) \/ Fails(p)

\* Ten minutes of recording, or an error of the encoder.
LRecorded == lpage.session /\ lpage.recorders > 0 /\ Becomes(Stops(lpage))

\* WebDriverAgent comes or goes; a picture that is being received breaks.
LPhone ==
  /\ ltroubles < MaxTroubles /\ ltroubles' = ltroubles + 1
  /\ lphone' = ~lphone
  /\ lpage' = IF lphone /\ (lpage.image = "waiting"
                            \/ (lpage.src = "stream" /\ lpage.image = "shown"))
              THEN [lpage EXCEPT !.image = "broken"] ELSE lpage
  /\ UNCHANGED <<loff, lactivity, lclicks>>

LOperator ==
  LRefresh \/ LToggle \/ LPreview \/ LAutomation \/ LEnable \/ LRename \/ LRecord
LAnswers == LSummary \/ LToken \/ LChecked \/ LRefreshed
LEvents == LLoaded \/ LError \/ LTimer \/ LStarted
LNext == LOperator \/ LAnswers \/ LEvents \/ LSwap \/ LRecorded \/ LPhone

\* Requests are answered, the browser tells how its image fares, timers come
\* due, and htmx polls.
LFairness ==
  /\ WF_lVars(LSummary) /\ WF_lVars(LToken) /\ WF_lVars(LChecked)
  /\ WF_lVars(LRefreshed) /\ WF_lVars(LTimer) /\ WF_lVars(LSwap)
  /\ WF_lVars(LLoaded \/ LError)
LSpec == LInit /\ [][LNext]_lVars /\ LFairness

-----------------------------------------------------------------------------
\* Types of the state.
LTypeOK ==
  /\ {lphone, loff, lactivity} \subseteq BOOLEAN
  /\ lpage \in [known : BOOLEAN, summary : BOOLEAN, paused : BOOLEAN,
                disabled : BOOLEAN, shown : {"live", "still", "empty"},
                src : {"none", "stream", "still"},
                image : {"none", "waiting", "shown", "broken", "failed"},
                asking : BOOLEAN, late : BOOLEAN, timer : Timers,
                checking : Checks, refreshing : BOOLEAN, stuck : BOOLEAN,
                starting : 0..MaxClicks, crossed : BOOLEAN, session : BOOLEAN,
                recorders : 0..MaxClicks]
  /\ lpage.src = "none" <=> lpage.image = "none"
  /\ lpage.session => lpage.recorders > 0

\* A page that was paused, which it is to spare the phone during a post, has no
\* stream open, unless the token was on its way or the phone disabled when it was
\* paused: no timer, swap, answer or error opens one (device.ts:626-648, 705-708,
\* 864-880).
LPausedIsDark == (lpage.paused /\ lpage.src = "stream") => lpage.late

\* A page records at most once, and stops what it records, unless two starts
\* waited for a picture at once: the session is overwritten and its recorder
\* runs on (device.ts:355-374, 376-452).
LOneRecorder == lpage.recorders > (IF lpage.session THEN 1 ELSE 0) => lpage.crossed

\* The page of a phone, whatever is clicked, late or broken: dark when paused, and
\* one recorder (device.ts:355-452, 606-708).
LSafe == LTypeOK /\ LPausedIsDark /\ LOneRecorder

\* A page that is neither paused nor disabled shows the phone again once the
\* phone answers, whatever broke and whatever was clicked, unless its one request
\* failed that nothing repeats; where the activity is polled, even then
\* (device.ts:650-685, 705-708, 864-880).
LShows ==
  <>[]((lphone /\ lpage.known /\ ~lpage.paused /\ ~lpage.disabled
        /\ (lactivity \/ ~lpage.stuck))
         => lpage.src = "stream" /\ lpage.image # "broken")
=============================================================================
