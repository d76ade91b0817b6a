---------------------------- MODULE PagesProofs -----------------------------
(***************************************************************************)
(* What holds of the page of a phone (its live picture, its touch points), *)
(* of the library of flows and of the device pools, for any number of      *)
(* clicks, of requests on their way and of faults.                         *)
(***************************************************************************)
EXTENDS LiveScreen, Calibration, FlowEditor, Allocation, FiniteSetTheorems, TLAPS

-----------------------------------------------------------------------------
(* The live picture and its recorder.                                       *)

USE LiveScreenAssumption

\* The page's fields; how many recorders there are is bounded by the clicks.
Page ==
  [known : BOOLEAN, summary : BOOLEAN, paused : BOOLEAN, disabled : BOOLEAN,
   shown : {"live", "still", "empty"}, src : {"none", "stream", "still"},
   image : {"none", "waiting", "shown", "broken", "failed"},
   asking : BOOLEAN, late : BOOLEAN, timer : Timers, checking : Checks,
   refreshing : BOOLEAN, stuck : BOOLEAN, starting : Nat, crossed : BOOLEAN,
   session : BOOLEAN, recorders : Nat]

\* What has to do with the picture.  A page asks for a token and shows an image only
\* once it knows the phone, and while paused it does neither but by a token that was
\* late: the guards of the stream are read before the await of the token.
DarkWhenPaused(p) ==
  /\ p.asking \/ p.src # "none" => p.known
  /\ p.paused /\ (p.asking \/ p.src = "stream") => p.late
\* What has to do with the recorders: the starts that wait for a picture count.
OneAtATime(p) ==
  /\ p.session => p.recorders > 0
  /\ ~p.crossed => /\ p.starting + p.recorders <= 1
                   /\ p.recorders = (IF p.session THEN 1 ELSE 0)
PageWell(p) ==
  /\ p \in Page
  /\ p.src = "none" <=> p.image = "none"
  /\ DarkWhenPaused(p) /\ OneAtATime(p)

Recordings(p) == p.starting + p.recorders

\* What the steps are made of: each keeps a page well, and adds no recording.
LEMMA DarkKeeps ==
  ASSUME NEW p, PageWell(p)
  PROVE  PageWell(Dark(p)) /\ Recordings(Dark(p)) = Recordings(p)
<1>1. Dark(p) \in Page
  BY DEF PageWell, Page, Dark
<1>2. /\ DarkWhenPaused(Dark(p)) /\ OneAtATime(Dark(p))
      /\ Dark(p).src = "none" <=> Dark(p).image = "none"
  BY DEF PageWell, Page, Dark, DarkWhenPaused, OneAtATime
<1>3. Recordings(Dark(p)) = Recordings(p)
  BY DEF PageWell, Page, Dark, Recordings
<1> QED  BY <1>1, <1>2, <1>3 DEF PageWell

LEMMA StopsKeeps ==
  ASSUME NEW p, PageWell(p)
  PROVE  PageWell(Stops(p)) /\ Recordings(Stops(p)) <= Recordings(p)
<1>1. CASE p.session
  <2> DEFINE n == p.recorders - 1
             q == [p EXCEPT !.session = FALSE, !.recorders = n]
  <2>0. n \in Nat  BY <1>1 DEF PageWell, Page, OneAtATime
  <2>1. q \in Page
    <3> HIDE DEF n
    <3> QED BY <2>0 DEF PageWell, Page
  <2>2. DarkWhenPaused(q) /\ OneAtATime(q) /\ (q.src = "none" <=> q.image = "none")
    BY <1>1 DEF PageWell, Page, DarkWhenPaused, OneAtATime
  <2>3. Recordings(q) <= Recordings(p)
    BY DEF PageWell, Page, Recordings
  <2> QED  BY <1>1, <2>1, <2>2, <2>3 DEF PageWell, Stops
<1> QED  BY <1>1 DEF Stops, PageWell, Recordings, Page

LEMMA ShowsStillKeeps ==
  ASSUME NEW p, PageWell(p)
  PROVE  PageWell(ShowsStill(p)) /\ Recordings(ShowsStill(p)) = Recordings(p)
<1> DEFINE q == [p EXCEPT !.shown = "still", !.src = "still", !.image = "waiting"]
<1>1. q \in Page  BY DEF PageWell, Page
<1>2. CASE p.known /\ ~p.disabled
  <2>1. DarkWhenPaused(q) /\ OneAtATime(q) /\ q.src # "none" /\ q.image # "none"
    BY <1>2 DEF PageWell, Page, DarkWhenPaused, OneAtATime
  <2>2. Recordings(q) = Recordings(p)  BY DEF PageWell, Page, Recordings
  <2> QED  BY <1>1, <1>2, <2>1, <2>2 DEF PageWell, ShowsStill
<1> QED  BY <1>2 DEF ShowsStill

LEMMA AsksKeeps ==
  ASSUME NEW p, PageWell(p)
  PROVE  PageWell(Asks(p)) /\ Recordings(Asks(p)) = Recordings(p)
<1> DEFINE q == [p EXCEPT !.asking = TRUE, !.shown = "live"]
<1>1. q \in Page  BY DEF PageWell, Page
<1>2. CASE ~p.paused /\ p.known
  <2>1. DarkWhenPaused(q) /\ OneAtATime(q) /\ (q.src = "none" <=> q.image = "none")
    BY <1>2 DEF PageWell, Page, DarkWhenPaused, OneAtATime
  <2>2. Recordings(q) = Recordings(p)  BY DEF PageWell, Page, Recordings
  <2> QED  BY <1>1, <1>2, <2>1, <2>2 DEF PageWell, Asks
<1> QED  BY <1>2 DEF Asks

LEMMA PollsKeeps ==
  ASSUME NEW p, PageWell(p), NEW kind \in Checks
  PROVE  PageWell(Polls(p, kind)) /\ Recordings(Polls(p, kind)) = Recordings(p)
<1> DEFINE q == [p EXCEPT !.checking = kind, !.timer = "none"]
<1>1. q \in Page  BY DEF PageWell, Page, Timers
<1>2. DarkWhenPaused(q) /\ OneAtATime(q) /\ (q.src = "none" <=> q.image = "none")
  BY DEF PageWell, Page, DarkWhenPaused, OneAtATime
<1>3. Recordings(q) = Recordings(p)  BY DEF PageWell, Page, Recordings
<1> QED  BY <1>1, <1>2, <1>3 DEF PageWell, Polls

\* Pausing leaves a stream open only where it is then shown dark or still, or
\* where the phone is disabled.
LEMMA PausesDarkKeeps ==
  ASSUME NEW p, PageWell(p)
  PROVE  PageWell(Dark(Pauses(p))) /\ Recordings(Dark(Pauses(p))) = Recordings(p)
<1> DEFINE l == p.asking \/ p.disabled
           q == [p EXCEPT !.paused = TRUE, !.late = l]
<1>1. l \in BOOLEAN /\ (p.asking => l)  BY DEF PageWell, Page
<1>2. Pauses(p) = q  BY DEF Pauses
<1> HIDE DEF l
<1>3. Dark(q) \in Page  BY <1>1 DEF PageWell, Page, Dark
<1>4. /\ DarkWhenPaused(Dark(q)) /\ OneAtATime(Dark(q))
      /\ Dark(q).src = "none" /\ Dark(q).image = "none"
  BY <1>1 DEF PageWell, Page, DarkWhenPaused, OneAtATime, Dark
<1>5. Recordings(Dark(q)) = Recordings(p)  BY DEF PageWell, Page, Recordings, Dark
<1> QED  BY <1>2, <1>3, <1>4, <1>5 DEF PageWell

LEMMA PausesStillKeeps ==
  ASSUME NEW p, PageWell(p)
  PROVE  PageWell(ShowsStill(Pauses(p))) /\ Recordings(ShowsStill(Pauses(p))) = Recordings(p)
<1> DEFINE l == p.asking \/ p.disabled
           q == [p EXCEPT !.paused = TRUE, !.late = l]
           r == [q EXCEPT !.shown = "still", !.src = "still", !.image = "waiting"]
<1>1. l \in BOOLEAN /\ (p.asking \/ p.disabled => l)  BY DEF PageWell, Page
<1>2. Pauses(p) = q  BY DEF Pauses
<1> HIDE DEF l
<1>3. q \in Page /\ r \in Page  BY <1>1 DEF PageWell, Page
<1>4. OneAtATime(q) /\ OneAtATime(r)  BY DEF PageWell, Page, OneAtATime
<1>5. Recordings(q) = Recordings(p) /\ Recordings(r) = Recordings(p)
  BY DEF PageWell, Page, Recordings
<1>6. CASE p.known /\ ~p.disabled
  <2>1. ShowsStill(q) = r  BY <1>6 DEF ShowsStill, PageWell, Page
  <2>2. DarkWhenPaused(r) /\ r.src # "none" /\ r.image # "none"
    BY <1>1, <1>6 DEF PageWell, Page, DarkWhenPaused
  <2> QED  BY <1>2, <1>3, <1>4, <1>5, <2>1, <2>2 DEF PageWell
<1>7. CASE ~(p.known /\ ~p.disabled)
  <2>1. ShowsStill(q) = q  BY <1>7 DEF ShowsStill, PageWell, Page
  <2>2. DarkWhenPaused(q) /\ (q.src = "none" <=> q.image = "none")
    BY <1>1, <1>7 DEF PageWell, Page, DarkWhenPaused
  <2> QED  BY <1>2, <1>3, <1>4, <1>5, <2>1, <2>2 DEF PageWell
<1> QED  BY <1>6, <1>7

LEMMA UsesSummaryKeeps ==
  ASSUME NEW p, PageWell(p), NEW off \in BOOLEAN
  PROVE  PageWell(UsesSummary(p, off)) /\ Recordings(UsesSummary(p, off)) = Recordings(p)
<1> DEFINE q == [p EXCEPT !.known = TRUE, !.disabled = off]
           r == [Dark(q) EXCEPT !.shown = "empty"]
<1>1. PageWell(q) /\ Recordings(q) = Recordings(p)
  <2>1. q \in Page  BY DEF PageWell, Page
  <2>2. DarkWhenPaused(q) /\ OneAtATime(q) /\ (q.src = "none" <=> q.image = "none")
    BY DEF PageWell, Page, DarkWhenPaused, OneAtATime
  <2>3. Recordings(q) = Recordings(p)  BY DEF PageWell, Page, Recordings
  <2> QED  BY <2>1, <2>2, <2>3 DEF PageWell
<1>2. UsesSummary(p, off) = IF off THEN r ELSE Asks(q)  BY DEF UsesSummary
<1> HIDE DEF q
<1>3. PageWell(Dark(q)) /\ Recordings(Dark(q)) = Recordings(p)  BY <1>1, DarkKeeps
<1>4. PageWell(r) /\ Recordings(r) = Recordings(p)
  <2> DEFINE d == Dark(q)
  <2> HIDE DEF d
  <2>1. PageWell(d) => PageWell([d EXCEPT !.shown = "empty"])
    <3> SUFFICES ASSUME PageWell(d) PROVE PageWell([d EXCEPT !.shown = "empty"])
      OBVIOUS
    <3>1. [d EXCEPT !.shown = "empty"] \in Page  BY DEF PageWell, Page
    <3> QED  BY <3>1 DEF PageWell, Page, DarkWhenPaused, OneAtATime
  <2>2. PageWell(d) => Recordings([d EXCEPT !.shown = "empty"]) = Recordings(d)
    BY DEF PageWell, Page, Recordings
  <2> QED  BY <1>3, <2>1, <2>2 DEF d
<1>5. PageWell(Asks(q)) /\ Recordings(Asks(q)) = Recordings(p)  BY <1>1, AsksKeeps
<1> QED  BY <1>2, <1>4, <1>5

LEMMA PausesStopsKeeps ==
  ASSUME NEW p, PageWell(p)
  PROVE  /\ PageWell(Dark(Stops(Pauses(p))))
         /\ Recordings(Dark(Stops(Pauses(p)))) <= Recordings(p)
<1>1. PageWell(Stops(p)) /\ Recordings(Stops(p)) <= Recordings(p)  BY StopsKeeps
<1>2. Stops(Pauses(p)) = Pauses(Stops(p))
  BY DEF Stops, Pauses, PageWell, Page
<1>3. /\ PageWell(Dark(Pauses(Stops(p))))
      /\ Recordings(Dark(Pauses(Stops(p)))) = Recordings(Stops(p))
  BY <1>1, PausesDarkKeeps
<1> QED  BY <1>1, <1>2, <1>3

LEMMA PausesForAutomationKeeps ==
  ASSUME NEW p, PageWell(p)
  PROVE  /\ PageWell(PausesForAutomation(p))
         /\ Recordings(PausesForAutomation(p)) <= Recordings(p)
BY PausesStopsKeeps DEF PausesForAutomation, PageWell, Page, Recordings

LEMMA NewPageWell ==
  ASSUME NEW off \in BOOLEAN
  PROVE  PageWell(NewPage(off)) /\ Recordings(NewPage(off)) = 0
<1>1. NewPage(off) \in Page  BY DEF NewPage, Page, Timers, Checks
<1> QED  BY <1>1 DEF NewPage, PageWell, DarkWhenPaused, OneAtATime, Recordings

LInv ==
  /\ {lphone, loff, lactivity} \subseteq BOOLEAN /\ lclicks \in 0..MaxClicks
  /\ PageWell(lpage) /\ Recordings(lpage) <= lclicks

LEMMA LInitHolds == LInit => LInv
BY NewPageWell DEF LInit, LInv

LEMMA LInvSafe == LInv => LSafe
<1> SUFFICES ASSUME LInv PROVE LSafe
  OBVIOUS
<1>1. lpage.starting \in 0..MaxClicks /\ lpage.recorders \in 0..MaxClicks
  BY DEF LInv, PageWell, Page, Recordings
<1>2. LTypeOK
  BY <1>1 DEF LInv, LTypeOK, PageWell, Page, OneAtATime
<1> QED  BY <1>2 DEF LInv, LSafe, LPausedIsDark, LOneRecorder, PageWell, Page,
                DarkWhenPaused, OneAtATime

LEMMA BecomesKeeps ==
  ASSUME LInv, NEW p, PageWell(p), Recordings(p) <= Recordings(lpage),
         Becomes(p) \/ Fails(p)
  PROVE  LInv'
<1>1. UNCHANGED <<lphone, loff, lactivity, lclicks>> /\ lpage' = p
  BY DEF Becomes, Fails
<1>2. Recordings(p) \in Nat /\ Recordings(lpage) \in Nat
  BY DEF LInv, PageWell, Page, Recordings
<1> QED  BY <1>1, <1>2 DEF LInv

LEMMA ClicksKeeps ==
  ASSUME LInv, NEW p, PageWell(p), Recordings(p) <= Recordings(lpage) + 1, Clicks(p)
  PROVE  LInv'
<1>1. /\ UNCHANGED <<lphone, loff, lactivity>> /\ lpage' = p
      /\ lclicks < MaxClicks /\ lclicks' = lclicks + 1
  BY DEF Clicks
<1>2. Recordings(p) \in Nat /\ Recordings(lpage) \in Nat
  BY DEF LInv, PageWell, Page, Recordings
<1> QED  BY <1>1, <1>2 DEF LInv

\* Fields that are neither counted nor part of what is kept dark.
LEMMA QuietKeeps ==
  ASSUME NEW p, PageWell(p), NEW q \in Page,
         q.known = p.known, q.paused = p.paused, q.src = p.src,
         q.image = "none" <=> p.image = "none",
         q.asking => p.asking, p.late => q.late, q.starting = p.starting, q.crossed = p.crossed,
         q.session = p.session, q.recorders = p.recorders
  PROVE  PageWell(q) /\ Recordings(q) = Recordings(p)
BY DEF PageWell, DarkWhenPaused, OneAtATime, Recordings

LEMMA AnswersKeep ==
  ASSUME LInv, LAnswers \/ LSwap \/ LRecorded
  PROVE  LInv'
<1>0. PageWell(lpage) /\ lpage \in Page /\ Recordings(lpage) \in Nat /\ loff \in BOOLEAN
  BY DEF LInv, PageWell, Page, Recordings
<1>1. CASE LSummary
  <2> DEFINE p == [lpage EXCEPT !.summary = FALSE]
  <2>1. p \in Page  BY <1>0 DEF Page
  <2>2. PageWell(p) /\ Recordings(p) = Recordings(lpage)
    <3>1. /\ p.known = lpage.known /\ p.paused = lpage.paused /\ p.src = lpage.src
          /\ p.image = lpage.image /\ p.asking = lpage.asking /\ p.late = lpage.late
          /\ p.starting = lpage.starting /\ p.crossed = lpage.crossed
          /\ p.session = lpage.session /\ p.recorders = lpage.recorders
      BY <1>0 DEF Page
    <3> HIDE DEF p
    <3> QED  BY <1>0, <2>1, <3>1, QuietKeeps
  <2>3. Becomes(IF lphone THEN UsesSummary(p, loff) ELSE p) \/ Fails(p)
    BY <1>1 DEF LSummary
  <2> HIDE DEF p
  <2>4. PageWell(UsesSummary(p, loff)) /\ Recordings(UsesSummary(p, loff)) = Recordings(p)
    BY <1>0, <2>2, UsesSummaryKeeps
  <2> QED  BY <1>0, <2>2, <2>3, <2>4, BecomesKeeps
<1>2. CASE LToken
  <2> DEFINE i == IF lphone THEN "waiting" ELSE "broken"
             p == [[lpage EXCEPT !.asking = FALSE]
                     EXCEPT !.src = "stream", !.stuck = FALSE, !.image = i]
             q == [[lpage EXCEPT !.asking = FALSE] EXCEPT !.stuck = TRUE]
  <2>0. lpage.asking /\ i \in {"waiting", "broken"}  BY <1>2 DEF LToken
  <2>1. Becomes(p) \/ Fails(q)  BY <1>2 DEF LToken
  <2> HIDE DEF i
  <2>2. p \in Page /\ q \in Page
    <3>1. p \in Page  BY <1>0, <2>0 DEF Page
    <3>2. q \in Page  BY <1>0, <2>0 DEF Page
    <3> QED  BY <3>1, <3>2
  <2>3. /\ DarkWhenPaused(p) /\ OneAtATime(p) /\ p.src # "none" /\ p.image # "none"
        /\ Recordings(p) = Recordings(lpage)
    BY <1>0, <2>0 DEF PageWell, Page, DarkWhenPaused, OneAtATime, Recordings
  <2>4. PageWell(q) /\ Recordings(q) = Recordings(lpage)
    <3>1. /\ q.known = lpage.known /\ q.paused = lpage.paused /\ q.src = lpage.src
          /\ q.image = lpage.image /\ q.asking = FALSE /\ q.late = lpage.late
          /\ q.starting = lpage.starting /\ q.crossed = lpage.crossed
          /\ q.session = lpage.session /\ q.recorders = lpage.recorders
      BY <1>0 DEF Page
    <3> HIDE DEF q
    <3> QED  BY <1>0, <2>2, <3>1, QuietKeeps
  <2> HIDE DEF p, q
  <2> QED  BY <1>0, <2>1, <2>2, <2>3, <2>4, BecomesKeeps DEF PageWell
<1>3. CASE LChecked
  <2>1. ASSUME NEW ready \in BOOLEAN
        PROVE  /\ PageWell(Checked(lpage, ready, lpage.checking))
               /\ Recordings(Checked(lpage, ready, lpage.checking)) = Recordings(lpage)
    <3> DEFINE t == IF ready THEN "connect" ELSE lpage.checking
               p == [lpage EXCEPT !.checking = "no", !.timer = t]
    <3>1. t \in Timers  BY <1>0, <1>3 DEF LChecked, Page, Checks, Timers
    <3>2. Checked(lpage, ready, lpage.checking) = p  BY DEF Checked
    <3> HIDE DEF t
    <3>3. p \in Page  BY <1>0, <3>1 DEF Page, Checks
    <3>4. /\ p.known = lpage.known /\ p.paused = lpage.paused /\ p.src = lpage.src
          /\ p.image = lpage.image /\ p.asking = lpage.asking /\ p.late = lpage.late
          /\ p.starting = lpage.starting /\ p.crossed = lpage.crossed
          /\ p.session = lpage.session /\ p.recorders = lpage.recorders
      BY <1>0 DEF Page
    <3> HIDE DEF p
    <3> QED  BY <1>0, <3>2, <3>3, <3>4, QuietKeeps
  <2>2. PageWell(NewPage(loff)) /\ Recordings(NewPage(loff)) = 0  BY <1>0, NewPageWell
  <2>3. lphone \in BOOLEAN  BY DEF LInv
  <2>4. CASE Becomes(NewPage(loff))
    BY <1>0, <2>2, <2>4, BecomesKeeps
  <2>5. ASSUME NEW ready \in BOOLEAN,
               Becomes(Checked(lpage, ready, lpage.checking))
                 \/ Fails(Checked(lpage, ready, lpage.checking))
        PROVE  LInv'
    BY <1>0, <2>1, <2>5, BecomesKeeps
  <2> QED  BY <1>3, <2>3, <2>4, <2>5 DEF LChecked
<1>4. CASE LRefreshed
  <2> DEFINE p == [lpage EXCEPT !.refreshing = FALSE]
             q == [p EXCEPT !.stuck = TRUE]
  <2>1. p \in Page /\ q \in Page  BY <1>0 DEF Page
  <2>2. /\ PageWell(p) /\ PageWell(q)
        /\ Recordings(p) = Recordings(lpage) /\ Recordings(q) = Recordings(lpage)
    <3>1. ASSUME NEW r \in {p, q}
          PROVE  /\ r.known = lpage.known /\ r.paused = lpage.paused /\ r.src = lpage.src
                 /\ r.image = lpage.image /\ r.asking = lpage.asking /\ r.late = lpage.late
                 /\ r.starting = lpage.starting /\ r.crossed = lpage.crossed
                 /\ r.session = lpage.session /\ r.recorders = lpage.recorders
      BY <1>0 DEF Page
    <3> HIDE DEF p, q
    <3> QED  BY <1>0, <2>1, <3>1, QuietKeeps
  <2>3. Becomes(Polls(p, "reload")) \/ Fails(q)  BY <1>4 DEF LRefreshed
  <2> HIDE DEF p, q
  <2>4. PageWell(Polls(p, "reload")) /\ Recordings(Polls(p, "reload")) = Recordings(p)
    BY <2>2, PollsKeeps DEF Checks
  <2> QED  BY <1>0, <2>2, <2>3, <2>4, BecomesKeeps
<1>5. CASE LSwap
  <2>1. lpage.disabled \in BOOLEAN  BY <1>0 DEF Page
  <2> QED  BY <1>0, <1>5, <2>1, UsesSummaryKeeps, BecomesKeeps DEF LSwap
<1>6. CASE LRecorded
  BY <1>0, <1>6, StopsKeeps, BecomesKeeps DEF LRecorded
<1> QED  BY <1>1, <1>2, <1>3, <1>4, <1>5, <1>6 DEF LAnswers

LEMMA EventsKeep ==
  ASSUME LInv, LEvents \/ LPhone
  PROVE  LInv'
<1>0. PageWell(lpage) /\ lpage \in Page /\ Recordings(lpage) \in Nat /\ loff \in BOOLEAN
  BY DEF LInv, PageWell, Page, Recordings
<1>1. CASE LLoaded
  <2> DEFINE s == IF lpage.shown = "still" THEN lpage.shown ELSE "live"
             p == [lpage EXCEPT !.image = "shown", !.shown = s]
  <2>1. Becomes(p) /\ lpage.image = "waiting"  BY <1>1 DEF LLoaded
  <2>2. s \in {"live", "still"}  BY <1>0 DEF Page
  <2> HIDE DEF s
  <2>3. p \in Page  BY <1>0, <2>2 DEF Page
  <2>4. /\ p.known = lpage.known /\ p.paused = lpage.paused /\ p.src = lpage.src
        /\ p.image = "shown" /\ p.asking = lpage.asking /\ p.late = lpage.late
        /\ p.starting = lpage.starting /\ p.crossed = lpage.crossed
        /\ p.session = lpage.session /\ p.recorders = lpage.recorders
    BY <1>0 DEF Page
  <2> HIDE DEF p
  <2>5. PageWell(p) /\ Recordings(p) = Recordings(lpage)
    BY <1>0, <2>1, <2>3, <2>4, QuietKeeps
  <2> QED  BY <1>0, <2>1, <2>5, BecomesKeeps
<1>2. CASE LError
  <2> DEFINE p == Stops(Dark(lpage))
             q == [lpage EXCEPT !.image = "failed"]
             r == [p EXCEPT !.shown = "empty"]
  <2>1. PageWell(p) /\ Recordings(p) <= Recordings(lpage)
    BY <1>0, DarkKeeps, StopsKeeps
  <2>2. lpage.image \in {"broken", "waiting"}
        /\ Becomes(IF lpage.paused THEN q
                    ELSE IF p.shown = "live" THEN Polls(ShowsStill(p), "check")
                    ELSE Polls(r, "check"))
    BY <1>2 DEF LError
  <2>3. PageWell(q) /\ Recordings(q) = Recordings(lpage)
    <3>1. q \in Page  BY <1>0 DEF Page
    <3>2. /\ q.known = lpage.known /\ q.paused = lpage.paused /\ q.src = lpage.src
          /\ q.image = "failed" /\ q.asking = lpage.asking /\ q.late = lpage.late
          /\ q.starting = lpage.starting /\ q.crossed = lpage.crossed
          /\ q.session = lpage.session /\ q.recorders = lpage.recorders
      BY <1>0 DEF Page
    <3> HIDE DEF q
    <3> QED  BY <1>0, <2>2, <3>1, <3>2, QuietKeeps
  <2> HIDE DEF p, q
  <2>4. PageWell(r) /\ Recordings(r) = Recordings(p)
    <3>0. p \in Page  BY <2>1 DEF PageWell
    <3>1. r \in Page  BY <3>0 DEF Page
    <3>2. /\ r.known = p.known /\ r.paused = p.paused /\ r.src = p.src
          /\ r.image = p.image /\ r.asking = p.asking /\ r.late = p.late
          /\ r.starting = p.starting /\ r.crossed = p.crossed
          /\ r.session = p.session /\ r.recorders = p.recorders
      BY <3>0 DEF Page
    <3> HIDE DEF r
    <3> QED  BY <2>1, <3>1, <3>2, QuietKeeps
  <2> HIDE DEF r
  <2>5. /\ PageWell(Polls(r, "check")) /\ Recordings(Polls(r, "check")) = Recordings(p)
        /\ PageWell(Polls(ShowsStill(p), "check"))
        /\ Recordings(Polls(ShowsStill(p), "check")) = Recordings(p)
    BY <2>1, <2>4, ShowsStillKeeps, PollsKeeps DEF Checks
  <2> QED  BY <1>0, <2>1, <2>2, <2>3, <2>5, BecomesKeeps
<1>3. CASE LTimer
  <2> DEFINE p == [lpage EXCEPT !.timer = "none"]
  <2>1. p \in Page  BY <1>0 DEF Page, Timers
  <2>2. PageWell(p) /\ Recordings(p) = Recordings(lpage)
    <3>1. /\ p.known = lpage.known /\ p.paused = lpage.paused /\ p.src = lpage.src
          /\ p.image = lpage.image /\ p.asking = lpage.asking /\ p.late = lpage.late
          /\ p.starting = lpage.starting /\ p.crossed = lpage.crossed
          /\ p.session = lpage.session /\ p.recorders = lpage.recorders
      BY <1>0 DEF Page
    <3> HIDE DEF p
    <3> QED  BY <1>0, <2>1, <3>1, QuietKeeps
  <2>3. Becomes(IF lpage.timer = "connect" THEN Asks(p) ELSE Polls(p, lpage.timer))
        /\ lpage.timer \in {"connect", "check", "reload"}
    BY <1>0, <1>3 DEF LTimer, Page, Timers
  <2> HIDE DEF p
  <2>4. PageWell(Asks(p)) /\ Recordings(Asks(p)) = Recordings(p)
    BY <2>2, AsksKeeps
  <2>5. lpage.timer # "connect" =>
          PageWell(Polls(p, lpage.timer)) /\ Recordings(Polls(p, lpage.timer)) = Recordings(p)
    BY <2>2, <2>3, PollsKeeps DEF Checks
  <2> QED  BY <1>0, <2>2, <2>3, <2>4, <2>5, BecomesKeeps
<1>4. CASE LStarted
  <2> DEFINE n == lpage.starting - 1
             m == lpage.recorders + 1
             p == [lpage EXCEPT !.starting = n]
             q == [p EXCEPT !.session = TRUE, !.recorders = m]
  <2>1. n \in Nat /\ m \in Nat /\ n = lpage.starting - 1 /\ m = lpage.recorders + 1
    BY <1>0, <1>4 DEF LStarted, Page
  <2>2. Becomes(q) \/ Fails(p)
    <3>1. q = [p EXCEPT !.session = TRUE, !.recorders = @ + 1]  BY <1>0 DEF Page
    <3> QED  BY <1>4, <3>1 DEF LStarted
  <2> HIDE DEF n, m
  <2>3. p \in Page /\ q \in Page  BY <1>0, <2>1 DEF Page
  <2>4. PageWell(p) /\ Recordings(p) <= Recordings(lpage)
    BY <1>0, <2>1, <2>3 DEF PageWell, Page, DarkWhenPaused, OneAtATime, Recordings
  <2>5. PageWell(q) /\ Recordings(q) <= Recordings(lpage)
    BY <1>0, <2>1, <2>3 DEF PageWell, Page, DarkWhenPaused, OneAtATime, Recordings
  <2> QED  BY <1>0, <2>2, <2>4, <2>5, BecomesKeeps
<1>5. CASE LPhone
  <2> DEFINE p == [lpage EXCEPT !.image = "broken"]
  <2>1. /\ UNCHANGED <<loff, lactivity, lclicks>> /\ lphone' = ~lphone
        /\ lpage' = lpage \/ (lpage' = p /\ lpage.image \in {"waiting", "shown"})
    BY <1>5 DEF LPhone
  <2>2. p \in Page  BY <1>0 DEF Page
  <2>3. lpage.image # "none" => PageWell(p) /\ Recordings(p) = Recordings(lpage)
    <3>1. /\ p.known = lpage.known /\ p.paused = lpage.paused /\ p.src = lpage.src
          /\ p.image = "broken" /\ p.asking = lpage.asking /\ p.late = lpage.late
          /\ p.starting = lpage.starting /\ p.crossed = lpage.crossed
          /\ p.session = lpage.session /\ p.recorders = lpage.recorders
      BY <1>0 DEF Page
    <3> HIDE DEF p
    <3> QED  BY <1>0, <2>2, <3>1, QuietKeeps
  <2> HIDE DEF p
  <2> QED  BY <1>0, <2>1, <2>3 DEF LInv
<1> QED  BY <1>1, <1>2, <1>3, <1>4, <1>5 DEF LEvents

LEMMA OperatorKeeps ==
  ASSUME LInv, LOperator
  PROVE  LInv'
<1>0. PageWell(lpage) /\ lpage \in Page /\ Recordings(lpage) \in Nat /\ loff \in BOOLEAN
  BY DEF LInv, PageWell, Page, Recordings
<1>1. CASE LRefresh
  <2> DEFINE d == Dark(Stops(lpage))
             p == [d EXCEPT !.refreshing = TRUE, !.timer = "none"]
  <2>1. PageWell(d) /\ Recordings(d) <= Recordings(lpage) /\ d \in Page
    BY <1>0, StopsKeeps, DarkKeeps DEF PageWell
  <2>2. Clicks(p)  BY <1>1 DEF LRefresh
  <2> HIDE DEF d
  <2>3. p \in Page  BY <2>1 DEF Page, Timers
  <2>4. PageWell(p) /\ Recordings(p) = Recordings(d)
    <3>1. /\ p.known = d.known /\ p.paused = d.paused /\ p.src = d.src
          /\ p.image = d.image /\ p.asking = d.asking /\ p.late = d.late
          /\ p.starting = d.starting /\ p.crossed = d.crossed
          /\ p.session = d.session /\ p.recorders = d.recorders
      BY <2>1 DEF Page
    <3> HIDE DEF p
    <3> QED  BY <2>1, <2>3, <3>1, QuietKeeps
  <2>5. Recordings(d) \in Nat  BY <2>1 DEF Page, Recordings
  <2> HIDE DEF p
  <2> QED  BY <1>0, <2>1, <2>2, <2>4, <2>5, ClicksKeeps
<1>2. CASE LToggle
  <2>1. CASE lpage.paused
    <3> DEFINE p == [lpage EXCEPT !.paused = FALSE]
    <3>1. p \in Page  BY <1>0 DEF Page
    <3>2. PageWell(p) /\ Recordings(p) = Recordings(lpage)
      BY <1>0, <3>1 DEF PageWell, Page, DarkWhenPaused, OneAtATime, Recordings
    <3>3. Clicks(Asks(p))  BY <1>2, <2>1 DEF LToggle
    <3> HIDE DEF p
    <3> QED  BY <1>0, <3>2, <3>3, AsksKeeps, ClicksKeeps
  <2>2. CASE ~lpage.paused
    <3>1. Clicks(Dark(Stops(Pauses(lpage))))  BY <1>2, <2>2 DEF LToggle
    <3>2. /\ PageWell(Dark(Stops(Pauses(lpage))))
          /\ Recordings(Dark(Stops(Pauses(lpage)))) <= Recordings(lpage)
      BY <1>0, PausesStopsKeeps
    <3> DEFINE p == Dark(Stops(Pauses(lpage)))
    <3>3. Recordings(p) \in Nat  BY <3>2 DEF PageWell, Page, Recordings
    <3> HIDE DEF p
    <3> QED  BY <1>0, <3>1, <3>2, <3>3, ClicksKeeps DEF p
  <2> QED  BY <2>1, <2>2
<1>3. CASE LPreview
  BY <1>0, <1>3, PausesStillKeeps, ClicksKeeps DEF LPreview
<1>4. CASE LAutomation
  <2> DEFINE p == PausesForAutomation(lpage)
  <2>1. Clicks(p) /\ PageWell(p) /\ Recordings(p) <= Recordings(lpage)
    BY <1>0, <1>4, PausesForAutomationKeeps DEF LAutomation
  <2> HIDE DEF p
  <2>2. Recordings(p) \in Nat  BY <2>1 DEF PageWell, Page, Recordings
  <2> QED  BY <1>0, <2>1, <2>2, ClicksKeeps
<1>5. CASE LEnable
  <2>1. /\ UNCHANGED <<lphone, lactivity>> /\ loff' = ~loff
        /\ lclicks < MaxClicks /\ lclicks' = lclicks + 1
        /\ lpage' = NewPage(~loff) \/ lpage' = lpage
    BY <1>5 DEF LEnable
  <2>2. PageWell(NewPage(~loff)) /\ Recordings(NewPage(~loff)) = 0
    BY NewPageWell
  <2> QED  BY <1>0, <2>1, <2>2 DEF LInv
<1>6. CASE LRename
  BY <1>0, <1>6, UsesSummaryKeeps, ClicksKeeps DEF LRename
<1>7. CASE LRecord
  <2>1. CASE lpage.session /\ Clicks(Stops(lpage))
    <3> DEFINE p == Stops(lpage)
    <3>1. PageWell(p) /\ Recordings(p) <= Recordings(lpage)
      BY <1>0, StopsKeeps
    <3>2. Recordings(p) \in Nat  BY <3>1 DEF PageWell, Page, Recordings
    <3>3. Clicks(p)  BY <2>1
    <3> HIDE DEF p
    <3> QED  BY <1>0, <3>1, <3>2, <3>3, ClicksKeeps
  <2>2. CASE MayStart(lpage) /\ Clicks([lpage EXCEPT !.starting = @ + 1,
                                                    !.crossed = @ \/ lpage.starting > 0])
    <3> DEFINE n == lpage.starting + 1
               c == lpage.crossed \/ lpage.starting > 0
               p == [lpage EXCEPT !.starting = n, !.crossed = c]
    <3>1. /\ n \in Nat /\ n = lpage.starting + 1 /\ c \in BOOLEAN
          /\ c <=> (lpage.crossed \/ lpage.starting > 0)
      BY <1>0 DEF Page
    <3>2. Clicks(p) /\ ~lpage.session  BY <2>2 DEF MayStart
    <3> HIDE DEF n, c
    <3>3. p \in Page  BY <1>0, <3>1 DEF Page
    <3>4. /\ p.known = lpage.known /\ p.paused = lpage.paused /\ p.src = lpage.src
          /\ p.image = lpage.image /\ p.asking = lpage.asking /\ p.late = lpage.late
          /\ p.starting = n /\ p.crossed = c
          /\ p.session = lpage.session /\ p.recorders = lpage.recorders
      BY <1>0 DEF Page
    <3>5. lpage.starting \in Nat /\ lpage.recorders \in Nat  BY <1>0 DEF Page
    <3> HIDE DEF p
    <3>6. OneAtATime(p)
      BY <1>0, <3>1, <3>2, <3>4, <3>5 DEF PageWell, OneAtATime
    <3>7. PageWell(p) /\ Recordings(p) = Recordings(lpage) + 1
      BY <1>0, <3>1, <3>3, <3>4, <3>5, <3>6 DEF PageWell, DarkWhenPaused, Recordings
    <3> QED  BY <1>0, <3>2, <3>7, ClicksKeeps
  <2> QED  BY <1>7, <2>1, <2>2 DEF LRecord
<1> QED  BY <1>1, <1>2, <1>3, <1>4, <1>5, <1>6, <1>7 DEF LOperator

LEMMA LStepKeeps == LInv /\ [LNext]_lVars => LInv'
<1> SUFFICES ASSUME LInv, [LNext]_lVars PROVE LInv'
  OBVIOUS
<1>1. CASE LNext
  BY <1>1, AnswersKeep, EventsKeep, OperatorKeeps DEF LNext
<1>2. CASE UNCHANGED lVars
  BY <1>2 DEF LInv, lVars
<1> QED  BY <1>1, <1>2

\* A paused page has no stream open and a page records once, but for a token and for
\* starts that cross, for any number of clicks and faults (device.ts:355-452, 606-708).
THEOREM PausedIsDark == LSpec => []LSafe
<1> QED  BY LInitHolds, LStepKeeps, LInvSafe, PTL DEF LSpec

-----------------------------------------------------------------------------
(* The touch points.                                                        *)

HIDE LiveScreenAssumption
USE CalibrationAssumption

\* A place is that of an edit of this app and this point.
RightPlaces(by, o, a) ==
  \A p \in Points : o[p] # 0 => o[p] \in DOMAIN by /\ by[o[p]] = [app |-> a, point |-> p]
KWell ==
  /\ KTypeOK
  /\ \E n \in 0..MaxEdits : DOMAIN kby = 1..n
  /\ \A l \in kloads : ~l.read => l.data = Nowhere
  /\ ksave.state # "none" => kknown
\* Wherever places are kept or on their way, they are of the right app.
PlacesRight ==
  /\ \A a \in Apps : /\ RightPlaces(kby, ksaved[a], a) /\ RightPlaces(kby, kstash[a], a)
                     /\ RightPlaces(kby, kedit[a], a)
  /\ kknown => RightPlaces(kby, kover, kapp)
  /\ \A l \in kloads : RightPlaces(kby, l.data, l.app)
  /\ RightPlaces(kby, ksave.body, ksave.app)
\* What was clicked and not saved is in the stash, and on the page of its app.
EditsThere ==
  \A a \in Apps, p \in Points :
    kedit[a][p] # 0 => /\ kstash[a][p] = kedit[a][p]
                       /\ kapp = a => kover[p] = kedit[a][p]
\* An app whose points the page has not had yet: what was read for it is what is saved.
Untouched(a) ==
  /\ kstash[a] = Nowhere /\ kedit[a] = Nowhere /\ (kknown => kapp # a)
  /\ ksave.state # "none" => ksave.app # a
  /\ \A l \in kloads : l.read /\ l.app = a => l.data = ksaved[a]
\* An app whose points it has had: where nothing was clicked the stash is as saved, and
\* no answer to come has a point that the stash lacks, for the stash wins the merge.
InStep(a) ==
  \A p \in Points :
    /\ kedit[a][p] = 0 => kstash[a][p] = ksaved[a][p]
    /\ \A l \in kloads : l.app = a /\ l.data[p] # 0 => kstash[a][p] # 0
\* The save on its way has in it what the stash has but for later clicks.
SaveInStep ==
  ksave.state # "none" =>
    \A p \in Points :
      /\ kedit[ksave.app][p] = 0 => ksave.body[p] = kstash[ksave.app][p]
      /\ ksave.state = "stored" /\ ksave.body[p] # 0 => ksaved[ksave.app][p] = ksave.body[p]
ShownInStep ==
  ~kreset => /\ kknown => kstash[kapp] = kover
             /\ SaveInStep
             /\ \A a \in Apps : Untouched(a) \/ InStep(a)
KInv == KWell /\ PlacesRight /\ EditsThere /\ ShownInStep

LEMMA NowhereWell == Nowhere \in Overrides /\ \A p \in Points : Nowhere[p] = 0
BY DEF Nowhere, Overrides, Places

LEMMA MergeWell ==
  ASSUME NEW a \in Overrides, NEW b \in Overrides
  PROVE  /\ Merge(a, b) \in Overrides
         /\ \A p \in Points : Merge(a, b)[p] = IF b[p] # 0 THEN b[p] ELSE a[p]
         /\ \A by, app : RightPlaces(by, a, app) /\ RightPlaces(by, b, app)
                           => RightPlaces(by, Merge(a, b), app)
<1>1. Merge(a, b) \in Overrides  BY DEF Merge, Overrides
<1>2. \A p \in Points : Merge(a, b)[p] = IF b[p] # 0 THEN b[p] ELSE a[p]  BY DEF Merge
<1> QED  BY <1>1, <1>2 DEF RightPlaces

LEMMA SameOverrides ==
  ASSUME NEW a \in Overrides, NEW b \in Overrides, \A p \in Points : a[p] = b[p]
  PROVE  a = b
BY DEF Overrides

LEMMA KInvSafe == KInv => KSafe
<1> SUFFICES ASSUME KInv PROVE KSafe
  OBVIOUS
<1>1. KTypeOK  BY DEF KInv, KWell
<1>2. KRightApp
  BY DEF KInv, PlacesRight, RightPlaces, KRightApp
<1>3. KEditsKept
  BY DEF KInv, EditsThere, KEditsKept
<1>4. KShowsSaved
  <2> SUFFICES ASSUME kknown, ~kreset, kedit[kapp] = Nowhere
               PROVE  kover = ksaved[kapp]
    BY DEF KShowsSaved
  <2>1. kapp \in Apps /\ kover \in Overrides /\ ksaved[kapp] \in Overrides
    BY <1>1 DEF KTypeOK
  <2>2. kstash[kapp] = kover /\ InStep(kapp)
    BY <2>1 DEF KInv, ShownInStep, Untouched
  <2>3. \A p \in Points : kover[p] = ksaved[kapp][p]
    BY <2>2, NowhereWell DEF InStep
  <2> QED  BY <2>1, <2>3, SameOverrides
<1> QED  BY <1>1, <1>2, <1>3, <1>4 DEF KSafe

LEMMA KInitHolds == KInit => KInv
<1> SUFFICES ASSUME KInit PROVE KInv
  OBVIOUS
<1>1. KWell
  <2>1. {ksaved, kstash, kedit} \subseteq [Apps -> Overrides]
    <3>1. ksaved \in [Apps -> Overrides]  BY DEF KInit, Overrides, Places
    <3>2. [a \in Apps |-> Nowhere] \in [Apps -> Overrides]  BY NowhereWell
    <3> QED  BY <3>1, <3>2 DEF KInit
  <2>2. ksave \in [state : {"none", "sent", "stored"}, app : Apps, body : Overrides]
    BY NowhereWell DEF KInit, NoSaving, Apps
  <2>3. KTypeOK
    BY <2>1, <2>2, NowhereWell DEF KInit, KTypeOK, Apps
  <2>4. \E n \in 0..MaxEdits : DOMAIN kby = 1..n
    <3>1. CASE kby = <<>>
      <4>1. DOMAIN kby = 1..0  BY <3>1
      <4> QED  BY <4>1
    <3>2. CASE kby \in {<<edit>> : edit \in [app : Apps, point : Points]}
      <4>1. DOMAIN kby = 1..1  BY <3>2
      <4> QED  BY <4>1
    <3> QED  BY <3>1, <3>2 DEF KInit
  <2> QED  BY <2>3, <2>4 DEF KWell, KInit, NoSaving
<1>2. PlacesRight
  <2>1. ASSUME NEW a \in Apps PROVE RightPlaces(kby, ksaved[a], a)
    <3> SUFFICES ASSUME NEW p \in Points, ksaved[a][p] # 0
                 PROVE  /\ ksaved[a][p] \in DOMAIN kby
                        /\ kby[ksaved[a][p]] = [app |-> a, point |-> p]
      BY DEF RightPlaces
    <3>1. kby = <<[app |-> a, point |-> p]>> /\ ksaved[a][p] = 1
      BY DEF KInit
    <3> QED  BY <3>1
  <2>2. \A by, a : RightPlaces(by, Nowhere, a)  BY NowhereWell DEF RightPlaces
  <2> QED  BY <2>1, <2>2 DEF PlacesRight, KInit, NoSaving
<1>3. EditsThere  BY NowhereWell DEF KInit, EditsThere
<1>4. ShownInStep
  BY DEF KInit, ShownInStep, SaveInStep, NoSaving, Untouched
<1> QED  BY <1>1, <1>2, <1>3, <1>4 DEF KInv

Load == [n : 1..MaxLoads, app : Apps, read : BOOLEAN, data : Overrides]

\* What a load is asked with: whatever is shown is in the stash of its app.
LEMMA LoadsStash ==
  ASSUME KInv, NEW app \in Apps,
         \/ Loads(kstash, app)
         \/ kknown /\ Loads([kstash EXCEPT ![kapp] = Nowhere], app)
  PROVE  /\ kstash' \in [Apps -> Overrides]
         /\ \A a \in Apps : kstash'[a] = IF kknown /\ a = kapp THEN kover ELSE kstash[a]
         /\ \E l \in Load :
              kloads' = kloads \cup {l} /\ l.app = app /\ ~l.read /\ l.data = Nowhere
<1>0. kstash \in [Apps -> Overrides] /\ kapp \in Apps /\ kover \in Overrides
  BY DEF KInv, KWell, KTypeOK
<1>1. \/ ~kknown /\ kstash' = kstash
      \/ kknown /\ kstash' = [kstash EXCEPT ![kapp] = kover]
      \/ kknown /\ kstash' = [[kstash EXCEPT ![kapp] = Nowhere] EXCEPT ![kapp] = kover]
  BY DEF Loads, Stashed
<1>2. /\ kstash' \in [Apps -> Overrides]
      /\ \A a \in Apps : kstash'[a] = IF kknown /\ a = kapp THEN kover ELSE kstash[a]
  BY <1>0, <1>1, NowhereWell
<1>3. PICK n \in 1..MaxLoads :
        kloads' = kloads \cup {[n |-> n, app |-> app, read |-> FALSE, data |-> Nowhere]}
  BY DEF Loads
<1>4. [n |-> n, app |-> app, read |-> FALSE, data |-> Nowhere] \in Load
  BY <1>3, NowhereWell DEF Load
<1> QED  BY <1>2, <1>3, <1>4

LEMMA KLoadKeeps ==
  ASSUME KInv, NEW app \in Apps, KLoad(app)
  PROVE  KInv'
<1>0. /\ kstash \in [Apps -> Overrides] /\ kapp \in Apps /\ kover \in Overrides
      /\ UNCHANGED <<ksaved, kapp, kknown, kover, ksave, kby, kedit, kreset>>
      /\ kloads \subseteq Load
  BY DEF KInv, KWell, KTypeOK, KLoad, Load
<1>1. /\ kstash' \in [Apps -> Overrides]
      /\ \A a \in Apps : kstash'[a] = IF kknown /\ a = kapp THEN kover ELSE kstash[a]
      /\ \E l \in Load : kloads' = kloads \cup {l} /\ l.app = app /\ ~l.read /\ l.data = Nowhere
  BY LoadsStash DEF KLoad
<1>2. PICK new \in Load : /\ kloads' = kloads \cup {new}
                         /\ new.app = app /\ ~new.read /\ new.data = Nowhere
  BY <1>1
<1>3. KWell'
  BY <1>0, <1>1, <1>2 DEF KInv, KWell, KTypeOK, Load
<1>4. PlacesRight'
  <2>1. \A a \in Apps : RightPlaces(kby, kstash'[a], a)
    BY <1>1 DEF KInv, PlacesRight
  <2>2. \A l \in kloads' : RightPlaces(kby, l.data, l.app)
    BY <1>2, NowhereWell DEF KInv, PlacesRight, RightPlaces
  <2> QED  BY <1>0, <2>1, <2>2 DEF KInv, PlacesRight
<1>5. EditsThere'
  BY <1>0, <1>1 DEF KInv, EditsThere
<1>6. ShownInStep'
  <2> SUFFICES ASSUME ~kreset
               PROVE  /\ kknown => kstash'[kapp] = kover
                      /\ SaveInStep'
                      /\ \A a \in Apps : Untouched(a)' \/ InStep(a)'
    BY <1>0 DEF ShownInStep
  <2>1. \A a \in Apps : kstash'[a] = kstash[a]
    BY <1>0, <1>1 DEF KInv, ShownInStep
  <2>2. SaveInStep'
    BY <1>0, <2>1 DEF KInv, ShownInStep, SaveInStep, KWell, KTypeOK
  <2>3. ASSUME NEW a \in Apps PROVE Untouched(a)' \/ InStep(a)'
    BY <1>0, <1>2, <2>1, NowhereWell DEF KInv, ShownInStep, Untouched, InStep
  <2> QED  BY <1>0, <1>1, <2>2, <2>3
<1> QED  BY <1>3, <1>4, <1>5, <1>6 DEF KInv

LEMMA KReadKeeps ==
  ASSUME KInv, NEW l \in kloads, KRead(l)
  PROVE  KInv'
<1> DEFINE new == [l EXCEPT !.read = TRUE, !.data = ksaved[l.app]]
<1>0. /\ l \in Load /\ kloads \subseteq Load /\ l.app \in Apps /\ ksaved[l.app] \in Overrides
      /\ UNCHANGED <<ksaved, kapp, kknown, kover, kstash, ksave, kby, kedit, kreset>>
      /\ kloads' = (kloads \ {l}) \cup {new}
  BY DEF KInv, KWell, KTypeOK, KRead, Load
<1>1. new \in Load /\ new.app = l.app /\ new.read /\ new.data = ksaved[l.app]
  BY <1>0 DEF Load
<1> HIDE DEF new
<1>2. KWell'
  BY <1>0, <1>1 DEF KInv, KWell, KTypeOK, Load
<1>3. PlacesRight'
  BY <1>0, <1>1 DEF KInv, PlacesRight
<1>4. EditsThere'
  BY <1>0 DEF KInv, EditsThere
<1>5. ShownInStep'
  <2> SUFFICES ASSUME ~kreset
               PROVE  /\ kknown => kstash[kapp] = kover
                      /\ SaveInStep'
                      /\ \A a \in Apps : Untouched(a)' \/ InStep(a)'
    BY <1>0 DEF ShownInStep
  <2>1. SaveInStep'
    BY <1>0 DEF KInv, ShownInStep, SaveInStep
  <2>2. ASSUME NEW a \in Apps PROVE Untouched(a)' \/ InStep(a)'
    <3>1. CASE Untouched(a)
      BY <1>0, <1>1, <3>1 DEF Untouched
    <3>2. CASE InStep(a)
      <4>1. \A p \in Points : ksaved[a][p] # 0 => kstash[a][p] # 0
        BY <3>2 DEF InStep, KInv, EditsThere
      <4> QED  BY <1>0, <1>1, <3>2, <4>1 DEF InStep
    <3> QED  BY <3>1, <3>2 DEF KInv, ShownInStep
  <2> QED  BY <2>1, <2>2 DEF KInv, ShownInStep
<1> QED  BY <1>2, <1>3, <1>4, <1>5 DEF KInv

LEMMA KAnswerKeeps ==
  ASSUME KInv, NEW l \in kloads, KAnswer(l)
  PROVE  KInv'
<1> DEFINE b == l.app
           o == Merge(l.data, kstash[b])
<1>0. /\ l \in Load /\ b \in Apps /\ l.data \in Overrides /\ kstash \in [Apps -> Overrides]
      /\ kstash[b] \in Overrides
      /\ kloads' = kloads \ {l} /\ kapp' = b /\ kknown' = TRUE /\ kover' = o
      /\ kstash' = [kstash EXCEPT ![b] = o] /\ l.read
      /\ UNCHANGED <<ksaved, ksave, kby, kedit, kreset>>
  BY DEF KInv, KWell, KTypeOK, KAnswer, Preferred, Load
<1>1. /\ o \in Overrides
      /\ \A p \in Points : o[p] = IF kstash[b][p] # 0 THEN kstash[b][p] ELSE l.data[p]
      /\ RightPlaces(kby, o, b)
  BY <1>0, MergeWell DEF KInv, PlacesRight
<1>2. /\ kstash' \in [Apps -> Overrides]
      /\ \A a \in Apps : kstash'[a] = IF a = b THEN o ELSE kstash[a]
  BY <1>0, <1>1
<1> HIDE DEF b, o
<1>3. KWell'
  BY <1>0, <1>1, <1>2 DEF KInv, KWell, KTypeOK
<1>4. PlacesRight'
  BY <1>0, <1>1, <1>2 DEF KInv, PlacesRight
<1>5. EditsThere'
  BY <1>0, <1>1, <1>2 DEF KInv, EditsThere
<1>6. ShownInStep'
  <2> SUFFICES ASSUME ~kreset
               PROVE  /\ kstash'[b] = o
                      /\ SaveInStep'
                      /\ \A a \in Apps : Untouched(a)' \/ InStep(a)'
    BY <1>0 DEF ShownInStep
  <2>1. InStep(b) => o = kstash[b]
    <3> SUFFICES ASSUME InStep(b) PROVE \A p \in Points : o[p] = kstash[b][p]
      BY <1>0, <1>1, SameOverrides
    <3> QED  BY <1>0, <1>1 DEF InStep, b
  <2>2. Untouched(b) => o = ksaved[b]
    <3> SUFFICES ASSUME Untouched(b) PROVE \A p \in Points : o[p] = ksaved[b][p]
      BY <1>0, <1>1, SameOverrides DEF KInv, KWell, KTypeOK
    <3> QED  BY <1>0, <1>1, NowhereWell DEF Untouched, b
  <2>3. SaveInStep'
    <3> SUFFICES ASSUME ksave.state # "none" PROVE SaveInStep'
      BY <1>0 DEF SaveInStep
    <3>1. ksave.app \in Apps  BY DEF KInv, KWell, KTypeOK
    <3>2. kstash'[ksave.app] = kstash[ksave.app]
      BY <1>0, <1>2, <2>1, <3>1 DEF KInv, ShownInStep, Untouched
    <3> QED  BY <1>0, <3>2 DEF KInv, ShownInStep, SaveInStep
  <2>4. ASSUME NEW a \in Apps PROVE Untouched(a)' \/ InStep(a)'
    <3>1. CASE a # b
      BY <1>0, <1>2, <3>1 DEF KInv, ShownInStep, Untouched, InStep
    <3>2. CASE a = b /\ InStep(b)
      BY <1>0, <1>2, <2>1, <3>2 DEF InStep
    <3>3. CASE a = b /\ Untouched(b)
      <4>1. \A p \in Points : kstash'[b][p] = ksaved[b][p]
        BY <1>0, <1>2, <2>2, <3>3
      <4>2. ASSUME NEW x \in kloads', x.app = b, NEW p \in Points, x.data[p] # 0
            PROVE  kstash'[b][p] # 0
        <5>1. x.read \/ x.data = Nowhere  BY <1>0, <4>2 DEF KInv, KWell
        <5> QED  BY <1>0, <3>3, <4>1, <4>2, <5>1, NowhereWell DEF Untouched
      <4> QED  BY <1>0, <3>3, <4>1, <4>2 DEF InStep
    <3> QED  BY <1>0, <3>1, <3>2, <3>3 DEF KInv, ShownInStep
  <2> QED  BY <1>0, <1>2, <2>3, <2>4
<1> QED  BY <1>3, <1>4, <1>5, <1>6 DEF KInv

LEMMA KClickKeeps ==
  ASSUME KInv, NEW p \in Points, KClick(p)
  PROVE  KInv'
<1> DEFINE e == Cardinality(DOMAIN kby) + 1
           edit == [app |-> kapp, point |-> p]
           o == [kover EXCEPT ![p] = e]
<1>1. PICK n \in 0..MaxEdits : DOMAIN kby = 1..n
  BY DEF KInv, KWell
<1>2. e = n + 1 /\ n < MaxEdits /\ e \in 1..MaxEdits
  <2>1. Cardinality(DOMAIN kby) = n  BY <1>1, FS_Interval
  <2> QED  BY <2>1 DEF KClick
<1>3. /\ kby' = [i \in 1..e |-> IF i = e THEN edit ELSE kby[i]]
      /\ kover' = o /\ kedit' = [kedit EXCEPT ![kapp][p] = e]
      /\ kstash' = [kstash EXCEPT ![kapp] = o]
      /\ kknown /\ UNCHANGED <<ksaved, kapp, kknown, kloads, ksave, kreset>>
  BY DEF KClick
<1> HIDE DEF e, edit
<1>4. /\ kapp \in Apps /\ kover \in Overrides /\ kstash \in [Apps -> Overrides]
      /\ kedit \in [Apps -> Overrides] /\ ksave.app \in Apps
      /\ kloads \subseteq Load
  BY DEF KInv, KWell, KTypeOK, Load
<1>5. o \in Overrides /\ \A q \in Points : o[q] = IF q = p THEN e ELSE kover[q]
  BY <1>2, <1>4 DEF Overrides, Places
<1> HIDE DEF o
<1>6. /\ kstash' \in [Apps -> Overrides]
      /\ \A a \in Apps : kstash'[a] = IF a = kapp THEN o ELSE kstash[a]
  BY <1>3, <1>4, <1>5
<1>7. /\ kedit' \in [Apps -> Overrides]
      /\ \A a \in Apps, q \in Points :
           kedit'[a][q] = IF a = kapp /\ q = p THEN e ELSE kedit[a][q]
  <2>1. kedit' = [kedit EXCEPT ![kapp] = [kedit[kapp] EXCEPT ![p] = e]]
    BY <1>3, <1>4
  <2>2. [kedit[kapp] EXCEPT ![p] = e] \in Overrides
    BY <1>2, <1>4 DEF Overrides, Places
  <2>3. \A q \in Points : [kedit[kapp] EXCEPT ![p] = e][q] = IF q = p THEN e ELSE kedit[kapp][q]
    BY <1>4 DEF Overrides
  <2> QED  BY <1>4, <2>1, <2>2, <2>3
\* The history grows; what it said stays.
<1>8. /\ DOMAIN kby' = 1..e /\ kby'[e] = edit
      /\ \A i \in DOMAIN kby : i \in DOMAIN kby' /\ kby'[i] = kby[i]
  BY <1>1, <1>2, <1>3
<1>9. \A r, a : RightPlaces(kby, r, a) => RightPlaces(kby', r, a)
  BY <1>8 DEF RightPlaces
<1>10. RightPlaces(kby', o, kapp)
  <2>1. RightPlaces(kby', kover, kapp)
    BY <1>3, <1>9 DEF KInv, PlacesRight
  <2>2. e \in DOMAIN kby' /\ kby'[e] = [app |-> kapp, point |-> p]
    BY <1>2, <1>8 DEF edit
  <2> QED  BY <1>5, <2>1, <2>2 DEF RightPlaces
<1>11. KWell'
  BY <1>2, <1>3, <1>5, <1>6, <1>7, <1>8 DEF KInv, KWell, KTypeOK
<1>12. PlacesRight'
  <2>1. \A a \in Apps : RightPlaces(kby', kstash'[a], a)
    BY <1>6, <1>9, <1>10 DEF KInv, PlacesRight
  <2>2. \A a \in Apps : RightPlaces(kby', kedit'[a], a)
    BY <1>2, <1>7, <1>8 DEF KInv, PlacesRight, RightPlaces, edit
  <2> QED  BY <1>3, <1>9, <1>10, <2>1, <2>2 DEF KInv, PlacesRight
<1>13. EditsThere'
  BY <1>3, <1>5, <1>6, <1>7 DEF KInv, EditsThere
<1>14. ShownInStep'
  <2> SUFFICES ASSUME ~kreset
               PROVE  /\ kstash'[kapp] = o
                      /\ SaveInStep'
                      /\ \A a \in Apps : Untouched(a)' \/ InStep(a)'
    BY <1>3 DEF ShownInStep
  <2>1. kstash[kapp] = kover /\ InStep(kapp)
    BY <1>3, <1>4 DEF KInv, ShownInStep, Untouched
  <2>2. \A a \in Apps, q \in Points : ~(a = kapp /\ q = p) =>
          kstash'[a][q] = kstash[a][q] /\ kedit'[a][q] = kedit[a][q]
    BY <1>5, <1>6, <1>7, <2>1
  <2>3. kstash'[kapp][p] = e /\ kedit'[kapp][p] = e /\ e # 0
    BY <1>2, <1>4, <1>5, <1>6, <1>7
  <2>4. SaveInStep'
    BY <1>3, <1>4, <2>2, <2>3 DEF KInv, ShownInStep, SaveInStep
  <2>5. ASSUME NEW a \in Apps PROVE Untouched(a)' \/ InStep(a)'
    <3>1. CASE a # kapp /\ Untouched(a)
      <4>1. kedit'[a] = kedit[a]
        BY <1>4, <1>7, <3>1, SameOverrides
      <4> QED  BY <1>3, <1>6, <3>1, <4>1 DEF Untouched
    <3>2. CASE InStep(a)
      BY <1>3, <2>2, <2>3, <3>2 DEF InStep
    <3> QED  BY <2>1, <3>1, <3>2 DEF KInv, ShownInStep
  <2> QED  BY <1>4, <1>6, <2>4, <2>5
<1> QED  BY <1>11, <1>12, <1>13, <1>14 DEF KInv

\* A reset ends what is claimed of the points' agreement with the server.
LEMMA KResetKeeps ==
  ASSUME KInv, NEW p \in Points, KReset(p)
  PROVE  KInv'
<1> DEFINE o == [kover EXCEPT ![p] = 0]
<1>1. /\ kover' = o /\ kedit' = [kedit EXCEPT ![kapp][p] = 0] /\ kreset' = TRUE
      /\ kknown /\ UNCHANGED <<ksaved, kapp, kknown, kstash, kloads, ksave, kby>>
  BY DEF KReset
<1>2. /\ kapp \in Apps /\ kover \in Overrides /\ kedit \in [Apps -> Overrides]
  BY DEF KInv, KWell, KTypeOK
<1>3. o \in Overrides /\ \A q \in Points : o[q] = IF q = p THEN 0 ELSE kover[q]
  BY <1>2 DEF Overrides, Places
<1> HIDE DEF o
<1>4. /\ kedit' \in [Apps -> Overrides]
      /\ \A a \in Apps, q \in Points :
           kedit'[a][q] = IF a = kapp /\ q = p THEN 0 ELSE kedit[a][q]
  <2>1. kedit' = [kedit EXCEPT ![kapp] = [kedit[kapp] EXCEPT ![p] = 0]]
    BY <1>1, <1>2
  <2>2. [kedit[kapp] EXCEPT ![p] = 0] \in Overrides
    BY <1>2 DEF Overrides, Places
  <2>3. \A q \in Points : [kedit[kapp] EXCEPT ![p] = 0][q] = IF q = p THEN 0 ELSE kedit[kapp][q]
    BY <1>2 DEF Overrides
  <2> QED  BY <1>2, <2>1, <2>2, <2>3
<1>5. KWell'
  <2>1. KTypeOK  BY DEF KInv, KWell
  <2>2. KTypeOK'  BY <1>1, <1>3, <1>4, <2>1 DEF KTypeOK
  <2> QED  BY <1>1, <2>2 DEF KInv, KWell
<1>6. PlacesRight'
  BY <1>1, <1>3, <1>4 DEF KInv, PlacesRight, RightPlaces
<1>7. EditsThere'
  BY <1>1, <1>3, <1>4 DEF KInv, EditsThere
<1> QED  BY <1>1, <1>5, <1>6, <1>7 DEF KInv, ShownInStep

LEMMA KResetAllKeeps ==
  ASSUME KInv, KResetAll
  PROVE  KInv'
<1>1. /\ kover' = Nowhere /\ kstash' = [kstash EXCEPT ![kapp] = Nowhere]
      /\ kedit' = [kedit EXCEPT ![kapp] = Nowhere] /\ kreset' = TRUE
      /\ kknown /\ UNCHANGED <<ksaved, kapp, kknown, kloads, ksave, kby>>
  BY DEF KResetAll
<1>2. /\ kapp \in Apps /\ kstash \in [Apps -> Overrides] /\ kedit \in [Apps -> Overrides]
  BY DEF KInv, KWell, KTypeOK
<1>3. /\ {kstash', kedit'} \subseteq [Apps -> Overrides]
      /\ \A a \in Apps : /\ kstash'[a] = IF a = kapp THEN Nowhere ELSE kstash[a]
                         /\ kedit'[a] = IF a = kapp THEN Nowhere ELSE kedit[a]
  BY <1>1, <1>2, NowhereWell
<1>4. KWell'
  BY <1>1, <1>3, NowhereWell DEF KInv, KWell, KTypeOK
<1>5. PlacesRight'
  BY <1>1, <1>3, NowhereWell DEF KInv, PlacesRight, RightPlaces
<1>6. EditsThere'
  BY <1>1, <1>3, NowhereWell DEF KInv, EditsThere
<1> QED  BY <1>1, <1>4, <1>5, <1>6 DEF KInv, ShownInStep

LEMMA KSaveKeeps ==
  ASSUME KInv, KSave
  PROVE  KInv'
<1>1. /\ ksave' = [state |-> "sent", app |-> kapp, body |-> kover]
      /\ kstash' = [kstash EXCEPT ![kapp] = kover]
      /\ kknown /\ UNCHANGED <<ksaved, kapp, kknown, kover, kloads, kby, kedit, kreset>>
  BY DEF KSave
<1>2. /\ kapp \in Apps /\ kstash \in [Apps -> Overrides] /\ kover \in Overrides
  BY DEF KInv, KWell, KTypeOK
<1>3. /\ kstash' \in [Apps -> Overrides]
      /\ \A a \in Apps : kstash'[a] = IF a = kapp THEN kover ELSE kstash[a]
  BY <1>1, <1>2
<1>4. KWell'
  BY <1>1, <1>2, <1>3 DEF KInv, KWell, KTypeOK
<1>5. PlacesRight'
  BY <1>1, <1>3 DEF KInv, PlacesRight
<1>6. EditsThere'
  BY <1>1, <1>3 DEF KInv, EditsThere
<1>7. ShownInStep'
  <2> SUFFICES ASSUME ~kreset
               PROVE  /\ kstash'[kapp] = kover
                      /\ SaveInStep'
                      /\ \A a \in Apps : Untouched(a)' \/ InStep(a)'
    BY <1>1 DEF ShownInStep
  <2>1. kstash' = kstash /\ InStep(kapp) /\ kstash[kapp] = kover
    BY <1>1, <1>2 DEF KInv, ShownInStep, Untouched
  <2>2. SaveInStep'
    BY <1>1, <1>2, <2>1 DEF SaveInStep
  <2>3. ASSUME NEW a \in Apps PROVE Untouched(a)' \/ InStep(a)'
    BY <1>1, <2>1 DEF KInv, ShownInStep, Untouched, InStep
  <2> QED  BY <2>1, <2>2, <2>3
<1> QED  BY <1>4, <1>5, <1>6, <1>7 DEF KInv

LEMMA KPatchKeeps ==
  ASSUME KInv, KPatch
  PROVE  KInv'
<1> DEFINE b == ksave.app
           o == Patched(ksaved[b], ksave.body)
<1>1. /\ ksave.state = "sent" /\ ksave' = [ksave EXCEPT !.state = "stored"]
      /\ ksaved' = [ksaved EXCEPT ![b] = o]
      /\ UNCHANGED <<kapp, kknown, kover, kstash, kloads, kby, kedit, kreset>>
  BY DEF KPatch
<1>2. /\ b \in Apps /\ ksaved \in [Apps -> Overrides] /\ ksave.body \in Overrides
      /\ ksaved[b] \in Overrides
      /\ ksave \in [state : {"none", "sent", "stored"}, app : Apps, body : Overrides]
  BY DEF KInv, KWell, KTypeOK
<1>3. /\ ksave' \in [state : {"none", "sent", "stored"}, app : Apps, body : Overrides]
      /\ ksave'.state = "stored" /\ ksave'.app = b /\ ksave'.body = ksave.body
  BY <1>1, <1>2
<1>4. /\ o \in Overrides /\ RightPlaces(kby, o, b)
      /\ \A p \in Points : o[p] = IF ksave.body[p] # 0 THEN ksave.body[p]
                                  ELSE IF ksave.body = Nowhere THEN 0 ELSE ksaved[b][p]
  BY <1>2, MergeWell, NowhereWell DEF KInv, PlacesRight, RightPlaces, Patched
<1> HIDE DEF o, b
<1>5. /\ ksaved' \in [Apps -> Overrides]
      /\ \A a \in Apps : ksaved'[a] = IF a = b THEN o ELSE ksaved[a]
  BY <1>1, <1>2, <1>4
<1>6. KWell'
  BY <1>1, <1>3, <1>5 DEF KInv, KWell, KTypeOK
<1>7. PlacesRight'
  BY <1>1, <1>3, <1>4, <1>5 DEF KInv, PlacesRight, b
<1>8. EditsThere'
  BY <1>1 DEF KInv, EditsThere
<1>9. ShownInStep'
  <2> SUFFICES ASSUME ~kreset
               PROVE  /\ kknown => kstash[kapp] = kover
                      /\ SaveInStep'
                      /\ \A a \in Apps : Untouched(a)' \/ InStep(a)'
    BY <1>1 DEF ShownInStep
  <2>1. InStep(b) /\ \A p \in Points : kedit[b][p] = 0 => ksave.body[p] = kstash[b][p]
    BY <1>1, <1>2 DEF KInv, ShownInStep, Untouched, SaveInStep, b
  <2>2. SaveInStep'
    BY <1>1, <1>2, <1>3, <1>4, <1>5, <2>1 DEF SaveInStep
  <2>3. ASSUME NEW a \in Apps PROVE Untouched(a)' \/ InStep(a)'
    <3>1. CASE a # b
      BY <1>1, <1>3, <1>5, <3>1 DEF KInv, ShownInStep, Untouched, InStep, b
    <3>2. CASE a = b
      <4>1. \A p \in Points : kedit[b][p] = 0 => kstash[b][p] = o[p]
        BY <1>4, <2>1, NowhereWell DEF InStep
      <4> QED  BY <1>1, <1>5, <2>1, <3>2, <4>1 DEF InStep
    <3> QED  BY <3>1, <3>2
  <2> QED  BY <2>2, <2>3 DEF KInv, ShownInStep
<1> QED  BY <1>6, <1>7, <1>8, <1>9 DEF KInv

LEMMA KSaveFailsKeeps ==
  ASSUME KInv, KSaveFails
  PROVE  KInv'
<1>1. /\ ksave' = NoSaving
      /\ UNCHANGED <<ksaved, kapp, kknown, kover, kstash, kloads, kby, kedit, kreset>>
  BY DEF KSaveFails
<1>2. NoSaving \in [state : {"none", "sent", "stored"}, app : Apps, body : Overrides]
  BY NowhereWell DEF NoSaving, Apps
<1>3. KWell'
  BY <1>1, <1>2 DEF KInv, KWell, KTypeOK, NoSaving
<1>4. PlacesRight'
  BY <1>1, NowhereWell DEF KInv, PlacesRight, RightPlaces, NoSaving
<1>5. EditsThere' /\ ShownInStep'
  BY <1>1 DEF KInv, EditsThere, ShownInStep, SaveInStep, Untouched, InStep, NoSaving
<1> QED  BY <1>3, <1>4, <1>5 DEF KInv

LEMMA KSavedKeeps ==
  ASSUME KInv, KSaved
  PROVE  KInv'
<1> DEFINE b == ksave.app
           left == [p \in Points |-> IF kedit[b][p] = ksave.body[p] THEN 0 ELSE kedit[b][p]]
<1>0. /\ kstash \in [Apps -> Overrides] /\ kapp \in Apps /\ kover \in Overrides
      /\ kedit \in [Apps -> Overrides] /\ b \in Apps /\ ksave.state = "stored" /\ kknown
      /\ ksave' = NoSaving /\ kedit' = [kedit EXCEPT ![b] = left]
      /\ UNCHANGED <<ksaved, kapp, kknown, kover, kby, kreset>>
      /\ kloads \subseteq Load
  BY DEF KInv, KWell, KTypeOK, KSaved, Load
<1>1. /\ kstash' \in [Apps -> Overrides]
      /\ \A a \in Apps : kstash'[a] = IF a = kapp THEN kover ELSE kstash[a]
      /\ \E l \in Load :
           kloads' = kloads \cup {l} /\ l.app = kapp /\ ~l.read /\ l.data = Nowhere
  BY <1>0, LoadsStash DEF KSaved
<1>2. PICK new \in Load : /\ kloads' = kloads \cup {new}
                         /\ new.app = kapp /\ ~new.read /\ new.data = Nowhere
  BY <1>1
<1>3. /\ left \in Overrides
      /\ \A p \in Points : left[p] = IF kedit[b][p] = ksave.body[p] THEN 0 ELSE kedit[b][p]
  BY <1>0 DEF Overrides, Places
<1> HIDE DEF left, b
<1>4. /\ kedit' \in [Apps -> Overrides]
      /\ \A a \in Apps : kedit'[a] = IF a = b THEN left ELSE kedit[a]
  BY <1>0, <1>3
<1>5. NoSaving \in [state : {"none", "sent", "stored"}, app : Apps, body : Overrides]
      /\ NoSaving.state = "none" /\ NoSaving.body = Nowhere
  BY NowhereWell DEF NoSaving, Apps
<1>6. KWell'
  BY <1>0, <1>1, <1>2, <1>4, <1>5 DEF KInv, KWell, KTypeOK, Load
<1>7. PlacesRight'
  <2>1. \A a \in Apps : RightPlaces(kby, kstash'[a], a)
    BY <1>0, <1>1 DEF KInv, PlacesRight
  <2>2. \A a \in Apps : RightPlaces(kby, kedit'[a], a)
    BY <1>3, <1>4 DEF KInv, PlacesRight, RightPlaces
  <2>3. \A l \in kloads' : RightPlaces(kby, l.data, l.app)
    BY <1>2, NowhereWell DEF KInv, PlacesRight, RightPlaces
  <2>4. RightPlaces(kby, Nowhere, ksave'.app)
    BY NowhereWell DEF RightPlaces
  <2> QED  BY <1>0, <1>5, <2>1, <2>2, <2>3, <2>4 DEF KInv, PlacesRight
<1>8. EditsThere'
  BY <1>0, <1>1, <1>3, <1>4 DEF KInv, EditsThere
<1>9. ShownInStep'
  <2> SUFFICES ASSUME ~kreset
               PROVE  /\ kstash'[kapp] = kover
                      /\ \A a \in Apps : Untouched(a)' \/ InStep(a)'
    BY <1>0, <1>5 DEF ShownInStep, SaveInStep
  <2>1. \A a \in Apps : kstash'[a] = kstash[a]
    BY <1>0, <1>1 DEF KInv, ShownInStep
  <2>2. ASSUME NEW a \in Apps PROVE Untouched(a)' \/ InStep(a)'
    <3>1. CASE a # b
      BY <1>0, <1>2, <1>4, <1>5, <2>1, <3>1, NowhereWell
      DEF KInv, ShownInStep, Untouched, InStep
    <3>2. CASE a = b
      <4>1. InStep(b)
        BY <1>0 DEF KInv, ShownInStep, Untouched, b
      <4>2. ASSUME NEW p \in Points, left[p] = 0
            PROVE  kstash[b][p] = ksaved[b][p]
        <5>1. CASE kedit[b][p] = 0
          BY <4>1, <5>1 DEF InStep
        <5>2. CASE kedit[b][p] # 0
          <6>1. ksave.body[p] = kedit[b][p] /\ kstash[b][p] = kedit[b][p]
            BY <1>0, <1>3, <4>2, <5>2 DEF KInv, EditsThere
          <6> QED  BY <1>0, <5>2, <6>1 DEF KInv, ShownInStep, SaveInStep, b
        <5> QED  BY <5>1, <5>2
      <4> QED  BY <1>0, <1>2, <1>4, <2>1, <3>2, <4>1, <4>2, NowhereWell DEF InStep
    <3> QED  BY <3>1, <3>2
  <2> QED  BY <1>0, <1>1, <2>2
<1> QED  BY <1>6, <1>7, <1>8, <1>9 DEF KInv

LEMMA KStepKeeps == KInv /\ [KNext]_kVars => KInv'
<1> SUFFICES ASSUME KInv, [KNext]_kVars PROVE KInv'
  OBVIOUS
<1>1. CASE KNext
  BY <1>1, KLoadKeeps, KReadKeeps, KAnswerKeeps, KClickKeeps, KResetKeeps, KResetAllKeeps,
     KSaveKeeps, KPatchKeeps, KSavedKeeps, KSaveFailsKeeps DEF KNext
<1>2. CASE UNCHANGED kVars
  BY <1>2 DEF kVars, KInv, KWell, KTypeOK, PlacesRight, EditsThere, ShownInStep, SaveInStep,
     Untouched, InStep
<1> QED  BY <1>1, <1>2

\* A calibrated point is never given to the other app, a click is not lost before it is
\* saved or reset, and what the page shows is what is saved until a point is reset, for
\* any number of points, edits and loads (device.ts:1204-1345, device-routes.ts).
THEOREM PointsAreKept == KSpec => []KSafe
<1> QED  BY KInitHolds, KStepKeeps, KInvSafe, PTL DEF KSpec

-----------------------------------------------------------------------------
(* The library of flows and its editor.                                     *)

HIDE CalibrationAssumption
USE FlowEditorAssumption

Details == [flow : Flows \cup {None}, version : Nat, content : Contents]
Ways ==
  [kind : {"get", "put", "post", "copy", "import", "restore", "delete"},
   flow : Flows, content : Contents, state : {"sent", "stored", "answered"},
   detail : Details, replaced : Nat, saves : BOOLEAN]
Editor ==
  [id : Flows \cup {None}, version : Nat, content : Contents, edits : 0..MaxDrafts,
   dirty : BOOLEAN, of : Flows \cup {None}, replaced : Nat, crossed : BOOLEAN,
   stale : BOOLEAN]

\* The contents of a version of a flow that is still there; versions never change.
IsVersion(flows, f, v, c) ==
  flows[f] = <<>> \/ (v \in 1..Len(flows[f]) /\ flows[f][v] = c)
DetailWell(flows, used, d) ==
  /\ d.flow = None <=> d.version = 0
  /\ d.flow # None => d.flow \in used /\ IsVersion(flows, d.flow, d.version, d.content)

LibraryWell ==
  /\ eflows \in [Flows -> Seq(Contents)] /\ eused \subseteq Flows
  /\ \A f \in Flows \ eused : eflows[f] = <<>>
  /\ eothers \in 0..MaxOthers
WaysWell ==
  /\ IsFiniteSet(eways) /\ Cardinality(eways) <= MaxWays
  /\ \A way \in eways : /\ way \in Ways /\ DetailWell(eflows, eused, way.detail)
                        /\ way.saves => way.kind = "get"
EditorWell ==
  /\ epage \in Editor /\ epage.id \in eused \cup {None}
  /\ epage.id = None <=> epage.version = 0
  /\ ESameFlow
\* The editor's contents are the version it names, once no save is under way: a save's
\* answer has the new version's number before the page has its contents, and the second
\* look that follows it is on its way, or failed.
EditorShows ==
  (epage.id # None /\ ~epage.dirty /\ ~epage.stale /\ \A way \in eways : ~way.saves)
    => IsVersion(eflows, epage.id, epage.version, epage.content)
EInv == LibraryWell /\ WaysWell /\ EditorWell /\ EditorShows

LEMMA EInvSafe == EInv => ESafe
<1> SUFFICES ASSUME EInv PROVE ESafe
  OBVIOUS
<1>1. ETypeOK
  BY DEF EInv, LibraryWell, WaysWell, EditorWell, ETypeOK, Editor, Contents
<1>2. ESameFlow  BY DEF EInv, EditorWell
<1>3. EShowsVersion
  BY DEF EInv, EditorShows, IsVersion, EShowsVersion
<1> QED  BY <1>1, <1>2, <1>3 DEF ESafe

LEMMA EInitHolds == EInit => EInv
<1> SUFFICES ASSUME EInit PROVE EInv
  OBVIOUS
<1>0. (CHOOSE f \in Flows : TRUE) \in Flows /\ 0 \in Contents /\ None \notin Flows
  BY DEF Contents, None
<1>1. LibraryWell
  <2>1. eused \subseteq Flows  BY <1>0 DEF EInit
  <2>2. <<0>> \in Seq(Contents) /\ <<>> \in Seq(Contents)  BY <1>0
  <2>3. eflows \in [Flows -> Seq(Contents)] /\ \A f \in Flows \ eused : eflows[f] = <<>>
    <3> DEFINE one == <<0>>
    <3>1. one \in Seq(Contents)  BY <2>2
    <3>2. eflows = [f \in Flows |-> IF f \in eused THEN one ELSE <<>>]  BY DEF EInit
    <3> HIDE DEF one
    <3> QED  BY <2>2, <3>1, <3>2
  <2>4. eothers \in 0..MaxOthers  BY DEF EInit
  <2> QED  BY <2>1, <2>3, <2>4 DEF LibraryWell
<1>2. WaysWell
  BY FS_EmptySet DEF EInit, WaysWell
<1>3. EditorWell /\ epage.id = None
  <2>1. epage \in Editor  BY <1>0 DEF EInit, NewEditor, Editor
  <2> QED  BY <2>1 DEF EInit, NewEditor, EditorWell, ESameFlow
<1>4. EditorShows  BY <1>3 DEF EditorShows
<1> QED  BY <1>1, <1>2, <1>3, <1>4 DEF EInv

\* What a step may do to the library: versions are added, or the flow is gone for good.
LibraryGrows ==
  /\ eused \subseteq eused' /\ eused' \subseteq Flows
  /\ eflows' \in [Flows -> Seq(Contents)]
  /\ \A f \in Flows \ eused' : eflows'[f] = <<>>
  /\ \A f \in eused : \A v, c : IsVersion(eflows, f, v, c) => IsVersion(eflows', f, v, c)

LEMMA SameLibraryGrows ==
  ASSUME LibraryWell, UNCHANGED <<eflows, eused>>
  PROVE  LibraryGrows
BY DEF LibraryWell, LibraryGrows, IsVersion

LEMMA AppendGrows ==
  ASSUME LibraryWell, NEW f \in Flows, NEW c \in Contents, eflows[f] # <<>>, eused' = eused,
         eflows' = [eflows EXCEPT ![f] = Append(@, c)]
  PROVE  LibraryGrows
<1>1. eflows[f] \in Seq(Contents) /\ f \in eused  BY DEF LibraryWell
<1>2. /\ Append(eflows[f], c) \in Seq(Contents)
      /\ Len(Append(eflows[f], c)) = Len(eflows[f]) + 1
      /\ \A v \in 1..Len(eflows[f]) : Append(eflows[f], c)[v] = eflows[f][v]
  BY <1>1
<1>3. /\ eflows' \in [Flows -> Seq(Contents)] /\ eflows'[f] = Append(eflows[f], c)
      /\ \A g \in Flows \ {f} : eflows'[g] = eflows[g]
  BY <1>2 DEF LibraryWell
<1>4. \A g \in Flows \ eused' : eflows'[g] = <<>>
  BY <1>1, <1>3 DEF LibraryWell
<1>5. ASSUME NEW g \in eused, NEW v, NEW x, IsVersion(eflows, g, v, x)
      PROVE  IsVersion(eflows', g, v, x)
  <2>1. CASE g # f
    BY <1>3, <1>5, <2>1 DEF IsVersion, LibraryWell
  <2>2. CASE g = f
    <3>1. v \in 1..Len(eflows[f]) /\ eflows[f][v] = x  BY <1>5, <2>2 DEF IsVersion
    <3>2. Len(eflows[f]) \in Nat  BY <1>1
    <3>3. v \in 1..Len(eflows'[f])  BY <1>2, <1>3, <3>1, <3>2
    <3>4. eflows'[f][v] = x  BY <1>2, <1>3, <3>1
    <3> QED  BY <2>2, <3>3, <3>4 DEF IsVersion
  <2> QED  BY <2>1, <2>2
<1> QED  BY <1>3, <1>4, <1>5 DEF LibraryWell, LibraryGrows

LEMMA GoneGrows ==
  ASSUME LibraryWell, NEW f \in Flows, eused' = eused, eflows' = [eflows EXCEPT ![f] = <<>>]
  PROVE  LibraryGrows
<1>1. eflows' \in [Flows -> Seq(Contents)]  BY DEF LibraryWell
<1>2. \A g \in Flows : eflows'[g] = IF g = f THEN <<>> ELSE eflows[g]  BY DEF LibraryWell
<1> QED  BY <1>1, <1>2 DEF LibraryWell, LibraryGrows, IsVersion

LEMMA CreatesGrows ==
  ASSUME LibraryWell, NEW f \in Flows \ eused, NEW c \in Contents, Creates(f, c)
  PROVE  LibraryGrows
<1>1. eflows' \in [Flows -> Seq(Contents)] /\ eused' = eused \cup {f}
  BY DEF Creates, LibraryWell
<1>2. \A g \in Flows : g # f => eflows'[g] = eflows[g]  BY DEF Creates, LibraryWell
<1> QED  BY <1>1, <1>2 DEF LibraryWell, LibraryGrows, IsVersion

\* What is known of a version stays so.
LEMMA KnownStays ==
  ASSUME LibraryGrows, NEW d \in Details, DetailWell(eflows, eused, d)
  PROVE  DetailWell(eflows', eused', d)
BY DEF LibraryGrows, DetailWell

LEMMA DetailIsWell ==
  ASSUME LibraryWell, NEW f \in Flows
  PROVE  Detail(f) \in Details /\ DetailWell(eflows, eused, Detail(f))
<1>0. None \notin Flows /\ eflows[f] \in Seq(Contents)  BY DEF None, LibraryWell
<1>1. CASE eflows[f] = <<>>
  BY <1>1 DEF Detail, NoDetail, Details, DetailWell, Contents
<1>2. CASE eflows[f] # <<>>
  <2>1. Len(eflows[f]) \in Nat \ {0} /\ Last(eflows[f]) = eflows[f][Len(eflows[f])]
    BY <1>0, <1>2 DEF Last
  <2>2. Last(eflows[f]) \in Contents  BY <1>0, <2>1
  <2>3. f \in eused  BY <1>2 DEF LibraryWell
  <2>4. Detail(f) = [flow |-> f, version |-> Len(eflows[f]), content |-> Last(eflows[f])]
    BY <1>2 DEF Detail
  <2>5. Detail(f) \in Details  BY <2>1, <2>2, <2>4 DEF Details
  <2>6. Detail(f).flow = f /\ Detail(f).version = Len(eflows[f])
        /\ Detail(f).content = eflows[f][Len(eflows[f])]
    BY <2>1, <2>4
  <2> QED  BY <1>0, <2>1, <2>3, <2>5, <2>6 DEF DetailWell, IsVersion
<1> QED  BY <1>1, <1>2

\* One request is replaced by another, or ends.
LEMMA WayReplaced ==
  ASSUME EInv, LibraryGrows, NEW way \in eways, NEW next \in Ways,
         DetailWell(eflows', eused', next.detail), next.saves => next.kind = "get",
         eways' = (eways \ {way}) \cup {next}
  PROVE  WaysWell'
<1>1. /\ IsFiniteSet(eways \ {way}) /\ Cardinality(eways \ {way}) = Cardinality(eways) - 1
      /\ Cardinality(eways) \in Nat
  BY FS_RemoveElement, FS_CardinalityType DEF EInv, WaysWell
<1>2. /\ IsFiniteSet(eways')
      /\ \/ Cardinality(eways') = Cardinality(eways \ {way})
         \/ Cardinality(eways') = Cardinality(eways \ {way}) + 1
  BY <1>1, FS_AddElement
<1>3. Cardinality(eways') <= MaxWays
  BY <1>1, <1>2 DEF EInv, WaysWell
<1>4. \A w \in eways' : /\ w \in Ways /\ DetailWell(eflows', eused', w.detail)
                        /\ w.saves => w.kind = "get"
  BY KnownStays DEF EInv, WaysWell, Ways
<1> QED  BY <1>2, <1>3, <1>4 DEF WaysWell

LEMMA WayEnds ==
  ASSUME EInv, LibraryGrows, NEW way \in eways, eways' = eways \ {way}
  PROVE  WaysWell'
<1>1. /\ IsFiniteSet(eways') /\ Cardinality(eways') = Cardinality(eways) - 1
      /\ Cardinality(eways) \in Nat
  BY FS_RemoveElement, FS_CardinalityType DEF EInv, WaysWell
<1>2. Cardinality(eways') <= MaxWays
  BY <1>1 DEF EInv, WaysWell
<1>3. \A w \in eways' : /\ w \in Ways /\ DetailWell(eflows', eused', w.detail)
                        /\ w.saves => w.kind = "get"
  BY KnownStays DEF EInv, WaysWell, Ways
<1> QED  BY <1>1, <1>2, <1>3 DEF WaysWell

LEMMA WaysStay ==
  ASSUME EInv, LibraryGrows, eways' = eways
  PROVE  WaysWell'
BY KnownStays DEF EInv, WaysWell, Ways

\* The editor, where it is left alone.
LEMMA EditorStays ==
  ASSUME EInv, LibraryGrows, epage' = epage,
         (\A w \in eways' : ~w.saves) => \A w \in eways : ~w.saves
  PROVE  EditorWell' /\ EditorShows'
<1>1. EditorWell'
  BY DEF EInv, EditorWell, LibraryGrows, ESameFlow
<1>2. EditorShows'
  BY DEF EInv, EditorWell, EditorShows, LibraryGrows
<1> QED  BY <1>1, <1>2

LEMMA LibraryGrown ==
  ASSUME LibraryWell, LibraryGrows, eothers' \in 0..MaxOthers
  PROVE  LibraryWell'
BY DEF LibraryGrows, LibraryWell

LEMMA EServesKeeps ==
  ASSUME EInv, NEW way \in eways, EServes(way)
  PROVE  EInv'
<1> DEFINE f == way.flow
<1>0. /\ way \in Ways /\ f \in Flows /\ way.content \in Contents
      /\ way.kind \in {"get", "put", "post", "copy", "import", "restore", "delete"}
      /\ DetailWell(eflows, eused, way.detail) /\ LibraryWell
      /\ way.saves => way.kind = "get"
  BY DEF EInv, WaysWell, Ways
<1>1. UNCHANGED <<epage, eclicks, eothers>>  BY DEF EServes
\* It is enough to know what became of the library and of the request.
<1>2. ASSUME LibraryGrows, NEW state \in {"stored", "answered"}, NEW g \in Flows,
             NEW d \in Details, DetailWell(eflows', eused', d), Becoming(way, state, g, d)
      PROVE  EInv'
  <2> DEFINE next == [way EXCEPT !.state = state, !.flow = g, !.detail = d]
  <2>1. next \in Ways  BY <1>0, <1>2 DEF Ways
  <2>2. next.detail = d /\ next.kind = way.kind /\ next.saves = way.saves
    BY <1>0 DEF Ways
  <2>3. eways' = (eways \ {way}) \cup {next}  BY <1>2 DEF Becoming
  <2> HIDE DEF next
  <2>4. WaysWell'  BY <1>0, <1>2, <2>1, <2>2, <2>3, WayReplaced
  <2>5. (\A w \in eways' : ~w.saves) => \A w \in eways : ~w.saves
    BY <2>2, <2>3
  <2>6. EditorWell' /\ EditorShows'  BY <1>1, <1>2, <2>5, EditorStays
  <2>7. LibraryWell'  BY <1>0, <1>1, <1>2, LibraryGrown DEF LibraryWell
  <2> QED  BY <2>4, <2>6, <2>7 DEF EInv
<1>3. NoDetail \in Details /\ \A flows, used : DetailWell(flows, used, NoDetail)
  BY DEF NoDetail, Details, DetailWell, Contents
<1>4. CASE /\ way.kind \in {"put", "restore"} /\ eused' = eused
           /\ eflows' = Versions(f, way.content) /\ Becoming(way, "stored", f, NoDetail)
  <2>1. LibraryGrows
    <3>1. CASE eflows[f] = <<>>
      BY <1>0, <1>4, <3>1, SameLibraryGrows DEF Versions
    <3>2. CASE eflows[f] # <<>>
      BY <1>0, <1>4, <3>2, AppendGrows DEF Versions
    <3> QED  BY <3>1, <3>2
  <2> QED  BY <1>0, <1>2, <1>3, <1>4, <2>1
<1>5. CASE /\ way.kind = "delete" /\ eused' = eused
           /\ eflows' = [eflows EXCEPT ![f] = <<>>]
           /\ Becoming(way, "answered", f, NoDetail)
  <2>1. LibraryGrows  BY <1>0, <1>5, GoneGrows
  <2> QED  BY <1>0, <1>2, <1>3, <1>5, <2>1
<1>6. CASE /\ way.kind = "get"
           /\ UNCHANGED <<eflows, eused>> /\ Becoming(way, "answered", f, Detail(f))
  <2>1. LibraryGrows  BY <1>0, <1>6, SameLibraryGrows
  <2>2. Detail(f) \in Details /\ DetailWell(eflows', eused', Detail(f))
    BY <1>0, <1>6, DetailIsWell
  <2> QED  BY <1>0, <1>2, <1>6, <2>1, <2>2
<1>7. CASE /\ way.kind \in {"post", "copy", "import"}
           /\ way.kind = "copy" => eflows[f] # <<>>
           /\ \E g \in Flows \ eused :
                /\ Creates(g, IF way.kind = "copy" THEN Last(eflows[f]) ELSE way.content)
                /\ Becoming(way, "stored", g, NoDetail)
  <2> DEFINE c == IF way.kind = "copy" THEN Last(eflows[f]) ELSE way.content
  <2>1. c \in Contents
    <3>1. CASE way.kind = "copy"
      <4>1. eflows[f] \in Seq(Contents) /\ eflows[f] # <<>>  BY <1>0, <1>7, <3>1 DEF LibraryWell
      <4>2. Last(eflows[f]) \in Contents  BY <4>1 DEF Last
      <4> QED  BY <3>1, <4>2
    <3> QED  BY <1>0, <3>1
  <2>2. PICK g \in Flows \ eused : Creates(g, c) /\ Becoming(way, "stored", g, NoDetail)
    BY <1>7
  <2> HIDE DEF c
  <2>3. LibraryGrows  BY <1>0, <2>1, <2>2, CreatesGrows
  <2> QED  BY <1>2, <1>3, <2>2, <2>3
<1> QED  BY <1>4, <1>5, <1>6, <1>7 DEF EServes

LEMMA EReadsKeeps ==
  ASSUME EInv, NEW way \in eways, EReads(way)
  PROVE  EInv'
<1> DEFINE d == Detail(way.flow)
           next == [way EXCEPT !.state = "answered", !.flow = way.flow, !.detail = d]
<1>0. /\ way \in Ways /\ way.flow \in Flows /\ LibraryWell
      /\ way.saves => way.kind = "get"
      /\ eways' = (eways \ {way}) \cup {next}
      /\ UNCHANGED <<eflows, eused, epage, eclicks, eothers>>
  BY DEF EInv, WaysWell, Ways, EReads, Becoming
<1>1. LibraryGrows  BY <1>0, SameLibraryGrows
<1>2. d \in Details /\ DetailWell(eflows', eused', d)  BY <1>0, DetailIsWell
<1> HIDE DEF d
<1>3. next \in Ways /\ next.detail = d /\ next.kind = way.kind /\ next.saves = way.saves
  BY <1>0, <1>2 DEF Ways
<1> HIDE DEF next
<1>4. WaysWell'  BY <1>0, <1>1, <1>2, <1>3, WayReplaced
<1>5. (\A w \in eways' : ~w.saves) => \A w \in eways : ~w.saves  BY <1>0, <1>3
<1>6. EditorWell' /\ EditorShows'  BY <1>0, <1>1, <1>5, EditorStays
<1>7. LibraryWell'  BY <1>0, <1>1, LibraryGrown DEF LibraryWell
<1> QED  BY <1>4, <1>6, <1>7 DEF EInv

\* A flow's detail, or none, replaces what the editor shows.
LEMMA ReplacedWell ==
  ASSUME EInv, NEW d \in Details, DetailWell(eflows, eused, d)
  PROVE  LET page == Replaced(d.flow, d.version, d.content)
         IN  /\ page \in Editor /\ page.id = d.flow /\ page.of = d.flow
             /\ page.version = d.version /\ page.content = d.content
<1> DEFINE n == IF Saving THEN epage.replaced + 1 ELSE 0
           page == [epage EXCEPT !.id = d.flow, !.version = d.version, !.content = d.content,
                      !.of = d.flow, !.replaced = n, !.dirty = FALSE, !.crossed = FALSE,
                      !.stale = FALSE]
<1>1. epage \in Editor  BY DEF EInv, EditorWell
<1>2. n \in Nat  BY <1>1 DEF Editor
<1>3. Replaced(d.flow, d.version, d.content) = page  BY <1>1 DEF Replaced, Editor
<1> HIDE DEF n
<1>4. page \in Editor  BY <1>1, <1>2 DEF Editor, Details
<1>5. /\ page.id = d.flow /\ page.of = d.flow
      /\ page.version = d.version /\ page.content = d.content
  BY <1>1 DEF Editor
<1> QED  BY <1>3, <1>4, <1>5

LEMMA EditorReplaced ==
  ASSUME EInv, NEW d \in Details, DetailWell(eflows, eused, d), UNCHANGED <<eflows, eused>>,
         epage' = Replaced(d.flow, d.version, d.content)
  PROVE  EditorWell' /\ EditorShows'
<1>1. /\ epage' \in Editor /\ epage'.id = d.flow /\ epage'.of = d.flow
      /\ epage'.version = d.version /\ epage'.content = d.content
  BY ReplacedWell
<1>2. d.flow \in eused \cup {None} /\ (d.flow = None <=> d.version = 0)
  BY DEF DetailWell
<1>3. EditorWell'  BY <1>1, <1>2 DEF EditorWell, ESameFlow
<1>4. EditorShows'  BY <1>1 DEF DetailWell, EditorShows
<1> QED  BY <1>3, <1>4

LEMMA EAnswerKeeps ==
  ASSUME EInv, NEW way \in eways, EAnswer(way)
  PROVE  EInv'
<1>0. /\ way \in Ways /\ LibraryWell
      /\ way.saves => way.kind = "get"
      /\ way.detail \in Details /\ DetailWell(eflows, eused, way.detail) /\ way.flow \in Flows
      /\ epage \in Editor
      /\ UNCHANGED <<eflows, eused, eclicks, eothers>>
  BY DEF EInv, WaysWell, EditorWell, Ways, EAnswer
<1>1. LibraryGrows /\ LibraryWell'
  BY <1>0, SameLibraryGrows, LibraryGrown DEF LibraryWell
\* The request that follows a save, an import, a copy or a restored version.
<1>2. ASSUME NEW saves \in BOOLEAN, ThenLoads(way, saves)
      PROVE  /\ WaysWell'
             /\ \E next : eways' = (eways \ {way}) \cup {next} /\ next.saves = saves
  <2> DEFINE next == [Way("get", way.flow, 0) EXCEPT !.saves = saves]
  <2>1. /\ next \in Ways /\ next.saves = saves /\ next.kind = "get" /\ next.detail = NoDetail
    BY <1>0 DEF Way, Ways, NoDetail, Details, Contents
  <2>2. DetailWell(eflows', eused', NoDetail)  BY DEF NoDetail, DetailWell
  <2>3. eways' = (eways \ {way}) \cup {next}  BY <1>2 DEF ThenLoads
  <2> HIDE DEF next
  <2> QED  BY <1>1, <2>1, <2>2, <2>3, WayReplaced
<1>3. CASE /\ way.kind \in {"post", "put"} /\ way.detail.flow # None
           /\ epage' = Saved(way) /\ ThenLoads(way, TRUE)
  <2> DEFINE same == epage.replaced = way.replaced
             g == IF same THEN way.detail.flow ELSE epage.of
             y == epage.content # way.content
             x == epage.crossed \/ epage.replaced # way.replaced
             page == [epage EXCEPT !.id = way.detail.flow, !.version = way.detail.version,
                                   !.of = g, !.dirty = y, !.crossed = x]
  <2>1. epage' = page  BY <1>0, <1>3 DEF Saved, Editor
  <2>2. g \in Flows \cup {None} /\ y \in BOOLEAN /\ x \in BOOLEAN
    BY <1>0 DEF Editor, Details
  <2>3. (g # way.detail.flow => x) /\ way.detail.version \in Nat
    BY <1>0 DEF Details
  <2> HIDE DEF g, y, x
  <2>4. page \in Editor  BY <1>0, <2>2 DEF Editor, Details
  <2>5. /\ page.id = way.detail.flow /\ page.version = way.detail.version /\ page.of = g
        /\ page.crossed = x
    BY <1>0 DEF Editor
  <2> HIDE DEF page
  <2>6. EditorWell'
    BY <1>0, <1>3, <2>1, <2>3, <2>4, <2>5 DEF EditorWell, DetailWell, ESameFlow
  <2>7. PICK next : eways' = (eways \ {way}) \cup {next} /\ next.saves
    BY <1>2, <1>3
  <2>8. EditorShows'  BY <2>7 DEF EditorShows
  <2>9. WaysWell'  BY <1>2, <1>3
  <2> QED  BY <1>1, <2>6, <2>8, <2>9 DEF EInv
<1>4. CASE /\ way.kind \in {"copy", "import", "restore"} /\ way.detail.flow # None
           /\ epage' = epage /\ ThenLoads(way, FALSE)
  <2>1. PICK next : eways' = (eways \ {way}) \cup {next}
    BY <1>2, <1>4
  <2>2. WaysWell' /\ ~way.saves  BY <1>0, <1>2, <1>4
  <2>3. (\A w \in eways' : ~w.saves) => \A w \in eways : ~w.saves  BY <2>1, <2>2
  <2>4. EditorWell' /\ EditorShows'  BY <1>1, <1>4, <2>3, EditorStays
  <2> QED  BY <1>1, <2>2, <2>4 DEF EInv
<1>5. CASE way.kind = "delete" /\ epage' = NewFlow /\ eways' = eways \ {way}
  <2>1. NoDetail \in Details /\ DetailWell(eflows, eused, NoDetail)
    BY DEF NoDetail, Details, DetailWell, Contents
  <2>2. epage' = Replaced(NoDetail.flow, NoDetail.version, NoDetail.content)
    BY <1>5 DEF NewFlow, NoDetail
  <2>3. EditorWell' /\ EditorShows'  BY <1>0, <2>1, <2>2, EditorReplaced
  <2>4. WaysWell'  BY <1>1, <1>5, WayEnds
  <2> QED  BY <1>1, <2>3, <2>4 DEF EInv
<1>6. CASE /\ way.kind = "get" /\ way.detail.flow # None
           /\ epage' = Loaded(way.detail) /\ eways' = eways \ {way}
  <2>1. EditorWell' /\ EditorShows'  BY <1>0, <1>6, EditorReplaced DEF Loaded
  <2>2. WaysWell'  BY <1>1, <1>6, WayEnds
  <2> QED  BY <1>1, <2>1, <2>2 DEF EInv
<1> QED  BY <1>3, <1>4, <1>5, <1>6 DEF EAnswer

LEMMA EFailsKeeps ==
  ASSUME EInv, NEW way \in eways, EFails(way)
  PROVE  EInv'
<1> DEFINE s == epage.stale \/ way.saves
           page == [epage EXCEPT !.stale = s]
<1>0. /\ way \in Ways /\ LibraryWell /\ epage \in Editor /\ epage' = page
      /\ eways' = eways \ {way} /\ UNCHANGED <<eflows, eused, eclicks, eothers>>
  BY DEF EInv, WaysWell, EditorWell, EFails
<1>1. LibraryGrows /\ LibraryWell'
  BY <1>0, SameLibraryGrows, LibraryGrown DEF LibraryWell
<1>2. s \in BOOLEAN /\ (~s => ~epage.stale /\ ~way.saves)  BY <1>0 DEF Editor, Ways
<1> HIDE DEF s
<1>3. page \in Editor  BY <1>0, <1>2 DEF Editor
<1>4. /\ page.id = epage.id /\ page.version = epage.version /\ page.of = epage.of
      /\ page.crossed = epage.crossed /\ page.dirty = epage.dirty
      /\ page.content = epage.content /\ page.stale = s
  BY <1>0 DEF Editor
<1> HIDE DEF page
<1>5. EditorWell'  BY <1>0, <1>3, <1>4 DEF EInv, EditorWell, ESameFlow
<1>6. EditorShows'  BY <1>0, <1>2, <1>4 DEF EInv, EditorShows
<1>7. WaysWell'  BY <1>0, <1>1, WayEnds
<1> QED  BY <1>1, <1>5, <1>6, <1>7 DEF EInv

\* A request of the page goes out.
LEMMA EOperatorKeeps ==
  ASSUME EInv, EOperator
  PROVE  EInv'
<1>0. epage \in Editor /\ LibraryWell /\ (CHOOSE f \in Flows : TRUE) \in Flows
  BY DEF EInv, EditorWell
<1>1. ASSUME NEW kind \in {"get", "put", "post", "copy", "import", "restore", "delete"},
             NEW f \in Flows, NEW c \in Contents,
             Presses, Sends(Way(kind, f, c)), epage' = epage
      PROVE  EInv'
  <2> DEFINE r == IF kind \in {"post", "put"} THEN epage.replaced ELSE 0
             way == [kind |-> kind, flow |-> f, content |-> c, state |-> "sent",
                     detail |-> NoDetail, replaced |-> r, saves |-> FALSE]
  <2>1. Way(kind, f, c) = way  BY DEF Way
  <2>2. r \in Nat  BY <1>0 DEF Editor
  <2> HIDE DEF r
  <2>3. NoDetail \in Details /\ DetailWell(eflows, eused, NoDetail)
    BY DEF NoDetail, Details, DetailWell, Contents
  <2>4. way \in Ways /\ way.detail = NoDetail /\ way.saves = FALSE
    BY <1>1, <2>2, <2>3 DEF Ways
  <2>5. /\ Cardinality(eways) < MaxWays /\ eways' = eways \cup {way} /\ way \notin eways
        /\ UNCHANGED <<eflows, eused, eothers>>
    BY <1>1, <2>1 DEF Sends, Presses
  <2> HIDE DEF way
  <2>6. IsFiniteSet(eways') /\ Cardinality(eways') = Cardinality(eways) + 1
        /\ Cardinality(eways) \in Nat
    BY <2>5, FS_AddElement, FS_CardinalityType DEF EInv, WaysWell
  <2>7. Cardinality(eways') <= MaxWays  BY <2>5, <2>6
  <2>8. WaysWell'
    BY <2>3, <2>4, <2>5, <2>6, <2>7 DEF EInv, WaysWell
  <2>9. LibraryGrows /\ LibraryWell'
    BY <1>0, <2>5, SameLibraryGrows, LibraryGrown DEF LibraryWell
  <2>10. EditorWell' /\ EditorShows'  BY <1>1, <2>5, <2>9, EditorStays
  <2> QED  BY <2>8, <2>9, <2>10 DEF EInv
<1>2. CASE EEdit
  <2> DEFINE n == epage.edits + 1
             page == [epage EXCEPT !.edits = n, !.content = n, !.dirty = TRUE]
  <2>1. /\ epage' = page /\ epage.edits < MaxDrafts
        /\ UNCHANGED <<eflows, eused, eways, eclicks, eothers>>
    BY <1>0, <1>2 DEF EEdit, Editor
  <2>2. n \in 0..MaxDrafts /\ n \in Contents
    BY <1>0, <2>1 DEF Editor, Contents
  <2> HIDE DEF n
  <2>3. page \in Editor  BY <1>0, <2>2 DEF Editor
  <2>4. /\ page.id = epage.id /\ page.version = epage.version /\ page.of = epage.of
        /\ page.crossed = epage.crossed /\ page.dirty = TRUE
    BY <1>0 DEF Editor
  <2> HIDE DEF page
  <2>5. LibraryGrows /\ LibraryWell'
    BY <1>0, <2>1, SameLibraryGrows, LibraryGrown DEF LibraryWell
  <2>6. EditorWell' /\ EditorShows'
    BY <2>1, <2>3, <2>4 DEF EInv, EditorWell, EditorShows, ESameFlow
  <2> QED  BY <2>1, <2>5, <2>6, WaysStay DEF EInv
<1>3. CASE ENew
  <2>1. epage' = NewFlow /\ UNCHANGED <<eflows, eused, eways, eothers>>
    BY <1>3 DEF ENew, Presses
  <2>2. NoDetail \in Details /\ DetailWell(eflows, eused, NoDetail)
    BY DEF NoDetail, Details, DetailWell, Contents
  <2>3. EditorWell' /\ EditorShows'
    BY <2>1, <2>2, EditorReplaced DEF NewFlow, NoDetail
  <2>4. LibraryGrows /\ LibraryWell'
    BY <1>0, <2>1, SameLibraryGrows, LibraryGrown DEF LibraryWell
  <2> QED  BY <2>1, <2>3, <2>4, WaysStay DEF EInv
<1>4. epage.id # None => epage.id \in Flows  BY <1>0 DEF Editor
<1>5. 0 \in Contents /\ epage.content \in Contents  BY <1>0 DEF Contents, Editor
<1>6. CASE ESave
  BY <1>0, <1>1, <1>4, <1>5, <1>6 DEF ESave
<1>7. CASE EImport \/ EDuplicate \/ EDelete
  BY <1>0, <1>1, <1>4, <1>5, <1>7 DEF EImport, EDuplicate, EDelete
<1>8. CASE ERestore
  <2>1. PICK v \in 1..epage.version \cap DOMAIN eflows[epage.id] :
          Sends(Way("restore", epage.id, eflows[epage.id][v]))
    BY <1>8 DEF ERestore
  <2>2. eflows[epage.id] \in Seq(Contents)  BY <1>0, <1>4, <1>8 DEF ERestore, LibraryWell
  <2>3. eflows[epage.id][v] \in Contents  BY <2>1, <2>2
  <2> QED  BY <1>1, <1>4, <1>8, <2>1, <2>3 DEF ERestore
<1>9. ASSUME NEW f \in Flows, ELoad(f) PROVE EInv'
  BY <1>1, <1>5, <1>9 DEF ELoad
<1> QED  BY <1>2, <1>3, <1>6, <1>7, <1>8, <1>9 DEF EOperator

LEMMA EOtherKeeps ==
  ASSUME EInv, NEW f \in Flows, EOther(f)
  PROVE  EInv'
<1>0. /\ LibraryWell /\ eothers \in 0..MaxOthers
      /\ eothers < MaxOthers /\ eothers' = eothers + 1
      /\ eflows[f] # <<>> /\ UNCHANGED <<eused, epage, eways, eclicks>>
      /\ \/ eflows' = [eflows EXCEPT ![f] = <<>>]
         \/ eflows' = [eflows EXCEPT ![f] = Append(eflows[f], MaxDrafts + eothers')]
  BY DEF EInv, LibraryWell, EOther
<1>1. eothers' \in 0..MaxOthers /\ MaxDrafts + eothers' \in Contents
  BY <1>0 DEF Contents
<1>2. LibraryGrows
  BY <1>0, <1>1, GoneGrows, AppendGrows
<1> QED  BY <1>0, <1>1, <1>2, LibraryGrown, WaysStay, EditorStays DEF EInv

LEMMA EStepKeeps == EInv /\ [ENext]_eVars => EInv'
<1> SUFFICES ASSUME EInv, [ENext]_eVars PROVE EInv'
  OBVIOUS
<1>1. CASE ENext
  BY <1>1, EServesKeeps, EReadsKeeps, EAnswerKeeps, EFailsKeeps, EOperatorKeeps, EOtherKeeps
     DEF ENext
<1>2. CASE UNCHANGED eVars
  BY <1>2 DEF eVars, EInv, LibraryWell, WaysWell, EditorWell, EditorShows, ESameFlow
<1> QED  BY <1>1, <1>2

\* The editor works on the flow and the version it shows, in whatever order its requests
\* are answered and whatever other pages save and delete, for any number of flows, drafts
\* and clicks (automations.ts:638-693, 937-1052, repository.ts:140-183).
THEOREM EditorShowsItsFlow == ESpec => []ESafe
<1> QED  BY EInitHolds, EStepKeeps, EInvSafe, PTL DEF ESpec

-----------------------------------------------------------------------------
(* Device pools, and the choice of a device.                                *)

HIDE FlowEditorAssumption
USE AllocationAssumption

\* The fields of the pools, the requests and the page.
PoolRecs == {Gone} \cup [name : Names, sel : Selectors]
Asked ==
  [kind : {"pool", "drop", "run", "preview"}, by : {"page", "other"},
   pool : Pools \cup {NoPool}, name : Names \cup {"none"}, sel : SUBSET Devs,
   at : {"sent", "checked", "refused", "stored", "list", "listed", "resolved", "looked"},
   shown : SUBSET Devs, late : BOOLEAN, pools : [Pools -> PoolRecs]]
PoolPage ==
  [pool : Pools \cup {NoPool}, dirty : BOOLEAN, sel : Selectors,
   name : Names \cup {"none"}, pools : [Pools -> PoolRecs],
   seen : [pool : Pools \cup {NoPool}, sel : Selectors]]
Pending == {r \in areqs : r.kind = "run" /\ r.at \in {"sent", "resolved", "looked"}}

\* An id is that of one pool for ever.
Made(made, pools) == \A p \in Pools : pools[p] # Gone => p <= made

\* Devices run what was created; schedules and requests for one are counted by the
\* clicks they took.
ServerWell ==
  /\ adevs \subseteq Devs /\ aoff \subseteq Devs /\ abusy = {r.dev : r \in aruns} /\ abusy \subseteq Devs
  /\ aload \in [Devs -> Nat] /\ aacts \in 0..MaxActs
  /\ \A d \in Devs : aload[d] + Cardinality(Pending) <= aacts
  /\ apools \in [Pools -> PoolRecs] /\ amade \in 0..MaxPools /\ Made(amade, apools)
  /\ ahist \in [named : BOOLEAN, mixed : BOOLEAN, asked : BOOLEAN, theirs : SUBSET Pools]
\* What a request can be by now.
RequestWell(made, r) ==
  /\ r \in Asked /\ r.pool <= made /\ Made(made, r.pools)
  /\ r.kind = "pool" => /\ r.name \in Names /\ r.sel \in Selectors
                        /\ r.at \in {"sent", "checked", "refused", "stored", "list", "listed"}
  /\ r.kind = "drop" => /\ r.pool # NoPool
                        /\ r.at \in {"sent", "refused", "stored", "list", "listed"}
  /\ r.kind = "run" => r.at \in {"sent", "refused", "resolved", "looked", "stored"}
  /\ r.kind = "preview" => r.at = "sent" /\ r.by = "page" /\ r.sel \in Selectors
  /\ r.by = "other" => r.at \notin {"list", "listed"}
  /\ r.by = "other" /\ r.kind = "run" => r.pool = NoPool
\* The page saves one pool at a time, and edits one that its list has.
RequestsWell ==
  /\ IsFiniteSet(areqs) /\ \A r \in areqs : RequestWell(amade, r)
  /\ \A r1, r2 \in OfPage("pool") : r1 = r2
PoolPageWell ==
  /\ apage \in PoolPage /\ apage.pool <= amade /\ Made(amade, apage.pools)
  /\ apage.pool # NoPool => apage.pools[apage.pool] # Gone

\* A name that was looked up is free until it is stored, and one request's.
Looking(r) == r.kind = "pool" /\ r.at = "checked"
NamesApart ==
  ~ahist.named =>
    /\ \A p, q \in Pools : p # q /\ apools[p] # Gone => apools[p].name # apools[q].name
    /\ \A r \in areqs, p \in Pools :
         Looking(r) /\ p # r.pool /\ apools[p] # Gone => apools[p].name # r.name
    /\ \A r1, r2 \in areqs : Looking(r1) /\ Looking(r2) /\ r1 # r2 => r1.name # r2.name

\* The device that was looked up is idle until another request gets one.
Spread ==
  /\ ASpread
  /\ \A r \in areqs : r.kind = "run" /\ r.at = "looked" /\ ~r.late => r.sel \cap abusy = {}

\* What the page has of the pools is what the server has, but for a save on its way,
\* and for the pools that were theirs since, another client's.
KnownAs(theirs, server, pools) ==
  \A p \in Pools \ theirs : pools[p] # Gone => server[p] \in {Gone, pools[p]}
Same(theirs, server, pool, sel) ==
  pool # NoPool => pool \in theirs \/ server[pool] = Gone \/ server[pool].sel = sel
RunShown(theirs, server, r) ==
  /\ r.at = "sent" =>
       Same(theirs, server, r.pool, r.shown) /\ (r.pool = NoPool => r.sel = r.shown)
  /\ r.at \in {"resolved", "looked"} => r.sel \subseteq r.shown \/ r.pool \in theirs
Unsaved == {"sent", "checked", "refused"}
Settled == \A r \in OfPage("pool") : r.at \in Unsaved
RequestsShown ==
  ~ahist.mixed =>
    /\ OfPage("pool") = {} \/ (OfPage("drop") = {} /\ OfPage("run") = {})
    /\ \A r \in areqs : r.at = "listed" => KnownAs(ahist.theirs, apools, r.pools)
    /\ \A r \in areqs : r.kind = "run" => RunShown(ahist.theirs, apools, r)
PageShown ==
  ~ahist.mixed /\ Settled =>
    KnownAs(ahist.theirs, apools, apage.pools) /\ (~apage.dirty => Same(ahist.theirs, apools, apage.pool, apage.sel))

\* The last preview is of what the page shows, or a list comes first.
Fits(page, seen) == seen.sel = page.sel /\ seen.pool \in {NoPool, page.pool}
Listing == \E r \in areqs : r.at \in {"list", "listed"}
PreviewsFit ==
  \/ ahist.asked \/ Listing
  \/ /\ \A r \in areqs : r.kind = "preview" => Fits(apage, r)
     /\ ~Previewing(areqs) => Fits(apage, apage.seen)

\* The inductive invariant.
AInv ==
  /\ ServerWell /\ RequestsWell /\ PoolPageWell /\ NamesApart /\ Spread
  /\ RequestsShown /\ PageShown /\ PreviewsFit

LEMMA PoolsSafe == AInv => ASafe
<1> SUFFICES ASSUME AInv PROVE ASafe
  OBVIOUS
<1>1. ATypeOK
  <2>1. Cardinality(OfPage("pool")) <= 1
    <3>1. CASE OfPage("pool") = {}  BY <3>1, FS_EmptySet
    <3>2. CASE OfPage("pool") # {}
      <4>1. PICK r : OfPage("pool") = {r}  BY <3>2 DEF AInv, RequestsWell
      <4>2. Cardinality({r}) = 1  BY FS_Singleton
      <4> QED  BY <4>1, <4>2
    <3> QED  BY <3>1, <3>2
  <2>2. Cardinality(Pending) \in Nat
    <3>1. Pending \in SUBSET areqs /\ IsFiniteSet(areqs)  BY DEF Pending, AInv, RequestsWell
    <3> QED  BY <3>1, FS_Subset, FS_CardinalityType
  <2>3. \A d \in Devs : aload[d] \in 0..MaxActs  BY <2>2 DEF AInv, ServerWell
  <2>4. aload \in [Devs -> 0..MaxActs]  BY <2>3 DEF AInv, ServerWell
  <2>5. apools \in [Pools -> [name : Names \cup {"none"}, sel : SUBSET Devs]]
    BY DEF AInv, ServerWell, PoolRecs, Gone, Selectors
  <2> QED
    BY <2>1, <2>4, <2>5 DEF AInv, ServerWell, PoolPageWell, PoolPage, ATypeOK
<1>2. AUniqueNames  BY DEF AInv, NamesApart, AUniqueNames
<1>3. ASpread  BY DEF AInv, Spread
<1>4. ARunsShown  BY DEF AInv, RequestsShown, RunShown, ARunsShown
<1>5. APreviewShown
  <2> SUFFICES ASSUME \A r \in areqs : r.kind = "run" \/ r.by = "other", ~ahist.asked
               PROVE  Fits(apage, apage.seen)
    BY DEF APreviewShown, Fits
  <2>1. ~Listing  BY DEF AInv, RequestsWell, RequestWell, Listing
  <2>2. ~Previewing(areqs)  BY DEF AInv, RequestsWell, RequestWell, Previewing
  <2> QED  BY <2>1, <2>2 DEF AInv, PreviewsFit
<1> QED  BY <1>1, <1>2, <1>3, <1>4, <1>5 DEF ASafe

LEMMA GoneIs == Gone \in PoolRecs /\ Gone.sel = {} /\ \A r \in PoolRecs : r # Gone =>
                  r.name \in Names /\ r.sel \in Selectors /\ r.name # Gone.name
BY DEF Gone, PoolRecs

LEMMA AInitHolds == AInit => AInv
<1> SUFFICES ASSUME AInit PROVE AInv
  OBVIOUS
<1>1. PICK first \in {Gone} \cup [name : Names, sel : Selectors] :
        /\ apools = [p \in Pools |-> IF p = 1 THEN first ELSE Gone]
        /\ amade = IF first = Gone THEN 0 ELSE 1
  BY DEF AInit
<1>2. PICK s \in Selectors :
        apage = [pool |-> NoPool, dirty |-> FALSE, sel |-> s, name |-> "none",
                 pools |-> apools, seen |-> [pool |-> NoPool, sel |-> s]]
  BY DEF AInit
<1>3. /\ areqs = {} /\ aruns = {} /\ adevs = Devs /\ aoff = {} /\ abusy = {} /\ aacts = 0
      /\ aload = [d \in Devs |-> 0]
      /\ ahist = [named |-> FALSE, mixed |-> FALSE, asked |-> FALSE, theirs |-> {}]
  BY DEF AInit
<1>4. apools \in [Pools -> PoolRecs] /\ \A p \in Pools : p # 1 => apools[p] = Gone
  BY <1>1 DEF PoolRecs
<1>5. Made(amade, apools) /\ amade \in 0..MaxPools
  BY <1>1, <1>4 DEF Made, Pools
<1>6. Pending = {} /\ Cardinality(Pending) = 0 /\ IsFiniteSet(areqs)
  BY <1>3, FS_EmptySet DEF Pending
<1>7. ServerWell
  BY <1>3, <1>4, <1>5, <1>6 DEF ServerWell
<1>8. RequestsWell
  BY <1>3, <1>6 DEF RequestsWell, OfPage
<1>9. PoolPageWell
  <2>1. apage \in PoolPage  BY <1>2, <1>4 DEF PoolPage
  <2> QED  BY <1>2, <1>5, <2>1 DEF PoolPageWell, NoPool
<1>10. NamesApart
  <2>1. \A p, q \in Pools : p # q /\ apools[p] # Gone => apools[p].name # apools[q].name
    BY <1>4, GoneIs
  <2> QED  BY <1>3, <2>1 DEF NamesApart
<1>11. Spread  BY <1>3 DEF Spread, ASpread
<1>12. RequestsShown  BY <1>3 DEF RequestsShown, OfPage
<1>13. PageShown  BY <1>2 DEF PageShown, KnownAs, Same, NoPool
<1>14. PreviewsFit  BY <1>2, <1>3 DEF PreviewsFit, Fits
<1> QED
  BY <1>7, <1>8, <1>9, <1>10, <1>11, <1>12, <1>13, <1>14 DEF AInv

-----------------------------------------------------------------------------
(* What a step leaves alone.                                                *)

\* Requests come, go and become what they may.
LEMMA PendingCounts ==
  ASSUME AInv, NEW d \in Devs
  PROVE  /\ IsFiniteSet(Pending) /\ Cardinality(Pending) \in Nat
         /\ aload[d] \in Nat /\ aload[d] + Cardinality(Pending) <= aacts
<1>1. Pending \in SUBSET areqs /\ IsFiniteSet(areqs)  BY DEF Pending, AInv, RequestsWell
<1> QED  BY <1>1, FS_Subset, FS_CardinalityType DEF AInv, ServerWell

LEMMA RequestMoves ==
  ASSUME AInv, NEW req \in areqs, NEW next, areqs' = (areqs \ {req}) \cup {next},
         amade <= amade', amade' \in 0..MaxPools, RequestWell(amade', next),
         next.by = "page" /\ next.kind = "pool" => req.by = "page" /\ req.kind = "pool",
         next.kind = "run" /\ next.at \in {"sent", "resolved", "looked"} =>
           req.kind = "run" /\ req.at \in {"sent", "resolved", "looked"}
  PROVE  RequestsWell' /\ Cardinality(Pending') <= Cardinality(Pending)
<1>0. /\ amade \in Nat /\ amade' \in Nat /\ Pools \subseteq Nat /\ NoPool \in Nat
      /\ \A r \in areqs : RequestWell(amade, r)
  BY DEF AInv, ServerWell, RequestsWell, Pools, NoPool
<1>1. ASSUME NEW r \in areqs PROVE RequestWell(amade', r)
  <2>1. RequestWell(amade, r) /\ r.pool \in Nat  BY <1>0 DEF RequestWell, Asked
  <2>2. r.pool <= amade'  BY <1>0, <2>1 DEF RequestWell
  <2>3. Made(amade', r.pools)  BY <1>0, <2>1 DEF RequestWell, Made
  <2> QED  BY <2>1, <2>2, <2>3 DEF RequestWell
<1>2. IsFiniteSet(areqs')  BY FS_AddElement, FS_RemoveElement DEF AInv, RequestsWell
<1>3. RequestsWell'  BY <1>1, <1>2 DEF AInv, RequestsWell, OfPage
<1>4. Cardinality(Pending') <= Cardinality(Pending)
  <2>0. IsFiniteSet(Pending) /\ Cardinality(Pending) \in Nat
    <3>1. Pending \in SUBSET areqs  BY DEF Pending
    <3> QED  BY <3>1, FS_Subset, FS_CardinalityType DEF AInv, RequestsWell
  <2>1. CASE req \in Pending
    <3> DEFINE some == (Pending \ {req}) \cup {next}
    <3>1. IsFiniteSet(Pending \ {req}) /\ Cardinality(Pending \ {req}) = Cardinality(Pending) - 1
      BY <2>0, <2>1, FS_RemoveElement
    <3>2. IsFiniteSet(some) /\ Cardinality(some) <= Cardinality(Pending)
      <4> DEFINE rest == Pending \ {req}
      <4>1. IsFiniteSet(rest) /\ Cardinality(rest) = Cardinality(Pending) - 1  BY <3>1
      <4> HIDE DEF rest
      <4>2. /\ IsFiniteSet(rest \cup {next})
            /\ Cardinality(rest \cup {next}) =
                 IF next \in rest THEN Cardinality(rest) ELSE Cardinality(rest) + 1
        BY <4>1, FS_AddElement
      <4>3. Cardinality(rest \cup {next}) <= Cardinality(Pending)  BY <2>0, <4>1, <4>2
      <4> QED  BY <4>2, <4>3 DEF rest
    <3>3. Pending' \in SUBSET some  BY DEF Pending
    <3> HIDE DEF some
    <3>4. Cardinality(Pending') <= Cardinality(some)  BY <3>2, <3>3, FS_Subset
    <3>5. Cardinality(some) \in Nat /\ Cardinality(Pending') \in Nat
      BY <3>2, <3>3, FS_Subset, FS_CardinalityType
    <3> QED  BY <2>0, <3>2, <3>4, <3>5
  <2>2. CASE req \notin Pending
    <3>1. Pending' \in SUBSET Pending  BY <2>2 DEF Pending
    <3> QED  BY <2>0, <3>1, FS_Subset
  <2> QED  BY <2>1, <2>2
<1> QED  BY <1>3, <1>4

LEMMA RequestComes ==
  ASSUME AInv, NEW next, areqs' = areqs \cup {next}, amade' = amade,
         RequestWell(amade, next),
         next.by = "page" /\ next.kind = "pool" => OfPage("pool") = {}
  PROVE  /\ RequestsWell' /\ Cardinality(Pending') <= Cardinality(Pending) + 1
         /\ next.kind # "run" => Cardinality(Pending') <= Cardinality(Pending)
<1>1. IsFiniteSet(areqs')  BY FS_AddElement DEF AInv, RequestsWell
<1>2. RequestsWell'  BY <1>1 DEF AInv, RequestsWell, OfPage
<1>3. IsFiniteSet(Pending) /\ Cardinality(Pending) \in Nat
  <2>1. Pending \in SUBSET areqs  BY DEF Pending
  <2> QED  BY <2>1, FS_Subset, FS_CardinalityType DEF AInv, RequestsWell
<1>4. Cardinality(Pending') <= Cardinality(Pending) + 1
  <2> DEFINE some == Pending \cup {next}
  <2>1. IsFiniteSet(some) /\ Cardinality(some) <= Cardinality(Pending) + 1
    BY <1>3, FS_AddElement
  <2>2. Pending' \in SUBSET some  BY DEF Pending
  <2> HIDE DEF some
  <2>3. Cardinality(Pending') <= Cardinality(some)  BY <2>1, <2>2, FS_Subset
  <2>4. Cardinality(some) \in Nat /\ Cardinality(Pending') \in Nat
    BY <2>1, <2>2, FS_Subset, FS_CardinalityType
  <2> QED  BY <1>3, <2>1, <2>3, <2>4
<1>5. next.kind # "run" => Cardinality(Pending') <= Cardinality(Pending)
  <2> SUFFICES ASSUME next.kind # "run" PROVE Cardinality(Pending') <= Cardinality(Pending)
    OBVIOUS
  <2>1. Pending' = Pending  BY DEF Pending
  <2> QED  BY <1>3, <2>1
<1> QED  BY <1>2, <1>4, <1>5

LEMMA RequestGoes ==
  ASSUME AInv, NEW req \in areqs, areqs' = areqs \ {req}, amade' = amade
  PROVE  RequestsWell' /\ Cardinality(Pending') <= Cardinality(Pending)
<1>1. IsFiniteSet(areqs')  BY FS_RemoveElement DEF AInv, RequestsWell
<1>2. RequestsWell'  BY <1>1 DEF AInv, RequestsWell, OfPage
<1>3. Pending' \in SUBSET Pending  BY DEF Pending
<1>4. IsFiniteSet(Pending)
  <2>1. Pending \in SUBSET areqs  BY DEF Pending
  <2> QED  BY <2>1, FS_Subset DEF AInv, RequestsWell
<1> QED  BY <1>2, <1>3, <1>4, FS_Subset

\* The server, where only requests change.
LEMMA ServerStays ==
  ASSUME AInv, UNCHANGED <<adevs, aoff, abusy, aload, apools, amade, aruns>>,
         IsFiniteSet(Pending'),
         \/ Cardinality(Pending') <= Cardinality(Pending) /\ aacts' = aacts
         \/ /\ Cardinality(Pending') <= Cardinality(Pending) + 1
            /\ aacts' = aacts + 1 /\ aacts < MaxActs,
         ahist' \in [named : BOOLEAN, mixed : BOOLEAN, asked : BOOLEAN, theirs : SUBSET Pools]
  PROVE  ServerWell'
<1>1. ASSUME NEW d \in Devs PROVE aload'[d] + Cardinality(Pending') <= aacts'
  <2>1. Cardinality(Pending) \in Nat /\ Cardinality(Pending') \in Nat /\ aload[d] \in Nat
        /\ aload[d] + Cardinality(Pending) <= aacts /\ aacts \in Nat
    BY PendingCounts, FS_CardinalityType DEF AInv, ServerWell
  <2> QED  BY <2>1
<1>2. aacts' \in 0..MaxActs  BY DEF AInv, ServerWell
<1> QED  BY <1>1, <1>2 DEF AInv, ServerWell, Made

LEMMA PendingFinite == RequestsWell' => IsFiniteSet(Pending')
<1>1. Pending' \in SUBSET areqs'  BY DEF Pending
<1> QED  BY <1>1, FS_Subset DEF RequestsWell

\* Pools are deleted, or made with an id of their own, or stored by another client.
NoneChanged ==
  /\ ahist.theirs \subseteq ahist'.theirs
  /\ \A p \in Pools : p <= amade => apools'[p] \in {Gone, apools[p]} \/ p \in ahist'.theirs

LEMMA RequestsShownStay ==
  ASSUME AInv, NoneChanged, ahist.mixed => ahist'.mixed,
         \A r \in areqs' :
           \/ r \in areqs
           \/ /\ r.by = "page" /\ r.kind # "preview" =>
                   \E q \in areqs : q.by = "page" /\ q.kind = r.kind
              /\ r.at = "listed" /\ ~ahist.mixed => KnownAs(ahist'.theirs, apools', r.pools)
              /\ r.kind = "run" /\ ~ahist.mixed => RunShown(ahist'.theirs, apools', r)
  PROVE  RequestsShown'
<1> SUFFICES ASSUME ~ahist.mixed PROVE RequestsShown'
  BY DEF RequestsShown
<1>1. /\ OfPage("pool") = {} \/ (OfPage("drop") = {} /\ OfPage("run") = {})
      /\ \A r \in areqs : r.at = "listed" => KnownAs(ahist.theirs, apools, r.pools)
      /\ \A r \in areqs : r.kind = "run" => RunShown(ahist.theirs, apools, r)
      /\ \A r \in areqs : RequestWell(amade, r)
  BY DEF AInv, RequestsShown, RequestsWell
<1>2. (OfPage("pool") = {} \/ (OfPage("drop") = {} /\ OfPage("run") = {}))'
  BY <1>1 DEF OfPage
<1>3. ASSUME NEW r \in areqs PROVE /\ r.at = "listed" => KnownAs(ahist'.theirs, apools', r.pools)
                                   /\ r.kind = "run" => RunShown(ahist'.theirs, apools', r)
  <2>1. r.at = "listed" => KnownAs(ahist'.theirs, apools', r.pools)
    BY <1>1, <1>3 DEF NoneChanged, KnownAs, RequestWell, Made
  <2>2. r.pool # NoPool => r.pool \in Pools /\ r.pool <= amade
    BY <1>1, <1>3 DEF RequestWell, Asked
  <2>3. r.kind = "run" => RunShown(ahist'.theirs, apools', r)
    BY <1>1, <1>3, <2>2, GoneIs DEF NoneChanged, RunShown, Same
  <2> QED  BY <2>1, <2>3
<1> QED  BY <1>2, <1>3 DEF RequestsShown

LEMMA PageShownStays ==
  ASSUME AInv, NoneChanged, ahist.mixed => ahist'.mixed,
         Settled' => Settled \/ ahist'.mixed,
         apage'.pools = apage.pools, apage'.dirty = apage.dirty \/ apage'.dirty,
         apage'.pool \in {apage.pool, NoPool}, apage'.sel = apage.sel
  PROVE  PageShown'
<1> SUFFICES ASSUME ~ahist'.mixed, Settled'
             PROVE  /\ KnownAs(ahist'.theirs, apools', apage'.pools)
                    /\ ~apage'.dirty => Same(ahist'.theirs, apools', apage'.pool, apage'.sel)
  BY DEF PageShown
<1>1. /\ KnownAs(ahist.theirs, apools, apage.pools)
      /\ ~apage.dirty => Same(ahist.theirs, apools, apage.pool, apage.sel)
      /\ Made(amade, apage.pools) /\ apage.pool <= amade /\ apage \in PoolPage
  BY DEF AInv, PageShown, PoolPageWell
<1>2. KnownAs(ahist'.theirs, apools', apage'.pools)  BY <1>1 DEF KnownAs, NoneChanged, Made
<1>3. ~apage'.dirty => Same(ahist'.theirs, apools', apage'.pool, apage'.sel)
  BY <1>1 DEF Same, NoneChanged, PoolPage
<1> QED  BY <1>2, <1>3

LEMMA PreviewsStay ==
  ASSUME AInv, ahist.asked => ahist'.asked, Listing => Listing' \/ ahist'.asked,
         apage'.pool = apage.pool, apage'.sel = apage.sel, apage'.seen = apage.seen,
         \A r \in areqs' : r.kind = "preview" => r \in areqs,
         Previewing(areqs) => Previewing(areqs') \/ ahist'.asked
  PROVE  PreviewsFit'
BY DEF AInv, PreviewsFit, Fits, Previewing

LEMMA NamesStay ==
  ASSUME AInv, ahist.named => ahist'.named,
         \A p \in Pools : apools'[p] \in {Gone, apools[p]},
         \A r \in areqs' : Looking(r) => r \in areqs
  PROVE  NamesApart'
<1> SUFFICES ASSUME ~ahist.named PROVE NamesApart'
  BY DEF NamesApart
<1>1. apools \in [Pools -> PoolRecs]  BY DEF AInv, ServerWell
<1> QED  BY <1>1, GoneIs DEF AInv, NamesApart

LEMMA SpreadStays ==
  ASSUME AInv, aruns' = aruns, abusy' = abusy,
         \A r \in areqs' : r.kind = "run" /\ r.at = "looked" =>
                            r \in areqs \/ r.sel \cap abusy = {}
  PROVE  Spread'
BY DEF AInv, Spread, ASpread

-----------------------------------------------------------------------------
(* The server's steps.                                                      *)

\* A request that takes a step, and nothing else does.
LEMMA StepKeeps ==
  ASSUME AInv, NEW req \in areqs, NEW next,
         areqs' = (areqs \ {req}) \cup {next}, RequestWell(amade, next),
         next.kind = req.kind, next.by = req.by, next.kind # "preview",
         req.at \in {"list", "listed"} => next.at \in {"list", "listed"},
         ~Looking(next),
         next.kind = "run" => req.at \in {"sent", "resolved", "looked"},
         next.kind = "run" /\ next.at = "looked" => next.sel \cap abusy = {},
         req.kind = "pool" => req.at \in Unsaved \/ next.at \notin Unsaved,
         next.at = "listed" /\ ~ahist.mixed => KnownAs(ahist.theirs, apools, next.pools),
         next.kind = "run" /\ ~ahist.mixed => RunShown(ahist.theirs, apools, next),
         Stays
  PROVE  AInv'
<1>1. RequestsWell' /\ Cardinality(Pending') <= Cardinality(Pending)
  BY RequestMoves DEF AInv, ServerWell, Stays
<1>2. ServerWell'  BY <1>1, PendingFinite, ServerStays DEF Stays, Others, AInv, ServerWell
<1>3. PoolPageWell'  BY DEF Stays, AInv, PoolPageWell, Made
<1>4. NamesApart'  BY NamesStay DEF Stays
<1>5. Spread'  BY SpreadStays DEF Stays, Others
<1>6. NoneChanged  BY DEF NoneChanged, Stays
<1>7. RequestsShown'
  BY <1>6, RequestsShownStay DEF Stays
<1>8. PageShown'
  <2>1. Settled' => Settled  BY DEF Settled, OfPage
  <2> QED  BY <1>6, <2>1, PageShownStays DEF Stays
<1>9. PreviewsFit'
  <2>1. Listing => Listing'  BY DEF Listing
  <2>2. Previewing(areqs) => Previewing(areqs')  BY DEF Previewing
  <2> QED  BY <2>1, <2>2, PreviewsStay DEF Stays
<1> QED  BY <1>1, <1>2, <1>3, <1>4, <1>5, <1>7, <1>8, <1>9 DEF AInv

LEMMA AResolvesKeeps ==
  ASSUME AInv, NEW req \in areqs, AResolves(req)
  PROVE  AInv'
<1> DEFINE sel == IF req.pool = NoPool THEN req.sel ELSE apools[req.pool].sel
           a == IF sel = {} THEN "refused" ELSE "resolved"
           next == [req EXCEPT !.sel = sel, !.at = a]
<1>0. /\ req.kind = "run" /\ req.at = "sent" /\ Stays /\ RequestWell(amade, req)
      /\ areqs' = (areqs \ {req}) \cup {next}
  BY DEF AResolves, Moves, AInv, RequestsWell
<1>1. sel \in SUBSET Devs
  BY <1>0, GoneIs DEF RequestWell, Asked, AInv, ServerWell, Selectors
<1>2. ~ahist.mixed => sel \subseteq req.shown \/ req.pool \in ahist.theirs
  BY <1>0, GoneIs DEF AInv, RequestsShown, RunShown, Same, RequestWell, Asked
<1>3. a \in {"refused", "resolved"}  OBVIOUS
<1> HIDE DEF sel, a
<1>4. /\ next \in Asked /\ next.kind = "run" /\ next.by = req.by /\ next.at = a
      /\ next.sel = sel /\ next.shown = req.shown /\ next.pool = req.pool
      /\ next.pools = req.pools
  BY <1>0, <1>1, <1>3 DEF RequestWell, Asked
<1> HIDE DEF next
<1>5. RequestWell(amade, next)  BY <1>0, <1>3, <1>4 DEF RequestWell
<1>6. ~ahist.mixed => RunShown(ahist.theirs, apools, next)  BY <1>2, <1>3, <1>4 DEF RunShown
<1> QED  BY <1>0, <1>3, <1>4, <1>5, <1>6, StepKeeps DEF Looking, Unsaved

LEMMA ALooksKeeps ==
  ASSUME AInv, NEW req \in areqs, ALooks(req)
  PROVE  AInv'
<1>0. /\ req.kind = "run" /\ req.at = "resolved" /\ Stays /\ RequestWell(amade, req)
      /\ ~ahist.mixed => req.sel \subseteq req.shown \/ req.pool \in ahist.theirs
  BY DEF ALooks, AInv, RequestsWell, RequestsShown, RunShown
<1>1. ASSUME NEW next, areqs' = (areqs \ {req}) \cup {next},
             \/ next = [req EXCEPT !.at = "refused"]
             \/ \E d \in Candidates(req.sel) : next = [req EXCEPT !.at = "looked", !.sel = {d}]
      PROVE  AInv'
  <2>1. /\ next \in Asked /\ next.kind = "run" /\ next.by = req.by
        /\ next.at \in {"refused", "looked"} /\ next.pool = req.pool
        /\ next.pools = req.pools /\ next.sel \subseteq req.sel /\ next.shown = req.shown
        /\ next.at = "looked" => next.sel \cap abusy = {}
    <3>0. req \in Asked  BY <1>0 DEF RequestWell
    <3>1. CASE next = [req EXCEPT !.at = "refused"]
      BY <1>0, <3>0, <3>1 DEF Asked
    <3>2. ASSUME NEW d \in Candidates(req.sel), next = [req EXCEPT !.at = "looked", !.sel = {d}]
          PROVE  /\ next \in Asked /\ next.kind = "run" /\ next.by = req.by
                 /\ next.at \in {"refused", "looked"} /\ next.pool = req.pool
                 /\ next.pools = req.pools /\ next.sel \subseteq req.sel /\ next.shown = req.shown
                 /\ next.at = "looked" => next.sel \cap abusy = {}
      <4>1. d \in req.sel /\ d \notin abusy  BY DEF Candidates
      <4>2. {d} \in SUBSET Devs /\ {d} \cap abusy = {}  BY <3>0, <4>1 DEF Asked
      <4> QED  BY <1>0, <3>0, <3>2, <4>1, <4>2 DEF Asked
    <3> QED  BY <1>1, <3>1, <3>2
  <2>2. RequestWell(amade, next)  BY <1>0, <2>1 DEF RequestWell
  <2>3. ~ahist.mixed => RunShown(ahist.theirs, apools, next)  BY <1>0, <2>1 DEF RunShown
  <2>4. /\ ~Looking(next) /\ req.at \notin {"list", "listed"} /\ next.at # "listed"
    BY <1>0, <2>1 DEF Looking
  <2> QED
    BY <1>0, <1>1, <2>1, <2>2, <2>3, <2>4, StepKeeps
<1> QED  BY <1>0, <1>1 DEF ALooks, Moves

LEMMA AReadsKeeps ==
  ASSUME AInv, NEW req \in areqs, AReads(req)
  PROVE  AInv'
<1> DEFINE next == [req EXCEPT !.at = "listed", !.pools = apools]
<1>0. /\ req.at = "list" /\ Stays /\ RequestWell(amade, req) /\ req.kind \in {"pool", "drop"}
      /\ areqs' = (areqs \ {req}) \cup {next}
  BY DEF AReads, Moves, AInv, RequestsWell, RequestWell, Asked
<1>1. apools \in [Pools -> PoolRecs] /\ Made(amade, apools)  BY DEF AInv, ServerWell
<1>2. /\ next \in Asked /\ next.kind = req.kind /\ next.by = req.by /\ next.at = "listed"
      /\ next.pool = req.pool /\ next.pools = apools /\ next.name = req.name
      /\ next.sel = req.sel
  BY <1>0, <1>1 DEF RequestWell, Asked
<1> HIDE DEF next
<1>3. RequestWell(amade, next)  BY <1>0, <1>1, <1>2 DEF RequestWell
<1>4. KnownAs(ahist.theirs, apools, next.pools)  BY <1>2 DEF KnownAs
<1> QED  BY <1>0, <1>2, <1>3, <1>4, StepKeeps DEF Looking, Unsaved

LEMMA AChecksKeeps ==
  ASSUME AInv, NEW req \in areqs, AChecks(req)
  PROVE  AInv'
<1> DEFINE a == IF NameTaken(req) THEN "refused" ELSE "checked"
           next == [req EXCEPT !.at = a]
           met == \E r \in areqs \ {req} :
                    r.kind = "pool" /\ r.at = "checked" /\ r.name = req.name
<1>0. /\ req.kind = "pool" /\ req.at = "sent" /\ RequestWell(amade, req)
      /\ areqs' = (areqs \ {req}) \cup {next}
      /\ ahist' = [ahist EXCEPT !.named = ahist.named \/ met]
      /\ UNCHANGED <<Others, apools, amade, apage>>
  BY DEF AChecks, Moves, AInv, RequestsWell
<1>1. a \in {"refused", "checked"} /\ (a = "checked" => ~NameTaken(req))  OBVIOUS
<1>2. met \in BOOLEAN  OBVIOUS
<1>3. met <=> \E r \in areqs \ {req} : Looking(r) /\ r.name = req.name  BY DEF Looking
<1> HIDE DEF a, met
<1>4. /\ next \in Asked /\ next.kind = "pool" /\ next.by = req.by /\ next.at = a
      /\ next.pool = req.pool /\ next.pools = req.pools /\ next.name = req.name
      /\ next.sel = req.sel
  BY <1>0, <1>1 DEF RequestWell, Asked
<1> HIDE DEF next
<1>5. RequestWell(amade, next)  BY <1>0, <1>1, <1>4 DEF RequestWell
<1>6. ahist \in [named : BOOLEAN, mixed : BOOLEAN, asked : BOOLEAN, theirs : SUBSET Pools]
  BY DEF AInv, ServerWell
<1>7. /\ ahist' \in [named : BOOLEAN, mixed : BOOLEAN, asked : BOOLEAN, theirs : SUBSET Pools]
      /\ ahist'.named = (ahist.named \/ met)
      /\ ahist'.mixed = ahist.mixed /\ ahist'.asked = ahist.asked
      /\ ahist'.theirs = ahist.theirs
  BY <1>0, <1>2, <1>6
<1>8. RequestsWell' /\ Cardinality(Pending') <= Cardinality(Pending)
  BY <1>0, <1>4, <1>5, RequestMoves DEF AInv, ServerWell
<1>9. ServerWell'
  BY <1>0, <1>7, <1>8, PendingFinite, ServerStays DEF Others
<1>10. PoolPageWell'  BY <1>0 DEF AInv, PoolPageWell, Made
<1>11. NamesApart'
  <2> SUFFICES ASSUME ~ahist.named, ~met PROVE NamesApart'
    BY <1>7 DEF NamesApart
  <2>1. \A p \in Pools : Looking(next) /\ p # next.pool => apools[p].name # next.name
    BY <1>1, <1>4 DEF Looking, NameTaken
  <2>2. \A r \in areqs' : r = next \/ (r \in areqs \ {req})  BY <1>0
  <2>3. \A r1, r2 \in areqs' : Looking(r1) /\ Looking(r2) /\ r1 # r2 => r1.name # r2.name
    BY <1>3, <1>4, <2>2 DEF AInv, NamesApart
  <2>4. \A r \in areqs', p \in Pools :
          Looking(r) /\ p # r.pool /\ apools[p] # Gone => apools[p].name # r.name
    BY <2>1, <2>2 DEF AInv, NamesApart
  <2> QED  BY <1>0, <2>3, <2>4 DEF AInv, NamesApart
<1>12. Spread'  BY <1>0, <1>4, SpreadStays DEF Others
<1>13. NoneChanged  BY <1>0, <1>7 DEF NoneChanged
<1>14. RequestsShown'
  BY <1>0, <1>1, <1>4, <1>7, <1>13, RequestsShownStay
<1>15. PageShown'
  <2>1. Settled' => Settled  BY <1>0 DEF Settled, OfPage, Unsaved
  <2> QED  BY <1>0, <1>7, <1>13, <2>1, PageShownStays
<1>16. PreviewsFit'
  <2>1. Listing => Listing'  BY <1>0 DEF Listing
  <2>2. Previewing(areqs) => Previewing(areqs')  BY <1>0 DEF Previewing
  <2> QED  BY <1>0, <1>4, <1>7, <2>1, <2>2, PreviewsStay
<1> QED
  BY <1>8, <1>9, <1>10, <1>11, <1>12, <1>14, <1>15, <1>16 DEF AInv

LEMMA AStoresKeeps ==
  ASSUME AInv, NEW req \in areqs, AStores(req)
  PROVE  AInv'
<1> DEFINE new == req.pool = NoPool
           p == IF new THEN amade + 1 ELSE req.pool
           rec == IF ~new /\ apools[p] = Gone THEN Gone ELSE [name |-> req.name, sel |-> req.sel]
           a == IF rec = Gone THEN "refused" ELSE "stored"
           next == [req EXCEPT !.pool = p, !.at = a]
           t == IF req.by = "other" /\ rec # Gone THEN ahist.theirs \cup {p} ELSE ahist.theirs
<1>10. ASSUME areqs' = (areqs \ {req}) \cup {[req EXCEPT !.at = "refused"]},
              UNCHANGED <<Others, apools, amade, apage, ahist>>
       PROVE  AInv'
  <2> DEFINE no == [req EXCEPT !.at = "refused"]
  <2>0. req.kind = "pool" /\ req.at = "checked" /\ RequestWell(amade, req) /\ req \in Asked
    BY DEF AStores, AInv, RequestsWell, RequestWell
  <2>1. /\ no \in Asked /\ no.kind = "pool" /\ no.by = req.by /\ no.at = "refused"
        /\ no.pool = req.pool /\ no.pools = req.pools /\ no.name = req.name /\ no.sel = req.sel
    BY <2>0 DEF Asked
  <2> HIDE DEF no
  <2>2. RequestWell(amade, no)  BY <2>0, <2>1 DEF RequestWell
  <2>3. Stays /\ areqs' = (areqs \ {req}) \cup {no}  BY <1>10 DEF Stays, no
  <2> QED  BY <2>0, <2>1, <2>2, <2>3, StepKeeps DEF Looking, Unsaved
<1>11. SUFFICES ASSUME
         /\ p \in Pools /\ apools' = [apools EXCEPT ![p] = rec]
         /\ amade' = IF new THEN p ELSE amade
         /\ areqs' = (areqs \ {req}) \cup {next}
         /\ ahist' = [ahist EXCEPT !.theirs = t]
       PROVE  AInv'
  BY <1>10 DEF AStores, Moves
<1>0. /\ req.kind = "pool" /\ req.at = "checked" /\ RequestWell(amade, req)
      /\ p \in Pools /\ apools' = [apools EXCEPT ![p] = rec]
      /\ amade' = IF new THEN p ELSE amade
      /\ areqs' = (areqs \ {req}) \cup {next}
      /\ UNCHANGED <<Others, apage>>
      /\ ahist' = [ahist EXCEPT !.theirs = t]
  BY <1>11 DEF AStores, AInv, RequestsWell
<1>1. /\ apools \in [Pools -> PoolRecs] /\ amade \in 0..MaxPools /\ Made(amade, apools)
      /\ ahist \in [named : BOOLEAN, mixed : BOOLEAN, asked : BOOLEAN, theirs : SUBSET Pools]
  BY DEF AInv, ServerWell
<1>2. /\ req.name \in Names /\ req.sel \in Selectors
      /\ [name |-> req.name, sel |-> req.sel] \in PoolRecs
      /\ [name |-> req.name, sel |-> req.sel] # Gone
  BY <1>0 DEF RequestWell, PoolRecs, Gone
<1>3. /\ rec = Gone => ~new /\ apools[p] = Gone
      /\ rec # Gone => rec = [name |-> req.name, sel |-> req.sel]
      /\ rec \in PoolRecs /\ (new => p = amade + 1) /\ (~new => p = req.pool)
  BY <1>2 DEF PoolRecs
<1>4. (a = "refused" <=> rec = Gone) /\ a \in {"refused", "stored"}  OBVIOUS
<1>12. /\ t \in SUBSET Pools /\ ahist.theirs \subseteq t
       /\ req.by # "page" /\ rec # Gone => p \in t
       /\ rec = Gone => t = ahist.theirs
  BY <1>0, <1>1 DEF RequestWell, Asked
<1> HIDE DEF new, rec, a, p, t
<1>13. /\ ahist' \in [named : BOOLEAN, mixed : BOOLEAN, asked : BOOLEAN, theirs : SUBSET Pools]
       /\ ahist'.named = ahist.named /\ ahist'.mixed = ahist.mixed
       /\ ahist'.asked = ahist.asked /\ ahist'.theirs = t
  BY <1>0, <1>1, <1>12
<1>5. /\ next \in Asked /\ next.kind = "pool" /\ next.by = req.by /\ next.at = a
      /\ next.pool = p /\ next.pools = req.pools /\ next.name = req.name
      /\ next.sel = req.sel
  BY <1>0, <1>4 DEF RequestWell, Asked
<1> HIDE DEF next
<1>6. amade <= amade' /\ amade' \in 0..MaxPools /\ p <= amade'
  BY <1>0, <1>1, <1>3 DEF Pools, RequestWell
<1>7. RequestWell(amade', next)
  <2>1. Made(amade', next.pools)  BY <1>0, <1>1, <1>5, <1>6 DEF RequestWell, Made, Pools
  <2>2. next.by = "other" => next.at \notin {"list", "listed", "sent", "checked"}
    BY <1>4, <1>5
  <2> QED  BY <1>0, <1>2, <1>4, <1>5, <1>6, <2>1, <2>2 DEF RequestWell
<1>8. CASE rec = Gone
  <2>1. ahist' = ahist  BY <1>0, <1>1, <1>8, <1>12
  <2>2. Stays  BY <1>0, <1>1, <1>3, <1>8, <2>1 DEF Stays
  <2> QED
    BY <1>0, <1>1, <1>3, <1>4, <1>5, <1>7, <1>8, <2>2, StepKeeps DEF Looking, Unsaved
<1>9. CASE rec # Gone
  <2>1. rec.name = req.name /\ rec # Gone /\ a = "stored"  BY <1>3, <1>4, <1>9
  <2>2. RequestsWell' /\ Cardinality(Pending') <= Cardinality(Pending)
    BY <1>0, <1>5, <1>6, <1>7, RequestMoves
  <2>3. ServerWell'
    <3>1. ASSUME NEW d \in Devs PROVE aload'[d] + Cardinality(Pending') <= aacts'
      <4>1. /\ Cardinality(Pending) \in Nat /\ Cardinality(Pending') \in Nat
            /\ aload[d] \in Nat /\ aload[d] + Cardinality(Pending) <= aacts
            /\ aacts \in Nat
        BY <2>2, PendingCounts, PendingFinite, FS_CardinalityType DEF AInv, ServerWell
      <4> QED  BY <1>0, <2>2, <4>1 DEF Others
    <3>2. apools' \in [Pools -> PoolRecs]  BY <1>0, <1>1, <1>3
    <3>3. Made(amade', apools')  BY <1>0, <1>1, <1>6 DEF Made, Pools
    <3> QED  BY <1>0, <1>6, <1>13, <3>1, <3>2, <3>3 DEF Others, AInv, ServerWell
  <2>4. PoolPageWell'
    <3>1. apage \in PoolPage /\ Made(amade, apage.pools) /\ apage.pool <= amade
      BY DEF AInv, PoolPageWell
    <3>2. Made(amade', apage.pools) /\ apage.pool <= amade'
      BY <1>1, <1>6, <3>1 DEF Made, PoolPage, Pools, NoPool
    <3> QED  BY <1>0, <3>2 DEF AInv, PoolPageWell
  <2>5. NamesApart'
    <3> SUFFICES ASSUME ~ahist.named PROVE NamesApart'
      BY <1>13 DEF NamesApart
    <3>0. /\ \A q, s \in Pools : q # s /\ apools[q] # Gone => apools[q].name # apools[s].name
          /\ \A r \in areqs, q \in Pools :
               Looking(r) /\ q # r.pool /\ apools[q] # Gone => apools[q].name # r.name
          /\ \A r1, r2 \in areqs : Looking(r1) /\ Looking(r2) /\ r1 # r2 => r1.name # r2.name
      BY DEF AInv, NamesApart
    <3>1. Looking(req) /\ ~Looking(next)  BY <1>0, <1>5, <2>1 DEF Looking
    <3>2. \A q \in Pools : q # p => apools'[q] = apools[q]  BY <1>0
    <3>3. apools'[p] = rec  BY <1>0, <1>1
    <3>4. \A q \in Pools : q # p /\ apools[q] # Gone => apools[q].name # rec.name
      <4>1. CASE new
        <5>1. \A q \in Pools : q # req.pool  BY <4>1 DEF new, Pools, NoPool
        <5> QED  BY <2>1, <3>0, <3>1, <5>1
      <4>2. CASE ~new  BY <1>3, <2>1, <3>0, <3>1, <4>2
      <4> QED  BY <4>1, <4>2
    <3>5. \A q, s \in Pools :
            q # s /\ apools'[q] # Gone => apools'[q].name # apools'[s].name
      <4>1. rec \in PoolRecs /\ rec.name \in Names  BY <1>2, <1>3, <2>1
      <4>2. rec.name # Gone.name  BY <4>1 DEF Gone
      <4> QED  BY <2>1, <3>0, <3>2, <3>3, <3>4, <4>2
    <3>6. \A r \in areqs' : Looking(r) => r \in areqs /\ r # req
      BY <1>0, <3>1
    <3>7. \A r \in areqs', q \in Pools :
            Looking(r) /\ q # r.pool /\ apools'[q] # Gone => apools'[q].name # r.name
      BY <2>1, <3>0, <3>1, <3>2, <3>3, <3>6
    <3> QED  BY <3>0, <3>5, <3>6, <3>7 DEF NamesApart
  <2>6. Spread'  BY <1>0, <1>5, SpreadStays DEF Others
  <2>7. RequestsShown' /\ PageShown'
    <3>1. CASE req.by = "page"
      <4>1. req \in OfPage("pool") /\ next \in OfPage("pool")'
        BY <1>0, <1>5, <3>1 DEF OfPage
      <4>2. ~Settled'  BY <1>5, <2>1, <4>1 DEF Settled, Unsaved
      <4>3. PageShown'  BY <4>2 DEF PageShown
      <4>4. RequestsShown'
        <5> SUFFICES ASSUME ~ahist.mixed PROVE RequestsShown'
          BY <1>13 DEF RequestsShown
        <5>1. OfPage("drop") = {} /\ OfPage("run") = {}
              /\ \A r \in areqs : r.kind = "run" => RunShown(ahist.theirs, apools, r)
          BY <4>1 DEF AInv, RequestsShown
        <5>2. \A r \in areqs : RequestWell(amade, r) /\ (r \in OfPage("pool") => r = req)
          BY <4>1 DEF AInv, RequestsWell
        <5>3. \A r \in areqs : r.at = "listed" => r = req
          BY <5>1, <5>2 DEF RequestWell, Asked, OfPage
        <5>4. (OfPage("drop") = {} /\ OfPage("run") = {})'
          BY <1>0, <1>5, <5>1 DEF OfPage
        <5>5. ASSUME NEW r \in areqs, r.kind = "run" PROVE RunShown(ahist'.theirs, apools', r)
          <6>1. r.by = "other" /\ r.pool = NoPool /\ RequestWell(amade, r)
            BY <5>1, <5>2, <5>5 DEF OfPage, RequestWell, Asked
          <6>2. NoPool \notin ahist.theirs  BY <1>1 DEF NoPool, Pools
          <6> QED  BY <5>1, <5>5, <6>1, <6>2 DEF RunShown, Same
        <5> QED  BY <1>0, <1>5, <2>1, <5>3, <5>4, <5>5 DEF RequestsShown
      <4> QED  BY <4>3, <4>4
    <3>2. CASE req.by # "page"
      <4>2. NoneChanged  BY <1>0, <1>1, <1>9, <1>12, <1>13, <3>2 DEF NoneChanged
      <4>3. RequestsShown'  BY <1>0, <1>5, <1>13, <2>1, <3>2, <4>2, RequestsShownStay
      <4>4. Settled' => Settled  BY <1>0, <3>2 DEF Settled, OfPage
      <4>5. PageShown'  BY <1>0, <1>13, <4>2, <4>4, PageShownStays
      <4> QED  BY <4>3, <4>5
    <3> QED  BY <3>1, <3>2
  <2>8. PreviewsFit'
    <3>1. Listing => Listing'  BY <1>0 DEF Listing
    <3>2. Previewing(areqs) => Previewing(areqs')  BY <1>0 DEF Previewing
    <3> QED  BY <1>0, <1>5, <1>13, <3>1, <3>2, PreviewsStay
  <2> QED  BY <2>2, <2>3, <2>4, <2>5, <2>6, <2>7, <2>8 DEF AInv
<1> QED  BY <1>8, <1>9

LEMMA ADropsKeeps ==
  ASSUME AInv, NEW req \in areqs, ADrops(req)
  PROVE  AInv'
<1> DEFINE a == IF apools[req.pool] = Gone THEN "refused" ELSE "stored"
           next == [req EXCEPT !.at = a]
<1>0. /\ req.kind = "drop" /\ req.at = "sent" /\ RequestWell(amade, req)
      /\ apools' = [apools EXCEPT ![req.pool] = Gone]
      /\ areqs' = (areqs \ {req}) \cup {next}
      /\ UNCHANGED <<Others, amade, apage, ahist>>
  BY DEF ADrops, Moves, AInv, RequestsWell
<1>1. a \in {"refused", "stored"}  OBVIOUS
<1> HIDE DEF a
<1>2. /\ next \in Asked /\ next.kind = "drop" /\ next.by = req.by /\ next.at = a
      /\ next.pool = req.pool /\ next.pools = req.pools
  BY <1>0, <1>1 DEF RequestWell, Asked
<1> HIDE DEF next
<1>3. RequestWell(amade, next)  BY <1>0, <1>1, <1>2 DEF RequestWell
<1>4. /\ apools \in [Pools -> PoolRecs] /\ amade \in 0..MaxPools /\ Made(amade, apools)
  BY DEF AInv, ServerWell
<1>5. \A p \in Pools : apools'[p] \in {Gone, apools[p]}  BY <1>0, <1>4
<1>6. RequestsWell' /\ Cardinality(Pending') <= Cardinality(Pending)
  BY <1>0, <1>2, <1>3, <1>4, RequestMoves
<1>7. ServerWell'
  <2>1. ASSUME NEW d \in Devs PROVE aload'[d] + Cardinality(Pending') <= aacts'
    <3>1. /\ Cardinality(Pending) \in Nat /\ Cardinality(Pending') \in Nat
          /\ aload[d] \in Nat /\ aload[d] + Cardinality(Pending) <= aacts
          /\ aacts \in Nat
      BY <1>6, PendingCounts, PendingFinite, FS_CardinalityType DEF AInv, ServerWell
    <3> QED  BY <1>0, <1>6, <3>1 DEF Others
  <2>2. apools' \in [Pools -> PoolRecs]  BY <1>0, <1>4, GoneIs
  <2>3. Made(amade', apools')  BY <1>0, <1>4, <1>5 DEF Made
  <2> QED  BY <1>0, <2>1, <2>2, <2>3 DEF Others, AInv, ServerWell
<1>8. PoolPageWell'  BY <1>0 DEF AInv, PoolPageWell, Made
<1>9. NamesApart'  BY <1>0, <1>2, <1>5, NamesStay DEF Looking
<1>10. Spread'  BY <1>0, <1>2, SpreadStays DEF Others
<1>11. NoneChanged  BY <1>0, <1>5 DEF NoneChanged
<1>12. RequestsShown'  BY <1>0, <1>1, <1>2, <1>11, RequestsShownStay
<1>13. PageShown'
  <2>1. Settled' => Settled  BY <1>0 DEF Settled, OfPage
  <2> QED  BY <1>0, <1>11, <2>1, PageShownStays
<1>14. PreviewsFit'
  <2>1. Listing => Listing'  BY <1>0 DEF Listing
  <2>2. Previewing(areqs) => Previewing(areqs')  BY <1>0 DEF Previewing
  <2> QED  BY <1>0, <1>2, <2>1, <2>2, PreviewsStay
<1> QED
  BY <1>6, <1>7, <1>8, <1>9, <1>10, <1>12, <1>13, <1>14 DEF AInv

\* A run is created: those that have looked already will come late.
LateNow(r) == [r EXCEPT !.late = r.late \/ r.at = "looked"]

LEMMA LateImage ==
  ASSUME NEW S, IsFiniteSet(S)
  PROVE  /\ IsFiniteSet({LateNow(r) : r \in S})
         /\ Cardinality({LateNow(r) : r \in S}) <= Cardinality(S)
<1> DEFINE T == {LateNow(r) : r \in S}
           f == [r \in S |-> LateNow(r)]
<1>1. f \in Surjection(S, T)
  BY DEF Surjection
<1> QED  BY <1>1, FS_Surjection

LEMMA LateIs ==
  ASSUME NEW r, r \in Asked
  PROVE  /\ r.at # "looked" => LateNow(r) = r
         /\ r.at = "looked" => LateNow(r) = [r EXCEPT !.late = TRUE]
<1>1. CASE r.at # "looked"
  <2>1. LateNow(r) = [r EXCEPT !.late = r.late]  BY <1>1 DEF LateNow, Asked
  <2>2. r.late \in BOOLEAN /\ [r EXCEPT !.late = r.late] = r  BY DEF Asked
  <2> QED  BY <1>1, <2>1, <2>2
<1>2. CASE r.at = "looked"
  BY <1>2 DEF LateNow, Asked
<1> QED  BY <1>1, <1>2

LEMMA ACreatesKeeps ==
  ASSUME AInv, NEW req \in areqs, ACreates(req)
  PROVE  AInv'
<1>0. /\ req.kind = "run" /\ req.at = "looked" /\ RequestWell(amade, req) /\ req \in Asked
      /\ req \in Pending
      /\ UNCHANGED <<adevs, aoff, apools, amade, apage, ahist, aacts, aslips>>
  BY DEF ACreates, AInv, RequestsWell, RequestWell, Pending
<1>1. ASSUME areqs' = (areqs \ {req}) \cup {[req EXCEPT !.at = "refused"]},
             UNCHANGED <<abusy, aload, aruns>>
      PROVE  AInv'
  <2> DEFINE next == [req EXCEPT !.at = "refused"]
  <2>1. /\ next \in Asked /\ next.kind = "run" /\ next.by = req.by /\ next.at = "refused"
        /\ next.pool = req.pool /\ next.pools = req.pools
    BY <1>0 DEF Asked
  <2> HIDE DEF next
  <2>2. RequestWell(amade, next)  BY <1>0, <2>1 DEF RequestWell
  <2>3. areqs' = (areqs \ {req}) \cup {next}  BY <1>1 DEF next
  <2>4. Stays  BY <1>0, <1>1 DEF Stays, Others
  <2>5. RunShown(ahist.theirs, apools, next)  BY <2>1 DEF RunShown
  <2> QED
    BY <1>0, <2>1, <2>2, <2>3, <2>4, <2>5, StepKeeps DEF Looking
<1>2. ASSUME NEW d \in req.sel,
             abusy' = abusy \cup {d}, aload' = [aload EXCEPT ![d] = aload[d] + 1],
             aruns' = aruns \cup
               {[dev |-> d, n |-> Cardinality(aruns) + 1, late |-> req.late]},
             areqs' = {[req EXCEPT !.at = "stored"]} \cup {LateNow(r) : r \in areqs \ {req}}
      PROVE  AInv'
  <2> DEFINE next == [req EXCEPT !.at = "stored"]
             run == [dev |-> d, n |-> Cardinality(aruns) + 1, late |-> req.late]
  <2>0. /\ next \in Asked /\ next.kind = "run" /\ next.by = req.by /\ next.at = "stored"
        /\ next.pool = req.pool /\ next.pools = req.pools
        /\ areqs' = {next} \cup {LateNow(r) : r \in areqs \ {req}}
    BY <1>0, <1>2 DEF Asked
  <2> HIDE DEF next
  <2>1. RequestWell(amade, next)  BY <1>0, <2>0 DEF RequestWell
  <2>2. \A r \in areqs : r \in Asked /\ RequestWell(amade, r)
    BY DEF AInv, RequestsWell, RequestWell
  <2>3. \A r \in areqs' :
          \/ r = next \/ (r \in areqs \ {req} /\ r.at # "looked")
          \/ \E q \in areqs \ {req} : q.at = "looked" /\ r = [q EXCEPT !.late = TRUE]
    BY <2>0, <2>2, LateIs
  <2>4. \A r \in areqs : r.at # "looked" => r \in areqs'
    BY <1>0, <2>0, <2>2, LateIs
  <2>5. \A q \in areqs : q.at = "looked" =>
          LET r == [q EXCEPT !.late = TRUE]
          IN  /\ r \in Asked /\ r.kind = q.kind /\ r.by = q.by /\ r.at = "looked" /\ r.late
              /\ r.pool = q.pool /\ r.pools = q.pools /\ r.sel = q.sel
              /\ r.shown = q.shown /\ q.kind = "run"
    BY <2>2 DEF RequestWell, Asked
  <2>15. ASSUME NEW r \in areqs', r # next, r \notin areqs
        PROVE  /\ r.kind = "run" /\ r.at = "looked" /\ r.late
               /\ \E q \in areqs : q.kind = "run" /\ q.by = r.by /\ q.at = "looked"
                                   /\ q.sel = r.sel /\ q.shown = r.shown /\ q.pool = r.pool
    <3>1. PICK q \in areqs \ {req} : q.at = "looked" /\ r = [q EXCEPT !.late = TRUE]
      BY <2>3, <2>15
    <3> QED  BY <2>5, <3>1
  <2>16. \A r \in areqs' : r.at = "looked" => r.late
    <3>1. ASSUME NEW r \in areqs', r.at = "looked" PROVE r.late
      <4>1. r # next  BY <2>0, <3>1
      <4>2. PICK q \in areqs \ {req} : q.at = "looked" /\ r = [q EXCEPT !.late = TRUE]
        BY <2>3, <3>1, <4>1
      <4> QED  BY <2>5, <4>2
    <3> QED  BY <3>1
  <2>6. RequestsWell'
    <3>1. IsFiniteSet(areqs')
      <4>1. IsFiniteSet(areqs \ {req})  BY FS_RemoveElement DEF AInv, RequestsWell
      <4>2. IsFiniteSet({LateNow(r) : r \in areqs \ {req}})  BY <4>1, LateImage
      <4>3. IsFiniteSet({LateNow(r) : r \in areqs \ {req}} \cup {next})
        BY <4>2, FS_AddElement
      <4>4. areqs' = {LateNow(r) : r \in areqs \ {req}} \cup {next}  BY <2>0
      <4> QED  BY <4>3, <4>4
    <3>2. \A q \in areqs : q.at = "looked" => RequestWell(amade, [q EXCEPT !.late = TRUE])
      BY <2>2, <2>5 DEF RequestWell
    <3>3. \A r \in areqs' : RequestWell(amade, r)  BY <2>1, <2>2, <2>3, <3>2
    <3>4. \A r \in areqs' : r.kind = "pool" => r \in areqs  BY <2>0, <2>15
    <3>5. \A r1, r2 \in OfPage("pool")' : r1 = r2
      BY <3>4 DEF AInv, RequestsWell, OfPage
    <3> QED  BY <1>0, <3>1, <3>3, <3>5 DEF RequestsWell
  <2>7. ServerWell'
    <3>1. IsFiniteSet(Pending) /\ Cardinality(Pending) \in Nat /\ aload[d] \in Nat /\ d \in Devs
      <4>1. d \in Devs  BY <1>0 DEF Asked
      <4> QED  BY <4>1, PendingCounts
    <3>2. Cardinality(Pending') <= Cardinality(Pending) - 1 /\ Cardinality(Pending') \in Nat
      <4> DEFINE rest == Pending \ {req}
                 some == {LateNow(r) : r \in rest}
      <4>1. IsFiniteSet(rest) /\ Cardinality(rest) = Cardinality(Pending) - 1
        BY <1>0, <3>1, FS_RemoveElement
      <4>2. Pending' \in SUBSET some
        <5>1. ASSUME NEW r \in Pending' PROVE r \in some
          <6>1. r \in areqs' /\ r # next /\ r.kind = "run"
                /\ r.at \in {"sent", "resolved", "looked"}
            BY <2>0 DEF Pending
          <6>2. PICK q \in areqs \ {req} : r = LateNow(q)  BY <2>0, <6>1
          <6>3. q.kind = r.kind /\ q.at = r.at
            <7>1. q \in Asked  BY <2>2, <2>5, <6>2
            <7> QED  BY <6>2, <7>1 DEF LateNow, Asked
          <6> QED  BY <6>1, <6>2, <6>3 DEF Pending
        <5> QED  BY <5>1
      <4>3. IsFiniteSet(some) /\ Cardinality(some) <= Cardinality(rest)
        <5> HIDE DEF rest
        <5> QED  BY <4>1, LateImage
      <4> HIDE DEF some, rest
      <4>4. IsFiniteSet(Pending') /\ Cardinality(Pending') <= Cardinality(some)
        BY <4>2, <4>3, FS_Subset
      <4> QED  BY <3>1, <4>1, <4>3, <4>4, FS_CardinalityType
    <3>3. aload' \in [Devs -> Nat]  BY <1>2, <3>1 DEF AInv, ServerWell
    <3>4. ASSUME NEW e \in Devs PROVE aload'[e] + Cardinality(Pending') <= aacts'
      <4>1. aload[e] \in Nat /\ aload[e] + Cardinality(Pending) <= aacts
        BY PendingCounts
      <4>2. aload'[e] <= aload[e] + 1 /\ aload'[e] \in Nat
        BY <1>2, <3>1, <3>3, <4>1 DEF AInv, ServerWell
      <4>3. aacts' = aacts /\ aacts \in Nat  BY <1>0 DEF AInv, ServerWell
      <4> QED  BY <3>1, <3>2, <4>1, <4>2, <4>3
    <3>5. run.dev = d /\ aruns' = aruns \cup {run}  BY <1>2
    <3> HIDE DEF run
    <3>6. abusy' = {r.dev : r \in aruns'} /\ abusy' \subseteq Devs
      BY <1>2, <3>1, <3>5 DEF AInv, ServerWell
    <3> QED  BY <1>0, <3>3, <3>4, <3>6 DEF AInv, ServerWell, Made
  <2>8. PoolPageWell'  BY <1>0 DEF AInv, PoolPageWell, Made
  <2>9. NamesApart'
    <3>1. \A r \in areqs' : Looking(r) => r \in areqs  BY <2>0, <2>3, <2>5 DEF Looking
    <3>2. \A p \in Pools : apools'[p] \in {Gone, apools[p]}  BY <1>0
    <3> QED  BY <1>0, <3>1, <3>2, NamesStay
  <2>10. Spread'
    <3>1. run.dev = d /\ run.late = req.late /\ aruns' = aruns \cup {run}  BY <1>2
    <3> HIDE DEF run
    <3>2. \A r \in aruns : r.dev = d => req.late
      <4>1. \A r \in aruns : r.dev \in abusy  BY DEF AInv, ServerWell
      <4>2. ~req.late => d \notin abusy  BY <1>0 DEF AInv, Spread
      <4> QED  BY <4>1, <4>2
    <3>3. ASpread'  BY <3>1, <3>2 DEF AInv, Spread, ASpread
    <3> QED  BY <2>16, <3>3 DEF Spread
  <2>11. NoneChanged  BY <1>0 DEF NoneChanged
  <2>12. RequestsShown'
    <3>1. ASSUME NEW r \in areqs', r # next, r \notin areqs, ~ahist.mixed
          PROVE  RunShown(ahist.theirs, apools, r)
      BY <2>15, <3>1 DEF AInv, RequestsShown, RunShown
    <3>2. RunShown(ahist.theirs, apools, next)  BY <2>0 DEF RunShown
    <3>3. \A r \in areqs' :
            \/ r \in areqs
            \/ /\ r.by = "page" /\ r.kind # "preview" =>
                    \E q \in areqs : q.by = "page" /\ q.kind = r.kind
               /\ r.at # "listed" /\ (~ahist.mixed => RunShown(ahist.theirs, apools, r))
      BY <1>0, <2>0, <2>15, <3>1, <3>2
    <3> QED  BY <1>0, <2>11, <3>3, RequestsShownStay
  <2>13. PageShown'
    <3>1. Settled' => Settled
      BY <2>2, <2>4 DEF Settled, OfPage, RequestWell
    <3> QED  BY <1>0, <2>11, <3>1, PageShownStays
  <2>14. PreviewsFit'
    <3>1. Listing => Listing'  BY <2>4 DEF Listing
    <3>2. Previewing(areqs) => Previewing(areqs')
      BY <2>2, <2>4 DEF Previewing, RequestWell
    <3>3. \A r \in areqs' : r.kind = "preview" => r \in areqs  BY <2>0, <2>15
    <3> QED  BY <1>0, <3>1, <3>2, <3>3, PreviewsStay
  <2> QED
    BY <2>6, <2>7, <2>8, <2>9, <2>10, <2>12, <2>13, <2>14 DEF AInv
<1>3. PICK d \in req.sel :
        IF d \in adevs
        THEN /\ abusy' = abusy \cup {d} /\ aload' = [aload EXCEPT ![d] = aload[d] + 1]
             /\ aruns' = aruns \cup
                  {[dev |-> d, n |-> Cardinality(aruns) + 1, late |-> req.late]}
             /\ areqs' = {[req EXCEPT !.at = "stored"]} \cup
                  {LateNow(r) : r \in areqs \ {req}}
        ELSE /\ areqs' = (areqs \ {req}) \cup {[req EXCEPT !.at = "refused"]}
             /\ UNCHANGED <<abusy, aload, aruns>>
  BY DEF ACreates, Moves, LateNow
<1> QED  BY <1>1, <1>2, <1>3

LEMMA AEndsKeeps ==
  ASSUME AInv, NEW run \in aruns, AEnds(run)
  PROVE  AInv'
<1>0. /\ aruns' = {r \in aruns : r.dev # run.dev} /\ abusy' = abusy \ {run.dev}
      /\ aload' = [aload EXCEPT ![run.dev] = 0]
      /\ UNCHANGED <<adevs, aoff, apools, amade, areqs, apage, ahist, aacts, aslips>>
  BY DEF AEnds
<1>1. abusy = {r.dev : r \in aruns} /\ abusy \subseteq Devs /\ aload \in [Devs -> Nat]
  BY DEF AInv, ServerWell
<1>2. ServerWell'
  <2>1. abusy' = {r.dev : r \in aruns'}  BY <1>0, <1>1
  <2>2. Pending' = Pending  BY <1>0 DEF Pending
  <2>3. ASSUME NEW d \in Devs
        PROVE  aload'[d] \in Nat /\ aload'[d] + Cardinality(Pending') <= aacts'
    <3>1. /\ aload[d] \in Nat /\ aload[d] + Cardinality(Pending) <= aacts
          /\ Cardinality(Pending) \in Nat /\ aacts \in Nat
      BY PendingCounts DEF AInv, ServerWell
    <3>2. aload'[d] \in {0, aload[d]}  BY <1>0, <1>1
    <3>3. aacts' = aacts  BY <1>0
    <3> QED  BY <2>2, <3>1, <3>2, <3>3
  <2>4. aload' \in [Devs -> Nat]  BY <1>0, <1>1
  <2> QED  BY <1>0, <1>1, <2>1, <2>3, <2>4 DEF AInv, ServerWell, Made
<1>3. RequestsWell' /\ PoolPageWell' /\ NamesApart'
  BY <1>0 DEF AInv, RequestsWell, OfPage, PoolPageWell, Made, NamesApart
<1>4. Spread'  BY <1>0 DEF AInv, Spread, ASpread
<1>5. RequestsShown' /\ PageShown' /\ PreviewsFit'
  BY <1>0 DEF AInv, RequestsShown, PageShown, PreviewsFit, Listing, Settled, OfPage
<1> QED  BY <1>2, <1>3, <1>4, <1>5 DEF AInv

LEMMA ADeviceKeeps ==
  ASSUME AInv, NEW d \in Devs, ADevice(d)
  PROVE  AInv'
<1>0. /\ adevs' \subseteq Devs /\ aoff' \subseteq Devs
      /\ UNCHANGED <<abusy, aload, apools, amade, areqs, apage, aruns, ahist, aacts>>
  BY DEF ADevice, AInv, ServerWell
<1>1. ServerWell'  BY <1>0 DEF AInv, ServerWell, Pending, Made
<1>2. RequestsWell' /\ PoolPageWell' /\ NamesApart' /\ Spread'
  BY <1>0 DEF AInv, RequestsWell, OfPage, PoolPageWell, Made, NamesApart, Spread, ASpread
<1>3. RequestsShown' /\ PageShown' /\ PreviewsFit'
  BY <1>0 DEF AInv, RequestsShown, PageShown, PreviewsFit, Listing, Settled, OfPage
<1> QED  BY <1>1, <1>2, <1>3 DEF AInv

-----------------------------------------------------------------------------
(* Clicks on the page.                                                      *)

LEMMA PageRequestWell ==
  ASSUME NEW kind \in {"pool", "drop", "run", "preview"}, NEW by \in {"page", "other"},
         NEW pool \in Pools \cup {NoPool}, NEW name \in Names \cup {"none"},
         NEW sel \in SUBSET Devs, pool <= amade,
         kind = "pool" => name \in Names /\ sel \in Selectors,
         kind = "drop" => pool # NoPool,
         kind = "preview" => by = "page" /\ sel \in Selectors,
         by = "other" /\ kind = "run" => pool = NoPool
  PROVE  LET r == PageRequest(kind, by, pool, name, sel)
         IN  /\ RequestWell(amade, r) /\ r \in Asked /\ r.kind = kind /\ r.by = by
             /\ r.pool = pool /\ r.name = name /\ r.sel = sel /\ r.shown = sel
             /\ r.at = "sent"
<1> DEFINE r == PageRequest(kind, by, pool, name, sel)
<1>1. /\ r \in Asked /\ r.kind = kind /\ r.by = by /\ r.pool = pool /\ r.name = name
      /\ r.sel = sel /\ r.shown = sel /\ r.at = "sent"
      /\ r.pools = [p \in Pools |-> Gone]
  BY GoneIs DEF PageRequest, Asked
<1> HIDE DEF r
<1>2. Made(amade, r.pools)  BY <1>1 DEF Made
<1>3. RequestWell(amade, r)  BY <1>1, <1>2 DEF RequestWell
<1> QED  BY <1>1, <1>3 DEF r

\* A click that changes the fields has the choice previewed; so does an answer.
LEMMA PreviewComes ==
  ASSUME AInv, NEW reqs, reqs \subseteq areqs, NEW page \in PoolPage, page.pool <= amade,
         Previews(page, reqs)
  PROVE  \E new :
           /\ areqs' = reqs \cup {new} /\ RequestWell(amade, new)
           /\ new.kind = "preview" /\ new.by = "page" /\ new.at = "sent"
           /\ Fits(page, new)
<1> DEFINE pool == Target(page).pool
           new == PageRequest("preview", "page", pool, "none", page.sel)
<1>1. pool \in {page.pool, NoPool} /\ pool <= amade /\ page.sel \in Selectors
      /\ page.sel \in SUBSET Devs /\ pool \in Pools \cup {NoPool}
  BY DEF Target, PoolPage, Selectors, NoPool, AInv, ServerWell
<1>2. areqs' = reqs \cup {new}  BY DEF Previews
<1> HIDE DEF pool
<1>3. /\ RequestWell(amade, new) /\ new.kind = "preview" /\ new.by = "page"
      /\ new.at = "sent" /\ new.pool = pool /\ new.sel = page.sel
  BY <1>1, PageRequestWell
<1> QED  BY <1>1, <1>2, <1>3 DEF Fits

LEMMA AppliedWell ==
  ASSUME AInv, NEW page \in PoolPage, Made(amade, page.pools), NEW p \in Pools \cup {NoPool}
  PROVE  LET q == Applied(page, p)
         IN  /\ q \in PoolPage /\ q.pools = page.pools /\ q.seen = page.seen /\ ~q.dirty
             /\ q.pool <= amade
             /\ \/ q.pool = NoPool /\ q.sel = page.sel
                \/ /\ q.pool \in Pools /\ page.pools[q.pool] # Gone
                   /\ q.pool = p /\ q.sel = page.pools[p].sel
<1>0. amade \in Nat  BY DEF AInv, ServerWell
<1>1. CASE p = NoPool \/ page.pools[p] = Gone
  <2>1. Applied(page, p) = [page EXCEPT !.pool = NoPool, !.name = "none", !.dirty = FALSE]
    BY <1>1 DEF Applied
  <2> DEFINE q == [page EXCEPT !.pool = NoPool, !.name = "none", !.dirty = FALSE]
  <2>2. q \in PoolPage  BY DEF PoolPage
  <2>3. q.pools = page.pools /\ q.seen = page.seen /\ ~q.dirty /\ q.pool = NoPool
        /\ q.sel = page.sel
    BY DEF PoolPage
  <2>4. NoPool <= amade  BY <1>0 DEF NoPool
  <2> HIDE DEF q
  <2>5. Applied(page, p) = q  BY <2>1 DEF q
  <2> QED  BY <2>2, <2>3, <2>4, <2>5
<1>2. CASE p # NoPool /\ page.pools[p] # Gone
  <2>1. p \in Pools /\ page.pools[p] \in PoolRecs /\ p <= amade
    BY <1>2 DEF PoolPage, Made
  <2>2. page.pools[p].name \in Names /\ page.pools[p].sel \in Selectors
    BY <1>2, <2>1, GoneIs
  <2>3. Applied(page, p) = [page EXCEPT !.pool = p, !.name = page.pools[p].name,
                                        !.sel = page.pools[p].sel, !.dirty = FALSE]
    BY <1>2 DEF Applied
  <2> QED  BY <1>2, <2>1, <2>2, <2>3 DEF PoolPage
<1> QED  BY <1>1, <1>2

LEMMA ListedWell ==
  ASSUME AInv, NEW page \in PoolPage, page.pool <= amade, NEW pools \in [Pools -> PoolRecs]
  PROVE  LET q == Listed(page, pools)
         IN  /\ q \in PoolPage /\ q.pools = pools /\ q.seen = page.seen
             /\ q.dirty = page.dirty /\ q.sel = page.sel /\ q.pool <= amade
             /\ q.pool \in {page.pool, NoPool} /\ (q.pool # NoPool => pools[q.pool] # Gone)
<1>0. amade \in Nat  BY DEF AInv, ServerWell
<1> DEFINE p == IF page.pool # NoPool /\ pools[page.pool] = Gone THEN NoPool ELSE page.pool
<1>1. p \in {page.pool, NoPool} /\ (p # NoPool => pools[p] # Gone) /\ p <= amade
  BY <1>0 DEF NoPool
<1>2. Listed(page, pools) = [page EXCEPT !.pools = pools, !.pool = p]
  BY DEF Listed
<1> HIDE DEF p
<1> QED  BY <1>1, <1>2 DEF PoolPage

LEMMA ClickPreviews ==
  ASSUME AInv, Acts, apage' \in PoolPage, apage'.pool <= amade, Made(amade, apage'.pools),
         apage'.pool # NoPool => apage'.pools[apage'.pool] # Gone,
         ~ahist.mixed /\ Settled =>
           /\ KnownAs(ahist.theirs, apools, apage'.pools)
           /\ ~apage'.dirty => Same(ahist.theirs, apools, apage'.pool, apage'.sel),
         Previews(apage', areqs),
         ahist' = [ahist EXCEPT !.asked = ahist.asked \/ Previewing(areqs)]
  PROVE  AInv'
<1>1. PICK new : /\ areqs' = areqs \cup {new} /\ RequestWell(amade, new)
                 /\ new.kind = "preview" /\ new.by = "page" /\ new.at = "sent"
                 /\ Fits(apage', new)
  BY PreviewComes
<1>2. /\ aacts < MaxActs /\ aacts' = aacts + 1
      /\ UNCHANGED <<adevs, aoff, abusy, aload, apools, amade, aruns, aslips>>
  BY DEF Acts
<1>3. /\ ahist' \in [named : BOOLEAN, mixed : BOOLEAN, asked : BOOLEAN, theirs : SUBSET Pools]
      /\ ahist'.named = ahist.named /\ ahist'.mixed = ahist.mixed
      /\ ahist'.asked = (ahist.asked \/ Previewing(areqs)) /\ ahist'.theirs = ahist.theirs
  <2>1. Previewing(areqs) \in BOOLEAN  BY DEF Previewing
  <2> QED  BY <2>1 DEF AInv, ServerWell
<1>4. RequestsWell' /\ Cardinality(Pending') <= Cardinality(Pending) + 1
  BY <1>1, <1>2, RequestComes
<1>5. ServerWell'  BY <1>2, <1>3, <1>4, PendingFinite, ServerStays
<1>6. PoolPageWell'  BY <1>2 DEF PoolPageWell, Made
<1>7. NamesApart'  BY <1>1, <1>2, <1>3, NamesStay DEF Looking
<1>8. Spread'  BY <1>1, <1>2, SpreadStays
<1>9. NoneChanged  BY <1>2, <1>3 DEF NoneChanged
<1>10. RequestsShown'  BY <1>1, <1>3, <1>9, RequestsShownStay
<1>11. PageShown'
  <2>1. Settled' => Settled  BY <1>1 DEF Settled, OfPage
  <2> QED  BY <1>2, <1>3, <2>1 DEF PageShown
<1>12. PreviewsFit'
  <2>1. CASE ahist'.asked  BY <2>1 DEF PreviewsFit
  <2>2. CASE ~ahist'.asked
    <3>1. \A r \in areqs' : r.kind = "preview" => r = new
      BY <1>1, <1>3, <2>2 DEF Previewing
    <3>2. Previewing(areqs')  BY <1>1 DEF Previewing
    <3> QED  BY <1>1, <3>1, <3>2 DEF PreviewsFit
  <2> QED  BY <2>1, <2>2
<1> QED
  BY <1>4, <1>5, <1>6, <1>7, <1>8, <1>10, <1>11, <1>12 DEF AInv

LEMMA ASelectKeeps ==
  ASSUME AInv, NEW p \in Pools \cup {NoPool}, ASelect(p)
  PROVE  AInv'
<1>0. /\ Acts /\ apage' = Applied(apage, p) /\ Previews(apage', areqs)
      /\ ahist' = [ahist EXCEPT !.asked = ahist.asked \/ Previewing(areqs)]
  BY DEF ASelect
<1>1. apage \in PoolPage /\ Made(amade, apage.pools)  BY DEF AInv, PoolPageWell
<1>2. /\ apage' \in PoolPage /\ apage'.pools = apage.pools /\ ~apage'.dirty
      /\ apage'.pool <= amade
      /\ \/ apage'.pool = NoPool /\ apage'.sel = apage.sel
         \/ /\ apage'.pool \in Pools /\ apage.pools[apage'.pool] # Gone
            /\ apage'.sel = apage.pools[apage'.pool].sel
  BY <1>0, <1>1, AppliedWell
<1>3. ~ahist.mixed /\ Settled =>
        /\ KnownAs(ahist.theirs, apools, apage'.pools) /\ Same(ahist.theirs, apools, apage'.pool, apage'.sel)
  BY <1>2 DEF AInv, PageShown, KnownAs, Same
<1> QED  BY <1>0, <1>1, <1>2, <1>3, ClickPreviews

LEMMA AFieldsKeeps ==
  ASSUME AInv, NEW s \in Selectors, AFields(s)
  PROVE  AInv'
<1>0. /\ Acts /\ apage' = [[apage EXCEPT !.sel = s] EXCEPT !.dirty = apage.pool # NoPool]
      /\ Previews(apage', areqs)
      /\ ahist' = [ahist EXCEPT !.asked = ahist.asked \/ Previewing(areqs)]
  BY DEF AFields, Dirty, AInv, PoolPageWell, PoolPage
<1>1. /\ apage \in PoolPage /\ Made(amade, apage.pools) /\ apage.pool <= amade
      /\ apage.pool # NoPool => apage.pools[apage.pool] # Gone
  BY DEF AInv, PoolPageWell
<1>2. /\ apage' \in PoolPage /\ apage'.pools = apage.pools /\ apage'.pool = apage.pool
      /\ apage'.dirty = (apage.pool # NoPool)
  BY <1>0, <1>1 DEF PoolPage
<1>3. ~ahist.mixed /\ Settled =>
        /\ KnownAs(ahist.theirs, apools, apage'.pools)
        /\ ~apage'.dirty => Same(ahist.theirs, apools, apage'.pool, apage'.sel)
  BY <1>2 DEF AInv, PageShown, Same
<1> QED  BY <1>0, <1>1, <1>2, <1>3, ClickPreviews

LEMMA ANameKeeps ==
  ASSUME AInv, NEW n \in Names, AName(n)
  PROVE  AInv'
<1>0. /\ Acts /\ apage' = [[apage EXCEPT !.name = n] EXCEPT !.dirty = apage.pool # NoPool]
      /\ UNCHANGED <<areqs, ahist>>
  BY DEF AName, Dirty, AInv, PoolPageWell, PoolPage
<1>1. /\ aacts < MaxActs /\ aacts' = aacts + 1
      /\ UNCHANGED <<adevs, aoff, abusy, aload, apools, amade, aruns, aslips>>
  BY <1>0 DEF Acts
<1>2. apage \in PoolPage  BY DEF AInv, PoolPageWell
<1>3. /\ apage' \in PoolPage /\ apage'.pools = apage.pools /\ apage'.pool = apage.pool
      /\ apage'.dirty = (apage.pool # NoPool) /\ apage'.sel = apage.sel
      /\ apage'.seen = apage.seen
  BY <1>0, <1>2 DEF PoolPage
<1>4. ServerWell'
  <2>1. Pending' = Pending  BY <1>0 DEF Pending
  <2>2. IsFiniteSet(Pending)
    <3>1. Pending \in SUBSET areqs  BY DEF Pending
    <3> QED  BY <3>1, FS_Subset DEF AInv, RequestsWell
  <2>3. Cardinality(Pending') <= Cardinality(Pending) + 1
    BY <2>1, <2>2, FS_CardinalityType
  <2>4. ahist' \in [named : BOOLEAN, mixed : BOOLEAN, asked : BOOLEAN, theirs : SUBSET Pools]
    BY <1>0 DEF AInv, ServerWell
  <2> QED  BY <1>1, <2>1, <2>2, <2>3, <2>4, ServerStays
<1>5. RequestsWell'  BY <1>0, <1>1 DEF AInv, RequestsWell, OfPage
<1>6. PoolPageWell'  BY <1>1, <1>3 DEF AInv, PoolPageWell, Made
<1>7. NamesApart' /\ Spread'
  BY <1>0, <1>1, <1>3 DEF AInv, NamesApart, Spread, ASpread
<1>8. NoneChanged  BY <1>0, <1>1 DEF NoneChanged
<1>9. RequestsShown'  BY <1>0, <1>8, RequestsShownStay
<1>10. PageShown'
  BY <1>0, <1>1, <1>3 DEF AInv, PageShown, Settled, OfPage, Same
<1>11. PreviewsFit'
  <2>1. Listing' = Listing  BY <1>0 DEF Listing
  <2> QED  BY <1>0, <1>3, <2>1, PreviewsStay
<1> QED  BY <1>4, <1>5, <1>6, <1>7, <1>9, <1>10, <1>11 DEF AInv

LEMMA ClickAsks ==
  ASSUME AInv, Acts, UNCHANGED apage, NEW new, areqs' = areqs \cup {new},
         RequestWell(amade, new), new.at = "sent", new.kind # "preview",
         new.by = "page" /\ new.kind = "pool" => OfPage("pool") = {},
         ahist' \in [named : BOOLEAN, mixed : BOOLEAN, asked : BOOLEAN, theirs : SUBSET Pools],
         ahist'.named = ahist.named, ahist'.asked = ahist.asked,
         ahist'.theirs = ahist.theirs,
         ahist.mixed => ahist'.mixed, RequestsShown'
  PROVE  AInv'
<1>2. /\ aacts < MaxActs /\ aacts' = aacts + 1
      /\ UNCHANGED <<adevs, aoff, abusy, aload, apools, amade, aruns, aslips>>
  BY DEF Acts
<1>4. RequestsWell' /\ Cardinality(Pending') <= Cardinality(Pending) + 1
  BY <1>2, RequestComes
<1>5. ServerWell'  BY <1>2, <1>4, PendingFinite, ServerStays
<1>6. PoolPageWell'  BY <1>2 DEF AInv, PoolPageWell, Made
<1>7. NamesApart'  BY <1>2, NamesStay DEF Looking
<1>8. Spread'  BY <1>2, SpreadStays
<1>9. NoneChanged  BY <1>2 DEF NoneChanged
<1>11. PageShown'
  <2>1. Settled' => Settled  BY DEF Settled, OfPage
  <2> QED  BY <1>9, <2>1, PageShownStays
<1>12. PreviewsFit'
  <2>1. Listing => Listing'  BY DEF Listing
  <2>2. Previewing(areqs) => Previewing(areqs')  BY DEF Previewing
  <2> QED  BY <2>1, <2>2, PreviewsStay
<1> QED  BY <1>4, <1>5, <1>6, <1>7, <1>8, <1>11, <1>12 DEF AInv

LEMMA ASaveKeeps == ASSUME AInv, ASave PROVE AInv'
<1> DEFINE new == PageRequest("pool", "page", apage.pool, apage.name, apage.sel)
           met == OfPage("drop") # {} \/ OfPage("run") # {}
<1>0. /\ Acts /\ apage.name # "none" /\ OfPage("pool") = {} /\ apage' = apage
      /\ areqs' = areqs \cup {new}
      /\ ahist' = [ahist EXCEPT !.mixed = ahist.mixed \/ met]
  BY DEF ASave
<1>1. met \in BOOLEAN  OBVIOUS
<1>2. /\ apage \in PoolPage /\ apage.pool <= amade
      /\ ahist \in [named : BOOLEAN, mixed : BOOLEAN, asked : BOOLEAN, theirs : SUBSET Pools]
  BY DEF AInv, PoolPageWell, ServerWell
<1>3. /\ RequestWell(amade, new) /\ new.kind = "pool" /\ new.by = "page" /\ new.at = "sent"
  <2>1. /\ apage.pool \in Pools \cup {NoPool} /\ apage.name \in Names
        /\ apage.name \in Names \cup {"none"} /\ apage.sel \in Selectors
        /\ apage.sel \in SUBSET Devs
    BY <1>0, <1>2 DEF PoolPage, Selectors
  <2> QED  BY <1>2, <2>1, PageRequestWell
<1>5. met <=> OfPage("drop") # {} \/ OfPage("run") # {}  OBVIOUS
<1> HIDE DEF new, met
<1>4. /\ ahist' \in [named : BOOLEAN, mixed : BOOLEAN, asked : BOOLEAN, theirs : SUBSET Pools]
      /\ ahist'.named = ahist.named /\ ahist'.asked = ahist.asked
      /\ ahist'.theirs = ahist.theirs
      /\ ahist'.mixed = (ahist.mixed \/ met)
  BY <1>0, <1>1, <1>2
<1>6. RequestsShown'
  <2> SUFFICES ASSUME ~ahist.mixed, ~met PROVE RequestsShown'
    BY <1>4 DEF RequestsShown
  <2>1. (OfPage("drop") = {} /\ OfPage("run") = {})'
    BY <1>0, <1>3, <1>5 DEF OfPage
  <2>2. apools' = apools  BY <1>0 DEF Acts
  <2> QED  BY <1>0, <1>3, <1>4, <2>1, <2>2 DEF AInv, RequestsShown
<1> QED  BY <1>0, <1>3, <1>4, <1>6, ClickAsks

LEMMA ADeleteKeeps == ASSUME AInv, ADelete PROVE AInv'
<1> DEFINE new == PageRequest("drop", "page", apage.pool, "none", {})
           met == OfPage("pool") # {}
<1>0. /\ Acts /\ apage.pool # NoPool /\ apage' = apage
      /\ areqs' = areqs \cup {new}
      /\ ahist' = [ahist EXCEPT !.mixed = ahist.mixed \/ met]
  BY DEF ADelete
<1>1. met \in BOOLEAN  OBVIOUS
<1>2. /\ apage \in PoolPage /\ apage.pool <= amade
      /\ ahist \in [named : BOOLEAN, mixed : BOOLEAN, asked : BOOLEAN, theirs : SUBSET Pools]
  BY DEF AInv, PoolPageWell, ServerWell
<1>3. /\ RequestWell(amade, new) /\ new.kind = "drop" /\ new.by = "page" /\ new.at = "sent"
  <2>1. apage.pool \in Pools \cup {NoPool} /\ {} \in SUBSET Devs
    BY <1>2 DEF PoolPage
  <2> QED  BY <1>0, <1>2, <2>1, PageRequestWell
<1>5. met <=> OfPage("pool") # {}  OBVIOUS
<1> HIDE DEF new, met
<1>4. /\ ahist' \in [named : BOOLEAN, mixed : BOOLEAN, asked : BOOLEAN, theirs : SUBSET Pools]
      /\ ahist'.named = ahist.named /\ ahist'.asked = ahist.asked
      /\ ahist'.theirs = ahist.theirs
      /\ ahist'.mixed = (ahist.mixed \/ met)
  BY <1>0, <1>1, <1>2
<1>6. RequestsShown'
  <2> SUFFICES ASSUME ~ahist.mixed, ~met PROVE RequestsShown'
    BY <1>4 DEF RequestsShown
  <2>1. (OfPage("pool") = {})'
    BY <1>0, <1>3, <1>5 DEF OfPage
  <2>2. apools' = apools  BY <1>0 DEF Acts
  <2> QED  BY <1>0, <1>3, <1>4, <2>1, <2>2 DEF AInv, RequestsShown
<1> QED  BY <1>0, <1>3, <1>4, <1>6, ClickAsks

LEMMA ARunKeeps == ASSUME AInv, ARun PROVE AInv'
<1> DEFINE new == PageRequest("run", "page", apage.pool, "none", apage.sel)
           met == OfPage("pool") # {} \/ OfPage("drop") # {}
<1>0. /\ Acts /\ (apage.pool # NoPool => ~apage.dirty) /\ apage' = apage
      /\ areqs' = areqs \cup {new}
      /\ ahist' = [ahist EXCEPT !.mixed = ahist.mixed \/ OfPage("pool") # {}
                                             \/ OfPage("drop") # {}]
  BY DEF ARun
<1>1. met \in BOOLEAN  OBVIOUS
<1>2. /\ apage \in PoolPage /\ apage.pool <= amade
      /\ ahist \in [named : BOOLEAN, mixed : BOOLEAN, asked : BOOLEAN, theirs : SUBSET Pools]
  BY DEF AInv, PoolPageWell, ServerWell
<1>3. /\ RequestWell(amade, new) /\ new.kind = "run" /\ new.by = "page" /\ new.at = "sent"
      /\ new.pool = apage.pool /\ new.sel = apage.sel /\ new.shown = apage.sel
  <2>1. apage.pool \in Pools \cup {NoPool} /\ apage.sel \in SUBSET Devs
    BY <1>2 DEF PoolPage, Selectors
  <2> QED  BY <1>2, <2>1, PageRequestWell
<1>5. met <=> OfPage("pool") # {} \/ OfPage("drop") # {}  OBVIOUS
<1>7. ahist' = [ahist EXCEPT !.mixed = ahist.mixed \/ met]  BY <1>0
<1> HIDE DEF new, met
<1>4. /\ ahist' \in [named : BOOLEAN, mixed : BOOLEAN, asked : BOOLEAN, theirs : SUBSET Pools]
      /\ ahist'.named = ahist.named /\ ahist'.asked = ahist.asked
      /\ ahist'.theirs = ahist.theirs
      /\ ahist'.mixed = (ahist.mixed \/ met)
  BY <1>1, <1>2, <1>7
<1>6. RequestsShown'
  <2> SUFFICES ASSUME ~ahist.mixed, ~met PROVE RequestsShown'
    BY <1>4 DEF RequestsShown
  <2>1. (OfPage("pool") = {})'
    BY <1>0, <1>3, <1>5 DEF OfPage
  <2>2. apools' = apools  BY <1>0 DEF Acts
  <2>3. Same(ahist.theirs, apools, apage.pool, apage.sel)
    <3>1. Settled  BY <1>5 DEF Settled
    <3> QED  BY <1>0, <3>1 DEF AInv, PageShown, Same
  <2>4. RunShown(ahist.theirs, apools, new)  BY <1>3, <2>3 DEF RunShown
  <2> QED  BY <1>0, <1>3, <1>4, <2>1, <2>2, <2>4 DEF AInv, RequestsShown
<1> QED  BY <1>0, <1>3, <1>4, <1>6, ClickAsks

LEMMA AOtherKeeps == ASSUME AInv, AOther PROVE AInv'
<1>1. PICK asked \in
        [kind : {"pool"}, pool : 0..amade, name : Names, sel : Selectors]
          \cup [kind : {"drop"}, pool : 1..amade, name : {"none"}, sel : {{}}]
          \cup [kind : {"run"}, pool : {NoPool}, name : {"none"}, sel : Selectors] :
        areqs' = areqs \cup
          {PageRequest(asked.kind, "other", asked.pool, asked.name, asked.sel)}
  BY DEF AOther
<1>2. Acts /\ UNCHANGED <<apage, ahist>>  BY DEF AOther
<1> DEFINE new == PageRequest(asked.kind, "other", asked.pool, asked.name, asked.sel)
<1>3. /\ asked.kind \in {"pool", "drop", "run", "preview"} /\ asked.kind # "preview"
      /\ asked.pool \in Pools \cup {NoPool} /\ asked.pool <= amade
      /\ asked.name \in Names \cup {"none"} /\ asked.sel \in SUBSET Devs
      /\ asked.kind = "pool" => asked.name \in Names /\ asked.sel \in Selectors
      /\ asked.kind = "drop" => asked.pool # NoPool
      /\ asked.kind = "run" => asked.pool = NoPool
  BY <1>1 DEF AInv, ServerWell, NoPool, Pools, Selectors
<1>4. /\ RequestWell(amade, new) /\ new.kind = asked.kind /\ new.by = "other"
      /\ new.at = "sent" /\ new.pool = asked.pool /\ new.sel = new.shown
  BY <1>3, PageRequestWell
<1>5. areqs' = areqs \cup {new}  BY <1>1
<1> HIDE DEF new
<1>6. new.kind = "run" => RunShown(ahist.theirs, apools, new)
  BY <1>3, <1>4 DEF RunShown, Same
<1>7. apools' = apools  BY <1>2 DEF Acts
<1>8. NoneChanged  BY <1>2, <1>7 DEF NoneChanged
<1>9. RequestsShown'
  BY <1>2, <1>4, <1>5, <1>6, <1>7, <1>8, RequestsShownStay
<1> QED
  BY <1>2, <1>3, <1>4, <1>5, <1>9, ClickAsks DEF AInv, ServerWell

-----------------------------------------------------------------------------
(* Answers.                                                                 *)

LEMMA AStoredKeeps ==
  ASSUME AInv, NEW req \in areqs, AStored(req)
  PROVE  AInv'
<1> DEFINE next == [req EXCEPT !.at = "list"]
<1>0. /\ req.by = "page" /\ req.kind \in {"pool", "drop"} /\ req.at = "stored"
      /\ RequestWell(amade, req) /\ UNCHANGED <<Others, apools, amade, ahist>>
      /\ areqs' = (areqs \ {req}) \cup {next}
      /\ apage' = IF req.kind = "drop" THEN Applied(apage, NoPool) ELSE apage
  BY DEF AStored, Moves, AInv, RequestsWell
<1>1. /\ next \in Asked /\ next.kind = req.kind /\ next.by = req.by /\ next.at = "list"
      /\ next.pool = req.pool /\ next.pools = req.pools /\ next.name = req.name
      /\ next.sel = req.sel
  BY <1>0 DEF RequestWell, Asked
<1> HIDE DEF next
<1>2. RequestWell(amade, next)  BY <1>0, <1>1 DEF RequestWell
<1>3. RequestsWell' /\ Cardinality(Pending') <= Cardinality(Pending)
  BY <1>0, <1>1, <1>2, RequestMoves DEF AInv, ServerWell
<1>4. ServerWell'
  BY <1>0, <1>3, PendingFinite, ServerStays DEF Others, AInv, ServerWell
<1>5. /\ apage \in PoolPage /\ Made(amade, apage.pools) /\ apage.pool <= amade
      /\ apage.pool # NoPool => apage.pools[apage.pool] # Gone
  BY DEF AInv, PoolPageWell
<1>6. /\ apage' \in PoolPage /\ apage'.pools = apage.pools /\ apage'.sel = apage.sel
      /\ apage'.pool \in {apage.pool, NoPool} /\ apage'.pool <= amade
      /\ req.kind # "drop" => apage' = apage
  <2>1. CASE req.kind = "drop"
    <3>1. apage' = Applied(apage, NoPool)  BY <1>0, <2>1
    <3>2. NoPool \notin Pools  BY DEF NoPool, Pools
    <3> QED  BY <1>5, <2>1, <3>1, <3>2, AppliedWell
  <2>2. CASE req.kind # "drop"  BY <1>0, <1>5, <2>2
  <2> QED  BY <2>1, <2>2
<1>7. PoolPageWell'  BY <1>0, <1>5, <1>6 DEF PoolPageWell, Made
<1>8. NamesApart'  BY <1>0, <1>1, NamesStay DEF Looking
<1>9. Spread'  BY <1>0, <1>1, SpreadStays DEF Others
<1>10. NoneChanged  BY <1>0 DEF NoneChanged
<1>11. RequestsShown'  BY <1>0, <1>1, <1>10, RequestsShownStay
<1>12. PageShown'
  <2>1. Settled' => Settled  BY <1>0, <1>1 DEF Settled, OfPage, Unsaved
  <2>2. CASE apage'.pool = NoPool
    BY <1>0, <1>6, <2>1, <2>2 DEF AInv, PageShown, KnownAs, Same
  <2>3. CASE apage'.pool # NoPool
    <3>1. req.kind # "drop"
      <4>1. Applied(apage, NoPool).pool = NoPool
        <5>1. NoPool \notin Pools  BY DEF NoPool, Pools
        <5> QED  BY <1>5, <5>1, AppliedWell
      <4> QED  BY <1>0, <2>3, <4>1
    <3> QED  BY <1>0, <1>6, <1>10, <2>1, <3>1, PageShownStays
  <2> QED  BY <2>2, <2>3
<1>13. PreviewsFit'
  <2>1. Listing'  BY <1>0, <1>1 DEF Listing
  <2> QED  BY <2>1 DEF PreviewsFit
<1> QED  BY <1>3, <1>4, <1>7, <1>8, <1>9, <1>11, <1>12, <1>13 DEF AInv

\* A list, or a run, is answered: the choice is previewed again.
LEMMA AnswerPreviews ==
  ASSUME AInv, NEW req \in areqs, Previews(apage', areqs \ {req}),
         apage' \in PoolPage, apage'.pool <= amade, Made(amade, apage'.pools),
         apage'.pool # NoPool => apage'.pools[apage'.pool] # Gone,
         NEW theirs \in SUBSET ahist.theirs,
         \/ theirs = ahist.theirs
         \/ \A r \in areqs \ {req} : r.by = "page" => r.kind = "preview",
         ahist' = [ahist EXCEPT !.asked = ahist.asked \/ Previewing(areqs),
                                !.theirs = theirs],
         UNCHANGED <<Others, apools, amade>>, PageShown',
         req.kind # "preview"
  PROVE  AInv'
<1>1. PICK new : /\ areqs' = (areqs \ {req}) \cup {new} /\ RequestWell(amade, new)
                 /\ new.kind = "preview" /\ new.by = "page" /\ new.at = "sent"
                 /\ Fits(apage', new)
  BY PreviewComes
<1>3. /\ ahist' \in [named : BOOLEAN, mixed : BOOLEAN, asked : BOOLEAN, theirs : SUBSET Pools]
      /\ ahist'.named = ahist.named /\ ahist'.mixed = ahist.mixed
      /\ ahist'.asked = (ahist.asked \/ Previewing(areqs)) /\ ahist'.theirs = theirs
  <2>1. Previewing(areqs) \in BOOLEAN  BY DEF Previewing
  <2>2. theirs \in SUBSET Pools  BY DEF AInv, ServerWell
  <2> QED  BY <2>1, <2>2 DEF AInv, ServerWell
<1>4. RequestsWell' /\ Cardinality(Pending') <= Cardinality(Pending)
  BY <1>1, RequestMoves DEF AInv, ServerWell
<1>5. ServerWell'  BY <1>3, <1>4, PendingFinite, ServerStays DEF Others
<1>6. PoolPageWell'  BY DEF PoolPageWell, Made
<1>7. NamesApart'  BY <1>1, <1>3, NamesStay DEF Looking
<1>8. Spread'  BY <1>1, SpreadStays DEF Others
<1>10. RequestsShown'
  <2>1. CASE theirs = ahist.theirs
    <3>1. NoneChanged  BY <1>3, <2>1 DEF NoneChanged
    <3> QED  BY <1>1, <1>3, <3>1, RequestsShownStay
  <2>2. CASE \A r \in areqs \ {req} : r.by = "page" => r.kind = "preview"
    <3>1. \A r \in areqs' : r.kind # "preview" =>
            r \in areqs /\ r.by = "other" /\ RequestWell(amade, r)
      BY <1>1, <2>2 DEF AInv, RequestsWell, RequestWell, Asked
    <3>2. NoPool \notin ahist.theirs  BY DEF AInv, ServerWell, NoPool, Pools
    <3>3. \A r \in areqs' : r.at # "listed"
      BY <1>1, <3>1 DEF AInv, RequestsWell, RequestWell
    <3>4. OfPage("pool")' = {}  BY <3>1 DEF OfPage
    <3>5. ASSUME NEW r \in areqs', r.kind = "run", ~ahist.mixed
          PROVE  RunShown(ahist'.theirs, apools', r)
      <4>1. r \in areqs /\ r.pool = NoPool  BY <3>1, <3>5 DEF RequestWell
      <4>2. RunShown(ahist.theirs, apools, r)  BY <3>5, <4>1 DEF AInv, RequestsShown
      <4> QED  BY <3>2, <4>1, <4>2 DEF RunShown, Same
    <3> QED  BY <1>3, <3>3, <3>4, <3>5 DEF RequestsShown
  <2> QED  BY <2>1, <2>2
<1>12. PreviewsFit'
  <2>1. CASE ahist'.asked  BY <2>1 DEF PreviewsFit
  <2>2. CASE ~ahist'.asked
    <3>1. \A r \in areqs' : r.kind = "preview" => r = new
      BY <1>1, <1>3, <2>2 DEF Previewing
    <3>2. Previewing(areqs')  BY <1>1 DEF Previewing
    <3> QED  BY <1>1, <3>1, <3>2 DEF PreviewsFit
  <2> QED  BY <2>1, <2>2
<1> QED
  BY <1>4, <1>5, <1>6, <1>7, <1>8, <1>10, <1>12 DEF AInv

LEMMA ARanKeeps ==
  ASSUME AInv, NEW req \in areqs, ARan(req)
  PROVE  AInv'
<1>0. /\ req.kind = "run" /\ Previews(apage, areqs \ {req}) /\ apage' = apage
      /\ ahist' = [ahist EXCEPT !.asked = ahist.asked \/ Previewing(areqs)]
      /\ UNCHANGED <<Others, apools, amade>>
  BY DEF ARan
<1>1. /\ apage \in PoolPage /\ Made(amade, apage.pools) /\ apage.pool <= amade
      /\ apage.pool # NoPool => apage.pools[apage.pool] # Gone
  BY DEF AInv, PoolPageWell
<1>2. PICK new : areqs' = (areqs \ {req}) \cup {new} /\ new.kind = "preview"
  BY <1>0, <1>1, PreviewComes
<1>3. Settled' => Settled  BY <1>0, <1>2 DEF Settled, OfPage
<1>4. NoneChanged  BY <1>0 DEF NoneChanged, AInv, ServerWell
<1>5. ahist'.mixed = ahist.mixed  BY <1>0 DEF AInv, ServerWell
<1>6. PageShown'  BY <1>0, <1>3, <1>4, <1>5, PageShownStays
<1>7. Previews(apage', areqs \ {req})  BY <1>0
<1>8. ahist' = [ahist EXCEPT !.asked = ahist.asked \/ Previewing(areqs),
                             !.theirs = ahist.theirs]
  BY <1>0 DEF AInv, ServerWell
<1> QED  BY <1>0, <1>1, <1>6, <1>7, <1>8, AnswerPreviews

LEMMA AListedKeeps ==
  ASSUME AInv, NEW req \in areqs, AListed(req)
  PROVE  AInv'
<1> DEFINE page == Listed(apage, req.pools)
<1>0. /\ req.at = "listed" /\ Previews(apage', areqs \ {req}) /\ RequestWell(amade, req)
      /\ apage' = IF req.kind = "drop" THEN page ELSE Applied(page, req.pool)
      /\ ahist' = [ahist EXCEPT !.asked = ahist.asked \/ Previewing(areqs),
                                !.theirs = Unread(apage', req)]
      /\ UNCHANGED <<Others, apools, amade>>
  BY DEF AListed, AInv, RequestsWell
<1>1. /\ req.kind \in {"pool", "drop"} /\ req.by = "page"
      /\ req.pool \in Pools \cup {NoPool} /\ req.pools \in [Pools -> PoolRecs]
      /\ Made(amade, req.pools)
      /\ req.kind = "pool" => req \in OfPage("pool")
  BY <1>0 DEF RequestWell, Asked, OfPage
<1>2. /\ apage \in PoolPage /\ apage.pool <= amade
  BY DEF AInv, PoolPageWell
<1>3. /\ page \in PoolPage /\ page.pools = req.pools /\ page.dirty = apage.dirty
      /\ page.sel = apage.sel /\ page.pool <= amade /\ page.pool \in {apage.pool, NoPool}
      /\ page.pool # NoPool => req.pools[page.pool] # Gone
  BY <1>1, <1>2, ListedWell
<1> HIDE DEF page
<1>4. /\ apage' \in PoolPage /\ apage'.pools = req.pools /\ apage'.pool <= amade
      /\ apage'.pool # NoPool => req.pools[apage'.pool] # Gone
      /\ req.kind = "drop" => apage' = page
      /\ req.kind = "pool" => \/ apage'.pool = NoPool
                              \/ apage'.sel = req.pools[apage'.pool].sel
  <2>1. CASE req.kind = "drop"  BY <1>0, <1>3, <2>1
  <2>2. CASE req.kind = "pool"
    <3>1. apage' = Applied(page, req.pool)  BY <1>0, <2>2
    <3> QED  BY <1>1, <1>3, <2>2, <3>1, AppliedWell
  <2> QED  BY <1>1, <2>1, <2>2
<1>5. PICK new : areqs' = (areqs \ {req}) \cup {new} /\ new.kind = "preview"
  BY <1>0, <1>4, PreviewComes
<1>6. /\ ahist'.mixed = ahist.mixed /\ ahist'.theirs = Unread(apage', req)
      /\ apools' = apools
  BY <1>0 DEF AInv, ServerWell
<1>8. /\ Unread(apage', req) \in SUBSET ahist.theirs
      /\ \/ Unread(apage', req) = ahist.theirs
         \/ \A r \in areqs \ {req} : r.by = "page" => r.kind = "preview"
      /\ \A p \in ahist.theirs \ Unread(apage', req) :
           /\ apools[p] \in {Gone, req.pools[p]}
           /\ p = apage'.pool => apools[p] = Gone \/ apools[p].sel = apage'.sel
  BY DEF Unread
<1>7. PageShown'
  <2> SUFFICES ASSUME ~ahist.mixed
               PROVE  /\ KnownAs(ahist'.theirs, apools, apage'.pools)
                      /\ ~apage'.dirty => Same(ahist'.theirs, apools, apage'.pool, apage'.sel)
    BY <1>6 DEF PageShown
  <2>1. KnownAs(ahist.theirs, apools, req.pools)  BY <1>0 DEF AInv, RequestsShown
  <2>4. KnownAs(ahist'.theirs, apools, apage'.pools)
    BY <1>4, <1>6, <1>8, <2>1 DEF KnownAs
  <2>5. SUFFICES ASSUME ~apage'.dirty
                 PROVE  Same(ahist.theirs, apools, apage'.pool, apage'.sel)
    BY <1>6, <1>8, <2>4 DEF Same
  <2>2. CASE req.kind = "pool"
    BY <1>4, <2>1, <2>2 DEF KnownAs, Same, PoolPage
  <2>3. CASE req.kind = "drop"
    <3>1. req \in OfPage("drop")  BY <1>1, <2>3 DEF OfPage
    <3>2. Settled  BY <3>1 DEF AInv, RequestsShown, Settled
    <3>3. ~apage.dirty => Same(ahist.theirs, apools, apage.pool, apage.sel)
      BY <3>2 DEF AInv, PageShown
    <3> QED  BY <1>3, <1>4, <2>3, <2>5, <3>3 DEF Same
  <2> QED  BY <1>1, <2>2, <2>3
<1> QED  BY <1>0, <1>1, <1>4, <1>7, <1>8, AnswerPreviews

\* A request that ends: an answer to nobody, a preview, a refusal, a failure.
LEMMA EndKeeps ==
  ASSUME AInv, NEW req \in areqs, areqs' = areqs \ {req},
         UNCHANGED <<adevs, aoff, abusy, aload, apools, amade, aruns, aacts>>,
         ahist' \in [named : BOOLEAN, mixed : BOOLEAN, asked : BOOLEAN, theirs : SUBSET Pools],
         ahist'.named = ahist.named, ahist.mixed => ahist'.mixed, ahist'.theirs = ahist.theirs,
         req.by = "page" /\ req.kind = "pool" => req.at = "refused" \/ ahist'.mixed,
         apage' \in PoolPage, apage'.pool = apage.pool, apage'.sel = apage.sel,
         apage'.dirty = apage.dirty, apage'.pools = apage.pools, PreviewsFit'
  PROVE  AInv'
<1>1. RequestsWell' /\ Cardinality(Pending') <= Cardinality(Pending)
  BY RequestGoes
<1>2. ServerWell'  BY <1>1, PendingFinite, ServerStays
<1>3. PoolPageWell'  BY DEF AInv, PoolPageWell, Made
<1>4. NamesApart'  BY NamesStay
<1>5. Spread'  BY SpreadStays
<1>6. NoneChanged  BY DEF NoneChanged
<1>7. RequestsShown'  BY <1>6, RequestsShownStay
<1>8. PageShown'
  <2>1. Settled' => Settled \/ ahist'.mixed
    BY DEF Settled, OfPage, Unsaved
  <2> QED  BY <1>6, <2>1, PageShownStays
<1> QED  BY <1>1, <1>2, <1>3, <1>4, <1>5, <1>7, <1>8 DEF AInv

LEMMA APreviewedKeeps ==
  ASSUME AInv, NEW req \in areqs, APreviewed(req)
  PROVE  AInv'
<1>0. /\ req.kind = "preview" /\ areqs' = areqs \ {req} /\ RequestWell(amade, req)
      /\ apage' = [apage EXCEPT !.seen = [pool |-> req.pool, sel |-> req.sel]]
      /\ UNCHANGED <<Others, apools, amade, ahist>>
  BY DEF APreviewed, AInv, RequestsWell
<1>1. apage \in PoolPage /\ req.pool \in Pools \cup {NoPool} /\ req.sel \in Selectors
      /\ req.at = "sent"
  BY <1>0 DEF AInv, PoolPageWell, RequestWell, Asked
<1>2. /\ apage' \in PoolPage /\ apage'.pool = apage.pool /\ apage'.sel = apage.sel
      /\ apage'.dirty = apage.dirty /\ apage'.pools = apage.pools
      /\ apage'.seen.pool = req.pool /\ apage'.seen.sel = req.sel
  BY <1>0, <1>1 DEF PoolPage
<1>3. PreviewsFit'
  <2>1. Listing => Listing'  BY <1>0, <1>1 DEF Listing
  <2>2. CASE ahist.asked \/ Listing  BY <1>0, <2>1, <2>2 DEF PreviewsFit
  <2>3. CASE ~ahist.asked /\ ~Listing
    <3>1. \A r \in areqs : r.kind = "preview" => Fits(apage, r)
      BY <2>3 DEF AInv, PreviewsFit
    <3>2. \A r \in areqs' : r.kind = "preview" => Fits(apage', r)
      BY <1>0, <1>2, <3>1 DEF Fits
    <3>3. Fits(apage', apage'.seen)  BY <1>0, <1>2, <3>1 DEF Fits
    <3> QED  BY <3>2, <3>3 DEF PreviewsFit
  <2> QED  BY <2>2, <2>3
<1> QED
  BY <1>0, <1>2, <1>3, EndKeeps DEF Others, AInv, ServerWell

LEMMA AFailsKeeps ==
  ASSUME AInv, NEW req \in areqs, AFails(req)
  PROVE  AInv'
<1> DEFINE m == req.by = "page" /\ req.kind \in {"pool", "drop"} /\ req.at # "refused"
           k == req.kind = "preview" \/ req.at \in {"list", "listed"}
<1>0. /\ areqs' = areqs \ {req}
      /\ ahist' = [ahist EXCEPT !.mixed = ahist.mixed \/ m, !.asked = ahist.asked \/ k]
      /\ UNCHANGED <<adevs, aoff, abusy, aload, apools, amade, apage, aruns, aacts>>
  BY DEF AFails
<1>1. m \in BOOLEAN /\ k \in BOOLEAN  OBVIOUS
<1>2. /\ req.by = "page" /\ req.kind = "pool" => req.at = "refused" \/ m
      /\ ~k => req.kind # "preview" /\ req.at \notin {"list", "listed"}
  OBVIOUS
<1> HIDE DEF m, k
<1>3. /\ ahist' \in [named : BOOLEAN, mixed : BOOLEAN, asked : BOOLEAN, theirs : SUBSET Pools]
      /\ ahist'.named = ahist.named /\ ahist'.mixed = (ahist.mixed \/ m)
      /\ ahist'.asked = (ahist.asked \/ k) /\ ahist'.theirs = ahist.theirs
  BY <1>0, <1>1 DEF AInv, ServerWell
<1>4. PreviewsFit'
  <2>1. Listing => Listing' \/ ahist'.asked  BY <1>0, <1>2, <1>3 DEF Listing
  <2>2. Previewing(areqs) => Previewing(areqs') \/ ahist'.asked
    BY <1>0, <1>2, <1>3 DEF Previewing
  <2> QED  BY <1>0, <1>3, <2>1, <2>2, PreviewsStay
<1> QED  BY <1>0, <1>2, <1>3, <1>4, EndKeeps DEF AInv, PoolPageWell

LEMMA AOtherAnsweredKeeps ==
  ASSUME AInv, NEW req \in areqs, AOtherAnswered(req)
  PROVE  AInv'
<1>0. /\ req.by = "other" /\ req.at = "stored" /\ areqs' = areqs \ {req} /\ Stays
      /\ RequestWell(amade, req)
  BY DEF AOtherAnswered, AInv, RequestsWell
<1>1. PreviewsFit'
  <2>1. Listing => Listing'  BY <1>0 DEF Listing
  <2>2. Previewing(areqs) => Previewing(areqs')
    BY <1>0 DEF Previewing, RequestWell
  <2> QED  BY <1>0, <2>1, <2>2, PreviewsStay DEF Stays
<1> QED
  BY <1>0, <1>1, EndKeeps DEF Stays, Others, AInv, PoolPageWell, ServerWell

LEMMA AStepKeeps == AInv /\ [ANext]_aVars => AInv'
<1> SUFFICES ASSUME AInv, [ANext]_aVars PROVE AInv'
  OBVIOUS
<1>1. ASSUME AOperator PROVE AInv'
  BY <1>1, ASelectKeeps, AFieldsKeeps, ANameKeeps, ASaveKeeps, ADeleteKeeps, ARunKeeps,
     AOtherKeeps DEF AOperator
<1>2. ASSUME NEW req \in areqs, AServer(req) \/ AAnswer(req) PROVE AInv'
  BY <1>2, AChecksKeeps, AStoresKeeps, ADropsKeeps, AResolvesKeeps, ALooksKeeps, ACreatesKeeps,
     AStoredKeeps, AReadsKeeps, AListedKeeps, ARanKeeps, APreviewedKeeps, AFailsKeeps,
     AOtherAnsweredKeeps DEF AServer, AAnswer
<1>3. CASE UNCHANGED aVars
  <2>1. ServerWell' /\ RequestsWell' /\ PoolPageWell'
    BY <1>3 DEF aVars, AInv, ServerWell, RequestsWell, OfPage, PoolPageWell, Made, Pending
  <2>2. NamesApart' /\ Spread'  BY <1>3 DEF aVars, AInv, NamesApart, Spread, ASpread
  <2>3. RequestsShown' /\ PageShown' /\ PreviewsFit'
    BY <1>3 DEF aVars, AInv, RequestsShown, PageShown, PreviewsFit, Listing, Settled, OfPage
  <2> QED  BY <2>1, <2>2, <2>3 DEF AInv
<1> QED  BY <1>1, <1>2, <1>3, AEndsKeeps, ADeviceKeeps DEF ANext

\* Names are one pool's and devices one run's but for looks that cross, a run from a
\* saved pool takes a device that the page shows, and the preview is of what is shown,
\* for any number of devices, pools, requests and faults (allocation-routes.ts:68-200,
\* automations.ts:264-364, 861-936, 1053-1068).
THEOREM PoolsAreAsShown == ASpec => []ASafe
<1> QED  BY AInitHolds, AStepKeeps, PoolsSafe, PTL DEF ASpec
=============================================================================
