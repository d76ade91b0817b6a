--------------------------- MODULE RemoteControl ---------------------------
(***************************************************************************)
(* Remote control of one phone: the cache of control clients               *)
(* (devices/registry-remote.ts), the Appium session a client shares between *)
(* its callers (devices/appium-remote.ts, appium-driver.ts) and the client  *)
(* that talks to WebDriverAgent itself (devices/wda-remote.ts).             *)
(*                                                                          *)
(* A caller is one HTTP request.  Between two of its awaits it runs alone;  *)
(* what comes back from a file, from Appium or from the phone is a step of  *)
(* its own.  Every client is built from the phone's entry in devices.json,  *)
(* of which the model keeps the version.                                    *)
(***************************************************************************)
EXTENDS Integers, Sequences, FiniteSets

CONSTANTS Callers,         \* requests at one time
          RemoteCalls,     \* requests in all
          RemoteForgets,   \* bound of rgen
          RemoteTroubles   \* changes of the entry, and sessions, answers, turns and deletions lost

VARIABLES
  rentry,    \* [ver, backend]: the entry; no backend: not registered
  rgen,      \* generations: how often the cache was told to forget
  rforgot,   \* the newest version the cache was told to forget
  rcached,   \* controls: the client in use, 0 for none
  rbuild,    \* builds: the build under way, 0 for none
  rclient,   \* the clients built so far: [gen, ver, backend, driver, size], size: cachedScreenInfo
  rsession,  \* the Appium sessions so far: [state, drop]
  rcall,     \* the requests
  rphone,    \* the orientation of the phone
  rstray,    \* a client was used, or a session could not be deleted, after it was forgotten
  rcrossed,  \* history: a screen size was being read while the phone was turned, or
             \* the answer to a turn was lost
  rcount     \* [calls, troubles]: bounds

entryVars == <<rentry, rgen, rforgot>>
cacheVars == <<rcached, rbuild>>
screenVars == <<rphone, rcrossed>>
rVars == <<entryVars, cacheVars, rclient, rsession, rcall, screenVars, rstray, rcount>>

\* What is asked for; to Appium a size is one more read and a turn one more input.
Kinds(backend) == IF backend = "wda" THEN {"tap", "size", "turn"} ELSE {"tap", "look"}
NoRequest == [pc |-> "idle", kind |-> "look", client |-> 0, session |-> 0, since |-> 0,
           retried |-> FALSE, runs |-> 0, lost |-> FALSE, saw |-> "none"]
Orientations == {"portrait", "landscape"}

RInit ==
  /\ rentry \in [ver : {0}, backend : {"wda", "appium"}]
  /\ rgen = 0 /\ rforgot = 0 /\ rcached = 0 /\ rbuild = 0
  /\ rclient = <<>> /\ rsession = <<>>
  /\ rcall = [c \in Callers |-> NoRequest]
  /\ rphone = "portrait"
  /\ rstray = FALSE /\ rcrossed = FALSE
  /\ rcount = [calls |-> 0, troubles |-> 0]

Put(c, rec) == rcall' = [rcall EXCEPT ![c] = rec]
RGoes(c, pc) == Put(c, [rcall[c] EXCEPT !.pc = pc])
Done(c) == rcall' = [rcall EXCEPT ![c] = NoRequest]
RTrouble == rcount.troubles < RemoteTroubles /\ rcount' = [rcount EXCEPT !.troubles = @ + 1]

-----------------------------------------------------------------------------
(* The cache of clients.                                                   *)

\* control(): the cached client, the build under way, or a new build; `next` is
\* the build there is and `rec` the request.
Looked(c, rec, next) ==
  IF rcached # 0
  THEN Put(c, [rec EXCEPT !.pc = "use", !.client = rcached]) /\ rbuild' = next /\ UNCHANGED rclient
  ELSE LET b == IF next = 0 THEN Len(rclient) + 1 ELSE next IN
       /\ rbuild' = b /\ Put(c, [rec EXCEPT !.pc = "build", !.client = b])
       /\ rclient' = IF next # 0 THEN rclient
            ELSE Append(rclient, [gen |-> rgen, ver |-> -1, backend |-> "none", driver |-> 0, size |-> "none"])

RCall(c) ==
  /\ rcall[c].pc = "idle" /\ rcount.calls < RemoteCalls
  /\ rcount' = [rcount EXCEPT !.calls = @ + 1]
  /\ \E k \in Kinds(rentry.backend) : Looked(c, [NoRequest EXCEPT !.kind = k, !.since = rforgot], rbuild)
  /\ UNCHANGED <<entryVars, rcached, rsession, screenVars, rstray>>

\* buildControl: the registry is read, or cannot be.
RRead(b) ==
  /\ rclient[b].ver = -1
  /\ \/ rclient' = [rclient EXCEPT ![b].ver = rentry.ver, ![b].backend = rentry.backend] /\ UNCHANGED rcount
     \/ rclient' = [rclient EXCEPT ![b].ver = rentry.ver, ![b].backend = "failed"] /\ RTrouble
  /\ UNCHANGED <<entryVars, cacheVars, rsession, rcall, screenVars, rstray>>

\* A build is good for the generation it was started in.
IsCurrentSlip(b) == TRUE
IsCurrent(b) == rclient[b].gen = rgen

\* The build has ended.  One that failed stays in `builds`, and fails whoever
\* asks later; else start again when the cache was told to forget meanwhile, or
\* use the client and cache it, unless another caller did.
RBuilt(c) ==
  LET b == rcall[c].client
      next == IF rbuild = b THEN 0 ELSE rbuild
      unbuilt == rclient[b].backend = "failed" IN
  /\ rcall[c].pc = "build" /\ rclient[b].ver # -1
  /\ \/ unbuilt /\ Done(c) /\ UNCHANGED <<cacheVars, rclient>>
     \/ ~unbuilt /\ ~IsCurrent(b) /\ Looked(c, rcall[c], next) /\ UNCHANGED rcached
     \/ /\ ~unbuilt /\ IsCurrent(b) /\ rclient[b].backend = "none"
        /\ rbuild' = next /\ Done(c) /\ UNCHANGED <<rcached, rclient>>
     \/ /\ ~unbuilt /\ IsCurrent(b) /\ rclient[b].backend # "none"
        /\ rbuild' = next /\ rcached' = IF rcached = 0 THEN b ELSE rcached
        /\ Put(c, [rcall[c] EXCEPT !.pc = "use", !.client = rcached'])
        /\ UNCHANGED rclient
  /\ UNCHANGED <<entryVars, rsession, screenVars, rstray, rcount>>

\* The entry is changed or removed; the cache is told in a step of its own.
RChange ==
  /\ RTrouble
  /\ \E k \in {"none", rentry.backend} : rentry' = [ver |-> rentry.ver + 1, backend |-> k]
  /\ UNCHANGED <<rgen, rforgot, cacheVars, rclient, rsession, rcall, screenVars, rstray>>

\* forget(), after a change or by the reconnect route: the client's session is
\* deleted once it is there.
RForget ==
  /\ rforgot < rentry.ver \/ rcached # 0
  /\ rgen < RemoteForgets /\ rgen' = rgen + 1
  /\ rforgot' = rentry.ver
  /\ rcached' = 0
  /\ LET s == IF rcached = 0 THEN 0 ELSE rclient[rcached].driver IN
     /\ rsession' = [i \in DOMAIN rsession |-> IF i = s THEN [rsession[i] EXCEPT !.drop = TRUE] ELSE rsession[i]]
     /\ rclient' = [i \in DOMAIN rclient |-> IF i = rcached THEN [rclient[i] EXCEPT !.driver = 0] ELSE rclient[i]]
  /\ UNCHANGED <<rentry, rbuild, rcall, screenVars, rstray, rcount>>

-----------------------------------------------------------------------------
(* The Appium session.                                                     *)

Acts(c, s) == Put(c, [rcall[c] EXCEPT !.pc = "act", !.session = s])

\* driver(): the client's session, or a new one.
Driver(c) ==
  LET k == rcall[c].client
      s == rclient[k].driver IN
  IF s # 0
  THEN Acts(c, s) /\ UNCHANGED <<rclient, rsession, rstray>>
  ELSE /\ rsession' = Append(rsession, [state |-> "opening", drop |-> FALSE])
       /\ rclient' = [rclient EXCEPT ![k].driver = Len(rsession) + 1]
       /\ Acts(c, Len(rsession) + 1)
       /\ rstray' = (rstray \/ rcached # k)

RUse(c) ==
  /\ rcall[c].pc = "use" /\ rclient[rcall[c].client].backend = "appium"
  /\ Driver(c)
  /\ UNCHANGED <<entryVars, cacheVars, screenVars, rcount>>

\* A session that could not be had is given up: the next caller tries again.
Unhad(s) ==
  [k \in DOMAIN rclient |-> IF rclient[k].driver = s THEN [rclient[k] EXCEPT !.driver = 0] ELSE rclient[k]]
ROpened(s) ==
  /\ rsession[s].state = "opening"
  /\ \/ /\ rsession' = [rsession EXCEPT ![s].state = "live"]
        /\ UNCHANGED <<rclient, rcount>>
     \/ /\ RTrouble
        /\ rsession' = [rsession EXCEPT ![s].state = "failed"]
        /\ rclient' = Unhad(s)
  /\ UNCHANGED <<entryVars, cacheVars, rcall, screenVars, rstray>>

\* deleteSession of a forgotten session; of a lost one it does nothing.
RDropped(s) ==
  /\ rsession[s].drop /\ rsession[s].state # "opening"
  /\ rsession' = [rsession EXCEPT ![s] = [state |-> IF @.state = "live" THEN "closed" ELSE @.state, drop |-> FALSE]]
  /\ UNCHANGED <<entryVars, cacheVars, rclient, rcall, screenVars, rstray, rcount>>

\* The phone or Appium ends a session.
RSessionLost ==
  /\ RTrouble
  /\ \E s \in DOMAIN rsession :
       rsession[s].state = "live" /\ rsession' = [rsession EXCEPT ![s].state = "closed"]
  /\ UNCHANGED <<entryVars, cacheVars, rclient, rcall, screenVars, rstray>>

\* A read is tried once more after a lost answer, an input only when its
\* session is gone.
MayRetry(c, gone) == ~rcall[c].retried /\ (gone \/ rcall[c].kind # "tap")

\* withDriver's second attempt: the client's session is given up, unless
\* another caller has a new one already, and deleted.
GivenUp(c) == rclient[rcall[c].client].driver = rcall[c].session

Again(c, gone, ran) ==
  IF MayRetry(c, gone)
  THEN /\ rclient' = [rclient EXCEPT ![rcall[c].client].driver = IF GivenUp(c) THEN 0 ELSE @]
       /\ Put(c, [rcall[c] EXCEPT !.pc = "delete", !.retried = TRUE, !.runs = ran, !.lost = @ \/ gone])
  ELSE Done(c) /\ UNCHANGED rclient

\* When the session is there: one command.  A tap is two, the gesture and the
\* release of the finger.  In a session that is gone it fails; its answer can be
\* lost after it was done.
RCommand(c) ==
  /\ rcall[c].pc \in {"act", "release"} /\ rclient[rcall[c].client].backend = "appium"
  /\ LET st == rsession[rcall[c].session].state
         alive == st = "live"
         gesture == rcall[c].pc = "act" /\ rcall[c].kind = "tap"
         ran == rcall[c].runs + (IF gesture THEN 1 ELSE 0) IN
     \/ st = "failed" /\ Done(c) /\ UNCHANGED <<rclient, rcount>>
     \/ st = "closed" /\ Again(c, TRUE, rcall[c].runs) /\ UNCHANGED rcount
     \/ alive /\ RTrouble /\ Again(c, FALSE, ran)
     \/ /\ alive /\ UNCHANGED <<rclient, rcount>>
        /\ IF gesture THEN Put(c, [rcall[c] EXCEPT !.pc = "release", !.runs = ran]) ELSE Done(c)
  /\ UNCHANGED <<entryVars, cacheVars, rsession, screenVars, rstray>>

\* The old session is deleted; that may fail.
RDeleted(c) ==
  /\ rcall[c].pc = "delete"
  /\ LET s == rcall[c].session IN
     \/ /\ rsession' = [rsession EXCEPT ![s].state = "closed"] /\ UNCHANGED <<rstray, rcount>>
     \/ /\ rsession[s].state = "live" /\ RTrouble /\ rstray' = TRUE /\ UNCHANGED rsession
  /\ RGoes(c, "use")
  /\ UNCHANGED <<entryVars, cacheVars, rclient, screenVars>>

-----------------------------------------------------------------------------
(* WebDriverAgent without a session.                                       *)

Direct(c) == rcall[c].client # 0 /\ rclient[rcall[c].client].backend = "wda"
Size(c) == rclient[rcall[c].client].size
Sized(c, size) == rclient' = [rclient EXCEPT ![rcall[c].client].size = size]

\* GET /wda/screen, for the size itself or for the bounds of a tap; a tap uses
\* the size the client has.
RSize(c) ==
  /\ rcall[c].pc = "use" /\ Direct(c)
  /\ rcall[c].kind = "size" \/ (rcall[c].kind = "tap" /\ Size(c) = "none")
  /\ Put(c, [rcall[c] EXCEPT !.pc = "size", !.saw = rphone])
  /\ UNCHANGED <<entryVars, cacheVars, rclient, rsession, screenVars, rstray, rcount>>
RSized(c) ==
  /\ rcall[c].pc = "size"
  /\ \/ /\ Sized(c, rcall[c].saw) /\ UNCHANGED rcount
        /\ IF rcall[c].kind = "size" THEN Done(c) ELSE RGoes(c, "touch")
     \/ RTrouble /\ Done(c) /\ UNCHANGED rclient
  /\ UNCHANGED <<entryVars, cacheVars, rsession, screenVars, rstray>>

\* The touch is sent, within those bounds; other requests go straight to the phone.
\* The request is over whether or not that fails.
RTouch(c) ==
  /\ Direct(c) /\ rcall[c].kind \in {"tap", "look"}
  /\ \/ rcall[c].pc = "touch"
     \/ rcall[c].pc = "use" /\ (rcall[c].kind = "tap" => Size(c) # "none")
  /\ Done(c)
  /\ UNCHANGED <<entryVars, cacheVars, rclient, rsession, screenVars, rstray, rcount>>

\* POST /orientation: the phone turns, or does not and the request fails.
RTurn(c) ==
  /\ rcall[c].pc = "use" /\ Direct(c) /\ rcall[c].kind = "turn"
  /\ \/ rphone' \in Orientations /\ RGoes(c, "turned") /\ UNCHANGED rcount
     \/ RTrouble /\ Done(c) /\ UNCHANGED rphone
  /\ UNCHANGED <<entryVars, cacheVars, rclient, rsession, rcrossed, rstray>>

\* When it has answered the size is forgotten.  The answer may not come in time, or be
\* an error, although the phone has turned or will: then the size is kept.
Forgotten(c) == Sized(c, "none")
RTurned(c) ==
  /\ rcall[c].pc = "turned"
  /\ \/ /\ Forgotten(c) /\ UNCHANGED rcount
        /\ rcrossed' = (rcrossed \/ rcall[c].client # rcached \/ \E d \in Callers : rcall[d].pc = "size")
     \/ RTrouble /\ rcrossed' = TRUE /\ UNCHANGED rclient
  /\ Done(c)
  /\ UNCHANGED <<entryVars, cacheVars, rsession, rphone, rstray>>

-----------------------------------------------------------------------------
RStep(c) ==
  RBuilt(c) \/ RUse(c) \/ RCommand(c) \/ RDeleted(c)
  \/ RSize(c) \/ RSized(c) \/ RTouch(c) \/ RTurn(c) \/ RTurned(c)
RServed == (\E b \in DOMAIN rclient : RRead(b)) \/ (\E s \in DOMAIN rsession : ROpened(s) \/ RDropped(s))
RNext == (\E c \in Callers : RCall(c) \/ RStep(c)) \/ RServed \/ RChange \/ RForget \/ RSessionLost

RSpec == RInit /\ [][RNext]_rVars

-----------------------------------------------------------------------------
\* Types of the state; a session that could not be had is nobody's.
RTypeOK ==
  /\ rcached \in 0..Len(rclient) /\ rbuild \in 0..Len(rclient)
  /\ \A k \in DOMAIN rclient :
       /\ rclient[k].gen <= rgen
       /\ rclient[k].driver \in {0} \cup {s \in DOMAIN rsession : rsession[s].state # "failed"}
  /\ \A c \in Callers : rcall[c].client \in 0..Len(rclient) /\ rcall[c].runs \in 0..2
  /\ \A k \in DOMAIN rclient : rclient[k].size \in Orientations \cup {"none"}

\* "Forget the cached client so the next call rebuilds it from devices.json": no
\* request is served by a client built from an entry older than the one the
\* cache had been told to forget when the request came, however builds and
\* changes cross (registry-remote.ts:24-57).
RFreshClient ==
  \A c \in Callers :
    rcall[c].pc \in {"use", "act", "release", "delete", "size", "touch", "turned"}
      => rclient[rcall[c].client].ver >= rcall[c].since

\* At rest no Appium session is left running that the cache does not know:
\* whatever sessions were lost, forgotten or opened by several callers at once,
\* unless a request went on with a forgotten client or a deletion failed
\* (appium-remote.ts:24-67).
RNoStraySession ==
  (~rstray /\ \A c \in Callers : rcall[c].pc = "idle")
    => \A s \in DOMAIN rsession :
         rsession[s].state = "live" /\ ~rsession[s].drop => rcached # 0 /\ rclient[rcached].driver = s

\* A tap runs a second time only when its session had gone before it was over;
\* never because an answer was late (appium-remote.ts:51-62, 148-177).
RTapOnce == \A c \in Callers : rcall[c].runs > 1 => rcall[c].lost

\* At rest the size a tap is checked against is the phone's, whatever requests fail,
\* unless it was being read while the phone was turned, or a turn was done whose
\* answer was lost: then the size is kept although the phone has another
\* (wda-remote.ts:178-188, 282-290, 318-322).
RSizeIsCurrent ==
  (rcached # 0 /\ ~rcrossed /\ \A c \in Callers : rcall[c].pc # "turned")
    => rclient[rcached].size \in {"none", rphone}

\* The remote control of a phone, however requests, failures and changes cross: the
\* client is of the current entry, its session is known and its size the phone's, and a
\* tap runs once (registry-remote.ts:24-57, appium-remote.ts:24-67, wda-remote.ts:178-322).
RSafe == RTypeOK /\ RFreshClient /\ RNoStraySession /\ RTapOnce /\ RSizeIsCurrent

\* "Forget the cached client so the next call rebuilds it from devices.json": nor
\* is a request answered by the failure of a build that began before the cache was
\* told to forget (registry-remote.ts:21-41).
RForgetRebuilds ==
  [][\A c \in Callers :
       rcall[c].pc = "build" /\ rcall'[c].pc # "build"
         => rclient[rcall[c].client].ver >= rcall[c].since]_rVars
=============================================================================
