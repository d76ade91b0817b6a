----------------------------- MODULE RemoteView -----------------------------
(***************************************************************************)
(* What a remote user sees: the live streams of api/remote-routes.ts, of   *)
(* which the fleet page may have one, and the semantic snapshots whose     *)
(* references an agent taps (semantic/snapshot.ts, semantic/controller.ts). *)
(*                                                                          *)
(* A step is what a request does between two awaits.                       *)
(***************************************************************************)
EXTENDS Integers, FiniteSets

CONSTANTS Viewers,       \* requests for a stream
          Agents,        \* requests that read or use snapshots
          MaxGeneration  \* bound of xgen

ASSUME RemoteViewAssumption == "none" \notin Viewers /\ MaxGeneration \in Nat

VARIABLES
  vlease,    \* fleetStreamLease: its viewer, or "none"
  vstream,   \* the requests: [pc, fleet, behind, aborted, left]
  vcrossed,  \* two requests waited for the end of the same stream
  xgen,      \* generation of the phone's snapshot state
  xstored,   \* does that state hold the references of a snapshot
  xagent,    \* the requests: [pc, gen, floor, sent]
  xknown,    \* generations an agent was handed
  xfloor     \* the generation when the last answered input was sent

vVars == <<vlease, vstream, vcrossed>>
xVars == <<xgen, xstored, xagent, xknown, xfloor>>

NotAsked == [pc |-> "new", fleet |-> FALSE, behind |-> "none", aborted |-> FALSE, left |-> FALSE]
NoAgent == [pc |-> "idle", gen |-> 0, floor |-> 0, sent |-> 0]

VInit == vlease = "none" /\ vstream = [v \in Viewers |-> NotAsked] /\ vcrossed = FALSE
XInit == /\ xgen = 0 /\ xstored = FALSE /\ xagent = [a \in Agents |-> NoAgent]
         /\ xknown = {} /\ xfloor = 0

-----------------------------------------------------------------------------
(* GET /api/devices/:udid/remote/stream                                    *)

VSet(v, rec) == vstream' = [vstream EXCEPT ![v] = rec]
Waiting(w) == {v \in Viewers : vstream[v].pc = "behind" /\ vstream[v].behind = w}
Leave(lease, v) == IF lease = v THEN "none" ELSE lease

\* A stream for the fleet page first stops the one there is.  A missing or
\* expired capability is refused.
VAsk(v) ==
  /\ vstream[v].pc = "new"
  /\ \/ VSet(v, [NotAsked EXCEPT !.pc = "over"]) /\ UNCHANGED <<vlease, vcrossed>>
     \/ /\ VSet(v, [NotAsked EXCEPT !.pc = "connect"]) /\ UNCHANGED <<vlease, vcrossed>>
     \/ /\ vlease = "none" /\ vlease' = v
        /\ VSet(v, [NotAsked EXCEPT !.pc = "connect", !.fleet = TRUE]) /\ UNCHANGED vcrossed
     \/ /\ vlease # "none" /\ UNCHANGED vlease
        /\ vstream' = [vstream EXCEPT ![v] = [NotAsked EXCEPT !.pc = "behind", !.fleet = TRUE,
                                                              !.behind = vlease],
                                ![vlease].aborted = TRUE]
        /\ vcrossed' = (vcrossed \/ Waiting(vlease) # {})

\* The stream before it has not ended within two seconds.
VGivesUp(v) ==
  /\ vstream[v].pc = "behind" /\ VSet(v, [vstream[v] EXCEPT !.pc = "over"])
  /\ UNCHANGED <<vlease, vcrossed>>

\* The device's stream is there, unless it cannot be had or was aborted.  If the viewer
\* had left before, nobody reads it: what would give it back is never started.
VConnected(v) ==
  /\ vstream[v].pc = "connect"
  /\ \/ /\ ~vstream[v].aborted
        /\ VSet(v, [vstream[v] EXCEPT !.pc = IF vstream[v].left THEN "unread" ELSE "live"])
     \/ VSet(v, [vstream[v] EXCEPT !.pc = "finish"])
  /\ UNCHANGED <<vlease, vcrossed>>

\* The browser closes the connection; nobody listens for that while the request waits
\* for the stream before it.
VLeaves(v) ==
  /\ vstream[v].pc \in {"behind", "connect", "live"} /\ ~vstream[v].left
  /\ VSet(v, [vstream[v] EXCEPT !.left = TRUE, !.aborted = @ \/ vstream[v].pc # "behind"])
  /\ UNCHANGED <<vlease, vcrossed>>

\* The stream ends: it was aborted, or the phone ended it.  The device gets 350 ms to
\* notice.
EndsNow(v) == vstream[v].aborted
VEnds(v) ==
  /\ vstream[v].pc = "live" /\ EndsNow(v)
  /\ VSet(v, [vstream[v] EXCEPT !.pc = "finish"]) /\ UNCHANGED <<vlease, vcrossed>>
VBreaks(v) ==
  /\ vstream[v].pc = "live" /\ VSet(v, [vstream[v] EXCEPT !.pc = "finish"])
  /\ UNCHANGED <<vlease, vcrossed>>
\* A stream gives the lease back only if it has it; those that waited for its end
\* go on, and the last of them has the lease.
ReleasedSlip(v) == "none"
Released(v) == Leave(vlease, v)
VFinished(v) ==
  /\ vstream[v].pc = "finish"
  /\ vstream' = [w \in Viewers |-> IF w = v THEN [vstream[w] EXCEPT !.pc = "over"]
                               ELSE IF w \in Waiting(v) THEN [vstream[w] EXCEPT !.pc = "connect"]
                               ELSE vstream[w]]
  /\ \/ Waiting(v) = {} /\ vlease' = Released(v)
     \/ vlease' \in Waiting(v)
  /\ UNCHANGED vcrossed

VGoes(v) == VGivesUp(v) \/ VConnected(v) \/ VEnds(v) \/ VFinished(v)
VNext == \E v \in Viewers : VAsk(v) \/ VGoes(v) \/ VLeaves(v) \/ VBreaks(v)
VSpec == VInit /\ [][VNext]_vVars /\ \A v \in Viewers : WF_vVars(VGoes(v))

-----------------------------------------------------------------------------
(* Snapshots and inputs.                                                   *)

XSet(a, rec) == xagent' = [xagent EXCEPT ![a] = rec]

\* snapshotWithScreen: screen and tree are asked for, then stored.
XLook(a) ==
  /\ xagent[a].pc = "idle" /\ xgen < MaxGeneration
  /\ XSet(a, [NoAgent EXCEPT !.pc = "look"]) /\ UNCHANGED <<xgen, xstored, xknown, xfloor>>
XStored(a) ==
  /\ xagent[a].pc = "look"
  /\ xgen' = xgen + 1 /\ xstored' = TRUE
  /\ xknown' = xknown \cup {xgen + 1} /\ XSet(a, NoAgent) /\ UNCHANGED xfloor

\* resolve: a reference is good for the generation the state is in.
ResolvesSlip(g) == xstored
Resolves(g) == xstored /\ g = xgen

\* tapRef, tapText: the reference is resolved and the tap sent in one go.
XTap(a) ==
  /\ xagent[a].pc = "idle" /\ xgen < MaxGeneration
  /\ \E g \in xknown : /\ Resolves(g)
                       /\ XSet(a, [pc |-> "input", gen |-> g, floor |-> xfloor, sent |-> xgen])
  /\ UNCHANGED <<xgen, xstored, xknown, xfloor>>

\* remote/action, typeText: an input without a reference.
XInput(a) ==
  /\ xagent[a].pc = "idle" /\ xgen < MaxGeneration
  /\ XSet(a, [pc |-> "input", gen |-> xgen + 1, floor |-> xfloor, sent |-> xgen])
  /\ UNCHANGED <<xgen, xstored, xknown, xfloor>>

\* The input is done: the references are dropped, then it is answered.  One that
\* failed is answered at once.
XDone(a) ==
  /\ xagent[a].pc = "input"
  /\ \/ /\ xgen' = xgen + 1 /\ xstored' = FALSE
        /\ xfloor' = IF xagent[a].sent > xfloor THEN xagent[a].sent ELSE xfloor
     \/ UNCHANGED <<xgen, xstored, xfloor>>
  /\ XSet(a, NoAgent) /\ UNCHANGED xknown

XNext == \E a \in Agents : XLook(a) \/ XStored(a) \/ XTap(a) \/ XInput(a) \/ XDone(a)
XSpec == XInit /\ [][XNext]_xVars

-----------------------------------------------------------------------------
\* Types of the state; whoever holds the lease is asking for or sending a stream.
VTypeOK ==
  /\ vlease \in Viewers \cup {"none"}
  /\ vlease # "none" =>
       vstream[vlease].fleet /\ vstream[vlease].pc \in {"connect", "live", "finish", "unread"}

\* "one focused live stream" (README.md:39): the fleet page never has two streams
\* of devices open, unless two requests waited for the same one to end
\* (remote-routes.ts:121-187).
Open(v) == vstream[v].pc = "live" \/ (vstream[v].pc = "unread" /\ ~vstream[v].aborted)
VOneFocused ==
  vcrossed \/ Cardinality({v \in Viewers : vstream[v].fleet /\ Open(v)}) <= 1

\* The fleet's stream, whoever asks, leaves or gives up waiting: the lease is with
\* one that runs, and one at most is open (remote-routes.ts:112-196).
VSafe == VTypeOK /\ VOneFocused

\* In the end no stream is open that was replaced, or whose viewer has left at whatever
\* moment, except one whose viewer left while it waited for the stream before it: that
\* one keeps the lease for ever (remote-routes.ts:133-187).
VCloses ==
  <>[](\A v \in Viewers : vstream[v].aborted \/ vstream[v].left =>
         vstream[v].pc = "over" \/ (vstream[v].pc = "unread" /\ vstream[v].left))

\* Types of the state; only generations that were stored have been handed out.
XTypeOK ==
  /\ xgen \in Nat /\ xstored \in BOOLEAN
  /\ xfloor \in 0..xgen /\ xknown \subseteq 1..xgen

\* A reference handed out before an input was sent is not tapped any more once
\* that input has been answered, whichever snapshots and inputs crossed
\* (semantic/controller.ts:57-74, semantic/snapshot.ts:116-127, 209-218).
XStaleRefused == \A a \in Agents : xagent[a].pc = "input" => xagent[a].gen > xagent[a].floor

\* The references of a phone, whichever snapshots and inputs cross (snapshot.ts:116-218).
XSafe == XTypeOK /\ XStaleRefused
=============================================================================
