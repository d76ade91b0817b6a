---------------------------- MODULE Calibration -----------------------------
(***************************************************************************)
(* The touch points of a phone, which an operator calibrates on its page   *)
(* (static/dashboard/ts/device.ts) for one app at a time and the server    *)
(* keeps for each (api/device-routes.ts).  The page loads the points of an *)
(* app, keeps the edits of the other in a stash, and goes on taking clicks *)
(* while loads and a save are on their way; answers come in any order.     *)
(***************************************************************************)
EXTENDS Naturals, FiniteSets

CONSTANTS Points,      \* the calibratable points
          MaxEdits,    \* edits; each moves a point to a place of its own
          MaxLoads     \* loads that are on their way; one that fails stays there
ASSUME CalibrationAssumption == MaxEdits \in Nat \ {0} /\ MaxLoads \in Nat

Apps == {"tiktok", "instagram"}
Places == 0..MaxEdits            \* 0: not overridden
Nowhere == [p \in Points |-> 0]

VARIABLES ksaved,      \* device.coordinates, device.instagramCoordinates
          kapp,        \* cal.app
          kknown,      \* cal.points were loaded
          kover,       \* cal.overrides
          kstash,      \* cal.overridesByApp
          kloads,      \* loads on their way, and what the server read for them
          ksave,       \* the save on its way
          kby,         \* history: for which app and point each edit was made
          kedit,       \* history: clicks that were neither saved nor reset
          kreset       \* history: a point was reset
kVars == <<ksaved, kapp, kknown, kover, kstash, kloads, ksave, kby, kedit, kreset>>

NoSaving == [state |-> "none", app |-> "tiktok", body |-> Nowhere]

\* On an earlier visit to the page a point was moved and saved, or none was.
KInit ==
  /\ kby \in {<<>>} \cup {<<edit>> : edit \in [app : Apps, point : Points]}
  /\ ksaved = [a \in Apps |-> [p \in Points |->
       IF kby = <<[app |-> a, point |-> p]>> THEN 1 ELSE 0]]
  /\ kapp = "tiktok" /\ kknown = FALSE /\ kover = Nowhere
  /\ kstash = [a \in Apps |-> Nowhere] /\ kloads = {} /\ ksave = NoSaving
  /\ kedit = [a \in Apps |-> Nowhere] /\ kreset = FALSE

\* {...a, ...b}
Merge(a, b) == [p \in Points |-> IF b[p] # 0 THEN b[p] ELSE a[p]]

-----------------------------------------------------------------------------
(***************************************************************************)
(* loadCalibratePoints.                                                    *)
(***************************************************************************)

\* The edits are stashed for the app that is left.
StashedSlip(stash, app) == [stash EXCEPT ![app] = kover]
Stashed(stash, app) == IF kknown THEN [stash EXCEPT ![kapp] = kover] ELSE stash

Loads(stash, app) ==
  /\ Cardinality(kloads) < MaxLoads
  /\ kstash' = Stashed(stash, app)
  /\ \E n \in 1..MaxLoads :
       /\ \A l \in kloads : l.n # n
       /\ kloads' = kloads \cup {[n |-> n, app |-> app, read |-> FALSE, data |-> Nowhere]}

\* The dialog is opened, or the other app chosen.
KLoad(app) ==
  /\ Loads(kstash, app)
  /\ UNCHANGED <<ksaved, kapp, kknown, kover, ksave, kby, kedit, kreset>>

KRead(l) ==
  /\ ~l.read
  /\ kloads' = (kloads \ {l}) \cup {[l EXCEPT !.read = TRUE, !.data = ksaved[l.app]]}
  /\ UNCHANGED <<ksaved, kapp, kknown, kover, kstash, ksave, kby, kedit, kreset>>

\* Edits that were not saved come before what the server has.
Preferred(server, stashed) == Merge(server, stashed)

KAnswer(l) ==
  /\ l.read /\ kloads' = kloads \ {l}
  /\ kapp' = l.app /\ kknown' = TRUE
  /\ kover' = Preferred(l.data, kstash[l.app])
  /\ kstash' = [kstash EXCEPT ![l.app] = kover']
  /\ UNCHANGED <<ksaved, ksave, kby, kedit, kreset>>


-----------------------------------------------------------------------------
(***************************************************************************)
(* Edits.                                                                  *)
(***************************************************************************)

\* A click on the screen with a point armed.
KClick(p) ==
  /\ kknown /\ Cardinality(DOMAIN kby) < MaxEdits
  /\ LET e == Cardinality(DOMAIN kby) + 1
     IN  /\ kby' = [i \in 1..e |-> IF i = e THEN [app |-> kapp, point |-> p] ELSE kby[i]]
         /\ kover' = [kover EXCEPT ![p] = e]
         /\ kedit' = [kedit EXCEPT ![kapp][p] = e]
  /\ kstash' = [kstash EXCEPT ![kapp] = kover']
  /\ UNCHANGED <<ksaved, kapp, kknown, kloads, ksave, kreset>>

\* Resets; one, to keep the states few.
KReset(p) ==
  /\ kknown /\ ~kreset /\ kover[p] # 0
  /\ kover' = [kover EXCEPT ![p] = 0] /\ kedit' = [kedit EXCEPT ![kapp][p] = 0]
  /\ kreset' = TRUE
  /\ UNCHANGED <<ksaved, kapp, kknown, kstash, kloads, ksave, kby>>

KResetAll ==
  /\ kknown /\ ~kreset
  /\ kover' = Nowhere /\ kstash' = [kstash EXCEPT ![kapp] = Nowhere]
  /\ kedit' = [kedit EXCEPT ![kapp] = Nowhere]
  /\ kreset' = TRUE
  /\ UNCHANGED <<ksaved, kapp, kknown, kloads, ksave, kby>>

-----------------------------------------------------------------------------
(***************************************************************************)
(* The save.                                                               *)
(***************************************************************************)

KSave ==
  /\ kknown /\ ksave.state = "none"
  /\ ksave' = [state |-> "sent", app |-> kapp, body |-> kover]
  /\ kstash' = [kstash EXCEPT ![kapp] = kover]
  /\ UNCHANGED <<ksaved, kapp, kknown, kover, kloads, kby, kedit, kreset>>

\* PATCH /api/devices/:udid: nothing clears the app's points, anything else is
\* laid over them.
Patched(old, body) == IF body = Nowhere THEN Nowhere ELSE Merge(old, body)

KPatch ==
  /\ ksave.state = "sent"
  /\ ksave' = [ksave EXCEPT !.state = "stored"]
  /\ ksaved' = [ksaved EXCEPT ![ksave.app] = Patched(@, ksave.body)]
  /\ UNCHANGED <<kapp, kknown, kover, kstash, kloads, kby, kedit, kreset>>

\* The answer: the stash of the app that is shown by now is dropped and its
\* points are loaded, which stashes the edits again.
KSaved ==
  /\ ksave.state = "stored" /\ ksave' = NoSaving
  /\ kedit' = [kedit EXCEPT ![ksave.app] =
                 [p \in Points |-> IF @[p] = ksave.body[p] THEN 0 ELSE @[p]]]
  /\ Loads([kstash EXCEPT ![kapp] = Nowhere], kapp)
  /\ UNCHANGED <<ksaved, kapp, kknown, kover, kby, kreset>>

KSaveFails ==
  /\ ksave.state \in {"sent", "stored"} /\ ksave' = NoSaving
  /\ UNCHANGED <<ksaved, kapp, kknown, kover, kstash, kloads, kby, kedit, kreset>>

KNext ==
  \/ \E a \in Apps : KLoad(a)
  \/ \E l \in kloads : KRead(l) \/ KAnswer(l)
  \/ \E p \in Points : KClick(p) \/ KReset(p)
  \/ KResetAll \/ KSave \/ KPatch \/ KSaved \/ KSaveFails
KSpec == KInit /\ [][KNext]_kVars

-----------------------------------------------------------------------------
Overrides == [Points -> Places]

\* Types of the state.
KTypeOK ==
  /\ {ksaved, kstash, kedit} \subseteq [Apps -> Overrides] /\ kapp \in Apps
  /\ kover \in Overrides /\ {kknown, kreset} \subseteq BOOLEAN
  /\ kloads \subseteq [n : 1..MaxLoads, app : Apps, read : BOOLEAN, data : Overrides]
  /\ ksave \in [state : {"none", "sent", "stored"}, app : Apps, body : Overrides]
  /\ ~kknown => kover = Nowhere

\* A place an operator clicked for one app is never kept for the other one, or
\* for another point, although apps are switched while loads and a save are on
\* their way (device.ts:1398-1424, 1588-1595, 1614-1643).
KRightApp ==
  \A a \in Apps, p \in Points :
    \A e \in {ksaved[a][p], kstash[a][p]} \ {0} : kby[e] = [app |-> a, point |-> p]

\* A click that was neither saved nor reset is still shown, or in the stash of
\* its app: "switching TikTok <-> Instagram does not throw away unsaved Instagram
\* points" (device.ts:1399-1403, 1413-1418).
KEditsKept ==
  \A a \in Apps, p \in Points :
    kedit[a][p] # 0 => \/ kapp = a /\ kover[p] = kedit[a][p]
                       \/ kstash[a][p] = kedit[a][p]

\* A page that waits for nothing, with nothing unsaved, shows what the server
\* has: "Re-load from server so the UI matches what was actually persisted".  A
\* reset, which the server cannot be told of a single point, is excepted
\* (device.ts:1630-1637, device-routes.ts:148-157).
KShowsSaved ==
  (kknown /\ kloads = {} /\ ksave.state = "none" /\ ~kreset /\ kedit[kapp] = Nowhere)
    => kover = ksaved[kapp]

\* The calibration of a phone, in whatever order loads and saves are answered: each
\* click stays with its app and point, until it is saved or reset (device.ts:1398-1643).
KSafe == KTypeOK /\ KRightApp /\ KEditsKept /\ KShowsSaved
=============================================================================
