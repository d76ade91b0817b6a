----------------------------- MODULE Allocation -----------------------------
(***************************************************************************)
(* Pools of devices, and the choice of a device for a flow: the routes     *)
(* (api/allocation-routes.ts, allocation.ts, scheduler/repository.ts) and  *)
(* the page that edits a pool, previews the choice and runs the flow       *)
(* (static/dashboard/ts/automations.ts).  A selector is the set of devices *)
(* that it matches; it requires an idle device, as the page's always do.   *)
(***************************************************************************)
EXTENDS Naturals, FiniteSets

CONSTANTS Devs, Names, \* devices, and names of pools
          MaxPools, MaxActs, MaxSlips
ASSUME AllocationAssumption ==
  /\ MaxPools \in Nat \ {0} /\ {MaxActs, MaxSlips} \subseteq Nat /\ "none" \notin Names

Selectors == SUBSET Devs \ {{}}
Pools == 1..MaxPools
NoPool == 0
Gone == [name |-> "none", sel |-> {}]

VARIABLES adevs,       \* devices that are registered and enabled
          aoff,        \* devices that are not connected
          abusy,       \* queued and running executions
          aload,       \* active schedules of each device
          apools,      \* the pools
          amade,       \* how many were ever made: an id is not given again
          areqs,       \* requests under way
          apage,       \* the pool that is edited, and the preview
          aruns,       \* history: who got which device
          ahist,       \* history: what excuses below
          aacts, aslips
aVars == <<adevs, aoff, abusy, aload, apools, amade, areqs, apage, aruns, ahist, aacts, aslips>>

AInit ==
  /\ adevs = Devs /\ aoff = {} /\ abusy = {} /\ aload = [d \in Devs |-> 0]
  /\ \E first \in {Gone} \cup [name : Names, sel : Selectors] :
       /\ apools = [p \in Pools |-> IF p = 1 THEN first ELSE Gone]
       /\ amade = IF first = Gone THEN 0 ELSE 1
  /\ areqs = {} /\ aruns = {}
  /\ \E s \in Selectors :
       apage = [pool |-> NoPool,    \* flowSavedPool
                dirty |-> FALSE,    \* selectedPoolDirty
                sel |-> s,          \* the fields, and the name
                name |-> "none",
                pools |-> apools,   \* devicePools
                seen |-> [pool |-> NoPool, sel |-> s]]  \* what the preview is of
  /\ ahist = [named |-> FALSE,      \* two requests for a name met
              mixed |-> FALSE,      \* a save or deletion of the page failed, or met
                                    \* another, or a run of the page
              theirs |-> {},        \* pools that another client stored since the page
                                    \* read them
              asked |-> FALSE]      \* two previews met, or one failed
  /\ aacts = 0 /\ aslips = 0

-----------------------------------------------------------------------------
(***************************************************************************)
(* The server.                                                             *)
(***************************************************************************)

PageRequest(kind, by, pool, name, sel) ==
  [kind |-> kind, by |-> by, pool |-> pool, name |-> name, sel |-> sel, at |-> "sent",
   shown |-> sel, late |-> FALSE, pools |-> [p \in Pools |-> Gone]]
Moves(req, next) == areqs' = (areqs \ {req}) \cup {next}
Others == <<adevs, aoff, abusy, aload, aruns, aacts, aslips>>
Stays == UNCHANGED <<Others, apools, amade, apage, ahist>>

\* assertUniquePoolName reads the pools; a name that is taken is refused.
NameTaken(req) == \E p \in Pools \ {req.pool} : apools[p].name = req.name

AChecks(req) ==
  /\ req.kind = "pool" /\ req.at = "sent"
  /\ Moves(req, [req EXCEPT !.at = IF NameTaken(req) THEN "refused" ELSE "checked"])
  /\ ahist' = [ahist EXCEPT !.named = @ \/ (\E r \in areqs \ {req} :
                  r.kind = "pool" /\ r.at = "checked" /\ r.name = req.name)]
  /\ UNCHANGED <<Others, apools, amade, apage>>

\* createDevicePool, updateDevicePool, which changes a pool that is still there.  The
\* database refuses a name that is taken by then if it is spelt the same (a name here
\* stands for its spellings).
Spellings(req) == IF NameTaken(req) THEN {"same", "other"} ELSE {"other"}
AStores(req) ==
  /\ req.kind = "pool" /\ req.at = "checked"
  /\ \/ /\ "same" \in Spellings(req) /\ Moves(req, [req EXCEPT !.at = "refused"])
        /\ UNCHANGED <<apools, amade, ahist>>
     \/ LET new == req.pool = NoPool
            p == IF new THEN amade + 1 ELSE req.pool
            next == IF ~new /\ apools[p] = Gone THEN Gone
                    ELSE [name |-> req.name, sel |-> req.sel]
        IN  /\ p \in Pools /\ apools' = [apools EXCEPT ![p] = next]
            /\ amade' = IF new THEN p ELSE amade
            /\ Moves(req, [req EXCEPT !.pool = p,
                                      !.at = IF next = Gone THEN "refused" ELSE "stored"])
            /\ ahist' = [ahist EXCEPT !.theirs =
                            IF req.by = "other" /\ next # Gone THEN @ \cup {p} ELSE @]
  /\ UNCHANGED <<Others, apage>>

ADrops(req) ==
  /\ req.kind = "drop" /\ req.at = "sent"
  /\ apools' = [apools EXCEPT ![req.pool] = Gone]
  /\ Moves(req, [req EXCEPT !.at = IF apools[req.pool] = Gone THEN "refused" ELSE "stored"])
  /\ UNCHANGED <<Others, amade, apage, ahist>>

\* resolveAllocationSelector: a saved pool as it is now.
AResolves(req) ==
  /\ req.kind = "run" /\ req.at = "sent"
  /\ LET sel == IF req.pool = NoPool THEN req.sel ELSE apools[req.pool].sel
     IN  Moves(req, [req EXCEPT !.sel = sel, !.at = IF sel = {} THEN "refused" ELSE "resolved"])
  /\ Stays

\* rankAllocationCandidates: of the idle devices one with the fewest schedules.
CandidatesSlip(sel) ==
  LET there == (sel \cap adevs) \ aoff
  IN  {d \in there : \A o \in there : aload[d] <= aload[o]}
Candidates(sel) ==
  LET idle == (sel \cap adevs) \ (aoff \cup abusy)
  IN  {d \in idle : \A o \in idle : aload[d] <= aload[o]}

ALooks(req) ==
  /\ req.kind = "run" /\ req.at = "resolved"
  /\ \/ /\ Candidates(req.sel) = {} /\ Moves(req, [req EXCEPT !.at = "refused"])
     \/ \E d \in Candidates(req.sel) :
          Moves(req, [req EXCEPT !.at = "looked", !.sel = {d}])
  /\ Stays

\* The device is looked up once more, if not whether it is connected, and the schedule
\* created, which runs now.
ACreates(req) ==
  /\ req.kind = "run" /\ req.at = "looked"
  /\ \E d \in req.sel :
       IF d \in adevs
       THEN /\ abusy' = abusy \cup {d} /\ aload' = [aload EXCEPT ![d] = @ + 1]
            /\ aruns' = aruns \cup {[dev |-> d, n |-> Cardinality(aruns) + 1, late |-> req.late]}
            /\ areqs' = {[req EXCEPT !.at = "stored"]} \cup
                 {[r EXCEPT !.late = @ \/ r.at = "looked"] : r \in areqs \ {req}}
       ELSE Moves(req, [req EXCEPT !.at = "refused"]) /\ UNCHANGED <<abusy, aload, aruns>>
  /\ UNCHANGED <<adevs, aoff, apools, amade, apage, ahist, aacts, aslips>>

\* A run ends, and with it its schedule; a device is enabled or not, or is unplugged or
\* comes back.
AEnds(run) ==
  /\ aruns' = {r \in aruns : r.dev # run.dev} /\ abusy' = abusy \ {run.dev}
  /\ aload' = [aload EXCEPT ![run.dev] = 0]
  /\ UNCHANGED <<adevs, aoff, apools, amade, areqs, apage, ahist, aacts, aslips>>
ADevice(d) ==
  /\ aslips < MaxSlips /\ aslips' = aslips + 1
  /\ \/ /\ adevs' = IF d \in adevs THEN adevs \ {d} ELSE adevs \cup {d}
        /\ aoff' = aoff
     \/ /\ aoff' = IF d \in aoff THEN aoff \ {d} ELSE aoff \cup {d}
        /\ adevs' = adevs
  /\ UNCHANGED <<abusy, aload, apools, amade, areqs, apage, aruns, ahist, aacts>>

-----------------------------------------------------------------------------
(***************************************************************************)
(* The page.                                                               *)
(***************************************************************************)

Acts ==
  /\ aacts < MaxActs /\ aacts' = aacts + 1
  /\ UNCHANGED <<adevs, aoff, abusy, aload, apools, amade, aruns, aslips>>
OfPage(kind) == {r \in areqs : r.by = "page" /\ r.kind = kind}

\* allocationRequest: the saved pool, unless its fields were changed.
Target(page) ==
  IF page.pool # NoPool /\ ~page.dirty THEN [pool |-> page.pool, sel |-> page.sel]
  ELSE [pool |-> NoPool, sel |-> page.sel]

\* refreshAllocationPreview, which changes nothing.
Previews(page, reqs) ==
  areqs' = reqs \cup {PageRequest("preview", "page", Target(page).pool, "none", page.sel)}
Previewing(reqs) == \E r \in reqs : r.kind = "preview"

\* applySelectedPool
Applied(page, pool) ==
  IF pool = NoPool \/ page.pools[pool] = Gone
  THEN [page EXCEPT !.pool = NoPool, !.name = "none", !.dirty = FALSE]
  ELSE [page EXCEPT !.pool = pool, !.name = page.pools[pool].name,
                    !.sel = page.pools[pool].sel, !.dirty = FALSE]

\* refreshDevicePools and renderSavedPools: a pool that is gone is not selected.
Listed(page, pools) ==
  [page EXCEPT !.pools = pools,
               !.pool = IF @ # NoPool /\ pools[@] = Gone THEN NoPool ELSE @]

ASelect(p) ==
  /\ Acts /\ (p # NoPool => apage.pools[p] # Gone)
  /\ apage' = Applied(apage, p) /\ Previews(apage', areqs)
  /\ ahist' = [ahist EXCEPT !.asked = @ \/ Previewing(areqs)]

\* markSelectedPoolDirty
Dirty(page) == [page EXCEPT !.dirty = page.pool # NoPool]

AFields(s) ==
  /\ Acts /\ s # apage.sel
  /\ apage' = Dirty([apage EXCEPT !.sel = s]) /\ Previews(apage', areqs)
  /\ ahist' = [ahist EXCEPT !.asked = @ \/ Previewing(areqs)]
AName(n) ==
  /\ Acts /\ n # apage.name /\ apage' = Dirty([apage EXCEPT !.name = n])
  /\ UNCHANGED <<areqs, ahist>>

\* The pool is saved, one save at a time, or deleted, of which the choice of another
\* pool frees the button.
ASave ==
  /\ Acts /\ apage.name # "none" /\ OfPage("pool") = {}
  /\ areqs' = areqs \cup {PageRequest("pool", "page", apage.pool, apage.name, apage.sel)}
  /\ ahist' = [ahist EXCEPT !.mixed = @ \/ OfPage("drop") # {} \/ OfPage("run") # {}]
  /\ apage' = apage
ADelete ==
  /\ Acts /\ apage.pool # NoPool
  /\ areqs' = areqs \cup {PageRequest("drop", "page", apage.pool, "none", {})}
  /\ ahist' = [ahist EXCEPT !.mixed = @ \/ OfPage("pool") # {}] /\ apage' = apage

\* The flow is run, which a saved pool with unsaved changes refuses.
ARun ==
  /\ Acts /\ OfPage("run") = {} /\ ~(apage.pool # NoPool /\ apage.dirty)
  /\ areqs' = areqs \cup {PageRequest("run", "page", apage.pool, "none", apage.sel)}
  /\ ahist' = [ahist EXCEPT !.mixed = @ \/ OfPage("pool") # {} \/ OfPage("drop") # {}]
  /\ apage' = apage

\* The answer of a save or a deletion; the pools are then read again.
AStored(req) ==
  /\ req.by = "page" /\ req.kind \in {"pool", "drop"} /\ req.at = "stored"
  /\ apage' = IF req.kind = "drop" THEN Applied(apage, NoPool) ELSE apage
  /\ Moves(req, [req EXCEPT !.at = "list"])
  /\ UNCHANGED <<Others, apools, amade, ahist>>
AReads(req) ==
  /\ req.at = "list" /\ Moves(req, [req EXCEPT !.at = "listed", !.pools = apools]) /\ Stays
\* What was stored since the list was read, and all of it while the page waits for more
\* than this list; the fields stay those of the old list where no pool is applied.
Unread(page, req) ==
  {p \in ahist.theirs :
     \/ apools[p] \notin {Gone, req.pools[p]}
     \/ p = page.pool /\ apools[p] # Gone /\ apools[p].sel # page.sel
     \/ \E r \in areqs \ {req} : r.by = "page" /\ r.kind # "preview"}
AListed(req) ==
  /\ req.at = "listed"
  /\ LET page == Listed(apage, req.pools)
     IN  apage' = IF req.kind = "drop" THEN page ELSE Applied(page, req.pool)
  /\ Previews(apage', areqs \ {req})
  /\ ahist' = [ahist EXCEPT !.asked = @ \/ Previewing(areqs),
                            !.theirs = Unread(apage', req)]
  /\ UNCHANGED <<Others, apools, amade>>

\* A run's answer has the choice previewed again.
ARan(req) ==
  /\ req.by = "page" /\ req.kind = "run" /\ req.at = "stored"
  /\ Previews(apage, areqs \ {req})
  /\ ahist' = [ahist EXCEPT !.asked = @ \/ Previewing(areqs)]
  /\ UNCHANGED <<Others, apools, amade, apage>>

APreviewed(req) ==
  /\ req.kind = "preview" /\ areqs' = areqs \ {req}
  /\ apage' = [apage EXCEPT !.seen = [pool |-> req.pool, sel |-> req.sel]]
  /\ UNCHANGED <<Others, apools, amade, ahist>>

\* A request is refused or fails; of a save or a deletion the button is free again.
AFails(req) ==
  /\ \/ req.at = "refused" /\ aslips' = aslips
     \/ aslips < MaxSlips /\ aslips' = aslips + 1
  /\ areqs' = areqs \ {req}
  /\ ahist' = [ahist EXCEPT !.mixed = @ \/ (/\ req.by = "page" /\ req.kind \in {"pool", "drop"}
                                          /\ req.at # "refused"),
                            !.asked = @ \/ req.kind = "preview" \/ req.at \in {"list", "listed"}]
  /\ UNCHANGED <<adevs, aoff, abusy, aload, apools, amade, apage, aruns, aacts>>

\* Another client makes, changes or deletes a pool, or asks for a device, one at a time.
AOther ==
  /\ Acts /\ \A r \in areqs : r.by = "page"
  /\ \E asked \in
       [kind : {"pool"}, pool : 0..amade, name : Names, sel : Selectors]
         \cup [kind : {"drop"}, pool : 1..amade, name : {"none"}, sel : {{}}]
         \cup [kind : {"run"}, pool : {NoPool}, name : {"none"}, sel : Selectors] :
       areqs' = areqs \cup
         {PageRequest(asked.kind, "other", asked.pool, asked.name, asked.sel)}
  /\ UNCHANGED <<apage, ahist>>
AOtherAnswered(req) ==
  /\ req.by = "other" /\ req.at = "stored" /\ areqs' = areqs \ {req} /\ Stays

AOperator ==
  \/ \E p \in Pools \cup {NoPool} : ASelect(p)
  \/ \E s \in Selectors : AFields(s) \/ \E n \in Names : AName(n)
  \/ ASave \/ ADelete \/ ARun \/ AOther
AServer(req) ==
  AChecks(req) \/ AStores(req) \/ ADrops(req) \/ AResolves(req) \/ ALooks(req) \/ ACreates(req)
AAnswer(req) ==
  \/ AStored(req) \/ AReads(req) \/ AListed(req) \/ ARan(req) \/ APreviewed(req)
  \/ AFails(req) \/ AOtherAnswered(req)
ANext ==
  \/ AOperator \/ \E req \in areqs : AServer(req) \/ AAnswer(req)
  \/ \E run \in aruns : AEnds(run) \/ \E d \in Devs : ADevice(d)
ASpec == AInit /\ [][ANext]_aVars

-----------------------------------------------------------------------------
\* Types of the state.
ATypeOK ==
  /\ adevs \subseteq Devs /\ aoff \subseteq Devs /\ abusy = {r.dev : r \in aruns}
  /\ aload \in [Devs -> 0..MaxActs] /\ ahist.theirs \subseteq Pools
  /\ apools \in [Pools -> [name : Names \cup {"none"}, sel : SUBSET Devs]]
  /\ apage.pool \in Pools \cup {NoPool} /\ apage.sel \in Selectors
  /\ apage.pool # NoPool => apage.pools[apage.pool] # Gone
  /\ amade \in 0..MaxPools /\ Cardinality(OfPage("pool")) <= 1

\* No two pools have one name, whatever is made, renamed and deleted, unless two
\* requests for the name both looked before either stored it: the look takes spellings
\* for one name, the database's index only the same one
\* (allocation-routes.ts:87-92, 126-151, schema.ts:31-39).
AUniqueNames ==
  \A p, q \in Pools :
    (p # q /\ apools[p].name = apools[q].name) => apools[p] = Gone \/ ahist.named

\* A device that runs what was allocated to it is given to no second request,
\* unless that one had chosen it before the first one's schedule was created: the
\* device is looked up once more, but not whether it is idle
\* (allocation-routes.ts:172-200, allocation.ts:71-77).
ASpread ==
  \A r1, r2 \in aruns : (r1 # r2 /\ r1.dev = r2.dev) => r1.late \/ r2.late

\* A flow that is run from a saved pool runs on a device that the fields on the
\* page match, in whatever order the page is answered, unless its requests about the
\* pools met or one failed, or another client stored that pool since the page read it:
\* "Save the device pool changes before scheduling from this saved pool"
\* (automations.ts:284-344, 695-717, 895-936, allocation-routes.ts:94-106).
ARunsShown ==
  \A r \in areqs :
    (r.kind = "run" /\ r.at \in {"resolved", "looked"}) =>
      r.sel \subseteq r.shown \/ r.pool \in ahist.theirs \/ ahist.mixed

\* A page that waits for nothing previews the device for the fields it shows,
\* unless two previews were under way at once or a request failed
\* (automations.ts:346-364, 861-936).
APreviewShown ==
  (\A r \in areqs : r.kind = "run" \/ r.by = "other")
    => \/ ahist.asked
       \/ apage.seen.sel = apage.sel /\ apage.seen.pool \in {NoPool, apage.pool}

\* Pools and allocations, in whatever order they are answered: names are one pool's,
\* devices one run's, and the page shows what is run (allocation-routes.ts:68-200,
\* automations.ts:264-364, 861-936).
ASafe == ATypeOK /\ AUniqueNames /\ ASpread /\ ARunsShown /\ APreviewShown
=============================================================================
