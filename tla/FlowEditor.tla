----------------------------- MODULE FlowEditor -----------------------------
(***************************************************************************)
(* The library of flows: the versions the server keeps of each             *)
(* (scheduler/repository.ts, api/flow-routes.ts), and the page on which an *)
(* operator edits one (static/dashboard/ts/automations.ts).  The page goes *)
(* on taking clicks while its requests are on their way: answers come in   *)
(* any order, and each one may replace what the editor shows.              *)
(***************************************************************************)
EXTENDS Naturals, FiniteSets, SequencesExt

CONSTANTS Flows,       \* the flows there may ever be
          MaxDrafts,    \* contents an operator writes; 0 is a new flow's
          MaxPresses,   \* other clicks on the page
          MaxWays,     \* requests on their way at once
          MaxOthers    \* versions saved, and flows deleted, on another page
ASSUME FlowEditorAssumption ==
  /\ {MaxDrafts, MaxPresses, MaxWays, MaxOthers} \subseteq Nat
  /\ Flows # {} /\ "none" \notin Flows

VARIABLES eflows,      \* the contents of each flow's versions; <<>>: no such flow
          eused,       \* history: ids that were given
          epage,       \* the editor
          eways,       \* requests on their way
          eclicks, eothers
eVars == <<eflows, eused, epage, eways, eclicks, eothers>>

None == "none"
Contents == 0..(MaxDrafts + MaxOthers)
NewEditor ==
  [id |-> None,          \* currentFlowId
   version |-> 0,        \* currentFlowVersion
   content |-> 0,        \* flowSteps, flowName
   edits |-> 0,          \* history: edits so far
   dirty |-> FALSE,      \* history: edited since it was loaded or saved
   of |-> None,          \* history: the flow whose contents these are
   replaced |-> 0,       \* history: how often the contents were replaced during a save
   crossed |-> FALSE,    \* history: ... while a save was on its way
   stale |-> FALSE]      \* history: a save's second look at the library failed

EInit ==
  /\ eused \in {{}, {CHOOSE f \in Flows : TRUE}}
  /\ eflows = [f \in Flows |-> IF f \in eused THEN <<0>> ELSE <<>>] /\ epage = NewEditor
  /\ eways = {} /\ eclicks = 0 /\ eothers = 0

-----------------------------------------------------------------------------
(***************************************************************************)
(* The server.                                                             *)
(***************************************************************************)

\* createFlowDefinition: version 1 of a flow with an id of its own.
Creates(f, content) ==
  eused' = eused \cup {f} /\ eflows' = [eflows EXCEPT ![f] = <<content>>]

\* saveFlowVersion, whose lock of the flow's row makes the next number its own;
\* nothing of a flow that was deleted.
Versions(f, content) ==
  IF eflows[f] = <<>> THEN eflows ELSE [eflows EXCEPT ![f] = Append(@, content)]

\* What flowDefinition answers.
NoDetail == [flow |-> None, version |-> 0, content |-> 0]
Detail(f) ==
  IF eflows[f] = <<>> THEN NoDetail
  ELSE [flow |-> f, version |-> Len(eflows[f]), content |-> Last(eflows[f])]

-----------------------------------------------------------------------------
(***************************************************************************)
(* The requests.  `kind` is what the server is asked for.  After a save, an *)
(* import, a copy or a restored version the page asks for the list of      *)
(* flows, which it only shows, and for the flow: one request here.         *)
(***************************************************************************)

Way(kind, flow, content) ==
  [kind |-> kind, flow |-> flow, content |-> content, state |-> "sent",
   detail |-> NoDetail,
   replaced |-> IF kind \in {"post", "put"} THEN epage.replaced ELSE 0,
   saves |-> FALSE]        \* ... and follows a save

Sends(way) ==
  /\ Cardinality(eways) < MaxWays /\ way \notin eways
  /\ eways' = eways \cup {way}

Becoming(way, state, f, detail) ==
  eways' = (eways \ {way}) \cup
    {[way EXCEPT !.state = state, !.flow = f, !.detail = detail]}

\* The request takes effect.
EServes(way) ==
  LET f == way.flow
  IN  /\ way.state = "sent"
      /\ \/ /\ way.kind \in {"put", "restore"} /\ eused' = eused
            /\ eflows' = Versions(f, way.content) /\ Becoming(way, "stored", f, NoDetail)
         \/ /\ way.kind = "delete" /\ eused' = eused
            /\ eflows' = [eflows EXCEPT ![f] = <<>>]
            /\ Becoming(way, "answered", f, NoDetail)
         \/ /\ way.kind = "get"
            /\ UNCHANGED <<eflows, eused>> /\ Becoming(way, "answered", f, Detail(f))
         \/ /\ way.kind \in {"post", "copy", "import"}
            /\ way.kind = "copy" => eflows[f] # <<>>
            /\ \E g \in Flows \ eused :
                 /\ Creates(g, IF way.kind = "copy" THEN Last(eflows[f]) ELSE way.content)
                 /\ Becoming(way, "stored", g, NoDetail)
      /\ UNCHANGED <<epage, eclicks, eothers>>

\* Its answer is read once the transaction is over: another page may have saved
\* or deleted the flow since.
EReads(way) ==
  /\ way.state = "stored" /\ Becoming(way, "answered", way.flow, Detail(way.flow))
  /\ UNCHANGED <<eflows, eused, epage, eclicks, eothers>>

\* A save is under way: its button is disabled.
Saving == \E way \in eways : way.kind \in {"post", "put"} \/ way.saves

\* The editor's contents are replaced, with the flow they belong to.
Replaced(flow, version, content) ==
  [epage EXCEPT !.id = flow, !.version = version, !.content = content, !.of = flow,
                !.replaced = IF Saving THEN @ + 1 ELSE 0,
                 !.dirty = FALSE, !.crossed = FALSE, !.stale = FALSE]

NewFlow == Replaced(None, 0, 0)

LoadedSlip(d) == [Replaced(d.flow, d.version, d.content) EXCEPT !.id = epage.id]
Loaded(d) == Replaced(d.flow, d.version, d.content)

\* saveFlow's answer: the page takes the id and the version, whatever the editor
\* shows by now, and leaves its contents until it has loaded them.
Saved(way) ==
  [epage EXCEPT !.id = way.detail.flow, !.version = way.detail.version,
     !.of = IF epage.replaced = way.replaced THEN way.detail.flow ELSE @,
     !.dirty = epage.content # way.content,
     !.crossed = @ \/ epage.replaced # way.replaced]

ThenLoads(way, saves) ==
  eways' = (eways \ {way}) \cup
    {[Way("get", way.flow, 0) EXCEPT !.saves = saves]}

EAnswer(way) ==
  /\ way.state = "answered"
  /\ \/ /\ way.kind \in {"post", "put"} /\ way.detail.flow # None
        /\ epage' = Saved(way) /\ ThenLoads(way, TRUE)
     \/ /\ way.kind \in {"copy", "import", "restore"} /\ way.detail.flow # None
        /\ epage' = epage /\ ThenLoads(way, FALSE)
     \/ /\ way.kind = "delete"
        /\ epage' = NewFlow /\ eways' = eways \ {way}
     \/ /\ way.kind = "get" /\ way.detail.flow # None
        /\ epage' = Loaded(way.detail) /\ eways' = eways \ {way}
  /\ UNCHANGED <<eflows, eused, eclicks, eothers>>

\* The request fails, before or after it took effect, or the flow is gone.
EFails(way) ==
  /\ eways' = eways \ {way}
  /\ epage' = [epage EXCEPT !.stale = @ \/ way.saves]
  /\ UNCHANGED <<eflows, eused, eclicks, eothers>>

-----------------------------------------------------------------------------
(***************************************************************************)
(* The operator.                                                           *)
(***************************************************************************)

Presses ==
  eclicks < MaxPresses /\ eclicks' = eclicks + 1 /\ UNCHANGED <<eflows, eused, eothers>>

\* A step is added, moved, removed or changed, or the name is.
EEdit ==
  /\ epage.edits < MaxDrafts
  /\ epage' = [epage EXCEPT !.edits = @ + 1, !.content = epage.edits + 1,
                          !.dirty = TRUE]
  /\ UNCHANGED <<eflows, eused, eways, eclicks, eothers>>

ENew == Presses /\ epage' = NewFlow /\ UNCHANGED eways

\* A flow of the list, which may be out of date, is chosen.
ELoad(f) == Presses /\ f \in eused /\ Sends(Way("get", f, 0)) /\ UNCHANGED epage

ESave ==
  /\ Presses /\ ~Saving
  /\ Sends(IF epage.id = None THEN Way("post", CHOOSE f \in Flows : TRUE, epage.content)
           ELSE Way("put", epage.id, epage.content))
  /\ UNCHANGED epage

\* A file is read, and a flow made of it; a copy is made of the flow's last version.
EImport ==
  /\ Presses /\ Sends(Way("import", CHOOSE f \in Flows : TRUE, 0)) /\ UNCHANGED epage
EDuplicate ==
  Presses /\ epage.id # None /\ Sends(Way("copy", epage.id, 0)) /\ UNCHANGED epage

\* A version, which never changes, is read and saved again as a new one.
ERestore ==
  /\ Presses /\ epage.id # None
  /\ \E v \in 1..epage.version \cap DOMAIN eflows[epage.id] :
       Sends(Way("restore", epage.id, eflows[epage.id][v]))
  /\ UNCHANGED epage

EDelete ==
  Presses /\ epage.id # None /\ Sends(Way("delete", epage.id, 0)) /\ UNCHANGED epage

\* Another page saves a version, or deletes the flow.
EOther(f) ==
  /\ eothers < MaxOthers /\ eothers' = eothers + 1 /\ eflows[f] # <<>>
  /\ \E now \in {<<>>, Append(eflows[f], MaxDrafts + eothers')} :
       eflows' = [eflows EXCEPT ![f] = now]
  /\ UNCHANGED <<eused, epage, eways, eclicks>>

EOperator ==
  EEdit \/ ENew \/ ESave \/ EImport \/ EDuplicate \/ ERestore \/ EDelete
    \/ \E f \in Flows : ELoad(f)
ENext ==
  \/ EOperator \/ \E f \in Flows : EOther(f)
  \/ \E way \in eways : EServes(way) \/ EReads(way) \/ EAnswer(way) \/ EFails(way)
ESpec == EInit /\ [][ENext]_eVars

-----------------------------------------------------------------------------
\* Types of the state.
ETypeOK ==
  /\ eflows \in [Flows -> Seq(Contents)] /\ eused \subseteq Flows
  /\ \A f \in Flows \ eused : eflows[f] = <<>>
  /\ epage.id \in Flows \cup {None} /\ epage.of \in Flows \cup {None}
  /\ epage.content \in 0..(MaxDrafts + MaxOthers) /\ epage.version \in Nat
  /\ epage.id = None <=> epage.version = 0
  /\ Cardinality(eways) <= MaxWays

\* The flow that the page saves to, restores, copies, deletes (after it asked
\* with the name of what it shows) and names as the source of a run is the flow
\* whose contents it shows, in whatever order loads, deletions and saves are
\* answered, unless the contents were replaced while a save was on its way
\* (automations.ts:638-646, 670-693, 937-988).
ESameFlow == epage.id # epage.of => epage.crossed

\* A page that waits for nothing, and was not edited since, shows the contents of
\* the version it names, although other pages save versions of the flow while it
\* saves one, unless the page's second look at the library failed
\* (automations.ts:670-693, repository.ts:154-183).
EShowsVersion ==
  LET f == epage.id
  IN  (eways = {} /\ f # None /\ ~epage.dirty /\ ~epage.stale /\ eflows[f] # <<>>)
        => eflows[f][epage.version] = epage.content

\* The flow editor, in whatever order it is answered and whatever other pages save:
\* it works on the flow and the version it shows (automations.ts:638-693, 937-1052).
ESafe == ETypeOK /\ ESameFlow /\ EShowsVersion
=============================================================================
