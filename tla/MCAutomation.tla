---------------------------- MODULE MCAutomation ----------------------------
(***************************************************************************)
(* Small instances of what works on a phone: the scripts, the workflows an *)
(* operator trains for them, the WDA service through which they find the   *)
(* phone, and the remote views of it.  Scripts never run on a phone at     *)
(* once, and each of the others takes the phone as it may come, so a       *)
(* behaviour follows one of them: that is `focus`; the others stay in one  *)
(* of their initial states.                                                *)
(***************************************************************************)
EXTENDS PostFlow, FeedLoop, Outreach, WdaService, RemoteView, Workflows

VARIABLE focus

PostJob(platform, files, account, registered, caption, music, dest, grid, library) ==
  [plat |-> platform, files |-> files, account |-> account, registered |-> registered,
   caption |-> caption, music |-> music, dest |-> dest, grid |-> grid, library |-> library]

\* One or two files; both orders of the grid; libraries with and without another
\* clip of the first file's length.
SevenJobs ==
  { PostJob("tiktok", 1, TRUE, TRUE, TRUE, FALSE, "publish", "newestLast", <<0, 0>>),
    PostJob("tiktok", 1, TRUE, FALSE, TRUE, FALSE, "publish", "newestLast", <<0>>),
    PostJob("tiktok", 1, FALSE, TRUE, FALSE, FALSE, "draft", "newestFirst", <<0, -1>>),
    PostJob("tiktok", 2, FALSE, TRUE, TRUE, TRUE, "publish", "newestFirst", <<0>>),
    PostJob("tiktok", 2, FALSE, TRUE, TRUE, FALSE, "draft", "newestLast", <<-1, 0>>),
    PostJob("instagram", 2, TRUE, TRUE, FALSE, FALSE, "draft", "newestFirst", <<0>>),
    PostJob("instagram", 1, FALSE, TRUE, FALSE, TRUE, "draft", "newestFirst", <<0>>) }

AnyJob == CHOOSE j \in PostJobs : TRUE
AnyScript == CHOOSE s \in FeedScripts : TRUE

viewVars == <<vVars, xVars>>

Posting(Step) == focus = "post" /\ Step /\ UNCHANGED <<focus, fVars, oVars, wVars, viewVars, tVars>>
Feeding(Step) == focus = "feed" /\ Step /\ UNCHANGED <<focus, pVars, oVars, wVars, viewVars, tVars>>
Writing(Step) ==
  focus = "outreach" /\ Step /\ UNCHANGED <<focus, pVars, fVars, wVars, viewVars, tVars>>
Service(Step) ==
  focus = "service" /\ Step /\ UNCHANGED <<focus, pVars, fVars, oVars, viewVars, tVars>>
Viewing(Step) == Step /\ UNCHANGED <<focus, pVars, fVars, oVars, wVars, tVars>>
Stream(Step) == focus = "stream" /\ Viewing(Step) /\ UNCHANGED xVars
Semantic(Step) == focus = "semantic" /\ Viewing(Step) /\ UNCHANGED vVars
Training(Step) ==
  focus = "workflow" /\ Step /\ UNCHANGED <<focus, pVars, fVars, oVars, wVars, viewVars>>

MCInit ==
  /\ focus \in {"post", "feed", "outreach", "service", "stream", "semantic", "workflow"}
  /\ PInit /\ FInit /\ OInit /\ WInit /\ VInit /\ XInit /\ TInit
  /\ focus # "post" => pjob = AnyJob /\ psigned = "other" /\ ~pleft
  /\ focus # "feed" => fscript = AnyScript
  /\ focus # "outreach" => olist = {}
  /\ focus # "service" => wlock = "none"

MCNext ==
  \/ Posting(PNext) \/ Feeding(FNext) \/ Writing(ONext)
  \/ Service(WNext) \/ Stream(VNext) \/ Semantic(XNext) \/ Training(TNext)

mcVars == <<focus, pVars, fVars, oVars, wVars, viewVars, tVars>>

\* What goes on by itself: a script with its next part until it ends, and what
\* WFairness and VSpec say.  Only actions of the focus are ever enabled, so that
\* one condition may carry an action of each.
Turn(a) ==
  \/ a \in Services /\ Service(WStep(a))
  \/ a \in Viewers /\ Stream(VGoes(a))
  \/ a \notin Services /\ (Posting(PStep) \/ Feeding(FStep) \/ Service(Client))

\* What holds a phone comes to an end, whatever it met: a post script, a feed script
\* that was told to stop, a stream that was replaced or left (post.ts:672-719,
\* doomscroll.ts:497-639, remote-routes.ts:133-187).
WorkEnds == PEnds /\ FStopEnds /\ VCloses

MCSafe == MCInit /\ [][MCNext]_mcVars
MCSpec == MCSafe /\ \A a \in Viewers : WF_mcVars(Turn(a))
=============================================================================
