--------------------------- MODULE MCControlPlane ---------------------------
(***************************************************************************)
(* Small instances of what the control plane keeps: the clips of a phone's *)
(* post pipeline, the switch that has them drained, the phones of its      *)
(* workers and the clients it reaches them with.  What one of them makes   *)
(* of a phone the others take as it may come, so a behaviour follows one   *)
(* of them: that is `focus`; the others stay in one of their initial       *)
(* states.                                                                 *)
(***************************************************************************)
EXTENDS Pipeline, Fleet, RemoteControl, AutoSettings

CONSTANTS x1, x2
VARIABLE focus
mcVars == <<focus, pipelineVars, uVars, rVars, hVars>>

\* The phone has a profile on one worker and none on the other.
KnownProfile == [k \in {"k1", "k2"} |-> IF k = "k1" THEN "iphone8" ELSE "none"]

Scenes == {"faults", "cancel", "cleanup"}
Switches == {"switch", "flaws"}
Draining(Step) == focus \in Scenes /\ Step /\ UNCHANGED <<focus, uVars, rVars, hVars>>
Workshop(Step) == focus = "fleet" /\ Step /\ UNCHANGED <<focus, pipelineVars, rVars, hVars>>
Remote(Step) == focus = "remote" /\ Step /\ UNCHANGED <<focus, pipelineVars, uVars, hVars>>
Switching(Step) ==
  /\ focus \in Switches /\ Step /\ UNCHANGED <<focus, pipelineVars, uVars, rVars>>

\* Two clips and two drains, the second one of a repeating schedule.  One of the
\* drains may be given up while its handler goes on; the other one lives until
\* its status is written.
OneGivenUp ==
  /\ pass'[x2] = pass[x2]
  /\ drain'[x2].pc = "over" => drain[x2].pc \in {"sync", "purge", "over"}

\* Two refreshes and three requests are on their way and nothing fails, or one refresh
\* and two requests and a call fails.
Click ==
  \/ focus = "switch" /\ hflaws' = 0
  \/ focus = "flaws" /\ Cardinality(hreads') <= 1 /\ Cardinality(hsaves') <= 2

\* What may happen beside uploads, drains and the sweep.
Scene ==
  \/ focus = "faults" /\ UNCHANGED <<cancel, clean>>
  \/ focus = "cancel" /\ UNCHANGED <<mishaps, clean>>
  \/ focus = "cleanup" /\ UNCHANGED <<mishaps, cancel>>

MCInit ==
  /\ focus \in {"fleet", "remote"} \cup Switches \cup Scenes
  /\ PipelineInit /\ UInit /\ RInit /\ HInit
  /\ focus # "remote" => rentry.backend = "wda"
MCNext ==
  \/ Draining(PipelineNext /\ OneGivenUp /\ Scene) \/ Workshop(UNext) \/ Remote(RNext)
  \/ Switching(HNext /\ Click)

\* PipelineFairness and that of USpec.  Only actions of the focus are ever enabled,
\* so that the first condition may carry one of each.
MCFairness ==
  /\ WF_mcVars(Workshop(UTimer) \/ Draining(Progress /\ OneGivenUp /\ Scene))
  /\ \A p \in Refreshes \cup {Operator} :
       WF_mcVars(Workshop(UPass(p))) /\ WF_mcVars(Workshop(UArrival(p)))
MCSpec == MCInit /\ [][MCNext]_mcVars /\ MCFairness
=============================================================================
