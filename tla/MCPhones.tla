------------------------------ MODULE MCPhones ------------------------------
(***************************************************************************)
(* Small instances of the supervision of phones, and of the pages of the   *)
(* dashboard that watch a phone and set up its calibration.  Each module   *)
(* takes what the others store as it may come; a behaviour follows one of  *)
(* them, which is `focus`, and the others stay in an initial state.        *)
(***************************************************************************)
EXTENDS Supervision, LiveScreen, Calibration

VARIABLE focus
mcVars == <<focus, sVars, lVars, kVars>>

Supervised(Step) == focus = "supervision" /\ Step /\ UNCHANGED <<focus, lVars, kVars>>
Screen(Step) == focus = "screen" /\ Step /\ UNCHANGED <<focus, sVars, kVars>>
Calibrating(Step) == focus = "points" /\ Step /\ UNCHANGED <<focus, sVars, lVars>>

MCInit ==
  /\ focus \in {"supervision", "screen", "points"}
  /\ SInit /\ LInit /\ KInit
  /\ focus # "supervision" => ~mreg /\ slock.by = "nobody"
  /\ focus # "screen" => ~lphone /\ ~loff /\ ~lactivity
  /\ focus # "points" => kby = <<>>
MCNext == Supervised(SNext) \/ Screen(LNext) \/ Calibrating(KNext)

\* SFairness, where the supervision is followed, and LFairness, where a screen is.
\* Only actions of the focus are ever enabled, so that one condition may carry an
\* action of each.
MCFairness ==
  /\ WF_mcVars(Supervised(Reconcile) \/ Screen(LSummary))
  /\ WF_mcVars(Supervised(Reconnected) \/ Screen(LToken))
  /\ WF_mcVars(Supervised(MCloseKills) \/ Screen(LChecked))
  /\ \A s \in Sups :
       /\ WF_mcVars(Supervised(Main(s)) \/ Screen(LRefreshed))
       /\ WF_mcVars(Supervised(Shutdown(s)) \/ Screen(LTimer))
       /\ WF_mcVars(Supervised(SReaped(s)) \/ Screen(LSwap))
  /\ WF_mcVars(Screen(LLoaded \/ LError))
MCSpec == MCInit /\ [][MCNext]_mcVars /\ MCFairness
=============================================================================
