----------------------------- MODULE MCPlanning -----------------------------
(***************************************************************************)
(* Small instances of what plans work for the phones: the requests that    *)
(* make and change schedules and campaigns (MCSchedules), and the device   *)
(* pools and allocations of the page on which much of it is planned.  Each *)
(* module takes what the other stores as it may come; a behaviour follows  *)
(* one of them, which is `focus`, and the other stays in an initial state. *)
(***************************************************************************)
EXTENDS MCSchedules, Allocation

VARIABLE focus
schedVars == <<vars, scenario>>
planVars == <<focus, schedVars, aVars>>

Requesting(Step) == focus = "schedules" /\ Step /\ UNCHANGED <<focus, aVars>>
Allocating(Step) == focus = "pool" /\ Step /\ UNCHANGED <<focus, schedVars>>

PlanInit ==
  /\ focus \in {"schedules", "pool"}
  /\ MCInit /\ AInit
  /\ focus # "schedules" => scenario = "change"
  /\ apage.sel = Devs /\ apools[1].sel \in {{}, {d1}}
  /\ focus # "pool" => apools[1] = Gone
PlanNext ==
  Requesting(MCNext) \/ Allocating(ANext)
PlanSpec == PlanInit /\ [][PlanNext]_planVars
=============================================================================
