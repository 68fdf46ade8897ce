-------------------------- MODULE PlacementEvaluator --------------------------
(***************************************************************************)
(* The three-tier placement of crates/traverse-contracts/src/placement.rs. *)
(* Loads are tenths: 0 is idle, 9 the last load the heuristics accept.     *)
(***************************************************************************)
EXTENDS Integers, FiniteSets

(* The order of the targets' Debug names, which breaks ties between loads. *)
TargetRank ==
  [Browser |-> 1, Cloud |-> 2, Device |-> 3, Edge |-> 4, Local |-> 5, Worker |-> 6]

ExecutionTargets == DOMAIN TargetRank

NoEligibleTarget == "NoEligibleTarget"

Overloaded == 9

Lighter(loads, a, b) ==
  \/ loads[a] < loads[b]
  \/ loads[a] = loads[b] /\ TargetRank[a] =< TargetRank[b]

(* Tier 3: the least loaded of the targets that are not overloaded. *)
HeuristicTarget(permitted, loads) ==
  LET eligible == {t \in permitted : loads[t] =< Overloaded}
  IN  IF eligible = {} THEN NoEligibleTarget
      ELSE CHOOSE t \in eligible : \A u \in eligible : Lighter(loads, t, u)

(* hint is a target or "None". *)
evaluate_targets(hint, permitted, loads) ==
  IF hint \in permitted THEN hint ELSE HeuristicTarget(permitted, loads)

(* The snapshot Runtime::execute passes: every target idle. *)
idle_runtime_snapshot == [t \in ExecutionTargets |-> 0]
=============================================================================
