----------------------------- MODULE StateEmitter -----------------------------
(***************************************************************************)
(* The runtime state machine of one execution                              *)
(* (crates/traverse-runtime/src/lib.rs, struct StateEmitter).              *)
(*                                                                         *)
(* An emitter is a record: the current state, the states entered so far    *)
(* and the refused transitions.  A refused push does not move the machine; *)
(* in a debug build it also trips a debug_assert.  Timestamps, event ids   *)
(* and details carry no control and are left out.                          *)
(***************************************************************************)
EXTENDS Naturals, Sequences

RuntimeStates ==
  {"Idle", "LoadingRegistry", "Ready", "Discovering", "EvaluatingConstraints",
   "Selecting", "Executing", "EmittingEvents", "Completed", "Error"}

AllowedTransitions ==
  { <<"Idle", "LoadingRegistry", "RuntimeInitializationStarted">>,
    <<"LoadingRegistry", "Ready", "RegistryLoaded">>,
    <<"LoadingRegistry", "Error", "RegistryLoadFailed">>,
    <<"Ready", "Discovering", "RequestStarted">>,
    <<"Discovering", "EvaluatingConstraints", "CandidatesCollected">>,
    <<"Discovering", "Error", "NoMatch">>,
    <<"EvaluatingConstraints", "Selecting", "ConstraintsEvaluated">>,
    <<"EvaluatingConstraints", "Error", "ConstraintValidationFailed">>,
    <<"Selecting", "Executing", "CandidateSelected">>,
    <<"Selecting", "Error", "SelectionFailed">>,
    <<"Executing", "EmittingEvents", "ExecutionSucceededWithEvents">>,
    <<"Executing", "Completed", "ExecutionSucceeded">>,
    <<"Executing", "Error", "ExecutionFailed">>,
    <<"EmittingEvents", "Completed", "EventsEmitted">>,
    <<"EmittingEvents", "Error", "EventEmissionFailed">>,
    <<"Completed", "Ready", "ExecutionClosed">>,
    <<"Error", "Ready", "ExecutionClosed">> }

is_allowed_transition(from, to, reason) ==
  <<from, to, reason>> \in AllowedTransitions

(* StateEmitter::new *)
NewEmitter == [current |-> "Idle", entered |-> <<>>, violations |-> 0]

(* try_push *)
push(em, state, reason) ==
  IF is_allowed_transition(em.current, state, reason)
  THEN [em EXCEPT !.current = state, !.entered = Append(@, state)]
  ELSE [em EXCEPT !.violations = @ + 1]

(* The last two pushes of every outcome constructor. *)
close_with(em, state, reason) ==
  push(push(em, state, reason), "Ready", "ExecutionClosed")
=============================================================================
