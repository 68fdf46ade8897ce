------------------------------- MODULE Runtime --------------------------------
(***************************************************************************)
(* Execution of runtime requests: Runtime::execute, PlacementRouter and    *)
(* the workflow traversal (crates/traverse-runtime/src/{lib.rs,            *)
(* router/mod.rs, workflows.rs}).                                          *)
(*                                                                         *)
(* Each member of Calls is one call of Runtime::execute on a thread of its *)
(* own.  Threads share the runtime by &self: the registry never changes,   *)
(* the trace store, the event broker and the lifecycle sink do.  A step of *)
(* a call ends where the call touches something shared, so the calls       *)
(* interleave there and nowhere else.                                      *)
(*                                                                         *)
(* A capability is a key <<name, version>>.  Payload and schema checks are *)
(* booleans chosen by the environment; the executor is external and        *)
(* returns any result.  The broker is the log of what it accepted (module  *)
(* Broker has its queues); its position in the log is an event's cursor.   *)
(***************************************************************************)
EXTENDS Naturals, Sequences, FiniteSets, Functions, StateEmitter, PlacementEvaluator

CONSTANTS
  Calls,            \* calls of Runtime::execute
  Scenarios,        \* [registry, req]: what the runtime is built with, and the
                    \* requests of the calls that are made
  Workflows,        \* workflow definitions by the key of their capability
  TypeRank,         \* the order of event types by name
  NoKey, NoOutcome, NoRequest

(* Registration rejects a workflow with a cycle or an edge to no node.     *)
ASSUME RuntimeAssumption ==
  /\ \A s \in Scenarios : DOMAIN s.req \subseteq Calls /\ s.registry.faults \in BOOLEAN
  /\ \A k \in DOMAIN Workflows :
       LET d == Workflows[k]
           nodes == DOMAIN d.capability
       IN  /\ d.start \in nodes /\ d.terminal \subseteq nodes
           /\ \A e \in d.edges : e.from \in nodes /\ e.to \in nodes
           /\ \E rank \in [nodes -> 1..Cardinality(nodes)] :
                \A e \in d.edges : rank[e.from] < rank[e.to]

VARIABLES
  registry,     \* [keys, indexed, caps, catalog, emissions, faults]: registered
                \* and indexed capabilities, the event types the broker knows,
                \* what an executor may emit in one run, and whether a call of
                \* the broker, the sink or the trace store may return an error
  pc, req, em,  \* per call: control, request, state machine
  key,          \* the selected capability
  produced,     \* events of the current executor run
  pending,      \* how many of them the broker was offered
  output_ok,    \* the run's output satisfies the output schema
  warnings, emitted, outcome,
  wf,           \* traversal state of a workflow-backed call
  trace_store, log, subs, lifecycle,
  executed,     \* history: <<call, key, "direct" or "step">> that ran
  offered,      \* history: per call, the events handed to the broker
  wakes         \* history: event records that woke an edge

shared == <<trace_store, log, subs, lifecycle>>
vars == <<registry, pc, req, em, key, produced, pending, output_ok, warnings,
          emitted, outcome, wf, shared, executed, offered, wakes>>

cap(k) == registry.caps[k]

NoTraversal ==
  [node |-> "none", step |-> 0, visited |-> <<>>, traversed |-> <<>>,
   waiting |-> {}, taken |-> {}, types |-> {}, found |-> {}, consumed |-> {},
   poll_failed |-> FALSE, cleanup_failed |-> FALSE]

Init ==
  /\ \E s \in Scenarios :
       /\ registry = s.registry
       /\ pc = [c \in Calls |-> IF c \in DOMAIN s.req THEN "idle" ELSE "unused"]
       /\ req = [c \in Calls |-> IF c \in DOMAIN s.req THEN s.req[c] ELSE NoRequest]
       /\ trace_store = [id \in {r.id : r \in Range(s.req)} |-> NoOutcome]
  /\ em = [c \in Calls |-> NewEmitter]
  /\ key = [c \in Calls |-> NoKey]
  /\ produced = [c \in Calls |-> <<>>]
  /\ pending = [c \in Calls |-> 0]
  /\ output_ok = [c \in Calls |-> TRUE]
  /\ warnings = [c \in Calls |-> {}]
  /\ emitted = [c \in Calls |-> <<>>]
  /\ outcome = [c \in Calls |-> NoOutcome]
  /\ wf = [c \in Calls |-> NoTraversal]
  /\ log = <<>> /\ subs = {} /\ lifecycle = <<>>
  /\ executed = {} /\ wakes = {}
  /\ offered = [c \in Calls |-> <<>>]

-----------------------------------------------------------------------------
(* Outcomes.  Every constructor pushes a terminal state and Ready, and     *)
(* fills the result, the selection and the execution record.               *)
Outcome(status, selection, execution, reason, events) ==
  [status |-> status, selection |-> selection, execution |-> execution,
   reason |-> reason, events |-> events]

Close(c, emitter, o) ==
  /\ em' = [em EXCEPT ![c] = emitter]
  /\ outcome' = [outcome EXCEPT ![c] = o]
  /\ pc' = [pc EXCEPT ![c] = "closing"]

invalid_request_outcome(c) ==
  Close(c, close_with(push(em[c], "EvaluatingConstraints", "CandidatesCollected"),
                      "Error", "ConstraintValidationFailed"),
        Outcome("Error", "InvalidRequest", "NotStarted", "ContractInputInvalid", <<>>))

hydration_failure_outcome(c) ==
  Close(c, close_with(em[c], "Error", "NoMatch"),
        Outcome("Error", "NoMatch", "NotStarted", "ArtifactNotRunnable", <<>>))

NoEligibleNoMatch(c, emitter, rejected) ==
  Close(c, close_with(emitter, "Error", "NoMatch"),
        Outcome("Error", "NoMatch", "NotStarted", "ArtifactNotRunnable", <<>>))

no_eligible_outcome(c, emitter, rejected) ==
  Close(c, close_with(emitter, "Error",
                      IF rejected = {} THEN "NoMatch" ELSE "ConstraintValidationFailed"),
        Outcome("Error", "NoMatch", "NotStarted", "ArtifactNotRunnable", <<>>))

ambiguous_outcome(c, emitter) ==
  Close(c, close_with(emitter, "Error", "SelectionFailed"),
        Outcome("Error", "Ambiguous", "NotStarted", "ArtifactNotRunnable", <<>>))

pre_execution_failure_outcome(c, reason) ==
  Close(c, close_with(em[c], "Error",
                      IF em[c].current = "Selecting" THEN "SelectionFailed"
                      ELSE "ConstraintValidationFailed"),
        Outcome("Error", "Selected", "NotStarted", reason, <<>>))

execution_failure_outcome(c, reason, events) ==
  Close(c, close_with(em[c], "Error", "ExecutionFailed"),
        Outcome("Error", "Selected", "Failed", reason, events))

successful_execution_outcome(c, events) ==
  LET emits_events == cap(key[c]).kind = "workflow" \/ cap(key[c]).emits # {}
      done == IF emits_events
              THEN close_with(push(em[c], "EmittingEvents", "ExecutionSucceededWithEvents"),
                              "Completed", "EventsEmitted")
              ELSE close_with(em[c], "Completed", "ExecutionSucceeded")
  IN  Close(c, done, Outcome("Completed", "Selected", "Succeeded", "None", events))

-----------------------------------------------------------------------------
(* begin_attempt, and the Discovering push at the head of execute. *)
begin_attempt(c) ==
  /\ pc[c] = "idle"
  /\ em' = [em EXCEPT ![c] =
       push(push(push(@, "LoadingRegistry", "RuntimeInitializationStarted"),
                 "Ready", "RegistryLoaded"),
            "Discovering", "RequestStarted")]
  /\ pc' = [pc EXCEPT ![c] = "resolving"]
  /\ UNCHANGED <<registry, req, key, produced, pending, output_ok, warnings,
                 emitted, outcome, wf, shared, executed, offered, wakes>>

(* The lookup that collect_candidates and collect_indexed_candidates share:*)
(* exact version, highest version of a range, or every version of a name.  *)
Lookup(r, keys) ==
  LET named == {k \in keys : k[1] = r.name}
      ranged == {k \in named : k[2] \in r.range}
  IN  CASE r.mode = "exact" -> {k \in named : k[2] = r.version}
        [] r.mode = "range" -> {k \in ranged : \A m \in ranged : m[2] =< k[2]}
        [] r.mode = "intent" -> named

collect_candidates(r) == Lookup(r, registry.keys)

collect_indexed_candidates(r) ==
  IF collect_candidates(r) = {} THEN Lookup(r, registry.indexed) ELSE {}

(* runs_locally: a workflow with a workflow reference; an executable that  *)
(* prefers Local, asks for neither host API nor network, and whose binary, *)
(* if it has one, has a location.                                          *)
evaluate_candidate(k) == cap(k).lifecycle /\ cap(k).runs_locally

(* resolve_candidates and the branch of execute that follows it.  hydrated *)
(* says whether the indexed contracts could be read.                       *)
resolve_candidates(c, hydrated) ==
  LET indexed == collect_indexed_candidates(req[c])
      discovered == collect_candidates(req[c]) \cup (IF hydrated THEN indexed ELSE {})
      eligible == {k \in discovered : evaluate_candidate(k)}
      evaluating == IF discovered = {} THEN em[c]
                    ELSE push(em[c], "EvaluatingConstraints", "CandidatesCollected")
      selecting == IF eligible = {} THEN evaluating
                   ELSE push(evaluating, "Selecting", "ConstraintsEvaluated")
  IN  \/ /\ indexed # {} /\ ~hydrated
         /\ hydration_failure_outcome(c)
         /\ UNCHANGED key
      \/ /\ indexed = {} \/ hydrated
         /\ eligible = {}
         /\ no_eligible_outcome(c, selecting, discovered)
         /\ UNCHANGED key
      \/ /\ Cardinality(eligible) > 1
         /\ ambiguous_outcome(c, selecting)
         /\ UNCHANGED key
      \/ \E k \in eligible :
           /\ eligible = {k}
           /\ key' = [key EXCEPT ![c] = k]
           /\ em' = [em EXCEPT ![c] = selecting]
           /\ pc' = [pc EXCEPT ![c] = "selected"]
           /\ UNCHANGED outcome

Resolve(c) ==
  /\ pc[c] = "resolving"
  /\ \/ ~req[c].valid /\ invalid_request_outcome(c) /\ UNCHANGED key
     \/ req[c].valid /\ \E hydrated \in BOOLEAN : resolve_candidates(c, hydrated)
  /\ UNCHANGED <<registry, req, produced, pending, output_ok, warnings, emitted,
                 wf, shared, executed, offered, wakes>>

-----------------------------------------------------------------------------
(* The gates of execute_selected, in their order: what must hold, and the  *)
(* failure reason when it does not.                                        *)
GatesNoDependencies(k, r) ==
  << <<~cap(k).draft, "ArtifactNotRunnable">>,
     <<r.target = "Local", "PlacementUnsupported">>,
     <<cap(k).artifact # "unreadable", "ArtifactMissing">>,
     <<cap(k).artifact # "rejected", "ArtifactNotRunnable">>,
     <<TRUE, "ArtifactMissing">>,
     <<r.input_ok, "ContractInputInvalid">> >>

Gates(k, r) ==
  << <<~cap(k).draft, "ArtifactNotRunnable">>,
     <<r.target = "Local", "PlacementUnsupported">>,
     <<cap(k).artifact # "unreadable", "ArtifactMissing">>,
     <<cap(k).artifact # "rejected", "ArtifactNotRunnable">>,
     <<cap(k).deps, "ArtifactMissing">>,
     <<r.input_ok, "ContractInputInvalid">> >>

VerificationGate == 4

(* The position of the first gate that refuses, 7 if none does. *)
FirstRefusal(k, r) ==
  CHOOSE i \in 1..7 :
    /\ i = 7 \/ ~Gates(k, r)[i][1]
    /\ \A j \in 1..(i - 1) : Gates(k, r)[j][1]

VerificationWarning(k) ==
  IF cap(k).artifact = "unsigned" THEN {"unsigned_artifact"} ELSE {}

execute_selected(c) ==
  LET refusal == FirstRefusal(key[c], req[c])
  IN  /\ pc[c] = "selected"
      /\ warnings' = [warnings EXCEPT ![c] = @ \cup
           (IF refusal > VerificationGate THEN VerificationWarning(key[c]) ELSE {})]
      /\ \/ /\ refusal # 7
            /\ pre_execution_failure_outcome(c, Gates(key[c], req[c])[refusal][2])
         \/ /\ refusal = 7
            /\ em' = [em EXCEPT ![c] = push(@, "Executing", "CandidateSelected")]
            /\ pc' = [pc EXCEPT ![c] =
                 IF cap(key[c]).kind = "workflow" THEN "workflow" ELSE "running"]
            /\ UNCHANGED outcome
      /\ UNCHANGED <<registry, req, key, produced, pending, output_ok, emitted, wf,
                     shared, executed, offered, wakes>>

-----------------------------------------------------------------------------
(* The events of one executor run, each with an identity: the call, the    *)
(* step (0 outside a workflow) and the position.                           *)
Identified(c, n, k, events) ==
  [i \in DOMAIN events |->
     [type |-> events[i].type, val |-> events[i].val, cap |-> k, id |-> <<c, n, i>>]]

Types(events) == [i \in DOMAIN events |-> events[i].type]

validate_natively_emitted_events(k, events) ==
  events # <<>> => /\ cap(k).subscribable
                   /\ \A i \in DOMAIN events : events[i].type \in cap(k).emits

(* The router: placement, then the executor.  The runtime passes Local as  *)
(* the hint and an idle snapshot.                                          *)
Placement(k) == evaluate_targets("Local", cap(k).permitted, idle_runtime_snapshot)

execute_with_executor(c) ==
  /\ pc[c] = "running"
  /\ \/ /\ Placement(key[c]) = NoEligibleTarget
        /\ execution_failure_outcome(c, "PlacementUnsupported", <<>>)
        /\ UNCHANGED <<produced, output_ok, executed>>
     \/ /\ Placement(key[c]) # NoEligibleTarget
        /\ executed' = executed \cup {<<c, key[c], "direct">>}
        /\ \/ execution_failure_outcome(c, "ExecutionFailed", <<>>)
              /\ UNCHANGED <<produced, output_ok>>
           \/ \E events \in registry.emissions, ok \in BOOLEAN :
                LET run == Identified(c, 0, key[c], events) IN
                \/ /\ ~validate_natively_emitted_events(key[c], run)
                   /\ execution_failure_outcome(c, "ExecutionFailed", <<>>)
                   /\ UNCHANGED <<produced, output_ok>>
                \/ /\ validate_natively_emitted_events(key[c], run)
                   /\ produced' = [produced EXCEPT ![c] = run]
                   /\ output_ok' = [output_ok EXCEPT ![c] = ok]
                   /\ pc' = [pc EXCEPT ![c] = "tracing"]
                   /\ UNCHANGED <<em, outcome>>
  /\ UNCHANGED <<registry, req, key, pending, warnings, emitted, wf, shared,
                 offered, wakes>>

(* TraceStore::insert under the store's lock, which may be poisoned; the   *)
(* id of the entry is the request's.                                       *)
record_trace(c) ==
  /\ pc[c] = "tracing"
  /\ \/ /\ trace_store' = [trace_store EXCEPT ![req[c].id] =
             [call |-> c, outcome |-> "Success", target |-> Placement(key[c])]]
        /\ pc' = [pc EXCEPT ![c] = "publishing"]
        /\ UNCHANGED <<em, outcome>>
     \/ /\ registry.faults
        /\ execution_failure_outcome(c, "ExecutionFailed", <<>>)
        /\ UNCHANGED trace_store
  /\ UNCHANGED <<registry, req, key, produced, pending, output_ok, warnings,
                 emitted, wf, log, subs, lifecycle, executed, offered, wakes>>

(* Step 5 of the router follows step 4; a workflow step has no trace entry.*)
MayPublish(c) == pc[c] \in {"publishing", "step_publishing"}

(* One EventBroker::publish of the loop that offers the run's events; an   *)
(* error is dropped.                                                       *)
publish_event(c) ==
  LET n == pending[c] + 1
      event == produced[c][n]
  IN  /\ MayPublish(c)
      /\ n \in DOMAIN produced[c]
      /\ pending' = [pending EXCEPT ![c] = n]
      /\ offered' = [offered EXCEPT ![c] = Append(@, event)]
      /\ \/ log' = Append(log, event)
         \/ registry.faults /\ UNCHANGED log
      /\ UNCHANGED <<registry, pc, req, em, key, produced, output_ok, warnings, emitted,
                     outcome, wf, trace_store, subs, lifecycle, executed, wakes>>

PublishedAlways(c) == TRUE
Published(c) == pending[c] = Len(produced[c])

(* The rest of execute_started_selection: the output check and the outcome.*)
finish_execution(c) ==
  /\ pc[c] = "publishing" /\ Published(c)
  /\ \/ ~output_ok[c] /\ execution_failure_outcome(c, "ContractOutputInvalid", <<>>)
     \/ output_ok[c] /\ successful_execution_outcome(c, Types(produced[c]))
  /\ UNCHANGED <<registry, req, key, produced, pending, output_ok, warnings, emitted,
                 wf, shared, executed, offered, wakes>>

(* emit_execution_lifecycle_event: a sink failure only adds a warning.     *)
emit_execution_lifecycle_event(c) ==
  /\ pc[c] = "closing"
  /\ \/ lifecycle' = Append(lifecycle, <<c, outcome[c].status>>) /\ UNCHANGED warnings
     \/ /\ registry.faults
        /\ warnings' = [warnings EXCEPT ![c] = @ \cup {"sink_delivery_failed"}]
        /\ UNCHANGED lifecycle
  /\ pc' = [pc EXCEPT ![c] = "closed"]
  /\ UNCHANGED <<registry, req, em, key, produced, pending, output_ok, emitted, outcome,
                 wf, trace_store, log, subs, executed, offered, wakes>>

-----------------------------------------------------------------------------
(* Workflow-backed capabilities. *)
definition(c) == Workflows[key[c]]

(* workflow_failure, as execute_workflow_capability maps it.  The events   *)
(* of the steps that ran stay in the evidence.                             *)
workflow_failure(c) == execution_failure_outcome(c, "ExecutionFailed", emitted[c])

(* execute_workflow: the lookup of the definition and its input check.     *)
execute_workflow(c) ==
  /\ pc[c] = "workflow"
  /\ \/ workflow_failure(c) /\ UNCHANGED wf
     \/ /\ key[c] \in DOMAIN Workflows
        /\ wf' = [wf EXCEPT ![c].node = definition(c).start]
        /\ pc' = [pc EXCEPT ![c] = "step"]
        /\ UNCHANGED <<em, outcome>>
  /\ UNCHANGED <<registry, req, key, produced, pending, output_ok, warnings, emitted,
                 shared, executed, offered, wakes>>

Visit(c, status) ==
  Append(wf[c].visited, [node |-> wf[c].node, status |-> status])

MarkLast(c, status) ==
  [wf[c].visited EXCEPT ![Len(wf[c].visited)].status = status]

(* One iteration of traverse_workflow up to the executor's return: lookup  *)
(* or hydration, the artifact gate, the input check, the run, the output   *)
(* check and the check of the emitted events.                              *)
run_step(c) ==
  LET k == definition(c).capability[wf[c].node]
      known == k \in registry.keys \cup registry.indexed
      verified == cap(k).artifact \notin {"unreadable", "rejected"}
      Fail(status) == /\ wf' = [wf EXCEPT ![c].visited = Visit(c, status)]
                      /\ workflow_failure(c)
                      /\ UNCHANGED <<produced, pending>>
  IN  /\ pc[c] = "step"
      /\ \/ ~known /\ Fail("Entered") /\ UNCHANGED <<warnings, executed>>
         \/ /\ known /\ (k \notin registry.keys \/ ~verified)
            /\ Fail("Failed")
            /\ UNCHANGED <<warnings, executed>>
         \/ /\ known /\ verified
            /\ warnings' = [warnings EXCEPT ![c] = @ \cup VerificationWarning(k)]
            /\ \/ Fail("Failed") /\ UNCHANGED executed
               \/ /\ executed' = executed \cup {<<c, k, "step">>}
                  /\ \/ Fail("Failed")
                     \/ \E events \in registry.emissions :
                          LET run == Identified(c, wf[c].step + 1, k, events) IN
                          /\ validate_natively_emitted_events(k, run)
                          /\ produced' = [produced EXCEPT ![c] = run]
                          /\ pending' = [pending EXCEPT ![c] = 0]
                          /\ wf' = [wf EXCEPT ![c].visited = Visit(c, "Entered")]
                          /\ pc' = [pc EXCEPT ![c] = "step_publishing"]
                          /\ UNCHANGED <<em, outcome>>
      /\ UNCHANGED <<registry, req, key, output_ok, emitted, shared, offered, wakes>>

(* Waiting edges.  A record is an event with the id it is consumed under:  *)
(* its position in the run, or its type and cursor in the broker.          *)
LocalRecords(c) ==
  {[rid |-> <<"event_record", i>>, event |-> produced[c][i]] : i \in DOMAIN produced[c]}

BrokerRecords(type) ==
  {[rid |-> <<type, i>>, event |-> log[i]] : i \in {j \in DOMAIN log : log[j].type = type}}

Satisfies(event, edge) ==
  event.type = edge.event /\ edge.predicate \in {"any", event.val}

(* evaluate_event_driven_edges: the pairs of a record and an edge it wakes *)
(* and has not woken before.                                               *)
evaluate_event_driven_edges(edges, records, consumed) ==
  {w \in records \X edges :
     Satisfies(w[1].event, w[2]) /\ <<w[1].rid, w[2].id>> \notin consumed}

Edges(W) == {w[2] : w \in W}
Consumptions(W) == {<<w[1].rid, w[2].id>> : w \in W}
WakeRecords(c, pass, W) ==
  {[call |-> c, step |-> wf[c].step, pass |-> pass, rid |-> w[1].rid,
    event |-> w[1].event.id, edge |-> w[2].id] : w \in W}

outgoing(c) == {e \in definition(c).edges : e.from = wf[c].node}
DirectUnlessPredicated(c) ==
  {e \in outgoing(c) : e.trigger = "direct" \/ e.predicate = "any"}
direct(c) == {e \in outgoing(c) : e.trigger = "direct"}
waiting_edges(c) == {e \in outgoing(c) : e.trigger = "event"}

UnresolvedAll(c, taken) == waiting_edges(c)
unresolved_edges(c, taken) == waiting_edges(c) \ taken

Traverse(t, e) ==
  [t EXCEPT !.node = e.to, !.step = @ + 1, !.traversed = Append(@, e.id),
            !.waiting = {}, !.taken = {}, !.types = {}, !.found = {}]

(* The end of a step: the evidence, then a direct edge, or the first pass  *)
(* over the waiting edges with the step's own events.                      *)
complete_step(c) ==
  LET woken == evaluate_event_driven_edges(waiting_edges(c), LocalRecords(c), wf[c].consumed)
      unresolved == unresolved_edges(c, Edges(woken))
      completed == [wf[c] EXCEPT !.visited = MarkLast(c, "Completed")]
  IN  /\ pc[c] = "step_publishing" /\ Published(c)
      /\ emitted' = [emitted EXCEPT ![c] = @ \o Types(produced[c])]
      /\ \/ /\ Cardinality(direct(c)) > 1
            /\ wf' = [wf EXCEPT ![c] = completed]
            /\ execution_failure_outcome(c, "ExecutionFailed", emitted'[c])
            /\ UNCHANGED wakes
         \/ \E e \in direct(c) :
              /\ direct(c) = {e}
              /\ wf' = [wf EXCEPT ![c] = Traverse(completed, e)]
              /\ pc' = [pc EXCEPT ![c] = "step"]
              /\ UNCHANGED <<em, outcome, wakes>>
         \/ /\ direct(c) = {}
            /\ wf' = [wf EXCEPT ![c] =
                 [completed EXCEPT !.waiting = unresolved, !.taken = Edges(woken),
                                   !.types = {e.event : e \in unresolved},
                                   !.consumed = @ \cup Consumptions(woken)]]
            /\ wakes' = wakes \cup WakeRecords(c, "local", woken)
            /\ pc' = [pc EXCEPT ![c] = IF unresolved = {} THEN "deciding" ELSE "subscribing"]
            /\ UNCHANGED <<em, outcome>>
      /\ UNCHANGED <<registry, req, key, produced, pending, output_ok, warnings, shared,
                     executed, offered>>

(* poll_broker_events_for_waiting_edges: for each event type subscribe     *)
(* from cursor 0, drain, cancel.  Event types are visited in sorted order. *)
FirstType(S) == CHOOSE t \in S : \A u \in S : TypeRank[t] =< TypeRank[u]

Subscription(c, cancel_failed) ==
  [call |-> c, step |-> wf[c].step, type |-> FirstType(wf[c].types),
   cancel_failed |-> cancel_failed]

(* A query that fails loses the warnings of its earlier cancels. *)
QueryRetried(c) == UNCHANGED <<wf, em, outcome, pc>>
QueryFailed(c) ==
  /\ wf' = [wf EXCEPT ![c].visited = MarkLast(c, "Failed")]
  /\ workflow_failure(c)

subscribe(c) ==
  LET registered == FirstType(wf[c].types) \in registry.catalog IN
  /\ pc[c] = "subscribing"
  /\ \/ /\ registered
        /\ subs' = subs \cup {Subscription(c, FALSE)}
        /\ pc' = [pc EXCEPT ![c] = "polling"]
        /\ UNCHANGED <<em, outcome, wf>>
     \/ ~registered /\ QueryFailed(c) /\ UNCHANGED subs
     \/ registry.faults /\ QueryFailed(c) /\ UNCHANGED subs
  /\ UNCHANGED <<registry, req, key, produced, pending, output_ok, warnings, emitted,
                 trace_store, log, lifecycle, executed, offered, wakes>>

PollReturnsEarly(c) ==
  /\ pc[c] = "polling"
  /\ \/ /\ wf' = [wf EXCEPT ![c].found = @ \cup BrokerRecords(FirstType(wf[c].types)),
                            ![c].poll_failed = FALSE]
        /\ pc' = [pc EXCEPT ![c] = "cancelling"]
        /\ UNCHANGED <<em, outcome>>
     \/ registry.faults /\ QueryFailed(c)
  /\ UNCHANGED <<registry, req, key, produced, pending, output_ok, warnings, emitted,
                 shared, executed, offered, wakes>>

poll(c) ==
  /\ pc[c] = "polling"
  /\ \/ wf' = [wf EXCEPT ![c].found = @ \cup BrokerRecords(FirstType(wf[c].types)),
                         ![c].poll_failed = FALSE]
     \/ registry.faults /\ wf' = [wf EXCEPT ![c].poll_failed = TRUE]
  /\ pc' = [pc EXCEPT ![c] = "cancelling"]
  /\ UNCHANGED <<registry, req, em, key, produced, pending, output_ok, warnings, emitted,
                 outcome, shared, executed, offered, wakes>>

(* The subscription is cancelled whether or not the poll failed. *)
cancel(c) ==
  LET open == Subscription(c, FALSE)
      left == wf[c].types \ {open.type}
  IN  /\ pc[c] = "cancelling"
      /\ \E cancelled \in BOOLEAN :
           /\ cancelled \/ registry.faults
           /\ subs' = (subs \ {open}) \cup
                (IF cancelled THEN {} ELSE {Subscription(c, TRUE)})
           /\ \/ wf[c].poll_failed /\ QueryFailed(c)
              \/ /\ ~wf[c].poll_failed
                 /\ wf' = [wf EXCEPT ![c].types = left,
                                     ![c].cleanup_failed = @ \/ ~cancelled]
                 /\ pc' = [pc EXCEPT ![c] = IF left = {} THEN "deciding" ELSE "subscribing"]
                 /\ UNCHANGED <<em, outcome>>
      /\ UNCHANGED <<registry, req, key, produced, pending, output_ok, warnings, emitted,
                     trace_store, log, lifecycle, executed, offered, wakes>>

(* The second pass over the edges still waiting, with the broker's events, *)
(* and the choice of the next node.                                        *)
choose_next(c) ==
  LET woken == evaluate_event_driven_edges(wf[c].waiting, wf[c].found, wf[c].consumed)
      matched == outgoing(c) \cap (wf[c].taken \cup Edges(woken))
      evaluated == [wf[c] EXCEPT !.taken = matched, !.cleanup_failed = FALSE,
                                 !.consumed = @ \cup Consumptions(woken)]
  IN  /\ pc[c] = "deciding"
      /\ wakes' = wakes \cup WakeRecords(c, "broker", woken)
      /\ warnings' = [warnings EXCEPT ![c] = @ \cup
           (IF wf[c].cleanup_failed THEN {"subscription_cleanup_failed"} ELSE {})]
      /\ \/ /\ Cardinality(matched) > 1
            /\ wf' = [wf EXCEPT ![c] = evaluated]
            /\ workflow_failure(c)
         \/ \E e \in matched :
              /\ matched = {e}
              /\ wf' = [wf EXCEPT ![c] = Traverse(evaluated, e)]
              /\ pc' = [pc EXCEPT ![c] = "step"]
              /\ UNCHANGED <<em, outcome>>
         \/ /\ matched = {}
            /\ wf' = [wf EXCEPT ![c] = evaluated]
            /\ \/ wf[c].node \in definition(c).terminal
                  /\ successful_execution_outcome(c, emitted[c])
               \/ workflow_failure(c)
      /\ UNCHANGED <<registry, req, key, produced, pending, output_ok, emitted, shared,
                     executed, offered>>

-----------------------------------------------------------------------------
Step(c) ==
  \/ Resolve(c) \/ execute_selected(c)
  \/ execute_with_executor(c) \/ record_trace(c) \/ publish_event(c)
  \/ finish_execution(c) \/ emit_execution_lifecycle_event(c)
  \/ execute_workflow(c) \/ run_step(c) \/ complete_step(c)
  \/ subscribe(c) \/ poll(c) \/ cancel(c) \/ choose_next(c)

Finished == \A c \in Calls : pc[c] \in {"closed", "unused"}

Next ==
  \/ \E c \in Calls : begin_attempt(c) \/ Step(c)
  \/ Finished /\ UNCHANGED vars

Spec == Init /\ [][Next]_vars

(* A call that was started runs to its end: it blocks on no other call.    *)
Fairness == \A c \in Calls : WF_vars(Step(c))
FairSpec == Spec /\ Fairness

-----------------------------------------------------------------------------
Closed(c) == pc[c] \in {"closing", "closed"}
MaxPushes == 9
Statuses == {"Entered", "Completed", "Failed"}

(* Every variable has its type, a call has an outcome exactly when it      *)
(* closed, and the state machine was pushed a bounded number of times.     *)
TypeOK ==
  /\ registry \in {s.registry : s \in Scenarios}
  /\ pc \in [Calls -> {"idle", "resolving", "selected", "running", "tracing", "publishing",
                      "workflow", "step", "step_publishing", "subscribing", "polling",
                      "cancelling", "deciding", "closing", "closed", "unused"}]
  /\ \A c \in Calls : pc[c] = "unused" <=> req[c] = NoRequest
  /\ \A c \in Calls :
       /\ em[c].current \in RuntimeStates /\ Len(em[c].entered) =< MaxPushes
       /\ key[c] \in DOMAIN registry.caps \cup {NoKey}
       /\ pending[c] \in 0..Len(produced[c])
       /\ outcome[c] # NoOutcome <=> Closed(c)
       /\ \A i \in DOMAIN wf[c].visited : wf[c].visited[i].status \in Statuses
  /\ \A s \in subs : s.call \in Calls

(* The state machine of an execution never refuses a push (the debug_assert*)
(* of StateEmitter::push), and a closed execution is back in Ready with    *)
(* one terminal state behind it, the one its result reports.               *)
StateMachineSound ==
  \A c \in Calls :
    /\ em[c].violations = 0
    /\ Closed(c) =>
         LET n == Len(em[c].entered) IN
         /\ em[c].current = "Ready"
         /\ em[c].entered[n - 1] = outcome[c].status
         /\ \A i \in 1..(n - 2) : em[c].entered[i] \notin {"Completed", "Error"}

(* A result, its selection record and its execution record tell one story: *)
(* Completed iff the execution succeeded, no execution without a selected  *)
(* capability, and an execution that the record calls NotStarted ran       *)
(* nothing and published nothing.                                          *)
OutcomeConsistent ==
  \A c \in Calls : Closed(c) =>
    LET o == outcome[c] IN
    /\ o.status = "Completed" <=> o.execution = "Succeeded"
    /\ o.reason = "None" <=> o.status = "Completed"
    /\ o.execution # "NotStarted" => o.selection = "Selected" /\ key[c] # NoKey
    /\ o.execution = "NotStarted" =>
         offered[c] = <<>> /\ \A x \in executed : x[1] # c

(* Nothing runs, selected directly or as a workflow step, whose artifact   *)
(* was unreadable or refused by verification; a direct run also passed the *)
(* draft, dependency, placement and input gates.                           *)
OnlyVerifiedRuns ==
  \A x \in executed :
    /\ cap(x[2]).artifact \in {"verified", "unsigned"}
    /\ x[3] = "direct" =>
         /\ evaluate_candidate(x[2]) /\ ~cap(x[2]).draft /\ cap(x[2]).deps
         /\ req[x[1]].target = "Local" /\ req[x[1]].input_ok

(* Every event the broker holds was declared by a Subscribable capability  *)
(* that really ran in the call it came from.                               *)
PublishedWasDeclared ==
  \A i \in DOMAIN log :
    LET e == log[i] IN
    /\ cap(e.cap).subscribable /\ e.type \in cap(e.cap).emits
    /\ \E via \in {"direct", "step"} : <<e.id[1], e.cap, via>> \in executed

(* The router records the trace of a run before any of its events is       *)
(* visible in the broker.                                                  *)
TracedBeforePublished ==
  \A i \in DOMAIN log :
    LET c == log[i].id[1] IN
    <<c, log[i].cap, "direct">> \in executed => trace_store[req[c].id] # NoOutcome

(* A completed execution reports exactly the events it handed to the       *)
(* broker, in order; so does the evidence of a failed workflow.            *)
ReportsItsEvents ==
  \A c \in Calls : Closed(c) /\ (outcome[c].status = "Completed" \/ wf[c].visited # <<>>) =>
    outcome[c].events = Types(offered[c])

(* Traversal evidence is a path: consecutive visited nodes are joined by   *)
(* the traversed edges, all but the last step completed, and a completed   *)
(* workflow ends in a terminal node with every step completed.             *)
EvidenceIsAPath ==
  \A c \in Calls : wf[c].visited # <<>> =>
    LET v == wf[c].visited
        t == wf[c].traversed
        edge(id) == CHOOSE e \in definition(c).edges : e.id = id
    IN  /\ v[1].node = definition(c).start
        /\ Len(t) \in {Len(v) - 1, Len(v)}
        /\ \A i \in 1..(Len(v) - 1) :
             /\ v[i].status = "Completed"
             /\ edge(t[i]).from = v[i].node /\ edge(t[i]).to = v[i + 1].node
        /\ Closed(c) /\ outcome[c].status = "Completed" =>
             v[Len(v)].status = "Completed" /\ v[Len(v)].node \in definition(c).terminal

(* One event record triggers a waiting edge of an execution at most once,  *)
(* although the step's own events come back through the broker.            *)
WokenOnce ==
  \A w, x \in wakes :
    w.call = x.call /\ w.event = x.event /\ w.edge = x.edge => w = x

(* An event edge is traversed only after an event woke it in that step     *)
(* which some execution had really published, of the edge's type and with  *)
(* the value its predicate asks for.                                       *)
TraversedWasWoken ==
  \A c \in Calls : \A i \in DOMAIN wf[c].traversed :
    \A e \in definition(c).edges :
      e.id = wf[c].traversed[i] /\ e.trigger = "event" =>
        \E w \in wakes :
          /\ w.call = c /\ w.edge = e.id /\ w.step = i - 1
          /\ \E d \in Calls : \E n \in DOMAIN offered[d] :
               LET event == offered[d][n] IN
               /\ event.id = w.event /\ event.type = e.event
               /\ e.predicate # "any" => event.val = e.predicate

(* A traversal leaves no broker subscription open behind it, except one    *)
(* whose cancel the broker refused.                                        *)
NoLeakedSubscription ==
  \A s \in subs : s.cancel_failed \/ pc[s.call] \in {"polling", "cancelling"}

(* Every call that starts closes: traversal of an acyclic workflow ends,   *)
(* and no broker or sink failure keeps it from ending.                     *)
EveryCallCloses ==
  \A c \in Calls : pc[c] = "resolving" ~> pc[c] = "closed"

(* workflows.rs:536-539: "an artifact rejected by `Runtime::execute`       *)
(* cannot run by being wrapped in a workflow pipeline step".  Execute      *)
(* rejects draft artifacts and artifacts that fail verification.           *)
StepsPassTheGates ==
  \A x \in executed : x[3] = "step" =>
    ~cap(x[2]).draft /\ cap(x[2]).artifact \in {"verified", "unsigned"}

(* A closed call's trace records the events it emitted, whatever its       *)
(* outcome.                                                                *)
TraceRecordsEvents ==
  \A c \in Calls : Closed(c) => outcome[c].events = Types(offered[c])
=============================================================================
