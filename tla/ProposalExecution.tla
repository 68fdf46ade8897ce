-------------------------- MODULE ProposalExecution --------------------------
(***************************************************************************)
(* Authorization, quota and execution of workflow proposals:               *)
(* crates/traverse-mcp/src/tools/proposals.rs and parallel_proposals.rs,   *)
(* over ApprovalTokenStore, QuotaTracker and the executors of              *)
(* crates/traverse-runtime/src/proposal.rs and parallel_proposal.rs.       *)
(*                                                                         *)
(* Calls run concurrently on threads of the host and share one token       *)
(* store and one quota tracker.  A step of a call ends where it takes or   *)
(* leaves a lock: each dimension of the tracker has a mutex of its own, so *)
(* a reservation is three steps, and so is its release.  Validation reads  *)
(* only what its caller lends it and is one step.                          *)
(***************************************************************************)
EXTENDS Proposal, FiniteSetsExt

CONSTANTS
  Calls,          \* threads inside an execute_*_proposal_via_mcp
  Requests,       \* set of [call -> [proposal, mode, token, keys]]
  Tokens,         \* [token id -> [max_use_count, genuine, workspace, proposal]]
  NoToken,
  Limit,          \* QuotaLimits: [dimension -> count]
  MaxConcurrentNodes

Dimensions == <<"principal", "app", "workspace">>

ASSUME QuotaAssumption ==
  /\ IsFiniteSet(Calls)
  /\ \A d \in ToSet(Dimensions) : Limit[d] \in Nat

VARIABLES
  request,     \* [call -> request]
  pc,          \* [call -> where the thread is]
  held,        \* [call -> dimensions whose slot the call has taken]
  response,    \* [call -> what the caller is told]
  slots,       \* QuotaTracker: [dimension -> [key -> count]]
  usage,       \* ApprovalTokenStore: [token id -> [use_count, revoked]]
  expired,     \* token ids whose expiry has passed
  steps,       \* [call -> its schedule: the waves, or the nodes one by one]
  wave,        \* [call -> index of the step it is at]
  inputs,      \* [call -> nodes of the wave not yet dispatched, in order]
  status,      \* [call -> [node -> "none", "running", or its result]]
  outcomes     \* [call -> the trace's node outcomes, in order]

shared == <<slots, usage, expired>>
execution == <<steps, wave, inputs, status, outcomes>>
vars == <<request, pc, held, response, slots, usage, expired,
          steps, wave, inputs, status, outcomes>>

P(c) == request[c].proposal
Parallel(c) == request[c].mode = "parallel"

(* What the executor is given to run: waves, or single nodes.              *)
Schedule(c) ==
  IF Parallel(c) THEN Waves(P(c))
  ELSE LET order == topological_order(P(c)) IN [i \in DOMAIN order |-> <<order[i]>>]

Go(c, where) == pc' = [pc EXCEPT ![c] = where]

Answer(c, what) ==
  /\ Go(c, "done")
  /\ response' = [response EXCEPT ![c] = what]

Keys == {request[c].keys[d] : c \in Calls, d \in ToSet(Dimensions)}

-----------------------------------------------------------------------------
Init ==
  /\ request \in Requests
  /\ pc = [c \in Calls |-> "validate"]
  /\ held = [c \in Calls |-> {}]
  /\ response = [c \in Calls |-> "none"]
  /\ slots = [d \in ToSet(Dimensions) |-> [k \in Keys |-> 0]]
  /\ usage = [t \in DOMAIN Tokens |-> [use_count |-> 0, revoked |-> FALSE]]
  /\ expired = {}
  /\ steps = [c \in Calls |-> <<>>]
  /\ wave = [c \in Calls |-> 1]
  /\ inputs = [c \in Calls |-> <<>>]
  /\ status = [c \in Calls |-> [n \in NodeIds(P(c)) |-> "none"]]
  /\ outcomes = [c \in Calls |-> <<>>]

(* Everything an entry point does before it looks at the token.            *)
Denial(c) ==
  CASE ~canonicalize_proposal(P(c)) -> "invalid_proposal"
    [] ~validate_proposal_against_host_state(P(c)) -> "invalid_proposal"
    [] Parallel(c) /\ ~compute_parallel_schedule(P(c)) -> "invalid_parallel_schedule"
    [] Parallel(c) /\ ~enforce_pure_read_only_parallelism(P(c)) -> "concurrent_side_effect_denied"
    [] OTHER -> "none"

Validate(c) ==
  /\ pc[c] = "validate"
  /\ LET denial == Denial(c)
     IN  IF denial # "none" THEN Answer(c, denial) /\ UNCHANGED steps
         ELSE /\ steps' = [steps EXCEPT ![c] = Schedule(c)]
              /\ Go(c, IF proposal_is_automatic_eligible(P(c)) THEN "reserve" ELSE "verify")
              /\ UNCHANGED response
  /\ UNCHANGED <<request, held, shared, wave, inputs, status, outcomes>>

(* verify_approval_token: the signature and claims of the token hold of    *)
(* this very proposal, and it has not expired yet.                         *)
Verified(c, t) ==
  /\ Tokens[t].genuine
  /\ Tokens[t].workspace = request[c].keys["workspace"]
  /\ Tokens[t].proposal = P(c)
  /\ t \notin expired

VerifyToken(c) ==
  /\ pc[c] = "verify"
  /\ LET t == request[c].token
     IN  CASE t = NoToken -> Answer(c, "approval_token_required")
           [] t # NoToken /\ ~Verified(c, t) -> Answer(c, "token_refused")
           [] OTHER -> Go(c, "record_use") /\ UNCHANGED response
  /\ UNCHANGED <<request, held, shared, execution>>

(* Mutant: the count is compared after it is incremented, by one too few.  *)
UsableOnceMore(t) == ~usage[t].revoked /\ usage[t].use_count <= Tokens[t].max_use_count

Usable(t) == ~usage[t].revoked /\ usage[t].use_count < Tokens[t].max_use_count

(* The use is recorded before the quota is asked for, and stays recorded   *)
(* when the quota denies.                                                  *)
check_and_record_use(c) ==
  /\ pc[c] = "record_use"
  /\ LET t == request[c].token
     IN  IF Usable(t)
         THEN /\ usage' = [usage EXCEPT ![t].use_count = @ + 1]
              /\ Go(c, "reserve") /\ UNCHANGED response
         ELSE Answer(c, "token_refused") /\ UNCHANGED usage
  /\ UNCHANGED <<request, held, slots, expired, execution>>

(* Revocation and expiry are of interest while a call has yet to look.     *)
Presented(t) ==
  \E c \in Calls : request[c].token = t /\ pc[c] \in {"validate", "verify", "record_use"}

revoke(t) ==
  /\ Presented(t) /\ ~usage[t].revoked
  /\ usage' = [usage EXCEPT ![t].revoked = TRUE]
  /\ UNCHANGED <<request, pc, held, response, slots, expired, execution>>

Expire(t) ==
  /\ Presented(t) /\ t \notin expired
  /\ expired' = expired \cup {t}
  /\ UNCHANGED <<request, pc, held, response, slots, usage, execution>>

-----------------------------------------------------------------------------
(* The dimension a reservation is at: the first one not yet taken.         *)
NextDimension(c) == Dimensions[Cardinality(held[c]) + 1]

(* reserve_dimension.  A denial gives back what was taken before it.       *)
reserve(c) ==
  /\ pc[c] = "reserve"
  /\ LET d == NextDimension(c)
         k == request[c].keys[d]
     IN  IF slots[d][k] >= Limit[d]
         THEN /\ Go(c, "release")
              /\ response' = [response EXCEPT ![c] = "quota_exhausted"]
              /\ UNCHANGED <<slots, held>>
         ELSE /\ slots' = [slots EXCEPT ![d][k] = @ + 1]
              /\ held' = [held EXCEPT ![c] = @ \cup {d}]
              /\ Go(c, IF Cardinality(held[c]) = 2 THEN "step" ELSE "reserve")
              /\ UNCHANGED response
  /\ UNCHANGED <<request, usage, expired, execution>>

(* Mutant: the rollback of a denied reservation forgets the app's slot     *)
(* when the principal's is back.                                           *)
release_principal_only(c) ==
  /\ pc[c] = "release"
  /\ IF "principal" \in held[c]
     THEN /\ slots' = [slots EXCEPT !["principal"][request[c].keys["principal"]] = @ - 1]
          /\ held' = [held EXCEPT ![c] = {}]
          /\ UNCHANGED pc
     ELSE Go(c, "done") /\ UNCHANGED <<slots, held>>
  /\ UNCHANGED <<request, response, usage, expired, execution>>

(* release, by Drop or by the rollback of a denied reservation: principal, *)
(* app, workspace, as far as they were taken; saturating_sub.              *)
release(c) ==
  /\ pc[c] = "release"
  /\ IF held[c] = {} THEN Go(c, "done") /\ UNCHANGED <<slots, held>>
     ELSE LET d == Dimensions[Min({i \in 1..3 : Dimensions[i] \in held[c]})]
              k == request[c].keys[d]
          IN  /\ slots' = [slots EXCEPT ![d][k] = IF @ = 0 THEN 0 ELSE @ - 1]
              /\ held' = [held EXCEPT ![c] = @ \ {d}]
              /\ UNCHANGED pc
  /\ UNCHANGED <<request, response, usage, expired, execution>>

-----------------------------------------------------------------------------
Running(c) == {n \in NodeIds(P(c)) : status[c][n] = "running"}
Failed(c) == \E n \in NodeIds(P(c)) : status[c][n] = "failed"
Skipped(c) == \E n \in NodeIds(P(c)) : status[c][n] = "skipped"

TerminalState(c) ==
  IF Failed(c) THEN "failed" ELSE IF Skipped(c) THEN "cancelled" ELSE "succeeded"

Outcome(n, result) == [node |-> n, status |-> result]

Finish(c) ==
  /\ pc[c] = "step" /\ wave[c] > Len(steps[c])
  /\ Go(c, "release")
  /\ response' = [response EXCEPT ![c] = TerminalState(c)]
  /\ UNCHANGED <<request, held, shared, execution>>

(* push_skipped_wave, and the sequential loop once a node has failed.      *)
PushSkipped(c) ==
  LET nodes == steps[c][wave[c]]
  IN  /\ status' = [status EXCEPT ![c] =
                      [n \in NodeIds(P(c)) |->
                         IF n \in ToSet(nodes) THEN "skipped" ELSE @[n]]]
      /\ outcomes' = [outcomes EXCEPT ![c] =
                        @ \o [i \in DOMAIN nodes |-> Outcome(nodes[i], "skipped")]]
      /\ wave' = [wave EXCEPT ![c] = @ + 1]

(* A step after a failure or a cancellation, or one whose wave starts past *)
(* the wall-time budget or exceeds the payload budget.                     *)
SkipStep(c) ==
  /\ pc[c] = "step" /\ wave[c] <= Len(steps[c])
  /\ Failed(c) \/ Skipped(c) \/ Parallel(c)
  /\ PushSkipped(c)
  /\ UNCHANGED <<request, pc, held, response, shared, steps, inputs>>

(* Mutant: the flags are consulted for waves that wait, not for this one.  *)
StartDespiteFailure(c) ==
  /\ pc[c] = "step" /\ wave[c] <= Len(steps[c])
  /\ inputs' = [inputs EXCEPT ![c] = steps[c][wave[c]]]
  /\ Go(c, "batch")
  /\ UNCHANGED <<request, held, response, shared, steps, wave, status, outcomes>>

StartStep(c) ==
  /\ pc[c] = "step" /\ wave[c] <= Len(steps[c])
  /\ ~Failed(c) /\ ~Skipped(c)
  /\ inputs' = [inputs EXCEPT ![c] = steps[c][wave[c]]]
  /\ Go(c, "batch")
  /\ UNCHANGED <<request, held, response, shared, steps, wave, status, outcomes>>

Batch(c) == SubSeq(inputs[c], 1, Min({MaxConcurrentNodes, Len(inputs[c])}))

(* dispatch_batch spawns a thread for each node of the next chunk; a       *)
(* failure in an earlier chunk of the wave does not stop it.               *)
Dispatch(c) ==
  /\ pc[c] = "batch" /\ inputs[c] # <<>>
  /\ status' = [status EXCEPT ![c] =
                  [n \in NodeIds(P(c)) |->
                     IF n \in ToSet(Batch(c)) THEN "running" ELSE @[n]]]
  /\ Go(c, "join")
  /\ UNCHANGED <<request, held, response, shared, steps, wave, inputs, outcomes>>

(* runtime.execute returns on the node's thread; a panic of a spawned      *)
(* thread is joined as a failure.                                          *)
NodeReturns(c, n, result) ==
  /\ pc[c] = "join" /\ status[c][n] = "running"
  /\ status' = [status EXCEPT ![c][n] = result]
  /\ UNCHANGED <<request, pc, held, response, shared, steps, wave, inputs, outcomes>>

(* Mutant: the slots are given back by the last statement of the call.     *)
PanicLeaks(c) ==
  /\ pc[c] = "join" /\ ~Parallel(c) /\ Running(c) # {}
  /\ Answer(c, "panicked")
  /\ UNCHANGED <<request, held, shared, execution>>

(* A panic of the sequential executor unwinds the whole call; dropping the *)
(* reservation is all that happens on the way out.                         *)
Panic(c) ==
  /\ pc[c] = "join" /\ ~Parallel(c) /\ Running(c) # {}
  /\ Go(c, "release")
  /\ response' = [response EXCEPT ![c] = "panicked"]
  /\ UNCHANGED <<request, held, shared, execution>>

(* Mutant: outcomes are taken down in an order of the batch's own.         *)
JoinReversed(c) ==
  /\ pc[c] = "join" /\ Running(c) = {}
  /\ LET batch == Reverse(Batch(c))
         rest  == SubSeq(inputs[c], Len(batch) + 1, Len(inputs[c]))
     IN  /\ outcomes' = [outcomes EXCEPT ![c] =
                           @ \o [i \in DOMAIN batch |-> Outcome(batch[i], status[c][batch[i]])]]
         /\ inputs' = [inputs EXCEPT ![c] = rest]
         /\ wave' = [wave EXCEPT ![c] = IF rest = <<>> THEN @ + 1 ELSE @]
         /\ Go(c, IF rest = <<>> THEN "step" ELSE "batch")
  /\ UNCHANGED <<request, held, response, shared, steps, status>>

(* Every handle of the batch is joined, in the batch's order.              *)
JoinBatch(c) ==
  /\ pc[c] = "join" /\ Running(c) = {}
  /\ LET batch == Batch(c)
         rest  == SubSeq(inputs[c], Len(batch) + 1, Len(inputs[c]))
     IN  /\ outcomes' = [outcomes EXCEPT ![c] =
                           @ \o [i \in DOMAIN batch |-> Outcome(batch[i], status[c][batch[i]])]]
         /\ inputs' = [inputs EXCEPT ![c] = rest]
         /\ wave' = [wave EXCEPT ![c] = IF rest = <<>> THEN @ + 1 ELSE @]
         /\ Go(c, IF rest = <<>> THEN "step" ELSE "batch")
  /\ UNCHANGED <<request, held, response, shared, steps, status>>

-----------------------------------------------------------------------------
CallStep(c) ==
  \/ Validate(c) \/ VerifyToken(c) \/ check_and_record_use(c)
  \/ reserve(c) \/ release(c)
  \/ StartStep(c) \/ SkipStep(c) \/ Dispatch(c) \/ JoinBatch(c) \/ Finish(c)
  \/ \E n \in NodeIds(P(c)), result \in {"succeeded", "failed"} : NodeReturns(c, n, result)
  \/ Panic(c)

Next ==
  \/ \E c \in Calls : CallStep(c)
  \/ \E t \in DOMAIN Tokens : revoke(t) \/ Expire(t)

Spec == Init /\ [][Next]_vars

(* The operating system schedules every thread, and an executor returns:   *)
(* weak fairness of each call, with ENABLED CallStep(c) written out.       *)
FairSpec ==
  /\ Spec
  /\ \A c \in Calls : []<>(pc[c] = "done") \/ []<><<CallStep(c)>>_vars

-----------------------------------------------------------------------------
Holders(d, k) == {c \in Calls : d \in held[c] /\ request[c].keys[d] = k}

(* QuotaTracker counts, in each of its dimensions, exactly the calls that  *)
(* own a slot there, however reservations, rollbacks and releases of       *)
(* concurrent calls interleave, and never more of them than the limit.     *)
QuotaExact ==
  \A d \in ToSet(Dimensions), k \in Keys :
    /\ slots[d][k] = Cardinality(Holders(d, k))
    /\ slots[d][k] <= Limit[d]

Executed(c) == \E n \in NodeIds(P(c)) : status[c][n] # "none"

(* Spec 109 FR-006 and FR-006a: a proposal that is not automatic-eligible  *)
(* runs only for a call whose token covers it and had a use recorded; and  *)
(* no token carries more executions than its use count, however many calls *)
(* present it at once.                                                     *)
ApprovedEffects ==
  /\ \A c \in Calls : Executed(c) /\ ~proposal_is_automatic_eligible(P(c)) =>
       /\ request[c].token # NoToken
       /\ Tokens[request[c].token].proposal = P(c)
       /\ usage[request[c].token].use_count > 0
  /\ \A t \in DOMAIN Tokens :
       Cardinality({c \in Calls : request[c].token = t /\ Executed(c)
                                    /\ ~proposal_is_automatic_eligible(P(c))})
         <= Tokens[t].max_use_count

(* Spec 110 FR-003: a node starts only when every predecessor has          *)
(* succeeded, so a join reads outputs that are there; a call that runs     *)
(* nodes owns its three slots.                                             *)
JoinsReadCompleted ==
  \A c \in Calls : Executed(c) =>
    /\ \A e \in Edges(P(c)) :
         status[c][e[2]] \in {"running", "succeeded", "failed"} => status[c][e[1]] = "succeeded"
    /\ pc[c] = "join" => held[c] = ToSet(Dimensions)

(* Spec 110 FR-004a and FR-001: nodes that run at the same time in one     *)
(* execution only read, and they are no more than max_concurrent_nodes.    *)
EffectsAlone ==
  \A c \in Calls :
    /\ Cardinality(Running(c)) <= MaxConcurrentNodes
    /\ Cardinality(Running(c)) > 1 => \A n \in Running(c) : Cap(P(c), n).effect = "pure_read"

(* Spec 110 FR-002, spec 109 FR-008: the trace lists every node once, in   *)
(* an order that the proposal alone determines, with the result the node   *)
(* really had; in a sequential trace nothing runs after a failure.         *)
TraceDeterministic ==
  \A c \in Calls : response[c] \in {"succeeded", "failed", "cancelled"} =>
    LET trace == outcomes[c]
    IN  /\ [i \in DOMAIN trace |-> trace[i].node] = FlattenSeq(steps[c])
        /\ \A i \in DOMAIN trace : trace[i].status = status[c][trace[i].node]
        /\ ~Parallel(c) => \A i, j \in DOMAIN trace :
             i < j /\ trace[i].status = "failed" => trace[j].status = "skipped"

(* The orders in which every edge points forward.                          *)
LinearExtensions(p) ==
  {s \in SetToSeqs(NodeIds(p)) :
     \A i, j \in DOMAIN s : <<s[i], s[j]>> \in Edges(p) => i < j}

LexLess(s, t) ==
  \E i \in DOMAIN s : s[i] < t[i] /\ \A j \in 1..(i - 1) : s[j] = t[j]

WaveOf(waves, n) == CHOOSE w \in DOMAIN waves : n \in ToSet(waves[w])

(* Spec 109 FR-007 and FR-007a, spec 110 FR-001: a well-formed proposal is *)
(* refused as cyclic exactly when no order of its nodes respects its       *)
(* edges; otherwise its execution order is the least such order, its waves *)
(* hold every node once, and a node's wave is the one after its latest     *)
(* predecessor's.                                                          *)
ScheduleSound ==
  \A c \in Calls : pc[c] = "validate" /\ StructurallyValid(P(c)) =>
    LET p      == P(c)
        orders == LinearExtensions(p)
        order  == topological_order(p)
        waves  == Waves(p)
    IN  /\ canonicalize_proposal(p) <=> orders # {}
        /\ orders # {} =>
             /\ order \in orders
             /\ \A s \in orders : ~LexLess(s, order)
             /\ ToSet(FlattenSeq(waves)) = NodeIds(p)
             /\ Len(FlattenSeq(waves)) = Cardinality(NodeIds(p))
             /\ \A n \in NodeIds(p) :
                  WaveOf(waves, n) =
                    1 + Max({0} \cup {WaveOf(waves, e[1]) : e \in {d \in Edges(p) : d[2] = n}})

(* Every call answers, and after the last one no slot is taken: neither a  *)
(* denial, nor a failure, nor a panic leaks a reservation.                 *)
SlotsReturned ==
  <>[](/\ \A c \in Calls : pc[c] = "done" /\ response[c] # "none"
       /\ \A d \in ToSet(Dimensions), k \in Keys : slots[d][k] = 0)

=============================================================================
