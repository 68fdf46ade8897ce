----------------------------- MODULE HostedSync -----------------------------
(***************************************************************************)
(* The hosted synchronization transport                                    *)
(* (crates/traverse-runtime/src/data_store_hosted_sync.rs): operations are *)
(* published to a relay under a short-lived credential for one scope, and  *)
(* consumers read them back from the cursor they hold.  The relay keeps an *)
(* operation for the replay window; a cursor it no longer keeps is         *)
(* answered with resync_required, after which the application catches up   *)
(* out of band.                                                            *)
(*                                                                         *)
(* The port has two implementations with one conformance suite: "ably",    *)
(* AblyHostedSyncTransport over InMemoryAblyEdge, which keeps one queue    *)
(* per scope and filters it on replay; and "relay", SharedRelay, which     *)
(* keeps one queue and removes what has expired.  Both number a new        *)
(* message by the length of its queue.                                     *)
(***************************************************************************)
EXTENDS Integers, Sequences, SequencesExt, FiniteSets, FiniteSetsExt

CONSTANTS
    Adapter,        \* "ably" or "relay"
    Ops,            \* operations: [id, scope, key]
    AcceptedKeys,   \* key versions of the active and previous window
    Credentials,    \* what the backend issues: [scope, token, expires_at]
    Authorized,     \* the <<scope, token>> pairs the edge lets through
    Consumers,      \* callers that replay, each with its own cursor
    ScopeOf,        \* consumer -> the scope it follows
    ReplayWindow,   \* how long an operation is kept
    MaxNow          \* bound: the clock

VARIABLES
    now_ms,
    relay_available,
    session,            \* the connected credential, or NoSession
    seen_operation_ids,
    messages,           \* queue -> retained messages, oldest first
    by_cursor,          \* relay only: cursor -> operation
    cursor,             \* consumer -> the cursor it holds, 0 at the start
    outcome,            \* consumer -> "delivered" or "resync", its last answer
    batch,              \* consumer -> operations of its last answer
    published,          \* scope -> operations acknowledged, in order
    level               \* consumer -> Len(published) at its last answer

relay == <<seen_operation_ids, messages, by_cursor>>
consumers == <<cursor, outcome, batch, level>>
vars == <<now_ms, relay_available, session, relay, consumers, published>>

NoSession == [token |-> "none"]
Scopes == {op.scope : op \in Ops}
Queues == IF Adapter = "ably" THEN Scopes ELSE {"relay"}
Queue(scope) == IF Adapter = "ably" THEN scope ELSE "relay"
NoOps == [c \in {} |-> {}]

Init ==
    /\ now_ms = 0
    /\ relay_available = TRUE
    /\ session = NoSession
    /\ seen_operation_ids = {}
    /\ messages = [q \in Queues |-> <<>>]
    /\ by_cursor = NoOps
    /\ cursor = [c \in Consumers |-> 0]
    /\ outcome = [c \in Consumers |-> "none"]
    /\ batch = [c \in Consumers |-> <<>>]
    /\ published = [s \in Scopes |-> <<>>]
    /\ level = [c \in Consumers |-> 0]

-----------------------------------------------------------------------------
(* The session.                                                            *)

connect(credential) ==
    /\ credential.token # "" /\ credential.expires_at > now_ms
    /\ relay_available
    /\ session' = credential
    /\ UNCHANGED <<now_ms, relay_available, relay, consumers, published>>

\* A refresh for another scope is refused; one that fails ends the session.
refresh_credential(credential) ==
    /\ session # NoSession
    /\ session.scope = credential.scope
    /\ session' = IF credential.expires_at > now_ms /\ credential.token # "" /\ relay_available
                  THEN credential ELSE NoSession
    /\ UNCHANGED <<now_ms, relay_available, relay, consumers, published>>

ensure_live_credential ==
    /\ session # NoSession
    /\ session.expires_at > now_ms
    /\ relay_available

\* The edge checks the token, the in-memory relay has none to check.
token_allowed == Adapter = "ably" => <<session.scope, session.token>> \in Authorized

set_relay_available(available) ==
    /\ relay_available # available
    /\ relay_available' = available
    /\ UNCHANGED <<now_ms, session, relay, consumers, published>>

-----------------------------------------------------------------------------
(* Retention.                                                              *)

Retained(queue, at) == SelectSeq(queue, LAMBDA m : m.retained_at >= at - ReplayWindow)

\* Mutant: the edge, too, removes what has expired, so cursors come again.
prune_expired_everywhere(at) ==
    /\ messages' = [q \in Queues |-> Retained(messages[q], at)]
    /\ UNCHANGED by_cursor

\* SharedRelay.prune_expired: the expired messages leave the queue and take
\* the operation filed under their cursor with them.
prune_expired(at) ==
    IF Adapter = "ably" THEN UNCHANGED <<messages, by_cursor>>
    ELSE LET queue == messages["relay"]
             kept == Retained(queue, at)
             gone == {m.cursor : m \in ToSet(SubSeq(queue, 1, Len(queue) - Len(kept)))}
         IN /\ messages' = [messages EXCEPT !["relay"] = kept]
            /\ by_cursor' = [c \in DOMAIN by_cursor \ gone |-> by_cursor[c]]

advance_clock ==
    /\ now_ms < MaxNow
    /\ now_ms' = now_ms + 1
    /\ prune_expired(now_ms')
    /\ UNCHANGED <<relay_available, session, seen_operation_ids, consumers, published>>

-----------------------------------------------------------------------------

\* An operation seen before is acknowledged again and not sent again.
publish(op) ==
    LET q == Queue(session.scope)
        next == Len(messages[q]) + 1
    IN /\ ensure_live_credential /\ session.scope = op.scope
       /\ op.key \in AcceptedKeys
       /\ op.id \notin seen_operation_ids
       /\ token_allowed
       /\ messages' = [messages EXCEPT ![q] =
                         Append(@, [cursor |-> next, retained_at |-> now_ms, op |-> op])]
       /\ by_cursor' = IF Adapter = "ably" THEN by_cursor
                       ELSE [c \in DOMAIN by_cursor \cup {next} |->
                               IF c = next THEN op ELSE by_cursor[c]]
       /\ seen_operation_ids' = seen_operation_ids \cup {op.id}
       /\ published' = [published EXCEPT ![op.scope] = Append(@, op)]
       /\ UNCHANGED <<now_ms, relay_available, session, consumers>>

\* The answer to replay_from: what a queue gives a caller that holds `at`.
\* The relay files operations by cursor apart from the queue, and skips a
\* message whose operation is gone.
Replay(queue, filed, at) ==
    LET places == {i \in DOMAIN queue : queue[i].cursor = at}
        start == IF places = {} THEN 0 ELSE Min(places)
        rest == SubSeq(queue, start + 1, Len(queue))
        found == SelectSeq(rest, LAMBDA m : Adapter = "relay" => m.cursor \in DOMAIN filed)
        last == start + Max({Len(found), 1})
    IN [resync |-> at # 0 /\ places = {},
        ops |-> [i \in DOMAIN found |->
                   IF Adapter = "relay" THEN filed[found[i].cursor] ELSE found[i].op],
        cursor |-> IF last \in DOMAIN queue THEN queue[last].cursor ELSE at]

\* One replay by c, and what c does with it.  After resync_required it gets
\* everything acknowledged so far from the application's own service and
\* starts over.
replay_from(c) ==
    LET scope == session.scope
        answer == Replay(Retained(messages'[Queue(scope)], now_ms), by_cursor', cursor[c])
    IN /\ ensure_live_credential /\ scope = ScopeOf[c]
       /\ token_allowed
       /\ prune_expired(now_ms)
       /\ outcome' = [outcome EXCEPT ![c] = IF answer.resync THEN "resync" ELSE "delivered"]
       /\ batch' = [batch EXCEPT ![c] = IF answer.resync THEN <<>> ELSE answer.ops]
       /\ cursor' = [cursor EXCEPT ![c] = IF answer.resync THEN 0 ELSE answer.cursor]
       /\ level' = [level EXCEPT ![c] = Len(published[scope])]
       /\ UNCHANGED <<now_ms, relay_available, session, seen_operation_ids, published>>

Next ==
    \/ \E credential \in Credentials : connect(credential) \/ refresh_credential(credential)
    \/ \E available \in BOOLEAN : set_relay_available(available)
    \/ advance_clock
    \/ \E op \in Ops : publish(op)
    \/ \E c \in Consumers : replay_from(c)

Spec == Init /\ [][Next]_vars

-----------------------------------------------------------------------------
(* Properties.                                                             *)

\* The operations acknowledged since c's last answer.
Missed(c) == SubSeq(published[ScopeOf[c]], level[c] + 1, Len(published[ScopeOf[c]]))

\* A replay from the cursor of a message delivers exactly the operations of
\* that scope acknowledged since the consumer's last answer, in the order of
\* their publication, or says resync_required: no cursor ever comes to stand
\* for another message (replay_from, history_from and the cursors of publish).
ReplayExact ==
    [][\A c \in Consumers :
         replay_from(c) /\ cursor[c] # 0 =>
            outcome'[c] = "resync" \/ batch'[c] = Missed(c)]_vars

\* The same of every replay after the first, also when the relay was empty at
\* the first and the consumer holds the cursor "0" it was given then.
ReplayComplete ==
    [][\A c \in Consumers :
         replay_from(c) /\ outcome[c] = "delivered" =>
            outcome'[c] = "resync" \/ batch'[c] = Missed(c)]_vars

=============================================================================
