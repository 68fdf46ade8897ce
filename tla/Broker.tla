-------------------------------- MODULE Broker --------------------------------
(***************************************************************************)
(* The in-process event broker                                             *)
(* (crates/traverse-runtime/src/events/broker.rs, catalog.rs).             *)
(*                                                                         *)
(* Publishers and subscribers are threads that share the broker; each      *)
(* method runs under the state mutex and is one action.  The clock is read *)
(* before the mutex is taken, so the time `at' a method works with may lag *)
(* the clock by up to ClockLag when other threads got in first.            *)
(*                                                                         *)
(* Telemetry, metrics and validation evidence are write-only records and   *)
(* are left out; observed_lineage is kept, as the history of deliveries.   *)
(* publish_with_cursor and seed_restart_floor are called only by the       *)
(* durable broker around this one: module DurableDelivery takes them.  On  *)
(* a broker that is not wrapped restart_floor stays 0.                     *)
(***************************************************************************)
EXTENDS Naturals, Sequences, FiniteSets, SequencesExt

CONSTANTS
  Types,            \* event types of the catalog that are Active
  Inactive,         \* event types registered as Draft or Deprecated
  Events,           \* envelopes: records [id, subject]
  Subjects,         \* subject identifiers
  NoSubject,        \* subject_id is None
  Refused,          \* envelopes validate_boundary rejects
  RetentionWindow,  \* BrokerConfig::retention_window
  MaxQueueLen,      \* BrokerConfig::max_queue_len
  MaxCursor,        \* bound: events published per type
  MaxSubscriptions, \* bound: subscriptions created
  MaxNow,           \* bound: clock
  ClockLag          \* how far a thread's clock reading may lag

(* with_clock_and_validation refuses a zero window and a zero queue.       *)
ASSUME BrokerAssumption ==
  /\ NoSubject \notin Subjects
  /\ \A e \in Events : e.subject \in Subjects \cup {NoSubject}
  /\ Refused \subseteq Events
  /\ Types \cap Inactive = {}
  /\ RetentionWindow \in Nat \ {0}
  /\ MaxQueueLen \in Nat \ {0}
  /\ MaxCursor \in Nat /\ MaxSubscriptions \in Nat
  /\ MaxNow \in Nat /\ ClockLag \in Nat

VARIABLES
  now,                \* the clock
  next_subscription,
  next_cursor,        \* [type -> highest cursor used]
  restart_floor,      \* cursors below it predate this process
  buffers,            \* [type -> sequence of BufferedEvent]
  seen,               \* seen_event_ids: [type -> set of ids]
  subs,               \* subscriptions: [live subscription -> SubscriptionState]
  index,              \* subscriptions_by_event_type
  consumers,          \* EventCatalogEntry::consumer_count
  lineage,            \* observed_lineage: the deliveries, in order
  published           \* history: [type -> all events accepted]

vars == <<now, next_subscription, next_cursor, restart_floor, buffers, seen,
          subs, index, consumers, lineage, published>>

-----------------------------------------------------------------------------
(* Helpers *)

Minus(a, b) == IF a > b THEN a - b ELSE 0

Buffered(cursor, at, event) == [cursor |-> cursor, at |-> at, event |-> event]

(* A subscription with a subject sees only events of that subject.         *)
Matches(subject, event) == subject = NoSubject \/ event.subject = subject

Expired(item, at) == Minus(at, item.at) > RetentionWindow

(* Drop items from the front while Test holds of them.                     *)
DropWhile(s, Test(_)) ==
  LET n == Max({k \in 0..Len(s) : \A i \in 1..k : Test(s[i])})
  IN  SubSeq(s, n + 1, Len(s))


enqueue_with_drop_oldest(queue, item) ==
  Append(IF Len(queue) >= MaxQueueLen
         THEN SubSeq(queue, Len(queue) - MaxQueueLen + 2, Len(queue))
         ELSE queue, item)

(* prune_expired: what it leaves of the buffer, of the seen ids and of the *)
(* subscriptions `ss'.  The queues are only synchronised while something   *)
(* is retained.                                                            *)
PrunedBuffer(t, at) == DropWhile(buffers[t], LAMBDA item : Expired(item, at))

(* Mutant: the ids of pruned events stay behind.                           *)
PrunedSeenKept(t, at) == seen[t]

PrunedSeen(t, at) ==
  LET dropped == Len(buffers[t]) - Len(PrunedBuffer(t, at))
  IN  seen[t] \ {buffers[t][i].event.id : i \in 1..dropped}

(* Mutant: off by one, the oldest retained event is dropped too.           *)
SyncedQueueStrict(queue, buffer) ==
  IF buffer = <<>> THEN queue
  ELSE DropWhile(queue, LAMBDA item : item.cursor <= buffer[1].cursor)

SyncedQueue(queue, buffer) ==
  IF buffer = <<>> THEN queue
  ELSE DropWhile(queue, LAMBDA item : item.cursor < buffer[1].cursor)

PrunedSubs(ss, t, at) ==
  [s \in DOMAIN ss |->
     IF s \in index[t]
     THEN [ss[s] EXCEPT !.queue = SyncedQueue(@, PrunedBuffer(t, at))]
     ELSE ss[s]]

PruneRetained(t, at) ==
  /\ buffers' = [buffers EXCEPT ![t] = PrunedBuffer(t, at)]
  /\ seen' = [seen EXCEPT ![t] = PrunedSeen(t, at)]

(* Mutants: the cursor is not validated; it is, one position too late.     *)
CursorNotValidated(t, buffer, from) == TRUE


(* validate_from_cursor, on the buffer prune_expired left.                 *)
CursorAccepted(t, buffer, from) ==
  \/ from = 0
  \/ buffer # <<>> /\ from >= Minus(buffer[1].cursor, 1)
  \/ buffer = <<>> /\ from >= next_cursor[t] /\ from >= restart_floor

Without(f, key) == [k \in DOMAIN f \ {key} |-> f[k]]

(* Clock readings a thread may work with.                                  *)
Readings == Minus(now, ClockLag)..now

-----------------------------------------------------------------------------
(* Operations *)

(* publish_internal: the cursor is the assigned one, or the broker's next  *)
(* when `assigned' is 0.  A duplicate within the window is discarded after *)
(* the prune.                                                              *)
publish_internal(t, event, assigned, at) ==
  LET cursor == IF assigned = 0 THEN next_cursor[t] + 1 ELSE assigned
      item   == Buffered(cursor, at, event)
      kept   == PrunedSubs(subs, t, at)
  IN  /\ event \notin Refused
      /\ t \in Types
      /\ IF event.id \in PrunedSeen(t, at)
         THEN /\ PruneRetained(t, at)
              /\ subs' = kept
              /\ UNCHANGED <<next_cursor, published>>
         ELSE /\ next_cursor' = [next_cursor EXCEPT ![t] =
                                   IF cursor > @ THEN cursor ELSE @]
              /\ buffers' = [buffers EXCEPT ![t] =
                               Append(PrunedBuffer(t, at), item)]
              /\ seen' = [seen EXCEPT ![t] =
                            PrunedSeen(t, at) \cup {event.id}]
              /\ subs' = [s \in DOMAIN kept |->
                            IF s \in index[t] /\ Matches(kept[s].subject, event)
                            THEN [kept[s] EXCEPT !.queue =
                                    enqueue_with_drop_oldest(@, item)]
                            ELSE kept[s]]
              /\ published' = [published EXCEPT ![t] = Append(@, item)]
      /\ UNCHANGED <<now, next_subscription, restart_floor, index, consumers,
                     lineage>>

publish(t, event) ==
  /\ t \in Types => next_cursor[t] < MaxCursor
  /\ \E at \in Readings : publish_internal(t, event, 0, at)

(* subscribe_with_subject: the type only has to be registered.             *)
subscribe_with_subject(t, from, subject, at) ==
  LET buffer  == PrunedBuffer(t, at)
      id      == next_subscription + 1
      replay  == SelectSeq(buffer, LAMBDA item :
                   /\ from = 0 \/ item.cursor > from
                   /\ Matches(subject, item.event))
      fresh   == [type |-> t, subject |-> subject, cursor |-> from,
                  queue |-> FoldLeft(enqueue_with_drop_oldest, <<>>, replay)]
  IN  /\ next_subscription < MaxSubscriptions
      /\ PruneRetained(t, at)
      /\ IF CursorAccepted(t, buffer, from)
         THEN /\ next_subscription' = id
              /\ subs' = [s \in DOMAIN subs \cup {id} |->
                            IF s = id THEN fresh
                                      ELSE PrunedSubs(subs, t, at)[s]]
              /\ index' = [index EXCEPT ![t] = @ \cup {id}]
              /\ consumers' = [consumers EXCEPT ![t] = @ + 1]
         ELSE /\ subs' = PrunedSubs(subs, t, at)
              /\ UNCHANGED <<next_subscription, index, consumers>>
      /\ UNCHANGED <<now, next_cursor, restart_floor, lineage, published>>

subscribe(t, from, subject) ==
  \E at \in Readings : subscribe_with_subject(t, from, subject, at)

(* What a poll at `at' takes from the queue of `s'.                        *)
Polled(s, max_events, at) ==
  LET queue == SyncedQueue(subs[s].queue, PrunedBuffer(subs[s].type, at))
  IN  SubSeq(queue, 1, IF Len(queue) < max_events THEN Len(queue)
                                                  ELSE max_events)

(* poll takes the subscription out of the map, prunes, and returns early   *)
(* on an expired cursor, without putting it back.                          *)
poll_at(s, max_events, at) ==
  LET sub    == subs[s]
      t      == sub.type
      rest   == PrunedSubs(Without(subs, s), t, at)
      buffer == PrunedBuffer(t, at)
      queue  == SyncedQueue(sub.queue, buffer)
      out    == Polled(s, max_events, at)
      polled == [sub EXCEPT !.queue = SubSeq(queue, Len(out) + 1, Len(queue)),
                            !.cursor = IF out = <<>> THEN @ ELSE Last(out).cursor]
  IN  /\ s \in DOMAIN subs
      /\ PruneRetained(t, at)
      /\ IF CursorAccepted(t, buffer, sub.cursor)
         THEN /\ subs' = [k \in DOMAIN subs |->
                            IF k = s THEN polled ELSE rest[k]]
              /\ lineage' = lineage \o
                   [i \in DOMAIN out |->
                      [sub |-> s, item |-> out[i], when |-> at]]
         ELSE /\ subs' = rest
              /\ UNCHANGED lineage
      /\ UNCHANGED <<now, next_subscription, next_cursor, restart_floor, index,
                     consumers, published>>

poll(s, max_events) == \E at \in Readings : poll_at(s, max_events, at)

cancel(s) ==
  /\ s \in DOMAIN subs
  /\ subs' = Without(subs, s)
  /\ index' = [index EXCEPT ![subs[s].type] = @ \ {s}]
  /\ UNCHANGED <<now, next_subscription, next_cursor, restart_floor, buffers,
                 seen, consumers, lineage, published>>

Tick ==
  /\ now < MaxNow
  /\ now' = now + 1
  /\ UNCHANGED <<next_subscription, next_cursor, restart_floor, buffers, seen,
                 subs, index, consumers, lineage, published>>

-----------------------------------------------------------------------------
Registered == Types \cup Inactive

Init ==
  /\ now = 0 /\ next_subscription = 0 /\ restart_floor = 0
  /\ next_cursor = [t \in Registered |-> 0]
  /\ buffers = [t \in Registered |-> <<>>]
  /\ seen = [t \in Registered |-> {}]
  /\ subs = [s \in {} |-> 0]
  /\ index = [t \in Registered |-> {}]
  /\ consumers = [t \in Registered |-> 0]
  /\ lineage = <<>>
  /\ published = [t \in Registered |-> <<>>]

Next ==
  \/ \E t \in Registered, e \in Events : publish(t, e)
  \/ \E t \in Registered, x \in Subjects \cup {NoSubject} :
       \E c \in 0..next_cursor[t] : subscribe(t, c, x)
  \/ \E s \in DOMAIN subs, n \in 0..MaxQueueLen : poll(s, n)
  \/ \E s \in DOMAIN subs : cancel(s)
  \/ Tick

Spec == Init /\ [][Next]_vars

-----------------------------------------------------------------------------
(* Properties *)

Items == [cursor : 1..MaxCursor, at : 0..MaxNow, event : Events]

(* Every variable has its type, and no queue is longer than max_queue_len  *)
(* (036 NFR-003).                                                          *)
TypeOK ==
  /\ now \in 0..MaxNow
  /\ next_subscription \in 0..MaxSubscriptions
  /\ next_cursor \in [Registered -> 0..MaxCursor]
  /\ restart_floor \in 0..MaxCursor
  /\ \A t \in Registered :
       buffers[t] \in Seq(Items) /\ published[t] \in Seq(Items)
  /\ seen \in [Registered -> SUBSET {e.id : e \in Events}]
  /\ DOMAIN subs \subseteq 1..next_subscription
  /\ \A s \in DOMAIN subs :
       /\ subs[s].type \in Registered
       /\ subs[s].subject \in Subjects \cup {NoSubject}
       /\ subs[s].cursor \in 0..MaxCursor
       /\ subs[s].queue \in Seq(Items) /\ Len(subs[s].queue) <= MaxQueueLen
  /\ index \in [Registered -> SUBSET (1..next_subscription)]
  /\ consumers \in [Registered -> 0..MaxSubscriptions]
  /\ \A i \in DOMAIN lineage :
       /\ lineage[i].sub \in 1..next_subscription
       /\ lineage[i].item \in Items /\ lineage[i].when \in 0..MaxNow

(* 036 FR-008: deduplication covers the retained events exactly: an id is  *)
(* refused while an event with it is in the buffer, accepted again after.  *)
DedupExact ==
  \A t \in Registered :
    /\ seen[t] = {buffers[t][i].event.id : i \in DOMAIN buffers[t]}
    /\ \A i, j \in DOMAIN buffers[t] :
         buffers[t][i].event.id = buffers[t][j].event.id => i = j

(* 036 FR-009: an event still retained and not yet delivered to a live     *)
(* subscription it matches is in the subscription's queue, unless the      *)
(* queue is full of later ones.                                            *)
QueueComplete ==
  \A s \in DOMAIN subs : \A item \in ToSet(buffers[subs[s].type]) :
    LET queue == subs[s].queue
    IN  Matches(subs[s].subject, item.event) /\ item.cursor > subs[s].cursor
        => \/ item \in ToSet(queue)
           \/ Len(queue) = MaxQueueLen /\ item.cursor < queue[1].cursor

(* 036 FR-003, QG-002: each subscription is delivered events in the order  *)
(* of their cursors, none twice, whatever is polled, pruned and dropped in *)
(* between.                                                                *)
DeliveredInOrder ==
  \A i, j \in DOMAIN lineage :
    i < j /\ lineage[i].sub = lineage[j].sub
      => lineage[i].item.cursor < lineage[j].item.cursor

(* The events of `s' the step delivered, and those it passed over: matched *)
(* by the subscription, published behind its cursor and before the last    *)
(* one delivered, and not delivered.                                       *)
DeliveredNow(s) ==
  {lineage'[i].item : i \in {k \in (Len(lineage) + 1)..Len(lineage') :
                               lineage'[k].sub = s}}

PassedOver(s) ==
  {item \in ToSet(published[subs[s].type]) \ DeliveredNow(s) :
     /\ Matches(subs[s].subject, item.event)
     /\ item.cursor > subs[s].cursor
     /\ \E d \in DeliveredNow(s) : item.cursor < d.cursor}

(* 036 SC-001, SC-003: a poll that does not report CursorExpired delivers  *)
(* without a gap.  What it may pass over was dropped from a full queue, or *)
(* had expired before a subscription from cursor "0" was first polled.     *)
GapOnlyByOverflow ==
  [][\A s \in DOMAIN subs :
       subs[s].cursor # 0 /\ PassedOver(s) # {}
         => Len(subs[s].queue) = MaxQueueLen]_vars

(* prune_expired: queues are synchronised "so they don't deliver events    *)
(* that are no longer retained".                                           *)
ExpiredNotDelivered ==
  \A i \in DOMAIN lineage : ~Expired(lineage[i].item, lineage[i].when)

(* 036 FR-021: what is no longer a subscription is not in the index.       *)
IndexExact ==
  \A t \in Registered :
    index[t] = {s \in DOMAIN subs : subs[s].type = t}

(* EventCatalogEntry: consumer_count is the "number of active              *)
(* subscribers".                                                           *)
ConsumerCountExact ==
  \A t \in Registered :
    consumers[t] = Cardinality({s \in DOMAIN subs : subs[s].type = t})

=============================================================================
