--------------------------- MODULE DurableDelivery ---------------------------
(***************************************************************************)
(* Subscriptions on the durable broker                                     *)
(* (crates/traverse-runtime/src/events/durable.rs): the in-process broker  *)
(* of module Broker, fed with the cursors of the event log of module       *)
(* EventLog, and the durable subscriptions that read the log when the      *)
(* broker no longer holds what a cursor asks for.                          *)
(*                                                                         *)
(* Publications are taken from the moment their record is in the log       *)
(* (module DurablePublish has the hand-over to the writer): `inFlight' are *)
(* those whose publisher has its cursor and has not yet called the inner   *)
(* broker.  One consumer of one type follows the stream the way the API    *)
(* asks it to: it subscribes from the last cursor it was given, polls, and *)
(* subscribes again when its subscription expires or the process restarts. *)
(***************************************************************************)
EXTENDS Broker

CONSTANTS
  ClientType,     \* the event type the consumer follows
  ClientSubject,  \* its subject filter
  MaxInFlight,    \* publishers between journal and broker at one time
  MaxRestarts,    \* bound: process restarts
  MaxReclaims     \* bound: prunes of the journal

ASSUME DeliveryAssumption ==
  /\ ClientType \in Types
  /\ ClientSubject \in Subjects \cup {NoSubject}
  /\ MaxInFlight \in Nat \ {0}
  /\ MaxRestarts \in Nat /\ MaxReclaims \in Nat

VARIABLES
  log, high, floor, answered,  \* the journal
  inFlight,    \* publications with a cursor, not yet handed to the broker
  due,         \* cursors with a revocation in the writer's queue
  late,        \* cursor whose revocation the writer writes next, 0 for none
  accepted,    \* history: publications the broker took
  phase,       \* where the consumer is
  live,        \* its subscription on the inner broker
  durable,     \* cursor of its durable subscription
  polling,     \* locals of a durable poll: cursor, max and what it collected
  start,       \* history: cursor from which the consumer is owed everything
  reached,     \* the cursor the consumer was last given
  got,         \* history: what it received since `start', in order
  restarts, reclaims

logVars == <<log, high, floor, answered>>
clientVars == <<phase, live, durable, polling, start, reached, got>>
dvars == <<vars, logVars, inFlight, due, late, accepted, clientVars, restarts,
           reclaims>>

Payload(t, e) == [type |-> t, event |-> e]

J == INSTANCE EventLog WITH
       Payloads  <- {Payload(t, e) : t \in Types \cup Inactive, e \in Events},
       NoPayload <- NoSubject

(* Every publication has an envelope with an id of its own; module Broker  *)
(* has the ones that repeat an id.                                         *)
Fresh == {e \in Events : e.id = high + 1}

NoPoll == [cursor |-> 0, max |-> 0, out |-> <<>>]

-----------------------------------------------------------------------------
(* Publication *)

Publication(cursor, t, e) == [cursor |-> cursor, type |-> t, event |-> e]

(* The writer appended the event and its publisher saw Done(cursor).       *)
Write(t, e) ==
  /\ high < MaxCursor /\ late = 0
  /\ Cardinality(inFlight) < MaxInFlight
  /\ J!LogAppend(Payload(t, e), TRUE)
  /\ inFlight' = inFlight \cup {Publication(high + 1, t, e)}
  /\ UNCHANGED <<vars, due, late, accepted, clientVars, restarts, reclaims>>

(* The writer appended the event after its publisher had given up.         *)
WriteLate(t, e) ==
  /\ high < MaxCursor /\ late = 0
  /\ J!LogAppend(Payload(t, e), TRUE)
  /\ late' = high + 1
  /\ UNCHANGED <<vars, inFlight, due, accepted, clientVars, restarts, reclaims>>

(* inner.publish_with_cursor(event, cursor) returns Ok.                    *)
Deliver(p) ==
  /\ p \in inFlight
  /\ inFlight' = inFlight \ {p}
  /\ \E at \in Readings :
       /\ publish_internal(p.type, p.event, p.cursor, at)
       /\ accepted' = IF p.event.id \in PrunedSeen(p.type, at) THEN accepted
                      ELSE accepted \cup {p}
  /\ UNCHANGED <<logVars, due, late, clientVars, restarts, reclaims>>

(* It returns an error: a revocation is queued for the writer.             *)
Reject(p) ==
  /\ p \in inFlight
  /\ p.type \in Inactive \/ p.event \in Refused
  /\ inFlight' = inFlight \ {p}
  /\ due' = due \cup {p.cursor}
  /\ UNCHANGED <<vars, logVars, late, accepted, clientVars, restarts, reclaims>>

(* The writer appends a revocation: at once behind a late write, and when  *)
(* the job reaches it otherwise.                                           *)
Revoke(cursor) ==
  /\ high < MaxCursor
  /\ cursor \in (IF late = 0 THEN due ELSE {late})
  /\ J!LogRevoke(cursor)
  /\ late' = 0
  /\ due' = due \ {cursor}
  /\ UNCHANGED <<vars, inFlight, accepted, clientVars, restarts, reclaims>>

(* Retention of the journal, the operator's prune.                         *)
Reclaim(upto) ==
  /\ reclaims < MaxReclaims
  /\ upto \in (floor + 1)..high
  /\ J!LogReclaim(upto)
  /\ reclaims' = reclaims + 1
  /\ UNCHANGED <<vars, inFlight, due, late, accepted, clientVars, restarts>>

-----------------------------------------------------------------------------
(* Subscriptions *)

(* The consumer is handed events and a cursor.  From cursor "0" it is owed *)
(* nothing before the first event it receives.                             *)
Receive(items, cursor) ==
  /\ got' = got \o [i \in DOMAIN items |-> [cursor |-> items[i].cursor,
                                           event  |-> items[i].event]]
  /\ reached' = cursor
  /\ start' = IF start = 0 /\ items # <<>> THEN items[1].cursor ELSE start

(* It starts over where an error told it to: oldest_available_cursor.      *)
StartOver(cursor) == start' = cursor /\ reached' = cursor /\ got' = <<>>

(* subscribe_for_subject: the inner broker first ...                       *)
SubscribeInner ==
  /\ phase = "idle"
  /\ \E at \in Readings :
       /\ subscribe_with_subject(ClientType, reached, ClientSubject, at)
       /\ IF CursorAccepted(ClientType, PrunedBuffer(ClientType, at), reached)
          THEN phase' = "live" /\ live' = next_subscription'
          ELSE phase' = "fallback" /\ UNCHANGED live
  /\ UNCHANGED <<logVars, inFlight, due, late, accepted, durable, polling,
                 start, reached, got, restarts, reclaims>>

(* ... and behind its CursorExpired the journal, replay_from(cursor, 0).   *)
SubscribeDurable ==
  /\ phase = "fallback"
  /\ IF J!LogExpired(reached)
     THEN phase' = "idle" /\ StartOver(floor) /\ UNCHANGED durable
     ELSE /\ phase' = "durable" /\ durable' = reached
          /\ UNCHANGED <<start, reached, got>>
  /\ UNCHANGED <<vars, logVars, inFlight, due, late, accepted, live, polling,
                 restarts, reclaims>>

(* poll of a live subscription; on CursorExpired the subscription is gone. *)
PollLive(n) ==
  /\ phase = "live"
  /\ \E at \in Readings :
       /\ poll_at(live, n, at)
       /\ IF CursorAccepted(ClientType, PrunedBuffer(ClientType, at),
                            subs[live].cursor)
          THEN Receive(Polled(live, n, at), subs'[live].cursor)
               /\ UNCHANGED phase
          ELSE phase' = "idle" /\ UNCHANGED <<start, reached, got>>
  /\ UNCHANGED <<logVars, inFlight, due, late, accepted, live, durable, polling,
                 restarts, reclaims>>

(* poll of a durable subscription takes the subscriptions' lock ...        *)
PollDurable(n) ==
  /\ phase = "durable"
  /\ phase' = "polling"
  /\ polling' = [cursor |-> durable, max |-> n, out |-> <<>>]
  /\ UNCHANGED <<vars, logVars, inFlight, due, late, accepted, live, durable,
                 start, reached, got, restarts, reclaims>>

Wanted(r) ==
  r.event.type = ClientType /\ Matches(ClientSubject, r.event.event)

Upto(s, n) == SubSeq(s, 1, IF Len(s) < n THEN Len(s) ELSE n)

(* Where the scan of a batch leaves the cursor: behind the event that      *)
(* filled the poll, or behind the batch.                                   *)
BatchCursor(batch, taken, full) ==
  CASE full             -> Last(taken).seq
    [] ~full /\ batch # <<>> -> Last(batch).seq
    [] OTHER            -> polling.cursor

(* ... and reads batch after batch, with only the journal's lock taken for *)
(* each.  An error ends the poll without saving the cursor, and what was   *)
(* collected is dropped.                                                   *)
PollBatch ==
  LET batch == Upto(SetToSortSeq(J!LogRead(polling.cursor),
                                 LAMBDA a, b : a.seq < b.seq), polling.max)
      taken == Upto(SelectSeq(batch, Wanted), polling.max - Len(polling.out))
      out   == polling.out \o [i \in DOMAIN taken |->
                 [cursor |-> taken[i].seq, event |-> taken[i].event.event]]
      full  == Len(out) = polling.max
      to    == BatchCursor(batch, taken, full)
  IN  /\ phase = "polling"
      /\ CASE J!LogExpired(polling.cursor) ->
                /\ phase' = "idle" /\ polling' = NoPoll
                /\ StartOver(floor)
                /\ UNCHANGED durable
           [] ~J!LogExpired(polling.cursor) /\ (full \/ Len(batch) < polling.max) ->
                /\ phase' = "durable" /\ polling' = NoPoll
                /\ durable' = to
                /\ Receive(out, to)
           [] OTHER ->
                /\ polling' = [polling EXCEPT !.cursor = to, !.out = out]
                /\ UNCHANGED <<phase, durable, start, reached, got>>
      /\ UNCHANGED <<vars, logVars, inFlight, due, late, accepted, live,
                     restarts, reclaims>>

Cancel ==
  /\ phase \in {"live", "durable"}
  /\ phase' = "idle"
  /\ IF phase = "live" THEN cancel(live) ELSE UNCHANGED vars
  /\ UNCHANGED <<logVars, inFlight, due, late, accepted, live, durable, polling,
                 start, reached, got, restarts, reclaims>>

-----------------------------------------------------------------------------
(* Mutant: the restarted broker does not learn how far the journal got.    *)
SeedNothing == restart_floor' = 0

(* open: seed_restart_floor(journal.latest_cursor()) on a fresh broker.    *)
SeedRestartFloor == restart_floor' = high

(* The process dies and opens again: only the log is left, and with it     *)
(* go the publishers in flight and the revocations not yet written.        *)
Restart ==
  /\ restarts < MaxRestarts
  /\ restarts' = restarts + 1
  /\ SeedRestartFloor
  /\ next_subscription' = 0
  /\ next_cursor' = [t \in Registered |-> 0]
  /\ buffers' = [t \in Registered |-> <<>>]
  /\ seen' = [t \in Registered |-> {}]
  /\ subs' = [s \in {} |-> 0]
  /\ index' = [t \in Registered |-> {}]
  /\ consumers' = [t \in Registered |-> 0]
  /\ lineage' = <<>>
  /\ published' = [t \in Registered |-> <<>>]
  /\ inFlight' = {} /\ due' = {} /\ late' = 0
  /\ phase' = "idle" /\ polling' = NoPoll
  /\ UNCHANGED <<now, logVars, accepted, live, durable, start, reached, got,
                 reclaims>>

Clock ==
  /\ Tick
  /\ UNCHANGED <<logVars, inFlight, due, late, accepted, clientVars, restarts,
                 reclaims>>

DInit ==
  /\ Init
  /\ J!LogInit
  /\ inFlight = {} /\ due = {} /\ late = 0 /\ accepted = {}
  /\ phase = "idle" /\ live = 0 /\ durable = 0 /\ polling = NoPoll
  /\ start = 0 /\ reached = 0 /\ got = <<>>
  /\ restarts = 0 /\ reclaims = 0

DNext ==
  \/ \E t \in Registered, e \in Fresh : Write(t, e) \/ WriteLate(t, e)
  \/ \E p \in inFlight : Deliver(p) \/ Reject(p)
  \/ \E c \in due \cup ({late} \ {0}) : Revoke(c)
  \/ \E n \in (floor + 1)..high : Reclaim(n)
  \/ SubscribeInner \/ SubscribeDurable
  \/ \E n \in 1..2 : PollLive(n) \/ PollDurable(n)
  \/ PollBatch
  \/ Cancel
  \/ Restart
  \/ Clock

DSpec == DInit /\ [][DNext]_dvars

-----------------------------------------------------------------------------
(* Properties *)

(* Accepted events the consumer's cursor has passed, that it has not       *)
(* received and that do not wait in its queue.                             *)
Waiting == IF phase = "live" THEN {i.cursor : i \in ToSet(subs[live].queue)}
                             ELSE {}

Missed ==
  {p \in accepted : /\ p.type = ClientType
                    /\ Matches(ClientSubject, p.event)
                    /\ start < p.cursor /\ p.cursor <= reached
                    /\ p.cursor > floor
                    /\ p.cursor \notin Waiting
                    /\ \A i \in DOMAIN got : got[i].cursor # p.cursor}



(* 036 QG-001, 066 FR-007: no silent empty stream.  An accepted event      *)
(* behind the cursor of a live subscription is in its queue, or the next   *)
(* poll reports the cursor expired, also in a process that never saw the   *)
(* event.                                                                  *)
NoSilentEmptyStream ==
  phase = "live" /\ reached # 0 =>
    \A p \in accepted :
      /\ p.type = ClientType /\ Matches(ClientSubject, p.event)
      /\ p.cursor > reached
      => \/ p.cursor \in Waiting
         \/ ~CursorAccepted(ClientType, PrunedBuffer(ClientType, now), reached)
=============================================================================
