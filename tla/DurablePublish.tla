---------------------------- MODULE DurablePublish ----------------------------
(***************************************************************************)
(* The durable write path of event publication                             *)
(* (crates/traverse-runtime/src/events/durable.rs).                        *)
(*                                                                         *)
(* Each publication is one call of DurableBroker::publish on a thread of   *)
(* its own.  It hands the event to the writer thread over an mpsc channel  *)
(* and waits on a (Mutex<AckState>, Condvar) pair for at most              *)
(* write_timeout; the wait may end by the acknowledgement or by the clock  *)
(* at any moment, so the timeout is an ordinary step.  The writer appends  *)
(* to the journal, takes the ack's mutex, appends a revocation: each is a  *)
(* critical section of its own and a step of its own.                      *)
(*                                                                         *)
(* The journal is the sequence of its records (module Journal has the      *)
(* files), a cursor is a position in it.  `live' records what the inner    *)
(* broker accepted, in order.                                              *)
(***************************************************************************)
EXTENDS Naturals, Sequences

CONSTANTS
  Pubs,        \* publications
  NoPub,
  SinkFails,   \* may the sink return an error
  MaxCrashes,  \* bound: process crashes
  MaxPanics    \* bound: deaths of the writer thread

ASSUME PublishAssumption ==
  /\ NoPub \notin Pubs
  /\ SinkFails \in BOOLEAN
  /\ MaxCrashes \in Nat
  /\ MaxPanics \in Nat

VARIABLES
  pc,         \* where each publication is in publish()
  ack,        \* AckState of the Write job
  revokeAck,  \* AckState of the Revoke job
  cursor,     \* the cursor in Done(cursor), later publish()'s local
  jobs,       \* the mpsc channel
  stage,      \* where the writer is in its loop
  wpub,       \* the publication the writer works for
  wresult,    \* the cursor append_event returned, 0 for an error;
              \* for a revocation 1 or 0
  alive,      \* the writer thread has not died
  journal,    \* the durable records
  live,       \* what the inner broker accepted
  audit,      \* revocation failures reported to the audit sink
  lost,       \* publications whose job or revocation died with the writer
  crashes, panics

vars == <<pc, ack, revokeAck, cursor, jobs, stage, wpub, wresult, alive,
          journal, live, audit, lost, crashes, panics>>

WriterIdle == stage = "idle"

AckStates == {"None", "Pending", "Done", "Failed", "Abandoned"}

InFlight == {"waiting", "delivering", "revoking"}
Returned == {"accepted", "rejected"}

Job(kind, p) == [kind |-> kind, pub |-> p]
EventRecord(p) == [kind |-> "event", pub |-> p]
RevocationRecord(p) == [kind |-> "revocation", pub |-> p]

(* What replay would return: written, and no revocation behind it.         *)
Written(p) == \E i \in DOMAIN journal : journal[i] = EventRecord(p)
Revoked(p) == \E i \in DOMAIN journal : journal[i] = RevocationRecord(p)
Replayable(p) == Written(p) /\ ~Revoked(p)
Delivered(p) == \E i \in DOMAIN live : live[i].pub = p

Outcomes == IF SinkFails THEN {TRUE, FALSE} ELSE {TRUE}

-----------------------------------------------------------------------------
Init ==
  /\ pc = [p \in Pubs |-> "idle"]
  /\ ack = [p \in Pubs |-> "None"]
  /\ revokeAck = [p \in Pubs |-> "None"]
  /\ cursor = [p \in Pubs |-> 0]
  /\ jobs = <<>>
  /\ stage = "idle" /\ wpub = NoPub /\ wresult = 0
  /\ alive = TRUE
  /\ journal = <<>> /\ live = <<>>
  /\ audit = {} /\ lost = {}
  /\ crashes = 0 /\ panics = 0

(* publish() sends the Write job; with the writer gone it fails at once.   *)
Send(p) ==
  /\ pc[p] = "idle"
  /\ \/ /\ alive
        /\ pc' = [pc EXCEPT ![p] = "waiting"]
        /\ ack' = [ack EXCEPT ![p] = "Pending"]
        /\ jobs' = Append(jobs, Job("write", p))
     \/ /\ ~alive
        /\ pc' = [pc EXCEPT ![p] = "rejected"]
        /\ UNCHANGED <<ack, jobs>>
  /\ UNCHANGED <<revokeAck, cursor, stage, wpub, wresult, alive, journal,
                 live, audit, lost, crashes, panics>>

(* Mutants: a caller that gives up leaves the ack as it was; a caller that *)
(* waits without a timeout.                                                *)
WakeWithoutAbandon(p) ==
  /\ pc[p] = "waiting"
  /\ pc' = [pc EXCEPT ![p] = IF ack[p] = "Done" THEN "delivering"
                                                ELSE "rejected"]
  /\ UNCHANGED <<ack, revokeAck, cursor, jobs, stage, wpub, wresult, alive,
                 journal, live, audit, lost, crashes, panics>>

WakeWithoutTimeout(p) ==
  /\ pc[p] = "waiting" /\ ack[p] # "Pending"
  /\ pc' = [pc EXCEPT ![p] = IF ack[p] = "Done" THEN "delivering"
                                                ELSE "rejected"]
  /\ ack' = [ack EXCEPT ![p] = "Abandoned"]
  /\ UNCHANGED <<revokeAck, cursor, jobs, stage, wpub, wresult, alive,
                 journal, live, audit, lost, crashes, panics>>

(* The wait ends, by notification or timeout: the state found under the    *)
(* mutex decides, and Abandoned is left behind.                            *)
Wake(p) ==
  /\ pc[p] = "waiting"
  /\ pc' = [pc EXCEPT ![p] = IF ack[p] = "Done" THEN "delivering"
                                                ELSE "rejected"]
  /\ ack' = [ack EXCEPT ![p] = "Abandoned"]
  /\ UNCHANGED <<revokeAck, cursor, jobs, stage, wpub, wresult, alive,
                 journal, live, audit, lost, crashes, panics>>

(* inner.publish_with_cursor returns Ok.                                   *)
Deliver(p) ==
  /\ pc[p] = "delivering"
  /\ pc' = [pc EXCEPT ![p] = "accepted"]
  /\ live' = Append(live, [pub |-> p, cursor |-> cursor[p]])
  /\ UNCHANGED <<ack, revokeAck, cursor, jobs, stage, wpub, wresult, alive,
                 journal, audit, lost, crashes, panics>>

(* Mutant: an event that could not be delivered is reported as accepted.   *)
UndeliverableIgnored(p) ==
  /\ pc[p] = "delivering"
  /\ pc' = [pc EXCEPT ![p] = "accepted"]
  /\ UNCHANGED <<ack, revokeAck, cursor, jobs, stage, wpub, wresult, alive,
                 journal, live, audit, lost, crashes, panics>>

(* inner.publish_with_cursor returns an error: the record is to be revoked *)
(* before publish() returns.                                               *)
Undeliverable(p) ==
  /\ pc[p] = "delivering"
  /\ \/ /\ alive
        /\ pc' = [pc EXCEPT ![p] = "revoking"]
        /\ revokeAck' = [revokeAck EXCEPT ![p] = "Pending"]
        /\ jobs' = Append(jobs, Job("revoke", p))
        /\ UNCHANGED audit
     \/ /\ ~alive
        /\ pc' = [pc EXCEPT ![p] = "rejected"]
        /\ audit' = audit \cup {p}
        /\ UNCHANGED <<revokeAck, jobs>>
  /\ UNCHANGED <<ack, cursor, stage, wpub, wresult, alive, journal, live,
                 lost, crashes, panics>>

(* The wait for the revocation ends; unacknowledged, it is reported.       *)
WakeRevoked(p) ==
  /\ pc[p] = "revoking"
  /\ pc' = [pc EXCEPT ![p] = "rejected"]
  /\ revokeAck' = [revokeAck EXCEPT ![p] = "Abandoned"]
  /\ audit' = IF revokeAck[p] = "Pending" THEN audit \cup {p} ELSE audit
  /\ UNCHANGED <<ack, cursor, jobs, stage, wpub, wresult, alive, journal,
                 live, lost, crashes, panics>>

(* run_writer: recv, append_event.                                         *)
WriterAppend(ok) ==
  /\ alive /\ WriterIdle
  /\ jobs # <<>> /\ Head(jobs).kind = "write"
  /\ jobs' = Tail(jobs)
  /\ wpub' = Head(jobs).pub
  /\ stage' = "appended"
  /\ IF ok THEN /\ journal' = Append(journal, EventRecord(Head(jobs).pub))
                /\ wresult' = Len(journal) + 1
           ELSE /\ wresult' = 0
                /\ UNCHANGED journal
  /\ UNCHANGED <<pc, ack, revokeAck, cursor, alive, live, audit, lost,
                 crashes, panics>>

(* Mutants: a failed append acknowledged as done; a write that completed   *)
(* after its caller gave up is left alone.                                 *)
WriterAckAlwaysDone ==
  /\ alive /\ stage = "appended"
  /\ IF ack[wpub] = "Abandoned"
     THEN /\ stage' = IF wresult # 0 THEN "late" ELSE "idle"
          /\ UNCHANGED <<ack, cursor>>
     ELSE /\ stage' = "idle"
          /\ ack' = [ack EXCEPT ![wpub] = "Done"]
          /\ cursor' = [cursor EXCEPT ![wpub] = wresult]
  /\ UNCHANGED <<pc, revokeAck, jobs, wpub, wresult, alive, journal, live,
                 audit, lost, crashes, panics>>

WriterAckNoLateCheck ==
  /\ alive /\ stage = "appended"
  /\ stage' = "idle"
  /\ IF ack[wpub] = "Abandoned"
     THEN UNCHANGED <<ack, cursor>>
     ELSE /\ ack' = [ack EXCEPT ![wpub] = IF wresult # 0 THEN "Done"
                                                         ELSE "Failed"]
          /\ cursor' = [cursor EXCEPT ![wpub] = wresult]
  /\ UNCHANGED <<pc, revokeAck, jobs, wpub, wresult, alive, journal, live,
                 audit, lost, crashes, panics>>

(* The ack's mutex: an abandoned write that succeeded must be revoked.     *)
WriterAck ==
  /\ alive /\ stage = "appended"
  /\ IF ack[wpub] = "Abandoned"
     THEN /\ stage' = IF wresult # 0 THEN "late" ELSE "idle"
          /\ UNCHANGED <<ack, cursor>>
     ELSE /\ stage' = "idle"
          /\ ack' = [ack EXCEPT ![wpub] = IF wresult # 0 THEN "Done"
                                                         ELSE "Failed"]
          /\ cursor' = [cursor EXCEPT ![wpub] = wresult]
  /\ UNCHANGED <<pc, revokeAck, jobs, wpub, wresult, alive, journal, live,
                 audit, lost, crashes, panics>>

(* revoke(): append_revocation, and an audit record when that fails.       *)
RevokeRecord(p, ok) ==
  /\ journal' = IF ok THEN Append(journal, RevocationRecord(p)) ELSE journal
  /\ audit' = IF ok THEN audit ELSE audit \cup {p}

WriterRevokeLate(ok) ==
  /\ alive /\ stage = "late"
  /\ RevokeRecord(wpub, ok)
  /\ stage' = "idle"
  /\ UNCHANGED <<pc, ack, revokeAck, cursor, jobs, wpub, wresult, alive, live,
                 lost, crashes, panics>>

(* run_writer: recv, revoke() for a Revoke job ...                         *)
WriterRevoke(ok) ==
  /\ alive /\ WriterIdle
  /\ jobs # <<>> /\ Head(jobs).kind = "revoke"
  /\ jobs' = Tail(jobs)
  /\ wpub' = Head(jobs).pub
  /\ RevokeRecord(Head(jobs).pub, ok)
  /\ wresult' = IF ok THEN 1 ELSE 0
  /\ stage' = "replying"
  /\ UNCHANGED <<pc, ack, revokeAck, cursor, alive, live, lost, crashes,
                 panics>>

(* ... acknowledge_revocation.                                             *)
WriterReply ==
  /\ alive /\ stage = "replying"
  /\ revokeAck' = [revokeAck EXCEPT ![wpub] = IF wresult # 0 THEN "Done"
                                                             ELSE "Failed"]
  /\ stage' = "idle"
  /\ UNCHANGED <<pc, ack, cursor, jobs, wpub, wresult, alive, journal, live,
                 audit, lost, crashes, panics>>

(* What the writer still owes: the publications of the queued jobs and of  *)
(* the job in hand.                                                        *)
Queued(kind, p) == \E i \in DOMAIN jobs : jobs[i] = Job(kind, p)

Owed ==
  {p \in Pubs : \/ Queued("write", p)
                \/ Queued("revoke", p)
                \/ ~WriterIdle /\ wpub = p}

(* The writer thread dies; the channel closes and its jobs are gone.       *)
WriterPanic ==
  /\ alive /\ panics < MaxPanics
  /\ alive' = FALSE
  /\ lost' = lost \cup Owed
  /\ jobs' = <<>> /\ stage' = "idle"
  /\ panics' = panics + 1
  /\ UNCHANGED <<pc, ack, revokeAck, cursor, wpub, wresult, journal, live,
                 audit, crashes>>

(* The process dies and starts again on the same journal: calls in flight  *)
(* never return, jobs and acks are gone, a new writer starts.              *)
Crash ==
  /\ crashes < MaxCrashes
  /\ pc' = [p \in Pubs |-> IF pc[p] \in InFlight THEN "crashed" ELSE pc[p]]
  /\ lost' = lost \cup Owed
  /\ jobs' = <<>> /\ stage' = "idle"
  /\ alive' = TRUE
  /\ crashes' = crashes + 1
  /\ UNCHANGED <<ack, revokeAck, cursor, wpub, wresult, journal, live, audit,
                 panics>>

-----------------------------------------------------------------------------
WriterStep ==
  \/ \E ok \in Outcomes : \/ WriterAppend(ok)
                          \/ WriterRevokeLate(ok)
                          \/ WriterRevoke(ok)
  \/ WriterAck
  \/ WriterReply

Next ==
  \/ \E p \in Pubs : \/ Send(p)
                     \/ Wake(p)
                     \/ Deliver(p)
                     \/ Undeliverable(p)
                     \/ WakeRevoked(p)
  \/ WriterStep
  \/ WriterPanic
  \/ Crash

Spec == Init /\ [][Next]_vars

(* The writer thread keeps running, and wait_timeout_while returns.        *)
Fairness ==
  /\ WF_vars(WriterStep)
  /\ \A p \in Pubs : /\ WF_vars(Wake(p))
                     /\ WF_vars(Deliver(p) \/ Undeliverable(p))
                     /\ WF_vars(WakeRevoked(p))

FairSpec == Spec /\ Fairness

-----------------------------------------------------------------------------
(* Properties *)

TypeOK ==
  /\ pc \in [Pubs -> {"idle", "crashed"} \cup InFlight \cup Returned]
  /\ ack \in [Pubs -> AckStates]
  /\ revokeAck \in [Pubs -> AckStates]
  /\ cursor \in [Pubs -> Nat]
  /\ jobs \in Seq([kind : {"write", "revoke"}, pub : Pubs])
  /\ stage \in {"idle", "appended", "late", "replying"}
  /\ wpub \in Pubs \cup {NoPub}
  /\ wresult \in Nat
  /\ alive \in BOOLEAN
  /\ journal \in Seq([kind : {"event", "revocation"}, pub : Pubs])
  /\ live \in Seq([pub : Pubs, cursor : Nat])
  /\ audit \subseteq Pubs /\ lost \subseteq Pubs
  /\ crashes \in Nat /\ panics \in Nat

(* 066 FR-006, "makes every published event durable before it is           *)
(* delivered": what the inner broker accepted is in the journal, at the    *)
(* cursor it was delivered under, and nothing has revoked it.              *)
DeliveredIsDurable ==
  \A i \in DOMAIN live :
    /\ live[i].cursor \in DOMAIN journal
    /\ journal[live[i].cursor] = EventRecord(live[i].pub)
    /\ ~Revoked(live[i].pub)

(* 067 FR-004: a rejected event is "never silently downgraded to           *)
(* in-memory-only delivery", however the timeout and the write race; and   *)
(* an accepted one is delivered once.                                      *)
OutcomeMatchesDelivery ==
  /\ \A p \in Pubs : pc[p] = "accepted" <=> Delivered(p)
  /\ \A i, j \in DOMAIN live : live[i].pub = live[j].pub => i = j

(* 067 FR-004: an event whose publish() returned an error is kept out of   *)
(* replay: it was not written, or is revoked, or its revocation is on the  *)
(* way; otherwise an audit record reports it or the writer was lost.       *)
RejectedIsSuppressed ==
  \A p \in Pubs :
    pc[p] = "rejected" /\ Replayable(p) => p \in Owed \cup audit \cup lost

(* durable.rs: "if the abandoned write completes later, the writer durably *)
(* revokes it so it can never surface through replay".                     *)
RejectedNeverReplayable ==
  \A p \in Pubs : pc[p] = "rejected" => ~Replayable(p)

(* 036 FR-003/FR-004: live delivery follows the order of the cursors.      *)
LiveInCursorOrder ==
  \A i, j \in DOMAIN live : i < j => live[i].cursor < live[j].cursor

(* 067 FR-003: publish() returns, whatever the sink and the writer do.     *)
PublishReturns ==
  \A p \in Pubs : pc[p] = "waiting" ~> pc[p] \in Returned \cup {"crashed"}

(* 067 FR-004: a rejected event that got written stays replayable only for *)
(* a while, unless the revocation failed or the writer was lost.           *)
RejectedEventuallySuppressed ==
  \A p \in Pubs :
    pc[p] = "rejected" /\ Replayable(p)
      ~> ~Replayable(p) \/ p \in audit \cup lost

-----------------------------------------------------------------------------
(* The inductive invariant behind these *)

InHand(stages, p) == stage \in stages /\ wpub = p

WriteOwed(p) == Queued("write", p) \/ InHand({"appended"}, p)
RevokeOwed(p) == Queued("revoke", p) \/ InHand({"late", "replying"}, p)

(* The writer only ever works for a publication.                           *)
WriterHasPub == ~WriterIdle => wpub \in Pubs

(* There is one Write job per publication, and until the writer has looked *)
(* at its ack the publication waits unacknowledged or was rejected.        *)
OneWriteJob ==
  \A i, j \in DOMAIN jobs :
    jobs[i] = jobs[j] /\ jobs[i].kind = "write" => i = j

QueuedIsUnwritten ==
  \A p \in Pubs :
    Queued("write", p) => /\ ~InHand({"appended", "late", "replying"}, p)
                          /\ ~Written(p)

WriteOwedFate ==
  \A p \in Pubs :
    WriteOwed(p) => \/ pc[p] = "waiting" /\ ack[p] = "Pending"
                    \/ pc[p] = "rejected" /\ ack[p] = "Abandoned"

WaitingAck ==
  \A p \in Pubs : pc[p] = "waiting" => ack[p] \in {"Pending", "Done", "Failed"}

(* Nothing is revoked, or about to be, that can still be delivered.        *)
RevokedFate ==
  \A p \in Pubs :
    RevokeOwed(p) \/ Revoked(p) => pc[p] \in {"revoking", "rejected", "crashed"}

(* Only what was written is revoked.                                       *)
RevokedIsWritten ==
  \A p \in Pubs : RevokeOwed(p) => Written(p)

(* A cursor in the writer's hand or handed over is that of the event.      *)
AppendedCursor ==
  stage = "appended" =>
    IF wresult = 0 THEN ~Written(wpub)
    ELSE /\ wresult \in DOMAIN journal
         /\ journal[wresult] = EventRecord(wpub)

DoneCursor ==
  \A p \in Pubs :
    pc[p] = "delivering" \/ (pc[p] = "waiting" /\ ack[p] = "Done") =>
      /\ cursor[p] \in DOMAIN journal
      /\ journal[cursor[p]] = EventRecord(p)

LiveIsJournaled ==
  \A i \in DOMAIN live :
    /\ live[i].cursor \in DOMAIN journal
    /\ journal[live[i].cursor] = EventRecord(live[i].pub)

(* What is written of a publication that was not acknowledged.             *)
WrittenFate ==
  \A p \in Pubs :
    Written(p) =>
      /\ pc[p] # "idle"
      /\ pc[p] = "waiting" /\ ack[p] = "Pending" => p \in Owed \cup lost
      /\ ~(pc[p] = "waiting" /\ ack[p] = "Failed")

RevocationReply ==
  /\ stage = "replying" => IF wresult # 0 THEN Revoked(wpub) ELSE wpub \in audit
  /\ \A p \in Pubs :
       pc[p] = "revoking" =>
         /\ revokeAck[p] = "Done" => Revoked(p)
         /\ revokeAck[p] = "Failed" => p \in audit
         /\ revokeAck[p] \in {"Pending", "Done", "Failed"}

IInv ==
  /\ TypeOK
  /\ WriterHasPub
  /\ OneWriteJob
  /\ QueuedIsUnwritten
  /\ WriteOwedFate
  /\ WaitingAck
  /\ RevokedFate
  /\ RevokedIsWritten
  /\ AppendedCursor
  /\ DoneCursor
  /\ LiveIsJournaled
  /\ OutcomeMatchesDelivery
  /\ WrittenFate
  /\ RevocationReply
  /\ RejectedIsSuppressed

=============================================================================
