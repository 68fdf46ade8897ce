------------------------------ MODULE EventLog ------------------------------
(***************************************************************************)
(* What the durable journal promises its callers                           *)
(* (crates/traverse-runtime/src/events/journal.rs, the public methods of   *)
(* DurableEventJournal), with segments, files, caches and recovery left    *)
(* out.  Journal implements this specification; the durable broker         *)
(* (DurableDelivery) is built on it.                                       *)
(*                                                                         *)
(* `log' is the set of retained records, ordered by their sequences, and   *)
(* `high' the last sequence handed out.  A record may be in the log        *)
(* without the caller of append having been told so: the process died      *)
(* before append returned.                                                 *)
(***************************************************************************)
EXTENDS Naturals

CONSTANTS
  Payloads,  \* event envelopes
  NoPayload  \* the event of a revocation record

VARIABLES
  log,       \* retained records
  high,      \* the highest sequence handed out
  floor,     \* records up to this sequence have been reclaimed
  answered   \* sequences append returned to its caller

logVars == <<log, high, floor, answered>>

Entry(seq, event, revokes) == [seq |-> seq, event |-> event, revokes |-> revokes]

(* append and append_revocation: the record is durable, and answered for,  *)
(* or durable only.                                                        *)
LogWrite(event, revokes, told) ==
  /\ high' = high + 1
  /\ log' = log \cup {Entry(high + 1, event, revokes)}
  /\ answered' = IF told THEN answered \cup {high + 1} ELSE answered
  /\ UNCHANGED floor

(* append: a new event under the next sequence.                            *)
LogAppend(event, told) == LogWrite(event, 0, told)

(* append_revocation: a compensating record for an event appended before.  *)
LogRevoke(seq) == LogWrite(NoPayload, seq, FALSE)

(* prune: the oldest records go, and that they did stays known.            *)
LogReclaim(upto) ==
  /\ floor' = upto
  /\ log' = {r \in log : r.seq > upto}
  /\ UNCHANGED <<high, answered>>

(* replay_from reports CursorExpired exactly when a record behind the      *)
(* cursor has been reclaimed ...                                           *)
LogExpired(after) == after < floor

(* ... and otherwise returns the events behind the cursor that no retained *)
(* record revokes.                                                         *)
LogRead(after) ==
  {r \in log : /\ r.revokes = 0
               /\ r.seq > after
               /\ \A v \in log : v.revokes # r.seq}

LogInit == log = {} /\ high = 0 /\ floor = 0 /\ answered = {}

LogNext ==
  \/ \E e \in Payloads, told \in BOOLEAN : LogAppend(e, told)
  \/ \E s \in answered : LogRevoke(s)
  \/ \E n \in (floor + 1)..high : LogReclaim(n)

LogSpec == LogInit /\ [][LogNext]_logVars

-----------------------------------------------------------------------------

(* No silent gap: a reader behind whose cursor nothing was reclaimed gets  *)
(* every event append answered for, unless a retained record revokes it    *)
(* (replay_from of the journal, 066 FR-008).                               *)
LogKept ==
  \A after \in Nat : ~LogExpired(after) =>
     \A s \in answered : s > after =>
        \/ \E r \in LogRead(after) : r.seq = s
        \/ \E v \in log : v.revokes = s

(* 066 FR-007: the sequence append answers with is above all it answered   *)
(* with before.                                                            *)
LogMonotonic ==
  [][\A a \in answered' \ answered : \A b \in answered : b < a]_logVars
=============================================================================
