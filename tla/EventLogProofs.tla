--------------------------- MODULE EventLogProofs ---------------------------
(***************************************************************************)
(* What every implementation of the event log gives its callers, for any   *)
(* set of events and any length of history.  Journal is shown to implement *)
(* EventLog by model checking, so these hold of it within those bounds.    *)
(***************************************************************************)
EXTENDS EventLog, TLAPS

(* The log lies between floor and high, and what append answered for is    *)
(* either in it, as an event, or was reclaimed.                            *)
LogInv ==
  /\ high \in Nat /\ floor \in 0..high
  /\ answered \in SUBSET (1..high)
  /\ \A r \in log : r.seq \in Nat
  /\ \A s \in answered : s > floor => \E r \in log : r.seq = s /\ r.revokes = 0

\* A new record, told to the caller only if it is an event, keeps the log sound.
LEMMA WriteKeepsInv ==
  ASSUME LogInv, NEW e, NEW n, NEW told \in BOOLEAN, told => n = 0, LogWrite(e, n, told)
  PROVE  LogInv'
<1>. DEFINE new == Entry(high + 1, e, n)
<1>1. new.seq = high + 1 /\ new.revokes = n
  BY DEF Entry
<1>2. log' = log \cup {new} /\ high' = high + 1 /\ floor' = floor
  BY DEF LogWrite
<1>3. answered' = IF told THEN answered \cup {high + 1} ELSE answered
  BY DEF LogWrite
<1>. HIDE DEF new
<1>4. \A s \in answered' : s > floor' => \E r \in log' : r.seq = s /\ r.revokes = 0
  BY <1>1, <1>2, <1>3 DEF LogInv
<1>. QED  BY <1>1, <1>2, <1>3, <1>4 DEF LogInv

\* Appends, revocations and reclaims keep the log sound.
LEMMA NextKeepsInv == LogInv /\ [LogNext]_logVars => LogInv'
<1>. SUFFICES ASSUME LogInv, [LogNext]_logVars
              PROVE  LogInv'
  OBVIOUS
<1>1. ASSUME NEW e \in Payloads, NEW told \in BOOLEAN, LogAppend(e, told)
      PROVE  LogInv'
  BY <1>1, WriteKeepsInv DEF LogAppend
<1>2. ASSUME NEW s \in answered, LogRevoke(s)
      PROVE  LogInv'
  BY <1>2, WriteKeepsInv DEF LogRevoke
<1>3. ASSUME NEW n \in (floor + 1)..high, LogReclaim(n)
      PROVE  LogInv'
  <2>1. floor' = n /\ log' = {r \in log : r.seq > n} /\ high' = high /\ answered' = answered
    BY <1>3 DEF LogReclaim
  <2>2. \A s \in answered : s > n => \E r \in log : r.seq > n /\ r.seq = s /\ r.revokes = 0
    BY DEF LogInv
  <2>. QED  BY <2>1, <2>2 DEF LogInv
<1>4. CASE UNCHANGED logVars
  BY <1>4 DEF logVars, LogInv
<1>. QED  BY <1>1, <1>2, <1>3, <1>4 DEF LogNext

\* The log is sound in every state of every behaviour.
LEMMA LogInvariant == LogSpec => []LogInv
<1>1. LogInit => LogInv
  BY DEF LogInit, LogInv
<1>. QED  BY <1>1, NextKeepsInv, PTL DEF LogSpec

-----------------------------------------------------------------------------

\* A reader whose cursor has not expired misses no event that append answered
\* for, but for the revoked ones (append, append_revocation, prune and
\* replay_from of the journal).
THEOREM NoSilentGapInLog == LogSpec => []LogKept
<1>1. LogInv => LogKept
  <2>. SUFFICES ASSUME LogInv, NEW after \in Nat, ~LogExpired(after),
                       NEW s \in answered, s > after, ~ \E v \in log : v.revokes = s
                PROVE  \E r \in LogRead(after) : r.seq = s
    BY DEF LogKept
  <2>1. PICK r \in log : r.seq = s /\ r.revokes = 0
    BY DEF LogInv, LogExpired
  <2>. QED  BY <2>1 DEF LogRead
<1>. QED  BY <1>1, LogInvariant, PTL

\* The sequences that append returns increase for ever, also across records
\* whose caller was never answered (append, append_revocation).
THEOREM SequencesIncrease == LogSpec => LogMonotonic
<1>. DEFINE Increase == \A a \in answered' \ answered : \A b \in answered : b < a
<1>1. LogInv /\ [LogNext]_logVars => [Increase]_logVars
  <2>. SUFFICES ASSUME LogInv, LogNext
                PROVE  Increase
    BY DEF logVars
  <2>1. answered' \ answered \in SUBSET {high + 1}
    BY DEF LogNext, LogAppend, LogRevoke, LogReclaim, LogWrite
  <2>. QED  BY <2>1 DEF LogInv
<1>. QED  BY <1>1, LogInvariant, PTL DEF LogSpec, LogMonotonic
=============================================================================
