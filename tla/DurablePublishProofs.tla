------------------------- MODULE DurablePublishProofs -------------------------
(***************************************************************************)
(* Proofs about the durable write path, for any set of publications and    *)
(* any number of crashes and writer deaths.                                *)
(***************************************************************************)
EXTENDS DurablePublish, TLAPS

(* Facts about the sequence operators the module uses.                     *)
LEMMA AppendFacts ==
  ASSUME NEW S, NEW s \in Seq(S), NEW e \in S
  PROVE  /\ Append(s, e) \in Seq(S)
         /\ Len(Append(s, e)) = Len(s) + 1
         /\ DOMAIN Append(s, e) = 1..(Len(s) + 1)
         /\ DOMAIN s = 1..Len(s)
         /\ Len(s) \in Nat
         /\ \A i \in 1..Len(s) : Append(s, e)[i] = s[i]
         /\ Append(s, e)[Len(s) + 1] = e
OBVIOUS

LEMMA TailFacts ==
  ASSUME NEW S, NEW s \in Seq(S), s # <<>>
  PROVE  /\ Tail(s) \in Seq(S)
         /\ Head(s) = s[1]
         /\ Head(s) \in S
         /\ Len(s) \in Nat \ {0}
         /\ DOMAIN s = 1..Len(s)
         /\ Len(Tail(s)) = Len(s) - 1
         /\ DOMAIN Tail(s) = 1..(Len(s) - 1)
         /\ \A i \in 1..(Len(s) - 1) : Tail(s)[i] = s[i + 1]
OBVIOUS

LEMMA ElementFacts ==
  ASSUME NEW S, NEW s \in Seq(S)
  PROVE  \A i \in DOMAIN s : s[i] \in S
<1>1. DOMAIN s = 1..Len(s)
  OBVIOUS
<1>2. \A i \in 1..Len(s) : s[i] \in S
  OBVIOUS
<1> QED BY <1>1, <1>2

(* What a step that appends to the journal does to the predicates on it.   *)
LEMMA EventAppended ==
  ASSUME TypeOK, NEW x \in Pubs, journal' = Append(journal, EventRecord(x))
  PROVE  /\ \A i \in DOMAIN journal : i \in DOMAIN journal' /\ journal'[i] = journal[i]
         /\ Len(journal) + 1 \in DOMAIN journal'
         /\ Len(journal) + 1 # 0
         /\ journal'[Len(journal) + 1] = EventRecord(x)
         /\ \A p \in Pubs : Written(p)' <=> Written(p) \/ p = x
         /\ \A p \in Pubs : Revoked(p)' <=> Revoked(p)
<1> USE DEF EventRecord, RevocationRecord
<1>1. /\ DOMAIN journal = 1..Len(journal)
      /\ Len(journal) \in Nat
      /\ DOMAIN journal' = 1..(Len(journal) + 1)
      /\ \A i \in DOMAIN journal : journal'[i] = journal[i]
      /\ journal'[Len(journal) + 1] = EventRecord(x)
  BY AppendFacts DEF TypeOK
<1>2. \A p \in Pubs : Written(p)' <=> Written(p) \/ p = x
  BY <1>1 DEF Written
<1>3. \A p \in Pubs : Revoked(p)' <=> Revoked(p)
  BY <1>1 DEF Revoked
<1> QED BY <1>1, <1>2, <1>3

LEMMA RevocationAppended ==
  ASSUME TypeOK, NEW x \in Pubs, journal' = Append(journal, RevocationRecord(x))
  PROVE  /\ \A i \in DOMAIN journal : i \in DOMAIN journal' /\ journal'[i] = journal[i]
         /\ \A p \in Pubs : Written(p)' <=> Written(p)
         /\ \A p \in Pubs : Revoked(p)' <=> Revoked(p) \/ p = x
<1> USE DEF EventRecord, RevocationRecord
<1>1. /\ DOMAIN journal = 1..Len(journal)
      /\ Len(journal) \in Nat
      /\ DOMAIN journal' = 1..(Len(journal) + 1)
      /\ \A i \in DOMAIN journal : journal'[i] = journal[i]
      /\ journal'[Len(journal) + 1] = RevocationRecord(x)
  BY AppendFacts DEF TypeOK
<1>2. \A p \in Pubs : Written(p)' <=> Written(p)
  BY <1>1 DEF Written
<1>3. \A p \in Pubs : Revoked(p)' <=> Revoked(p) \/ p = x
  BY <1>1 DEF Revoked
<1> QED BY <1>1, <1>2, <1>3

LEMMA JournalUnchanged ==
  ASSUME journal' = journal
  PROVE  /\ \A i \in DOMAIN journal : i \in DOMAIN journal' /\ journal'[i] = journal[i]
         /\ \A p \in Pubs : (Written(p)' <=> Written(p)) /\ (Revoked(p)' <=> Revoked(p))
BY DEF Written, Revoked

(* The same for the channel.                                               *)
LEMMA JobSent ==
  ASSUME TypeOK, NEW k \in {"write", "revoke"}, NEW x \in Pubs,
         jobs' = Append(jobs, Job(k, x))
  PROVE  \A kind \in {"write", "revoke"}, p \in Pubs :
           Queued(kind, p)' <=> Queued(kind, p) \/ (kind = k /\ p = x)
<1> USE DEF Job
<1>1. /\ DOMAIN jobs = 1..Len(jobs)
      /\ Len(jobs) \in Nat
      /\ DOMAIN jobs' = 1..(Len(jobs) + 1)
      /\ \A i \in DOMAIN jobs : jobs'[i] = jobs[i]
      /\ jobs'[Len(jobs) + 1] = Job(k, x)
  BY AppendFacts DEF TypeOK
<1> QED BY <1>1 DEF Queued

LEMMA JobTaken ==
  ASSUME TypeOK, jobs # <<>>, jobs' = Tail(jobs)
  PROVE  /\ Head(jobs).pub \in Pubs
         /\ Head(jobs) = Job(Head(jobs).kind, Head(jobs).pub)
         /\ Queued(Head(jobs).kind, Head(jobs).pub)
         /\ \A kind \in {"write", "revoke"}, p \in Pubs :
              Queued(kind, p) <=> Queued(kind, p)' \/ Head(jobs) = Job(kind, p)
<1> USE DEF Job
<1>1. /\ DOMAIN jobs = 1..Len(jobs)
      /\ Len(jobs) \in Nat \ {0}
      /\ Head(jobs) = jobs[1]
      /\ Head(jobs) \in [kind : {"write", "revoke"}, pub : Pubs]
      /\ DOMAIN jobs' = 1..(Len(jobs) - 1)
      /\ \A i \in 1..(Len(jobs) - 1) : jobs'[i] = jobs[i + 1]
  BY TailFacts DEF TypeOK
<1>2. Head(jobs) = Job(Head(jobs).kind, Head(jobs).pub) /\ Head(jobs).pub \in Pubs
  BY <1>1
<1>3. Queued(Head(jobs).kind, Head(jobs).pub)
  BY <1>1, <1>2 DEF Queued
<1>4. ASSUME NEW kind \in {"write", "revoke"}, NEW p \in Pubs
      PROVE  Queued(kind, p) <=> Queued(kind, p)' \/ Head(jobs) = Job(kind, p)
  <2>1. ASSUME Queued(kind, p), Head(jobs) # Job(kind, p) PROVE Queued(kind, p)'
    <3>1. PICK i \in DOMAIN jobs : jobs[i] = Job(kind, p)
      BY <2>1 DEF Queued
    <3>2. i # 1 /\ i - 1 \in DOMAIN jobs' /\ jobs'[i - 1] = jobs[i]
      BY <1>1, <2>1, <3>1
    <3> QED BY <3>1, <3>2 DEF Queued
  <2>2. ASSUME Queued(kind, p)' PROVE Queued(kind, p)
    <3>1. PICK i \in DOMAIN jobs' : jobs'[i] = Job(kind, p)
      BY <2>2 DEF Queued
    <3>2. i + 1 \in DOMAIN jobs /\ jobs[i + 1] = jobs'[i]
      BY <1>1, <3>1
    <3> QED BY <3>1, <3>2 DEF Queued
  <2>3. ASSUME Head(jobs) = Job(kind, p) PROVE Queued(kind, p)
    BY <1>1, <2>3 DEF Queued
  <2> QED BY <2>1, <2>2, <2>3
<1> QED BY <1>2, <1>3, <1>4

LEMMA JobsUnchanged ==
  ASSUME jobs' = jobs
  PROVE  \A kind \in {"write", "revoke"}, p \in Pubs :
           Queued(kind, p)' <=> Queued(kind, p)
BY DEF Queued

LEMMA JobsEmptied ==
  ASSUME jobs' = <<>>
  PROVE  \A kind \in {"write", "revoke"}, p \in Pubs : ~Queued(kind, p)'
BY DEF Queued

(* A Write job is alone for its publication before and after it is sent or *)
(* taken.                                                                  *)
LEMMA JobSentOnce ==
  ASSUME TypeOK, OneWriteJob, NEW k \in {"write", "revoke"}, NEW x \in Pubs,
         k = "write" => ~Queued("write", x),
         jobs' = Append(jobs, Job(k, x))
  PROVE  OneWriteJob'
<1>1. /\ DOMAIN jobs = 1..Len(jobs)
      /\ Len(jobs) \in Nat
      /\ DOMAIN jobs' = 1..(Len(jobs) + 1)
      /\ \A i \in DOMAIN jobs : jobs'[i] = jobs[i]
      /\ jobs'[Len(jobs) + 1] = Job(k, x)
  BY AppendFacts DEF TypeOK, Job
<1>2. Job(k, x).kind = k
  BY DEF Job
<1>3. k = "write" => \A i \in DOMAIN jobs : jobs[i] # Job(k, x)
  BY DEF Queued
<1> SUFFICES ASSUME NEW i \in DOMAIN jobs', NEW j \in DOMAIN jobs',
                    jobs'[i] = jobs'[j], jobs'[i].kind = "write"
             PROVE  i = j
  BY DEF OneWriteJob
<1>4. CASE i \in DOMAIN jobs /\ j \in DOMAIN jobs
  BY <1>1, <1>4 DEF OneWriteJob
<1>5. CASE i = Len(jobs) + 1 \/ j = Len(jobs) + 1
  BY <1>1, <1>2, <1>3, <1>5
<1> QED BY <1>1, <1>4, <1>5

LEMMA JobTakenOnce ==
  ASSUME TypeOK, OneWriteJob, jobs # <<>>, jobs' = Tail(jobs)
  PROVE  /\ OneWriteJob'
         /\ \A p \in Pubs : Head(jobs) = Job("write", p) => ~Queued("write", p)'
<1>1. /\ DOMAIN jobs = 1..Len(jobs)
      /\ Len(jobs) \in Nat \ {0}
      /\ Head(jobs) = jobs[1]
      /\ DOMAIN jobs' = 1..(Len(jobs) - 1)
      /\ \A i \in 1..(Len(jobs) - 1) : jobs'[i] = jobs[i + 1]
  BY TailFacts DEF TypeOK
<1>2. OneWriteJob'
  BY <1>1 DEF OneWriteJob
<1>3. ASSUME NEW p \in Pubs, Head(jobs) = Job("write", p), Queued("write", p)'
      PROVE  FALSE
  <2>1. PICK i \in DOMAIN jobs' : jobs'[i] = Job("write", p)
    BY <1>3 DEF Queued
  <2>2. i + 1 \in DOMAIN jobs /\ jobs[i + 1] = jobs[1] /\ 1 \in DOMAIN jobs
    BY <1>1, <1>3, <2>1
  <2>3. jobs[1].kind = "write"
    BY <1>1, <1>3 DEF Job
  <2> QED BY <1>1, <2>1, <2>2, <2>3 DEF OneWriteJob
<1> QED BY <1>2, <1>3

LEMMA InitIInv == Init => IInv
<1> SUFFICES ASSUME Init PROVE IInv
  OBVIOUS
<1> USE DEF Init
<1>1. TypeOK
  <2>1. alive \in BOOLEAN
    OBVIOUS
  <2> QED BY <2>1, PublishAssumption DEF TypeOK, AckStates, InFlight, Returned
<1>2. /\ WriterHasPub /\ OneWriteJob /\ QueuedIsUnwritten
      /\ WriteOwedFate /\ WaitingAck /\ RevokedFate /\ RevokedIsWritten
  BY DEF WriterHasPub, OneWriteJob, QueuedIsUnwritten, WriteOwedFate,
     WaitingAck, RevokedFate,
         RevokedIsWritten, WriterIdle, WriteOwed, RevokeOwed, Queued, InHand, Revoked
<1>3. /\ AppendedCursor /\ DoneCursor /\ LiveIsJournaled /\ WrittenFate
      /\ RevocationReply
  BY DEF AppendedCursor, DoneCursor, LiveIsJournaled, WrittenFate,
         RevocationReply, Written, Revoked
<1>4. OutcomeMatchesDelivery /\ RejectedIsSuppressed
  BY DEF OutcomeMatchesDelivery, RejectedIsSuppressed, Delivered
<1> QED BY <1>1, <1>2, <1>3, <1>4 DEF IInv

(* One lemma per action: it keeps the inductive invariant.  Each first says *)
(* what the action does to the channel (q) and to the journal (j), then    *)
(* goes through the conjuncts.                                             *)
LEMMA SendStep ==
  ASSUME IInv, NEW p \in Pubs, Send(p), TypeOK' PROVE IInv'
<1> USE DEF IInv, TypeOK, Send, WriterIdle
<1>q. \A kind \in {"write", "revoke"}, q \in Pubs :
        Queued(kind, q)' <=> Queued(kind, q) \/ (alive /\ kind = "write" /\ q = p)
  BY JobSent, JobsUnchanged
<1>j. /\ \A i \in DOMAIN journal : i \in DOMAIN journal' /\ journal'[i] = journal[i]
      /\ \A q \in Pubs : Written(q)' <=> Written(q)
      /\ \A q \in Pubs : Revoked(q)' <=> Revoked(q)
  BY JournalUnchanged
<1>1. WriterHasPub'
  BY <1>q, <1>j DEF WriterHasPub
<1>2. OneWriteJob'
  <2>1. CASE alive
    <3>1. jobs' = Append(jobs, Job("write", p))
      BY <2>1
    <3> QED BY <3>1, JobSentOnce DEF WriteOwedFate, WriteOwed
  <2>2. CASE ~alive
    BY <2>2 DEF OneWriteJob
  <2> QED BY <2>1, <2>2
<1>3. QueuedIsUnwritten'
  BY <1>q, <1>j DEF QueuedIsUnwritten, WriteOwedFate, WriteOwed, RevokedFate,
     RevokeOwed, RevokedIsWritten, WrittenFate, InHand
<1>4. WriteOwedFate'
  BY <1>q, <1>j DEF WriteOwedFate, WriteOwed, InHand, OneWriteJob,
     QueuedIsUnwritten, WriterHasPub
<1>5. WaitingAck'
  BY <1>q, <1>j DEF WaitingAck, WriteOwedFate, WriteOwed, InHand, WriterHasPub
<1>6. RevokedFate'
  BY <1>q, <1>j DEF RevokedFate, RevokeOwed, WriteOwedFate, WriteOwed, InHand,
     InFlight, WriterHasPub
<1>7. RevokedIsWritten'
  BY <1>q, <1>j DEF RevokedIsWritten, RevokeOwed, InHand, WriterHasPub,
     AppendedCursor, DoneCursor, Written
<1>8. AppendedCursor'
  BY <1>q, <1>j DEF AppendedCursor, QueuedIsUnwritten, WriterHasPub
<1>9. DoneCursor'
  BY <1>q, <1>j DEF DoneCursor, AppendedCursor, WriteOwedFate, WriteOwed,
     InHand, WriterHasPub
<1>10. LiveIsJournaled'
  BY <1>q, <1>j DEF LiveIsJournaled, DoneCursor
<1>11. OutcomeMatchesDelivery'
  BY <1>q, <1>j DEF OutcomeMatchesDelivery, Delivered, InFlight
<1>12. WrittenFate'
  BY <1>q, <1>j DEF WrittenFate, RevokedFate, RevokeOwed, WriteOwedFate,
     WriteOwed, AppendedCursor, QueuedIsUnwritten, InHand, Owed, InFlight,
     WriterHasPub
<1>13. RevocationReply'
  BY <1>q, <1>j DEF RevocationReply, RevokedFate, RevokeOwed, InHand,
     WriterHasPub
<1>14. RejectedIsSuppressed'
  BY <1>q, <1>j DEF RejectedIsSuppressed, Replayable, WrittenFate,
     RevocationReply, AppendedCursor, WriteOwedFate, WriteOwed, WaitingAck,
     Owed, InHand, WriterHasPub, InFlight
<1> QED BY <1>1, <1>2, <1>3, <1>4, <1>5, <1>6, <1>7, <1>8, <1>9, <1>10, <1>11,
       <1>12, <1>13, <1>14

LEMMA WakeStep ==
  ASSUME IInv, NEW p \in Pubs, Wake(p), TypeOK' PROVE IInv'
<1> USE DEF IInv, TypeOK, Wake, WriterIdle
<1>q. \A kind \in {"write", "revoke"}, q \in Pubs :
        Queued(kind, q)' <=> Queued(kind, q)
  BY JobsUnchanged
<1>j. /\ \A i \in DOMAIN journal : i \in DOMAIN journal' /\ journal'[i] = journal[i]
      /\ \A q \in Pubs : Written(q)' <=> Written(q)
      /\ \A q \in Pubs : Revoked(q)' <=> Revoked(q)
  BY JournalUnchanged
<1>1. WriterHasPub'
  BY <1>q, <1>j DEF WriterHasPub
<1>2. OneWriteJob'
  BY DEF OneWriteJob
<1>3. QueuedIsUnwritten'
  BY <1>q, <1>j DEF QueuedIsUnwritten, WriteOwedFate, WriteOwed, RevokedFate,
     RevokeOwed, RevokedIsWritten, WrittenFate, InHand
<1>4. WriteOwedFate'
  BY <1>q, <1>j DEF WriteOwedFate, WriteOwed, InHand, OneWriteJob,
     QueuedIsUnwritten, WriterHasPub
<1>5. WaitingAck'
  BY <1>q, <1>j DEF WaitingAck, WriteOwedFate, WriteOwed, InHand, WriterHasPub
<1>6. RevokedFate'
  BY <1>q, <1>j DEF RevokedFate, RevokeOwed, WriteOwedFate, WriteOwed, InHand,
     InFlight, WriterHasPub
<1>7. RevokedIsWritten'
  BY <1>q, <1>j DEF RevokedIsWritten, RevokeOwed, InHand, WriterHasPub,
     AppendedCursor, DoneCursor, Written
<1>8. AppendedCursor'
  BY <1>q, <1>j DEF AppendedCursor, QueuedIsUnwritten, WriterHasPub
<1>9. DoneCursor'
  BY <1>q, <1>j DEF DoneCursor, AppendedCursor, WriteOwedFate, WriteOwed,
     InHand, WriterHasPub
<1>10. LiveIsJournaled'
  BY <1>q, <1>j DEF LiveIsJournaled, DoneCursor
<1>11. OutcomeMatchesDelivery'
  BY <1>q, <1>j DEF OutcomeMatchesDelivery, Delivered, InFlight
<1>12. WrittenFate'
  BY <1>q, <1>j DEF WrittenFate, RevokedFate, RevokeOwed, WriteOwedFate,
     WriteOwed, AppendedCursor, QueuedIsUnwritten, InHand, Owed, InFlight,
     WriterHasPub
<1>13. RevocationReply'
  BY <1>q, <1>j DEF RevocationReply, RevokedFate, RevokeOwed, InHand,
     WriterHasPub
<1>14. RejectedIsSuppressed'
  BY <1>q, <1>j DEF RejectedIsSuppressed, Replayable, WrittenFate,
     RevocationReply, AppendedCursor, WriteOwedFate, WriteOwed, WaitingAck,
     Owed, InHand, WriterHasPub, InFlight
<1> QED BY <1>1, <1>2, <1>3, <1>4, <1>5, <1>6, <1>7, <1>8, <1>9, <1>10, <1>11,
       <1>12, <1>13, <1>14

LEMMA DeliverStep ==
  ASSUME IInv, NEW p \in Pubs, Deliver(p), TypeOK' PROVE IInv'
<1> USE DEF IInv, TypeOK, Deliver, WriterIdle
<1>q. \A kind \in {"write", "revoke"}, q \in Pubs :
        Queued(kind, q)' <=> Queued(kind, q)
  BY JobsUnchanged
<1>j. /\ \A i \in DOMAIN journal : i \in DOMAIN journal' /\ journal'[i] = journal[i]
      /\ \A q \in Pubs : Written(q)' <=> Written(q)
      /\ \A q \in Pubs : Revoked(q)' <=> Revoked(q)
  BY JournalUnchanged
<1>l. /\ Len(live) \in Nat
      /\ DOMAIN live = 1..Len(live)
      /\ DOMAIN live' = 1..(Len(live) + 1)
      /\ \A i \in DOMAIN live : live'[i] = live[i]
      /\ live'[Len(live) + 1].pub = p
      /\ live'[Len(live) + 1].cursor = cursor[p]
  <2>1. [pub |-> p, cursor |-> cursor[p]] \in [pub : Pubs, cursor : Nat]
    OBVIOUS
  <2> QED BY <2>1, AppendFacts
<1>1. WriterHasPub'
  BY <1>q, <1>j DEF WriterHasPub
<1>2. OneWriteJob'
  BY DEF OneWriteJob
<1>3. QueuedIsUnwritten'
  BY <1>q, <1>j DEF QueuedIsUnwritten, WriteOwedFate, WriteOwed, RevokedFate,
     RevokeOwed, RevokedIsWritten, WrittenFate, InHand
<1>4. WriteOwedFate'
  BY <1>q, <1>j DEF WriteOwedFate, WriteOwed, InHand, OneWriteJob,
     QueuedIsUnwritten, WriterHasPub
<1>5. WaitingAck'
  BY <1>q, <1>j DEF WaitingAck, WriteOwedFate, WriteOwed, InHand, WriterHasPub
<1>6. RevokedFate'
  BY <1>q, <1>j DEF RevokedFate, RevokeOwed, WriteOwedFate, WriteOwed, InHand,
     InFlight, WriterHasPub
<1>7. RevokedIsWritten'
  BY <1>q, <1>j DEF RevokedIsWritten, RevokeOwed, InHand, WriterHasPub,
     AppendedCursor, DoneCursor, Written
<1>8. AppendedCursor'
  BY <1>q, <1>j DEF AppendedCursor, QueuedIsUnwritten, WriterHasPub
<1>9. DoneCursor'
  BY <1>q, <1>j DEF DoneCursor, AppendedCursor, WriteOwedFate, WriteOwed,
     InHand, WriterHasPub
<1>10. LiveIsJournaled'
  BY <1>l, <1>j DEF LiveIsJournaled, DoneCursor
<1>11. OutcomeMatchesDelivery'
  <2>1. \A q \in Pubs : Delivered(q)' <=> Delivered(q) \/ q = p
    <3>1. ASSUME NEW q \in Pubs, Delivered(q) PROVE Delivered(q)'
      BY <1>l, <3>1 DEF Delivered
    <3>2. Delivered(p)'
      BY <1>l DEF Delivered
    <3>3. ASSUME NEW q \in Pubs, Delivered(q)', q # p PROVE Delivered(q)
      BY <1>l, <3>3 DEF Delivered
    <3> QED BY <3>1, <3>2, <3>3
  <2>2. \A q \in Pubs : pc'[q] = "accepted" <=> pc[q] = "accepted" \/ q = p
    BY DEF InFlight, Returned
  <2>3. \A i \in DOMAIN live : live[i].pub # p
    BY DEF OutcomeMatchesDelivery, Delivered
  <2>4. \A i, j \in DOMAIN live' : live'[i].pub = live'[j].pub => i = j
    BY <1>l, <2>3 DEF OutcomeMatchesDelivery
  <2> QED BY <2>1, <2>2, <2>4 DEF OutcomeMatchesDelivery
<1>12. WrittenFate'
  BY <1>q, <1>j DEF WrittenFate, RevokedFate, RevokeOwed, WriteOwedFate,
     WriteOwed, AppendedCursor, QueuedIsUnwritten, InHand, Owed, InFlight,
     WriterHasPub
<1>13. RevocationReply'
  BY <1>q, <1>j DEF RevocationReply, RevokedFate, RevokeOwed, InHand,
     WriterHasPub
<1>14. RejectedIsSuppressed'
  BY <1>q, <1>j DEF RejectedIsSuppressed, Replayable, WrittenFate,
     RevocationReply, AppendedCursor, WriteOwedFate, WriteOwed, WaitingAck,
     Owed, InHand, WriterHasPub, InFlight
<1> QED BY <1>1, <1>2, <1>3, <1>4, <1>5, <1>6, <1>7, <1>8, <1>9, <1>10, <1>11,
       <1>12, <1>13, <1>14

LEMMA UndeliverableStep ==
  ASSUME IInv, NEW p \in Pubs, Undeliverable(p), TypeOK' PROVE IInv'
<1> USE DEF IInv, TypeOK, Undeliverable, WriterIdle
<1>q. \A kind \in {"write", "revoke"}, q \in Pubs :
        Queued(kind, q)' <=> Queued(kind, q) \/ (alive /\ kind = "revoke" /\ q = p)
  BY JobSent, JobsUnchanged
<1>j. /\ \A i \in DOMAIN journal : i \in DOMAIN journal' /\ journal'[i] = journal[i]
      /\ \A q \in Pubs : Written(q)' <=> Written(q)
      /\ \A q \in Pubs : Revoked(q)' <=> Revoked(q)
  BY JournalUnchanged
<1>1. WriterHasPub'
  BY <1>q, <1>j DEF WriterHasPub
<1>2. OneWriteJob'
  <2>1. CASE alive
    <3>1. jobs' = Append(jobs, Job("revoke", p))
      BY <2>1
    <3> QED BY <3>1, JobSentOnce DEF WriteOwedFate, WriteOwed
  <2>2. CASE ~alive
    BY <2>2 DEF OneWriteJob
  <2> QED BY <2>1, <2>2
<1>3. QueuedIsUnwritten'
  BY <1>q, <1>j DEF QueuedIsUnwritten, WriteOwedFate, WriteOwed, RevokedFate,
     RevokeOwed, RevokedIsWritten, WrittenFate, InHand
<1>4. WriteOwedFate'
  BY <1>q, <1>j DEF WriteOwedFate, WriteOwed, InHand, OneWriteJob,
     QueuedIsUnwritten, WriterHasPub
<1>5. WaitingAck'
  BY <1>q, <1>j DEF WaitingAck, WriteOwedFate, WriteOwed, InHand, WriterHasPub
<1>6. RevokedFate'
  BY <1>q, <1>j DEF RevokedFate, RevokeOwed, WriteOwedFate, WriteOwed, InHand,
     InFlight, WriterHasPub
<1>7. RevokedIsWritten'
  BY <1>q, <1>j DEF RevokedIsWritten, RevokeOwed, InHand, WriterHasPub,
     AppendedCursor, DoneCursor, Written
<1>8. AppendedCursor'
  BY <1>q, <1>j DEF AppendedCursor, QueuedIsUnwritten, WriterHasPub
<1>9. DoneCursor'
  BY <1>q, <1>j DEF DoneCursor, AppendedCursor, WriteOwedFate, WriteOwed,
     InHand, WriterHasPub
<1>10. LiveIsJournaled'
  BY <1>q, <1>j DEF LiveIsJournaled, DoneCursor
<1>11. OutcomeMatchesDelivery'
  BY <1>q, <1>j DEF OutcomeMatchesDelivery, Delivered, InFlight
<1>12. WrittenFate'
  BY <1>q, <1>j DEF WrittenFate, RevokedFate, RevokeOwed, WriteOwedFate,
     WriteOwed, AppendedCursor, QueuedIsUnwritten, InHand, Owed, InFlight,
     WriterHasPub
<1>13. RevocationReply'
  BY <1>q, <1>j DEF RevocationReply, RevokedFate, RevokeOwed, InHand,
     WriterHasPub
<1>14. RejectedIsSuppressed'
  BY <1>q, <1>j DEF RejectedIsSuppressed, Replayable, WrittenFate,
     RevocationReply, AppendedCursor, WriteOwedFate, WriteOwed, WaitingAck,
     Owed, InHand, WriterHasPub, InFlight
<1> QED BY <1>1, <1>2, <1>3, <1>4, <1>5, <1>6, <1>7, <1>8, <1>9, <1>10, <1>11,
       <1>12, <1>13, <1>14

LEMMA WakeRevokedStep ==
  ASSUME IInv, NEW p \in Pubs, WakeRevoked(p), TypeOK' PROVE IInv'
<1> USE DEF IInv, TypeOK, WakeRevoked, WriterIdle
<1>q. \A kind \in {"write", "revoke"}, q \in Pubs :
        Queued(kind, q)' <=> Queued(kind, q)
  BY JobsUnchanged
<1>j. /\ \A i \in DOMAIN journal : i \in DOMAIN journal' /\ journal'[i] = journal[i]
      /\ \A q \in Pubs : Written(q)' <=> Written(q)
      /\ \A q \in Pubs : Revoked(q)' <=> Revoked(q)
  BY JournalUnchanged
<1>1. WriterHasPub'
  BY <1>q, <1>j DEF WriterHasPub
<1>2. OneWriteJob'
  BY DEF OneWriteJob
<1>3. QueuedIsUnwritten'
  BY <1>q, <1>j DEF QueuedIsUnwritten, WriteOwedFate, WriteOwed, RevokedFate,
     RevokeOwed, RevokedIsWritten, WrittenFate, InHand
<1>4. WriteOwedFate'
  BY <1>q, <1>j DEF WriteOwedFate, WriteOwed, InHand, OneWriteJob,
     QueuedIsUnwritten, WriterHasPub
<1>5. WaitingAck'
  BY <1>q, <1>j DEF WaitingAck, WriteOwedFate, WriteOwed, InHand, WriterHasPub
<1>6. RevokedFate'
  BY <1>q, <1>j DEF RevokedFate, RevokeOwed, WriteOwedFate, WriteOwed, InHand,
     InFlight, WriterHasPub
<1>7. RevokedIsWritten'
  BY <1>q, <1>j DEF RevokedIsWritten, RevokeOwed, InHand, WriterHasPub,
     AppendedCursor, DoneCursor, Written
<1>8. AppendedCursor'
  BY <1>q, <1>j DEF AppendedCursor, QueuedIsUnwritten, WriterHasPub
<1>9. DoneCursor'
  BY <1>q, <1>j DEF DoneCursor, AppendedCursor, WriteOwedFate, WriteOwed,
     InHand, WriterHasPub
<1>10. LiveIsJournaled'
  BY <1>q, <1>j DEF LiveIsJournaled, DoneCursor
<1>11. OutcomeMatchesDelivery'
  BY <1>q, <1>j DEF OutcomeMatchesDelivery, Delivered, InFlight
<1>12. WrittenFate'
  BY <1>q, <1>j DEF WrittenFate, RevokedFate, RevokeOwed, WriteOwedFate,
     WriteOwed, AppendedCursor, QueuedIsUnwritten, InHand, Owed, InFlight,
     WriterHasPub
<1>13. RevocationReply'
  BY <1>q, <1>j DEF RevocationReply, RevokedFate, RevokeOwed, InHand,
     WriterHasPub
<1>14. RejectedIsSuppressed'
  BY <1>q, <1>j DEF RejectedIsSuppressed, Replayable, WrittenFate,
     RevocationReply, AppendedCursor, WriteOwedFate, WriteOwed, WaitingAck,
     Owed, InHand, WriterHasPub, InFlight
<1> QED BY <1>1, <1>2, <1>3, <1>4, <1>5, <1>6, <1>7, <1>8, <1>9, <1>10, <1>11,
       <1>12, <1>13, <1>14

LEMMA WriterAppendStep ==
  ASSUME IInv, NEW ok \in BOOLEAN, WriterAppend(ok), TypeOK' PROVE IInv'
<1> USE DEF IInv, TypeOK, WriterAppend, WriterIdle
<1>h. wpub' \in Pubs /\ Head(jobs) = Job("write", wpub')
  BY JobTaken
<1>q. /\ \A kind \in {"write", "revoke"}, q \in Pubs :
           Queued(kind, q) <=> Queued(kind, q)' \/ (kind = "write" /\ q = wpub')
      /\ \A q \in Pubs : q = wpub' => ~Queued("write", q)'
  BY <1>h, JobTaken, JobTakenOnce DEF Job
<1>j. /\ \A i \in DOMAIN journal : i \in DOMAIN journal' /\ journal'[i] = journal[i]
      /\ ok => /\ wresult' # 0
               /\ wresult' \in DOMAIN journal'
               /\ journal'[wresult'] = EventRecord(wpub')
      /\ \A q \in Pubs : Written(q)' <=> Written(q) \/ (ok /\ q = wpub')
      /\ \A q \in Pubs : Revoked(q)' <=> Revoked(q)
  BY <1>h, EventAppended, JournalUnchanged
<1>1. WriterHasPub'
  BY <1>q, <1>j, <1>h DEF WriterHasPub
<1>2. OneWriteJob'
  BY JobTakenOnce
<1>3. QueuedIsUnwritten'
  BY <1>q, <1>j, <1>h DEF QueuedIsUnwritten, WriteOwedFate, WriteOwed,
     RevokedFate, RevokeOwed, RevokedIsWritten, WrittenFate, InHand
<1>4. WriteOwedFate'
  BY <1>q, <1>j, <1>h DEF WriteOwedFate, WriteOwed, InHand, OneWriteJob,
     QueuedIsUnwritten, WriterHasPub
<1>5. WaitingAck'
  BY <1>q, <1>j, <1>h DEF WaitingAck, WriteOwedFate, WriteOwed, InHand,
     WriterHasPub
<1>6. RevokedFate'
  BY <1>q, <1>j, <1>h DEF RevokedFate, RevokeOwed, WriteOwedFate, WriteOwed,
     InHand, InFlight, WriterHasPub
<1>7. RevokedIsWritten'
  BY <1>q, <1>j, <1>h DEF RevokedIsWritten, RevokeOwed, InHand, WriterHasPub,
     AppendedCursor, DoneCursor, Written
<1>8. AppendedCursor'
  BY <1>q, <1>j, <1>h DEF AppendedCursor, QueuedIsUnwritten, WriterHasPub
<1>9. DoneCursor'
  BY <1>q, <1>j, <1>h DEF DoneCursor, AppendedCursor, WriteOwedFate,
     WriteOwed, InHand, WriterHasPub
<1>10. LiveIsJournaled'
  BY <1>q, <1>j, <1>h DEF LiveIsJournaled, DoneCursor
<1>11. OutcomeMatchesDelivery'
  BY <1>q, <1>j, <1>h DEF OutcomeMatchesDelivery, Delivered, InFlight
<1>12. WrittenFate'
  BY <1>q, <1>j, <1>h DEF WrittenFate, RevokedFate, RevokeOwed, WriteOwedFate,
     WriteOwed, AppendedCursor, QueuedIsUnwritten, InHand, Owed, InFlight,
     WriterHasPub
<1>13. RevocationReply'
  BY <1>q, <1>j, <1>h DEF RevocationReply, RevokedFate, RevokeOwed, InHand,
     WriterHasPub
<1>14. RejectedIsSuppressed'
  BY <1>q, <1>j, <1>h DEF RejectedIsSuppressed, Replayable, WrittenFate,
     RevocationReply, AppendedCursor, WriteOwedFate, WriteOwed, WaitingAck,
     Owed, InHand, WriterHasPub, InFlight
<1> QED BY <1>1, <1>2, <1>3, <1>4, <1>5, <1>6, <1>7, <1>8, <1>9, <1>10, <1>11,
       <1>12, <1>13, <1>14

LEMMA WriterAckStep ==
  ASSUME IInv, WriterAck, TypeOK' PROVE IInv'
<1> USE DEF IInv, TypeOK, WriterAck, WriterIdle
<1>q. \A kind \in {"write", "revoke"}, q \in Pubs :
        Queued(kind, q)' <=> Queued(kind, q)
  BY JobsUnchanged
<1>j. /\ \A i \in DOMAIN journal : i \in DOMAIN journal' /\ journal'[i] = journal[i]
      /\ \A q \in Pubs : Written(q)' <=> Written(q)
      /\ \A q \in Pubs : Revoked(q)' <=> Revoked(q)
  BY JournalUnchanged
<1>1. WriterHasPub'
  BY <1>q, <1>j DEF WriterHasPub
<1>2. OneWriteJob'
  BY DEF OneWriteJob
<1>3. QueuedIsUnwritten'
  BY <1>q, <1>j DEF QueuedIsUnwritten, WriteOwedFate, WriteOwed, RevokedFate,
     RevokeOwed, RevokedIsWritten, WrittenFate, InHand
<1>4. WriteOwedFate'
  BY <1>q, <1>j DEF WriteOwedFate, WriteOwed, InHand, OneWriteJob,
     QueuedIsUnwritten, WriterHasPub
<1>5. WaitingAck'
  BY <1>q, <1>j DEF WaitingAck, WriteOwedFate, WriteOwed, InHand, WriterHasPub
<1>6. RevokedFate'
  BY <1>q, <1>j DEF RevokedFate, RevokeOwed, WriteOwedFate, WriteOwed, InHand,
     InFlight, WriterHasPub
<1>7. RevokedIsWritten'
  BY <1>q, <1>j DEF RevokedIsWritten, RevokeOwed, InHand, WriterHasPub,
     AppendedCursor, DoneCursor, Written
<1>8. AppendedCursor'
  BY <1>q, <1>j DEF AppendedCursor, QueuedIsUnwritten, WriterHasPub
<1>9. DoneCursor'
  BY <1>q, <1>j DEF DoneCursor, AppendedCursor, WriteOwedFate, WriteOwed,
     InHand, WriterHasPub
<1>10. LiveIsJournaled'
  BY <1>q, <1>j DEF LiveIsJournaled, DoneCursor
<1>11. OutcomeMatchesDelivery'
  BY <1>q, <1>j DEF OutcomeMatchesDelivery, Delivered, InFlight
<1>12. WrittenFate'
  BY <1>q, <1>j DEF WrittenFate, RevokedFate, RevokeOwed, WriteOwedFate,
     WriteOwed, AppendedCursor, QueuedIsUnwritten, InHand, Owed, InFlight,
     WriterHasPub
<1>13. RevocationReply'
  BY <1>q, <1>j DEF RevocationReply, RevokedFate, RevokeOwed, InHand,
     WriterHasPub
<1>14. RejectedIsSuppressed'
  BY <1>q, <1>j DEF RejectedIsSuppressed, Replayable, WrittenFate,
     RevocationReply, AppendedCursor, WriteOwedFate, WriteOwed, WaitingAck,
     Owed, InHand, WriterHasPub, InFlight
<1> QED BY <1>1, <1>2, <1>3, <1>4, <1>5, <1>6, <1>7, <1>8, <1>9, <1>10, <1>11,
       <1>12, <1>13, <1>14

LEMMA WriterRevokeLateStep ==
  ASSUME IInv, NEW ok \in BOOLEAN, WriterRevokeLate(ok), TypeOK' PROVE IInv'
<1> USE DEF IInv, TypeOK, WriterRevokeLate, WriterIdle
<1>q. \A kind \in {"write", "revoke"}, q \in Pubs :
        Queued(kind, q)' <=> Queued(kind, q)
  BY JobsUnchanged
<1>j. /\ \A i \in DOMAIN journal : i \in DOMAIN journal' /\ journal'[i] = journal[i]
      /\ \A q \in Pubs : Written(q)' <=> Written(q)
      /\ \A q \in Pubs : Revoked(q)' <=> Revoked(q) \/ (ok /\ q = wpub')
  BY RevocationAppended, JournalUnchanged DEF RevokeRecord, WriterHasPub
<1>1. WriterHasPub'
  BY <1>q, <1>j DEF WriterHasPub, RevokeRecord
<1>2. OneWriteJob'
  BY DEF OneWriteJob
<1>3. QueuedIsUnwritten'
  BY <1>q, <1>j DEF QueuedIsUnwritten, WriteOwedFate, WriteOwed, RevokedFate,
     RevokeOwed, RevokedIsWritten, WrittenFate, InHand, RevokeRecord
<1>4. WriteOwedFate'
  BY <1>q, <1>j DEF WriteOwedFate, WriteOwed, InHand, OneWriteJob,
     QueuedIsUnwritten, WriterHasPub, RevokeRecord
<1>5. WaitingAck'
  BY <1>q, <1>j DEF WaitingAck, WriteOwedFate, WriteOwed, InHand,
     WriterHasPub, RevokeRecord
<1>6. RevokedFate'
  BY <1>q, <1>j DEF RevokedFate, RevokeOwed, WriteOwedFate, WriteOwed, InHand,
     InFlight, WriterHasPub, RevokeRecord
<1>7. RevokedIsWritten'
  BY <1>q, <1>j DEF RevokedIsWritten, RevokeOwed, InHand, WriterHasPub,
     AppendedCursor, DoneCursor, Written, RevokeRecord
<1>8. AppendedCursor'
  BY <1>q, <1>j DEF AppendedCursor, QueuedIsUnwritten, WriterHasPub,
     RevokeRecord
<1>9. DoneCursor'
  BY <1>q, <1>j DEF DoneCursor, AppendedCursor, WriteOwedFate, WriteOwed,
     InHand, WriterHasPub, RevokeRecord
<1>10. LiveIsJournaled'
  BY <1>q, <1>j DEF LiveIsJournaled, DoneCursor, RevokeRecord
<1>11. OutcomeMatchesDelivery'
  BY <1>q, <1>j DEF OutcomeMatchesDelivery, Delivered, InFlight, RevokeRecord
<1>12. WrittenFate'
  BY <1>q, <1>j DEF WrittenFate, RevokedFate, RevokeOwed, WriteOwedFate,
     WriteOwed, AppendedCursor, QueuedIsUnwritten, InHand, Owed, InFlight,
     WriterHasPub, RevokeRecord
<1>13. RevocationReply'
  BY <1>q, <1>j DEF RevocationReply, RevokedFate, RevokeOwed, InHand,
     WriterHasPub, RevokeRecord
<1>14. RejectedIsSuppressed'
  BY <1>q, <1>j DEF RejectedIsSuppressed, Replayable, WrittenFate,
     RevocationReply, AppendedCursor, WriteOwedFate, WriteOwed, WaitingAck,
     Owed, InHand, WriterHasPub, InFlight, RevokeRecord
<1> QED BY <1>1, <1>2, <1>3, <1>4, <1>5, <1>6, <1>7, <1>8, <1>9, <1>10, <1>11,
       <1>12, <1>13, <1>14

LEMMA WriterRevokeStep ==
  ASSUME IInv, NEW ok \in BOOLEAN, WriterRevoke(ok), TypeOK' PROVE IInv'
<1> USE DEF IInv, TypeOK, WriterRevoke, WriterIdle
<1>h. wpub' \in Pubs /\ Head(jobs) = Job("revoke", wpub')
  BY JobTaken
<1>q. /\ \A kind \in {"write", "revoke"}, q \in Pubs :
           Queued(kind, q) <=> Queued(kind, q)' \/ (kind = "revoke" /\ q = wpub')
  BY <1>h, JobTaken DEF Job
<1>j. /\ \A i \in DOMAIN journal : i \in DOMAIN journal' /\ journal'[i] = journal[i]
      /\ \A q \in Pubs : Written(q)' <=> Written(q)
      /\ \A q \in Pubs : Revoked(q)' <=> Revoked(q) \/ (ok /\ q = wpub')
  BY <1>h, RevocationAppended, JournalUnchanged DEF RevokeRecord, WriterHasPub
<1>1. WriterHasPub'
  BY <1>q, <1>j, <1>h DEF WriterHasPub, RevokeRecord
<1>2. OneWriteJob'
  BY JobTakenOnce
<1>3. QueuedIsUnwritten'
  BY <1>q, <1>j, <1>h DEF QueuedIsUnwritten, WriteOwedFate, WriteOwed,
     RevokedFate, RevokeOwed, RevokedIsWritten, WrittenFate, InHand,
     RevokeRecord
<1>4. WriteOwedFate'
  BY <1>q, <1>j, <1>h DEF WriteOwedFate, WriteOwed, InHand, OneWriteJob,
     QueuedIsUnwritten, WriterHasPub, RevokeRecord
<1>5. WaitingAck'
  BY <1>q, <1>j, <1>h DEF WaitingAck, WriteOwedFate, WriteOwed, InHand,
     WriterHasPub, RevokeRecord
<1>6. RevokedFate'
  BY <1>q, <1>j, <1>h DEF RevokedFate, RevokeOwed, WriteOwedFate, WriteOwed,
     InHand, InFlight, WriterHasPub, RevokeRecord
<1>7. RevokedIsWritten'
  BY <1>q, <1>j, <1>h DEF RevokedIsWritten, RevokeOwed, InHand, WriterHasPub,
     AppendedCursor, DoneCursor, Written, RevokeRecord
<1>8. AppendedCursor'
  BY <1>q, <1>j, <1>h DEF AppendedCursor, QueuedIsUnwritten, WriterHasPub,
     RevokeRecord
<1>9. DoneCursor'
  BY <1>q, <1>j, <1>h DEF DoneCursor, AppendedCursor, WriteOwedFate,
     WriteOwed, InHand, WriterHasPub, RevokeRecord
<1>10. LiveIsJournaled'
  BY <1>q, <1>j, <1>h DEF LiveIsJournaled, DoneCursor, RevokeRecord
<1>11. OutcomeMatchesDelivery'
  BY <1>q, <1>j, <1>h DEF OutcomeMatchesDelivery, Delivered, InFlight,
     RevokeRecord
<1>12. WrittenFate'
  BY <1>q, <1>j, <1>h DEF WrittenFate, RevokedFate, RevokeOwed, WriteOwedFate,
     WriteOwed, AppendedCursor, QueuedIsUnwritten, InHand, Owed, InFlight,
     WriterHasPub, RevokeRecord
<1>13. RevocationReply'
  <2>1. CASE ok
    BY <2>1, <1>j, <1>h DEF RevocationReply, RevokeRecord
  <2>2. CASE ~ok
    BY <2>2, <1>j, <1>h DEF RevocationReply, RevokeRecord, Job
  <2> QED BY <2>1, <2>2
<1>14. RejectedIsSuppressed'
  BY <1>q, <1>j, <1>h DEF RejectedIsSuppressed, Replayable, WrittenFate,
     RevocationReply, AppendedCursor, WriteOwedFate, WriteOwed, WaitingAck,
     Owed, InHand, WriterHasPub, InFlight, RevokeRecord
<1> QED BY <1>1, <1>2, <1>3, <1>4, <1>5, <1>6, <1>7, <1>8, <1>9, <1>10, <1>11,
       <1>12, <1>13, <1>14

LEMMA WriterReplyStep ==
  ASSUME IInv, WriterReply, TypeOK' PROVE IInv'
<1> USE DEF IInv, TypeOK, WriterReply, WriterIdle
<1>q. \A kind \in {"write", "revoke"}, q \in Pubs :
        Queued(kind, q)' <=> Queued(kind, q)
  BY JobsUnchanged
<1>j. /\ \A i \in DOMAIN journal : i \in DOMAIN journal' /\ journal'[i] = journal[i]
      /\ \A q \in Pubs : Written(q)' <=> Written(q)
      /\ \A q \in Pubs : Revoked(q)' <=> Revoked(q)
  BY JournalUnchanged
<1>1. WriterHasPub'
  BY <1>q, <1>j DEF WriterHasPub
<1>2. OneWriteJob'
  BY DEF OneWriteJob
<1>3. QueuedIsUnwritten'
  BY <1>q, <1>j DEF QueuedIsUnwritten, WriteOwedFate, WriteOwed, RevokedFate,
     RevokeOwed, RevokedIsWritten, WrittenFate, InHand
<1>4. WriteOwedFate'
  BY <1>q, <1>j DEF WriteOwedFate, WriteOwed, InHand, OneWriteJob,
     QueuedIsUnwritten, WriterHasPub
<1>5. WaitingAck'
  BY <1>q, <1>j DEF WaitingAck, WriteOwedFate, WriteOwed, InHand, WriterHasPub
<1>6. RevokedFate'
  BY <1>q, <1>j DEF RevokedFate, RevokeOwed, WriteOwedFate, WriteOwed, InHand,
     InFlight, WriterHasPub
<1>7. RevokedIsWritten'
  BY <1>q, <1>j DEF RevokedIsWritten, RevokeOwed, InHand, WriterHasPub,
     AppendedCursor, DoneCursor, Written
<1>8. AppendedCursor'
  BY <1>q, <1>j DEF AppendedCursor, QueuedIsUnwritten, WriterHasPub
<1>9. DoneCursor'
  BY <1>q, <1>j DEF DoneCursor, AppendedCursor, WriteOwedFate, WriteOwed,
     InHand, WriterHasPub
<1>10. LiveIsJournaled'
  BY <1>q, <1>j DEF LiveIsJournaled, DoneCursor
<1>11. OutcomeMatchesDelivery'
  BY <1>q, <1>j DEF OutcomeMatchesDelivery, Delivered, InFlight
<1>12. WrittenFate'
  BY <1>q, <1>j DEF WrittenFate, RevokedFate, RevokeOwed, WriteOwedFate,
     WriteOwed, AppendedCursor, QueuedIsUnwritten, InHand, Owed, InFlight,
     WriterHasPub
<1>13. RevocationReply'
  BY <1>q, <1>j DEF RevocationReply, RevokedFate, RevokeOwed, InHand,
     WriterHasPub
<1>14. RejectedIsSuppressed'
  BY <1>q, <1>j DEF RejectedIsSuppressed, Replayable, WrittenFate,
     RevocationReply, AppendedCursor, WriteOwedFate, WriteOwed, WaitingAck,
     Owed, InHand, WriterHasPub, InFlight
<1> QED BY <1>1, <1>2, <1>3, <1>4, <1>5, <1>6, <1>7, <1>8, <1>9, <1>10, <1>11,
       <1>12, <1>13, <1>14

LEMMA WriterPanicStep ==
  ASSUME IInv, WriterPanic, TypeOK' PROVE IInv'
<1> USE DEF IInv, TypeOK, WriterPanic, WriterIdle
<1>q. \A kind \in {"write", "revoke"}, q \in Pubs : ~Queued(kind, q)'
  BY JobsEmptied
<1>j. /\ \A i \in DOMAIN journal : i \in DOMAIN journal' /\ journal'[i] = journal[i]
      /\ \A q \in Pubs : Written(q)' <=> Written(q)
      /\ \A q \in Pubs : Revoked(q)' <=> Revoked(q)
  BY JournalUnchanged
<1>1. WriterHasPub'
  BY <1>q, <1>j DEF WriterHasPub
<1>2. OneWriteJob'
  BY DEF OneWriteJob
<1>3. QueuedIsUnwritten'
  BY <1>q, <1>j DEF QueuedIsUnwritten, WriteOwedFate, WriteOwed, RevokedFate,
     RevokeOwed, RevokedIsWritten, WrittenFate, InHand
<1>4. WriteOwedFate'
  BY <1>q, <1>j DEF WriteOwedFate, WriteOwed, InHand, OneWriteJob,
     QueuedIsUnwritten, WriterHasPub
<1>5. WaitingAck'
  BY <1>q, <1>j DEF WaitingAck, WriteOwedFate, WriteOwed, InHand, WriterHasPub
<1>6. RevokedFate'
  BY <1>q, <1>j DEF RevokedFate, RevokeOwed, WriteOwedFate, WriteOwed, InHand,
     InFlight, WriterHasPub
<1>7. RevokedIsWritten'
  BY <1>q, <1>j DEF RevokedIsWritten, RevokeOwed, InHand, WriterHasPub,
     AppendedCursor, DoneCursor, Written
<1>8. AppendedCursor'
  BY <1>q, <1>j DEF AppendedCursor, QueuedIsUnwritten, WriterHasPub
<1>9. DoneCursor'
  BY <1>q, <1>j DEF DoneCursor, AppendedCursor, WriteOwedFate, WriteOwed,
     InHand, WriterHasPub
<1>10. LiveIsJournaled'
  BY <1>q, <1>j DEF LiveIsJournaled, DoneCursor
<1>11. OutcomeMatchesDelivery'
  BY <1>q, <1>j DEF OutcomeMatchesDelivery, Delivered, InFlight
<1>12. WrittenFate'
  BY <1>q, <1>j DEF WrittenFate, RevokedFate, RevokeOwed, WriteOwedFate,
     WriteOwed, AppendedCursor, QueuedIsUnwritten, InHand, Owed, InFlight,
     WriterHasPub
<1>13. RevocationReply'
  BY <1>q, <1>j DEF RevocationReply, RevokedFate, RevokeOwed, InHand,
     WriterHasPub
<1>14. RejectedIsSuppressed'
  BY <1>q, <1>j DEF RejectedIsSuppressed, Replayable, WrittenFate,
     RevocationReply, AppendedCursor, WriteOwedFate, WriteOwed, WaitingAck,
     Owed, InHand, WriterHasPub, InFlight
<1> QED BY <1>1, <1>2, <1>3, <1>4, <1>5, <1>6, <1>7, <1>8, <1>9, <1>10, <1>11,
       <1>12, <1>13, <1>14

LEMMA CrashStep ==
  ASSUME IInv, Crash, TypeOK' PROVE IInv'
<1> USE DEF IInv, TypeOK, Crash, WriterIdle
<1>q. \A kind \in {"write", "revoke"}, q \in Pubs : ~Queued(kind, q)'
  BY JobsEmptied
<1>j. /\ \A i \in DOMAIN journal : i \in DOMAIN journal' /\ journal'[i] = journal[i]
      /\ \A q \in Pubs : Written(q)' <=> Written(q)
      /\ \A q \in Pubs : Revoked(q)' <=> Revoked(q)
  BY JournalUnchanged
<1>1. WriterHasPub'
  BY <1>q, <1>j DEF WriterHasPub
<1>2. OneWriteJob'
  BY DEF OneWriteJob
<1>3. QueuedIsUnwritten'
  BY <1>q, <1>j DEF QueuedIsUnwritten, WriteOwedFate, WriteOwed, RevokedFate,
     RevokeOwed, RevokedIsWritten, WrittenFate, InHand
<1>4. WriteOwedFate'
  BY <1>q, <1>j DEF WriteOwedFate, WriteOwed, InHand, OneWriteJob,
     QueuedIsUnwritten, WriterHasPub
<1>5. WaitingAck'
  BY <1>q, <1>j DEF WaitingAck, WriteOwedFate, WriteOwed, InHand, WriterHasPub
<1>6. RevokedFate'
  BY <1>q, <1>j DEF RevokedFate, RevokeOwed, WriteOwedFate, WriteOwed, InHand,
     InFlight, WriterHasPub
<1>7. RevokedIsWritten'
  BY <1>q, <1>j DEF RevokedIsWritten, RevokeOwed, InHand, WriterHasPub,
     AppendedCursor, DoneCursor, Written
<1>8. AppendedCursor'
  BY <1>q, <1>j DEF AppendedCursor, QueuedIsUnwritten, WriterHasPub
<1>9. DoneCursor'
  BY <1>q, <1>j DEF DoneCursor, AppendedCursor, WriteOwedFate, WriteOwed,
     InHand, WriterHasPub
<1>10. LiveIsJournaled'
  BY <1>q, <1>j DEF LiveIsJournaled, DoneCursor
<1>11. OutcomeMatchesDelivery'
  BY <1>q, <1>j DEF OutcomeMatchesDelivery, Delivered, InFlight
<1>12. WrittenFate'
  BY <1>q, <1>j DEF WrittenFate, RevokedFate, RevokeOwed, WriteOwedFate,
     WriteOwed, AppendedCursor, QueuedIsUnwritten, InHand, Owed, InFlight,
     WriterHasPub
<1>13. RevocationReply'
  BY <1>q, <1>j DEF RevocationReply, RevokedFate, RevokeOwed, InHand,
     WriterHasPub
<1>14. RejectedIsSuppressed'
  BY <1>q, <1>j DEF RejectedIsSuppressed, Replayable, WrittenFate,
     RevocationReply, AppendedCursor, WriteOwedFate, WriteOwed, WaitingAck,
     Owed, InHand, WriterHasPub, InFlight
<1> QED BY <1>1, <1>2, <1>3, <1>4, <1>5, <1>6, <1>7, <1>8, <1>9, <1>10, <1>11,
       <1>12, <1>13, <1>14

(* The channel and the journal keep their types.                           *)
LEMMA JobsType ==
  ASSUME TypeOK
  PROVE  /\ \A k \in {"write", "revoke"}, x \in Pubs :
              Append(jobs, Job(k, x)) \in Seq([kind : {"write", "revoke"}, pub : Pubs])
         /\ jobs # <<>> => /\ Head(jobs).pub \in Pubs
                           /\ Tail(jobs) \in Seq([kind : {"write", "revoke"}, pub : Pubs])
<1> DEFINE R == [kind : {"write", "revoke"}, pub : Pubs]
<1>1. jobs \in Seq(R) /\ \A k \in {"write", "revoke"}, x \in Pubs : Job(k, x) \in R
  BY DEF TypeOK, Job
<1>2. \A r \in R : r.pub \in Pubs
  OBVIOUS
<1> HIDE DEF R
<1>3. \A k \in {"write", "revoke"}, x \in Pubs : Append(jobs, Job(k, x)) \in Seq(R)
  BY <1>1, AppendFacts
<1>4. jobs # <<>> => Head(jobs) \in R /\ Tail(jobs) \in Seq(R)
  BY <1>1, TailFacts
<1> QED BY <1>2, <1>3, <1>4 DEF R

LEMMA JournalType ==
  ASSUME TypeOK
  PROVE  \A x \in Pubs :
           /\ Append(journal, EventRecord(x)) \in Seq([kind : {"event", "revocation"}, pub : Pubs])
           /\ Append(journal, RevocationRecord(x)) \in Seq([kind : {"event", "revocation"}, pub : Pubs])
           /\ Len(journal) + 1 \in Nat
<1> DEFINE R == [kind : {"event", "revocation"}, pub : Pubs]
<1>1. journal \in Seq(R) /\ \A x \in Pubs : EventRecord(x) \in R /\ RevocationRecord(x) \in R
  BY DEF TypeOK, EventRecord, RevocationRecord
<1> HIDE DEF R
<1>2. ASSUME NEW x \in Pubs
      PROVE  /\ Append(journal, EventRecord(x)) \in Seq(R)
             /\ Append(journal, RevocationRecord(x)) \in Seq(R)
  BY <1>1, <1>2, AppendFacts, Zenon
<1>3. Len(journal) + 1 \in Nat
  BY <1>1
<1> QED BY <1>2, <1>3 DEF R

(* Every step keeps the types.                                             *)
LEMMA TypeStep == TypeOK /\ WriterHasPub /\ [Next]_vars => TypeOK'
<1> SUFFICES ASSUME TypeOK, WriterHasPub, [Next]_vars PROVE TypeOK'
  OBVIOUS
<1> USE DEF TypeOK, AckStates, InFlight, Returned
<1>1. ASSUME NEW p \in Pubs, Send(p) PROVE TypeOK'
  <2>2. jobs' \in Seq([kind : {"write", "revoke"}, pub : Pubs])
    BY <1>1, JobsType DEF Send
  <2>3. alive' \in BOOLEAN
    BY <1>1 DEF Send
  <2> QED BY <1>1, <2>2, <2>3 DEF Send
<1>2. ASSUME NEW p \in Pubs, Wake(p) PROVE TypeOK'
  <2>1. alive' \in BOOLEAN
    BY <1>2 DEF Wake
  <2> QED BY <1>2, <2>1 DEF Wake
<1>3. ASSUME NEW p \in Pubs, Deliver(p) PROVE TypeOK'
  <2>1. [pub |-> p, cursor |-> cursor[p]] \in [pub : Pubs, cursor : Nat]
    OBVIOUS
  <2>2. live' \in Seq([pub : Pubs, cursor : Nat])
    BY <1>3, <2>1, AppendFacts DEF Deliver
  <2>3. alive' \in BOOLEAN
    BY <1>3 DEF Deliver
  <2> QED BY <1>3, <2>2, <2>3 DEF Deliver
<1>4. ASSUME NEW p \in Pubs, Undeliverable(p) PROVE TypeOK'
  <2>2. jobs' \in Seq([kind : {"write", "revoke"}, pub : Pubs])
    BY <1>4, JobsType DEF Undeliverable
  <2>3. alive' \in BOOLEAN
    BY <1>4 DEF Undeliverable
  <2> QED BY <1>4, <2>2, <2>3 DEF Undeliverable
<1>5. ASSUME NEW p \in Pubs, WakeRevoked(p) PROVE TypeOK'
  <2>1. alive' \in BOOLEAN
    BY <1>5 DEF WakeRevoked
  <2> QED BY <1>5, <2>1 DEF WakeRevoked
<1>6. ASSUME NEW ok \in BOOLEAN, WriterAppend(ok) PROVE TypeOK'
  <2>1. Head(jobs).pub \in Pubs /\ jobs' \in Seq([kind : {"write", "revoke"}, pub : Pubs])
    BY <1>6, JobsType DEF WriterAppend
  <2>3. journal' \in Seq([kind : {"event", "revocation"}, pub : Pubs]) /\ wresult' \in Nat
    <3>1. CASE ok
      BY <1>6, <2>1, <3>1, JournalType DEF WriterAppend
    <3>2. CASE ~ok
      BY <1>6, <3>2 DEF WriterAppend
    <3> QED BY <3>1, <3>2
  <2>4. alive' \in BOOLEAN
    BY <1>6 DEF WriterAppend
  <2> QED BY <1>6, <2>1, <2>3, <2>4 DEF WriterAppend
<1>7. ASSUME WriterAck PROVE TypeOK'
  <2>1. alive' \in BOOLEAN
    BY <1>7 DEF WriterAck
  <2> QED BY <1>7, <2>1 DEF WriterAck
<1>8. ASSUME NEW ok \in BOOLEAN, WriterRevokeLate(ok) PROVE TypeOK'
  <2>1. wpub \in Pubs
    BY <1>8 DEF WriterRevokeLate, WriterHasPub, WriterIdle
  <2>3. journal' \in Seq([kind : {"event", "revocation"}, pub : Pubs])
    BY <1>8, <2>1, JournalType DEF WriterRevokeLate, RevokeRecord
  <2>4. alive' \in BOOLEAN
    BY <1>8 DEF WriterRevokeLate
  <2> QED BY <1>8, <2>1, <2>3, <2>4 DEF WriterRevokeLate, RevokeRecord
<1>9. ASSUME NEW ok \in BOOLEAN, WriterRevoke(ok) PROVE TypeOK'
  <2>1. Head(jobs).pub \in Pubs /\ jobs' \in Seq([kind : {"write", "revoke"}, pub : Pubs])
    BY <1>9, JobsType DEF WriterRevoke
  <2>3. journal' \in Seq([kind : {"event", "revocation"}, pub : Pubs])
    BY <1>9, <2>1, JournalType DEF WriterRevoke, RevokeRecord
  <2>4. alive' \in BOOLEAN
    BY <1>9 DEF WriterRevoke
  <2> QED BY <1>9, <2>1, <2>3, <2>4 DEF WriterRevoke, RevokeRecord
<1>10. ASSUME WriterReply PROVE TypeOK'
  <2>1. alive' \in BOOLEAN
    BY <1>10 DEF WriterReply
  <2> QED BY <1>10, <2>1 DEF WriterReply
<1>11. ASSUME WriterPanic PROVE TypeOK'
  <2>1. alive' \in BOOLEAN
    BY <1>11 DEF WriterPanic
  <2> QED BY <1>11, <2>1 DEF WriterPanic, Owed
<1>12. ASSUME Crash PROVE TypeOK'
  <2>1. alive' \in BOOLEAN
    BY <1>12 DEF Crash
  <2> QED BY <1>12, <2>1 DEF Crash, Owed
<1>13. ASSUME UNCHANGED vars PROVE TypeOK'
  <2>1. alive' \in BOOLEAN
    BY <1>13 DEF vars
  <2> QED BY <1>13, <2>1 DEF vars
<1> QED
  BY <1>1, <1>2, <1>3, <1>4, <1>5, <1>6, <1>7, <1>8, <1>9, <1>10, <1>11, <1>12,
     <1>13, Zenon DEF Next, WriterStep, Outcomes

LEMMA StutterStep == ASSUME IInv, UNCHANGED vars, TypeOK' PROVE IInv'
<1> USE DEF IInv, vars, WriterIdle, InHand, Queued, Written, Revoked
<1>1. WriterHasPub' /\ OneWriteJob' /\ WaitingAck'
  BY DEF WriterHasPub, OneWriteJob, WaitingAck
<1>2. QueuedIsUnwritten' /\ WriteOwedFate'
  BY DEF QueuedIsUnwritten, WriteOwedFate, WriteOwed
<1>3. RevokedFate' /\ RevokedIsWritten'
  BY DEF RevokedFate, RevokedIsWritten, RevokeOwed
<1>4. AppendedCursor' /\ DoneCursor' /\ LiveIsJournaled'
  BY DEF AppendedCursor, DoneCursor, LiveIsJournaled
<1>5. OutcomeMatchesDelivery'
  BY DEF OutcomeMatchesDelivery, Delivered
<1>6. WrittenFate' /\ RevocationReply'
  BY DEF WrittenFate, RevocationReply, Owed
<1>7. RejectedIsSuppressed'
  BY DEF RejectedIsSuppressed, Replayable, Owed
<1> QED BY <1>1, <1>2, <1>3, <1>4, <1>5, <1>6, <1>7

(* Every step of the write path keeps the inductive invariant.             *)
THEOREM NextIInv == IInv /\ [Next]_vars => IInv'
<1> SUFFICES ASSUME IInv, [Next]_vars PROVE IInv'
  OBVIOUS
<1>1. TypeOK'
  BY TypeStep DEF IInv
<1>2. ASSUME NEW p \in Pubs,
             Send(p) \/ Wake(p) \/ Deliver(p) \/ Undeliverable(p) \/ WakeRevoked(p)
      PROVE  IInv'
  BY <1>1, <1>2, SendStep, WakeStep, DeliverStep, UndeliverableStep,
     WakeRevokedStep
<1>3. ASSUME NEW ok \in BOOLEAN,
             WriterAppend(ok) \/ WriterRevokeLate(ok) \/ WriterRevoke(ok)
      PROVE  IInv'
  BY <1>1, <1>3, WriterAppendStep, WriterRevokeLateStep, WriterRevokeStep
<1>4. ASSUME WriterAck \/ WriterReply \/ WriterPanic \/ Crash PROVE IInv'
  BY <1>1, <1>4, WriterAckStep, WriterReplyStep, WriterPanicStep, CrashStep
<1>5. ASSUME UNCHANGED vars PROVE IInv'
  BY <1>1, <1>5, StutterStep
<1> QED BY <1>2, <1>3, <1>4, <1>5, Zenon DEF Next, WriterStep, Outcomes

(* The inductive invariant holds in every reachable state: for any number  *)
(* of publications, crashes and deaths of the writer thread.               *)
THEOREM IInvInvariant == Spec => []IInv
BY InitIInv, NextIInv, PTL DEF Spec

(* The write path is type-correct.                                         *)
THEOREM TypeInvariant == Spec => []TypeOK
<1>1. IInv => TypeOK
  BY DEF IInv
<1> QED BY <1>1, IInvInvariant, PTL

(* publish() delivers only what is durable: every event the inner broker   *)
(* accepted is in the journal at its cursor, and was not revoked.          *)
THEOREM DeliveredIsDurableInvariant == Spec => []DeliveredIsDurable
<1>1. IInv => DeliveredIsDurable
  <2> SUFFICES ASSUME IInv, NEW i \in DOMAIN live
               PROVE  ~Revoked(live[i].pub)
    BY DEF DeliveredIsDurable, IInv, LiveIsJournaled
  <2>1. live[i].pub \in Pubs
    <3>1. live \in Seq([pub : Pubs, cursor : Nat])
      BY DEF IInv, TypeOK
    <3>2. live[i] \in [pub : Pubs, cursor : Nat]
      BY <3>1, ElementFacts, Zenon
    <3> QED BY <3>2
  <2>2. pc[live[i].pub] = "accepted"
    BY <2>1 DEF IInv, OutcomeMatchesDelivery, Delivered
  <2> QED BY <2>1, <2>2 DEF IInv, RevokedFate
<1> QED BY <1>1, IInvInvariant, PTL

(* publish() returns Ok exactly for the events delivered, each once.       *)
THEOREM OutcomeInvariant == Spec => []OutcomeMatchesDelivery
<1>1. IInv => OutcomeMatchesDelivery
  BY DEF IInv
<1> QED BY <1>1, IInvInvariant, PTL

(* A publication that returned an error is kept out of replay, or owed a   *)
(* revocation, or reported, or lost with the writer.                       *)
THEOREM RejectedInvariant == Spec => []RejectedIsSuppressed
<1>1. IInv => RejectedIsSuppressed
  BY DEF IInv
<1> QED BY <1>1, IInvInvariant, PTL

=============================================================================
