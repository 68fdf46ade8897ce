------------------------------- MODULE Journal -------------------------------
(***************************************************************************)
(* The durable, append-only segmented event journal                        *)
(* (crates/traverse-runtime/src/events/journal.rs).                        *)
(*                                                                         *)
(* `disk' is what survives a crash: segment files named by the sequence    *)
(* number current when they were created, each a sequence of terminated    *)
(* lines and possibly an unterminated tail.  The other variables are the   *)
(* fields of DurableEventJournal and are lost with the process.  `acked'   *)
(* and `revoked' are history: what append and append_revocation have       *)
(* returned Ok for.                                                        *)
(*                                                                         *)
(* A line is two units long and an unterminated tail one, so that the      *)
(* byte limits of the configuration can be reached by small files.         *)
(***************************************************************************)
EXTENDS Naturals, Sequences, FiniteSets, SequencesExt

CONSTANTS
  Events,            \* event payloads
  NoEvent,           \* the `event' of a revocation record
  MaxSegmentBytes,   \* JournalConfig::max_segment_bytes
  MaxSegmentAge,     \* JournalConfig::max_segment_age_secs
  RetentionMaxAge,   \* JournalConfig::retention_max_age_secs, 0 for None
  RetentionMaxBytes, \* JournalConfig::retention_max_total_bytes, 0 for None
  WriteFaults,       \* how a write may fail while the process lives
  CrashFaults,       \* what an append interrupted by a crash leaves on disk
  RemoveFaults,      \* may remove_file fail
  MaxSeq,            \* bound: sequence numbers handed out
  MaxNow,            \* bound: clock
  MaxCrashes,        \* bound: crashes
  MaxFaults          \* bound: failed writes

(* Outcomes of a write other than success: no byte reached the file, an    *)
(* unterminated prefix of the line did, or the whole line did but          *)
(* sync_data failed.                                                       *)
Faults == {"nothing", "torn", "unsynced"}

LineBytes == 2
TornBytes == 1

(* validate_config: a limit of zero is refused, so zero can stand for None *)
ASSUME ConfigAssumption ==
  /\ NoEvent \notin Events
  /\ MaxSegmentBytes \in Nat \ {0}
  /\ MaxSegmentAge \in Nat \ {0}
  /\ RetentionMaxAge \in Nat
  /\ RetentionMaxBytes \in Nat
  /\ WriteFaults \subseteq Faults
  /\ CrashFaults \subseteq Faults
  /\ RemoveFaults \in BOOLEAN
  /\ MaxSeq \in Nat /\ MaxNow \in Nat /\ MaxCrashes \in Nat /\ MaxFaults \in Nat

VARIABLES
  disk,       \* [segment base -> [lines, torn]], the files under `root'
  up,         \* the process has the journal open
  sealed,     \* Vec<SegmentMeta>
  active,     \* Option<(SegmentMeta, File)>, a sequence of length at most 1
  next_seq,
  cache,      \* read_cache: complete lines already parsed, by segment base
  now,        \* the clock, in seconds
  acked,      \* history: events append returned a cursor for
  revoked,    \* history: sequences append_revocation returned Ok for
  openError,  \* the last open returned Corrupt
  crashes,    \* number of crashes so far
  faults      \* number of failed writes so far

vars == <<disk, up, sealed, active, next_seq, cache, now, acked, revoked,
          openError, crashes, faults>>

-----------------------------------------------------------------------------
(* Records and files *)

Record(seq, at, event, revokes) ==
  [seq |-> seq, at |-> at, event |-> event, revokes |-> revokes]

(* What a line is worth when it was written behind an unterminated tail:   *)
(* terminated, and not the serialization of a record.                      *)
Malformed == Record(0, 0, NoEvent, 0)

Records == [seq : 0..MaxSeq, at : 0..MaxNow, event : Events \cup {NoEvent},
            revokes : 0..MaxSeq]

EmptyFile == [lines |-> <<>>, torn |-> FALSE]

(* write_durable: the line lands behind whatever the file already holds.   *)
WriteLine(file, record, outcome) ==
  CASE outcome = "nothing" -> file
    [] outcome = "torn"    -> [file EXCEPT !.torn = TRUE]
    [] OTHER -> [lines |-> Append(file.lines,
                                  IF file.torn THEN Malformed ELSE record),
                 torn  |-> FALSE]

FileBytes(file) ==
  LineBytes * Len(file.lines) + (IF file.torn THEN TornBytes ELSE 0)

(* A run of terminated lines parses: no malformed record, and sequences    *)
(* greater than the one before them.                                       *)
WellFormed(lines) ==
  /\ \A i \in DOMAIN lines : lines[i] # Malformed
  /\ \A i, j \in DOMAIN lines : i < j => lines[i].seq < lines[j].seq

Minus(a, b) == IF a > b THEN a - b ELSE 0

-----------------------------------------------------------------------------
(* Segments *)

Meta(base, file) ==
  [base    |-> base,
   first   |-> file.lines[1].seq,
   last    |-> Last(file.lines).seq,
   created |-> file.lines[1].at,
   written |-> Last(file.lines).at,
   bytes   |-> FileBytes(file)]

Metas == [base : 1..MaxSeq, first : 1..MaxSeq, last : 1..MaxSeq,
          created : 0..MaxNow, written : 0..MaxNow, bytes : Nat]

segments == sealed \o active

(* open_segment: a file of its own, created with create_new.               *)
FreshMeta == [base |-> next_seq, first |-> next_seq, last |-> next_seq,
              created |-> now, written |-> now, bytes |-> 0]

NeedsRollover ==
  /\ active # <<>>
  /\ \/ active[1].bytes >= MaxSegmentBytes
     \/ Minus(now, active[1].created) >= MaxSegmentAge

SealedAfterRollover == IF NeedsRollover THEN sealed \o active ELSE sealed
ActiveAfterRollover == IF NeedsRollover THEN <<>> ELSE active

(* create_new fails when a file of that name is already there.             *)
CreateFails == ActiveAfterRollover = <<>> /\ next_seq \in DOMAIN disk

Target == IF ActiveAfterRollover = <<>> THEN FreshMeta
                                        ELSE ActiveAfterRollover[1]

(* The files after append_line wrote `record' with the given outcome.      *)
DiskAfterWrite(record, outcome) ==
  LET old == IF Target.base \in DOMAIN disk THEN disk[Target.base] ELSE EmptyFile
  IN  [b \in DOMAIN disk \cup {Target.base} |->
         IF b = Target.base THEN WriteLine(old, record, outcome) ELSE disk[b]]

(* append_line up to its result: rollover, open_segment, append_record.    *)
(* `active' is put back whatever the write returned, next_seq only moves   *)
(* on success.                                                             *)
AppendLine(event, revokes, outcome) ==
  LET record == Record(next_seq, now, event, revokes)
  IN  /\ sealed' = SealedAfterRollover
      /\ \/ /\ CreateFails
            /\ active' = <<>>
            /\ UNCHANGED <<disk, next_seq>>
         \/ /\ ~CreateFails
            /\ disk' = DiskAfterWrite(record, outcome)
            /\ IF outcome = "ok"
               THEN /\ active' = <<[Target EXCEPT !.last = next_seq,
                                                  !.written = now,
                                                  !.bytes = @ + LineBytes]>>
                    /\ next_seq' = next_seq + 1
               ELSE /\ active' = <<Target>>
                    /\ UNCHANGED next_seq
      /\ faults' = IF outcome = "ok" THEN faults ELSE faults + 1
      /\ faults' <= MaxFaults
      /\ UNCHANGED <<up, cache, now, openError, crashes>>

Acknowledged(outcome) == outcome = "ok" /\ ~CreateFails

append(event, outcome) ==
  /\ up /\ next_seq < MaxSeq
  /\ AppendLine(event, 0, outcome)
  /\ acked' = IF Acknowledged(outcome)
              THEN acked \cup {[seq |-> next_seq, event |-> event]}
              ELSE acked
  /\ UNCHANGED revoked

(* The cursors revoked are cursors append returned.                        *)
append_revocation(seq, outcome) ==
  /\ up /\ next_seq < MaxSeq
  /\ seq \in {a.seq : a \in acked}
  /\ AppendLine(NoEvent, seq, outcome)
  /\ revoked' = IF Acknowledged(outcome) THEN revoked \cup {seq} ELSE revoked
  /\ UNCHANGED acked

-----------------------------------------------------------------------------
(* Replay *)

(* refresh_segment_cache: only the lines behind the cached ones are read;  *)
(* an unterminated tail is an error unless this is the newest segment.     *)
SegmentReadable(base, allowTorn) ==
  LET file == disk[base]
      seen == cache[base]
      new  == SubSeq(file.lines, seen + 1, Len(file.lines))
  IN  \/ seen = Len(file.lines) /\ ~file.torn
      \/ /\ WellFormed(new)
         /\ seen > 0 /\ new # <<>> => file.lines[seen].seq < new[1].seq
         /\ file.torn => allowTorn

(* The segments replay_from reads: those with a record behind the cursor.  *)
Visited(after) == {i \in DOMAIN segments : segments[i].last > after}

Unreadable(after) ==
  {i \in Visited(after) :
     ~SegmentReadable(segments[i].base, i = Len(segments))}

(* Mutant: no cursor is ever reported expired.                             *)
CursorNeverExpired(after) == FALSE

CursorExpired(after) == segments # <<>> /\ after + 1 < segments[1].first

(* The sequences suppressed and the events collected, over the visited     *)
(* segments in order.                                                      *)
VisitedLines(after) ==
  FlattenSeq([i \in DOMAIN segments |->
                IF i \in Visited(after) THEN disk[segments[i].base].lines
                                        ELSE <<>>])

(* Mutant: one pass, so only revocations already met suppress a record.    *)
CollectedOnePass(lines, after) ==
  LET Met(i) == {lines[j].revokes : j \in 1..i}
      kept   == {i \in DOMAIN lines : /\ lines[i].revokes = 0
                                      /\ lines[i].seq > after
                                      /\ lines[i].seq \notin Met(i)}
  IN  [k \in 1..Cardinality(kept) |->
         lines[SetToSortSeq(kept, LAMBDA a, b : a < b)[k]]]

Collected(lines, after) ==
  LET suppressed == {lines[i].revokes : i \in DOMAIN lines}
  IN  SelectSeq(lines, LAMBDA r : /\ r.revokes = 0
                                  /\ r.seq > after
                                  /\ r.seq \notin suppressed)

(* replay_from: the outcome, and the (sequence, event) pairs returned.     *)
replay_from(after) ==
  CASE CursorExpired(after) ->
         [result |-> "CursorExpired", events |-> <<>>]
    [] ~CursorExpired(after) /\ Unreadable(after) # {} ->
         [result |-> "Corrupt", events |-> <<>>]
    [] OTHER ->
         LET lines == Collected(VisitedLines(after), after)
         IN  [result |-> "Ok",
              events |-> [i \in DOMAIN lines |->
                            [seq |-> lines[i].seq, event |-> lines[i].event]]]

(* A replay parses the visited segments in order up to the first one it    *)
(* cannot read, and leaves their records in the cache.                     *)
Replay(after) ==
  /\ up
  /\ ~CursorExpired(after)
  /\ LET parsed == {i \in Visited(after) : \A j \in Unreadable(after) : i < j}
         bases  == {segments[i].base : i \in parsed}
     IN  cache' = [b \in DOMAIN cache |->
                     IF b \in bases THEN Len(disk[b].lines) ELSE cache[b]]
  /\ UNCHANGED <<disk, up, sealed, active, next_seq, now, acked, revoked,
                 openError, crashes, faults>>

-----------------------------------------------------------------------------
(* Retention *)

TotalBytes(metas) ==
  FoldSeq(LAMBDA m, n : m.bytes + n, 0, metas)

(* Mutant: the age of a segment is that of its oldest record.              *)
ExpiredByCreation ==
  IF RetentionMaxAge = 0 THEN 0
  ELSE Max({n \in 0..Len(sealed) :
              \A i \in 1..n : Minus(now, sealed[i].created) > RetentionMaxAge})

(* How many sealed segments prune removes from the front: by age, then by  *)
(* size while anything sealed is left.                                     *)
ExpiredByAge ==
  IF RetentionMaxAge = 0 THEN 0
  ELSE Max({n \in 0..Len(sealed) :
              \A i \in 1..n : Minus(now, sealed[i].written) > RetentionMaxAge})

PruneCount ==
  IF RetentionMaxBytes = 0 THEN ExpiredByAge
  ELSE Min({n \in ExpiredByAge..Len(sealed) :
              \/ n = Len(sealed)
              \/ TotalBytes(SubSeq(segments, n + 1, Len(segments)))
                   <= RetentionMaxBytes})

Without(f, keys) == [k \in DOMAIN f \ keys |-> f[k]]

(* Mutant: sealed segments are popped from the end of the list.            *)
prune_from_the_end(done) ==
  LET kept == Len(sealed) - done
  IN  /\ up
      /\ PruneCount > 0
      /\ done \in 0..PruneCount
      /\ sealed' = SubSeq(sealed, 1, kept)
      /\ disk' = Without(disk, {sealed[i].base : i \in (kept + 1)..Len(sealed)})
      /\ UNCHANGED <<up, active, cache, next_seq, now, acked, revoked, openError,
                     crashes, faults>>

(* prune drops the metadata, then the file, and stops at the first file it *)
(* cannot remove; only a complete prune cleans the read cache.  `done' is  *)
(* the number of files removed.                                            *)
prune(done) ==
  LET failed  == done < PruneCount
      dropped == IF failed THEN done + 1 ELSE done
      bases   == {sealed[i].base : i \in 1..done}
  IN  /\ up
      /\ PruneCount > 0
      /\ done \in 0..PruneCount
      /\ failed => RemoveFaults
      /\ sealed' = SubSeq(sealed, dropped + 1, Len(sealed))
      /\ disk' = Without(disk, bases)
      /\ cache' = IF failed THEN cache
                  ELSE [b \in DOMAIN cache |->
                          IF b \in bases THEN 0 ELSE cache[b]]
      /\ UNCHANGED <<up, active, next_seq, now, acked, revoked, openError,
                     crashes, faults>>

-----------------------------------------------------------------------------
(* Crash and recovery *)

ClosedJournal ==
  /\ up' = FALSE
  /\ sealed' = <<>> /\ active' = <<>> /\ next_seq' = 1
  /\ cache' = [b \in 1..MaxSeq |-> 0]

(* The process dies between two calls ...                                  *)
Crash ==
  /\ up /\ crashes < MaxCrashes
  /\ ClosedJournal
  /\ crashes' = crashes + 1
  /\ UNCHANGED <<disk, now, acked, revoked, openError, faults>>

(* ... or inside append or append_revocation, before the caller learned    *)
(* the outcome.                                                            *)
CrashInAppend(event, revokes, outcome) ==
  /\ up /\ crashes < MaxCrashes /\ next_seq < MaxSeq
  /\ ~CreateFails
  /\ disk' = DiskAfterWrite(Record(next_seq, now, event, revokes), outcome)
  /\ ClosedJournal
  /\ crashes' = crashes + 1
  /\ UNCHANGED <<now, acked, revoked, openError, faults>>

(* The segment files in name order.                                        *)
SegmentPaths == SetToSortSeq(DOMAIN disk, LAMBDA a, b : a < b)

(* Mutant: recovery resumes at the last sequence, not behind it.           *)
ScanSeqNoSuccessor(paths, i) ==
  LET earlier == {j \in 1..(i - 1) : disk[paths[j]].lines # <<>>}
  IN  IF earlier = {} THEN 1 ELSE Last(disk[paths[Max(earlier)]].lines).seq

(* next_seq while open scans the i-th file.                                *)
ScanSeq(paths, i) ==
  LET earlier == {j \in 1..(i - 1) : disk[paths[j]].lines # <<>>}
  IN  IF earlier = {} THEN 1 ELSE Last(disk[paths[Max(earlier)]].lines).seq + 1

(* Mutant: off by one in the check between segments.                       *)
CorruptWhenContiguous(paths) ==
  {i \in DOMAIN paths :
     LET file == disk[paths[i]]
     IN  \/ file.torn /\ i # Len(paths)
         \/ ~WellFormed(file.lines)
         \/ file.lines # <<>> /\ i > 1 /\ file.lines[1].seq <= ScanSeq(paths, i)}

(* read_segment_records and the check between segments.                    *)
CorruptSegments(paths) ==
  {i \in DOMAIN paths :
     LET file == disk[paths[i]]
     IN  \/ file.torn /\ i # Len(paths)
         \/ ~WellFormed(file.lines)
         \/ file.lines # <<>> /\ file.lines[1].seq < ScanSeq(paths, i)}

(* open: segments without a complete record are deleted as the scan meets  *)
(* them, the others become sealed; the active segment is always a new one. *)
open ==
  LET paths   == SegmentPaths
      corrupt == CorruptSegments(paths)
      empty   == {i \in DOMAIN paths : disk[paths[i]].lines = <<>>}
      removed == {i \in empty : \A j \in corrupt : i < j}
      kept    == SelectSeq(paths, LAMBDA b : disk[b].lines # <<>>)
  IN  /\ ~up
      /\ disk' = Without(disk, {paths[i] : i \in removed})
      /\ openError' = (corrupt # {})
      /\ up' = (corrupt = {})
      /\ IF corrupt = {}
         THEN /\ sealed' = [i \in DOMAIN kept |-> Meta(kept[i], disk[kept[i]])]
              /\ next_seq' = ScanSeq(paths, Len(paths) + 1)
         ELSE UNCHANGED <<sealed, next_seq>>
      /\ active' = <<>>
      /\ UNCHANGED <<cache, now, acked, revoked, crashes, faults>>

Tick ==
  /\ now < MaxNow
  /\ now' = now + 1
  /\ UNCHANGED <<disk, up, sealed, active, next_seq, cache, acked, revoked,
                 openError, crashes, faults>>

-----------------------------------------------------------------------------
Init ==
  /\ disk = [b \in {} |-> EmptyFile]
  /\ up = FALSE
  /\ sealed = <<>> /\ active = <<>> /\ next_seq = 1
  /\ cache = [b \in 1..MaxSeq |-> 0]
  /\ now = 0
  /\ acked = {} /\ revoked = {}
  /\ openError = FALSE
  /\ crashes = 0 /\ faults = 0

Next ==
  \/ open
  \/ \E e \in Events, o \in {"ok"} \cup WriteFaults : append(e, o)
  \/ \E s \in 1..MaxSeq, o \in {"ok"} \cup WriteFaults : append_revocation(s, o)
  \/ \E c \in 0..MaxSeq : Replay(c)
  \/ \E n \in 0..Len(sealed) : prune(n)
  \/ Crash
  \/ \E e \in Events, o \in CrashFaults : CrashInAppend(e, 0, o)
  \/ \E a \in acked, o \in CrashFaults : CrashInAppend(NoEvent, a.seq, o)
  \/ Tick

Spec == Init /\ [][Next]_vars

-----------------------------------------------------------------------------
(* Properties *)

(* Every variable has its type; at most one segment is active.             *)
TypeOK ==
  /\ DOMAIN disk \subseteq 1..MaxSeq
  /\ \A b \in DOMAIN disk :
       /\ disk[b].lines \in Seq(Records)
       /\ disk[b].torn \in BOOLEAN
  /\ up \in BOOLEAN
  /\ sealed \in Seq(Metas) /\ active \in Seq(Metas) /\ Len(active) <= 1
  /\ next_seq \in 1..MaxSeq
  /\ cache \in [1..MaxSeq -> 0..(MaxSeq + MaxFaults)]
  /\ now \in 0..MaxNow
  /\ acked \subseteq [seq : 1..MaxSeq, event : Events]
  /\ revoked \subseteq 1..MaxSeq
  /\ openError \in BOOLEAN
  /\ crashes \in 0..MaxCrashes
  /\ faults \in 0..MaxFaults

(* 066 FR-008: replay never silently skips history.  When replay_from      *)
(* returns events behind a cursor, every acknowledged event between the    *)
(* cursor and a returned one is returned too unless a revocation of it is  *)
(* on disk, through rollovers, prunes, crashes and recoveries.             *)
RevocationOnDisk(seq) ==
  \E b \in DOMAIN disk : \E i \in DOMAIN disk[b].lines :
    disk[b].lines[i].revokes = seq

NoSilentGap ==
  up => \A after \in 0..MaxSeq :
          LET got == ToSet(replay_from(after).events)
          IN  \A a \in acked :
                /\ a.seq > after
                /\ ~RevocationOnDisk(a.seq)
                /\ \E g \in got : g.seq > a.seq
                => a \in got

(* 067 FR-004, JournalRecordV1: once append_revocation has returned Ok no  *)
(* replay, from any cursor and in any later process, returns the event.    *)
RevokedNeverReplayed ==
  up => \A after \in 0..MaxSeq :
          \A g \in ToSet(replay_from(after).events) : g.seq \notin revoked

(* 066 FR-006: an acknowledged event is on disk as a record of its own,    *)
(* through crashes and recoveries, as long as nothing is pruned.           *)
AckedIsDurable ==
  \A a \in acked :
    \E b \in DOMAIN disk : \E i \in DOMAIN disk[b].lines :
      disk[b].lines[i].seq = a.seq /\ disk[b].lines[i].event = a.event

(* 066 FR-009: recovery ignores an incomplete final record, so a journal   *)
(* only ever damaged by interrupted writes always opens again and replays. *)
RecoverySucceeds ==
  /\ ~openError
  /\ up => \A after \in 0..MaxSeq : replay_from(after).result # "Corrupt"

(* 066 FR-007: cursors are monotonic for the life of the journal: a cursor *)
(* handed out is greater than every cursor handed out before, also by the  *)
(* processes before a restart.                                             *)
CursorsMonotonic ==
  [][\A a \in acked' \ acked : \A b \in acked : b.seq < a.seq]_vars

(* 067 FR-002: a segment is reclaimed only once every record in it is      *)
(* outside the retention window, or the segments together exceed the size  *)
(* limit; and the segment being written is never reclaimed.                *)
OnlyExpiredReclaimed ==
  [][\A b \in DOMAIN disk \ DOMAIN disk' :
       up => /\ \A i \in DOMAIN active : active[i].base # b
             /\ \/ \A i \in DOMAIN disk[b].lines :
                     now - disk[b].lines[i].at > RetentionMaxAge
                \/ /\ RetentionMaxBytes > 0
                   /\ TotalBytes(segments) > RetentionMaxBytes]_vars

(* The records the journal stands for: those of its segments while it is   *)
(* open, those a scan of the files would find while it is not; and the     *)
(* first and last sequence among them.                                     *)
Entries ==
  LET bases == IF up THEN {segments[i].base : i \in DOMAIN segments}
                     ELSE DOMAIN disk
  IN  {[seq |-> r.seq, event |-> r.event, revokes |-> r.revokes] :
         r \in UNION {ToSet(disk[b].lines) : b \in bases}}

LastEntry == Max({r.seq : r \in Entries} \cup {0})

Reclaimed ==
  CASE up  -> IF segments = <<>> THEN 0 ELSE segments[1].first - 1
    [] ~up -> IF Entries = {} THEN 0 ELSE Min({r.seq : r \in Entries}) - 1

Log == INSTANCE EventLog WITH
         Payloads  <- Events,
         NoPayload <- NoEvent,
         log       <- Entries,
         high      <- IF up THEN next_seq - 1 ELSE LastEntry,
         floor     <- Reclaimed,
         answered  <- {a.seq : a \in acked}

(* The segmented journal implements the event log: an append or revocation *)
(* adds one record behind all others and answers with its sequence, prune  *)
(* only takes records from the front and never forgets that it did, and    *)
(* rollover, failed writes, crashes and recovery change nothing the log    *)
(* holds except to add the record whose append was interrupted.            *)
ImplementsEventLog == Log!LogSpec

(* 066 FR-007, FR-008: replay_from, through the segment index and the      *)
(* metadata open rebuilt, returns exactly the unrevoked records of the log *)
(* behind the cursor, in order, and CursorExpired exactly when a record    *)
(* behind it has been reclaimed.                                           *)
ReplayReadsLog ==
  up => \A after \in 0..MaxSeq :
          LET got == replay_from(after)
              seq == [i \in DOMAIN got.events |-> got.events[i].seq]
          IN  /\ got.result = "CursorExpired" <=> Log!LogExpired(after)
              /\ got.result = "Ok" =>
                   /\ ToSet(got.events) = {[seq |-> r.seq, event |-> r.event] :
                                             r \in Log!LogRead(after)}
                   /\ \A i, j \in DOMAIN seq : i < j => seq[i] < seq[j]

(* The incremental read cache is transparent: a replay through the cache   *)
(* succeeds exactly when reading the whole segment from scratch would      *)
(* (refresh_segment_cache applies the semantics of read_segment_records).  *)
CacheTransparent ==
  up => \A i \in DOMAIN segments :
          LET file == disk[segments[i].base]
          IN  SegmentReadable(segments[i].base, i = Len(segments)) <=>
                WellFormed(file.lines) /\ (file.torn => i = Len(segments))

(* 067 FR-004: an event whose append returned an error, so that its        *)
(* publication was rejected, is not delivered by replay.                   *)
RejectedNeverReplayed ==
  up => \A after \in 0..MaxSeq :
          ToSet(replay_from(after).events) \subseteq acked

(* replay_from: "`"0"` replays from the start of retained history".        *)
ZeroReplaysRetained == up => replay_from(0).result # "CursorExpired"

(* append: "Rolls the active segment over at the configured size or age    *)
(* bound": while the journal is open an append that meets no I/O error is  *)
(* acknowledged.                                                           *)
AppendAvailable == up => ~CreateFails

=============================================================================
