------------------------ MODULE DataStoreMaintenance ------------------------
(***************************************************************************)
(* The local file store and its maintenance port, two objects over one     *)
(* directory (crates/traverse-runtime/src/data_store.rs and                *)
(* data_store_maintenance.rs).                                             *)
(*                                                                         *)
(* Ownership of a store root is an OS lock on a file inside the root       *)
(* directory, so the lock belongs to the DIRECTORY and travels with it     *)
(* when it is renamed, while reads and writes go through the PATH.         *)
(* Restore and migration build a new directory beside the root, release    *)
(* the lock, rename the root aside, rename the new directory into its      *)
(* place and lock that one.  The model keeps directories and paths apart:  *)
(* a directory is an object with records, a lock file and a lock holder,   *)
(* a path names a directory or nothing.                                    *)
(***************************************************************************)
EXTENDS Integers, FiniteSets, FiniteSetsExt

CONSTANTS
    Stores,         \* the processes that open a LocalFileDataStore
    Maint,          \* the process that opens LocalFileDataStoreMaintenance
    Keys,           \* record keys, a set of numbers in key order
    Dirs,           \* directory objects, reused when nothing refers to them
    MaxVersion,     \* bound: writes of the whole run
    RetainedAt,     \* the retained_at stamp of each write, 0 when unstamped
    Policies,       \* retention policies the host passes to prune
    MayFail,        \* the I/O steps that may fail
    MaxFailures,    \* bound: failures within one maintenance call
    Window          \* TRUE: others open the store, or the maintenance
                    \* process dies, while the directories are swapped

Procs == Stores \cup {Maint}

\* Restore and migration name their two work directories apart; the name also
\* holds the process id, so a restarted process does not see the old ones.
RootPath == <<"store", "root">>
Temp(op) == <<op, "temp">>
Aside(op) == <<op, "aside">>
Paths == {RootPath} \cup UNION {{Temp(op), Aside(op)} : op \in {"restore", "migrate"}}

None == 0

VARIABLES
    path,       \* the directory each path names, or None
    dirs,       \* directory -> its records and whether it has a lock file
    lock,       \* directory -> the process whose open file holds its lock
    handle,     \* process -> the directory whose lock file it has open
    pc,         \* process -> where it is
    job,        \* the maintenance call in progress
    archive,    \* the records of the backup zip, or NoArchive
    version,    \* writes so far
    committed   \* the values acknowledged to the host, per key

vars == <<path, dirs, lock, handle, pc, job, archive, version, committed>>

Free == "free"
Absent == [v |-> 0, fmt |-> "v1"]
EmptyDir == [recs |-> [k \in Keys |-> Absent], lockFile |-> FALSE]
NoArchive == [k \in {} |-> Absent]
NoJob == [op |-> "none", todo |-> {}, src |-> NoArchive, ok |-> FALSE, failures |-> 0]

Values(recs) == [k \in Keys |-> recs[k].v]
Present(recs) == {k \in Keys : recs[k].v # 0}

Init ==
    /\ path = [p \in Paths |-> None]
    /\ dirs = [d \in Dirs |-> EmptyDir]
    /\ lock = [d \in Dirs |-> Free]
    /\ handle = [p \in Procs |-> None]
    /\ pc = [p \in Procs |-> "closed"]
    /\ job = NoJob
    /\ archive = NoArchive
    /\ version = 0
    /\ committed = [k \in Keys |-> 0]

-----------------------------------------------------------------------------
(* The file system.                                                        *)

Root == dirs[path[RootPath]]

\* A directory no path and no open file refers to.
FreshDir ==
    Min({d \in Dirs : /\ \A p \in Paths : path[p] # d
                      /\ \A p \in Procs : handle[p] # d})

\* rename(2) of a directory: the target may be missing or an empty directory.
CanRename(from, to) ==
    /\ path[from] # None
    /\ path[to] # None => dirs[path[to]] = EmptyDir

Renamed(from, to) == [path EXCEPT ![to] = path[from], ![from] = None]

\* The lock table once p drops the lock file it has open.
Released(p) ==
    [d \in Dirs |-> IF lock[d] = p /\ handle[p] = d THEN Free ELSE lock[d]]

-----------------------------------------------------------------------------
(* Opening, the same three calls for a store and for maintenance:          *)
(* create_dir_all, open the lock file, try_lock.                           *)

Swap == {"aside", "install", "rollback", "reacquire", "undo", "reinstate"}
Swapping == pc[Maint] \in Swap

create_dir_all(p) ==
    /\ pc[p] = "closed"
    /\ Window \/ ~Swapping
    /\ pc' = [pc EXCEPT ![p] = "made"]
    /\ IF path[RootPath] # None
       THEN UNCHANGED <<path, dirs>>
       ELSE /\ path' = [path EXCEPT ![RootPath] = FreshDir]
            /\ dirs' = [dirs EXCEPT ![FreshDir] = EmptyDir]
    /\ UNCHANGED <<lock, handle, job, archive, version, committed>>

open_lock_file(p) ==
    /\ pc[p] = "made"
    /\ IF path[RootPath] = None
       THEN pc' = [pc EXCEPT ![p] = "closed"] /\ UNCHANGED <<handle, dirs>>
       ELSE /\ pc' = [pc EXCEPT ![p] = "opened"]
            /\ handle' = [handle EXCEPT ![p] = path[RootPath]]
            /\ dirs' = [dirs EXCEPT ![path[RootPath]].lockFile = TRUE]
    /\ UNCHANGED <<path, lock, job, archive, version, committed>>


try_lock(p) ==
    /\ pc[p] = "opened"
    /\ IF lock[handle[p]] = Free
       THEN /\ pc' = [pc EXCEPT ![p] = "live"]
            /\ lock' = [lock EXCEPT ![handle[p]] = p]
            /\ UNCHANGED handle
       ELSE /\ pc' = [pc EXCEPT ![p] = "closed"]
            /\ handle' = [handle EXCEPT ![p] = None]
            /\ UNCHANGED lock
    /\ UNCHANGED <<path, dirs, job, archive, version, committed>>

\* The object is dropped.
Drop(p) ==
    /\ pc[p] = "live"
    /\ pc' = [pc EXCEPT ![p] = "closed"]
    /\ lock' = Released(p)
    /\ handle' = [handle EXCEPT ![p] = None]
    /\ UNCHANGED <<path, dirs, job, archive, version, committed>>

\* The process dies: the OS releases its lock.  The next process has another
\* id, so a maintenance call's work directories are never looked at again.
Crash(p) ==
    /\ pc[p] # "closed"
    /\ Window \/ ~(p = Maint /\ Swapping)
    /\ pc' = [pc EXCEPT ![p] = "closed"]
    /\ lock' = Released(p)
    /\ handle' = [handle EXCEPT ![p] = None]
    /\ IF p = Maint
       THEN /\ path' = [q \in Paths |-> IF q = RootPath THEN path[q] ELSE None]
            /\ job' = NoJob
       ELSE UNCHANGED <<path, job>>
    /\ UNCHANGED <<dirs, archive, version, committed>>

-----------------------------------------------------------------------------
(* LocalFileDataStore: both operations end in one rename or unlink in the  *)
(* directory the root path names at that moment.                           *)

\* A record keeps the format its predecessor had; a new key is written as v1.
write(s, k) ==
    /\ pc[s] = "live"
    /\ version < MaxVersion
    /\ path[RootPath] # None
    /\ version' = version + 1
    /\ dirs' = [dirs EXCEPT ![path[RootPath]].recs[k].v = version']
    /\ committed' = [committed EXCEPT ![k] = version']
    /\ UNCHANGED <<path, lock, handle, pc, job, archive>>

delete(s, k) ==
    /\ pc[s] = "live"
    /\ path[RootPath] # None
    /\ Root.recs[k] # Absent
    /\ dirs' = [dirs EXCEPT ![path[RootPath]].recs[k] = Absent]
    /\ committed' = [committed EXCEPT ![k] = 0]
    /\ UNCHANGED <<path, lock, handle, pc, job, archive, version>>

-----------------------------------------------------------------------------
(* LocalFileDataStoreMaintenance.  parse_envelope_bytes accepts only the   *)
(* v1 envelope, so what reads records refuses a root that holds a v2 one.  *)

AllV1(recs) == \A k \in Keys : recs[k].fmt = "v1"

Fails(step) == <<job.op, step>> \in MayFail /\ job.failures < MaxFailures

At(place) == pc[Maint] = place
Goto(place) == pc' = [pc EXCEPT ![Maint] = place]
Return == Goto("live") /\ job' = NoJob

\* Count keeps the last max_count keys in key order; age drops the stamped
\* records at or before the cutoff.  A bound of 0 stands for "not given".
select_prune_victims(policy, recs) ==
    LET keys == Present(recs)
        byCount == {k \in keys : Cardinality({j \in keys : j >= k}) > policy.max_count}
        byAge == {k \in keys : RetainedAt[recs[k].v] \in 1..policy.cutoff}
    IN (IF policy.max_count = 0 THEN {} ELSE byCount)
         \cup (IF policy.cutoff = 0 THEN {} ELSE byAge)

prune(policy) ==
    /\ At("live")
    /\ path[RootPath] # None
    /\ policy.cutoff # 0 => AllV1(Root.recs)
    /\ job' = [NoJob EXCEPT !.op = "prune", !.todo = select_prune_victims(policy, Root.recs)]
    /\ Goto("prune")
    /\ UNCHANGED <<path, dirs, lock, handle, archive, version, committed>>

\* delete_key, one victim after another; the call stops at the first failure.
delete_key ==
    /\ At("prune")
    /\ UNCHANGED <<path, lock, handle, archive, version>>
    /\ \/ /\ job.todo = {} \/ Fails("delete")
          /\ Return
          /\ UNCHANGED <<dirs, committed>>
       \/ LET k == Min(job.todo) IN
          /\ job.todo # {}
          /\ dirs' = IF path[RootPath] = None THEN dirs
                     ELSE [dirs EXCEPT ![path[RootPath]].recs[k] = Absent]
          /\ committed' = [committed EXCEPT ![k] = 0]
          /\ job' = [job EXCEPT !.todo = @ \ {k}]
          /\ UNCHANGED pc

\* backup reads every envelope into the zip it will commit; migrate_v1_to_v2
\* validates every envelope and then does the same.
backup(op) ==
    /\ At("live")
    /\ path[RootPath] # None
    /\ AllV1(Root.recs)
    /\ job' = [NoJob EXCEPT !.op = op, !.src = Root.recs]
    /\ Goto("backup")
    /\ UNCHANGED <<path, dirs, lock, handle, archive, version, committed>>

\* The old work directories are removed and an empty one is made.
Prepared(op) ==
    /\ path' = [path EXCEPT ![Temp(op)] = FreshDir, ![Aside(op)] = None]
    /\ dirs' = [dirs EXCEPT ![FreshDir] = [EmptyDir EXCEPT !.lockFile = TRUE]]

\* Mutant: a migration goes on although its backup was not committed.
commit_backup_zip_ignored ==
    /\ At("backup")
    /\ UNCHANGED <<lock, handle, version, committed>>
    /\ IF job.op = "migrate"
       THEN /\ archive' = IF Fails("backup") THEN archive ELSE job.src
            /\ Goto("fill")
            /\ job' = [job EXCEPT !.todo = Present(job.src)]
            /\ Prepared("migrate")
       ELSE archive' = job.src /\ Return /\ UNCHANGED <<path, dirs>>

\* The verified zip replaces the one at the destination.
commit_backup_zip ==
    /\ At("backup")
    /\ UNCHANGED <<lock, handle, version, committed>>
    /\ \/ Fails("backup") /\ Return /\ UNCHANGED <<path, dirs, archive>>
       \/ /\ archive' = job.src
          /\ IF job.op = "migrate"
             THEN /\ Goto("fill")
                  /\ job' = [job EXCEPT !.todo = Present(job.src)]
                  /\ Prepared("migrate")
             ELSE Return /\ UNCHANGED <<path, dirs>>

restore ==
    /\ At("live")
    /\ archive # NoArchive
    /\ job' = [NoJob EXCEPT !.op = "restore", !.src = archive, !.todo = Present(archive)]
    /\ Goto("fill")
    /\ Prepared("restore")
    /\ UNCHANGED <<lock, handle, archive, version, committed>>

\* A migration that fails before the live root has moved removes its work
\* directory, a restore leaves it.
Abandoned == IF job.op = "migrate" THEN [path EXCEPT ![Temp(job.op)] = None] ELSE path

\* One record is written to the work directory: a restore copies the
\* envelope of the archive, a migration wraps the envelope of the live store.
WriteRecord ==
    LET k == Min(job.todo)
        rec == IF job.op = "restore" THEN job.src[k] ELSE [Root.recs[k] EXCEPT !.fmt = "v2"]
    IN /\ At("fill")
       /\ job.todo # {}
       /\ UNCHANGED <<lock, handle, archive, version, committed>>
       /\ \/ /\ dirs' = [dirs EXCEPT ![path[Temp(job.op)]].recs[k] = rec]
             /\ job' = [job EXCEPT !.todo = @ \ {k}]
             /\ UNCHANGED <<path, pc>>
          \/ /\ Fails("fill")
             /\ Return
             /\ path' = Abandoned
             /\ UNCHANGED dirs

-----------------------------------------------------------------------------
(* The swap.                                                               *)

\* Nobody else is half way through opening.
Quiet == \A s \in Stores : pc[s] \notin {"made", "opened"}

\* The work directory is verified and the lock on the live root released.
unlock ==
    /\ At("fill")
    /\ job.todo = {}
    /\ Window \/ Quiet
    /\ lock' = Released(Maint)
    /\ Goto("aside")
    /\ UNCHANGED <<path, dirs, handle, job, archive, version, committed>>

\* What a rename of the swap may come to: done, or failed because of the
\* target or of the file system.
Outcomes(from, to, step) ==
    {done \in BOOLEAN : IF done THEN CanRename(from, to)
                        ELSE Fails(step) \/ ~CanRename(from, to)}

\* One rename of the swap and where each outcome leads.
SwapStep(from, to, step, onDone, onFailed) ==
    /\ At(step)
    /\ \E done \in Outcomes(from, to, step) :
          /\ path' = IF done THEN Renamed(from, to)
                     ELSE IF step = "aside" THEN Abandoned ELSE path
          /\ job' = [job EXCEPT !.failures = IF done THEN @ ELSE @ + 1,
                                !.ok = step = "install" /\ done]
          /\ Goto(IF done THEN onDone ELSE onFailed)
    /\ UNCHANGED <<dirs, lock, handle, archive, version, committed>>

move_live_aside ==
    SwapStep(RootPath, Aside(job.op), "aside", "install", "reacquire")


install ==
    SwapStep(Temp(job.op), RootPath, "install", "reacquire", "rollback")

\* The old root is put back; whether that worked is ignored.
rollback ==
    SwapStep(Aside(job.op), RootPath, "rollback", "reacquire", "reacquire")

\* The lock file of whatever directory is now at the root is opened and
\* locked, and the old one dropped.  Success after the install is the commit
\* of the call.  Failure after the install ends a restore with an error; a
\* migration renames the directories back and tries once more.
reacquire_lock ==
    LET d == path[RootPath]
        locked == d # None /\ lock[d] = Free
    IN /\ At("reacquire")
       /\ UNCHANGED <<path, archive, version>>
       /\ \/ /\ locked
             /\ lock' = [lock EXCEPT ![d] = Maint]
             /\ handle' = [handle EXCEPT ![Maint] = d]
             /\ dirs' = [dirs EXCEPT ![d].lockFile = TRUE]
             /\ IF job.ok
                THEN /\ Goto("cleanup")
                     /\ committed' = IF job.op = "restore" THEN Values(job.src) ELSE committed
                     /\ UNCHANGED job
                ELSE Return /\ UNCHANGED committed
          \/ /\ ~locked \/ Fails("reacquire")
             /\ UNCHANGED <<lock, handle, dirs, committed>>
             /\ IF job.ok /\ job.op = "migrate"
                THEN /\ job' = [job EXCEPT !.failures = @ + 1]
                     /\ Goto("undo")
                ELSE Return

\* reacquire_migrated_lock: the migrated root goes back to its work name and
\* the previous root to its own, whether that works or not.
undo ==
    SwapStep(RootPath, Temp(job.op), "undo", "reinstate", "reinstate")

reinstate ==
    SwapStep(Aside(job.op), RootPath, "reinstate", "reacquire", "reacquire")

\* The replaced directory is removed.
cleanup ==
    /\ At("cleanup")
    /\ path' = [path EXCEPT ![Aside(job.op)] = None]
    /\ Return
    /\ UNCHANGED <<dirs, lock, handle, archive, version, committed>>

-----------------------------------------------------------------------------

Next ==
    \/ \E p \in Procs :
          create_dir_all(p) \/ open_lock_file(p) \/ try_lock(p) \/ Drop(p) \/ Crash(p)
    \/ \E s \in Stores, k \in Keys : write(s, k) \/ delete(s, k)
    \/ \E policy \in Policies : prune(policy)
    \/ \E op \in {"backup", "migrate"} : backup(op)
    \/ delete_key \/ commit_backup_zip \/ restore \/ WriteRecord \/ unlock
    \/ move_live_aside \/ install \/ rollback \/ reacquire_lock
    \/ undo \/ reinstate \/ cleanup

Spec == Init /\ [][Next]_vars

-----------------------------------------------------------------------------
(* Properties.                                                             *)

\* The object is open and, for maintenance, not inside the swap.
Open(p) == pc[p] \notin {"closed", "made", "opened"} \cup Swap



\* When a migration has committed, the zip at its destination holds exactly
\* the records it replaced, in a format restore accepts
\* (data_store_maintenance.rs migrate_v1_to_v2).
BackedUpBeforeMigrated ==
    At("cleanup") /\ job.op = "migrate" =>
        /\ archive # NoArchive
        /\ AllV1(archive)
        /\ Values(archive) = committed

=============================================================================
