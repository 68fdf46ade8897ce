---------------------- MODULE MCDataStoreMaintenance ----------------------
(* Two processes that open the store, one that maintains it.               *)
EXTENDS DataStoreMaintenance, TLC

MCKeys == {1, 2}
MCDirs == 1..8
\* The second write is unstamped, the others carry a retained_at.
MCRetainedAt == <<1, 0, 2>>
MCPolicies == {[max_count |-> 1, cutoff |-> 0], [max_count |-> 0, cutoff |-> 1]}
\* The failures a call recovers from.
MCMayFail ==
    ({"prune"} \X {"delete"}) \cup ({"backup"} \X {"backup"})
      \cup ({"restore"} \X {"fill", "aside", "install"})
      \cup ({"migrate"} \X {"backup", "fill", "aside", "install", "reacquire"})
\* A state without the identities of its directories: what each path names,
\* who has which lock file open, and nothing about removed directories.
Naming(d) == {p \in Paths : path[p] = d}
UpToDirs ==
    <<[p \in Paths |-> IF path[p] = None THEN Absent ELSE dirs[path[p]]],
      [p \in Procs |-> IF handle[p] = None THEN <<>>
                       ELSE <<Naming(handle[p]), lock[handle[p]],
                              {q \in Procs : handle[q] = handle[p]}>>],
      pc, job, archive, version, committed>>

StoresAlike == Permutations(Stores)
=============================================================================
