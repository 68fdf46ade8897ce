-------------------------- MODULE ContractHydration --------------------------
(***************************************************************************)
(* The hydration cache for persisted capability contracts                  *)
(* (crates/traverse-runtime/src/capability_metadata.rs,                    *)
(* ContractHydrationCache).  Threads ask for the contract of a key (id,    *)
(* version and digest of an indexed capability).  A bounded LRU cache      *)
(* answers hits; on a miss the callers of one key share an in-flight slot, *)
(* a mutex around an optional result: the first to lock an empty slot      *)
(* reads, verifies and parses the file, and the others take its result.    *)
(*                                                                         *)
(* Two locks are involved: `inner` guards the cache and the in-flight map  *)
(* and is held within one step here; the slot's own lock is held by the    *)
(* leader across the file read.                                            *)
(***************************************************************************)
EXTENDS Integers, Sequences

CONSTANTS
    Callers,    \* threads
    Keys,       \* indexed capabilities
    Slots,      \* allocations a slot may live in
    None,       \* no slot, no caller
    Capacity,   \* entries the cache holds
    MaxPanics   \* bound: leaders that panic

ASSUME ConstantsAssumption ==
    /\ Capacity \in Nat \ {0}
    /\ MaxPanics \in Nat
    /\ None \notin Callers \cup Keys \cup Slots

VARIABLES
    entries,    \* keys in the cache
    order,      \* the same keys, least recently used first
    inflight,   \* key -> its slot in the in-flight map, or None
    result,     \* slot -> "none", "ok" or "err"
    holder,     \* slot -> the caller that has it locked, or None
    pc,         \* caller -> where it is
    key,        \* caller -> the key it asks for, or None
    slot,       \* caller -> the slot it shares
    panics      \* leaders that have panicked

vars == <<entries, order, inflight, result, holder, pc, key, slot, panics>>

Init ==
    /\ entries = {}
    /\ order = <<>>
    /\ inflight = [k \in Keys |-> None]
    /\ result = [s \in Slots |-> "none"]
    /\ holder = [s \in Slots |-> None]
    /\ pc = [c \in Callers |-> "idle"]
    /\ key = [c \in Callers |-> None]
    /\ slot = [c \in Callers |-> None]
    /\ panics = 0

Goto(c, place) == pc' = [pc EXCEPT ![c] = place]

\* A caller that returns drops its reference to the slot.
Return(c) ==
    /\ Goto(c, "idle")
    /\ key' = [key EXCEPT ![c] = None]
    /\ slot' = [slot EXCEPT ![c] = None]

\* Slots that neither the in-flight map nor a caller refers to.
Unused ==
    {s \in Slots : (\A k \in Keys : inflight[k] # s) /\ (\A c \in Callers : slot[c] # s)}

\* The slot the callers of the key share, allocated by the first of them.
SlotFor(k) == IF inflight[k] # None THEN inflight[k] ELSE CHOOSE s \in Unused : TRUE

Without(seq, k) == SelectSeq(seq, LAMBDA x : x # k)

-----------------------------------------------------------------------------
(* hydrate.                                                                *)

\* A hit: the entry becomes the most recently used one.
cache_get(c, k) ==
    /\ pc[c] = "idle"
    /\ k \in entries
    /\ order' = Append(Without(order, k), k)
    /\ UNCHANGED <<entries, inflight, result, holder, pc, key, slot, panics>>

\* Mutant: the cache was found empty under an earlier hold of the lock.
Claim_stale(c, k) ==
    /\ pc[c] = "idle"
    /\ inflight[k] # None \/ Unused # {}
    /\ inflight' = [inflight EXCEPT ![k] = SlotFor(k)]
    /\ result' = IF inflight[k] # None THEN result ELSE [result EXCEPT ![SlotFor(k)] = "none"]
    /\ slot' = [slot EXCEPT ![c] = SlotFor(k)]
    /\ key' = [key EXCEPT ![c] = k]
    /\ Goto(c, "waiting")
    /\ UNCHANGED <<entries, order, holder, panics>>

\* A miss claims the in-flight slot of the key, under the same lock.
Claim(c, k) ==
    /\ pc[c] = "idle"
    /\ k \notin entries
    /\ inflight[k] # None \/ Unused # {}
    /\ inflight' = [inflight EXCEPT ![k] = SlotFor(k)]
    /\ result' = IF inflight[k] # None THEN result ELSE [result EXCEPT ![SlotFor(k)] = "none"]
    /\ slot' = [slot EXCEPT ![c] = SlotFor(k)]
    /\ key' = [key EXCEPT ![c] = k]
    /\ Goto(c, "waiting")
    /\ UNCHANGED <<entries, order, holder, panics>>

LockSlot(c) ==
    /\ pc[c] = "waiting"
    /\ holder[slot[c]] = None
    /\ holder' = [holder EXCEPT ![slot[c]] = c]
    /\ Goto(c, IF result[slot[c]] = "none" THEN "leading" ELSE "coalesced")
    /\ UNCHANGED <<entries, order, inflight, result, key, slot, panics>>

\* Mutant: a waiter handed an error waits for a better result of the same slot.
Coalesce_retries(c) ==
    /\ pc[c] = "coalesced"
    /\ holder' = [holder EXCEPT ![slot[c]] = None]
    /\ IF result[slot[c]] = "err" THEN Goto(c, "waiting") /\ UNCHANGED <<key, slot>> ELSE Return(c)
    /\ UNCHANGED <<entries, order, inflight, result, panics>>

\* A waiter takes the leader's result, be it an error.
Coalesce(c) ==
    /\ pc[c] = "coalesced"
    /\ holder' = [holder EXCEPT ![slot[c]] = None]
    /\ Return(c)
    /\ UNCHANGED <<entries, order, inflight, result, panics>>

-----------------------------------------------------------------------------
(* hydrate_leader.                                                         *)

\* The file is missing, unreadable, changed, or not a contract.
Fail(c) ==
    /\ pc[c] = "leading"
    /\ Goto(c, "failed")
    /\ UNCHANGED <<entries, order, inflight, result, holder, key, slot, panics>>

\* The leader panics: the slot's guard is dropped, the slot stays empty and in
\* the map, and its poisoned lock is taken as if nothing had happened.
Panic(c) ==
    /\ pc[c] = "leading"
    /\ panics < MaxPanics
    /\ panics' = panics + 1
    /\ holder' = [holder EXCEPT ![slot[c]] = None]
    /\ Return(c)
    /\ UNCHANGED <<entries, order, inflight, result>>

\* How many of the least recently used entries make room for one more.
Evicted == IF Len(order) >= Capacity THEN Len(order) - Capacity + 1 ELSE 0

\* The verified contract is cached, the least recently used making room.
insert(c) ==
    LET k == key[c] IN
    /\ pc[c] = "leading"
    /\ IF k \in entries
       THEN UNCHANGED <<entries, order>>
       ELSE /\ entries' = (entries \ {order[i] : i \in 1..Evicted}) \cup {k}
            /\ order' = Append(SubSeq(order, Evicted + 1, Len(order)), k)
    /\ Goto(c, "hydrated")
    /\ UNCHANGED <<inflight, result, holder, key, slot, panics>>

\* The result is stored in the slot and the slot unlocked ...
Store(c) ==
    /\ pc[c] \in {"hydrated", "failed"}
    /\ result' = [result EXCEPT ![slot[c]] = IF pc[c] = "hydrated" THEN "ok" ELSE "err"]
    /\ holder' = [holder EXCEPT ![slot[c]] = None]
    /\ Goto(c, "stored")
    /\ UNCHANGED <<entries, order, inflight, key, slot, panics>>

\* Mutant: the leader of a failed hydration leaves its slot in the map.
Clear_on_success(c) ==
    /\ pc[c] = "stored"
    /\ inflight' = [inflight EXCEPT ![key[c]] = IF result[slot[c]] = "err" THEN @ ELSE None]
    /\ Return(c)
    /\ UNCHANGED <<entries, order, result, holder, panics>>

\* ... and the slot leaves the in-flight map.
Clear(c) ==
    /\ pc[c] = "stored"
    /\ inflight' = [inflight EXCEPT ![key[c]] = None]
    /\ Return(c)
    /\ UNCHANGED <<entries, order, result, holder, panics>>

-----------------------------------------------------------------------------

Step(c) ==
    \/ LockSlot(c) \/ Coalesce(c)
    \/ Fail(c) \/ Panic(c) \/ insert(c)
    \/ Store(c) \/ Clear(c)

Next ==
    \E c \in Callers :
        \/ \E k \in Keys : cache_get(c, k) \/ Claim(c, k)
        \/ Step(c)

Spec == Init /\ [][Next]_vars

\* A thread inside hydrate keeps running.
FairSpec == Spec /\ \A c \in Callers : WF_vars(Step(c))

-----------------------------------------------------------------------------
(* Properties.                                                             *)

Leading(c) == pc[c] \in {"leading", "hydrated", "failed"}

\* A thread that hydrates a contract is the only one to do so, and it started
\* while the contract was not cached: a caller cannot miss both the cache and
\* the in-flight slot and become a second leader (hydrate, its comment on
\* issue #1799).
NoSecondLeader ==
    \A c \in Callers :
        /\ pc[c] = "leading" => key[c] \notin entries
        /\ \A d \in Callers : Leading(c) /\ Leading(d) /\ key[c] = key[d] => c = d

\* Once all threads are out of hydrate, a slot that holds a result is not in
\* the in-flight map, so an old error is never handed to a later caller.
NoStaleSlot ==
    (\A c \in Callers : pc[c] = "idle") =>
        \A k \in Keys : inflight[k] # None => result[inflight[k]] = "none"

\* Every call of hydrate returns, whoever fails or panics in between.
EveryCallReturns ==
    \A c \in Callers : (pc[c] # "idle") ~> (pc[c] = "idle")

=============================================================================
