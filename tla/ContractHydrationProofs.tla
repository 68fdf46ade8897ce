----------------------- MODULE ContractHydrationProofs -----------------------
(***************************************************************************)
(* For any number of threads, keys and allocations and any capacity, the   *)
(* hydration cache has one leader per key, a leader never reads a contract *)
(* that is cached, and no result outlives its call in the in-flight map.   *)
(*                                                                         *)
(* The argument follows one slot.  As long as it is empty it is the slot   *)
(* of its key in the in-flight map, so all callers of the key meet at its  *)
(* lock; it is filled once, by the caller that holds the lock; and from    *)
(* then on exactly that caller is about to take it out of the map.         *)
(***************************************************************************)
EXTENDS ContractHydration, TLAPS

Places == {"idle", "waiting", "coalesced", "leading", "hydrated", "failed", "stored"}

Types ==
    /\ entries \in SUBSET Keys
    /\ inflight \in [Keys -> Slots \cup {None}]
    /\ result \in [Slots -> {"none", "ok", "err"}]
    /\ holder \in [Slots -> Callers \cup {None}]
    /\ pc \in [Callers -> Places]
    /\ key \in [Callers -> Keys \cup {None}]
    /\ slot \in [Callers -> Slots \cup {None}]

\* A caller inside hydrate has a key and a slot, one outside has no slot.
InCall ==
    \A c \in Callers :
        IF pc[c] = "idle" THEN slot[c] = None ELSE key[c] \in Keys /\ slot[c] \in Slots

\* Whoever is past the lock of its slot holds it.
Holds ==
    \A c \in Callers : Leading(c) \/ pc[c] = "coalesced" => holder[slot[c]] = c

\* An empty slot is the one in the map.
EmptyIsCurrent ==
    \A c \in Callers :
        pc[c] # "idle" /\ result[slot[c]] = "none" => inflight[key[c]] = slot[c]

\* Leaders work on an empty slot, and clear the slot they filled.
LeaderSlot ==
    \A c \in Callers :
        /\ Leading(c) => result[slot[c]] = "none"
        /\ pc[c] = "stored" => result[slot[c]] # "none" /\ inflight[key[c]] = slot[c]

OneClears ==
    \A c, d \in Callers :
        pc[c] = "stored" /\ pc[d] = "stored" /\ slot[c] = slot[d] => c = d

SlotsDiffer ==
    \A j, k \in Keys : inflight[j] # None /\ inflight[j] = inflight[k] => j = k

\* A key with an empty slot is cached only between the leader's insert and store.
EmptyUncached ==
    \A k \in Keys :
        inflight[k] # None /\ result[inflight[k]] = "none" /\ k \in entries =>
            \E c \in Callers : pc[c] = "hydrated" /\ slot[c] = inflight[k]

ReadsUncached == \A c \in Callers : pc[c] = "leading" => key[c] \notin entries

\* A full slot in the map has a caller about to clear it.
FullIsCleared ==
    \A k \in Keys :
        inflight[k] # None /\ result[inflight[k]] # "none" =>
            \E c \in Callers : pc[c] = "stored" /\ slot[c] = inflight[k]

IInv ==
    /\ Types /\ InCall /\ Holds /\ EmptyIsCurrent /\ LeaderSlot /\ OneClears
    /\ SlotsDiffer /\ EmptyUncached /\ FullIsCleared /\ ReadsUncached

-----------------------------------------------------------------------------

\* The invariant holds before the first call.
LEMMA InitIInv == Init => IInv
BY DEF Init, IInv, Types, Places, InCall, Holds, EmptyIsCurrent, LeaderSlot, OneClears,
       SlotsDiffer, EmptyUncached, FullIsCleared, ReadsUncached, Leading

\* A claim gets the slot in the map, or one nobody refers to.
LEMMA SlotForFact ==
    ASSUME Types, NEW k \in Keys, inflight[k] # None \/ Unused # {}
    PROVE  /\ SlotFor(k) \in Slots
           /\ inflight[k] # None => SlotFor(k) = inflight[k]
           /\ inflight[k] = None => SlotFor(k) \in Unused
<1>1. CASE inflight[k] # None
  BY <1>1 DEF SlotFor, Types
<1>2. CASE inflight[k] = None
  <2>1. PICK u : u \in Unused
    BY <1>2
  <2>2. (CHOOSE s \in Unused : TRUE) \in Unused
    BY <2>1
  <2>. QED  BY <1>2, <2>2 DEF SlotFor, Unused
<1>. QED  BY <1>1, <1>2

\* Every step of every caller keeps the invariant.
LEMMA NextIInv == IInv /\ [Next]_vars => IInv'
<1>. SUFFICES ASSUME IInv, [Next]_vars
              PROVE  IInv'
  OBVIOUS
<1>. USE ConstantsAssumption
<1>u. CASE UNCHANGED vars
  BY <1>u DEF vars, IInv, Types, InCall, Holds, EmptyIsCurrent, LeaderSlot, OneClears,
              SlotsDiffer, EmptyUncached, FullIsCleared, ReadsUncached, Leading
<1>1. ASSUME NEW c \in Callers, NEW k \in Keys, Claim(c, k)
      PROVE  IInv'
  <2>. DEFINE s == SlotFor(k)
  <2>. s \in Slots /\ (inflight[k] # None => s = inflight[k]) /\ (inflight[k] = None => s \in Unused)
    BY <1>1, SlotForFact DEF IInv, Claim
  <2>. pc[c] = "idle" /\ k \notin entries
    BY <1>1 DEF Claim
  <2>. inflight' = [inflight EXCEPT ![k] = s]
    BY <1>1 DEF Claim
  <2>. result' = IF inflight[k] # None THEN result ELSE [result EXCEPT ![s] = "none"]
    BY <1>1 DEF Claim
  <2>. slot' = [slot EXCEPT ![c] = s] /\ key' = [key EXCEPT ![c] = k] /\ pc' = [pc EXCEPT ![c] = "waiting"]
    BY <1>1 DEF Claim, Goto
  <2>. UNCHANGED <<entries, holder>>
    BY <1>1 DEF Claim
  <2>. HIDE DEF s
  <2>1. Types'
    BY DEF IInv, Types, InCall, Unused, Places
  <2>2. InCall'
    BY DEF IInv, Types, InCall, Unused
  <2>3. Holds'
    BY DEF IInv, Types, InCall, Holds, Leading, Unused
  <2>4. EmptyIsCurrent'
    BY DEF IInv, Types, InCall, EmptyIsCurrent, LeaderSlot, Leading, Unused
  <2>5. LeaderSlot'
    BY DEF IInv, Types, InCall, Holds, EmptyIsCurrent, LeaderSlot, OneClears, Leading, Unused
  <2>6. OneClears'
    BY DEF IInv, Types, InCall, LeaderSlot, OneClears, Leading, Unused
  <2>7. SlotsDiffer'
    BY DEF IInv, Types, InCall, SlotsDiffer, Unused
  <2>8. EmptyUncached'
    BY DEF IInv, Types, InCall, Holds, EmptyIsCurrent, LeaderSlot, EmptyUncached, Leading, Unused
  <2>9. FullIsCleared'
    BY DEF IInv, Types, InCall, LeaderSlot, SlotsDiffer, FullIsCleared, Leading, Unused
  <2>10. ReadsUncached'
    BY DEF IInv, Types, InCall, Holds, EmptyIsCurrent, LeaderSlot, EmptyUncached, ReadsUncached, Leading, Unused
  <2>. QED  BY <2>1, <2>2, <2>3, <2>4, <2>5, <2>6, <2>7, <2>8, <2>9, <2>10 DEF IInv
<1>2. ASSUME NEW c \in Callers, NEW k \in Keys, cache_get(c, k)
      PROVE  IInv'
  <2>1. Types'
    BY <1>2 DEF cache_get, IInv, Types, InCall, Places
  <2>2. InCall'
    BY <1>2 DEF cache_get, IInv, Types, InCall
  <2>3. Holds'
    BY <1>2 DEF cache_get, IInv, Types, InCall, Holds, Leading
  <2>4. EmptyIsCurrent'
    BY <1>2 DEF cache_get, IInv, Types, InCall, EmptyIsCurrent, LeaderSlot, Leading
  <2>5. LeaderSlot'
    BY <1>2 DEF cache_get, IInv, Types, InCall, Holds, EmptyIsCurrent, LeaderSlot, OneClears, Leading
  <2>6. OneClears'
    BY <1>2 DEF cache_get, IInv, Types, InCall, LeaderSlot, OneClears, Leading
  <2>7. SlotsDiffer'
    BY <1>2 DEF cache_get, IInv, Types, InCall, SlotsDiffer
  <2>8. EmptyUncached'
    BY <1>2 DEF cache_get, IInv, Types, InCall, Holds, EmptyIsCurrent, LeaderSlot, EmptyUncached, Leading
  <2>9. FullIsCleared'
    BY <1>2 DEF cache_get, IInv, Types, InCall, LeaderSlot, SlotsDiffer, FullIsCleared, Leading
  <2>10. ReadsUncached'
    BY <1>2 DEF cache_get, IInv, Types, InCall, Holds, EmptyIsCurrent, LeaderSlot, EmptyUncached, ReadsUncached, Leading
  <2>. QED  BY <2>1, <2>2, <2>3, <2>4, <2>5, <2>6, <2>7, <2>8, <2>9, <2>10 DEF IInv
<1>3. ASSUME NEW c \in Callers, LockSlot(c)
      PROVE  IInv'
  <2>1. Types'
    BY <1>3 DEF LockSlot, IInv, Types, InCall, Goto, Places
  <2>2. InCall'
    BY <1>3 DEF LockSlot, IInv, Types, InCall, Goto
  <2>3. Holds'
    BY <1>3 DEF LockSlot, IInv, Types, InCall, Holds, Leading, Goto
  <2>4. EmptyIsCurrent'
    BY <1>3 DEF LockSlot, IInv, Types, InCall, EmptyIsCurrent, LeaderSlot, Leading, Goto
  <2>5. LeaderSlot'
    BY <1>3 DEF LockSlot, IInv, Types, InCall, Holds, EmptyIsCurrent, LeaderSlot, OneClears, Leading, Goto
  <2>6. OneClears'
    BY <1>3 DEF LockSlot, IInv, Types, InCall, LeaderSlot, OneClears, Leading, Goto
  <2>7. SlotsDiffer'
    BY <1>3 DEF LockSlot, IInv, Types, InCall, SlotsDiffer, Goto
  <2>8. EmptyUncached'
    BY <1>3 DEF LockSlot, IInv, Types, InCall, Holds, EmptyIsCurrent, LeaderSlot, EmptyUncached, Leading, Goto
  <2>9. FullIsCleared'
    BY <1>3 DEF LockSlot, IInv, Types, InCall, LeaderSlot, SlotsDiffer, FullIsCleared, Leading, Goto
  <2>10. ReadsUncached'
    BY <1>3 DEF LockSlot, IInv, Types, InCall, Holds, EmptyIsCurrent, LeaderSlot, EmptyUncached, ReadsUncached, Leading, Goto
  <2>. QED  BY <2>1, <2>2, <2>3, <2>4, <2>5, <2>6, <2>7, <2>8, <2>9, <2>10 DEF IInv
<1>4. ASSUME NEW c \in Callers, Coalesce(c)
      PROVE  IInv'
  <2>1. Types'
    BY <1>4 DEF Coalesce, IInv, Types, InCall, Return, Goto, Places
  <2>2. InCall'
    BY <1>4 DEF Coalesce, IInv, Types, InCall, Return, Goto
  <2>3. Holds'
    BY <1>4 DEF Coalesce, IInv, Types, InCall, Holds, Leading, Return, Goto
  <2>4. EmptyIsCurrent'
    BY <1>4 DEF Coalesce, IInv, Types, InCall, EmptyIsCurrent, LeaderSlot, Leading, Return, Goto
  <2>5. LeaderSlot'
    BY <1>4 DEF Coalesce, IInv, Types, InCall, Holds, EmptyIsCurrent, LeaderSlot, OneClears, Leading, Return, Goto
  <2>6. OneClears'
    BY <1>4 DEF Coalesce, IInv, Types, InCall, LeaderSlot, OneClears, Leading, Return, Goto
  <2>7. SlotsDiffer'
    BY <1>4 DEF Coalesce, IInv, Types, InCall, SlotsDiffer, Return, Goto
  <2>8. EmptyUncached'
    BY <1>4 DEF Coalesce, IInv, Types, InCall, Holds, EmptyIsCurrent, LeaderSlot, EmptyUncached, Leading, Return, Goto
  <2>9. FullIsCleared'
    BY <1>4 DEF Coalesce, IInv, Types, InCall, LeaderSlot, SlotsDiffer, FullIsCleared, Leading, Return, Goto
  <2>10. ReadsUncached'
    BY <1>4 DEF Coalesce, IInv, Types, InCall, Holds, EmptyIsCurrent, LeaderSlot, EmptyUncached, ReadsUncached, Leading, Return, Goto
  <2>. QED  BY <2>1, <2>2, <2>3, <2>4, <2>5, <2>6, <2>7, <2>8, <2>9, <2>10 DEF IInv
<1>5. ASSUME NEW c \in Callers, Fail(c)
      PROVE  IInv'
  <2>1. Types'
    BY <1>5 DEF Fail, IInv, Types, InCall, Goto, Places
  <2>2. InCall'
    BY <1>5 DEF Fail, IInv, Types, InCall, Goto
  <2>3. Holds'
    BY <1>5 DEF Fail, IInv, Types, InCall, Holds, Leading, Goto
  <2>4. EmptyIsCurrent'
    BY <1>5 DEF Fail, IInv, Types, InCall, EmptyIsCurrent, LeaderSlot, Leading, Goto
  <2>5. LeaderSlot'
    BY <1>5 DEF Fail, IInv, Types, InCall, Holds, EmptyIsCurrent, LeaderSlot, OneClears, Leading, Goto
  <2>6. OneClears'
    BY <1>5 DEF Fail, IInv, Types, InCall, LeaderSlot, OneClears, Leading, Goto
  <2>7. SlotsDiffer'
    BY <1>5 DEF Fail, IInv, Types, InCall, SlotsDiffer, Goto
  <2>8. EmptyUncached'
    BY <1>5 DEF Fail, IInv, Types, InCall, Holds, EmptyIsCurrent, LeaderSlot, EmptyUncached, Leading, Goto
  <2>9. FullIsCleared'
    BY <1>5 DEF Fail, IInv, Types, InCall, LeaderSlot, SlotsDiffer, FullIsCleared, Leading, Goto
  <2>10. ReadsUncached'
    BY <1>5 DEF Fail, IInv, Types, InCall, Holds, EmptyIsCurrent, LeaderSlot, EmptyUncached, ReadsUncached, Leading, Goto
  <2>. QED  BY <2>1, <2>2, <2>3, <2>4, <2>5, <2>6, <2>7, <2>8, <2>9, <2>10 DEF IInv
<1>6. ASSUME NEW c \in Callers, Panic(c)
      PROVE  IInv'
  <2>1. Types'
    BY <1>6 DEF Panic, IInv, Types, InCall, Return, Goto, Places
  <2>2. InCall'
    BY <1>6 DEF Panic, IInv, Types, InCall, Return, Goto
  <2>3. Holds'
    BY <1>6 DEF Panic, IInv, Types, InCall, Holds, Leading, Return, Goto
  <2>4. EmptyIsCurrent'
    BY <1>6 DEF Panic, IInv, Types, InCall, EmptyIsCurrent, LeaderSlot, Leading, Return, Goto
  <2>5. LeaderSlot'
    BY <1>6 DEF Panic, IInv, Types, InCall, Holds, EmptyIsCurrent, LeaderSlot, OneClears, Leading, Return, Goto
  <2>6. OneClears'
    BY <1>6 DEF Panic, IInv, Types, InCall, LeaderSlot, OneClears, Leading, Return, Goto
  <2>7. SlotsDiffer'
    BY <1>6 DEF Panic, IInv, Types, InCall, SlotsDiffer, Return, Goto
  <2>8. EmptyUncached'
    BY <1>6 DEF Panic, IInv, Types, InCall, Holds, EmptyIsCurrent, LeaderSlot, EmptyUncached, Leading, Return, Goto
  <2>9. FullIsCleared'
    BY <1>6 DEF Panic, IInv, Types, InCall, LeaderSlot, SlotsDiffer, FullIsCleared, Leading, Return, Goto
  <2>10. ReadsUncached'
    BY <1>6 DEF Panic, IInv, Types, InCall, Holds, EmptyIsCurrent, LeaderSlot, EmptyUncached, ReadsUncached, Leading, Return, Goto
  <2>. QED  BY <2>1, <2>2, <2>3, <2>4, <2>5, <2>6, <2>7, <2>8, <2>9, <2>10 DEF IInv
<1>7. ASSUME NEW c \in Callers, insert(c)
      PROVE  IInv'
  <2>1. Types'
    BY <1>7 DEF insert, IInv, Types, InCall, Goto, Places
  <2>2. InCall'
    BY <1>7 DEF insert, IInv, Types, InCall, Goto
  <2>3. Holds'
    BY <1>7 DEF insert, IInv, Types, InCall, Holds, Leading, Goto
  <2>4. EmptyIsCurrent'
    BY <1>7 DEF insert, IInv, Types, InCall, EmptyIsCurrent, LeaderSlot, Leading, Goto
  <2>5. LeaderSlot'
    BY <1>7 DEF insert, IInv, Types, InCall, Holds, EmptyIsCurrent, LeaderSlot, OneClears, Leading, Goto
  <2>6. OneClears'
    BY <1>7 DEF insert, IInv, Types, InCall, LeaderSlot, OneClears, Leading, Goto
  <2>7. SlotsDiffer'
    BY <1>7 DEF insert, IInv, Types, InCall, SlotsDiffer, Goto
  <2>8. EmptyUncached'
    BY <1>7 DEF insert, IInv, Types, InCall, Holds, EmptyIsCurrent, LeaderSlot, EmptyUncached, Leading, Goto
  <2>9. FullIsCleared'
    BY <1>7 DEF insert, IInv, Types, InCall, LeaderSlot, SlotsDiffer, FullIsCleared, Leading, Goto
  <2>10. ReadsUncached'
    BY <1>7 DEF insert, IInv, Types, InCall, Holds, EmptyIsCurrent, LeaderSlot, EmptyUncached, ReadsUncached, Leading, Goto
  <2>. QED  BY <2>1, <2>2, <2>3, <2>4, <2>5, <2>6, <2>7, <2>8, <2>9, <2>10 DEF IInv
<1>8. ASSUME NEW c \in Callers, Store(c)
      PROVE  IInv'
  <2>1. Types'
    BY <1>8 DEF Store, IInv, Types, InCall, Goto, Places
  <2>2. InCall'
    BY <1>8 DEF Store, IInv, Types, InCall, Goto
  <2>3. Holds'
    BY <1>8 DEF Store, IInv, Types, InCall, Holds, Leading, Goto
  <2>4. EmptyIsCurrent'
    BY <1>8 DEF Store, IInv, Types, InCall, EmptyIsCurrent, LeaderSlot, Leading, Goto
  <2>5. LeaderSlot'
    BY <1>8 DEF Store, IInv, Types, InCall, Holds, EmptyIsCurrent, LeaderSlot, OneClears, Leading, Goto
  <2>6. OneClears'
    BY <1>8 DEF Store, IInv, Types, InCall, LeaderSlot, OneClears, Leading, Goto
  <2>7. SlotsDiffer'
    BY <1>8 DEF Store, IInv, Types, InCall, SlotsDiffer, Goto
  <2>8. EmptyUncached'
    BY <1>8 DEF Store, IInv, Types, InCall, Holds, EmptyIsCurrent, LeaderSlot, EmptyUncached, Leading, Goto
  <2>9. FullIsCleared'
    BY <1>8 DEF Store, IInv, Types, InCall, LeaderSlot, SlotsDiffer, FullIsCleared, Leading, Goto
  <2>10. ReadsUncached'
    BY <1>8 DEF Store, IInv, Types, InCall, Holds, EmptyIsCurrent, LeaderSlot, EmptyUncached, ReadsUncached, Leading, Goto
  <2>. QED  BY <2>1, <2>2, <2>3, <2>4, <2>5, <2>6, <2>7, <2>8, <2>9, <2>10 DEF IInv
<1>9. ASSUME NEW c \in Callers, Clear(c)
      PROVE  IInv'
  <2>1. Types'
    BY <1>9 DEF Clear, IInv, Types, InCall, Return, Goto, Places
  <2>2. InCall'
    BY <1>9 DEF Clear, IInv, Types, InCall, Return, Goto
  <2>3. Holds'
    BY <1>9 DEF Clear, IInv, Types, InCall, Holds, Leading, Return, Goto
  <2>4. EmptyIsCurrent'
    BY <1>9 DEF Clear, IInv, Types, InCall, EmptyIsCurrent, LeaderSlot, Leading, Return, Goto
  <2>5. LeaderSlot'
    BY <1>9 DEF Clear, IInv, Types, InCall, Holds, EmptyIsCurrent, LeaderSlot, OneClears, Leading, Return, Goto
  <2>6. OneClears'
    BY <1>9 DEF Clear, IInv, Types, InCall, LeaderSlot, OneClears, Leading, Return, Goto
  <2>7. SlotsDiffer'
    BY <1>9 DEF Clear, IInv, Types, InCall, SlotsDiffer, Return, Goto
  <2>8. EmptyUncached'
    BY <1>9 DEF Clear, IInv, Types, InCall, Holds, EmptyIsCurrent, LeaderSlot, EmptyUncached, Leading, Return, Goto
  <2>9. FullIsCleared'
    BY <1>9 DEF Clear, IInv, Types, InCall, LeaderSlot, SlotsDiffer, FullIsCleared, Leading, Return, Goto
  <2>10. ReadsUncached'
    BY <1>9 DEF Clear, IInv, Types, InCall, Holds, EmptyIsCurrent, LeaderSlot, EmptyUncached, ReadsUncached, Leading, Return, Goto
  <2>. QED  BY <2>1, <2>2, <2>3, <2>4, <2>5, <2>6, <2>7, <2>8, <2>9, <2>10 DEF IInv
<1>. QED  BY <1>u, <1>1, <1>2, <1>3, <1>4, <1>5, <1>6, <1>7, <1>8, <1>9 DEF Next, Step

LEMMA IInvHolds == Spec => []IInv
<1>. QED  BY InitIInv, NextIInv, PTL DEF Spec

\* Whatever the number of threads, one of them at a time hydrates a contract,
\* and none reads the file of a contract that is in the cache (hydrate: the
\* cache check and the claim under one lock, the read under the slot's).
THEOREM OneLeader == Spec => []NoSecondLeader
<1>1. IInv => NoSecondLeader
  <2>. SUFFICES ASSUME IInv, NEW c \in Callers, NEW d \in Callers,
                       Leading(c), Leading(d), key[c] = key[d]
                PROVE  c = d
    BY DEF IInv, ReadsUncached, NoSecondLeader
  <2>1. inflight[key[c]] = slot[c] /\ inflight[key[d]] = slot[d]
    BY DEF IInv, EmptyIsCurrent, LeaderSlot, Leading
  <2>. QED  BY <2>1 DEF IInv, Holds
<1>. QED  BY <1>1, IInvHolds, PTL

\* Between calls the in-flight map holds no result (hydrate, the removal after
\* the store): an error is never handed to a caller that came after it.
THEOREM ResultsDoNotOutliveCalls == Spec => []NoStaleSlot
<1>1. IInv => NoStaleSlot
  BY DEF IInv, FullIsCleared, NoStaleSlot
<1>. QED  BY <1>1, IInvHolds, PTL

=============================================================================
