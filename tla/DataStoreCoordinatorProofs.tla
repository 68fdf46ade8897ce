--------------------- MODULE DataStoreCoordinatorProofs ---------------------
(***************************************************************************)
(* Proofs that the data store's lease is exclusive and that stale handles  *)
(* stay fenced, for any clients, owner names and generation limit.         *)
(***************************************************************************)
EXTENDS DataStoreCoordinator, TLAPS

LEMMA InitIInv == Init => IInv
<1> SUFFICES ASSUME Init PROVE IInv
  OBVIOUS
<1>1. /\ generation \in 0..MaxGeneration
      /\ owner \in Owners \cup {NoOwner}
      /\ lease \in [Clients -> 0..MaxGeneration]
  BY CoordinatorAssumption DEF Init
<1>2. poisoned \in BOOLEAN
  BY DEF Init
<1>3. LeasesDistinct /\ LeasesIssued
  BY DEF Init, LeasesDistinct, LeasesIssued
<1> QED BY <1>1, <1>2, <1>3 DEF IInv, TypeOK

LEMMA NextIInv == IInv /\ [Next]_vars => IInv'
<1> SUFFICES ASSUME IInv, [Next]_vars PROVE IInv'
  OBVIOUS
<1> USE CoordinatorAssumption DEF IInv, TypeOK, LeasesDistinct, LeasesIssued
<1>1. ASSUME NEW c \in Clients, acquire(c) PROVE IInv'
  BY <1>1 DEF acquire
<1>2. ASSUME NEW c \in Clients, release(c) PROVE IInv'
  BY <1>2 DEF release
<1>3. ASSUME NEW c \in Clients, Refused(c) PROVE IInv'
  BY <1>3 DEF Refused, vars
<1>4. CASE Poison
  BY <1>4 DEF Poison
<1>5. CASE UNCHANGED vars
  BY <1>5 DEF vars
<1> QED BY <1>1, <1>2, <1>3, <1>4, <1>5 DEF Next

(* The inductive invariant holds in every reachable state.                 *)
THEOREM IInvInvariant == Spec => []IInv
BY InitIInv, NextIInv, PTL DEF Spec

(* Exclusive writer lease: two handles validate accepts belong to one      *)
(* client, whatever names the clients present.                             *)
THEOREM SingleHolderInvariant == Spec => []SingleHolder
<1>1. IInv => SingleHolder
  BY DEF IInv, LeasesDistinct, SingleHolder, Holds, validate
<1> QED BY <1>1, IInvInvariant, PTL

(* A refused handle stays refused.                                         *)
THEOREM FencedForEverHolds == Spec => FencedForEver
<1> DEFINE Fenced == \A c \in Clients :
       lease[c] # 0 /\ lease'[c] = lease[c] /\ ~Holds(c) => ~Holds(c)'
<1>1. IInv /\ [Next]_vars => [Fenced]_vars
  <2> SUFFICES ASSUME IInv, Next PROVE Fenced
    BY DEF vars
  <2> USE CoordinatorAssumption DEF IInv, TypeOK, LeasesIssued, Holds, validate
  <2>1. ASSUME NEW c \in Clients, acquire(c) PROVE Fenced
    BY <2>1 DEF acquire
  <2>2. ASSUME NEW c \in Clients, release(c) PROVE Fenced
    BY <2>2 DEF release
  <2>3. ASSUME NEW c \in Clients, Refused(c) PROVE Fenced
    BY <2>3 DEF Refused, vars
  <2>4. CASE Poison
    BY <2>4 DEF Poison
  <2> QED BY <2>1, <2>2, <2>3, <2>4 DEF Next
<1> QED BY <1>1, IInvInvariant, PTL DEF Spec, FencedForEver

=============================================================================
