----------------------- MODULE ProposalExecutionProofs -----------------------
(***************************************************************************)
(* The quota tracker counts exactly the calls that own a slot, for any     *)
(* number of concurrent calls, any requests, proposals and limits.         *)
(*                                                                         *)
(* QuotaExact is not inductive: a reservation takes the dimension that the *)
(* number of its slots names, which is a free one only because a call that *)
(* is reserving holds the dimensions in their order.                       *)
(***************************************************************************)
EXTENDS ProposalExecution, FiniteSetTheorems, TLAPS

Dims == {"principal", "app", "workspace"}

Places == {"validate", "verify", "record_use", "reserve", "step", "batch", "join", "release", "done"}

Early == {"validate", "verify", "record_use"}

\* What a call may hold when it asks for its next slot.
HeldPrefixes == {{}, {"principal"}, {"principal", "app"}}

QuotaInv ==
  /\ pc \in [Calls -> Places]
  /\ held \in [Calls -> SUBSET Dims]
  /\ slots \in [Dims -> [Keys -> Nat]]
  /\ \A c \in Calls : pc[c] \in Early => held[c] = {}
  /\ \A c \in Calls : pc[c] = "reserve" => held[c] \in HeldPrefixes
  /\ QuotaExact

\* The tracker has the three dimensions of QuotaTracker.
LEMMA DimsFact == ToSet(Dimensions) = Dims /\ DOMAIN Dimensions = 1..3
BY DEF ToSet, Dimensions, Dims

\* The dimension a reservation is at is one the call does not hold, and the
\* next in their order.
LEMMA NextDimensionFree ==
  ASSUME NEW c \in Calls, held[c] \in HeldPrefixes
  PROVE  /\ NextDimension(c) \in Dims \ held[c]
         /\ Cardinality(held[c]) # 2 => held[c] \cup {NextDimension(c)} \in HeldPrefixes
<1>1. Cardinality({}) = 0 /\ IsFiniteSet({})
  BY FS_EmptySet
<1>2. Cardinality({"principal"}) = 1 /\ IsFiniteSet({"principal"})
  BY FS_Singleton
<1>3. Cardinality({"principal"} \cup {"app"}) = 2
  <2>1. "app" \notin {"principal"}
    OBVIOUS
  <2>2. Cardinality({"principal"} \cup {"app"}) =
          IF "app" \in {"principal"} THEN Cardinality({"principal"}) ELSE Cardinality({"principal"}) + 1
    BY <1>2, FS_AddElement, Zenon
  <2>. QED  BY <1>2, <2>1, <2>2
<1>4. {"principal"} \cup {"app"} = {"principal", "app"}
  OBVIOUS
<1>5. CASE held[c] = {}
  BY <1>1, <1>5 DEF NextDimension, Dimensions, Dims, HeldPrefixes
<1>6. CASE held[c] = {"principal"}
  BY <1>2, <1>6 DEF NextDimension, Dimensions, Dims, HeldPrefixes
<1>7. CASE held[c] = {"principal", "app"}
  <2>1. Cardinality(held[c]) = 2
    BY <1>3, <1>4, <1>7
  <2>. QED  BY <2>1, <1>7 DEF NextDimension, Dimensions, Dims, HeldPrefixes
<1>. QED  BY <1>5, <1>6, <1>7 DEF HeldPrefixes

\* The dimension a release is at is one the call holds.
LEMMA ReleasedDimensionHeld ==
  ASSUME NEW c \in Calls, held[c] \in SUBSET Dims, held[c] # {}
  PROVE  Dimensions[Min({i \in 1..3 : Dimensions[i] \in held[c]})] \in held[c]
<1>. DEFINE S == {i \in 1..3 : Dimensions[i] \in held[c]}
<1>1. S \in SUBSET (1..3) /\ S # {}
  BY DEF Dims, Dimensions
<1>2. \E x \in S : \A y \in S : x =< y
  <2>1. CASE 1 \in S
    BY <2>1, <1>1
  <2>2. CASE 1 \notin S /\ 2 \in S
    BY <2>2, <1>1
  <2>3. CASE 1 \notin S /\ 2 \notin S
    BY <2>3, <1>1
  <2>. QED  BY <2>1, <2>2, <2>3
<1>3. Min(S) \in S
  <2>. HIDE DEF S
  <2>. QED  BY <1>2 DEF Min
<1>. QED  BY <1>3

\* The calls that own a slot are finitely many.
LEMMA HoldersFinite ==
  \A d, k : IsFiniteSet(Holders(d, k)) /\ Cardinality(Holders(d, k)) \in Nat
BY QuotaAssumption, FS_Subset, FS_CardinalityType DEF Holders

-----------------------------------------------------------------------------

\* A step that touches neither slots nor reservations, and does not send a
\* call back to where it may reserve.
Moves ==
  /\ UNCHANGED <<request, held, slots>>
  /\ pc' \in [Calls -> Places]
  /\ \A c \in Calls : pc'[c] \in Early \cup {"reserve"} => pc[c] = pc'[c] \/ pc[c] \in Early

\* Such a step keeps the invariant.
LEMMA MovesKeepsInv ==
  ASSUME QuotaInv, Moves
  PROVE  QuotaInv'
<1>1. Keys' = Keys /\ request' = request /\ held' = held /\ slots' = slots
  BY DEF Moves, Keys
<1>2. \A d, k : Holders(d, k)' = Holders(d, k)
  BY <1>1 DEF Holders
<1>3. QuotaExact'
  BY <1>1, <1>2 DEF QuotaInv, QuotaExact
<1>. QED  BY <1>1, <1>3 DEF QuotaInv, Moves, Places, Early, HeldPrefixes

\* All the steps of a call but reserve and release are such steps.
LEMMA OthersMove ==
  ASSUME QuotaInv, NEW c \in Calls, CallStep(c), ~reserve(c), ~release(c)
  PROVE  Moves
<1>. pc \in [Calls -> Places]
  BY DEF QuotaInv
<1>1. CASE Validate(c)
  <2>1. /\ UNCHANGED <<request, held, slots>> /\ pc[c] = "validate"
        /\ \E w \in {"done", "reserve", "verify"} : pc' = [pc EXCEPT ![c] = w]
    BY <1>1 DEF Validate, Answer, Go, shared
  <2>. QED  BY <2>1 DEF Moves, Places, Early
<1>2. CASE VerifyToken(c)
  <2>1. /\ UNCHANGED <<request, held, slots>> /\ pc[c] = "verify"
        /\ \E w \in {"done", "record_use"} : pc' = [pc EXCEPT ![c] = w]
    BY <1>2 DEF VerifyToken, Answer, Go, shared
  <2>. QED  BY <2>1 DEF Moves, Places, Early
<1>3. CASE check_and_record_use(c)
  <2>1. /\ UNCHANGED <<request, held, slots>> /\ pc[c] = "record_use"
        /\ \E w \in {"done", "reserve"} : pc' = [pc EXCEPT ![c] = w]
    BY <1>3 DEF check_and_record_use, Answer, Go
  <2>. QED  BY <2>1 DEF Moves, Places, Early
<1>4. CASE StartStep(c)
  BY <1>4 DEF StartStep, Go, Moves, Places, Early, shared
<1>5. CASE SkipStep(c)
  BY <1>5 DEF SkipStep, Moves, Places, Early, shared
<1>6. CASE Dispatch(c)
  BY <1>6 DEF Dispatch, Go, Moves, Places, Early, shared
<1>7. CASE JoinBatch(c)
  <2>1. /\ UNCHANGED <<request, held, slots>>
        /\ \E w \in {"step", "batch"} : pc' = [pc EXCEPT ![c] = w]
    BY <1>7 DEF JoinBatch, Go, shared
  <2>. QED  BY <2>1 DEF Moves, Places, Early
<1>8. CASE Finish(c)
  BY <1>8 DEF Finish, Go, Moves, Places, Early, shared
<1>9. CASE \E n \in NodeIds(P(c)), result \in {"succeeded", "failed"} : NodeReturns(c, n, result)
  BY <1>9 DEF NodeReturns, Moves, Places, Early, shared
<1>10. CASE Panic(c)
  BY <1>10 DEF Panic, Go, Moves, Places, Early, shared
<1>. QED  BY <1>1, <1>2, <1>3, <1>4, <1>5, <1>6, <1>7, <1>8, <1>9, <1>10 DEF CallStep

\* Taking or giving back one slot changes the count by the call itself.
LEMMA ReserveKeepsInv ==
  ASSUME QuotaInv, NEW c \in Calls, reserve(c)
  PROVE  QuotaInv'
<1>0. PICK d, k : d = NextDimension(c) /\ k = request[c].keys[d]
  OBVIOUS
<1>1. held[c] \in HeldPrefixes /\ pc[c] = "reserve" /\ request' = request
  BY DEF QuotaInv, reserve
<1>2. d \in Dims /\ d \notin held[c]
  BY <1>0, <1>1, NextDimensionFree
<1>3. k \in Keys /\ Keys' = Keys
  BY <1>0, <1>1, <1>2, DimsFact DEF Keys
<1>4. CASE slots[d][k] >= Limit[d]
  <2>1. slots' = slots /\ held' = held /\ pc' = [pc EXCEPT ![c] = "release"]
    BY <1>0, <1>4 DEF reserve, Go
  <2>2. Moves
    BY <1>1, <2>1 DEF QuotaInv, Moves, Places, Early
  <2>. QED  BY <2>2, MovesKeepsInv
<1>5. CASE ~(slots[d][k] >= Limit[d])
  <2>1. /\ slots' = [slots EXCEPT ![d][k] = @ + 1]
        /\ held' = [held EXCEPT ![c] = @ \cup {d}]
        /\ pc' = [pc EXCEPT ![c] = IF Cardinality(held[c]) = 2 THEN "step" ELSE "reserve"]
    BY <1>0, <1>5 DEF reserve, Go
  <2>2. Holders(d, k)' = Holders(d, k) \cup {c} /\ c \notin Holders(d, k)
    BY <1>0, <1>1, <1>2, <2>1 DEF Holders, QuotaInv
  <2>3. \A e \in Dims, j \in Keys : <<e, j>> # <<d, k>> =>
          Holders(e, j)' = Holders(e, j) /\ slots'[e][j] = slots[e][j]
    BY <1>0, <1>1, <1>2, <1>3, <2>1 DEF Holders, QuotaInv
  <2>4. Cardinality(Holders(d, k)') = Cardinality(Holders(d, k)) + 1
    BY <2>2, HoldersFinite, FS_AddElement
  <2>5. slots'[d][k] = slots[d][k] + 1 /\ slots' \in [Dims -> [Keys -> Nat]]
    BY <1>2, <1>3, <2>1 DEF QuotaInv
  <2>6. slots[d][k] = Cardinality(Holders(d, k)) /\ slots[d][k] \in Nat /\ Limit[d] \in Nat
    BY <1>2, <1>3, DimsFact, QuotaAssumption DEF QuotaInv, QuotaExact
  <2>7. QuotaExact'
    <3>. SUFFICES ASSUME NEW e \in Dims, NEW j \in Keys
                  PROVE  slots'[e][j] = Cardinality(Holders(e, j)') /\ slots'[e][j] <= Limit[e]
      BY <1>3, DimsFact DEF QuotaExact
    <3>1. CASE <<e, j>> = <<d, k>>
      BY <3>1, <2>4, <2>5, <2>6, <1>5
    <3>2. CASE <<e, j>> # <<d, k>>
      BY <3>2, <2>3, DimsFact DEF QuotaInv, QuotaExact
    <3>. QED  BY <3>1, <3>2
  <2>8. pc'[c] = "reserve" => held'[c] \in HeldPrefixes
    BY <1>0, <1>1, <1>2, <2>1, NextDimensionFree DEF QuotaInv
  <2>9. held' \in [Calls -> SUBSET Dims] /\ pc' \in [Calls -> Places]
    BY <1>2, <2>1 DEF QuotaInv, Places
  <2>. QED  BY <1>3, <2>1, <2>5, <2>7, <2>8, <2>9 DEF QuotaInv, Early
<1>. QED  BY <1>4, <1>5

\* Giving a slot back takes the call, and nobody else, from the count.
LEMMA ReleaseKeepsInv ==
  ASSUME QuotaInv, NEW c \in Calls, release(c)
  PROVE  QuotaInv'
<1>1. CASE held[c] = {}
  <2>1. Moves
    BY <1>1 DEF release, Go, QuotaInv, Moves, Places, Early
  <2>. QED  BY <2>1, MovesKeepsInv
<1>2. CASE held[c] # {}
  <2>0. PICK d, k : /\ d = Dimensions[Min({i \in 1..3 : Dimensions[i] \in held[c]})]
                    /\ k = request[c].keys[d]
    OBVIOUS
  <2>1. /\ slots' = [slots EXCEPT ![d][k] = IF @ = 0 THEN 0 ELSE @ - 1]
        /\ held' = [held EXCEPT ![c] = @ \ {d}]
        /\ pc' = pc /\ pc[c] = "release" /\ request' = request
    BY <1>2, <2>0 DEF release
  <2>2. d \in held[c] /\ d \in Dims
    BY <1>2, <2>0, ReleasedDimensionHeld DEF QuotaInv
  <2>3. k \in Keys /\ Keys' = Keys
    <3>1. k = request[c].keys[d]
      BY <2>0
    <3>. QED  BY <3>1, <2>1, <2>2, DimsFact DEF Keys
  <2>4. Holders(d, k)' = Holders(d, k) \ {c} /\ c \in Holders(d, k)
    BY <2>0, <2>1, <2>2 DEF Holders, QuotaInv
  <2>5. \A e \in Dims, j \in Keys : <<e, j>> # <<d, k>> =>
          Holders(e, j)' = Holders(e, j) /\ slots'[e][j] = slots[e][j]
    BY <2>0, <2>1, <2>2, <2>3 DEF Holders, QuotaInv
  <2>6. Cardinality(Holders(d, k)') = Cardinality(Holders(d, k)) - 1
    BY <2>4, HoldersFinite, FS_RemoveElement
  <2>7. Cardinality(Holders(d, k)) # 0 /\ Cardinality(Holders(d, k)) \in Nat
    BY <2>4, HoldersFinite, FS_EmptySet
  <2>8. slots[d][k] = Cardinality(Holders(d, k)) /\ slots[d][k] <= Limit[d] /\ Limit[d] \in Nat
    BY <2>2, <2>3, DimsFact, QuotaAssumption DEF QuotaInv, QuotaExact
  <2>9. slots'[d][k] = slots[d][k] - 1 /\ slots' \in [Dims -> [Keys -> Nat]]
    <3>1. slots \in [Dims -> [Keys -> Nat]] /\ slots[d][k] # 0 /\ slots[d][k] \in Nat
      BY <2>7, <2>8 DEF QuotaInv
    <3>2. slots' = [slots EXCEPT ![d][k] = slots[d][k] - 1]
      BY <3>1, <2>1, <2>2, <2>3
    <3>3. slots[d][k] - 1 \in Nat
      BY <3>1
    <3>. QED  BY <3>1, <3>2, <3>3, <2>2, <2>3
  <2>10. QuotaExact'
    <3>. SUFFICES ASSUME NEW e \in Dims, NEW j \in Keys
                  PROVE  slots'[e][j] = Cardinality(Holders(e, j)') /\ slots'[e][j] <= Limit[e]
      BY <2>3, DimsFact DEF QuotaExact
    <3>1. CASE <<e, j>> = <<d, k>>
      BY <3>1, <2>6, <2>7, <2>8, <2>9
    <3>2. CASE <<e, j>> # <<d, k>>
      BY <3>2, <2>5, DimsFact DEF QuotaInv, QuotaExact
    <3>. QED  BY <3>1, <3>2
  <2>11. held' \in [Calls -> SUBSET Dims]
    BY <2>1 DEF QuotaInv
  <2>. QED  BY <2>1, <2>3, <2>9, <2>10, <2>11 DEF QuotaInv, Early
<1>. QED  BY <1>1, <1>2

-----------------------------------------------------------------------------

\* QuotaTracker is exact and within its limits for any number of calls,
\* however their reservations, rollbacks and releases interleave (reserve,
\* release, reserve_dimension, release_dimension).
THEOREM QuotaExactInvariant == Spec => []QuotaExact
<1>1. Init => QuotaInv
  <2>. SUFFICES ASSUME Init
                PROVE  QuotaInv
    OBVIOUS
  <2>1. \A d, k : Holders(d, k) = {}
    BY DEF Init, Holders
  <2>2. QuotaExact
    <3>. SUFFICES ASSUME NEW d \in Dims, NEW k \in Keys
                  PROVE  slots[d][k] = Cardinality(Holders(d, k)) /\ slots[d][k] <= Limit[d]
      BY DimsFact DEF QuotaExact
    <3>1. slots[d][k] = 0
      BY DimsFact DEF Init
    <3>2. Cardinality(Holders(d, k)) = 0
      BY <2>1, FS_EmptySet
    <3>. QED  BY <3>1, <3>2, DimsFact, QuotaAssumption
  <2>. QED  BY <2>2, DimsFact DEF Init, QuotaInv, Places, Early
<1>2. QuotaInv /\ [Next]_vars => QuotaInv'
  <2>. SUFFICES ASSUME QuotaInv, [Next]_vars
                PROVE  QuotaInv'
    OBVIOUS
  <2>1. ASSUME NEW c \in Calls, CallStep(c)
        PROVE  QuotaInv'
    BY <2>1, ReserveKeepsInv, ReleaseKeepsInv, OthersMove, MovesKeepsInv
  <2>2. ASSUME NEW t \in DOMAIN Tokens, revoke(t) \/ Expire(t)
        PROVE  QuotaInv'
    <3>1. Moves
      BY <2>2 DEF revoke, Expire, QuotaInv, Moves
    <3>. QED  BY <3>1, MovesKeepsInv
  <2>3. CASE UNCHANGED vars
    <3>1. Moves
      BY <2>3 DEF vars, QuotaInv, Moves
    <3>. QED  BY <3>1, MovesKeepsInv
  <2>. QED  BY <2>1, <2>2, <2>3 DEF Next
<1>3. QuotaInv => QuotaExact
  BY DEF QuotaInv
<1>. QED  BY <1>1, <1>2, <1>3, PTL DEF Spec
=============================================================================
