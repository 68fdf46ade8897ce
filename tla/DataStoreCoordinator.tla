------------------------ MODULE DataStoreCoordinator ------------------------
(***************************************************************************)
(* The fenced single-writer lease of the data store                        *)
(* (crates/traverse-runtime/src/data_store_coordinator.rs).                *)
(*                                                                         *)
(* Clients share one coordinator through clones of its Arc<Mutex<State>>;  *)
(* every method runs under the mutex and is one action.  A client presents *)
(* an owner name, and several clients may present the same one, so the     *)
(* generation is all that tells their leases apart.  `lease' is what each  *)
(* client remembers: the generation its last acquire returned, kept after  *)
(* release, so that stale handles are presented too.                       *)
(***************************************************************************)
EXTENDS Naturals

CONSTANTS
  Clients,
  Owners,         \* owner names
  NoOwner,        \* State::owner is None
  OwnerOf,        \* the name each client presents
  MaxGeneration   \* u64::MAX, where checked_add fails

ASSUME CoordinatorAssumption ==
  /\ NoOwner \notin Owners
  /\ OwnerOf \in [Clients -> Owners]
  /\ MaxGeneration \in Nat

VARIABLES
  generation, owner,  \* State
  poisoned,           \* a thread panicked while it held the mutex
  lease               \* [client -> generation it believes it holds, or 0]

vars == <<generation, owner, poisoned, lease>>

(* Mutant: only the owner's name is compared.                              *)
validateNameOnly(name, gen) == ~poisoned /\ owner = name

(* What validate accepts, whoever presents the handle.                     *)
validate(name, gen) == ~poisoned /\ owner = name /\ generation = gen

Holds(c) == lease[c] # 0 /\ validate(OwnerOf[c], lease[c])

-----------------------------------------------------------------------------
Init ==
  /\ generation = 0 /\ owner = NoOwner
  /\ poisoned = FALSE
  /\ lease = [c \in Clients |-> 0]

acquire(c) ==
  /\ ~poisoned
  /\ owner = NoOwner
  /\ generation < MaxGeneration
  /\ generation' = generation + 1
  /\ owner' = OwnerOf[c]
  /\ lease' = [lease EXCEPT ![c] = generation + 1]
  /\ UNCHANGED poisoned

(* Mutant: release starts the generations over.                            *)
releaseResets(c) ==
  /\ lease[c] # 0
  /\ validate(OwnerOf[c], lease[c])
  /\ owner' = NoOwner
  /\ generation' = 0
  /\ UNCHANGED <<poisoned, lease>>

(* Any client may present any generation it was ever given, so release is  *)
(* guarded only by what the code compares.                                 *)
release(c) ==
  /\ lease[c] # 0
  /\ validate(OwnerOf[c], lease[c])
  /\ owner' = NoOwner
  /\ UNCHANGED <<generation, poisoned, lease>>

(* OwnerLocked and CoordinatorUnavailable change nothing.                  *)
Refused(c) ==
  /\ \/ poisoned
     \/ owner # NoOwner
     \/ generation = MaxGeneration
     \/ ~validate(OwnerOf[c], lease[c])
  /\ UNCHANGED vars

Poison == poisoned' = TRUE /\ UNCHANGED <<generation, owner, lease>>

Next ==
  \/ \E c \in Clients : acquire(c) \/ release(c) \/ Refused(c)
  \/ Poison

Spec == Init /\ [][Next]_vars

-----------------------------------------------------------------------------
TypeOK ==
  /\ generation \in 0..MaxGeneration
  /\ owner \in Owners \cup {NoOwner}
  /\ poisoned \in BOOLEAN
  /\ lease \in [Clients -> 0..MaxGeneration]

(* Spec 093, one fenced writer: no two clients hold handles that validate  *)
(* accepts, even when they present the same owner name.                    *)
SingleHolder ==
  \A c, d \in Clients : Holds(c) /\ Holds(d) => c = d

(* A handle validate once refused is refused for ever: a writer that lost  *)
(* the lease cannot come back into it without acquiring again.             *)
FencedForEver ==
  [][\A c \in Clients :
       lease[c] # 0 /\ lease'[c] = lease[c] /\ ~Holds(c) => ~Holds(c)']_vars

(* Why: generations are handed out once, and never above the counter; the  *)
(* owner is set exactly while the handle with the current generation is    *)
(* somebody's.                                                             *)
LeasesDistinct ==
  \A c, d \in Clients : lease[c] = lease[d] /\ lease[c] # 0 => c = d

LeasesIssued == \A c \in Clients : lease[c] <= generation

IInv == TypeOK /\ LeasesDistinct /\ LeasesIssued

=============================================================================
