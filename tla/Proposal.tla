------------------------------ MODULE Proposal -------------------------------
(***************************************************************************)
(* Validation and scheduling of workflow proposals: the pure functions of  *)
(* crates/traverse-contracts/src/proposal.rs, and the host-state checks of *)
(* crates/traverse-runtime/src/proposal.rs and parallel_proposal.rs.       *)
(*                                                                         *)
(* A proposal is a record                                                  *)
(*   nodes      sequence of [id, cap, digest]; ids are numbers, so that    *)
(*              the lexicographic order of the code is <                   *)
(*   edges      sequence of <<from, to>>                                   *)
(*   mappings   sequence of [source, from, target, to]: path `from' of     *)
(*              node `source' (0: the initial input) into path `to'        *)
(*   well_formed  the literals and the non-empty strings are right         *)
(*   bytes      the size of the initial input                              *)
(* and Host the manifest and the registry: what they hold of a capability. *)
(***************************************************************************)
EXTENDS Integers, FiniteSets, Sequences, SequencesExt

CONSTANTS
  Host,              \* [capability -> its manifest and registry entries]
  ProposalLimits,    \* [nodes, edges, mappings, bytes]
  ScheduleLimits     \* [fan_out, join_width, queue_depth]

NodeIds(p) == {p.nodes[i].id : i \in DOMAIN p.nodes}
NodeOf(p, n) == p.nodes[CHOOSE i \in DOMAIN p.nodes : p.nodes[i].id = n]
Cap(p, n) == Host[NodeOf(p, n).cap]
Edges(p) == ToSet(p.edges)

-----------------------------------------------------------------------------
(* canonicalize_proposal.  An edge or mapping that fails a check is not    *)
(* considered by the ones after it.                                        *)
KnownEdges(p) ==
  {i \in DOMAIN p.edges : /\ p.edges[i][1] # p.edges[i][2]
                          /\ {p.edges[i][1], p.edges[i][2]} \subseteq NodeIds(p)}

SourceDeclared(p, m) == m.source = 0 \/ <<m.source, m.target>> \in Edges(p)

UsableMappings(p) ==
  {i \in DOMAIN p.mappings : /\ p.mappings[i].target \in NodeIds(p)
                             /\ p.mappings[i].source \in NodeIds(p) \cup {0}
                             /\ SourceDeclared(p, p.mappings[i])}

OverLimit(p) ==
  \/ Len(p.nodes) > ProposalLimits.nodes
  \/ Len(p.edges) > ProposalLimits.edges
  \/ Len(p.mappings) > ProposalLimits.mappings
  \/ p.bytes > ProposalLimits.bytes

StructurallyValid(p) ==
  /\ p.well_formed
  /\ ~OverLimit(p)
  /\ Cardinality(NodeIds(p)) = Len(p.nodes)                 \* DuplicateNodeId
  /\ KnownEdges(p) = DOMAIN p.edges           \* SelfLoopEdge, UnknownEdgeEndpoint
  /\ Cardinality(Edges(p)) = Len(p.edges)                     \* DuplicateEdge
  /\ UsableMappings(p) = DOMAIN p.mappings  \* UnknownMappingEndpoint, MissingDependencyEdge
  /\ \A i, j \in DOMAIN p.mappings :                \* AmbiguousMultiWriterTarget
       /\ p.mappings[i].target = p.mappings[j].target
       /\ p.mappings[i].to = p.mappings[j].to
       => i = j

(* in_degree, and remaining_in_degree once the nodes `taken' have been     *)
(* taken: an edge counts until its source is.                              *)
Remaining(p, n, taken) == Cardinality({e \in Edges(p) : e[2] = n /\ e[1] \notin taken})

ReadyAfter(p, taken) == {n \in NodeIds(p) \ taken : Remaining(p, n, taken) = 0}

(* Mutant: the largest ready node goes first.                              *)
FirstOfReversed(ready) == CHOOSE n \in ready : \A m \in ready : m <= n

(* The first of a BTreeSet.                                                *)
FirstOf(ready) == CHOOSE n \in ready : \A m \in ready : n <= m

(* Kahn's algorithm: one turn of its loop takes one ready node.  A cycle   *)
(* leaves the order short of the nodes.                                    *)
TakeReady(p, order) ==
  LET ready == ReadyAfter(p, ToSet(order))
  IN  IF ready = {} THEN order ELSE Append(order, FirstOf(ready))

topological_order(p) == FoldLeft(LAMBDA order, node : TakeReady(p, order), <<>>, p.nodes)

canonicalize_proposal(p) ==
  /\ StructurallyValid(p)
  /\ Len(topological_order(p)) = Cardinality(NodeIds(p))

-----------------------------------------------------------------------------
(* compute_parallel_schedule: each turn takes every ready node at once.    *)
TakeWave(p, waves) ==
  LET ready == ReadyAfter(p, ToSet(FlattenSeq(waves)))
  IN  IF ready = {} THEN waves ELSE Append(waves, SetToSortSeq(ready, <))

Waves(p) == FoldLeft(LAMBDA waves, node : TakeWave(p, waves), <<>>, p.nodes)

compute_parallel_schedule(p) ==
  /\ Cardinality(NodeIds(p)) <= ScheduleLimits.queue_depth
  /\ \A n \in NodeIds(p) : Remaining(p, n, {}) <= ScheduleLimits.join_width
  /\ \A w \in DOMAIN Waves(p) : Len(Waves(p)[w]) <= ScheduleLimits.fan_out

(* Mutant: only the wave's first node is looked at.                        *)
enforce_on_first_node(p) ==
  \A w \in DOMAIN Waves(p) :
    Len(Waves(p)[w]) > 1 => Cap(p, Waves(p)[w][1]).effect = "pure_read"

enforce_pure_read_only_parallelism(p) ==
  \A w \in DOMAIN Waves(p) :
    Len(Waves(p)[w]) > 1 =>
      \A i \in DOMAIN Waves(p)[w] : Cap(p, Waves(p)[w][i]).effect = "pure_read"

-----------------------------------------------------------------------------
(* validate_proposal_against_host_state.  An entry of Host says whether    *)
(* the manifest declares the capability and the registry knows it, the     *)
(* digest the registry resolves it to, its risk metadata, and for each     *)
(* path the JSON type ("any": undeclared) and the classification it        *)
(* produces or accepts (-1: undeclared, 0: Public, more is more secret).   *)
Resolved(p, n) ==
  /\ Cap(p, n).declared
  /\ Cap(p, n).registered
  /\ Cap(p, n).digest = NodeOf(p, n).digest

mapping_schema_compatible(source, from, target, to) ==
  \/ source.output[from] = "any"
  \/ target.input[to] = "any"
  \/ source.output[from] = target.input[to]

DataFlowAllowed(produced, accepted, target) ==
  produced # -1 =>
    /\ accepted # -1
    /\ produced <= accepted
    /\ ~ /\ produced > 0
         /\ target.effect \in {"external_effect", "irreversible_effect"}
         /\ target.egress = "denied"

MappingAllowed(p, m) ==
  m.source # 0 =>
    LET source == Cap(p, m.source)
        target == Cap(p, m.target)
    IN  /\ mapping_schema_compatible(source, m.from, target, m.to)
        /\ DataFlowAllowed(source.produces[m.from], target.accepts[m.to], target)

validate_proposal_against_host_state(p) ==
  /\ \A n \in NodeIds(p) : Resolved(p, n)
  /\ \A i \in DOMAIN p.mappings : MappingAllowed(p, p.mappings[i])

is_automatic_eligible(risk) ==
  /\ risk.effect = "pure_read"
  /\ risk.deterministic
  /\ risk.egress = "denied"
  /\ ~risk.idempotency_required

proposal_is_automatic_eligible(p) ==
  \A n \in NodeIds(p) : is_automatic_eligible(Cap(p, n))

=============================================================================
