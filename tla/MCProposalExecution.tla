------------------------ MODULE MCProposalExecution -------------------------
(* Small instances of ProposalExecution: one call that may submit every    *)
(* graph of three nodes, and two that contend with it and with each other  *)
(* for a slot in each dimension and for the only use of a token.           *)
EXTENDS ProposalExecution, TLC

Pure ==
  [declared |-> TRUE, registered |-> TRUE, digest |-> "d1",
   effect |-> "pure_read", deterministic |-> TRUE, egress |-> "denied",
   idempotency_required |-> FALSE,
   output |-> [x |-> "number"], input |-> [x |-> "number", y |-> "any", z |-> "string"],
   produces |-> [x |-> 0], accepts |-> [x |-> 0, y |-> -1, z |-> 0]]

MCHost ==
  [read       |-> Pure,
   write      |-> [Pure EXCEPT !.effect = "state_write"],
   vary       |-> [Pure EXCEPT !.deterministic = FALSE],
   send       |-> [Pure EXCEPT !.effect = "external_effect", !.accepts["x"] = 1],
   secret     |-> [Pure EXCEPT !.produces["x"] = 1],
   undeclared |-> [Pure EXCEPT !.declared = FALSE],
   unknown    |-> [Pure EXCEPT !.registered = FALSE]]

Node(id, cap) == [id |-> id, cap |-> cap, digest |-> "d1"]
Mapping(source, target, to) == [source |-> source, from |-> "x", target |-> target, to |-> to]

Graph(caps, edges, mappings) ==
  [nodes |-> [i \in DOMAIN caps |-> Node(i, caps[i])], edges |-> edges,
   mappings |-> mappings, well_formed |-> TRUE, bytes |-> 1]

AllEdges == {e \in (1..3) \X (1..3) : e[1] # e[2]}
AnyGraph ==
  {Graph(<<"read", "read", "read">>, SetToSeq(E), <<>>) : E \in SUBSET AllEdges}

Join == <<<<1, 3>>, <<2, 3>>>>
Chain == <<<<1, 2>>, <<2, 3>>>>
Fork == Graph(<<"read", "write", "read">>, Join, <<>>)
Line == Graph(<<"read", "write", "vary">>, Chain, <<Mapping(1, 2, "x")>>)
Pair == Graph(<<"read", "read">>, <<<<1, 2>>>>, <<Mapping(0, 1, "y"), Mapping(1, 2, "x")>>)

(* One deviation at a time, each refused by a check of its own, and the    *)
(* proposal with nothing in it.                                            *)
Deviating ==
  {Graph(<<>>, <<>>, <<>>),
   [Pair EXCEPT !.well_formed = FALSE],
   [Pair EXCEPT !.bytes = 9],
   [Pair EXCEPT !.nodes[2].id = 1],
   [Pair EXCEPT !.nodes[2].digest = "d2"],
   [Pair EXCEPT !.nodes[2].cap = "undeclared"],
   [Pair EXCEPT !.nodes[2].cap = "unknown"],
   [Pair EXCEPT !.edges = <<<<1, 1>>>>],
   [Pair EXCEPT !.edges = <<<<1, 4>>>>],
   [Pair EXCEPT !.edges = @ \o @],
   [Pair EXCEPT !.edges = <<>>],
   [Pair EXCEPT !.mappings[2].source = 4],
   [Pair EXCEPT !.mappings = Append(@, Mapping(0, 2, "x"))],
   [Pair EXCEPT !.mappings[2].to = "z"],
   [Pair EXCEPT !.mappings[2].to = "y"],
   [Pair EXCEPT !.nodes[1].cap = "secret"],
   [Pair EXCEPT !.nodes[1].cap = "secret", !.nodes[2].cap = "send"],
   Graph(<<"read", "read", "read", "read">>, Chain, <<>>)}

Keyed(p, a, w) == [principal |-> p, app |-> a, workspace |-> w]

Ask(p, mode, token, keys) == [proposal |-> p, mode |-> mode, token |-> token, keys |-> keys]

One == Graph(<<"write">>, <<>>, <<>>)

Modes == {"sequential", "parallel"}

First(p, t) == {Ask(p, mode, t, Keyed("p1", "a1", "w1")) : mode \in Modes}
Second(p) == Ask(p, "sequential", "one", Keyed("p1", "a2", "w2"))
Third(p, t) == Ask(p, "parallel", t, Keyed("p2", "a1", "w2"))
Wrong == [Pair EXCEPT !.well_formed = FALSE]

(* Every proposal beside two calls that are denied at once, and contention *)
(* of a few proposals with two calls that want the same token.             *)
MCRequests ==
  {[c1 |-> q, c2 |-> Second(Wrong), c3 |-> Third(Wrong, NoToken)] :
     q \in UNION {First(p, NoToken) : p \in AnyGraph \cup Deviating}}
    \cup
  {[c1 |-> q, c2 |-> Second(One), c3 |-> Third(One, "one")] :
     q \in First(Line, "line") \cup First(Pair, NoToken)}
    \cup
  {[c1 |-> q, c2 |-> Second(Wrong), c3 |-> Third(One, t)] :
     q \in First(Fork, "fork"), t \in {"fork", NoToken}}

MCTokens ==
  [one  |-> [max_use_count |-> 1, genuine |-> TRUE, workspace |-> "w2", proposal |-> One],
   fork |-> [max_use_count |-> 2, genuine |-> TRUE, workspace |-> "w1", proposal |-> Fork],
   line |-> [max_use_count |-> 1, genuine |-> TRUE, workspace |-> "w1", proposal |-> Line]]

MCLimit == [principal |-> 1, app |-> 1, workspace |-> 1]
MCProposalLimits == [nodes |-> 4, edges |-> 6, mappings |-> 3, bytes |-> 8]
MCScheduleLimits == [fan_out |-> 3, join_width |-> 2, queue_depth |-> 3]
=============================================================================
