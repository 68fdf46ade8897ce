------------------------------ MODULE MCRuntime -------------------------------
(* Small instances of Runtime: one capability of two versions, and a       *)
(* workflow whose first step waits on two event edges.                     *)
EXTENDS Runtime, TLC

CONSTANTS c1, c2

t1 == <<"tick", 1>>
t2 == <<"tick", 2>>
f1 == <<"flow", 1>>
f2 == <<"flow", 2>>

Good ==
  [kind |-> "executable", lifecycle |-> TRUE, runs_locally |-> TRUE, draft |-> FALSE,
   artifact |-> "verified", deps |-> TRUE, subscribable |-> TRUE, emits |-> {"a", "b"},
   permitted |-> {"Local"}]

Flow == [Good EXCEPT !.kind = "workflow", !.subscribable = FALSE, !.emits = {}]

(* One deviation at a time. *)
Deviating ==
  {[Good EXCEPT !.lifecycle = FALSE], [Good EXCEPT !.runs_locally = FALSE],
   [Good EXCEPT !.draft = TRUE], [Good EXCEPT !.artifact = "unreadable"],
   [Good EXCEPT !.artifact = "rejected"], [Good EXCEPT !.artifact = "unsigned"],
   [Good EXCEPT !.deps = FALSE], [Good EXCEPT !.subscribable = FALSE],
   [Good EXCEPT !.emits = {}, !.subscribable = FALSE], [Good EXCEPT !.emits = {"a"}],
   [Good EXCEPT !.permitted = {}], [Good EXCEPT !.permitted = {"Cloud", "Edge"}]}

Ev(t, v) == [type |-> t, val |-> v]
PairEmissions == {<<>>, <<Ev("a", "x")>>, <<Ev("b", "y")>>}
AllEmissions == PairEmissions \cup {<<Ev("b", "x")>>, <<Ev("a", "x"), Ev("b", "x")>>}

Registry(keys, indexed, a, catalog) ==
  [keys |-> keys, indexed |-> indexed, catalog |-> catalog,
   emissions |-> AllEmissions, faults |-> TRUE,
   caps |-> (t1 :> a @@ t2 :> Good @@ f1 :> Flow @@ f2 :> Flow)]

FaultyRegistries ==
  {Registry({t1, f1, f2}, {}, a, {"a", "b"}) : a \in Deviating}
    \cup {Registry({t1, t2, f1, f2}, {}, Good, {"a", "b"}),
          Registry({t1, t2, f1}, {}, Good, {"a"}),
          Registry({f1}, {t1, t2}, Good, {"a", "b"})}

Edge(id, from, to, trigger, event, predicate) ==
  [id |-> id, from |-> from, to |-> to, trigger |-> trigger, event |-> event,
   predicate |-> predicate]

MCWorkflows ==
  (f1 :> [start |-> "n1", terminal |-> {"n2"},
          capability |-> [n1 |-> t1, n2 |-> t1, n3 |-> t2],
          edges |-> {Edge("e12", "n1", "n2", "event", "a", "any"),
                     Edge("e13", "n1", "n3", "event", "b", "y"),
                     Edge("e32", "n3", "n2", "direct", "none", "any")}])
    @@
  (f2 :> [start |-> "n1", terminal |-> {"n2", "n3"},
          capability |-> [n1 |-> t1, n2 |-> t1, n3 |-> t2],
          edges |-> {Edge("e12", "n1", "n2", "direct", "none", "any"),
                     Edge("e13", "n1", "n3", "direct", "none", "any")}])

MCTypeRank == [a |-> 1, b |-> 2]

Exact(id, name, version) ==
  [id |-> id, valid |-> TRUE, mode |-> "exact", name |-> name, version |-> version,
   range |-> {}, target |-> "Local", input_ok |-> TRUE]

SingleRequests ==
  {Exact("r1", "tick", 1), Exact("r1", "flow", 1), Exact("r2", "flow", 2),
   [Exact("r2", "tick", 1) EXCEPT !.valid = FALSE],
   [Exact("r2", "tick", 1) EXCEPT !.target = "Cloud"],
   [Exact("r2", "tick", 1) EXCEPT !.input_ok = FALSE],
   [Exact("r2", "tick", 0) EXCEPT !.mode = "intent"],
   [Exact("r2", "tick", 0) EXCEPT !.mode = "range", !.range = {1, 2}]}

(* One call against every deviation and fault, or two concurrent calls on  *)
(* a registry without them: a workflow, and the publication of an event it *)
(* may wait for, another execution of it or its own retry.                 *)
PairRegistry ==
  [Registry({t1, t2, f1}, {}, Good, {"a", "b"}) EXCEPT !.emissions = PairEmissions,
                                                       !.faults = FALSE]
PairRequests == {Exact("r1", "flow", 1), Exact("r2", "tick", 1)}

Single == {[registry |-> g, req |-> c1 :> r] : g \in FaultyRegistries, r \in SingleRequests}
Pair == {[registry |-> PairRegistry, req |-> q] : q \in [{c1, c2} -> PairRequests]}
MCScenarios == Single \cup Pair
=============================================================================
