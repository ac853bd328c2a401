-------------------------- MODULE MCWorkflowEngine --------------------------
(* Two calls, of one workflow or of two, for an engine that holds a single *)
(* workflow, over chains, forks and joins of three nodes.                  *)
EXTENDS WorkflowEngine

MCSubmissions == {[c1 |-> "a", c2 |-> "a"], [c1 |-> "a", c2 |-> "b"]}
Dag(deps, edges) == [deps |-> deps, edges |-> edges]
MCDags == {Dag({<<"m", "n">>}, {<<"n", "k">>}),                              \* a chain
           Dag({<<"m", "n">>, <<"m", "k">>}, {}),                            \* a fork
           Dag({<<"m", "k">>, <<"n", "k">>}, {<<"m", "k">>}),                \* a join, one pair twice
           Dag({<<"m", "n">>}, {<<"n", "k">>, <<"k", "n">>}),                \* a cycle
           Dag({<<"m", "m">>}, {})}                                          \* a loop

\* The parser's promise, for every graph on the nodes, however its edges are
\* spread over dependencies and edges; and no graph without a cycle is refused.
Graphs == SUBSET (Node \X Node)
Acyclic(g) == \A s \in SUBSET Node \ {{}} : \E n \in s : \A m \in s : <<m, n>> \notin g
ASSUME ParserChecked ==
  \A g \in Graphs, h \in {{}, {<<"m", "n">>}, {<<"m", "n">>, <<"n", "k">>}} :
    LET d == Dag(g, h)
        parsed == ParseAndValidate(d)
    IN  /\ parsed.valid => Topological(d, parsed.tiers)
        /\ parsed.valid <=> Acyclic(g \cup h)
=============================================================================
