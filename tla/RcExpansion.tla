----------------------------- MODULE RcExpansion ----------------------------
(***************************************************************************)
(* What is wrong with the expansion of named configurations                *)
(* (src/src/bazelrc/expansion.rs): for each command a graph of references, *)
(* whose edges are indices of the references of the view.                  *)
(***************************************************************************)
EXTENDS RcView

CONSTANT DeepChain      \* configurations in a chain that is called deep

ASSUME DeepChainAssumption == DeepChain \in Nat \ {0}

ExpansionGraph(view, command) ==
    LET applies(sites) == {i \in DOMAIN sites : Applies(command, sites[i].command)}
    IN  [sites       |-> view.references,
         definitions |-> {view.declarations[i].name : i \in applies(view.declarations)},
         edges       |-> applies(view.references)]

\* The references an owner holds; those of no configuration are roots.
EdgesOf(graph, owner) == {i \in graph.edges : graph.sites[i].owner = owner}

Roots(graph) == EdgesOf(graph, NoName)

Leads(graph, i) == graph.sites[i].name \in graph.definitions

\* The configurations a search of the graph may come to.
Met(graph) == {graph.sites[i].name : i \in DOMAIN graph.sites}

\* What is made of a state by following some references in order: step[i] is
\* what reference i makes of each.
InTurn(graph, edges, step, start) ==
    LET after[i \in 0 .. Len(graph.sites)] ==
            IF i = 0 THEN start
            ELSE IF i \in edges /\ Leads(graph, i) THEN step[i][after[i - 1]] ELSE after[i - 1]
    IN  after[Len(graph.sites)]

\* path: a search that enters each name once.
Search(graph, target) ==
    LET states == [visited : SUBSET Met(graph), found : BOOLEAN]
        search[visited \in SUBSET Met(graph)] ==
            [from \in Met(graph) |->
                LET follow == [i \in graph.edges |-> [s \in states |->
                                  IF s.found THEN s ELSE search[s.visited][graph.sites[i].name]]]
                IN  IF from = target THEN [visited |-> visited, found |-> TRUE]
                    ELSE IF from \in visited THEN [visited |-> visited, found |-> FALSE]
                    ELSE InTurn(graph, EdgesOf(graph, from), follow,
                                [visited |-> visited \cup {from}, found |-> FALSE])]
    IN  search[{}]

Cycles(graph) ==
    {i \in graph.edges : /\ graph.sites[i].owner # NoName /\ Leads(graph, i)
                         /\ Search(graph, graph.sites[i].owner)[graph.sites[i].name].found}

\* Mutant: a configuration is expanded where it is first reached, and no more.
BelowOnce(graph, expanded, name) == IF name \in expanded THEN {} ELSE EdgesOf(graph, name)

\* What is expanded when a configuration is reached, whether it has been or not.
Below(graph, expanded, name) == EdgesOf(graph, name)

\* expand: every reference is followed each time it is reached, but for those
\* back into the chain being expanded.
Expand(graph) ==
    LET states == [expanded : SUBSET Met(graph), repeated : SUBSET graph.edges]
        expand[active \in SUBSET Met(graph)] ==
            [i \in graph.edges |-> [s \in states |->
                LET name  == graph.sites[i].name
                    again == IF name \in s.expanded THEN {i} ELSE {}
                IN  IF name \in active THEN s
                    ELSE InTurn(graph, Below(graph, s.expanded, name), expand[active \cup {name}],
                                [expanded |-> s.expanded \cup {name}, repeated |-> s.repeated \cup again])]]
    IN  expand[{}]

Repetitions(graph) ==
    InTurn(graph, Roots(graph), Expand(graph), [expanded |-> {}, repeated |-> {}]).repeated

\* longest: the longest chain of references below a name, unless it runs into
\* a cycle.  The memo changes nothing but the time.
Longest(graph) ==
    LET longest[active \in SUBSET Met(graph)] ==
            [name \in Met(graph) |->
                LET below(i) == longest[active \cup {name}][graph.sites[i].name]
                    better == [i \in graph.edges |-> [s \in [ok : BOOLEAN, path : Seq(graph.edges)] |->
                                  IF ~s.ok THEN s
                                  ELSE IF ~below(i).ok THEN below(i)
                                  ELSE IF Len(below(i).path) + 1 > Len(s.path)
                                  THEN [s EXCEPT !.path = <<i>> \o below(i).path]
                                  ELSE s]]
                IN  IF name \in active THEN [ok |-> FALSE, path |-> <<>>]
                    ELSE InTurn(graph, EdgesOf(graph, name), better, [ok |-> TRUE, path |-> <<>>])]
    IN  longest[{}]

\* A deep chain is reported at its last reference.
DeepChains(graph) ==
    LET roots == {i \in Roots(graph) : Leads(graph, i)}
        chain(i) == Longest(graph)[graph.sites[i].name]
        last(i)  == IF chain(i).path = <<>> THEN i ELSE Last(chain(i).path)
    IN  {last(i) : i \in {r \in roots : chain(r).ok /\ Len(chain(r).path) + 1 >= DeepChain}}

\* findings: one for each place, kind and view, whatever the commands.
Findings(view) ==
    LET at(command, kind, edges) == {[at |-> view.references[i].at, kind |-> kind] : i \in edges}
        of(command) == LET graph == ExpansionGraph(view, command)
                       IN  at(command, "cycle", Cycles(graph))
                              \cup at(command, "repeated", Repetitions(graph))
                              \cup at(command, "deep", DeepChains(graph))
    IN  IF view.ready THEN UNION {of(c) : c \in Expanded} ELSE {}
=============================================================================
