------------------------------- MODULE Planner -------------------------------
(***************************************************************************)
(* The order in which an install applies its components (planner/graph.go, *)
(* planner/order.go and planner/resolver.go): the selection is closed      *)
(* under dependencies, sorted, and then the soft pairs are put in order.   *)
(***************************************************************************)
EXTENDS Naturals, Sequences, FiniteSets, FiniteSetsExt, SequencesExt

(* The components of MVPGraph in the order of their names. *)
Names == <<"claude-theme", "context7", "engram", "gga", "opencode-gentle-logo",
           "permissions", "persona", "sdd", "skills", "theme">>

MVPGraph ==
    [c \in ToSet(Names) |-> CASE c = "sdd" -> {"engram"}
                              [] c = "skills" -> {"sdd"}
                              [] OTHER -> {}]

Least(components) ==
    CHOOSE c \in components :
        \A d \in components :
            SelectInSeq(Names, LAMBDA n : n = c) <= SelectInSeq(Names, LAMBDA n : n = d)

(* What the selected components need, directly or not. *)
ExpandDependencies(graph, selected) ==
    LET reach[n \in 0 .. Cardinality(DOMAIN graph)] ==
            IF n = 0 THEN selected
            ELSE reach[n - 1] \union UNION {graph[c] : c \in reach[n - 1]}
    IN  reach[Cardinality(DOMAIN graph)]

(* Kahn's algorithm with a sorted queue; shorter than its input when the   *)
(* dependencies have a cycle (ErrDependencyCycle).                         *)
TopologicalSort(graph, nodes) ==
    LET sorted[n \in 0 .. Cardinality(nodes)] ==
            IF n = 0 THEN <<>>
            ELSE LET done == ToSet(sorted[n - 1])
                     ready == {c \in nodes \ done : graph[c] \subseteq done}
                 IN  IF ready = {} THEN sorted[n - 1]
                     ELSE Append(sorted[n - 1], Least(ready))
    IN  sorted[Cardinality(nodes)]

SoftOrderingPairs == <<<<"persona", "engram">>, <<"persona", "sdd">>>>

(* The first of a pair moves to just before the second, if it is after it. *)
MoveBefore(pair, order) ==
    LET i == SelectInSeq(order, LAMBDA c : c = pair[1])
        j == SelectInSeq(order, LAMBDA c : c = pair[2])
    IN  IF i = 0 \/ j = 0 \/ i < j THEN order
        ELSE SubSeq(order, 1, j - 1) \o <<pair[1]>> \o SubSeq(order, j, i - 1)
             \o SubSeq(order, i + 1, Len(order))

(* Faulty: the sorted order is taken as it is.                             *)
KeepOrder(order) == order

ApplySoftOrdering(order) == FoldLeft(LAMBDA o, pair : MoveBefore(pair, o), order, SoftOrderingPairs)

Resolve(selected) ==
    ApplySoftOrdering(TopologicalSort(MVPGraph, ExpandDependencies(MVPGraph, selected)))

---------------------------------------------------------------------------
(* What a plan should be: each component once, after all it depends on,    *)
(* and nothing that was neither selected nor needed.                       *)
IsTopological(graph, nodes, order) ==
    /\ Len(order) = Cardinality(nodes) /\ ToSet(order) = nodes
    /\ \A i \in DOMAIN order : graph[order[i]] \subseteq ToSet(SubSeq(order, 1, i - 1))

Acyclic(graph, nodes) ==
    \A cycle \in SUBSET nodes \ {{}} :
        \E c \in cycle : graph[c] \intersect cycle = {}

IsPlan(selected, order) ==
    LET needed == {c \in DOMAIN MVPGraph :
                      \E s \in selected :
                         \/ s = c
                         \/ c \in MVPGraph[s]
                         \/ \E d \in MVPGraph[s] : c \in MVPGraph[d]}
    IN  IsTopological(MVPGraph, needed, order)
=============================================================================
