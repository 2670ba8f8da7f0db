----------------------------- MODULE DepthFirst -----------------------------
(***************************************************************************)
(* The depth-first order that puts what a node depends on in front of it,  *)
(* as the discovery of modules and the plan of computed fields build it.   *)
(***************************************************************************)
EXTENDS Naturals, Sequences, SequencesExt, Objects

\* s without what is there already.
Also(acc, s) == acc \o Sift(s, ToSet(s) \ ToSet(acc))

\* Deps(n): the nodes n depends on, in the order they are visited.
PostOrder(nodes, Deps(_)) ==
    LET post[k \in 0..Len(nodes)] ==
            [n \in ToSet(nodes) |->
                IF k = 0 THEN <<n>>
                ELSE Also(FoldLeft(Also, <<>>, [i \in DOMAIN Deps(n) |-> post[k - 1][Deps(n)[i]]]), <<n>>)]
    IN FoldLeft(Also, <<>>, [i \in DOMAIN nodes |-> post[Len(nodes)][nodes[i]]])

\* No order of a graph with a cycle satisfies this; its post-order does otherwise.
DependenciesFirst(order, Deps(_)) ==
    \A i \in DOMAIN order : \A dep \in ToSet(Deps(order[i])) : \E j \in 1..(i - 1) : order[j] = dep
=============================================================================
