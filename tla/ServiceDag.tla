----------------------------- MODULE ServiceDag -----------------------------
(***************************************************************************)
(* The service DAG a task carries (core/lib/content/dag.py) and the        *)
(* solvers the controller runs on it when it merges parallel branches      *)
(* (core/lib/solver).  A DAG is a function from node names to records with *)
(* the two adjacency lists of class Node; list order is kept because the   *)
(* searches pop and append in that order.                                  *)
(***************************************************************************)
EXTENDS Naturals, Sequences, FiniteSets, SequencesExt

CONSTANT NoNode      \* the ValueError of find_lca, and "no service" elsewhere

Nodes(dag) == DOMAIN dag
PrevNodes(dag, n) == ToSet(dag[n].prev)
NextNodes(dag, n) == ToSet(dag[n].next)

-----------------------------------------------------------------------------
(* Reachability: the closures the solvers compute with a visited set.      *)

\* What a search collects that starts at a node and goes on from every node it
\* meets to all of edges[n]: after as many rounds as there are nodes it is done.
Reached(edges, node) ==
  LET met[i \in Nat] ==
        IF i = 0 THEN {node} ELSE met[i - 1] \cup UNION {edges[n] : n \in met[i - 1]}
  IN  met[Cardinality(DOMAIN edges)]

Ancestors(dag, node) ==          \* node included, as in _get_ancestors
  Reached([n \in Nodes(dag) |-> PrevNodes(dag, n)], node)

ForwardReachable(dag, node) ==
  Reached([n \in Nodes(dag) |-> NextNodes(dag, n)], node)

\* Mutant: the backward search from dest is left out.
IntermediateForwardOnly(dag, src, dest) == ForwardReachable(dag, src) \ {src, dest}

\* Nodes strictly between src and dest on some path; empty when dest is not
\* reachable from src.
IntermediateNodes(dag, src, dest) ==
  (ForwardReachable(dag, src) \cap Ancestors(dag, dest)) \ {src, dest}

\* Length of the longest path from a root, the value _depth_cache settles on:
\* after i rounds, the length of the longest way down over at most i edges.
Depth(dag, node) ==
  LET depth[i \in Nat] ==
        IF i = 0 THEN [n \in Nodes(dag) |-> 0]
        ELSE LET above == depth[i - 1]
             IN  [n \in Nodes(dag) |->
                    IF dag[n].prev = <<>> THEN 0
                    ELSE 1 + Max({above[p] : p \in PrevNodes(dag, n)})]
  IN  depth[Cardinality(Nodes(dag))][node]

-----------------------------------------------------------------------------
(* LCASolver.find_lca: two breadth-first searches towards the root that    *)
(* take turns, one node each, until either queue is empty or the forward   *)
(* search enters a new level with candidates in hand.                      *)

\* The elements of a list that are in S, in the order of the list.
Among(list, S) ==
  LET upto[i \in 0..Len(list)] ==
        IF i = 0 THEN <<>>
        ELSE IF list[i] \in S THEN Append(upto[i - 1], list[i]) ELSE upto[i - 1]
  IN  upto[Len(list)]

\* The parents of n that one side of the search has not seen yet.
Fresh(dag, n, seen) == Among(dag[n].prev, PrevNodes(dag, n) \ seen)

AtDepth(d, nodes) == [i \in DOMAIN nodes |-> <<nodes[i], d>>]

\* Mutants: the other side's visited nodes are not looked at; the side's own are
\* looked at instead.
ExpandBlind(dag, n, d, queue, seen, otherSeen, found) ==
  [queue |-> queue \o AtDepth(d + 1, Fresh(dag, n, seen)),
   seen  |-> seen \cup PrevNodes(dag, n),
   found |-> found]

ExpandOwn(dag, n, d, queue, seen, otherSeen, found) ==
  [queue |-> queue \o AtDepth(d + 1, Fresh(dag, n, seen)),
   seen  |-> seen \cup PrevNodes(dag, n),
   found |-> found \o Among(dag[n].prev, seen)]

\* One side of the search expands node n found at depth d: parents already
\* seen by the other side become candidates, unseen parents are queued.
Expand(dag, n, d, queue, seen, otherSeen, found) ==
  [queue |-> queue \o AtDepth(d + 1, Fresh(dag, n, seen)),
   seen  |-> seen \cup PrevNodes(dag, n),
   found |-> found \o Among(dag[n].prev, otherSeen)]

SearchRound(dag, s) ==
  IF s.stop \/ s.fwd = <<>> \/ s.bwd = <<>> THEN s
  ELSE LET f == Head(s.fwd)
       IN  IF f[2] > s.level /\ s.found # <<>>
           THEN [s EXCEPT !.stop = TRUE]
           ELSE LET b  == Head(s.bwd)
                    up == Expand(dag, f[1], f[2], Tail(s.fwd), s.fwdSeen, s.bwdSeen, s.found)
                    dn == Expand(dag, b[1], b[2], Tail(s.bwd), s.bwdSeen, up.seen, up.found)
                IN  [stop |-> FALSE, level |-> IF f[2] > s.level THEN f[2] ELSE s.level,
                     fwd |-> up.queue, fwdSeen |-> up.seen,
                     bwd |-> dn.queue, bwdSeen |-> dn.seen, found |-> dn.found]

\* Every node enters each queue at most once, so the loop ends within as many
\* rounds as there are nodes.
Candidates(dag, n1, n2) ==
  LET start == [stop |-> FALSE, level |-> 0, found |-> <<>>,
                fwd |-> << <<n1, 0>> >>, fwdSeen |-> {n1},
                bwd |-> << <<n2, 0>> >>, bwdSeen |-> {n2}]
      search[i \in Nat] == IF i = 0 THEN start ELSE SearchRound(dag, search[i - 1])
  IN  search[Cardinality(Nodes(dag))].found

\* max(..., key=depth) keeps the first of equally deep candidates.
Deepest(dag, cands) ==
  cands[Min({i \in DOMAIN cands :
               \A j \in DOMAIN cands : Depth(dag, cands[j]) <= Depth(dag, cands[i])})]

FindLca(dag, n1, n2) ==
  CASE n1 \in Ancestors(dag, n2) -> n1
    [] n1 \notin Ancestors(dag, n2) /\ n2 \in Ancestors(dag, n1) -> n2
    [] OTHER -> LET cands == Candidates(dag, n1, n2)
                IN  IF cands = <<>> THEN NoNode ELSE Deepest(dag, cands)

-----------------------------------------------------------------------------
(* Task.merge_task: the services copied from the other branch.             *)

\* Mutant: only the other branch's last service is copied.
MergeLastOnly(dag, past, otherPast) == {otherPast}

MergeNodes(dag, past, otherPast) ==
  IntermediateNodes(dag, FindLca(dag, past, otherPast), otherPast) \cup {otherPast}

-----------------------------------------------------------------------------
(* Reference definitions the solvers are compared with.                    *)

CommonAncestors(dag, n1, n2) == Ancestors(dag, n1) \cap Ancestors(dag, n2)

LowestCommonAncestors(dag, n1, n2) ==
  {a \in CommonAncestors(dag, n1, n2) :
     \A b \in CommonAncestors(dag, n1, n2) : a \in Ancestors(dag, b) => a = b}
=============================================================================
