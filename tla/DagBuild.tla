------------------------------ MODULE DagBuild ------------------------------
(***************************************************************************)
(* How a drawn workflow becomes the service DAG of a task: the backend's   *)
(* check_dag (src/backend/backend_core.py), the adjacency lists its        *)
(* templates write, and Task.extract_dag_from_dict with the validation of  *)
(* core/lib/content/dag.py.  Also the longest path that gives a task its   *)
(* total time (core/lib/solver/path_solver.py).                            *)
(***************************************************************************)
EXTENDS ServiceDag, Integers

CONSTANTS
  Services,        \* services of the workflow, numbered in the order of the dict
  Start, End       \* TaskConstant.START and END

ASSUME ServicesAssumption ==
  /\ Services \subseteq Nat /\ IsFiniteSet(Services)
  /\ {Start, End} \cap Services = {} /\ Start # End
  /\ NoNode \notin Services \cup {Start, End}

\* Insertion order of the dict of services.
DictOrder == SetToSeq(Services)

-----------------------------------------------------------------------------
(* BackendCore.check_dag: a topological sort by counting predecessors.     *)

\* The canvas keeps both lists of a service, here in the order of the dict; every
\* numbering of a workflow is drawn.
Draw(edges) ==
  [n \in Services |->
     [prev |-> Among(DictOrder, {p \in Services : <<p, n>> \in edges}),
      next |-> Among(DictOrder, {c \in Services : <<n, c>> \in edges})]]

\* One turn of the sort: the head of the queue is placed, and children whose
\* last predecessor it was are queued.
PlaceNext(dag, s) ==
  IF s.queue = <<>> THEN s
  ELSE LET placed == Head(s.queue)
           left == [n \in Services |->
                      IF n \in NextNodes(dag, placed) THEN s.left[n] - 1 ELSE s.left[n]]
       IN  [queue |-> Tail(s.queue) \o Among(dag[placed].next, {c \in Services : left[c] = 0}),
            placed |-> s.placed + 1,
            left |-> left]

\* Mutant: whether every service was placed is not asked.
CheckDagUncounted(dag) == \E n \in Services : dag[n].prev = <<>>

\* _start lists the services without predecessors (DagManage.vue:433).
CheckDag(dag) ==
  LET start == [queue |-> Among(DictOrder, {n \in Services : dag[n].prev = <<>>}),
                placed |-> 0,
                left |-> [n \in Services |-> Len(dag[n].prev)]]
      sort[i \in Nat] == IF i = 0 THEN start ELSE PlaceNext(dag, sort[i - 1])
  IN  sort[Cardinality(Services)].placed = Cardinality(Services)

-----------------------------------------------------------------------------
(* Task.extract_dag_from_dict.                                             *)

\* The generator is given both lists (template_helper.py:202), the scheduler
\* only next_nodes (template_helper.py:683, 737).
FromDict(dag, both) ==
  [n \in Services |-> IF both THEN dag[n] ELSE [dag[n] EXCEPT !.prev = <<>>]]

\* Mutant: every service that lists no predecessor is an entry.
EntriesByPrev(dag) == {n \in Services : dag[n].prev = <<>>}

\* The services that are nobody's child.
Entries(dag) == Services \ UNION {NextNodes(dag, n) : n \in Services}

\* The start node goes before every entry.
AddStart(dag) ==
  [n \in Services \cup {Start} |->
     CASE n = Start -> [prev |-> <<>>, next |-> Among(DictOrder, Entries(dag))]
       [] n \in Entries(dag) -> [dag[n] EXCEPT !.prev = Append(@, Start)]
       [] OTHER -> dag[n]]

\* The end node goes after every node without children.
AddEnd(dag) ==
  LET exits == {n \in Nodes(dag) : dag[n].next = <<>>}
  IN  [n \in Nodes(dag) \cup {End} |->
         CASE n = End -> [prev |-> Among(Append(DictOrder, Start), exits), next |-> <<>>]
           [] n \in exits -> [dag[n] EXCEPT !.next = <<End>>]
           [] OTHER -> dag[n]]

NodeOrder == DictOrder \o <<Start, End>>

\* Mutant: only references missing among the children are repaired.
RepairChildren(dag) ==
  [n \in Nodes(dag) |->
     LET below == {c \in Nodes(dag) : n \in PrevNodes(dag, c)}
     IN  [dag[n] EXCEPT !.next = @ \o Among(NodeOrder, below \ NextNodes(dag, n))]]

\* _check_edge_consistency: each node in turn is entered in the lists of its
\* children and of its parents where it is missing.  So a list grows by the nodes
\* that name its owner the other way round; what is entered causes no further entry.
Repair(dag) ==
  [n \in Nodes(dag) |->
     LET above == {p \in Nodes(dag) : n \in NextNodes(dag, p)}
         below == {c \in Nodes(dag) : n \in PrevNodes(dag, c)}
     IN  [prev |-> dag[n].prev \o Among(NodeOrder, above \ PrevNodes(dag, n)),
          next |-> dag[n].next \o Among(NodeOrder, below \ NextNodes(dag, n))]]

\* Mutant: a node stays on the recursion stack after its visit.
OnWayKept(s) == IF Len(s.stack) > 1 THEN s.visited ELSE {}

\* recursion_stack: the nodes on the way to the current one.
OnWay(s) == {s.stack[i].node : i \in DOMAIN s.stack}

\* One turn of a loop of _check_cycles.  A call of dfs is a frame of the stack,
\* the current one first, with the children it has still to visit.
VisitNext(dag, s) ==
  IF s.cyclic \/ s.stack = <<>> THEN s
  ELSE LET top == Head(s.stack)
       IN  IF top.todo = <<>> THEN [s EXCEPT !.stack = Tail(@)]
           ELSE LET child == Head(top.todo)
                    rest == << [top EXCEPT !.todo = Tail(@)] >> \o Tail(s.stack)
                IN  CASE child \in OnWay(s) -> [s EXCEPT !.cyclic = TRUE]
                      [] child \in s.visited \ OnWay(s) -> [s EXCEPT !.stack = rest]
                      [] OTHER ->
                           [s EXCEPT !.visited = @ \cup {child},
                              !.stack = << [node |-> child, todo |-> dag[child].next] >> \o rest]

\* _check_cycles: a depth-first search from every node not yet visited.  The last
\* frame is the loop over the nodes; every node has one frame, every frame one turn
\* for each child and one to return, which makes fewer turns than (nodes + 1)^2.
HasCycle(dag) ==
  LET start == [cyclic |-> FALSE, visited |-> {}, stack |-> << [node |-> NoNode, todo |-> NodeOrder] >>]
      dfs[i \in Nat] == IF i = 0 THEN start ELSE VisitNext(dag, dfs[i - 1])
  IN  dfs[(Cardinality(Nodes(dag)) + 1) * (Cardinality(Nodes(dag)) + 1)].cyclic

HasDuplicateEdge(dag) ==
  \E n \in Nodes(dag) : Len(dag[n].next) # Cardinality(NextNodes(dag, n))

\* _check_connectivity: edges are followed both ways.
IsConnected(dag) ==
  Reached([n \in Nodes(dag) |-> PrevNodes(dag, n) \cup NextNodes(dag, n)], Start) = Nodes(dag)

BuildDag(dag) == Repair(AddEnd(AddStart(dag)))

\* What validate_dag asks of the repaired DAG.
Validates(dag) == ~ HasDuplicateEdge(dag) /\ ~ HasCycle(dag) /\ IsConnected(dag)

-----------------------------------------------------------------------------
(* PathSolver.get_weighted_longest_path, as Task.calculate_total_time uses *)
(* it: a search that always expands the farthest node reached, and expands *)
(* a node again when a longer way to it turns up.                          *)

Unreached == -1      \* float('-inf'); weights are times, never negative

\* The head of the heap: the farthest node.  Of several the code takes the first by
\* name; here it is any of them.
Farthest(heap) == CHOOSE x \in heap : \A y \in heap : x[1] >= y[1]

\* The head leaves the heap, and some of its children are entered at the distance
\* at which it was found and their own weight.
Relax(dag, weight, s, top, children) ==
  [dist |-> [n \in Nodes(dag) |-> IF n \in children THEN top[1] + weight[n] ELSE s.dist[n]],
   heap |-> (s.heap \ {top}) \cup {<<top[1] + weight[c], c>> : c \in children}]

\* Mutant: a node is entered the first time it is reached only, as when the shortest
\* paths are looked for.
PopFarthestOnce(dag, weight, s) ==
  IF s.heap = {} THEN s
  ELSE LET top == Farthest(s.heap)
           fresh == {c \in NextNodes(dag, top[2]) : s.dist[c] = Unreached}
       IN  Relax(dag, weight, s, top, fresh)

\* One turn of the loop: an outdated head is skipped, otherwise the children to
\* which the way over it is longer are relaxed.
PopFarthest(dag, weight, s) ==
  IF s.heap = {} THEN s
  ELSE LET top == Farthest(s.heap)
           longer == {c \in NextNodes(dag, top[2]) : top[1] + weight[c] > s.dist[c]}
       IN  Relax(dag, weight, s, top, IF top[1] < s.dist[top[2]] THEN {} ELSE longer)

\* A node is entered at most once at a distance, and no way weighs more than
\* the heaviest node as often as there are nodes: this bounds the rounds.
LongestPath(dag, weight, src, dest) ==
  LET size == Cardinality(Nodes(dag))
      limit == size * Max({weight[n] : n \in Nodes(dag)})
      start == [dist |-> [n \in Nodes(dag) |-> IF n = src THEN weight[n] ELSE Unreached],
                heap |-> {<<weight[src], src>>}]
      search[i \in Nat] == IF i = 0 THEN start ELSE PopFarthest(dag, weight, search[i - 1])
  IN  search[size * (limit + 1)].dist[dest]

\* Reference: the weight of the heaviest path that ends in a node.
Heaviest(dag, weight, node) ==
  LET upto[n \in Nodes(dag)] ==
        weight[n] + IF dag[n].prev = <<>> THEN 0 ELSE Max({upto[p] : p \in PrevNodes(dag, n)})
  IN  upto[node]
=============================================================================
