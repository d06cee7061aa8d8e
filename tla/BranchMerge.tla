----------------------------- MODULE BranchMerge -----------------------------
(***************************************************************************)
(* One application from the canvas to the end of a task: a workflow is     *)
(* drawn and checked, the runtime builds and validates its DAG (DagBuild), *)
(* the services work, and at every joint the branch that arrived last      *)
(* merges the others one by one, in the order Redis returned them          *)
(* (core/controller/controller.py:254-266), with the solvers of ServiceDag.*)
(* A merge is one call that works on copies of its own, so one joint is    *)
(* merged at a time; which task gets where, and when, is TaskFlow's.       *)
(***************************************************************************)
EXTENDS DagBuild

VARIABLES
  dag,       \* the workflow as drawn, then the service DAG of the task
  carried,   \* services whose results the task of a service carries: its own once
             \* it has worked
  joint,     \* the service whose branches are being merged, or NoNode
  last,      \* the parent whose branch arrived last and does the merging
  waiting,   \* parents whose stored branches are still to be merged
  data,      \* services whose results the merged task carries
  outcome    \* "drawn", "accepted", "mismatch" or "cyclic" (check_dag), "invalid"
             \* (validate_dag raised), "built", "merged", "error" (find_lca raised)

vars == <<dag, carried, joint, last, waiting, data, outcome>>

Workflows == SUBSET {e \in Services \X Services : e[1] # e[2]}

AllNodes == Services \cup {Start, End}

\* The start node has nothing to do.
Worked(n) == n = Start \/ n \in carried[n]

-----------------------------------------------------------------------------
Init ==
  /\ \E edges \in Workflows : dag = Draw(edges)
  /\ carried = [n \in AllNodes |-> {}]
  /\ joint = NoNode /\ last = NoNode
  /\ waiting = {} /\ data = {}
  /\ outcome = "drawn"

\* update_dag_workflows: a connected pair of services may disagree about their
\* data, otherwise the sort decides.
Check ==
  /\ outcome = "drawn"
  /\ \/ outcome' = IF CheckDag(dag) THEN "accepted" ELSE "cyclic"
     \/ /\ \E n \in Services : dag[n].next # <<>>
        /\ outcome' = "mismatch"
  /\ UNCHANGED <<dag, carried, joint, last, waiting, data>>

\* A generator or a scheduler agent reads the workflow from its environment.
Extract ==
  /\ outcome = "accepted"
  /\ \E both \in BOOLEAN :
       LET built == BuildDag(FromDict(dag, both))
       IN  /\ dag' = built
           /\ outcome' = IF Validates(built) THEN "built" ELSE "invalid"
  /\ UNCHANGED <<carried, joint, last, waiting, data>>

\* Mutant: the service a task comes from counts as a result, the start node too.
ForkWithPast(p, n) ==
  /\ outcome = "built" /\ joint = NoNode
  /\ n \in Services \ carried[n]
  /\ Len(dag[n].prev) = 1 /\ Worked(p)
  /\ carried' = [carried EXCEPT ![n] = carried[p] \cup {p, n}]
  /\ UNCHANGED <<dag, joint, last, waiting, data, outcome>>

\* p hands a copy of its task to n, which has no other predecessor and works on it.
Fork(p, n) ==
  /\ outcome = "built" /\ joint = NoNode
  /\ n \in Services \ carried[n]
  /\ Len(dag[n].prev) = 1 /\ Worked(p)
  /\ carried' = [carried EXCEPT ![n] = carried[p] \cup {n}]
  /\ UNCHANGED <<dag, joint, last, waiting, data, outcome>>

\* retrieve_task_data returned every branch, that of the caller p among them.
Retrieve(p, n) ==
  /\ outcome = "built" /\ joint = NoNode
  /\ n \notin carried[n]
  /\ Len(dag[n].prev) > 1 /\ \A q \in PrevNodes(dag, n) : Worked(q)
  /\ joint' = n
  /\ last' = p
  /\ waiting' = PrevNodes(dag, n)
  /\ data' = carried[p]
  /\ UNCHANGED <<dag, carried, outcome>>

\* new_task.merge_task(task) for the stored task whose past service is p.
MergeTask(p) ==
  /\ outcome = "built"
  /\ p \in waiting
  /\ waiting' = waiting \ {p}
  /\ IF FindLca(dag, last, p) = NoNode
     THEN outcome' = "error" /\ UNCHANGED data
     ELSE LET copied == MergeNodes(dag, last, p)
          IN  /\ data' = (data \ copied) \cup (carried[p] \cap copied)
              /\ outcome' = IF waiting' = {} THEN "merged" ELSE "built"
  /\ UNCHANGED <<dag, carried, joint, last>>

\* The merged task is submitted to the joint, which works on it.
Submit ==
  /\ outcome = "merged" /\ joint \in Services
  /\ carried' = [carried EXCEPT ![joint] = data \cup {joint}]
  /\ joint' = NoNode /\ last' = NoNode
  /\ waiting' = {} /\ data' = {}
  /\ outcome' = "built"
  /\ UNCHANGED dag

Next ==
  \/ Check
  \/ Extract
  \/ \E n \in Nodes(dag) : \E p \in PrevNodes(dag, n) : Fork(p, n) \/ Retrieve(p, n)
  \/ \E p \in waiting : MergeTask(p)
  \/ Submit

Spec == Init /\ [][Next]_vars

-----------------------------------------------------------------------------
\* Tasks carry results of services only, not of start or end.
TypeOK ==
  /\ carried \in [AllNodes -> SUBSET Services]
  /\ joint \in Nodes(dag) \cup {NoNode}
  /\ last \in Nodes(dag) \cup {NoNode}
  /\ waiting \subseteq Nodes(dag)
  /\ data \subseteq Services
  /\ outcome \in {"drawn", "accepted", "mismatch", "cyclic", "invalid",
                 "built", "merged", "error"}

\* The backend turns a workflow away for its shape only when it has a cycle, and
\* what the backend accepts the runtime never refuses: generators and agents
\* that read an accepted workflow start (backend_core.py:645, dag.py:191).
CheckedOnce ==
  /\ outcome # "invalid"
  /\ outcome = "cyclic" =>
       \E n \in Services : \E p \in PrevNodes(dag, n) : n \in Ancestors(dag, p)

\* What extract_dag_from_dict leaves behind is what the controllers rely on
\* (DagAssumption and AcyclicAssumption of TaskFlow): one start and one end, lists
\* that agree and name no neighbour twice, entry services with the start as their
\* only predecessor, and no cycle, whichever lists the dict came with.
Enclosed ==
  Start \in Nodes(dag) =>
    /\ \A n \in Nodes(dag) :
         /\ dag[n].prev \in Seq(Nodes(dag)) /\ dag[n].next \in Seq(Nodes(dag))
         /\ Len(dag[n].prev) = Cardinality(PrevNodes(dag, n))
         /\ Len(dag[n].next) = Cardinality(NextNodes(dag, n))
         /\ \A m \in Nodes(dag) : n \in PrevNodes(dag, m) <=> m \in NextNodes(dag, n)
         /\ dag[n].prev = <<>> <=> n = Start
         /\ dag[n].next = <<>> <=> n = End
    /\ \A n \in NextNodes(dag, Start) : dag[n].prev = <<Start>>
    /\ \A n \in Nodes(dag) : \A p \in PrevNodes(dag, n) : n \notin Ancestors(dag, p)

\* The total time of a task is the time of its slowest way through the DAG,
\* whatever each service took (task.py:344-350); asked once of every DAG.
TotalTime ==
  outcome = "built" /\ joint = NoNode /\ (\A n \in AllNodes : carried[n] = {}) =>
    \A time \in [Services -> 0..1] :
      LET weight == [n \in Nodes(dag) |-> IF n \in Services THEN time[n] ELSE 0]
      IN  LongestPath(dag, weight, Start, End) = Heaviest(dag, weight, End)

\* Two branches of one task always have a common ancestor, the start node, so
\* find_lca never raises while branches are merged.
LcaFound == outcome # "error"

\* What find_lca returns was upstream of both branches, so a merge never copies
\* along a way that one of them did not take (lca_solver.py:52).  It need not be
\* a lowest common ancestor: see HigherAncestor in MCTaskFlow.
LcaCommon ==
  \A p \in waiting :
    FindLca(dag, last, p) \in CommonAncestors(dag, last, p) \cup {NoNode}

\* find_lca gives up on two branches only if there is more upstream of one than
\* of the other: the searches take turns, one service each (lca_solver.py:70).
FoundWhenEven ==
  \A p \in waiting :
    FindLca(dag, last, p) = NoNode =>
      Cardinality(Ancestors(dag, p)) # Cardinality(Ancestors(dag, last))

\* The merged task carries the results of everything upstream of the joint,
\* whichever branch arrived last and in whatever order the others are merged
\* ("Complete missing part of merged_task with other_task", task.py:448).
MergeComplete ==
  outcome = "merged" => data = Ancestors(dag, joint) \ {Start, joint}

\* Merging is complete when each branch is a line, that is, when there is no other
\* joint upstream.
LineMergeComplete ==
  (outcome = "merged" /\ \A n \in Ancestors(dag, joint) \ {Start, joint} : Len(dag[n].prev) = 1)
    => data = Ancestors(dag, joint) \ {Start, joint}

\* Merging never invents a result: it only carries what was computed upstream.  And it
\* gives up a result of the merging branch only for the blank of a merged branch that
\* had lost this result at an earlier joint (task.py:454-462), as in LossSpreads of
\* MCTaskFlow.
MergeKeepsOwn ==
  joint # NoNode =>
    /\ data \subseteq Ancestors(dag, joint) \ {Start, joint}
    /\ carried[last] \subseteq
         data \cup UNION {Ancestors(dag, q) \ carried[q] : q \in PrevNodes(dag, joint) \ waiting}
=============================================================================
