--------------------------- MODULE BranchMergeProofs ---------------------------
(***************************************************************************)
(* That the sort of the backend accepts exactly the workflows without a    *)
(* cycle, that the runtime builds from an accepted one a DAG its own       *)
(* validation passes, and what merging the branches of such a DAG keeps,   *)
(* for workflows of any size.                                              *)
(***************************************************************************)
EXTENDS BranchMerge, ServiceDagProofs

-----------------------------------------------------------------------------
(* Lists over the services and over the nodes.                             *)

\* The dict lists every service once.
LEMMA ServiceOrder ==
  /\ DictOrder \in Seq(Services) /\ IsInjective(DictOrder) /\ ToSet(DictOrder) = Services
  /\ IsFiniteSet(Services)
<1>1. IsFiniteSet(Services)
  BY ServicesAssumption DEF ServicesAssumption
<1> QED
  BY <1>1, SetInOrder DEF DictOrder

\* And the runtime every node once.
LEMMA EveryNodeOrder ==
  /\ NodeOrder \in Seq(AllNodes) /\ IsInjective(NodeOrder) /\ ToSet(NodeOrder) = AllNodes
  /\ IsFiniteSet(AllNodes)
<1> DEFINE ends == <<Start, End>>
<1>1. /\ Start # End /\ Start \notin Services /\ End \notin Services
      /\ IsFiniteSet(Services)
  BY ServicesAssumption DEF ServicesAssumption
<1>2. ends \in Seq(AllNodes) /\ ToSet(ends) = {Start, End} /\ IsInjective(ends)
  <2>1. ends \in Seq(AllNodes)
    BY DEF AllNodes
  <2>2. ToSet(ends) = {Start, End}
    BY DEF ToSet
  <2>3. IsInjective(ends)
    BY <1>1 DEF IsInjective
  <2> QED
    BY <2>1, <2>2, <2>3
<1> HIDE DEF ends
<1>3. DictOrder \in Seq(AllNodes) /\ IsInjective(DictOrder) /\ ToSet(DictOrder) = Services
  <2>1. Services \subseteq AllNodes
    BY DEF AllNodes
  <2> QED
    BY <2>1, ServiceOrder
<1>4. ToSet(DictOrder) \cap ToSet(ends) = {}
  BY <1>1, <1>2, <1>3
<1> DEFINE both == DictOrder \o ends
<1>5. both \in Seq(AllNodes) /\ ToSet(both) = ToSet(DictOrder) \cup ToSet(ends) /\ IsInjective(both)
  BY <1>2, <1>3, <1>4, JoinedLists
<1>6. NodeOrder = both
  BY DEF NodeOrder, ends
<1>7. IsFiniteSet(AllNodes)
  <2>1. IsFiniteSet(Services \cup {Start})
    BY <1>1, FS_AddElement
  <2>2. IsFiniteSet((Services \cup {Start}) \cup {End})
    BY <2>1, FS_AddElement
  <2>3. AllNodes = (Services \cup {Start}) \cup {End}
    BY DEF AllNodes
  <2> QED
    BY <2>2, <2>3
<1> HIDE DEF both
<1> QED
  BY <1>2, <1>3, <1>5, <1>6, <1>7 DEF AllNodes

\* A list without repetitions that names one node only.
LEMMA OneInList ==
  ASSUME NEW X, NEW s \in Seq(X), IsInjective(s), NEW x, ToSet(s) = {x}
  PROVE  s = <<x>>
<1>1. Len(s) = 1
  BY ListLength, FS_Singleton
<1>2. s[1] \in ToSet(s)
  BY <1>1 DEF ToSet
<1> QED
  BY <1>1, <1>2

\* A list is empty if it names nothing.
LEMMA NothingInList ==
  ASSUME NEW X, NEW s \in Seq(X)
  PROVE  s = <<>> <=> ToSet(s) = {}
<1>1. s # <<>> => Head(s) \in ToSet(s)
  BY TailOfList
<1> QED
  BY <1>1, EmptyList
-----------------------------------------------------------------------------
(* A workflow as the canvas keeps it, and the sort the backend checks it   *)
(* with.                                                                   *)

Workflow(g) ==
  /\ Nodes(g) = Services
  /\ \A n \in Services :
       /\ g[n] = [prev |-> g[n].prev, next |-> g[n].next]
       /\ g[n].prev \in Seq(Services) /\ IsInjective(g[n].prev)
       /\ g[n].next \in Seq(Services) /\ IsInjective(g[n].next)
  /\ Matched(g)

\* Whatever is drawn is such a workflow.
LEMMA DrawnWorkflow ==
  ASSUME NEW edges
  PROVE  Workflow(Draw(edges))
<1> DEFINE g == Draw(edges)
           Above(n) == {p \in Services : <<p, n>> \in edges}
           Below(n) == {c \in Services : <<n, c>> \in edges}
<1>1. Nodes(g) = Services
  BY DEF Nodes, Draw
<1>2. ASSUME NEW n \in Services
      PROVE  /\ g[n] = [prev |-> Among(DictOrder, Above(n)), next |-> Among(DictOrder, Below(n))]
             /\ g[n].prev = Among(DictOrder, Above(n)) /\ g[n].next = Among(DictOrder, Below(n))
  BY DEF Draw
<1>3. ASSUME NEW S
      PROVE  /\ Among(DictOrder, S) \in Seq(Services) /\ IsInjective(Among(DictOrder, S))
             /\ ToSet(Among(DictOrder, S)) = Services \cap S
  BY ServiceOrder, AmongList
<1> HIDE DEF g
<1>4. ASSUME NEW n \in Services
      PROVE  /\ g[n] = [prev |-> g[n].prev, next |-> g[n].next]
             /\ g[n].prev \in Seq(Services) /\ IsInjective(g[n].prev)
             /\ g[n].next \in Seq(Services) /\ IsInjective(g[n].next)
             /\ PrevNodes(g, n) = Above(n) /\ NextNodes(g, n) = Below(n)
  <2>1. Services \cap Above(n) = Above(n) /\ Services \cap Below(n) = Below(n)
    OBVIOUS
  <2> HIDE DEF Above, Below
  <2> QED
    BY <1>2, <1>3, <2>1 DEF PrevNodes, NextNodes
<1>5. Matched(g)
  BY <1>1, <1>4 DEF Matched
<1> HIDE DEF Above, Below
<1> QED
  BY <1>1, <1>4, <1>5 DEF Workflow, g

\* Both lists of a workflow name services, and there are finitely many.
LEMMA WorkflowFacts ==
  ASSUME NEW g, Workflow(g)
  PROVE  /\ Listed(g) /\ Upward(g) /\ Matched(g)
         /\ \A n \in Services : /\ PrevNodes(g, n) \subseteq Services
                                /\ NextNodes(g, n) \subseteq Services
                                /\ g[n].prev = <<>> <=> PrevNodes(g, n) = {}
                                /\ g[n].next = <<>> <=> NextNodes(g, n) = {}
                                /\ Len(g[n].prev) = Cardinality(PrevNodes(g, n))
                                /\ IsFiniteSet(PrevNodes(g, n))
<1>1. Nodes(g) = Services /\ IsFiniteSet(Services) /\ Matched(g)
  BY ServiceOrder DEF Workflow
<1>2. Listed(g)
  BY <1>1 DEF Workflow, Listed
<1>3. ASSUME NEW n \in Services
      PROVE  /\ PrevNodes(g, n) \subseteq Services
             /\ NextNodes(g, n) \subseteq Services
             /\ g[n].prev = <<>> <=> PrevNodes(g, n) = {}
             /\ g[n].next = <<>> <=> NextNodes(g, n) = {}
             /\ Len(g[n].prev) = Cardinality(PrevNodes(g, n))
             /\ IsFiniteSet(PrevNodes(g, n))
  <2>1. /\ g[n].prev \in Seq(Services) /\ IsInjective(g[n].prev)
        /\ g[n].next \in Seq(Services)
    BY DEF Workflow
  <2> QED
    BY <2>1, ListInSet, NothingInList, ListLength DEF PrevNodes, NextNodes
<1> QED
  BY <1>1, <1>2, <1>3, ListedUpward

\* Where the sort stands when P is placed: what has all its predecessors in P is in P
\* or in the queue, and P has no cycle.
Sorting(g, s, P) ==
  /\ P \subseteq Services /\ s.placed = Cardinality(P)
  /\ s.queue \in Seq(Services) /\ IsInjective(s.queue) /\ ToSet(s.queue) \cap P = {}
  /\ s.left = [n \in Services |-> Cardinality(PrevNodes(g, n) \ P)]
  /\ \A n \in Services : n \in P \cup ToSet(s.queue) <=> PrevNodes(g, n) \subseteq P
  /\ \A n \in P : \A p \in PrevNodes(g, n) : n \notin Ancestors(g, p)

\* A turn of the sort places the head of the queue.
LEMMA TurnSorts ==
  ASSUME NEW g, Workflow(g), NEW s, NEW P, Sorting(g, s, P), s.queue # <<>>
  PROVE  Sorting(g, PlaceNext(g, s), P \cup {Head(s.queue)})
         /\ Cardinality(P \cup {Head(s.queue)}) = Cardinality(P) + 1
<1> DEFINE x == Head(s.queue)
           Q == P \cup {x}
           left == [n \in Services |-> IF n \in NextNodes(g, x) THEN s.left[n] - 1 ELSE s.left[n]]
           ready == {c \in Services : left[c] = 0}
           more == Among(g[x].next, ready)
           t == PlaceNext(g, s)
<1>1. /\ P \subseteq Services /\ s.placed = Cardinality(P)
      /\ s.queue \in Seq(Services) /\ IsInjective(s.queue) /\ ToSet(s.queue) \cap P = {}
      /\ s.left = [n \in Services |-> Cardinality(PrevNodes(g, n) \ P)]
      /\ \A n \in Services : n \in P \cup ToSet(s.queue) <=> PrevNodes(g, n) \subseteq P
      /\ \A n \in P : \A p \in PrevNodes(g, n) : n \notin Ancestors(g, p)
  BY DEF Sorting
<1>2. t.queue = Tail(s.queue) \o more /\ t.placed = s.placed + 1 /\ t.left = left
  BY DEF PlaceNext
<1>3. /\ x \in Services /\ x \in ToSet(s.queue) /\ Tail(s.queue) \in Seq(Services)
      /\ ToSet(s.queue) = ToSet(Tail(s.queue)) \cup {x}
      /\ IsInjective(Tail(s.queue)) /\ x \notin ToSet(Tail(s.queue))
  BY <1>1, TailOfList
<1> HIDE DEF x, t
<1>4. Nodes(g) = Services /\ Upward(g) /\ Matched(g) /\ IsFiniteSet(Services)
      /\ \A n \in Services : PrevNodes(g, n) \subseteq Services /\ NextNodes(g, n) \subseteq Services
                             /\ IsFiniteSet(PrevNodes(g, n))
  BY WorkflowFacts, ServiceOrder DEF Workflow
<1>5. x \notin P /\ PrevNodes(g, x) \subseteq P /\ Q \subseteq Services
  BY <1>1, <1>3
<1>6. Cardinality(Q) = Cardinality(P) + 1 /\ IsFiniteSet(P) /\ Cardinality(P) \in Nat
  <2>1. IsFiniteSet(P)
    BY <1>1, <1>4, FS_Subset
  <2> QED
    BY <1>5, <2>1, FS_AddElement, FS_CardinalityType
<1>7. \A n \in Services : n \in NextNodes(g, x) <=> x \in PrevNodes(g, n)
  BY <1>3, <1>4 DEF Matched
<1>8. ASSUME NEW n \in Services
      PROVE  left[n] = Cardinality(PrevNodes(g, n) \ Q) /\ (left[n] = 0 <=> PrevNodes(g, n) \subseteq Q)
  <2> DEFINE D == PrevNodes(g, n) \ P
             E == PrevNodes(g, n) \ Q
  <2>1. E = D \ {x} /\ IsFiniteSet(D) /\ IsFiniteSet(E)
    BY <1>4, FS_Subset
  <2>2. s.left[n] = Cardinality(D)
    BY <1>1
  <2>3. x \in D <=> n \in NextNodes(g, x)
    BY <1>5, <1>7
  <2>4. Cardinality(D) \in Nat
    BY <2>1, FS_CardinalityType
  <2> HIDE DEF D, E
  <2>5. Cardinality(E) = IF x \in D THEN Cardinality(D) - 1 ELSE Cardinality(D)
    BY <2>1, FS_RemoveElement
  <2>6. left[n] = Cardinality(E)
    BY <2>2, <2>3, <2>5
  <2>7. Cardinality(E) = 0 <=> E = {}
    BY <2>1, FS_EmptySet
  <2>8. E = {} <=> PrevNodes(g, n) \subseteq Q
    BY DEF E
  <2> HIDE DEF left
  <2> QED
    BY <2>6, <2>7, <2>8 DEF E
<1>9. left = [n \in Services |-> Cardinality(PrevNodes(g, n) \ Q)]
  BY <1>8
<1>10. /\ more \in Seq(Services) /\ ToSet(more) = NextNodes(g, x) \cap ready /\ IsInjective(more)
  <2>1. g[x].next \in Seq(Services) /\ IsInjective(g[x].next)
    BY <1>3 DEF Workflow
  <2> HIDE DEF ready
  <2> QED
    BY <2>1, AmongList DEF NextNodes
<1>11. \A n \in Services : n \in ToSet(more) <=> x \in PrevNodes(g, n) /\ PrevNodes(g, n) \subseteq Q
  <2>1. \A n \in Services : n \in ready <=> PrevNodes(g, n) \subseteq Q
    BY <1>8
  <2> HIDE DEF ready, more
  <2> QED
    BY <1>7, <1>10, <2>1
<1> HIDE DEF left, more
<1>12. \A n \in Services : n \in ToSet(more) => n \notin P /\ n \notin ToSet(s.queue)
  BY <1>1, <1>5, <1>11
<1>13. ToSet(more) \subseteq Services /\ ToSet(Tail(s.queue)) \subseteq Services
  BY <1>3, <1>10, ListInSet
<1>14. /\ t.queue \in Seq(Services) /\ IsInjective(t.queue)
       /\ ToSet(t.queue) = ToSet(Tail(s.queue)) \cup ToSet(more)
  <2>1. ToSet(Tail(s.queue)) \cap ToSet(more) = {}
    BY <1>3, <1>12, <1>13
  <2> DEFINE u == Tail(s.queue)
  <2>2. u \in Seq(Services) /\ IsInjective(u) /\ ToSet(u) \cap ToSet(more) = {}
    BY <1>3, <2>1
  <2> HIDE DEF u
  <2>3. /\ u \o more \in Seq(Services) /\ IsInjective(u \o more)
        /\ ToSet(u \o more) = ToSet(u) \cup ToSet(more)
    BY <1>10, <2>2, JoinedLists
  <2> QED
    BY <1>2, <2>3 DEF u
<1>15. ToSet(t.queue) \cap Q = {}
  BY <1>1, <1>3, <1>12, <1>13, <1>14
<1>16. ASSUME NEW n \in Services
       PROVE  n \in Q \cup ToSet(t.queue) <=> PrevNodes(g, n) \subseteq Q
  <2>1. n \in Q \cup ToSet(t.queue) <=> n \in P \cup ToSet(s.queue) \/ n \in ToSet(more)
    BY <1>3, <1>14
  <2> QED
    BY <1>1, <1>11, <2>1
<1>17. ASSUME NEW n \in Q, NEW p \in PrevNodes(g, n) PROVE n \notin Ancestors(g, p)
  <2>1. CASE n \in P
    BY <1>1, <2>1
  <2>2. CASE n = x
    <3>1. p \in P /\ p \in Services
      BY <1>1, <1>5, <2>2
    <3>2. \A m \in P : PrevNodes(g, m) \subseteq P
      BY <1>1
    <3>3. Ancestors(g, p) \subseteq P
      BY <1>1, <1>4, <3>1, <3>2, AncestorsClosure
    <3> QED
      BY <1>5, <2>2, <3>3
  <2> QED
    BY <2>1, <2>2
<1> HIDE DEF Q
<1>18. Sorting(g, t, Q)
  BY <1>1, <1>2, <1>5, <1>6, <1>9, <1>14, <1>15, <1>16, <1>17 DEF Sorting
<1> QED
  BY <1>6, <1>18 DEF t, Q, x
SortStart(g) == [queue |-> Among(DictOrder, {n \in Services : g[n].prev = <<>>}),
                 placed |-> 0,
                 left |-> [n \in Services |-> Len(g[n].prev)]]

\* The turns of the sort, as CheckDag counts them.
IsSort(g, f) ==
  /\ f[0] = SortStart(g)
  /\ \A i \in Nat : f[i + 1] = PlaceNext(g, f[i])
  /\ CheckDag(g) <=> f[Cardinality(Services)].placed = Cardinality(Services)

\* The sort begins with nothing placed and the services without predecessors queued.
LEMMA SortBegins ==
  ASSUME NEW g, Workflow(g)
  PROVE  Sorting(g, SortStart(g), {})
<1> DEFINE s == SortStart(g)
           roots == {n \in Services : g[n].prev = <<>>}
<1>1. s.queue = Among(DictOrder, roots) /\ s.placed = 0
      /\ s.left = [n \in Services |-> Len(g[n].prev)]
  BY DEF SortStart
<1>2. s.queue \in Seq(Services) /\ IsInjective(s.queue) /\ ToSet(s.queue) = Services \cap roots
  <2> HIDE DEF roots, s
  <2> QED
    BY <1>1, ServiceOrder, AmongList
<1>3. \A n \in Services : n \in ToSet(s.queue) <=> PrevNodes(g, n) = {}
  <2>1. \A n \in Services : n \in roots <=> PrevNodes(g, n) = {}
    BY WorkflowFacts
  <2> HIDE DEF roots, s
  <2> QED
    BY <1>2, <2>1
<1>4. \A n \in Services : Len(g[n].prev) = Cardinality(PrevNodes(g, n) \ {})
  <2>1. \A n \in Services : PrevNodes(g, n) \ {} = PrevNodes(g, n)
    OBVIOUS
  <2> QED
    BY <2>1, WorkflowFacts
<1>5. Cardinality({}) = 0
  BY FS_EmptySet
<1> HIDE DEF s
<1>6. s.left = [n \in Services |-> Cardinality(PrevNodes(g, n) \ {})]
  BY <1>1, <1>4
<1> QED
  BY <1>1, <1>2, <1>3, <1>5, <1>6 DEF Sorting, s

\* CheckDag is what such a sort has placed after as many turns as there are services.
LEMMA SortTurns ==
  ASSUME NEW g, Workflow(g)
  PROVE  \E f : IsSort(g, f)
<1> DEFINE start == SortStart(g)
           Round(u) == [i \in Nat |-> IF i = 0 THEN start ELSE PlaceNext(g, u[i - 1])]
           sort == CHOOSE u : u = Round(u)
           T == [queue : Seq(Services), placed : {Cardinality(P) : P \in SUBSET Services},
                 left : {[n \in Services |-> Cardinality(PrevNodes(g, n) \ P)] : P \in SUBSET Services}]
           S == {s \in T : \E P : Sorting(g, s, P)}
           F == [s \in S |-> PlaceNext(g, s)]
<1>1. ASSUME NEW P, NEW s, Sorting(g, s, P), s = [queue |-> s.queue, placed |-> s.placed, left |-> s.left]
      PROVE  s \in S
  <2>1. P \in SUBSET Services /\ s.placed = Cardinality(P) /\ s.queue \in Seq(Services)
        /\ s.left = [n \in Services |-> Cardinality(PrevNodes(g, n) \ P)]
    BY <1>1 DEF Sorting
  <2>2. s \in T
    BY <1>1, <2>1
  <2> HIDE DEF T
  <2> QED
    BY <1>1, <2>2
<1>2. start \in S
  <2>1. start = [queue |-> start.queue, placed |-> start.placed, left |-> start.left]
    BY DEF SortStart
  <2>2. Sorting(g, start, {})
    BY SortBegins
  <2> HIDE DEF S, start
  <2> QED
    BY <1>1, <2>1, <2>2
<1>3. F \in [S -> S]
  <2>1. ASSUME NEW s \in S PROVE PlaceNext(g, s) \in S
    <3> DEFINE t == PlaceNext(g, s)
    <3>1. PICK P : Sorting(g, s, P)
      OBVIOUS
    <3>2. CASE s.queue = <<>>
      <4>1. t = s
        BY <3>2 DEF PlaceNext
      <4> HIDE DEF S, t
      <4> QED
        BY <4>1 DEF t
    <3>3. CASE s.queue # <<>>
      <4>1. t = [queue |-> t.queue, placed |-> t.placed, left |-> t.left]
        BY <3>3 DEF PlaceNext
      <4>2. Sorting(g, t, P \cup {Head(s.queue)})
        BY <3>1, <3>3, TurnSorts
      <4> HIDE DEF S, t
      <4>3. t \in S
        BY <1>1, <4>1, <4>2
      <4> QED
        BY <4>3 DEF t
    <3> QED
      BY <3>2, <3>3
  <2> HIDE DEF S
  <2> QED
    BY <2>1
<1> HIDE DEF start
<1>4. PICK f : IsIteration(S, F, start, f)
  <2> HIDE DEF F, S
  <2> QED
    BY <1>2, <1>3, Iterates
<1>5. f \in [Nat -> S] /\ f[0] = start /\ \A i \in Nat : f[i + 1] = PlaceNext(g, f[i])
  <2>1. f \in [Nat -> S] /\ f[0] = start /\ \A i \in Nat : f[i + 1] = F[f[i]]
    BY <1>4 DEF IsIteration
  <2>2. \A s \in S : F[s] = PlaceNext(g, s)
    OBVIOUS
  <2> HIDE DEF F, S
  <2> QED
    BY <2>1, <2>2
<1> HIDE DEF S
<1>6. f = Round(f)
  <2>1. ASSUME NEW i \in Nat, i # 0 PROVE f[i] = PlaceNext(g, f[i - 1])
    <3>1. i - 1 \in Nat /\ (i - 1) + 1 = i
      BY <2>1
    <3> QED
      BY <1>5, <3>1
  <2> QED
    BY <1>5, <2>1
<1>7. sort = Round(sort)
  <2> HIDE DEF Round
  <2> QED
    BY <1>6
<1> HIDE DEF sort
<1>8. sort[0] = start /\ \A i \in Nat : sort[i + 1] = PlaceNext(g, sort[i])
  <2>1. ASSUME NEW i \in Nat PROVE Round(sort)[i + 1] = PlaceNext(g, sort[i])
    <3>1. i + 1 \in Nat /\ i + 1 # 0 /\ (i + 1) - 1 = i
      OBVIOUS
    <3> QED
      BY <3>1
  <2>2. Round(sort)[0] = start
    OBVIOUS
  <2> HIDE DEF Round
  <2> QED
    BY <1>7, <2>1, <2>2
<1>9. CheckDag(g) <=> sort[Cardinality(Services)].placed = Cardinality(Services)
  BY DEF CheckDag, sort, start, SortStart
<1> QED
  BY <1>8, <1>9 DEF IsSort, start

\* Where the sort stands after k turns.
LEMMA SortStands ==
  ASSUME NEW g, Workflow(g), NEW f, IsSort(g, f), NEW k \in Nat
  PROVE  \E P : Sorting(g, f[k], P) /\ (f[k].queue # <<>> => Cardinality(P) = k)
<1> DEFINE Stands(i) == \E P : Sorting(g, f[i], P) /\ (f[i].queue # <<>> => Cardinality(P) = i)
           R == {i \in Nat : Stands(i)}
<1>1. 0 \in R
  <2>1. Sorting(g, f[0], {}) /\ Cardinality({}) = 0
    BY SortBegins, FS_EmptySet DEF IsSort
  <2> QED
    BY <2>1
<1>2. ASSUME NEW i \in R PROVE i + 1 \in R
  <2> DEFINE s == f[i]
             t == f[i + 1]
  <2>1. i \in Nat /\ t = PlaceNext(g, s)
    BY DEF IsSort
  <2>2. PICK P : Sorting(g, s, P) /\ (s.queue # <<>> => Cardinality(P) = i)
    OBVIOUS
  <2> HIDE DEF s
  <2>3. CASE s.queue = <<>>
    <3>1. t = s
      BY <2>1, <2>3 DEF PlaceNext
    <3> HIDE DEF t
    <3>2. Sorting(g, t, P) /\ t.queue = <<>>
      BY <2>2, <2>3, <3>1
    <3> QED
      BY <2>1, <3>2 DEF t
  <2>4. CASE s.queue # <<>>
    <3> DEFINE Q == P \cup {Head(s.queue)}
    <3>1. Sorting(g, PlaceNext(g, s), Q) /\ Cardinality(Q) = Cardinality(P) + 1
      BY <2>2, <2>4, TurnSorts, SMTT(20)
    <3> HIDE DEF Q, t
    <3>2. Sorting(g, t, Q) /\ Cardinality(Q) = i + 1
      BY <2>1, <2>2, <2>4, <3>1
    <3> QED
      BY <2>1, <3>2 DEF t
  <2> QED
    BY <2>3, <2>4
<1> HIDE DEF R
<1>3. R = Nat
  <2>1. R \in SUBSET Nat
    BY DEF R
  <2> QED
    BY <1>1, <1>2, <2>1, AllNat
<1> QED
  BY <1>3 DEF R

\* check_dag accepts a workflow if and only if it has no cycle.
THEOREM SortFindsCycles ==
  ASSUME NEW g, Workflow(g)
  PROVE  CheckDag(g) <=> Acyclic(g)
<1> DEFINE size == Cardinality(Services)
<1>1. Nodes(g) = Services /\ Upward(g) /\ IsFiniteSet(Services)
      /\ \A n \in Services : PrevNodes(g, n) \subseteq Services
  BY WorkflowFacts, ServiceOrder DEF Workflow
<1>2. size \in Nat
  BY <1>1, FS_CardinalityType
<1>3. PICK f : IsSort(g, f)
  BY SortTurns
<1>4. CheckDag(g) <=> f[size].placed = size
  BY <1>3 DEF IsSort
<1>5. PICK P : Sorting(g, f[size], P) /\ (f[size].queue # <<>> => Cardinality(P) = size)
  <2> HIDE DEF size
  <2> QED
    BY <1>2, <1>3, SortStands
<1> DEFINE s == f[size]
<1> HIDE DEF s
<1>6. /\ P \subseteq Services /\ s.placed = Cardinality(P)
      /\ s.queue \in Seq(Services) /\ ToSet(s.queue) \cap P = {}
      /\ \A n \in Services : n \in P \cup ToSet(s.queue) <=> PrevNodes(g, n) \subseteq P
      /\ \A n \in P : \A p \in PrevNodes(g, n) : n \notin Ancestors(g, p)
  BY <1>5 DEF Sorting, s
<1>7. CheckDag(g) <=> P = Services
  <2>1. Cardinality(P) = size => P = Services
    BY <1>1, <1>6, FS_Subset
  <2> QED
    BY <1>4, <1>6, <2>1 DEF s
<1>8. s.queue = <<>>
  <2> SUFFICES ASSUME s.queue # <<>> PROVE FALSE
    OBVIOUS
  <2>1. Cardinality(P) = size
    BY <1>5 DEF s
  <2>2. P = Services
    BY <1>1, <1>6, <2>1, FS_Subset
  <2>3. Head(s.queue) \in Services /\ Head(s.queue) \in ToSet(s.queue)
    BY <1>6, TailOfList
  <2> QED
    BY <1>6, <2>2, <2>3
<1>9. ASSUME P = Services PROVE Acyclic(g)
  BY <1>1, <1>6, <1>9 DEF Acyclic
<1>10. ASSUME Acyclic(g), P # Services PROVE FALSE
  <2> DEFINE G == Services \ P
  <2>1. G # {} /\ G \in SUBSET Nodes(g)
    BY <1>1, <1>6, <1>10
  <2> HIDE DEF G
  <2>2. PICK n \in G : \A p \in PrevNodes(g, n) : p \notin G
    BY <1>1, <1>10, <2>1, FirstNode
  <2> USE DEF G
  <2>3. n \in Services /\ n \notin P /\ PrevNodes(g, n) \subseteq P
    BY <1>1, <2>2
  <2> QED
    BY <1>6, <1>8, <2>3, EmptyList
<1> QED
  BY <1>7, <1>9, <1>10
-----------------------------------------------------------------------------
(* The DAG the runtime builds from a workflow.                             *)

\* Lists over the nodes that name none twice.
Lists(d) ==
  /\ Nodes(d) = AllNodes
  /\ \A n \in AllNodes : /\ d[n].prev \in Seq(AllNodes) /\ IsInjective(d[n].prev)
                         /\ d[n].next \in Seq(AllNodes) /\ IsInjective(d[n].next)

\* The repair makes the lists agree: a node is entered where it is missing, once.
LEMMA RepairMatches ==
  ASSUME NEW d, Lists(d)
  PROVE  LET b == Repair(d)
         IN  /\ Lists(b) /\ Matched(b)
             /\ \A n \in AllNodes :
                  /\ PrevNodes(b, n) = PrevNodes(d, n) \cup {p \in AllNodes : n \in NextNodes(d, p)}
                  /\ NextNodes(b, n) = NextNodes(d, n) \cup {c \in AllNodes : n \in PrevNodes(d, c)}
<1> DEFINE b == Repair(d)
           Above(n) == {p \in AllNodes : n \in NextNodes(d, p)}
           Below(n) == {c \in AllNodes : n \in PrevNodes(d, c)}
<1>1. Nodes(b) = AllNodes
  BY DEF Repair, Nodes, Lists
<1>2. ASSUME NEW n \in AllNodes
      PROVE  /\ b[n].prev = d[n].prev \o Among(NodeOrder, Above(n) \ PrevNodes(d, n))
             /\ b[n].next = d[n].next \o Among(NodeOrder, Below(n) \ NextNodes(d, n))
  BY DEF Repair, Lists
<1> HIDE DEF b
<1>3. ASSUME NEW list \in Seq(AllNodes), IsInjective(list), NEW V \in SUBSET AllNodes
      PROVE  LET l == list \o Among(NodeOrder, V \ ToSet(list))
             IN  l \in Seq(AllNodes) /\ IsInjective(l) /\ ToSet(l) = ToSet(list) \cup V
  <2> DEFINE W == V \ ToSet(list)
             more == Among(NodeOrder, W)
  <2>1. ToSet(list) \cap W = {} /\ AllNodes \cap W = W
    OBVIOUS
  <2>2. ToSet(list) \cup W = ToSet(list) \cup V
    OBVIOUS
  <2> HIDE DEF W
  <2>3. more \in Seq(AllNodes) /\ IsInjective(more) /\ ToSet(more) = W
    <3> DEFINE order == NodeOrder
    <3>1. order \in Seq(AllNodes) /\ IsInjective(order) /\ ToSet(order) = AllNodes
      BY EveryNodeOrder
    <3> HIDE DEF order
    <3>2. /\ Among(order, W) \in Seq(AllNodes) /\ IsInjective(Among(order, W))
          /\ ToSet(Among(order, W)) = ToSet(order) \cap W
      BY <3>1, AmongList
    <3> QED
      BY <2>1, <3>1, <3>2 DEF order
  <2> HIDE DEF more
  <2>4. list \o more \in Seq(AllNodes) /\ IsInjective(list \o more)
        /\ ToSet(list \o more) = ToSet(list) \cup ToSet(more)
    BY <1>3, <2>1, <2>3, JoinedLists
  <2> QED
    BY <2>2, <2>3, <2>4 DEF more, W
<1>4. ASSUME NEW n \in AllNodes
      PROVE  /\ b[n].prev \in Seq(AllNodes) /\ IsInjective(b[n].prev)
             /\ b[n].next \in Seq(AllNodes) /\ IsInjective(b[n].next)
             /\ PrevNodes(b, n) = PrevNodes(d, n) \cup Above(n)
             /\ NextNodes(b, n) = NextNodes(d, n) \cup Below(n)
  <2>1. /\ d[n].prev \in Seq(AllNodes) /\ IsInjective(d[n].prev)
        /\ d[n].next \in Seq(AllNodes) /\ IsInjective(d[n].next)
        /\ Above(n) \in SUBSET AllNodes /\ Below(n) \in SUBSET AllNodes
    BY DEF Lists
  <2> DEFINE prev == d[n].prev
             next == d[n].next
             above == Above(n)
             below == Below(n)
  <2>2. /\ b[n].prev = prev \o Among(NodeOrder, above \ ToSet(prev))
        /\ b[n].next = next \o Among(NodeOrder, below \ ToSet(next))
    BY <1>2 DEF PrevNodes, NextNodes
  <2>3. PrevNodes(d, n) = ToSet(prev) /\ NextNodes(d, n) = ToSet(next)
        /\ PrevNodes(b, n) = ToSet(b[n].prev) /\ NextNodes(b, n) = ToSet(b[n].next)
    BY DEF PrevNodes, NextNodes
  <2> HIDE DEF prev, next, above, below
  <2>4. /\ prev \in Seq(AllNodes) /\ IsInjective(prev) /\ above \in SUBSET AllNodes
        /\ next \in Seq(AllNodes) /\ IsInjective(next) /\ below \in SUBSET AllNodes
    BY <2>1 DEF prev, next, above, below
  <2>5. b[n].prev \in Seq(AllNodes) /\ IsInjective(b[n].prev) /\ ToSet(b[n].prev) = ToSet(prev) \cup above
    BY <1>3, <2>2, <2>4
  <2>6. b[n].next \in Seq(AllNodes) /\ IsInjective(b[n].next) /\ ToSet(b[n].next) = ToSet(next) \cup below
    BY <1>3, <2>2, <2>4
  <2> QED
    BY <2>3, <2>5, <2>6 DEF above, below
<1>5. \A n \in AllNodes : PrevNodes(d, n) \subseteq AllNodes /\ NextNodes(d, n) \subseteq AllNodes
  BY ListInSet DEF Lists, PrevNodes, NextNodes
<1>6. ASSUME NEW n \in AllNodes, NEW m \in AllNodes
      PROVE  n \in PrevNodes(b, m) <=> m \in NextNodes(b, n)
  BY <1>4
<1>7. Lists(b) /\ Matched(b)
  BY <1>1, <1>4, <1>6 DEF Lists, Matched
<1> QED
  BY <1>4, <1>7 DEF b

Entry(g) == {n \in Services : PrevNodes(g, n) = {}}

\* What the two ends do to the lists before the repair: with both lists of the dict
\* or with the children only, when predecessors other than the start are missing.
EndsOf(g, d) ==
  /\ Lists(d)
  /\ \A n \in Services :
       /\ NextNodes(d, n) = IF NextNodes(g, n) = {} THEN {End} ELSE NextNodes(g, n)
       /\ PrevNodes(g, n) = {} => PrevNodes(d, n) = {Start}
       /\ PrevNodes(g, n) # {} => PrevNodes(d, n) \subseteq PrevNodes(g, n)
  /\ PrevNodes(d, Start) = {}
  /\ NextNodes(d, Start) = IF Entry(g) = {} THEN {End} ELSE Entry(g)
  /\ NextNodes(d, End) = {}
  /\ PrevNodes(d, End) = {n \in Services : NextNodes(g, n) = {}}
                           \cup (IF Entry(g) = {} THEN {Start} ELSE {})

\* The start node comes in before every entry.
LEMMA StartAdded ==
  ASSUME NEW g, Workflow(g), NEW both \in BOOLEAN
  PROVE  LET a == AddStart(FromDict(g, both))
         IN  /\ Nodes(a) = Services \cup {Start}
             /\ a[Start] = [prev |-> <<>>, next |-> Among(DictOrder, Entry(g))]
             /\ \A n \in Services :
                  /\ a[n].next = g[n].next /\ a[n] = [prev |-> a[n].prev, next |-> g[n].next]
                  /\ PrevNodes(g, n) = {} => a[n].prev = <<Start>>
                  /\ PrevNodes(g, n) # {} => a[n].prev = g[n].prev \/ a[n].prev = <<>>
<1> DEFINE o == FromDict(g, both)
           a == AddStart(o)
<1>1. Start \notin Services
  BY ServicesAssumption DEF ServicesAssumption
<1>2. ASSUME NEW n \in Services
      PROVE  /\ o[n] = [prev |-> o[n].prev, next |-> g[n].next] /\ o[n].next = g[n].next
             /\ o[n].prev = g[n].prev \/ o[n].prev = <<>>
             /\ PrevNodes(g, n) = {} => o[n].prev = <<>>
  <2>1. g[n] = [prev |-> g[n].prev, next |-> g[n].next]
    BY DEF Workflow
  <2>2. g[n].prev = <<>> <=> PrevNodes(g, n) = {}
    BY WorkflowFacts
  <2>3. o[n] = IF both THEN g[n] ELSE [g[n] EXCEPT !.prev = <<>>]
    BY DEF FromDict
  <2> HIDE DEF o
  <2>4. CASE both
    BY <2>1, <2>2, <2>3, <2>4
  <2>5. CASE ~both
    <3>1. o[n] = [g[n] EXCEPT !.prev = <<>>]
      BY <2>3, <2>5
    <3> DEFINE r == g[n]
               rp == g[n].prev
               rn == g[n].next
    <3>2. r = [prev |-> rp, next |-> rn] /\ o[n] = [r EXCEPT !.prev = <<>>] /\ g[n].next = rn
      BY <2>1, <3>1
    <3> HIDE DEF r, rp, rn
    <3>3. o[n] = [prev |-> <<>>, next |-> rn]
      BY <3>2
    <3> QED
      BY <3>2, <3>3
  <2> QED
    BY <2>4, <2>5
<1>3. Entries(o) = Entry(g)
  <2>1. \A n \in Services : NextNodes(o, n) = NextNodes(g, n)
    BY <1>2 DEF NextNodes
  <2>2. \A n \in Services : \A m \in Services : n \in PrevNodes(g, m) <=> m \in NextNodes(g, n)
    BY DEF Workflow, Matched
  <2>3. \A n \in Services : PrevNodes(g, n) \subseteq Services
    BY WorkflowFacts
  <2> HIDE DEF o
  <2> QED
    BY <2>1, <2>2, <2>3 DEF Entries, Entry
<1> HIDE DEF o
<1>4. Nodes(a) = Services \cup {Start}
  BY DEF AddStart, Nodes
<1>5. a[Start] = [prev |-> <<>>, next |-> Among(DictOrder, Entry(g))]
  <2> DEFINE e == Entries(o)
  <2>1. a = [m \in Services \cup {Start} |->
               CASE m = Start -> [prev |-> <<>>, next |-> Among(DictOrder, e)]
                 [] m \in e -> [o[m] EXCEPT !.prev = Append(o[m].prev, Start)]
                 [] OTHER -> o[m]]
    BY DEF AddStart
  <2>2. e = Entry(g) /\ Start \notin e
    BY <1>1, <1>3 DEF Entry
  <2> HIDE DEF a, e
  <2>3. a[Start] = [prev |-> <<>>, next |-> Among(DictOrder, e)]
    BY <2>1, <2>2
  <2> QED
    BY <2>2, <2>3
<1>6. ASSUME NEW n \in Services
      PROVE  /\ a[n].next = g[n].next /\ a[n] = [prev |-> a[n].prev, next |-> g[n].next]
             /\ PrevNodes(g, n) = {} => a[n].prev = <<Start>>
             /\ PrevNodes(g, n) # {} => a[n].prev = g[n].prev \/ a[n].prev = <<>>
  <2>1. n # Start
    BY <1>1
  <2>2. /\ n \in Entry(g) => a[n] = [o[n] EXCEPT !.prev = Append(o[n].prev, Start)]
        /\ n \notin Entry(g) => a[n] = o[n]
    <3> DEFINE e == Entries(o)
    <3>1. a = [m \in Services \cup {Start} |->
                 CASE m = Start -> [prev |-> <<>>, next |-> Among(DictOrder, e)]
                   [] m \in e -> [o[m] EXCEPT !.prev = Append(o[m].prev, Start)]
                   [] OTHER -> o[m]]
      BY DEF AddStart
    <3>2. e = Entry(g)
      BY <1>3
    <3> HIDE DEF a, e
    <3>3. ASSUME n \in e PROVE a[n] = [o[n] EXCEPT !.prev = Append(o[n].prev, Start)]
      BY <2>1, <3>1, <3>3
    <3>4. ASSUME n \notin e PROVE a[n] = o[n]
      BY <2>1, <3>1, <3>4
    <3> QED
      BY <3>2, <3>3, <3>4
  <2>3. n \in Entry(g) <=> PrevNodes(g, n) = {}
    BY DEF Entry
  <2> HIDE DEF a
  <2>4. CASE n \in Entry(g)
    <3>1. o[n] = [prev |-> <<>>, next |-> g[n].next]
      BY <1>2, <2>3, <2>4
    <3>2. a[n] = [prev |-> <<Start>>, next |-> g[n].next]
      BY <2>2, <2>4, <3>1
    <3> QED
      BY <2>3, <2>4, <3>2
  <2>5. CASE n \notin Entry(g)
    BY <1>2, <2>2, <2>3, <2>5
  <2> QED
    BY <2>4, <2>5
<1> QED
  BY <1>4, <1>5, <1>6 DEF a, o
\* And the end node after everything without children.
LEMMA EndsAdded ==
  ASSUME NEW g, Workflow(g), NEW both \in BOOLEAN
  PROVE  EndsOf(g, AddEnd(AddStart(FromDict(g, both))))
<1> DEFINE a == AddStart(FromDict(g, both))
           d == AddEnd(a)
           X == {n \in Nodes(a) : a[n].next = <<>>}
           M == Services \cup {Start}
           order == Append(DictOrder, Start)
           entry == Entry(g)
<1>1. /\ Nodes(a) = M
      /\ a[Start] = [prev |-> <<>>, next |-> Among(DictOrder, entry)]
      /\ \A n \in Services :
           /\ a[n].next = g[n].next /\ a[n] = [prev |-> a[n].prev, next |-> g[n].next]
           /\ PrevNodes(g, n) = {} => a[n].prev = <<Start>>
           /\ PrevNodes(g, n) # {} => a[n].prev = g[n].prev \/ a[n].prev = <<>>
  BY StartAdded
<1> HIDE DEF a
<1>2. Start # End /\ Start \notin Services /\ End \notin Services /\ End \notin M
  BY ServicesAssumption DEF ServicesAssumption
<1>3. M \subseteq AllNodes /\ AllNodes = M \cup {End} /\ Start \in AllNodes /\ End \in AllNodes
      /\ Services \subseteq AllNodes
  BY DEF AllNodes
<1>4. d = [n \in M \cup {End} |->
             CASE n = End -> [prev |-> Among(order, X), next |-> <<>>]
               [] n \in X -> [a[n] EXCEPT !.next = <<End>>]
               [] OTHER -> a[n]]
  BY <1>1 DEF AddEnd
<1>5. X \subseteq M /\ End \notin X
  BY <1>1, <1>2
<1>6. /\ order \in Seq(AllNodes) /\ IsInjective(order) /\ ToSet(order) = M
  <2>1. DictOrder \in Seq(AllNodes) /\ IsInjective(DictOrder) /\ ToSet(DictOrder) = Services
    BY <1>3, ServiceOrder
  <2>2. Start \in AllNodes /\ Start \notin ToSet(DictOrder)
    BY <1>2, <1>3, <2>1
  <2> HIDE DEF M
  <2>3. order \in Seq(AllNodes) /\ ToSet(order) = ToSet(DictOrder) \cup {Start} /\ IsInjective(order)
    BY <2>1, <2>2, AppendedList
  <2> QED
    BY <2>1, <2>3 DEF M
<1> DEFINE last1 == Among(order, X)
<1>7. last1 \in Seq(AllNodes) /\ IsInjective(last1) /\ ToSet(last1) = X
  <2>1. M \cap X = X
    BY <1>5
  <2> HIDE DEF order, X, M
  <2> QED
    BY <1>6, <2>1, AmongList
<1> DEFINE first == Among(DictOrder, entry)
<1>8. first \in Seq(AllNodes) /\ IsInjective(first) /\ ToSet(first) = entry
      /\ (first = <<>> <=> entry = {})
  <2>1. DictOrder \in Seq(AllNodes) /\ IsInjective(DictOrder) /\ ToSet(DictOrder) = Services
    BY <1>3, ServiceOrder
  <2>2. Services \cap entry = entry
    BY DEF Entry
  <2> HIDE DEF entry
  <2>3. first \in Seq(AllNodes) /\ IsInjective(first) /\ ToSet(first) = entry
    BY <2>1, <2>2, AmongList
  <2> QED
    BY <2>3, NothingInList
<1> HIDE DEF last1, first, entry
<1>9. a[Start] = [prev |-> <<>>, next |-> first]
  BY <1>1 DEF first
<1>10. Start \in X <=> entry = {}
  BY <1>1, <1>8, <1>9
<1>11. \A n \in Services : n \in X <=> NextNodes(g, n) = {}
  <2>1. \A n \in Services : g[n].next = <<>> <=> NextNodes(g, n) = {}
    BY WorkflowFacts
  <2> QED
    BY <1>1, <2>1
<1>12. d[End] = [prev |-> last1, next |-> <<>>]
  <2> HIDE DEF d, X
  <2> QED
    BY <1>4, <1>5 DEF last1
<1>13. ASSUME NEW n \in M
       PROVE  /\ n \in X => d[n] = [a[n] EXCEPT !.next = <<End>>]
              /\ n \notin X => d[n] = a[n]
  <2>1. n # End
    BY <1>2
  <2> HIDE DEF d, X
  <2> QED
    BY <1>4, <2>1
<1>14. Nodes(d) = AllNodes
  <2> HIDE DEF d, X
  <2> QED
    BY <1>3, <1>4 DEF Nodes
<1> HIDE DEF d, X
<1>15. <<End>> \in Seq(AllNodes) /\ IsInjective(<<End>>) /\ ToSet(<<End>>) = {End}
       /\ <<Start>> \in Seq(AllNodes) /\ IsInjective(<<Start>>) /\ ToSet(<<Start>>) = {Start}
       /\ <<>> \in Seq(AllNodes) /\ IsInjective(<<>>) /\ ToSet(<<>>) = {}
  BY <1>3, OneList, EmptyList
<1>16. ASSUME NEW n \in Services
       PROVE  /\ d[n].prev = a[n].prev
              /\ NextNodes(g, n) = {} => d[n].next = <<End>>
              /\ NextNodes(g, n) # {} => d[n].next = g[n].next
  <2>1. n \in M /\ a[n] = [prev |-> a[n].prev, next |-> g[n].next] /\ a[n].next = g[n].next
    BY <1>1
  <2>2. CASE n \in X
    <3>1. d[n] = [prev |-> a[n].prev, next |-> <<End>>]
      BY <1>13, <2>1, <2>2
    <3> QED
      BY <1>11, <2>2, <3>1
  <2>3. CASE n \notin X
    BY <1>11, <1>13, <2>1, <2>3
  <2> QED
    BY <2>2, <2>3
<1>17. /\ d[Start].prev = <<>>
       /\ entry = {} => d[Start].next = <<End>>
       /\ entry # {} => d[Start].next = first
  <2>1. Start \in M
    OBVIOUS
  <2>2. CASE Start \in X
    <3>1. d[Start] = [prev |-> <<>>, next |-> <<End>>]
      BY <1>9, <1>13, <2>1, <2>2
    <3> QED
      BY <1>10, <2>2, <3>1
  <2>3. CASE Start \notin X
    <3>1. d[Start] = a[Start]
      BY <1>13, <2>1, <2>3
    <3>2. d[Start].prev = <<>> /\ d[Start].next = first
      BY <1>9, <3>1
    <3> QED
      BY <1>10, <2>3, <3>2
  <2> QED
    BY <2>2, <2>3
<1>18. ASSUME NEW n \in Services
       PROVE  /\ d[n].prev \in Seq(AllNodes) /\ IsInjective(d[n].prev)
              /\ d[n].next \in Seq(AllNodes) /\ IsInjective(d[n].next)
              /\ NextNodes(d, n) = IF NextNodes(g, n) = {} THEN {End} ELSE NextNodes(g, n)
              /\ PrevNodes(g, n) = {} => PrevNodes(d, n) = {Start}
              /\ PrevNodes(g, n) # {} => PrevNodes(d, n) \subseteq PrevNodes(g, n)
  <2>1. /\ g[n].prev \in Seq(Services) /\ IsInjective(g[n].prev)
        /\ g[n].next \in Seq(Services) /\ IsInjective(g[n].next)
    BY DEF Workflow
  <2>2. g[n].prev \in Seq(AllNodes) /\ g[n].next \in Seq(AllNodes)
    BY <1>3, <2>1
  <2>3. d[n].prev = <<Start>> \/ d[n].prev = g[n].prev \/ d[n].prev = <<>>
    BY <1>1, <1>16
  <2>4. d[n].next = <<End>> \/ d[n].next = g[n].next
    BY <1>16
  <2>5. PrevNodes(g, n) = {} => d[n].prev = <<Start>>
    BY <1>1, <1>16
  <2>6. PrevNodes(g, n) # {} => d[n].prev = g[n].prev \/ d[n].prev = <<>>
    BY <1>1, <1>16
  <2>7. NextNodes(d, n) = IF NextNodes(g, n) = {} THEN {End} ELSE NextNodes(g, n)
    BY <1>15, <1>16 DEF NextNodes
  <2>8. PrevNodes(g, n) = {} => PrevNodes(d, n) = {Start}
    BY <1>15, <2>5 DEF PrevNodes
  <2>9. PrevNodes(g, n) # {} => PrevNodes(d, n) \subseteq PrevNodes(g, n)
    BY <1>15, <2>6 DEF PrevNodes
  <2>10. d[n].prev \in Seq(AllNodes) /\ IsInjective(d[n].prev)
    BY <1>15, <2>1, <2>2, <2>3
  <2>11. d[n].next \in Seq(AllNodes) /\ IsInjective(d[n].next)
    BY <1>15, <2>1, <2>2, <2>4
  <2> QED
    BY <2>7, <2>8, <2>9, <2>10, <2>11
<1>19. /\ d[Start].prev \in Seq(AllNodes) /\ IsInjective(d[Start].prev)
       /\ d[Start].next \in Seq(AllNodes) /\ IsInjective(d[Start].next)
       /\ PrevNodes(d, Start) = {}
       /\ NextNodes(d, Start) = IF entry = {} THEN {End} ELSE entry
  BY <1>8, <1>15, <1>17 DEF PrevNodes, NextNodes
<1>20. /\ d[End].prev \in Seq(AllNodes) /\ IsInjective(d[End].prev)
       /\ d[End].next \in Seq(AllNodes) /\ IsInjective(d[End].next)
       /\ PrevNodes(d, End) = X /\ NextNodes(d, End) = {}
  BY <1>7, <1>12, <1>15 DEF PrevNodes, NextNodes
<1>21. Lists(d)
  BY <1>14, <1>18, <1>19, <1>20 DEF Lists, AllNodes
<1>22. X = {n \in Services : NextNodes(g, n) = {}} \cup (IF entry = {} THEN {Start} ELSE {})
  BY <1>2, <1>5, <1>10, <1>11
<1>23. /\ \A n \in Services :
            /\ NextNodes(d, n) = IF NextNodes(g, n) = {} THEN {End} ELSE NextNodes(g, n)
            /\ PrevNodes(g, n) = {} => PrevNodes(d, n) = {Start}
            /\ PrevNodes(g, n) # {} => PrevNodes(d, n) \subseteq PrevNodes(g, n)
       /\ PrevNodes(d, End) = {n \in Services : NextNodes(g, n) = {}}
                                \cup (IF entry = {} THEN {Start} ELSE {})
  BY <1>18, <1>20, <1>22
<1> QED
  BY <1>19, <1>20, <1>21, <1>23 DEF EndsOf, d, a, entry
\* What the repair makes of it: the workflow between its two ends.
Built(g, b) ==
  /\ Lists(b) /\ Matched(b)
  /\ \A n \in Services :
       PrevNodes(b, n) = IF PrevNodes(g, n) = {} THEN {Start} ELSE PrevNodes(g, n)
  /\ PrevNodes(b, Start) = {}
  /\ PrevNodes(b, End) = {n \in Services : NextNodes(g, n) = {}}
                           \cup (IF Entry(g) = {} THEN {Start} ELSE {})

\* Whichever lists the dict came with, the same DAG is built.
LEMMA WorkflowBuilt ==
  ASSUME NEW g, Workflow(g), NEW both \in BOOLEAN
  PROVE  Built(g, BuildDag(FromDict(g, both)))
<1> DEFINE d == AddEnd(AddStart(FromDict(g, both)))
           b == Repair(d)
<1>1. EndsOf(g, d)
  BY EndsAdded
<1> HIDE DEF d
<1>2. /\ Lists(d)
      /\ \A n \in Services :
           /\ NextNodes(d, n) = IF NextNodes(g, n) = {} THEN {End} ELSE NextNodes(g, n)
           /\ PrevNodes(g, n) = {} => PrevNodes(d, n) = {Start}
           /\ PrevNodes(g, n) # {} => PrevNodes(d, n) \subseteq PrevNodes(g, n)
      /\ PrevNodes(d, Start) = {}
      /\ NextNodes(d, Start) = IF Entry(g) = {} THEN {End} ELSE Entry(g)
      /\ NextNodes(d, End) = {}
      /\ PrevNodes(d, End) = {n \in Services : NextNodes(g, n) = {}}
                               \cup (IF Entry(g) = {} THEN {Start} ELSE {})
  BY <1>1 DEF EndsOf
<1>3. /\ Lists(b) /\ Matched(b)
      /\ \A n \in AllNodes :
           PrevNodes(b, n) = PrevNodes(d, n) \cup {p \in AllNodes : n \in NextNodes(d, p)}
  BY <1>2, RepairMatches
<1> HIDE DEF b
<1>4. Start # End /\ Start \notin Services /\ End \notin Services
  BY ServicesAssumption DEF ServicesAssumption
<1>5. Services \subseteq AllNodes /\ AllNodes = Services \cup {Start, End}
  BY DEF AllNodes
<1>6. \A n \in Services : \A m \in Services : n \in PrevNodes(g, m) <=> m \in NextNodes(g, n)
  BY DEF Workflow, Matched
<1>7. \A n \in Services : PrevNodes(g, n) \subseteq Services /\ NextNodes(g, n) \subseteq Services
  BY WorkflowFacts
<1>8. Entry(g) \subseteq Services /\ \A n \in Services : n \in Entry(g) <=> PrevNodes(g, n) = {}
  BY DEF Entry
<1>9. ASSUME NEW n \in Services
      PROVE  PrevNodes(b, n) = IF PrevNodes(g, n) = {} THEN {Start} ELSE PrevNodes(g, n)
  <2>1. n # End
    BY <1>4
  <2>2. \A p \in Services : n \in NextNodes(d, p) <=> p \in PrevNodes(g, n)
    BY <1>2, <1>6, <2>1
  <2>3. n \notin NextNodes(d, End) /\ (n \in NextNodes(d, Start) <=> PrevNodes(g, n) = {})
    BY <1>2, <1>8, <2>1
  <2>4. {p \in AllNodes : n \in NextNodes(d, p)} = IF PrevNodes(g, n) = {} THEN {Start} ELSE PrevNodes(g, n)
    BY <1>4, <1>5, <1>7, <2>2, <2>3
  <2> QED
    BY <1>2, <1>3, <1>5, <2>4
<1>10. PrevNodes(b, Start) = {}
  <2>1. ASSUME NEW p \in AllNodes PROVE Start \notin NextNodes(d, p)
    BY <1>2, <1>4, <1>5, <1>7, <1>8
  <2> QED
    BY <1>2, <1>3, <1>5, <2>1
<1>11. PrevNodes(b, End) = PrevNodes(d, End)
  <2>1. ASSUME NEW p \in AllNodes, End \in NextNodes(d, p) PROVE p \in PrevNodes(d, End)
    BY <1>2, <1>4, <1>5, <1>7, <1>8, <2>1
  <2> DEFINE U == {p \in AllNodes : End \in NextNodes(d, p)}
  <2>2. PrevNodes(b, End) = PrevNodes(d, End) \cup U
    BY <1>3, <1>5
  <2>3. U \subseteq PrevNodes(d, End)
    BY <2>1
  <2> HIDE DEF U
  <2> QED
    BY <2>2, <2>3
<1>12. Built(g, b)
  BY <1>2, <1>3, <1>9, <1>10, <1>11 DEF Built
<1> QED
  BY <1>12 DEF BuildDag, b, d

\* A DAG whose nodes can be ranked above their predecessors has no cycle.
LEMMA RankedAcyclic ==
  ASSUME NEW b, Upward(b), NEW rank \in [Nodes(b) -> Nat],
         \A n \in Nodes(b) : \A p \in PrevNodes(b, n) : rank[p] < rank[n]
  PROVE  Acyclic(b)
<1>1. ASSUME NEW n \in Nodes(b), NEW p \in PrevNodes(b, n) PROVE n \notin Ancestors(b, p)
  <2> DEFINE B == {m \in Nodes(b) : rank[m] <= rank[p]}
  <2>1. \A m \in Nodes(b) : PrevNodes(b, m) \subseteq Nodes(b)
    BY DEF Upward
  <2>2. p \in Nodes(b) /\ B \in SUBSET Nodes(b) /\ p \in B
    BY <2>1
  <2>3. ASSUME NEW m \in B PROVE PrevNodes(b, m) \subseteq B
    BY <2>1, <2>2
  <2>4. n \notin B
    BY <2>1, <2>2
  <2> HIDE DEF B
  <2>5. Ancestors(b, p) \subseteq B
    BY <2>2, <2>3, AncestorsClosure
  <2> QED
    BY <2>4, <2>5
<1> QED
  BY <1>1 DEF Acyclic

\* What Enclosed says of a DAG.
IsEnclosed(b) ==
  /\ \A n \in Nodes(b) :
       /\ b[n].prev \in Seq(Nodes(b)) /\ b[n].next \in Seq(Nodes(b))
       /\ Len(b[n].prev) = Cardinality(PrevNodes(b, n))
       /\ Len(b[n].next) = Cardinality(NextNodes(b, n))
       /\ \A m \in Nodes(b) : n \in PrevNodes(b, m) <=> m \in NextNodes(b, n)
       /\ b[n].prev = <<>> <=> n = Start
       /\ b[n].next = <<>> <=> n = End
  /\ \A n \in NextNodes(b, Start) : b[n].prev = <<Start>>
  /\ \A n \in Nodes(b) : \A p \in PrevNodes(b, n) : n \notin Ancestors(b, p)

\* What the controllers can rely on.
Sound(b) ==
  /\ Lists(b) /\ Matched(b) /\ Acyclic(b) /\ Upward(b) /\ Downward(b)
  /\ \A n \in AllNodes : /\ PrevNodes(b, n) = {} <=> n = Start
                         /\ NextNodes(b, n) = {} <=> n = End
  /\ \A n \in NextNodes(b, Start) : PrevNodes(b, n) = {Start}

\* Lists over finitely many nodes stay among them.
LEMMA ListsClosed ==
  ASSUME NEW b, Lists(b)
  PROVE  /\ Listed(b) /\ Upward(b) /\ Downward(b)
         /\ \A n \in AllNodes : /\ b[n].prev = <<>> <=> PrevNodes(b, n) = {}
                                /\ b[n].next = <<>> <=> NextNodes(b, n) = {}
                                /\ Len(b[n].prev) = Cardinality(PrevNodes(b, n))
                                /\ Len(b[n].next) = Cardinality(NextNodes(b, n))
<1>1. Nodes(b) = AllNodes /\ IsFiniteSet(AllNodes)
  BY EveryNodeOrder DEF Lists
<1>2. Listed(b)
  BY <1>1 DEF Lists, Listed
<1>3. ASSUME NEW n \in AllNodes
      PROVE  /\ NextNodes(b, n) \subseteq AllNodes
             /\ b[n].prev = <<>> <=> PrevNodes(b, n) = {}
             /\ b[n].next = <<>> <=> NextNodes(b, n) = {}
             /\ Len(b[n].prev) = Cardinality(PrevNodes(b, n))
             /\ Len(b[n].next) = Cardinality(NextNodes(b, n))
  <2>1. /\ b[n].prev \in Seq(AllNodes) /\ IsInjective(b[n].prev)
        /\ b[n].next \in Seq(AllNodes) /\ IsInjective(b[n].next)
    BY DEF Lists
  <2> QED
    BY <2>1, ListInSet, NothingInList, ListLength DEF PrevNodes, NextNodes
<1>4. Downward(b)
  BY <1>1, <1>3 DEF Downward
<1> QED
  BY <1>2, <1>3, <1>4, ListedUpward
\* What is built from a workflow without a cycle is sound.
LEMMA BuiltSound ==
  ASSUME NEW g, Workflow(g), Acyclic(g), NEW b, Built(g, b)
  PROVE  Sound(b)
<1> DEFINE size == Cardinality(Services)
           rank == [n \in AllNodes |-> IF n = Start THEN 0
                                       ELSE IF n = End THEN size + 1 ELSE Height(g, n)]
<1>1. Start # End /\ Start \notin Services /\ End \notin Services
  BY ServicesAssumption DEF ServicesAssumption
<1>2. AllNodes = Services \cup {Start, End}
  BY DEF AllNodes
<1>3. Nodes(g) = Services /\ Upward(g) /\ Matched(g) /\ IsFiniteSet(Services)
      /\ \A n \in Services : PrevNodes(g, n) \subseteq Services /\ NextNodes(g, n) \subseteq Services
  BY WorkflowFacts, ServiceOrder DEF Workflow
<1>4. /\ Lists(b) /\ Matched(b)
      /\ \A n \in Services :
           PrevNodes(b, n) = IF PrevNodes(g, n) = {} THEN {Start} ELSE PrevNodes(g, n)
      /\ PrevNodes(b, Start) = {}
      /\ PrevNodes(b, End) = {n \in Services : NextNodes(g, n) = {}}
                               \cup (IF Entry(g) = {} THEN {Start} ELSE {})
  BY DEF Built
<1>5. Nodes(b) = AllNodes /\ Upward(b) /\ Downward(b)
  BY <1>4, ListsClosed DEF Lists
<1>6. size \in Nat /\ \A n \in Services :
        /\ Height(g, n) \in Nat /\ Height(g, n) <= size /\ Height(g, n) # 0
        /\ \A p \in PrevNodes(g, n) : Height(g, p) < Height(g, n)
  <2>1. \A n \in Services :
        /\ Height(g, n) \in Nat /\ Height(g, n) <= size
        /\ \A p \in PrevNodes(g, n) : Height(g, p) < Height(g, n)
    BY <1>3, HeightGrows
  <2>2. ASSUME NEW n \in Services PROVE Height(g, n) # 0
    <3>1. n \in Ancestors(g, n) /\ Ancestors(g, n) \subseteq Services
      BY <1>3, AncestorsClosure
    <3>2. IsFiniteSet(Ancestors(g, n))
      BY <1>3, <3>1, FS_Subset
    <3> QED
      BY <3>1, <3>2, FS_EmptySet DEF Height
  <2> QED
    BY <1>3, <2>1, <2>2, FS_CardinalityType
<1> HIDE DEF size
<1>7. rank \in [Nodes(b) -> Nat]
  BY <1>2, <1>5, <1>6
<1>8. rank[Start] = 0 /\ rank[End] = size + 1 /\ \A n \in Services : rank[n] = Height(g, n)
  BY <1>1, <1>2
<1> HIDE DEF rank
<1>9. ASSUME NEW n \in AllNodes, NEW p \in PrevNodes(b, n) PROVE rank[p] < rank[n]
  <2>1. CASE n = Start
    BY <1>4, <2>1
  <2>2. CASE n = End
    <3>1. p = Start \/ p \in Services
      BY <1>4, <2>2
    <3> QED
      BY <1>6, <1>8, <2>2, <3>1
  <2>3. CASE n \in Services
    <3>1. CASE p = Start
      BY <1>6, <1>8, <2>3, <3>1
    <3>2. CASE p # Start
      <4>1. p \in PrevNodes(g, n) /\ p \in Services
        BY <1>3, <1>4, <2>3, <3>2
      <4> QED
        BY <1>6, <1>8, <2>3, <4>1
    <3> QED
      BY <3>1, <3>2
  <2> QED
    BY <1>2, <2>1, <2>2, <2>3
<1>10. Acyclic(b)
  BY <1>5, <1>7, <1>9, RankedAcyclic
<1>11. Entry(g) = {} => Services = {}
  <2> SUFFICES ASSUME Services # {} PROVE Entry(g) # {}
    OBVIOUS
  <2>1. Services \in SUBSET Nodes(g)
    BY <1>3
  <2>2. PICK n \in Services : \A p \in PrevNodes(g, n) : p \notin Services
    BY <1>3, <2>1, FirstNode
  <2>3. PrevNodes(g, n) = {}
    BY <1>3, <2>2
  <2> QED
    BY <2>3 DEF Entry
<1>12. PrevNodes(b, End) # {}
  <2>1. CASE Services = {}
    <3>1. Entry(g) = {}
      BY <2>1 DEF Entry
    <3> QED
      BY <1>4, <3>1
  <2>2. CASE Services # {}
    <3>1. Services \in SUBSET Nodes(g)
      BY <1>3
    <3>2. PICK n \in Services : \A m \in Services : n \notin PrevNodes(g, m)
      BY <1>3, <2>2, <3>1, LastNode
    <3>3. NextNodes(g, n) = {}
      BY <1>3, <3>2 DEF Matched
    <3> QED
      BY <1>4, <3>3
  <2> QED
    BY <2>1, <2>2
<1>13. ASSUME NEW n \in AllNodes PROVE PrevNodes(b, n) = {} <=> n = Start
  BY <1>2, <1>4, <1>12
<1>14. \A n \in AllNodes : \A m \in AllNodes : n \in PrevNodes(b, m) <=> m \in NextNodes(b, n)
  BY <1>4, <1>5 DEF Matched
<1>15. \A n \in AllNodes : NextNodes(b, n) \subseteq AllNodes
  BY <1>5 DEF Downward
<1>16. NextNodes(b, End) = {}
  <2>1. ASSUME NEW m \in AllNodes PROVE End \notin PrevNodes(b, m)
    BY <1>1, <1>2, <1>3, <1>4
  <2>2. End \in AllNodes
    BY <1>2
  <2> QED
    BY <1>14, <1>15, <2>1, <2>2
<1>17. NextNodes(b, Start) # {}
  <2>1. Start \in AllNodes /\ End \in AllNodes /\ Services \subseteq AllNodes
    BY <1>2
  <2>2. CASE Entry(g) = {}
    <3>1. Start \in PrevNodes(b, End)
      BY <1>4, <2>2
    <3> QED
      BY <1>14, <2>1, <3>1
  <2>3. CASE Entry(g) # {}
    <3>1. PICK n \in Services : PrevNodes(g, n) = {}
      BY <2>3 DEF Entry
    <3>2. Start \in PrevNodes(b, n)
      BY <1>4, <3>1
    <3> QED
      BY <1>14, <2>1, <3>2
  <2> QED
    BY <2>2, <2>3
<1>18. ASSUME NEW n \in Services PROVE NextNodes(b, n) # {}
  <2>1. n \in AllNodes /\ End \in AllNodes /\ Services \subseteq AllNodes
    BY <1>2
  <2>2. CASE NextNodes(g, n) = {}
    <3>1. n \in PrevNodes(b, End)
      BY <1>4, <2>2
    <3> QED
      BY <1>14, <2>1, <3>1
  <2>3. CASE NextNodes(g, n) # {}
    <3>1. PICK m \in Services : m \in NextNodes(g, n)
      BY <1>3, <2>3
    <3>2. n \in PrevNodes(g, m)
      BY <1>3, <3>1 DEF Matched
    <3>3. n \in PrevNodes(b, m)
      BY <1>4, <3>2
    <3> QED
      BY <1>14, <2>1, <3>3
  <2> QED
    BY <2>2, <2>3
<1>19. ASSUME NEW n \in AllNodes PROVE NextNodes(b, n) = {} <=> n = End
  BY <1>2, <1>16, <1>17, <1>18
<1>20. ASSUME NEW n \in NextNodes(b, Start) PROVE PrevNodes(b, n) = {Start}
  <2>1. Start \in AllNodes /\ n \in AllNodes
    BY <1>2, <1>15
  <2>2. Start \in PrevNodes(b, n)
    BY <1>14, <2>1
  <2>3. CASE n = Start
    BY <1>4, <2>2, <2>3
  <2>4. CASE n = End
    <3>1. Entry(g) = {}
      BY <1>1, <1>4, <2>2, <2>4
    <3>2. Services = {}
      BY <1>11, <3>1
    <3> QED
      BY <1>4, <2>4, <3>1, <3>2
  <2>5. CASE n \in Services
    BY <1>1, <1>3, <1>4, <2>2, <2>5
  <2> QED
    BY <1>2, <2>1, <2>3, <2>4, <2>5
<1> QED
  BY <1>4, <1>5, <1>10, <1>13, <1>19, <1>20 DEF Sound

\* A sound DAG is enclosed.
LEMMA SoundEnclosed ==
  ASSUME NEW b, Sound(b)
  PROVE  IsEnclosed(b)
<1>1. /\ Lists(b) /\ Matched(b) /\ Acyclic(b) /\ Downward(b) /\ Nodes(b) = AllNodes
      /\ \A n \in AllNodes : /\ PrevNodes(b, n) = {} <=> n = Start
                             /\ NextNodes(b, n) = {} <=> n = End
      /\ \A n \in NextNodes(b, Start) : PrevNodes(b, n) = {Start}
  BY DEF Sound, Lists
<1>2. \A n \in AllNodes : /\ b[n].prev = <<>> <=> PrevNodes(b, n) = {}
                          /\ b[n].next = <<>> <=> NextNodes(b, n) = {}
                          /\ Len(b[n].prev) = Cardinality(PrevNodes(b, n))
                          /\ Len(b[n].next) = Cardinality(NextNodes(b, n))
  BY <1>1, ListsClosed
<1>3. ASSUME NEW n \in Nodes(b)
      PROVE  /\ b[n].prev \in Seq(Nodes(b)) /\ b[n].next \in Seq(Nodes(b))
             /\ Len(b[n].prev) = Cardinality(PrevNodes(b, n))
             /\ Len(b[n].next) = Cardinality(NextNodes(b, n))
             /\ \A m \in Nodes(b) : n \in PrevNodes(b, m) <=> m \in NextNodes(b, n)
             /\ b[n].prev = <<>> <=> n = Start
             /\ b[n].next = <<>> <=> n = End
  <2>1. b[n].prev \in Seq(Nodes(b)) /\ b[n].next \in Seq(Nodes(b))
    BY <1>1 DEF Lists
  <2> QED
    BY <1>1, <1>2, <2>1 DEF Matched
<1>4. ASSUME NEW n \in NextNodes(b, Start) PROVE b[n].prev = <<Start>>
  <2>1. Start \in AllNodes
    BY DEF AllNodes
  <2>2. n \in AllNodes
    BY <1>1, <2>1 DEF Downward
  <2>3. b[n].prev \in Seq(AllNodes) /\ IsInjective(b[n].prev) /\ ToSet(b[n].prev) = {Start}
    BY <1>1, <2>2 DEF Lists, PrevNodes
  <2> QED
    BY <2>3, OneInList
<1>5. \A n \in Nodes(b) : \A p \in PrevNodes(b, n) : n \notin Ancestors(b, p)
  BY <1>1 DEF Acyclic
<1> QED
  BY <1>3, <1>4, <1>5 DEF IsEnclosed
-----------------------------------------------------------------------------
(* What the runtime's validation finds in such a DAG: nothing.             *)

\* The start node is upstream of everything.
LEMMA StartUpstream ==
  ASSUME NEW b, Sound(b), NEW n \in AllNodes
  PROVE  Start \in Ancestors(b, n)
<1> DEFINE A == Ancestors(b, n)
<1>1. Upward(b) /\ Acyclic(b) /\ Nodes(b) = AllNodes
      /\ \A m \in AllNodes : PrevNodes(b, m) = {} <=> m = Start
  BY DEF Sound, Lists
<1>2. A \subseteq AllNodes /\ n \in A /\ \A m \in A : PrevNodes(b, m) \subseteq A
  BY <1>1, AncestorsClosure
<1> HIDE DEF A
<1>3. A # {} /\ A \in SUBSET Nodes(b)
  BY <1>1, <1>2
<1>4. PICK m \in A : \A p \in PrevNodes(b, m) : p \notin A
  BY <1>1, <1>3, FirstNode
<1>5. PrevNodes(b, m) = {} /\ m \in AllNodes
  BY <1>2, <1>4
<1>6. Start \in A
  BY <1>1, <1>4, <1>5
<1> QED
  BY <1>6 DEF A

\* And the end node of nothing but itself.
LEMMA EndDownstream ==
  ASSUME NEW b, Sound(b), NEW n \in AllNodes, n # End
  PROVE  End \notin Ancestors(b, n)
<1> SUFFICES ASSUME End \in Ancestors(b, n) PROVE FALSE
  OBVIOUS
<1>1. Upward(b) /\ Matched(b) /\ Nodes(b) = AllNodes /\ NextNodes(b, End) = {} /\ End \in AllNodes
  BY DEF Sound, Lists, AllNodes
<1>2. PICK m \in Ancestors(b, n) : End \in PrevNodes(b, m)
  BY <1>1, AncestorBelow
<1>3. m \in AllNodes
  BY <1>1, AncestorsClosure
<1> QED
  BY <1>1, <1>2, <1>3 DEF Matched

\* Following the edges both ways from the start reaches every node.
LEMMA SoundConnected ==
  ASSUME NEW b, Sound(b)
  PROVE  IsConnected(b)
<1> DEFINE N == AllNodes
           E == [n \in N |-> PrevNodes(b, n) \cup NextNodes(b, n)]
           R == Reached(E, Start)
<1>1. /\ Upward(b) /\ Downward(b) /\ Acyclic(b) /\ Matched(b) /\ Nodes(b) = N /\ IsFiniteSet(N)
      /\ \A n \in N : PrevNodes(b, n) = {} <=> n = Start
  BY EveryNodeOrder DEF Sound, Lists
<1>2. \A n \in N : PrevNodes(b, n) \subseteq N /\ NextNodes(b, n) \subseteq N
  BY <1>1 DEF Upward, Downward
<1>3. E \in [N -> SUBSET N] /\ Start \in N
  BY <1>2 DEF AllNodes
<1>4. \A n \in N : E[n] = PrevNodes(b, n) \cup NextNodes(b, n)
  OBVIOUS
<1> HIDE DEF E, N
<1>5. R \subseteq N /\ Start \in R /\ \A n \in R : E[n] \subseteq R
  BY <1>1, <1>3, ReachedClosure
<1> HIDE DEF R
<1> DEFINE G == N \ R
<1>6. G = {}
  <2> SUFFICES ASSUME G # {} PROVE FALSE
    OBVIOUS
  <2>1. G \in SUBSET Nodes(b)
    BY <1>1
  <2> HIDE DEF G
  <2>2. PICK n \in G : \A p \in PrevNodes(b, n) : p \notin G
    BY <1>1, <2>1, FirstNode
  <2> USE DEF G
  <2>3. n \in N /\ n \notin R
    BY <2>2
  <2>4. PICK p \in PrevNodes(b, n) : TRUE
    BY <1>1, <1>5, <2>3
  <2>5. p \in N /\ p \in R
    BY <1>2, <2>2, <2>3, <2>4
  <2>6. n \in NextNodes(b, p)
    BY <1>1, <2>3, <2>4, <2>5 DEF Matched
  <2> QED
    BY <1>4, <1>5, <2>3, <2>5, <2>6
<1>7. R = N
  BY <1>5, <1>6
<1>8. [n \in Nodes(b) |-> PrevNodes(b, n) \cup NextNodes(b, n)] = E
  BY <1>1 DEF E
<1> QED
  BY <1>1, <1>7, <1>8 DEF IsConnected, R

\* No edge is listed twice.
LEMMA SoundDuplicateFree ==
  ASSUME NEW b, Lists(b)
  PROVE  ~HasDuplicateEdge(b)
<1>1. Nodes(b) = AllNodes
  BY DEF Lists
<1> QED
  BY <1>1, ListsClosed DEF HasDuplicateEdge

Frames == [node : AllNodes \cup {NoNode}, todo : Seq(AllNodes)]

\* The depth-first search has come down from the node of one frame to that of the frame
\* above it: the stack names ancestors, and the children still to visit are children.
Stacked(b, st) ==
  /\ st \in Seq(Frames)
  /\ st # <<>> => st[Len(st)].node = NoNode
  /\ \A i \in 1..(Len(st) - 1) :
       /\ st[i].node \in AllNodes
       /\ ToSet(st[i].todo) \subseteq NextNodes(b, st[i].node)
  /\ \A i, j \in 1..(Len(st) - 1) : i <= j => st[j].node \in Ancestors(b, st[i].node)

\* And has met no cycle.
Searched(b, s) == s.cyclic = FALSE /\ s.visited \subseteq AllNodes /\ Stacked(b, s.stack)

DfsStart == [cyclic |-> FALSE, visited |-> {}, stack |-> << [node |-> NoNode, todo |-> NodeOrder] >>]

DfsStates ==
  [cyclic : BOOLEAN, visited : SUBSET AllNodes,
   stack : Seq(Frames)]

\* The search begins with the loop over the nodes.
LEMMA DfsBegins ==
  ASSUME NEW b
  PROVE  Searched(b, DfsStart) /\ DfsStart \in DfsStates
<1> DEFINE frame == [node |-> NoNode, todo |-> NodeOrder]
<1>1. frame \in Frames /\ frame.node = NoNode
  BY EveryNodeOrder DEF Frames
<1> HIDE DEF frame
<1>2. <<frame>> \in Seq(Frames) /\ Len(<<frame>>) = 1 /\ <<frame>>[1] = frame /\ 1..(1 - 1) = {}
  BY <1>1
<1>3. DfsStart.cyclic = FALSE /\ DfsStart.visited = {} /\ DfsStart.stack = <<frame>>
      /\ DfsStart = [cyclic |-> FALSE, visited |-> {}, stack |-> <<frame>>]
  BY DEF DfsStart, frame
<1>4. DfsStart \in DfsStates
  BY <1>2, <1>3 DEF DfsStates
<1>5. Stacked(b, <<frame>>)
  <2> DEFINE st == <<frame>>
  <2>1. st \in Seq(Frames) /\ Len(st) = 1 /\ st[1].node = NoNode /\ 1..(Len(st) - 1) = {}
    BY <1>1, <1>2
  <2> HIDE DEF st
  <2> QED
    BY <2>1 DEF Stacked, st
<1>6. Searched(b, DfsStart)
  BY <1>3, <1>5 DEF Searched
<1> QED
  BY <1>4, <1>6
\* The positions of a list without its head.
LEMMA TailPositions ==
  ASSUME NEW X, NEW st \in Seq(X), st # <<>>
  PROVE  /\ Tail(st) \in Seq(X) /\ Len(Tail(st)) = Len(st) - 1 /\ Len(st) \in Nat \ {0}
         /\ \A i \in 1..(Len(st) - 1) : Tail(st)[i] = st[i + 1]
OBVIOUS

\* The positions of a list with an element before it.
LEMMA PushPositions ==
  ASSUME NEW X, NEW st \in Seq(X), NEW x \in X
  PROVE  /\ <<x>> \o st \in Seq(X) /\ Len(<<x>> \o st) = Len(st) + 1 /\ Len(st) \in Nat
         /\ (<<x>> \o st)[1] = x
         /\ \A i \in 1..Len(st) : (<<x>> \o st)[i + 1] = st[i]
<1>1. Len(st) \in Nat /\ <<x>> \in Seq(X) /\ Len(<<x>>) = 1
  OBVIOUS
<1> DEFINE u == <<x>> \o st
<1>2. u \in Seq(X) /\ Len(u) = Len(st) + 1
  BY <1>1
<1>3. u[1] = x
  BY <1>1
<1>4. ASSUME NEW i \in 1..Len(st) PROVE u[i + 1] = st[i]
  BY <1>1
<1> QED
  BY <1>1, <1>2, <1>3, <1>4

\* A visit that is over leaves the stack.
LEMMA PopStacked ==
  ASSUME NEW b, NEW st, Stacked(b, st), st # <<>>
  PROVE  Stacked(b, Tail(st))
<1> DEFINE u == Tail(st)
           k == Len(st)
<1>1. /\ st \in Seq(Frames) /\ st[k].node = NoNode
      /\ \A i \in 1..(k - 1) :
           /\ st[i].node \in AllNodes
           /\ ToSet(st[i].todo) \subseteq NextNodes(b, st[i].node)
      /\ \A i, j \in 1..(k - 1) : i <= j => st[j].node \in Ancestors(b, st[i].node)
  BY DEF Stacked
<1>2. /\ u \in Seq(Frames) /\ Len(u) = k - 1 /\ k \in Nat \ {0}
      /\ \A i \in 1..(k - 1) : u[i] = st[i + 1]
  BY <1>1, TailPositions
<1> HIDE DEF u, k
<1>3. u # <<>> => u[Len(u)].node = NoNode
  <2>1. u # <<>> => Len(u) # 0
    BY <1>2
  <2>2. Len(u) # 0 => Len(u) \in 1..(k - 1) /\ Len(u) + 1 = k
    BY <1>2
  <2> QED
    BY <1>1, <1>2, <2>1, <2>2
<1>4. \A i \in 1..(Len(u) - 1) : i + 1 \in 1..(k - 1) /\ u[i] = st[i + 1]
  BY <1>2
<1>5. \A i \in 1..(Len(u) - 1) :
        /\ u[i].node \in AllNodes
        /\ ToSet(u[i].todo) \subseteq NextNodes(b, u[i].node)
  BY <1>1, <1>4
<1>6. ASSUME NEW i \in 1..(Len(u) - 1), NEW j \in 1..(Len(u) - 1), i <= j
      PROVE  u[j].node \in Ancestors(b, u[i].node)
  <2>1. i + 1 <= j + 1
    BY <1>2, <1>6
  <2> QED
    BY <1>1, <1>4, <2>1
<1>7. Stacked(b, u)
  BY <1>2, <1>3, <1>5, <1>6 DEF Stacked
<1> QED
  BY <1>7 DEF u

\* A child that is visited goes on top, and has what was on the way to it upstream.
LEMMA PushStacked ==
  ASSUME NEW b, Sound(b), NEW st, Stacked(b, st), st # <<>>, NEW child \in AllNodes,
         Len(st) > 1 => child \in NextNodes(b, st[1].node)
  PROVE  Stacked(b, << [node |-> child, todo |-> b[child].next] >> \o st)
<1> DEFINE frame == [node |-> child, todo |-> b[child].next]
           u == <<frame>> \o st
           k == Len(st)
<1>1. /\ st \in Seq(Frames) /\ st[k].node = NoNode
      /\ \A i \in 1..(k - 1) :
           /\ st[i].node \in AllNodes
           /\ ToSet(st[i].todo) \subseteq NextNodes(b, st[i].node)
      /\ \A i, j \in 1..(k - 1) : i <= j => st[j].node \in Ancestors(b, st[i].node)
  BY DEF Stacked
<1>2. Upward(b) /\ Matched(b) /\ Nodes(b) = AllNodes /\ b[child].next \in Seq(AllNodes)
  BY DEF Sound, Lists
<1>3. frame \in Frames /\ frame.node = child /\ ToSet(frame.todo) = NextNodes(b, child)
  BY <1>2 DEF Frames, NextNodes
<1> HIDE DEF frame
<1>4. /\ u \in Seq(Frames) /\ Len(u) = k + 1 /\ k \in Nat /\ u[1] = frame
      /\ \A i \in 1..k : u[i + 1] = st[i]
  BY <1>1, <1>3, PushPositions
<1>5. k # 0
  BY <1>1
<1> HIDE DEF u, k
<1>6. u[Len(u)].node = NoNode
  BY <1>1, <1>4, <1>5
<1>7. \A i \in 1..(Len(u) - 1) : i = 1 \/ (i - 1 \in 1..(k - 1) /\ u[i] = st[i - 1])
  <2>1. ASSUME NEW i \in 1..(Len(u) - 1), i # 1 PROVE i - 1 \in 1..(k - 1) /\ u[i] = st[i - 1]
    <3>1. i - 1 \in 1..(k - 1) /\ i - 1 \in 1..k /\ (i - 1) + 1 = i
      BY <1>4, <2>1
    <3> QED
      BY <1>4, <3>1
  <2> QED
    BY <2>1
<1>8. ASSUME NEW i \in 1..(Len(u) - 1)
      PROVE  /\ u[i].node \in AllNodes
             /\ ToSet(u[i].todo) \subseteq NextNodes(b, u[i].node)
  BY <1>1, <1>3, <1>4, <1>7
<1>9. ASSUME NEW j \in 1..(Len(u) - 1) PROVE u[j].node \in Ancestors(b, child)
  <2>1. child \in Ancestors(b, child) /\ Ancestors(b, child) \subseteq AllNodes
        /\ \A m \in Ancestors(b, child) : PrevNodes(b, m) \subseteq Ancestors(b, child)
    BY <1>2, AncestorsClosure
  <2>2. CASE j = 1
    BY <1>3, <1>4, <2>1, <2>2
  <2>3. CASE j # 1
    <3>1. j - 1 \in 1..(k - 1) /\ u[j] = st[j - 1] /\ 1 \in 1..(k - 1) /\ k > 1
      BY <1>4, <1>7, <2>3
    <3> DEFINE top == st[1].node
    <3>2. child \in NextNodes(b, top) /\ top \in AllNodes
      BY <1>1, <3>1 DEF k
    <3>3. st[j - 1].node \in Ancestors(b, top)
      BY <1>1, <3>1
    <3> HIDE DEF top
    <3>4. top \in PrevNodes(b, child)
      BY <1>2, <3>2 DEF Matched
    <3>5. top \in Ancestors(b, child)
      BY <2>1, <3>4
    <3>6. Ancestors(b, top) \subseteq Ancestors(b, child)
      BY <1>2, <3>5, AncestorsTransitive
    <3> QED
      BY <3>1, <3>3, <3>6
  <2> QED
    BY <2>2, <2>3
<1>10. ASSUME NEW i \in 1..(Len(u) - 1), NEW j \in 1..(Len(u) - 1), i <= j
       PROVE  u[j].node \in Ancestors(b, u[i].node)
  <2>1. CASE i = 1
    BY <1>3, <1>4, <1>9, <2>1
  <2>2. CASE i # 1
    <3>1. j # 1 /\ i - 1 <= j - 1
      BY <1>4, <1>10, <2>2
    <3>2. i - 1 \in 1..(k - 1) /\ u[i] = st[i - 1] /\ j - 1 \in 1..(k - 1) /\ u[j] = st[j - 1]
      BY <1>7, <2>2, <3>1
    <3> QED
      BY <1>1, <3>1, <3>2
  <2> QED
    BY <2>1, <2>2
<1>11. Stacked(b, u)
  BY <1>4, <1>6, <1>8, <1>10 DEF Stacked
<1> QED
  BY <1>11 DEF u, frame

\* The current node has one child less to visit.
LEMMA NextStacked ==
  ASSUME NEW b, NEW st, Stacked(b, st), st # <<>>, Head(st).todo # <<>>
  PROVE  LET u == << [Head(st) EXCEPT !.todo = Tail(Head(st).todo)] >> \o Tail(st)
         IN  Stacked(b, u) /\ u # <<>> /\ Len(u) = Len(st) /\ u[1].node = st[1].node
<1> DEFINE top == Head(st)
           frame == [top EXCEPT !.todo = Tail(top.todo)]
           u == <<frame>> \o Tail(st)
           k == Len(st)
<1>1. /\ st \in Seq(Frames) /\ st[k].node = NoNode
      /\ \A i \in 1..(k - 1) :
           /\ st[i].node \in AllNodes
           /\ ToSet(st[i].todo) \subseteq NextNodes(b, st[i].node)
      /\ \A i, j \in 1..(k - 1) : i <= j => st[j].node \in Ancestors(b, st[i].node)
  BY DEF Stacked
<1>2. /\ Tail(st) \in Seq(Frames) /\ Len(Tail(st)) = k - 1 /\ k \in Nat \ {0}
      /\ \A i \in 1..(k - 1) : Tail(st)[i] = st[i + 1]
  BY <1>1, TailPositions
<1>3. top = st[1] /\ top \in Frames
  BY <1>1
<1>4. top.todo \in Seq(AllNodes) /\ top.todo # <<>>
  BY <1>3 DEF Frames
<1>5. Tail(top.todo) \in Seq(AllNodes) /\ ToSet(Tail(top.todo)) \subseteq ToSet(top.todo)
  BY <1>4, TailOfList
<1> HIDE DEF top
<1>6. frame \in Frames /\ frame.node = top.node /\ frame.todo = Tail(top.todo)
  BY <1>3, <1>5 DEF Frames
<1> HIDE DEF frame
<1> DEFINE w == Tail(st)
<1>7. w \in Seq(Frames) /\ Len(w) = k - 1 /\ \A i \in 1..(k - 1) : w[i] = st[i + 1]
  BY <1>2
<1>8. u = <<frame>> \o w
  OBVIOUS
<1> HIDE DEF u, w, k
<1>9. /\ u \in Seq(Frames) /\ Len(u) = Len(w) + 1 /\ u[1] = frame
      /\ \A i \in 1..Len(w) : u[i + 1] = w[i]
  BY <1>6, <1>7, <1>8, PushPositions
<1>10. Len(u) = k /\ u # <<>>
  <2>1. Len(u) = k /\ k # 0
    BY <1>2, <1>7, <1>9
  <2> QED
    BY <1>9, <2>1
<1>11. \A i \in 1..k : i # 1 => u[i] = st[i]
  <2>1. ASSUME NEW i \in 1..k, i # 1 PROVE u[i] = st[i]
    <3>1. i - 1 \in 1..(k - 1) /\ (i - 1) + 1 = i
      BY <1>2, <2>1
    <3> QED
      BY <1>7, <1>9, <3>1
  <2> QED
    BY <2>1
<1>12. \A i \in 1..k : u[i].node = st[i].node /\ ToSet(u[i].todo) \subseteq ToSet(st[i].todo)
  BY <1>3, <1>5, <1>6, <1>9, <1>11
<1>13. /\ u[k].node = NoNode
       /\ \A i \in 1..(k - 1) :
            /\ u[i].node \in AllNodes
            /\ ToSet(u[i].todo) \subseteq NextNodes(b, u[i].node)
       /\ \A i, j \in 1..(k - 1) : i <= j => u[j].node \in Ancestors(b, u[i].node)
  <2>1. k \in 1..k /\ 1..(k - 1) \subseteq 1..k
    BY <1>2
  <2> QED
    BY <1>1, <1>12, <2>1
<1>14. Stacked(b, u) /\ u[1].node = st[1].node
  BY <1>3, <1>6, <1>9, <1>10, <1>13 DEF Stacked
<1> QED
  BY <1>10, <1>14 DEF u, k, frame, top
\* A turn of the depth-first search of a DAG without a cycle meets none.
LEMMA TurnVisits ==
  ASSUME NEW b, Sound(b), NEW s \in DfsStates, Searched(b, s)
  PROVE  VisitNext(b, s) \in DfsStates /\ Searched(b, VisitNext(b, s))
<1> DEFINE t == VisitNext(b, s)
           st == s.stack
           top == Head(st)
           child == Head(top.todo)
           rest == << [top EXCEPT !.todo = Tail(@)] >> \o Tail(st)
           push == << [node |-> child, todo |-> b[child].next] >> \o rest
<1>1. /\ s.cyclic = FALSE /\ s.visited \subseteq AllNodes /\ Stacked(b, st)
      /\ s = [cyclic |-> FALSE, visited |-> s.visited, stack |-> st]
  BY DEF Searched, DfsStates
<1>2. ASSUME NEW v \in SUBSET AllNodes, NEW u, Stacked(b, u), t = [cyclic |-> FALSE, visited |-> v, stack |-> u]
      PROVE  t \in DfsStates /\ Searched(b, t)
  <2>1. u \in Seq(Frames)
    BY <1>2 DEF Stacked
  <2>2. t \in DfsStates
    BY <1>2, <2>1 DEF DfsStates
  <2>3. t.cyclic = FALSE /\ t.visited = v /\ t.stack = u
    BY <1>2
  <2> HIDE DEF t
  <2> QED
    BY <1>2, <2>2, <2>3 DEF Searched
<1>3. CASE st = <<>>
  <2>1. t = [cyclic |-> FALSE, visited |-> s.visited, stack |-> st]
    BY <1>1, <1>3 DEF VisitNext
  <2> HIDE DEF t, st
  <2> QED
    BY <1>1, <1>2, <2>1 DEF t
<1>4. CASE st # <<>> /\ top.todo = <<>>
  <2>1. t = [s EXCEPT !.stack = Tail(st)]
    BY <1>1, <1>4 DEF VisitNext
  <2>2. t = [cyclic |-> FALSE, visited |-> s.visited, stack |-> Tail(st)]
    BY <1>1, <2>1
  <2> HIDE DEF t, st
  <2>3. Stacked(b, Tail(st))
    BY <1>1, <1>4, PopStacked
  <2> QED
    BY <1>1, <1>2, <2>2, <2>3 DEF t
<1>5. CASE st # <<>> /\ top.todo # <<>>
  <2>1. st \in Seq(Frames)
    BY <1>1 DEF Stacked
  <2>2. top \in Frames /\ top = st[1] /\ Len(st) \in Nat \ {0}
    BY <1>5, <2>1
  <2>3. top.todo \in Seq(AllNodes)
    BY <2>2 DEF Frames
  <2>4. child \in AllNodes /\ child \in ToSet(top.todo)
    <3> DEFINE list == top.todo
    <3>1. list \in Seq(AllNodes) /\ list # <<>>
      BY <1>5, <2>3
    <3> HIDE DEF list
    <3>2. Head(list) \in AllNodes /\ Head(list) \in ToSet(list)
      BY <3>1, TailOfList
    <3> QED
      BY <3>2 DEF list
  <2>5. child # NoNode
    BY <2>4, ServicesAssumption DEF ServicesAssumption, AllNodes
  <2>6. Stacked(b, rest) /\ rest # <<>> /\ Len(rest) = Len(st) /\ rest[1].node = st[1].node
    <3> HIDE DEF st
    <3> QED
      BY <1>1, <1>5, NextStacked
  <2>7. t = CASE child \in OnWay(s) -> [s EXCEPT !.cyclic = TRUE]
              [] child \in s.visited \ OnWay(s) -> [s EXCEPT !.stack = rest]
              [] OTHER -> [s EXCEPT !.visited = @ \cup {child}, !.stack = push]
    BY <1>1, <1>5 DEF VisitNext
  <2> HIDE DEF rest, t, child
  <2>8. /\ st[Len(st)].node = NoNode
        /\ \A i \in 1..(Len(st) - 1) :
             /\ st[i].node \in AllNodes
             /\ ToSet(st[i].todo) \subseteq NextNodes(b, st[i].node)
        /\ \A i, j \in 1..(Len(st) - 1) : i <= j => st[j].node \in Ancestors(b, st[i].node)
    BY <1>1, <1>5 DEF Stacked
  <2>9. Len(st) > 1 => child \in NextNodes(b, st[1].node) /\ st[1].node \in AllNodes
    <3>1. Len(st) > 1 => 1 \in 1..(Len(st) - 1)
      BY <2>2
    <3> QED
      BY <2>2, <2>4, <2>8, <3>1
  <2>10. child \notin OnWay(s)
    <3> SUFFICES ASSUME NEW j \in DOMAIN st, child = st[j].node PROVE FALSE
      BY DEF OnWay
    <3>1. j \in 1..(Len(st) - 1) /\ 1 \in 1..(Len(st) - 1) /\ 1 <= j /\ Len(st) > 1
      BY <2>1, <2>2, <2>5, <2>8
    <3>2. child \in Ancestors(b, st[1].node)
      BY <2>8, <3>1
    <3>3. child \in NextNodes(b, st[1].node) /\ st[1].node \in AllNodes
      BY <2>9, <3>1
    <3>4. Matched(b) /\ Acyclic(b) /\ Nodes(b) = AllNodes
      BY DEF Sound, Lists
    <3>5. st[1].node \in PrevNodes(b, child)
      BY <2>4, <3>3, <3>4 DEF Matched
    <3> QED
      BY <2>4, <3>2, <3>4, <3>5 DEF Acyclic
  <2>11. CASE child \in s.visited
    <3>1. t = [s EXCEPT !.stack = rest]
      BY <2>7, <2>10, <2>11
    <3>2. t = [cyclic |-> FALSE, visited |-> s.visited, stack |-> rest]
      BY <1>1, <3>1
    <3> QED
      BY <1>1, <1>2, <2>6, <3>2 DEF t
  <2>12. CASE child \notin s.visited
    <3>1. t = [s EXCEPT !.visited = @ \cup {child}, !.stack = push]
      BY <2>7, <2>10, <2>12
    <3>2. Stacked(b, push)
      BY <2>4, <2>6, <2>9, PushStacked
    <3> HIDE DEF push
    <3>3. t = [cyclic |-> FALSE, visited |-> s.visited \cup {child}, stack |-> push]
      BY <1>1, <3>1
    <3>4. s.visited \cup {child} \in SUBSET AllNodes
      BY <1>1, <2>4
    <3> QED
      BY <1>2, <3>2, <3>3, <3>4 DEF t
  <2> QED
    BY <2>11, <2>12
<1> QED
  BY <1>3, <1>4, <1>5

\* However many turns it takes, the search finds no cycle.
LEMMA SoundNoCycle ==
  ASSUME NEW b, Sound(b)
  PROVE  ~HasCycle(b)
<1> DEFINE start == DfsStart
           Round(u) == [i \in Nat |-> IF i = 0 THEN start ELSE VisitNext(b, u[i - 1])]
           dfs == CHOOSE u : u = Round(u)
           S == {s \in DfsStates : Searched(b, s)}
           F == [s \in S |-> VisitNext(b, s)]
           turns == (Cardinality(Nodes(b)) + 1) * (Cardinality(Nodes(b)) + 1)
<1>1. start \in S
  BY DfsBegins
<1>2. F \in [S -> S]
  BY TurnVisits
<1> HIDE DEF start
<1>3. PICK f : IsIteration(S, F, start, f)
  <2> HIDE DEF F, S
  <2> QED
    BY <1>1, <1>2, Iterates
<1>4. f \in [Nat -> S] /\ f[0] = start /\ \A i \in Nat : f[i + 1] = VisitNext(b, f[i])
  <2>1. f \in [Nat -> S] /\ f[0] = start /\ \A i \in Nat : f[i + 1] = F[f[i]]
    BY <1>3 DEF IsIteration
  <2>2. \A s \in S : F[s] = VisitNext(b, s)
    OBVIOUS
  <2> HIDE DEF F, S
  <2> QED
    BY <2>1, <2>2
<1>5. f = Round(f)
  <2> HIDE DEF S
  <2>1. ASSUME NEW i \in Nat, i # 0 PROVE f[i] = VisitNext(b, f[i - 1])
    <3>1. i - 1 \in Nat /\ (i - 1) + 1 = i
      BY <2>1
    <3> QED
      BY <1>4, <3>1
  <2> QED
    BY <1>4, <2>1
<1>6. dfs = Round(dfs)
  <2> HIDE DEF Round
  <2> QED
    BY <1>5
<1> HIDE DEF dfs
<1>7. dfs[0] = start /\ \A i \in Nat : dfs[i + 1] = VisitNext(b, dfs[i])
  <2>1. ASSUME NEW i \in Nat PROVE Round(dfs)[i + 1] = VisitNext(b, dfs[i])
    <3>1. i + 1 \in Nat /\ i + 1 # 0 /\ (i + 1) - 1 = i
      OBVIOUS
    <3> QED
      BY <3>1
  <2>2. Round(dfs)[0] = start
    OBVIOUS
  <2> HIDE DEF Round
  <2> QED
    BY <1>6, <2>1, <2>2
<1> DEFINE P == {i \in Nat : dfs[i] \in S}
<1>8. P = Nat
  <2>1. 0 \in P
    <3> HIDE DEF S
    <3> QED
      BY <1>1, <1>7
  <2>2. ASSUME NEW i \in P PROVE i + 1 \in P
    <3>1. i \in Nat /\ dfs[i] \in S
      OBVIOUS
    <3>2. VisitNext(b, dfs[i]) \in S
      BY <3>1, TurnVisits
    <3> HIDE DEF S
    <3> QED
      BY <1>7, <3>1, <3>2
  <2>3. P \in SUBSET Nat
    OBVIOUS
  <2> HIDE DEF P
  <2> QED
    BY <2>1, <2>2, <2>3, AllNat
<1>9. turns \in Nat
  <2>1. Cardinality(Nodes(b)) \in Nat
    BY EveryNodeOrder, FS_CardinalityType DEF Sound, Lists
  <2> QED
    BY <2>1
<1> HIDE DEF turns
<1>10. dfs[turns].cyclic = FALSE
  <2>1. turns \in P
    BY <1>8, <1>9
  <2> QED
    BY <2>1 DEF Searched
<1>11. HasCycle(b) <=> dfs[turns].cyclic
  BY DEF HasCycle, dfs, start, DfsStart, turns
<1> QED
  BY <1>10, <1>11

\* validate_dag passes what the runtime builds from a workflow without a cycle.
THEOREM AcceptedValidates ==
  ASSUME NEW g, Workflow(g), Acyclic(g), NEW both \in BOOLEAN
  PROVE  Sound(BuildDag(FromDict(g, both))) /\ Validates(BuildDag(FromDict(g, both)))
<1> DEFINE b == BuildDag(FromDict(g, both))
<1>1. Built(g, b)
  BY WorkflowBuilt
<1> HIDE DEF b
<1>2. Sound(b)
  BY <1>1, BuiltSound
<1>3. ~HasDuplicateEdge(b) /\ ~HasCycle(b) /\ IsConnected(b)
  <2>1. Lists(b)
    BY <1>2 DEF Sound
  <2> QED
    BY <1>2, <2>1, SoundDuplicateFree, SoundNoCycle, SoundConnected
<1> QED
  BY <1>2, <1>3 DEF Validates, b
-----------------------------------------------------------------------------
(* What is upstream of the branches of a joint.                            *)

\* The branches of a joint are upstream of it, and it is not upstream of them.
LEMMA BranchUpstream ==
  ASSUME NEW b, Sound(b), NEW n \in AllNodes, NEW p \in PrevNodes(b, n)
  PROVE  /\ p \in AllNodes /\ p # End /\ n # Start /\ p \in Ancestors(b, p)
         /\ Ancestors(b, p) \subseteq Ancestors(b, n) \ {n}
<1>1. Upward(b) /\ Acyclic(b) /\ Matched(b) /\ Nodes(b) = AllNodes
      /\ PrevNodes(b, Start) = {} /\ NextNodes(b, End) = {} /\ Start \in AllNodes /\ End \in AllNodes
  BY DEF Sound, Lists, AllNodes
<1>2. p \in AllNodes
  BY <1>1 DEF Upward
<1>3. n \in NextNodes(b, p)
  BY <1>1, <1>2 DEF Matched
<1>4. p \in Ancestors(b, n) /\ p \in Ancestors(b, p)
  BY <1>1, <1>2, AncestorsClosure
<1>5. Ancestors(b, p) \subseteq Ancestors(b, n)
  BY <1>1, <1>4, AncestorsTransitive
<1>6. n \notin Ancestors(b, p)
  BY <1>1 DEF Acyclic
<1> QED
  BY <1>1, <1>2, <1>3, <1>4, <1>5, <1>6

\* What is copied was computed upstream of the other branch.
LEMMA CopiedUpstream ==
  ASSUME NEW b, Sound(b), NEW l, NEW p \in AllNodes
  PROVE  MergeNodes(b, l, p) \subseteq Ancestors(b, p)
<1>1. p \in Ancestors(b, p)
  BY AncestorsClosure DEF Sound, Lists
<1> QED
  BY <1>1, IntermediateUpstream DEF MergeNodes

\* Upstream of a node but the end are services and the start.
LEMMA UpstreamServices ==
  ASSUME NEW b, Sound(b), NEW n \in AllNodes
  PROVE  Ancestors(b, n) \ {Start, n} \subseteq Services /\ Ancestors(b, n) \subseteq AllNodes
<1>1. Upward(b) /\ Nodes(b) = AllNodes /\ AllNodes = Services \cup {Start, End}
  BY DEF Sound, Lists, AllNodes
<1>2. Ancestors(b, n) \subseteq AllNodes
  BY <1>1, AncestorsClosure
<1>3. n # End => End \notin Ancestors(b, n)
  BY EndDownstream
<1> QED
  BY <1>1, <1>2, <1>3

\* No joint is upstream of node j.
SinglePrev(b, j) ==
  \A n \in Ancestors(b, j) \ {Start, j} : Cardinality(PrevNodes(b, n)) = 1

\* The way up from a branch of such a node is a line: of two nodes on it one is upstream
\* of the other.
LEMMA LineUpstream ==
  ASSUME NEW b, Sound(b), NEW j \in AllNodes, SinglePrev(b, j), NEW p \in PrevNodes(b, j),
         NEW l \in Ancestors(b, p), NEW x \in Ancestors(b, p)
  PROVE  x \in Ancestors(b, l) \/ l \in Ancestors(b, x)
<1> DEFINE A == Ancestors(b, p)
           B == {z \in A : z \in Ancestors(b, l) \/ l \in Ancestors(b, z)}
<1>1. Upward(b) /\ Nodes(b) = AllNodes /\ PrevNodes(b, Start) = {} /\ IsFiniteSet(AllNodes)
      /\ p \in AllNodes /\ A \subseteq Ancestors(b, j) \ {j}
  BY EveryNodeOrder, BranchUpstream DEF Sound, Lists, AllNodes
<1>2. /\ A \subseteq AllNodes /\ p \in A /\ \A z \in A : PrevNodes(b, z) \subseteq A
      /\ \A D \in SUBSET AllNodes :
           p \in D /\ (\A z \in D : PrevNodes(b, z) \subseteq D) => A \subseteq D
  BY <1>1, AncestorsClosure
<1>4. l \in A
  OBVIOUS
<1> HIDE DEF A
<1>5. p \in B
  BY <1>2, <1>4 DEF A
<1>6. ASSUME NEW z \in B, NEW q \in PrevNodes(b, z) PROVE q \in B
  <2>1. z \in A /\ q \in A /\ z \in AllNodes /\ l \in AllNodes
    BY <1>2, <1>4
  <2>2. CASE z \in Ancestors(b, l)
    <3>1. q \in Ancestors(b, l)
      BY <1>1, <2>1, <2>2, AncestorsClosure
    <3> QED
      BY <2>1, <3>1
  <2>3. CASE z \notin Ancestors(b, l)
    <3>1. l \in Ancestors(b, z)
      BY <2>3
    <3>2. l # z
      BY <1>1, <2>1, <2>3, AncestorsClosure
    <3>3. PICK r \in PrevNodes(b, z) : l \in Ancestors(b, r)
      BY <1>1, <2>1, <3>1, <3>2, AncestorsStep
    <3>4. z \in Ancestors(b, j) \ {Start, j}
      BY <1>1, <2>1
    <3>5. r = q
      <4> DEFINE V == PrevNodes(b, z)
      <4>1. Cardinality(V) = 1 /\ IsFiniteSet(V)
        <5>1. V \subseteq AllNodes
          BY <1>1, <2>1 DEF Upward
        <5> QED
          BY <1>1, <3>4, <5>1, FS_Subset DEF SinglePrev
      <4>2. q \in V /\ r \in V
        OBVIOUS
      <4> HIDE DEF V
      <4>3. \E y : V = {y}
        BY <4>1, FS_Singleton
      <4> QED
        BY <4>2, <4>3
    <3> QED
      BY <2>1, <3>3, <3>5
  <2> QED
    BY <2>2, <2>3
<1>7. B \in SUBSET AllNodes
  BY <1>2
<1> HIDE DEF B
<1>8. A \subseteq B
  BY <1>2, <1>5, <1>6, <1>7
<1>9. x \in A
  BY DEF A
<1> QED
  BY <1>8, <1>9 DEF B

\* There a merge copies everything the merging branch does not have.
LEMMA LineCopied ==
  ASSUME NEW b, Sound(b), NEW j \in AllNodes, SinglePrev(b, j), NEW l \in AllNodes,
         NEW p \in PrevNodes(b, j), FindLca(b, l, p) # NoNode
  PROVE  Ancestors(b, p) \ Ancestors(b, l) \subseteq MergeNodes(b, l, p)
<1> DEFINE a == FindLca(b, l, p)
<1>1. /\ Upward(b) /\ Downward(b) /\ Matched(b) /\ Lists(b) /\ Nodes(b) = AllNodes
      /\ p \in AllNodes
  BY BranchUpstream DEF Sound, Lists
<1>2. Listed(b)
  BY <1>1, ListsClosed
<1>3. a \in Ancestors(b, l) /\ a \in Ancestors(b, p)
  BY <1>1, <1>2, FindLcaCommon DEF CommonAncestors
<1> HIDE DEF a
<1>4. ASSUME NEW x \in Ancestors(b, p), x \notin Ancestors(b, l) PROVE x \in MergeNodes(b, l, p)
  <2>1. x \in AllNodes /\ a \in AllNodes
    BY <1>1, <1>3, AncestorsClosure
  <2>2. x \notin Ancestors(b, a) /\ x # a
    BY <1>1, <1>3, <1>4, AncestorsTransitive
  <2>3. a \in Ancestors(b, x)
    BY <1>3, <2>2, LineUpstream
  <2>4. x \in ForwardReachable(b, a)
    BY <1>1, <2>1, <2>3, ForwardIsDownstream
  <2> QED
    BY <2>2, <2>4 DEF MergeNodes, IntermediateNodes, a
<1> QED
  BY <1>4
-----------------------------------------------------------------------------
(* The inductive invariant.                                                *)

\* Before the DAG is built, dag is a workflow; the sort has told whether it has a cycle.
Drawing ==
  /\ Workflow(dag) /\ joint = NoNode
  /\ outcome = "accepted" => Acyclic(dag)
  /\ outcome = "cyclic" => ~Acyclic(dag)

\* A task only carries results from upstream of its service, and has all of them if there
\* is no joint on the way.
Line(b, n) == \A m \in Ancestors(b, n) \ {Start} : Cardinality(PrevNodes(b, m)) = 1

Upstream(n) ==
  /\ carried[n] \subseteq Ancestors(dag, n) \ {Start}
  /\ Worked(n) /\ Line(dag, n) => carried[n] = Ancestors(dag, n) \ {Start}

Working == \A n \in AllNodes : Upstream(n)

\* What the branches merged so far had lost of what is upstream of them.
Lost == UNION {Ancestors(dag, q) \ carried[q] : q \in PrevNodes(dag, joint) \ waiting}

\* While branches are merged they are branches of the joint that have all worked, and what
\* the merged task carries is upstream of it; it lacks nothing of the merging branch but
\* what a merged branch had lost, and where the branches are lines, nothing of any branch
\* that is merged.
Merging ==
  /\ joint \in AllNodes /\ Len(dag[joint].prev) > 1
  /\ last \in PrevNodes(dag, joint) /\ waiting \subseteq PrevNodes(dag, joint)
  /\ \A q \in PrevNodes(dag, joint) : Worked(q)
  /\ data \subseteq Ancestors(dag, joint) \ {Start, joint}
  /\ carried[last] \subseteq data \cup Lost
  /\ outcome = "merged" => waiting = {}
  /\ SinglePrev(dag, joint) /\ outcome # "error" =>
       /\ Ancestors(dag, last) \ {Start} \subseteq data
       /\ \A q \in PrevNodes(dag, joint) \ waiting : Ancestors(dag, q) \ {Start} \subseteq data

MergeInv ==
  /\ outcome \in {"drawn", "accepted", "mismatch", "cyclic", "built", "merged", "error"}
  /\ outcome \in {"drawn", "accepted", "mismatch", "cyclic"} =>
       Drawing /\ carried = [n \in AllNodes |-> {}]
  /\ outcome \in {"built", "merged", "error"} => Sound(dag) /\ Working
  /\ carried \in [AllNodes -> SUBSET Services]
  /\ outcome \in {"merged", "error"} => joint # NoNode
  /\ joint = NoNode => last = NoNode /\ waiting = {} /\ data = {}
  /\ joint # NoNode => Merging

\* The constants are pairwise different.
LEMMA NoNodeApart == NoNode \notin AllNodes /\ NoNode \notin Services
BY ServicesAssumption DEF ServicesAssumption, AllNodes

\* What is drawn first is a workflow.
LEMMA InitMergeInv == Init => MergeInv
<1> SUFFICES ASSUME Init PROVE MergeInv
  OBVIOUS
<1>1. Workflow(dag)
  BY DrawnWorkflow DEF Init
<1> QED
  BY <1>1 DEF Init, MergeInv, Drawing

\* The backend's check.
LEMMA CheckKeeps ==
  ASSUME MergeInv, Check
  PROVE  MergeInv'
<1>1. /\ outcome = "drawn" /\ Drawing /\ Workflow(dag) /\ joint = NoNode
      /\ last = NoNode /\ waiting = {} /\ data = {}
      /\ carried = [n \in AllNodes |-> {}] /\ carried \in [AllNodes -> SUBSET Services]
  BY DEF MergeInv, Check, Drawing
<1>2. UNCHANGED <<dag, carried, joint, last, waiting, data>>
  BY DEF Check
<1>3. CheckDag(dag) <=> Acyclic(dag)
  BY <1>1, SortFindsCycles
<1>4. outcome' \in {"accepted", "cyclic", "mismatch"}
      /\ (outcome' = "accepted" => Acyclic(dag)) /\ (outcome' = "cyclic" => ~Acyclic(dag))
  BY <1>3 DEF Check
<1>5. Drawing'
  BY <1>1, <1>2, <1>4 DEF Drawing
<1> QED
  BY <1>1, <1>2, <1>4, <1>5 DEF MergeInv

\* Nothing is upstream of the start node, and it has nothing to do.
LEMMA StartOnly ==
  ASSUME NEW b, Sound(b)
  PROVE  Ancestors(b, Start) = {Start}
<1>1. Upward(b) /\ Nodes(b) = AllNodes /\ PrevNodes(b, Start) = {} /\ Start \in AllNodes
  BY DEF Sound, Lists, AllNodes
<1>2. Start \in Ancestors(b, Start)
  BY <1>1, AncestorsClosure
<1>3. {Start} \in SUBSET AllNodes /\ \A z \in {Start} : PrevNodes(b, z) \subseteq {Start}
  BY <1>1
<1>4. Ancestors(b, Start) \subseteq {Start}
  BY <1>1, <1>3, AncestorsClosure
<1> QED
  BY <1>2, <1>4

\* The runtime builds the DAG.
LEMMA ExtractKeeps ==
  ASSUME MergeInv, Extract
  PROVE  MergeInv'
<1>1. /\ outcome = "accepted" /\ Workflow(dag) /\ Acyclic(dag) /\ joint = NoNode
      /\ last = NoNode /\ waiting = {} /\ data = {}
      /\ carried = [n \in AllNodes |-> {}] /\ carried \in [AllNodes -> SUBSET Services]
  BY DEF MergeInv, Extract, Drawing
<1>2. UNCHANGED <<carried, joint, last, waiting, data>>
  BY DEF Extract
<1>3. PICK both \in BOOLEAN :
        /\ dag' = BuildDag(FromDict(dag, both))
        /\ outcome' = IF Validates(BuildDag(FromDict(dag, both))) THEN "built" ELSE "invalid"
  BY DEF Extract
<1>4. Sound(BuildDag(FromDict(dag, both))) /\ Validates(BuildDag(FromDict(dag, both)))
  BY <1>1, AcceptedValidates
<1>5. outcome' = "built" /\ Sound(dag')
  BY <1>3, <1>4
<1>6. Sound(dag)'
  BY <1>5 DEF Sound, Lists, Matched, Acyclic, Upward, Downward, PrevNodes, NextNodes, Nodes, Ancestors
<1>7. Ancestors(dag', Start) = {Start}
  BY <1>5, StartOnly
<1>8. Working'
  <2> SUFFICES ASSUME NEW n \in AllNodes PROVE Upstream(n)'
    BY DEF Working
  <2>1. carried'[n] = {} /\ (Worked(n)' => n = Start)
    BY <1>1, <1>2 DEF Worked
  <2> QED
    BY <1>7, <2>1 DEF Upstream
<1> QED
  BY <1>1, <1>2, <1>5, <1>6, <1>8 DEF MergeInv

\* A service that has worked keeps what its task carries.
LEMMA ForkKeeps ==
  ASSUME MergeInv, NEW n \in Nodes(dag), NEW p \in PrevNodes(dag, n), Fork(p, n)
  PROVE  MergeInv'
<1>1. /\ outcome = "built" /\ Sound(dag) /\ Working /\ carried \in [AllNodes -> SUBSET Services]
      /\ joint = NoNode /\ last = NoNode /\ waiting = {} /\ data = {}
  BY DEF MergeInv, Fork
<1>2. /\ n \in Services /\ Len(dag[n].prev) = 1 /\ Worked(p)
      /\ carried' = [carried EXCEPT ![n] = carried[p] \cup {n}]
      /\ UNCHANGED <<dag, joint, last, waiting, data, outcome>>
  BY DEF Fork
<1>3. /\ n \in AllNodes /\ n # Start /\ p \in AllNodes
      /\ Upward(dag) /\ Nodes(dag) = AllNodes /\ Lists(dag)
      /\ Ancestors(dag, p) \subseteq Ancestors(dag, n) \ {n} /\ n \in Ancestors(dag, n)
  <2>1. n \in AllNodes /\ n # Start /\ Upward(dag) /\ Nodes(dag) = AllNodes /\ Lists(dag)
    BY <1>1, <1>2, ServicesAssumption DEF Sound, Lists, AllNodes, ServicesAssumption
  <2> QED
    BY <1>1, <2>1, BranchUpstream, AncestorsClosure
<1>4. \A q \in PrevNodes(dag, n) : q = p
  <2> DEFINE V == PrevNodes(dag, n)
  <2>1. Cardinality(V) = 1
    BY <1>1, <1>2, <1>3, ListsClosed
  <2>2. IsFiniteSet(V) /\ p \in V
    <3>1. V \subseteq AllNodes
      BY <1>3 DEF Upward
    <3> QED
      BY <3>1, EveryNodeOrder, FS_Subset
  <2> HIDE DEF V
  <2>3. \E y : V = {y}
    BY <2>1, <2>2, FS_Singleton
  <2>4. \A q \in V : q = p
    BY <2>2, <2>3
  <2> QED
    BY <2>4 DEF V
<1>5. carried'[n] = carried[p] \cup {n} /\ \A m \in AllNodes \ {n} : carried'[m] = carried[m]
  BY <1>1, <1>2, <1>3
<1>6. Upstream(p)
  BY <1>1, <1>3 DEF Working
<1>7. carried'[n] \subseteq Ancestors(dag, n) \ {Start}
  BY <1>3, <1>5, <1>6 DEF Upstream
<1>8. ASSUME Line(dag, n) PROVE carried'[n] = Ancestors(dag, n) \ {Start}
  <2>1. Line(dag, p)
    BY <1>3, <1>8 DEF Line
  <2>2. carried[p] = Ancestors(dag, p) \ {Start}
    BY <1>2, <1>6, <2>1 DEF Upstream
  <2>3. ASSUME NEW x \in Ancestors(dag, n), x # n PROVE x \in Ancestors(dag, p)
    <3>1. \E q \in PrevNodes(dag, n) : x \in Ancestors(dag, q)
      BY <1>3, <2>3, AncestorsStep
    <3> QED
      BY <1>4, <3>1
  <2> QED
    BY <1>3, <1>5, <2>2, <2>3
<1>9. Working'
  <2> SUFFICES ASSUME NEW m \in AllNodes PROVE Upstream(m)'
    BY DEF Working
  <2>1. CASE m = n
    BY <1>2, <1>7, <1>8, <2>1 DEF Upstream
  <2>2. CASE m # n
    <3>1. Upstream(m) /\ carried'[m] = carried[m]
      BY <1>1, <1>5, <2>2 DEF Working
    <3> QED
      BY <1>2, <3>1 DEF Upstream, Worked
  <2> QED
    BY <2>1, <2>2
<1>10. carried' \in [AllNodes -> SUBSET Services]
  BY <1>1, <1>2, <1>3
<1> QED
  BY <1>1, <1>2, <1>9, <1>10 DEF MergeInv

\* On the way to a joint with no other upstream, a task has everything.
LEMMA LineBranch ==
  ASSUME NEW j \in AllNodes, Sound(dag), Working, SinglePrev(dag, j), NEW q \in PrevNodes(dag, j),
         Worked(q)
  PROVE  carried[q] = Ancestors(dag, q) \ {Start}
<1>1. q \in AllNodes /\ Ancestors(dag, q) \subseteq Ancestors(dag, j) \ {j}
  BY BranchUpstream
<1>2. Line(dag, q)
  BY <1>1 DEF SinglePrev, Line
<1> QED
  BY <1>1, <1>2 DEF Working, Upstream

\* A branch that arrives last retrieves the others.
LEMMA RetrieveKeeps ==
  ASSUME MergeInv, NEW n \in Nodes(dag), NEW p \in PrevNodes(dag, n), Retrieve(p, n)
  PROVE  MergeInv'
<1>1. /\ outcome = "built" /\ Sound(dag) /\ Working /\ joint = NoNode /\ Len(dag[n].prev) > 1
      /\ carried \in [AllNodes -> SUBSET Services] /\ \A q \in PrevNodes(dag, n) : Worked(q)
  BY DEF MergeInv, Retrieve
<1>2. /\ joint' = n /\ last' = p /\ waiting' = PrevNodes(dag, n) /\ data' = carried[p]
      /\ dag' = dag /\ outcome' = outcome /\ carried' = carried
  BY DEF Retrieve
<1>3. n \in AllNodes
  BY <1>1 DEF Sound, Lists
<1>4. carried[p] \subseteq Ancestors(dag, n) \ {Start, n}
  <2>1. p \in AllNodes /\ Ancestors(dag, p) \subseteq Ancestors(dag, n) \ {n}
    BY <1>1, <1>3, BranchUpstream
  <2> QED
    BY <1>1, <2>1 DEF Working, Upstream
<1>5. SinglePrev(dag, n) => Ancestors(dag, p) \ {Start} \subseteq carried[p]
  BY <1>1, <1>3, LineBranch
<1>6. Merging'
  BY <1>1, <1>2, <1>3, <1>4, <1>5 DEF Merging, Worked
<1>7. Working'
  BY <1>1, <1>2 DEF Working, Upstream, Worked
<1> QED
  BY <1>1, <1>2, <1>3, <1>6, <1>7, NoNodeApart DEF MergeInv

\* One branch is merged: what it brings is upstream of it, what was there stays but for
\* what it had lost.
LEMMA MergeTaskKeeps ==
  ASSUME MergeInv, NEW p \in waiting, MergeTask(p)
  PROVE  MergeInv'
<1> DEFINE copied == MergeNodes(dag, last, p)
<1>1. /\ outcome = "built" /\ Sound(dag) /\ Working /\ joint # NoNode /\ Merging
      /\ carried \in [AllNodes -> SUBSET Services]
  BY DEF MergeInv, MergeTask
<1>2. /\ joint \in AllNodes /\ Len(dag[joint].prev) > 1
      /\ last \in PrevNodes(dag, joint) /\ waiting \subseteq PrevNodes(dag, joint)
      /\ \A q \in PrevNodes(dag, joint) : Worked(q)
      /\ data \subseteq Ancestors(dag, joint) \ {Start, joint}
      /\ carried[last] \subseteq data \cup Lost
      /\ SinglePrev(dag, joint) =>
           /\ Ancestors(dag, last) \ {Start} \subseteq data
           /\ \A q \in PrevNodes(dag, joint) \ waiting : Ancestors(dag, q) \ {Start} \subseteq data
  BY <1>1 DEF Merging
<1>3. /\ waiting' = waiting \ {p} /\ dag' = dag /\ joint' = joint /\ last' = last
      /\ carried' = carried
  BY DEF MergeTask
<1>4. /\ p \in PrevNodes(dag, joint) /\ p \in AllNodes /\ p # End /\ last \in AllNodes
      /\ Ancestors(dag, p) \subseteq Ancestors(dag, joint) \ {joint}
      /\ carried[p] \subseteq Ancestors(dag, p) \ {Start} /\ Start \notin carried[last]
  <2>1. /\ p \in PrevNodes(dag, joint) /\ p \in AllNodes /\ p # End /\ last \in AllNodes
        /\ Ancestors(dag, p) \subseteq Ancestors(dag, joint) \ {joint}
    BY <1>1, <1>2, BranchUpstream
  <2> QED
    BY <1>1, <2>1 DEF Working, Upstream
<1>5. Working'
  BY <1>1, <1>3 DEF Working, Upstream, Worked
<1>6. Lost' = Lost \cup (Ancestors(dag, p) \ carried[p])
  <2>1. PrevNodes(dag, joint) \ waiting' = (PrevNodes(dag, joint) \ waiting) \cup {p}
    BY <1>3, <1>4
  <2> DEFINE Gone(q) == Ancestors(dag, q) \ carried[q]
             V == PrevNodes(dag, joint) \ waiting
  <2>2. Lost = UNION {Gone(q) : q \in V}
    BY DEF Lost
  <2>3. Lost' = UNION {Gone(q) : q \in V \cup {p}}
    BY <1>3, <2>1 DEF Lost
  <2> HIDE DEF Gone, V
  <2>4. Lost' = Lost \cup Gone(p)
    BY <2>2, <2>3
  <2> QED
    BY <2>4 DEF Gone
<1>7. CASE FindLca(dag, last, p) = NoNode
  <2>1. outcome' = "error" /\ data' = data
    BY <1>7 DEF MergeTask
  <2>2. Merging'
    <3>1. waiting' \subseteq PrevNodes(dag, joint) /\ carried[last] \subseteq data \cup Lost'
      BY <1>2, <1>3, <1>6
    <3> HIDE DEF Lost
    <3> QED
      BY <1>2, <1>3, <2>1, <3>1 DEF Merging, Worked
  <2> QED
    BY <1>1, <1>3, <1>5, <2>1, <2>2 DEF MergeInv
<1>8. CASE FindLca(dag, last, p) # NoNode
  <2>1. /\ data' = (data \ copied) \cup (carried[p] \cap copied)
        /\ outcome' = IF waiting' = {} THEN "merged" ELSE "built"
    BY <1>8 DEF MergeTask
  <2>2. copied \subseteq Ancestors(dag, p)
    BY <1>1, <1>4, CopiedUpstream
  <2>3. SinglePrev(dag, joint) => Ancestors(dag, p) \ Ancestors(dag, last) \subseteq copied
    BY <1>1, <1>2, <1>4, <1>8, LineCopied
  <2> HIDE DEF copied
  <2>4. data' \subseteq Ancestors(dag, joint) \ {Start, joint}
    BY <1>2, <1>4, <2>1
  <2>5. data \subseteq data' \cup (Ancestors(dag, p) \ carried[p])
    BY <2>1, <2>2
  <2>6. carried[last] \subseteq data' \cup Lost'
    BY <1>2, <1>6, <2>5
  <2>7. ASSUME SinglePrev(dag, joint)
        PROVE  data \subseteq data' /\ Ancestors(dag, p) \ {Start} \subseteq data'
    <3>1. carried[p] = Ancestors(dag, p) \ {Start}
      BY <1>1, <1>2, <1>4, <2>7, LineBranch
    <3>2. data \subseteq data'
      BY <1>2, <2>5, <3>1
    <3>3. ASSUME NEW x \in Ancestors(dag, p) \ {Start} PROVE x \in data'
      <4>1. CASE x \in copied
        BY <2>1, <3>1, <4>1
      <4>2. CASE x \notin copied
        <5>1. x \in Ancestors(dag, last) \ {Start}
          BY <2>3, <2>7, <4>2
        <5> QED
          BY <1>2, <2>7, <3>2, <5>1
      <4> QED
        BY <4>1, <4>2
    <3> QED
      BY <3>2, <3>3
  <2>8. ASSUME SinglePrev(dag, joint)
        PROVE  /\ Ancestors(dag, last) \ {Start} \subseteq data'
               /\ \A q \in PrevNodes(dag, joint) \ waiting' : Ancestors(dag, q) \ {Start} \subseteq data'
    <3>1. Ancestors(dag, last) \ {Start} \subseteq data'
      BY <1>2, <2>7, <2>8
    <3>2. ASSUME NEW q \in PrevNodes(dag, joint) \ waiting'
          PROVE  Ancestors(dag, q) \ {Start} \subseteq data'
      <4>1. q = p \/ q \in PrevNodes(dag, joint) \ waiting
        BY <1>3
      <4> QED
        BY <1>2, <2>7, <2>8, <4>1
    <3> QED
      BY <3>1, <3>2
  <2>9. outcome' \in {"merged", "built"} /\ (outcome' = "merged" => waiting' = {})
    BY <2>1
  <2>10. Merging'
    <3>1. waiting' \subseteq PrevNodes(dag, joint)
      BY <1>2, <1>3
    <3> QED
      BY <1>2, <1>3, <2>4, <2>6, <2>8, <2>9, <3>1 DEF Merging, Worked
  <2> QED
    BY <1>1, <1>3, <1>5, <2>9, <2>10 DEF MergeInv
<1> QED
  BY <1>7, <1>8

\* The joint works on the merged task.
LEMMA SubmitKeeps ==
  ASSUME MergeInv, Submit
  PROVE  MergeInv'
<1>1. /\ Sound(dag) /\ Working /\ Merging /\ joint \in Services
      /\ carried \in [AllNodes -> SUBSET Services]
  BY NoNodeApart DEF MergeInv, Submit
<1>2. /\ joint \in AllNodes /\ Len(dag[joint].prev) > 1
      /\ data \subseteq Ancestors(dag, joint) \ {Start, joint}
  BY <1>1 DEF Merging
<1>3. /\ carried' = [carried EXCEPT ![joint] = data \cup {joint}]
      /\ joint' = NoNode /\ last' = NoNode /\ waiting' = {} /\ data' = {}
      /\ outcome' = "built" /\ dag' = dag
  BY DEF Submit
<1>4. /\ Upward(dag) /\ Nodes(dag) = AllNodes /\ Lists(dag) /\ joint # Start
      /\ joint \in Ancestors(dag, joint)
  BY <1>1, <1>2, AncestorsClosure, ServicesAssumption DEF Sound, Lists, ServicesAssumption
<1>5. data \subseteq Services
  BY <1>1, <1>2, UpstreamServices
<1>6. /\ carried'[joint] = data \cup {joint}
      /\ \A m \in AllNodes \ {joint} : carried'[m] = carried[m]
      /\ carried' \in [AllNodes -> SUBSET Services]
  BY <1>1, <1>2, <1>3, <1>5
<1>7. ~Line(dag, joint)
  <2>1. Cardinality(PrevNodes(dag, joint)) > 1
    BY <1>1, <1>2, <1>4, ListsClosed
  <2> QED
    BY <1>4, <2>1 DEF Line
<1>8. Working'
  <2> SUFFICES ASSUME NEW m \in AllNodes PROVE Upstream(m)'
    BY DEF Working
  <2>1. CASE m = joint
    <3>1. carried'[m] \subseteq Ancestors(dag, m) \ {Start}
      BY <1>2, <1>4, <1>6, <2>1
    <3> QED
      BY <1>3, <1>7, <2>1, <3>1 DEF Upstream
  <2>2. CASE m # joint
    <3>1. Upstream(m) /\ carried'[m] = carried[m]
      BY <1>1, <1>6, <2>2 DEF Working
    <3> QED
      BY <1>3, <3>1 DEF Upstream, Worked
  <2> QED
    BY <2>1, <2>2
<1> QED
  BY <1>1, <1>3, <1>6, <1>8 DEF MergeInv

\* Every step keeps the invariant.
LEMMA NextMergeInv == MergeInv /\ [Next]_vars => MergeInv'
<1> SUFFICES ASSUME MergeInv, [Next]_vars PROVE MergeInv'
  OBVIOUS
<1>1. CASE Check
  BY <1>1, CheckKeeps
<1>2. CASE Extract
  BY <1>2, ExtractKeeps
<1>3. ASSUME NEW n \in Nodes(dag), NEW p \in PrevNodes(dag, n), Fork(p, n) \/ Retrieve(p, n)
      PROVE  MergeInv'
  BY <1>3, ForkKeeps, RetrieveKeeps
<1>4. CASE \E p \in waiting : MergeTask(p)
  BY <1>4, MergeTaskKeeps
<1>5. CASE Submit
  BY <1>5, SubmitKeeps
<1>6. CASE UNCHANGED vars
  <2>1. UNCHANGED <<dag, carried, joint, last, waiting, data, outcome>>
    BY <1>6 DEF vars
  <2> QED
    BY <2>1 DEF MergeInv, Drawing, Working, Upstream, Worked, Merging, Lost
<1> QED
  BY <1>1, <1>2, <1>3, <1>4, <1>5, <1>6 DEF Next

\* What is drawn, checked, built and merged satisfies the invariant throughout.
LEMMA MergeInvHolds == Spec => []MergeInv
<1> QED
  BY InitMergeInv, NextMergeInv, PTL DEF Spec
-----------------------------------------------------------------------------
(* The properties.                                                         *)

\* Tasks carry results of services only.
THEOREM MergeTypeOK == Spec => []TypeOK
<1>1. MergeInv => TypeOK
  <2> SUFFICES ASSUME MergeInv PROVE TypeOK
    OBVIOUS
  <2>1. /\ outcome \in {"drawn", "accepted", "mismatch", "cyclic", "invalid", "built", "merged", "error"}
        /\ carried \in [AllNodes -> SUBSET Services]
    BY DEF MergeInv
  <2>2. CASE joint = NoNode
    BY <2>1, <2>2 DEF MergeInv, TypeOK
  <2>3. CASE joint # NoNode
    <3>1. Sound(dag) /\ Merging
      BY <2>3 DEF MergeInv, Drawing
    <3>2. /\ joint \in AllNodes /\ last \in PrevNodes(dag, joint)
          /\ waiting \subseteq PrevNodes(dag, joint)
          /\ data \subseteq Ancestors(dag, joint) \ {Start, joint}
      BY <3>1 DEF Merging
    <3>3. Nodes(dag) = AllNodes /\ PrevNodes(dag, joint) \subseteq AllNodes
      BY <3>1, <3>2 DEF Sound, Lists, Upward
    <3>4. data \subseteq Services
      BY <3>1, <3>2, UpstreamServices
    <3> QED
      BY <2>1, <3>2, <3>3, <3>4 DEF TypeOK
  <2> QED
    BY <2>2, <2>3
<1> QED
  BY <1>1, MergeInvHolds, PTL

\* The backend turns a workflow away for its shape only when it has a cycle, and the
\* runtime refuses none that the backend accepted, however many services it has.
THEOREM OnceChecked == Spec => []CheckedOnce
<1>1. MergeInv => CheckedOnce
  <2> SUFFICES ASSUME MergeInv PROVE CheckedOnce
    OBVIOUS
  <2>1. outcome # "invalid"
    BY DEF MergeInv
  <2>2. ASSUME outcome = "cyclic"
        PROVE  \E n \in Services : \E p \in PrevNodes(dag, n) : n \in Ancestors(dag, p)
    <3>1. Workflow(dag) /\ ~Acyclic(dag)
      BY <2>2 DEF MergeInv, Drawing
    <3>2. Nodes(dag) = Services
      BY <3>1 DEF Workflow
    <3> QED
      BY <3>1, <3>2 DEF Acyclic
  <2> QED
    BY <2>1, <2>2 DEF CheckedOnce
<1> QED
  BY <1>1, MergeInvHolds, PTL

\* What extract_dag_from_dict leaves behind has one start, one end, lists that agree and
\* no cycle.
THEOREM EnclosedDag == Spec => []Enclosed
<1>1. MergeInv => Enclosed
  <2> SUFFICES ASSUME MergeInv, Start \in Nodes(dag) PROVE IsEnclosed(dag)
    BY DEF Enclosed, IsEnclosed
  <2>1. CASE outcome \in {"drawn", "accepted", "mismatch", "cyclic"}
    <3>1. Nodes(dag) = Services
      BY <2>1 DEF MergeInv, Drawing, Workflow
    <3> QED
      BY <3>1, ServicesAssumption DEF ServicesAssumption
  <2>2. CASE outcome \in {"built", "merged", "error"}
    BY <2>2, SoundEnclosed DEF MergeInv
  <2> QED
    BY <2>1, <2>2 DEF MergeInv
<1> QED
  BY <1>1, MergeInvHolds, PTL

\* The branches that are merged are nodes of a sound DAG.
LEMMA BranchNodes ==
  ASSUME MergeInv, NEW p \in waiting
  PROVE  Sound(dag) /\ Listed(dag) /\ Nodes(dag) = AllNodes
         /\ joint # NoNode /\ Merging
         /\ last \in AllNodes /\ p \in AllNodes
<1>1. joint # NoNode /\ Merging
  BY DEF MergeInv
<1>2. Sound(dag)
  BY <1>1 DEF MergeInv, Drawing
<1>3. /\ joint \in AllNodes /\ last \in PrevNodes(dag, joint) /\ p \in PrevNodes(dag, joint)
  BY <1>1 DEF Merging
<1>4. last \in AllNodes /\ p \in AllNodes
  BY <1>2, <1>3, BranchUpstream
<1>5. Listed(dag) /\ Nodes(dag) = AllNodes
  BY <1>2, ListsClosed DEF Sound, Lists
<1> QED
  BY <1>1, <1>2, <1>4, <1>5

\* What find_lca returns was upstream of both branches.
THEOREM CommonLca == Spec => []LcaCommon
<1>1. MergeInv => LcaCommon
  <2> SUFFICES ASSUME MergeInv, NEW p \in waiting
               PROVE  FindLca(dag, last, p) \in CommonAncestors(dag, last, p) \cup {NoNode}
    BY DEF LcaCommon
  <2> QED
    BY BranchNodes, FindLcaCommon
<1> QED
  BY <1>1, MergeInvHolds, PTL

\* find_lca gives up on two branches only if there is more upstream of one of them.
THEOREM EvenFound == Spec => []FoundWhenEven
<1>1. MergeInv => FoundWhenEven
  <2> SUFFICES ASSUME MergeInv, NEW p \in waiting, FindLca(dag, last, p) = NoNode
               PROVE  Cardinality(Ancestors(dag, p)) # Cardinality(Ancestors(dag, last))
    BY DEF FoundWhenEven
  <2>1. Sound(dag) /\ Listed(dag) /\ Nodes(dag) = AllNodes /\ last \in AllNodes /\ p \in AllNodes
    BY BranchNodes
  <2>2. Start \in CommonAncestors(dag, last, p)
    BY <2>1, StartUpstream DEF CommonAncestors
  <2>3. NoNode \notin Nodes(dag)
    BY <2>1, NoNodeApart
  <2> QED
    BY <2>1, <2>2, <2>3, FindLcaGivesUp
<1> QED
  BY <1>1, MergeInvHolds, PTL

\* Merging is complete when there is no other joint upstream, whichever branch came last
\* and in whatever order the others are merged (controller.py:254, task.py:454).
THEOREM LinesComplete == Spec => []LineMergeComplete
<1>1. MergeInv => LineMergeComplete
  <2> SUFFICES ASSUME MergeInv, outcome = "merged",
                      \A n \in Ancestors(dag, joint) \ {Start, joint} : Len(dag[n].prev) = 1
               PROVE  data = Ancestors(dag, joint) \ {Start, joint}
    BY DEF LineMergeComplete
  <2>1. Sound(dag) /\ joint # NoNode /\ Merging
    BY DEF MergeInv
  <2>2. Lists(dag) /\ Nodes(dag) = AllNodes /\ Upward(dag)
        /\ Ancestors(dag, joint) \subseteq AllNodes
    BY <2>1, UpstreamServices DEF Sound, Lists, Merging
  <2>3. SinglePrev(dag, joint)
    <3>1. \A n \in AllNodes : Len(dag[n].prev) = Cardinality(PrevNodes(dag, n))
      BY <2>2, ListsClosed
    <3> QED
      BY <2>2, <3>1 DEF SinglePrev
  <2>4. /\ joint \in AllNodes /\ waiting = {}
        /\ data \subseteq Ancestors(dag, joint) \ {Start, joint}
        /\ \A q \in PrevNodes(dag, joint) : Ancestors(dag, q) \ {Start} \subseteq data
    BY <2>1, <2>3 DEF Merging
  <2>5. ASSUME NEW x \in Ancestors(dag, joint) \ {Start, joint} PROVE x \in data
    <3>1. PICK q \in PrevNodes(dag, joint) : x \in Ancestors(dag, q)
      BY <2>2, <2>4, AncestorsStep
    <3> QED
      BY <2>4, <3>1
  <2> QED
    BY <2>4, <2>5
<1> QED
  BY <1>1, MergeInvHolds, PTL

\* Merging never invents a result, and gives up what the merging branch brought only where
\* a branch it merges had lost that before, however joints are nested.
THEOREM KeepsOwn == Spec => []MergeKeepsOwn
<1>1. MergeInv => MergeKeepsOwn
  BY DEF MergeInv, Merging, MergeKeepsOwn, Lost
<1> QED
  BY <1>1, MergeInvHolds, PTL

-----------------------------------------------------------------------------
(* The total time of a task.                                               *)

\* The time of the slowest service, and what no way through the DAG exceeds.
Slowest(w) == Max({w[n] : n \in AllNodes})
Limit(w) == Cardinality(AllNodes) * Slowest(w)

\* Times of the nodes.
Times(w) == w \in [AllNodes -> Nat]

\* No node takes longer than the slowest.
LEMMA SlowestBounds ==
  ASSUME NEW w, Times(w)
  PROVE  Slowest(w) \in Nat /\ \A n \in AllNodes : w[n] <= Slowest(w)
<1> DEFINE I == {w[n] : n \in AllNodes}
<1>1. IsFiniteSet(AllNodes) /\ w \in [AllNodes -> Nat] /\ Start \in AllNodes
  BY EveryNodeOrder DEF Times, AllNodes
<1>2. IsFiniteSet(I)
  BY <1>1, FiniteImage
<1>3. I \in SUBSET Nat /\ I # {} /\ \A n \in AllNodes : w[n] \in I
  BY <1>1
<1>4. Slowest(w) = Max(I)
  BY DEF Slowest
<1> HIDE DEF I
<1>5. Max(I) \in I /\ \A y \in I : Max(I) >= y
  BY <1>2, <1>3, GreatestNat
<1> QED
  BY <1>1, <1>3, <1>4, <1>5

\* One more node on the way leaves room for one more time.
LEMMA OneMore ==
  ASSUME NEW h \in Nat, NEW k \in Nat, NEW m \in Nat, h < k
  PROVE  h * m \in Nat /\ k * m \in Nat /\ h * m + m <= k * m
<1>1. PICK d \in Nat : k = h + 1 + d
  <2>1. k - h - 1 \in Nat /\ k = h + 1 + (k - h - 1)
    OBVIOUS
  <2> QED
    BY <2>1
<1>2. k * m = h * m + m + d * m
  BY <1>1
<1>3. d * m \in Nat /\ h * m \in Nat
  OBVIOUS
<1> QED
  BY <1>2, <1>3

\* A heap of entries that are not too far has a farthest one.
LEMMA FarthestEntry ==
  ASSUME NEW heap \in SUBSET (Nat \X AllNodes), heap # {},
         NEW k \in Nat, \A x \in heap : x[1] <= k
  PROVE  Farthest(heap) \in heap
<1> DEFINE B == {k - x[1] : x \in heap}
<1>1. B \in SUBSET Nat /\ B # {}
  OBVIOUS
<1> HIDE DEF B
<1>2. PICK m \in B : \A j \in B : m <= j
  BY <1>1, LeastNat
<1> USE DEF B
<1>3. PICK x \in heap : m = k - x[1]
  BY <1>2
<1>4. \A y \in heap : x[1] >= y[1]
  <2> SUFFICES ASSUME NEW y \in heap PROVE x[1] >= y[1]
    OBVIOUS
  <2>1. k - x[1] <= k - y[1] /\ x[1] \in Nat /\ y[1] \in Nat
    BY <1>2, <1>3
  <2> QED
    BY <2>1
<1> HIDE DEF B
<1> QED
  BY <1>3, <1>4 DEF Farthest

\* The edges of a sound DAG go up, and none leads to the start.
LEMMA SoundEdges ==
  ASSUME NEW b, Sound(b)
  PROVE  /\ Nodes(b) = AllNodes /\ Start \in AllNodes
         /\ \A n \in AllNodes :
              /\ PrevNodes(b, n) \subseteq AllNodes /\ NextNodes(b, n) \subseteq AllNodes
              /\ Start \notin NextNodes(b, n) /\ n \notin NextNodes(b, n)
              /\ Height(b, n) \in Nat /\ Height(b, n) <= Cardinality(AllNodes)
              /\ \A c \in NextNodes(b, n) : n \in PrevNodes(b, c) /\ Height(b, n) < Height(b, c)
              /\ \A p \in PrevNodes(b, n) : n \in NextNodes(b, p)
              /\ PrevNodes(b, n) = {} <=> n = Start
              /\ b[n].prev = <<>> <=> n = Start
<1>1. Nodes(b) = AllNodes /\ Start \in AllNodes
  BY DEF Sound, Lists, AllNodes
<1>2. \A n \in AllNodes : PrevNodes(b, n) \subseteq AllNodes /\ NextNodes(b, n) \subseteq AllNodes
  BY <1>1 DEF Sound, Upward, Downward
<1>3. \A n \in AllNodes : \A m \in AllNodes : n \in PrevNodes(b, m) <=> m \in NextNodes(b, n)
  BY <1>1 DEF Sound, Matched
<1>4. \A n \in AllNodes :
        /\ Height(b, n) \in Nat /\ Height(b, n) <= Cardinality(AllNodes)
        /\ \A p \in PrevNodes(b, n) : Height(b, p) < Height(b, n)
  BY <1>1, HeightGrows DEF Sound
<1>5. \A n \in AllNodes : PrevNodes(b, n) = {} <=> n = Start
  BY DEF Sound
<1>6. \A n \in AllNodes : b[n].prev = <<>> <=> PrevNodes(b, n) = {}
  BY ListsClosed DEF Sound
<1>7. ASSUME NEW n \in AllNodes, NEW c \in NextNodes(b, n)
      PROVE  c \in AllNodes /\ n \in PrevNodes(b, c) /\ Height(b, n) < Height(b, c) /\ c # Start
  BY <1>2, <1>3, <1>4, <1>5, <1>7
<1>8. ASSUME NEW n \in AllNodes, NEW p \in PrevNodes(b, n) PROVE n \in NextNodes(b, p)
  BY <1>2, <1>3, <1>8
<1>9. ASSUME NEW n \in AllNodes PROVE n \notin NextNodes(b, n)
  BY <1>4, <1>7
<1> QED
  BY <1>1, <1>2, <1>4, <1>5, <1>6, <1>7, <1>8, <1>9

\* A node that was reached has its entry in the heap or has relaxed its children.
Relaxed(b, w, s) ==
  \A n \in AllNodes :
    s.dist[n] \in Nat =>
      \/ <<s.dist[n], n>> \in s.heap
      \/ \A c \in NextNodes(b, n) : s.dist[n] + w[c] <= s.dist[c]

\* A distance comes from a predecessor, which may have got farther since.
Traced(b, w, s) ==
  \A n \in AllNodes \ {Start} :
    s.dist[n] \in Nat =>
      \E p \in PrevNodes(b, n) : s.dist[p] \in Nat /\ s.dist[n] <= s.dist[p] + w[n]

\* The search for the longest path after the entries in Q were taken from the heap.
Ways(b, w, s, Q) ==
  /\ s.dist \in [AllNodes -> Int] /\ s.heap \in SUBSET (Nat \X AllNodes)
  /\ Q \in SUBSET (Nat \X AllNodes) /\ IsFiniteSet(Q) /\ Q \cap s.heap = {}
  /\ s.dist[Start] = w[Start]
  /\ \A n \in AllNodes :
       \/ s.dist[n] = Unreached
       \/ s.dist[n] \in Nat /\ s.dist[n] <= Height(b, n) * Slowest(w)
  /\ \A x \in s.heap \cup Q : x[1] <= s.dist[x[2]]
  /\ Relaxed(b, w, s)
  /\ Traced(b, w, s)

\* No distance exceeds the limit.
LEMMA WithinLimit ==
  ASSUME NEW b, Sound(b), NEW w, Times(w), NEW s, NEW Q, Ways(b, w, s, Q)
  PROVE  /\ Limit(w) \in Nat
         /\ \A n \in AllNodes : s.dist[n] <= Limit(w)
         /\ \A x \in s.heap \cup Q : x[1] \in 0..Limit(w)
<1>1. Slowest(w) \in Nat /\ Cardinality(AllNodes) \in Nat
  BY SlowestBounds, EveryNodeOrder, FS_CardinalityType
<1>2. Limit(w) \in Nat
  BY <1>1 DEF Limit
<1>3. ASSUME NEW n \in AllNodes PROVE s.dist[n] <= Limit(w) /\ s.dist[n] \in Int
  <2> DEFINE h == Height(b, n)
             k == Cardinality(AllNodes)
             m == Slowest(w)
             d == s.dist[n]
  <2>1. h \in Nat /\ h <= k
    BY SoundEdges
  <2>2. d = Unreached \/ (d \in Nat /\ d <= h * m)
    <3>1. \/ s.dist[n] = Unreached
          \/ s.dist[n] \in Nat /\ s.dist[n] <= Height(b, n) * Slowest(w)
      BY Zenon DEF Ways
    <3> QED
      BY <3>1
  <2>3. h * m <= k * m
    <3>1. k \in Nat /\ m \in Nat
      BY <1>1
    <3> HIDE DEF h, k, m
    <3>2. CASE h = k
      BY <2>1, <3>1, <3>2
    <3>3. CASE h < k
      BY <2>1, <3>1, <3>3, OneMore
    <3> QED
      BY <2>1, <3>1, <3>2, <3>3
  <2>4. k * m = Limit(w) /\ h * m \in Nat
    BY <1>1, <2>1 DEF Limit
  <2> HIDE DEF h, k, m, d
  <2>5. d <= Limit(w) /\ d \in Int
    BY <1>2, <2>2, <2>3, <2>4 DEF Unreached
  <2> QED
    BY <2>5 DEF d
<1>4. ASSUME NEW x \in s.heap \cup Q PROVE x[1] \in 0..Limit(w)
  <2>1. x[1] \in Nat /\ x[2] \in AllNodes /\ x[1] <= s.dist[x[2]]
    <3>1. s.heap \cup Q \subseteq Nat \X AllNodes
      BY DEF Ways
    <3>2. x[1] <= s.dist[x[2]]
      BY DEF Ways
    <3> QED
      BY <3>1, <3>2
  <2>2. s.dist[x[2]] <= Limit(w) /\ s.dist[x[2]] \in Int
    BY <1>3, <2>1
  <2> QED
    BY <1>2, <2>1, <2>2
<1> QED
  BY <1>2, <1>3, <1>4

\* What taking an entry from the heap and relaxing children over it must observe.
IsTurn(b, w, s, top, C) ==
  /\ top \in s.heap /\ C \subseteq NextNodes(b, top[2])
  /\ C # {} => top[1] = s.dist[top[2]]
  /\ \A c \in C : top[1] + w[c] > s.dist[c]
  /\ top[1] = s.dist[top[2]] => \A c \in NextNodes(b, top[2]) \ C : top[1] + w[c] <= s.dist[c]

\* Where a node is after children were relaxed.
LEMMA RelaxedState ==
  ASSUME NEW b, Sound(b), NEW w, Times(w), NEW s, NEW Q, Ways(b, w, s, Q),
         NEW top, NEW C, IsTurn(b, w, s, top, C), NEW t, t = Relax(b, w, s, top, C)
  PROVE  /\ top[1] \in Nat /\ top[2] \in AllNodes /\ top = <<top[1], top[2]>>
         /\ top[1] <= s.dist[top[2]]
         /\ top[2] \notin C /\ Start \notin C /\ C \subseteq AllNodes
         /\ t.dist \in [AllNodes -> Int]
         /\ \A n \in C : t.dist[n] = top[1] + w[n] /\ t.dist[n] \in Nat /\ t.dist[n] > s.dist[n]
         /\ \A n \in AllNodes \ C : t.dist[n] = s.dist[n]
         /\ t.heap = (s.heap \ {top}) \cup {<<t.dist[c], c>> : c \in C}
<1> DEFINE x == top[1]
           m == top[2]
<1>1. top \in s.heap /\ C \subseteq NextNodes(b, m) /\ \A c \in C : x + w[c] > s.dist[c]
  BY DEF IsTurn
<1>2. s.heap \in SUBSET (Nat \X AllNodes) /\ s.dist \in [AllNodes -> Int]
  BY DEF Ways
<1>3. x \in Nat /\ m \in AllNodes /\ top = <<x, m>>
  BY <1>1, <1>2
<1>4. x <= s.dist[m]
  <2>1. \A e \in s.heap \cup Q : e[1] <= s.dist[e[2]]
    BY DEF Ways
  <2> QED
    BY <1>1, <2>1
<1> HIDE DEF x, m
<1>5. m \notin C /\ Start \notin C /\ C \subseteq AllNodes
  BY <1>1, <1>3, SoundEdges
<1>6. Nodes(b) = AllNodes /\ w \in [AllNodes -> Nat]
  BY SoundEdges DEF Times
<1>7. t.dist = [n \in AllNodes |-> IF n \in C THEN x + w[n] ELSE s.dist[n]]
  BY <1>6 DEF Relax, x
<1>8. t.heap = (s.heap \ {top}) \cup {<<x + w[c], c>> : c \in C}
  BY DEF Relax, x
<1>9. \A n \in C : x + w[n] \in Nat
  BY <1>3, <1>5, <1>6
<1>10. t.dist \in [AllNodes -> Int]
  BY <1>2, <1>7, <1>9
<1>11. \A n \in C : t.dist[n] = x + w[n]
  BY <1>5, <1>7
<1>12. \A n \in AllNodes \ C : t.dist[n] = s.dist[n]
  BY <1>7
<1>13. {<<x + w[c], c>> : c \in C} = {<<t.dist[c], c>> : c \in C}
  BY <1>11
<1> QED
  BY <1>1, <1>3, <1>4, <1>5, <1>8, <1>9, <1>10, <1>11, <1>12, <1>13 DEF x, m

\* Relaxing over an entry keeps what holds of the search.
LEMMA RelaxKeeps ==
  ASSUME NEW b, Sound(b), NEW w, Times(w), NEW s, NEW Q, Ways(b, w, s, Q),
         NEW top, NEW C, IsTurn(b, w, s, top, C)
  PROVE  Ways(b, w, Relax(b, w, s, top, C), Q \cup {top})
<1> DEFINE t == Relax(b, w, s, top, C)
           x == top[1]
           m == top[2]
<1>1. /\ x \in Nat /\ m \in AllNodes /\ top = <<x, m>>
      /\ x <= s.dist[m] /\ m \notin C /\ Start \notin C /\ C \subseteq AllNodes
      /\ t.dist \in [AllNodes -> Int]
      /\ \A n \in C : t.dist[n] = x + w[n] /\ t.dist[n] \in Nat /\ t.dist[n] > s.dist[n]
      /\ \A n \in AllNodes \ C : t.dist[n] = s.dist[n]
      /\ t.heap = (s.heap \ {top}) \cup {<<t.dist[c], c>> : c \in C}
  BY RelaxedState
<1>2. /\ top \in s.heap /\ C \subseteq NextNodes(b, m)
      /\ C # {} => x = s.dist[m]
      /\ x = s.dist[m] => \A c \in NextNodes(b, m) \ C : x + w[c] <= s.dist[c]
  BY DEF IsTurn
<1> HIDE DEF t, x, m
<1>3. /\ s.dist \in [AllNodes -> Int] /\ s.heap \in SUBSET (Nat \X AllNodes)
      /\ Q \in SUBSET (Nat \X AllNodes) /\ IsFiniteSet(Q) /\ Q \cap s.heap = {}
      /\ s.dist[Start] = w[Start]
      /\ \A e \in s.heap \cup Q : e[1] <= s.dist[e[2]]
      /\ Relaxed(b, w, s) /\ Traced(b, w, s)
  BY DEF Ways
<1>4. \A n \in AllNodes : \/ s.dist[n] = Unreached
                          \/ s.dist[n] \in Nat /\ s.dist[n] <= Height(b, n) * Slowest(w)
  BY Zenon DEF Ways
<1>5. w \in [AllNodes -> Nat] /\ Start \in AllNodes
  BY SoundEdges DEF Times
<1>6. \A n \in AllNodes : t.dist[n] >= s.dist[n] /\ t.dist[n] \in Int /\ s.dist[n] \in Int
  <2> SUFFICES ASSUME NEW n \in AllNodes
               PROVE  t.dist[n] >= s.dist[n] /\ t.dist[n] \in Int /\ s.dist[n] \in Int
    OBVIOUS
  <2>1. t.dist[n] \in Int /\ s.dist[n] \in Int
    BY <1>1, <1>3
  <2>2. CASE n \in C
    BY <1>1, <2>1, <2>2
  <2>3. CASE n \notin C
    BY <1>1, <2>1, <2>3
  <2> QED
    BY <2>1, <2>2, <2>3
<1>7. t.heap \in SUBSET (Nat \X AllNodes)
  BY <1>1, <1>3
<1>8. Q \cup {top} \in SUBSET (Nat \X AllNodes) /\ IsFiniteSet(Q \cup {top})
  <2>1. IsFiniteSet(Q \cup {top})
    BY <1>3, FS_AddElement
  <2> QED
    BY <1>1, <1>3, <2>1
<1>9. (Q \cup {top}) \cap t.heap = {}
  <2>1. ASSUME NEW c \in C PROVE <<t.dist[c], c>> \notin s.heap \cup Q
    <3>1. t.dist[c] > s.dist[c] /\ t.dist[c] \in Int /\ s.dist[c] \in Int
      BY <1>1, <1>6, <2>1
    <3>2. <<t.dist[c], c>> \in s.heap \cup Q => t.dist[c] <= s.dist[c]
      BY <1>3
    <3> QED
      BY <3>1, <3>2
  <2> QED
    BY <1>1, <1>2, <1>3, <2>1
<1>10. t.dist[Start] = w[Start]
  BY <1>1, <1>3, <1>5
<1>11. ASSUME NEW n \in AllNodes
       PROVE  \/ t.dist[n] = Unreached
              \/ t.dist[n] \in Nat /\ t.dist[n] <= Height(b, n) * Slowest(w)
  <2>1. CASE n \notin C
    BY <1>1, <1>4, <2>1
  <2>2. CASE n \in C
    <3> DEFINE h == Height(b, m)
               k == Height(b, n)
               most == Slowest(w)
    <3>1. h \in Nat /\ k \in Nat /\ h < k
      BY <1>1, <1>2, <2>2, SoundEdges
    <3>2. most \in Nat /\ w[n] \in Nat /\ w[n] <= most
      BY <1>5, SlowestBounds
    <3>3. x <= h * most
      <4>1. x = s.dist[m]
        BY <1>2, <2>2
      <4>2. s.dist[m] = Unreached \/ (s.dist[m] \in Nat /\ s.dist[m] <= h * most)
        BY <1>1, <1>4
      <4> QED
        BY <1>1, <4>1, <4>2 DEF Unreached
    <3>4. t.dist[n] = x + w[n] /\ t.dist[n] \in Nat
      BY <1>1, <2>2
    <3> HIDE DEF h, k, most
    <3>5. h * most \in Nat /\ k * most \in Nat /\ h * most + most <= k * most
      BY <3>1, <3>2, OneMore
    <3>6. t.dist[n] <= k * most
      BY <1>1, <3>2, <3>3, <3>4, <3>5
    <3> QED
      BY <3>4, <3>6 DEF k, most
  <2> QED
    BY <2>1, <2>2
<1>12. ASSUME NEW e \in t.heap \cup (Q \cup {top}) PROVE e[1] <= t.dist[e[2]]
  <2>1. CASE e \in s.heap \cup Q
    <3>1. e[1] \in Nat /\ e[2] \in AllNodes
      BY <1>3, <2>1
    <3>2. e[1] <= s.dist[e[2]]
      BY <1>3, <2>1
    <3> QED
      BY <1>6, <3>1, <3>2
  <2>2. ASSUME NEW c \in C, e = <<t.dist[c], c>> PROVE e[1] <= t.dist[e[2]]
    BY <1>1, <1>6, <2>2
  <2>3. e \in s.heap \cup Q \/ \E c \in C : e = <<t.dist[c], c>>
    BY <1>1, <1>2
  <2> QED
    BY <2>1, <2>2, <2>3
<1>13. ASSUME NEW n \in AllNodes, t.dist[n] \in Nat, <<t.dist[n], n>> \notin t.heap,
              NEW c \in NextNodes(b, n)
       PROVE  t.dist[n] + w[c] <= t.dist[c]
  <2>1. n \notin C /\ t.dist[n] = s.dist[n]
    BY <1>1, <1>13
  <2>2. c \in AllNodes /\ w[c] \in Nat
    BY <1>5, <1>13, SoundEdges
  <2>3. s.dist[n] + w[c] <= s.dist[c] \/ (c \in C /\ n = m)
    <3>1. CASE n = m /\ x = s.dist[m]
      BY <1>2, <1>13, <3>1
    <3>2. CASE ~(n = m /\ x = s.dist[m])
      <4>1. <<s.dist[n], n>> # top
        BY <1>1, <3>2
      <4>2. <<s.dist[n], n>> \notin s.heap
        BY <1>1, <1>13, <2>1, <4>1
      <4> QED
        BY <1>3, <1>13, <2>1, <4>2 DEF Relaxed
    <3> QED
      BY <3>1, <3>2
  <2>4. CASE s.dist[n] + w[c] <= s.dist[c]
    BY <1>6, <2>1, <2>2, <2>4
  <2>5. CASE (c \in C /\ n = m)
    <3>1. x = s.dist[m] /\ t.dist[c] = x + w[c]
      BY <1>1, <1>2, <2>5
    <3> QED
      BY <1>1, <1>6, <2>1, <2>2, <2>5, <3>1
  <2> QED
    BY <2>3, <2>4, <2>5
<1>14. ASSUME NEW n \in AllNodes \ {Start}, t.dist[n] \in Nat
       PROVE  \E p \in PrevNodes(b, n) : t.dist[p] \in Nat /\ t.dist[n] <= t.dist[p] + w[n]
  <2>1. CASE n \in C
    <3>1. m \in PrevNodes(b, n)
      BY <1>1, <1>2, <2>1, SoundEdges
    <3>2. t.dist[m] = s.dist[m] /\ s.dist[m] = x
      BY <1>1, <1>2, <2>1
    <3>3. t.dist[n] = x + w[n] /\ w[n] \in Nat
      BY <1>1, <1>5, <2>1
    <3> QED
      BY <1>1, <3>1, <3>2, <3>3
  <2>2. CASE n \notin C
    <3>1. t.dist[n] = s.dist[n]
      BY <1>1, <2>2
    <3>2. PICK p \in PrevNodes(b, n) : s.dist[p] \in Nat /\ s.dist[n] <= s.dist[p] + w[n]
      BY <1>3, <1>14, <3>1 DEF Traced
    <3>3. p \in AllNodes /\ w[n] \in Nat
      BY <1>5, SoundEdges
    <3>4. t.dist[p] >= s.dist[p] /\ t.dist[p] \in Int
      BY <1>6, <3>3
    <3>5. t.dist[p] \in Nat /\ t.dist[n] <= t.dist[p] + w[n]
      BY <1>14, <3>1, <3>2, <3>3, <3>4
    <3> QED
      BY <3>5
  <2> QED
    BY <2>1, <2>2
<1>15. Relaxed(b, w, t)
  BY <1>13 DEF Relaxed
<1>16. Traced(b, w, t)
  BY <1>14 DEF Traced
<1>17. Ways(b, w, t, Q \cup {top})
  BY <1>1, <1>7, <1>8, <1>9, <1>10, <1>11, <1>12, <1>15, <1>16, Zenon DEF Ways
<1> QED
  BY <1>17 DEF t

\* One turn of the loop.
LEMMA PopKeeps ==
  ASSUME NEW b, Sound(b), NEW w, Times(w), NEW s, NEW Q, Ways(b, w, s, Q), s.heap # {}
  PROVE  /\ Ways(b, w, PopFarthest(b, w, s), Q \cup {Farthest(s.heap)})
         /\ Farthest(s.heap) \in s.heap
<1> DEFINE top == Farthest(s.heap)
           longer == {c \in NextNodes(b, top[2]) : top[1] + w[c] > s.dist[c]}
           C == IF top[1] < s.dist[top[2]] THEN {} ELSE longer
<1>1. top \in s.heap
  <2>1. Limit(w) \in Nat /\ \A x \in s.heap : x[1] <= Limit(w)
    <3>1. Limit(w) \in Nat /\ \A x \in s.heap \cup Q : x[1] \in 0..Limit(w)
      BY WithinLimit
    <3> QED
      BY <3>1
  <2>2. s.heap \in SUBSET (Nat \X AllNodes)
    BY DEF Ways
  <2> QED
    BY <2>1, <2>2, FarthestEntry
<1>2. PopFarthest(b, w, s) = Relax(b, w, s, top, C)
  BY DEF PopFarthest
<1> HIDE DEF top
<1>3. top[1] \in Nat /\ top[2] \in AllNodes
  <2>1. s.heap \in SUBSET (Nat \X AllNodes)
    BY DEF Ways
  <2> QED
    BY <1>1, <2>1
<1>4. top[1] <= s.dist[top[2]] /\ s.dist \in [AllNodes -> Int]
  <2>1. \A x \in s.heap \cup Q : x[1] <= s.dist[x[2]]
    BY DEF Ways
  <2>2. s.dist \in [AllNodes -> Int]
    BY DEF Ways
  <2> QED
    BY <1>1, <2>1, <2>2
<1>5. \A c \in NextNodes(b, top[2]) : c \in AllNodes /\ s.dist[c] \in Int /\ w[c] \in Nat
  <2>1. NextNodes(b, top[2]) \subseteq AllNodes
    BY <1>3, SoundEdges
  <2> QED
    BY <1>4, <2>1 DEF Times
<1>6. s.dist[top[2]] \in Int
  BY <1>3, <1>4
<1>7. IsTurn(b, w, s, top, C)
  <2>1. CASE top[1] < s.dist[top[2]]
    <3>1. C = {} /\ top[1] # s.dist[top[2]]
      BY <1>3, <1>6, <2>1
    <3> HIDE DEF C
    <3> QED
      BY <1>1, <3>1 DEF IsTurn
  <2>2. CASE top[1] = s.dist[top[2]]
    <3>1. C = longer
      BY <1>3, <2>2
    <3>2. \A c \in NextNodes(b, top[2]) \ longer : top[1] + w[c] <= s.dist[c]
      BY <1>3, <1>5
    <3>3. longer \subseteq NextNodes(b, top[2]) /\ \A c \in longer : top[1] + w[c] > s.dist[c]
      OBVIOUS
    <3> HIDE DEF C, longer
    <3> QED
      BY <1>1, <2>2, <3>1, <3>2, <3>3 DEF IsTurn
  <2> QED
    BY <1>3, <1>4, <1>6, <2>1, <2>2
<1> HIDE DEF C
<1>8. Ways(b, w, Relax(b, w, s, top, C), Q \cup {top})
  BY <1>7, RelaxKeeps
<1> QED
  BY <1>1, <1>2, <1>8 DEF top

\* The search as a function of the rounds.
Begin(w) ==
  [dist |-> [n \in AllNodes |-> IF n = Start THEN w[n] ELSE Unreached],
   heap |-> {<<w[Start], Start>>}]

IsWay(b, w, f) ==
  /\ f[0] = Begin(w)
  /\ \A i \in Nat : f[i + 1] = PopFarthest(b, w, f[i])
  /\ \A n \in AllNodes :
       LongestPath(b, w, Start, n) = f[Cardinality(AllNodes) * (Limit(w) + 1)].dist[n]

\* At first only the start was reached.
LEMMA BeginWays ==
  ASSUME NEW b, Sound(b), NEW w, Times(w)
  PROVE  Ways(b, w, Begin(w), {})
<1> DEFINE s == Begin(w)
<1>1. Start \in AllNodes /\ w \in [AllNodes -> Nat] /\ w[Start] \in Nat
  BY SoundEdges DEF Times
<1>2. /\ s.dist = [n \in AllNodes |-> IF n = Start THEN w[n] ELSE Unreached]
      /\ s.heap = {<<w[Start], Start>>}
  BY DEF Begin
<1> HIDE DEF s
<1>3. s.dist \in [AllNodes -> Int] /\ s.heap \in SUBSET (Nat \X AllNodes) /\ s.dist[Start] = w[Start]
  BY <1>1, <1>2 DEF Unreached
<1>4. \A n \in AllNodes \ {Start} : s.dist[n] = Unreached /\ s.dist[n] \notin Nat
  BY <1>2 DEF Unreached
<1>5. w[Start] <= Height(b, Start) * Slowest(w)
  <2> DEFINE h == Height(b, Start)
             m == Slowest(w)
  <2>1. h \in Nat /\ 0 < h
    <3>1. Start \in Ancestors(b, Start) /\ Ancestors(b, Start) \subseteq AllNodes
      <4>1. Upward(b) /\ Nodes(b) = AllNodes
        BY SoundEdges DEF Sound
      <4> QED
        BY <1>1, <4>1, AncestorsClosure
    <3>2. IsFiniteSet(Ancestors(b, Start))
      BY <3>1, EveryNodeOrder, FS_Subset
    <3>3. Cardinality(Ancestors(b, Start)) # 0
      BY <3>1, <3>2, FS_EmptySet
    <3> QED
      BY <3>2, <3>3, FS_CardinalityType DEF Height
  <2>2. m \in Nat /\ w[Start] <= m
    BY <1>1, SlowestBounds
  <2> HIDE DEF h, m
  <2>3. 0 * m \in Nat /\ h * m \in Nat /\ 0 * m + m <= h * m
    BY <2>1, <2>2, OneMore
  <2>4. w[Start] <= h * m
    BY <1>1, <2>2, <2>3
  <2> QED
    BY <2>4 DEF h, m
<1>6. ASSUME NEW n \in AllNodes
      PROVE  s.dist[n] = Unreached \/ (s.dist[n] \in Nat /\ s.dist[n] <= Height(b, n) * Slowest(w))
  BY <1>1, <1>3, <1>4, <1>5
<1>7. \A x \in s.heap \cup {} : x[1] <= s.dist[x[2]]
  BY <1>1, <1>2, <1>3
<1>8. Relaxed(b, w, s)
  BY <1>2, <1>3, <1>4 DEF Relaxed
<1>9. Traced(b, w, s)
  BY <1>4 DEF Traced
<1>10. {} \in SUBSET (Nat \X AllNodes) /\ IsFiniteSet({}) /\ {} \cap s.heap = {}
  BY FS_EmptySet
<1>11. Ways(b, w, s, {})
  BY <1>3, <1>6, <1>7, <1>8, <1>9, <1>10, Zenon DEF Ways
<1> QED
  BY <1>11 DEF s

\* What was taken from the heap may be forgotten.
LEMMA WaysForget ==
  ASSUME NEW b, NEW w, NEW s, NEW Q, Ways(b, w, s, Q)
  PROVE  Ways(b, w, s, {})
<1>1. {} \in SUBSET (Nat \X AllNodes) /\ IsFiniteSet({}) /\ {} \cap s.heap = {}
  BY FS_EmptySet
<1>2. \A x \in s.heap \cup {} : x[1] <= s.dist[x[2]]
  BY DEF Ways
<1> QED
  BY <1>1, <1>2, Zenon DEF Ways

\* The recursive function of get_weighted_longest_path makes one turn after another.
LEMMA WaySearched ==
  ASSUME NEW b, Sound(b), NEW w, Times(w)
  PROVE  \E f : IsWay(b, w, f)
<1> DEFINE Round(u) ==
             [i \in Nat |-> IF i = 0 THEN Begin(w) ELSE PopFarthest(b, w, u[i - 1])]
           search == CHOOSE u : u = Round(u)
           States == [dist : [AllNodes -> Int], heap : SUBSET (Nat \X AllNodes)]
           S == {s \in States : Ways(b, w, s, {})}
           F == [s \in S |-> PopFarthest(b, w, s)]
<1>1. Begin(w) \in S
  <2>1. Ways(b, w, Begin(w), {})
    BY BeginWays
  <2>2. Begin(w).dist \in [AllNodes -> Int] /\ Begin(w).heap \in SUBSET (Nat \X AllNodes)
    BY <2>1 DEF Ways
  <2>3. Begin(w) = [dist |-> Begin(w).dist, heap |-> Begin(w).heap]
    BY DEF Begin
  <2>4. Begin(w) \in States
    BY <2>2, <2>3
  <2> QED
    BY <2>1, <2>4
<1>2. ASSUME NEW s \in S PROVE PopFarthest(b, w, s) \in S
  <2>1. s \in States /\ Ways(b, w, s, {})
    OBVIOUS
  <2>2. CASE s.heap = {}
    BY <2>2 DEF PopFarthest
  <2>3. CASE s.heap # {}
    <3> DEFINE t == PopFarthest(b, w, s)
    <3>1. Ways(b, w, t, {} \cup {Farthest(s.heap)})
      BY <2>1, <2>3, PopKeeps
    <3>2. t = [dist |-> t.dist, heap |-> t.heap]
      BY <2>3 DEF PopFarthest, Relax
    <3> HIDE DEF t
    <3>3. Ways(b, w, t, {})
      BY <3>1, WaysForget
    <3>4. t.dist \in [AllNodes -> Int] /\ t.heap \in SUBSET (Nat \X AllNodes)
      BY <3>3 DEF Ways
    <3>5. t \in States
      BY <3>2, <3>4
    <3> QED
      BY <3>3, <3>5 DEF t
  <2> QED
    BY <2>2, <2>3
<1>3. F \in [S -> S] /\ \A s \in S : F[s] = PopFarthest(b, w, s)
  <2> HIDE DEF S
  <2> QED
    BY <1>2
<1> HIDE DEF F, S
<1>4. PICK f : IsIteration(S, F, Begin(w), f)
  BY <1>1, <1>3, Iterates
<1>5. f \in [Nat -> S] /\ f[0] = Begin(w) /\ \A i \in Nat : f[i + 1] = PopFarthest(b, w, f[i])
  BY <1>3, <1>4 DEF IsIteration
<1>6. f = Round(f)
  <2>1. ASSUME NEW i \in Nat, i # 0 PROVE f[i] = PopFarthest(b, w, f[i - 1])
    <3>1. i - 1 \in Nat /\ (i - 1) + 1 = i
      BY <2>1
    <3> QED
      BY <1>5, <3>1
  <2> QED
    BY <1>5, <2>1
<1>7. search = Round(search)
  <2> HIDE DEF Round
  <2> QED
    BY <1>6
<1> HIDE DEF search
<1>8. search[0] = Begin(w) /\ \A i \in Nat : search[i + 1] = PopFarthest(b, w, search[i])
  <2>1. ASSUME NEW i \in Nat PROVE Round(search)[i + 1] = PopFarthest(b, w, search[i])
    <3>1. i + 1 \in Nat /\ i + 1 # 0 /\ (i + 1) - 1 = i
      OBVIOUS
    <3> QED
      BY <3>1
  <2>2. Round(search)[0] = Begin(w)
    OBVIOUS
  <2> HIDE DEF Round
  <2> QED
    BY <1>7, <2>1, <2>2
<1>9. ASSUME NEW n \in AllNodes
      PROVE  LongestPath(b, w, Start, n) = search[Cardinality(AllNodes) * (Limit(w) + 1)].dist[n]
  <2>1. Nodes(b) = AllNodes
    BY SoundEdges
  <2>2. /\ Begin(w) = [dist |-> [m \in Nodes(b) |-> IF m = Start THEN w[m] ELSE Unreached],
                       heap |-> {<<w[Start], Start>>}]
        /\ Limit(w) = Cardinality(Nodes(b)) * Max({w[m] : m \in Nodes(b)})
    BY <2>1 DEF Begin, Limit, Slowest
  <2> QED
    BY <2>1, <2>2 DEF LongestPath, search
<1>10. IsWay(b, w, search)
  BY <1>8, <1>9 DEF IsWay
<1> QED
  BY <1>10

\* As long as there are entries, every turn takes another one.
LEMMA WayStands ==
  ASSUME NEW b, Sound(b), NEW w, Times(w), NEW f, IsWay(b, w, f), NEW k \in Nat
  PROVE  \E Q : Ways(b, w, f[k], Q) /\ (f[k].heap # {} => Cardinality(Q) = k)
<1> DEFINE Stands(i) == \E Q : Ways(b, w, f[i], Q) /\ (f[i].heap # {} => Cardinality(Q) = i)
           R == {i \in Nat : Stands(i)}
<1>1. 0 \in R
  <2>1. Ways(b, w, f[0], {}) /\ Cardinality({}) = 0
    BY BeginWays, FS_EmptySet DEF IsWay
  <2> QED
    BY <2>1
<1>2. ASSUME NEW i \in R PROVE i + 1 \in R
  <2> DEFINE s == f[i]
             t == f[i + 1]
  <2>1. i \in Nat /\ t = PopFarthest(b, w, s)
    BY DEF IsWay
  <2>2. PICK Q : Ways(b, w, s, Q) /\ (s.heap # {} => Cardinality(Q) = i)
    OBVIOUS
  <2> HIDE DEF s
  <2>3. CASE s.heap = {}
    <3>1. t = s
      BY <2>1, <2>3 DEF PopFarthest
    <3> HIDE DEF t
    <3>2. Ways(b, w, t, Q) /\ t.heap = {}
      BY <2>2, <2>3, <3>1
    <3> QED
      BY <2>1, <3>2 DEF t
  <2>4. CASE s.heap # {}
    <3> DEFINE top == Farthest(s.heap)
               P == Q \cup {top}
    <3> HIDE DEF t
    <3>1. Ways(b, w, PopFarthest(b, w, s), P) /\ top \in s.heap
      BY <2>2, <2>4, PopKeeps
    <3>2. IsFiniteSet(Q) /\ Q \cap s.heap = {}
      BY <2>2 DEF Ways
    <3> HIDE DEF top
    <3>3. Cardinality(P) = Cardinality(Q) + 1
      <4>1. top \notin Q
        BY <3>1, <3>2
      <4> QED
        BY <3>2, <4>1, FS_AddElement
    <3> HIDE DEF P
    <3>4. Ways(b, w, t, P) /\ Cardinality(P) = i + 1
      BY <2>1, <2>2, <2>4, <3>1, <3>3
    <3> QED
      BY <2>1, <3>4 DEF t
  <2> QED
    BY <2>3, <2>4
<1> HIDE DEF R
<1>3. R = Nat
  <2>1. R \in SUBSET Nat
    BY DEF R
  <2> QED
    BY <1>1, <1>2, <2>1, AllNat
<1> QED
  BY <1>3 DEF R

\* After as many turns as there are nodes and distances, none is left.
LEMMA WayEnds ==
  ASSUME NEW b, Sound(b), NEW w, Times(w), NEW f, IsWay(b, w, f)
  PROVE  LET s == f[Cardinality(AllNodes) * (Limit(w) + 1)]
         IN  s.heap = {} /\ Ways(b, w, s, {})
<1> DEFINE rounds == Cardinality(AllNodes) * (Limit(w) + 1)
           entries == (0..Limit(w)) \X AllNodes
           s == f[rounds]
<1>1. IsFiniteSet(AllNodes) /\ Cardinality(AllNodes) \in Nat
  BY EveryNodeOrder, FS_CardinalityType
<1>2. Limit(w) \in Nat
  BY <1>1, SlowestBounds DEF Limit
<1>3. rounds \in Nat
  BY <1>1, <1>2
<1>4. IsFiniteSet(entries) /\ Cardinality(entries) = rounds
  <2>1. IsFiniteSet(0..Limit(w)) /\ Cardinality(0..Limit(w)) = Limit(w) + 1
    <3>1. 0 \in Int /\ Limit(w) \in Int /\ ~(0 > Limit(w)) /\ Limit(w) - 0 + 1 = Limit(w) + 1
      BY <1>2
    <3> QED
      BY <3>1, FS_Interval
  <2>2. IsFiniteSet(entries) /\ Cardinality(entries) = Cardinality(0..Limit(w)) * Cardinality(AllNodes)
    BY <1>1, <2>1, FS_Product
  <2> QED
    BY <1>1, <1>2, <2>1, <2>2
<1>5. PICK Q : Ways(b, w, s, Q) /\ (s.heap # {} => Cardinality(Q) = rounds)
  <2> HIDE DEF rounds
  <2> QED
    BY <1>3, WayStands
<1> HIDE DEF s, rounds
<1>6. ASSUME s.heap # {} PROVE FALSE
  <2>1. \A x \in s.heap \cup Q : x[1] \in 0..Limit(w)
    BY <1>5, WithinLimit
  <2>2. /\ s.heap \in SUBSET (Nat \X AllNodes) /\ Q \in SUBSET (Nat \X AllNodes)
        /\ Q \cap s.heap = {}
    BY <1>5 DEF Ways
  <2>3. Q \subseteq entries /\ s.heap \subseteq entries
    BY <2>1, <2>2
  <2>4. Q # entries
    BY <1>6, <2>2, <2>3
  <2> HIDE DEF entries
  <2>5. Cardinality(Q) = Cardinality(entries)
    BY <1>4, <1>5, <1>6
  <2> QED
    BY <1>4, <2>3, <2>4, <2>5, FS_Subset
<1>7. Ways(b, w, s, {})
  BY <1>5, WaysForget
<1> QED
  BY <1>6, <1>7 DEF s, rounds

\* The greatest of finitely many distances.
LEMMA GreatestOf ==
  ASSUME NEW P, IsFiniteSet(P), NEW u, \A p \in P : u[p] \in Nat,
         NEW q \in P, \A p \in P : u[p] <= u[q]
  PROVE  Max({u[p] : p \in P}) = u[q]
<1> DEFINE e == [p \in P |-> u[p]]
           I == {e[p] : p \in P}
<1>1. e \in [P -> Nat] /\ \A p \in P : e[p] = u[p]
  OBVIOUS
<1>2. {u[p] : p \in P} = I
  BY <1>1
<1> HIDE DEF e
<1>3. IsFiniteSet(I)
  BY <1>1, FiniteImage
<1>4. I \in SUBSET Nat /\ u[q] \in I /\ \A y \in I : y <= u[q]
  BY <1>1
<1> HIDE DEF I
<1>5. Max(I) \in I /\ \A y \in I : Max(I) >= y
  BY <1>3, <1>4, GreatestNat
<1>6. Max(I) = u[q]
  <2>1. Max(I) <= u[q] /\ Max(I) >= u[q] /\ Max(I) \in Nat /\ u[q] \in Nat
    BY <1>4, <1>5
  <2> QED
    BY <2>1
<1> QED
  BY <1>2, <1>6

\* A time for every node: its own and that of its slowest predecessor.
AddsUp(b, w, u) ==
  \A n \in AllNodes :
    u[n] = w[n] + IF b[n].prev = <<>> THEN 0 ELSE Max({u[p] : p \in PrevNodes(b, n)})

\* When no entry is left, every node was reached, and the distances add up.
LEMMA EndAddsUp ==
  ASSUME NEW b, Sound(b), NEW w, Times(w), NEW s, Ways(b, w, s, {}), s.heap = {}
  PROVE  s.dist \in [AllNodes -> Nat] /\ AddsUp(b, w, s.dist)
<1> DEFINE u == s.dist
           G == {n \in AllNodes : u[n] \notin Nat}
<1>1. u \in [AllNodes -> Int] /\ u[Start] = w[Start] /\ w \in [AllNodes -> Nat] /\ Start \in AllNodes
  BY SoundEdges DEF Ways, Times
<1>2. \A n \in AllNodes : u[n] \in Nat =>
        \A c \in NextNodes(b, n) : u[n] + w[c] <= u[c]
  <2>1. Relaxed(b, w, s)
    BY DEF Ways
  <2> QED
    BY <2>1 DEF Relaxed
<1>3. \A n \in AllNodes \ {Start} : u[n] \in Nat =>
        \E p \in PrevNodes(b, n) : u[p] \in Nat /\ u[n] <= u[p] + w[n]
  <2>1. Traced(b, w, s)
    BY DEF Ways
  <2> QED
    BY <2>1 DEF Traced
<1> HIDE DEF u
<1>4. G = {}
  <2> SUFFICES ASSUME G # {} PROVE FALSE
    OBVIOUS
  <2>1. G \in SUBSET Nodes(b) /\ Upward(b) /\ Acyclic(b)
    BY SoundEdges DEF Sound
  <2>2. PICK n \in G : \A p \in PrevNodes(b, n) : p \notin G
    <3> HIDE DEF G
    <3> QED
      BY <2>1, FirstNode
  <2>3. n \in AllNodes /\ n # Start
    BY <1>1
  <2>4. PICK p \in PrevNodes(b, n) : p \in AllNodes
    BY <2>3, SoundEdges
  <2>5. u[p] \in Nat /\ n \in NextNodes(b, p)
    BY <2>2, <2>3, <2>4, SoundEdges
  <2>6. u[p] + w[n] <= u[n]
    BY <1>2, <2>4, <2>5
  <2>7. u[n] \in Int /\ w[n] \in Nat
    BY <1>1, <2>3
  <2> QED
    BY <2>2, <2>5, <2>6, <2>7
<1>5. \A n \in AllNodes : u[n] \in Nat
  BY <1>4
<1>6. ASSUME NEW n \in AllNodes
      PROVE  u[n] = w[n] + IF b[n].prev = <<>> THEN 0 ELSE Max({u[p] : p \in PrevNodes(b, n)})
  <2>1. CASE n = Start
    <3>1. b[n].prev = <<>>
      BY <2>1, SoundEdges
    <3> QED
      BY <1>1, <2>1, <3>1
  <2>2. CASE n # Start
    <3> DEFINE P == PrevNodes(b, n)
    <3>1. b[n].prev # <<>> /\ P \subseteq AllNodes
      BY <2>2, SoundEdges
    <3>2. PICK q \in P : u[n] <= u[q] + w[n]
      BY <1>3, <1>5, <2>2
    <3>3. ASSUME NEW p \in P PROVE u[p] \in Nat /\ u[p] + w[n] <= u[n]
      <4>1. p \in AllNodes /\ n \in NextNodes(b, p)
        BY <3>1, SoundEdges
      <4> QED
        BY <1>2, <1>5, <4>1
    <3>4. IsFiniteSet(P)
      BY <3>1, EveryNodeOrder, FS_Subset
    <3>5. u[n] \in Nat /\ w[n] \in Nat
      BY <1>1, <1>5
    <3> HIDE DEF P
    <3>6. \A p \in P : u[p] \in Nat /\ u[p] <= u[q]
      <4> SUFFICES ASSUME NEW p \in P PROVE u[p] \in Nat /\ u[p] <= u[q]
        OBVIOUS
      <4>1. u[p] \in Nat /\ u[q] \in Nat /\ u[p] + w[n] <= u[n]
        BY <3>3
      <4> QED
        BY <3>2, <3>5, <4>1
    <3>7. Max({u[p] : p \in P}) = u[q]
      BY <3>4, <3>6, GreatestOf
    <3>8. u[n] = w[n] + u[q]
      <4>1. u[q] \in Nat /\ u[q] + w[n] <= u[n]
        BY <3>3
      <4> QED
        BY <3>2, <3>5, <4>1
    <3> QED
      BY <3>1, <3>7, <3>8 DEF P
  <2> QED
    BY <2>1, <2>2
<1>7. u \in [AllNodes -> Nat]
  BY <1>1, <1>5
<1>8. AddsUp(b, w, u)
  BY <1>6 DEF AddsUp
<1> QED
  BY <1>7, <1>8 DEF u

\* On a DAG there is one way to add up.
LEMMA AddsUpOnce ==
  ASSUME NEW b, Sound(b), NEW w, NEW u, NEW v, AddsUp(b, w, u), AddsUp(b, w, v),
         NEW n \in AllNodes
  PROVE  u[n] = v[n]
<1> DEFINE G == {m \in AllNodes : u[m] # v[m]}
<1> SUFFICES ASSUME G # {} PROVE FALSE
  OBVIOUS
<1>1. G \in SUBSET Nodes(b) /\ Upward(b) /\ Acyclic(b)
  BY SoundEdges DEF Sound
<1>2. PICK m \in G : \A p \in PrevNodes(b, m) : p \notin G
  <2> HIDE DEF G
  <2> QED
    BY <1>1, FirstNode
<1>3. m \in AllNodes /\ PrevNodes(b, m) \subseteq AllNodes
  BY SoundEdges
<1>4. \A p \in PrevNodes(b, m) : u[p] = v[p]
  BY <1>2, <1>3
<1>5. {u[p] : p \in PrevNodes(b, m)} = {v[p] : p \in PrevNodes(b, m)}
  BY <1>4
<1>6. u[m] = v[m]
  BY <1>3, <1>5 DEF AddsUp
<1> QED
  BY <1>2, <1>6

\* get_weighted_longest_path returns the weight of the heaviest way to a node, in
\* whatever order it takes the entries from its heap, for every DAG
\* extract_dag_from_dict builds and for all times.
THEOREM LongestIsHeaviest ==
  ASSUME NEW b, Sound(b), NEW w, Times(w), NEW n \in AllNodes
  PROVE  LongestPath(b, w, Start, n) = Heaviest(b, w, n)
<1>1. PICK f : IsWay(b, w, f)
  BY WaySearched
<1> DEFINE s == f[Cardinality(AllNodes) * (Limit(w) + 1)]
<1>2. s.heap = {} /\ Ways(b, w, s, {})
  BY <1>1, WayEnds
<1>3. LongestPath(b, w, Start, n) = s.dist[n]
  BY <1>1 DEF IsWay
<1> HIDE DEF s
<1> DEFINE u == s.dist
           Sum(h) == [m \in AllNodes |->
                        w[m] + IF b[m].prev = <<>> THEN 0 ELSE Max({h[p] : p \in PrevNodes(b, m)})]
           upto == CHOOSE h : h = Sum(h)
<1>4. u \in [AllNodes -> Nat] /\ AddsUp(b, w, u)
  BY <1>2, EndAddsUp
<1> HIDE DEF u
<1>5. u = Sum(u)
  BY <1>4 DEF AddsUp
<1>6. upto = Sum(upto)
  <2> HIDE DEF Sum
  <2> QED
    BY <1>5
<1> HIDE DEF upto
<1>7. AddsUp(b, w, upto)
  <2>1. \A m \in AllNodes : Sum(upto)[m] =
          w[m] + IF b[m].prev = <<>> THEN 0 ELSE Max({upto[p] : p \in PrevNodes(b, m)})
    OBVIOUS
  <2> HIDE DEF Sum
  <2>2. \A m \in AllNodes : upto[m] = Sum(upto)[m]
    BY <1>6
  <2> QED
    BY <2>1, <2>2 DEF AddsUp
<1>8. upto[n] = u[n]
  BY <1>4, <1>7, AddsUpOnce
<1>9. Heaviest(b, w, n) = upto[n]
  <2>1. Nodes(b) = AllNodes
    BY SoundEdges
  <2> QED
    BY <2>1 DEF Heaviest, upto
<1> QED
  BY <1>3, <1>8, <1>9 DEF u

\* The total time of a task is the time of its slowest way through the DAG, for
\* workflows of any size.
THEOREM TotalTimeRight == Spec => []TotalTime
<1>1. MergeInv => TotalTime
  <2> SUFFICES ASSUME MergeInv, outcome = "built", NEW time \in [Services -> 0..1]
               PROVE  LET weight == [n \in Nodes(dag) |-> IF n \in Services THEN time[n] ELSE 0]
                      IN  LongestPath(dag, weight, Start, End) = Heaviest(dag, weight, End)
    BY DEF TotalTime
  <2> DEFINE weight == [n \in Nodes(dag) |-> IF n \in Services THEN time[n] ELSE 0]
  <2>1. Sound(dag)
    BY DEF MergeInv
  <2>2. Nodes(dag) = AllNodes /\ End \in AllNodes
    BY <2>1, SoundEdges DEF AllNodes
  <2>3. Times(weight)
    BY <2>2 DEF Times
  <2> HIDE DEF weight
  <2>4. LongestPath(dag, weight, Start, End) = Heaviest(dag, weight, End)
    BY <2>1, <2>2, <2>3, LongestIsHeaviest
  <2> QED
    BY <2>4 DEF weight
<1> QED
  BY <1>1, MergeInvHolds, PTL
=============================================================================
