-------------------------- MODULE ServiceDagProofs --------------------------
(***************************************************************************)
(* What the closures of ServiceDag compute, for every finite DAG: the sets *)
(* the solvers collect with a visited set.  The recursive functions go     *)
(* once around for every node; that this is often enough is a matter of    *)
(* counting: a set that still grows has as many nodes as it has rounds     *)
(* behind it.                                                              *)
(***************************************************************************)
EXTENDS ServiceDag, FiniteSetTheorems, SequenceTheorems, WellFoundedInduction, TLAPS

-----------------------------------------------------------------------------
(* Induction on the natural numbers, in a form without an operator for a   *)
(* parameter: a set of numbers with a member has a least one.              *)

\* A set of numbers with a member has a least one.
LEMMA LeastNat ==
  ASSUME NEW B \in SUBSET Nat, B # {}
  PROVE  \E m \in B : \A k \in B : m <= k
<1> DEFINE T == {1..k : k \in B}
           R == StrictSubsetOrdering(Nat)
<1>1. IsWellFoundedOn(R, FiniteSubsetsOf(Nat))
  BY FS_StrictSubsetOrderingWellFounded
<1>2. ASSUME NEW k \in B PROVE 1..k \in FiniteSubsetsOf(Nat)
  <2>1. IsFiniteSet(1..k)
    <3>1. 1 \in Int /\ k \in Int
      OBVIOUS
    <3> QED
      BY <3>1, FS_Interval
  <2>2. 1..k \subseteq Nat
    OBVIOUS
  <2> QED
    BY <2>1, <2>2 DEF FiniteSubsetsOf
<1>3. T \subseteq FiniteSubsetsOf(Nat) /\ T # {}
  BY <1>2
<1>4. PICK x \in T : \A y \in T : <<y, x>> \notin R
  <2> HIDE DEF T, R
  <2> QED
    BY <1>1, <1>3, WFMin
<1>5. PICK m \in B : x = 1..m
  BY <1>4
<1>6. ASSUME NEW k \in B PROVE m <= k
  <2> SUFFICES ASSUME k < m PROVE FALSE
    OBVIOUS
  <2>1. m \in 1..m /\ m \notin 1..k /\ 1..k \subseteq 1..m /\ 1..m \subseteq Nat
    OBVIOUS
  <2>2. 1..k \in SUBSET Nat /\ 1..m \in SUBSET Nat /\ 1..k # 1..m
    BY <2>1
  <2>3. <<1..k, 1..m>> \in R
    BY <2>1, <2>2, Zenon DEF StrictSubsetOrdering
  <2>4. 1..k \in T
    OBVIOUS
  <2> QED
    BY <1>4, <1>5, <2>3, <2>4
<1> QED
  BY <1>6

\* A set of numbers that has 0, and n + 1 with every n, has them all.
LEMMA AllNat ==
  ASSUME NEW P \in SUBSET Nat, 0 \in P, \A n \in P : n + 1 \in P
  PROVE  P = Nat
<1> SUFFICES ASSUME Nat \ P # {} PROVE FALSE
  OBVIOUS
<1>1. PICK m \in Nat \ P : \A k \in Nat \ P : m <= k
  BY LeastNat
<1>2. m # 0 /\ m - 1 \in Nat /\ m - 1 \in P
  BY <1>1
<1> QED
  BY <1>1, <1>2

-----------------------------------------------------------------------------
(* A function applied again and again.                                      *)

IsIteration(S, F, c, f) ==
  f \in [Nat -> S] /\ f[0] = c /\ \A i \in Nat : f[i + 1] = F[f[i]]

\* A function can be applied over and over.
LEMMA Iterates ==
  ASSUME NEW S, NEW F \in [S -> S], NEW c \in S
  PROVE  \E f : IsIteration(S, F, c, f)
<1> DEFINE Runs(k) == {g \in [0..k -> S] : g[0] = c /\ \A i \in 0..(k - 1) : g[i + 1] = F[g[i]]}
<1>1. ASSUME NEW k \in Nat PROVE Runs(k) # {}
  <2> DEFINE P == {i \in Nat : Runs(i) # {}}
  <2>1. 0 \in P
    <3>1. [i \in 0..0 |-> c] \in Runs(0)
      OBVIOUS
    <3> QED
      BY <3>1
  <2>2. ASSUME NEW n \in P PROVE n + 1 \in P
    <3>1. PICK g : g \in Runs(n)
      BY <2>2
    <3> DEFINE h == [i \in 0..(n + 1) |-> IF i = n + 1 THEN F[g[n]] ELSE g[i]]
    <3>2. g \in [0..n -> S] /\ g[0] = c /\ \A i \in 0..(n - 1) : g[i + 1] = F[g[i]]
      BY <3>1
    <3>3. h \in [0..(n + 1) -> S] /\ h[0] = c
      BY <3>2
    <3>4. ASSUME NEW i \in 0..n PROVE h[i + 1] = F[h[i]]
      BY <3>2, <3>4
    <3>5. n + 1 - 1 = n
      OBVIOUS
    <3>6. h \in Runs(n + 1)
      <4> HIDE DEF h
      <4> QED
        BY <3>3, <3>4, <3>5
    <3> QED
      BY <3>6
  <2> HIDE DEF P
  <2>3. P = Nat
    <3>1. P \in SUBSET Nat
      BY DEF P
    <3> QED
      BY <2>1, <2>2, <3>1, AllNat
  <2> QED
    BY <2>3 DEF P
<1>2. ASSUME NEW k \in Nat, NEW g \in Runs(k), NEW h \in Runs(k + 1)
      PROVE  g[k] = h[k]
  <2> DEFINE P == {i \in Nat : i <= k => g[i] = h[i]}
  <2>1. 0 \in P
    OBVIOUS
  <2>2. ASSUME NEW n \in P PROVE n + 1 \in P
    <3> SUFFICES ASSUME n + 1 <= k PROVE g[n + 1] = h[n + 1]
      OBVIOUS
    <3>1. n \in 0..(k - 1) /\ n \in 0..(k + 1 - 1) /\ g[n] = h[n]
      BY <2>2
    <3> QED
      BY <3>1
  <2>3. P \in SUBSET Nat
    OBVIOUS
  <2> HIDE DEF P
  <2>4. P = Nat
    BY <2>1, <2>2, <2>3, AllNat
  <2> QED
    BY <2>4 DEF P
<1> HIDE DEF Runs
<1> DEFINE run == [k \in Nat |-> CHOOSE g \in Runs(k) : TRUE]
           f == [k \in Nat |-> run[k][k]]
<1>3. ASSUME NEW k \in Nat PROVE run[k] \in Runs(k)
  BY <1>1
<1> HIDE DEF run
<1>4. f \in [Nat -> S]
  <2>1. ASSUME NEW k \in Nat PROVE run[k][k] \in S
    BY <1>3 DEF Runs
  <2> QED
    BY <2>1
<1>5. f[0] = c
  BY <1>3 DEF Runs
<1>6. ASSUME NEW i \in Nat PROVE f[i + 1] = F[f[i]]
  <2>1. run[i] \in Runs(i) /\ run[i + 1] \in Runs(i + 1)
    BY <1>3
  <2>2. run[i][i] = run[i + 1][i]
    BY <1>2, <2>1
  <2>3. i \in 0..(i + 1 - 1)
    OBVIOUS
  <2>4. run[i + 1][i + 1] = F[run[i + 1][i]]
    BY <2>1, <2>3 DEF Runs
  <2> QED
    BY <2>2, <2>4
<1> QED
  BY <1>4, <1>5, <1>6 DEF IsIteration

-----------------------------------------------------------------------------
(* Going on from a node along edges, for as many rounds as there are nodes. *)

\* After as many rounds as there are nodes, the set is closed under edges, and
\* the least closed set the node is in.
LEMMA Closure ==
  ASSUME NEW N, IsFiniteSet(N), NEW E \in [N -> SUBSET N], NEW c \in N,
         NEW f \in [Nat -> SUBSET N], f[0] = {c},
         \A i \in Nat : f[i + 1] = f[i] \cup UNION {E[n] : n \in f[i]}
  PROVE  LET A == f[Cardinality(N)]
         IN  /\ A \subseteq N /\ c \in A
             /\ \A n \in A : E[n] \subseteq A
             /\ \A B \in SUBSET N : c \in B /\ (\A n \in B : E[n] \subseteq B) => A \subseteq B
<1> DEFINE size == Cardinality(N)
<1>1. size \in Nat /\ size # 0
  BY FS_CardinalityType, FS_EmptySet
<1>2. ASSUME NEW i \in Nat PROVE IsFiniteSet(f[i]) /\ Cardinality(f[i]) \in Nat /\ Cardinality(f[i]) <= size
  <2>1. IsFiniteSet(f[i]) /\ Cardinality(f[i]) <= Cardinality(N)
    BY FS_Subset
  <2> QED
    BY <2>1, FS_CardinalityType
<1>3. ASSUME NEW i \in Nat PROVE c \in f[i]
  <2> DEFINE P == {k \in Nat : c \in f[k]}
  <2>1. P \in SUBSET Nat /\ 0 \in P /\ \A n \in P : n + 1 \in P
    OBVIOUS
  <2> HIDE DEF P
  <2>2. P = Nat
    BY <2>1, AllNat
  <2> QED
    BY <2>2 DEF P
<1>4. PICK i \in Nat : i < size /\ f[i + 1] = f[i]
  <2> SUFFICES ASSUME \A i \in Nat : i < size => f[i + 1] # f[i] PROVE FALSE
    OBVIOUS
  <2> DEFINE P == {k \in Nat : k <= size => k < Cardinality(f[k])}
  <2>1. 0 \in P
    <3>1. Cardinality({c}) = 1
      BY FS_Singleton
    <3>2. 0 < Cardinality(f[0])
      BY <3>1
    <3> QED
      BY <3>2, Zenon
  <2>2. ASSUME NEW k \in P PROVE k + 1 \in P
    <3> SUFFICES ASSUME k + 1 <= size PROVE k + 1 < Cardinality(f[k + 1])
      OBVIOUS
    <3>1. k < Cardinality(f[k]) /\ f[k + 1] # f[k] /\ k \in Nat
      BY <1>1, <2>2
    <3>2. f[k] \subseteq f[k + 1]
      BY <3>1
    <3>3. Cardinality(f[k]) <= Cardinality(f[k + 1])
          /\ Cardinality(f[k]) # Cardinality(f[k + 1])
      BY <1>2, <3>1, <3>2, FS_Subset
    <3>4. Cardinality(f[k]) \in Nat /\ Cardinality(f[k + 1]) \in Nat
      BY <1>2, <3>1
    <3> QED
      BY <3>1, <3>3, <3>4
  <2>3. P \in SUBSET Nat
    OBVIOUS
  <2> HIDE DEF P
  <2>4. P = Nat
    BY <2>1, <2>2, <2>3, AllNat
  <2>5. size < Cardinality(f[size])
    BY <1>1, <2>4 DEF P
  <2> QED
    BY <1>1, <1>2, <2>5
<1>5. ASSUME NEW k \in Nat PROVE f[i + k] = f[i]
  <2> DEFINE P == {n \in Nat : f[i + n] = f[i]}
  <2>1. 0 \in P
    OBVIOUS
  <2>2. ASSUME NEW n \in P PROVE n + 1 \in P
    <3>1. f[(i + n) + 1] = f[i + n] \cup UNION {E[m] : m \in f[i + n]}
      OBVIOUS
    <3>2. f[i + 1] = f[i] \cup UNION {E[m] : m \in f[i]}
      OBVIOUS
    <3>3. f[(i + n) + 1] = f[i]
      BY <1>4, <2>2, <3>1, <3>2
    <3>4. (i + n) + 1 = i + (n + 1)
      OBVIOUS
    <3> QED
      BY <3>3, <3>4
  <2>3. P \in SUBSET Nat
    OBVIOUS
  <2> HIDE DEF P
  <2>4. P = Nat
    BY <2>1, <2>2, <2>3, AllNat
  <2> QED
    BY <2>4 DEF P
<1>6. f[size] = f[i] /\ f[size + 1] = f[i]
  <2>1. size - i \in Nat /\ size + 1 - i \in Nat /\ i + (size - i) = size
        /\ i + (size + 1 - i) = size + 1
    BY <1>1, <1>4
  <2> HIDE DEF size
  <2> QED
    BY <1>5, <2>1
<1>7. \A n \in f[size] : E[n] \subseteq f[size]
  <2>1. f[size + 1] = f[size] \cup UNION {E[n] : n \in f[size]}
    BY <1>1
  <2> HIDE DEF size
  <2> QED
    BY <1>6, <2>1
<1>8. ASSUME NEW B \in SUBSET N, c \in B, \A n \in B : E[n] \subseteq B
      PROVE  f[size] \subseteq B
  <2> DEFINE P == {k \in Nat : f[k] \subseteq B}
  <2>1. 0 \in P
    BY <1>8
  <2>2. ASSUME NEW k \in P PROVE k + 1 \in P
    <3>1. f[k + 1] = f[k] \cup UNION {E[n] : n \in f[k]} /\ f[k] \subseteq B
      OBVIOUS
    <3>2. f[k + 1] \subseteq B
      BY <1>8, <3>1
    <3> QED
      BY <3>2
  <2>3. P \in SUBSET Nat
    OBVIOUS
  <2> HIDE DEF P
  <2>4. P = Nat
    BY <2>1, <2>2, <2>3, AllNat
  <2> QED
    BY <1>1, <2>4 DEF P
<1> QED
  BY <1>1, <1>3, <1>7, <1>8

\* What a search from a node collects is the least set that has the node itself
\* and, with any node, the neighbours of that one.
LEMMA ReachedClosure ==
  ASSUME NEW N, IsFiniteSet(N), NEW E \in [N -> SUBSET N], NEW c \in N
  PROVE  LET A == Reached(E, c)
         IN  /\ A \subseteq N /\ c \in A
             /\ \A n \in A : E[n] \subseteq A
             /\ \A B \in SUBSET N : c \in B /\ (\A n \in B : E[n] \subseteq B) => A \subseteq B
<1> DEFINE Round(u) == [i \in Nat |->
                          IF i = 0 THEN {c} ELSE u[i - 1] \cup UNION {E[n] : n \in u[i - 1]}]
           met == CHOOSE u : u = Round(u)
           F == [X \in SUBSET N |-> X \cup UNION {E[n] : n \in X}]
           S == SUBSET N
<1>1. {c} \in S /\ F \in [S -> S]
  <2>1. \A X \in S : UNION {E[n] : n \in X} \subseteq N
    OBVIOUS
  <2> QED
    BY <2>1
<1>2. PICK f : IsIteration(S, F, {c}, f)
  <2> HIDE DEF S, F, Round
  <2> QED
    BY <1>1, Iterates
<1>3. /\ f \in [Nat -> S] /\ f[0] = {c}
      /\ \A i \in Nat : f[i + 1] = f[i] \cup UNION {E[n] : n \in f[i]}
  <2>1. f \in [Nat -> S] /\ f[0] = {c} /\ \A i \in Nat : f[i + 1] = F[f[i]]
    BY <1>2 DEF IsIteration
  <2>2. \A X \in S : F[X] = X \cup UNION {E[n] : n \in X}
    OBVIOUS
  <2> HIDE DEF F, S
  <2> QED
    BY <2>1, <2>2
<1>4. f = Round(f)
  <2>1. ASSUME NEW i \in Nat, i # 0
        PROVE  f[i] = f[i - 1] \cup UNION {E[n] : n \in f[i - 1]}
    <3>1. i - 1 \in Nat /\ (i - 1) + 1 = i
      BY <2>1
    <3> HIDE DEF S
    <3> QED
      BY <1>3, <3>1
  <2> HIDE DEF S
  <2> QED
    BY <1>3, <2>1
<1>5. met = Round(met)
  <2> HIDE DEF Round
  <2> QED
    BY <1>4
<1> HIDE DEF met
<1>6. /\ met[0] = {c}
      /\ \A i \in Nat : met[i + 1] = met[i] \cup UNION {E[n] : n \in met[i]}
  <2>1. ASSUME NEW i \in Nat
        PROVE  met[i + 1] = met[i] \cup UNION {E[n] : n \in met[i]}
    <3>1. i + 1 \in Nat /\ i + 1 # 0 /\ (i + 1) - 1 = i
      OBVIOUS
    <3>2. Round(met)[i + 1] = met[i] \cup UNION {E[n] : n \in met[i]}
      BY <3>1
    <3> HIDE DEF Round
    <3> QED
      BY <1>5, <3>2
  <2>2. Round(met)[0] = {c}
    OBVIOUS
  <2> HIDE DEF Round
  <2> QED
    BY <1>5, <2>1, <2>2
<1>7. ASSUME NEW i \in Nat PROVE met[i] \in S
  <2> DEFINE P == {k \in Nat : met[k] \in S}
  <2>1. 0 \in P
    BY <1>6
  <2>2. ASSUME NEW k \in P PROVE k + 1 \in P
    <3>1. \A X \in S : X \cup UNION {E[n] : n \in X} \in S
      OBVIOUS
    <3> QED
      BY <1>6, <2>2, <3>1
  <2>3. P \in SUBSET Nat
    OBVIOUS
  <2> HIDE DEF P
  <2>4. P = Nat
    BY <2>1, <2>2, <2>3, AllNat
  <2> QED
    BY <2>4 DEF P
<1>8. met \in [Nat -> S]
  <2>1. DOMAIN met = Nat /\ met = [i \in Nat |-> met[i]]
    <3>1. Round(met) = [i \in Nat |-> Round(met)[i]] /\ DOMAIN Round(met) = Nat
      OBVIOUS
    <3> HIDE DEF Round
    <3> QED
      BY <1>5, <3>1
  <2> HIDE DEF S
  <2> QED
    BY <1>7, <2>1
<1>9. Reached(E, c) = met[Cardinality(N)]
  <2>1. DOMAIN E = N
    OBVIOUS
  <2> QED
    BY <2>1 DEF Reached, met
<1> QED
  BY <1>6, <1>8, <1>9, Closure

-----------------------------------------------------------------------------
(* Ancestors and descendants.                                               *)

\* What the lemmas ask of a DAG: finitely many nodes, edges among them, and no
\* node upstream of one of its predecessors.
Upward(dag) ==
  IsFiniteSet(Nodes(dag)) /\ \A n \in Nodes(dag) : PrevNodes(dag, n) \subseteq Nodes(dag)

Acyclic(dag) ==
  \A n \in Nodes(dag) : \A p \in PrevNodes(dag, n) : n \notin Ancestors(dag, p)

\* _get_ancestors collects the least set that has the node itself and, with any
\* node, the predecessors of that one.
LEMMA AncestorsClosure ==
  ASSUME NEW dag, Upward(dag), NEW node \in Nodes(dag)
  PROVE  LET A == Ancestors(dag, node)
         IN  /\ A \subseteq Nodes(dag) /\ node \in A
             /\ \A n \in A : PrevNodes(dag, n) \subseteq A
             /\ \A B \in SUBSET Nodes(dag) :
                  node \in B /\ (\A n \in B : PrevNodes(dag, n) \subseteq B) => A \subseteq B
<1> DEFINE N == Nodes(dag)
           E == [n \in N |-> PrevNodes(dag, n)]
<1>1. IsFiniteSet(N) /\ E \in [N -> SUBSET N] /\ node \in N
  BY DEF Upward
<1>2. \A n \in N : E[n] = PrevNodes(dag, n)
  OBVIOUS
<1>3. Ancestors(dag, node) = Reached(E, node)
  BY DEF Ancestors
<1> HIDE DEF E, N
<1>4. LET A == Reached(E, node)
      IN  /\ A \subseteq N /\ node \in A
          /\ \A n \in A : E[n] \subseteq A
          /\ \A B \in SUBSET N : node \in B /\ (\A n \in B : E[n] \subseteq B) => A \subseteq B
  BY <1>1, ReachedClosure
<1> USE DEF N
<1> QED
  BY <1>2, <1>3, <1>4

\* What is upstream of an ancestor is upstream of the node.
LEMMA AncestorsTransitive ==
  ASSUME NEW dag, Upward(dag), NEW node \in Nodes(dag), NEW a \in Ancestors(dag, node)
  PROVE  a \in Nodes(dag) /\ Ancestors(dag, a) \subseteq Ancestors(dag, node)
<1> DEFINE A == Ancestors(dag, node)
<1>1. A \subseteq Nodes(dag) /\ \A n \in A : PrevNodes(dag, n) \subseteq A
  BY AncestorsClosure
<1>2. a \in A
  OBVIOUS
<1> HIDE DEF A
<1>3. a \in Nodes(dag) /\ Ancestors(dag, a) \subseteq A
  BY <1>1, <1>2, AncestorsClosure
<1> QED
  BY <1>3 DEF A

\* A proper ancestor is upstream of one of the predecessors.
LEMMA AncestorsStep ==
  ASSUME NEW dag, Upward(dag), NEW node \in Nodes(dag),
         NEW a \in Ancestors(dag, node), a # node
  PROVE  \E p \in PrevNodes(dag, node) : a \in Ancestors(dag, p)
<1> DEFINE B == {node} \cup UNION {Ancestors(dag, p) : p \in PrevNodes(dag, node)}
<1>1. \A p \in PrevNodes(dag, node) :
        /\ p \in Nodes(dag) /\ p \in Ancestors(dag, p) /\ Ancestors(dag, p) \subseteq Nodes(dag)
        /\ \A n \in Ancestors(dag, p) : PrevNodes(dag, n) \subseteq Ancestors(dag, p)
  <2>1. \A p \in PrevNodes(dag, node) : p \in Nodes(dag)
    BY DEF Upward
  <2> QED
    BY <2>1, AncestorsClosure
<1>2. B \in SUBSET Nodes(dag) /\ node \in B
  BY <1>1
<1>3. \A n \in B : PrevNodes(dag, n) \subseteq B
  <2> SUFFICES ASSUME NEW n \in B PROVE PrevNodes(dag, n) \subseteq B
    OBVIOUS
  <2>1. CASE n = node
    BY <1>1, <2>1
  <2>2. ASSUME NEW p \in PrevNodes(dag, node), n \in Ancestors(dag, p)
        PROVE  PrevNodes(dag, n) \subseteq B
    BY <1>1, <2>2
  <2> QED
    BY <2>1, <2>2
<1>4. a \in B
  <2> HIDE DEF B
  <2> QED
    BY <1>2, <1>3, AncestorsClosure
<1> QED
  BY <1>4

\* In a DAG the nodes can be counted off so that every node comes after its
\* predecessors: by the size of what is upstream.
Height(dag, n) == Cardinality(Ancestors(dag, n))

\* A node has more upstream of it than any of its predecessors.
LEMMA HeightGrows ==
  ASSUME NEW dag, Upward(dag), Acyclic(dag)
  PROVE  \A n \in Nodes(dag) :
           /\ Height(dag, n) \in Nat /\ Height(dag, n) <= Cardinality(Nodes(dag))
           /\ \A p \in PrevNodes(dag, n) : Height(dag, p) < Height(dag, n)
<1>1. ASSUME NEW n \in Nodes(dag)
      PROVE  /\ Ancestors(dag, n) \subseteq Nodes(dag) /\ IsFiniteSet(Ancestors(dag, n))
             /\ Height(dag, n) \in Nat /\ Height(dag, n) <= Cardinality(Nodes(dag))
  <2>1. Ancestors(dag, n) \subseteq Nodes(dag)
    BY AncestorsClosure
  <2>2. IsFiniteSet(Ancestors(dag, n)) /\ Height(dag, n) <= Cardinality(Nodes(dag))
    BY <2>1, FS_Subset DEF Upward, Height
  <2> QED
    BY <2>1, <2>2, FS_CardinalityType DEF Height
<1>2. ASSUME NEW n \in Nodes(dag), NEW p \in PrevNodes(dag, n)
      PROVE  Height(dag, p) < Height(dag, n)
  <2>1. p \in Nodes(dag) /\ p \in Ancestors(dag, n) /\ n \in Ancestors(dag, n)
    BY AncestorsClosure DEF Upward
  <2>2. Ancestors(dag, p) \subseteq Ancestors(dag, n)
    BY <2>1, AncestorsTransitive
  <2>3. n \notin Ancestors(dag, p)
    BY DEF Acyclic
  <2>4. Height(dag, p) <= Height(dag, n) /\ Height(dag, p) # Height(dag, n)
    BY <1>1, <2>1, <2>2, <2>3, FS_Subset DEF Height
  <2> QED
    BY <1>1, <2>1, <2>4
<1> QED
  BY <1>1, <1>2

\* Of any nodes of a DAG, one has no predecessor among them.
LEMMA FirstNode ==
  ASSUME NEW dag, Upward(dag), Acyclic(dag), NEW G \in SUBSET Nodes(dag), G # {}
  PROVE  \E n \in G : \A p \in PrevNodes(dag, n) : p \notin G
<1> DEFINE B == {Height(dag, n) : n \in G}
<1>1. B \in SUBSET Nat /\ B # {}
  BY HeightGrows
<1>2. PICK m \in B : \A k \in B : m <= k
  <2> HIDE DEF B
  <2> QED
    BY <1>1, LeastNat
<1>3. PICK n \in G : m = Height(dag, n)
  BY <1>2
<1>4. \A p \in PrevNodes(dag, n) : Height(dag, p) < Height(dag, n) /\ Height(dag, n) \in Nat
  BY HeightGrows
<1>5. \A p \in G : Height(dag, n) <= Height(dag, p) /\ Height(dag, p) \in Nat
  BY <1>2, <1>3, HeightGrows
<1> QED
  BY <1>4, <1>5

\* And one is no predecessor of any of them.
LEMMA LastNode ==
  ASSUME NEW dag, Upward(dag), Acyclic(dag), NEW G \in SUBSET Nodes(dag), G # {}
  PROVE  \E n \in G : \A m \in G : n \notin PrevNodes(dag, m)
<1> DEFINE size == Cardinality(Nodes(dag))
           B == {size - Height(dag, n) : n \in G}
<1>1. size \in Nat
  BY FS_CardinalityType DEF Upward
<1>2. \A n \in Nodes(dag) : Height(dag, n) \in Nat /\ Height(dag, n) <= size
  BY HeightGrows
<1> HIDE DEF size
<1>3. B \in SUBSET Nat /\ B # {}
  BY <1>1, <1>2
<1>4. PICK k \in B : \A l \in B : k <= l
  <2> HIDE DEF B
  <2> QED
    BY <1>3, LeastNat
<1>5. PICK n \in G : k = size - Height(dag, n)
  BY <1>4
<1>6. ASSUME NEW m \in G, n \in PrevNodes(dag, m) PROVE FALSE
  <2>1. Height(dag, n) < Height(dag, m)
    BY <1>6, HeightGrows
  <2>2. size - Height(dag, n) <= size - Height(dag, m)
    BY <1>4, <1>5
  <2> QED
    BY <1>1, <1>2, <2>1, <2>2
<1> QED
  BY <1>6

\* Between two nodes there is only what is upstream of the second.
LEMMA IntermediateUpstream ==
  ASSUME NEW dag, NEW src, NEW dest
  PROVE  IntermediateNodes(dag, src, dest) \subseteq Ancestors(dag, dest)
BY DEF IntermediateNodes

\* What comes downstream of a node is what the node is upstream of.
Matched(dag) ==
  \A n \in Nodes(dag) : \A m \in Nodes(dag) : n \in PrevNodes(dag, m) <=> m \in NextNodes(dag, n)

Downward(dag) ==
  IsFiniteSet(Nodes(dag)) /\ \A n \in Nodes(dag) : NextNodes(dag, n) \subseteq Nodes(dag)

\* _get_forward_reachable collects the least set that has the node itself and,
\* with any node, the children of that one.
LEMMA ForwardClosure ==
  ASSUME NEW dag, Downward(dag), NEW node \in Nodes(dag)
  PROVE  LET A == ForwardReachable(dag, node)
         IN  /\ A \subseteq Nodes(dag) /\ node \in A
             /\ \A n \in A : NextNodes(dag, n) \subseteq A
             /\ \A B \in SUBSET Nodes(dag) :
                  node \in B /\ (\A n \in B : NextNodes(dag, n) \subseteq B) => A \subseteq B
<1> DEFINE N == Nodes(dag)
           E == [n \in N |-> NextNodes(dag, n)]
<1>1. IsFiniteSet(N) /\ E \in [N -> SUBSET N] /\ node \in N
  BY DEF Downward
<1>2. \A n \in N : E[n] = NextNodes(dag, n)
  OBVIOUS
<1>3. ForwardReachable(dag, node) = Reached(E, node)
  BY DEF ForwardReachable
<1> HIDE DEF E, N
<1>4. LET A == Reached(E, node)
      IN  /\ A \subseteq N /\ node \in A
          /\ \A n \in A : E[n] \subseteq A
          /\ \A B \in SUBSET N : node \in B /\ (\A n \in B : E[n] \subseteq B) => A \subseteq B
  BY <1>1, ReachedClosure
<1> USE DEF N
<1> QED
  BY <1>2, <1>3, <1>4

\* Both searches follow the same edges: what one finds going down from a node are
\* the nodes from which the other, going up, finds it.
LEMMA ForwardIsDownstream ==
  ASSUME NEW dag, Upward(dag), Downward(dag), Matched(dag),
         NEW a \in Nodes(dag), NEW n \in Nodes(dag)
  PROVE  n \in ForwardReachable(dag, a) <=> a \in Ancestors(dag, n)
<1> DEFINE R == ForwardReachable(dag, a)
           D == {m \in Nodes(dag) : a \in Ancestors(dag, m)}
<1>1. R \subseteq Nodes(dag) /\ a \in R /\ \A m \in R : NextNodes(dag, m) \subseteq R
  BY ForwardClosure
<1>2. ASSUME n \notin R PROVE a \notin Ancestors(dag, n)
  <2> DEFINE B == Nodes(dag) \ R
  <2>1. n \in B /\ B \in SUBSET Nodes(dag)
    BY <1>2
  <2>2. \A m \in B : PrevNodes(dag, m) \subseteq B
    <3> SUFFICES ASSUME NEW m \in B, NEW p \in PrevNodes(dag, m) PROVE p \in B
      OBVIOUS
    <3>1. p \in Nodes(dag) /\ m \in Nodes(dag)
      BY DEF Upward
    <3>2. m \in NextNodes(dag, p)
      BY <3>1 DEF Matched
    <3> HIDE DEF R
    <3> QED
      BY <1>1, <3>1, <3>2
  <2> HIDE DEF B
  <2>3. Ancestors(dag, n) \subseteq B
    BY <2>1, <2>2, AncestorsClosure
  <2> QED
    BY <1>1, <2>3 DEF B
<1>3. a \in D
  BY AncestorsClosure
<1>4. \A m \in D : NextNodes(dag, m) \subseteq D
  <2> SUFFICES ASSUME NEW m \in D, NEW c \in NextNodes(dag, m) PROVE c \in D
    OBVIOUS
  <2>1. c \in Nodes(dag) /\ m \in PrevNodes(dag, c)
    BY DEF Matched, Downward
  <2>2. m \in Ancestors(dag, c)
    BY <2>1, AncestorsClosure
  <2>3. Ancestors(dag, m) \subseteq Ancestors(dag, c)
    BY <2>1, <2>2, AncestorsTransitive
  <2> QED
    BY <2>1, <2>3
<1>5. R \subseteq D
  <2> HIDE DEF D
  <2>1. D \in SUBSET Nodes(dag)
    BY DEF D
  <2> QED
    BY <1>3, <1>4, <2>1, ForwardClosure
<1> QED
  BY <1>2, <1>5

-----------------------------------------------------------------------------
(* Lists.                                                                   *)

\* The empty list.
LEMMA EmptyList == ToSet(<<>>) = {} /\ IsInjective(<<>>)
BY DEF ToSet, IsInjective

\* A list of one element.
LEMMA OneList ==
  ASSUME NEW x
  PROVE  ToSet(<<x>>) = {x} /\ IsInjective(<<x>>)
BY DEF ToSet, IsInjective

\* A list has its elements in the set it is over, and is one over its elements.
LEMMA ListInSet ==
  ASSUME NEW X, NEW s \in Seq(X)
  PROVE  /\ ToSet(s) \subseteq X /\ s \in Seq(ToSet(s))
         /\ \A i \in DOMAIN s : s[i] \in ToSet(s)
BY DEF ToSet

\* A list that agrees with a function on its positions is the function.
LEMMA ListEqual ==
  ASSUME NEW X, NEW s \in Seq(X), NEW f,
         f = [i \in 1..Len(s) |-> f[i]], \A i \in 1..Len(s) : f[i] = s[i]
  PROVE  f = s
<1>1. s = [i \in 1..Len(s) |-> s[i]]
  OBVIOUS
<1>2. [i \in 1..Len(s) |-> s[i]] = [i \in 1..Len(s) |-> f[i]]
  OBVIOUS
<1> QED
  BY <1>1, <1>2, Zenon

\* A list with one more element.
LEMMA AppendedList ==
  ASSUME NEW X, NEW s \in Seq(X), NEW x \in X
  PROVE  /\ Append(s, x) \in Seq(X) /\ ToSet(Append(s, x)) = ToSet(s) \cup {x}
         /\ IsInjective(s) /\ x \notin ToSet(s) => IsInjective(Append(s, x))
<1>1. Append(s, x) \in Seq(X)
  OBVIOUS
<1>2. ToSet(Append(s, x)) = ToSet(s) \cup {x}
  <2>1. DOMAIN Append(s, x) = (DOMAIN s) \cup {Len(s) + 1}
    OBVIOUS
  <2>2. Append(s, x)[Len(s) + 1] = x /\ \A i \in DOMAIN s : Append(s, x)[i] = s[i]
    OBVIOUS
  <2> QED
    BY <2>1, <2>2 DEF ToSet
<1>3. ASSUME IsInjective(s), x \notin ToSet(s) PROVE IsInjective(Append(s, x))
  <2>1. DOMAIN Append(s, x) = (DOMAIN s) \cup {Len(s) + 1}
    OBVIOUS
  <2>2. Append(s, x)[Len(s) + 1] = x /\ \A i \in DOMAIN s : Append(s, x)[i] = s[i]
    OBVIOUS
  <2>3. \A i \in DOMAIN s : s[i] # x
    BY <1>3 DEF ToSet
  <2> QED
    BY <1>3, <2>1, <2>2, <2>3, Zenon DEF IsInjective
<1> QED
  BY <1>1, <1>2, <1>3

\* Two lists joined name what both name, nothing twice if they have nothing in common.
LEMMA JoinedLists ==
  ASSUME NEW X, NEW s \in Seq(X), NEW t \in Seq(X)
  PROVE  /\ s \o t \in Seq(X) /\ ToSet(s \o t) = ToSet(s) \cup ToSet(t)
         /\ IsInjective(s) /\ IsInjective(t) /\ ToSet(s) \cap ToSet(t) = {} => IsInjective(s \o t)
<1>1. s \o t \in Seq(X)
  OBVIOUS
<1>2. ToSet(s \o t) = ToSet(s) \cup ToSet(t)
  <2>1. Len(s \o t) = Len(s) + Len(t) /\ Len(s) \in Nat /\ Len(t) \in Nat
    OBVIOUS
  <2>2. \A i \in 1..Len(s) : (s \o t)[i] = s[i] /\ i \in 1..(Len(s) + Len(t))
    OBVIOUS
  <2>3. \A i \in 1..Len(t) : (s \o t)[Len(s) + i] = t[i] /\ Len(s) + i \in 1..(Len(s) + Len(t))
    OBVIOUS
  <2>4. \A i \in 1..(Len(s) + Len(t)) : i \in 1..Len(s) \/ i - Len(s) \in 1..Len(t)
    BY <2>1
  <2>5. \A i \in 1..(Len(s) + Len(t)) : i = Len(s) + (i - Len(s))
    BY <2>1
  <2>6. DOMAIN (s \o t) = 1..(Len(s) + Len(t)) /\ DOMAIN s = 1..Len(s) /\ DOMAIN t = 1..Len(t)
    BY <2>1
  <2>7. ToSet(s \o t) \subseteq ToSet(s) \cup ToSet(t)
    <3> SUFFICES ASSUME NEW i \in 1..(Len(s) + Len(t))
                 PROVE  (s \o t)[i] \in ToSet(s) \cup ToSet(t)
      BY <2>6 DEF ToSet
    <3>1. CASE i \in 1..Len(s)
      BY <2>2, <2>6, <3>1 DEF ToSet
    <3>2. CASE i - Len(s) \in 1..Len(t)
      BY <2>3, <2>5, <2>6, <3>2 DEF ToSet
    <3> QED
      BY <2>4, <3>1, <3>2
  <2>8. ToSet(s) \subseteq ToSet(s \o t) /\ ToSet(t) \subseteq ToSet(s \o t)
    BY <2>2, <2>3, <2>6 DEF ToSet
  <2> QED
    BY <2>7, <2>8
<1>3. ASSUME IsInjective(s), IsInjective(t), ToSet(s) \cap ToSet(t) = {}
      PROVE  IsInjective(s \o t)
  <2>1. Len(s \o t) = Len(s) + Len(t) /\ Len(s) \in Nat /\ Len(t) \in Nat
    OBVIOUS
  <2>2. \A i \in 1..Len(s) : (s \o t)[i] = s[i]
    OBVIOUS
  <2>3. \A i \in 1..(Len(s) + Len(t)) : i \notin 1..Len(s) => (s \o t)[i] = t[i - Len(s)]
    OBVIOUS
  <2>4. \A i \in 1..(Len(s) + Len(t)) : i \notin 1..Len(s) => i - Len(s) \in 1..Len(t)
    BY <2>1
  <2>5. DOMAIN (s \o t) = 1..(Len(s) + Len(t)) /\ DOMAIN s = 1..Len(s) /\ DOMAIN t = 1..Len(t)
    BY <2>1
  <2>6. \A i \in 1..Len(s), j \in 1..Len(t) : s[i] # t[j]
    <3>1. \A i \in 1..Len(s) : s[i] \in ToSet(s)
      BY <2>5 DEF ToSet
    <3>2. \A j \in 1..Len(t) : t[j] \in ToSet(t)
      BY <2>5 DEF ToSet
    <3> QED
      BY <1>3, <3>1, <3>2
  <2>7. SUFFICES ASSUME NEW i \in 1..(Len(s) + Len(t)), NEW j \in 1..(Len(s) + Len(t)),
                        (s \o t)[i] = (s \o t)[j]
                 PROVE  i = j
    BY <2>5 DEF IsInjective
  <2>8. CASE i \in 1..Len(s) /\ j \in 1..Len(s)
    BY <1>3, <2>2, <2>5, <2>7, <2>8, Zenon DEF IsInjective
  <2>9. CASE i \in 1..Len(s) /\ j \notin 1..Len(s)
    <3>1. (s \o t)[i] = s[i] /\ (s \o t)[j] = t[j - Len(s)] /\ j - Len(s) \in 1..Len(t)
      BY <2>2, <2>3, <2>4, <2>9
    <3> QED
      BY <2>6, <2>7, <2>9, <3>1, Zenon
  <2>10. CASE i \notin 1..Len(s) /\ j \in 1..Len(s)
    <3>1. (s \o t)[j] = s[j] /\ (s \o t)[i] = t[i - Len(s)] /\ i - Len(s) \in 1..Len(t)
      BY <2>2, <2>3, <2>4, <2>10
    <3> QED
      BY <2>6, <2>7, <2>10, <3>1, Zenon
  <2>11. CASE i \notin 1..Len(s) /\ j \notin 1..Len(s)
    <3>1. (s \o t)[j] = t[j - Len(s)] /\ (s \o t)[i] = t[i - Len(s)]
          /\ i - Len(s) \in 1..Len(t) /\ j - Len(s) \in 1..Len(t)
      BY <2>3, <2>4, <2>11
    <3>2. i - Len(s) = j - Len(s)
      BY <1>3, <2>5, <2>7, <3>1, Zenon DEF IsInjective
    <3> QED
      BY <2>1, <3>2
  <2> QED
    BY <2>8, <2>9, <2>10, <2>11
<1> QED
  BY <1>1, <1>2, <1>3

\* A list without its head.
LEMMA TailOfList ==
  ASSUME NEW X, NEW s \in Seq(X), s # <<>>
  PROVE  /\ Head(s) \in X /\ Tail(s) \in Seq(X) /\ ToSet(s) = ToSet(Tail(s)) \cup {Head(s)}
         /\ IsInjective(s) => IsInjective(Tail(s)) /\ Head(s) \notin ToSet(Tail(s))
<1>1. Head(s) \in X /\ Tail(s) \in Seq(X)
  OBVIOUS
<1>2. ToSet(s) = ToSet(Tail(s)) \cup {Head(s)}
  <2>1. DOMAIN s = 1..Len(s) /\ DOMAIN Tail(s) = 1..(Len(s) - 1) /\ Len(s) \in Nat /\ Len(s) # 0
    OBVIOUS
  <2>2. \A i \in 1..(Len(s) - 1) : Tail(s)[i] = s[i + 1]
    OBVIOUS
  <2>3. Head(s) = s[1]
    OBVIOUS
  <2>4. \A i \in 1..Len(s) : i = 1 \/ i - 1 \in 1..(Len(s) - 1)
    BY <2>1
  <2>5. \A i \in 1..Len(s) : s[i] \in ToSet(Tail(s)) \cup {Head(s)}
    <3> SUFFICES ASSUME NEW i \in 1..Len(s), i # 1 PROVE s[i] \in ToSet(Tail(s))
      BY <2>3
    <3>1. i - 1 \in 1..(Len(s) - 1) /\ (i - 1) + 1 = i
      BY <2>4
    <3>2. Tail(s)[i - 1] = s[i]
      BY <2>2, <3>1
    <3> QED
      BY <2>1, <3>1, <3>2 DEF ToSet
  <2>6. \A i \in 1..(Len(s) - 1) : Tail(s)[i] \in ToSet(s)
    <3> SUFFICES ASSUME NEW i \in 1..(Len(s) - 1) PROVE s[i + 1] \in ToSet(s)
      BY <2>2
    <3>1. i + 1 \in DOMAIN s
      BY <2>1
    <3> QED
      BY <3>1 DEF ToSet
  <2>7. Head(s) \in ToSet(s)
    <3>1. 1 \in DOMAIN s
      BY <2>1
    <3> QED
      BY <2>3, <3>1 DEF ToSet
  <2>8. ToSet(s) \subseteq ToSet(Tail(s)) \cup {Head(s)}
    BY <2>1, <2>5, Zenon DEF ToSet
  <2>9. ToSet(Tail(s)) \subseteq ToSet(s)
    BY <2>1, <2>6, Zenon DEF ToSet
  <2> QED
    BY <2>7, <2>8, <2>9
<1>3. ASSUME IsInjective(s) PROVE IsInjective(Tail(s)) /\ Head(s) \notin ToSet(Tail(s))
  <2>1. DOMAIN s = 1..Len(s) /\ DOMAIN Tail(s) = 1..(Len(s) - 1) /\ Len(s) \in Nat /\ Len(s) # 0
    BY <1>3
  <2>2. \A i \in 1..(Len(s) - 1) : Tail(s)[i] = s[i + 1] /\ i + 1 \in DOMAIN s /\ i + 1 # 1
    BY <1>3, <2>1
  <2>3. Head(s) = s[1] /\ 1 \in DOMAIN s
    BY <1>3, <2>1
  <2>4. \A i \in 1..(Len(s) - 1), j \in 1..(Len(s) - 1) : i + 1 = j + 1 => i = j
    OBVIOUS
  <2>5. IsInjective(Tail(s))
    BY <1>3, <2>1, <2>2, <2>4, Zenon DEF IsInjective
  <2>6. \A i \in 1..(Len(s) - 1) : Tail(s)[i] # Head(s)
    BY <1>3, <2>2, <2>3, Zenon DEF IsInjective
  <2> QED
    BY <2>1, <2>5, <2>6 DEF ToSet
<1> QED
  BY <1>1, <1>2, <1>3

\* A list that names nothing twice is as long as what it names.
LEMMA ListLength ==
  ASSUME NEW X, NEW s \in Seq(X), IsInjective(s)
  PROVE  IsFiniteSet(ToSet(s)) /\ Cardinality(ToSet(s)) = Len(s)
<1>1. Len(s) \in Nat /\ DOMAIN s = 1..Len(s)
  OBVIOUS
<1>2. s \in Bijection(1..Len(s), ToSet(s))
  <2>1. s \in [1..Len(s) -> ToSet(s)]
    BY <1>1 DEF ToSet
  <2>2. \A y \in ToSet(s) : \E i \in 1..Len(s) : s[i] = y
    BY <1>1 DEF ToSet
  <2>3. \A i, j \in 1..Len(s) : s[i] = s[j] => i = j
    BY <1>1 DEF IsInjective
  <2>4. s \in Injection(1..Len(s), ToSet(s))
    BY <2>1, <2>3 DEF Injection, IsInjective
  <2>5. s \in Surjection(1..Len(s), ToSet(s))
    BY <2>1, <2>2 DEF Surjection
  <2> QED
    BY <2>4, <2>5 DEF Bijection
<1>3. IsFiniteSet(1..Len(s)) /\ Cardinality(1..Len(s)) = Len(s)
  <2>1. 1 \in Int /\ Len(s) \in Int
    BY <1>1
  <2> QED
    BY <1>1, <2>1, FS_Interval
<1>4. ExistsBijection(1..Len(s), ToSet(s))
  BY <1>2 DEF ExistsBijection
<1> QED
  BY <1>3, <1>4, FS_Bijection

\* A finite set in some order: the list names each of its elements once.
LEMMA SetInOrder ==
  ASSUME NEW S, IsFiniteSet(S)
  PROVE  SetToSeq(S) \in Seq(S) /\ IsInjective(SetToSeq(S)) /\ ToSet(SetToSeq(S)) = S
<1> DEFINE k == Cardinality(S)
<1>1. k \in Nat
  BY FS_CardinalityType
<1>2. PICK f : f \in Bijection(1..k, S)
  BY FS_NatBijection, FS_CardinalityType DEF ExistsBijection
<1>3. f \in [1..k -> S] /\ IsInjective(f)
  BY <1>2 DEF Bijection, Injection
<1>4. SetToSeq(S) \in [1..k -> S] /\ IsInjective(SetToSeq(S))
  BY <1>3 DEF SetToSeq
<1>5. SetToSeq(S) \in Seq(S)
  BY <1>1, <1>4
<1>6. SetToSeq(S) \in Surjection(1..k, S)
  <2>1. 1 \in Int /\ k \in Int
    BY <1>1
  <2>2. IsFiniteSet(1..k) /\ Cardinality(1..k) = k
    BY <1>1, <2>1, FS_Interval
  <2>3. SetToSeq(S) \in Injection(1..k, S)
    BY <1>4 DEF Injection
  <2> QED
    BY <2>2, <2>3, FS_Injection
<1>7. ToSet(SetToSeq(S)) = S
  <2>1. DOMAIN SetToSeq(S) = 1..k
    BY <1>4
  <2> QED
    BY <1>4, <1>6, <2>1, Zenon DEF Surjection, ToSet
<1> QED
  BY <1>4, <1>5, <1>7

\* What Among keeps of a list: what is in the set, in the same order, nothing twice
\* unless the list had it twice.
LEMMA AmongList ==
  ASSUME NEW X, NEW list \in Seq(X), NEW S
  PROVE  /\ Among(list, S) \in Seq(X)
         /\ ToSet(Among(list, S)) = ToSet(list) \cap S
         /\ IsInjective(list) => IsInjective(Among(list, S))
<1> DEFINE n == Len(list)
           Round(u) == [i \in 0..n |->
                          IF i = 0 THEN <<>>
                          ELSE IF list[i] \in S THEN Append(u[i - 1], list[i]) ELSE u[i - 1]]
           upto == CHOOSE u : u = Round(u)
           St == Nat \X Seq(X)
           After(x) == IF x[1] + 1 \in 1..n /\ list[x[1] + 1] \in S
                       THEN Append(x[2], list[x[1] + 1]) ELSE x[2]
           F == [x \in St |-> <<x[1] + 1, After(x)>>]
<1>1. n \in Nat /\ DOMAIN list = 1..n /\ \A i \in 1..n : list[i] \in X
  OBVIOUS
<1>2. PICK f : IsIteration(St, F, <<0, <<>>>>, f)
  <2>1. <<0, <<>>>> \in St
    <3>1. <<>> \in Seq(X)
      OBVIOUS
    <3> QED
      BY <3>1, Zenon
  <2>2. ASSUME NEW x \in St PROVE <<x[1] + 1, After(x)>> \in St
    <3>1. x[1] \in Nat /\ x[2] \in Seq(X)
      OBVIOUS
    <3>2. After(x) \in Seq(X)
      BY <1>1, <3>1
    <3>3. x[1] + 1 \in Nat
      BY <3>1
    <3> HIDE DEF After
    <3> QED
      BY <3>2, <3>3, Zenon
  <2>3. F \in [St -> St]
    BY <2>2
  <2> HIDE DEF F, St
  <2> QED
    BY <2>1, <2>3, Iterates
<1>3. /\ \A i \in Nat : f[i] \in St
      /\ f[0] = <<0, <<>>>>
      /\ \A i \in Nat : f[i + 1] = <<f[i][1] + 1, After(f[i])>>
  <2>1. f \in [Nat -> St] /\ f[0] = <<0, <<>>>> /\ \A i \in Nat : f[i + 1] = F[f[i]]
    BY <1>2 DEF IsIteration
  <2>2. \A x \in St : F[x] = <<x[1] + 1, After(x)>>
    OBVIOUS
  <2> HIDE DEF F, St, After
  <2> QED
    BY <2>1, <2>2
<1>4. \A i \in Nat : f[i][1] = i
  <2> DEFINE P == {i \in Nat : f[i][1] = i}
  <2>1. 0 \in P
    BY <1>3
  <2>2. ASSUME NEW i \in P PROVE i + 1 \in P
    <3>1. i \in Nat /\ f[i + 1] = <<f[i][1] + 1, After(f[i])>> /\ f[i][1] = i
      BY <1>3, <2>2
    <3> HIDE DEF After
    <3>2. f[i + 1][1] = i + 1
      BY <3>1
    <3> QED
      BY <3>1, <3>2
  <2>3. P \in SUBSET Nat
    OBVIOUS
  <2> HIDE DEF P
  <2>4. P = Nat
    BY <2>1, <2>2, <2>3, AllNat
  <2> QED
    BY <2>4 DEF P
<1> DEFINE g == [i \in 0..n |-> f[i][2]]
<1>5. g = Round(g)
  <2>1. g[0] = <<>>
    BY <1>1, <1>3
  <2>2. ASSUME NEW i \in 0..n, i # 0
        PROVE  g[i] = IF list[i] \in S THEN Append(g[i - 1], list[i]) ELSE g[i - 1]
    <3>1. i - 1 \in Nat /\ i - 1 \in 0..n /\ (i - 1) + 1 = i /\ i \in 1..n
      BY <1>1, <2>2
    <3>2. f[(i - 1) + 1] = <<f[i - 1][1] + 1, After(f[i - 1])>>
      BY <1>3, <3>1
    <3>3. f[i][2] = After(f[i - 1]) /\ f[i - 1][1] = i - 1
      BY <1>4, <3>1, <3>2
    <3> QED
      BY <3>1, <3>3
  <2>3. ASSUME NEW i \in 0..n
        PROVE  g[i] = IF i = 0 THEN <<>>
                      ELSE IF list[i] \in S THEN Append(g[i - 1], list[i]) ELSE g[i - 1]
    BY <2>1, <2>2
  <2>4. g = [i \in 0..n |-> g[i]]
    OBVIOUS
  <2> HIDE DEF g
  <2> QED
    BY <2>3, <2>4
<1>6. upto = Round(upto)
  <2> HIDE DEF Round, g
  <2> QED
    BY <1>5
<1> HIDE DEF upto, g
<1>7. /\ upto[0] = <<>>
      /\ \A i \in 0..n : i # 0 =>
           upto[i] = IF list[i] \in S THEN Append(upto[i - 1], list[i]) ELSE upto[i - 1]
  <2>1. Round(upto)[0] = <<>>
    BY <1>1
  <2>2. ASSUME NEW i \in 0..n, i # 0
        PROVE  Round(upto)[i] = IF list[i] \in S THEN Append(upto[i - 1], list[i]) ELSE upto[i - 1]
    BY <2>2
  <2> HIDE DEF Round
  <2> QED
    BY <1>6, <2>1, <2>2
<1> DEFINE Seen(i) == {list[j] : j \in 1..i}
           Good(i) == /\ upto[i] \in Seq(X)
                      /\ ToSet(upto[i]) = Seen(i) \cap S
                      /\ IsInjective(list) => IsInjective(upto[i])
           P == {i \in Nat : i <= n => Good(i)}
<1>8. 0 \in P
  <2>1. 1..0 = {}
    OBVIOUS
  <2>2. Seen(0) = {}
    BY <2>1
  <2>3. <<>> \in Seq(X) /\ ToSet(<<>>) = {} /\ IsInjective(<<>>)
    BY EmptyList
  <2> HIDE DEF Seen
  <2> QED
    BY <1>7, <2>2, <2>3
<1>9. ASSUME NEW i \in P PROVE i + 1 \in P
  <2> SUFFICES ASSUME i + 1 <= n PROVE Good(i + 1)
    OBVIOUS
  <2>1. i \in Nat /\ Good(i) /\ i + 1 \in 0..n /\ i + 1 # 0 /\ (i + 1) - 1 = i /\ i + 1 \in 1..n
    BY <1>1, <1>9
  <2>2. upto[i + 1] = IF list[i + 1] \in S THEN Append(upto[i], list[i + 1]) ELSE upto[i]
    BY <1>7, <2>1
  <2>3. Seen(i + 1) = Seen(i) \cup {list[i + 1]}
    <3>1. 1..(i + 1) = 1..i \cup {i + 1}
      BY <2>1
    <3> QED
      BY <3>1
  <2>4. list[i + 1] \in X
    BY <1>1, <2>1
  <2>5. IsInjective(list) => list[i + 1] \notin Seen(i)
    <3> SUFFICES ASSUME IsInjective(list), NEW j \in 1..i, list[i + 1] = list[j] PROVE FALSE
      OBVIOUS
    <3>1. j \in DOMAIN list /\ i + 1 \in DOMAIN list /\ j # i + 1
      BY <1>1, <2>1
    <3> QED
      BY <3>1 DEF IsInjective
  <2>6. ToSet(Append(upto[i], list[i + 1])) = ToSet(upto[i]) \cup {list[i + 1]}
        /\ Append(upto[i], list[i + 1]) \in Seq(X)
    BY <2>1, <2>4, AppendedList
  <2> HIDE DEF Seen
  <2>7. CASE list[i + 1] \in S
    <3>1. IsInjective(list) => IsInjective(Append(upto[i], list[i + 1]))
      BY <2>1, <2>4, <2>5, AppendedList
    <3> QED
      BY <2>1, <2>2, <2>3, <2>6, <2>7, <3>1
  <2>8. CASE list[i + 1] \notin S
    BY <2>1, <2>2, <2>3, <2>8
  <2> QED
    BY <2>7, <2>8
<1>10. P = Nat
  <2>1. P \in SUBSET Nat
    OBVIOUS
  <2> HIDE DEF P
  <2> QED
    BY <1>8, <1>9, <2>1, AllNat
<1>11. Good(n)
  <2> HIDE DEF n, Good, P
  <2>1. n \in P /\ n <= n
    BY <1>1, <1>10
  <2> QED
    BY <2>1 DEF P
<1>12. Seen(n) = ToSet(list)
  BY <1>1 DEF ToSet
<1>13. Among(list, S) = upto[n]
  BY DEF Among, upto
<1> HIDE DEF Seen
<1> QED
  BY <1>11, <1>12, <1>13

-----------------------------------------------------------------------------
(* Depths.                                                                  *)

\* What a function makes of a finite set is finite.
LEMMA FiniteImage ==
  ASSUME NEW S, IsFiniteSet(S), NEW T, NEW f \in [S -> T]
  PROVE  IsFiniteSet({f[x] : x \in S})
<1> DEFINE I == {f[x] : x \in S}
<1>1. f \in Surjection(S, I)
  BY DEF Surjection
<1> HIDE DEF I
<1>2. IsFiniteSet(I)
  BY <1>1, FS_Surjection
<1> QED
  BY <1>2 DEF I

\* A finite set of numbers with a member has a greatest one, which Max returns.
LEMMA GreatestNat ==
  ASSUME NEW S \in SUBSET Nat, IsFiniteSet(S), S # {}
  PROVE  Max(S) \in S /\ \A y \in S : Max(S) >= y
<1> DEFINE Above(x) == {z \in S : z > x}
           B == {Cardinality(Above(x)) : x \in S}
<1>1. ASSUME NEW x \in S PROVE IsFiniteSet(Above(x)) /\ Cardinality(Above(x)) \in Nat
  <2>1. Above(x) \subseteq S
    OBVIOUS
  <2> QED
    BY <2>1, FS_Subset, FS_CardinalityType
<1>2. B \in SUBSET Nat /\ B # {}
  BY <1>1
<1>3. PICK m \in B : \A k \in B : m <= k
  <2> HIDE DEF B
  <2> QED
    BY <1>2, LeastNat
<1>4. PICK x \in S : m = Cardinality(Above(x))
  BY <1>3
<1>5. ASSUME NEW y \in S, y > x PROVE FALSE
  <2>1. Above(y) \subseteq Above(x) /\ y \in Above(x) /\ y \notin Above(y)
    <3>1. x \in Nat /\ y \in Nat /\ \A z \in S : z \in Nat
      OBVIOUS
    <3>2. \A z \in S : z > y => z > x
      BY <1>5, <3>1
    <3>3. ~(y > y)
      BY <3>1
    <3> QED
      BY <1>5, <3>2, <3>3
  <2> HIDE DEF Above
  <2>2. Cardinality(Above(x)) <= Cardinality(Above(y))
    <3>1. Cardinality(Above(y)) \in B
      OBVIOUS
    <3> HIDE DEF B
    <3> QED
      BY <1>3, <1>4, <3>1
  <2>3. Cardinality(Above(y)) <= Cardinality(Above(x)) /\ Cardinality(Above(y)) # Cardinality(Above(x))
    BY <1>1, <2>1, FS_Subset
  <2> QED
    BY <1>1, <2>2, <2>3
<1>6. \A y \in S : x >= y
  BY <1>5
<1> QED
  BY <1>6 DEF Max

\* A DAG whose lists of predecessors name nodes, none of them twice.
Listed(dag) ==
  /\ IsFiniteSet(Nodes(dag))
  /\ \A n \in Nodes(dag) : dag[n].prev \in Seq(Nodes(dag)) /\ IsInjective(dag[n].prev)

\* The lists name nodes of the DAG, which are finitely many.
LEMMA ListedUpward ==
  ASSUME NEW dag, Listed(dag)
  PROVE  /\ Upward(dag)
         /\ \A n \in Nodes(dag) : dag[n].prev = <<>> <=> PrevNodes(dag, n) = {}
<1>1. \A n \in Nodes(dag) : PrevNodes(dag, n) \subseteq Nodes(dag)
  BY ListInSet DEF Listed, PrevNodes
<1>2. ASSUME NEW n \in Nodes(dag) PROVE dag[n].prev = <<>> <=> PrevNodes(dag, n) = {}
  <2> DEFINE list == dag[n].prev
             N == Nodes(dag)
  <2>1. list \in Seq(N) /\ PrevNodes(dag, n) = ToSet(list)
    BY DEF Listed, PrevNodes
  <2> HIDE DEF list, N
  <2>2. list = <<>> => ToSet(list) = {}
    BY EmptyList
  <2>3. list # <<>> => ToSet(list) # {}
    BY <2>1, TailOfList
  <2> QED
    BY <2>1, <2>2, <2>3 DEF list
<1> QED
  BY <1>1, <1>2 DEF Listed, Upward

\* _depth_cache gives every node a number, on a graph with a cycle too.
LEMMA DepthType ==
  ASSUME NEW dag, Listed(dag), NEW node \in Nodes(dag)
  PROVE  Depth(dag, node) \in Nat
<1> DEFINE N == Nodes(dag)
           Below(above) ==
             [n \in N |-> IF dag[n].prev = <<>> THEN 0
                          ELSE 1 + Max({above[p] : p \in PrevNodes(dag, n)})]
           Round(u) ==
             [i \in Nat |-> IF i = 0 THEN [n \in N |-> 0] ELSE Below(u[i - 1])]
           depth == CHOOSE u : u = Round(u)
           S == [N -> Nat]
           F == [d \in S |-> Below(d)]
<1>1. /\ IsFiniteSet(N) /\ \A n \in N : PrevNodes(dag, n) \subseteq N
      /\ \A n \in N : dag[n].prev # <<>> => PrevNodes(dag, n) # {}
  BY ListedUpward DEF Upward
<1>2. ASSUME NEW d \in S PROVE Below(d) \in S
  <2>1. ASSUME NEW n \in N, dag[n].prev # <<>>
        PROVE  Max({d[p] : p \in PrevNodes(dag, n)}) \in Nat
    <3> DEFINE Pr == PrevNodes(dag, n)
               e == [p \in Pr |-> d[p]]
               I == {e[p] : p \in Pr}
    <3>1. Pr \subseteq N /\ Pr # {} /\ IsFiniteSet(Pr)
      BY <1>1, <2>1, FS_Subset
    <3>2. e \in [Pr -> Nat]
      BY <3>1
    <3> HIDE DEF e, Pr
    <3>3. IsFiniteSet(I) /\ I \subseteq Nat /\ I # {}
      BY <3>1, <3>2, FiniteImage
    <3> HIDE DEF I
    <3>4. Max(I) \in Nat
      BY <3>3, GreatestNat
    <3>5. I = {d[p] : p \in Pr}
      BY DEF I, e
    <3> QED
      BY <3>4, <3>5 DEF Pr
  <2> HIDE DEF N
  <2>2. ASSUME NEW n \in N
        PROVE  (IF dag[n].prev = <<>> THEN 0
                ELSE 1 + Max({d[p] : p \in PrevNodes(dag, n)})) \in Nat
    <3>1. CASE dag[n].prev = <<>>
      BY <3>1
    <3>2. CASE dag[n].prev # <<>>
      <4>1. Max({d[p] : p \in PrevNodes(dag, n)}) \in Nat
        BY <2>1, <3>2
      <4> QED
        BY <3>2, <4>1
    <3> QED
      BY <3>1, <3>2
  <2> QED
    BY <2>2, Zenon
<1>3. [n \in N |-> 0] \in S /\ F \in [S -> S]
  <2> HIDE DEF Below, N
  <2> QED
    BY <1>2
<1>4. PICK f : IsIteration(S, F, [n \in N |-> 0], f)
  <2> HIDE DEF F, S, N
  <2> QED
    BY <1>3, Iterates
<1>5. f \in [Nat -> S] /\ f[0] = [n \in N |-> 0] /\ \A i \in Nat : f[i + 1] = Below(f[i])
  <2>1. f \in [Nat -> S] /\ f[0] = [n \in N |-> 0] /\ \A i \in Nat : f[i + 1] = F[f[i]]
    BY <1>4 DEF IsIteration
  <2>2. \A d \in S : F[d] = Below(d)
    OBVIOUS
  <2> HIDE DEF F, Below, S
  <2> QED
    BY <2>1, <2>2
<1> HIDE DEF Below, N, S
<1>6. f = Round(f)
  <2>1. ASSUME NEW i \in Nat, i # 0 PROVE f[i] = Below(f[i - 1])
    <3>1. i - 1 \in Nat /\ (i - 1) + 1 = i
      BY <2>1
    <3> QED
      BY <1>5, <3>1
  <2> QED
    BY <1>5, <2>1
<1>7. depth = Round(depth)
  <2> HIDE DEF Round
  <2> QED
    BY <1>6
<1> HIDE DEF depth
<1>8. depth[0] = [n \in N |-> 0] /\ \A i \in Nat : depth[i + 1] = Below(depth[i])
  <2>1. ASSUME NEW i \in Nat PROVE Round(depth)[i + 1] = Below(depth[i])
    <3>1. i + 1 \in Nat /\ i + 1 # 0 /\ (i + 1) - 1 = i
      OBVIOUS
    <3> QED
      BY <3>1
  <2>2. Round(depth)[0] = [n \in N |-> 0]
    OBVIOUS
  <2> HIDE DEF Round
  <2> QED
    BY <1>7, <2>1, <2>2
<1> DEFINE P == {i \in Nat : depth[i] \in S}
<1>9. P = Nat
  <2>1. 0 \in P
    BY <1>3, <1>8
  <2>2. ASSUME NEW i \in P PROVE i + 1 \in P
    BY <1>2, <1>8, <2>2
  <2>3. P \in SUBSET Nat
    OBVIOUS
  <2> HIDE DEF P
  <2> QED
    BY <2>1, <2>2, <2>3, AllNat
<1>10. Cardinality(N) \in Nat
  BY <1>1, FS_CardinalityType
<1>11. depth[Cardinality(N)] \in S
  BY <1>9, <1>10
<1>12. Depth(dag, node) = depth[Cardinality(N)][node]
  BY DEF Depth, depth, N, Below
<1> QED
  BY <1>11, <1>12 DEF S, N

\* max(..., key=depth) picks one of the candidates.
LEMMA DeepestOfThem ==
  ASSUME NEW dag, Listed(dag), NEW cands \in Seq(Nodes(dag)), cands # <<>>
  PROVE  Deepest(dag, cands) \in ToSet(cands)
<1> DEFINE J == DOMAIN cands
           d == [j \in J |-> Depth(dag, cands[j])]
           I == {d[j] : j \in J}
           B == {i \in J : \A j \in J : Depth(dag, cands[j]) <= Depth(dag, cands[i])}
<1>1. J = 1..Len(cands) /\ Len(cands) \in Nat /\ Len(cands) # 0 /\ \A j \in J : cands[j] \in Nodes(dag)
  OBVIOUS
<1>2. IsFiniteSet(J) /\ J # {} /\ J \subseteq Nat
  <2>1. 1 \in Int /\ Len(cands) \in Int
    BY <1>1
  <2>2. IsFiniteSet(1..Len(cands))
    BY <2>1, FS_Interval
  <2> HIDE DEF J
  <2> QED
    BY <1>1, <2>2
<1>3. d \in [J -> Nat]
  BY <1>1, DepthType
<1>4. IsFiniteSet(I) /\ I \subseteq Nat /\ I # {}
  <2> HIDE DEF d, J
  <2> QED
    BY <1>2, <1>3, FiniteImage
<1>5. Max(I) \in I /\ \A k \in I : Max(I) >= k
  <2> HIDE DEF I
  <2> QED
    BY <1>4, GreatestNat
<1>6. PICK i \in J : \A j \in J : d[i] >= d[j]
  <2> HIDE DEF d, J
  <2> QED
    BY <1>5
<1>7. i \in B
  BY <1>3, <1>6
<1> HIDE DEF d, I
<1>8. B \in SUBSET Nat /\ B # {}
  BY <1>2, <1>7
<1>9. PICK m \in B : \A k \in B : m <= k
  <2> HIDE DEF B
  <2> QED
    BY <1>8, LeastNat
<1>10. Min(B) \in B
  <2> HIDE DEF B
  <2> QED
    BY <1>9 DEF Min
<1>11. Deepest(dag, cands) = cands[Min(B)]
  BY DEF Deepest
<1> QED
  BY <1>10, <1>11 DEF ToSet

-----------------------------------------------------------------------------
(* The search from both branches.                                           *)

\* The nodes of a queue, without the depths they were found at.
Names(queue) == [i \in DOMAIN queue |-> queue[i][1]]

\* A queue's names change as the queue does.
LEMMA QueueNames ==
  ASSUME NEW N, NEW q \in Seq(N \X Nat)
  PROVE  /\ Names(q) \in Seq(N)
         /\ q = <<>> => Names(q) = <<>>
         /\ q # <<>> => /\ Names(q) # <<>> /\ Head(q) \in N \X Nat /\ Tail(q) \in Seq(N \X Nat)
                        /\ Head(q)[1] = Head(Names(q)) /\ Names(Tail(q)) = Tail(Names(q))
         /\ Len(Names(q)) = Len(q) /\ \A i \in 1..Len(q) : Names(q)[i] = q[i][1]
<1>1. Len(q) \in Nat /\ DOMAIN q = 1..Len(q) /\ \A i \in 1..Len(q) : q[i] \in N \X Nat
  OBVIOUS
<1>2. \A i \in 1..Len(q) : q[i][1] \in N
  BY <1>1
<1>3. Names(q) \in [1..Len(q) -> N]
  BY <1>1, <1>2 DEF Names
<1>4. Names(q) \in Seq(N) /\ Len(Names(q)) = Len(q) /\ \A i \in 1..Len(q) : Names(q)[i] = q[i][1]
  BY <1>1, <1>3 DEF Names
<1>5. ASSUME q = <<>> PROVE Names(q) = <<>>
  <2>1. Len(q) = 0
    BY <1>5
  <2> QED
    BY <1>4, <2>1
<1>6. ASSUME q # <<>>
      PROVE  /\ Names(q) # <<>> /\ Head(q) \in N \X Nat /\ Tail(q) \in Seq(N \X Nat)
             /\ Head(q)[1] = Head(Names(q)) /\ Names(Tail(q)) = Tail(Names(q))
  <2>1. Head(q) = q[1] /\ Tail(q) \in Seq(N \X Nat) /\ Len(Tail(q)) = Len(q) - 1
        /\ Len(q) # 0 /\ \A i \in 1..(Len(q) - 1) : Tail(q)[i] = q[i + 1]
    BY <1>6
  <2>2. Names(q) # <<>>
    BY <1>1, <1>4, <2>1
  <2>3. Head(Names(q)) = q[1][1]
    BY <1>1, <1>4, <2>1, <2>2
  <2>4. Head(q) \in N \X Nat
    BY <1>1, <2>1
  <2>5. Tail(Names(q)) \in Seq(N) /\ Len(Tail(Names(q))) = Len(q) - 1
        /\ \A i \in 1..(Len(q) - 1) : Tail(Names(q))[i] = Names(q)[i + 1]
    BY <1>4, <2>2
  <2>6. DOMAIN Tail(q) = 1..(Len(q) - 1)
    BY <1>1, <2>1
  <2>7. \A i \in 1..(Len(q) - 1) : i + 1 \in 1..Len(q)
    BY <1>1
  <2>8. ASSUME NEW i \in 1..(Len(q) - 1) PROVE Tail(q)[i][1] = Tail(Names(q))[i]
    <3>1. i + 1 \in 1..Len(q) /\ Tail(q)[i] = q[i + 1] /\ Tail(Names(q))[i] = Names(q)[i + 1]
      BY <2>1, <2>5, <2>7
    <3> QED
      BY <1>4, <3>1
  <2>9. Names(Tail(q)) = [i \in 1..(Len(q) - 1) |-> Tail(Names(q))[i]]
    BY <2>6, <2>8 DEF Names
  <2>10. Names(Tail(q)) = Tail(Names(q))
    <3> DEFINE t == Tail(Names(q))
    <3>1. t \in Seq(N) /\ Len(t) = Len(q) - 1
      BY <2>5
    <3> HIDE DEF t
    <3> QED
      BY <2>6, <2>8, <3>1, ListEqual DEF Names, t
  <2> QED
    BY <2>1, <2>2, <2>3, <2>4, <2>10
<1> QED
  BY <1>4, <1>5, <1>6

\* The names of two queues joined.
LEMMA JoinedNames ==
  ASSUME NEW N, NEW q \in Seq(N \X Nat), NEW r \in Seq(N \X Nat)
  PROVE  Names(q \o r) = Names(q) \o Names(r)
<1> DEFINE qn == Names(q)
           rn == Names(r)
           both == 1..(Len(q) + Len(r))
<1>1. /\ qn \in Seq(N) /\ Len(qn) = Len(q) /\ \A i \in 1..Len(q) : qn[i] = q[i][1]
      /\ rn \in Seq(N) /\ Len(rn) = Len(r) /\ \A i \in 1..Len(r) : rn[i] = r[i][1]
      /\ Len(q) \in Nat /\ Len(r) \in Nat
  <2>1. ASSUME NEW s \in Seq(N \X Nat)
        PROVE  /\ Names(s) \in Seq(N) /\ Len(Names(s)) = Len(s)
               /\ \A i \in 1..Len(s) : Names(s)[i] = s[i][1]
    BY QueueNames
  <2>2. Len(q) \in Nat /\ Len(r) \in Nat
    OBVIOUS
  <2> QED
    BY <2>1, <2>2
<1>2. DOMAIN (q \o r) = both
      /\ \A i \in both : (q \o r)[i] = IF i <= Len(q) THEN q[i] ELSE r[i - Len(q)]
  OBVIOUS
<1>3. Names(q \o r) = [i \in both |-> Names(q \o r)[i]]
      /\ \A i \in both : Names(q \o r)[i] = (q \o r)[i][1]
  BY <1>2 DEF Names
<1> HIDE DEF qn, rn
<1>4. /\ qn \o rn \in Seq(N) /\ Len(qn \o rn) = Len(q) + Len(r)
      /\ \A i \in both : (qn \o rn)[i] = IF i <= Len(q) THEN qn[i] ELSE rn[i - Len(q)]
  <2>1. qn \in Seq(N) /\ rn \in Seq(N)
    BY <1>1
  <2>2. /\ qn \o rn \in Seq(N) /\ Len(qn \o rn) = Len(qn) + Len(rn)
        /\ \A i \in 1..(Len(qn) + Len(rn)) :
             (qn \o rn)[i] = IF i <= Len(qn) THEN qn[i] ELSE rn[i - Len(qn)]
    BY <2>1, ConcatProperties
  <2> QED
    BY <1>1, <2>2
<1>5. ASSUME NEW i \in both PROVE Names(q \o r)[i] = (qn \o rn)[i]
  <2>1. CASE i <= Len(q)
    <3>1. i \in 1..Len(q)
      BY <1>1, <2>1
    <3> QED
      BY <1>1, <1>2, <1>3, <1>4, <2>1, <3>1
  <2>2. CASE ~(i <= Len(q))
    <3>1. i - Len(q) \in 1..Len(r)
      BY <1>1, <2>2
    <3> QED
      BY <1>1, <1>2, <1>3, <1>4, <2>2, <3>1
  <2> QED
    BY <2>1, <2>2
<1>6. Names(q \o r) = qn \o rn
  BY <1>3, <1>4, <1>5, ListEqual
<1> QED
  BY <1>6 DEF qn, rn

\* Nodes found at one depth enter the queue by name.
LEMMA NamesAtDepth ==
  ASSUME NEW N, NEW nodes \in Seq(N), NEW d \in Nat
  PROVE  AtDepth(d, nodes) \in Seq(N \X Nat) /\ Names(AtDepth(d, nodes)) = nodes
<1>1. /\ Len(nodes) \in Nat /\ DOMAIN nodes = 1..Len(nodes)
      /\ \A i \in 1..Len(nodes) : nodes[i] \in N
      /\ nodes = [i \in 1..Len(nodes) |-> nodes[i]]
  OBVIOUS
<1>2. AtDepth(d, nodes) \in [1..Len(nodes) -> N \X Nat]
  BY <1>1 DEF AtDepth
<1>3. AtDepth(d, nodes) \in Seq(N \X Nat)
  BY <1>1, <1>2
<1>4. Names(AtDepth(d, nodes)) = [i \in 1..Len(nodes) |-> nodes[i]]
  BY <1>1 DEF Names, AtDepth
<1> QED
  BY <1>1, <1>3, <1>4

\* Where one side of the search stands that started from node and has expanded the
\* nodes in done.
Half(dag, node, queue, seen, done) ==
  /\ queue \in Seq(Nodes(dag) \X Nat) /\ IsInjective(Names(queue))
  /\ seen = done \cup ToSet(Names(queue)) /\ done \cap ToSet(Names(queue)) = {}
  /\ node \in seen /\ seen \subseteq Ancestors(dag, node)
  /\ \A a \in done : PrevNodes(dag, a) \subseteq seen

\* What the expansion e of a side's next node n has to show for it.
HasExpanded(dag, node, seen, done, otherSeen, found, n, e) ==
  /\ Half(dag, node, e.queue, e.seen, done \cup {n})
  /\ n \in Ancestors(dag, node) /\ n \notin done
  /\ e.seen = seen \cup PrevNodes(dag, n)
  /\ e.found \in Seq(Nodes(dag))
  /\ ToSet(e.found) = ToSet(found) \cup (PrevNodes(dag, n) \cap otherSeen)

\* The side that expands the head of its queue has then expanded one node more.
LEMMA ExpandHead ==
  ASSUME NEW dag, Listed(dag), NEW node \in Nodes(dag), NEW queue, NEW seen, NEW done,
         Half(dag, node, queue, seen, done), queue # <<>>,
         NEW otherSeen, NEW found \in Seq(Nodes(dag))
  PROVE  HasExpanded(dag, node, seen, done, otherSeen, found, Head(queue)[1],
           Expand(dag, Head(queue)[1], Head(queue)[2], Tail(queue), seen, otherSeen, found))
<1> DEFINE N == Nodes(dag)
           n == Head(queue)[1]
           d == Head(queue)[2]
           fresh == Fresh(dag, n, seen)
           e == Expand(dag, n, d, Tail(queue), seen, otherSeen, found)
           names == Names(queue)
<1>1. queue \in Seq(N \X Nat) /\ IsInjective(names)
      /\ seen = done \cup ToSet(names) /\ done \cap ToSet(names) = {}
      /\ node \in seen /\ seen \subseteq Ancestors(dag, node)
      /\ \A a \in done : PrevNodes(dag, a) \subseteq seen
  BY DEF Half
<1>2. names \in Seq(N) /\ names # <<>> /\ Head(queue) \in N \X Nat /\ Tail(queue) \in Seq(N \X Nat)
      /\ n = Head(names) /\ Names(Tail(queue)) = Tail(names)
  BY <1>1, QueueNames
<1>3. n \in N /\ d \in Nat /\ d + 1 \in Nat
  BY <1>2
<1> HIDE DEF n, d
<1>4. Tail(names) \in Seq(N) /\ ToSet(names) = ToSet(Tail(names)) \cup {n}
      /\ IsInjective(Tail(names)) /\ n \notin ToSet(Tail(names))
  <2> HIDE DEF names, N
  <2> QED
    BY <1>1, <1>2, TailOfList
<1>5. dag[n].prev \in Seq(N) /\ IsInjective(dag[n].prev)
  BY <1>3 DEF Listed
<1>6. fresh \in Seq(N) /\ IsInjective(fresh) /\ ToSet(fresh) = PrevNodes(dag, n) \ seen
  <2>1. /\ fresh \in Seq(N) /\ (IsInjective(dag[n].prev) => IsInjective(fresh))
        /\ ToSet(fresh) = ToSet(dag[n].prev) \cap (PrevNodes(dag, n) \ seen)
    BY <1>5, AmongList DEF Fresh
  <2> QED
    BY <1>5, <2>1 DEF PrevNodes
<1>7. LET more == Among(dag[n].prev, otherSeen)
      IN  more \in Seq(N) /\ ToSet(more) = PrevNodes(dag, n) \cap otherSeen
  BY <1>5, AmongList DEF PrevNodes
<1>8. /\ e.queue = Tail(queue) \o AtDepth(d + 1, fresh)
      /\ e.seen = seen \cup PrevNodes(dag, n)
      /\ e.found = found \o Among(dag[n].prev, otherSeen)
  BY DEF Expand
<1>9. e.found \in Seq(N) /\ ToSet(e.found) = ToSet(found) \cup (PrevNodes(dag, n) \cap otherSeen)
  <2>1. found \in Seq(N)
    OBVIOUS
  <2> HIDE DEF e, N
  <2>2. PICK more : more = Among(dag[n].prev, otherSeen)
    OBVIOUS
  <2>3. found \o more \in Seq(N) /\ ToSet(found \o more) = ToSet(found) \cup ToSet(more)
    BY <1>7, <2>1, <2>2, JoinedLists
  <2> QED
    BY <1>7, <1>8, <2>2, <2>3
<1>10. AtDepth(d + 1, fresh) \in Seq(N \X Nat) /\ Names(AtDepth(d + 1, fresh)) = fresh
  <2> HIDE DEF fresh, N
  <2> QED
    BY <1>3, <1>6, NamesAtDepth
<1>11. e.queue \in Seq(N \X Nat) /\ Names(e.queue) = Tail(names) \o fresh
  <2>1. Names(Tail(queue) \o AtDepth(d + 1, fresh)) = Tail(names) \o fresh
    <3>1. Names(Tail(queue) \o AtDepth(d + 1, fresh)) = Names(Tail(queue)) \o Names(AtDepth(d + 1, fresh))
      <4> HIDE DEF fresh, N, names
      <4> QED
        <5> DEFINE q == Tail(queue)
                   r == AtDepth(d + 1, fresh)
        <5>1. q \in Seq(N \X Nat) /\ r \in Seq(N \X Nat)
          BY <1>2, <1>10
        <5> HIDE DEF q, r
        <5>2. Names(q \o r) = Names(q) \o Names(r)
          BY <5>1, JoinedNames
        <5> QED
          BY <5>2 DEF q, r
    <3> QED
      BY <1>2, <1>10, <3>1
  <2>2. Tail(queue) \o AtDepth(d + 1, fresh) \in Seq(N \X Nat)
    <3> HIDE DEF fresh, N
    <3> QED
      BY <1>2, <1>10
  <2> QED
    BY <1>8, <2>1, <2>2
<1> HIDE DEF e, fresh, names, N
<1>12. IsInjective(Tail(names) \o fresh)
       /\ ToSet(Tail(names) \o fresh) = ToSet(Tail(names)) \cup ToSet(fresh)
  <2>1. ToSet(Tail(names)) \cap ToSet(fresh) = {}
    BY <1>1, <1>4, <1>6
  <2> DEFINE t == Tail(names)
  <2>2. t \in Seq(N) /\ fresh \in Seq(N)
    BY <1>4, <1>6
  <2> HIDE DEF t
  <2>3. /\ ToSet(t \o fresh) = ToSet(t) \cup ToSet(fresh)
        /\ IsInjective(t) /\ IsInjective(fresh) /\ ToSet(t) \cap ToSet(fresh) = {}
             => IsInjective(t \o fresh)
    BY <2>2, JoinedLists
  <2> QED
    BY <1>4, <1>6, <2>1, <2>3 DEF t
<1>13. n \in Ancestors(dag, node) /\ n \notin done
  BY <1>1, <1>4
<1>14. PrevNodes(dag, n) \subseteq Ancestors(dag, node)
  BY <1>13, ListedUpward, AncestorsClosure
<1>15. Half(dag, node, e.queue, e.seen, done \cup {n})
  <2>1. e.seen = (done \cup {n}) \cup ToSet(Names(e.queue))
    BY <1>1, <1>4, <1>6, <1>8, <1>11, <1>12
  <2>2. (done \cup {n}) \cap ToSet(Names(e.queue)) = {}
    BY <1>1, <1>4, <1>6, <1>11, <1>12
  <2>3. \A a \in done \cup {n} : PrevNodes(dag, a) \subseteq e.seen
    BY <1>1, <1>8
  <2>4. node \in e.seen /\ e.seen \subseteq Ancestors(dag, node)
    BY <1>1, <1>8, <1>14
  <2> QED
    BY <1>11, <1>12, <2>1, <2>2, <2>3, <2>4 DEF Half, N
<1> QED
  <2>1. HasExpanded(dag, node, seen, done, otherSeen, found, n, e)
    BY <1>8, <1>9, <1>13, <1>15 DEF HasExpanded, N
  <2> QED
    BY <2>1 DEF e, n, d

SearchStates(dag) ==
  [stop : BOOLEAN, level : Nat,
   fwd : Seq(Nodes(dag) \X Nat), fwdSeen : SUBSET Nodes(dag),
   bwd : Seq(Nodes(dag) \X Nat), bwdSeen : SUBSET Nodes(dag),
   found : Seq(Nodes(dag))]

\* Where the search stands when the two sides have expanded A and B: candidates are
\* upstream of both branches, and as long as there is none, no node expanded on one
\* side has a parent in common with a node expanded on the other.
Searching(dag, n1, n2, s, A, B) ==
  /\ s \in SearchStates(dag)
  /\ Half(dag, n1, s.fwd, s.fwdSeen, A) /\ Half(dag, n2, s.bwd, s.bwdSeen, B)
  /\ Cardinality(A) = Cardinality(B)
  /\ ToSet(s.found) \subseteq Ancestors(dag, n1) \cap Ancestors(dag, n2)
  /\ s.found = <<>> =>
       /\ ~s.stop
       /\ \A a \in A : \A b \in B : PrevNodes(dag, a) \cap PrevNodes(dag, b) = {}

\* A turn of the search keeps that up, and expands a node on either side as long as
\* both have one and nothing is found.
LEMMA RoundSearches ==
  ASSUME NEW dag, Listed(dag), NEW n1 \in Nodes(dag), NEW n2 \in Nodes(dag),
         NEW s, NEW A, NEW B, Searching(dag, n1, n2, s, A, B)
  PROVE  LET t == SearchRound(dag, s)
         IN  \E C, D :
               /\ Searching(dag, n1, n2, t, C, D)
               /\ t.found = <<>> /\ s.fwd # <<>> /\ s.bwd # <<>> => Cardinality(C) = Cardinality(A) + 1
               /\ t.found = <<>> => s.found = <<>>
<1> DEFINE t == SearchRound(dag, s)
           N == Nodes(dag)
<1>1. /\ s \in SearchStates(dag)
      /\ Half(dag, n1, s.fwd, s.fwdSeen, A) /\ Half(dag, n2, s.bwd, s.bwdSeen, B)
      /\ Cardinality(A) = Cardinality(B)
      /\ ToSet(s.found) \subseteq Ancestors(dag, n1) \cap Ancestors(dag, n2)
      /\ s.found = <<>> =>
           /\ ~s.stop
           /\ \A a \in A : \A b \in B : PrevNodes(dag, a) \cap PrevNodes(dag, b) = {}
  BY DEF Searching
<1>2. CASE s.stop \/ s.fwd = <<>> \/ s.bwd = <<>>
  <2>1. t = s
    BY <1>2 DEF SearchRound
  <2>2. ~(s.found = <<>> /\ s.fwd # <<>> /\ s.bwd # <<>>)
    BY <1>1, <1>2
  <2> QED
    BY <2>1, <2>2
<1>3. CASE ~(s.stop \/ s.fwd = <<>> \/ s.bwd = <<>>)
           /\ Head(s.fwd)[2] > s.level /\ s.found # <<>>
  <2>1. t = [s EXCEPT !.stop = TRUE]
    BY <1>3 DEF SearchRound
  <2>2. /\ t \in SearchStates(dag) /\ t.fwd = s.fwd /\ t.fwdSeen = s.fwdSeen
        /\ t.bwd = s.bwd /\ t.bwdSeen = s.bwdSeen /\ t.found = s.found
    BY <1>1, <2>1 DEF SearchStates
  <2> HIDE DEF t
  <2>3. Searching(dag, n1, n2, t, A, B)
    BY <1>1, <1>3, <2>2 DEF Searching
  <2>4. t.found # <<>>
    BY <1>3, <2>2
  <2> USE DEF t
  <2> QED
    BY <2>3, <2>4
<1>4. CASE ~(s.stop \/ s.fwd = <<>> \/ s.bwd = <<>>)
           /\ ~(Head(s.fwd)[2] > s.level /\ s.found # <<>>)
  <2> DEFINE f == Head(s.fwd)
             b == Head(s.bwd)
             up == Expand(dag, f[1], f[2], Tail(s.fwd), s.fwdSeen, s.bwdSeen, s.found)
             dn == Expand(dag, b[1], b[2], Tail(s.bwd), s.bwdSeen, up.seen, up.found)
             level == IF f[2] > s.level THEN f[2] ELSE s.level
             C == A \cup {f[1]}
             D == B \cup {b[1]}
  <2>1. t = [stop |-> FALSE, level |-> level,
             fwd |-> up.queue, fwdSeen |-> up.seen,
             bwd |-> dn.queue, bwdSeen |-> dn.seen, found |-> dn.found]
    BY <1>4 DEF SearchRound
  <2>2. s.found \in Seq(N) /\ s.fwd \in Seq(N \X Nat) /\ s.level \in Nat
        /\ s.fwdSeen \subseteq N /\ s.bwdSeen \subseteq N
    BY <1>1 DEF SearchStates
  <2>3. level \in Nat
    <3>1. s.fwd # <<>>
      BY <1>4
    <3>2. f \in N \X Nat
      BY <2>2, <3>1
    <3>3. f[2] \in Nat
      BY <3>2
    <3> HIDE DEF f
    <3> QED
      BY <2>2, <3>3
  <2> HIDE DEF level
  <2>4. /\ Half(dag, n1, up.queue, up.seen, C)
        /\ f[1] \in Ancestors(dag, n1) /\ f[1] \notin A
        /\ up.seen = s.fwdSeen \cup PrevNodes(dag, f[1])
        /\ up.found \in Seq(N)
        /\ ToSet(up.found) = ToSet(s.found) \cup (PrevNodes(dag, f[1]) \cap s.bwdSeen)
    <3>1. s.fwd # <<>>
      BY <1>4
    <3> DEFINE q == s.fwd
               se == s.fwdSeen
               os == s.bwdSeen
               fo == s.found
    <3>2. Half(dag, n1, q, se, A) /\ q # <<>> /\ fo \in Seq(Nodes(dag))
      BY <1>1, <2>2, <3>1
    <3>3. f = Head(q) /\ up = Expand(dag, f[1], Head(q)[2], Tail(q), se, os, fo)
      OBVIOUS
    <3> HIDE DEF q, se, os, fo, up, f
    <3>4. f[1] = Head(q)[1]
      BY <3>3
    <3> DEFINE n == f[1]
    <3> HIDE DEF n
    <3>5. n = Head(q)[1] /\ up = Expand(dag, n, Head(q)[2], Tail(q), se, os, fo)
      BY <3>3, <3>4 DEF n
    <3>6. HasExpanded(dag, n1, se, A, os, fo, n, up)
      BY <3>2, <3>5, ExpandHead
    <3> QED
      BY <3>6 DEF HasExpanded, n, se, os, fo
  <2>5. /\ Half(dag, n2, dn.queue, dn.seen, D)
        /\ b[1] \in Ancestors(dag, n2) /\ b[1] \notin B
        /\ dn.seen = s.bwdSeen \cup PrevNodes(dag, b[1])
        /\ dn.found \in Seq(N)
        /\ ToSet(dn.found) = ToSet(up.found) \cup (PrevNodes(dag, b[1]) \cap up.seen)
    <3>1. s.bwd # <<>>
      BY <1>4
    <3> DEFINE q == s.bwd
               se == s.bwdSeen
               os == up.seen
               fo == up.found
    <3> HIDE DEF up
    <3>2. Half(dag, n2, q, se, B) /\ q # <<>> /\ fo \in Seq(Nodes(dag))
      BY <1>1, <2>4, <3>1
    <3>3. b = Head(q) /\ dn = Expand(dag, b[1], Head(q)[2], Tail(q), se, os, fo)
      OBVIOUS
    <3> HIDE DEF q, se, os, fo, dn, b
    <3>4. b[1] = Head(q)[1]
      BY <3>3
    <3> DEFINE n == b[1]
    <3> HIDE DEF n
    <3>5. n = Head(q)[1] /\ dn = Expand(dag, n, Head(q)[2], Tail(q), se, os, fo)
      BY <3>3, <3>4 DEF n
    <3>6. HasExpanded(dag, n2, se, B, os, fo, n, dn)
      BY <3>2, <3>5, ExpandHead
    <3> QED
      BY <3>6 DEF HasExpanded, n, se, os, fo
  <2> DEFINE x == f[1]
             y == b[1]
  <2> HIDE DEF up, dn, f, b
  <2>6. Upward(dag)
    BY ListedUpward
  <2>7. /\ PrevNodes(dag, x) \subseteq Ancestors(dag, n1) /\ PrevNodes(dag, y) \subseteq Ancestors(dag, n2)
        /\ Ancestors(dag, n1) \subseteq N /\ Ancestors(dag, n2) \subseteq N
    BY <2>4, <2>5, <2>6, AncestorsClosure
  <2>8. /\ s.fwdSeen \subseteq Ancestors(dag, n1) /\ s.bwdSeen \subseteq Ancestors(dag, n2)
        /\ A \subseteq s.fwdSeen /\ B \subseteq s.bwdSeen
        /\ \A a \in A : PrevNodes(dag, a) \subseteq s.fwdSeen
        /\ \A a \in B : PrevNodes(dag, a) \subseteq s.bwdSeen
    BY <1>1 DEF Half
  <2>9. IsFiniteSet(A) /\ IsFiniteSet(B)
    <3>1. A \subseteq N /\ B \subseteq N /\ IsFiniteSet(N)
      BY <2>2, <2>8 DEF Listed
    <3> QED
      BY <3>1, FS_Subset
  <2>10. Cardinality(C) = Cardinality(A) + 1 /\ Cardinality(C) = Cardinality(D)
    <3>1. Cardinality(C) = Cardinality(A) + 1
      BY <2>4, <2>9, FS_AddElement
    <3>2. Cardinality(D) = Cardinality(B) + 1
      BY <2>5, <2>9, FS_AddElement
    <3> QED
      BY <1>1, <3>1, <3>2
  <2>11. up.queue \in Seq(N \X Nat) /\ dn.queue \in Seq(N \X Nat)
    BY <2>4, <2>5 DEF Half
  <2>12. up.seen \subseteq N /\ dn.seen \subseteq N
    BY <2>2, <2>4, <2>5, <2>7
  <2>13. /\ t \in SearchStates(dag) /\ t.stop = FALSE /\ t.fwd = up.queue /\ t.fwdSeen = up.seen
         /\ t.bwd = dn.queue /\ t.bwdSeen = dn.seen /\ t.found = dn.found
    BY <2>1, <2>3, <2>5, <2>11, <2>12 DEF SearchStates
  <2> HIDE DEF t
  <2>14. ToSet(t.found) \subseteq Ancestors(dag, n1) \cap Ancestors(dag, n2)
    BY <1>1, <2>4, <2>5, <2>7, <2>8, <2>13
  <2>15. ASSUME t.found = <<>>
         PROVE  s.found = <<>> /\ \A a \in C : \A c \in D : PrevNodes(dag, a) \cap PrevNodes(dag, c) = {}
    <3>1. ToSet(dn.found) = {}
      BY <2>13, <2>15, EmptyList
    <3>2. ToSet(s.found) = {}
      BY <2>4, <2>5, <3>1
    <3>3. s.found = <<>>
      <4> SUFFICES ASSUME s.found # <<>> PROVE FALSE
        OBVIOUS
      <4> HIDE DEF N
      <4>1. Head(s.found) \in ToSet(s.found)
        BY <2>2, TailOfList
      <4> QED
        BY <3>2, <4>1
    <3>4. \A a \in A : \A c \in B : PrevNodes(dag, a) \cap PrevNodes(dag, c) = {}
      BY <1>1, <3>3
    <3>5. /\ PrevNodes(dag, x) \cap s.bwdSeen = {}
          /\ PrevNodes(dag, y) \cap (s.fwdSeen \cup PrevNodes(dag, x)) = {}
      BY <2>4, <2>5, <3>1
    <3>6. \A a \in C : a \in A \/ a = x
      OBVIOUS
    <3>7. \A c \in D : c \in B \/ c = y
      OBVIOUS
    <3>8. ASSUME NEW a \in C, NEW c \in D PROVE PrevNodes(dag, a) \cap PrevNodes(dag, c) = {}
      BY <2>8, <3>4, <3>5, <3>6, <3>7
    <3> QED
      BY <3>3, <3>8
  <2> HIDE DEF C, D
  <2>16. Searching(dag, n1, n2, t, C, D)
    BY <2>4, <2>5, <2>10, <2>13, <2>14, <2>15 DEF Searching
  <2> USE DEF t
  <2> QED
    BY <2>10, <2>15, <2>16
<1> QED
  BY <1>2, <1>3, <1>4

\* The turns of the search, as Candidates counts them.
IsSearch(dag, n1, n2, f) ==
  /\ f[0] = [stop |-> FALSE, level |-> 0, found |-> <<>>,
             fwd |-> << <<n1, 0>> >>, fwdSeen |-> {n1},
             bwd |-> << <<n2, 0>> >>, bwdSeen |-> {n2}]
  /\ \A i \in Nat : f[i + 1] = SearchRound(dag, f[i])
  /\ Candidates(dag, n1, n2) = f[Cardinality(Nodes(dag))].found

\* A search begins with nothing expanded.
LEMMA SearchBegins ==
  ASSUME NEW dag, Listed(dag), NEW n1 \in Nodes(dag), NEW n2 \in Nodes(dag)
  PROVE  Searching(dag, n1, n2,
           [stop |-> FALSE, level |-> 0, found |-> <<>>,
            fwd |-> << <<n1, 0>> >>, fwdSeen |-> {n1},
            bwd |-> << <<n2, 0>> >>, bwdSeen |-> {n2}], {}, {})
<1> DEFINE N == Nodes(dag)
           s == [stop |-> FALSE, level |-> 0, found |-> <<>>,
                 fwd |-> << <<n1, 0>> >>, fwdSeen |-> {n1},
                 bwd |-> << <<n2, 0>> >>, bwdSeen |-> {n2}]
<1>1. ASSUME NEW n \in N
      PROVE  << <<n, 0>> >> \in Seq(N \X Nat) /\ Half(dag, n, << <<n, 0>> >>, {n}, {})
  <2> DEFINE q == << <<n, 0>> >>
  <2>1. q \in Seq(N \X Nat)
    OBVIOUS
  <2>2. Names(q) = <<n>>
    BY DEF Names
  <2>3. IsInjective(Names(q)) /\ ToSet(Names(q)) = {n}
    BY <2>2, OneList
  <2>4. n \in Ancestors(dag, n)
    BY ListedUpward, AncestorsClosure
  <2> QED
    BY <2>1, <2>3, <2>4 DEF Half
<1>2. s \in SearchStates(dag)
  BY <1>1 DEF SearchStates
<1>3. s.fwd = << <<n1, 0>> >> /\ s.fwdSeen = {n1} /\ s.bwd = << <<n2, 0>> >> /\ s.bwdSeen = {n2}
      /\ s.found = <<>> /\ s.stop = FALSE
  OBVIOUS
<1> HIDE DEF s
<1>4. Searching(dag, n1, n2, s, {}, {})
  BY <1>1, <1>2, <1>3, EmptyList DEF Searching
<1> QED
  BY <1>4 DEF s

\* Candidates is what such a search has found after as many turns as there are nodes.
LEMMA SearchTurns ==
  ASSUME NEW dag, Listed(dag), NEW n1 \in Nodes(dag), NEW n2 \in Nodes(dag)
  PROVE  \E f : IsSearch(dag, n1, n2, f)
<1> DEFINE start == [stop |-> FALSE, level |-> 0, found |-> <<>>,
                     fwd |-> << <<n1, 0>> >>, fwdSeen |-> {n1},
                     bwd |-> << <<n2, 0>> >>, bwdSeen |-> {n2}]
           Round(u) == [i \in Nat |-> IF i = 0 THEN start ELSE SearchRound(dag, u[i - 1])]
           search == CHOOSE u : u = Round(u)
           S == {s \in SearchStates(dag) : \E A, B : Searching(dag, n1, n2, s, A, B)}
           F == [s \in S |-> SearchRound(dag, s)]
<1>1. start \in S
  <2>1. Searching(dag, n1, n2, start, {}, {})
    BY SearchBegins
  <2> HIDE DEF start
  <2>2. start \in SearchStates(dag)
    BY <2>1 DEF Searching
  <2> QED
    BY <2>1, <2>2
<1>2. F \in [S -> S]
  <2>1. ASSUME NEW s \in S PROVE SearchRound(dag, s) \in S
    <3>1. PICK A, B : Searching(dag, n1, n2, s, A, B)
      OBVIOUS
    <3> DEFINE t == SearchRound(dag, s)
    <3>2. PICK C, D : Searching(dag, n1, n2, t, C, D)
      BY <3>1, RoundSearches
    <3> HIDE DEF t
    <3>3. t \in SearchStates(dag)
      BY <3>2 DEF Searching
    <3>4. t \in S
      BY <3>2, <3>3
    <3> QED
      BY <3>4 DEF t
  <2> HIDE DEF S
  <2> QED
    BY <2>1
<1> HIDE DEF start
<1>3. PICK f : IsIteration(S, F, start, f)
  <2> HIDE DEF F, S
  <2> QED
    BY <1>1, <1>2, Iterates
<1>4. f \in [Nat -> S] /\ f[0] = start /\ \A i \in Nat : f[i + 1] = SearchRound(dag, f[i])
  <2>1. f \in [Nat -> S] /\ f[0] = start /\ \A i \in Nat : f[i + 1] = F[f[i]]
    BY <1>3 DEF IsIteration
  <2>2. \A s \in S : F[s] = SearchRound(dag, s)
    OBVIOUS
  <2> HIDE DEF F, S
  <2> QED
    BY <2>1, <2>2
<1> HIDE DEF S
<1>5. f = Round(f)
  <2>1. ASSUME NEW i \in Nat, i # 0 PROVE f[i] = SearchRound(dag, f[i - 1])
    <3>1. i - 1 \in Nat /\ (i - 1) + 1 = i
      BY <2>1
    <3> QED
      BY <1>4, <3>1
  <2> QED
    BY <1>4, <2>1
<1>6. search = Round(search)
  <2> HIDE DEF Round
  <2> QED
    BY <1>5
<1> HIDE DEF search
<1>7. search[0] = start /\ \A i \in Nat : search[i + 1] = SearchRound(dag, search[i])
  <2>1. ASSUME NEW i \in Nat PROVE Round(search)[i + 1] = SearchRound(dag, search[i])
    <3>1. i + 1 \in Nat /\ i + 1 # 0 /\ (i + 1) - 1 = i
      OBVIOUS
    <3> QED
      BY <3>1
  <2>2. Round(search)[0] = start
    OBVIOUS
  <2> HIDE DEF Round
  <2> QED
    BY <1>6, <2>1, <2>2
<1>8. Candidates(dag, n1, n2) = search[Cardinality(Nodes(dag))].found
  BY DEF Candidates, search, start
<1> QED
  BY <1>7, <1>8 DEF IsSearch, start
\* A proper ancestor is a predecessor of some ancestor.
LEMMA AncestorBelow ==
  ASSUME NEW dag, Upward(dag), NEW node \in Nodes(dag),
         NEW a \in Ancestors(dag, node), a # node
  PROVE  \E m \in Ancestors(dag, node) : a \in PrevNodes(dag, m)
<1> DEFINE A == Ancestors(dag, node)
           B == A \ {a}
<1>1. /\ A \subseteq Nodes(dag) /\ node \in A
      /\ \A n \in A : PrevNodes(dag, n) \subseteq A
      /\ \A D \in SUBSET Nodes(dag) :
           node \in D /\ (\A n \in D : PrevNodes(dag, n) \subseteq D) => A \subseteq D
  BY AncestorsClosure
<1> SUFFICES ASSUME \A m \in A : a \notin PrevNodes(dag, m)
             PROVE  FALSE
  OBVIOUS
<1> HIDE DEF A
<1>2. B \in SUBSET Nodes(dag) /\ node \in B /\ \A n \in B : PrevNodes(dag, n) \subseteq B
  BY <1>1
<1>3. A \subseteq B
  BY <1>1, <1>2
<1> QED
  BY <1>3 DEF A

\* After i turns without a candidate, and neither side at its end, both sides have
\* expanded i nodes.
Standing(dag, n1, n2, s, i) ==
  \E A, B : /\ Searching(dag, n1, n2, s, A, B)
            /\ s.found = <<>> /\ s.fwd # <<>> /\ s.bwd # <<>> => Cardinality(A) = i

\* The searches keep pace with each other.
LEMMA SearchStands ==
  ASSUME NEW dag, Listed(dag), NEW n1 \in Nodes(dag), NEW n2 \in Nodes(dag),
         NEW f, IsSearch(dag, n1, n2, f), NEW k \in Nat
  PROVE  Standing(dag, n1, n2, f[k], k)
<1> DEFINE P == {i \in Nat : Standing(dag, n1, n2, f[i], i)}
<1>1. 0 \in P
  <2>1. Searching(dag, n1, n2, f[0], {}, {})
    BY SearchBegins DEF IsSearch
  <2>2. Cardinality({}) = 0
    BY FS_EmptySet
  <2> QED
    BY <2>1, <2>2 DEF Standing
<1>2. ASSUME NEW i \in P PROVE i + 1 \in P
  <2> DEFINE s == f[i]
             t == f[i + 1]
  <2>1. t = SearchRound(dag, s) /\ i \in Nat
    BY DEF IsSearch
  <2>2. Standing(dag, n1, n2, s, i)
    OBVIOUS
  <2> HIDE DEF s, t
  <2>3. PICK A, B : /\ Searching(dag, n1, n2, s, A, B)
                    /\ s.found = <<>> /\ s.fwd # <<>> /\ s.bwd # <<>> => Cardinality(A) = i
    BY <2>2 DEF Standing
  <2>4. PICK C, D :
               /\ Searching(dag, n1, n2, t, C, D)
               /\ t.found = <<>> /\ s.fwd # <<>> /\ s.bwd # <<>> => Cardinality(C) = Cardinality(A) + 1
               /\ t.found = <<>> => s.found = <<>>
    BY <2>1, <2>3, RoundSearches
  <2>5. s.fwd = <<>> \/ s.bwd = <<>> => t = s
    BY <2>1 DEF SearchRound
  <2>6. t.found = <<>> /\ t.fwd # <<>> /\ t.bwd # <<>> => Cardinality(C) = i + 1
    BY <2>3, <2>4, <2>5
  <2>7. Standing(dag, n1, n2, t, i + 1)
    BY <2>4, <2>6 DEF Standing
  <2> QED
    BY <2>1, <2>7 DEF t
<1> HIDE DEF P
<1>3. P = Nat
  <2>1. P \in SUBSET Nat
    BY DEF P
  <2> QED
    BY <1>1, <1>2, <2>1, AllNat
<1> QED
  BY <1>3 DEF P

\* Every candidate is upstream of both branches.
LEMMA CandidatesCommon ==
  ASSUME NEW dag, Listed(dag), NEW n1 \in Nodes(dag), NEW n2 \in Nodes(dag)
  PROVE  /\ Candidates(dag, n1, n2) \in Seq(Nodes(dag))
         /\ ToSet(Candidates(dag, n1, n2)) \subseteq CommonAncestors(dag, n1, n2)
<1> DEFINE size == Cardinality(Nodes(dag))
<1>1. size \in Nat
  BY FS_CardinalityType DEF Listed
<1>2. PICK f : IsSearch(dag, n1, n2, f)
  BY SearchTurns
<1>3. Candidates(dag, n1, n2) = f[size].found
  BY <1>2 DEF IsSearch
<1> HIDE DEF size
<1>4. PICK A, B : Searching(dag, n1, n2, f[size], A, B)
  BY <1>1, <1>2, SearchStands DEF Standing
<1> QED
  BY <1>3, <1>4 DEF Searching, SearchStates, CommonAncestors

\* A side that has nothing left to expand has expanded everything upstream.
LEMMA HalfDone ==
  ASSUME NEW dag, Listed(dag), NEW node \in Nodes(dag), NEW queue, NEW seen, NEW done,
         Half(dag, node, queue, seen, done)
  PROVE  /\ done \subseteq Ancestors(dag, node) /\ IsFiniteSet(done)
         /\ queue = <<>> => done = Ancestors(dag, node)
         /\ queue # <<>> => done # Nodes(dag)
<1> DEFINE A == Ancestors(dag, node)
<1>1. queue \in Seq(Nodes(dag) \X Nat)
      /\ seen = done \cup ToSet(Names(queue)) /\ done \cap ToSet(Names(queue)) = {}
      /\ node \in seen /\ seen \subseteq A
      /\ \A a \in done : PrevNodes(dag, a) \subseteq seen
  BY DEF Half
<1>2. /\ A \subseteq Nodes(dag)
      /\ \A D \in SUBSET Nodes(dag) :
           node \in D /\ (\A n \in D : PrevNodes(dag, n) \subseteq D) => A \subseteq D
  BY ListedUpward, AncestorsClosure
<1> HIDE DEF A
<1>3. done \subseteq A /\ done \subseteq Nodes(dag)
  BY <1>1, <1>2
<1>4. IsFiniteSet(done)
  BY <1>3, FS_Subset DEF Listed
<1>5. ASSUME queue = <<>> PROVE done = A
  <2>1. ToSet(Names(queue)) = {}
    BY <1>1, <1>5, QueueNames, EmptyList
  <2>2. done \in SUBSET Nodes(dag) /\ node \in done /\ \A n \in done : PrevNodes(dag, n) \subseteq done
    BY <1>1, <1>3, <2>1
  <2> QED
    BY <1>2, <1>3, <2>2
<1>6. ASSUME queue # <<>> PROVE done # Nodes(dag)
  <2>1. Names(queue) \in Seq(Nodes(dag)) /\ Names(queue) # <<>>
    <3> DEFINE N == Nodes(dag)
    <3>1. queue \in Seq(N \X Nat)
      BY <1>1
    <3> HIDE DEF N
    <3>2. Names(queue) \in Seq(N) /\ Names(queue) # <<>>
      BY <1>6, <3>1, QueueNames
    <3> QED
      BY <3>2 DEF N
  <2> DEFINE names == Names(queue)
  <2> HIDE DEF names
  <2>2. names \in Seq(Nodes(dag)) /\ names # <<>>
    BY <2>1 DEF names
  <2>3. Head(names) \in ToSet(names) /\ Head(names) \in Nodes(dag)
    BY <2>2, TailOfList
  <2> QED
    BY <1>1, <2>3 DEF names
<1> QED
  BY <1>3, <1>4, <1>5, <1>6 DEF A

\* The search finds a candidate for two branches of which neither is upstream of the
\* other when they have an ancestor in common and as much upstream: it expands the
\* two sides in step, and ends only when one of them has run out.
LEMMA CandidatesFound ==
  ASSUME NEW dag, Listed(dag), NEW n1 \in Nodes(dag), NEW n2 \in Nodes(dag),
         n1 \notin Ancestors(dag, n2), n2 \notin Ancestors(dag, n1),
         CommonAncestors(dag, n1, n2) # {},
         Cardinality(Ancestors(dag, n1)) = Cardinality(Ancestors(dag, n2))
  PROVE  Candidates(dag, n1, n2) # <<>>
<1> DEFINE size == Cardinality(Nodes(dag))
           A1 == Ancestors(dag, n1)
           A2 == Ancestors(dag, n2)
<1>1. size \in Nat /\ IsFiniteSet(Nodes(dag))
  BY FS_CardinalityType DEF Listed
<1>2. PICK f : IsSearch(dag, n1, n2, f)
  BY SearchTurns
<1> DEFINE s == f[size]
<1>3. Candidates(dag, n1, n2) = s.found
  BY <1>2 DEF IsSearch
<1>4. Standing(dag, n1, n2, s, size)
  <2> HIDE DEF size
  <2> QED
    BY <1>1, <1>2, SearchStands
<1> SUFFICES ASSUME s.found = <<>> PROVE FALSE
  BY <1>3
<1> HIDE DEF s
<1>5. PICK A, B : /\ Searching(dag, n1, n2, s, A, B)
                  /\ s.found = <<>> /\ s.fwd # <<>> /\ s.bwd # <<>> => Cardinality(A) = size
  BY <1>4 DEF Standing
<1>6. /\ Half(dag, n1, s.fwd, s.fwdSeen, A) /\ Half(dag, n2, s.bwd, s.bwdSeen, B)
      /\ Cardinality(A) = Cardinality(B)
      /\ \A a \in A : \A b \in B : PrevNodes(dag, a) \cap PrevNodes(dag, b) = {}
  BY <1>5 DEF Searching
<1>7. /\ A \subseteq A1 /\ IsFiniteSet(A) /\ (s.fwd = <<>> => A = A1)
      /\ (s.fwd # <<>> => A # Nodes(dag))
  BY <1>6, HalfDone
<1>8. /\ B \subseteq A2 /\ IsFiniteSet(B) /\ (s.bwd = <<>> => B = A2)
  BY <1>6, HalfDone
<1>9. Upward(dag)
  BY ListedUpward
<1>10. A1 \subseteq Nodes(dag) /\ A2 \subseteq Nodes(dag) /\ IsFiniteSet(A1) /\ IsFiniteSet(A2)
  <2>1. A1 \subseteq Nodes(dag) /\ A2 \subseteq Nodes(dag)
    BY <1>9, AncestorsClosure
  <2> HIDE DEF A1, A2
  <2> QED
    BY <1>1, <2>1, FS_Subset
<1>11. s.fwd = <<>> \/ s.bwd = <<>>
  <2> SUFFICES ASSUME s.fwd # <<>>, s.bwd # <<>> PROVE FALSE
    OBVIOUS
  <2>1. Cardinality(A) = Cardinality(Nodes(dag)) /\ A \subseteq Nodes(dag)
    BY <1>5, <1>7, <1>10
  <2>2. A = Nodes(dag)
    BY <1>1, <2>1, FS_Subset
  <2> QED
    BY <1>7, <2>2
<1>12. Cardinality(A1) = Cardinality(A2)
  OBVIOUS
<1>13. A = A1 /\ B = A2
  <2> HIDE DEF A1, A2
  <2>1. CASE s.fwd = <<>>
    <3>1. Cardinality(B) = Cardinality(A2)
      BY <1>6, <1>7, <1>12, <2>1
    <3> QED
      BY <1>7, <1>8, <1>10, <2>1, <3>1, FS_Subset
  <2>2. CASE s.bwd = <<>>
    <3>1. Cardinality(A) = Cardinality(A1)
      BY <1>6, <1>8, <1>12, <2>2
    <3> QED
      BY <1>7, <1>8, <1>10, <2>2, <3>1, FS_Subset
  <2> QED
    BY <1>11, <2>1, <2>2
<1>14. PICK c : c \in A1 /\ c \in A2
  BY DEF CommonAncestors
<1>15. c # n1 /\ c # n2
  BY <1>14
<1>16. \E a \in A1 : c \in PrevNodes(dag, a)
  BY <1>9, <1>14, <1>15, AncestorBelow
<1>17. \E b \in A2 : c \in PrevNodes(dag, b)
  BY <1>9, <1>14, <1>15, AncestorBelow
<1> HIDE DEF A1, A2
<1> QED
  BY <1>6, <1>13, <1>16, <1>17

\* What find_lca returns is upstream of both branches, if it returns anything.
THEOREM FindLcaCommon ==
  ASSUME NEW dag, Listed(dag), NEW n1 \in Nodes(dag), NEW n2 \in Nodes(dag)
  PROVE  FindLca(dag, n1, n2) \in CommonAncestors(dag, n1, n2) \cup {NoNode}
<1> DEFINE cands == Candidates(dag, n1, n2)
<1>1. n1 \in Ancestors(dag, n1) /\ n2 \in Ancestors(dag, n2)
  BY ListedUpward, AncestorsClosure
<1>2. cands \in Seq(Nodes(dag)) /\ ToSet(cands) \subseteq CommonAncestors(dag, n1, n2)
  BY CandidatesCommon
<1> HIDE DEF cands
<1>3. cands # <<>> => Deepest(dag, cands) \in CommonAncestors(dag, n1, n2)
  BY <1>2, DeepestOfThem
<1>4. CASE n1 \in Ancestors(dag, n2)
  BY <1>1, <1>4 DEF FindLca, CommonAncestors
<1>5. CASE n1 \notin Ancestors(dag, n2) /\ n2 \in Ancestors(dag, n1)
  BY <1>1, <1>5 DEF FindLca, CommonAncestors
<1>6. CASE n1 \notin Ancestors(dag, n2) /\ n2 \notin Ancestors(dag, n1)
  <2>1. FindLca(dag, n1, n2) = IF cands = <<>> THEN NoNode ELSE Deepest(dag, cands)
    BY <1>6 DEF FindLca, cands
  <2> QED
    BY <1>3, <2>1
<1> QED
  BY <1>4, <1>5, <1>6

\* find_lca gives up on branches that have an ancestor in common only if one of them
\* has more upstream than the other.
THEOREM FindLcaGivesUp ==
  ASSUME NEW dag, Listed(dag), NoNode \notin Nodes(dag),
         NEW n1 \in Nodes(dag), NEW n2 \in Nodes(dag),
         CommonAncestors(dag, n1, n2) # {}, FindLca(dag, n1, n2) = NoNode
  PROVE  Cardinality(Ancestors(dag, n1)) # Cardinality(Ancestors(dag, n2))
<1> DEFINE cands == Candidates(dag, n1, n2)
<1>1. n1 \notin Ancestors(dag, n2)
  BY DEF FindLca
<1>2. n2 \notin Ancestors(dag, n1)
  BY <1>1 DEF FindLca
<1>3. FindLca(dag, n1, n2) = IF cands = <<>> THEN NoNode ELSE Deepest(dag, cands)
  BY <1>1, <1>2 DEF FindLca
<1>4. cands \in Seq(Nodes(dag)) /\ ToSet(cands) \subseteq Nodes(dag)
  BY CandidatesCommon, ListInSet
<1>5. cands = <<>>
  <2> HIDE DEF cands
  <2> SUFFICES ASSUME cands # <<>> PROVE FALSE
    OBVIOUS
  <2>1. Deepest(dag, cands) \in ToSet(cands)
    BY <1>4, DeepestOfThem
  <2> QED
    BY <1>3, <1>4, <2>1
<1> QED
  BY <1>1, <1>2, <1>5, CandidatesFound

=============================================================================
