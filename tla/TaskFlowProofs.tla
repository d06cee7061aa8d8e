--------------------------- MODULE TaskFlowProofs ---------------------------
(***************************************************************************)
(* Proofs about TaskFlow, for every DAG, deployment, set of tasks and      *)
(* number of faults.                                                       *)
(*                                                                         *)
(* The argument: an edge p -> n of the DAG is followed once per task.      *)
(* Emitted says p's handler has dealt with the edge; that never becomes    *)
(* false again.  A service only becomes active when all edges into it are  *)
(* emitted, and the step that activates it consumes what only one handler  *)
(* can hold: the last edge (one predecessor) or the retrieve stage (a      *)
(* joint), which the handler that completed the Redis count alone enters.  *)
(*                                                                         *)
(* The last part says what becomes of a task in the end: that a recorded   *)
(* result is everyone's work, that it is complete where the merges of the  *)
(* DAG are, and that no task is lost without a fault where every merge     *)
(* finds its common ancestor and every service is served.                  *)
(***************************************************************************)
EXTENDS TaskFlow, ServiceDagProofs

-----------------------------------------------------------------------------
(* The inductive invariant.                                                *)

At(x, r, n) == x.copy.root = r /\ x.copy.cur = n

\* n has been handed task r: a copy is on its way to it, or it has worked.
Active(r, n) ==
  \/ \E x \in flight : x.stage \in Dispatched /\ At(x, r, n)
  \/ executed[r][n] > 0

\* The copies leaving p exist: the handler of p has been started.
Left(r, p) ==
  IF p = Start THEN r \in generated /\ ~Active(r, Start) ELSE executed[r][p] > 0

\* The handler of p still has the edge to n before it.
Pending(r, p, n) ==
  \E x \in flight : x.stage \in Handlers /\ At(x, r, p) /\ n \in x.todo

Emitted(r, p, n) == Left(r, p) /\ ~Pending(r, p, n)

AllEmitted(r, n) == \A p \in Prev(n) : Emitted(r, p, n)

\* Each service of a task has at most one piece of work, a copy before it or
\* a handler after it.
OneToken ==
  \A x, y \in flight : At(y, x.copy.root, x.copy.cur) => x = y

DispatchedShape ==
  \A x \in flight : x.stage \in Dispatched =>
    /\ x.copy.root \in generated
    /\ executed[x.copy.root][x.copy.cur] = 0
    /\ x.stage = "submit" => x.copy.cur # End
    /\ x.stage = "process" => x.copy.cur \in Service
    /\ x.stage = "distribute" => x.copy.cur = End

HandlerShape ==
  \A x \in flight : x.stage \in Handlers =>
    /\ x.copy.root \in generated
    /\ x.todo \subseteq Succ(x.copy.cur)
    /\ x.stage = "fork" <=> x.copy.cur = Start
    /\ x.stage # "fork" => executed[x.copy.root][x.copy.cur] = 1

RetrieveShape ==
  \A x \in flight : x.stage = "retrieve" =>
    /\ x.joint \in Succ(x.copy.cur) \ x.todo
    /\ Len(Dag[x.joint].prev) > 1
    /\ AllEmitted(x.copy.root, x.joint)
    /\ ~Active(x.copy.root, x.joint)

ExecutedShape ==
  \A r \in Task :
    /\ executed[r][Start] = 0 /\ executed[r][End] = 0
    /\ r \notin generated => \A n \in Node : executed[r][n] = 0

ActiveShape ==
  \A r \in Task, n \in Node \ {Start} : Active(r, n) => AllEmitted(r, n)

StoreShape ==
  \A r \in Task, n \in Node :
    /\ \A c \in store[r][n] : c.past \in Prev(n) /\ Emitted(r, c.past, n)
    /\ \A c, d \in store[r][n] : c.past = d.past => c = d
    /\ store[r][n] # {} => Len(Dag[n].prev) > 1 /\ ~Active(r, n)

IInv ==
  /\ TypeOK
  /\ AtMostOnce
  /\ OneToken
  /\ DispatchedShape
  /\ HandlerShape
  /\ RetrieveShape
  /\ SingleMerger
  /\ ExecutedShape
  /\ ActiveShape
  /\ StoreShape

-----------------------------------------------------------------------------
(* What the building blocks of the actions produce.                        *)

\* What the DAG of a task looks like, for the provers.
LEMMA NodeFacts ==
  /\ Start \in Node /\ End \in Node /\ Start # End /\ NoNode \notin Node
  /\ Service \subseteq Node /\ Start \notin Service /\ End \notin Service
  /\ \A n \in Node : n \in Service \/ n = Start \/ n = End
  /\ \A n \in Node : Prev(n) \subseteq Node /\ Succ(n) \subseteq Node
  /\ \A n \in Node, m \in Node : n \in Prev(m) <=> m \in Succ(n)
  /\ \A n \in Node : IsFiniteSet(Prev(n)) /\ Len(Dag[n].prev) = Cardinality(Prev(n))
  /\ Prev(Start) = {} /\ Succ(End) = {}
  /\ \A n \in Succ(Start) : Prev(n) = {Start}
<1>1. ASSUME NEW n \in Node PROVE Prev(n) \subseteq Node
  <2>1. Dag[n].prev \in Seq(Node)
    BY DagAssumption DEF DagAssumption
  <2> QED
    BY <2>1, ListInSet DEF Prev, PrevNodes
<1>2. \A n \in Node : IsFiniteSet(Prev(n))
  BY <1>1, DagAssumption, FS_Subset DEF DagAssumption
<1>3. QED
  BY <1>1, <1>2, DagAssumption DEF DagAssumption, Service

\* Submitting a copy sends at most one request, for the same root and service.
LEMMA SubmitFacts ==
  ASSUME NEW copy \in Copy, copy.cur # Start,
         NEW d \in Device, NEW file \in BOOLEAN,
         NEW y \in Submit(copy, d, file)
  PROVE  /\ y \in Work
         /\ y.stage \in Dispatched
         /\ At(y, copy.root, copy.cur)
         /\ y.stage = "submit" => y.copy.cur # End
         /\ y.stage = "process" => y.copy.cur \in Service
         /\ y.stage = "distribute" => y.copy.cur = End
         /\ y.todo = {} /\ y.joint = NoNode
         /\ \A z \in Submit(copy, d, file) : z = y
<1>1. copy \in [root : Task, past : Node \cup {NoNode}, cur : Node,
                done : SUBSET Node, dev : Device]
  BY DEF Copy
<1>2. Cloud \in Device /\ Ports[d] \subseteq Service
  BY SystemAssumption
<1>3. CASE y \in {Request("distribute", copy, Cloud)} /\ copy.cur = End
           /\ Submit(copy, d, file) = {Request("distribute", copy, Cloud)}
  BY <1>1, <1>2, <1>3 DEF Request, Work, Copy, Dispatched, At, Handlers
<1>4. CASE y \in {Request("submit", copy, copy.dev)} /\ copy.cur # End
           /\ Submit(copy, d, file) = {Request("submit", copy, copy.dev)}
  BY <1>1, <1>2, <1>4 DEF Request, Work, Copy, Dispatched, At, Handlers
<1>5. CASE y \in {Request("process", copy, d)} /\ copy.cur \in Ports[d]
           /\ Submit(copy, d, file) = {Request("process", copy, d)}
  BY <1>1, <1>2, <1>5 DEF Request, Work, Copy, Dispatched, At, Handlers
<1>6. CASE y \in {Request("submit", [copy EXCEPT !.dev = Cloud], Cloud)} /\ copy.cur # End
           /\ Submit(copy, d, file) = {Request("submit", [copy EXCEPT !.dev = Cloud], Cloud)}
  BY <1>1, <1>2, <1>6 DEF Request, Work, Copy, Dispatched, At, Handlers
<1>7. QED
  BY <1>3, <1>4, <1>5, <1>6 DEF Submit, Missing

\* A handler that goes on keeps its copy; only its list of nodes shrinks.
LEMMA ResumeFacts ==
  ASSUME NEW x \in Work, x.stage \in Handlers,
         NEW todo \in SUBSET Node,
         NEW y \in Resume(x, todo)
  PROVE  /\ y \in Work
         /\ y.stage \in {"fork", "return"}
         /\ y.stage = "fork" <=> x.stage = "fork"
         /\ y.copy = x.copy
         /\ y.todo = todo /\ y.joint = NoNode
         /\ \A z \in Resume(x, todo) : z = y
<1>1. x \in [stage : Dispatched \cup Handlers, copy : Copy, dev : Device,
             todo : SUBSET Node, joint : Node \cup {NoNode}]
  BY DEF Work
<1>2. Resume(x, todo) = {[x EXCEPT !.stage = IF @ = "retrieve" THEN "return" ELSE @,
                                   !.todo = todo, !.joint = NoNode]}
  BY DEF Resume
<1>3. QED
  BY <1>1, <1>2 DEF Work, Handlers

\* What fork_task keeps of a copy.
LEMMA ForkFacts ==
  ASSUME NEW copy \in Copy, NEW n \in Node
  PROVE  /\ Fork(copy, n) \in Copy
         /\ Fork(copy, n).root = copy.root
         /\ Fork(copy, n).cur = n
         /\ Fork(copy, n).past = copy.cur
<1>1. copy \in [root : Task, past : Node \cup {NoNode}, cur : Node,
                done : SUBSET Node, dev : Device]
  BY DEF Copy
<1>2. Plan[copy.root][n] \in Device
  BY <1>1, SystemAssumption
<1>3. QED
  BY <1>1, <1>2 DEF Fork, Copy

\* Merging changes only what a copy has collected.
LEMMA MergedFacts ==
  ASSUME NEW copy \in Copy, NEW order
  PROVE  LET m == [copy EXCEPT !.done = MergedDone(copy, order)]
         IN  /\ m \in Copy /\ m.root = copy.root /\ m.cur = copy.cur
<1>1. MergedDone(copy, order) \subseteq Node
  BY DEF MergedDone
<1>2. QED
  BY <1>1 DEF Copy

\* What SubmitAndResume leaves in flight: the copy's request, if any, and the
\* handler, if it goes on.
LEMMA SubmitAndResumeFacts ==
  ASSUME TypeOK, NEW x \in flight, x.stage \in Handlers,
         NEW copy \in Copy, copy.cur # Start, NEW todo \in SUBSET Node,
         NEW y \in SubmitAndResume(x, copy, todo)
  PROVE  /\ y \in Work
         /\ \/ /\ y.stage \in Dispatched
               /\ At(y, copy.root, copy.cur)
               /\ y.stage = "submit" => y.copy.cur # End
               /\ y.stage = "process" => y.copy.cur \in Service
               /\ y.stage = "distribute" => y.copy.cur = End
            \/ /\ y.stage \in {"fork", "return"}
               /\ y.stage = "fork" <=> x.stage = "fork"
               /\ y.copy = x.copy
               /\ y.todo = todo
         /\ \A z \in SubmitAndResume(x, copy, todo) :
              (y.stage \in Dispatched <=> z.stage \in Dispatched) => z = y
<1> DEFINE file == copy.root \in files[x.dev]
<1>1. x \in Work /\ x.dev \in Device
  BY DEF TypeOK, Work
<1>2. file \in BOOLEAN
  OBVIOUS
<1>3. SubmitAndResume(x, copy, todo) \subseteq Submit(copy, x.dev, file) \cup Resume(x, todo)
  BY DEF SubmitAndResume
<1>4. \A z \in Submit(copy, x.dev, file) :
        /\ z \in Work /\ z.stage \in Dispatched
        /\ At(z, copy.root, copy.cur)
        /\ z.stage = "submit" => z.copy.cur # End
        /\ z.stage = "process" => z.copy.cur \in Service
        /\ z.stage = "distribute" => z.copy.cur = End
        /\ \A w \in Submit(copy, x.dev, file) : w = z
  BY <1>1, <1>2, SubmitFacts
<1>5. \A z \in Resume(x, todo) :
        /\ z \in Work /\ z.stage \in {"fork", "return"}
        /\ z.stage = "fork" <=> x.stage = "fork"
        /\ z.copy = x.copy /\ z.todo = todo
        /\ \A w \in Resume(x, todo) : w = z
  BY <1>1, ResumeFacts
<1>6. QED
  BY <1>3, <1>4, <1>5 DEF Dispatched

-----------------------------------------------------------------------------
(* Type correctness.                                                       *)

\* Nothing is under way at first.
LEMMA InitType == Init => TypeOK
BY SystemAssumption DEF Init, TypeOK

\* Updating a table kept per root task and service.
LEMMA TableUpdate ==
  ASSUME NEW T, NEW f \in [Task -> [Node -> T]],
         NEW r \in Task, NEW n \in Node, NEW v \in T
  PROVE  LET g == [f EXCEPT ![r][n] = v]
         IN  /\ g \in [Task -> [Node -> T]]
             /\ \A q \in Task, m \in Node :
                  g[q][m] = IF q = r /\ m = n THEN v ELSE f[q][m]
<1>1. [f[r] EXCEPT ![n] = v] \in [Node -> T]
  OBVIOUS
<1>2. [f EXCEPT ![r] = [f[r] EXCEPT ![n] = v]] \in [Task -> [Node -> T]]
  BY <1>1
<1>3. QED
  BY <1>1, <1>2

\* The fields of a piece of work.
LEMMA WorkFacts ==
  ASSUME NEW x \in Work
  PROVE  /\ x.copy \in Copy /\ x.copy.root \in Task /\ x.copy.cur \in Node
         /\ x.dev \in Device /\ x.todo \subseteq Node /\ x.joint \in Node \cup {NoNode}
         /\ x.stage \in Dispatched \/ x.stage \in Handlers
         /\ ~(x.stage \in Dispatched /\ x.stage \in Handlers)
BY DEF Work, Copy, Dispatched, Handlers

\* The next service of a handler past START is not START again.
LEMMA NextFacts ==
  ASSUME NEW p \in Node, NEW n \in Succ(p)
  PROVE  n \in Node /\ n # Start /\ p \in Prev(n)
BY NodeFacts

\* Every step keeps the types.
LEMMA StepType ==
  ASSUME TypeOK, HandlerShape, DispatchedShape, RetrieveShape, [Next]_vars
  PROVE  TypeOK'
<1> USE DEF TypeOK
<1>1. ASSUME NEW r \in Task, Generate(r) PROVE TypeOK'
  <2>1. Source[r] \in Device
    BY SystemAssumption
  <2>2. [root |-> r, past |-> NoNode, cur |-> Start, done |-> {}, dev |-> Source[r]] \in Copy
    BY <2>1, NodeFacts DEF Copy
  <2>3. Request("submit", [root |-> r, past |-> NoNode, cur |-> Start, done |-> {},
                           dev |-> Source[r]], Source[r]) \in Work
    BY <2>1, <2>2 DEF Request, Work, Dispatched
  <2>4. QED
    BY <1>1, <2>3 DEF Generate
<1>2. ASSUME NEW x \in flight, ReceiveTask(x) PROVE TypeOK'
  <2>1. x \in Work /\ x.copy \in Copy /\ x.copy.root \in Task /\ x.dev \in Device
    BY WorkFacts
  <2>2. CASE x.copy.cur = Start
    <3>1. Handler("fork", x.copy, x.dev, Succ(Start)) \in Work
      BY <2>1, NodeFacts DEF Handler, Work, Handlers
    <3>2. QED
      BY <1>2, <2>1, <2>2, <3>1 DEF ReceiveTask, Replace
  <2>3. CASE x.copy.cur # Start
    <3>1. Submit(x.copy, x.dev, TRUE) \subseteq Work
      BY <2>1, <2>3, SubmitFacts
    <3>2. QED
      BY <1>2, <2>1, <2>3, <3>1 DEF ReceiveTask, Replace
  <2>4. QED
    BY <2>2, <2>3
<1>3. ASSUME NEW x \in flight, NEW n \in x.todo, SubmitNext(x, n) \/ Advance(x, n)
      PROVE  TypeOK'
  <2>1. x \in Work /\ x.copy \in Copy /\ x.copy.cur \in Node /\ x.todo \subseteq Node
        /\ x.stage \in Handlers
    BY <1>3, WorkFacts DEF SubmitNext, Advance, Handlers
  <2>2. n \in Node /\ n # Start
    BY <2>1, NextFacts DEF HandlerShape
  <2>3. Fork(x.copy, n) \in Copy /\ Fork(x.copy, n).cur # Start
    BY <2>1, <2>2, ForkFacts
  <2>4. SubmitAndResume(x, Fork(x.copy, n), x.todo \ {n}) \subseteq Work
    BY <2>1, <2>3, SubmitAndResumeFacts
  <2>5. QED
    BY <1>3, <2>4 DEF SubmitNext, Advance, Replace
<1>4. ASSUME NEW x \in flight, Process(x) PROVE TypeOK'
  <2>1. x \in Work /\ x.copy \in Copy /\ x.copy.cur \in Node /\ x.copy.root \in Task
        /\ x.dev \in Device
    BY WorkFacts
  <2>2. [x.copy EXCEPT !.done = @ \cup {x.copy.cur}] \in Copy
    BY <2>1 DEF Copy
  <2>3. Handler("return", [x.copy EXCEPT !.done = @ \cup {x.copy.cur}],
                x.dev, Succ(x.copy.cur)) \in Work
    BY <2>1, <2>2, NodeFacts DEF Handler, Work, Handlers
  <2>4. executed' \in [Task -> [Node -> Nat]]
    <3>1. executed[x.copy.root][x.copy.cur] + 1 \in Nat
      BY <2>1
    <3>2. [executed EXCEPT ![x.copy.root][x.copy.cur]
             = executed[x.copy.root][x.copy.cur] + 1] \in [Task -> [Node -> Nat]]
      BY <2>1, <3>1, TableUpdate
    <3>3. QED
      BY <1>4, <3>2 DEF Process
  <2>5. QED
    BY <1>4, <2>1, <2>3, <2>4 DEF Process, Replace
<1>5. ASSUME NEW x \in flight, NEW n \in x.todo, StoreBranch(x, n) PROVE TypeOK'
  <2>1. x \in Work /\ x.copy \in Copy /\ x.copy.root \in Task /\ x.todo \subseteq Node
        /\ x.stage \in Handlers
    BY <1>5, WorkFacts DEF StoreBranch, Handlers
  <2>2. Fork(x.copy, n) \in Copy
    BY <2>1, ForkFacts
  <2>3. Resume(x, x.todo \ {n}) \subseteq Work
    BY <2>1, ResumeFacts
  <2>4. [x EXCEPT !.stage = "retrieve", !.todo = @ \ {n}, !.joint = n] \in Work
    BY <2>1 DEF Work, Handlers
  <2>5. QED
    BY <1>5, <2>1, <2>2, <2>3, <2>4 DEF StoreBranch, Replace
<1>6. ASSUME NEW x \in flight, Retrieve(x) PROVE TypeOK'
  <2>1. x \in Work /\ x.copy \in Copy /\ x.copy.root \in Task /\ x.copy.cur \in Node
        /\ x.todo \subseteq Node /\ x.stage \in Handlers
    BY <1>6, WorkFacts DEF Retrieve, Handlers
  <2>2. x.joint \in Node /\ x.joint # Start
    BY <1>6, <2>1, NextFacts DEF RetrieveShape, Retrieve
  <2>3. Fork(x.copy, x.joint) \in Copy /\ Fork(x.copy, x.joint).cur = x.joint
    BY <2>1, <2>2, ForkFacts
  <2>4. Resume(x, x.todo) \subseteq Work
    BY <2>1, ResumeFacts
  <2>5. ASSUME NEW order
        PROVE  SubmitAndResume(x, [Fork(x.copy, x.joint) EXCEPT
                   !.done = MergedDone(Fork(x.copy, x.joint), order)], x.todo) \subseteq Work
    <3>1. /\ [Fork(x.copy, x.joint) EXCEPT
                  !.done = MergedDone(Fork(x.copy, x.joint), order)] \in Copy
          /\ [Fork(x.copy, x.joint) EXCEPT
                  !.done = MergedDone(Fork(x.copy, x.joint), order)].cur = x.joint
      BY <2>3, MergedFacts
    <3>2. QED
      BY <2>1, <2>2, <3>1, SubmitAndResumeFacts
  <2>6. flight' \subseteq Work
    BY <1>6, <2>4, <2>5 DEF Retrieve, Replace
  <2>7. store' \in [Task -> [Node -> SUBSET Copy]]
    <3>1. [store EXCEPT ![x.copy.root][x.joint] = {}] \in [Task -> [Node -> SUBSET Copy]]
      BY <2>1, <2>2, TableUpdate
    <3>2. QED
      BY <1>6, <3>1 DEF Retrieve
  <2>8. QED
    BY <1>6, <2>6, <2>7 DEF Retrieve
<1>7. ASSUME NEW x \in flight, Record(x) PROVE TypeOK'
  <2>1. x.copy \in Copy
    BY WorkFacts
  <2>2. [root |-> x.copy.root, done |-> x.copy.done] \in [root : Task, done : SUBSET Node]
    BY <2>1 DEF Copy
  <2>3. QED
    BY <1>7, <2>2 DEF Record, Replace
<1>8. ASSUME NEW x \in flight, Drop(x) PROVE TypeOK'
  BY <1>8, WorkFacts, SystemAssumption DEF Drop, Fault, Replace
<1>9. ASSUME NEW x \in flight, NEW n \in x.todo, StoreFails(x, n) PROVE TypeOK'
  <2>1. x \in Work /\ x.copy \in Copy /\ x.copy.root \in Task /\ x.todo \subseteq Node
        /\ x.stage \in Handlers
    BY <1>9, WorkFacts DEF StoreFails, Handlers
  <2>2. Fork(x.copy, n) \in Copy
    BY <2>1, ForkFacts
  <2>3. Resume(x, x.todo \ {n}) \subseteq Work
    BY <2>1, ResumeFacts
  <2>4. faults' \in 0..MaxFaults /\ hurt' \subseteq Task
    BY <1>9, <2>1, SystemAssumption DEF StoreFails, Fault
  <2>5. store' \in [Task -> [Node -> SUBSET Copy]]
    <3>1. store[x.copy.root][n] \cup {Fork(x.copy, n)} \in SUBSET Copy
      BY <2>1, <2>2
    <3>2. [store EXCEPT ![x.copy.root][n] = store[x.copy.root][n] \cup {Fork(x.copy, n)}]
            \in [Task -> [Node -> SUBSET Copy]]
      BY <2>1, <3>1, TableUpdate
    <3>3. QED
      BY <1>9, <3>2 DEF StoreFails
  <2>6. QED
    BY <1>9, <2>3, <2>4, <2>5 DEF StoreFails, Replace
<1>10. ASSUME NEW x \in flight, RetrieveFails(x) PROVE TypeOK'
  <2>1. x \in Work /\ x.copy.root \in Task /\ x.copy.cur \in Node
        /\ x.todo \subseteq Node /\ x.stage \in Handlers
    BY <1>10, WorkFacts DEF RetrieveFails, Handlers
  <2>2. x.joint \in Node
    BY <1>10, <2>1, NextFacts DEF RetrieveShape, RetrieveFails
  <2>3. Resume(x, x.todo) \subseteq Work
    BY <2>1, ResumeFacts
  <2>4. faults' \in 0..MaxFaults /\ hurt' \subseteq Task
    BY <1>10, <2>1, SystemAssumption DEF RetrieveFails, Fault
  <2>5. store' \in [Task -> [Node -> SUBSET Copy]]
    <3>1. [store EXCEPT ![x.copy.root][x.joint] = {}] \in [Task -> [Node -> SUBSET Copy]]
      BY <2>1, <2>2, TableUpdate
    <3>2. QED
      BY <1>10, <3>1 DEF RetrieveFails
  <2>6. QED
    BY <1>10, <2>3, <2>4, <2>5 DEF RetrieveFails, Replace
<1>11. ASSUME NEW r \in Task, NEW n \in Node, Expire(r, n) PROVE TypeOK'
  BY <1>11, SystemAssumption DEF Expire, Fault
<1>12. ASSUME NEW d \in Device, NEW r \in Task, LoseFile(d, r) PROVE TypeOK'
  BY <1>12, SystemAssumption DEF LoseFile, Fault
<1>13. ASSUME NEW d \in Device, NEW n \in Service, ClearQueue(d, n) PROVE TypeOK'
  <2>1. PICK dropped \in SUBSET flight :
          /\ Fault({x.copy.root : x \in dropped})
          /\ flight' = flight \ dropped
          /\ files' = [files EXCEPT ![d] = @ \ {x.copy.root : x \in dropped}]
          /\ UNCHANGED <<generated, store, executed, records>>
    BY <1>13 DEF ClearQueue
  <2>2. {x.copy.root : x \in dropped} \subseteq Task
    BY WorkFacts
  <2>3. QED
    BY <2>1, <2>2, SystemAssumption DEF Fault
<1>14. CASE UNCHANGED vars
  BY <1>14 DEF vars
<1>15. QED
  BY <1>1, <1>2, <1>3, <1>4, <1>5, <1>6, <1>7, <1>8, <1>9, <1>10, <1>11,
     <1>12, <1>13, <1>14 DEF Next, Progress, Failure

-----------------------------------------------------------------------------
(* What every step leaves in place: edges that are emitted stay emitted.   *)

\* A step only adds to what has been done, and a handler it adds either goes
\* on from a handler with at least the same nodes to visit, or is the first
\* handler of its service.
Monotone ==
  /\ generated \subseteq generated'
  /\ \A r \in Task : executed'[r][Start] = 0
  /\ \A r \in Task, n \in Node : executed[r][n] > 0 => executed'[r][n] > 0
  /\ \A y \in flight' : y.stage \in Handlers =>
       \/ \E x \in flight : /\ x.stage \in Handlers
                            /\ At(y, x.copy.root, x.copy.cur)
                            /\ y.todo \subseteq x.todo
       \/ ~Left(y.copy.root, y.copy.cur)
  /\ \A y \in flight' : y.stage \in Dispatched /\ y.copy.cur = Start =>
       y \in flight \/ y.copy.root \notin generated

\* An edge once emitted stays so.
LEMMA EmittedKept ==
  ASSUME IInv, Monotone, NEW r \in Task, NEW p \in Node, NEW n \in Node, Emitted(r, p, n)
  PROVE  Emitted(r, p, n)'
<1>1. Left(r, p)'
  <2>1. CASE p = Start
    <3>1. r \in generated /\ ~Active(r, Start)
      BY <2>1 DEF Emitted, Left
    <3>2. executed'[r][Start] = 0
      BY DEF Monotone
    <3>3. ~Active(r, Start)'
      BY <3>1, <3>2 DEF Active, Monotone, At
    <3>4. QED
      BY <2>1, <3>1, <3>3 DEF Left, Monotone
  <2>2. CASE p # Start
    BY <2>2 DEF Emitted, Left, Monotone
  <2>3. QED
    BY <2>1, <2>2
<1>2. ~Pending(r, p, n)'
  <2>1. SUFFICES ASSUME NEW y \in flight', y.stage \in Handlers, At(y, r, p), n \in y.todo
                 PROVE  FALSE
    BY DEF Pending, At
  <2>2. CASE \E x \in flight : /\ x.stage \in Handlers
                               /\ At(y, x.copy.root, x.copy.cur)
                               /\ y.todo \subseteq x.todo
    BY <2>1, <2>2 DEF Emitted, Pending, At
  <2>3. CASE ~Left(y.copy.root, y.copy.cur)
    BY <2>1, <2>3 DEF Emitted, At
  <2>4. QED
    BY <2>1, <2>2, <2>3 DEF Monotone
<1>3. QED
  BY <1>1, <1>2 DEF Emitted

\* A handler in flight belongs to a service whose handler has been started.
LEMMA HandlerLeft ==
  ASSUME IInv, NEW x \in flight, x.stage \in Handlers
  PROVE  Left(x.copy.root, x.copy.cur)
<1>1. x.copy.root \in Task /\ x.copy.cur \in Node
  BY WorkFacts DEF IInv, TypeOK
<1>2. CASE x.copy.cur = Start
  <2>1. x.copy.root \in generated
    BY DEF IInv, HandlerShape
  <2>2. executed[x.copy.root][Start] = 0
    BY <1>1 DEF IInv, ExecutedShape
  <2>3. \A y \in flight : At(y, x.copy.root, Start) => y = x
    BY <1>2 DEF IInv, OneToken
  <2>4. ~Active(x.copy.root, Start)
    BY <2>2, <2>3 DEF Active, Handlers, Dispatched
  <2>5. QED
    BY <1>2, <2>1, <2>4 DEF Left
<1>3. CASE x.copy.cur # Start
  BY <1>1, <1>3 DEF IInv, HandlerShape, Left
<1>4. QED
  BY <1>2, <1>3

\* A service that is not active has no work in flight.
LEMMA NoToken ==
  ASSUME IInv, NEW r \in Task, NEW n \in Node \ {Start}, ~Active(r, n)
  PROVE  \A x \in flight : ~At(x, r, n)
<1>1. SUFFICES ASSUME NEW x \in flight, At(x, r, n) PROVE FALSE
  OBVIOUS
<1>2. x \in Work
  BY DEF IInv, TypeOK
<1>3. x.stage \in Handlers
  BY <1>1, <1>2, WorkFacts DEF Active
<1>4. executed[r][n] = 1
  BY <1>1, <1>3 DEF IInv, HandlerShape, At
<1>5. QED
  BY <1>4 DEF Active

\* An edge its handler still has to deal with is not emitted.
LEMMA TodoNotEmitted ==
  ASSUME IInv, NEW x \in flight, x.stage \in Handlers, NEW n \in x.todo
  PROVE  /\ ~Emitted(x.copy.root, x.copy.cur, n)
         /\ n \in Node \ {Start} /\ x.copy.cur \in Prev(n)
         /\ ~AllEmitted(x.copy.root, n)
         /\ ~Active(x.copy.root, n)
<1>1. x.copy.root \in Task /\ x.copy.cur \in Node
  BY WorkFacts DEF IInv, TypeOK
<1>2. n \in Succ(x.copy.cur)
  BY DEF IInv, HandlerShape
<1>3. n \in Node \ {Start} /\ x.copy.cur \in Prev(n)
  BY <1>1, <1>2, NextFacts
<1>4. ~Emitted(x.copy.root, x.copy.cur, n)
  BY DEF Emitted, Pending, At
<1>5. QED
  BY <1>1, <1>3, <1>4 DEF AllEmitted, IInv, ActiveShape

\* The joint of a merger is a service of the DAG.
LEMMA MergerFacts ==
  ASSUME IInv, NEW x \in flight, x.stage = "retrieve"
  PROVE  /\ x \in Work /\ x.copy \in Copy /\ x.copy.root \in Task /\ x.copy.cur \in Node
         /\ x.joint \in Node \ {Start} /\ x.copy.cur \in Prev(x.joint)
<1>1. /\ x \in Work /\ x.copy \in Copy /\ x.copy.root \in Task /\ x.copy.cur \in Node
  BY WorkFacts DEF IInv, TypeOK
<1>2. x.joint \in Succ(x.copy.cur)
  BY DEF IInv, RetrieveShape
<1>3. QED
  BY <1>1, <1>2, NextFacts

-----------------------------------------------------------------------------
(* Parts of the invariant that most steps keep for the same reasons.       *)

\* When OneToken is kept: new work takes the place of the old, or is the only
\* work of its service.
LEMMA KeepOneToken ==
  ASSUME OneToken, NEW x \in flight,
         \A y \in flight' : \/ y \in flight /\ y # x
                            \/ At(y, x.copy.root, x.copy.cur)
                            \/ \A w \in flight : ~At(w, y.copy.root, y.copy.cur),
         \A y, z \in flight' :
            /\ ~(y \in flight /\ y # x) /\ ~(z \in flight /\ z # x)
            /\ At(z, y.copy.root, y.copy.cur)
            => z = y
  PROVE  OneToken'
<1>1. SUFFICES ASSUME NEW y \in flight', NEW z \in flight',
                      At(z, y.copy.root, y.copy.cur)
               PROVE  z = y
  BY DEF OneToken, At
<1>2. \A u, v \in flight : At(v, u.copy.root, u.copy.cur) => u = v
  BY DEF OneToken
<1>3. QED
  BY <1>1, <1>2 DEF At

\* When ActiveShape is kept.
LEMMA KeepActive ==
  ASSUME IInv, Monotone,
         \A r \in Task, n \in Node \ {Start} :
            Active(r, n)' => Active(r, n) \/ AllEmitted(r, n)'
  PROVE  ActiveShape'
<1>1. SUFFICES ASSUME NEW r \in Task, NEW n \in Node \ {Start}, Active(r, n)'
               PROVE  AllEmitted(r, n)'
  BY DEF ActiveShape
<1>2. CASE Active(r, n)
  <2>1. AllEmitted(r, n)
    BY <1>2 DEF IInv, ActiveShape
  <2>2. \A p \in Prev(n) : Emitted(r, p, n)'
    BY <2>1, NodeFacts, EmittedKept DEF AllEmitted
  <2>3. QED
    BY <2>2 DEF AllEmitted
<1>3. QED
  BY <1>1, <1>2

\* When RetrieveShape is kept: nobody new starts to retrieve.
LEMMA KeepRetrieve ==
  ASSUME IInv, Monotone,
         \A x \in flight' : x.stage = "retrieve" => x \in flight,
         \A x \in flight' : x.stage = "retrieve" =>
            (Active(x.copy.root, x.joint)' => Active(x.copy.root, x.joint))
  PROVE  RetrieveShape' /\ SingleMerger'
<1>1. ASSUME NEW x \in flight', x.stage = "retrieve"
      PROVE  /\ x.joint \in Succ(x.copy.cur) \ x.todo
             /\ Len(Dag[x.joint].prev) > 1
             /\ AllEmitted(x.copy.root, x.joint)'
             /\ ~Active(x.copy.root, x.joint)'
  <2>1. x \in flight
    BY <1>1
  <2>2. /\ x.joint \in Succ(x.copy.cur) \ x.todo
        /\ Len(Dag[x.joint].prev) > 1
        /\ AllEmitted(x.copy.root, x.joint)
        /\ ~Active(x.copy.root, x.joint)
    BY <1>1, <2>1 DEF IInv, RetrieveShape
  <2>3. x.copy.root \in Task /\ x.joint \in Node
    BY <2>1, <2>2, WorkFacts, NodeFacts DEF IInv, TypeOK
  <2>4. \A p \in Prev(x.joint) : Emitted(x.copy.root, p, x.joint)'
    BY <2>2, <2>3, NodeFacts, EmittedKept DEF AllEmitted
  <2>5. QED
    BY <1>1, <2>2, <2>4 DEF AllEmitted
<1>2. SingleMerger'
  BY DEF IInv, SingleMerger
<1>3. QED
  BY <1>1, <1>2 DEF RetrieveShape

\* When StoreShape is kept: nothing is added to a hash.
LEMMA KeepStore ==
  ASSUME IInv, Monotone,
         \A r \in Task, n \in Node : store'[r][n] \subseteq store[r][n],
         \A r \in Task, n \in Node :
            Active(r, n)' => Active(r, n) \/ store'[r][n] = {}
  PROVE  StoreShape'
<1>1. SUFFICES ASSUME NEW r \in Task, NEW n \in Node
               PROVE  /\ \A c \in store'[r][n] : c.past \in Prev(n) /\ Emitted(r, c.past, n)'
                      /\ \A c, d \in store'[r][n] : c.past = d.past => c = d
                      /\ store'[r][n] # {} => Len(Dag[n].prev) > 1 /\ ~Active(r, n)'
  BY DEF StoreShape
<1>2. ASSUME NEW c \in store'[r][n]
      PROVE  c.past \in Prev(n) /\ Emitted(r, c.past, n)'
  <2>1. c.past \in Prev(n) /\ Emitted(r, c.past, n)
    BY DEF IInv, StoreShape
  <2>2. QED
    BY <2>1, NodeFacts, EmittedKept
<1>3. QED
  BY <1>2 DEF IInv, StoreShape

\* A step after which every service that is active was active before, that
\* adds nothing to the store and no merger, keeps these parts.
LEMMA QuietStep ==
  ASSUME IInv, Monotone,
         \A r \in Task, n \in Node : Active(r, n)' => Active(r, n),
         \A x \in flight' : x.stage = "retrieve" => x \in flight,
         \A r \in Task, n \in Node : store'[r][n] \subseteq store[r][n]
  PROVE  RetrieveShape' /\ SingleMerger' /\ ActiveShape' /\ StoreShape'
<1>1. ActiveShape' /\ StoreShape'
  BY KeepActive, KeepStore
<1>2. \A x \in flight' : x.stage = "retrieve" =>
         (Active(x.copy.root, x.joint)' => Active(x.copy.root, x.joint))
  <2>1. \A x \in flight : x.stage = "retrieve" => x.copy.root \in Task /\ x.joint \in Node
    BY WorkFacts, NodeFacts DEF IInv, TypeOK, RetrieveShape
  <2>2. QED
    BY <2>1
<1>3. QED
  BY <1>1, <1>2, KeepRetrieve

-----------------------------------------------------------------------------
(* Each action keeps the invariant.                                        *)

\* The invariant holds before any task is generated.
LEMMA InitInv == Init => IInv
<1> SUFFICES ASSUME Init PROVE IInv
  OBVIOUS
<1>1. TypeOK
  BY InitType
<1>2. flight = {} /\ \A r \in Task, n \in Node : executed[r][n] = 0 /\ store[r][n] = {}
  BY DEF Init
<1>3. \A r \in Task, n \in Node : ~Active(r, n)
  BY <1>2 DEF Active
<1>4. AtMostOnce /\ OneToken /\ DispatchedShape /\ HandlerShape /\ RetrieveShape /\ SingleMerger
  BY <1>2 DEF AtMostOnce, OneToken, DispatchedShape, HandlerShape, RetrieveShape, SingleMerger
<1>5. ExecutedShape /\ ActiveShape /\ StoreShape
  BY <1>2, <1>3, NodeFacts DEF ExecutedShape, ActiveShape, StoreShape
<1>6. QED
  BY <1>1, <1>4, <1>5 DEF IInv

\* A generated task keeps the invariant.
LEMMA GenerateStep ==
  ASSUME IInv, TypeOK', NEW r \in Task, Generate(r)
  PROVE  IInv'
<1> DEFINE copy == [root |-> r, past |-> NoNode, cur |-> Start, done |-> {}, dev |-> Source[r]]
           new == Request("submit", copy, Source[r])
<1>1. /\ r \notin generated /\ generated' = generated \cup {r}
      /\ flight' = flight \cup {new}
      /\ UNCHANGED <<store, executed>>
  BY DEF Generate
<1>2. new.stage = "submit" /\ new.copy.root = r /\ new.copy.cur = Start
  BY DEF Request
<1>3. Start \in Node /\ Start # End
  BY NodeFacts
<1>4. \A x \in flight : x.copy.root \in generated /\ x.copy.root # r
  BY <1>1, WorkFacts DEF IInv, TypeOK, DispatchedShape, HandlerShape
<1>5. \A q \in Task, n \in Node : Active(q, n)' => Active(q, n) \/ (q = r /\ n = Start)
  BY <1>1, <1>2 DEF Active, At
<1>6. Monotone
  BY <1>1, <1>2, <1>3 DEF Monotone, IInv, ExecutedShape, At, Handlers
<1>7. OneToken'
  BY <1>1, <1>2, <1>4 DEF IInv, OneToken, At
<1>8. DispatchedShape'
  BY <1>1, <1>2, <1>3 DEF IInv, DispatchedShape, ExecutedShape
<1>9. HandlerShape'
  BY <1>1, <1>2 DEF IInv, HandlerShape, Handlers
<1>10. RetrieveShape' /\ SingleMerger'
  <2>1. \A x \in flight' : x.stage = "retrieve" => x \in flight
    BY <1>1, <1>2
  <2>2. \A x \in flight' : x.stage = "retrieve" =>
           (Active(x.copy.root, x.joint)' => Active(x.copy.root, x.joint))
    <3>1. SUFFICES ASSUME NEW x \in flight, x.stage = "retrieve",
                          Active(x.copy.root, x.joint)'
                   PROVE  Active(x.copy.root, x.joint)
      BY <2>1
    <3>2. x.copy.root \in Task /\ x.joint \in Node
      BY <3>1, MergerFacts
    <3>3. QED
      BY <1>4, <1>5, <3>1, <3>2
  <2>3. QED
    BY <1>6, <2>1, <2>2, KeepRetrieve
<1>11. ActiveShape'
  BY <1>5, <1>6, KeepActive
<1>12. StoreShape'
  <2>1. store[r][Start] = {}
    <3>1. \A c \in store[r][Start] : c.past \in Prev(Start)
      BY <1>3 DEF IInv, StoreShape
    <3>2. QED
      BY <3>1, NodeFacts
  <2>2. \A q \in Task, n \in Node : store'[q][n] = store[q][n]
    BY <1>1
  <2>3. \A q \in Task, n \in Node : Active(q, n)' => Active(q, n) \/ store'[q][n] = {}
    BY <1>5, <2>1, <2>2
  <2>4. QED
    BY <1>6, <2>2, <2>3, KeepStore
<1>13. AtMostOnce' /\ ExecutedShape'
  BY <1>1 DEF IInv, AtMostOnce, ExecutedShape
<1>14. QED
  BY <1>7, <1>8, <1>9, <1>10, <1>11, <1>12, <1>13 DEF IInv

\* A controller that receives a task keeps it.
LEMMA ReceiveStep ==
  ASSUME IInv, TypeOK', NEW x \in flight, ReceiveTask(x)
  PROVE  IInv'
<1> DEFINE N == IF x.copy.cur = Start
                THEN {Handler("fork", x.copy, x.dev, Succ(Start))}
                ELSE Submit(x.copy, x.dev, TRUE)
<1>1. /\ x.stage = "submit" /\ flight' = (flight \ {x}) \cup N
      /\ UNCHANGED <<generated, store, executed>>
  BY DEF ReceiveTask, Replace
<1>2. /\ x \in Work /\ x.copy \in Copy /\ x.copy.root \in Task /\ x.copy.cur \in Node
      /\ x.dev \in Device /\ x.stage \in Dispatched
  BY <1>1, WorkFacts DEF IInv, TypeOK, Dispatched
<1>3. ASSUME NEW y \in N
      PROVE  /\ At(y, x.copy.root, x.copy.cur)
             /\ y.stage # "retrieve"
             /\ \A z \in N : z = y
             /\ \/ /\ y.stage \in Dispatched /\ x.copy.cur # Start
                   /\ y.stage = "submit" => y.copy.cur # End
                   /\ y.stage = "process" => y.copy.cur \in Service
                   /\ y.stage = "distribute" => y.copy.cur = End
                \/ y.stage = "fork" /\ x.copy.cur = Start /\ y.todo = Succ(Start)
  <2>1. CASE x.copy.cur = Start
    BY <2>1 DEF Handler, At
  <2>2. CASE x.copy.cur # Start
    BY <1>2, <2>2, SubmitFacts DEF Dispatched
  <2>3. QED
    BY <2>1, <2>2
<1>4. x.copy.root \in generated /\ executed[x.copy.root][x.copy.cur] = 0
  BY <1>2 DEF IInv, DispatchedShape
<1>5. \A q \in Task, n \in Node : Active(q, n)' => Active(q, n)
  BY <1>1, <1>2, <1>3 DEF Active, At
<1>6. Monotone
  <2>1. \A y \in N : y.stage \in Handlers => ~Left(y.copy.root, y.copy.cur)
    BY <1>2, <1>3 DEF Left, Active, At, Dispatched, Handlers
  <2>2. \A y \in N : y.stage \in Dispatched => y.copy.cur # Start
    BY <1>3 DEF Dispatched, At
  <2>3. QED
    BY <1>1, <2>1, <2>2 DEF Monotone, IInv, ExecutedShape, At
<1>7. OneToken'
  <2>1. /\ \A y \in flight' : (y \in flight /\ y # x) \/ At(y, x.copy.root, x.copy.cur)
        /\ \A y, z \in flight' :
             ~(y \in flight /\ y # x) /\ ~(z \in flight /\ z # x) => z = y
    BY <1>1, <1>3
  <2>2. OneToken
    BY DEF IInv
  <2>3. QED
    BY <2>1, <2>2, KeepOneToken
<1>8. DispatchedShape'
  BY <1>1, <1>3, <1>4 DEF IInv, DispatchedShape, At, Dispatched
<1>9. HandlerShape'
  BY <1>1, <1>3, <1>4 DEF IInv, HandlerShape, At, Handlers, Dispatched
<1>10. RetrieveShape' /\ SingleMerger' /\ ActiveShape' /\ StoreShape'
  BY <1>1, <1>3, <1>5, <1>6, QuietStep
<1>11. AtMostOnce' /\ ExecutedShape'
  BY <1>1 DEF IInv, AtMostOnce, ExecutedShape
<1>12. QED
  BY <1>7, <1>8, <1>9, <1>10, <1>11 DEF IInv

\* A processor that works on a task keeps it.
LEMMA ProcessStep ==
  ASSUME IInv, TypeOK', NEW x \in flight, Process(x)
  PROVE  IInv'
<1> DEFINE r == x.copy.root
           n == x.copy.cur
           y == Handler("return", [x.copy EXCEPT !.done = @ \cup {n}], x.dev, Succ(n))
<1>1. /\ x \in Work /\ x.copy \in Copy /\ r \in Task /\ n \in Node
      /\ x.stage = "process" /\ x.stage \in Dispatched
  BY WorkFacts DEF IInv, TypeOK, Dispatched, Process
<1>2. n \in Service /\ n # Start /\ n # End /\ r \in generated /\ executed[r][n] = 0
  BY <1>1, NodeFacts DEF IInv, DispatchedShape
<1>3. y.stage = "return" /\ At(y, r, n) /\ y.todo = Succ(n)
  BY <1>1 DEF Handler, At, Copy
<1>4. UNCHANGED <<generated, store>>
  BY DEF Process
<1>5. CASE /\ executed' = [executed EXCEPT ![r][n] = executed[r][n] + 1]
           /\ flight' = (flight \ {x}) \cup {y}
  <2>1. \A q \in Task, m \in Node :
           executed'[q][m] = IF q = r /\ m = n THEN 1 ELSE executed[q][m]
    <3>1. executed \in [Task -> [Node -> Nat]] /\ executed[r][n] + 1 = 1
      BY <1>2 DEF IInv, TypeOK
    <3>2. QED
      BY <1>1, <1>5, <3>1, TableUpdate
  <2>2. \A q \in Task, m \in Node : Active(q, m)' => Active(q, m)
    <3>1. SUFFICES ASSUME NEW q \in Task, NEW m \in Node, Active(q, m)'
                   PROVE  Active(q, m)
      OBVIOUS
    <3>2. CASE \E z \in flight' : z.stage \in Dispatched /\ At(z, q, m)
      BY <1>3, <1>5, <3>2 DEF Active, Dispatched
    <3>3. CASE executed'[q][m] > 0
      <4>1. CASE q = r /\ m = n
        BY <1>1, <4>1 DEF Active, At
      <4>2. CASE ~(q = r /\ m = n)
        BY <2>1, <3>3, <4>2 DEF Active
      <4>3. QED
        BY <4>1, <4>2
    <3>4. QED
      BY <3>1, <3>2, <3>3 DEF Active
  <2>3. Monotone
    <3>1. ~Left(r, n)
      BY <1>2 DEF Left
    <3>2. \A q \in Task : executed'[q][Start] = 0
      BY <1>2, <2>1, NodeFacts DEF IInv, ExecutedShape
    <3>3. \A q \in Task, m \in Node : executed[q][m] > 0 => executed'[q][m] > 0
      BY <2>1
    <3>4. QED
      BY <1>3, <1>4, <1>5, <3>1, <3>2, <3>3 DEF Monotone, At, Dispatched
  <2>4. OneToken'
    <3>1. \A u \in flight' : \/ u \in flight /\ u # x
                             \/ At(u, x.copy.root, x.copy.cur) /\ u = y
      BY <1>3, <1>5
    <3>2. OneToken
      BY DEF IInv
    <3>3. QED
      BY <1>5, <3>1, <3>2, KeepOneToken
  <2>5. DispatchedShape'
    <3>1. SUFFICES ASSUME NEW z \in flight', z.stage \in Dispatched
                   PROVE  /\ z.copy.root \in generated
                          /\ executed'[z.copy.root][z.copy.cur] = 0
                          /\ z.stage = "submit" => z.copy.cur # End
                          /\ z.stage = "process" => z.copy.cur \in Service
                          /\ z.stage = "distribute" => z.copy.cur = End
      BY <1>4 DEF DispatchedShape
    <3>2. z \in flight /\ z # x
      BY <1>3, <1>5, <3>1 DEF Dispatched
    <3>3. ~At(z, r, n) /\ z.copy.root \in Task /\ z.copy.cur \in Node
      BY <3>2, WorkFacts DEF IInv, OneToken, TypeOK
    <3>4. QED
      BY <2>1, <3>1, <3>2, <3>3 DEF IInv, DispatchedShape, At
  <2>6. HandlerShape'
    <3>1. SUFFICES ASSUME NEW z \in flight', z.stage \in Handlers
                   PROVE  /\ z.copy.root \in generated
                          /\ z.todo \subseteq Succ(z.copy.cur)
                          /\ z.stage = "fork" <=> z.copy.cur = Start
                          /\ z.stage # "fork" => executed'[z.copy.root][z.copy.cur] = 1
      BY <1>4 DEF HandlerShape
    <3>2. CASE z = y
      BY <1>1, <1>2, <1>3, <2>1, <3>2 DEF At
    <3>3. CASE z \in flight /\ z # x
      <4>1. ~At(z, r, n) /\ z.copy.root \in Task /\ z.copy.cur \in Node
        BY <3>3, WorkFacts DEF IInv, OneToken, TypeOK
      <4>2. QED
        BY <2>1, <3>1, <3>3, <4>1 DEF IInv, HandlerShape, At
    <3>4. QED
      BY <1>5, <3>2, <3>3
  <2>7. RetrieveShape' /\ SingleMerger' /\ ActiveShape' /\ StoreShape'
    BY <1>3, <1>4, <1>5, <2>2, <2>3, QuietStep
  <2>8. AtMostOnce' /\ ExecutedShape'
    BY <1>2, <1>4, <2>1, NodeFacts DEF IInv, AtMostOnce, ExecutedShape
  <2>9. QED
    BY <2>4, <2>5, <2>6, <2>7, <2>8 DEF IInv
<1>6. CASE UNCHANGED executed /\ flight' = flight \ {x}
  <2>1. \A q \in Task, m \in Node : Active(q, m)' => Active(q, m)
    BY <1>6 DEF Active
  <2>2. Monotone
    BY <1>4, <1>6 DEF Monotone, IInv, ExecutedShape, At
  <2>3. OneToken' /\ DispatchedShape' /\ HandlerShape'
    BY <1>4, <1>6 DEF IInv, OneToken, DispatchedShape, HandlerShape, At
  <2>4. RetrieveShape' /\ SingleMerger' /\ ActiveShape' /\ StoreShape'
    BY <1>4, <1>6, <2>1, <2>2, QuietStep
  <2>5. AtMostOnce' /\ ExecutedShape'
    BY <1>4, <1>6 DEF IInv, AtMostOnce, ExecutedShape
  <2>6. QED
    BY <2>3, <2>4, <2>5 DEF IInv
<1>7. QED
  BY <1>5, <1>6 DEF Process, Replace

\* A step that only takes work out of flight or branches out of the store.
LEMMA ShrinkStep ==
  ASSUME IInv, TypeOK', flight' \subseteq flight, UNCHANGED <<generated, executed>>,
         \A r \in Task, n \in Node : store'[r][n] \subseteq store[r][n]
  PROVE  IInv'
<1>1. \A q \in Task, m \in Node : Active(q, m)' => Active(q, m)
  BY DEF Active
<1>2. Monotone
  BY DEF Monotone, IInv, ExecutedShape, At
<1>3. OneToken' /\ DispatchedShape' /\ HandlerShape'
  BY DEF IInv, OneToken, DispatchedShape, HandlerShape, At
<1>4. RetrieveShape' /\ SingleMerger' /\ ActiveShape' /\ StoreShape'
  BY <1>1, <1>2, QuietStep
<1>5. AtMostOnce' /\ ExecutedShape'
  BY DEF IInv, AtMostOnce, ExecutedShape
<1>6. QED
  BY <1>3, <1>4, <1>5 DEF IInv

\* A handler goes on without having submitted anything.
LEMMA CarryOnStep ==
  ASSUME IInv, TypeOK', NEW x \in flight, x.stage \in Handlers,
         NEW todo \in SUBSET x.todo, flight' = (flight \ {x}) \cup Resume(x, todo),
         UNCHANGED <<generated, executed>>,
         \A r \in Task, n \in Node : store'[r][n] \subseteq store[r][n]
  PROVE  IInv'
<1>1. /\ x \in Work /\ todo \in SUBSET Node
      /\ x.stage \notin Dispatched
  BY WorkFacts DEF IInv, TypeOK
<1>2. \A y \in flight' :
        \/ y \in flight /\ y # x
        \/ /\ y.stage \in {"fork", "return"}
           /\ y.stage = "fork" <=> x.stage = "fork"
           /\ y.copy = x.copy /\ y.todo = todo
  BY <1>1, ResumeFacts
<1>3. \A y, z \in flight' : ~(y \in flight /\ y # x) /\ ~(z \in flight /\ z # x) => z = y
  BY <1>1, ResumeFacts
<1>4. \A q \in Task, m \in Node : Active(q, m)' => Active(q, m)
  BY <1>2 DEF Active, Dispatched
<1>5. Monotone
  BY <1>2 DEF Monotone, IInv, ExecutedShape, At, Dispatched
<1>6. OneToken'
  <2>1. \A y \in flight' : (y \in flight /\ y # x) \/ At(y, x.copy.root, x.copy.cur)
    BY <1>2 DEF At
  <2>2. OneToken
    BY DEF IInv
  <2>3. QED
    BY <1>3, <2>1, <2>2, KeepOneToken
<1>7. DispatchedShape'
  BY <1>2 DEF IInv, DispatchedShape, Dispatched
<1>8. HandlerShape'
  <2>1. SUFFICES ASSUME NEW z \in flight', z.stage \in Handlers
                 PROVE  /\ z.copy.root \in generated
                        /\ z.todo \subseteq Succ(z.copy.cur)
                        /\ z.stage = "fork" <=> z.copy.cur = Start
                        /\ z.stage # "fork" => executed[z.copy.root][z.copy.cur] = 1
    BY DEF HandlerShape
  <2>2. QED
    BY <1>2, <2>1 DEF IInv, HandlerShape
<1>9. RetrieveShape' /\ SingleMerger' /\ ActiveShape' /\ StoreShape'
  <2>1. \A y \in flight' : y.stage = "retrieve" => y \in flight
    BY <1>2
  <2>2. QED
    BY <1>4, <1>5, <2>1, QuietStep
<1>10. AtMostOnce' /\ ExecutedShape'
  BY DEF IInv, AtMostOnce, ExecutedShape
<1>11. QED
  BY <1>6, <1>7, <1>8, <1>9, <1>10 DEF IInv

\* A handler hands the task to a service that was not active, and goes on.
LEMMA HandOverStep ==
  ASSUME IInv, TypeOK', NEW x \in flight, x.stage \in Handlers,
         NEW copy \in Copy, copy.root = x.copy.root,
         copy.cur # Start, x.copy.cur \in Prev(copy.cur),
         NEW todo \in SUBSET x.todo, copy.cur \notin todo,
         flight' = (flight \ {x}) \cup SubmitAndResume(x, copy, todo),
         UNCHANGED <<generated, executed>>,
         ~Active(copy.root, copy.cur),
         \A p \in Prev(copy.cur) : p = x.copy.cur \/ Emitted(copy.root, p, copy.cur),
         \A y \in flight : y.stage = "retrieve" /\ y.copy.root = copy.root
                             /\ y.joint = copy.cur => y = x,
         \A r \in Task, n \in Node : store'[r][n] \subseteq store[r][n],
         store'[copy.root][copy.cur] = {}
  PROVE  IInv'
<1> DEFINE r == copy.root
           n == copy.cur
           p == x.copy.cur
<1>1. /\ x \in Work /\ todo \in SUBSET Node /\ r \in Task /\ n \in Node \ {Start}
      /\ p \in Node /\ x.stage \notin Dispatched
  BY WorkFacts DEF IInv, TypeOK, Copy
<1>2. \A w \in flight : ~At(w, r, n)
  BY <1>1, NoToken
<1>3. n # p
  BY <1>2 DEF At
<1>4. ASSUME NEW y \in flight', ~(y \in flight /\ y # x)
      PROVE  \/ /\ y.stage \in Dispatched
                /\ At(y, r, n)
                /\ y.stage = "submit" => y.copy.cur # End
                /\ y.stage = "process" => y.copy.cur \in Service
                /\ y.stage = "distribute" => y.copy.cur = End
             \/ /\ y.stage \in {"fork", "return"}
                /\ y.stage = "fork" <=> x.stage = "fork"
                /\ y.copy = x.copy
                /\ y.todo = todo
  BY <1>1, <1>4, SubmitAndResumeFacts DEF IInv
<1>5. \A y, z \in flight' :
        /\ ~(y \in flight /\ y # x) /\ ~(z \in flight /\ z # x)
        /\ At(z, y.copy.root, y.copy.cur)
        => z = y
  <2>1. SUFFICES ASSUME NEW y \in flight', NEW z \in flight',
                        ~(y \in flight /\ y # x), ~(z \in flight /\ z # x),
                        At(z, y.copy.root, y.copy.cur)
                 PROVE  z = y
    OBVIOUS
  <2>2. y \in SubmitAndResume(x, copy, todo) /\ z \in SubmitAndResume(x, copy, todo)
    BY <2>1
  <2>3. y.stage \in Dispatched <=> z.stage \in Dispatched
    BY <1>3, <1>4, <2>1 DEF At, Dispatched
  <2>4. QED
    BY <1>1, <2>2, <2>3, SubmitAndResumeFacts DEF IInv
<1>6. OneToken'
  <2>1. \A y \in flight' : \/ y \in flight /\ y # x
                           \/ At(y, x.copy.root, x.copy.cur)
                           \/ \A w \in flight : ~At(w, y.copy.root, y.copy.cur)
    BY <1>2, <1>4 DEF At
  <2>2. OneToken
    BY DEF IInv
  <2>3. QED
    BY <1>5, <2>1, <2>2, KeepOneToken
<1>7. \A q \in Task, m \in Node : Active(q, m)' => Active(q, m) \/ (q = r /\ m = n)
  BY <1>4 DEF Active, At, Dispatched
<1>8. Monotone
  <2>1. \A y \in flight' : y.stage \in Handlers =>
          \E w \in flight : /\ w.stage \in Handlers
                            /\ At(y, w.copy.root, w.copy.cur)
                            /\ y.todo \subseteq w.todo
    <3>1. SUFFICES ASSUME NEW y \in flight', y.stage \in Handlers
                   PROVE  \E w \in flight : /\ w.stage \in Handlers
                                            /\ At(y, w.copy.root, w.copy.cur)
                                            /\ y.todo \subseteq w.todo
      OBVIOUS
    <3>2. CASE y \in flight
      BY <3>1, <3>2 DEF At
    <3>3. CASE y \notin flight
      <4>1. y.copy = x.copy /\ y.todo = todo
        BY <1>4, <3>1, <3>3 DEF Handlers, Dispatched
      <4>2. QED
        BY <4>1 DEF At
    <3>4. QED
      BY <3>2, <3>3
  <2>2. \A y \in flight' : y.stage \in Dispatched /\ y.copy.cur = Start => y \in flight
    BY <1>4 DEF At, Dispatched
  <2>3. \A q \in Task : executed'[q][Start] = 0
    BY DEF IInv, ExecutedShape
  <2>4. QED
    BY <2>1, <2>2, <2>3 DEF Monotone
<1>9. r \in generated /\ executed[r][n] = 0
  <2>1. executed[r][n] \in Nat
    BY <1>1 DEF IInv, TypeOK
  <2>2. QED
    BY <2>1 DEF Active, IInv, HandlerShape
<1>10. DispatchedShape'
  <2>1. SUFFICES ASSUME NEW z \in flight', z.stage \in Dispatched
                 PROVE  /\ z.copy.root \in generated
                        /\ executed[z.copy.root][z.copy.cur] = 0
                        /\ z.stage = "submit" => z.copy.cur # End
                        /\ z.stage = "process" => z.copy.cur \in Service
                        /\ z.stage = "distribute" => z.copy.cur = End
    BY DEF DispatchedShape
  <2>2. CASE z \in flight
    BY <2>1, <2>2 DEF IInv, DispatchedShape
  <2>3. CASE z \notin flight
    BY <1>4, <1>9, <2>1, <2>3 DEF At, Dispatched
  <2>4. QED
    BY <2>2, <2>3
<1>11. HandlerShape'
  <2>1. SUFFICES ASSUME NEW z \in flight', z.stage \in Handlers
                 PROVE  /\ z.copy.root \in generated
                        /\ z.todo \subseteq Succ(z.copy.cur)
                        /\ z.stage = "fork" <=> z.copy.cur = Start
                        /\ z.stage # "fork" => executed[z.copy.root][z.copy.cur] = 1
    BY DEF HandlerShape
  <2>2. CASE z \in flight
    BY <2>1, <2>2 DEF IInv, HandlerShape
  <2>3. CASE z \notin flight
    <3>1. /\ z.stage = "fork" <=> x.stage = "fork"
          /\ z.copy = x.copy /\ z.todo = todo
      BY <1>4, <2>1, <2>3 DEF Handlers, Dispatched
    <3>2. QED
      BY <3>1 DEF IInv, HandlerShape
  <2>4. QED
    BY <2>2, <2>3
<1>12. RetrieveShape' /\ SingleMerger'
  <2>1. \A y \in flight' : y.stage = "retrieve" => y \in flight /\ y # x
    BY <1>4 DEF Dispatched
  <2>2. \A y \in flight' : y.stage = "retrieve" =>
          (Active(y.copy.root, y.joint)' => Active(y.copy.root, y.joint))
    <3>1. SUFFICES ASSUME NEW y \in flight, y.stage = "retrieve", y # x
                   PROVE  Active(y.copy.root, y.joint)' => Active(y.copy.root, y.joint)
      BY <2>1
    <3>2. y.copy.root \in Task /\ y.joint \in Node
      BY <3>1, MergerFacts
    <3>3. QED
      BY <1>7, <3>1, <3>2
  <2>3. QED
    BY <1>8, <2>1, <2>2, KeepRetrieve
<1>13. AllEmitted(r, n)'
  <2>1. ASSUME NEW q \in Prev(n) PROVE Emitted(r, q, n)'
    <3>1. CASE Emitted(r, q, n)
      BY <1>1, <1>8, <3>1, NodeFacts, EmittedKept
    <3>2. CASE q = p
      <4>1. Left(r, p)
        BY HandlerLeft
      <4>2. Left(r, p)'
        BY <1>1, <1>7, <4>1 DEF Left
      <4>3. ~Pending(r, p, n)'
        <5>1. SUFFICES ASSUME NEW y \in flight', y.stage \in Handlers, At(y, r, p), n \in y.todo
                       PROVE  FALSE
          BY DEF Pending, At
        <5>2. CASE y \in flight /\ y # x
          BY <5>1, <5>2 DEF IInv, OneToken
        <5>3. CASE ~(y \in flight /\ y # x)
          BY <1>4, <5>1, <5>3 DEF Handlers, Dispatched
        <5>4. QED
          BY <5>2, <5>3
      <4>4. QED
        BY <3>2, <4>2, <4>3 DEF Emitted
    <3>3. QED
      BY <2>1, <3>1, <3>2
  <2>2. QED
    BY <2>1 DEF AllEmitted
<1>14. ActiveShape'
  BY <1>7, <1>8, <1>13, KeepActive
<1>15. StoreShape'
  BY <1>7, <1>8, KeepStore
<1>16. AtMostOnce' /\ ExecutedShape'
  BY DEF IInv, AtMostOnce, ExecutedShape
<1>17. QED
  BY <1>6, <1>10, <1>11, <1>12, <1>14, <1>15, <1>16 DEF IInv

\* The service after a fork, and after a return that advances, has no other
\* predecessor.
LEMMA OnlyPredecessor ==
  ASSUME IInv, NEW x \in flight, NEW n \in x.todo, SubmitNext(x, n) \/ Advance(x, n)
  PROVE  Prev(n) = {x.copy.cur} /\ Len(Dag[n].prev) = 1
<1> DEFINE p == x.copy.cur
<1>1. x.stage \in Handlers /\ n \in Node /\ p \in Prev(n)
  BY TodoNotEmitted DEF SubmitNext, Advance, Handlers
<1>2. IsFiniteSet(Prev(n)) /\ Len(Dag[n].prev) = Cardinality(Prev(n))
  BY <1>1, NodeFacts
<1>3. Cardinality({p}) = 1
  BY FS_Singleton
<1>4. CASE SubmitNext(x, n)
  <2>1. p = Start /\ n \in Succ(Start)
    BY <1>1, <1>4, NodeFacts DEF SubmitNext, IInv, HandlerShape, Handlers
  <2>2. QED
    BY <1>2, <1>3, <2>1, NodeFacts
<1>5. CASE Advance(x, n)
  <2>1. Cardinality(Prev(n)) \in Nat
    BY <1>2, FS_CardinalityType
  <2>2. Cardinality(Prev(n)) <= 1
    BY <1>2, <1>5 DEF Advance
  <2>3. Cardinality(Prev(n)) # 0
    BY <1>1, <1>2, FS_EmptySet
  <2>4. Cardinality(Prev(n)) = 1
    BY <2>1, <2>2, <2>3
  <2>5. PICK z : Prev(n) = {z}
    BY <1>2, <2>4, FS_Singleton
  <2>6. QED
    BY <1>1, <1>2, <2>4, <2>5
<1>6. QED
  BY <1>4, <1>5

\* A service with a single predecessor: its only edge is this handler's.
LEMMA ForwardStep ==
  ASSUME IInv, TypeOK', NEW x \in flight, NEW n \in x.todo,
         SubmitNext(x, n) \/ Advance(x, n)
  PROVE  IInv'
<1> DEFINE p == x.copy.cur
           copy == Fork(x.copy, n)
<1>1. /\ x.stage \in Handlers /\ x.stage \in {"fork", "return"}
      /\ flight' = (flight \ {x}) \cup SubmitAndResume(x, copy, x.todo \ {n})
      /\ UNCHANGED <<generated, executed, store>>
  BY DEF SubmitNext, Advance, Replace, Handlers
<1>2. /\ x \in Work /\ x.copy \in Copy /\ x.copy.root \in Task /\ p \in Node
      /\ n \in Node \ {Start} /\ p \in Prev(n) /\ ~Active(x.copy.root, n)
  BY <1>1, WorkFacts, TodoNotEmitted DEF IInv, TypeOK
<1>3. copy \in Copy /\ copy.root = x.copy.root /\ copy.cur = n
  BY <1>2, ForkFacts
<1>4. Prev(n) = {p} /\ Len(Dag[n].prev) = 1
  BY OnlyPredecessor
<1> HIDE DEF copy
<1>5. ~(Len(Dag[n].prev) > 1)
  BY <1>4
<1>6. store'[x.copy.root][n] = {}
  <2>1. store[x.copy.root][n] # {} => Len(Dag[n].prev) > 1
    BY <1>2 DEF IInv, StoreShape
  <2>2. QED
    BY <1>1, <1>5, <2>1
<1>7. \A y \in flight : ~(y.stage = "retrieve" /\ y.joint = n)
  <2>1. \A y \in flight : y.stage = "retrieve" => Len(Dag[y.joint].prev) > 1
    BY DEF IInv, RetrieveShape
  <2>2. QED
    BY <1>5, <2>1
<1>8. \A q \in Prev(n) : q = p
  BY <1>4
<1>9. QED
  BY <1>1, <1>2, <1>3, <1>6, <1>7, <1>8, HandOverStep

\* The merger of a joint hands over the merged task, or gives up.
LEMMA RetrieveStep ==
  ASSUME IInv, TypeOK', NEW x \in flight, Retrieve(x)
  PROVE  IInv'
<1> DEFINE r == x.copy.root
           n == x.joint
           new == Fork(x.copy, n)
<1>1. /\ x.stage = "retrieve" /\ x.stage \in Handlers
      /\ UNCHANGED <<generated, executed>>
  BY DEF Retrieve, Handlers
<1>2. /\ x \in Work /\ x.copy \in Copy /\ r \in Task /\ x.copy.cur \in Node
      /\ n \in Node \ {Start} /\ x.copy.cur \in Prev(n) /\ x.todo \subseteq Node
  BY <1>1, MergerFacts, WorkFacts
<1>3. /\ n \notin x.todo /\ ~Active(r, n)
      /\ \A p \in Prev(n) : Emitted(r, p, n)
  BY <1>1 DEF IInv, RetrieveShape, AllEmitted
<1>4. UNCHANGED store \/ store' = [store EXCEPT ![r][n] = {}]
  BY DEF Retrieve
<1>5. /\ \A q \in Task, m \in Node : store'[q][m] \subseteq store[q][m]
      /\ store' = [store EXCEPT ![r][n] = {}] => store'[r][n] = {}
  <2>1. store \in [Task -> [Node -> SUBSET Copy]]
    BY DEF IInv, TypeOK
  <2>2. \A q \in Task, m \in Node :
          [store EXCEPT ![r][n] = {}][q][m] = IF q = r /\ m = n THEN {} ELSE store[q][m]
    BY <1>2, <2>1, TableUpdate
  <2>3. CASE store' = [store EXCEPT ![r][n] = {}]
    <3>1. \A q \in Task, m \in Node :
            store'[q][m] = IF q = r /\ m = n THEN {} ELSE store[q][m]
      BY <2>2, <2>3
    <3>2. QED
      BY <1>2, <3>1
  <2>4. CASE UNCHANGED store /\ store' # [store EXCEPT ![r][n] = {}]
    BY <2>4
  <2>5. QED
    BY <1>4, <2>3, <2>4
<1>6. CASE Replace(x, Resume(x, x.todo))
  BY <1>1, <1>5, <1>6, CarryOnStep DEF Replace
<1>7. CASE Replace(x, {})
  <2>1. flight' \subseteq flight
    BY <1>7 DEF Replace
  <2>2. QED
    BY <1>1, <1>5, <2>1, ShrinkStep
<1>8. ASSUME NEW order,
             Replace(x, SubmitAndResume(x,
                [new EXCEPT !.done = MergedDone(new, order)], x.todo)),
             store' = [store EXCEPT ![r][n] = {}]
      PROVE  IInv'
  <2> DEFINE copy == [new EXCEPT !.done = MergedDone(new, order)]
  <2>1. copy \in Copy /\ copy.root = r /\ copy.cur = n
    <3>1. new \in Copy /\ new.root = r /\ new.cur = n
      BY <1>2, ForkFacts
    <3> HIDE DEF new
    <3>2. QED
      BY <3>1, MergedFacts
  <2>2. \A y \in flight : y.stage = "retrieve" /\ y.copy.root = r /\ y.joint = n => y = x
    BY <1>1 DEF IInv, SingleMerger
  <2>3. flight' = (flight \ {x}) \cup SubmitAndResume(x, copy, x.todo)
    BY <1>8 DEF Replace
  <2>4. store'[r][n] = {}
    BY <1>5, <1>8
  <2> HIDE DEF copy
  <2>5. QED
    BY <1>1, <1>2, <1>3, <1>5, <2>1, <2>2, <2>3, <2>4, HandOverStep
<1>9. QED
  BY <1>6, <1>7, <1>8 DEF Retrieve

\* When the branches stored for n are as many as its predecessors, every
\* predecessor has stored one.
LEMMA AllStored ==
  ASSUME NEW S, NEW n \in Node,
         \A c \in S : c.past \in Prev(n),
         \A c, d \in S : c.past = d.past => c = d,
         Cardinality(S) = Len(Dag[n].prev)
  PROVE  \A p \in Prev(n) : \E c \in S : c.past = p
<1> DEFINE f == [c \in S |-> c.past]
<1>1. IsFiniteSet(Prev(n)) /\ Cardinality(S) = Cardinality(Prev(n))
  BY NodeFacts
<1>2. f \in Injection(S, Prev(n))
  BY DEF Injection, IsInjective
<1>3. f \in Surjection(S, Prev(n))
  BY <1>1, <1>2, FS_Injection
<1>4. QED
  BY <1>3 DEF Surjection

\* A branch is stored: the handler goes on, or merges when it was the last.
LEMMA StoredStep ==
  ASSUME IInv, TypeOK', NEW x \in flight, x.stage = "return", NEW n \in x.todo,
         Len(Dag[n].prev) > 1,
         store' = [store EXCEPT ![x.copy.root][n] = @ \cup {Fork(x.copy, n)}],
         UNCHANGED <<generated, executed>>,
         \/ flight' = (flight \ {x}) \cup Resume(x, x.todo \ {n})
         \/ /\ flight' = (flight \ {x}) \cup
                 {[x EXCEPT !.stage = "retrieve", !.todo = @ \ {n}, !.joint = n]}
            /\ Cardinality(store'[x.copy.root][n]) = Len(Dag[n].prev)
  PROVE  IInv'
<1> DEFINE r == x.copy.root
           p == x.copy.cur
           c == Fork(x.copy, n)
           complete == Cardinality(store'[r][n]) = Len(Dag[n].prev)
<1>1. /\ x \in Work /\ x.copy \in Copy /\ r \in Task /\ p \in Node /\ x.todo \subseteq Node
      /\ x.stage \in Handlers /\ x.stage \notin Dispatched
  BY WorkFacts DEF IInv, TypeOK, Handlers
<1>2. /\ n \in Node \ {Start} /\ p \in Prev(n) /\ ~Active(r, n) /\ ~AllEmitted(r, n)
      /\ ~Emitted(r, p, n)
  BY <1>1, TodoNotEmitted
<1>3. c.past = p
  BY <1>1, <1>2, ForkFacts
<1>4. \A q \in Task, m \in Node :
        store'[q][m] = IF q = r /\ m = n THEN store[r][n] \cup {c} ELSE store[q][m]
  <2>1. c \in Copy
    BY <1>1, <1>2, ForkFacts
  <2>2. store \in [Task -> [Node -> SUBSET Copy]]
    BY DEF IInv, TypeOK
  <2> HIDE DEF c
  <2>3. store[r][n] \cup {c} \in SUBSET Copy
    BY <1>1, <1>2, <2>1, <2>2
  <2>4. \A q \in Task, m \in Node :
          [store EXCEPT ![r][n] = store[r][n] \cup {c}][q][m]
             = IF q = r /\ m = n THEN store[r][n] \cup {c} ELSE store[q][m]
    BY <1>1, <1>2, <2>2, <2>3, TableUpdate
  <2>5. QED
    BY <2>4 DEF c
<1>5. ASSUME NEW y \in flight', ~(y \in flight /\ y # x)
      PROVE  /\ y.stage \in {"return", "retrieve"}
             /\ y.copy = x.copy
             /\ y.todo = x.todo \ {n}
             /\ y.stage = "retrieve" => y.joint = n /\ complete
             /\ \A z \in flight' : ~(z \in flight /\ z # x) => z = y
  <2>1. CASE flight' = (flight \ {x}) \cup Resume(x, x.todo \ {n})
    BY <1>1, <1>5, <2>1, ResumeFacts
  <2>2. CASE /\ flight' = (flight \ {x}) \cup
                  {[x EXCEPT !.stage = "retrieve", !.todo = @ \ {n}, !.joint = n]}
             /\ complete
    BY <1>1, <1>5, <2>2 DEF Work
  <2>3. QED
    BY <2>1, <2>2
<1>6. OneToken'
  <2>1. /\ \A y \in flight' : (y \in flight /\ y # x) \/ At(y, r, p)
        /\ \A y, z \in flight' :
             ~(y \in flight /\ y # x) /\ ~(z \in flight /\ z # x) => z = y
    BY <1>5 DEF At
  <2>2. OneToken
    BY DEF IInv
  <2>3. QED
    BY <2>1, <2>2, KeepOneToken
<1>7. \A q \in Task, m \in Node : Active(q, m)' => Active(q, m)
  BY <1>5 DEF Active, Dispatched
<1>8. Monotone
  <2>1. \A y \in flight' : y.stage \in Handlers =>
          \E w \in flight : /\ w.stage \in Handlers
                            /\ At(y, w.copy.root, w.copy.cur)
                            /\ y.todo \subseteq w.todo
    <3>1. SUFFICES ASSUME NEW y \in flight', y.stage \in Handlers
                   PROVE  \E w \in flight : /\ w.stage \in Handlers
                                            /\ At(y, w.copy.root, w.copy.cur)
                                            /\ y.todo \subseteq w.todo
      OBVIOUS
    <3>2. CASE y \in flight
      BY <3>1, <3>2 DEF At
    <3>3. CASE y \notin flight
      BY <1>1, <1>5, <3>3 DEF At
    <3>4. QED
      BY <3>2, <3>3
  <2>2. \A y \in flight' : y.stage \in Dispatched => y \in flight
    BY <1>5 DEF Dispatched
  <2>3. \A q \in Task : executed'[q][Start] = 0
    BY DEF IInv, ExecutedShape
  <2>4. QED
    BY <2>1, <2>2, <2>3 DEF Monotone
<1>9. DispatchedShape'
  BY <1>5 DEF IInv, DispatchedShape, Dispatched
<1>10. HandlerShape'
  <2>1. SUFFICES ASSUME NEW z \in flight', z.stage \in Handlers
                 PROVE  /\ z.copy.root \in generated
                        /\ z.todo \subseteq Succ(z.copy.cur)
                        /\ z.stage = "fork" <=> z.copy.cur = Start
                        /\ z.stage # "fork" => executed[z.copy.root][z.copy.cur] = 1
    BY DEF HandlerShape
  <2>2. CASE z \in flight
    BY <2>1, <2>2 DEF IInv, HandlerShape
  <2>3. CASE z \notin flight
    BY <1>1, <1>5, <2>3 DEF IInv, HandlerShape
  <2>4. QED
    BY <2>2, <2>3
<1>11. Emitted(r, p, n)'
  <2>1. Left(r, p)
    BY <1>1, HandlerLeft
  <2>2. Left(r, p)'
    BY <1>1, <1>7, <2>1, NodeFacts DEF Left
  <2>3. ~Pending(r, p, n)'
    <3>1. SUFFICES ASSUME NEW y \in flight', y.stage \in Handlers, At(y, r, p), n \in y.todo
                   PROVE  FALSE
      BY DEF Pending, At
    <3>2. CASE y \in flight /\ y # x
      BY <3>1, <3>2 DEF IInv, OneToken
    <3>3. CASE ~(y \in flight /\ y # x)
      BY <1>5, <3>1, <3>3
    <3>4. QED
      BY <3>2, <3>3
  <2>4. QED
    BY <2>2, <2>3 DEF Emitted
<1>12. \A q \in Task, m \in Node :
         /\ \A b \in store'[q][m] : b.past \in Prev(m) /\ Emitted(q, b.past, m)'
         /\ \A b, d \in store'[q][m] : b.past = d.past => b = d
         /\ store'[q][m] # {} => Len(Dag[m].prev) > 1 /\ ~Active(q, m)'
  <2>1. SUFFICES ASSUME NEW q \in Task, NEW m \in Node
                 PROVE  /\ \A b \in store'[q][m] : b.past \in Prev(m) /\ Emitted(q, b.past, m)'
                        /\ \A b, d \in store'[q][m] : b.past = d.past => b = d
                        /\ store'[q][m] # {} => Len(Dag[m].prev) > 1 /\ ~Active(q, m)'
    OBVIOUS
  <2>2. /\ \A b \in store[q][m] : b.past \in Prev(m) /\ Emitted(q, b.past, m)
        /\ \A b, d \in store[q][m] : b.past = d.past => b = d
        /\ store[q][m] # {} => Len(Dag[m].prev) > 1 /\ ~Active(q, m)
    BY DEF IInv, StoreShape
  <2>3. \A b \in store[q][m] : Emitted(q, b.past, m)'
    BY <1>8, <2>2, NodeFacts, EmittedKept
  <2> HIDE DEF c
  <2>4. CASE q = r /\ m = n
    <3>1. store'[q][m] = store[q][m] \cup {c}
      BY <1>4, <2>4
    <3>2. \A b \in store[q][m] : b.past # p
      BY <1>2, <2>2, <2>4
    <3>3. QED
      BY <1>2, <1>3, <1>7, <1>11, <2>2, <2>3, <2>4, <3>1, <3>2
  <2>5. CASE ~(q = r /\ m = n)
    <3>1. store'[q][m] = store[q][m]
      BY <1>4, <2>5
    <3>2. QED
      BY <1>7, <2>2, <2>3, <3>1
  <2>6. QED
    BY <2>4, <2>5
<1>13. complete => AllEmitted(r, n)'
  <2>1. SUFFICES ASSUME complete, NEW q \in Prev(n)
                 PROVE  Emitted(r, q, n)'
    BY DEF AllEmitted
  <2>2. /\ \A b \in store'[r][n] : b.past \in Prev(n) /\ Emitted(r, b.past, n)'
        /\ \A b, d \in store'[r][n] : b.past = d.past => b = d
    BY <1>1, <1>2, <1>12
  <2>3. PICK b \in store'[r][n] : b.past = q
    BY <1>2, <2>1, <2>2, AllStored
  <2>4. QED
    BY <2>2, <2>3
<1>14. RetrieveShape' /\ SingleMerger'
  <2>1. ASSUME NEW y \in flight, y.stage = "retrieve"
        PROVE  /\ AllEmitted(y.copy.root, y.joint)
               /\ <<y.copy.root, y.joint>> # <<r, n>>
    <3>1. AllEmitted(y.copy.root, y.joint)
      BY <2>1 DEF IInv, RetrieveShape
    <3>2. QED
      BY <1>2, <3>1
  <2>2. ASSUME NEW y \in flight', y.stage = "retrieve"
        PROVE  /\ y.joint \in Succ(y.copy.cur) \ y.todo
               /\ Len(Dag[y.joint].prev) > 1
               /\ AllEmitted(y.copy.root, y.joint)'
               /\ ~Active(y.copy.root, y.joint)'
    <3>1. CASE y \in flight /\ y # x
      <4>1. /\ y.joint \in Succ(y.copy.cur) \ y.todo
            /\ Len(Dag[y.joint].prev) > 1
            /\ AllEmitted(y.copy.root, y.joint)
            /\ ~Active(y.copy.root, y.joint)
        BY <2>2, <3>1 DEF IInv, RetrieveShape
      <4>2. y.copy.root \in Task /\ y.joint \in Node
        BY <2>2, <3>1, MergerFacts
      <4>3. \A q \in Prev(y.joint) : Emitted(y.copy.root, q, y.joint)'
        BY <1>8, <4>1, <4>2, NodeFacts, EmittedKept DEF AllEmitted
      <4>4. QED
        BY <1>7, <4>1, <4>2, <4>3 DEF AllEmitted
    <3>2. CASE ~(y \in flight /\ y # x)
      <4>1. y.copy = x.copy /\ y.todo = x.todo \ {n} /\ y.joint = n /\ complete
        BY <1>5, <2>2, <3>2
      <4>2. n \in Succ(p)
        BY <1>1, <1>2, NodeFacts
      <4>3. QED
        BY <1>1, <1>2, <1>7, <1>13, <4>1, <4>2
    <3>3. QED
      BY <3>1, <3>2
  <2>3. ASSUME NEW y \in flight', NEW z \in flight',
               y.stage = "retrieve", z.stage = "retrieve",
               y.copy.root = z.copy.root, y.joint = z.joint
        PROVE  y = z
    <3>1. CASE y \in flight /\ y # x /\ z \in flight /\ z # x
      BY <2>3, <3>1 DEF IInv, SingleMerger
    <3>2. CASE y \in flight /\ y # x /\ ~(z \in flight /\ z # x)
      BY <1>5, <2>1, <2>3, <3>2
    <3>3. CASE ~(y \in flight /\ y # x) /\ z \in flight /\ z # x
      BY <1>5, <2>1, <2>3, <3>3
    <3>4. CASE ~(y \in flight /\ y # x) /\ ~(z \in flight /\ z # x)
      BY <1>5, <3>4
    <3>5. QED
      BY <3>1, <3>2, <3>3, <3>4
  <2>4. RetrieveShape'
    BY <2>2 DEF RetrieveShape
  <2>5. SingleMerger'
    BY <2>3 DEF SingleMerger
  <2>6. QED
    BY <2>4, <2>5
<1>15. ActiveShape'
  BY <1>7, <1>8, KeepActive
<1>16. StoreShape'
  BY <1>12 DEF StoreShape
<1>17. AtMostOnce' /\ ExecutedShape'
  BY DEF IInv, AtMostOnce, ExecutedShape
<1>18. QED
  BY <1>6, <1>9, <1>10, <1>14, <1>15, <1>16, <1>17 DEF IInv

\* A branch that is stored keeps it.
LEMMA StoreBranchStep ==
  ASSUME IInv, TypeOK', NEW x \in flight, NEW n \in x.todo, StoreBranch(x, n)
  PROVE  IInv'
BY StoredStep DEF StoreBranch, Replace

\* A branch Redis loses keeps it.
LEMMA StoreFailsStep ==
  ASSUME IInv, TypeOK', NEW x \in flight, NEW n \in x.todo, StoreFails(x, n)
  PROVE  IInv'
<1>1. /\ x.stage = "return" /\ x.stage \in Handlers /\ Len(Dag[n].prev) > 1
      /\ flight' = (flight \ {x}) \cup Resume(x, x.todo \ {n})
      /\ UNCHANGED <<generated, executed>>
  BY DEF StoreFails, Replace, Handlers
<1>2. CASE UNCHANGED store
  BY <1>1, <1>2, CarryOnStep
<1>3. CASE store' = [store EXCEPT ![x.copy.root][n] = @ \cup {Fork(x.copy, n)}]
  BY <1>1, <1>3, StoredStep
<1>4. QED
  BY <1>2, <1>3 DEF StoreFails

\* Clearing the hash of a joint only takes branches out of the store.
LEMMA ClearFacts ==
  ASSUME TypeOK, NEW r \in Task, NEW n \in Node,
         UNCHANGED store \/ store' = [store EXCEPT ![r][n] = {}]
  PROVE  \A q \in Task, m \in Node : store'[q][m] \subseteq store[q][m]
<1>1. CASE UNCHANGED store
  BY <1>1
<1>2. CASE store' = [store EXCEPT ![r][n] = {}]
  <2>1. \A q \in Task, m \in Node :
          [store EXCEPT ![r][n] = {}][q][m] = IF q = r /\ m = n THEN {} ELSE store[q][m]
    BY TableUpdate DEF TypeOK
  <2>2. \A q \in Task, m \in Node :
          store'[q][m] = IF q = r /\ m = n THEN {} ELSE store[q][m]
    BY <1>2, <2>1
  <2>3. QED
    BY <2>2
<1>3. QED
  BY <1>1, <1>2

\* A joint whose hash cannot be read keeps it.
LEMMA RetrieveFailsStep ==
  ASSUME IInv, TypeOK', NEW x \in flight, RetrieveFails(x)
  PROVE  IInv'
<1>1. /\ x.stage = "retrieve" /\ x.stage \in Handlers
      /\ flight' = (flight \ {x}) \cup Resume(x, x.todo)
      /\ UNCHANGED <<generated, executed>>
      /\ UNCHANGED store \/ store' = [store EXCEPT ![x.copy.root][x.joint] = {}]
  BY DEF RetrieveFails, Replace, Handlers
<1>2. \A q \in Task, m \in Node : store'[q][m] \subseteq store[q][m]
  BY <1>1, MergerFacts, ClearFacts DEF IInv
<1>3. QED
  BY <1>1, <1>2, CarryOnStep

\* Every step keeps the invariant.
LEMMA StepInv == IInv /\ [Next]_vars => IInv'
<1> SUFFICES ASSUME IInv, [Next]_vars PROVE IInv'
  OBVIOUS
<1>1. TypeOK'
  BY StepType DEF IInv
<1>2. ASSUME NEW x \in flight, Record(x) \/ Drop(x) PROVE IInv'
  <2>1. flight' \subseteq flight /\ UNCHANGED <<generated, executed, store>>
    BY <1>2 DEF Record, Drop, Replace
  <2>2. QED
    BY <1>1, <2>1, ShrinkStep
<1>3. ASSUME NEW r \in Task, NEW n \in Node, Expire(r, n) PROVE IInv'
  <2>1. UNCHANGED <<flight, generated, executed>> /\ store' = [store EXCEPT ![r][n] = {}]
    BY <1>3 DEF Expire
  <2>2. \A q \in Task, m \in Node : store'[q][m] \subseteq store[q][m]
    BY <2>1, ClearFacts DEF IInv
  <2>3. QED
    BY <1>1, <2>1, <2>2, ShrinkStep
<1>4. ASSUME NEW d \in Device, NEW r \in Task, LoseFile(d, r) PROVE IInv'
  BY <1>1, <1>4, ShrinkStep DEF LoseFile
<1>5. ASSUME NEW d \in Device, NEW n \in Service, ClearQueue(d, n) PROVE IInv'
  <2>1. flight' \subseteq flight /\ UNCHANGED <<generated, executed, store>>
    BY <1>5 DEF ClearQueue
  <2>2. QED
    BY <1>1, <2>1, ShrinkStep
<1>6. CASE UNCHANGED vars
  BY <1>1, <1>6, ShrinkStep DEF vars
<1>7. QED
  BY <1>1, <1>2, <1>3, <1>4, <1>5, <1>6, GenerateStep, ReceiveStep, ForwardStep,
     ProcessStep, StoreBranchStep, RetrieveStep, StoreFailsStep, RetrieveFailsStep
     DEF Next, Progress, Failure

-----------------------------------------------------------------------------
(* The theorems.                                                           *)

\* IInv is an invariant: every reachable state of the task flow satisfies it.
THEOREM Invariance == Spec => []IInv
<1>1. Init => IInv
  BY InitInv
<1>2. IInv /\ [Next]_vars => IInv'
  BY StepInv
<1>3. QED
  BY <1>1, <1>2, PTL DEF Spec

\* Type correctness: every request, stored branch and record that the
\* controllers, processors and the distributor produce is well formed.
THEOREM TypeCorrect == Spec => []TypeOK
<1>1. IInv => TypeOK
  BY DEF IInv
<1>2. QED
  BY <1>1, Invariance, PTL

\* However requests are lost and branches meet, no service works on a task
\* twice (process_return, controller.py:233-272).
THEOREM WorkAtMostOnce == Spec => []AtMostOnce
<1>1. IInv => AtMostOnce
  BY DEF IInv
<1>2. QED
  BY <1>1, Invariance, PTL

\* The Redis count elects at most one merger for a joint of a task
\* (task_coordinator.py:22-38).
THEOREM OneMerger == Spec => []SingleMerger
<1>1. IInv => SingleMerger
  BY DEF IInv
<1>2. QED
  BY <1>1, Invariance, PTL

\* An edge is only emitted by a predecessor that has worked on the task.
LEMMA EmittedRan ==
  ASSUME NEW r, NEW p, NEW n, Emitted(r, p, n), p # Start
  PROVE  Ran(r, p)
BY DEF Emitted, Left, Ran

\* A service is only handed a task all its predecessors have worked on, even
\* when branches are lost or expire at a joint.
THEOREM InOrder == Spec => []Precedence
<1>1. IInv => Precedence
  <2> SUFFICES ASSUME IInv, NEW x \in flight, x.stage \in Dispatched, x.copy.cur # Start,
                      NEW p \in Prev(x.copy.cur) \ {Start}
               PROVE  Ran(x.copy.root, p)
    BY DEF Precedence
  <2>1. x.copy.root \in Task /\ x.copy.cur \in Node \ {Start}
    BY WorkFacts DEF IInv, TypeOK
  <2>2. Active(x.copy.root, x.copy.cur)
    BY DEF Active, At
  <2>3. Emitted(x.copy.root, p, x.copy.cur)
    BY <2>1, <2>2 DEF IInv, ActiveShape, AllEmitted
  <2>4. QED
    BY <2>3, EmittedRan
<1>2. QED
  BY <1>1, Invariance, PTL

\* Once a joint has been handed the merged task, Redis holds no branch of it
\* (task_coordinator.py:40-103).
THEOREM NothingLeftBehind == Spec => []NoOrphanBranch
<1>1. IInv => NoOrphanBranch
  <2> SUFFICES ASSUME IInv, NEW r \in Task, NEW n \in Node, store[r][n] # {}
               PROVE  /\ ~Ran(r, n)
                      /\ \A x \in flight :
                           x.stage \in Dispatched => <<x.copy.root, x.copy.cur>> # <<r, n>>
    BY DEF NoOrphanBranch
  <2>1. ~Active(r, n)
    BY DEF IInv, StoreShape
  <2>2. QED
    BY <2>1 DEF Active, Ran, At
<1>2. QED
  BY <1>1, Invariance, PTL

-----------------------------------------------------------------------------
(* TaskFlow implements DagExecution.                                       *)

\* At first no service has run and nothing is recorded.
LEMMA RefinesInit == Init => Abstract!Init
<1> SUFFICES ASSUME Init PROVE Abstract!Init
  OBVIOUS
<1>1. \A r \in Task, n \in Node : ~Ran(r, n)
  BY DEF Init, Ran
<1>2. ranBar = [r \in Task |-> {}]
  BY <1>1 DEF ranBar
<1>3. recordedBar = {}
  BY DEF Init, recordedBar
<1>4. QED
  BY <1>2, <1>3 DEF Abstract!Init

\* A processor that works on a copy runs its service.
LEMMA RefinesRun ==
  ASSUME IInv, NEW x \in flight, Process(x)
  PROVE  \/ Abstract!Run(x.copy.root, x.copy.cur)
         \/ UNCHANGED <<ranBar, recordedBar>>
<1> DEFINE r == x.copy.root
           n == x.copy.cur
<1>1. /\ r \in Task /\ n \in Node /\ x.stage \in Dispatched
      /\ n \in Service /\ executed[r][n] = 0
  BY WorkFacts DEF IInv, TypeOK, DispatchedShape, Process, Dispatched
<1>2. UNCHANGED recordedBar
  BY DEF Process, recordedBar
<1>3. CASE executed' = [executed EXCEPT ![r][n] = executed[r][n] + 1]
  <2>1. \A q \in Task, m \in Node :
          executed'[q][m] = IF q = r /\ m = n THEN 1 ELSE executed[q][m]
    <3>1. executed \in [Task -> [Node -> Nat]] /\ executed[r][n] + 1 = 1
      BY <1>1 DEF IInv, TypeOK
    <3>2. QED
      BY <1>1, <1>3, <3>1, TableUpdate
  <2>2. \A q \in Task, m \in Node : Ran(q, m)' <=> Ran(q, m) \/ (q = r /\ m = n)
    BY <2>1 DEF Ran
  <2>3. ranBar' = [ranBar EXCEPT ![r] = @ \cup {n}]
    <3>1. ranBar' = [q \in Task |-> {m \in Node : Ran(q, m)'}]
      BY DEF ranBar
    <3>2. \A q \in Task : {m \in Node : Ran(q, m)'} =
            IF q = r THEN ranBar[q] \cup {n} ELSE ranBar[q]
      BY <1>1, <2>2 DEF ranBar
    <3>3. ranBar = [q \in Task |-> ranBar[q]]
      BY DEF ranBar
    <3>4. QED
      BY <3>1, <3>2, <3>3
  <2>4. n \notin ranBar[r]
    BY <1>1 DEF ranBar, Ran
  <2>5. Prev(n) \ {Start} \subseteq ranBar[r]
    <3>1. Active(r, n)
      BY <1>1 DEF Active, At
    <3>2. AllEmitted(r, n)
      BY <1>1, <3>1, NodeFacts DEF IInv, ActiveShape
    <3>3. \A p \in Prev(n) \ {Start} : Ran(r, p)
      BY <3>2, EmittedRan DEF AllEmitted
    <3>4. QED
      BY <1>1, <3>3, NodeFacts DEF ranBar
  <2>6. QED
    BY <1>1, <1>2, <2>3, <2>4, <2>5 DEF Abstract!Run
<1>4. CASE UNCHANGED executed
  BY <1>2, <1>4 DEF ranBar, Ran
<1>5. QED
  BY <1>3, <1>4 DEF Process

\* A result that gets a row of the table finishes its task.
LEMMA RefinesFinish ==
  ASSUME IInv, NEW x \in flight, Record(x)
  PROVE  \/ Abstract!Finish(x.copy.root)
         \/ UNCHANGED <<ranBar, recordedBar>>
<1> DEFINE r == x.copy.root
<1>1. /\ r \in Task /\ x.stage \in Dispatched /\ x.copy.cur = End
  BY WorkFacts DEF IInv, TypeOK, DispatchedShape, Record, Dispatched
<1>2. UNCHANGED ranBar
  BY DEF Record, ranBar, Ran
<1>3. CASE \E row \in records : row.root = r
  BY <1>2, <1>3 DEF Record, recordedBar
<1>4. CASE ~\E row \in records : row.root = r
  <2>1. records' = records \cup {[root |-> r, done |-> x.copy.done]}
    BY <1>4 DEF Record
  <2>2. recordedBar' = recordedBar \cup {r} /\ r \notin recordedBar
    <3> DEFINE new == [root |-> r, done |-> x.copy.done]
    <3>1. new.root = r
      OBVIOUS
    <3> HIDE DEF new
    <3>2. records' = records \cup {new}
      BY <2>1 DEF new
    <3>3. QED
      BY <1>4, <3>1, <3>2 DEF recordedBar
  <2>3. Prev(End) \ {Start} \subseteq ranBar[r]
    <3>1. Active(r, End)
      BY <1>1 DEF Active, At
    <3>2. AllEmitted(r, End)
      BY <1>1, <3>1, NodeFacts DEF IInv, ActiveShape
    <3>3. \A p \in Prev(End) \ {Start} : Ran(r, p)
      BY <3>2, EmittedRan DEF AllEmitted
    <3>4. QED
      BY <1>1, <3>3, NodeFacts DEF ranBar
  <2>4. QED
    BY <1>2, <2>2, <2>3 DEF Abstract!Finish
<1>5. QED
  BY <1>3, <1>4

\* Every step of the traffic is one of the promise, or changes nothing of it.
LEMMA RefinesStep == IInv /\ [Next]_vars => [Abstract!Next]_(Abstract!vars)
<1> SUFFICES ASSUME IInv, [Next]_vars
             PROVE  Abstract!Next \/ UNCHANGED <<ranBar, recordedBar>>
  BY DEF Abstract!vars
<1>1. ASSUME NEW x \in flight, Process(x)
      PROVE  Abstract!Next \/ UNCHANGED <<ranBar, recordedBar>>
  <2>1. x.copy.root \in Task /\ x.copy.cur \in Service
    BY <1>1, WorkFacts DEF IInv, TypeOK, DispatchedShape, Process, Dispatched
  <2>2. QED
    BY <1>1, <2>1, RefinesRun DEF Abstract!Next
<1>2. ASSUME NEW x \in flight, Record(x)
      PROVE  Abstract!Next \/ UNCHANGED <<ranBar, recordedBar>>
  <2>1. x.copy.root \in Task
    BY WorkFacts DEF IInv, TypeOK
  <2>2. QED
    BY <1>2, <2>1, RefinesFinish DEF Abstract!Next
<1>3. CASE UNCHANGED <<executed, records>>
  BY <1>3 DEF ranBar, recordedBar, Ran
<1>4. QED
  BY <1>1, <1>2, <1>3 DEF Next, Progress, Failure, Generate, ReceiveTask, SubmitNext,
     Advance, StoreBranch, Retrieve, Drop, StoreFails, RetrieveFails, Expire,
     LoseFile, ClearQueue, vars

\* Whatever faults strike, dayu executes DAGs: services work in dependency
\* order, each once, and a result is recorded once, after the last services.
THEOREM Refinement == Spec => ImplementsDagExecution
<1>1. Init => Abstract!Init
  BY RefinesInit
<1>2. IInv /\ [Next]_vars => [Abstract!Next]_(Abstract!vars)
  BY RefinesStep
<1>3. QED
  BY <1>1, <1>2, Invariance, PTL DEF Spec, ImplementsDagExecution, Abstract!Spec

-----------------------------------------------------------------------------
(* The DAG.                                                                 *)

\* The DAG of a task is one the closures of ServiceDag are known of.
LEMMA DagFacts ==
  /\ Upward(Dag) /\ Acyclic(Dag) /\ Node = Nodes(Dag)
  /\ \A n \in Node : Prev(n) = PrevNodes(Dag, n)
BY NodeFacts, DagAssumption, AcyclicAssumption DEF DagAssumption, Upward, Acyclic, Node, Prev

\* Of any nodes, one has no predecessor among them, and one no successor.
LEMMA FirstOf ==
  ASSUME NEW G \in SUBSET Node, G # {}
  PROVE  \E n \in G : Prev(n) \cap G = {}
BY DagFacts, FirstNode

\* Of any nodes, one has no successor among them.
LEMMA LastOf ==
  ASSUME NEW G \in SUBSET Node, G # {}
  PROVE  \E n \in G : Succ(n) \cap G = {}
<1>1. PICK n \in G : \A m \in G : n \notin PrevNodes(Dag, m)
  BY DagFacts, LastNode
<1> QED
  BY <1>1, DagFacts, NodeFacts

\* Everything upstream of a service, the service aside, is upstream of one of
\* its predecessors.
LEMMA UpstreamFacts ==
  ASSUME NEW n \in Node
  PROVE  /\ n \in Ancestors(Dag, n) /\ Ancestors(Dag, n) \subseteq Node
         /\ \A a \in Ancestors(Dag, n) : Prev(a) \subseteq Ancestors(Dag, n)
         /\ Ancestors(Dag, n) \ {Start} \subseteq Upstream(n) \cup {n}
         /\ \A a \in Upstream(n) :
              a # Start /\ \E p \in Prev(n) : a \in Ancestors(Dag, p)
<1>1. /\ n \in Ancestors(Dag, n) /\ Ancestors(Dag, n) \subseteq Node
      /\ \A a \in Ancestors(Dag, n) : PrevNodes(Dag, a) \subseteq Ancestors(Dag, n)
  BY DagFacts, AncestorsClosure
<1>2. ASSUME NEW a \in Upstream(n) PROVE \E p \in Prev(n) : a \in Ancestors(Dag, p)
  <2>1. a \in Ancestors(Dag, n) /\ a # n
    BY DEF Upstream
  <2> QED
    BY <2>1, DagFacts, AncestorsStep
<1>3. \A a \in Ancestors(Dag, n) : Prev(a) \subseteq Ancestors(Dag, n)
  BY <1>1, DagFacts
<1> QED
  BY <1>1, <1>2, <1>3 DEF Upstream

\* Nothing is upstream of START, every service is upstream of END.
LEMMA Ends ==
  /\ Ancestors(Dag, Start) = {Start}
  /\ Upstream(End) = Service
<1>1. Ancestors(Dag, Start) = {Start}
  <2>1. Upstream(Start) = {}
    BY NodeFacts, UpstreamFacts
  <2> QED
    BY <2>1, NodeFacts, UpstreamFacts
<1>2. Service \subseteq Ancestors(Dag, End)
  <2> DEFINE G == Node \ Ancestors(Dag, End)
  <2>1. SUFFICES ASSUME G # {} PROVE FALSE
    BY DEF Service
  <2>2. PICK n \in G : Succ(n) \cap G = {}
    BY <2>1, LastOf
  <2>3. n # End /\ n \in Node
    BY <2>2, NodeFacts, UpstreamFacts
  <2>4. PICK m \in Succ(n) : m \in Ancestors(Dag, End)
    BY <2>2, <2>3, DagAssumption
  <2>5. n \in Prev(m)
    BY <2>3, <2>4, NodeFacts
  <2>6. n \in Ancestors(Dag, End)
    BY <2>4, <2>5, NodeFacts, UpstreamFacts
  <2> QED
    BY <2>2, <2>6
<1>3. Ancestors(Dag, End) \subseteq Node
  BY NodeFacts, UpstreamFacts
<1> QED
  BY <1>1, <1>2, <1>3 DEF Upstream, Service

-----------------------------------------------------------------------------
(* A recorded result is the work of every service.                         *)

Recorded(r) == \E row \in records : row.root = r

RecordsRan ==
  \A row \in records : \A n \in Service : executed[row.root][n] = 1

\* A result on its way to the distributor has been through every service.
LEMMA AllRan ==
  ASSUME IInv, NEW r \in Task, Active(r, End)
  PROVE  \A n \in Service : executed[r][n] > 0
<1> DEFINE G == {n \in Service : ~(executed[r][n] > 0)}
<1>1. SUFFICES ASSUME G # {} PROVE FALSE
  OBVIOUS
<1>2. PICK n \in G : Succ(n) \cap G = {}
  BY <1>1, NodeFacts, LastOf
<1>3. n \in Node /\ n # Start /\ n # End
  BY <1>2, NodeFacts
<1>4. PICK m \in Succ(n) : m \in Node /\ m # Start /\ n \in Prev(m)
  BY <1>3, DagAssumption, NextFacts
<1>5. Active(r, m)
  <2>1. CASE m = End
    BY <2>1
  <2>2. CASE m # End
    <3>1. m \in Service /\ m \notin G
      BY <1>2, <1>4, <2>2, NodeFacts
    <3> QED
      BY <3>1 DEF Active
  <2> QED
    BY <2>1, <2>2
<1>6. Emitted(r, n, m)
  BY <1>4, <1>5 DEF IInv, ActiveShape, AllEmitted
<1> QED
  BY <1>2, <1>3, <1>6 DEF Emitted, Left

\* A service that has worked on a task has done so once.
LEMMA RunOnce ==
  ASSUME IInv, NEW r \in Task, NEW n \in Node, executed[r][n] > 0
  PROVE  executed[r][n] = 1
BY DEF IInv, TypeOK, AtMostOnce

\* What a service has done stays done.
LEMMA ExecutedKept ==
  ASSUME IInv, [Next]_vars, NEW r \in Task, NEW n \in Node, executed[r][n] > 0
  PROVE  executed'[r][n] > 0
<1>1. CASE UNCHANGED executed
  BY <1>1
<1>2. ASSUME NEW x \in flight, executed' = [executed EXCEPT ![x.copy.root][x.copy.cur] = @ + 1]
      PROVE  executed'[r][n] > 0
  <2>1. executed \in [Task -> [Node -> Nat]] /\ x.copy.root \in Task /\ x.copy.cur \in Node
    BY WorkFacts DEF IInv, TypeOK
  <2>2. executed[x.copy.root][x.copy.cur] + 1 \in Nat
    BY <2>1
  <2>3. executed'[r][n] = IF r = x.copy.root /\ n = x.copy.cur
                          THEN executed[x.copy.root][x.copy.cur] + 1 ELSE executed[r][n]
    BY <1>2, <2>1, <2>2, TableUpdate
  <2> QED
    BY <2>1, <2>3
<1>3. ASSUME NEW x \in flight, Process(x) PROVE executed'[r][n] > 0
  BY <1>1, <1>2, <1>3 DEF Process
<1> QED
  BY <1>1, <1>3 DEF Next, Progress, Failure, Generate, ReceiveTask, SubmitNext,
     Advance, StoreBranch, Retrieve, Record, Drop, StoreFails, RetrieveFails, Expire,
     LoseFile, ClearQueue, vars

\* A step adds no row but that of a result in flight.
LEMMA RecordsStep ==
  ASSUME [Next]_vars, NEW row \in records'
  PROVE  \/ row \in records
         \/ \E x \in flight : /\ Record(x) /\ x.stage = "distribute"
                              /\ row = [root |-> x.copy.root, done |-> x.copy.done]
<1>1. ASSUME NEW x \in flight, Record(x)
      PROVE  row \in records \/ (x.stage = "distribute"
                                 /\ row = [root |-> x.copy.root, done |-> x.copy.done])
  BY <1>1 DEF Record
<1>2. CASE UNCHANGED records
  BY <1>2
<1> QED
  BY <1>1, <1>2 DEF Next, Progress, Failure, Generate, ReceiveTask, SubmitNext,
     Advance, StoreBranch, Process, Retrieve, Drop, StoreFails, RetrieveFails, Expire,
     LoseFile, ClearQueue, vars

\* Every recorded result is the work of every service of the DAG, each of which
\* has worked on the task exactly once.
THEOREM RecordedRan == Spec => []RecordsRan
<1>1. Init => RecordsRan
  BY DEF Init, RecordsRan
<1>2. IInv /\ IInv' /\ RecordsRan /\ [Next]_vars => RecordsRan'
  <2> SUFFICES ASSUME IInv, IInv', RecordsRan, [Next]_vars,
                      NEW row \in records', NEW n \in Service
               PROVE  executed'[row.root][n] = 1
    BY DEF RecordsRan
  <2>1. row.root \in Task /\ n \in Node
    BY NodeFacts DEF IInv, TypeOK
  <2>2. executed[row.root][n] > 0
    <3>1. CASE row \in records
      BY <3>1 DEF RecordsRan
    <3>2. ASSUME NEW x \in flight, x.stage = "distribute", row.root = x.copy.root
          PROVE  executed[row.root][n] > 0
      <4>1. Active(row.root, End)
        BY <3>2 DEF IInv, DispatchedShape, Dispatched, Active, At
      <4> QED
        BY <2>1, <4>1, AllRan
    <3> QED
      BY <3>1, <3>2, RecordsStep
  <2>3. executed'[row.root][n] > 0
    BY <2>1, <2>2, ExecutedKept
  <2> QED
    BY <2>1, <2>3 DEF IInv, TypeOK, AtMostOnce
<1> QED
  BY <1>1, <1>2, Invariance, PTL DEF Spec

-----------------------------------------------------------------------------
(* Merging branches.                                                        *)

\* done is what a copy past n has to carry, and what one before n has to.
Covers(done, n) == Ancestors(Dag, n) \ {Start} \subseteq done /\ done \subseteq Service
Brings(done, n) == Upstream(n) \subseteq done /\ done \subseteq Service

\* The greatest of the last writers.
LEMMA LastWriter ==
  ASSUME NEW k \in Nat, NEW W \in SUBSET (1..k), W # {}
  PROVE  Max(W) \in W
<1> DEFINE B == {k - i : i \in W}
<1>1. B \in SUBSET Nat /\ B # {}
  <2>1. \A i \in W : i \in 1..k /\ k - i \in Nat
    OBVIOUS
  <2> QED
    BY <2>1
<1>2. PICK b \in B : \A c \in B : b <= c
  <2> HIDE DEF B
  <2> QED
    BY <1>1, LeastNat
<1>3. PICK i \in W : b = k - i
  BY <1>2
<1>4. \A j \in W : i >= j
  <2> SUFFICES ASSUME NEW j \in W PROVE i >= j
    OBVIOUS
  <2>1. k - i <= k - j
    BY <1>2, <1>3
  <2> QED
    BY <2>1
<1> QED
  BY <1>4 DEF Max

\* An order of the branches has every one of them.
LEMMA OrderFacts ==
  ASSUME NEW S, IsFiniteSet(S), NEW order \in SetToSeqs(S)
  PROVE  /\ Cardinality(S) \in Nat /\ DOMAIN order = 1..Cardinality(S)
         /\ \A i \in DOMAIN order : order[i] \in S
         /\ \A c \in S : \E i \in DOMAIN order : order[i] = c
<1> DEFINE k == Cardinality(S)
           D == 1..k
<1>1. k \in Nat
  BY FS_CardinalityType
<1>2. order \in [D -> S] /\ \A i, j \in D : i # j => order[i] # order[j]
  BY DEF SetToSeqs
<1>3. Cardinality(D) = k
  <2>1. 1 \in Int /\ k \in Int
    BY <1>1
  <2>2. Cardinality(1..k) = IF 1 > k THEN 0 ELSE k - 1 + 1
    BY <2>1, FS_Interval
  <2> HIDE DEF k
  <2> QED
    BY <1>1, <2>2
<1>4. order \in Injection(D, S)
  BY <1>2 DEF Injection, IsInjective
<1>5. order \in Surjection(D, S)
  <2> HIDE DEF D
  <2> QED
    BY <1>3, <1>4, FS_Injection
<1> QED
  BY <1>1, <1>2, <1>5 DEF Surjection

\* What merging a branch copies comes from upstream of that branch.
LEMMA CopiedUpstream ==
  ASSUME NEW p \in Node, NEW q \in Node
  PROVE  CopiedFrom[p][q] \subseteq Ancestors(Dag, q)
<1>1. CopiedFrom[p][q] = IF Lca[p][q] = NoNode THEN {} ELSE MergeNodes(Dag, p, q)
  BY DEF CopiedFrom
<1>2. MergeNodes(Dag, p, q) \subseteq Ancestors(Dag, q)
  BY IntermediateUpstream, UpstreamFacts DEF MergeNodes
<1> QED
  BY <1>1, <1>2

\* The merged task brings what is upstream of the joint, in whatever order the
\* branches are merged, if each merge is complete.
LEMMA MergeBrings ==
  ASSUME MergesComplete, NEW n \in Node, NEW copy \in Copy,
         copy.past \in Prev(n), Covers(copy.done, copy.past),
         NEW tasks, IsFiniteSet(tasks),
         \A c \in tasks : /\ c.past \in Prev(n) /\ Covers(c.done, c.past)
                          /\ Lca[copy.past][c.past] # NoNode,
         \A p \in Prev(n) : \E c \in tasks : c.past = p,
         NEW order \in SetToSeqs(tasks)
  PROVE  Brings(MergedDone(copy, order), n)
<1> DEFINE Writers(a) == {i \in DOMAIN order : a \in CopiedFrom[copy.past][order[i].past]}
<1>1. /\ Cardinality(tasks) \in Nat /\ DOMAIN order = 1..Cardinality(tasks)
      /\ \A i \in DOMAIN order : order[i] \in tasks
      /\ \A c \in tasks : \E i \in DOMAIN order : order[i] = c
  BY OrderFacts
<1>2. copy.past \in Node /\ \A i \in DOMAIN order : order[i].past \in Node
  BY <1>1, NodeFacts
<1>3. ASSUME NEW a \in Node, Writers(a) # {}
      PROVE  LET i == Max(Writers(a))
             IN  i \in DOMAIN order /\ a \in Ancestors(Dag, order[i].past)
  <2>1. Writers(a) \in SUBSET (1..Cardinality(tasks))
    BY <1>1
  <2>2. Max(Writers(a)) \in Writers(a)
    <3> HIDE DEF Writers
    <3> QED
      BY <1>1, <1>3, <2>1, LastWriter
  <2> QED
    BY <1>2, <2>2, CopiedUpstream
<1>4. \A a \in Node : a \in MergedDone(copy, order)
        <=> IF Writers(a) = {} THEN a \in copy.done ELSE a \in order[Max(Writers(a))].done
  BY DEF MergedDone
<1>5. ASSUME NEW a \in MergedDone(copy, order) PROVE a \in Service
  <2>1. a \in Node
    BY DEF MergedDone
  <2> HIDE DEF Writers
  <2>2. CASE Writers(a) = {}
    BY <1>4, <2>1, <2>2 DEF Covers
  <2>3. CASE Writers(a) # {}
    BY <1>1, <1>3, <1>4, <2>1, <2>3 DEF Covers
  <2> QED
    BY <2>2, <2>3
<1>6. ASSUME NEW a \in Upstream(n) PROVE a \in MergedDone(copy, order)
  <2>1. PICK q \in Prev(n) : a \in Ancestors(Dag, q)
    BY UpstreamFacts
  <2>2. a # Start /\ a \in Node /\ q \in Node
    BY <2>1, UpstreamFacts, NodeFacts
  <2>3. CASE Writers(a) = {}
    <3>1. PICK c \in tasks : c.past = q
      BY <2>1
    <3>2. PICK i \in DOMAIN order : order[i] = c
      BY <1>1
    <3>3. a \notin CopiedFrom[copy.past][q]
      BY <2>3, <3>1, <3>2
    <3>4. Lca[copy.past][q] # NoNode
      BY <3>1
    <3>5. a \in Ancestors(Dag, copy.past)
      BY <2>1, <2>2, <3>3, <3>4 DEF MergesComplete
    <3>6. a \in copy.done
      BY <2>2, <3>5 DEF Covers
    <3> HIDE DEF Writers
    <3> QED
      BY <1>4, <2>2, <2>3, <3>6
  <2>4. CASE Writers(a) # {}
    <3> HIDE DEF Writers
    <3>1. a \in order[Max(Writers(a))].done
      BY <1>1, <1>3, <2>2, <2>4 DEF Covers
    <3> QED
      BY <1>4, <2>2, <2>4, <3>1
  <2> QED
    BY <2>3, <2>4
<1> QED
  BY <1>5, <1>6 DEF Brings

-----------------------------------------------------------------------------
(* Results are carried along.                                               *)

\* A copy brings what is upstream of the service it is for, a handler what is
\* upstream of the service it comes from and that service's own.
Laden(x) ==
  /\ x.stage \in Dispatched => Brings(x.copy.done, x.copy.cur)
  /\ x.stage \in Handlers => Covers(x.copy.done, x.copy.cur)

\* So is all that is under way; a stored branch carries what a handler of the
\* service it comes from does, and a recorded result everything.
Carry ==
  /\ \A x \in flight : Laden(x)
  /\ \A r \in Task, n \in Node : \A c \in store[r][n] : Covers(c.done, c.past)
  /\ \A row \in records : row.done = Service

\* Submitting a copy does not touch its results.
LEMMA SubmitLaden ==
  ASSUME NEW copy \in Copy, copy.cur # Start, Brings(copy.done, copy.cur),
         NEW d \in Device, NEW file \in BOOLEAN, NEW y \in Submit(copy, d, file)
  PROVE  Laden(y)
<1>1. y.stage \in Dispatched /\ y.copy.cur = copy.cur
  BY SubmitFacts DEF At
<1>2. y.copy.done = copy.done
  <2>1. \/ y = Request("distribute", copy, Cloud)
        \/ y = Request("submit", copy, copy.dev)
        \/ y = Request("process", copy, d)
        \/ y = Request("submit", [copy EXCEPT !.dev = Cloud], Cloud)
    BY DEF Submit
  <2>2. copy \in [root : Task, past : Node \cup {NoNode}, cur : Node,
                  done : SUBSET Node, dev : Device]
    BY DEF Copy
  <2> QED
    BY <2>1, <2>2 DEF Request
<1> QED
  BY <1>1, <1>2 DEF Laden, Dispatched, Handlers

\* Nor does the handler that submits it lose its own.
LEMMA SubmitAndResumeLaden ==
  ASSUME TypeOK, NEW x \in flight, x.stage \in Handlers, Laden(x),
         NEW copy \in Copy, copy.cur # Start, Brings(copy.done, copy.cur),
         NEW todo \in SUBSET Node, NEW y \in SubmitAndResume(x, copy, todo)
  PROVE  Laden(y)
<1> DEFINE file == copy.root \in files[x.dev]
<1>1. x \in Work /\ x.dev \in Device /\ file \in BOOLEAN
  BY DEF TypeOK, Work
<1>2. y \in Submit(copy, x.dev, file) \/ y \in Resume(x, todo)
  BY DEF SubmitAndResume
<1>3. CASE y \in Submit(copy, x.dev, file)
  <2> HIDE DEF file
  <2> QED
    BY <1>1, <1>3, SubmitLaden
<1>4. CASE y \in Resume(x, todo)
  BY <1>1, <1>4, ResumeFacts DEF Laden, Handlers, Dispatched
<1> QED
  BY <1>2, <1>3, <1>4

\* A handler that goes on with its other services is as laden as before.
LEMMA ResumeLaden ==
  ASSUME NEW x \in Work, x.stage \in Handlers, Laden(x),
         NEW todo \in SUBSET Node, NEW y \in Resume(x, todo)
  PROVE  Laden(y)
BY ResumeFacts DEF Laden, Handlers, Dispatched

\* A step that only adds laden work, and branches that cover what is behind
\* them, keeps Carry.
LEMMA KeepCarry ==
  ASSUME Carry, \A y \in flight' : y \in flight \/ Laden(y),
         \A r \in Task, n \in Node : \A c \in store'[r][n] :
            c \in store[r][n] \/ Covers(c.done, c.past),
         \A row \in records' : row \in records \/ row.done = Service
  PROVE  Carry'
BY DEF Carry, Laden

\* What a forked copy brings along.
LEMMA ForkDone ==
  ASSUME NEW copy \in Copy, NEW n \in Node
  PROVE  Fork(copy, n).done = copy.done
BY DEF Fork, Copy

\* A controller that receives a task keeps Carry.
LEMMA CarryReceive ==
  ASSUME IInv, Carry, NEW x \in flight, ReceiveTask(x)
  PROVE  Carry'
<1>1. /\ x \in Work /\ x.copy \in Copy /\ x.dev \in Device /\ x.stage \in Dispatched
      /\ Brings(x.copy.done, x.copy.cur)
  BY WorkFacts DEF IInv, TypeOK, ReceiveTask, Dispatched, Carry, Laden
<1>2. CASE x.copy.cur = Start
  <2>1. Laden(Handler("fork", x.copy, x.dev, Succ(Start)))
    BY <1>1, <1>2, Ends DEF Handler, Laden, Covers, Brings, Dispatched
  <2> QED
    BY <1>2, <2>1, KeepCarry DEF ReceiveTask, Replace
<1>3. CASE x.copy.cur # Start
  <2>1. \A y \in Submit(x.copy, x.dev, TRUE) : Laden(y)
    BY <1>1, <1>3, SubmitLaden
  <2> QED
    BY <1>3, <2>1, KeepCarry DEF ReceiveTask, Replace
<1> QED
  BY <1>2, <1>3

\* Handing a task to a service with one predecessor keeps it.
LEMMA CarryForward ==
  ASSUME IInv, Carry, NEW x \in flight, NEW n \in x.todo,
         SubmitNext(x, n) \/ Advance(x, n)
  PROVE  Carry'
<1> DEFINE p == x.copy.cur
           copy == Fork(x.copy, n)
<1>1. /\ x.stage \in Handlers
      /\ flight' = (flight \ {x}) \cup SubmitAndResume(x, copy, x.todo \ {n})
      /\ UNCHANGED <<store, records>>
  BY DEF SubmitNext, Advance, Replace, Handlers
<1>2. /\ x \in Work /\ x.copy \in Copy /\ p \in Node /\ x.todo \subseteq Node
      /\ n \in Node \ {Start}
  BY <1>1, WorkFacts, TodoNotEmitted DEF IInv, TypeOK
<1>3. copy \in Copy /\ copy.cur = n /\ copy.done = x.copy.done
  BY <1>2, ForkFacts, ForkDone
<1>4. Prev(n) = {p}
  BY OnlyPredecessor
<1>5. Laden(x) /\ Covers(x.copy.done, p)
  BY <1>1 DEF Carry, Laden
<1>6. Brings(x.copy.done, n)
  <2>1. \A a \in Upstream(n) : a # Start /\ a \in Ancestors(Dag, p)
    BY <1>2, <1>4, UpstreamFacts
  <2> QED
    BY <1>5, <2>1 DEF Covers, Brings
<1> HIDE DEF copy
<1>7. \A y \in SubmitAndResume(x, copy, x.todo \ {n}) : Laden(y)
  <2>1. TypeOK /\ x.todo \ {n} \in SUBSET Node
    BY <1>2 DEF IInv
  <2> QED
    BY <1>1, <1>2, <1>3, <1>5, <1>6, <2>1, SubmitAndResumeLaden
<1> QED
  BY <1>1, <1>7, KeepCarry

\* A service adds its own result to what it was brought.
LEMMA CarryProcess ==
  ASSUME IInv, Carry, NEW x \in flight, Process(x)
  PROVE  Carry'
<1> DEFINE n == x.copy.cur
           y == Handler("return", [x.copy EXCEPT !.done = @ \cup {n}], x.dev, Succ(n))
<1>1. /\ x \in Work /\ x.copy \in Copy /\ x.stage = "process"
      /\ n \in Service /\ n \in Node /\ Brings(x.copy.done, n)
  BY WorkFacts DEF IInv, TypeOK, Process, Dispatched, Carry, Laden, DispatchedShape
<1>2. Laden(y)
  <2>1. y.stage = "return" /\ y.copy.cur = n /\ y.copy.done = x.copy.done \cup {n}
    BY <1>1 DEF Handler, Copy
  <2>2. Ancestors(Dag, n) \ {Start} \subseteq Upstream(n) \cup {n}
    BY <1>1, UpstreamFacts
  <2> HIDE DEF y, n
  <2>3. Covers(x.copy.done \cup {n}, n)
    BY <1>1, <2>2 DEF Covers, Brings
  <2> QED
    BY <2>1, <2>3 DEF Laden, Dispatched
<1>3. flight' = (flight \ {x}) \cup {y} \/ flight' = flight \ {x}
  BY DEF Process, Replace
<1>4. UNCHANGED <<store, records>>
  BY DEF Process
<1> HIDE DEF y
<1> QED
  BY <1>2, <1>3, <1>4, KeepCarry

\* A branch that is stored, by a handler that goes on or merges.
LEMMA CarryStored ==
  ASSUME IInv, Carry, NEW x \in flight, x.stage = "return", NEW n \in x.todo,
         store' = [store EXCEPT ![x.copy.root][n] = @ \cup {Fork(x.copy, n)}],
         UNCHANGED records,
         \/ flight' = (flight \ {x}) \cup Resume(x, x.todo \ {n})
         \/ flight' = (flight \ {x}) \cup
               {[x EXCEPT !.stage = "retrieve", !.todo = @ \ {n}, !.joint = n]}
  PROVE  Carry'
<1> DEFINE r == x.copy.root
           c == Fork(x.copy, n)
           z == [x EXCEPT !.stage = "retrieve", !.todo = @ \ {n}, !.joint = n]
<1>1. /\ x \in Work /\ x.copy \in Copy /\ r \in Task /\ x.copy.cur \in Node
      /\ x.todo \subseteq Node /\ x.stage \in Handlers
  BY WorkFacts DEF IInv, TypeOK, Handlers
<1>2. n \in Node
  BY <1>1
<1>3. c \in Copy /\ c.past = x.copy.cur /\ c.done = x.copy.done
  BY <1>1, <1>2, ForkFacts, ForkDone
<1>4. Laden(x) /\ Covers(x.copy.done, x.copy.cur)
  BY <1>1 DEF Carry, Laden
<1>5. \A y \in Resume(x, x.todo \ {n}) : Laden(y)
  <2>1. x.todo \ {n} \in SUBSET Node
    BY <1>1
  <2> QED
    BY <1>1, <1>4, <2>1, ResumeLaden
<1>6. Laden(z)
  <2>1. z.stage = "retrieve" /\ z.copy = x.copy
    BY <1>1 DEF Work
  <2> HIDE DEF z
  <2> QED
    BY <1>4, <2>1 DEF Laden, Dispatched
<1> HIDE DEF c, z
<1>7. \A q \in Task, m \in Node : \A b \in store'[q][m] : b \in store[q][m] \/ b = c
  <2>1. store \in [Task -> [Node -> SUBSET Copy]] /\ store[r][n] \cup {c} \in SUBSET Copy
    BY <1>1, <1>2, <1>3 DEF IInv, TypeOK
  <2>2. \A q \in Task, m \in Node :
          [store EXCEPT ![r][n] = store[r][n] \cup {c}][q][m]
             = IF q = r /\ m = n THEN store[r][n] \cup {c} ELSE store[q][m]
    BY <1>1, <1>2, <2>1, TableUpdate
  <2>3. store' = [store EXCEPT ![r][n] = store[r][n] \cup {c}]
    BY DEF c
  <2> QED
    BY <2>2, <2>3
<1>8. \A y \in flight' : y \in flight \/ Laden(y)
  BY <1>5, <1>6 DEF z
<1> QED
  BY <1>3, <1>4, <1>7, <1>8, KeepCarry

\* Where merging is complete, a merged copy brings what is upstream of the joint.
LEMMA CarryRetrieve ==
  ASSUME MergesComplete, IInv, Carry, NEW x \in flight, Retrieve(x)
  PROVE  Carry'
<1> DEFINE r == x.copy.root
           n == x.joint
           tasks == store[r][n]
           new == Fork(x.copy, n)
<1>1. /\ x.stage = "retrieve" /\ x.stage \in Handlers
      /\ UNCHANGED records
      /\ UNCHANGED store \/ store' = [store EXCEPT ![r][n] = {}]
  BY DEF Retrieve, Handlers
<1>2. /\ x \in Work /\ x.copy \in Copy /\ r \in Task /\ x.copy.cur \in Node
      /\ n \in Node \ {Start} /\ x.copy.cur \in Prev(n) /\ x.todo \in SUBSET Node
      /\ TypeOK
  BY <1>1, MergerFacts, WorkFacts DEF IInv
<1>3. \A q \in Task, m \in Node : store'[q][m] \subseteq store[q][m]
  BY <1>1, <1>2, ClearFacts
<1>4. Laden(x) /\ Covers(x.copy.done, x.copy.cur)
  BY <1>1 DEF Carry, Laden
<1>5. CASE Replace(x, Resume(x, x.todo))
  <2>1. \A y \in Resume(x, x.todo) : Laden(y)
    BY <1>1, <1>2, <1>4, ResumeLaden
  <2> QED
    BY <1>1, <1>3, <1>5, <2>1, KeepCarry DEF Replace
<1>6. CASE Replace(x, {})
  BY <1>1, <1>3, <1>6, KeepCarry DEF Replace
<1>7. ASSUME NEW order \in SetToSeqs(tasks),
             Cardinality({t.past : t \in tasks}) = Len(Dag[n].prev),
             ~ \E t \in tasks : Lca[new.past][t.past] = NoNode,
             Replace(x, SubmitAndResume(x,
                [new EXCEPT !.done = MergedDone(new, order)], x.todo))
      PROVE  Carry'
  <2> DEFINE copy == [new EXCEPT !.done = MergedDone(new, order)]
  <2>1. new \in Copy /\ new.past = x.copy.cur /\ new.done = x.copy.done /\ new.cur = n
    BY <1>2, ForkFacts, ForkDone
  <2>2. \A c \in tasks : c.past \in Prev(n) /\ Covers(c.done, c.past)
    BY <1>2 DEF IInv, StoreShape, Carry
  <2>3. IsFiniteSet(Prev(n)) /\ Cardinality(Prev(n)) = Len(Dag[n].prev)
    BY <1>2, NodeFacts
  <2>4. IsFiniteSet(tasks)
    <3> DEFINE f == [c \in tasks |-> c.past]
    <3>1. \A c, d \in tasks : c.past = d.past => c = d
      BY <1>2 DEF IInv, StoreShape
    <3>2. f \in Injection(tasks, Prev(n))
      BY <2>2, <3>1 DEF Injection, IsInjective
    <3> HIDE DEF f, tasks
    <3> QED
      BY <2>3, <3>2, FS_Injection
  <2>5. \A p \in Prev(n) : \E c \in tasks : c.past = p
    <3> DEFINE pasts == {t.past : t \in tasks}
    <3>1. pasts \subseteq Prev(n)
      BY <2>2
    <3>2. pasts = Prev(n)
      <4>1. Cardinality(pasts) = Cardinality(Prev(n))
        BY <1>7, <2>3
      <4> HIDE DEF pasts
      <4> QED
        BY <2>3, <3>1, <4>1, FS_Subset
    <3> QED
      BY <3>2
  <2>6. Brings(MergedDone(new, order), n)
    <3>1. \A c \in tasks : Lca[new.past][c.past] # NoNode
      BY <1>7
    <3>2. new.past \in Prev(n) /\ Covers(new.done, new.past)
      BY <1>2, <1>4, <2>1
    <3> HIDE DEF new, tasks
    <3> QED
      BY <1>2, <1>7, <2>1, <2>2, <2>4, <2>5, <3>1, <3>2, MergeBrings
  <2>7. copy \in Copy /\ copy.cur = n /\ copy.done = MergedDone(new, order)
    <3> HIDE DEF new
    <3>1. copy \in Copy /\ copy.cur = new.cur
      BY <2>1, MergedFacts
    <3>2. copy.done = MergedDone(new, order)
      BY <2>1 DEF Copy
    <3> QED
      BY <2>1, <3>1, <3>2
  <2>8. flight' = (flight \ {x}) \cup SubmitAndResume(x, copy, x.todo)
    BY <1>7 DEF Replace
  <2> HIDE DEF copy, new
  <2>9. \A y \in SubmitAndResume(x, copy, x.todo) : Laden(y)
    BY <1>1, <1>2, <1>4, <2>6, <2>7, SubmitAndResumeLaden
  <2> QED
    BY <1>1, <1>3, <2>8, <2>9, KeepCarry
<1> QED
  BY <1>5, <1>6, <1>7 DEF Retrieve

\* A result that is recorded is what its copy carried to END.
LEMMA CarryRecord ==
  ASSUME IInv, Carry, NEW x \in flight, Record(x)
  PROVE  Carry'
<1>1. x.stage = "distribute" /\ x.copy.cur = End /\ Brings(x.copy.done, End)
  BY DEF Record, IInv, DispatchedShape, Dispatched, Carry, Laden
<1>2. x.copy.done = Service
  BY <1>1, Ends DEF Brings
<1>3. \A row \in records' : row \in records \/ row.done = Service
  BY <1>2 DEF Record
<1>4. flight' \subseteq flight /\ UNCHANGED store
  BY DEF Record, Replace
<1> QED
  BY <1>3, <1>4, KeepCarry

\* Every step keeps Carry, where merging is complete.
LEMMA CarryStep ==
  ASSUME MergesComplete, IInv, Carry, [Next]_vars
  PROVE  Carry'
<1>1. ASSUME NEW r \in Task, Generate(r) PROVE Carry'
  <2> DEFINE new == Request("submit",
                [root |-> r, past |-> NoNode, cur |-> Start, done |-> {},
                 dev |-> Source[r]], Source[r])
  <2>1. Laden(new)
    BY Ends DEF Request, Laden, Brings, Upstream, Handlers
  <2>2. flight' = flight \cup {new} /\ UNCHANGED <<store, records>>
    BY <1>1 DEF Generate
  <2> HIDE DEF new
  <2> QED
    BY <2>1, <2>2, KeepCarry
<1>2. ASSUME NEW x \in flight, NEW n \in x.todo, StoreBranch(x, n) PROVE Carry'
  BY <1>2, CarryStored DEF StoreBranch, Replace
<1>3. ASSUME NEW x \in flight, x.stage \in Handlers, NEW todo \in SUBSET Node,
             flight' = (flight \ {x}) \cup Resume(x, todo), UNCHANGED records,
             \A q \in Task, m \in Node : store'[q][m] \subseteq store[q][m]
      PROVE  Carry'
  <2>1. x \in Work /\ Laden(x)
    BY DEF IInv, TypeOK, Carry
  <2>2. \A y \in Resume(x, todo) : Laden(y)
    BY <1>3, <2>1, ResumeLaden
  <2> QED
    BY <1>3, <2>2, KeepCarry
<1>4. ASSUME NEW x \in flight, NEW n \in x.todo, StoreFails(x, n) PROVE Carry'
  <2>1. /\ x.stage = "return" /\ x.stage \in Handlers /\ UNCHANGED records
        /\ flight' = (flight \ {x}) \cup Resume(x, x.todo \ {n})
        /\ \/ UNCHANGED store
           \/ store' = [store EXCEPT ![x.copy.root][n] = @ \cup {Fork(x.copy, n)}]
    BY <1>4 DEF StoreFails, Replace, Handlers
  <2>2. x.todo \ {n} \in SUBSET Node
    BY WorkFacts DEF IInv, TypeOK
  <2>3. CASE UNCHANGED store
    BY <1>3, <2>1, <2>2, <2>3
  <2>4. CASE store' = [store EXCEPT ![x.copy.root][n] = @ \cup {Fork(x.copy, n)}]
    BY <2>1, <2>4, CarryStored
  <2> QED
    BY <2>1, <2>3, <2>4
<1>5. ASSUME NEW x \in flight, RetrieveFails(x) PROVE Carry'
  <2>1. /\ x.stage = "retrieve" /\ x.stage \in Handlers /\ UNCHANGED records
        /\ flight' = (flight \ {x}) \cup Resume(x, x.todo)
        /\ UNCHANGED store \/ store' = [store EXCEPT ![x.copy.root][x.joint] = {}]
    BY <1>5 DEF RetrieveFails, Replace, Handlers
  <2>2. \A q \in Task, m \in Node : store'[q][m] \subseteq store[q][m]
    BY <2>1, MergerFacts, ClearFacts DEF IInv
  <2>3. x.todo \in SUBSET Node
    BY WorkFacts DEF IInv, TypeOK
  <2> QED
    BY <1>3, <2>1, <2>2, <2>3
<1>6. ASSUME NEW r \in Task, NEW n \in Node, Expire(r, n) PROVE Carry'
  <2>1. UNCHANGED <<flight, records>> /\ store' = [store EXCEPT ![r][n] = {}]
    BY <1>6 DEF Expire
  <2>2. \A q \in Task, m \in Node : store'[q][m] \subseteq store[q][m]
    BY <2>1, ClearFacts DEF IInv
  <2> QED
    BY <2>1, <2>2, KeepCarry
<1>7. CASE flight' \subseteq flight /\ UNCHANGED <<store, records>>
  BY <1>7, KeepCarry
<1> QED
  BY <1>1, <1>2, <1>4, <1>5, <1>6, <1>7, CarryReceive, CarryForward, CarryProcess,
     CarryRetrieve, CarryRecord
     DEF Next, Progress, Failure, Drop, LoseFile, ClearQueue, Replace, vars

\* Where merging is complete, whatever is under way, stored or recorded carries
\* the results of what is upstream of it.
THEOREM CarryInvariance == MergesComplete => (Spec => []Carry)
<1> SUFFICES ASSUME MergesComplete PROVE Spec => []Carry
  OBVIOUS
<1>1. Init => Carry
  BY DEF Init, Carry
<1>2. IInv /\ Carry /\ [Next]_vars => Carry'
  BY CarryStep
<1> QED
  BY <1>1, <1>2, Invariance, PTL DEF Spec

\* Where merging branches is complete, every service and the distributor get a
\* task with the results of everything upstream (task.py:448).
THEOREM ResultsCarried == MergesComplete => (Spec => []CarriesUpstream)
<1> SUFFICES ASSUME MergesComplete PROVE Spec => []CarriesUpstream
  OBVIOUS
<1>1. Carry => CarriesUpstream
  BY DEF Carry, CarriesUpstream, Laden, Brings, Dispatched
<1> QED
  BY <1>1, CarryInvariance, PTL

\* And then a recorded result covers every service, each of which worked once.
THEOREM ResultsComplete == MergesComplete => (Spec => []ResultComplete)
<1> SUFFICES ASSUME MergesComplete PROVE Spec => []ResultComplete
  OBVIOUS
<1>1. Carry /\ RecordsRan => ResultComplete
  BY DEF Carry, RecordsRan, ResultComplete
<1> QED
  BY <1>1, CarryInvariance, RecordedRan, PTL

-----------------------------------------------------------------------------
(* No task is lost without a fault.                                         *)

\* A branch from p is kept for the joint n.
Stored(r, p, n) == \E c \in store[r][n] : c.past = p

\* A copy for n on device d is let in, there or in the cloud.
Reaches(n, d) ==
  n \in Ports[d] \/ (d # Cloud /\ Cloud \in Pods[n] /\ n \in Ports[Cloud])

\* Work that reads the task's file finds it on its device.
FilesKept(r) ==
  \A x \in flight :
    x.copy.root = r /\ x.stage \in Handlers \cup {"process"} => r \in files[x.dev]

\* A copy on its way is let in where it goes.
Routed(r) ==
  \A x \in flight :
    x.copy.root = r /\ x.stage = "submit" /\ x.copy.cur # Start =>
      x.copy.dev = x.dev /\ Reaches(x.copy.cur, x.dev)

\* What has gone along an edge is with the service, or waits at the joint.
Delivered(r) ==
  \A p \in Node : \A n \in Succ(p) : Emitted(r, p, n) => Active(r, n) \/ Stored(r, p, n)

\* A merger finds all branches.
MergerReady(r) ==
  \A x \in flight : x.copy.root = r /\ x.stage = "retrieve" =>
    \A p \in Prev(x.joint) : Stored(r, p, x.joint)

\* When all branches of a joint are there, one of them is at work on the merge.
FullMerges(r) ==
  \A n \in Node \ {Start} : (\A p \in Prev(n) : Stored(r, p, n)) =>
    \E x \in flight : x.stage = "retrieve" /\ x.copy.root = r /\ x.joint = n

\* What it takes for a task not to be lost, and that this is so of every task no
\* fault has struck, until it is recorded.
Safe(r) ==
  FilesKept(r) /\ Routed(r) /\ Delivered(r) /\ MergerReady(r) /\ FullMerges(r)

Kept == \A r \in Task \ hurt : ~Recorded(r) => Safe(r)

\* A task that is safe and not recorded is in someone's hands.
LEMMA SafeInFlight ==
  ASSUME IInv, NEW r \in generated, Safe(r), \A x \in flight : x.copy.root # r
  PROVE  FALSE
<1> DEFINE G == {n \in Node \ {Start} : ~(executed[r][n] > 0)}
<1>1. r \in Task
  BY DEF IInv, TypeOK
<1>2. End \in G
  BY <1>1, NodeFacts DEF IInv, ExecutedShape
<1>3. PICK n \in G : Prev(n) \cap G = {}
  <2>1. G \in SUBSET Node /\ G # {}
    BY <1>2
  <2> HIDE DEF G
  <2> QED
    BY <2>1, FirstOf
<1>4. \A m \in Node : ~(executed[r][m] > 0) => ~Active(r, m)
  BY DEF Active, At
<1>5. ASSUME NEW p \in Prev(n) PROVE Stored(r, p, n)
  <2>1. p \in Node /\ n \in Succ(p)
    BY NodeFacts
  <2>2. Left(r, p)
    <3>1. CASE p = Start
      BY <1>1, <1>4, <3>1, NodeFacts DEF Left, IInv, ExecutedShape
    <3>2. CASE p # Start
      BY <1>3, <2>1, <3>2 DEF Left
    <3> QED
      BY <3>1, <3>2
  <2>3. Emitted(r, p, n)
    BY <2>2 DEF Emitted, Pending, At
  <2> QED
    BY <1>4, <2>1, <2>3 DEF Safe, Delivered
<1> QED
  BY <1>5 DEF Safe, FullMerges

-----------------------------------------------------------------------------
(* Steps on other tasks.                                                    *)

\* A step that leaves a task alone keeps it safe.
LEMMA SafeFrame ==
  ASSUME TypeOK, NEW r \in Task, Safe(r),
         \A y : y \in flight' /\ y.copy.root = r <=> y \in flight /\ y.copy.root = r,
         executed'[r] = executed[r], store'[r] = store[r],
         r \in generated' <=> r \in generated,
         \A d \in Device : r \in files[d] => r \in files'[d]
  PROVE  Safe(r)'
<1>1. FilesKept(r)'
  <2>1. \A x \in flight : x.dev \in Device
    BY WorkFacts DEF TypeOK
  <2> QED
    BY <2>1 DEF Safe, FilesKept
<1>2. Routed(r)' /\ MergerReady(r)' /\ FullMerges(r)'
  <2>1. \A p, n : Stored(r, p, n)' <=> Stored(r, p, n)
    BY DEF Stored
  <2>2. Routed(r)'
    BY DEF Safe, Routed
  <2>3. MergerReady(r)'
    BY <2>1 DEF Safe, MergerReady
  <2>4. FullMerges(r)'
    BY <2>1 DEF Safe, FullMerges
  <2> QED
    BY <2>2, <2>3, <2>4
<1>3. Delivered(r)'
  <2>1. \A n \in Node : Active(r, n)' <=> Active(r, n)
    BY DEF Active, At
  <2>2. \A p \in Node, n \in Node : Emitted(r, p, n)' <=> Emitted(r, p, n)
    BY <2>1, NodeFacts DEF Emitted, Left, Pending, At
  <2> QED
    BY <2>1, <2>2, NodeFacts DEF Safe, Delivered, Stored
<1> QED
  BY <1>1, <1>2, <1>3 DEF Safe

\* Work on a task leaves the other tasks alone.
LEMMA ProgressLocal ==
  ASSUME IInv, NEW x \in flight, Progress(x)
  PROVE  /\ \A q \in Task \ {x.copy.root} :
               executed'[q] = executed[q] /\ store'[q] = store[q]
         /\ \A d \in Device : files[d] \subseteq files'[d]
         /\ UNCHANGED <<generated, hurt>>
         /\ flight \ flight' \subseteq {x}
         /\ \A y \in flight' : y \in flight \/ y.copy.root = x.copy.root
<1>1. /\ x \in Work /\ x.copy \in Copy /\ x.copy.root \in Task /\ x.copy.cur \in Node
      /\ x.dev \in Device /\ x.todo \in SUBSET Node
  BY WorkFacts DEF IInv, TypeOK
<1>2. executed \in [Task -> [Node -> Nat]] /\ store \in [Task -> [Node -> SUBSET Copy]]
      /\ files \in [Device -> SUBSET Task] /\ TypeOK
  BY DEF IInv, TypeOK
<1>3. ASSUME NEW todo \in SUBSET Node, x.stage \in Handlers, NEW y \in Resume(x, todo)
      PROVE  y.copy.root = x.copy.root
  BY <1>1, <1>3, ResumeFacts
<1>4. ASSUME NEW todo \in SUBSET Node, x.stage \in Handlers,
             NEW copy \in Copy, copy.cur # Start, copy.root = x.copy.root,
             NEW y \in SubmitAndResume(x, copy, todo)
      PROVE  y.copy.root = x.copy.root
  BY <1>1, <1>2, <1>4, SubmitAndResumeFacts DEF At
<1>5. CASE ReceiveTask(x)
  <2>1. ASSUME NEW y \in flight' PROVE y \in flight \/ y.copy.root = x.copy.root
    <3>1. CASE x.copy.cur = Start
      BY <1>5, <3>1 DEF ReceiveTask, Replace, Handler
    <3>2. CASE x.copy.cur # Start
      BY <1>1, <1>5, <3>2, SubmitFacts, ZenonT(30) DEF ReceiveTask, Replace, At
    <3> QED
      BY <3>1, <3>2
  <2>2. flight \ flight' \subseteq {x}
    BY <1>5 DEF ReceiveTask, Replace
  <2> QED
    BY <1>2, <1>5, <2>1, <2>2 DEF ReceiveTask
<1>6. ASSUME NEW n \in x.todo, SubmitNext(x, n) \/ Advance(x, n)
      PROVE  /\ flight \ flight' \subseteq {x}
             /\ \A y \in flight' : y \in flight \/ y.copy.root = x.copy.root
             /\ UNCHANGED <<executed, store, files, generated, hurt>>
  <2>1. x.stage \in Handlers
    BY <1>6 DEF SubmitNext, Advance, Handlers
  <2>2. n \in Node \ {Start}
    BY <2>1, TodoNotEmitted
  <2>3. Fork(x.copy, n) \in Copy /\ Fork(x.copy, n).cur # Start
        /\ Fork(x.copy, n).root = x.copy.root /\ x.todo \ {n} \in SUBSET Node
    BY <1>1, <2>2, ForkFacts
  <2>4. \A y \in SubmitAndResume(x, Fork(x.copy, n), x.todo \ {n}) :
           y.copy.root = x.copy.root
    BY <1>4, <2>1, <2>3
  <2> QED
    BY <1>6, <2>4 DEF SubmitNext, Advance, Replace
<1>7. ASSUME NEW n \in x.todo, StoreBranch(x, n)
      PROVE  /\ flight \ flight' \subseteq {x}
             /\ \A y \in flight' : y \in flight \/ y.copy.root = x.copy.root
             /\ UNCHANGED <<executed, files, generated, hurt>>
             /\ \A q \in Task \ {x.copy.root} : store'[q] = store[q]
  <2>1. x.stage \in Handlers /\ x.todo \ {n} \in SUBSET Node
    BY <1>1, <1>7 DEF StoreBranch, Handlers
  <2>2. \A y \in Resume(x, x.todo \ {n}) : y.copy.root = x.copy.root
    BY <1>3, <2>1
  <2>3. [x EXCEPT !.stage = "retrieve", !.todo = @ \ {n}, !.joint = n].copy = x.copy
    BY <1>1 DEF Work
  <2>4. /\ flight \ flight' \subseteq {x}
        /\ \A y \in flight' : y \in flight \/ y.copy.root = x.copy.root
    BY <1>7, <2>2, <2>3 DEF StoreBranch, Replace
  <2> QED
    BY <1>2, <1>7, <2>4 DEF StoreBranch
<1>8. CASE Process(x)
  <2> DEFINE y == Handler("return", [x.copy EXCEPT !.done = @ \cup {x.copy.cur}],
                          x.dev, Succ(x.copy.cur))
  <2>1. y.copy.root = x.copy.root
    BY <1>1 DEF Handler, Copy
  <2>2. flight' = (flight \ {x}) \cup {y} \/ flight' = flight \ {x}
    BY <1>8 DEF Process, Replace
  <2> HIDE DEF y
  <2>3. /\ flight \ flight' \subseteq {x}
        /\ \A z \in flight' : z \in flight \/ z.copy.root = x.copy.root
    BY <2>1, <2>2
  <2> QED
    BY <1>1, <1>2, <1>8, <2>3 DEF Process
<1>9. CASE Retrieve(x)
  <2> DEFINE new == Fork(x.copy, x.joint)
  <2>1. x.stage = "retrieve" /\ x.stage \in Handlers
    BY <1>9 DEF Retrieve, Handlers
  <2>2. x.joint \in Node \ {Start}
    BY <2>1, MergerFacts
  <2>3. \A y \in Resume(x, x.todo) : y.copy.root = x.copy.root
    BY <1>1, <1>3, <2>1
  <2>4. ASSUME NEW order,
               NEW y \in SubmitAndResume(x,
                  [new EXCEPT !.done = MergedDone(new, order)], x.todo)
        PROVE  y.copy.root = x.copy.root
    <3> DEFINE copy == [new EXCEPT !.done = MergedDone(new, order)]
    <3>1. new \in Copy /\ new.root = x.copy.root /\ new.cur # Start
      BY <1>1, <2>2, ForkFacts
    <3>2. copy \in Copy /\ copy.root = x.copy.root /\ copy.cur # Start
      <4> HIDE DEF new
      <4> QED
        BY <3>1, MergedFacts
    <3>3. y \in SubmitAndResume(x, copy, x.todo)
      OBVIOUS
    <3> HIDE DEF copy
    <3> QED
      BY <1>1, <1>4, <2>1, <3>2, <3>3
  <2>5. \E N : /\ Replace(x, N)
               /\ \A y \in N : y.copy.root = x.copy.root
    <3>1. CASE Replace(x, Resume(x, x.todo))
      BY <2>3, <3>1
    <3>2. CASE Replace(x, {})
      BY <3>2
    <3>3. ASSUME NEW order, Replace(x, SubmitAndResume(x,
                   [new EXCEPT !.done = MergedDone(new, order)], x.todo))
          PROVE  \E N : /\ Replace(x, N)
                        /\ \A y \in N : y.copy.root = x.copy.root
      BY <2>4, <3>3
    <3> QED
      BY <1>9, <3>1, <3>2, <3>3 DEF Retrieve
  <2>6. /\ flight \ flight' \subseteq {x}
        /\ \A y \in flight' : y \in flight \/ y.copy.root = x.copy.root
    BY <2>5 DEF Replace
  <2> QED
    BY <1>2, <1>9, <2>6 DEF Retrieve
<1>10. CASE Record(x)
  BY <1>10 DEF Record, Replace
<1> QED
  BY <1>5, <1>6, <1>7, <1>8, <1>9, <1>10 DEF Progress

\* Work on one task keeps the others safe.
LEMMA SafeElsewhere ==
  ASSUME IInv, NEW x \in flight, Progress(x), NEW r \in Task, r # x.copy.root, Safe(r)
  PROVE  Safe(r)'
<1>1. /\ executed'[r] = executed[r] /\ store'[r] = store[r]
      /\ \A d \in Device : r \in files[d] => r \in files'[d]
      /\ r \in generated' <=> r \in generated
      /\ \A y : y \in flight' /\ y.copy.root = r <=> y \in flight /\ y.copy.root = r
  BY ProgressLocal
<1> QED
  BY <1>1, SafeFrame DEF IInv

\* A fault that does not strike a task does not touch it.
LEMMA SafeFault ==
  ASSUME IInv, Failure, NEW r \in Task \ hurt', Safe(r)
  PROVE  Safe(r)'
<1>1. TypeOK /\ store \in [Task -> [Node -> SUBSET Copy]] /\ files \in [Device -> SUBSET Task]
  BY DEF IInv, TypeOK
<1>2. ASSUME NEW x \in flight, x.copy.root # r, NEW N,
             flight' = (flight \ {x}) \cup N, \A y \in N : y.copy.root = x.copy.root
      PROVE  \A y : y \in flight' /\ y.copy.root = r <=> y \in flight /\ y.copy.root = r
  BY <1>2
<1>3. ASSUME NEW x \in flight, Drop(x) PROVE Safe(r)'
  <2>1. x.copy.root # r /\ flight' = (flight \ {x}) \cup {}
        /\ UNCHANGED <<generated, store, files, executed>>
    BY <1>3 DEF Drop, Fault, Replace
  <2>2. \A y : y \in flight' /\ y.copy.root = r <=> y \in flight /\ y.copy.root = r
    BY <1>2, <2>1
  <2> QED
    BY <1>1, <2>1, <2>2, SafeFrame
<1>4. ASSUME NEW x \in flight, x.stage \in Handlers, x.copy.root # r,
             NEW todo \in SUBSET Node, flight' = (flight \ {x}) \cup Resume(x, todo),
             UNCHANGED <<generated, files, executed>>, store'[r] = store[r]
      PROVE  Safe(r)'
  <2>1. x \in Work
    BY DEF IInv, TypeOK
  <2>2. \A y \in Resume(x, todo) : y.copy.root = x.copy.root
    BY <1>4, <2>1, ResumeFacts
  <2>3. \A y : y \in flight' /\ y.copy.root = r <=> y \in flight /\ y.copy.root = r
    BY <1>2, <1>4, <2>2
  <2> QED
    BY <1>1, <1>4, <2>3, SafeFrame
<1>5. ASSUME NEW x \in flight, RetrieveFails(x) PROVE Safe(r)'
  <2>1. /\ x.stage \in Handlers /\ x.copy.root # r
        /\ flight' = (flight \ {x}) \cup Resume(x, x.todo)
        /\ UNCHANGED <<generated, files, executed>>
        /\ UNCHANGED store \/ store' = [store EXCEPT ![x.copy.root][x.joint] = {}]
    BY <1>5 DEF RetrieveFails, Fault, Replace, Handlers
  <2>2. store'[r] = store[r] /\ x.todo \in SUBSET Node
    BY <1>1, <2>1, WorkFacts DEF TypeOK
  <2> QED
    BY <1>4, <2>1, <2>2
<1>6. ASSUME NEW x \in flight, NEW n \in x.todo, StoreFails(x, n) PROVE Safe(r)'
  <2>1. /\ x.stage \in Handlers /\ x.copy.root # r
        /\ flight' = (flight \ {x}) \cup Resume(x, x.todo \ {n})
        /\ UNCHANGED <<generated, files, executed>>
        /\ \/ UNCHANGED store
           \/ store' = [store EXCEPT ![x.copy.root][n] = @ \cup {Fork(x.copy, n)}]
    BY <1>6 DEF StoreFails, Fault, Replace, Handlers
  <2>2. store'[r] = store[r] /\ x.todo \ {n} \in SUBSET Node
    BY <1>1, <2>1, WorkFacts DEF TypeOK
  <2> QED
    BY <1>4, <2>1, <2>2
<1>7. ASSUME NEW q \in Task, NEW n \in Node, Expire(q, n) PROVE Safe(r)'
  <2>1. q # r /\ UNCHANGED <<flight, generated, files, executed>>
        /\ store' = [store EXCEPT ![q][n] = {}]
    BY <1>7 DEF Expire, Fault
  <2> QED
    BY <1>1, <2>1, SafeFrame
<1>8. ASSUME NEW d \in Device, NEW q \in Task, LoseFile(d, q) PROVE Safe(r)'
  <2>1. q # r /\ UNCHANGED <<flight, generated, store, executed>>
        /\ files' = [files EXCEPT ![d] = @ \ {q}]
    BY <1>8 DEF LoseFile, Fault
  <2>2. \A e \in Device : r \in files[e] => r \in files'[e]
    BY <1>1, <2>1
  <2> QED
    BY <1>1, <2>1, <2>2, SafeFrame
<1>9. ASSUME NEW d \in Device, NEW n \in Service, ClearQueue(d, n) PROVE Safe(r)'
  <2>1. PICK dropped \in SUBSET flight :
          /\ hurt' = hurt \cup {x.copy.root : x \in dropped}
          /\ flight' = flight \ dropped
          /\ files' = [files EXCEPT ![d] = @ \ {x.copy.root : x \in dropped}]
          /\ UNCHANGED <<generated, store, executed>>
    BY <1>9 DEF ClearQueue, Fault
  <2>2. \A x \in dropped : x.copy.root # r
    BY <2>1
  <2>3. \A e \in Device : r \in files[e] => r \in files'[e]
    BY <1>1, <2>1, <2>2
  <2>4. \A y : y \in flight' /\ y.copy.root = r <=> y \in flight /\ y.copy.root = r
    BY <2>1, <2>2
  <2> QED
    BY <1>1, <2>1, <2>3, <2>4, SafeFrame
<1> QED
  BY <1>3, <1>5, <1>6, <1>7, <1>8, <1>9 DEF Failure

-----------------------------------------------------------------------------
(* Steps on the task itself.                                                *)

\* A copy that a service or the cloud takes in is sent, and submitting it does
\* not raise.
LEMMA SubmitServed ==
  ASSUME NEW copy \in Copy, copy.cur # Start, NEW d \in Device,
         copy.cur = End \/ Reaches(copy.cur, copy.dev)
  PROVE  /\ ~Raises(copy, d, TRUE)
         /\ \E y \in Submit(copy, d, TRUE) : TRUE
         /\ \A y \in Submit(copy, d, TRUE) :
              /\ y.stage = "process" => y.dev = d
              /\ y.stage = "submit" => y.copy.dev = y.dev /\ Reaches(y.copy.cur, y.dev)
<1>1. copy \in [root : Task, past : Node \cup {NoNode}, cur : Node,
                done : SUBSET Node, dev : Device]
  BY DEF Copy
<1>2. CASE copy.cur = End
  <2>1. Submit(copy, d, TRUE) = {Request("distribute", copy, Cloud)}
    BY <1>2 DEF Submit
  <2>2. Request("distribute", copy, Cloud).stage = "distribute"
    BY DEF Request
  <2>3. ~Raises(copy, d, TRUE)
    BY <1>2 DEF Raises
  <2> QED
    BY <2>1, <2>2, <2>3
<1>3. CASE copy.cur # End /\ copy.dev # d
  <2>1. Submit(copy, d, TRUE) = {Request("submit", copy, copy.dev)}
    BY <1>3 DEF Submit
  <2>2. LET y == Request("submit", copy, copy.dev)
        IN  y.stage = "submit" /\ y.dev = copy.dev /\ y.copy = copy
    BY DEF Request
  <2>3. ~Raises(copy, d, TRUE)
    BY <1>3 DEF Raises, Missing
  <2> QED
    BY <1>3, <2>1, <2>2, <2>3
<1>4. CASE copy.cur # End /\ copy.dev = d /\ copy.cur \in Ports[d]
  <2>1. Submit(copy, d, TRUE) = {Request("process", copy, d)}
    BY <1>4 DEF Submit, Missing
  <2>2. LET y == Request("process", copy, d) IN y.stage = "process" /\ y.dev = d
    BY DEF Request
  <2>3. ~Raises(copy, d, TRUE)
    BY <1>4 DEF Raises, Missing
  <2> QED
    BY <2>1, <2>2, <2>3
<1>5. CASE copy.cur # End /\ copy.dev = d /\ copy.cur \notin Ports[d]
  <2>1. d # Cloud /\ Cloud \in Pods[copy.cur] /\ copy.cur \in Ports[Cloud]
    BY <1>5 DEF Reaches
  <2>2. Submit(copy, d, TRUE) = {Request("submit", [copy EXCEPT !.dev = Cloud], Cloud)}
    BY <1>5, <2>1 DEF Submit, Missing
  <2>3. ~Raises(copy, d, TRUE)
    BY <1>5, <2>1 DEF Raises
  <2>4. LET y == Request("submit", [copy EXCEPT !.dev = Cloud], Cloud)
        IN  y.stage = "submit" /\ y.dev = Cloud /\ y.copy.dev = Cloud /\ y.copy.cur = copy.cur
    BY <1>1 DEF Request
  <2> QED
    BY <2>1, <2>2, <2>3, <2>4 DEF Reaches
<1> QED
  BY <1>2, <1>3, <1>4, <1>5

\* A handler of a safe task sends the next copy on, and goes on itself.
LEMMA HandedOn ==
  ASSUME Served, IInv, NEW x \in flight, x.stage \in Handlers, FilesKept(x.copy.root),
         NEW n \in Node \ {Start}, NEW copy \in Copy,
         copy.root = x.copy.root, copy.cur = n, copy.dev = Plan[x.copy.root][n],
         NEW todo \in SUBSET Node
  PROVE  LET new == SubmitAndResume(x, copy, todo)
         IN  /\ \E y \in new : y.stage \in Dispatched /\ At(y, x.copy.root, n)
             /\ \A y \in new :
                  \/ /\ y.stage \in Dispatched /\ At(y, x.copy.root, n)
                     /\ y.stage = "process" => y.dev = x.dev
                     /\ y.stage = "submit" => y.copy.dev = y.dev /\ Reaches(y.copy.cur, y.dev)
                  \/ /\ y.stage \in {"fork", "return"}
                     /\ y.copy = x.copy /\ y.dev = x.dev /\ y.todo = todo
             /\ todo # {} => \E y \in new : /\ y.stage \in {"fork", "return"}
                                            /\ y.copy = x.copy /\ y.todo = todo
<1>1. /\ x \in Work /\ x.copy \in Copy /\ x.copy.root \in Task /\ x.dev \in Device
  BY WorkFacts DEF IInv, TypeOK
<1>2. (copy.root \in files[x.dev]) = TRUE
  BY DEF FilesKept
<1>3. n = End \/ Reaches(n, Plan[x.copy.root][n])
  <2>1. n = End \/ n \in Service
    BY NodeFacts
  <2> QED
    BY <1>1, <2>1 DEF Served, Reaches
<1>4. /\ ~Raises(copy, x.dev, TRUE)
      /\ \E y \in Submit(copy, x.dev, TRUE) : TRUE
      /\ \A y \in Submit(copy, x.dev, TRUE) :
           /\ y.stage = "process" => y.dev = x.dev
           /\ y.stage = "submit" => y.copy.dev = y.dev /\ Reaches(y.copy.cur, y.dev)
  BY <1>1, <1>3, SubmitServed
<1>5. \A y \in Submit(copy, x.dev, TRUE) : y.stage \in Dispatched /\ At(y, x.copy.root, n)
  BY <1>1, SubmitFacts
<1>6. SubmitAndResume(x, copy, todo) = Submit(copy, x.dev, TRUE) \cup Resume(x, todo)
  BY <1>2, <1>4 DEF SubmitAndResume
<1>7. \A y \in Resume(x, todo) :
        y.stage \in {"fork", "return"} /\ y.copy = x.copy /\ y.todo = todo
  BY <1>1, ResumeFacts
<1>8. \A y \in Resume(x, todo) : y.dev = x.dev
  BY <1>1 DEF Resume, Work
<1>9. todo # {} => Resume(x, todo) # {}
  BY DEF Resume
<1> QED
  BY <1>4, <1>5, <1>6, <1>7, <1>8, <1>9

\* What a step has to keep up for deliveries to stay delivered.
LEMMA KeepDelivered ==
  ASSUME NEW r \in Task, Delivered(r),
         \A n \in Node \ {Start} : Active(r, n) => Active(r, n)',
         \A p \in Node, n \in Node : Stored(r, p, n) => Stored(r, p, n)' \/ Active(r, n)',
         \A p \in Node : \A n \in Succ(p) :
           Emitted(r, p, n)' => Emitted(r, p, n) \/ Active(r, n)' \/ Stored(r, p, n)'
  PROVE  Delivered(r)'
<1>1. SUFFICES ASSUME NEW p \in Node, NEW n \in Succ(p), Emitted(r, p, n)'
               PROVE  Active(r, n)' \/ Stored(r, p, n)'
  BY DEF Delivered
<1>2. n \in Node \ {Start}
  BY NextFacts
<1> QED
  BY <1>1, <1>2 DEF Delivered

\* A generated task is safe.
LEMMA SafeGenerate ==
  ASSUME IInv, NEW r \in Task, Generate(r), Safe(r)
  PROVE  Safe(r)'
<1> DEFINE copy == [root |-> r, past |-> NoNode, cur |-> Start, done |-> {}, dev |-> Source[r]]
           y == Request("submit", copy, Source[r])
<1>1. y.stage = "submit" /\ At(y, r, Start) /\ y.copy.root = r /\ y.copy.cur = Start
  BY DEF Request, At
<1>2. /\ flight' = flight \cup {y} /\ UNCHANGED <<store, files, executed>>
  BY DEF Generate
<1> HIDE DEF y, copy
<1>3. FilesKept(r)'
  BY <1>1, <1>2 DEF Safe, FilesKept, Handlers
<1>4. Routed(r)'
  BY <1>1, <1>2 DEF Safe, Routed
<1>5. MergerReady(r)'
  BY <1>1, <1>2 DEF Safe, MergerReady, Stored
<1>6. FullMerges(r)'
  BY <1>2 DEF Safe, FullMerges, Stored
<1>7. Delivered(r)'
  <2>1. \A n \in Node : Active(r, n) => Active(r, n)'
    BY <1>2 DEF Active
  <2>2. \A p \in Node, n \in Node : Stored(r, p, n) => Stored(r, p, n)'
    BY <1>2 DEF Stored
  <2>3. Active(r, Start)'
    BY <1>1, <1>2 DEF Active, Dispatched
  <2>4. \A p \in Node, n \in Node : Emitted(r, p, n)' => Emitted(r, p, n)
    BY <1>1, <1>2, <2>3 DEF Emitted, Left, Pending, At, Handlers
  <2> QED
    BY <2>1, <2>2, <2>4, NodeFacts, KeepDelivered DEF Safe
<1> QED
  BY <1>3, <1>4, <1>5, <1>6, <1>7 DEF Safe

\* Received, it is still safe: its file is on the device.
LEMMA SafeReceive ==
  ASSUME IInv, NEW x \in flight, ReceiveTask(x), Safe(x.copy.root)
  PROVE  LET r == x.copy.root IN Safe(r)'
<1> SUFFICES ASSUME NEW r, r = x.copy.root PROVE Safe(r)'
  OBVIOUS
<1>1. /\ x.stage = "submit" /\ x.stage \in Dispatched /\ x.stage \notin Handlers
      /\ UNCHANGED <<generated, store, executed>>
  BY DEF ReceiveTask, Dispatched, Handlers
<1>2. /\ x \in Work /\ x.copy \in Copy /\ r \in Task /\ x.copy.cur \in Node
      /\ x.dev \in Device
  BY WorkFacts DEF IInv, TypeOK
<1>3. files' = [files EXCEPT ![x.dev] = @ \cup {r}]
  BY DEF ReceiveTask
<1>4. /\ r \in files'[x.dev]
      /\ \A d \in Device : r \in files[d] => r \in files'[d]
  BY <1>2, <1>3 DEF IInv, TypeOK
<1>5. \A z \in flight : z.dev \in Device
  BY WorkFacts DEF IInv, TypeOK
<1>6. \A z \in flight : At(z, r, x.copy.cur) => z = x
  BY DEF IInv, OneToken, At
<1>7. CASE x.copy.cur = Start
  <2> DEFINE y == Handler("fork", x.copy, x.dev, Succ(Start))
  <2>1. /\ y.stage = "fork" /\ y.copy = x.copy /\ y.dev = x.dev /\ y.todo = Succ(Start)
        /\ y.stage \in Handlers /\ y.stage \notin Dispatched
    BY DEF Handler, Handlers, Dispatched
  <2>2. flight' = (flight \ {x}) \cup {y}
    BY <1>7 DEF ReceiveTask, Replace
  <2> HIDE DEF y
  <2>3. FilesKept(r)'
    BY <1>4, <1>5, <2>1, <2>2 DEF Safe, FilesKept
  <2>4. Routed(r)'
    BY <2>1, <2>2 DEF Safe, Routed
  <2>5. MergerReady(r)'
    BY <1>1, <2>1, <2>2 DEF Safe, MergerReady, Stored
  <2>6. FullMerges(r)'
    BY <1>1, <2>2 DEF Safe, FullMerges, Stored
  <2>7. Delivered(r)'
    <3>1. \A n \in Node \ {Start} : Active(r, n) => Active(r, n)'
      BY <1>1, <1>7, <2>2 DEF Active, At
    <3>2. \A p \in Node, n \in Node : Stored(r, p, n) => Stored(r, p, n)'
      BY <1>1 DEF Stored
    <3>3. \A n \in Succ(Start) : Pending(r, Start, n)'
      BY <1>7, <2>1, <2>2 DEF Pending, At
    <3>4. \A p \in Node \ {Start}, n \in Node : Emitted(r, p, n)' => Emitted(r, p, n)
      BY <1>1, <2>2 DEF Emitted, Left, Pending
    <3>5. \A p \in Node : \A n \in Succ(p) : Emitted(r, p, n)' => Emitted(r, p, n)
      BY <3>3, <3>4, NodeFacts DEF Emitted
    <3> QED
      BY <1>2, <3>1, <3>2, <3>5, KeepDelivered DEF Safe
  <2> QED
    BY <2>3, <2>4, <2>5, <2>6, <2>7 DEF Safe
<1>8. CASE x.copy.cur # Start
  <2> DEFINE N == Submit(x.copy, x.dev, TRUE)
  <2>1. flight' = (flight \ {x}) \cup N
    BY <1>8 DEF ReceiveTask, Replace
  <2>2. Reaches(x.copy.cur, x.copy.dev)
    BY <1>1, <1>8 DEF Safe, Routed
  <2>3. /\ \E y \in N : TRUE
        /\ \A y \in N : /\ y.stage = "process" => y.dev = x.dev
                        /\ y.stage = "submit" => y.copy.dev = y.dev /\ Reaches(y.copy.cur, y.dev)
    BY <1>2, <1>8, <2>2, SubmitServed
  <2>4. \A y \in N : /\ y.stage \in Dispatched /\ y.stage \notin Handlers
                     /\ y.stage # "retrieve" /\ At(y, r, x.copy.cur)
    BY <1>2, <1>8, SubmitFacts DEF Dispatched, Handlers
  <2> HIDE DEF N
  <2>5. FilesKept(r)'
    BY <1>4, <1>5, <2>1, <2>3, <2>4 DEF Safe, FilesKept
  <2>6. Routed(r)'
    BY <2>1, <2>3 DEF Safe, Routed
  <2>7. MergerReady(r)'
    BY <1>1, <2>1, <2>4 DEF Safe, MergerReady, Stored
  <2>8. FullMerges(r)'
    BY <1>1, <2>1 DEF Safe, FullMerges, Stored
  <2>9. Delivered(r)'
    <3>1. Active(r, x.copy.cur)'
      BY <2>1, <2>3, <2>4 DEF Active
    <3>2. \A n \in Node : Active(r, n) => Active(r, n)'
      BY <1>1, <2>1, <3>1 DEF Active, At
    <3>3. \A p \in Node, n \in Node : Stored(r, p, n) => Stored(r, p, n)'
      BY <1>1 DEF Stored
    <3>4. \A p \in Node, n \in Node : Pending(r, p, n)' <=> Pending(r, p, n)
      BY <1>1, <2>1, <2>4 DEF Pending
    <3>5. \A p \in Node, n \in Node : Emitted(r, p, n)' => Emitted(r, p, n)
      BY <1>1, <3>2, <3>4, NodeFacts DEF Emitted, Left
    <3> QED
      BY <1>2, <3>2, <3>3, <3>5, NodeFacts, KeepDelivered DEF Safe
  <2> QED
    BY <2>5, <2>6, <2>7, <2>8, <2>9 DEF Safe
<1> QED
  BY <1>7, <1>8

\* The other edges of the handler that deals with the one to n.
LEMMA OtherEdges ==
  ASSUME IInv, NEW x \in flight, x.stage \in Handlers, NEW r, r = x.copy.root,
         NEW n, NEW todo, x.todo \ {n} \subseteq todo,
         UNCHANGED <<generated, executed>>,
         \A y \in flight' : y.copy.root = r /\ y.stage \in Handlers =>
            y \in flight \/ At(y, r, x.copy.cur),
         \A y \in flight : y # x => y \in flight',
         \A y \in flight' : y.stage \in Dispatched /\ At(y, r, Start) => y \in flight,
         todo # {} => \E y \in flight' : /\ y.stage \in Handlers
                                         /\ At(y, r, x.copy.cur) /\ y.todo = todo
  PROVE  \A p \in Node, m \in Node :
           <<p, m>> # <<x.copy.cur, n>> /\ Emitted(r, p, m)' => Emitted(r, p, m)
<1> SUFFICES ASSUME NEW p \in Node, NEW m \in Node, <<p, m>> # <<x.copy.cur, n>>,
                    Emitted(r, p, m)'
             PROVE  Emitted(r, p, m)
  OBVIOUS
<1>1. x.stage \notin Dispatched
  BY DEF Handlers, Dispatched
<1>2. Active(r, Start) => Active(r, Start)'
  BY <1>1 DEF Active
<1>3. Left(r, p)
  BY <1>2 DEF Emitted, Left
<1>4. ~Pending(r, p, m)
  <2> SUFFICES ASSUME NEW y \in flight, y.stage \in Handlers, At(y, r, p), m \in y.todo
               PROVE  Pending(r, p, m)'
    BY DEF Pending, Emitted
  <2>1. CASE y = x
    <3>1. p = x.copy.cur /\ m \in todo
      BY <2>1 DEF At
    <3> QED
      BY <3>1 DEF Pending, At
  <2>2. CASE y # x
    BY <2>2 DEF Pending
  <2> QED
    BY <2>1, <2>2
<1> QED
  BY <1>3, <1>4 DEF Emitted

\* Handing a task on keeps it safe: some device takes it.
LEMMA SafeForward ==
  ASSUME Served, IInv, NEW x \in flight, NEW n \in x.todo,
         SubmitNext(x, n) \/ Advance(x, n), Safe(x.copy.root)
  PROVE  LET r == x.copy.root IN Safe(r)'
<1> SUFFICES ASSUME NEW r, r = x.copy.root PROVE Safe(r)'
  OBVIOUS
<1> DEFINE copy == Fork(x.copy, n)
           todo == x.todo \ {n}
           N == SubmitAndResume(x, copy, todo)
<1>1. /\ x.stage \in Handlers /\ x.stage # "retrieve"
      /\ flight' = (flight \ {x}) \cup N
      /\ UNCHANGED <<generated, executed, store, files>>
  BY DEF SubmitNext, Advance, Replace, Handlers
<1>2. /\ x \in Work /\ x.copy \in Copy /\ r \in Task /\ x.copy.cur \in Node
      /\ n \in Node \ {Start} /\ todo \in SUBSET Node
  BY <1>1, WorkFacts, TodoNotEmitted DEF IInv, TypeOK
<1>3. copy \in Copy /\ copy.root = r /\ copy.cur = n /\ copy.dev = Plan[r][n]
  BY <1>2, ForkFacts DEF Fork, Copy
<1> HIDE DEF copy
<1>4. /\ \E y \in N : y.stage \in Dispatched /\ At(y, r, n)
      /\ \A y \in N :
           \/ /\ y.stage \in Dispatched /\ At(y, r, n)
              /\ y.stage = "process" => y.dev = x.dev
              /\ y.stage = "submit" => y.copy.dev = y.dev /\ Reaches(y.copy.cur, y.dev)
           \/ /\ y.stage \in {"fork", "return"}
              /\ y.copy = x.copy /\ y.dev = x.dev /\ y.todo = todo
      /\ todo # {} => \E y \in N : /\ y.stage \in {"fork", "return"}
                                   /\ y.copy = x.copy /\ y.todo = todo
  BY <1>1, <1>2, <1>3, HandedOn DEF Safe
<1> HIDE DEF N, todo
<1>5. r \in files[x.dev]
  BY <1>1 DEF Safe, FilesKept
<1>6. FilesKept(r)'
  BY <1>1, <1>4, <1>5 DEF Safe, FilesKept, Handlers, Dispatched
<1>7. Routed(r)'
  BY <1>1, <1>4 DEF Safe, Routed
<1>8. MergerReady(r)'
  BY <1>1, <1>4 DEF Safe, MergerReady, Stored, Dispatched
<1>9. FullMerges(r)'
  BY <1>1 DEF Safe, FullMerges, Stored
<1>10. Delivered(r)'
  <2>1. Active(r, n)'
    BY <1>1, <1>4 DEF Active
  <2>2. \A m \in Node : Active(r, m) => Active(r, m)'
    BY <1>1 DEF Active, Handlers, Dispatched
  <2>3. \A p \in Node, m \in Node : Stored(r, p, m) => Stored(r, p, m)'
    BY <1>1 DEF Stored
  <2>4. \A p \in Node, m \in Node :
          <<p, m>> # <<x.copy.cur, n>> /\ Emitted(r, p, m)' => Emitted(r, p, m)
    <3>1. \A y \in flight' : y.copy.root = r /\ y.stage \in Handlers =>
             y \in flight \/ At(y, r, x.copy.cur)
      BY <1>1, <1>4 DEF At, Handlers, Dispatched
    <3>2. \A y \in flight' : y.stage \in Dispatched /\ At(y, r, Start) => y \in flight
      BY <1>1, <1>2, <1>4 DEF At, Dispatched
    <3>3. todo # {} => \E y \in flight' : /\ y.stage \in Handlers
                                          /\ At(y, r, x.copy.cur) /\ y.todo = todo
      BY <1>1, <1>4 DEF At, Handlers
    <3>4. x.todo \ {n} \subseteq todo
      BY DEF todo
    <3> QED
      BY <1>1, <3>1, <3>2, <3>3, <3>4, OtherEdges
  <2>5. \A p \in Node : \A m \in Succ(p) :
          Emitted(r, p, m)' => Emitted(r, p, m) \/ Active(r, m)' \/ Stored(r, p, m)'
    BY <2>1, <2>4, NodeFacts
  <2> QED
    BY <1>2, <2>2, <2>3, <2>5, KeepDelivered DEF Safe
<1> QED
  BY <1>6, <1>7, <1>8, <1>9, <1>10 DEF Safe

\* Processing keeps it safe: a handler goes on from there.
LEMMA SafeProcess ==
  ASSUME IInv, IInv', NEW x \in flight, Process(x), Safe(x.copy.root)
  PROVE  LET r == x.copy.root IN Safe(r)'
<1> SUFFICES ASSUME NEW r, r = x.copy.root PROVE Safe(r)'
  OBVIOUS
<1> DEFINE n == x.copy.cur
           y == Handler("return", [x.copy EXCEPT !.done = @ \cup {n}], x.dev, Succ(n))
<1>1. /\ x.stage = "process" /\ x.stage \in Dispatched /\ x.stage \notin Handlers
      /\ UNCHANGED <<generated, store, files>>
  BY DEF Process, Dispatched, Handlers
<1>2. /\ x \in Work /\ x.copy \in Copy /\ r \in Task /\ n \in Node /\ n # Start
      /\ n \in Service
  BY <1>1, WorkFacts, NodeFacts DEF IInv, TypeOK, DispatchedShape
<1>3. r \in files[x.dev]
  BY <1>1 DEF Safe, FilesKept
<1>4. /\ executed' = [executed EXCEPT ![r][n] = executed[r][n] + 1]
      /\ flight' = (flight \ {x}) \cup {y}
  BY <1>3 DEF Process, Replace
<1>5. /\ y.stage = "return" /\ y.stage \in Handlers /\ y.stage \notin Dispatched
      /\ y.dev = x.dev /\ y.todo = Succ(n) /\ At(y, r, n)
  BY <1>2 DEF Handler, Handlers, Dispatched, Copy, At
<1>6. \A m \in Node : executed'[r][m] = IF m = n THEN executed[r][n] + 1 ELSE executed[r][m]
  <2>1. executed \in [Task -> [Node -> Nat]] /\ executed[r][n] + 1 \in Nat
    BY <1>2 DEF IInv, TypeOK
  <2> QED
    BY <1>2, <1>4, <2>1, TableUpdate
<1>7. executed'[r][n] > 0
  BY <1>2, <1>6 DEF IInv, TypeOK
<1> HIDE DEF y
<1>8. FilesKept(r)'
  BY <1>1, <1>3, <1>4, <1>5 DEF Safe, FilesKept
<1>9. Routed(r)'
  BY <1>4, <1>5 DEF Safe, Routed
<1>10. MergerReady(r)'
  BY <1>1, <1>4, <1>5 DEF Safe, MergerReady, Stored
<1>11. FullMerges(r)'
  BY <1>1, <1>4 DEF Safe, FullMerges, Stored
<1>12. Delivered(r)'
  <2>1. \A m \in Node \ {Start} : Active(r, m) => Active(r, m)'
    <3> SUFFICES ASSUME NEW m \in Node \ {Start}, Active(r, m) PROVE Active(r, m)'
      OBVIOUS
    <3>1. CASE m = n
      BY <1>7, <3>1 DEF Active
    <3>2. CASE m # n
      BY <1>4, <1>6, <3>2 DEF Active, At
    <3> QED
      BY <3>1, <3>2
  <2>2. \A p \in Node, m \in Node : Stored(r, p, m) => Stored(r, p, m)'
    BY <1>1 DEF Stored
  <2>3. \A m \in Succ(n) : Pending(r, n, m)'
    BY <1>4, <1>5 DEF Pending
  <2>4. ASSUME NEW p \in Node \ {n}, NEW m \in Node, Emitted(r, p, m)' PROVE Emitted(r, p, m)
    <3>1. Left(r, p)
      <4>1. CASE p = Start
        <5>1. Active(r, Start) => Active(r, Start)'
          BY <1>2, <1>4, <1>6, NodeFacts DEF Active, At
        <5> QED
          BY <1>1, <2>4, <4>1, <5>1 DEF Emitted, Left
      <4>2. CASE p # Start
        BY <1>6, <2>4, <4>2 DEF Emitted, Left
      <4> QED
        BY <4>1, <4>2
    <3>2. ~Pending(r, p, m)
      BY <1>1, <1>4, <2>4 DEF Emitted, Pending
    <3> QED
      BY <3>1, <3>2 DEF Emitted
  <2>5. \A p \in Node : \A m \in Succ(p) : Emitted(r, p, m)' => Emitted(r, p, m)
    BY <2>3, <2>4, NodeFacts DEF Emitted
  <2> QED
    BY <1>2, <2>1, <2>2, <2>5, KeepDelivered DEF Safe
<1> QED
  BY <1>8, <1>9, <1>10, <1>11, <1>12 DEF Safe

\* Branches from all predecessors, one from each, are as many as predecessors.
LEMMA AllPast ==
  ASSUME NEW S, NEW n \in Node,
         \A c \in S : c.past \in Prev(n),
         \A c, d \in S : c.past = d.past => c = d,
         \A p \in Prev(n) : \E c \in S : c.past = p
  PROVE  IsFiniteSet(S) /\ Cardinality(S) = Len(Dag[n].prev)
<1> DEFINE f == [c \in S |-> c.past]
<1>1. IsFiniteSet(Prev(n)) /\ Len(Dag[n].prev) = Cardinality(Prev(n))
  BY NodeFacts
<1>2. f \in Injection(S, Prev(n)) /\ f \in Surjection(S, Prev(n))
  BY DEF Injection, Surjection, IsInjective
<1> HIDE DEF f
<1>3. IsFiniteSet(S) /\ Cardinality(S) = Cardinality(Prev(n))
  BY <1>1, <1>2, FS_Injection
<1> QED
  BY <1>1, <1>3

\* So are the branches of a joint that is full, and the services they come from.
LEMMA FullCount ==
  ASSUME IInv, NEW r \in Task, NEW n \in Node, \A p \in Prev(n) : Stored(r, p, n)
  PROVE  /\ Cardinality(store[r][n]) = Len(Dag[n].prev)
         /\ Cardinality({t.past : t \in store[r][n]}) = Len(Dag[n].prev)
<1> DEFINE S == store[r][n]
<1>1. /\ \A c \in S : c.past \in Prev(n)
      /\ \A c, d \in S : c.past = d.past => c = d
  BY DEF IInv, StoreShape
<1>2. \A p \in Prev(n) : \E c \in S : c.past = p
  BY DEF Stored
<1>3. {t.past : t \in S} = Prev(n)
  BY <1>1, <1>2
<1>4. Cardinality(S) = Len(Dag[n].prev)
  <2> HIDE DEF S
  <2> QED
    BY <1>1, <1>2, AllPast
<1> QED
  BY <1>3, <1>4, NodeFacts

\* Storing a branch keeps it safe: either edges are missing, which somebody still
\* has to emit, or this branch goes on to retrieve.
LEMMA SafeStore ==
  ASSUME IInv, IInv', NEW x \in flight, NEW n \in x.todo, StoreBranch(x, n),
         Safe(x.copy.root)
  PROVE  LET r == x.copy.root IN Safe(r)'
<1> SUFFICES ASSUME NEW r, r = x.copy.root PROVE Safe(r)'
  OBVIOUS
<1> DEFINE p == x.copy.cur
           c == Fork(x.copy, n)
           todo == x.todo \ {n}
           z == [x EXCEPT !.stage = "retrieve", !.todo = @ \ {n}, !.joint = n]
           N == IF Cardinality(store'[r][n]) # Len(Dag[n].prev) THEN Resume(x, todo) ELSE {z}
<1>1. /\ x.stage = "return" /\ x.stage \in Handlers /\ x.stage \notin Dispatched
      /\ flight' = (flight \ {x}) \cup N
      /\ store' = [store EXCEPT ![r][n] = @ \cup {c}]
      /\ UNCHANGED <<generated, executed, files>>
  BY DEF StoreBranch, Replace, Handlers, Dispatched
<1>2. /\ x \in Work /\ x.copy \in Copy /\ r \in Task /\ p \in Node
      /\ n \in Node \ {Start} /\ todo \in SUBSET Node
  BY <1>1, WorkFacts, TodoNotEmitted DEF IInv, TypeOK
<1>3. c \in Copy /\ c.past = p
  BY <1>2, ForkFacts
<1>4. /\ \A y \in N : /\ y.stage \in {"fork", "return", "retrieve"}
                      /\ y.copy = x.copy /\ y.dev = x.dev /\ y.todo = todo
                      /\ y.stage = "retrieve" =>
                           y.joint = n /\ Cardinality(store'[r][n]) = Len(Dag[n].prev)
      /\ todo # {} => N # {}
      /\ Cardinality(store'[r][n]) = Len(Dag[n].prev) =>
           \E y \in N : y.stage = "retrieve" /\ y.copy.root = r /\ y.joint = n
  <2>1. /\ z.stage = "retrieve" /\ z.copy = x.copy /\ z.dev = x.dev
        /\ z.todo = todo /\ z.joint = n
    BY <1>2 DEF Work
  <2>2. \A y \in Resume(x, todo) :
          y.stage \in {"fork", "return"} /\ y.copy = x.copy /\ y.todo = todo
    BY <1>1, <1>2, ResumeFacts
  <2>3. \A y \in Resume(x, todo) : y.dev = x.dev
    BY <1>2 DEF Resume, Work
  <2>4. todo # {} => Resume(x, todo) # {}
    BY DEF Resume
  <2> HIDE DEF z
  <2> QED
    BY <2>1, <2>2, <2>3, <2>4
<1> HIDE DEF c, N, z
<1>5. \A m \in Node : store'[r][m] = IF m = n THEN store[r][n] \cup {c} ELSE store[r][m]
  <2>1. store \in [Task -> [Node -> SUBSET Copy]] /\ store[r][n] \cup {c} \in SUBSET Copy
    BY <1>2, <1>3 DEF IInv, TypeOK
  <2>2. \A q \in Task, m \in Node :
          [store EXCEPT ![r][n] = store[r][n] \cup {c}][q][m]
             = IF q = r /\ m = n THEN store[r][n] \cup {c} ELSE store[q][m]
    BY <1>2, <2>1, TableUpdate
  <2> QED
    BY <1>1, <1>2, <2>2
<1>6. \A q, m : m \in Node /\ Stored(r, q, m) => Stored(r, q, m)'
  BY <1>5 DEF Stored
<1>7. r \in files[x.dev]
  BY <1>1 DEF Safe, FilesKept
<1>8. FilesKept(r)'
  BY <1>1, <1>4, <1>7 DEF Safe, FilesKept
<1>9. Routed(r)'
  BY <1>1, <1>4 DEF Safe, Routed
<1>10. MergerReady(r)'
  <2> SUFFICES ASSUME NEW y \in flight', y.copy.root = r, y.stage = "retrieve",
                      NEW q \in Prev(y.joint)
               PROVE  Stored(r, q, y.joint)'
    BY DEF MergerReady
  <2>1. CASE y \in flight
    <3>1. y.joint \in Node
      BY <2>1, MergerFacts
    <3> QED
      BY <1>6, <2>1, <3>1 DEF Safe, MergerReady
  <2>2. CASE y \notin flight
    <3>1. y.joint = n /\ Cardinality(store'[r][n]) = Len(Dag[n].prev)
      BY <1>1, <1>4, <2>2
    <3>2. /\ \A b \in store'[r][n] : b.past \in Prev(n)
          /\ \A b, d \in store'[r][n] : b.past = d.past => b = d
      BY <1>2 DEF IInv, StoreShape
    <3>3. \E b \in store'[r][n] : b.past = q
      BY <1>2, <3>1, <3>2, AllStored
    <3> QED
      BY <3>1, <3>3 DEF Stored
  <2> QED
    BY <2>1, <2>2
<1>11. FullMerges(r)'
  <2> SUFFICES ASSUME NEW m \in Node \ {Start}, \A q \in Prev(m) : Stored(r, q, m)'
               PROVE  \E y \in flight' : y.stage = "retrieve" /\ y.copy.root = r /\ y.joint = m
    BY DEF FullMerges
  <2>1. CASE m = n
    <3>1. Cardinality(store'[r][n]) = Len(Dag[n].prev)
      <4>1. /\ \A b \in store'[r][n] : b.past \in Prev(n)
            /\ \A b, d \in store'[r][n] : b.past = d.past => b = d
        BY <1>2 DEF IInv, StoreShape
      <4>2. \A q \in Prev(n) : \E b \in store'[r][n] : b.past = q
        BY <2>1 DEF Stored
      <4>3. n \in Node
        BY <1>2
      <4> DEFINE S == store'[r][n]
      <4>4. /\ \A b \in S : b.past \in Prev(n)
            /\ \A b, d \in S : b.past = d.past => b = d
            /\ \A q \in Prev(n) : \E b \in S : b.past = q
        BY <4>1, <4>2
      <4> HIDE DEF S
      <4>5. Cardinality(S) = Len(Dag[n].prev)
        BY ONLY <4>3, <4>4, AllPast
      <4> QED
        BY <4>5 DEF S
    <3> QED
      BY <1>1, <1>4, <2>1, <3>1
  <2>2. CASE m # n
    <3>1. \A q \in Prev(m) : Stored(r, q, m)
      BY <1>5, <2>2 DEF Stored
    <3>2. PICK y \in flight : y.stage = "retrieve" /\ y.copy.root = r /\ y.joint = m
      BY <3>1 DEF Safe, FullMerges
    <3> QED
      BY <1>1, <3>2
  <2> QED
    BY <2>1, <2>2
<1>12. Delivered(r)'
  <2>1. \A m \in Node : Active(r, m) => Active(r, m)'
    BY <1>1 DEF Active
  <2>2. Stored(r, p, n)'
    BY <1>2, <1>3, <1>5 DEF Stored
  <2>3. \A q \in Node, m \in Node :
          <<q, m>> # <<p, n>> /\ Emitted(r, q, m)' => Emitted(r, q, m)
    <3>1. \A y \in flight' : y.copy.root = r /\ y.stage \in Handlers =>
             y \in flight \/ At(y, r, p)
      BY <1>1, <1>4 DEF At
    <3>2. \A y \in flight' : y.stage \in Dispatched /\ At(y, r, Start) => y \in flight
      BY <1>1, <1>4 DEF Dispatched
    <3>3. todo # {} => \E y \in flight' : /\ y.stage \in Handlers
                                          /\ At(y, r, p) /\ y.todo = todo
      BY <1>1, <1>4 DEF At, Handlers
    <3> QED
      BY <1>1, <3>1, <3>2, <3>3, OtherEdges
  <2>4. \A q \in Node : \A m \in Succ(q) :
          Emitted(r, q, m)' => Emitted(r, q, m) \/ Active(r, m)' \/ Stored(r, q, m)'
    BY <2>2, <2>3, NodeFacts
  <2>5. \A q \in Node, m \in Node : Stored(r, q, m) => Stored(r, q, m)'
    BY <1>6
  <2> QED
    BY <1>2, <2>1, <2>4, <2>5, KeepDelivered DEF Safe
<1> QED
  BY <1>8, <1>9, <1>10, <1>11, <1>12 DEF Safe

\* Retrieving keeps it safe: the merged copy goes on to a device that takes it.
LEMMA SafeRetrieve ==
  ASSUME Served, LcasFound, IInv, NEW x \in flight, Retrieve(x), Safe(x.copy.root)
  PROVE  LET r == x.copy.root IN Safe(r)'
<1> SUFFICES ASSUME NEW r, r = x.copy.root PROVE Safe(r)'
  OBVIOUS
<1> DEFINE n == x.joint
           tasks == store[r][n]
           new == Fork(x.copy, n)
<1>1. /\ x.stage = "retrieve" /\ x.stage \in Handlers /\ x.stage \notin Dispatched
      /\ UNCHANGED <<generated, executed, files>>
  BY DEF Retrieve, Handlers, Dispatched
<1>2. /\ x \in Work /\ x.copy \in Copy /\ r \in Task /\ x.copy.cur \in Node
      /\ n \in Node \ {Start} /\ x.copy.cur \in Prev(n) /\ x.todo \in SUBSET Node
      /\ n \notin x.todo
  BY <1>1, MergerFacts, WorkFacts DEF IInv, RetrieveShape
<1>3. \A p \in Prev(n) : Stored(r, p, n)
  BY <1>1 DEF Safe, MergerReady
<1>4. /\ Cardinality(tasks) = Len(Dag[n].prev)
      /\ Cardinality({t.past : t \in tasks}) = Len(Dag[n].prev)
      /\ Len(Dag[n].prev) \in Nat
  <2>1. Len(Dag[n].prev) = Cardinality(Prev(n)) /\ IsFiniteSet(Prev(n))
    BY <1>2, NodeFacts
  <2> QED
    BY <1>2, <1>3, <2>1, FullCount, FS_CardinalityType
<1>5. ~ \E t \in tasks : Lca[new.past][t.past] = NoNode
  <2>1. new.past = x.copy.cur
    BY <1>2, ForkFacts
  <2>2. \A t \in tasks : t.past \in Prev(n)
    BY <1>2 DEF IInv, StoreShape
  <2> QED
    BY <1>2, <2>1, <2>2 DEF LcasFound
<1>6. PICK order :
        /\ Replace(x, SubmitAndResume(x,
             [new EXCEPT !.done = MergedDone(new, order)], x.todo))
        /\ store' = [store EXCEPT ![r][n] = {}]
  <2>1. ~(Cardinality(tasks) < Len(Dag[n].prev))
    BY <1>4
  <2> QED
    BY <1>4, <1>5, <2>1 DEF Retrieve
<1> DEFINE copy == [new EXCEPT !.done = MergedDone(new, order)]
           N == SubmitAndResume(x, copy, x.todo)
<1>7. copy \in Copy /\ copy.root = r /\ copy.cur = n /\ copy.dev = Plan[r][n]
  <2>1. new \in Copy /\ new.root = r /\ new.cur = n /\ new.dev = Plan[r][n]
    BY <1>2, ForkFacts DEF Fork, Copy
  <2> HIDE DEF new
  <2>2. copy \in Copy /\ copy.root = r /\ copy.cur = n
    BY <2>1, MergedFacts
  <2>3. copy.dev = Plan[r][n]
    BY <2>1 DEF Copy
  <2> QED
    BY <2>2, <2>3
<1>8. flight' = (flight \ {x}) \cup N
  BY <1>6 DEF Replace
<1> HIDE DEF copy
<1>9. /\ \E y \in N : y.stage \in Dispatched /\ At(y, r, n)
      /\ \A y \in N :
           \/ /\ y.stage \in Dispatched /\ At(y, r, n)
              /\ y.stage = "process" => y.dev = x.dev
              /\ y.stage = "submit" => y.copy.dev = y.dev /\ Reaches(y.copy.cur, y.dev)
           \/ /\ y.stage \in {"fork", "return"}
              /\ y.copy = x.copy /\ y.dev = x.dev /\ y.todo = x.todo
      /\ x.todo # {} => \E y \in N : /\ y.stage \in {"fork", "return"}
                                     /\ y.copy = x.copy /\ y.todo = x.todo
  BY <1>1, <1>2, <1>7, HandedOn DEF Safe
<1> HIDE DEF N
<1>10. \A m \in Node : store'[r][m] = IF m = n THEN {} ELSE store[r][m]
  <2>1. store \in [Task -> [Node -> SUBSET Copy]]
    BY DEF IInv, TypeOK
  <2> QED
    BY <1>2, <1>6, <2>1, TableUpdate
<1>11. r \in files[x.dev]
  BY <1>1 DEF Safe, FilesKept
<1>12. FilesKept(r)'
  BY <1>1, <1>8, <1>9, <1>11 DEF Safe, FilesKept, Handlers, Dispatched
<1>13. Routed(r)'
  BY <1>8, <1>9 DEF Safe, Routed
<1>14. MergerReady(r)'
  <2> SUFFICES ASSUME NEW y \in flight', y.copy.root = r, y.stage = "retrieve",
                      NEW q \in Prev(y.joint)
               PROVE  Stored(r, q, y.joint)'
    BY DEF MergerReady
  <2>1. y \in flight /\ y # x
    BY <1>8, <1>9 DEF Dispatched
  <2>2. y.joint # n /\ y.joint \in Node
    BY <1>1, <2>1, MergerFacts DEF IInv, SingleMerger
  <2>3. Stored(r, q, y.joint)
    BY <2>1 DEF Safe, MergerReady
  <2> QED
    BY <1>10, <2>2, <2>3 DEF Stored
<1>15. FullMerges(r)'
  <2> SUFFICES ASSUME NEW m \in Node \ {Start}, \A q \in Prev(m) : Stored(r, q, m)'
               PROVE  \E y \in flight' : y.stage = "retrieve" /\ y.copy.root = r /\ y.joint = m
    BY DEF FullMerges
  <2>1. m # n
    <3>1. Stored(r, x.copy.cur, n)' => FALSE
      BY <1>2, <1>10 DEF Stored
    <3> QED
      BY <1>2, <3>1
  <2>2. \A q \in Prev(m) : Stored(r, q, m)
    BY <1>10, <2>1 DEF Stored
  <2>3. PICK y \in flight : y.stage = "retrieve" /\ y.copy.root = r /\ y.joint = m
    BY <2>2 DEF Safe, FullMerges
  <2> QED
    BY <1>8, <2>1, <2>3
<1>16. Delivered(r)'
  <2>1. Active(r, n)'
    BY <1>8, <1>9 DEF Active
  <2>2. \A m \in Node : Active(r, m) => Active(r, m)'
    BY <1>1, <1>8 DEF Active
  <2>3. \A p \in Node, m \in Node : Stored(r, p, m) => Stored(r, p, m)' \/ Active(r, m)'
    BY <1>10, <2>1 DEF Stored
  <2>4. \A p \in Node, m \in Node :
          <<p, m>> # <<x.copy.cur, n>> /\ Emitted(r, p, m)' => Emitted(r, p, m)
    <3>1. \A y \in flight' : y.copy.root = r /\ y.stage \in Handlers =>
             y \in flight \/ At(y, r, x.copy.cur)
      BY <1>8, <1>9 DEF At, Handlers, Dispatched
    <3>2. \A y \in flight' : y.stage \in Dispatched /\ At(y, r, Start) => y \in flight
      BY <1>2, <1>8, <1>9 DEF At, Dispatched
    <3>3. x.todo # {} => \E y \in flight' : /\ y.stage \in Handlers
                                            /\ At(y, r, x.copy.cur) /\ y.todo = x.todo
      BY <1>8, <1>9 DEF At, Handlers
    <3>4. \A y \in flight : y # x => y \in flight'
      BY <1>8
    <3> QED
      BY <1>1, <3>1, <3>2, <3>3, <3>4, OtherEdges
  <2>5. \A p \in Node : \A m \in Succ(p) :
          Emitted(r, p, m)' => Emitted(r, p, m) \/ Active(r, m)' \/ Stored(r, p, m)'
    BY <2>1, <2>4, NodeFacts
  <2> QED
    BY <1>2, <2>2, <2>3, <2>5, KeepDelivered DEF Safe
<1> QED
  BY <1>12, <1>13, <1>14, <1>15, <1>16 DEF Safe

\* Every step keeps the tasks no fault has struck safe or recorded.
LEMMA KeptStep ==
  ASSUME Served, LcasFound, IInv, IInv', Kept, [Next]_vars
  PROVE  Kept'
<1> SUFFICES ASSUME NEW r \in Task \ hurt', ~Recorded(r)' PROVE Safe(r)'
  BY DEF Kept
<1>1. hurt \subseteq hurt' /\ records \subseteq records'
  BY DEF Next, Progress, Failure, Generate, ReceiveTask, SubmitNext, Advance, Process,
     StoreBranch, Retrieve, Record, Drop, StoreFails, RetrieveFails, Expire, LoseFile,
     ClearQueue, Fault, vars
<1>2. Safe(r)
  BY <1>1 DEF Kept, Recorded
<1>3. ASSUME NEW q \in Task, Generate(q) PROVE Safe(r)'
  <2>1. CASE q = r
    BY <1>2, <1>3, <2>1, SafeGenerate
  <2>2. CASE q # r
    <3> DEFINE y == Request("submit",
                  [root |-> q, past |-> NoNode, cur |-> Start, done |-> {},
                   dev |-> Source[q]], Source[q])
    <3>1. y.copy.root = q
      BY DEF Request
    <3>2. /\ flight' = flight \cup {y} /\ UNCHANGED <<store, files, executed>>
          /\ generated' = generated \cup {q}
      BY <1>3 DEF Generate
    <3> HIDE DEF y
    <3>3. \A z : z \in flight' /\ z.copy.root = r <=> z \in flight /\ z.copy.root = r
      BY <2>2, <3>1, <3>2
    <3> QED
      BY <1>2, <2>2, <3>2, <3>3, SafeFrame DEF IInv
  <2> QED
    BY <2>1, <2>2
<1>4. ASSUME NEW x \in flight, Progress(x) PROVE Safe(r)'
  <2>1. CASE r # x.copy.root
    BY <1>2, <1>4, <2>1, SafeElsewhere
  <2>2. CASE r = x.copy.root
    <3>1. ~Record(x)
      <4> SUFFICES ASSUME Record(x) PROVE Recorded(r)'
        OBVIOUS
      <4>1. CASE \E row \in records : row.root = r
        BY <1>1, <4>1 DEF Recorded
      <4>2. CASE ~\E row \in records : row.root = r
        <5>1. [root |-> r, done |-> x.copy.done] \in records'
          BY <2>2, <4>2 DEF Record
        <5> QED
          BY <5>1 DEF Recorded
      <4> QED
        BY <4>1, <4>2
    <3> QED
      BY <1>2, <1>4, <2>2, <3>1, SafeReceive, SafeForward, SafeProcess, SafeStore,
         SafeRetrieve DEF Progress
  <2> QED
    BY <2>1, <2>2
<1>5. CASE Failure
  BY <1>2, <1>5, SafeFault
<1>6. CASE UNCHANGED vars
  BY <1>2, <1>6, SafeFrame DEF vars, IInv
<1> QED
  BY <1>3, <1>4, <1>5, <1>6 DEF Next

\* Where every service is served and every merge finds its common ancestor, a
\* task no fault has struck is never lost: it is recorded, or work on it is
\* under way.
THEOREM NoTaskLost == Served /\ LcasFound => (Spec => []NoSilentLoss)
<1> SUFFICES ASSUME Served, LcasFound PROVE Spec => []NoSilentLoss
  OBVIOUS
<1>1. Init => Kept
  <2> SUFFICES ASSUME Init, NEW r \in Task PROVE Safe(r)
    BY DEF Kept
  <2>1. FilesKept(r) /\ Routed(r) /\ MergerReady(r)
    BY DEF Init, FilesKept, Routed, MergerReady
  <2>2. Delivered(r)
    BY NodeFacts DEF Init, Delivered, Emitted, Left
  <2>3. FullMerges(r)
    BY DagAssumption DEF Init, FullMerges, Stored
  <2> QED
    BY <2>1, <2>2, <2>3 DEF Safe
<1>2. IInv /\ IInv' /\ Kept /\ [Next]_vars => Kept'
  BY KeptStep
<1>3. IInv /\ Kept => NoSilentLoss
  <2> SUFFICES ASSUME IInv, Kept, NEW r \in generated \ hurt, ~Recorded(r)
               PROVE  \E x \in flight : x.copy.root = r
    BY DEF NoSilentLoss, Recorded
  <2>1. r \in Task /\ Safe(r)
    BY DEF IInv, TypeOK, Kept
  <2> QED
    BY <2>1, SafeInFlight
<1> QED
  BY <1>1, <1>2, <1>3, Invariance, PTL DEF Spec

-----------------------------------------------------------------------------
(* Where the hypotheses hold: two shapes of the DAG that give them.         *)

\* The lists of predecessors are lists of nodes without repetition.
LEMMA DagListed == Listed(Dag)
<1>1. ASSUME NEW n \in Node PROVE Dag[n].prev \in Seq(Node) /\ IsInjective(Dag[n].prev)
  <2> DEFINE s == Dag[n].prev
  <2>1. s \in Seq(Node) /\ Len(s) = Cardinality(ToSet(s))
    BY DagAssumption DEF DagAssumption, Prev, PrevNodes
  <2> HIDE DEF s
  <2>2. Len(s) \in Nat /\ DOMAIN s = 1..Len(s) /\ s \in [1..Len(s) -> Node]
    BY <2>1
  <2>3. s \in Surjection(1..Len(s), ToSet(s))
    BY <2>2 DEF Surjection, ToSet
  <2>4. IsFiniteSet(1..Len(s)) /\ Cardinality(1..Len(s)) = Len(s)
    <3>1. 1 \in Int /\ Len(s) \in Int /\ (1 > Len(s) => Len(s) = 0) /\ Len(s) - 1 + 1 = Len(s)
      BY <2>2
    <3> QED
      BY <3>1, FS_Interval
  <2>5. s \in Injection(1..Len(s), ToSet(s))
    BY <2>1, <2>3, <2>4, FS_Surjection
  <2>6. IsInjective(s)
    BY <2>2, <2>5 DEF Injection, IsInjective
  <2> QED
    BY <2>1, <2>6 DEF s
<1>2. IsFiniteSet(Node) /\ Node = Nodes(Dag)
  BY DagAssumption DEF DagAssumption, Node
<1> QED
  BY <1>1, <1>2 DEF Listed

\* The start is upstream of everything.
LEMMA StartFirst ==
  ASSUME NEW n \in Node
  PROVE  Start \in Ancestors(Dag, n)
<1> DEFINE A == Ancestors(Dag, n)
<1>1. A \in SUBSET Node /\ A # {} /\ \A a \in A : Prev(a) \subseteq A
  BY UpstreamFacts
<1> HIDE DEF A
<1>2. PICK a \in A : Prev(a) \cap A = {}
  BY <1>1, FirstOf
<1>3. a \in Node /\ Prev(a) = {}
  BY <1>1, <1>2
<1>4. a = Start
  BY <1>3, DagAssumption DEF DagAssumption
<1> QED
  BY <1>2, <1>4 DEF A

\* Up from a node without joints on the way, one of two nodes is above the other.
LEMMA OneWayUp ==
  ASSUME NEW q \in Node,
         \A m \in Ancestors(Dag, q) : \A p1, p2 \in Prev(m) : p1 = p2,
         NEW a \in Ancestors(Dag, q), NEW x \in Ancestors(Dag, q)
  PROVE  x \in Ancestors(Dag, a) \/ a \in Ancestors(Dag, x)
<1> DEFINE A == Ancestors(Dag, q)
           B == {z \in A : z \in Ancestors(Dag, a) \/ a \in Ancestors(Dag, z)}
<1>1. Upward(Dag) /\ Node = Nodes(Dag) /\ \A n \in Node : Prev(n) = PrevNodes(Dag, n)
  BY DagFacts
<1>2. /\ A \subseteq Node /\ q \in A /\ \A z \in A : Prev(z) \subseteq A
      /\ \A D \in SUBSET Node : q \in D /\ (\A z \in D : Prev(z) \subseteq D) => A \subseteq D
  <2>1. /\ A \subseteq Nodes(Dag) /\ q \in A /\ \A z \in A : PrevNodes(Dag, z) \subseteq A
        /\ \A D \in SUBSET Nodes(Dag) :
             q \in D /\ (\A z \in D : PrevNodes(Dag, z) \subseteq D) => A \subseteq D
    BY <1>1, AncestorsClosure
  <2> HIDE DEF A
  <2> QED
    BY <1>1, <2>1
<1>3. \A m \in A : \A p1, p2 \in Prev(m) : p1 = p2
  OBVIOUS
<1>4. a \in A /\ x \in A
  OBVIOUS
<1>5. q \in B
  BY <1>2
<1> HIDE DEF A
<1>6. ASSUME NEW z \in B, NEW r \in Prev(z) PROVE r \in B
  <2>1. z \in A /\ r \in A /\ z \in Node /\ a \in Node
    BY <1>2, <1>4
  <2>2. CASE z \in Ancestors(Dag, a)
    <3>1. r \in Ancestors(Dag, a)
      BY <2>1, <2>2, UpstreamFacts
    <3> QED
      BY <2>1, <3>1
  <2>3. CASE z \notin Ancestors(Dag, a)
    <3>1. a \in Ancestors(Dag, z) /\ a # z
      BY <2>1, <2>3, UpstreamFacts
    <3>2. PICK p \in Prev(z) : a \in Ancestors(Dag, p)
      BY <1>1, <2>1, <3>1, AncestorsStep
    <3>3. p = r
      BY <1>3, <2>1
    <3> QED
      BY <2>1, <3>2, <3>3
  <2> QED
    BY <2>2, <2>3
<1>7. B \in SUBSET Node
  BY <1>2
<1> HIDE DEF B
<1>8. A \subseteq B
  BY <1>2, <1>5, <1>6, <1>7
<1>9. x \in B
  BY <1>4, <1>8
<1> QED
  BY <1>9 DEF B
\* Where no joint is upstream of another, every merge copies what the merging branch
\* lacks.
LEMMA UnnestedMerges == UnnestedJoints => MergesComplete
<1> SUFFICES ASSUME UnnestedJoints, NEW n \in Node, NEW p \in Prev(n), NEW q \in Prev(n),
                    Lca[p][q] # NoNode, NEW x \in Ancestors(Dag, q)
             PROVE  x \in Ancestors(Dag, p) \cup CopiedFrom[p][q] \cup {Start}
  BY DEF MergesComplete
<1>1. /\ Upward(Dag) /\ Downward(Dag) /\ Matched(Dag) /\ Acyclic(Dag)
      /\ Node = Nodes(Dag) /\ \A m \in Node : Prev(m) = PrevNodes(Dag, m)
  BY DagFacts, DagAssumption DEF DagAssumption, Downward, Matched, Prev, Succ, Node
<1>2. p \in Node /\ q \in Node
  BY NodeFacts
<1>3. CASE p = q
  BY <1>3
<1>4. CASE p # q
  <2> DEFINE a == Lca[p][q]
  <2>1. a = FindLca(Dag, p, q) /\ CopiedFrom[p][q] = MergeNodes(Dag, p, q)
    BY <1>2 DEF Lca, CopiedFrom
  <2>2. a \in Ancestors(Dag, p) /\ a \in Ancestors(Dag, q)
    <3>1. FindLca(Dag, p, q) \in CommonAncestors(Dag, p, q) \cup {NoNode}
      BY <1>1, <1>2, DagListed, FindLcaCommon
    <3> QED
      BY <2>1, <3>1 DEF CommonAncestors
  <2> HIDE DEF a
  <2>3. ASSUME NEW m \in Ancestors(Dag, q), NEW p1 \in Prev(m), NEW p2 \in Prev(m)
        PROVE  p1 = p2
    <3> DEFINE P == Prev(m)
    <3>1. IsFiniteSet(Prev(n)) /\ Cardinality(Prev(n)) > 1
      <4> DEFINE N == Prev(n)
      <4>1. IsFiniteSet(N) /\ Cardinality(N) \in Nat
        BY NodeFacts, FS_CardinalityType
      <4>2. p \in N /\ q \in N
        OBVIOUS
      <4> HIDE DEF N
      <4>3. Cardinality(N) # 0
        BY <4>1, <4>2, FS_EmptySet
      <4>4. Cardinality(N) # 1
        <5> SUFFICES ASSUME Cardinality(N) = 1 PROVE FALSE
          OBVIOUS
        <5>1. \E y : N = {y}
          BY <4>1, FS_Singleton
        <5> QED
          BY <1>4, <4>2, <5>1
      <4> QED
        BY <4>1, <4>3, <4>4 DEF N
    <3>2. m \in Node /\ m \in Ancestors(Dag, n) /\ m # n
      <4>1. q \in Ancestors(Dag, n) /\ Ancestors(Dag, q) \subseteq Node
        BY <1>2, UpstreamFacts
      <4>2. m \in Ancestors(Dag, n)
        BY <1>1, <4>1, AncestorsTransitive
      <4>3. n \notin Ancestors(Dag, q)
        BY <1>1 DEF Acyclic
      <4> QED
        BY <4>1, <4>2, <4>3
    <3>3. m # Start
      BY NodeFacts
    <3>4. Cardinality(P) = 1 /\ IsFiniteSet(P)
      BY <3>1, <3>2, <3>3, NodeFacts DEF UnnestedJoints, Upstream
    <3>5. p1 \in P /\ p2 \in P
      OBVIOUS
    <3> HIDE DEF P
    <3>6. \E y : P = {y}
      BY <3>4, FS_Singleton
    <3> QED
      BY <3>5, <3>6
  <2>4. CASE x \in Ancestors(Dag, p)
    BY <2>4
  <2>5. CASE x \notin Ancestors(Dag, p)
    <3>1. a \in Node /\ x \in Node
      BY <1>2, <2>2, UpstreamFacts
    <3>2. x \notin Ancestors(Dag, a) /\ x # a
      BY <1>1, <1>2, <2>2, <2>5, AncestorsTransitive
    <3>3. a \in Ancestors(Dag, x)
      BY <1>2, <2>2, <2>3, <3>2, OneWayUp
    <3>4. x \in ForwardReachable(Dag, a)
      BY <1>1, <3>1, <3>3, ForwardIsDownstream
    <3>5. x \in MergeNodes(Dag, p, q)
      BY <2>1, <3>2, <3>4 DEF MergeNodes, IntermediateNodes
    <3> QED
      BY <2>1, <3>5
  <2> QED
    BY <2>4, <2>5
<1> QED
  BY <1>3, <1>4

\* Where the branches of a joint have equally much upstream, find_lca never raises.
LEMMA EvenFindsLcas == EvenBranches => LcasFound
<1> SUFFICES ASSUME EvenBranches, NEW n \in Node, NEW p \in Prev(n), NEW q \in Prev(n)
             PROVE  Lca[p][q] # NoNode
  BY DEF LcasFound
<1>1. p \in Node /\ q \in Node /\ NoNode \notin Node /\ Node = Nodes(Dag)
  BY NodeFacts, DagFacts
<1>2. Start \in CommonAncestors(Dag, p, q)
  BY <1>1, StartFirst DEF CommonAncestors
<1>3. Cardinality(Ancestors(Dag, p)) = Cardinality(Ancestors(Dag, q))
  BY DEF EvenBranches
<1>4. FindLca(Dag, p, q) # NoNode
  BY <1>1, <1>2, <1>3, DagListed, FindLcaGivesUp
<1> QED
  BY <1>1, <1>4 DEF Lca

\* On a DAG none of whose joints is upstream of another, recorded results are complete,
\* and every service gets what it needs, whichever branch arrives last and in whatever
\* order the others are merged (controller.py:254).
THEOREM UnnestedResultsComplete == UnnestedJoints => (Spec => []ResultComplete /\ []CarriesUpstream)
<1>1. UnnestedJoints => MergesComplete
  BY UnnestedMerges
<1> QED
  BY <1>1, ResultsComplete, ResultsCarried

\* On a DAG whose branches have equally much upstream, no task is lost without a fault
\* when every service is served (controller.py:260).
THEOREM EvenNoTaskLost == EvenBranches /\ Served => (Spec => []NoSilentLoss)
<1>1. EvenBranches => LcasFound
  BY EvenFindsLcas
<1> QED
  BY <1>1, NoTaskLost

=============================================================================
