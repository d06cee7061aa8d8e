------------------------------ MODULE TaskFlow ------------------------------
(***************************************************************************)
(* How one task travels through the DAG of services: controllers on every  *)
(* device, processors, the Redis join store and the distributor            *)
(* (core/controller, core/processor, core/distributor).                    *)
(*                                                                         *)
(* Controllers and processors answer an HTTP request at once and do the    *)
(* work in a background task, and http_request makes a single attempt, so  *)
(* everything in progress is a set of independent pieces of work, flight.  *)
(* A task forks into copies, one per edge of the DAG it follows; copies    *)
(* meet again at services with several predecessors, through Redis.        *)
(***************************************************************************)
EXTENDS ServiceDag

CONSTANTS
  Task,          \* tasks cut by the generators, identified by their root uuid
  Device,
  Cloud,         \* NodeInfo.get_cloud_node()
  Dag,           \* the validated service DAG, see ServiceDag
  Start, End,    \* TaskConstant.START and END
  Source,        \* the device of each task's generator
  Plan,          \* the offloading plan each task left the scheduler with
  Ports,         \* PortInfo: the services with a port on each device
  Pods,          \* KubeConfig: the devices each service is deployed on
  Display,       \* the controller's DISPLAY switch: results carry the file
  MaxFaults      \* bound: faults injected in a behaviour

Node == Nodes(Dag)
Service == Node \ {Start, End}
Prev(n) == PrevNodes(Dag, n)
Succ(n) == NextNodes(Dag, n)

\* What Task.extract_dag_from_dict leaves behind: one start, one end, the two
\* adjacency lists agree and name no neighbour twice.
ASSUME DagAssumption ==
  /\ {Start, End} \subseteq Node /\ Start # End /\ NoNode \notin Node
  /\ IsFiniteSet(Node)
  /\ \A n \in Node :
       /\ Dag[n].prev \in Seq(Node) /\ Succ(n) \subseteq Node
       /\ Len(Dag[n].prev) = Cardinality(Prev(n))
       /\ \A m \in Node : n \in Prev(m) <=> m \in Succ(n)
       /\ n # Start => Prev(n) # {}
       /\ n # End => Succ(n) # {}
  /\ Prev(Start) = {} /\ Succ(End) = {}
  /\ \A n \in Succ(Start) : Prev(n) = {Start}

\* DAG._check_cycles: no node is upstream of one of its predecessors.
ASSUME AcyclicAssumption ==
  \A n \in Node : \A p \in Prev(n) : n \notin Ancestors(Dag, p)

ASSUME SystemAssumption ==
  /\ Cloud \in Device
  /\ Source \in [Task -> Device]
  /\ Plan \in [Task -> [Node -> Device]]
  /\ Ports \in [Device -> SUBSET Service]
  /\ Pods \in [Service -> SUBSET Device]
  /\ Display \in BOOLEAN
  /\ MaxFaults \in Nat

VARIABLES
  generated,   \* tasks submitted by their generator
  flight,      \* pieces of work: requests under way and background tasks
  store,       \* store[r][n]: the Redis hash of root task r and joint n
  files,       \* files[d]: tasks whose file is in the temp directory of d
  executed,    \* history: executed[r][n], how often n processed a copy of r
  records,     \* rows of the distributor's table
  hurt,        \* history: tasks a fault has struck
  faults       \* faults injected so far

vars == <<generated, flight, store, files, executed, records, hurt, faults>>

Copy == [root : Task, past : Node \cup {NoNode}, cur : Node,
         done : SUBSET Node, dev : Device]

\* submit: to, then in, the submit_task background of controller dev
\* process: sent to, then queued at, the processor of copy.cur on dev
\* distribute: to the distributor
\* fork: submit_task of controller dev, sending a START task on
\* return: process_return of controller dev, todo are the joints left
\* retrieve: process_return between storing a branch and fetching the others
Dispatched == {"submit", "process", "distribute"}
Handlers == {"fork", "return", "retrieve"}

Work == [stage : Dispatched \cup Handlers, copy : Copy, dev : Device,
         todo : SUBSET Node, joint : Node \cup {NoNode}]

Request(stage, copy, dev) ==
  [stage |-> stage, copy |-> copy, dev |-> dev, todo |-> {}, joint |-> NoNode]

Handler(stage, copy, dev, todo) ==
  [stage |-> stage, copy |-> copy, dev |-> dev, todo |-> todo, joint |-> NoNode]

-----------------------------------------------------------------------------
(* Task.fork_task: the copy for the next service n.                        *)
Fork(copy, n) ==
  [copy EXCEPT !.past = copy.cur, !.cur = n, !.dev = Plan[copy.root][n]]

\* Controller.submit_task of a copy past START, on device d: what is sent,
\* nothing when the task is dropped.  file says whether d holds its file.
Missing(copy, d) == copy.dev = d /\ copy.cur \notin Ports[d]

Submit(copy, d, file) ==
  CASE copy.cur = End ->
         IF Display => file THEN {Request("distribute", copy, Cloud)} ELSE {}
    [] copy.cur # End /\ ~file -> {}
    [] copy.cur # End /\ file /\ copy.dev # d ->
         {Request("submit", copy, copy.dev)}
    [] copy.cur # End /\ file /\ copy.dev = d /\ ~Missing(copy, d) ->
         {Request("process", copy, d)}
    [] OTHER ->        \* not on this device: fall back to the cloud
         IF Cloud \in Pods[copy.cur] \ {d}
         THEN {Request("submit", [copy EXCEPT !.dev = Cloud], Cloud)}
         ELSE {}

\* Submitting raises, and takes the rest of the handler with it, when the file
\* to transmit cannot be opened, or when the cloud falls back to itself and
\* submit_task and send_task_to_service recurse without end.
Raises(copy, d, file) ==
  /\ copy.cur # End
  /\ \/ copy.dev # d /\ ~file
     \/ Missing(copy, d) /\ Cloud \in Pods[copy.cur] /\ (Cloud = d \/ ~file)

\* The handler x goes on with the nodes of todo, or ends.
Resume(x, todo) ==
  IF todo = {} THEN {}
  ELSE {[x EXCEPT !.stage = IF @ = "retrieve" THEN "return" ELSE @,
                  !.todo = todo, !.joint = NoNode]}

\* x submits copy and goes on with todo.
SubmitAndResume(x, copy, todo) ==
  LET file == copy.root \in files[x.dev]
  IN  Submit(copy, x.dev, file)
        \cup (IF Raises(copy, x.dev, file) THEN {} ELSE Resume(x, todo))

Replace(x, new) == flight' = (flight \ {x}) \cup new

-----------------------------------------------------------------------------
Init ==
  /\ generated = {}
  /\ flight = {}
  /\ store = [r \in Task |-> [n \in Node |-> {}]]
  /\ files = [d \in Device |-> {}]
  /\ executed = [r \in Task |-> [n \in Node |-> 0]]
  /\ records = {}
  /\ hurt = {}
  /\ faults = 0

\* Generator.submit_task_to_controller: START is placed on the source device.
Generate(r) ==
  /\ r \notin generated
  /\ generated' = generated \cup {r}
  /\ flight' = flight \cup
       {Request("submit",
                [root |-> r, past |-> NoNode, cur |-> Start, done |-> {},
                 dev |-> Source[r]], Source[r])}
  /\ UNCHANGED <<store, files, executed, records, hurt, faults>>

\* ControllerServer.submit_task_background: the file is saved, then the task
\* is submitted; a START task becomes a copy for each entry service.
ReceiveTask(x) ==
  /\ x.stage = "submit"
  /\ files' = [files EXCEPT ![x.dev] = @ \cup {x.copy.root}]
  /\ Replace(x, IF x.copy.cur = Start
                THEN {Handler("fork", x.copy, x.dev, Succ(Start))}
                ELSE Submit(x.copy, x.dev, TRUE))
  /\ UNCHANGED <<generated, store, executed, records, hurt, faults>>

\* The loop of submit_task over step_to_next_stage.
SubmitNext(x, n) ==
  /\ x.stage = "fork" /\ n \in x.todo
  /\ Replace(x, SubmitAndResume(x, Fork(x.copy, n), x.todo \ {n}))
  /\ UNCHANGED <<generated, store, files, executed, records, hurt, faults>>

\* Mutants of Process: the copy stays in the queue; a copy without a file is
\* returned as if processed; the result is not written into the task.
ProcessKeepsCopy(x) ==
  /\ x.stage = "process"
  /\ executed' = [executed EXCEPT ![x.copy.root][x.copy.cur] = @ + 1]
  /\ flight' = flight \cup
       {Handler("return", [x.copy EXCEPT !.done = @ \cup {x.copy.cur}],
                x.dev, Succ(x.copy.cur))}
  /\ UNCHANGED <<generated, store, files, records, hurt, faults>>

ProcessSkipsService(x) ==
  /\ x.stage = "process"
  /\ executed' = IF x.copy.root \in files[x.dev]
                 THEN [executed EXCEPT ![x.copy.root][x.copy.cur] = @ + 1]
                 ELSE executed
  /\ Replace(x, {Handler("return", [x.copy EXCEPT !.done = @ \cup {x.copy.cur}],
                         x.dev, Succ(x.copy.cur))})
  /\ UNCHANGED <<generated, store, files, records, hurt, faults>>

ProcessForgetsResult(x) ==
  /\ x.stage = "process"
  /\ executed' = [executed EXCEPT ![x.copy.root][x.copy.cur] = @ + 1]
  /\ Replace(x, {Handler("return", x.copy, x.dev, Succ(x.copy.cur))})
  /\ UNCHANGED <<generated, store, files, records, hurt, faults>>

\* ProcessorServer.loop_process: take a copy off the queue, run the service on
\* it, hand the result to the controller of the same device.  Without the file
\* detectors return nothing, and the copy is dropped, while classifiers return
\* an empty result.
Process(x) ==
  /\ x.stage = "process"
  /\ \/ LET n == x.copy.cur
        IN  /\ executed' = [executed EXCEPT ![x.copy.root][n] = @ + 1]
            /\ Replace(x, {Handler("return", [x.copy EXCEPT !.done = @ \cup {n}],
                                   x.dev, Succ(n))})
     \/ /\ x.copy.root \notin files[x.dev]
        /\ Replace(x, {})
        /\ UNCHANGED executed
  /\ UNCHANGED <<generated, store, files, records, hurt, faults>>

\* Mutant: a branch goes on through a joint without the others.
AdvanceUnjoined(x, n) ==
  /\ x.stage = "return" /\ n \in x.todo
  /\ Replace(x, SubmitAndResume(x, Fork(x.copy, n), x.todo \ {n}))
  /\ UNCHANGED <<generated, store, files, executed, records, hurt, faults>>

\* process_return, a next service with no other predecessor.
Advance(x, n) ==
  /\ x.stage = "return" /\ n \in x.todo
  /\ Len(Dag[n].prev) <= 1
  /\ Replace(x, SubmitAndResume(x, Fork(x.copy, n), x.todo \ {n}))
  /\ UNCHANGED <<generated, store, files, executed, records, hurt, faults>>

\* Mutants: every branch goes on to the merge; the count is one short.
StoreBranchUncounted(x, n) ==
  /\ x.stage = "return" /\ n \in x.todo
  /\ Len(Dag[n].prev) > 1
  /\ store' = [store EXCEPT ![x.copy.root][n] = @ \cup {Fork(x.copy, n)}]
  /\ Replace(x, {[x EXCEPT !.stage = "retrieve", !.todo = @ \ {n}, !.joint = n]})
  /\ UNCHANGED <<generated, files, executed, records, hurt, faults>>

StoreBranchOneShort(x, n) ==
  /\ x.stage = "return" /\ n \in x.todo
  /\ Len(Dag[n].prev) > 1
  /\ store' = [store EXCEPT ![x.copy.root][n] = @ \cup {Fork(x.copy, n)}]
  /\ Replace(x, IF Cardinality(store'[x.copy.root][n]) # Len(Dag[n].prev) - 1
                THEN Resume(x, x.todo \ {n})
                ELSE {[x EXCEPT !.stage = "retrieve", !.todo = @ \ {n}, !.joint = n]})
  /\ UNCHANGED <<generated, files, executed, records, hurt, faults>>

\* process_return and TaskCoordinator.store_task_data: HSET, EXPIRE and HLEN
\* are one Redis transaction; only the branch that completes the count goes on.
StoreBranch(x, n) ==
  /\ x.stage = "return" /\ n \in x.todo
  /\ Len(Dag[n].prev) > 1
  /\ store' = [store EXCEPT ![x.copy.root][n] = @ \cup {Fork(x.copy, n)}]
  /\ Replace(x, IF Cardinality(store'[x.copy.root][n]) # Len(Dag[n].prev)
                THEN Resume(x, x.todo \ {n})
                ELSE {[x EXCEPT !.stage = "retrieve", !.todo = @ \ {n}, !.joint = n]})
  /\ UNCHANGED <<generated, files, executed, records, hurt, faults>>

\* LCASolver and merge_task for every pair of past services.
Lca == [p \in Node |-> [q \in Node |-> FindLca(Dag, p, q)]]
CopiedFrom ==
  [p \in Node |-> [q \in Node |->
     IF Lca[p][q] = NoNode THEN {} ELSE MergeNodes(Dag, p, q)]]

\* Mutant: the other branches are not merged in.
MergedDoneOwn(copy, order) == copy.done

\* merge_task applied to the tasks in the order given: each overwrites the
\* services between the common ancestor and its own past service.
MergedDone(copy, order) ==
  {n \in Node :
     LET writers == {i \in DOMAIN order : n \in CopiedFrom[copy.past][order[i].past]}
     IN  IF writers = {} THEN n \in copy.done ELSE n \in order[Max(writers)].done}

\* Mutants: the hash is read but not deleted; a full hash is taken for a short one.
RetrieveNoDelete(x) ==
  /\ x.stage = "retrieve"
  /\ LET tasks == store[x.copy.root][x.joint]
         new == Fork(x.copy, x.joint)
     IN  IF Cardinality(tasks) < Len(Dag[x.joint].prev)
         THEN Replace(x, Resume(x, x.todo))
         ELSE \E order \in SetToSeqs(tasks) :
                Replace(x, SubmitAndResume(x,
                    [new EXCEPT !.done = MergedDone(new, order)], x.todo))
  /\ UNCHANGED <<generated, store, files, executed, records, hurt, faults>>

RetrieveNeverFull(x) ==
  /\ x.stage = "retrieve"
  /\ Cardinality(store[x.copy.root][x.joint]) <= Len(Dag[x.joint].prev)
  /\ Replace(x, Resume(x, x.todo))
  /\ UNCHANGED <<generated, store, files, executed, records, hurt, faults>>

\* process_return and TaskCoordinator.retrieve_task_data: the Lua script reads
\* and deletes the hash; the branches are then checked and merged, in the
\* arbitrary order of HGETALL.  A common ancestor that is not found raises.
Retrieve(x) ==
  /\ x.stage = "retrieve"
  /\ LET r == x.copy.root
         n == x.joint
         tasks == store[r][n]
         new == Fork(x.copy, n)
     IN  IF Cardinality(tasks) < Len(Dag[n].prev)
         THEN Replace(x, Resume(x, x.todo)) /\ UNCHANGED store
         ELSE /\ store' = [store EXCEPT ![r][n] = {}]
              /\ CASE Cardinality({t.past : t \in tasks}) # Len(Dag[n].prev) ->
                        Replace(x, Resume(x, x.todo))
                   [] \E t \in tasks : Lca[new.past][t.past] = NoNode ->
                        Replace(x, {})
                   [] OTHER -> \E order \in SetToSeqs(tasks) :
                        Replace(x, SubmitAndResume(x,
                            [new EXCEPT !.done = MergedDone(new, order)], x.todo))
  /\ UNCHANGED <<generated, files, executed, records, hurt, faults>>

\* Distributor.save_task_record: a second row of the same task is refused by
\* the primary key.
Record(x) ==
  /\ x.stage = "distribute"
  /\ records' = IF \E row \in records : row.root = x.copy.root THEN records
                ELSE records \cup {[root |-> x.copy.root, done |-> x.copy.done]}
  /\ Replace(x, {})
  /\ UNCHANGED <<generated, store, files, executed, hurt, faults>>

-----------------------------------------------------------------------------
(* Faults.  Each one marks the tasks it strikes.                           *)

Fault(roots) ==
  /\ faults < MaxFaults
  /\ faults' = faults + 1
  /\ hurt' = hurt \cup roots

\* A request that fails (http_request gives up and its caller does not look),
\* a processor that raises or returns nothing, a pod killed with its backlog.
Drop(x) ==
  /\ Fault({x.copy.root})
  /\ Replace(x, {})
  /\ UNCHANGED <<generated, store, files, executed, records>>

\* store_task_data swallows a Redis error and returns None, which is not the
\* required count; the transaction may have been applied or not.
StoreFails(x, n) ==
  /\ x.stage = "return" /\ n \in x.todo
  /\ Len(Dag[n].prev) > 1
  /\ Fault({x.copy.root})
  /\ \/ UNCHANGED store
     \/ store' = [store EXCEPT ![x.copy.root][n] = @ \cup {Fork(x.copy, n)}]
  /\ Replace(x, Resume(x, x.todo \ {n}))
  /\ UNCHANGED <<generated, files, executed, records>>

\* retrieve_task_data swallows a lock or Redis error and returns None; the
\* script may have deleted the hash or not.
RetrieveFails(x) ==
  /\ x.stage = "retrieve"
  /\ Fault({x.copy.root})
  /\ \/ UNCHANGED store
     \/ store' = [store EXCEPT ![x.copy.root][x.joint] = {}]
  /\ Replace(x, Resume(x, x.todo))
  /\ UNCHANGED <<generated, files, executed, records>>

\* The hash outlives REDIS_STORAGE_TIMEOUT.
Expire(r, n) ==
  /\ store[r][n] # {}
  /\ Fault({r})
  /\ store' = [store EXCEPT ![r][n] = {}]
  /\ UNCHANGED <<generated, flight, files, executed, records>>

\* FileCleaner removes a file whose task is still on the device.
LoseFile(d, r) ==
  /\ r \in files[d]
  /\ Fault({r})
  /\ files' = [files EXCEPT ![d] = @ \ {r}]
  /\ UNCHANGED <<generated, flight, store, executed, records>>

\* ProcessorServer.clear_queue on the processor of service n on d: some of its
\* queue is dropped, and the files of the dropped tasks with it.
ClearQueue(d, n) ==
  LET queue == {x \in flight : x.stage = "process" /\ x.dev = d /\ x.copy.cur = n}
  IN  \E dropped \in SUBSET queue \ {{}} :
        LET roots == {x.copy.root : x \in dropped}
        IN  /\ Fault(roots)
            /\ flight' = flight \ dropped
            /\ files' = [files EXCEPT ![d] = @ \ roots]
            /\ UNCHANGED <<generated, store, executed, records>>

-----------------------------------------------------------------------------
Progress(x) ==
  \/ ReceiveTask(x)
  \/ \E n \in x.todo : SubmitNext(x, n) \/ Advance(x, n) \/ StoreBranch(x, n)
  \/ Process(x)
  \/ Retrieve(x)
  \/ Record(x)

Failure ==
  \/ \E x \in flight : Drop(x) \/ RetrieveFails(x) \/ \E n \in x.todo : StoreFails(x, n)
  \/ \E r \in Task, n \in Node : Expire(r, n)
  \/ \E d \in Device, r \in Task : LoseFile(d, r)
  \/ \E d \in Device, n \in Service : ClearQueue(d, n)

Next ==
  \/ \E r \in Task : Generate(r)
  \/ \E x \in flight : Progress(x)
  \/ Failure

Spec == Init /\ [][Next]_vars

\* Every background task runs in a thread of its own and every processor loops
\* over its queue, so work on a task that stays possible is done.
WorkOn(r) == \E x \in flight : x.copy.root = r /\ Progress(x)
FairSpec == Spec /\ \A r \in Task : WF_vars(WorkOn(r))

-----------------------------------------------------------------------------
\* Every variable keeps its type, and the fault counters stay within their bounds.
TypeOK ==
  /\ generated \subseteq Task
  /\ flight \subseteq Work
  /\ store \in [Task -> [Node -> SUBSET Copy]]
  /\ files \in [Device -> SUBSET Task]
  /\ executed \in [Task -> [Node -> Nat]]
  /\ records \subseteq [root : Task, done : SUBSET Node]
  /\ hurt \subseteq Task
  /\ faults \in 0..MaxFaults

Ran(r, n) == executed[r][n] > 0

\* No service works on a task twice, whatever requests are lost and whichever
\* branches meet: the join of process_return elects one branch.
AtMostOnce == \A r \in Task, n \in Node : executed[r][n] <= 1

\* A service only gets a task all its predecessors have worked on: no branch
\* slips past a join, even when the store fails or the hash expires.
Precedence ==
  \A x \in flight : x.stage \in Dispatched /\ x.copy.cur # Start =>
    \A p \in Prev(x.copy.cur) \ {Start} : Ran(x.copy.root, p)

\* Once a joint's branches are merged none is left behind in Redis: a late
\* branch never finds the hash of a join that has already happened.
NoOrphanBranch ==
  \A r \in Task, n \in Node : store[r][n] # {} =>
    /\ ~Ran(r, n)
    /\ \A x \in flight : x.stage \in Dispatched => <<x.copy.root, x.copy.cur>> # <<r, n>>

\* At most one branch goes on from the store to the merge of a joint.
SingleMerger ==
  \A x, y \in flight :
    /\ x.stage = "retrieve" /\ y.stage = "retrieve"
    /\ x.copy.root = y.copy.root /\ x.joint = y.joint
    => x = y

\* A copy handed to a service carries the results of everything upstream of
\* it: merging branches completes the missing part (task.py:448).
Upstream(n) == Ancestors(Dag, n) \ {Start, n}
CarriesUpstream ==
  \A x \in flight : x.stage \in {"process", "distribute"} =>
    Upstream(x.copy.cur) \subseteq x.copy.done

\* A recorded result covers every service, each of which worked once.
ResultComplete ==
  \A row \in records : row.done = Service /\ \A n \in Service : executed[row.root][n] = 1

\* A task no fault has struck is never lost without a trace: it is recorded or
\* some work on it is under way.
NoSilentLoss ==
  \A r \in generated \ hurt :
    (\E row \in records : row.root = r) \/ (\E x \in flight : x.copy.root = r)

\* Every generated task is recorded, unless a fault strikes it.
EventuallyRecorded ==
  \A r \in Task :
    r \in generated ~> (r \in hurt \/ \E row \in records : row.root = r)

-----------------------------------------------------------------------------
(* What CarriesUpstream, ResultComplete and NoSilentLoss depend on.  The   *)
(* code checks none of it; a DAG or a deployment may be otherwise.         *)

\* Merging another branch copies what is upstream of it and not of the own.
MergesComplete ==
  \A n \in Node : \A p, q \in Prev(n) :
    Lca[p][q] # NoNode =>
      Ancestors(Dag, q) \subseteq Ancestors(Dag, p) \cup CopiedFrom[p][q] \cup {Start}

\* find_lca raises for no two branches that meet.
LcasFound == \A n \in Node : \A p, q \in Prev(n) : Lca[p][q] # NoNode

\* No joint is upstream of another: each of the branches that meet is a line.
UnnestedJoints ==
  \A n \in Node : Cardinality(Prev(n)) > 1 =>
    \A m \in Upstream(n) : Cardinality(Prev(m)) = 1

\* As many services are upstream of one branch of a joint as of another.
EvenBranches ==
  \A n \in Node : \A p, q \in Prev(n) :
    Cardinality(Ancestors(Dag, p)) = Cardinality(Ancestors(Dag, q))

\* Each service runs where the plan puts it, or the cloud stands in.
Served ==
  \A r \in Task, n \in Service :
    \/ n \in Ports[Plan[r][n]]
    \/ Plan[r][n] # Cloud /\ Cloud \in Pods[n] /\ n \in Ports[Cloud]

-----------------------------------------------------------------------------
(* The promise this traffic keeps: see DagExecution.                       *)
ranBar == [r \in Task |-> {n \in Node : Ran(r, n)}]
recordedBar == {row.root : row \in records}

Abstract == INSTANCE DagExecution
              WITH Needs <- [n \in Service |-> Prev(n) \ {Start}],
                   Exit <- Prev(End) \ {Start},
                   ran <- ranBar, recorded <- recordedBar

\* Whatever is lost or delayed, a task's services run in the order of its DAG,
\* each once, and its result is recorded once, after all of them.
ImplementsDagExecution == Abstract!Spec

=============================================================================
