# Formal models of dayu's task runtime

dayu runs video analytics across a cloud and many edge nodes. A user draws a
workflow of services, and the backend installs it and keeps redeploying its
processors as the scheduler asks. A task is cut from a stream by a generator,
gets an offloading plan from the scheduler, follows the DAG of its application
through processors on different nodes, handed on by the controllers of those
nodes, and ends as a row of the distributor's result table, from where the
backend fetches it for the results page. This directory models that circuit in
TLA+, checks the models with TLC and proves theorems about them with TLAPS.
Paths below are relative to `src/dependency/core` unless they begin with `src/`.

## 1. Inventory

| Component | State it keeps | Operations | Talks to |
|---|---|---|---|
| Controller (`controller/`) | none of its own but the temp directory of its node | `submit_task`, `process_return`, `clear_processor_queues`, health check | other controllers, local processors, Redis, distributor (HTTP) |
| Task coordinator (`controller/task_coordinator.py`) | one Redis hash per root task and joint, a lock, an expiry | `store_task_data`, `retrieve_task_data` | Redis |
| Task and DAG (`lib/content/`) | the copy's position, its DAG with results, its uuids | `fork_task`, `merge_task`, `step_to_next_stage`, `extract_dag_from_dict` | solvers |
| Solvers (`lib/solver/`) | depth and ancestor caches | `find_lca`, `get_intermediate_nodes`, path searches | - |
| Processor (`processor/`) | a task queue | receive, `loop_process`, `clear_queue` | controller of its node |
| Task queues (`lib/algorithms/task_queue`, `lib/common/queue.py`) | bounded queues | put (dropping), get, drain, clear | processor, backend |
| Distributor (`distributor/`) | SQLite table of results, write counter per process | save, prune, incremental query, clear, export | controllers, backend, scheduler |
| Generator (`generator/`) | next task number, current plan | getter loop, `request_schedule_policy`, `submit_task_to_controller` | scheduler, controller |
| Scheduler (`scheduler/`, `lib/common/resource.py`) | per-source plans and scenarios, resource table, resource locks | register, schedule, update, deployment and selection requests | generators, distributor, monitors, backend |
| Directories (`lib/network/port.py`, `lib/common/kube.py`) | cached ports and pods, refresh time | refresh, lookup | Kubernetes API |
| Temp files (`lib/common/file_ops.py`) | one file per task and node | save, remove, cleaner by age | controller, processor |
| Backend (`src/backend/`) | component YAML, query session, result queues, lock flags | install, uninstall, redeployment thread, result polling thread | Kubernetes, scheduler, distributor |
| Monitor (`monitor/`) | permitted device, last resources | measure, report, ask for the bandwidth lock | scheduler |
| Datasource, applications, frontend, learning agents | see section 7 | | |

How they interact: controllers, processors and the distributor answer an HTTP
request at once and do the work in a background task (`BackgroundTasks`, a
thread pool), so nothing orders two pieces of work. `http_request` makes one
attempt and returns `None` on failure, which callers on the task path ignore.
Branches of one task share nothing but the Redis hash of their joint and one
temp file per node. The controllers read ports and pods from caches.

What is hard, and what makes each component correct:

* **Fork and join.** Branches arrive at a joint on different nodes at the same
  time; storing a branch and fetching all of them are two Redis round trips;
  Redis errors are swallowed; hashes expire. Correct: every service works on a
  task at most once, after all its predecessors; one branch goes on from a
  joint; nothing stays behind; without faults nothing is lost.
* **Merging.** What a merged task carries depends on the solvers, on the branch
  that came last and on the order of `HGETALL`. Correct: all results computed
  upstream, none lost.
* **Result store.** Concurrent saves, pruning and clearing against a client that
  reads on from a ticket. Correct: the client misses nothing; the table stays
  bounded.
* **Queues.** Dropping and draining against the processing loop, and the two
  steps of the backend queue's `put`. Correct: an item waits, is processed,
  dropped or cleared, exactly one of them; the bound and the order hold.
* **Workflows.** The backend and the runtime each validate a workflow, in
  different ways. Correct: they agree, and what is built has the shape the
  controllers rely on.
* **Installation.** Install and uninstall requests against the redeployment
  thread, with two flags checked in steps of their own, Kubernetes calls that
  fail halfway and time-outs. Correct: the record and the cluster agree, the
  lock is never left behind, after an uninstall nothing is deployed.
* **Result polling.** A polling thread per query, queues drained while they are
  filled. Correct: results are shown in order and none is skipped.
* **Scheduling.** Generators, monitors and the scheduler restart and lose
  requests, pods come and go. Correct: one prober of the bandwidth, no data
  ingested under a plan from before an outage, and all of it known again in
  the end.

`PROJECT.json` lists the hazards at their lines.

## 2. Modules

| Module | What it is |
|---|---|
| `ServiceDag` | Pure operators: the adjacency lists of `DAG`, the two solvers, the set of services `merge_task` copies, and reference definitions of common and lowest common ancestors. |
| `DagBuild` | Pure operators: the backend's `check_dag`, the lists it hands on, `extract_dag_from_dict` with every check of `validate_dag`, and the longest-path search behind a task's total time. |
| `BranchMerge` | A workflow is drawn and checked, its DAG is built, the services work, and at every joint the branch that came last merges the others one by one in any order (`process_return`, `merge_task`). |
| `DagExecution` | The abstract promise: services of a task run in dependency order, each at most once; the result is recorded at most once, after the last services. |
| `TaskFlow` | The detailed model: controllers, processors, temp files, the Redis store, the distributor and their faults. Implements `DagExecution`. |
| `MCTaskFlow` | Two application DAGs, two deployments and the plan used by the TLC runs. |
| `ServiceDagProofs` | What the operators of `ServiceDag` compute on any finite DAG: ancestors, depths, intermediate nodes, and `find_lca`. |
| `BranchMergeProofs` | The two validations agree, what is built has the right shape, what merging keeps, the total time, for workflows of any size. |
| `TaskFlowProofs` | Inductive invariant, theorems and refinement proof of `TaskFlow`; complete results and no lost task. |
| `ProcessorQueue` | The queue of a processor: receiving threads, the processing loop, clear requests. |
| `ProcessorQueueProofs` | Inductive invariant and all safety properties of `ProcessorQueue`. |
| `Distributor` | The result store: saving threads step by step, pruning, the client's reads, clearing the database. |
| `MCDistributor` | Assignment of threads to server processes. |
| `DistributorProofs` | Type correctness; complete reads and the bound on the table for one saving thread. |
| `Deployment` | Install, uninstall and the redeployment threads of the backend over a cluster whose calls fail. |
| `MCDeployment` | Resources and plans. |
| `DeploymentProofs` | Inductive invariant of `Deployment`, its lock, the function components, and the agreement of record and cluster. |
| `QuerySession` | The results page: query sessions, polling threads, bounded queues. |
| `MCQuerySession` | Sources of the results. |
| `QuerySessionProofs` | Inductive invariant of `QuerySession`: bounded queues, results in order, none skipped. |
| `Scheduling` | The scheduler with generators, edge monitors, the distributor's feedback and the processors' pods; lost requests and restarts. |
| `SchedulingProofs` | Inductive invariant of `Scheduling` and its three safety properties. |

The modules meet where their components do: `BranchMerge` runs the operators of
`ServiceDag` on the DAGs of `DagBuild` and shows that these satisfy the assumption
on which `TaskFlow` and its proofs rest (`Enclosed`); `TaskFlow` refines
`DagExecution`; `QuerySession` reads the store of `Distributor` through the ticket
whose completeness `Distributor` is about; `Deployment` and `Scheduling` see each
other's side as nondeterminism (any plan; pods that come and go).

Definitions under a comment "Mutant" (`ForkWholePlan`, `ProcessKeepsCopy`, ...)
are faulty variants of the definition that follows. No specification uses
them; swapped in, each makes a property fail, which shows the property depends
on the code it is about.

### How TaskFlow corresponds to the code

`flight` is the set of pieces of work: a *dispatched* copy of a task (`submit`,
`process`, `distribute`: an HTTP request under way or the background task or
queue entry it became) or a *handler* in the middle of its loop (`fork`,
`return`, `retrieve`). A copy is its root uuid, past and current flow index, the
services whose results it carries (`done`) and the device of its current
service. Task and parent uuids are not kept: the copies of a task are told
apart by past and current service, and `AtMostOnce` and `OneToken` are what
makes that enough.

| Action | Code |
|---|---|
| `Generate` | `Generator.submit_task_to_controller` (generator.py:84) |
| `ReceiveTask` | `submit_task_background` (controller_server.py:105) with `submit_task` (controller.py:206) |
| `SubmitNext` | one turn of the START loop of `submit_task` (controller.py:218-221) |
| `Process` | `loop_process` and the hand-over to the controller (processor_server.py:218-255) |
| `Advance` | a turn of `process_return` for a service with one predecessor (controller.py:241-270) |
| `StoreBranch` | a turn for a joint, up to the count (controller.py:248-253, task_coordinator.py:22-35) |
| `Retrieve` | the rest of that turn: the Lua script, the checks, the merges, the submission (task_coordinator.py:40-101, controller.py:254-270) |
| `Record` | the insert of `save_task_record` (distributor.py:143-167) |
| `Drop`, `StoreFails`, `RetrieveFails`, `Expire`, `LoseFile`, `ClearQueue` | faults: a lost request or raising processor, swallowed Redis errors, the hash's expiry, the file cleaner, `clear_queue` |

`Submit` and `Raises` together are `submit_task` with the three sends: what is
sent on (possibly nothing), and whether an exception ends the rest of the
handler: opening a file that is gone, or the recursion between `submit_task`
and `send_task_to_service` that does not end when the cloud's deployment table
names a service its ports do not have.

A Redis transaction or script is one step; the round trips are separate steps.
The lock around the script guards nothing the script does not already make
atomic, so it only appears as a cause of `RetrieveFails`. The processor's queue
is a set: any order, no bound, and so covers what `ProcessorQueue` does in order; a
dropped task is the fault `Drop`. `Ports` and `Pods` are constants: a stale
directory is a constant that disagrees with the plan (run `uneven`), one that
changes under way is not modelled.

### How Distributor corresponds to the code

A saving thread goes through `Stamp` (the ctime is read), `Insert` (the
transaction: a new row, a Task Name Conflict, or a missing table),
`ReadCount`/`WriteCount` (the two halves of `+= 1`), `CheckCount`, `Prune`,
`ResetCount` and `SendScenario`. Threads of one process share the counter;
gunicorn starts four processes that share the file. `Query` is `query_result`
with the client keeping the returned ticket, as the backend does
(`src/backend/backend_core.py:782`); `RemoveFile` and `InitDb` are the two steps
of `clear_database`, between which a connection creates an empty file. Lock
timeouts of SQLite (5 s) are not modelled.

### How BranchMerge and DagBuild correspond to the code

`Init` draws any digraph without self-loops as the canvas submits it
(`handleNewSubmit`): both adjacency lists of a service, `_start` the services
without predecessors. `Check` is `update_dag_workflows` with `check_dag`; whether
the data of connected services fit is left open. `Extract` is
`extract_dag_from_dict` with both lists, as a generator gets them, or with
`next_nodes` only, as the scheduler does. From then on `carried[n]` is what the task of
service n carries once n has worked: `Fork` hands a copy of it to a service with one
predecessor, `Retrieve` and `MergeTask` are the merge of `process_return` at a joint,
and `Submit` hands the merged task to the joint. So a branch brings what the joints
before this one have left it, not all that was computed upstream. One joint is merged at
a time, as a merge only works on copies of its own; the traffic and its faults are
`TaskFlow`'s, and a task is over when `find_lca` raises. `LongestPath` takes any farthest entry of the heap: which of several
`heapq` returns depends on the entries' names and is not relied upon. A workflow given by hand to the API whose `prev` and `succ` lists
disagree is not drawn.

### How ProcessorQueue corresponds to the code

`Put` is one of the two background handlers with `LimitQueue.put` or
`SimpleQueue.put`; `Look`, `Get` and `Finish` are the steps of `loop_process`, whose
look at `empty()` takes no lock, so that `Clear` (`clear_queue` with `drain`) may come
in between and `get` return `None`. A task is its number in the order of puts.

### How Deployment corresponds to the code

Requests block the event loop, so one is served at a time; `request.stage` is where
in it. Each successful installation starts a thread; `thread[t].pc` is where in
`run_cycle_deploy` it is.

| Action | Code |
|---|---|
| `InstallFirst` | the first stage of `parse_and_apply_templates`: scheduler, distributor and monitor (`First`), recorded in `finally` whatever comes of it |
| `InstallStops` | the second stage raises before it deploys anything; `install_service` answers with a failure |
| `InstallSecond` | the second stage: controller and generator (`Late`) with the processors, recorded with the first, and the start of the thread |
| `Uninstall`, `SeeUnlocked`, `EndCycle`, `DeleteAll`, `WaitEmpty`, `ClearYaml` | `uninstall_service`: the wait for the lock, the flag, the record read, the deletion, the wait for the pods, the record forgotten |
| `Wake`, `MakePlan`, `Lock` | the head of the loop: the look at `is_cycle_deploy`, the answer of the scheduler (any plan, or the processors kept without one), `uninstall_lock` set |
| `Compare` | `parse_and_redeploy_services` up to the operations |
| `Operate`, `Settle` | `operate_processors`: the four batches and the wait for the pods |
| `ReadYaml`, `WriteYaml` | `update_component_yaml` |
| `Unlock` | the `finally` clause and the handlers |

A batch of API calls (`apply_custom_resources`, `delete_custom_resources`) is one
step; `CreateFails` and `DeleteFails` leave any part of it done. A create of a
name that exists and a delete of one that does not fail without a fault. Time-outs
(100, 200 and 300 s) are a failing outcome of the wait they guard.

`cluster` are the custom resources, `pods` those whose Deployment exists. A delete
removes the resources named, but every Deployment whose name starts with one of the
names (`Hit`, kube_helper.py:68), and the wait after a redeployment is for pods with such
a name anywhere in theirs (kube_helper.py:155). Processors are named
processor-<service>-<node> and function components differently, so a name that occurs in
that of another processor begins it: `Prefixes` are the pairs for which that is so, as
edge1 and edge10. Whether the operator, which is not in the repository, creates a
Deployment again that was taken along is left open (`Restore`), and no fairness is assumed
of it. `complete` is history: the record was last written by both stages of an
installation that found no older thread alive.

### How QuerySession corresponds to the code

Handlers run one at a time, polling threads beside them. `Submit` and `StartPoller`
are `submit_query` around its sleep; `Read`, `Drain` and `Respond` are
`get_task_result`, item by item, as threads put meanwhile. `Look`, `Ask`, `Parse`, `Find`,
`Evict`, `Put` are a polling thread from `is_get_result` to the two steps of
`Queue.put`; it may hold a queue that `stop_query` has already thrown away. Results
are numbered in the order of their ctime: what a ticket misses in the store
itself is the subject of `Distributor`.

### How Scheduling corresponds to the code

A generator's `at` is its place in the loop of `VideoGenerator.run`: `Check`, `Health`,
`Request` (schedule request with the after-schedule operation), `Filter` (the getter
filter that asks the scheduler's permission), a second `Request` when enough frames
have gone by, `Ingest`. A monitor asks for the lock on `available_bandwidth` once at
its start (`Ask`, `AskLost`) and then reports for ever (`Cycle`, which folds measuring,
posting and the wait). After 60 s without an answer a time-out, which is no `Exception`,
leaves the constructor: the process ends, and its pod starts again (`AskTimesOut`).
`GiveUp` is an exception before the first request, which is caught: this monitor never
asks again. `ProbeFails`: iperf3 ends in an error and 0 is reported, or it takes more
than 2 s and the time-out ends the thread of this one value, so that the monitor posts
the value of an earlier cycle or none at all. The scheduler is serial:
its handlers are coroutines without an `await` on the way, so a handler is one step
together with its caller. A lost report is the next report with a delay. `deploy`
are the pods: `check_services_running` lists them anew, so it is true of none, while
the fixed agent reads the cached table (`listed`). `fresh` and `amnesia` are history:
an answer since the last outage the generator saw, and a scheduler restart.

## 3. Properties and runs

| Run | Instance | Checks | Shows |
|---|---|---|---|
| `merge4` | every digraph of 4 services | `TypeOK`, `CheckedOnce`, `Enclosed`, `TotalTime`, `LcaCommon`, `FoundWhenEven`, `LineMergeComplete`, `MergeKeepsOwn` | backend and runtime accept the same workflows, and refuse only cycles; what is built is one start, one end and agreeing lists; total times are those of the slowest way; `find_lca` gives a common ancestor when it gives one and gives up only when there is more upstream of one branch than of the other; merging gives up what the last branch brought only where a branch it merges had lost that before, and is complete when there is no other joint upstream |
| `uneven` | 1 task, branches of 1, 2 and 3 services, edge and cloud, stale port, 3 faults | `AtMostOnce`, `Precedence`, `NoOrphanBranch`, `SingleMerger`, `ImplementsDagExecution` | fork and join are safe whatever three faults strike and also when the merge raises, and implement the promise |
| `shortcut` | 2 tasks, 2 entry services, a joint of three branches, no DISPLAY, 1 fault, fair | `CarriesUpstream`, `ResultComplete`, `NoSilentLoss`, `EventuallyRecorded` | copies carry everything upstream, recorded results are complete, only faults lose tasks, every other task is recorded |
| `dist_serial` | 1 thread, 4 tasks, pruning to 1 row every 2 writes, clearing | `IncrementalComplete`, `RetentionBound` | reads are complete and the table stays bounded when saves are not concurrent |
| `queue` | limit 3, 6 tasks, clear requests for all and for one | `Conserved`, `SizeBound`, `FirstInFirstOut`, `Leaves` | no task is lost or doubled between puts, loop and clearing; order and bound hold; nothing waits for ever |
| `redeploy` | 1 installation in two stages, uninstalls, 3 plans (a processor on edge1; one on edge10; both, the first updated), 2 faults, fair | `LockHeld`, `RecordsCore`, `Consistent`, `CoreUntouched`, `UninstallReturns`, `CycleEnds` | failures anywhere never leave the lock or touch a function component; record and cluster agree unless something went wrong, but for pods a deletion by prefix takes along; requests and threads end |
| `sessions` | 2 sessions, 2 results, a queue of 1, 1 lost answer, fair | `TypeOK`, `InOrder`, `NothingSkipped`, `EventuallyShown`, `PollersEnd` | the page gets results in order, and all but those dropped for newer ones |
| `scheduling` | 1 generator, 2 monitors, 1 outage, 1 fault, fair | `ExclusiveProbe`, `FreshBeforeIngest`, `AgentsAgree`, `EventuallyInformed`, `ReturnsToPlan`, `BandwidthHeard` | see the properties' comments |

`TypeOK` of `TaskFlow`, `Distributor`, `ProcessorQueue`, `Deployment` and `Scheduling` is
proved for every instance (section 4), so no run repeats it; that of `QuerySession` is
proved too and stays in `sessions`, as it bounds the queues.

The remaining runs are counterexamples, each to a sentence of the repository:

| Run | Sentence | What the code does |
|---|---|---|
| `lca_missing` | "Solve the lowest common ancestor (LCA) of two nodes in given DAG." (lca_solver.py:7) | Four services are enough for branches of lengths 1 and 3: the loop stops when the short side's queue is empty, before the long side reaches the start node, and `find_lca` raises. `process_return` has deleted the Redis hash by then, so the task is gone. |
| `merge_incomplete` | "Complete missing part of merged_task with other_task" (task.py:448) | Only services between the common ancestor and the other branch's last service are copied: results the other branch collected at a joint of its own, from outside that stretch, are dropped. |
| `dist_skipped` | "Incremental reads are driven solely by time_ticket." (distributor.py:21) | Two threads: the row stamped first is committed after the client read the other one; equal stamps are skipped too. |
| `uninstall_race` | "Uninstall deployed runtime components." (`src/docs/api/backend.md:93`), "Lock for uninstall operations to prevent inconsistent states" (`src/backend/backend_core.py:100`) | The thread looks at `is_cycle_deploy`, then asks the scheduler, then locks. An uninstall that sees no lock in between deletes everything and answers success; the thread goes on with the record it reads before that is forgotten and creates processors. |

What the passing properties leave out is stated in them. `CarriesUpstream`,
`ResultComplete` and `NoSilentLoss` hold on the DAG of `shortcut`; the runs
`merge_incomplete` and `lca_missing` show that they depend on the shape of the DAG, and
section 4 says on what exactly. `find_lca` takes candidates from the first level
where the searches meet, so it may return a common ancestor with a lower one below
it, and it may give up on branches of equal depth: `HigherAncestor` and `DeepAndLost` of
`MCTaskFlow` are two such DAGs, which TLC evaluates as assumptions.
What `merge_incomplete` shows at a joint spreads to the next: on the DAG `Nested` of
`MCTaskFlow`, of nine services and joints within the branches of others, a branch that
came without the result of x is copied over one that has it (`LossSpreads`, another of
these assumptions). That is why `MergeKeepsOwn` names what a merged branch had lost. With
four services no workflow has such a case, and the merging branch keeps all it brought;
the theorem `KeepsOwn` is about workflows of any size.
`IncrementalComplete` is checked with `Limit = 0`, the size the backend asks for; a
client with a limit gets the newest rows and a ticket past the others.
`RetentionBound` needs saves that are not concurrent: threads of one process may
lose an increment of the write counter, which puts pruning off.
`Consistent` excuses what `troubled` records: a failed or timed-out operation, an
uninstall that overtook a thread, two threads at once; and it does not say that a
processor runs whose name begins with that of another (`Exposed`): without this clause
TLC finds a redeployment, without any fault, after which processor-s-edge10 is recorded
and has no pods. `RecordsCore` asks for controller and generator only once the second
stage was recorded, and not where a thread of an earlier installation was left, which may
write back a record it has read between the two stages. `BandwidthHeard` holds as
finitely many probes fail (`MaxFaults`). `InOrder` excuses `crowded`:
a thread of the query before that delivers to the queues of this one.

**Bounds.** Four services: DAGs of up to three are sub-shapes of these, and the
smallest pair of branches `find_lca` gives up on, and the first incomplete merge, need
four. The dict is in the order of the numbers and every numbering of a workflow
is drawn, so every order of the dict is covered; each list is in dict order, while
the canvas may also order it as the edges were drawn. Times 0 and 1 in `TotalTime`
tell paths of different lengths apart. `MaxFaults`: one fault loses any message or
state, two cover a fault and the fault of what reacts to it; the safety properties
do not depend on the bound, see the proofs. `MaxTime`: one clock reading more than
there are tasks; time is otherwise unbounded. One task is enough for a join, as no
state but files and rows is shared between tasks; `shortcut` has two. `MaxPuts` is
twice the limit of the queue: it fills, drops and fills again. `redeploy` has one
installation, so its thread meets any number of uninstalls; two installations
without faults, four million states, keep the safety properties as well but take longer
than a run should. Two sessions are
the least in which a thread outlives its query, two results the least that can
come out of order or push one another out of a queue of one. Two devices compete
for the lock; sources do not share anything but the scheduler's tables, so one is
enough for the loops. `Interval = 1` makes a generator ask again after two rounds.

`CHECK_DEADLOCK FALSE` where tasks, clock readings, installations or results run
out and the system then rests; `scheduling` never rests and checks for deadlock.

**Fairness.** `TaskFlow`: weak fairness of `WorkOn(r)`: when some work on a task stays
possible, some is done. Background tasks run in threads of their own, and
`loop_process` takes from its queue as long as it is not empty. A faulted task is
excused: `http_request` never repeats a failed hop. `ProcessorQueue`: the loop has a
thread of its own and processing a task comes to an end. `Deployment`: requests and
threads go on (weak); `SeeUnlocked` is strongly fair, since the wait polls twice a
second while a thread that has unlocked sleeps for up to 20 s. `QuerySession`: handlers
and threads go on, and the page requests results every 2 seconds while a datasource
is open; submitting and stopping are up to the user. `Scheduling`: the loops of
generators and monitors go round and the cached table expires; that pods start is
not assumed but a premise of the properties (`Settled`). Its sources keep
delivering: an exhausted data source ingests nothing and is not modelled.

## 4. Proofs

All theorems hold for every value of the constants that satisfies the named
assumptions: `DagAssumption` (what `extract_dag_from_dict` leaves behind: one
start, one end, agreeing adjacency lists without repetition, entry services with the
start as only predecessor), `AcyclicAssumption` (what `validate_dag` refuses otherwise;
only the last parts of `TaskFlowProofs` need it), `ServicesAssumption` (finitely many
numbered services, none of them the start or the end), and `SystemAssumption`, `DistributorAssumption`,
`QueueAssumption`, `QueryAssumption`, `DeploymentAssumption` and `SchedulingAssumption`
(types of the parameters; function components and plans have different names, no
processor's name begins with that of a function component or the other way round, and
the first stage deploys some component). That
the code's DAGs satisfy the first two is itself a theorem, `EnclosedDag` of
`BranchMergeProofs`, for workflows of any size drawn on the canvas.

**TaskFlow.** `AtMostOnce`, `SingleMerger`, `Precedence` and `NoOrphanBranch` are
not inductive: none says why a branch cannot reach a joint twice. The invariant
`IInv` adds that. Say that service p has *emitted* its edge to n when p's copy
has been processed and no handler still has n to do (`Emitted`). Emission is
never undone, also by faults. `IInv` is the conjunction of

* `TypeOK`, `AtMostOnce`, `SingleMerger`;
* `OneToken`: a service of a task has at most one piece of work;
* `DispatchedShape`, `HandlerShape`, `ExecutedShape`: what stage, position and
  history of a piece of work have to do with each other;
* `ActiveShape`: a service that was ever handed the task has all its incoming
  edges emitted;
* `StoreShape`: what is in a hash was put there by different predecessors whose
  edge is emitted, for a joint not yet active;
* `RetrieveShape`: the branch that merges does so for a joint all of whose edges
  are emitted and which is not yet active.

A new copy for n is only made by the handler that still has its edge to n
pending (one predecessor) or holds the retrieve stage (a joint), so n was not
active before. The retrieve stage is entered with a hash as large as the number
of predecessors; by `StoreShape` its branches come from different ones, so all
edges are emitted and nobody can store again. `HandOverStep`, `StoredStep`,
`RetrieveStep` and the other step lemmas prove preservation action by action;
`Invariance` puts them together, and `TypeCorrect`, `WorkAtMostOnce`, `OneMerger`,
`InOrder` and `NothingLeftBehind` are its consequences. `Refinement` maps
`ran[r]` to the services with `executed > 0` and `recorded` to the roots of the
rows, and shows that `Process` is `Run` (or a stutter), `Record` of a new row is
`Finish`, and everything else a stutter.

**ServiceDag.** `Ancestors` and `IntermediateNodes` are iterations as long as there are
nodes. `Closure` shows that such an iteration ends in the least set that has the node
in it and is closed under the edges: as long as it grows, it grows by a node a round.
From it come `AncestorsTransitive`, `AncestorsStep` and, on a DAG without cycles, `FirstNode`
and `LastNode`: of any nodes, one has no predecessor among them and one no successor
(its *height*, the number of its ancestors, is the least or greatest). Nothing here
needs an induction theorem with an operator parameter: `LeastNat` and `AllNat` take
the least counterexample out of a set of numbers, and `Iterates` unfolds a loop of the
code, which the model writes as so many rounds, into a sequence of its states.

`find_lca` is such a loop: two searches that take turns. Its invariant (`Searching`, one
`Half` per side) says that a side has only seen ancestors of its own node, that every
seen node is expanded or in the queue, that with every expanded node its predecessors
are seen, and that both sides have expanded equally many. `SearchStands`: it holds in
every round, for as many rounds as there are nodes. So what it finds is seen from
both sides and therefore common: `FindLcaCommon`. It gives up when one side has nothing
left to expand. If equally many nodes are upstream of both, then neither side has,
both have seen all their ancestors, and if they have any in common they have met:
`FindLcaGivesUp`.

**Workflows and merging.** The invariant of `BranchMerge` is `MergeInv`: up to the check the
lists are those of a drawn workflow (`Drawing`), and it was accepted exactly if it
has no cycle; from the construction on the DAG is `Sound`, and the task of every service
carries results from upstream of it only (`Upstream`), all of them if there is no joint on
the way (`Line`); and while branches are merged (`Merging`) all of them have worked, and
the merged task lacks nothing the merging branch brought but what one of the branches
merged so far had lost (`Lost`).

* `SortFindsCycles`: the sort of the backend places all services exactly if there is
  no cycle. Its invariant (`Sorting`) is that a service's counter is the number of its
  predecessors not yet placed, and that those placed have no cycle; when the queue
  is empty, what is not placed has a predecessor that is not either, which on a DAG
  without cycles `FirstNode` excludes.
* `WorkflowBuilt`, `BuiltSound`: the runtime's start and end, its repair of one-sided
  lists and its entry services yield a DAG that is `Sound`, from either form of the dict;
  `EnclosedDag` and `AcceptedValidates` follow, the latter by following the depth-first
  search of `validate_dag` (`Stacked`: its stack names ancestors of the node at its top),
  so that `OnceChecked` holds: what the backend accepts the runtime builds, and
  what the backend refuses for a cycle has one.
* `CommonLca` and `EvenFound` apply `find_lca`'s theorems to the branches of a joint.
* `KeepsOwn`: what is copied is upstream of the other branch, so a merge invents no
  result, and one it blanks is one the other branch should have had and does not.
  `LinesComplete`: where no joint is upstream of this one, every branch has all that is
  upstream of it (`LineBranch`), and the way up from each is a line (`LineUpstream`), so
  that everything the merging branch lacks lies between the common ancestor and the
  other branch.

**Total time.** `TotalTimeRight`: the total time of a task is that of the slowest way from
start to end. The search takes the farthest entry off the heap although its weights
are not negative, so a node may be taken off and expanded several times, and what
it finds first is not final. Its invariant `Ways` says that every node reached has its
distance from a predecessor, which may have got farther since (`Traced`), and has passed
its own on to its children or still has it in the heap (`Relaxed`). When the heap is
empty, the distances therefore satisfy the equation that defines the heaviest way
(`LongestIsHeaviest`, for any choice among equally far entries). It does become empty: a
distance is at most the height of its node times the longest of the times
(`WithinLimit`), distances only grow, so no entry is put on the heap twice, and there are
finitely many.

**Results of a task.** `CarriesUpstream` and `ResultComplete` are about copies at two
stages only, and say nothing of the branches they were merged from. `Carry` adds what
every piece of work, every stored branch and every row has collected: a handler or a
stored branch covers its service and all upstream of it. A merged copy then brings all
upstream of the joint if each branch brings in what the merging one lacks. That is
`MergesComplete`, a condition on the DAG: for any two predecessors p and q of a joint
whose ancestor `find_lca` finds, what is upstream of q is upstream of p as well or is
copied by `merge_task`. The code does not check it, and `merge_incomplete` is a
workflow on which it fails, so it is a hypothesis of `ResultsCarried` and
`ResultsComplete`, never an assumption. `UnnestedResultsComplete` gives a shape of DAG on
which it holds, whatever its size: no joint is upstream of another
(`UnnestedMerges`, by the same argument as `LinesComplete`). `RecordedRan` needs no hypothesis: the work behind
a row is always complete, whatever of it the row shows.

`NoTaskLost` needs `LcasFound`, that `find_lca` raises for no two branches of a joint
(`lca_missing` has a workflow on which it does; `EvenNoTaskLost` shows that on DAGs whose
joints have branches with equally many services upstream it never does), and `Served`, that a service runs where
the plan sends it or, failing that, in the cloud. `NoSilentLoss` says that there is
some work left; why there must be takes the invariant `Kept`: of every task no fault
has struck and no row shows, `Safe` holds. Its parts: work that reads the file finds it
(`FilesKept`); a copy on its way is let in (`Routed`); what was emitted along an edge
reached the service or waits at the joint (`Delivered`); whoever retrieves finds all
branches (`MergerReady`), and when all are there somebody does (`FullMerges`). If such a
task had no work left, take the first node of its DAG that has not run (`FirstOf`,
where the DAG must be acyclic): its predecessors have run and emitted, so it is active,
or all its branches are stored and one of them is at work (`SafeInFlight`). The steps
that need care are the ones that end with less work than they began: the handler that
submits its last copy (`SafeForward`), the branch that is stored (`SafeStore`: the last
one stored sees as many branches as there are predecessors) and the merge
(`SafeRetrieve`: it raises only where the hypotheses fail). `SoundApplication` of
`MCTaskFlow` lets TLC show that the DAG and deployment of `shortcut` satisfy all three
hypotheses, and `UnnestedJoints`; `LossyApplication` that the DAG of `uneven` fails
`LcasFound`. `EvenBranches` holds where two branches of one service each meet, for
instance.

**Distributor.** `TypeCorrect` for any threads and processes (its invariant adds
that a thread about to insert holds a stamp). `SerialReadsComplete`: with one
saving thread and `Limit = 0` no row is missed, whatever is pruned or cleared;
its invariant `SInv` adds that rows and the ticket are never newer than the
thread's last stamp, and that a stamp not yet inserted is newer than both.
`SerialTableBounded`: with one saving thread the table holds at most `Retention +
PruneInterval` rows. Its invariant `Room` relates the size of the table to the
write counter at each stage of the thread: every row beyond what was retained has
been counted or is about to be. That pruning retains at most `Retention` rows
(`NewestBound`) rests on the oldest row it keeps, which exists because strict
inclusion of finite sets is well-founded (`Oldest`): all the others are newer than
it, and of those there are fewer than `Retention`.

**ProcessorQueue.** The invariant says that the queue holds the newest tasks without a
gap (`Consecutive`), that all older ones have left (`OlderLeft`), and for one reason
only (`OneReason`); `Conserved`, `FirstInFirstOut`, `SizeBound` and the type follow.
Without `Consecutive` nothing says which tasks a put or a clear takes out.

**Deployment.** `LockHeld` and `RecordsCore` are not inductive: a thread writes back
what it read earlier, merged with a plan it was given. `Inv` adds that every
thread's plan names no function component, that what it has read holds the components of
the first stage when it holds anything, and all of them where the record does
(`Recorded`, which is why `complete` asks that no older thread was left), and is not empty
when about to be written (`ThreadsSound`), and that threads start in turn (`Unstarted`).
`MergedIsRecord` is the lemma about the merge itself. `LockIsHeld`: the lock is set only
by a thread in its section, every exit of which clears it. `CoreLeftAlone`: thread steps
create plans and delete what the comparison found superfluous, neither of which names a
function component, nor begins the name of one (`CoreNotHit`).

`RecordAgrees`: while nothing is under way and nothing went wrong, the cluster has what is
recorded. This depends on where each thread and request stands, so `InvC` says, as
long as nothing went wrong: at most one thread is alive
(`OneLive`); it sleeps whenever no cycle is on; in each stage of its section cluster
and record differ by exactly what it has left to do (`Phase`); outside it they agree
(`Steady`); and an installation or uninstall finds the thread asleep, with the cluster it
is about to change (`Installing`, `Uninstalling`). Throughout, a resource without its pods
is one whose name begins with that of another (`Served`): a deletion of docs takes the
resources of their names along with their pods, and beyond these only pods it hits by a
prefix. Every way out of this sets `troubled`, which is what the step lemmas show.

**QuerySession.** `Inv` ties each thread's ticket to what it has handled and says when
a thread has a queue in hand (`PollerOK`, `Opened`); `TypeCorrect`, with the bound on every
queue, follows. `InOrder` and `NothingSkipped` are statements about what was shown and
what waits, so `Undisturbed` follows all that was delivered to a query: it rises up to
the result the thread handles next (`Rising`), every result before that was
delivered or dropped, and the queue has room when the thread is about to put, as
between its look and its put only the page touches the queue, and it only takes.
This holds as long as no thread of an earlier query has the queues in hand, which is
what `crowded` records.

**Scheduling.** The invariant falls into four parts no action ties together: the
bounds, the tables, the generators (`GeneratorOK`: what is not pending is fresh or
all cloud, and a round of ingestion starts below the threshold) and the lock (whoever
was answered was told the holder, as long as the scheduler remembers). `OneProbe`,
`Fresh` and `Agreement` follow.

**Only model-checked.** All liveness: `EventuallyRecorded`, `Leaves`, `UninstallReturns`,
`CycleEnds`, `EventuallyShown`, `PollersEnd`, `EventuallyInformed`, `ReturnsToPlan`,
`BandwidthHeard` (liveness under fairness is out of the prover's reach here). So are the
facts about single DAGs that TLC evaluates as assumptions of `MCTaskFlow`:
`HigherAncestor`, `DeepAndLost`, `LossSpreads`, `SoundApplication` and `LossyApplication`. All other
properties of the passing runs are theorems: without a hypothesis, or, for
`CarriesUpstream`, `ResultComplete` and `NoSilentLoss`, with the ones named above, and for
`IncrementalComplete` and `RetentionBound` with one saving thread.

## 5. Limits of the models

* Results are sets of service names: their content, timing records and the
  other `Task` fields are not modelled.
* A queue entry of `TaskFlow` and the request it came from are one state.
* The file that is shared by the copies of a task on one node is a flag;
  partial writes are not modelled.
* Lock time-outs of SQLite and restarts of the backend, whose record survives in a
  file while its flags do not, are not modelled.
* `Deployment` takes installations as the page offers them: not while pods exist.
* `release_lock` of the scheduler has no caller, so a lock is held for good.

## 6. Running

    tlc -config redeploy.cfg MCDeployment
    tlapm DeploymentProofs.tla

`PROJECT.json` names the module of every configuration, the lines every
definition stands for, and the findings.

## 7. Not modelled

The learning agents (`lib/algorithms/schedule_agent`, `lib/algorithms/shared`), the
bulk of the repository's own code, are numeric policies over continuous data: no
property of theirs is a matter of states and steps, and `TaskFlow`, `Deployment` and
`Scheduling` take any plan they produce. That an agent may keep the plan which the
backup policy overwrites (`scheduler.py:65`) is a hazard of theirs that remains
open. Applications are neural networks and vendored code. Compressors, filters of
frames, extractors, resource readers other than the bandwidth probe, the
datasource simulator, visualization and YAML texts are data processing or I/O
behind one call. The refresh of the port directory, the cleaner's scan and the
numbering of tasks across generator restarts are left as the hazards
`PROJECT.json` describes. The three path searches without a caller, the
frontend beyond what its pages submit and offer, scripts, build files and tools
hold no runtime state of the system.
