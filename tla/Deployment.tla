----------------------------- MODULE Deployment -----------------------------
(***************************************************************************)
(* How the backend installs, redeploys and uninstalls the system           *)
(* (src/backend/backend_core.py).  Requests are served one at a time by    *)
(* the event loop, which they block; every installation starts a thread    *)
(* that asks the scheduler for a deployment of the processors again and    *)
(* again and carries it out.  The two sides share the component YAML and   *)
(* two flags, is_cycle_deploy and uninstall_lock.                          *)
(*                                                                         *)
(* A batch of calls to the Kubernetes API is one step.  The operator gives *)
(* every custom resource a Deployment when it is created, and the pods of  *)
(* a resource exist as long as its Deployment does.                        *)
(***************************************************************************)
EXTENDS Naturals, FiniteSets

CONSTANTS
  Resource,     \* custom resources, each with the configuration it has
  NameOf,       \* the name of each: processor-<service>-<node>, or a component
  Core,         \* those of the function components
  First,        \* those of Core that the first stage deploys: scheduler,
                \* distributor and monitor
  Prefixes,     \* pairs of names of which the first begins the second
  Plans,        \* sets of processors the scheduler may ask for
  MaxInstalls,  \* bound: installations requested
  MaxFaults     \* bound: Kubernetes calls that fail, pods that never start

Names(docs) == {NameOf[d] : d \in docs}
OneEach(docs) == \A c, d \in docs : NameOf[c] = NameOf[d] => c = d

ASSUME DeploymentAssumption ==
  /\ Core \subseteq Resource /\ OneEach(Core)
  /\ First \subseteq Core /\ First # {}
  /\ \A x \in Prefixes : x[1] # x[2] /\ {x[1], x[2]} \cap Names(Core) = {}
  /\ \A plan \in Plans :
       plan \subseteq Resource /\ OneEach(plan) /\ Names(plan) \cap Names(Core) = {}
  /\ MaxInstalls \in Nat /\ MaxFaults \in Nat

VARIABLES
  cluster,    \* the custom resources that exist
  pods,       \* those of which the Deployment, and so the pods, exist
  yaml,       \* cur_yaml_docs and its file, {} for none
  cycling,    \* is_cycle_deploy
  locked,     \* uninstall_lock
  applied,    \* _last_processor_redeploy_applied: "none", "no" or "yes"
  request,    \* the request being served
  thread,     \* the threads in run_cycle_deploy
  installs,   \* installations requested so far
  down,       \* history: the last request was an uninstall that succeeded
  faults,     \* faults so far
  complete,   \* history: both stages were recorded and no older thread was left
  troubled    \* history: something has gone wrong, see Consistent

vars == <<cluster, pods, yaml, cycling, locked, applied, request, thread, installs,
          down, faults, complete, troubled>>

Thread == 1..MaxInstalls

\* second: installing, between the two stages; waiting: for uninstall_lock;
\* ending: about to end the cycle; deleting, emptying, clearing: uninstalling
Stage == {"idle", "second", "waiting", "ending", "deleting", "emptying", "clearing"}

\* sleep: until the next cycle; plan: past the look at is_cycle_deploy; lock:
\* about to lock; diff: about to compare; update, add, remove, settle:
\* operate_processors; read, write: update_component_yaml; unlock: done
InSection == {"diff", "update", "renew", "add", "remove", "settle", "read", "write", "unlock"}
Pc == {"new", "sleep", "plan", "lock", "gone"} \cup InSection

Live == {t \in Thread : thread[t].pc \notin {"new", "gone"}}

Goto(t, pc) == thread' = [thread EXCEPT ![t].pc = pc]

-----------------------------------------------------------------------------
(* The Kubernetes API (kube_helper.py).  A create of a name that exists and *)
(* a delete of one that does not fail, and so may any call; the rest of the *)
(* batch is then left undone.                                              *)

Fault == faults < MaxFaults /\ faults' = faults + 1

Creatable(docs) == Names(docs) \cap Names(cluster) = {}

Create(docs) ==
  /\ Creatable(docs)
  /\ cluster' = cluster \cup docs
  /\ pods' = pods \cup docs
  /\ UNCHANGED <<faults, troubled>>

CreateFails(docs) ==
  /\ IF Creatable(docs) THEN Fault ELSE UNCHANGED faults
  /\ \E part \in SUBSET docs :
       Creatable(part) /\ cluster' = cluster \cup part /\ pods' = pods \cup part
  /\ troubled' = TRUE

\* A delete removes the resource of that name, and every Deployment whose name
\* starts with it: that of processor-s-edge1 takes processor-s-edge10 along.
StartsWith(name, prefix) == name = prefix \/ <<prefix, name>> \in Prefixes
Hit(docs) == {d \in Resource : \E e \in docs : StartsWith(NameOf[d], NameOf[e])}
Without(docs) == {d \in cluster : NameOf[d] \notin Names(docs)}
Deletable(docs) == Names(docs) \subseteq Names(cluster)

Delete(docs) ==
  /\ Deletable(docs)
  /\ cluster' = Without(docs)
  /\ pods' = pods \ Hit(docs)
  /\ UNCHANGED <<faults, troubled>>

\* The Deployments of a resource go before the resource itself.
DeleteFails(docs) ==
  /\ IF Deletable(docs) THEN Fault ELSE UNCHANGED faults
  /\ \E hit \in SUBSET docs : \E part \in SUBSET hit :
       cluster' = Without(part) /\ pods' = pods \ Hit(hit)
  /\ troubled' = TRUE

\* The operator may restore the Deployment of a resource.
Restore(d) ==
  /\ d \in cluster \ pods
  /\ pods' = pods \cup {d}
  /\ UNCHANGED <<cluster, yaml, cycling, locked, applied, request, thread, installs, down,
                 faults, complete, troubled>>

-----------------------------------------------------------------------------
Init ==
  /\ cluster = {} /\ pods = {}
  /\ yaml = {}
  /\ cycling = FALSE
  /\ locked = FALSE
  /\ applied = "no"
  /\ request = [stage |-> "idle", docs |-> {}, ok |-> TRUE]
  /\ thread = [t \in Thread |-> [pc |-> "new", target |-> {}, docs |-> {}]]
  /\ installs = 0
  /\ down = FALSE
  /\ faults = 0
  /\ complete = FALSE
  /\ troubled = FALSE

(* Requests.  The page offers an install when no pod is there, and an       *)
(* uninstall when there are some (SvcInstall.vue:135, SvcQuery.vue:70).     *)

\* parse_and_apply_templates, first stage: whatever comes of it is recorded.
InstallFirst ==
  /\ request.stage = "idle" /\ pods = {} /\ installs < MaxInstalls
  /\ installs' = installs + 1
  /\ down' = FALSE /\ complete' = FALSE
  /\ yaml' = First
  /\ \/ Create(First) /\ request' = [request EXCEPT !.stage = "second"]
     \/ CreateFails(First) /\ UNCHANGED request
  /\ UNCHANGED <<cycling, locked, applied, thread>>

\* The scheduler's answers or the templates may make the second stage raise before
\* anything is created: the request ends with the first stage recorded.
InstallStops ==
  /\ request.stage = "second"
  /\ request' = [request EXCEPT !.stage = "idle"]
  /\ UNCHANGED <<cluster, pods, yaml, cycling, locked, applied, thread, installs, down,
                 faults, complete, troubled>>

\* Second stage: controller and generator with the processors of a plan, recorded
\* with the first stage, and the start of the redeployment thread.
Late == Core \ First

\* Mutant: the second stage records only what it has deployed itself.
InstallSecondOnly(plan) ==
  /\ request.stage = "second"
  /\ yaml' = Late \cup plan
  /\ complete' = (Live = {})
  /\ request' = [request EXCEPT !.stage = "idle"]
  /\ \/ /\ Create(Late \cup plan)
        /\ cycling' = TRUE
        /\ thread' = [thread EXCEPT ![installs].pc = "sleep"]
     \/ CreateFails(Late \cup plan) /\ UNCHANGED <<cycling, thread>>
  /\ UNCHANGED <<locked, applied, installs, down>>

InstallSecond(plan) ==
  /\ request.stage = "second"
  /\ yaml' = Core \cup plan
  /\ complete' = (Live = {})
  /\ request' = [request EXCEPT !.stage = "idle"]
  /\ \/ /\ Creatable(Late \cup plan) /\ UNCHANGED faults
        /\ cluster' = cluster \cup Late \cup plan /\ pods' = pods \cup Late \cup plan
        /\ cycling' = TRUE
        /\ thread' = [thread EXCEPT ![installs].pc = "sleep"]
        /\ troubled' = (troubled \/ Live # {})
     \/ CreateFails(Late \cup plan) /\ UNCHANGED <<cycling, thread>>
  /\ UNCHANGED <<locked, applied, installs, down>>

\* uninstall_service waits for the lock in parse_and_delete_templates.
Uninstall ==
  /\ request.stage = "idle" /\ pods # {}
  /\ request' = [request EXCEPT !.stage = "waiting"]
  /\ UNCHANGED <<cluster, pods, yaml, cycling, locked, applied, thread, installs, down,
                 faults, complete, troubled>>

SeeUnlocked ==
  /\ request.stage = "waiting" /\ ~locked
  /\ request' = [request EXCEPT !.stage = "ending"]
  /\ UNCHANGED <<cluster, pods, yaml, cycling, locked, applied, thread, installs, down,
                 faults, complete, troubled>>

\* Mutant: the thread is not told.
EndCycleSilently ==
  /\ request.stage = "ending"
  /\ request' = [request EXCEPT !.stage = "deleting", !.docs = yaml]
  /\ UNCHANGED <<cluster, pods, yaml, cycling, locked, applied, thread, installs, down,
                 faults, complete, troubled>>

\* is_cycle_deploy is cleared, and the component YAML read.  A thread that is
\* past its look at is_cycle_deploy goes on all the same.
EndCycle ==
  /\ request.stage = "ending"
  /\ cycling' = FALSE
  /\ request' = [request EXCEPT !.stage = "deleting", !.docs = yaml]
  /\ troubled' = (troubled \/ \E t \in Live : thread[t].pc # "sleep")
  /\ UNCHANGED <<cluster, pods, yaml, locked, applied, thread, installs, down, faults,
                 complete>>

\* uninstall_yaml_templates.
DeleteAll ==
  /\ request.stage = "deleting"
  /\ \/ /\ request.docs # {} /\ Delete(request.docs)
        /\ request' = [request EXCEPT !.stage = "emptying"]
     \/ /\ request.docs # {} /\ DeleteFails(request.docs)
        /\ request' = [request EXCEPT !.stage = "clearing", !.ok = FALSE]
     \/ /\ request.docs = {}
        /\ request' = [request EXCEPT !.stage = "clearing", !.ok = FALSE]
        /\ troubled' = TRUE
        /\ UNCHANGED <<cluster, pods, faults>>
  /\ UNCHANGED <<yaml, cycling, locked, applied, thread, installs, down, complete>>

\* It waits until no pod is left, or for 200 seconds.
WaitEmpty ==
  /\ request.stage = "emptying"
  /\ request' = [request EXCEPT !.stage = "clearing", !.ok = (pods = {})]
  /\ troubled' = (troubled \/ pods # {})
  /\ UNCHANGED <<cluster, pods, yaml, cycling, locked, applied, thread, installs, down,
                 faults, complete>>

\* uninstall_service forgets the YAML whether or not the uninstall succeeded.
ClearYaml ==
  /\ request.stage = "clearing"
  /\ yaml' = {}
  /\ down' = request.ok
  /\ request' = [stage |-> "idle", docs |-> {}, ok |-> TRUE]
  /\ UNCHANGED <<cluster, pods, cycling, locked, applied, thread, installs, faults,
                 complete, troubled>>

-----------------------------------------------------------------------------
(* run_cycle_deploy.                                                        *)

Wake(t) ==
  /\ thread[t].pc = "sleep"
  /\ Goto(t, IF cycling THEN "plan" ELSE "gone")
  /\ UNCHANGED <<cluster, pods, yaml, cycling, locked, applied, request, installs, down,
                 faults, complete, troubled>>

\* finetune_processor_yaml: every plan has the processors in the cloud; when the
\* scheduler does not answer, those recorded at the edge are kept.
InTheCloud == {d \in UNION Plans : \A plan \in Plans : d \in plan}
Processors(docs) == {d \in docs : NameOf[d] \notin Names(Core)}
Kept == InTheCloud \cup {d \in Processors(yaml) : NameOf[d] \notin Names(InTheCloud)}

\* Pods that are not running, and errors, put the cycle off; the handler of an
\* error clears the lock, whoever has set it.
MakePlan(t) ==
  /\ thread[t].pc = "plan"
  /\ \/ Goto(t, "sleep") /\ locked' \in {locked, FALSE}
     \/ \E target \in Plans \cup {Kept} :
          /\ thread' = [thread EXCEPT ![t].pc = "lock", ![t].target = target]
          /\ UNCHANGED locked
  /\ UNCHANGED <<cluster, pods, yaml, cycling, applied, request, installs, down, faults,
                 complete, troubled>>

Lock(t) ==
  /\ thread[t].pc = "lock"
  /\ locked' = TRUE
  /\ applied' = "none"
  /\ Goto(t, "diff")
  /\ UNCHANGED <<cluster, pods, yaml, cycling, request, installs, down, faults, complete,
                 troubled>>

\* check_and_update_docs_list.
ToAdd(docs, target) == {d \in target : NameOf[d] \notin Names(docs)}
ToUpdate(docs, target) == {d \in target \ docs : NameOf[d] \in Names(docs)}

\* Mutant: function components are not spared.
ToRemoveAny(docs, target) == {d \in docs : NameOf[d] \notin Names(target)}

ToRemove(docs, target) ==
  {d \in docs : NameOf[d] \notin Names(Core) \cup Names(target)}

Merged(docs, target) ==
  {d \in docs : NameOf[d] \notin Names(ToRemove(docs, target) \cup ToUpdate(docs, target))}
    \cup ToAdd(docs, target) \cup ToUpdate(docs, target)

\* The changes a thread makes, against the record it has read.
Added(t) == ToAdd(thread[t].docs, thread[t].target)
Updated(t) == ToUpdate(thread[t].docs, thread[t].target)
Removed(t) == ToRemove(thread[t].docs, thread[t].target)

\* parse_and_redeploy_services up to the operations: nothing is done without a
\* record or without a change.
Compare(t) ==
  /\ thread[t].pc = "diff"
  /\ applied' = "no"
  /\ LET target == thread[t].target
         changes == ToAdd(yaml, target) \cup ToUpdate(yaml, target) \cup ToRemove(yaml, target)
     IN  thread' = [thread EXCEPT ![t].docs = yaml,
                                  ![t].pc = IF yaml = {} THEN "unlock"
                                            ELSE IF changes = {} THEN "read" ELSE "update"]
  /\ UNCHANGED <<cluster, pods, yaml, cycling, locked, request, installs, down, faults,
                 complete, troubled>>

\* Mutant: a failed operation leaves the lock behind.
FailedOperationKeepsLock(t) == Goto(t, "sleep")

\* A failed operation is logged, and the lock released.
FailedOperation(t) == Goto(t, "unlock")

\* The batches of operate_processors: an update deletes and creates again.
Operate(t) ==
  /\ \/ /\ thread[t].pc = "update"
        /\ \/ Delete(Updated(t)) /\ Goto(t, "renew")
           \/ DeleteFails(Updated(t)) /\ FailedOperation(t)
     \/ /\ thread[t].pc = "renew"
        /\ \/ Create(Updated(t)) /\ Goto(t, "add")
           \/ CreateFails(Updated(t)) /\ FailedOperation(t)
     \/ /\ thread[t].pc = "add"
        /\ \/ Create(Added(t)) /\ Goto(t, "remove")
           \/ CreateFails(Added(t)) /\ FailedOperation(t)
     \/ /\ thread[t].pc = "remove"
        /\ \/ Delete(Removed(t)) /\ Goto(t, "settle")
           \/ DeleteFails(Removed(t)) /\ FailedOperation(t)
  /\ UNCHANGED <<yaml, cycling, locked, applied, request, installs, down, complete>>

\* It then waits until no pod is left whose name has that of a removed or updated
\* processor in it, and until the pods of added and updated ones run, or for 300
\* seconds.  The pods of an update are back under the same name, so the first wait
\* may not end; nor does it when the operator has restored a pod that was hit.
Settle(t) ==
  /\ thread[t].pc = "settle"
  /\ \/ /\ pods \cap Hit(Removed(t)) = {}
        /\ applied' = "yes"
        /\ Goto(t, "read")
        /\ UNCHANGED <<faults, troubled>>
     \/ /\ IF Updated(t) = {} /\ pods \cap Hit(Removed(t)) = {}
           THEN Fault ELSE UNCHANGED faults
        /\ troubled' = TRUE
        /\ FailedOperation(t)
        /\ UNCHANGED applied
  /\ UNCHANGED <<cluster, pods, yaml, cycling, locked, request, installs, down, complete>>

\* Mutant: the record is not brought up to date.
ReadYamlNever(t) ==
  /\ thread[t].pc = "read"
  /\ Goto(t, "unlock")
  /\ UNCHANGED <<cluster, pods, yaml, cycling, locked, applied, request, installs, down,
                 faults, complete, troubled>>

\* update_component_yaml, unless nothing was applied or no record is left: the
\* record is read and merged, then saved.
ReadYaml(t) ==
  /\ thread[t].pc = "read"
  /\ IF applied = "no" \/ yaml = {} THEN Goto(t, "unlock")
     ELSE thread' = [thread EXCEPT ![t].pc = "write", ![t].docs = yaml]
  /\ UNCHANGED <<cluster, pods, yaml, cycling, locked, applied, request, installs, down,
                 faults, complete, troubled>>

WriteYaml(t) ==
  /\ thread[t].pc = "write"
  /\ yaml' = Merged(thread[t].docs, thread[t].target)
  /\ Goto(t, "unlock")
  /\ UNCHANGED <<cluster, pods, cycling, locked, applied, request, installs, down, faults,
                 complete, troubled>>

Unlock(t) ==
  /\ thread[t].pc = "unlock"
  /\ locked' = FALSE
  /\ thread' = [thread EXCEPT ![t] = [pc |-> "sleep", target |-> {}, docs |-> {}]]
  /\ UNCHANGED <<cluster, pods, yaml, cycling, applied, request, installs, down, faults,
                 complete, troubled>>

-----------------------------------------------------------------------------
Serve ==
  \/ \E plan \in Plans : InstallSecond(plan)
  \/ EndCycle \/ DeleteAll \/ WaitEmpty \/ ClearYaml

Cycle(t) ==
  \/ Wake(t) \/ MakePlan(t) \/ Lock(t) \/ Compare(t) \/ Operate(t) \/ Settle(t)
  \/ ReadYaml(t) \/ WriteYaml(t) \/ Unlock(t)

Next ==
  \/ InstallFirst \/ InstallStops \/ Uninstall \/ SeeUnlocked \/ Serve
  \/ \E t \in Thread : Cycle(t)
  \/ \E d \in Resource : Restore(d)

Spec == Init /\ [][Next]_vars

\* Requests and threads go on.  The wait for the lock polls twice a second, and
\* a thread that has unlocked sleeps for REDEPLOYMENT_REQUEST_INTERVAL, 20 s.
FairSpec ==
  Spec /\ WF_vars(Serve) /\ SF_vars(SeeUnlocked) /\ \A t \in Thread : WF_vars(Cycle(t))

-----------------------------------------------------------------------------
\* The cluster and the record have one resource of a name.
TypeOK ==
  /\ cluster \subseteq Resource /\ OneEach(cluster) /\ pods \subseteq cluster
  /\ yaml \subseteq Resource /\ OneEach(yaml)
  /\ cycling \in BOOLEAN /\ locked \in BOOLEAN
  /\ down \in BOOLEAN /\ complete \in BOOLEAN /\ troubled \in BOOLEAN
  /\ applied \in {"none", "no", "yes"}
  /\ request \in [stage : Stage, docs : SUBSET Resource, ok : BOOLEAN]
  /\ thread \in [Thread -> [pc : Pc, target : SUBSET Resource, docs : SUBSET Resource]]
  /\ installs \in 0..MaxInstalls
  /\ faults \in 0..MaxFaults

\* The lock is never left behind: while it is set some thread will release it,
\* whichever operation failed or timed out.  Otherwise no uninstall would ever
\* get past its wait (backend_core.py:200).
LockHeld == locked => \E t \in Thread : thread[t].pc \in InSection

\* Whenever there is a record it has the components of the first stage in it, and
\* those of the second once that was recorded, with the configuration they were
\* installed with: redeployments never drop one, so an uninstall will delete them.
\* Only a thread that outlives its installation may write back a record it has read
\* between the two stages of the next.
RecordsCore == yaml # {} => First \subseteq yaml /\ (complete => Core \subseteq yaml)

\* Function components come and go with the requests only: no redeployment
\* creates or deletes one or its pods, even against a record or a plan that is out
\* of date, and whatever processors it hits by their names.
CoreUntouched ==
  [][cluster' \cap Core # cluster \cap Core \/ ~ (pods \cap Core \subseteq pods')
       => installs' # installs \/ request' # request]_vars

\* The record and the cluster agree whenever nothing is going on, unless an
\* operation has failed halfway, an uninstall has overtaken a thread that was
\* past its look at is_cycle_deploy, or the thread of an earlier installation
\* has lived on into the next.  All that is recorded then runs, but for processors
\* whose name begins with that of another (kube_helper.py:68).
Quiet == request.stage = "idle" /\ \A t \in Thread : thread[t].pc \notin InSection
Exposed(d) == \E e \in Resource : <<NameOf[e], NameOf[d]>> \in Prefixes
Consistent ==
  Quiet /\ ~troubled => cluster = yaml /\ \A d \in yaml : d \in pods \/ Exposed(d)

\* "Uninstall deployed runtime components" (docs/api/backend.md:93): nothing is
\* deployed after an uninstall that reported success.
StaysUninstalled == down /\ request.stage = "idle" => pods = {}

\* Every uninstall comes to an end.
UninstallReturns == request.stage = "waiting" ~> request.stage = "idle"

\* An uninstall ends the redeployment threads, whether or not it succeeds,
\* unless an installation follows before they wake (backend_core.py:821).
CycleEnds == request.stage = "clearing" ~> (Live = {} \/ request.stage = "second")

=============================================================================
