-------------------------- MODULE DeploymentProofs --------------------------
(* Proofs about Deployment, for every set of resources and plans, any number *)
(* of installations with their threads, and any number of faults.            *)
EXTENDS Deployment, TLAPS

PlanLike(docs) ==
  docs \subseteq Resource /\ OneEach(docs) /\ Names(docs) \cap Names(Core) = {}

\* A record that is not empty has the components of the first stage, and one that
\* was completed those of the second.
Recorded(docs) == docs # {} => First \subseteq docs /\ (complete => Core \subseteq docs)

RecordLike(docs) == docs \subseteq Resource /\ OneEach(docs) /\ Recorded(docs)

\* What a thread holds: a plan without function components and a record, which is
\* not empty once it is about to be merged, and none outside its critical section.
ThreadsSound ==
  \A t \in Thread : /\ PlanLike(thread[t].target)
                    /\ RecordLike(thread[t].docs)
                    /\ thread[t].pc = "write" => thread[t].docs # {}
                    /\ thread[t].pc \notin InSection => thread[t].docs = {}

\* Threads are started in turn.
Unstarted ==
  /\ \A t \in Thread : t > installs => thread[t].pc = "new"
  /\ request.stage = "second" => installs \in Thread /\ thread[installs].pc = "new"

Inv == TypeOK /\ LockHeld /\ RecordsCore /\ ThreadsSound /\ Unstarted

-----------------------------------------------------------------------------
(* Records and plans.                                                       *)

\* The function components of each stage can be created together.
LEMMA CoreIsSound ==
  /\ Core \subseteq Resource /\ OneEach(Core)
  /\ First \subseteq Core /\ First \subseteq Resource /\ OneEach(First)
BY DeploymentAssumption DEF OneEach

\* Every plan the scheduler may answer is one.
LEMMA PlanIsPlan == \A plan \in Plans : PlanLike(plan)
BY DeploymentAssumption DEF PlanLike

\* What an installation records: the function components and a plan.
LEMMA InstalledIsRecord ==
  ASSUME NEW plan, PlanLike(plan)
  PROVE  /\ Core \cup plan \subseteq Resource /\ OneEach(Core \cup plan)
         /\ Late \cup plan \subseteq Resource /\ OneEach(Late \cup plan)
         /\ First \subseteq Core \cup plan /\ Core \subseteq Core \cup plan
<1>1. OneEach(Core \cup plan) /\ Core \cup plan \subseteq Resource
  BY CoreIsSound DEF PlanLike, OneEach, Names
<1>2. Late \cup plan \subseteq Core \cup plan
  BY DEF Late
<1> QED
  BY <1>1, <1>2, CoreIsSound DEF OneEach

\* The plan of a scheduler that does not answer names each processor once.
LEMMA CloudIsPlan == PlanLike(InTheCloud)
<1>1. CASE Plans = {}
  BY <1>1 DEF InTheCloud, PlanLike, OneEach, Names
<1>2. CASE Plans # {}
  <2>1. PICK plan \in Plans : TRUE
    BY <1>2
  <2>2. InTheCloud \subseteq plan
    BY DEF InTheCloud
  <2>3. PlanLike(plan)
    BY PlanIsPlan
  <2> QED
    BY <2>2, <2>3 DEF PlanLike, OneEach, Names
<1> QED
  BY <1>1, <1>2

\* So does the plan of a thread that keeps what is recorded.
LEMMA KeptIsPlan ==
  ASSUME TypeOK
  PROVE  PlanLike(Kept)
<1>1. yaml \subseteq Resource /\ OneEach(yaml)
  BY DEF TypeOK
<1>2. PlanLike(InTheCloud)
  BY CloudIsPlan
<1> DEFINE E == {d \in Processors(yaml) : NameOf[d] \notin Names(InTheCloud)}
<1>3. E \subseteq yaml /\ Names(E) \cap Names(Core) = {} /\ Names(E) \cap Names(InTheCloud) = {}
  BY DEF Processors, Names
<1>4. Kept = InTheCloud \cup E
  BY DEF Kept
<1> HIDE DEF E
<1>5. Kept \subseteq Resource
  BY <1>1, <1>2, <1>3, <1>4 DEF PlanLike
<1>6. OneEach(Kept)
  BY <1>1, <1>2, <1>3, <1>4 DEF PlanLike, OneEach, Names
<1>7. Names(Kept) \cap Names(Core) = {}
  BY <1>2, <1>3, <1>4 DEF PlanLike, Names
<1> QED
  BY <1>5, <1>6, <1>7 DEF PlanLike

\* Merging a plan into a record keeps all function components in it, and one
\* resource of each name.
LEMMA MergedIsRecord ==
  ASSUME NEW docs, NEW target, RecordLike(docs), docs # {}, PlanLike(target)
  PROVE  RecordLike(Merged(docs, target)) /\ Merged(docs, target) # {}
<1>1. Merged(docs, target) \subseteq Resource
  BY DEF Merged, ToAdd, ToUpdate, RecordLike, PlanLike
<1>2. Recorded(Merged(docs, target)) /\ Merged(docs, target) # {}
  <2>1. \A d \in docs \cap Core : d \in Merged(docs, target)
    BY DEF Merged, ToRemove, ToUpdate, PlanLike, Names
  <2>2. First \subseteq docs /\ (complete => Core \subseteq docs) /\ First \subseteq Core /\ First # {}
    BY DeploymentAssumption DEF RecordLike, Recorded
  <2> QED
    BY <2>1, <2>2 DEF Recorded
<1>3. ASSUME NEW c \in Merged(docs, target), NEW d \in Merged(docs, target),
             NameOf[c] = NameOf[d]
      PROVE  c = d
  <2>1. c \in docs \/ (c \in target /\ (c \in ToAdd(docs, target) \/ c \in ToUpdate(docs, target)))
    BY DEF Merged, ToAdd, ToUpdate
  <2>2. d \in docs \/ (d \in target /\ (d \in ToAdd(docs, target) \/ d \in ToUpdate(docs, target)))
    BY DEF Merged, ToAdd, ToUpdate
  <2>3. CASE c \in docs /\ d \in docs
    BY <1>3, <2>3 DEF RecordLike, OneEach
  <2>4. CASE c \in target /\ d \in target
    BY <1>3, <2>4 DEF PlanLike, OneEach
  <2>5. CASE c \in docs /\ c \notin target /\ d \in target /\ d \notin docs
    BY <1>3, <2>5 DEF Merged, ToAdd, ToUpdate, ToRemove, Names
  <2>6. CASE d \in docs /\ d \notin target /\ c \in target /\ c \notin docs
    BY <1>3, <2>6 DEF Merged, ToAdd, ToUpdate, ToRemove, Names
  <2>7. CASE c \in docs /\ c \notin target /\ d \in target /\ d \in docs
    BY <1>3, <2>7 DEF RecordLike, OneEach
  <2>8. CASE d \in docs /\ d \notin target /\ c \in target /\ c \in docs
    BY <1>3, <2>8 DEF RecordLike, OneEach
  <2> QED
    BY <2>1, <2>2, <2>3, <2>4, <2>5, <2>6, <2>7, <2>8
<1> QED
  BY <1>1, <1>2, <1>3 DEF RecordLike, OneEach

-----------------------------------------------------------------------------
(* The calls to the Kubernetes API.                                         *)

ClusterOK ==
  /\ cluster \subseteq Resource /\ OneEach(cluster) /\ pods \subseteq cluster
  /\ faults \in 0..MaxFaults /\ troubled \in BOOLEAN

\* Creating resources, all or some of them, leaves one of a name.
LEMMA CreateOK ==
  ASSUME TypeOK, NEW docs, docs \subseteq Resource, OneEach(docs),
         Create(docs) \/ CreateFails(docs)
  PROVE  ClusterOK'
<1>1. PICK part \in SUBSET docs :
        Creatable(part) /\ cluster' = cluster \cup part /\ pods' = pods \cup part
  BY DEF Create, CreateFails
<1>2. cluster' \subseteq Resource /\ pods' \subseteq cluster'
  BY <1>1 DEF TypeOK
<1>3. OneEach(cluster')
  BY <1>1 DEF TypeOK, OneEach, Creatable, Names
<1>4. faults' \in 0..MaxFaults /\ troubled' \in BOOLEAN
  <2>1. faults \in 0..MaxFaults /\ MaxFaults \in Nat /\ troubled \in BOOLEAN
    BY DeploymentAssumption DEF TypeOK
  <2>2. \/ faults' = faults
        \/ faults < MaxFaults /\ faults' = faults + 1
    BY DEF Create, CreateFails, Fault
  <2>3. (troubled' = troubled) \/ (troubled' = TRUE)
    BY DEF Create, CreateFails
  <2>4. faults' \in 0..MaxFaults
    BY <2>1, <2>2
  <2> QED
    BY <2>1, <2>3, <2>4
<1> QED
  BY <1>2, <1>3, <1>4 DEF ClusterOK, OneEach

\* So does deleting them.
LEMMA DeleteOK ==
  ASSUME TypeOK, NEW docs, Delete(docs) \/ DeleteFails(docs)
  PROVE  ClusterOK'
<1>1. PICK hit \in SUBSET docs, part \in SUBSET docs :
        part \subseteq hit /\ cluster' = Without(part) /\ pods' = pods \ Hit(hit)
  BY DEF Delete, DeleteFails
<1>2. cluster' \subseteq cluster /\ pods' \subseteq cluster'
  <2>1. \A d \in cluster : NameOf[d] \in Names(part) => d \in Hit(hit)
    BY <1>1 DEF TypeOK, Hit, StartsWith, Names
  <2> QED
    BY <1>1, <2>1 DEF Without, TypeOK
<1>3. faults' \in 0..MaxFaults /\ troubled' \in BOOLEAN
  <2>1. faults \in 0..MaxFaults /\ MaxFaults \in Nat /\ troubled \in BOOLEAN
    BY DeploymentAssumption DEF TypeOK
  <2>2. \/ faults' = faults
        \/ faults < MaxFaults /\ faults' = faults + 1
    BY DEF Delete, DeleteFails, Fault
  <2>3. (troubled' = troubled) \/ (troubled' = TRUE)
    BY DEF Delete, DeleteFails
  <2>4. faults' \in 0..MaxFaults
    BY <2>1, <2>2
  <2> QED
    BY <2>1, <2>3, <2>4
<1> QED
  BY <1>2, <1>3 DEF TypeOK, ClusterOK, OneEach

-----------------------------------------------------------------------------
(* The parts of the invariant, as the actions disturb them.                 *)

YamlOK == complete \in BOOLEAN /\ yaml \subseteq Resource /\ OneEach(yaml) /\ RecordsCore
RequestOK == request \in [stage : Stage, docs : SUBSET Resource, ok : BOOLEAN]
FlagsOK == cycling \in BOOLEAN /\ down \in BOOLEAN /\ applied \in {"none", "no", "yes"}
LockOK == locked \in BOOLEAN /\ LockHeld
ThreadsOK ==
  /\ thread \in [Thread -> [pc : Pc, target : SUBSET Resource, docs : SUBSET Resource]]
  /\ ThreadsSound

CountOK == installs \in 0..MaxInstalls /\ Unstarted

\* The invariant part by part.
LEMMA Parts ==
  Inv <=> ClusterOK /\ YamlOK /\ RequestOK /\ FlagsOK /\ LockOK /\ ThreadsOK /\ CountOK
BY DEF Inv, TypeOK, ClusterOK, YamlOK, RequestOK, FlagsOK, LockOK, ThreadsOK, CountOK

\* The same of the next state.
LEMMA PartsNext ==
  Inv' <=> ClusterOK' /\ YamlOK' /\ RequestOK' /\ FlagsOK' /\ LockOK' /\ ThreadsOK' /\ CountOK'
BY DEF Inv, TypeOK, ClusterOK, YamlOK, RequestOK, FlagsOK, LockOK, ThreadsOK, CountOK

\* Nothing is installed at first, and no thread has started.
LEMMA InitInv == Init => Inv
<1> SUFFICES ASSUME Init PROVE Inv
  OBVIOUS
<1>1. ClusterOK /\ CountOK
  <2>1. MaxInstalls \in Nat /\ MaxFaults \in Nat
    BY DeploymentAssumption
  <2>2. ClusterOK
    <3>1. faults \in 0..MaxFaults
      BY <2>1 DEF Init
    <3>2. cluster = {} /\ pods = {} /\ troubled \in BOOLEAN
      BY DEF Init
    <3> QED
      BY <3>1, <3>2 DEF ClusterOK, OneEach
  <2>3. installs \in 0..MaxInstalls
    BY <2>1 DEF Init
  <2>4. Unstarted
    BY DEF Init, Unstarted
  <2> QED
    BY <2>2, <2>3, <2>4 DEF CountOK
<1>4. YamlOK /\ RequestOK
  BY DEF Init, YamlOK, RequestOK, OneEach, RecordsCore, Stage
<1>2. FlagsOK /\ LockOK
  BY DEF Init, FlagsOK, LockOK, LockHeld
<1>3. ThreadsOK
  BY DEF Init, ThreadsOK, ThreadsSound, PlanLike, RecordLike, Recorded, OneEach, Names, Pc
<1> QED
  BY <1>1, <1>2, <1>3, <1>4, Parts

\* An installation counts as complete from a point on only when no thread holds a
\* record of an earlier one.
Completes == complete' => complete \/ \A t \in Thread : thread[t].docs = {}

\* What an action leaves alone stays sound.
LEMMA LeftAlone ==
  ASSUME Inv
  PROVE  /\ UNCHANGED <<cluster, pods, faults, troubled>> => ClusterOK'
         /\ UNCHANGED <<yaml, complete>> => YamlOK'
         /\ UNCHANGED request => RequestOK'
         /\ UNCHANGED <<cycling, down, applied>> => FlagsOK'
         /\ UNCHANGED <<locked, thread>> => LockOK'
         /\ UNCHANGED thread /\ Completes => ThreadsOK'
         /\ UNCHANGED complete => Completes
         /\ UNCHANGED <<installs, request, thread>> => CountOK'
<1> USE Parts
<1>1. UNCHANGED <<cluster, pods, faults, troubled>> => ClusterOK'
  BY DEF ClusterOK, OneEach
<1>2. UNCHANGED <<yaml, complete>> => YamlOK'
  BY DEF YamlOK, OneEach, RecordsCore
<1>3. UNCHANGED request => RequestOK'
  BY DEF RequestOK
<1>4. UNCHANGED <<cycling, down, applied>> => FlagsOK'
  BY DEF FlagsOK
<1>5. UNCHANGED <<locked, thread>> => LockOK'
  BY DEF LockOK, LockHeld
<1>6. UNCHANGED thread /\ Completes => ThreadsOK'
  BY DEF ThreadsOK, ThreadsSound, PlanLike, RecordLike, Recorded, OneEach, Names, Completes
<1>8. UNCHANGED complete => Completes
  BY DEF Completes
<1>7. UNCHANGED <<installs, request, thread>> => CountOK'
  BY DEF CountOK, Unstarted
<1> QED
  BY <1>1, <1>2, <1>3, <1>4, <1>5, <1>6, <1>7, <1>8

\* A thread that goes on, with what it holds unchanged.
LEMMA GoesOn ==
  ASSUME Inv, NEW t \in Thread, NEW pc \in Pc, pc # "write", Goto(t, pc), Completes,
         pc \in InSection \/ thread[t].pc \notin InSection
  PROVE  /\ ThreadsOK'
         /\ locked' = locked /\ (thread[t].pc \in InSection => pc \in InSection) => LockOK'
<1>1. ThreadsOK'
  <2>1. thread' \in [Thread -> [pc : Pc, target : SUBSET Resource, docs : SUBSET Resource]]
    BY DEF Inv, TypeOK, Goto
  <2>2. \A u \in Thread : /\ thread'[u].target = thread[u].target
                          /\ thread'[u].docs = thread[u].docs
                          /\ thread'[u].pc = IF u = t THEN pc ELSE thread[u].pc
    BY DEF Inv, TypeOK, Goto
  <2>3. ThreadsSound'
    BY <2>2 DEF Inv, ThreadsSound, PlanLike, RecordLike, Recorded, OneEach, Names, Completes
  <2> QED
    BY <2>1, <2>3 DEF ThreadsOK
<1>2. ASSUME locked' = locked, thread[t].pc \in InSection => pc \in InSection PROVE LockOK'
  <2>1. \A u \in Thread : thread[u].pc \in InSection => thread'[u].pc \in InSection
    BY <1>2 DEF Goto, Inv, TypeOK
  <2>2. locked' \in BOOLEAN
    BY <1>2 DEF Inv, TypeOK
  <2>3. LockHeld'
    BY <1>2, <2>1 DEF Inv, LockHeld
  <2> QED
    BY <2>2, <2>3 DEF LockOK
<1> QED
  BY <1>1, <1>2

-----------------------------------------------------------------------------
(* Requests.                                                                *)

\* Installing the function components keeps the invariant.
LEMMA InstallFirstInv == Inv /\ InstallFirst => Inv'
<1> SUFFICES ASSUME Inv, InstallFirst PROVE Inv'
  OBVIOUS
<1>1. ClusterOK'
  BY CoreIsSound, CreateOK DEF Inv, InstallFirst
<1>2. YamlOK'
  BY CoreIsSound DEF InstallFirst, YamlOK, RecordsCore, OneEach
<1>3. RequestOK'
  BY DEF Inv, TypeOK, InstallFirst, RequestOK, Stage
<1>4. FlagsOK'
  BY DEF Inv, TypeOK, InstallFirst, FlagsOK
<1>5. LockOK' /\ ThreadsOK'
  BY LeftAlone DEF InstallFirst, Completes
<1>6. CountOK'
  <2>1. MaxInstalls \in Nat /\ installs \in 0..MaxInstalls /\ installs < MaxInstalls
        /\ installs' = installs + 1 /\ thread' = thread
    BY DeploymentAssumption DEF Inv, TypeOK, InstallFirst
  <2> QED
    BY <2>1 DEF Inv, Unstarted, CountOK, Thread
<1> QED
  BY <1>1, <1>2, <1>3, <1>4, <1>5, <1>6, PartsNext

\* Installing the processors of a plan, which starts the thread, keeps it.
LEMMA InstallSecondInv == ASSUME NEW plan \in Plans PROVE Inv /\ InstallSecond(plan) => Inv'
<1> SUFFICES ASSUME Inv, InstallSecond(plan) PROVE Inv'
  OBVIOUS
<1> DEFINE late == Late \cup plan
<1>1. /\ PlanLike(plan)
      /\ late \subseteq Resource /\ OneEach(late)
      /\ Core \cup plan \subseteq Resource /\ OneEach(Core \cup plan) /\ First \subseteq Core \cup plan
  BY PlanIsPlan, InstalledIsRecord
<1> HIDE DEF late
<1>0. /\ yaml' = Core \cup plan /\ complete' = (Live = {})
      /\ \/ /\ Creatable(late) /\ cluster' = cluster \cup late /\ pods' = pods \cup late
            /\ UNCHANGED faults /\ troubled' = (troubled \/ Live # {})
         \/ CreateFails(late)
  BY DEF InstallSecond, late
<1>2. ClusterOK'
  <2>1. CASE CreateFails(late)
    BY <1>1, <2>1, CreateOK DEF Inv
  <2>2. CASE Creatable(late) /\ cluster' = cluster \cup late /\ pods' = pods \cup late
             /\ UNCHANGED faults /\ troubled' = (troubled \/ Live # {})
    <3>1. cluster' \subseteq Resource /\ pods' \subseteq cluster'
      BY <1>1, <2>2 DEF Inv, TypeOK
    <3>2. OneEach(cluster')
      BY <1>1, <2>2 DEF Inv, TypeOK, OneEach, Creatable, Names
    <3>3. faults' \in 0..MaxFaults
      BY <2>2 DEF Inv, TypeOK
    <3>4. troubled' \in BOOLEAN
      BY <2>2
    <3> QED
      BY <3>1, <3>2, <3>3, <3>4 DEF ClusterOK, OneEach
  <2> QED
    BY <1>0, <2>1, <2>2
<1>3. YamlOK'
  BY <1>0, <1>1 DEF YamlOK, RecordsCore, OneEach
<1>4. RequestOK'
  BY DEF Inv, TypeOK, InstallSecond, RequestOK, Stage
<1>5. FlagsOK'
  BY DEF Inv, TypeOK, InstallSecond, FlagsOK
<1>8. installs \in Thread /\ thread[installs].pc = "new"
  BY DEF Inv, Unstarted, InstallSecond
<1>9. Completes
  <2>1. \A t \in Thread : t \notin Live => thread[t].docs = {}
    BY DEF Live, Inv, ThreadsSound, InSection
  <2> QED
    BY <1>0, <2>1 DEF Completes
<1>6. LockOK' /\ ThreadsOK'
  <2>1. CASE UNCHANGED thread
    BY <1>9, <2>1, LeftAlone DEF InstallSecond
  <2>2. CASE thread' = [thread EXCEPT ![installs].pc = "sleep"]
    <3>1. Goto(installs, "sleep") /\ "sleep" \in Pc /\ thread[installs].pc \notin InSection
      BY <1>8, <2>2 DEF Goto, Pc, InSection
    <3> QED
      BY <1>8, <1>9, <3>1, GoesOn DEF InstallSecond
  <2> QED
    BY <2>1, <2>2 DEF InstallSecond
<1>7. CountOK'
  <2>1. installs' = installs /\ request' = [request EXCEPT !.stage = "idle"]
        /\ \/ thread' = thread
           \/ thread' = [thread EXCEPT ![installs].pc = "sleep"]
    BY DEF InstallSecond
  <2>2. request'.stage # "second"
    BY <2>1 DEF Inv, TypeOK
  <2>3. \A t \in Thread : t > installs => thread'[t].pc = "new"
    BY <2>1 DEF Inv, TypeOK, Unstarted
  <2> QED
    BY <2>1, <2>2, <2>3 DEF CountOK, Unstarted, Inv, TypeOK
<1> QED
  BY <1>2, <1>3, <1>4, <1>5, <1>6, <1>7, PartsNext

\* So does an installation that ends between its stages, and the operator.
LEMMA OthersInv == Inv /\ (InstallStops \/ \E d \in Resource : Restore(d)) => Inv'
<1> SUFFICES ASSUME Inv, InstallStops \/ \E d \in Resource : Restore(d) PROVE Inv'
  OBVIOUS
<1>1. YamlOK' /\ FlagsOK' /\ LockOK' /\ ThreadsOK'
  BY LeftAlone DEF InstallStops, Restore
<1>2. CASE InstallStops
  <2>1. ClusterOK'
    BY <1>2, LeftAlone DEF InstallStops
  <2>2. RequestOK' /\ request'.stage # "second"
    BY <1>2 DEF Inv, TypeOK, InstallStops, RequestOK, Stage
  <2>3. CountOK'
    BY <1>2, <2>2 DEF Inv, TypeOK, CountOK, Unstarted, InstallStops
  <2> QED
    BY <1>1, <2>1, <2>2, <2>3, PartsNext
<1>3. CASE \E d \in Resource : Restore(d)
  <2>1. ClusterOK'
    BY <1>3 DEF Inv, TypeOK, Restore, ClusterOK, OneEach
  <2>2. RequestOK' /\ CountOK'
    BY <1>3, LeftAlone DEF Restore
  <2> QED
    BY <1>1, <2>1, <2>2, PartsNext
<1> QED
  BY <1>2, <1>3

\* The steps of an uninstall keep it.
LEMMA UninstallInv ==
  Inv /\ (Uninstall \/ SeeUnlocked \/ EndCycle \/ DeleteAll \/ WaitEmpty \/ ClearYaml) => Inv'
<1> SUFFICES ASSUME Inv, Uninstall \/ SeeUnlocked \/ EndCycle \/ DeleteAll \/ WaitEmpty \/ ClearYaml
             PROVE  Inv'
  OBVIOUS
<1>1. LockOK' /\ ThreadsOK' /\ CountOK'
  <2>1. thread' = thread /\ locked' = locked /\ installs' = installs /\ complete' = complete
    BY DEF Uninstall, SeeUnlocked, EndCycle, DeleteAll, WaitEmpty, ClearYaml
  <2>4. request \in [stage : Stage, docs : SUBSET Resource, ok : BOOLEAN]
    BY DEF Inv, TypeOK
  <2>2. request'.stage # "second"
    <3>1. CASE Uninstall \/ SeeUnlocked \/ ClearYaml
      BY <2>4, <3>1 DEF Uninstall, SeeUnlocked, ClearYaml
    <3>2. CASE EndCycle
      BY <2>4, <3>2 DEF EndCycle
    <3>3. CASE DeleteAll
      BY <2>4, <3>3 DEF DeleteAll
    <3>4. CASE WaitEmpty
      <4>1. request'.stage = "clearing"
        BY <2>4, <3>4, Zenon DEF WaitEmpty
      <4> QED
        BY <4>1
    <3> QED
      BY <3>1, <3>2, <3>3, <3>4
  <2>3. CountOK'
    BY <2>1, <2>2 DEF Inv, TypeOK, CountOK, Unstarted
  <2> QED
    BY <2>1, <2>3, LeftAlone
<1>2. CASE Uninstall \/ SeeUnlocked
  <2>1. ClusterOK' /\ YamlOK' /\ FlagsOK'
    BY <1>2, LeftAlone DEF Uninstall, SeeUnlocked
  <2>2. RequestOK'
    BY <1>2 DEF Inv, TypeOK, Uninstall, SeeUnlocked, RequestOK, Stage
  <2> QED
    BY <1>1, <2>1, <2>2, PartsNext
<1>3. CASE EndCycle
  <2>1. ClusterOK'
    BY <1>3 DEF Inv, TypeOK, EndCycle, ClusterOK, OneEach
  <2>2. RequestOK'
    BY <1>3 DEF Inv, TypeOK, EndCycle, RequestOK, Stage
  <2>3. YamlOK' /\ FlagsOK'
    BY <1>3, LeftAlone DEF Inv, TypeOK, EndCycle, FlagsOK
  <2> QED
    BY <1>1, <2>1, <2>2, <2>3, PartsNext
<1>4. CASE DeleteAll
  <2>1. ClusterOK'
    <3>1. CASE Delete(request.docs) \/ DeleteFails(request.docs)
      BY <3>1, DeleteOK DEF Inv
    <3>2. CASE troubled' = TRUE /\ UNCHANGED <<cluster, pods, faults>>
      BY <3>2 DEF Inv, TypeOK, ClusterOK, OneEach
    <3> QED
      BY <1>4, <3>1, <3>2 DEF DeleteAll
  <2>2. RequestOK'
    BY <1>4 DEF Inv, TypeOK, DeleteAll, RequestOK, Stage
  <2>3. YamlOK' /\ FlagsOK'
    BY <1>4, LeftAlone DEF DeleteAll
  <2> QED
    BY <1>1, <2>1, <2>2, <2>3, PartsNext
<1>5. CASE WaitEmpty
  <2>1. ClusterOK'
    BY <1>5 DEF Inv, TypeOK, WaitEmpty, ClusterOK, OneEach
  <2>2. RequestOK'
    BY <1>5 DEF Inv, TypeOK, WaitEmpty, RequestOK, Stage
  <2>3. YamlOK' /\ FlagsOK'
    BY <1>5, LeftAlone DEF WaitEmpty
  <2> QED
    BY <1>1, <2>1, <2>2, <2>3, PartsNext
<1>6. CASE ClearYaml
  <2>1. ClusterOK'
    BY <1>6, LeftAlone DEF ClearYaml
  <2>2. RequestOK' /\ FlagsOK'
    BY <1>6 DEF Inv, TypeOK, ClearYaml, RequestOK, Stage, FlagsOK
  <2>3. YamlOK'
    BY <1>6 DEF Inv, TypeOK, ClearYaml, YamlOK, OneEach, RecordsCore
  <2> QED
    BY <1>1, <2>1, <2>2, <2>3, PartsNext
<1> QED
  BY <1>2, <1>3, <1>4, <1>5, <1>6

-----------------------------------------------------------------------------
(* The redeployment threads.                                                *)

ThreadRecord == [pc : Pc, target : SUBSET Resource, docs : SUBSET Resource]

\* A thread that goes on with something new in its hands.
LEMMA Changes ==
  ASSUME Inv, NEW t \in Thread, NEW th \in ThreadRecord, thread' = [thread EXCEPT ![t] = th],
         PlanLike(th.target), RecordLike(th.docs), th.pc = "write" => th.docs # {},
         th.pc \notin InSection => th.docs = {}, UNCHANGED complete
  PROVE  /\ ThreadsOK'
         /\ locked' = locked /\ (thread[t].pc \in InSection => th.pc \in InSection) => LockOK'
         /\ locked' = TRUE /\ th.pc \in InSection => LockOK'
<1>1. thread \in [Thread -> ThreadRecord] /\ ThreadsSound /\ locked \in BOOLEAN /\ LockHeld
  BY DEF Inv, TypeOK, ThreadRecord
<1>2. \A u \in Thread : thread'[u] = IF u = t THEN th ELSE thread[u]
  BY <1>1
<1>3. thread' \in [Thread -> ThreadRecord]
  BY <1>1
<1>4. ThreadsSound'
  BY <1>1, <1>2 DEF ThreadsSound, PlanLike, RecordLike, Recorded, OneEach, Names
<1>5. ASSUME locked' = locked, thread[t].pc \in InSection => th.pc \in InSection PROVE LockOK'
  <2>1. LockHeld'
    BY <1>1, <1>2, <1>5 DEF LockHeld
  <2>2. locked' \in BOOLEAN
    BY <1>1, <1>5
  <2> QED
    BY <2>1, <2>2 DEF LockOK
<1>6. ASSUME locked' = TRUE, th.pc \in InSection PROVE LockOK'
  BY <1>2, <1>6 DEF LockOK, LockHeld
<1> QED
  BY <1>3, <1>4, <1>5, <1>6 DEF ThreadsOK, ThreadRecord

\* Steps of a thread that has started leave the order of starting alone.
LEMMA CountKept ==
  ASSUME Inv, NEW t \in Thread, thread[t].pc # "new", UNCHANGED <<installs, request>>,
         \A u \in Thread : u # t => thread'[u] = thread[u]
  PROVE  CountOK'
<1>1. installs \in 0..MaxInstalls /\ Unstarted
  BY DEF Inv, TypeOK
<1>2. \A u \in Thread : u > installs => u # t
  BY <1>1 DEF Unstarted
<1>3. request.stage = "second" => installs # t
  BY <1>1 DEF Unstarted
<1>4. Unstarted'
  BY <1>1, <1>2, <1>3 DEF Unstarted
<1> QED
  BY <1>1, <1>4 DEF CountOK

\* What a thread is about to change has no function component in it.
LEMMA ChangesSound ==
  ASSUME Inv, NEW t \in Thread
  PROVE  /\ Added(t) \subseteq Resource /\ OneEach(Added(t))
         /\ Updated(t) \subseteq Resource /\ OneEach(Updated(t))
         /\ \A docs \in {Added(t), Updated(t), Removed(t)} : Names(docs) \cap Names(Core) = {}
<1>1. PlanLike(thread[t].target)
  BY DEF Inv, ThreadsSound
<1>2. Added(t) \subseteq thread[t].target /\ Updated(t) \subseteq thread[t].target
  BY DEF Added, Updated, ToAdd, ToUpdate
<1>3. Names(Removed(t)) \cap Names(Core) = {}
  BY DEF Removed, ToRemove, Names
<1> QED
  BY <1>1, <1>2, <1>3 DEF PlanLike, OneEach, Names

\* A thread that wakes, deletes or creates keeps the invariant.
LEMMA StepsOnInv ==
  ASSUME NEW t \in Thread
  PROVE  Inv /\ (Wake(t) \/ Operate(t) \/ Settle(t)) => Inv'
<1> SUFFICES ASSUME Inv, Wake(t) \/ Operate(t) \/ Settle(t) PROVE Inv'
  OBVIOUS
<1>1. YamlOK' /\ RequestOK'
  BY LeftAlone DEF Wake, Operate, Settle
<1>2. PICK pc \in Pc : /\ pc # "write" /\ Goto(t, pc)
                       /\ thread[t].pc \in InSection => pc \in InSection
  BY DEF Wake, Operate, Settle, FailedOperation, Goto, Pc, InSection
<1>3. ThreadsOK' /\ LockOK'
  <2>1. locked' = locked /\ Completes
    BY DEF Wake, Operate, Settle, Completes
  <2>2. pc \in InSection \/ thread[t].pc \notin InSection
    BY <1>2
  <2> QED
    BY <1>2, <2>1, <2>2, GoesOn
<1>4. CountOK'
  <2>1. thread[t].pc # "new" /\ UNCHANGED <<installs, request>>
    BY DEF Wake, Operate, Settle
  <2>2. \A u \in Thread : u # t => thread'[u] = thread[u]
    BY <1>2 DEF Goto, Inv, TypeOK
  <2> QED
    BY <2>1, <2>2, CountKept
<1>5. FlagsOK'
  <2>1. UNCHANGED <<cycling, down>> /\ (applied' = applied \/ applied' = "yes")
    BY DEF Wake, Operate, Settle
  <2> QED
    BY <2>1 DEF Inv, TypeOK, FlagsOK
<1>6. ClusterOK'
  <2>1. CASE Wake(t)
    BY <2>1, LeftAlone DEF Wake
  <2>2. CASE Operate(t)
    BY <2>2, ChangesSound, CreateOK, DeleteOK DEF Inv, Operate
  <2>3. CASE Settle(t)
    <3>1. UNCHANGED <<cluster, pods>> /\ ((troubled' = troubled) \/ (troubled' = TRUE))
      BY <2>3 DEF Settle
    <3>2. \/ faults' = faults
          \/ faults < MaxFaults /\ faults' = faults + 1
      BY <2>3 DEF Settle, Fault
    <3>3. faults' \in 0..MaxFaults
      BY <3>2, DeploymentAssumption DEF Inv, TypeOK
    <3>4. troubled' \in BOOLEAN
      BY <3>1 DEF Inv, TypeOK
    <3> QED
      BY <3>1, <3>3, <3>4 DEF Inv, TypeOK, ClusterOK, OneEach
  <2> QED
    BY <2>1, <2>2, <2>3
<1> QED
  BY <1>1, <1>3, <1>4, <1>5, <1>6, PartsNext

\* A thread that plans, locks, compares, reads or unlocks keeps it.
LEMMA TakesInv ==
  ASSUME NEW t \in Thread
  PROVE  Inv /\ (MakePlan(t) \/ Lock(t) \/ Compare(t) \/ ReadYaml(t) \/ Unlock(t)) => Inv'
<1> SUFFICES ASSUME Inv, MakePlan(t) \/ Lock(t) \/ Compare(t) \/ ReadYaml(t) \/ Unlock(t)
             PROVE  Inv'
  OBVIOUS
<1>1. ClusterOK' /\ YamlOK' /\ RequestOK'
  BY LeftAlone DEF MakePlan, Lock, Compare, ReadYaml, Unlock
<1>2. FlagsOK'
  <2>1. UNCHANGED <<cycling, down>> /\ applied' \in {applied, "none", "no"}
    BY DEF MakePlan, Lock, Compare, ReadYaml, Unlock
  <2> QED
    BY <2>1 DEF Inv, TypeOK, FlagsOK
<1>3. /\ thread \in [Thread -> ThreadRecord] /\ RecordLike(yaml)
      /\ Completes /\ UNCHANGED complete
  <2>1. UNCHANGED complete
    BY DEF MakePlan, Lock, Compare, ReadYaml, Unlock
  <2>2. RecordLike(yaml)
    BY DEF Inv, TypeOK, RecordLike, Recorded, RecordsCore
  <2> QED
    BY <2>1, <2>2 DEF Inv, TypeOK, ThreadRecord, Completes
<1>4. /\ thread[t] \in ThreadRecord
      /\ PlanLike(thread[t].target) /\ RecordLike(thread[t].docs)
  BY <1>3 DEF Inv, ThreadsSound
<1>5. PlanLike({}) /\ RecordLike({})
  BY DEF PlanLike, RecordLike, Recorded, OneEach, Names
<1>6. ThreadsOK' /\ LockOK' /\ \A u \in Thread : u # t => thread'[u] = thread[u]
  <2>1. ASSUME MakePlan(t) PROVE ThreadsOK' /\ LockOK' /\ \A u \in Thread : u # t => thread'[u] = thread[u]
    <3>1. CASE Goto(t, "sleep") /\ locked' \in {locked, FALSE}
      <4>1. "sleep" \in Pc /\ thread[t].pc \notin InSection
        BY <2>1 DEF MakePlan, Pc, InSection
      <4>2. ThreadsOK' /\ (locked' = locked => LockOK')
        BY <1>3, <3>1, <4>1, GoesOn
      <4>3. locked' = FALSE => LockOK'
        BY DEF LockOK, LockHeld
      <4>4. \A u \in Thread : u # t => thread'[u] = thread[u]
        BY <1>3, <3>1 DEF Goto
      <4> QED
        BY <3>1, <4>2, <4>3, <4>4
    <3>2. ASSUME NEW target \in Plans \cup {Kept}, UNCHANGED locked,
                 thread' = [thread EXCEPT ![t].pc = "lock", ![t].target = target]
          PROVE  ThreadsOK' /\ LockOK' /\ \A u \in Thread : u # t => thread'[u] = thread[u]
      <4> DEFINE th == [thread[t] EXCEPT !.pc = "lock", !.target = target]
      <4>1. PlanLike(target)
        BY PlanIsPlan, KeptIsPlan DEF Inv
      <4>2. /\ th \in ThreadRecord
            /\ th.pc = "lock" /\ th.target = target /\ th.docs = thread[t].docs
        BY <1>4, <4>1 DEF ThreadRecord, Pc, PlanLike
      <4>3. thread' = [thread EXCEPT ![t] = th]
        BY <1>3, <3>2 DEF ThreadRecord
      <4>4. thread[t].pc \notin InSection /\ thread[t].docs = {}
        BY <2>1 DEF MakePlan, InSection, Inv, ThreadsSound
      <4> HIDE DEF th
      <4> QED
        BY <1>3, <1>4, <3>2, <4>1, <4>2, <4>3, <4>4, Changes
    <3> QED
      BY <2>1, <3>1, <3>2 DEF MakePlan
  <2>2. ASSUME Lock(t) PROVE ThreadsOK' /\ LockOK' /\ \A u \in Thread : u # t => thread'[u] = thread[u]
    <3> DEFINE th == [thread[t] EXCEPT !.pc = "diff"]
    <3>1. /\ th \in ThreadRecord /\ th.pc \in InSection /\ th.pc # "write"
          /\ th.target = thread[t].target /\ th.docs = thread[t].docs
      BY <1>4 DEF ThreadRecord, Pc, InSection
    <3>2. thread' = [thread EXCEPT ![t] = th] /\ locked' = TRUE
      BY <1>3, <2>2 DEF Lock, Goto, ThreadRecord
    <3> HIDE DEF th
    <3> QED
      BY <1>3, <1>4, <3>1, <3>2, Changes
  <2>3. ASSUME Compare(t) PROVE ThreadsOK' /\ LockOK' /\ \A u \in Thread : u # t => thread'[u] = thread[u]
    <3>1. PICK pc \in {"unlock", "read", "update"} :
            thread' = [thread EXCEPT ![t].docs = yaml, ![t].pc = pc]
      BY <2>3 DEF Compare
    <3> DEFINE th == [pc |-> pc, target |-> thread[t].target, docs |-> yaml]
    <3>2. th \in ThreadRecord /\ th.pc \in InSection /\ th.pc # "write"
      BY <1>3, <1>4 DEF ThreadRecord, Pc, InSection, RecordLike
    <3>3. thread' = [thread EXCEPT ![t] = th] /\ locked' = locked
      BY <1>3, <2>3, <3>1 DEF Compare, ThreadRecord
    <3> QED
      BY <1>3, <1>4, <3>2, <3>3, Changes
  <2>4. ASSUME ReadYaml(t) PROVE ThreadsOK' /\ LockOK' /\ \A u \in Thread : u # t => thread'[u] = thread[u]
    <3>1. CASE Goto(t, "unlock")
      <4>1. "unlock" \in Pc /\ "unlock" \in InSection /\ locked' = locked
        BY <2>4 DEF ReadYaml, Pc, InSection
      <4> QED
        BY <1>3, <3>1, <4>1, GoesOn DEF Goto
    <3>2. CASE yaml # {} /\ thread' = [thread EXCEPT ![t].pc = "write", ![t].docs = yaml]
      <4> DEFINE th == [thread[t] EXCEPT !.pc = "write", !.docs = yaml]
      <4>1. /\ th \in ThreadRecord /\ th.pc \in InSection
            /\ th.target = thread[t].target /\ th.docs = yaml
        BY <1>3, <1>4 DEF ThreadRecord, Pc, InSection, RecordLike
      <4>2. thread' = [thread EXCEPT ![t] = th] /\ locked' = locked
        BY <1>3, <2>4, <3>2 DEF ReadYaml, ThreadRecord
      <4> HIDE DEF th
      <4> QED
        BY <1>3, <1>4, <3>2, <4>1, <4>2, Changes
    <3> QED
      BY <2>4, <3>1, <3>2 DEF ReadYaml
  <2>5. ASSUME Unlock(t) PROVE ThreadsOK' /\ LockOK' /\ \A u \in Thread : u # t => thread'[u] = thread[u]
    <3> DEFINE th == [pc |-> "sleep", target |-> {}, docs |-> {}]
    <3>1. th \in ThreadRecord
      BY DEF ThreadRecord, Pc
    <3>2. thread' = [thread EXCEPT ![t] = th]
      BY <2>5 DEF Unlock
    <3>3. LockOK'
      BY <2>5 DEF Unlock, LockOK, LockHeld
    <3> QED
      BY <1>3, <1>5, <3>1, <3>2, <3>3, Changes
  <2> QED
    BY <2>1, <2>2, <2>3, <2>4, <2>5
<1>7. CountOK'
  <2>1. thread[t].pc # "new" /\ UNCHANGED <<installs, request>>
    BY DEF MakePlan, Lock, Compare, ReadYaml, Unlock
  <2> QED
    BY <1>6, <2>1, CountKept
<1> QED
  BY <1>1, <1>2, <1>6, <1>7, PartsNext

\* Writing the merged record back keeps it.
LEMMA WriteYamlInv == ASSUME NEW t \in Thread PROVE Inv /\ WriteYaml(t) => Inv'
<1> SUFFICES ASSUME Inv, WriteYaml(t) PROVE Inv'
  OBVIOUS
<1>1. ClusterOK' /\ RequestOK' /\ FlagsOK'
  BY LeftAlone DEF WriteYaml
<1>2. RecordLike(yaml') /\ complete' = complete /\ complete \in BOOLEAN
  <2>1. PlanLike(thread[t].target) /\ RecordLike(thread[t].docs) /\ thread[t].docs # {}
    BY DEF Inv, ThreadsSound, WriteYaml
  <2> QED
    BY <2>1, MergedIsRecord DEF WriteYaml, Inv, TypeOK
<1>3. YamlOK'
  BY <1>2 DEF YamlOK, RecordLike, Recorded, RecordsCore, OneEach
<1>4. ThreadsOK' /\ LockOK'
  <2>1. "unlock" \in Pc /\ "unlock" \in InSection /\ Completes
    BY DEF Pc, InSection, WriteYaml, Completes
  <2> QED
    BY <2>1, GoesOn DEF WriteYaml
<1>5. CountOK'
  <2>1. thread[t].pc # "new" /\ UNCHANGED <<installs, request>>
    BY DEF WriteYaml
  <2>2. \A u \in Thread : u # t => thread'[u] = thread[u]
    BY DEF WriteYaml, Goto, Inv, TypeOK
  <2> QED
    BY <2>1, <2>2, CountKept
<1> QED
  BY <1>1, <1>3, <1>4, <1>5, PartsNext

\* Every step keeps the invariant.
LEMMA NextInv == Inv /\ [Next]_vars => Inv'
<1> SUFFICES ASSUME Inv, [Next]_vars PROVE Inv'
  OBVIOUS
<1>1. CASE Next
  <2>1. CASE InstallFirst
    BY <2>1, InstallFirstInv
  <2>2. CASE \E plan \in Plans : InstallSecond(plan)
    BY <2>2, InstallSecondInv
  <2>3. CASE Uninstall \/ SeeUnlocked \/ EndCycle \/ DeleteAll \/ WaitEmpty \/ ClearYaml
    BY <2>3, UninstallInv
  <2>4. CASE \E t \in Thread : Cycle(t)
    BY <2>4, StepsOnInv, TakesInv, WriteYamlInv DEF Cycle
  <2>5. CASE InstallStops \/ \E d \in Resource : Restore(d)
    BY <2>5, OthersInv
  <2> QED
    BY <1>1, <2>1, <2>2, <2>3, <2>4, <2>5 DEF Next, Serve
<1>2. CASE UNCHANGED vars
  BY <1>2, LeftAlone, PartsNext DEF vars
<1> QED
  BY <1>1, <1>2

-----------------------------------------------------------------------------
\* The invariant holds in every state of the program.
THEOREM Invariance == Spec => []Inv
BY InitInv, NextInv, PTL DEF Spec

\* There is one resource of a name in the cluster and in the record, whatever
\* is installed, planned, failed or uninstalled (check_and_update_docs_list).
THEOREM TypeCorrect == Spec => []TypeOK
<1>1. Inv => TypeOK
  BY DEF Inv
<1> QED
  BY <1>1, Invariance, PTL

\* No failure or timeout leaves uninstall_lock set without a thread that will
\* clear it (run_cycle_deploy).
THEOREM LockIsHeld == Spec => []LockHeld
<1>1. Inv => LockHeld
  BY DEF Inv
<1> QED
  BY <1>1, Invariance, PTL

\* The record never loses a function component of the first stage, nor one of the
\* second unless a thread has outlived its installation (save_component_yaml,
\* update_component_yaml), so an uninstall can delete all of them.
THEOREM CoreRecorded == Spec => []RecordsCore
<1>1. Inv => RecordsCore
  BY DEF Inv
<1> QED
  BY <1>1, Invariance, PTL

\* No redeployment thread creates or deletes a function component, or its pods.
SparesCore == cluster' \cap Core = cluster \cap Core /\ pods \cap Core \subseteq pods'

\* What a thread deletes hits no pods of a function component.
LEMMA CoreNotHit ==
  ASSUME NEW docs, Names(docs) \cap Names(Core) = {}
  PROVE  Hit(docs) \cap Core = {}
<1> SUFFICES ASSUME NEW d \in Core, NEW e \in docs, StartsWith(NameOf[d], NameOf[e])
             PROVE  FALSE
  BY DEF Hit
<1>1. NameOf[d] \in Names(Core)
  BY DEF Names
<1>2. NameOf[d] # NameOf[e]
  BY <1>1 DEF Names
<1>3. <<NameOf[e], NameOf[d]>> \in Prefixes
  BY <1>2 DEF StartsWith
<1>4. NameOf[d] \notin Names(Core)
  <2> DEFINE x == <<NameOf[e], NameOf[d]>>
  <2>1. x \in Prefixes /\ x[2] = NameOf[d]
    BY <1>3
  <2>2. {x[1], x[2]} \cap Names(Core) = {}
    BY <2>1, DeploymentAssumption
  <2> QED
    BY <2>1, <2>2
<1> QED
  BY <1>1, <1>4

LEMMA CycleSparesCore ==
  ASSUME Inv, NEW t \in Thread, Cycle(t)
  PROVE  SparesCore
<1>1. CASE UNCHANGED <<cluster, pods>>
  BY <1>1 DEF SparesCore
<1>2. CASE Operate(t)
  <2>1. PICK docs \in {Added(t), Updated(t), Removed(t)} :
          \/ Create(docs) \/ CreateFails(docs) \/ Delete(docs) \/ DeleteFails(docs)
    BY <1>2 DEF Operate
  <2>2. Names(docs) \cap Names(Core) = {}
    BY ChangesSound
  <2>3. CASE Create(docs) \/ CreateFails(docs)
    <3>1. PICK part \in SUBSET docs : cluster' = cluster \cup part /\ pods' = pods \cup part
      BY <2>3 DEF Create, CreateFails
    <3>2. part \cap Core = {}
      BY <2>2 DEF Names
    <3> QED
      BY <3>1, <3>2 DEF SparesCore
  <2>4. CASE Delete(docs) \/ DeleteFails(docs)
    <3>1. PICK hit \in SUBSET docs, part \in SUBSET docs :
            part \subseteq hit /\ cluster' = Without(part) /\ pods' = pods \ Hit(hit)
      BY <2>4 DEF Delete, DeleteFails
    <3>2. Names(hit) \cap Names(Core) = {} /\ Names(part) \cap Names(Core) = {}
      BY <2>2 DEF Names
    <3>3. Hit(hit) \cap Core = {}
      BY <3>2, CoreNotHit
    <3>4. cluster' \cap Core = cluster \cap Core
      BY <3>1, <3>2 DEF Without, Names
    <3> QED
      BY <3>1, <3>3, <3>4 DEF SparesCore
  <2> QED
    BY <2>1, <2>3, <2>4
<1> QED
  BY <1>1, <1>2
  DEF Cycle, Wake, MakePlan, Lock, Compare, Settle, ReadYaml, WriteYaml, Unlock

\* Function components come and go with requests only: redeployments leave them
\* alone even when they race with an uninstall or another installation.
THEOREM CoreLeftAlone == Spec => CoreUntouched
<1>1. Inv /\ [Next]_vars =>
        [cluster' \cap Core # cluster \cap Core \/ ~ (pods \cap Core \subseteq pods')
           => installs' # installs \/ request' # request]_vars
  <2> SUFFICES ASSUME Inv, Next, ~SparesCore
               PROVE  installs' # installs \/ request' # request
    BY DEF vars, SparesCore
  <2>1. ~ \E t \in Thread : Cycle(t)
    BY CycleSparesCore
  <2>2. CASE InstallFirst
    BY <2>2 DEF InstallFirst, Inv, TypeOK
  <2>3. ASSUME NEW plan \in Plans, InstallSecond(plan) PROVE request' # request
    BY <2>3 DEF InstallSecond, Inv, TypeOK
  <2>4. CASE DeleteAll
    BY <2>4 DEF DeleteAll, Inv, TypeOK
  <2>5. ~ (Uninstall \/ SeeUnlocked \/ EndCycle \/ WaitEmpty \/ ClearYaml)
    BY DEF Uninstall, SeeUnlocked, EndCycle, WaitEmpty, ClearYaml, SparesCore
  <2>6. ~ (InstallStops \/ \E d \in Resource : Restore(d))
    BY DEF InstallStops, Restore, SparesCore
  <2> QED
    BY <2>1, <2>2, <2>3, <2>4, <2>5, <2>6 DEF Next, Serve
<1> QED
  BY <1>1, Invariance, PTL DEF Spec, CoreUntouched

-----------------------------------------------------------------------------
(* Why the record and the cluster agree.  As long as nothing has gone wrong  *)
(* there is one live thread at most, an uninstall finds it asleep, and while *)
(* it works the cluster is the record with the changes made so far.          *)

Spared(t) == {d \in yaml : NameOf[d] \notin Names(Updated(t))}

\* The cluster at each point of a redeployment, against the record it has read.
Phase(t) ==
  LET pc == thread[t].pc
      applies == pc \in {"update", "renew", "add", "remove", "settle", "write"}
                   \/ (pc = "read" /\ applied # "no")
  IN  /\ applies => thread[t].docs = yaml /\ yaml # {}
      /\ pc \in {"diff", "update", "unlock"} => cluster = yaml
      /\ pc = "renew" => cluster = Spared(t)
      /\ pc = "add" => cluster = Spared(t) \cup Updated(t)
      /\ pc = "remove" => cluster = Spared(t) \cup Updated(t) \cup Added(t)
      /\ pc \in {"settle", "write"} => cluster = Merged(yaml, thread[t].target)
      /\ pc = "read" => cluster = IF applied = "no" THEN yaml
                                  ELSE Merged(yaml, thread[t].target)

Asleep == \A t \in Live : thread[t].pc = "sleep"
OneLive == \A t, u \in Live : t = u

\* While no request changes the cluster.
Steady ==
  /\ \A t \in Live : Phase(t)
  /\ (\A t \in Live : thread[t].pc \notin InSection) => cluster = yaml

\* Between the stages of an installation nothing else is there.
Installing == Asleep /\ ~cycling /\ cluster = First /\ yaml = First

Uninstalling ==
  /\ Asleep /\ ~cycling
  /\ cluster = IF request.stage = "deleting" THEN request.docs ELSE {}

\* Only a processor whose name begins with another's can be without its pods.
Served == \A d \in cluster : d \in pods \/ Exposed(d)

Untroubled ==
  /\ OneLive /\ Served
  /\ ~cycling => Asleep
  /\ cycling => yaml # {}
  /\ cycling => Live # {}
  /\ request.stage \in {"idle", "waiting", "ending"} => Steady
  /\ request.stage = "second" => Installing
  /\ request.stage \in {"deleting", "emptying", "clearing"} => Uninstalling

InvC == ~troubled => Untroubled

\* Nothing is deployed or recorded at first.
LEMMA InitUntroubled == Init => InvC
<1> SUFFICES ASSUME Init PROVE Untroubled
  BY DEF InvC
<1>1. Live = {}
  BY DEF Init, Live
<1>2. Steady
  BY <1>1 DEF Init, Steady
<1> QED
  BY <1>1, <1>2 DEF Init, Untroubled, OneLive, Asleep, Served

\* No function component is ever without its pods.
LEMMA CoreNotExposed == \A d \in Core : ~ Exposed(d)
<1> SUFFICES ASSUME NEW d \in Core, NEW e \in Resource, <<NameOf[e], NameOf[d]>> \in Prefixes
             PROVE  FALSE
  BY DEF Exposed
<1> DEFINE x == <<NameOf[e], NameOf[d]>>
<1>1. x \in Prefixes /\ x[2] = NameOf[d]
  OBVIOUS
<1>2. {x[1], x[2]} \cap Names(Core) = {}
  BY <1>1, DeploymentAssumption
<1> QED
  BY <1>1, <1>2 DEF Names

\* Creating and deleting without a failure leave pods to all that is not exposed.
LEMMA StaysServed ==
  ASSUME Inv, Served, NEW docs, Create(docs) \/ (docs \subseteq Resource /\ Delete(docs))
  PROVE  Served'
<1>1. CASE Create(docs)
  BY <1>1 DEF Create, Served, Exposed
<1>2. CASE docs \subseteq Resource /\ Delete(docs)
  <2> SUFFICES ASSUME NEW d \in cluster', d \notin pods' PROVE Exposed(d)
    BY DEF Served, Exposed
  <2>1. d \in cluster /\ NameOf[d] \notin Names(docs) /\ pods' = pods \ Hit(docs)
    BY <1>2 DEF Delete, Without
  <2>2. CASE d \notin pods
    BY <2>1, <2>2 DEF Served
  <2>3. CASE d \in Hit(docs)
    <3>1. PICK e \in docs : StartsWith(NameOf[d], NameOf[e])
      BY <2>3 DEF Hit
    <3>2. NameOf[d] # NameOf[e]
      BY <2>1 DEF Names
    <3> QED
      BY <1>2, <3>1, <3>2 DEF StartsWith, Exposed
  <2> QED
    BY <2>1, <2>2, <2>3
<1> QED
  BY <1>1, <1>2

\* As long as something is recorded the components of the first stage are there,
\* whatever a redeployment is about to do.
LEMMA FirstStands ==
  ASSUME Inv, Untroubled, Steady, yaml # {}
  PROVE  First \subseteq cluster
<1>1. First \subseteq yaml /\ First \subseteq Core /\ First \subseteq Resource
  BY DeploymentAssumption DEF Inv, RecordsCore, TypeOK
<1>2. CASE \A t \in Live : thread[t].pc \notin InSection
  BY <1>1, <1>2 DEF Steady
<1>3. ASSUME NEW t \in Live, thread[t].pc \in InSection PROVE First \subseteq cluster
  <2>1. t \in Thread /\ Phase(t)
    BY <1>3 DEF Live, Steady
  <2>2. First \subseteq Spared(t)
    BY <1>1, <2>1, ChangesSound DEF Spared, Names
  <2>3. First \subseteq Merged(yaml, thread[t].target)
    <3>1. RecordLike(yaml) /\ PlanLike(thread[t].target)
      BY <2>1 DEF Inv, TypeOK, RecordLike, Recorded, RecordsCore, ThreadsSound
    <3> QED
      BY <3>1, MergedIsRecord DEF RecordLike, Recorded
  <2> QED
    BY <1>1, <1>3, <2>1, <2>2, <2>3 DEF Phase, InSection
<1> QED
  BY <1>2, <1>3

\* So nothing is there and nothing cycles when the page offers an installation.
LEMMA NothingThere ==
  ASSUME Inv, Untroubled, request.stage = "idle", pods = {}
  PROVE  cluster = {} /\ yaml = {} /\ ~cycling /\ Asleep
<1>1. Steady
  BY DEF Untroubled
<1>2. yaml = {}
  <2> SUFFICES ASSUME yaml # {} PROVE FALSE
    OBVIOUS
  <2>1. PICK d \in First : d \in cluster
    BY <1>1, FirstStands, DeploymentAssumption
  <2>2. d \in Core /\ d \notin pods
    BY DeploymentAssumption
  <2> QED
    BY <2>1, <2>2, CoreNotExposed DEF Untroubled, Served
<1>3. ~cycling /\ Asleep
  BY <1>2 DEF Untroubled
<1>4. cluster = yaml
  BY <1>1, <1>3 DEF Steady, Asleep, InSection
<1> QED
  BY <1>2, <1>3, <1>4

\* A live thread is the only one, and stays so.
LEMMA OnlyLive ==
  ASSUME Untroubled, NEW t \in Live, \A u \in Thread \ {t} : thread'[u] = thread[u]
  PROVE  Live \subseteq {t} /\ Live' \subseteq {t} /\ (t \in Live' <=> thread'[t].pc \notin {"new", "gone"})
<1>1. Live \subseteq {t} /\ t \in Thread
  BY DEF Untroubled, OneLive, Live
<1>2. \A u \in Live' : u = t
  BY <1>1 DEF Live
<1> QED
  BY <1>1, <1>2 DEF Live

\* A thread that is awake and does not end: what is left to show of its step.
LEMMA AwakeStep ==
  ASSUME Inv, Untroubled, NEW t \in Thread,
         thread[t].pc \notin {"new", "gone", "sleep"}, thread'[t].pc \notin {"new", "gone"},
         \A u \in Thread \ {t} : thread'[u] = thread[u],
         UNCHANGED <<request, cycling>>,
         Steady => Phase(t)' /\ (thread'[t].pc \notin InSection => cluster' = yaml'),
         Served', yaml' # {}
  PROVE  Untroubled'
<1>1. t \in Live /\ ~Asleep /\ cycling
  BY DEF Live, Asleep, Untroubled
<1>2. Live' = {t}
  BY <1>1, OnlyLive
<1>3. OneLive' /\ cycling' /\ Live' # {}
  BY <1>1, <1>2 DEF OneLive
<1>4. request.stage \notin {"deleting", "emptying", "clearing"} /\ request' = request
  BY <1>1 DEF Untroubled, Uninstalling
<1>5. ASSUME request.stage \in {"idle", "waiting", "ending"} PROVE Steady'
  <2>1. Steady
    BY <1>5 DEF Untroubled
  <2> QED
    BY <1>2, <2>1 DEF Steady
<1>6. request.stage # "second"
  BY <1>1 DEF Untroubled, Installing
<1> QED
  BY <1>3, <1>4, <1>5, <1>6 DEF Untroubled

\* A thread that is awake has something recorded to go by.
LEMMA AwakeRecorded ==
  ASSUME Untroubled, NEW t \in Thread, thread[t].pc \notin {"new", "gone", "sleep"}
  PROVE  yaml # {}
BY DEF Untroubled, Asleep, Live

\* A thread that wakes while an uninstall is under way ends.
LEMMA WakeC ==
  ASSUME Inv, Untroubled, NEW t \in Thread, Wake(t)
  PROVE  Untroubled'
<1>1. /\ t \in Live /\ thread[t].pc = "sleep"
      /\ UNCHANGED <<cluster, pods, yaml, request, cycling, applied>>
  BY DEF Wake, Live
<1>2. /\ \A u \in Thread \ {t} : thread'[u] = thread[u]
      /\ thread'[t].pc = IF cycling THEN "plan" ELSE "gone"
  BY DEF Wake, Goto, Inv, TypeOK
<1>3. Live \subseteq {t} /\ Live' = IF cycling THEN {t} ELSE {}
  BY <1>1, <1>2, OnlyLive
<1>4. OneLive' /\ (~cycling => Asleep') /\ (cycling => Live' # {})
  BY <1>3 DEF OneLive, Asleep
<1>5. ASSUME request.stage \in {"idle", "waiting", "ending"} PROVE Steady'
  <2>1. cluster = yaml
    BY <1>1, <1>3, <1>5 DEF Untroubled, Steady, InSection
  <2> QED
    BY <1>1, <1>2, <1>3, <2>1 DEF Steady, Phase
<1>6. ASSUME request.stage = "second" PROVE Installing'
  BY <1>1, <1>4, <1>6 DEF Untroubled, Installing
<1>7. ASSUME request.stage \in {"deleting", "emptying", "clearing"} PROVE Uninstalling'
  BY <1>1, <1>4, <1>7 DEF Untroubled, Uninstalling
<1>8. Served'
  BY <1>1 DEF Untroubled, Served, Exposed
<1> QED
  BY <1>1, <1>4, <1>5, <1>6, <1>7, <1>8 DEF Untroubled

\* What a thread holds while it goes through its batches.
LEMMA Held ==
  ASSUME Inv, NEW t \in Thread, NEW pc, Goto(t, pc), UNCHANGED yaml
  PROVE  /\ thread'[t].pc = pc /\ thread'[t].docs = thread[t].docs
         /\ thread'[t].target = thread[t].target
         /\ \A u \in Thread \ {t} : thread'[u] = thread[u]
         /\ Spared(t)' = Spared(t) /\ Updated(t)' = Updated(t) /\ Added(t)' = Added(t)
<1>1. /\ thread'[t].pc = pc /\ thread'[t].docs = thread[t].docs
      /\ thread'[t].target = thread[t].target
      /\ \A u \in Thread \ {t} : thread'[u] = thread[u]
  BY DEF Goto, Inv, TypeOK
<1> QED
  BY <1>1 DEF Spared, Updated, Added

\* The batches, taken together, turn the record into what it will become.
LEMMA BatchesMerge ==
  ASSUME Inv, NEW t \in Thread, thread[t].docs = yaml,
         NEW docs, docs = Spared(t) \cup Updated(t) \cup Added(t)
  PROVE  {d \in docs : NameOf[d] \notin Names(Removed(t))} = Merged(yaml, thread[t].target)
<1>1. Updated(t) \cup Added(t) \subseteq thread[t].target
  BY DEF Updated, Added, ToUpdate, ToAdd
<1>2. \A d \in Updated(t) \cup Added(t) : NameOf[d] \notin Names(Removed(t))
  <2> SUFFICES ASSUME NEW d \in Updated(t) \cup Added(t), NEW e \in Removed(t),
                      NameOf[d] = NameOf[e]
               PROVE  FALSE
    BY DEF Names
  <2>1. NameOf[d] \in Names(thread[t].target)
    BY <1>1 DEF Names
  <2> QED
    BY <2>1 DEF Removed, ToRemove
<1>3. Names(Removed(t) \cup Updated(t)) = Names(Removed(t)) \cup Names(Updated(t))
  BY DEF Names
<1> QED
  BY <1>2, <1>3 DEF Merged, Spared, Removed, Updated, Added

\* Each batch leaves what the next one starts from.
LEMMA OperateC ==
  ASSUME Inv, Untroubled, NEW t \in Thread, Operate(t), ~troubled'
  PROVE  Untroubled'
<1>1. UNCHANGED <<yaml, request, cycling, applied>>
  BY DEF Operate
<1>2. ~DeleteFails(Updated(t)) /\ ~CreateFails(Updated(t)) /\ ~CreateFails(Added(t)) /\ ~DeleteFails(Removed(t))
  BY DEF DeleteFails, CreateFails
<1>7. yaml' # {} /\ Served'
  <2>1. Updated(t) \subseteq Resource /\ Removed(t) \subseteq Resource
    BY DEF Inv, TypeOK, Updated, ToUpdate, Removed, ToRemove
  <2>2. \/ Create(Updated(t)) \/ Create(Added(t)) \/ Delete(Updated(t)) \/ Delete(Removed(t))
    BY <1>2 DEF Operate
  <2>3. Served'
    BY <2>1, <2>2, StaysServed DEF Untroubled
  <2>4. yaml # {}
    BY AwakeRecorded DEF Operate
  <2> QED
    BY <1>1, <2>3, <2>4
<1>3. CASE thread[t].pc = "update" /\ Delete(Updated(t)) /\ Goto(t, "renew")
  <2>1. Steady => cluster' = Spared(t) /\ thread[t].docs = yaml /\ yaml # {}
    BY <1>3 DEF Steady, Live, Phase, Delete, Without, Spared
  <2>2. Steady => Phase(t)'
    BY <1>1, <1>3, <2>1, Held DEF Phase
  <2> QED
    BY <1>1, <1>3, <1>7, <2>2, Held, AwakeStep DEF InSection
<1>4. CASE thread[t].pc = "renew" /\ Create(Updated(t)) /\ Goto(t, "add")
  <2>1. Steady => cluster' = Spared(t) \cup Updated(t) /\ thread[t].docs = yaml /\ yaml # {}
    BY <1>4 DEF Steady, Live, Phase, Create
  <2>2. Steady => Phase(t)'
    BY <1>1, <1>4, <2>1, Held DEF Phase
  <2> QED
    BY <1>1, <1>4, <1>7, <2>2, Held, AwakeStep DEF InSection
<1>5. CASE thread[t].pc = "add" /\ Create(Added(t)) /\ Goto(t, "remove")
  <2>1. Steady => cluster' = Spared(t) \cup Updated(t) \cup Added(t) /\ thread[t].docs = yaml /\ yaml # {}
    BY <1>5 DEF Steady, Live, Phase, Create
  <2>2. Steady => Phase(t)'
    BY <1>1, <1>5, <2>1, Held DEF Phase
  <2> QED
    BY <1>1, <1>5, <1>7, <2>2, Held, AwakeStep DEF InSection
<1>6. CASE thread[t].pc = "remove" /\ Delete(Removed(t)) /\ Goto(t, "settle")
  <2>1. ASSUME Steady
        PROVE  cluster' = Merged(yaml, thread[t].target) /\ thread[t].docs = yaml /\ yaml # {}
    <3>1. cluster = Spared(t) \cup Updated(t) \cup Added(t) /\ thread[t].docs = yaml /\ yaml # {}
      BY <1>6, <2>1 DEF Steady, Live, Phase
    <3>2. cluster' = {d \in cluster : NameOf[d] \notin Names(Removed(t))}
      BY <1>6 DEF Delete, Without
    <3> QED
      BY <3>1, <3>2, BatchesMerge
  <2>2. Steady => Phase(t)'
    BY <1>1, <1>6, <2>1, Held DEF Phase
  <2> QED
    BY <1>1, <1>6, <1>7, <2>2, Held, AwakeStep DEF InSection
<1> QED
  BY <1>2, <1>3, <1>4, <1>5, <1>6 DEF Operate

\* Up to the first batch, and after the last step, the two agree.
LEMMA PlansC ==
  ASSUME Inv, Untroubled, NEW t \in Thread,
         MakePlan(t) \/ Lock(t) \/ Compare(t) \/ Unlock(t)
  PROVE  Untroubled'
<1>1. /\ UNCHANGED <<cluster, pods, yaml, request, cycling>>
      /\ thread[t].pc \in {"plan", "lock", "diff", "unlock"}
  BY DEF MakePlan, Lock, Compare, Unlock
<1>2. \A u \in Thread \ {t} : thread'[u] = thread[u]
  BY DEF MakePlan, Lock, Compare, Unlock, Goto, Inv, TypeOK
<1>3. Steady => cluster = yaml
  <2>1. CASE thread[t].pc \in InSection
    BY <1>1, <2>1 DEF Steady, Live, Phase, InSection
  <2>2. CASE thread[t].pc \notin InSection
    <3>1. Live \subseteq {t}
      BY <1>1 DEF Live, Untroubled, OneLive
    <3> QED
      BY <2>2, <3>1 DEF Steady
  <2> QED
    BY <2>1, <2>2
<1>4. /\ thread'[t].pc \in {"sleep", "lock", "diff", "unlock", "read", "update"}
      /\ thread'[t].pc = "read" => applied' = "no"
      /\ thread'[t].pc = "update" => thread'[t].docs = yaml /\ yaml # {}
  <2>1. CASE MakePlan(t)
    <3>1. CASE Goto(t, "sleep")
      BY <3>1 DEF Goto, Inv, TypeOK
    <3>2. CASE \E target \in Plans \cup {Kept} :
                 thread' = [thread EXCEPT ![t].pc = "lock", ![t].target = target]
      BY <3>2 DEF Inv, TypeOK
    <3> QED
      BY <2>1, <3>1, <3>2 DEF MakePlan
  <2>2. CASE Lock(t)
    BY <2>2 DEF Lock, Goto, Inv, TypeOK
  <2>3. CASE Compare(t)
    <3> DEFINE changes == ToAdd(yaml, thread[t].target) \cup ToUpdate(yaml, thread[t].target)
                               \cup ToRemove(yaml, thread[t].target) = {}
    <3>1. /\ applied' = "no"
          /\ thread' = [thread EXCEPT ![t].docs = yaml,
                                      ![t].pc = IF yaml = {} THEN "unlock"
                                                ELSE IF changes THEN "read" ELSE "update"]
      BY <2>3 DEF Compare
    <3> HIDE DEF changes
    <3>2. thread'[t].docs = yaml
      BY <3>1 DEF Inv, TypeOK
    <3>3. thread'[t].pc = IF yaml = {} THEN "unlock" ELSE IF changes THEN "read" ELSE "update"
      BY <3>1 DEF Inv, TypeOK
    <3> QED
      BY <3>1, <3>2, <3>3
  <2>4. CASE Unlock(t)
    BY <2>4 DEF Unlock, Inv, TypeOK
  <2> QED
    BY <2>1, <2>2, <2>3, <2>4
<1>5. Steady => Phase(t)' /\ cluster' = yaml'
  BY <1>1, <1>3, <1>4 DEF Phase
<1>6. Served' /\ yaml' # {}
  BY <1>1, AwakeRecorded DEF Untroubled, Served, Exposed
<1> QED
  BY <1>1, <1>2, <1>4, <1>5, <1>6, AwakeStep

\* The record is merged from what the batches were computed from.
LEMMA RecordsC ==
  ASSUME Inv, Untroubled, NEW t \in Thread,
         Settle(t) \/ ReadYaml(t) \/ WriteYaml(t), ~troubled'
  PROVE  Untroubled'
<1>1. /\ UNCHANGED <<cluster, pods, request, cycling>>
      /\ thread[t].pc \in {"settle", "read", "write"}
      /\ \A u \in Thread \ {t} : thread'[u] = thread[u]
      /\ Steady => Phase(t)
  BY DEF Settle, ReadYaml, WriteYaml, Goto, FailedOperation, Inv, TypeOK, Steady, Live
<1>6. Served' /\ yaml # {}
  BY <1>1, AwakeRecorded DEF Untroubled, Served, Exposed
<1>2. CASE Settle(t)
  <2>1. Goto(t, "read") /\ applied' = "yes" /\ yaml' = yaml
    BY <1>2 DEF Settle
  <2>2. Steady => Phase(t)'
    BY <1>1, <1>2, <2>1, Held DEF Phase, Settle
  <2> QED
    BY <1>1, <1>6, <2>1, <2>2, Held, AwakeStep DEF InSection
<1>3. CASE ReadYaml(t) /\ (applied = "no" \/ yaml = {})
  <2>1. Goto(t, "unlock") /\ applied' = applied /\ yaml' = yaml
    BY <1>3 DEF ReadYaml
  <2>2. Steady => Phase(t)'
    BY <1>1, <1>3, <2>1, Held DEF Phase, ReadYaml
  <2> QED
    BY <1>1, <1>6, <2>1, <2>2, Held, AwakeStep DEF InSection
<1>4. CASE ReadYaml(t) /\ ~(applied = "no" \/ yaml = {})
  <2>1. /\ thread'[t].pc = "write" /\ thread'[t].docs = yaml
        /\ thread'[t].target = thread[t].target /\ yaml' = yaml
    BY <1>4 DEF ReadYaml, Inv, TypeOK
  <2>2. Steady => Phase(t)'
    BY <1>1, <1>4, <2>1 DEF Phase, ReadYaml
  <2> QED
    BY <1>1, <1>6, <2>1, <2>2, AwakeStep DEF InSection
<1>5. CASE WriteYaml(t)
  <2>1. Goto(t, "unlock") /\ yaml' = Merged(thread[t].docs, thread[t].target)
    BY <1>5 DEF WriteYaml
  <2>2. thread'[t].pc = "unlock"
    BY <2>1 DEF Goto, Inv, TypeOK
  <2>3. Steady => cluster' = yaml'
    BY <1>1, <1>5, <2>1 DEF Phase, WriteYaml
  <2>4. yaml' # {}
    <3>1. PlanLike(thread[t].target) /\ RecordLike(thread[t].docs) /\ thread[t].docs # {}
      BY <1>5 DEF Inv, ThreadsSound, WriteYaml
    <3> QED
      BY <2>1, <3>1, MergedIsRecord
  <2> QED
    BY <1>1, <1>6, <2>2, <2>3, <2>4, AwakeStep DEF Phase, InSection
<1> QED
  BY <1>2, <1>3, <1>4, <1>5

\* All steps of a redeployment thread.
LEMMA CycleC ==
  ASSUME Inv, Untroubled, NEW t \in Thread, Cycle(t), ~troubled'
  PROVE  Untroubled'
BY WakeC, PlansC, OperateC, RecordsC DEF Cycle

\* Requests.
LEMMA InstallC ==
  ASSUME Inv, Untroubled, ~troubled',
         InstallFirst \/ InstallStops \/ \E plan \in Plans : InstallSecond(plan)
  PROVE  Untroubled'
<1>1. CASE InstallFirst
  <2>1. /\ request.stage = "idle" /\ pods = {} /\ request'.stage = "second"
        /\ yaml' = First /\ Create(First) /\ UNCHANGED <<thread, cycling>>
    BY <1>1 DEF InstallFirst, CreateFails, Inv, TypeOK
  <2>2. cluster = {} /\ ~cycling /\ Asleep
    BY <2>1, NothingThere
  <2>3. Installing'
    BY <2>1, <2>2 DEF Installing, Asleep, Live, Create
  <2>4. Served'
    BY <2>1, StaysServed DEF Untroubled
  <2> QED
    BY <2>1, <2>2, <2>3, <2>4 DEF Untroubled, OneLive, Asleep, Live
<1>2. ASSUME NEW plan \in Plans, InstallSecond(plan) PROVE Untroubled'
  <2> DEFINE late == Late \cup plan
  <2>1. /\ request.stage = "second" /\ request'.stage = "idle"
        /\ cluster' = cluster \cup late /\ pods' = pods \cup late
        /\ yaml' = Core \cup plan /\ cycling' = TRUE
        /\ thread' = [thread EXCEPT ![installs].pc = "sleep"] /\ Live = {}
    BY <1>2 DEF InstallSecond, CreateFails, Inv, TypeOK
  <2>2. installs \in Thread
    BY <2>1 DEF Inv, Unstarted
  <2>3. /\ thread'[installs].pc = "sleep"
        /\ \A u \in Thread \ {installs} : thread'[u] = thread[u]
    BY <2>1, <2>2 DEF Inv, TypeOK
  <2>4. Live' = {installs}
    BY <2>1, <2>2, <2>3 DEF Live
  <2>5. cluster' = yaml' /\ yaml' # {}
    <3>1. cluster = First
      BY <2>1 DEF Untroubled, Installing
    <3>2. First \subseteq Core /\ First # {}
      BY DeploymentAssumption
    <3> QED
      BY <2>1, <3>1, <3>2 DEF Late
  <2>6. Steady'
    BY <2>1, <2>3, <2>4, <2>5 DEF Steady, Phase
  <2>7. Served'
    BY <2>1 DEF Untroubled, Served, Exposed
  <2> QED
    BY <2>1, <2>4, <2>5, <2>6, <2>7 DEF Untroubled, OneLive
<1>3. CASE InstallStops
  <2>1. /\ request.stage = "second" /\ request'.stage = "idle"
        /\ UNCHANGED <<cluster, pods, yaml, thread, cycling, applied>>
    BY <1>3 DEF InstallStops, Inv, TypeOK
  <2>2. Asleep /\ ~cycling /\ cluster = yaml
    BY <2>1 DEF Untroubled, Installing
  <2>3. Asleep' /\ Steady'
    BY <2>1, <2>2 DEF Steady, Phase, Asleep, Live
  <2> QED
    BY <2>1, <2>2, <2>3 DEF Untroubled, OneLive, Live, Served, Exposed
<1> QED
  BY <1>1, <1>2, <1>3

\* The operator only adds pods.
LEMMA RestoreC ==
  ASSUME Inv, Untroubled, NEW d \in Resource, Restore(d)
  PROVE  Untroubled'
<1>1. /\ UNCHANGED <<cluster, yaml, thread, cycling, applied, request>>
      /\ pods \subseteq pods'
  BY DEF Restore
<1>2. Served'
  BY <1>1 DEF Untroubled, Served, Exposed
<1>3. /\ OneLive' = OneLive /\ Asleep' = Asleep /\ Steady' = Steady /\ Live' = Live
      /\ Installing' = Installing /\ Uninstalling' = Uninstalling
  BY <1>1 DEF OneLive, Asleep, Live, Steady, Phase, Spared, Updated, Added, Installing, Uninstalling
<1> QED
  BY <1>1, <1>2, <1>3 DEF Untroubled

\* An uninstall deletes what the record says, which is all there is.
LEMMA UninstallC ==
  ASSUME Inv, Untroubled, ~troubled',
         Uninstall \/ SeeUnlocked \/ EndCycle \/ DeleteAll \/ WaitEmpty \/ ClearYaml
  PROVE  Untroubled'
<1>1. UNCHANGED thread /\ Live' = Live /\ (Asleep => Asleep') /\ OneLive'
  BY DEF Uninstall, SeeUnlocked, EndCycle, DeleteAll, WaitEmpty, ClearYaml, Live, Asleep,
         Untroubled, OneLive
<1>7. Served'
  <2>1. CASE DeleteAll
    <3>1. Delete(request.docs) /\ request.docs \subseteq Resource
      BY <2>1 DEF DeleteAll, DeleteFails, Inv, TypeOK
    <3> QED
      BY <3>1, StaysServed DEF Untroubled
  <2>2. CASE UNCHANGED <<cluster, pods>>
    BY <2>2 DEF Untroubled, Served, Exposed
  <2> QED
    BY <2>1, <2>2 DEF Uninstall, SeeUnlocked, EndCycle, WaitEmpty, ClearYaml
<1>8. UNCHANGED yaml \/ ~cycling'
  BY DEF Uninstall, SeeUnlocked, EndCycle, DeleteAll, WaitEmpty, ClearYaml, Untroubled, Uninstalling
<1>2. CASE Uninstall \/ SeeUnlocked
  <2>1. /\ request.stage \in {"idle", "waiting"} /\ request'.stage \in {"waiting", "ending"}
        /\ UNCHANGED <<cluster, yaml, cycling, applied>>
    BY <1>2 DEF Uninstall, SeeUnlocked, Inv, TypeOK
  <2>2. Steady'
    BY <1>1, <2>1 DEF Untroubled, Steady, Phase, Spared, Updated, Added
  <2> QED
    BY <1>1, <2>1, <2>2, <1>7, <1>8 DEF Untroubled
<1>3. CASE EndCycle
  <2>1. /\ request.stage = "ending" /\ cycling' = FALSE /\ cluster' = cluster
        /\ request'.stage = "deleting" /\ request'.docs = yaml /\ Asleep
    BY <1>3 DEF EndCycle, Inv, TypeOK, Asleep
  <2>2. cluster = yaml
    BY <2>1 DEF Untroubled, Steady, Asleep, InSection
  <2> QED
    BY <1>1, <2>1, <2>2, <1>7, <1>8 DEF Untroubled, Uninstalling
<1>4. CASE DeleteAll
  <2>1. /\ request.stage = "deleting" /\ request'.stage = "emptying" /\ cycling' = cycling
        /\ cluster' = Without(request.docs)
    BY <1>4 DEF DeleteAll, DeleteFails, Delete, Inv, TypeOK
  <2>2. Asleep /\ ~cycling /\ cluster = request.docs
    BY <2>1 DEF Untroubled, Uninstalling
  <2>3. cluster' = {}
    BY <2>1, <2>2 DEF Without, Names
  <2> QED
    BY <1>1, <2>1, <2>2, <2>3, <1>7, <1>8 DEF Untroubled, Uninstalling
<1>5. CASE WaitEmpty
  <2>1. request.stage = "emptying" /\ UNCHANGED <<cluster, cycling>> /\ request'.stage = "clearing"
    <3>1. request' = [request EXCEPT !.stage = "clearing", !.ok = (pods = {})]
      BY <1>5 DEF WaitEmpty
    <3>2. request \in [stage : Stage, docs : SUBSET Resource, ok : BOOLEAN]
      BY DEF Inv, TypeOK
    <3>3. request'.stage = "clearing"
      BY <3>1, <3>2, Zenon
    <3> QED
      BY <1>5, <3>3 DEF WaitEmpty
  <2> QED
    BY <1>1, <2>1, <1>7, <1>8 DEF Untroubled, Uninstalling
<1>6. CASE ClearYaml
  <2>1. /\ request.stage = "clearing" /\ request'.stage = "idle"
        /\ UNCHANGED <<cluster, cycling, applied>> /\ yaml' = {}
    BY <1>6 DEF ClearYaml
  <2>2. Asleep /\ ~cycling /\ cluster = {}
    BY <2>1 DEF Untroubled, Uninstalling
  <2>3. Steady'
    BY <1>1, <2>1, <2>2 DEF Steady, Phase, Asleep
  <2> QED
    BY <1>1, <2>1, <2>2, <2>3, <1>7, <1>8 DEF Untroubled
<1> QED
  BY <1>2, <1>3, <1>4, <1>5, <1>6

\* Every step preserves InvC.
LEMMA NextC == Inv /\ InvC /\ [Next]_vars => InvC'
<1> SUFFICES ASSUME Inv, InvC, [Next]_vars, ~troubled' PROVE Untroubled'
  BY DEF InvC
<1>1. CASE Next
  <2>1. ~troubled
    BY <1>1
    DEF Next, Serve, Cycle, InstallFirst, InstallStops, InstallSecond, Restore, Uninstall, SeeUnlocked, EndCycle,
        DeleteAll, WaitEmpty, ClearYaml, Wake, MakePlan, Lock, Compare, Operate, Settle,
        ReadYaml, WriteYaml, Unlock, Create, CreateFails, Delete, DeleteFails
  <2>2. Untroubled
    BY <2>1 DEF InvC
  <2> QED
    BY <1>1, <2>2, InstallC, UninstallC, CycleC, RestoreC DEF Next, Serve
<1>2. CASE UNCHANGED vars
  <2>1. Untroubled
    BY <1>2 DEF InvC, vars
  <2> QED
    BY <1>2, <2>1 DEF vars, Untroubled, OneLive, Asleep, Live, Steady, Phase, Spared, Updated,
                      Added, Installing, Uninstalling, Served, Exposed
<1> QED
  BY <1>1, <1>2

\* Whenever nothing is going on and nothing has gone wrong, what the record says
\* is deployed is what the cluster has (update_component_yaml): the batches of a
\* redeployment and the merge of its record come to the same.  What has no pods
\* then is a processor whose name begins with another's.
THEOREM RecordAgrees == Spec => []Consistent
<1>1. Inv /\ InvC => Consistent
  BY DEF InvC, Untroubled, Steady, Consistent, Quiet, Live, Served
<1>2. Init => Inv /\ InvC
  BY InitInv, InitUntroubled
<1>3. Inv /\ InvC /\ [Next]_vars => Inv' /\ InvC'
  BY NextInv, NextC
<1> QED
  BY <1>1, <1>2, <1>3, PTL DEF Spec

=============================================================================
