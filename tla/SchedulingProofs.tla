-------------------------- MODULE SchedulingProofs --------------------------
(* Proofs about Scheduling, for every number of sources and devices and    *)
(* every bound on outages and faults.  The inductive invariant falls into  *)
(* four parts that no action ties together, each proved by itself.         *)
EXTENDS Scheduling, TLAPS

ClusterInv ==
  /\ deploy \in {"ready", "starting", "gone"} /\ listed \in BOOLEAN
  /\ outages \in 0..MaxOutages /\ faults \in 0..MaxFaults /\ configured \subseteq Sources

\* What agents heard is what the table shows, and they alone have heard.
SchedulerInv ==
  /\ agents \subseteq Sources /\ fed \subseteq agents
  /\ heard \in [Sources -> [Devices -> Reports]]
  /\ table \in [Devices -> Reports]
  /\ AgentsAgree

\* Past the initial request nothing is pending; what is not pending is fresh or
\* all cloud; and a round of ingestion starts below the threshold.
GeneratorOK(g) ==
  /\ g.at \in {"filter", "again", "ingest"} => ~g.pending
  /\ ~g.pending => g.plan = "cloud" \/ g.fresh
  /\ g.at = "ingest" => g.frames <= Interval

GeneratorInv ==
  /\ gen \in [Sources -> GeneratorState]
  /\ \A s \in Sources : GeneratorOK(gen[s])

\* Whoever is permitted is so under the name of the one holder, as long as the
\* scheduler remembers.
LockInv ==
  /\ mon \in [Devices -> MonitorState]
  /\ holder \in Devices \cup {None} /\ amnesia \in BOOLEAN
  /\ ~amnesia => \A m \in Devices : mon[m].permitted \in {None, holder}

Inv == ClusterInv /\ SchedulerInv /\ GeneratorInv /\ LockInv

\* The invariant holds before anything is registered.
LEMMA InitInv == Init => Inv
<1> SUFFICES ASSUME Init PROVE Inv
  OBVIOUS
<1>1. ClusterInv
  BY SchedulingAssumption DEF Init, ClusterInv, SchedulingAssumption
<1>2. SchedulerInv
  BY DEF Init, SchedulerInv, AgentsAgree, Unheard, Reports
<1>3. GeneratorInv
  BY SchedulingAssumption
  DEF Init, GeneratorInv, GeneratorOK, GeneratorState, FreshGenerator, Plans,
      SchedulingAssumption
<1>4. LockInv
  BY DEF Init, LockInv, MonitorState, FreshMonitor, Values
<1> QED
  BY <1>1, <1>2, <1>3, <1>4 DEF Inv

------------------------------------------------------------------------------
(* The cluster: every action leaves it alone, or stays within the bounds.  *)

\* Every step keeps the bounds and the pods.
LEMMA ClusterStep == ClusterInv /\ [Next]_vars => ClusterInv'
<1> SUFFICES ASSUME ClusterInv, [Next]_vars PROVE ClusterInv'
  OBVIOUS
<1> USE SchedulingAssumption DEF SchedulingAssumption, ClusterInv
<1>1. CASE Outage \/ Progress
  BY <1>1 DEF Outage, Progress
<1>6. CASE Refresh
  <2>1. (deploy # "gone") \in BOOLEAN
    OBVIOUS
  <2> QED
    BY <1>6, <2>1 DEF Refresh
<1>2. CASE \E s \in Sources : GeneratorStep(s) \/ Feedback(s)
  BY <1>2 DEF cluster, GeneratorStep, Check, Health, Request, Filter, Ingest, Feedback
<1>3. CASE \E m \in Devices : MonitorStep(m)
  BY <1>3 DEF cluster, MonitorStep, Ask, Cycle, Post
<1>4. CASE Trouble
  <2>1. UNCHANGED cluster /\ (Fault \/ UNCHANGED faults)
    BY <1>4 DEF Trouble, SchedulerRestart, HealthLost, RequestLost, FilterLost, GeneratorRestart,
                FeedbackLost, AskLost, AskTimesOut, GiveUp, ProbeFails, Post, MonitorRestart
  <2> QED
    BY <2>1 DEF cluster, Fault
<1>5. CASE UNCHANGED vars
  BY <1>5 DEF vars, cluster
<1> QED
  BY <1>1, <1>2, <1>3, <1>4, <1>5, <1>6 DEF Next

------------------------------------------------------------------------------
(* The scheduler's tables.                                                 *)

\* Registering a source keeps tables and agents in step.
LEMMA RegisterKeeps ==
  ASSUME SchedulerInv, NEW s \in Sources, Register(s)
  PROVE  SchedulerInv'
BY DEF SchedulerInv, Register, AgentsAgree

\* A report is told to every agent there is.
LEMMA ReportKeeps ==
  ASSUME SchedulerInv, NEW m \in Devices, NEW report \in Reports, UpdateResource(m, report)
  PROVE  SchedulerInv'
<1>1. agents' = agents /\ fed' = fed /\ table' \in [Devices -> Reports]
  BY DEF SchedulerInv, UpdateResource
<1>2. ASSUME NEW s \in Sources
      PROVE  heard'[s] = IF s \in agents THEN [heard[s] EXCEPT ![m] = report] ELSE heard[s]
  BY DEF UpdateResource
<1>3. heard' \in [Sources -> [Devices -> Reports]]
  BY <1>2 DEF SchedulerInv, UpdateResource
<1>4. ASSUME NEW s \in Sources, NEW n \in Devices, heard'[s][n] # None
      PROVE  s \in agents' /\ heard'[s][n] = table'[n]
  <2>1. heard[s] \in [Devices -> Reports] /\ table \in [Devices -> Reports]
    BY DEF SchedulerInv
  <2>2. s \in agents
    BY <1>2, <1>4 DEF SchedulerInv, AgentsAgree
  <2>3. heard'[s] = [heard[s] EXCEPT ![m] = report] /\ table' = [table EXCEPT ![m] = report]
    BY <1>2, <2>2 DEF UpdateResource
  <2>4. CASE n = m
    BY <1>1, <2>1, <2>2, <2>3, <2>4
  <2>5. CASE n # m
    <3>1. heard'[s][n] = heard[s][n] /\ table'[n] = table[n]
      BY <2>1, <2>3, <2>5
    <3> QED
      BY <1>1, <1>4, <2>2, <3>1 DEF SchedulerInv, AgentsAgree
  <2> QED
    BY <2>4, <2>5
<1> QED
  BY <1>1, <1>3, <1>4 DEF SchedulerInv, AgentsAgree

\* Every step keeps what the agents heard and the table alike.
LEMMA SchedulerStep == SchedulerInv /\ LockInv /\ [Next]_vars => SchedulerInv'
<1> SUFFICES ASSUME SchedulerInv, LockInv, [Next]_vars PROVE SchedulerInv'
  OBVIOUS
<1>1. CASE UNCHANGED scheduler
  BY <1>1 DEF scheduler, SchedulerInv, AgentsAgree
<1>2. ASSUME NEW m \in Devices, Cycle(m) \/ ProbeFails(m) PROVE SchedulerInv'
  <2>1. PICK value \in {Measured(m), "zero", mon[m].value} : UpdateResource(m, value)
    BY <1>2 DEF Cycle, ProbeFails, Post
  <2>2. value \in Reports
    BY DEF Measured, Reports, Values, LockInv, MonitorState
  <2> QED
    BY <2>1, <2>2, ReportKeeps
<1>3. ASSUME NEW s \in Sources, Feedback(s) PROVE SchedulerInv'
  BY <1>3 DEF Feedback, SchedulerInv, AgentsAgree
<1>4. CASE SchedulerRestart
  BY <1>4 DEF SchedulerRestart, SchedulerInv, AgentsAgree, Unheard, Reports
<1>5. ASSUME NEW m \in Devices, Ask(m) \/ AskLost(m) PROVE SchedulerInv'
  BY <1>5 DEF Ask, AskLost, SchedulerInv, AgentsAgree
<1>6. ASSUME NEW s \in Sources, Request(s) \/ RequestLost(s) \/ Filter(s) PROVE SchedulerInv'
  BY <1>1, <1>6, RegisterKeeps DEF Request, RequestLost, Filter
<1>7. CASE Outage \/ Progress \/ Refresh
  BY <1>1, <1>7 DEF Outage, Progress, Refresh
<1>8. ASSUME NEW s \in Sources,
             Check(s) \/ Health(s) \/ Ingest(s) \/ HealthLost(s) \/ FilterLost(s)
               \/ GeneratorRestart(s) \/ FeedbackLost(s)
      PROVE  SchedulerInv'
  BY <1>1, <1>8 DEF Check, Health, Ingest, HealthLost, FilterLost, GeneratorRestart, FeedbackLost
<1>9. ASSUME NEW m \in Devices, AskTimesOut(m) \/ GiveUp(m) \/ MonitorRestart(m)
      PROVE  SchedulerInv'
  BY <1>1, <1>9 DEF AskTimesOut, GiveUp, MonitorRestart
<1>10. CASE UNCHANGED vars
  BY <1>1, <1>10 DEF vars
<1> QED
  BY <1>2, <1>3, <1>4, <1>5, <1>6, <1>7, <1>8, <1>9, <1>10
  DEF Next, GeneratorStep, MonitorStep, Trouble

------------------------------------------------------------------------------
(* The generators.                                                         *)

\* One generator moves, and to a state that is in order.
LEMMA OneMoves ==
  ASSUME GeneratorInv, NEW s \in Sources, NEW g \in GeneratorState, GeneratorOK(g),
         gen' = [gen EXCEPT ![s] = g]
  PROVE  GeneratorInv'
<1>1. gen' \in [Sources -> GeneratorState]
  BY DEF GeneratorInv
<1>2. ASSUME NEW r \in Sources PROVE GeneratorOK(gen'[r])
  <2>1. CASE r = s
    <3>1. gen'[r] = g
      BY <2>1 DEF GeneratorInv
    <3> QED
      BY <3>1
  <2>2. CASE r # s
    <3>1. gen'[r] = gen[r]
      BY <2>2 DEF GeneratorInv
    <3> QED
      BY <3>1 DEF GeneratorInv
  <2> QED
    BY <2>1, <2>2
<1> QED
  BY <1>1, <1>2 DEF GeneratorInv, GeneratorOK

\* An answer, or the fallback for a lost one, is the plan from then on.
LEMMA AnswerKeeps ==
  ASSUME GeneratorInv, NEW s \in Sources, NEW answer \in Plans \cup {None},
         gen[s].at \in {"request", "again"}, AfterSchedule(s, answer)
  PROVE  GeneratorInv'
<1> DEFINE g == [gen[s] EXCEPT !.plan = IF answer = None THEN "cloud" ELSE answer,
                               !.frames = 0,
                               !.pending = FALSE,
                               !.fresh = gen[s].fresh \/ answer # None,
                               !.at = IF gen[s].at = "request" THEN "filter" ELSE "ingest"]
<1>1. gen[s] \in GeneratorState
  BY DEF GeneratorInv
<1>2. gen' = [gen EXCEPT ![s] = g]
  BY DEF AfterSchedule
<1>3. g \in GeneratorState
  <2>1. (IF answer = None THEN "cloud" ELSE answer) \in Plans
    BY DEF Plans
  <2>2. (gen[s].fresh \/ answer # None) \in BOOLEAN
    OBVIOUS
  <2>3. 0 \in 0..(Interval + 1)
    BY SchedulingAssumption DEF SchedulingAssumption
  <2>4. (IF gen[s].at = "request" THEN "filter" ELSE "ingest") \in {"filter", "ingest"}
    OBVIOUS
  <2> QED
    BY <1>1, <2>1, <2>2, <2>3, <2>4 DEF GeneratorState
<1>4. GeneratorOK(g)
  <2>1. /\ g.pending = FALSE /\ g.frames = 0
        /\ g.plan = IF answer = None THEN "cloud" ELSE answer
        /\ g.fresh = (gen[s].fresh \/ answer # None)
    BY <1>1 DEF GeneratorState
  <2>2. g.plan = "cloud" \/ g.fresh
    BY <2>1
  <2>3. g.frames <= Interval
    BY <2>1, SchedulingAssumption DEF SchedulingAssumption
  <2> HIDE DEF g
  <2> QED
    BY <2>1, <2>2, <2>3 DEF GeneratorOK
<1> HIDE DEF g
<1> QED
  BY <1>2, <1>3, <1>4, OneMoves

\* Data the filter lets pass is ingested or asks for a new plan.
LEMMA AdmissionKeeps ==
  ASSUME GeneratorInv, NEW s \in Sources, gen[s].at = "filter", Admitted(s)
  PROVE  GeneratorInv'
<1> DEFINE g == [gen[s] EXCEPT !.at = IF gen[s].frames > Interval THEN "again" ELSE "ingest"]
<1>1. gen[s] \in GeneratorState /\ GeneratorOK(gen[s])
  BY DEF GeneratorInv
<1>2. gen' = [gen EXCEPT ![s] = g]
  BY DEF Admitted
<1>3. g \in GeneratorState
  BY <1>1 DEF GeneratorState
<1>4. GeneratorOK(g)
  BY <1>1, SchedulingAssumption DEF GeneratorOK, GeneratorState, SchedulingAssumption
<1> HIDE DEF g
<1> QED
  BY <1>2, <1>3, <1>4, OneMoves

\* The check of the services makes an old plan a pending one.
LEMMA CheckKeeps ==
  ASSUME GeneratorInv, NEW s \in Sources, Check(s)
  PROVE  GeneratorInv'
<1>1. gen[s] \in GeneratorState /\ GeneratorOK(gen[s])
  BY DEF GeneratorInv
<1>2. CASE ~ServicesRunning
  <2> DEFINE g == [gen[s] EXCEPT !.ready = FALSE, !.pending = TRUE, !.fresh = FALSE]
  <2>1. gen' = [gen EXCEPT ![s] = g]
    BY <1>2 DEF Check
  <2>2. g \in GeneratorState /\ GeneratorOK(g)
    BY <1>1 DEF GeneratorState, GeneratorOK, Check
  <2> HIDE DEF g
  <2> QED
    BY <2>1, <2>2, OneMoves
<1>3. CASE ServicesRunning
  <2> DEFINE g == [gen[s] EXCEPT !.at = IF ~gen[s].ready THEN "health"
                                        ELSE IF gen[s].pending THEN "request" ELSE "filter"]
  <2>1. gen' = [gen EXCEPT ![s] = g]
    BY <1>3 DEF Check
  <2>2. g \in GeneratorState /\ GeneratorOK(g)
    BY <1>1 DEF GeneratorState, GeneratorOK, Check
  <2> HIDE DEF g
  <2> QED
    BY <2>1, <2>2, OneMoves
<1> QED
  BY <1>2, <1>3

\* A health check, answered or lost, keeps the generators' invariant.
LEMMA HealthKeeps ==
  ASSUME GeneratorInv, NEW s \in Sources, Health(s) \/ HealthLost(s)
  PROVE  GeneratorInv'
<1> DEFINE up == [gen[s] EXCEPT !.ready = TRUE, !.pending = TRUE, !.at = "request"]
           back == [gen[s] EXCEPT !.at = "check"]
<1>1. gen[s] \in GeneratorState /\ GeneratorOK(gen[s])
  BY DEF GeneratorInv
<1>2. \/ gen' = [gen EXCEPT ![s] = up]
      \/ gen' = [gen EXCEPT ![s] = back]
  BY DEF Health, HealthLost
<1>3. up \in GeneratorState /\ GeneratorOK(up)
  BY <1>1 DEF GeneratorState, GeneratorOK
<1>4. back \in GeneratorState /\ GeneratorOK(back)
  BY <1>1 DEF GeneratorState, GeneratorOK
<1> HIDE DEF up, back
<1> QED
  BY <1>2, <1>3, <1>4, OneMoves

\* Ingesting, which counts a frame, keeps it within the round.
LEMMA IngestKeeps ==
  ASSUME GeneratorInv, NEW s \in Sources, Ingest(s)
  PROVE  GeneratorInv'
<1> DEFINE g == [gen[s] EXCEPT !.at = "check", !.flying = TRUE, !.frames = gen[s].frames + 1]
<1>1. gen[s] \in GeneratorState /\ GeneratorOK(gen[s]) /\ gen[s].at = "ingest"
  BY DEF GeneratorInv, Ingest
<1>2. gen' = [gen EXCEPT ![s] = g]
  BY DEF Ingest
<1>3. gen[s].frames + 1 \in 0..(Interval + 1)
  BY <1>1, SchedulingAssumption DEF GeneratorState, GeneratorOK, SchedulingAssumption
<1>4. g \in GeneratorState /\ GeneratorOK(g)
  BY <1>1, <1>3 DEF GeneratorState, GeneratorOK
<1> HIDE DEF g
<1> QED
  BY <1>2, <1>4, OneMoves

\* A restart, and what comes back from a task, keep the invariant.
LEMMA OtherwiseKeeps ==
  ASSUME GeneratorInv, NEW s \in Sources,
         GeneratorRestart(s) \/ Feedback(s) \/ FeedbackLost(s)
  PROVE  GeneratorInv'
<1> DEFINE born == [FreshGenerator EXCEPT !.flying = gen[s].flying]
           landed == [gen[s] EXCEPT !.flying = FALSE]
<1>1. gen[s] \in GeneratorState /\ GeneratorOK(gen[s])
  BY DEF GeneratorInv
<1>2. \/ gen' = [gen EXCEPT ![s] = born]
      \/ gen' = [gen EXCEPT ![s] = landed]
  BY DEF GeneratorRestart, Feedback, FeedbackLost
<1>3. born \in GeneratorState /\ GeneratorOK(born)
  <2>1. 0 \in 0..(Interval + 1)
    BY SchedulingAssumption DEF SchedulingAssumption
  <2>2. FreshGenerator \in GeneratorState
    BY <2>1 DEF GeneratorState, FreshGenerator, Plans
  <2>3. born \in GeneratorState
    BY <1>1, <2>2 DEF GeneratorState
  <2>4. born.at = "check" /\ born.pending = TRUE
    BY DEF FreshGenerator
  <2> QED
    BY <2>3, <2>4 DEF GeneratorOK
<1>4. landed \in GeneratorState /\ GeneratorOK(landed)
  BY <1>1 DEF GeneratorState, GeneratorOK
<1> HIDE DEF born, landed
<1> QED
  BY <1>2, <1>3, <1>4, OneMoves

\* Every step keeps the generators' invariant.
LEMMA GeneratorsStep == GeneratorInv /\ [Next]_vars => GeneratorInv'
<1> SUFFICES ASSUME GeneratorInv, [Next]_vars PROVE GeneratorInv'
  OBVIOUS
<1>1. CASE UNCHANGED gen
  BY <1>1 DEF GeneratorInv
<1>2. ASSUME NEW s \in Sources, Request(s) PROVE GeneratorInv'
  <2>1. SchedulePlan(s) \in Plans
    BY DEF GeneratorInv, GeneratorState, SchedulePlan, AgentPlan, Plans
  <2> QED
    BY <1>2, <2>1, AnswerKeeps DEF Request
<1>3. ASSUME NEW s \in Sources, RequestLost(s) PROVE GeneratorInv'
  BY <1>3, AnswerKeeps DEF RequestLost
<1>4. ASSUME NEW s \in Sources, Filter(s) \/ FilterLost(s) PROVE GeneratorInv'
  BY <1>4, AdmissionKeeps DEF Filter, FilterLost
<1>5. CASE Outage \/ Progress \/ Refresh
  BY <1>1, <1>5 DEF Outage, Progress, Refresh
<1>6. ASSUME NEW m \in Devices,
             Ask(m) \/ Cycle(m) \/ AskLost(m) \/ AskTimesOut(m) \/ GiveUp(m)
               \/ ProbeFails(m) \/ MonitorRestart(m)
      PROVE  GeneratorInv'
  BY <1>1, <1>6 DEF Ask, Cycle, Post, AskLost, AskTimesOut, GiveUp, ProbeFails, MonitorRestart
<1>7. CASE SchedulerRestart
  BY <1>1, <1>7 DEF SchedulerRestart
<1>8. CASE UNCHANGED vars
  BY <1>1, <1>8 DEF vars
<1> QED
  BY <1>2, <1>3, <1>4, <1>5, <1>6, <1>7, <1>8, CheckKeeps, HealthKeeps, IngestKeeps,
     OtherwiseKeeps
  DEF Next, GeneratorStep, MonitorStep, Trouble

------------------------------------------------------------------------------
(* The lock and those who were told of it.                                 *)

\* Every step keeps the lock with the device that was told it holds it.
LEMMA LockStep == LockInv /\ [Next]_vars => LockInv'
<1> SUFFICES ASSUME LockInv, [Next]_vars PROVE LockInv'
  OBVIOUS
<1> USE SchedulingAssumption DEF SchedulingAssumption
<1>1. CASE UNCHANGED <<mon, holder, amnesia>>
  BY <1>1 DEF LockInv
<1>2. ASSUME NEW m \in Devices, Ask(m) PROVE LockInv'
  <2>1. Holder(m) \in Devices
    BY DEF LockInv, Holder
  <2>2. mon' \in [Devices -> MonitorState]
    BY <1>2, <2>1 DEF Ask, LockInv, MonitorState
  <2>3. ASSUME ~amnesia, NEW n \in Devices PROVE mon'[n].permitted \in {None, Holder(m)}
    <3>1. CASE n = m
      BY <1>2, <3>1 DEF Ask, LockInv, MonitorState
    <3>2. CASE n # m
      <4>1. mon'[n] = mon[n]
        BY <1>2, <3>2 DEF Ask, LockInv
      <4> QED
        BY <2>3, <4>1 DEF LockInv, Holder
    <3> QED
      BY <3>1, <3>2
  <2> QED
    BY <1>2, <2>1, <2>2, <2>3 DEF Ask, LockInv
<1>3. ASSUME NEW m \in Devices, AskLost(m) PROVE LockInv'
  <2>1. Holder(m) \in Devices
    BY DEF LockInv, Holder
  <2>2. mon' \in [Devices -> MonitorState] /\ \A n \in Devices : mon'[n].permitted = mon[n].permitted
    BY <1>3 DEF AskLost, LockInv, MonitorState
  <2> QED
    BY <1>3, <2>1, <2>2 DEF AskLost, LockInv, Holder
<1>4. ASSUME NEW m \in Devices, GiveUp(m) PROVE LockInv'
  <2>1. mon' \in [Devices -> MonitorState] /\ \A n \in Devices : mon'[n].permitted = mon[n].permitted
    BY <1>4 DEF GiveUp, LockInv, MonitorState
  <2> QED
    BY <1>4, <2>1 DEF GiveUp, scheduler, LockInv
<1>5. ASSUME NEW m \in Devices, AskTimesOut(m) \/ MonitorRestart(m) PROVE LockInv'
  <2>1. mon' = [mon EXCEPT ![m] = FreshMonitor] /\ mon \in [Devices -> MonitorState]
    BY <1>5 DEF AskTimesOut, MonitorRestart, LockInv
  <2>2. FreshMonitor \in MonitorState /\ FreshMonitor.permitted = None
    BY DEF FreshMonitor, MonitorState, Values
  <2>3. /\ mon' \in [Devices -> MonitorState]
        /\ \A n \in Devices : mon'[n].permitted \in {None, mon[n].permitted}
    BY <2>1, <2>2
  <2> QED
    BY <1>5, <2>3 DEF AskTimesOut, MonitorRestart, scheduler, LockInv
<1>6. CASE SchedulerRestart
  BY <1>6 DEF SchedulerRestart, LockInv
<1>7. CASE Outage \/ Progress \/ Refresh
  BY <1>1, <1>7 DEF Outage, Progress, Refresh, scheduler
<1>8. ASSUME NEW s \in Sources,
             GeneratorStep(s) \/ Feedback(s) \/ HealthLost(s) \/ RequestLost(s) \/ FilterLost(s)
               \/ GeneratorRestart(s) \/ FeedbackLost(s)
      PROVE  LockInv'
  BY <1>1, <1>8
  DEF GeneratorStep, Check, Health, Request, Filter, Ingest, Feedback, HealthLost, RequestLost,
      FilterLost, GeneratorRestart, FeedbackLost, Register, scheduler
<1>9. ASSUME NEW m \in Devices, Cycle(m) \/ ProbeFails(m) PROVE LockInv'
  <2>1. PICK value \in {Measured(m), "zero", mon[m].value} : Post(m, value)
    BY <1>9 DEF Cycle, ProbeFails
  <2>2. value \in Values
    BY DEF Measured, Values, LockInv, MonitorState
  <2>3. mon' \in [Devices -> MonitorState] /\ \A n \in Devices : mon'[n].permitted = mon[n].permitted
    BY <2>1, <2>2 DEF Post, LockInv, MonitorState
  <2>4. UNCHANGED <<holder, amnesia>>
    BY <2>1 DEF Post, UpdateResource
  <2> QED
    BY <2>3, <2>4 DEF LockInv
<1>10. CASE UNCHANGED vars
  BY <1>1, <1>10 DEF vars, scheduler
<1> QED
  BY <1>2, <1>3, <1>4, <1>5, <1>6, <1>7, <1>8, <1>9, <1>10 DEF Next, MonitorStep, Trouble

------------------------------------------------------------------------------
\* The four parts hold in every state.
THEOREM Invariance == Spec => []Inv
<1>1. Inv /\ [Next]_vars => Inv'
  BY ClusterStep, SchedulerStep, GeneratorsStep, LockStep DEF Inv
<1> QED
  BY InitInv, <1>1, PTL DEF Spec

\* Every variable keeps its type.
THEOREM TypeCorrect == Spec => []TypeOK
<1>1. Inv => TypeOK
  BY DEF Inv, ClusterInv, SchedulerInv, GeneratorInv, LockInv, TypeOK
<1> QED
  BY Invariance, <1>1, PTL

\* No two devices probe the bandwidth under a scheduler that was never
\* restarted, whatever is lost and whichever monitors restart.
THEOREM OneProbe == Spec => []ExclusiveProbe
<1>1. Inv => ExclusiveProbe
  <2> SUFFICES ASSUME LockInv, NEW m \in Devices, NEW n \in Devices, ~amnesia,
                      mon[m].permitted = m, mon[n].permitted = n
               PROVE  m = n
    BY DEF Inv, ExclusiveProbe
  <2> QED
    BY SchedulingAssumption DEF LockInv, SchedulingAssumption
<1> QED
  BY Invariance, <1>1, PTL

\* Nothing is ingested under a plan of before an outage the generator saw.
THEOREM Fresh == Spec => []FreshBeforeIngest
<1>1. Inv => FreshBeforeIngest
  BY DEF Inv, GeneratorInv, GeneratorOK, FreshBeforeIngest
<1> QED
  BY Invariance, <1>1, PTL

\* The agents and the table never disagree about a device.
THEOREM Agreement == Spec => []AgentsAgree
<1>1. Inv => AgentsAgree
  BY DEF Inv, SchedulerInv
<1> QED
  BY Invariance, <1>1, PTL
=============================================================================
