----------------------------- MODULE Scheduling -----------------------------
(***************************************************************************)
(* The scheduler and the three kinds of process that talk to it: the       *)
(* generator of each source (asks for a schedule, then ingests data), the  *)
(* monitor of each edge device (asks once whether it may probe the         *)
(* bandwidth, then posts its resources for ever) and the distributor       *)
(* (feeds finished tasks back).  The scheduler serves one request at a     *)
(* time and keeps everything in memory: its agents, the resources, and who *)
(* holds the resource lock.  Around them stand the processors' pods, which *)
(* a redeployment removes and starts again, and the cached table of them.  *)
(*                                                                         *)
(* A plan is where the service under study runs: "edge" is what the fixed  *)
(* agent is configured to answer, "cloud" the fallback.                    *)
(***************************************************************************)
EXTENDS Naturals, FiniteSets

CONSTANTS
  Sources,       \* the ids of the sources, each with a generator
  Devices,       \* the edge devices, each with a monitor
  None,          \* Python's None, and the empty permitted_device
  Interval,      \* REQUEST_SCHEDULING_INTERVAL, in rounds of ingestion
  MaxOutages,    \* bound: how often the processors are taken down
  MaxFaults      \* bound: requests lost, processes restarted, probes that fail

ASSUME SchedulingAssumption ==
  /\ None \notin Devices
  /\ Interval \in Nat
  /\ MaxOutages \in Nat
  /\ MaxFaults \in Nat

VARIABLES
  deploy,        \* the processors' pods: "ready", "starting" or "gone"
  listed,        \* does KubeConfig's cached table list the service?
  outages,       \* how often the pods have been taken down
  configured,    \* the sources whose agent has a plan of its own
  agents,        \* schedule_table: the sources with an agent
  heard,         \* heard[s][m]: what the agent of s last heard of device m
  fed,           \* the sources whose agent has heard of a finished task
  table,         \* resource_table: the last report of each device
  holder,        \* who holds the lock "available_bandwidth"
  amnesia,       \* has the scheduler ever been restarted?
  gen,           \* gen[s]: the generator of source s
  mon,           \* mon[m]: the monitor of device m
  faults         \* how many faults there have been

cluster == <<deploy, listed, outages, configured>>
scheduler == <<agents, heard, fed, table, holder, amnesia>>
vars == <<cluster, scheduler, gen, mon, faults>>

Plans == {"cloud", "edge"}
\* What a device reports of its bandwidth: nothing, -1 as it may not probe, 0 for
\* an error, or a measurement.
Values == {"unset", "skipped", "zero", "measured"}
Reports == {None} \cup Values
Unheard == [m \in Devices |-> None]

\* A generator as its constructor and the first line of its loop leave it: all
\* in the cloud.  "fresh" is history: has the scheduler answered it since it
\* last saw the services down?
FreshGenerator ==
  [at |-> "check", ready |-> FALSE, pending |-> TRUE, plan |-> "cloud",
   frames |-> 0, flying |-> FALSE, fresh |-> FALSE]

\* value: the entry of the bandwidth in resource_info.
FreshMonitor ==
  [at |-> "start", permitted |-> None, gaveUp |-> FALSE, value |-> "unset"]

Init ==
  /\ deploy \in {"starting", "ready"}
  /\ listed = (deploy = "ready")
  /\ outages = 0
  /\ configured \in SUBSET Sources
  /\ agents = {}
  /\ heard = [s \in Sources |-> Unheard]
  /\ fed = {}
  /\ table = Unheard
  /\ holder = None
  /\ amnesia = FALSE
  /\ gen = [s \in Sources |-> FreshGenerator]
  /\ mon = [m \in Devices |-> FreshMonitor]
  /\ faults = 0

\* Something goes wrong once more.
Fault ==
  /\ faults < MaxFaults
  /\ faults' = faults + 1

------------------------------------------------------------------------------
(* The pods of the processors, and the table the scheduler reads them from. *)

\* A redeployment takes the pods down; with the pods it deletes they are gone
\* from the listing until it creates them again.
Outage ==
  /\ outages < MaxOutages
  /\ deploy = "ready"
  /\ deploy' \in {"starting", "gone"}
  /\ outages' = outages + 1
  /\ UNCHANGED <<listed, configured, scheduler, gen, mon, faults>>

Progress ==
  /\ \/ deploy = "gone" /\ deploy' = "starting"
     \/ deploy = "starting" /\ deploy' = "ready"
  /\ UNCHANGED <<listed, outages, configured, scheduler, gen, mon, faults>>

\* The cached table of the pods expires and is read again.
Refresh ==
  /\ listed # (deploy # "gone")
  /\ listed' = (deploy # "gone")
  /\ UNCHANGED <<deploy, outages, configured, scheduler, gen, mon, faults>>

\* No listed pod is short of running: also true when there is no pod at all.
ServicesRunning == deploy # "starting"

------------------------------------------------------------------------------
(* The scheduler's handlers. *)

\* The agent of source s exists from the first request that names s.
Register(s) ==
  /\ agents' = agents \cup {s}
  /\ UNCHANGED <<heard, fed, table, holder, amnesia>>

\* The fixed agent places the service at its configured device if the table
\* lists it; an agent with no plan leaves it to the startup policy, which
\* answers the generator's own.
AgentPlan(s) ==
  IF s \in configured THEN IF listed THEN "edge" ELSE "cloud"
                      ELSE gen[s].plan

\* While a pod is not running the answer is all cloud, whoever decided.
SchedulePlan(s) ==
  IF ServicesRunning THEN AgentPlan(s) ELSE "cloud"

\* Mutants: whoever asks is let in; the holder itself is turned away.
HolderLatest(m) == m

HolderOnce(m) == IF holder = None THEN m ELSE IF holder = m THEN None ELSE holder

\* acquire_lock: the first to ask holds the lock for good.
Holder(m) == IF holder = None THEN m ELSE holder

\* Mutant: agents hear of a device when it is new, as register_resource_table
\* does for the table.
UpdateResourceOnce(m, report) ==
  /\ table' = [table EXCEPT ![m] = report]
  /\ heard' = [s \in Sources |->
                 IF s \in agents /\ table[m] = None
                 THEN [heard[s] EXCEPT ![m] = report] ELSE heard[s]]
  /\ UNCHANGED <<agents, fed, holder, amnesia>>

\* A report reaches the table and every agent there is.
UpdateResource(m, report) ==
  /\ table' = [table EXCEPT ![m] = report]
  /\ heard' = [s \in Sources |->
                 IF s \in agents THEN [heard[s] EXCEPT ![m] = report] ELSE heard[s]]
  /\ UNCHANGED <<agents, fed, holder, amnesia>>

\* Mutant: the agents survive what the table does not.
SchedulerRestartKeepsAgents ==
  /\ Fault
  /\ table' = Unheard
  /\ holder' = None
  /\ amnesia' = TRUE
  /\ UNCHANGED <<cluster, agents, heard, fed, gen, mon>>

\* A restarted scheduler has forgotten its agents, its tables and the lock.
SchedulerRestart ==
  /\ Fault
  /\ agents' = {}
  /\ heard' = [s \in Sources |-> Unheard]
  /\ fed' = {}
  /\ table' = Unheard
  /\ holder' = None
  /\ amnesia' = TRUE
  /\ UNCHANGED <<cluster, gen, mon>>

------------------------------------------------------------------------------
(* The generator of source s: one loop. *)

\* Mutant: an outage is waited out and forgotten.
CheckKeepsPlan(s) ==
  /\ gen[s].at = "check"
  /\ gen' = [gen EXCEPT ![s] =
               IF ~ServicesRunning
               THEN [@ EXCEPT !.fresh = FALSE]
               ELSE [@ EXCEPT !.at = IF ~gen[s].ready THEN "health"
                                     ELSE IF gen[s].pending THEN "request" ELSE "filter"]]
  /\ UNCHANGED <<cluster, scheduler, mon, faults>>

\* Services down: all that was known is void, look again.
Check(s) ==
  /\ gen[s].at = "check"
  /\ gen' = [gen EXCEPT ![s] =
               IF ~ServicesRunning
               THEN [@ EXCEPT !.ready = FALSE, !.pending = TRUE, !.fresh = FALSE]
               ELSE [@ EXCEPT !.at = IF ~gen[s].ready THEN "health"
                                     ELSE IF gen[s].pending THEN "request" ELSE "filter"]]
  /\ UNCHANGED <<cluster, scheduler, mon, faults>>

\* Every node's processors are asked for their health, before the first request.
Health(s) ==
  /\ gen[s].at = "health"
  /\ gen' = [gen EXCEPT ![s] =
               IF ServicesRunning
               THEN [@ EXCEPT !.ready = TRUE, !.pending = TRUE, !.at = "request"]
               ELSE [@ EXCEPT !.at = "check"]]
  /\ UNCHANGED <<cluster, scheduler, mon, faults>>

HealthLost(s) ==
  /\ gen[s].at = "health"
  /\ Fault
  /\ gen' = [gen EXCEPT ![s].at = "check"]
  /\ UNCHANGED <<cluster, scheduler, mon>>

\* The after-schedule operation takes over an answer, or goes all cloud without
\* one; either way the generator takes itself to have asked.
AfterSchedule(s, answer) ==
  gen' = [gen EXCEPT ![s] =
            [@ EXCEPT !.plan = IF answer = None THEN "cloud" ELSE answer,
                      !.frames = 0,
                      !.pending = FALSE,
                      !.fresh = gen[s].fresh \/ answer # None,
                      !.at = IF gen[s].at = "request" THEN "filter" ELSE "ingest"]]

Request(s) ==
  /\ gen[s].at \in {"request", "again"}
  /\ Register(s)
  /\ AfterSchedule(s, SchedulePlan(s))
  /\ UNCHANGED <<cluster, mon, faults>>

\* The request or its answer is lost; it is not sent again.
RequestLost(s) ==
  /\ gen[s].at \in {"request", "again"}
  /\ Fault
  /\ Register(s) \/ UNCHANGED scheduler
  /\ AfterSchedule(s, None)
  /\ UNCHANGED <<cluster, mon>>

\* Mutant: the frames are set back every round, not after a request.
AdmittedResets(s) ==
  gen' = [gen EXCEPT ![s] = [@ EXCEPT !.at = "ingest", !.frames = 0]]

\* After enough frames the generator asks again before it ingests.
Admitted(s) ==
  gen' = [gen EXCEPT ![s].at = IF gen[s].frames > Interval THEN "again" ELSE "ingest"]

\* The getter filter asks the scheduler, whose agents admit by default, and
\* admits by itself when no answer comes.
Filter(s) ==
  /\ gen[s].at = "filter"
  /\ Register(s)
  /\ Admitted(s)
  /\ UNCHANGED <<cluster, mon, faults>>

FilterLost(s) ==
  /\ gen[s].at = "filter"
  /\ Fault
  /\ UNCHANGED scheduler
  /\ Admitted(s)
  /\ UNCHANGED <<cluster, mon>>

\* The data getter submits one more task.
Ingest(s) ==
  /\ gen[s].at = "ingest"
  /\ gen' = [gen EXCEPT ![s] = [@ EXCEPT !.at = "check", !.flying = TRUE,
                                         !.frames = gen[s].frames + 1]]
  /\ UNCHANGED <<cluster, scheduler, mon, faults>>

GeneratorRestart(s) ==
  /\ Fault
  /\ gen' = [gen EXCEPT ![s] = [FreshGenerator EXCEPT !.flying = gen[s].flying]]
  /\ UNCHANGED <<cluster, scheduler, mon>>

\* The distributor posts a finished task; without an agent it is dropped.
Feedback(s) ==
  /\ gen[s].flying
  /\ gen' = [gen EXCEPT ![s].flying = FALSE]
  /\ fed' = IF s \in agents THEN fed \cup {s} ELSE fed
  /\ UNCHANGED <<cluster, agents, heard, table, holder, amnesia, mon, faults>>

FeedbackLost(s) ==
  /\ gen[s].flying
  /\ Fault
  /\ gen' = [gen EXCEPT ![s].flying = FALSE]
  /\ UNCHANGED <<cluster, scheduler, mon>>

------------------------------------------------------------------------------
(* The monitor of device m. *)

\* At its start it asks for the lock until it has an answer, and keeps the name
\* it is told for ever.
Ask(m) ==
  /\ mon[m].at \in {"start", "ask"}
  /\ holder' = Holder(m)
  /\ mon' = [mon EXCEPT ![m] = [@ EXCEPT !.permitted = Holder(m), !.at = "cycle"]]
  /\ UNCHANGED <<cluster, agents, heard, fed, table, amnesia, gen, faults>>

\* The scheduler heard it, the answer is lost.
AskLost(m) ==
  /\ mon[m].at \in {"start", "ask"}
  /\ Fault
  /\ holder' = Holder(m)
  /\ mon' = [mon EXCEPT ![m].at = "ask"]
  /\ UNCHANGED <<cluster, agents, heard, fed, table, amnesia, gen>>

\* After 60 seconds without an answer a time-out leaves the constructor, where only
\* exceptions are caught: the process ends, and its pod is started again.
AskTimesOut(m) ==
  /\ mon[m].at = "ask"
  /\ mon' = [mon EXCEPT ![m] = FreshMonitor]
  /\ UNCHANGED <<cluster, scheduler, gen, faults>>

\* The scheduler's address cannot be found: it never asks.
GiveUp(m) ==
  /\ mon[m].at = "start"
  /\ Fault
  /\ mon' = [mon EXCEPT ![m] = [@ EXCEPT !.gaveUp = TRUE, !.at = "cycle"]]
  /\ UNCHANGED <<cluster, scheduler, gen>>

\* What a cycle measures is entered and posted with the rest.
Post(m, value) ==
  /\ mon' = [mon EXCEPT ![m].value = value]
  /\ UpdateResource(m, value)
  /\ UNCHANGED <<cluster, gen>>

\* Only the permitted device probes the bandwidth.
Measured(m) == IF mon[m].permitted = m THEN "measured" ELSE "skipped"

\* One cycle: measure all there is, post it, wait.
Cycle(m) ==
  /\ mon[m].at = "cycle"
  /\ Post(m, Measured(m))
  /\ UNCHANGED faults

\* A probe that ends in an error reports 0.  One that takes more than 2 seconds
\* ends the thread that reads this value only: the old entry, if any, is posted.
ProbeFails(m) ==
  /\ mon[m].at = "cycle" /\ mon[m].permitted = m
  /\ Fault
  /\ \E value \in {"zero", mon[m].value} : Post(m, value)

MonitorRestart(m) ==
  /\ Fault
  /\ mon' = [mon EXCEPT ![m] = FreshMonitor]
  /\ UNCHANGED <<cluster, scheduler, gen>>

------------------------------------------------------------------------------
GeneratorStep(s) ==
  Check(s) \/ Health(s) \/ Request(s) \/ Filter(s) \/ Ingest(s)

MonitorStep(m) == Ask(m) \/ Cycle(m)

Trouble ==
  \/ SchedulerRestart
  \/ \E s \in Sources : \/ HealthLost(s) \/ RequestLost(s) \/ FilterLost(s)
                        \/ GeneratorRestart(s) \/ FeedbackLost(s)
  \/ \E m \in Devices : \/ AskLost(m) \/ AskTimesOut(m) \/ GiveUp(m)
                        \/ ProbeFails(m) \/ MonitorRestart(m)

Next ==
  \/ Outage \/ Progress \/ Refresh
  \/ \E s \in Sources : GeneratorStep(s) \/ Feedback(s)
  \/ \E m \in Devices : MonitorStep(m)
  \/ Trouble

Spec == Init /\ [][Next]_vars

\* Every loop goes round and the cached table expires; the pods need not start.
Fairness ==
  /\ WF_vars(Refresh)
  /\ \A s \in Sources : WF_vars(GeneratorStep(s)) /\ WF_vars(Feedback(s))
  /\ \A m \in Devices : WF_vars(MonitorStep(m))

FairSpec == Spec /\ Fairness

------------------------------------------------------------------------------
GeneratorState ==
  [at : {"check", "health", "request", "again", "filter", "ingest"},
   ready : BOOLEAN, pending : BOOLEAN, plan : Plans, frames : 0..(Interval + 1),
   flying : BOOLEAN, fresh : BOOLEAN]

MonitorState ==
  [at : {"start", "ask", "cycle"}, permitted : Devices \cup {None}, gaveUp : BOOLEAN,
   value : Values]

\* Every variable keeps its type, and the bounded counters their bounds.
TypeOK ==
  /\ deploy \in {"ready", "starting", "gone"} /\ listed \in BOOLEAN
  /\ outages \in 0..MaxOutages /\ faults \in 0..MaxFaults
  /\ configured \subseteq Sources /\ agents \subseteq Sources /\ fed \subseteq agents
  /\ heard \in [Sources -> [Devices -> Reports]]
  /\ table \in [Devices -> Reports]
  /\ holder \in Devices \cup {None}
  /\ amnesia \in BOOLEAN
  /\ gen \in [Sources -> GeneratorState]
  /\ mon \in [Devices -> MonitorState]

\* At most one device probes the bandwidth at a time, however requests and
\* answers are lost and monitors restarted: only a scheduler that has lost its
\* memory lets a second one in.
ExclusiveProbe ==
  \A m, n \in Devices :
    mon[m].permitted = m /\ mon[n].permitted = n => m = n \/ amnesia

\* A generator that has seen the services down ingests nothing under a plan of
\* before: what it runs is all cloud, or was asked for since.
FreshBeforeIngest ==
  \A s \in Sources :
    gen[s].at = "ingest" => gen[s].plan = "cloud" \/ gen[s].fresh

\* What an agent has heard of a device is what the scheduler shows of it, and
\* only agents have heard anything.
AgentsAgree ==
  \A s \in Sources, m \in Devices :
    heard[s][m] # None => s \in agents /\ heard[s][m] = table[m]

Settled == <>[](deploy = "ready")

\* Once the services stay up, every source has an agent, and the agent has
\* heard of every device and of a finished task, also one that registered
\* after the first reports or came back with a restarted scheduler.
EventuallyInformed ==
  Settled => \A s \in Sources :
    <>[](s \in agents /\ s \in fed /\ \A m \in Devices : heard[s][m] # None)

\* A generator whose agent has a plan comes back to it after the fallback to
\* the cloud: an outage or a lost answer is not for ever.
ReturnsToPlan ==
  Settled => \A s \in Sources : s \in configured => <>[](gen[s].plan = "edge")

\* Somebody's measurement of the bandwidth reaches every agent for good, also after
\* probes that failed or took too long, unless a monitor never asked.
BandwidthHeard ==
  Settled /\ (\A m \in Devices : [](~mon[m].gaveUp)) => \A s \in Sources :
    <>[](\E m \in Devices : heard[s][m] = "measured")
=============================================================================
