----------------------------- MODULE MCTaskFlow -----------------------------
(* Application DAGs and deployments for checking TaskFlow.                 *)
EXTENDS TaskFlow, TLC

CONSTANTS t1, t2, edge, cloud

Node3(prev, next) == [prev |-> prev, next |-> next]

\* branches of one, two and three services that meet at e: whether they can be
\* merged depends on which of them comes last
Uneven ==
  "start" :> Node3(<<>>, <<"a", "b">>) @@
  "a" :> Node3(<<"start">>, <<"e">>) @@
  "b" :> Node3(<<"start">>, <<"c">>) @@
  "c" :> Node3(<<"b">>, <<"d", "e">>) @@
  "d" :> Node3(<<"c">>, <<"e">>) @@
  "e" :> Node3(<<"a", "c", "d">>, <<"end">>) @@
  "end" :> Node3(<<"e">>, <<>>)

\* two entry services, and a joint of three branches of different lengths, one
\* of them a shortcut past the service before the joint
Shortcut ==
  "start" :> Node3(<<>>, <<"a", "b">>) @@
  "a" :> Node3(<<"start">>, <<"c", "d">>) @@
  "b" :> Node3(<<"start">>, <<"d">>) @@
  "c" :> Node3(<<"a">>, <<"d">>) @@
  "d" :> Node3(<<"a", "b", "c">>, <<"end">>) @@
  "end" :> Node3(<<"d">>, <<>>)

\* No application of the runs: a and b have r as a predecessor in common, and
\* below it x, which is farther from b.
LongWay ==
  "start" :> Node3(<<>>, <<"r">>) @@
  "r" :> Node3(<<"start">>, <<"x", "a", "b">>) @@
  "x" :> Node3(<<"r">>, <<"y", "a">>) @@
  "y" :> Node3(<<"x">>, <<"b">>) @@
  "a" :> Node3(<<"r", "x">>, <<"end">>) @@
  "b" :> Node3(<<"r", "y">>, <<"end">>) @@
  "end" :> Node3(<<"a", "b">>, <<>>)

\* Nor this one: c and w are equally deep, but there is more upstream of w.
WideBranch ==
  "start" :> Node3(<<>>, <<"a", "s">>) @@
  "a" :> Node3(<<"start">>, <<"b">>) @@
  "b" :> Node3(<<"a">>, <<"c">>) @@
  "c" :> Node3(<<"b">>, <<"end">>) @@
  "s" :> Node3(<<"start">>, <<"t", "u", "v">>) @@
  "t" :> Node3(<<"s">>, <<"w">>) @@
  "u" :> Node3(<<"s">>, <<"w">>) @@
  "v" :> Node3(<<"s">>, <<"w">>) @@
  "w" :> Node3(<<"t", "u", "v">>, <<"end">>) @@
  "end" :> Node3(<<"c", "w">>, <<>>)

\* find_lca ends with the first level that has a candidate, which need not be a
\* lowest common ancestor (lca_solver.py:73), and when the search from one side
\* has nothing left, though the branches be equally deep (lca_solver.py:70).
ASSUME HigherAncestor ==
  FindLca(LongWay, "a", "b") = "r" /\ LowestCommonAncestors(LongWay, "a", "b") = {"x"}
ASSUME DeepAndLost ==
  Depth(WideBranch, "c") = Depth(WideBranch, "w") /\ FindLca(WideBranch, "c", "w") = NoNode

\* A joint above a joint: of the branches of j, v was computed from x and u was not,
\* and of the branches of q, l was computed from x and p from what j received.
Nested ==
  "start" :> Node3(<<>>, <<"r">>) @@
  "r" :> Node3(<<"start">>, <<"w", "x", "p", "l">>) @@
  "w" :> Node3(<<"r">>, <<"u", "v">>) @@
  "x" :> Node3(<<"r">>, <<"v", "l">>) @@
  "u" :> Node3(<<"w">>, <<"j">>) @@
  "v" :> Node3(<<"w", "x">>, <<"j">>) @@
  "j" :> Node3(<<"u", "v">>, <<"p">>) @@
  "p" :> Node3(<<"r", "j">>, <<"q">>) @@
  "l" :> Node3(<<"r", "x">>, <<"q">>) @@
  "q" :> Node3(<<"p", "l">>, <<"end">>) @@
  "end" :> Node3(<<"q">>, <<>>)

\* When u comes last at j the result of x is not copied from v, so p goes without it;
\* when l comes last at q the blank p has for x is copied over the result l has.
ASSUME LossSpreads ==
  /\ "x" \in Ancestors(Nested, "v") \ (MergeNodes(Nested, "u", "v") \cup Ancestors(Nested, "u"))
  /\ "x" \in Ancestors(Nested, "l") \cap MergeNodes(Nested, "l", "p")

\* The theorems about results and lost tasks ask for a DAG on which merging is
\* complete and find_lca never raises, and for a deployment in which services run
\* where they are sent. The run shortcut has both; on the DAG of uneven find_lca
\* raises, and what is merged nevertheless is complete. Neither has a joint
\* upstream of another; the branches of shortcut are not of equal depth, which
\* is sufficient but not needed.
ASSUME SoundApplication ==
  Dag = Shortcut =>
    UnnestedJoints /\ ~EvenBranches /\ MergesComplete /\ LcasFound /\ Served
ASSUME LossyApplication ==
  Dag = Uneven =>
    UnnestedJoints /\ ~EvenBranches /\ MergesComplete /\ ~LcasFound /\ Served

OneTask == {t1}
TwoTasks == {t1, t2}
Devices == {edge, cloud}
OnEdge == [r \in Task |-> edge]

\* b and c stay on the edge, everything else runs in the cloud
SplitPlan == [r \in Task |-> [n \in Node |-> IF n \in {"a", "b"} THEN edge ELSE cloud]]
EverywherePorts == [d \in Device |-> Service]
EverywherePods == [n \in Service |-> Device]

\* the plan is stale: b is no longer deployed on the edge
StalePorts == [d \in Device |-> IF d = edge THEN Service \ {"b"} ELSE Service]
StalePods == [n \in Service |-> IF n = "b" THEN {cloud} ELSE Device]
=============================================================================
