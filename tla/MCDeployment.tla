---------------------------- MODULE MCDeployment ----------------------------
(* Resources and plans for checking Deployment.                            *)
EXTENDS Deployment

\* a component of the first stage and one of the second; a processor in the cloud,
\* the processors of one service on two edge nodes, edge1 and edge10, and edge1's in
\* another configuration
Resources == {"scheduler", "controller", "cloud", "edge1", "edge1b", "edge10"}
EdgeTwice == [d \in Resource |-> IF d = "edge1b" THEN "edge1" ELSE d]
TwoComponents == {"scheduler", "controller"}
SchedulerFirst == {"scheduler"}
EdgePrefix == {<<"edge1", "edge10">>}
ThreePlans == {{"cloud", "edge1"}, {"cloud", "edge10"}, {"cloud", "edge1b", "edge10"}}
=============================================================================
