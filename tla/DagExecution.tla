---------------------------- MODULE DagExecution ----------------------------
(***************************************************************************)
(* What dayu promises for a task, with no word on controllers, copies or   *)
(* joins: the services of its DAG work on it in dependency order, each at  *)
(* most once, and its result is recorded at most once, after the last      *)
(* services.  A task may also stop at any point, when a fault strikes it.  *)
(***************************************************************************)
EXTENDS Naturals

CONSTANTS
  Task,      \* tasks of all sources
  Service,   \* services of the application
  Needs,      \* Needs[n]: the services whose results n works on
  Exit       \* the services whose results make up the final result

VARIABLES
  ran,       \* ran[r]: services that have worked on task r
  recorded   \* tasks whose result is in the distributor's table

vars == <<ran, recorded>>

Init ==
  /\ ran = [r \in Task |-> {}]
  /\ recorded = {}

\* Service n works on task r, after everything n depends on.
Run(r, n) ==
  /\ n \notin ran[r]
  /\ Needs[n] \subseteq ran[r]
  /\ ran' = [ran EXCEPT ![r] = @ \cup {n}]
  /\ UNCHANGED recorded

\* The result of r is recorded.
Finish(r) ==
  /\ r \notin recorded
  /\ Exit \subseteq ran[r]
  /\ recorded' = recorded \cup {r}
  /\ UNCHANGED ran

Next ==
  \E r \in Task :
    \/ \E n \in Service : Run(r, n)
    \/ Finish(r)

Spec == Init /\ [][Next]_vars
=============================================================================
