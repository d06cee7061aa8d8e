--------------------------- MODULE MCDistributor ---------------------------
(* Server processes and threads for checking Distributor.                  *)
EXTENDS Distributor

\* all threads in one process
OneProcess == [t \in Thread |-> 1]
=============================================================================
