--------------------------- MODULE MCQuerySession ---------------------------
(* Sources and results for checking QuerySession.                          *)
EXTENDS QuerySession

OneSource == {"s"}
AllOfOne == [n \in 1..MaxResults |-> "s"]
=============================================================================
