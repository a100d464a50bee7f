------------------------------ MODULE MCMonitor ------------------------------
(* Two targets.  Of the lists the Control Plane may answer with, each edit  *)
(* changes, deactivates, drops or adds a target.                            *)
EXTENDS Monitor

CONSTANTS a, b, v1, v2, off, w1

MCListable == {[t \in {a, b} |-> v1],
               [t \in {a, b} |-> IF t = a THEN v2 ELSE v1],
               [t \in {a, b} |-> IF t = a THEN off ELSE v1],
               [t \in {b} |-> v1]}
=============================================================================
