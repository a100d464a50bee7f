--------------------------- MODULE MCAlertTopology ---------------------------
(* Three targets, trees and cycles on them, and rules that alarm at the     *)
(* first failure: suppression, reminders and recovery.                      *)
EXTENDS AlertEngine

CONSTANTS n1, n2, n3

Rule(RI, contacts) == [T |-> 0, N |-> 1, C |-> TRUE, R |-> 1, RI |-> RI,
                       maxLatency |-> 1, warningLatency |-> 1,
                       channel |-> "", contacts |-> contacts]

MCConfig == {Rule(0, {"email"}), Rule(1, {"email"})}

(* A chain, two children of one parent, a parent the Control Plane no       *)
(* longer lists, a cycle, and no targets at all.                            *)
MCTopology == {[t \in {n1, n2, n3} |-> IF t = n1 THEN Root ELSE IF t = n2 THEN n1 ELSE n2],
               [t \in {n1, n2, n3} |-> IF t = n1 THEN Root ELSE n1],
               [t \in {n2, n3} |-> IF t = n2 THEN n1 ELSE n2],
               [t \in {n1, n2, n3} |-> IF t = n1 THEN n2 ELSE n1],
               [t \in {} |-> Root]}
=============================================================================
