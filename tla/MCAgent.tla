------------------------------- MODULE MCAgent -------------------------------
(* One target under two rules: one that alarms at the first failure and     *)
(* recovers at the first good answer (R = 0), and one that wants two in a   *)
(* row each time.                                                           *)
EXTENDS Agent

CONSTANTS a, v1, v2, off, w1

MCRule == [v \in {v1, v2, off} |->
             [T |-> 0, N |-> IF v = v1 THEN 1 ELSE 2, C |-> TRUE,
              R |-> IF v = v1 THEN 0 ELSE 2, RI |-> 0,
              maxLatency |-> 1, warningLatency |-> 1,
              channel |-> "", contacts |-> {"email"}]]

MCParent == [v \in {v1, v2, off} |-> Root]

MCListable == {[t \in {a} |-> v1], [t \in {a} |-> v2], [t \in {a} |-> off]}
=============================================================================
