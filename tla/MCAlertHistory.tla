--------------------------- MODULE MCAlertHistory ---------------------------
(* One target under every kind of rule: immediate and delayed, consecutive *)
(* and cumulative, with and without reminders, R of 0, 1 and 2.            *)
EXTENDS AlertHistory

Rule(T, N, C, R, RI) == [T |-> T, N |-> N, C |-> C, R |-> R, RI |-> RI,
                         maxLatency |-> 2, warningLatency |-> 1,
                         channel |-> "both", contacts |-> {"telegram"}]

MCConfig == {Rule(0, 2, TRUE, 2, 0), Rule(0, 2, FALSE, 0, 0), Rule(0, 1, TRUE, 2, 1),
             Rule(1, 2, TRUE, 2, 0), Rule(1, 2, FALSE, 1, 0), Rule(2, 3, TRUE, 1, 1)}

(* Any gap between stamps: MaxLag is 1. *)
MCNoMinGap == -1

(* Delayed rules whose N just fits in a period of checks one unit apart. *)
MCOutageConfig == {Rule(3, 4, TRUE, 1, 0), Rule(3, 4, FALSE, 1, 0)}
=============================================================================
