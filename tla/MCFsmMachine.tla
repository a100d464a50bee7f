---------------------------- MODULE MCFsmMachine ----------------------------
(* Immediate and delayed, consecutive and cumulative rules, and one whose   *)
(* N and R NewMachine has to replace.                                       *)
EXTENDS FsmMachine

Rule(T, N, C, R) == [T |-> T, N |-> N, C |-> C, R |-> R]

MCConfig == {Rule(0, 2, TRUE, 2), Rule(0, 2, FALSE, 1), Rule(2, 2, TRUE, 2),
             Rule(2, 2, FALSE, 2), Rule(1, 3, FALSE, 1), Rule(1, 0, TRUE, 0)}
=============================================================================
