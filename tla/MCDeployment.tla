----------------------------- MODULE MCDeployment -----------------------------
(* A file of an older agent, one without poll_interval, one that is damaged. *)
EXTENDS Deployment

MCInitial == {[whole |-> TRUE, id |-> 0, poll |-> 60],
              [whole |-> TRUE, id |-> 0, poll |-> 0], Partial}
=============================================================================
