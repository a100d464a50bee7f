------------------------------- MODULE Outbox -------------------------------
(***************************************************************************)
(* What the alert engine may count on when it hands over a message: the    *)
(* message waits until its fate is decided, once; mails that hold it reach *)
(* the server while it waits, at most MaxCopies times, and never again     *)
(* afterwards; it is thrown away only if no mail ever held it, and counts  *)
(* as delivered only if one did.  Batches, queue, workers and shutdown are *)
(* not seen here; MailPipeline implements this.                            *)
(***************************************************************************)
EXTENDS Integers, Sequences

CONSTANT MaxCopies

VARIABLES fate, copies

vars == <<fate, copies>>

Waiting == {m \in DOMAIN fate : fate[m] = "pending"}

Decide(ms, f) == fate' = [m \in DOMAIN fate |-> IF m \in ms THEN f ELSE fate[m]]

Submit == /\ fate' = Append(fate, "pending")
          /\ copies' = Append(copies, 0)

(* Some messages share a mail, which the server is given once more. *)
Attempt(ms) ==
  \/ /\ \A m \in ms : copies[m] < MaxCopies
     /\ copies' = [m \in DOMAIN copies |-> IF m \in ms THEN copies[m] + 1 ELSE copies[m]]
     /\ \E f \in {"pending", "delivered", "exhausted"} : Decide(ms, f)
  \/ Decide(ms, "exhausted") /\ UNCHANGED copies

Discard(ms) ==
  /\ \A m \in ms : copies[m] = 0
  /\ \E f \in {"omitted", "dropped"} : Decide(ms, f)
  /\ UNCHANGED copies

Init == fate = <<>> /\ copies = <<>>

Next == Submit \/ \E ms \in SUBSET Waiting : Attempt(ms) \/ Discard(ms)

Spec == Init /\ [][Next]_vars
=============================================================================
