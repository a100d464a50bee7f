---------------------------- MODULE MCMailPipeline ----------------------------
(* Two keys, such as the CRITICAL and the RECOVERY of one target. *)
EXTENDS MailPipeline, TLC

CONSTANTS k1, k2, w1, w2

Symmetric == Permutations({k1, k2}) \cup Permutations({w1, w2})
=============================================================================
