----------------------------- MODULE AlarmBoard -----------------------------
(***************************************************************************)
(* What the alert engine promises its operators, without windows, counters *)
(* or time: which targets are in alarm, and what the operator was last     *)
(* told about each of them.                                                *)
(*                                                                         *)
(*  - A target goes into alarm, and the operator is told, unless one of    *)
(*    its ancestors is in alarm ("notify only the root cause",             *)
(*    engine_impl.go:172).                                                 *)
(*  - Reminders go out only for a target in alarm none of whose ancestors  *)
(*    is.                                                                  *)
(*  - Leaving the alarm always tells the operator.                         *)
(*                                                                         *)
(* Ancestors are defined as a least fixed point, not by walking a chain,   *)
(* so that the refinement AlertEngine => AlarmBoard checks the walk.       *)
(***************************************************************************)
CONSTANTS Target,   \* target ids
          Root      \* the parent of a root target

VARIABLES alarmed,  \* the targets in alarm
          parent,   \* [some targets -> Target \cup {Root}]
          audience, \* the targets about which somebody is to be told
          told      \* the last word on each target since its last reset

vars == <<alarmed, parent, audience, told>>

Words == {"nothing", "critical", "reminder", "recovery"}

TypeOK == /\ alarmed \subseteq Target
          /\ audience \subseteq Target
          /\ told \in [Target -> Words]

Init == /\ alarmed = {}
        /\ parent = [t \in {} |-> Root]
        /\ audience \subseteq Target
        /\ told = [t \in Target |-> "nothing"]

-----------------------------------------------------------------------------
ParentOf(t) == IF t \in DOMAIN parent THEN parent[t] ELSE Root

(* The targets above t: those in every set that holds t's parent and the   *)
(* parents of its own members.  A target on a cycle is its own ancestor.   *)
Ancestors(t) ==
  {a \in Target : \A S \in SUBSET Target :
     (\A x \in S \cup {t} : ParentOf(x) \in S \cup {Root}) => a \in S}

Shadowed(t, alarms) == Ancestors(t) \cap alarms # {}

Tell(t, word) ==
  told' = IF t \in audience THEN [told EXCEPT ![t] = word] ELSE told

Raise(t) == /\ t \notin alarmed
            /\ alarmed' = alarmed \cup {t}
            /\ IF Shadowed(t, alarmed') THEN UNCHANGED told ELSE Tell(t, "critical")
            /\ UNCHANGED <<parent, audience>>

Remind(t) == /\ t \in alarmed
             /\ ~Shadowed(t, alarmed)
             /\ Tell(t, "reminder")
             /\ UNCHANGED <<alarmed, parent, audience>>

Recover(t) == /\ t \in alarmed
              /\ alarmed' = alarmed \ {t}
              /\ Tell(t, "recovery")
              /\ UNCHANGED <<parent, audience>>

Forget(t) == /\ alarmed' = alarmed \ {t}
             /\ told' = [told EXCEPT ![t] = "nothing"]
             /\ audience' \in {audience \cup {t}, audience \ {t}}
             /\ UNCHANGED parent

Rewire == /\ parent' \in UNION {[S -> Target \cup {Root}] : S \in SUBSET Target}
          /\ UNCHANGED <<alarmed, audience, told>>

Next == \/ \E t \in Target : Raise(t) \/ Remind(t) \/ Recover(t) \/ Forget(t)
        \/ Rewire

Spec == Init /\ [][Next]_vars
=============================================================================
