------------------------------ MODULE Reporter ------------------------------
(***************************************************************************)
(* reporter.Reporter (internal/reporter/reporter.go): check results are    *)
(* buffered by Add, called by the workers of agentPool, and posted to the  *)
(* Control Plane in batches by Run, with a final flush when ctx is         *)
(* cancelled.  cmdRun does not wait for Run or for the workers: after      *)
(* cancel() and the stop of the mail dispatcher the process is gone.       *)
(* A POST that flush gives up, at the timeout of the client or when ctx is *)
(* cancelled, may be on its way still: the Control Plane takes it later,   *)
(* even after a batch that was posted after it, or never.                  *)
(* A second goroutine sends a heartbeat a minute.                          *)
(*                                                                         *)
(* A result is a number, given in the order of the Add calls.              *)
(***************************************************************************)
EXTENDS Integers, Sequences, FiniteSets, SequencesExt

CONSTANT MaxResults  \* bound: results the workers add

ASSUME ReporterAssumption == MaxResults \in Nat

VARIABLES
  buffer,    \* r.buffer
  run,       \* where Run is, and the batch its flush holds
  done,      \* ctx is cancelled
  alive,     \* the process exists
  added,     \* results added so far
  lost,      \* results the Control Plane will never have
  late,      \* external: batches on their way whose POST was given up
  givenUp,   \* history: all batches whose POST was given up
  received,  \* external: the results the Control Plane took, in order
  beating,   \* the goroutine of the heartbeat is there
  seen       \* external: the Control Plane has seen the agent lately

wayVars    == <<lost, late, givenUp, received>>
resultVars == <<buffer, run, added, wayVars>>
heartVars  == <<beating, seen>>
vars       == <<resultVars, done, alive, heartVars>>

-----------------------------------------------------------------------------
Waiting == [at |-> "waiting", batch |-> <<>>]

(* Add. *)
Add ==
  /\ alive
  /\ added < MaxResults
  /\ added' = added + 1
  /\ buffer' = Append(buffer, added + 1)
  /\ UNCHANGED <<run, done, alive, wayVars, heartVars>>

(* Mutants: an empty buffer is posted; the buffer keeps what was taken.    *)
TakeBatchEvenEmpty(at) == run' = [at |-> at, batch |-> buffer] /\ buffer' = <<>>

TakeBatchKeepsBuffer(at) ==
  buffer # <<>> /\ run' = [at |-> at, batch |-> buffer] /\ UNCHANGED buffer

(* flush takes the buffer; if it is empty nothing is posted.  Run flushes  *)
(* on every tick, and once more when it finds ctx cancelled.               *)
TakeBatch(at) ==
  /\ buffer # <<>>
  /\ run' = [at |-> at, batch |-> buffer]
  /\ buffer' = <<>>

TickFlush ==
  /\ alive /\ run.at = "waiting"
  /\ TakeBatch("posting")
  /\ UNCHANGED <<done, alive, added, wayVars, heartVars>>

FinalFlush ==
  /\ alive /\ run.at = "waiting" /\ done
  /\ \/ TakeBatch("final")
     \/ buffer = <<>> /\ run' = [Waiting EXCEPT !.at = "returned"] /\ UNCHANGED buffer
  /\ UNCHANGED <<done, alive, added, wayVars, heartVars>>

(* Mutant: Run returns after any POST. *)
AfterPostReturned == "returned"

AfterPost == IF run.at = "final" THEN "returned" ELSE "waiting"

(* The POST under way is given up by its sender, and goes its own way.     *)
GiveUp(b) == /\ late' = late \cup {b}
             /\ givenUp' = givenUp \cup {b}
             /\ UNCHANGED <<lost, received>>

(* The POST ends: the Control Plane has taken the batch, whatever answer   *)
(* flush gets; or it never will (refused, not reached); or flush gives up. *)
(* The batch is gone from the agent in each case.                          *)
Post ==
  /\ alive /\ run.at \in {"posting", "final"}
  /\ \/ received' = received \o run.batch /\ UNCHANGED <<lost, late, givenUp>>
     \/ lost' = lost \cup ToSet(run.batch) /\ UNCHANGED <<received, late, givenUp>>
     \/ GiveUp(run.batch)
  /\ run' = [Waiting EXCEPT !.at = AfterPost]
  /\ UNCHANGED <<buffer, done, alive, added, heartVars>>

(* A batch that was given up gets there after all, or never does. *)
LateEnd ==
  /\ \E b \in late :
       /\ late' = late \ {b}
       /\ \/ received' = received \o b /\ UNCHANGED lost
          \/ lost' = lost \cup ToSet(b) /\ UNCHANGED received
  /\ UNCHANGED <<buffer, run, added, givenUp, done, alive, heartVars>>

-----------------------------------------------------------------------------
(* Mutant: the goroutine ends when a heartbeat fails. *)
AfterHeartbeatReturned(ok) == ok

(* The error of a heartbeat is logged, and the ticker goes on. *)
AfterHeartbeat(ok) == TRUE

Heartbeat ==
  /\ alive /\ beating
  /\ \E ok \in BOOLEAN : seen' = (ok \/ seen) /\ beating' = AfterHeartbeat(ok)
  /\ UNCHANGED <<resultVars, done, alive>>

HeartStops ==
  /\ alive /\ beating /\ done
  /\ beating' = FALSE
  /\ UNCHANGED <<resultVars, done, alive, seen>>

(* The Control Plane: last_seen_at has become too old. *)
Forget ==
  /\ seen' = FALSE
  /\ UNCHANGED <<resultVars, done, alive, beating>>

(* The signal, and the end of the process. *)
Cancel ==
  /\ ~done
  /\ done' = TRUE
  /\ UNCHANGED <<resultVars, alive, heartVars>>

(* With the process goes what it holds: the buffer is lost, and a POST     *)
(* under way has nobody waiting for its answer.                            *)
Exit ==
  /\ done /\ alive
  /\ alive' = FALSE
  /\ lost' = lost \cup ToSet(buffer) /\ buffer' = <<>>
  /\ late' = late \cup ({run.batch} \ {<<>>})
  /\ givenUp' = givenUp \cup ({run.batch} \ {<<>>})
  /\ run' = [Waiting EXCEPT !.at = "returned"]
  /\ UNCHANGED <<added, received, done, heartVars>>

-----------------------------------------------------------------------------
Init == /\ buffer = <<>>
        /\ run = Waiting
        /\ done = FALSE
        /\ alive = TRUE
        /\ added = 0
        /\ lost = {} /\ late = {} /\ givenUp = {}
        /\ received = <<>>
        /\ beating = TRUE /\ seen = FALSE

Next == Add \/ TickFlush \/ FinalFlush \/ Post \/ LateEnd
        \/ Heartbeat \/ HeartStops \/ Forget \/ Cancel \/ Exit

Spec == Init /\ [][Next]_vars

(* The tickers tick, a POST ends (the client has a timeout) and Run goes   *)
(* on; the signal need never come, and a batch that was given up may be on *)
(* its way for ever.  Of the heartbeats sent again and again some get      *)
(* through.                                                                *)
Fairness == /\ WF_vars(TickFlush) /\ WF_vars(FinalFlush) /\ WF_vars(Post)
            /\ SF_vars(Heartbeat /\ seen')

FairSpec == Spec /\ Fairness

-----------------------------------------------------------------------------
(* Properties *)

(* The variables have their types, and Run posts nothing empty. *)
TypeOK ==
  /\ buffer \in Seq(1 .. added)
  /\ run.at \in {"waiting", "posting", "final", "returned"}
  /\ run.batch \in Seq(1 .. added)
  /\ run.batch = <<>> <=> run.at \in {"waiting", "returned"}
  /\ done \in BOOLEAN /\ alive \in BOOLEAN
  /\ added \in 0 .. MaxResults
  /\ lost \subseteq 1 .. added
  /\ late \subseteq givenUp
  /\ \A b \in givenUp : b \in Seq(1 .. added)
  /\ received \in Seq(1 .. added)
  /\ beating \in BOOLEAN /\ seen \in BOOLEAN

Increasing(s) == \A i, j \in DOMAIN s : i < j => s[i] < s[j]

(* x was in a batch that was given up, and y was not in that batch. *)
GivenUpWithout(x, y) == \E b \in givenUp : x \in ToSet(b) /\ y \notin ToSet(b)

(* The Control Plane gets every result at most once, and in the order in   *)
(* which the workers added them but for one case: a result may come after  *)
(* a newer one if its POST was given up and the newer one was not in it.   *)
(* What is still in the agent is in order, and newer than all it posted.   *)
OnceInOrder ==
  /\ \A i, j \in DOMAIN received :
       i < j => received[i] < received[j] \/ GivenUpWithout(received[j], received[i])
  /\ \A b \in givenUp \cup {received} :
       \A n \in ToSet(b), k \in ToSet(run.batch \o buffer) : n < k
  /\ Increasing(run.batch \o buffer)

(* No result vanishes: each one added was received, was lost (in a POST    *)
(* that failed, or in the buffer of a process that ended), is on its way   *)
(* in a POST that was given up, or is still in the batch or the buffer,    *)
(* and is only one of these.                                               *)
NothingVanishes ==
  LET places == <<ToSet(received), lost, UNION {ToSet(b) : b \in late},
                  ToSet(run.batch), ToSet(buffer)>>
  IN  /\ UNION {places[i] : i \in 1 .. 5} = 1 .. added
      /\ \A i, j \in 1 .. 5 : i # j => places[i] \cap places[j] = {}

(* While the agent runs no result stays in it for ever: a Control Plane    *)
(* that is down costs results, it does not stop the reporter.              *)
ResultsLeave ==
  \A r \in 1 .. MaxResults :
    r \in ToSet(buffer) ~> (r \notin ToSet(buffer) \cup ToSet(run.batch) \/ done)

(* An agent that runs is seen again and again, also when it has nothing to *)
(* report, when its POSTs fail or when heartbeats before have failed.      *)
StaysSeen == []<>(seen \/ done)

(* Where the guard of a step under fairness holds, it can be taken; of     *)
(* Heartbeat the one that gets through.                                    *)
GuardsSuffice ==
  /\ (alive /\ run.at = "waiting" /\ buffer # <<>> => ENABLED <<TickFlush>>_vars)
  /\ (alive /\ run.at = "posting" => ENABLED <<Post>>_vars)
  /\ (alive /\ beating /\ ~seen => ENABLED <<Heartbeat /\ seen'>>_vars)

(* What reporter.go:73 says of Run: "Blocks until ctx is cancelled, then   *)
(* performs one final flush to drain any buffered results before           *)
(* shutdown."  The process does not end while there is anything in it.     *)
FinalFlushDrains == [][alive /\ ~alive' => buffer = <<>> /\ run.batch = <<>>]_vars
=============================================================================
