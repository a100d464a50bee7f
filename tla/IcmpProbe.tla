------------------------------ MODULE IcmpProbe ------------------------------
(***************************************************************************)
(* NetworkExecutor.Execute (internal/ping/executor.go) as many workers run *)
(* it at once.  An ICMP check opens a raw socket of its own, draws an echo *)
(* identifier at random, sends one request and reads until a reply with    *)
(* its identifier arrives, its deadline passes or it finds ctx cancelled.  *)
(* The kernel hands every echo reply that reaches the machine to every     *)
(* open raw socket.  A TCP check dials; any other protocol is refused.     *)
(*                                                                         *)
(* The network is external: a host answers a request some day or never,    *)
(* and a reply may be lost, arrive late, or arrive several times.          *)
(***************************************************************************)
EXTENDS Integers, FiniteSets

CONSTANTS
  Probe,  \* the checks
  Host,   \* the addresses that are checked
  Id      \* the identifiers (1..65534 in the code)

VARIABLES
  dst,       \* the host each probe is to check
  protocol,  \* and the protocol by which
  probe,     \* how far each probe is, its identifier and the reply it took
  requests,  \* external: the requests sent
  replies,   \* external: the replies on their way to the machine
  inbox,     \* replies the kernel handed to each probe's socket
  cancelled  \* ctx is cancelled

vars == <<dst, protocol, probe, requests, replies, inbox, cancelled>>

-----------------------------------------------------------------------------
(* A request and its replies carry an identifier; who sent the request,    *)
(* and to which host, only the model knows.                                *)
Echo == [id : Id, host : Host, sender : Probe]

NoEcho == <<>>

Protocol == {"icmp", "tcp", "other"}

Open(p) == probe[p].at \in {"loop", "reading"}

Ended(p) == probe[p].at \in {"up", "down"}

(* Every error path: name resolution, the socket, the write; a protocol    *)
(* that is not supported.                                                  *)
StartFails(p) ==
  /\ probe[p].at = "start" /\ protocol[p] # "tcp"
  /\ probe' = [probe EXCEPT ![p].at = "down"]
  /\ UNCHANGED <<dst, protocol, requests, replies, inbox, cancelled>>

Send(p) ==
  /\ probe[p].at = "start" /\ protocol[p] = "icmp"
  /\ \E id \in Id :
       /\ probe' = [probe EXCEPT ![p].at = "loop", ![p].id = {id}]
       /\ requests' = requests \cup {[id |-> id, host |-> dst[p], sender |-> p]}
  /\ UNCHANGED <<dst, protocol, replies, inbox, cancelled>>

(* The top of the read loop: ctx.Err(), then ReadFrom. *)
LoopTop(p) ==
  /\ probe[p].at = "loop"
  /\ probe' = [probe EXCEPT ![p].at = IF cancelled THEN "down" ELSE "reading"]
  /\ UNCHANGED <<dst, protocol, requests, replies, inbox, cancelled>>

(* Mutant: any reply will do. *)
MatchesAny(p, echo) == TRUE

(* ReadFrom returns a packet: the probe's own identifier ends the loop,    *)
(* another one is skipped.  The address it came from is not looked at.     *)
Matches(p, echo) == echo.id \in probe[p].id

(* Mutant: the matching reply does not end the loop. *)
AfterReadGoesOn(p, echo) == "loop"

AfterRead(p, echo) == IF Matches(p, echo) THEN "up" ELSE "loop"

Receive(p) ==
  /\ probe[p].at = "reading"
  /\ \E echo \in inbox[p] :
       /\ inbox' = [inbox EXCEPT ![p] = @ \ {echo}]
       /\ probe' = [probe EXCEPT
            ![p].at = AfterRead(p, echo),
            ![p].took = IF Matches(p, echo) THEN echo ELSE @]
  /\ UNCHANGED <<dst, protocol, requests, replies, cancelled>>

(* Mutant: the socket has no deadline. *)
DeadlineBetweenReads(p) == probe[p].at = "loop"

DeadlineApplies(p) == Open(p) \/ probe[p].at = "dialing"

(* executeTCP: dialled until the host accepts or refuses. *)
Dial(p) ==
  /\ probe[p].at = "start" /\ protocol[p] = "tcp"
  /\ probe' = [probe EXCEPT ![p].at = "dialing"]
  /\ UNCHANGED <<dst, protocol, requests, replies, inbox, cancelled>>

DialEnds(p) ==
  /\ probe[p].at = "dialing"
  /\ \E outcome \in IF cancelled THEN {"down"} ELSE {"up", "down"} :
       probe' = [probe EXCEPT ![p].at = outcome]
  /\ UNCHANGED <<dst, protocol, requests, replies, inbox, cancelled>>

(* The deadline of opCtx, which is also that of the socket. *)
Timeout(p) ==
  /\ DeadlineApplies(p)
  /\ probe' = [probe EXCEPT ![p].at = "down"]
  /\ UNCHANGED <<dst, protocol, requests, replies, inbox, cancelled>>

Cancel ==
  /\ ~cancelled
  /\ cancelled' = TRUE
  /\ UNCHANGED <<dst, protocol, probe, requests, replies, inbox>>

-----------------------------------------------------------------------------
(* The network. *)
Answer(echo) ==
  /\ echo \notin replies
  /\ replies' = replies \cup {echo}
  /\ UNCHANGED <<dst, protocol, probe, requests, inbox, cancelled>>

(* A reply arrives, now and perhaps again later, at all open sockets. *)
Arrive(echo) ==
  /\ inbox' = [p \in Probe |-> IF Open(p) THEN inbox[p] \cup {echo} ELSE inbox[p]]
  /\ UNCHANGED <<dst, protocol, probe, requests, replies, cancelled>>

-----------------------------------------------------------------------------
Init == /\ dst \in [Probe -> Host] /\ protocol \in [Probe -> Protocol]
        /\ probe = [p \in Probe |-> [at |-> "start", id |-> {}, took |-> NoEcho]]
        /\ requests = {} /\ replies = {}
        /\ inbox = [p \in Probe |-> {}]
        /\ cancelled = FALSE

Next == \/ \E p \in Probe : \/ StartFails(p) \/ Send(p) \/ LoopTop(p) \/ Receive(p)
                           \/ Dial(p) \/ DialEnds(p) \/ Timeout(p)
        \/ \E echo \in requests : Answer(echo)
        \/ \E echo \in replies : Arrive(echo)
        \/ Cancel

Spec == Init /\ [][Next]_vars

(* A probe that can go on does, and its deadline passes some day. *)
Starts(p) == StartFails(p) \/ Send(p) \/ Dial(p)

Fair(p) == WF_vars(Starts(p)) /\ WF_vars(LoopTop(p)) /\ WF_vars(Timeout(p))

Fairness == \A p \in Probe : Fair(p)

FairSpec == Spec /\ Fairness

-----------------------------------------------------------------------------
(* Properties *)

(* The variables have their types, and an ICMP probe has a reply exactly   *)
(* when it has reported its host up.                                       *)
TypeOK ==
  /\ dst \in [Probe -> Host] /\ protocol \in [Probe -> Protocol]
  /\ \A p \in Probe : /\ probe[p].at \in {"start", "loop", "reading", "dialing", "up", "down"}
                      /\ probe[p].id \subseteq Id
                      /\ probe[p].took \in Echo \cup {NoEcho}
                      /\ probe[p].took # NoEcho <=> probe[p].at = "up" /\ protocol[p] = "icmp"
                      /\ inbox[p] \subseteq Echo
  /\ requests \subseteq Echo /\ replies \subseteq requests
  /\ cancelled \in BOOLEAN

Distinct(p) == \A q \in Probe \ {p} : probe[p].id \cap probe[q].id = {}

(* An ICMP probe whose identifier nobody else drew reports its host up     *)
(* only if that host answered this very request, whatever else the shared  *)
(* raw sockets deliver to it.                                              *)
UpIsDeserved ==
  \A p \in Probe :
    probe[p].at = "up" /\ protocol[p] # "tcp" /\ Distinct(p) =>
      probe[p].took \in replies /\ probe[p].took.sender = p /\ probe[p].took.host = dst[p]

(* No check keeps its worker for ever, whatever the network does. *)
EveryProbeEnds == \A p \in Probe : <>Ended(p)

(* Where the guard of a step under fairness holds, it can be taken. *)
Unstarted(p) == probe[p].at = "start"

GuardSuffices(p) == /\ (Unstarted(p) => ENABLED <<Starts(p)>>_vars)
                    /\ (DeadlineApplies(p) => ENABLED <<Timeout(p)>>_vars)

GuardsSuffice == \A p \in Probe : GuardSuffices(p)

(* What executor.go:124 says of the identifier: "each call gets its own    *)
(* socket and a random ID, so concurrent goroutines never mix up each      *)
(* other's echo replies".                                                  *)
NeverMixedUp ==
  \A p \in Probe : probe[p].at = "up" /\ protocol[p] = "icmp" => probe[p].took.sender = p
=============================================================================
