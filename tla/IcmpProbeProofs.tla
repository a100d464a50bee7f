--------------------------- MODULE IcmpProbeProofs ---------------------------
(***************************************************************************)
(* Proofs about IcmpProbe, for any number of checks, hosts and             *)
(* identifiers.  That an up is deserved rests on whose request every reply *)
(* answers, which no field that the code reads tells: requests carry the   *)
(* identifier and the host of their sender, replies are copies of          *)
(* requests, sockets hold replies, and the reply a probe took has its      *)
(* identifier.                                                             *)
(***************************************************************************)
EXTENDS IcmpProbe, TLAPS

States == {"start", "loop", "reading", "dialing", "up", "down"}

(* The types, but for what was taken. *)
Typed ==
  /\ dst \in [Probe -> Host] /\ protocol \in [Probe -> Protocol]
  /\ probe \in [Probe -> [at : States, id : SUBSET Id, took : Echo \cup {NoEcho}]]
  /\ inbox \in [Probe -> SUBSET replies]
  /\ requests \subseteq Echo /\ replies \subseteq requests
  /\ cancelled \in BOOLEAN

(* A probe goes the way of its protocol. *)
Route(p) ==
  /\ probe[p].at \in {"loop", "reading"} => protocol[p] = "icmp"
  /\ probe[p].at = "dialing" => protocol[p] = "tcp"
  /\ probe[p].at = "up" => protocol[p] \in {"icmp", "tcp"}
  /\ probe[p].took # NoEcho <=> probe[p].at = "up" /\ protocol[p] = "icmp"

(* What it took is a reply with its identifier. *)
Took(p) ==
  probe[p].took # NoEcho => probe[p].took \in replies /\ probe[p].took.id \in probe[p].id

(* Requests say who sent them; nobody has before it started. *)
Signed ==
  \A r \in requests : /\ probe[r.sender].id = {r.id}
                      /\ dst[r.sender] = r.host
                      /\ probe[r.sender].at # "start"

PInv == Typed /\ Signed /\ \A p \in Probe : Route(p) /\ Took(p)

-----------------------------------------------------------------------------
LEMMA EchoIsNotEmpty == \A e \in Echo : e # NoEcho
<1> SUFFICES ASSUME NEW e \in Echo, e = NoEcho PROVE FALSE
  OBVIOUS
<1>1. "id" \in DOMAIN e
  BY DEF Echo
<1>2. DOMAIN NoEcho = {}
  BY DEF NoEcho
<1> QED
  BY <1>1, <1>2

LEMMA InvImplies == ASSUME PInv PROVE TypeOK /\ UpIsDeserved
<1> USE DEF PInv
<1>1. TypeOK
  BY DEF Typed, States, Route, TypeOK
<1>2. ASSUME NEW p \in Probe, probe[p].at = "up", protocol[p] # "tcp", Distinct(p)
      PROVE  probe[p].took \in replies /\ probe[p].took.sender = p /\ probe[p].took.host = dst[p]
  <2> DEFINE e == probe[p].took
  <2>1. e # NoEcho
    BY <1>2 DEF Route
  <2>2. e \in replies /\ e.id \in probe[p].id /\ e \in requests /\ e \in Echo
    BY <2>1 DEF Took, Typed
  <2>3. e.sender \in Probe
    BY <2>2 DEF Echo
  <2>4. probe[e.sender].id = {e.id} /\ dst[e.sender] = e.host
    BY <2>2 DEF Signed
  <2>5. e.sender = p
    BY <1>2, <2>2, <2>3, <2>4 DEF Distinct
  <2> QED
    BY <2>2, <2>4, <2>5
<1> QED
  BY <1>1, <1>2 DEF UpIsDeserved

LEMMA InitPInv == Init => PInv
<1> SUFFICES ASSUME Init PROVE PInv
  OBVIOUS
<1> USE DEF Init
<1>1. Typed
  BY DEF Typed, States
<1>2. Signed
  BY DEF Signed
<1>3. \A p \in Probe : Route(p) /\ Took(p)
  BY DEF Route, Took
<1> QED
  BY <1>1, <1>2, <1>3 DEF PInv

-----------------------------------------------------------------------------
(* A step in which one probe p moves on and sends nothing. *)
LEMMA ProbeMoves ==
  ASSUME PInv, NEW p \in Probe,
         UNCHANGED <<dst, protocol, requests, replies>>,
         inbox' \in [Probe -> SUBSET replies], cancelled' \in BOOLEAN,
         probe' \in [Probe -> [at : States, id : SUBSET Id, took : Echo \cup {NoEcho}]],
         \A q \in Probe \ {p} : probe'[q] = probe[q],
         probe'[p].at # "start", probe'[p].id = probe[p].id,
         Route(p)', Took(p)'
  PROVE  PInv'
<1>1. Typed'
  BY DEF PInv, Typed
<1>2. Signed'
  <2> SUFFICES ASSUME NEW r \in requests
               PROVE  /\ probe'[r.sender].id = {r.id} /\ dst[r.sender] = r.host
                      /\ probe'[r.sender].at # "start"
    BY DEF Signed
  <2>1. r.sender \in Probe
    BY DEF PInv, Typed, Echo
  <2> QED
    BY <2>1 DEF PInv, Signed
<1>3. \A q \in Probe : Route(q)' /\ Took(q)'
  BY DEF PInv, Route, Took
<1> QED
  BY <1>1, <1>2, <1>3 DEF PInv

LEMMA SendStep == ASSUME PInv, NEW p \in Probe, Send(p) PROVE PInv'
<1> USE DEF PInv, Send
<1>1. PICK id \in Id :
        /\ probe' = [probe EXCEPT ![p].at = "loop", ![p].id = {id}]
        /\ requests' = requests \cup {[id |-> id, host |-> dst[p], sender |-> p]}
  OBVIOUS
<1>2. /\ [id |-> id, host |-> dst[p], sender |-> p] \in Echo
      /\ probe[p].at = "start" /\ protocol[p] = "icmp" /\ probe[p] \in [at : States, id : SUBSET Id, took : Echo \cup {NoEcho}]
  BY DEF Typed, Echo
<1>3. /\ probe'[p].at = "loop" /\ probe'[p].id = {id} /\ probe'[p].took = probe[p].took
      /\ \A q \in Probe \ {p} : probe'[q] = probe[q]
  <2>1. probe' = [probe EXCEPT ![p] = [probe[p] EXCEPT !.at = "loop", !.id = {id}]]
    BY <1>1 DEF Typed
  <2>2. probe'[p] = [probe[p] EXCEPT !.at = "loop", !.id = {id}]
    BY <2>1 DEF Typed
  <2> QED
    BY <1>2, <2>1, <2>2 DEF Typed
<1>4. Typed'
  <2>1. [probe[p] EXCEPT !.at = "loop", !.id = {id}]
          \in [at : States, id : SUBSET Id, took : Echo \cup {NoEcho}]
    BY <1>2 DEF States
  <2>2. probe' = [probe EXCEPT ![p] = [probe[p] EXCEPT !.at = "loop", !.id = {id}]]
    BY <1>1 DEF Typed
  <2>3. probe' \in [Probe -> [at : States, id : SUBSET Id, took : Echo \cup {NoEcho}]]
    BY <2>1, <2>2 DEF Typed
  <2> QED
    BY <1>1, <1>2, <2>3 DEF Typed
<1>5. Signed'
  <2> SUFFICES ASSUME NEW r \in requests'
               PROVE  /\ probe'[r.sender].id = {r.id} /\ dst[r.sender] = r.host
                      /\ probe'[r.sender].at # "start"
    BY DEF Signed
  <2>1. CASE r \in requests
    <3>1. r.sender \in Probe /\ r.sender # p
      BY <1>2, <2>1 DEF Typed, Echo, Signed
    <3> QED
      BY <1>3, <2>1, <3>1 DEF Signed
  <2>2. CASE r = [id |-> id, host |-> dst[p], sender |-> p]
    BY <1>3, <2>2
  <2> QED
    BY <1>1, <2>1, <2>2
<1>6. \A q \in Probe : Route(q)' /\ Took(q)'
  BY <1>2, <1>3, ZenonT(60) DEF Route, Took
<1> QED
  BY <1>4, <1>5, <1>6

LEMMA ReceiveStep == ASSUME PInv, NEW p \in Probe, Receive(p) PROVE PInv'
<1> USE DEF PInv, Receive
<1>1. PICK echo \in inbox[p] :
        /\ inbox' = [inbox EXCEPT ![p] = @ \ {echo}]
        /\ probe' = [probe EXCEPT
             ![p].at = AfterRead(p, echo),
             ![p].took = IF Matches(p, echo) THEN echo ELSE @]
  OBVIOUS
<1>2. echo \in replies /\ echo \in Echo /\ echo # NoEcho
  BY EchoIsNotEmpty DEF Typed
<1>3. /\ probe[p].at = "reading" /\ protocol[p] = "icmp" /\ probe[p].took = NoEcho
      /\ probe[p] \in [at : States, id : SUBSET Id, took : Echo \cup {NoEcho}]
  BY DEF Typed, Route
<1>4. /\ probe'[p].at = AfterRead(p, echo) /\ probe'[p].id = probe[p].id
      /\ probe'[p].took = IF Matches(p, echo) THEN echo ELSE NoEcho
      /\ \A q \in Probe \ {p} : probe'[q] = probe[q]
  BY <1>1, <1>3 DEF Typed
<1>5. AfterRead(p, echo) \in {"up", "loop"} /\ (AfterRead(p, echo) = "up" <=> Matches(p, echo))
  BY DEF AfterRead
<1>6. probe' \in [Probe -> [at : States, id : SUBSET Id, took : Echo \cup {NoEcho}]]
  <2> DEFINE new == [probe[p] EXCEPT !.at = AfterRead(p, echo),
                                     !.took = IF Matches(p, echo) THEN echo ELSE @]
  <2>1. new \in [at : States, id : SUBSET Id, took : Echo \cup {NoEcho}]
    BY <1>2, <1>3, <1>5 DEF States
  <2>2. probe' = [probe EXCEPT ![p] = new]
    BY <1>1 DEF Typed
  <2> HIDE DEF new
  <2> QED
    BY <2>1, <2>2 DEF Typed
<1>7. inbox' \in [Probe -> SUBSET replies]
  BY <1>1 DEF Typed
<1>8. Route(p)' /\ Took(p)'
  BY <1>2, <1>3, <1>4, <1>5 DEF Route, Took, Matches
<1>9. probe'[p].at # "start" /\ cancelled' \in BOOLEAN
  BY <1>4, <1>5 DEF Typed
<1> QED
  BY <1>4, <1>6, <1>7, <1>8, <1>9, ProbeMoves

(* A probe changes state only, to one its protocol allows. *)
LEMMA StateStep ==
  ASSUME PInv, NEW p \in Probe, NEW to \in States \ {"start"},
         probe' = [probe EXCEPT ![p].at = to],
         UNCHANGED <<dst, protocol, requests, replies, inbox, cancelled>>,
         probe[p].took = NoEcho,
         to \in {"loop", "reading"} => protocol[p] = "icmp",
         to \in {"dialing", "up"} => protocol[p] = "tcp"
  PROVE  PInv'
<1>1. /\ probe'[p].at = to /\ probe'[p].id = probe[p].id /\ probe'[p].took = NoEcho
      /\ \A q \in Probe \ {p} : probe'[q] = probe[q]
  BY DEF PInv, Typed
<1>2. probe' \in [Probe -> [at : States, id : SUBSET Id, took : Echo \cup {NoEcho}]]
  BY DEF PInv, Typed
<1>3. inbox' \in [Probe -> SUBSET replies] /\ cancelled' \in BOOLEAN
  BY DEF PInv, Typed
<1>4. Route(p)' /\ Took(p)'
  BY <1>1 DEF Route, Took
<1> QED
  BY <1>1, <1>2, <1>3, <1>4, ProbeMoves

LEMMA NextPInv == PInv /\ [Next]_vars => PInv'
<1> SUFFICES ASSUME PInv, [Next]_vars PROVE PInv'
  OBVIOUS
<1>1. ASSUME NEW p \in Probe, StartFails(p) \/ LoopTop(p) \/ Dial(p) \/ DialEnds(p) \/ Timeout(p)
      PROVE  PInv'
  <2>1. Route(p)
    BY DEF PInv
  <2>2. probe[p].at \notin {"up"} => probe[p].took = NoEcho
    BY <2>1 DEF Route
  <2>3. CASE StartFails(p)
    BY <2>2, <2>3, StateStep DEF StartFails, States
  <2>4. CASE LoopTop(p)
    <3>1. protocol[p] = "icmp" /\ probe[p].took = NoEcho
      BY <2>1, <2>4 DEF Route, LoopTop
    <3> QED
      BY <2>4, <3>1, StateStep DEF LoopTop, States
  <2>5. CASE Dial(p)
    BY <2>2, <2>5, StateStep DEF Dial, States
  <2>6. CASE DialEnds(p)
    <3>1. protocol[p] = "tcp" /\ probe[p].took = NoEcho
      BY <2>1, <2>2, <2>6 DEF Route, DialEnds
    <3> QED
      BY <2>6, <3>1, StateStep DEF DialEnds, States
  <2>7. CASE Timeout(p)
    <3>1. probe[p].took = NoEcho
      BY <2>2, <2>7 DEF Timeout, DeadlineApplies, Open
    <3> QED
      BY <2>7, <3>1, StateStep DEF Timeout, States
  <2> QED
    BY <1>1, <2>3, <2>4, <2>5, <2>6, <2>7
<1>2. ASSUME NEW echo \in requests, Answer(echo) PROVE PInv'
  <2>1. Typed'
    <3>1. inbox \in [Probe -> SUBSET replies'] /\ replies' \subseteq requests
      BY <1>2 DEF PInv, Typed, Answer
    <3> QED
      BY <1>2, <3>1 DEF PInv, Typed, Answer
  <2>2. Signed' /\ \A p \in Probe : Route(p)' /\ Took(p)'
    BY <1>2 DEF PInv, Signed, Route, Took, Answer
  <2> QED
    BY <2>1, <2>2 DEF PInv
<1>3. ASSUME NEW echo \in replies, Arrive(echo) PROVE PInv'
  <2>1. Typed'
    <3>1. inbox' \in [Probe -> SUBSET replies]
      BY <1>3 DEF PInv, Typed, Arrive
    <3> QED
      BY <1>3, <3>1 DEF PInv, Typed, Arrive
  <2>2. Signed' /\ \A p \in Probe : Route(p)' /\ Took(p)'
    BY <1>3 DEF PInv, Signed, Route, Took, Arrive
  <2> QED
    BY <2>1, <2>2 DEF PInv
<1>4. CASE Cancel
  BY <1>4 DEF PInv, Typed, Signed, Route, Took, Cancel
<1>5. CASE UNCHANGED vars
  BY <1>5 DEF PInv, Typed, Signed, Route, Took, vars
<1> QED
  BY <1>1, <1>2, <1>3, <1>4, <1>5, SendStep, ReceiveStep DEF Next

LEMMA AlwaysPInv == Spec => []PInv
BY InitPInv, NextPInv, PTL DEF Spec

-----------------------------------------------------------------------------
(* The variables keep their types, and an ICMP probe has a reply exactly   *)
(* when it has reported its host up, whatever number of checks there are.  *)
THEOREM ProbeTyped == Spec => []TypeOK
<1>1. PInv => TypeOK
  BY InvImplies
<1> QED
  BY <1>1, AlwaysPInv, PTL

(* However many checks share the raw sockets of the machine, and whatever  *)
(* replies are late, lost or repeated: a probe whose identifier is its own *)
(* reports its host up only if that host answered this very request.       *)
THEOREM ProbeUpIsDeserved == Spec => []UpIsDeserved
<1>1. PInv => UpIsDeserved
  BY InvImplies
<1> QED
  BY <1>1, AlwaysPInv, PTL

-----------------------------------------------------------------------------
(* The way of a probe to its end. *)
Ends(p) == <>Ended(p)

LEMMA EveryState == ASSUME PInv, NEW p \in Probe PROVE Unstarted(p) \/ DeadlineApplies(p) \/ Ended(p)
BY DEF PInv, Typed, States, Unstarted, DeadlineApplies, Ended, Open

(* No step of this probe or of another takes it back. *)
Way(p) == \/ probe'[p].at = probe[p].at
          \/ probe[p].at = "start" /\ probe'[p].at # "start"
          \/ DeadlineApplies(p) /\ probe'[p].at # "start"

LEMMA OnlyForward ==
  ASSUME PInv, [Next]_vars, NEW p \in Probe
  PROVE  Way(p)
<1>1. probe \in [Probe -> [at : States, id : SUBSET Id, took : Echo \cup {NoEcho}]]
  BY DEF PInv, Typed
<1>2. ASSUME NEW q \in Probe, StartFails(q) \/ LoopTop(q) \/ Dial(q) \/ Timeout(q)
      PROVE  Way(p)
  BY <1>1, <1>2 DEF Way, DeadlineApplies, Open, StartFails, LoopTop, Dial, Timeout
<1>3. ASSUME NEW q \in Probe, Send(q)
      PROVE  Way(p)
  <2>1. PICK id \in Id : probe' = [probe EXCEPT ![q].at = "loop", ![q].id = {id}]
    BY <1>3 DEF Send
  <2>2. QED
    BY <1>1, <1>3, <2>1 DEF Way, Send
<1>4. ASSUME NEW q \in Probe, Receive(q)
      PROVE  Way(p)
  <2>1. PICK echo \in inbox[q] : probe' = [probe EXCEPT
            ![q].at = AfterRead(q, echo),
            ![q].took = IF Matches(q, echo) THEN echo ELSE @]
    BY <1>4 DEF Receive
  <2>2. AfterRead(q, echo) \in {"up", "loop"}
    BY DEF AfterRead
  <2>3. probe'[q].at \in {"up", "loop"} /\ \A x \in Probe \ {q} : probe'[x] = probe[x]
    BY <1>1, <2>1, <2>2
  <2>4. QED
    BY <1>4, <2>3 DEF Way, DeadlineApplies, Open, Receive
<1>5. ASSUME NEW q \in Probe, DialEnds(q)
      PROVE  Way(p)
  <2>1. PICK outcome \in {"up", "down"} : probe' = [probe EXCEPT ![q].at = outcome]
    BY <1>5 DEF DialEnds
  <2>2. QED
    BY <1>1, <1>5, <2>1 DEF Way, DeadlineApplies, Open, DialEnds
<1>6. CASE UNCHANGED probe
  BY <1>6 DEF Way
<1>7. QED
  BY <1>2, <1>3, <1>4, <1>5, <1>6 DEF Next, vars, Answer, Arrive, Cancel

LEMMA ProbeGoesOn ==
  ASSUME PInv, [Next]_vars, NEW p \in Probe
  PROVE  /\ DeadlineApplies(p) => DeadlineApplies(p)' \/ Ended(p)'
         /\ Ended(p) => Ended(p)'
<1>1. Way(p) /\ probe'[p].at \in States
  BY OnlyForward, NextPInv DEF PInv, Typed
<1>2. QED
  BY <1>1 DEF Way, DeadlineApplies, Ended, DeadlineApplies, Open, States

LEMMA StartsAndEnds ==
  ASSUME PInv, NEW p \in Probe
  PROVE  /\ Starts(p) => ~Unstarted(p)'
         /\ Timeout(p) => Ended(p)'
<1>1. probe \in [Probe -> [at : States, id : SUBSET Id, took : Echo \cup {NoEcho}]]
  BY DEF PInv, Typed
<1>2. StartFails(p) \/ Dial(p) => ~Unstarted(p)'
  BY <1>1 DEF Unstarted, StartFails, Dial
<1>3. Send(p) => ~Unstarted(p)'
  BY <1>1 DEF Unstarted, Send
<1>4. Timeout(p) => Ended(p)'
  BY <1>1 DEF Timeout, Ended
<1>5. QED
  BY <1>2, <1>3, <1>4 DEF Starts

(* Every check ends, for any number of checks and whatever the network     *)
(* does or fails to do: it starts, and its deadline ends it if nothing     *)
(* else has.  GuardsSuffice stands for what the prover cannot expand, that *)
(* the steps under fairness are enabled where their guards hold.           *)
THEOREM ProbesEnd == FairSpec /\ []GuardsSuffice => EveryProbeEnds
<1>1. ASSUME NEW p \in Probe
      PROVE  FairSpec /\ []GuardsSuffice => Ends(p)
  <2>1. PInv => Unstarted(p) \/ DeadlineApplies(p) \/ Ended(p)
    BY EveryState
  <2>2. PInv /\ [Next]_vars => /\ DeadlineApplies(p) => DeadlineApplies(p)' \/ Ended(p)'
                               /\ Ended(p) => Ended(p)'
    BY ProbeGoesOn
  <2>3. PInv /\ <<Starts(p)>>_vars => ~Unstarted(p)'
    BY StartsAndEnds
  <2>4. PInv /\ <<Timeout(p)>>_vars => Ended(p)'
    BY StartsAndEnds
  <2>5. GuardsSuffice => GuardSuffices(p)
    BY DEF GuardsSuffice
  <2>6. Fairness => Fair(p)
    BY DEF Fairness
  <2>7. QED
    BY <2>1, <2>2, <2>3, <2>4, <2>5, <2>6, AlwaysPInv, PTL
       DEF FairSpec, Spec, Fair, GuardSuffices, Ends
<1>2. QED
  BY <1>1 DEF EveryProbeEnds, Ends
=============================================================================
