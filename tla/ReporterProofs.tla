--------------------------- MODULE ReporterProofs ---------------------------
(***************************************************************************)
(* Proofs about Reporter, for any number of results.  A result has a place *)
(* (received, lost, on its way, the batch, the buffer); the batch and the  *)
(* buffer follow, in the order of the numbers, all that was posted before. *)
(* The strengthening says so of the pieces, so that no step has to take a  *)
(* concatenation apart.                                                    *)
(***************************************************************************)
EXTENDS Reporter, TLAPS

Below(s, t) == \A i \in DOMAIN s, j \in DOMAIN t : s[i] < t[j]

(* In order, but for what was in a batch of G. *)
InOrderBut(G, s) ==
  \A i, j \in DOMAIN s :
    i < j => \/ s[i] < s[j]
             \/ \E c \in G : s[j] \in ToSet(c) /\ s[i] \notin ToSet(c)

Arrived == InOrderBut(givenUp, received)

(* The pieces are in order, each in itself and one after the other. *)
Ordered ==
  /\ Arrived
  /\ Increasing(run.batch) /\ Increasing(buffer)
  /\ Below(received, run.batch) /\ Below(received, buffer) /\ Below(run.batch, buffer)
  /\ \A b \in givenUp : Increasing(b) /\ Below(b, run.batch) /\ Below(b, buffer)

OnWay == UNION {ToSet(b) : b \in late}

(* The five places, that no result is in two of them, and that no two      *)
(* batches on their way share one.                                         *)
Placed ==
  /\ ToSet(received) \cup lost \cup OnWay \cup ToSet(run.batch) \cup ToSet(buffer) = 1 .. added
  /\ ToSet(received) \cap lost = {} /\ ToSet(received) \cap OnWay = {}
  /\ ToSet(received) \cap ToSet(run.batch) = {} /\ ToSet(received) \cap ToSet(buffer) = {}
  /\ lost \cap OnWay = {}
  /\ lost \cap ToSet(run.batch) = {} /\ lost \cap ToSet(buffer) = {}
  /\ OnWay \cap ToSet(run.batch) = {} /\ OnWay \cap ToSet(buffer) = {}
  /\ ToSet(run.batch) \cap ToSet(buffer) = {}
  /\ \A b, c \in late : b # c => ToSet(b) \cap ToSet(c) = {}

(* What Run holds agrees with where it is. *)
Holds ==
  /\ buffer \in Seq(Nat) /\ received \in Seq(Nat)
  /\ givenUp \subseteq Seq(Nat) /\ late \subseteq givenUp
  /\ \A b \in givenUp : ToSet(b) \subseteq 1 .. added
  /\ run \in [at : {"waiting", "posting", "final", "returned"}, batch : Seq(Nat)]
  /\ added \in Nat /\ added <= MaxResults
  /\ run.batch = <<>> <=> run.at \in {"waiting", "returned"}
  /\ done \in BOOLEAN /\ alive \in BOOLEAN /\ beating \in BOOLEAN /\ seen \in BOOLEAN

RInv == Holds /\ Ordered /\ Placed

-----------------------------------------------------------------------------
(* Sequences of numbers. *)

(* A concatenation is increasing if its parts are and one is below the     *)
(* other.                                                                  *)
LEMMA ConcatIncreasing ==
  ASSUME NEW s \in Seq(Nat), NEW t \in Seq(Nat),
         Increasing(s), Increasing(t), Below(s, t)
  PROVE  Increasing(s \o t)
<1>1. /\ s \o t \in Seq(Nat) /\ Len(s \o t) = Len(s) + Len(t)
      /\ \A i \in 1 .. Len(s) : (s \o t)[i] = s[i]
      /\ \A i \in (Len(s) + 1) .. (Len(s) + Len(t)) : (s \o t)[i] = t[i - Len(s)]
  OBVIOUS
<1>2. Len(s) \in Nat /\ Len(t) \in Nat /\ DOMAIN s = 1 .. Len(s) /\ DOMAIN t = 1 .. Len(t)
      /\ DOMAIN (s \o t) = 1 .. (Len(s) + Len(t))
  BY <1>1
<1>3. SUFFICES ASSUME NEW i \in DOMAIN (s \o t), NEW j \in DOMAIN (s \o t), i < j
               PROVE  (s \o t)[i] < (s \o t)[j]
  BY DEF Increasing
<1>4. CASE j <= Len(s)
  BY <1>1, <1>2, <1>3, <1>4 DEF Increasing
<1>5. CASE i > Len(s)
  <2>1. i - Len(s) \in DOMAIN t /\ j - Len(s) \in DOMAIN t /\ i - Len(s) < j - Len(s)
    BY <1>2, <1>3, <1>5
  <2>2. (s \o t)[i] = t[i - Len(s)] /\ (s \o t)[j] = t[j - Len(s)]
    BY <1>1, <1>2, <1>3, <1>5
  <2> QED
    BY <2>1, <2>2 DEF Increasing
<1>6. CASE i <= Len(s) /\ j > Len(s)
  <2>1. i \in DOMAIN s /\ j - Len(s) \in DOMAIN t
    BY <1>2, <1>3, <1>6
  <2>2. (s \o t)[i] = s[i] /\ (s \o t)[j] = t[j - Len(s)]
    BY <1>1, <1>2, <1>3, <1>6
  <2> QED
    BY <2>1, <2>2 DEF Below
<1> QED
  BY <1>2, <1>3, <1>4, <1>5, <1>6

(* What is below, or above, both parts is below or above the whole. *)
LEMMA ConcatElements ==
  ASSUME NEW s \in Seq(Nat), NEW t \in Seq(Nat)
  PROVE  /\ \A i \in DOMAIN (s \o t) : (\E k \in DOMAIN s : (s \o t)[i] = s[k])
                                       \/ (\E k \in DOMAIN t : (s \o t)[i] = t[k])
         /\ \A k \in DOMAIN s : k \in DOMAIN (s \o t) /\ (s \o t)[k] = s[k]
         /\ \A k \in DOMAIN t : Len(s) + k \in DOMAIN (s \o t) /\ (s \o t)[Len(s) + k] = t[k]
<1>1. /\ Len(s \o t) = Len(s) + Len(t)
      /\ \A i \in 1 .. Len(s) : (s \o t)[i] = s[i]
      /\ \A i \in (Len(s) + 1) .. (Len(s) + Len(t)) : (s \o t)[i] = t[i - Len(s)]
      /\ Len(s) \in Nat /\ Len(t) \in Nat /\ s \o t \in Seq(Nat)
  OBVIOUS
<1>2. DOMAIN s = 1 .. Len(s) /\ DOMAIN t = 1 .. Len(t)
      /\ DOMAIN (s \o t) = 1 .. (Len(s) + Len(t))
  BY <1>1
<1>3. ASSUME NEW i \in DOMAIN (s \o t)
      PROVE  (\E k \in DOMAIN s : (s \o t)[i] = s[k]) \/ (\E k \in DOMAIN t : (s \o t)[i] = t[k])
  <2>1. CASE i <= Len(s)
    BY <1>1, <1>2, <2>1
  <2>2. CASE i > Len(s)
    <3>1. i - Len(s) \in DOMAIN t /\ (s \o t)[i] = t[i - Len(s)]
      BY <1>1, <1>2, <2>2
    <3> QED
      BY <3>1
  <2> QED
    BY <1>1, <1>2, <2>1, <2>2
<1>4. ASSUME NEW k \in DOMAIN s
      PROVE  k \in DOMAIN (s \o t) /\ (s \o t)[k] = s[k]
  BY <1>1, <1>2
<1>5. ASSUME NEW k \in DOMAIN t
      PROVE  Len(s) + k \in DOMAIN (s \o t) /\ (s \o t)[Len(s) + k] = t[k]
  <2>1. Len(s) + k \in (Len(s) + 1) .. (Len(s) + Len(t)) /\ (Len(s) + k) - Len(s) = k
    BY <1>1, <1>2
  <2> QED
    BY <1>1, <1>2, <2>1
<1> QED
  BY <1>3, <1>4, <1>5

LEMMA ConcatBelow ==
  ASSUME NEW s \in Seq(Nat), NEW t \in Seq(Nat), NEW u \in Seq(Nat),
         Below(s, u), Below(t, u)
  PROVE  Below(s \o t, u)
<1>1. SUFFICES ASSUME NEW i \in DOMAIN (s \o t), NEW j \in DOMAIN u
               PROVE  (s \o t)[i] < u[j]
  BY DEF Below
<1> QED
  BY <1>1, ConcatElements, SMTT(30) DEF Below

LEMMA ConcatSet ==
  ASSUME NEW s \in Seq(Nat), NEW t \in Seq(Nat)
  PROVE  ToSet(s \o t) = ToSet(s) \cup ToSet(t)
<1>1. \A n \in ToSet(s \o t) : n \in ToSet(s) \cup ToSet(t)
  BY ConcatElements DEF ToSet
<1>2. ASSUME NEW n \in ToSet(s) PROVE n \in ToSet(s \o t)
  <2>1. PICK k \in DOMAIN s : n = s[k]
    BY DEF ToSet
  <2>2. k \in DOMAIN (s \o t) /\ (s \o t)[k] = n
    BY <2>1, ConcatElements
  <2> QED
    BY <2>2 DEF ToSet
<1>3. ASSUME NEW n \in ToSet(t) PROVE n \in ToSet(s \o t)
  <2>1. PICK k \in DOMAIN t : n = t[k]
    BY DEF ToSet
  <2>2. Len(s) + k \in DOMAIN (s \o t) /\ (s \o t)[Len(s) + k] = n
    BY <2>1, ConcatElements
  <2> QED
    BY <2>2 DEF ToSet
<1> QED
  BY <1>1, <1>2, <1>3

LEMMA EmptySequence == /\ <<>> \in Seq(Nat) /\ Increasing(<<>>) /\ ToSet(<<>>) = {}
                       /\ \A s \in Seq(Nat) : Below(<<>>, s) /\ Below(s, <<>>)
BY DEF Increasing, Below, ToSet

(* One more number, above all there are. *)
LEMMA AppendAbove ==
  ASSUME NEW s \in Seq(Nat), NEW x \in Nat
  PROVE  /\ Append(s, x) \in Seq(Nat)
         /\ ToSet(Append(s, x)) = ToSet(s) \cup {x}
         /\ Increasing(s) /\ (\A n \in ToSet(s) : n < x) => Increasing(Append(s, x))
         /\ \A t \in Seq(Nat) : Below(t, s) /\ (\A n \in ToSet(t) : n < x) => Below(t, Append(s, x))
<1>1. /\ Append(s, x) \in Seq(Nat) /\ Len(s) \in Nat
      /\ DOMAIN s = 1 .. Len(s) /\ DOMAIN Append(s, x) = 1 .. (Len(s) + 1)
      /\ \A i \in DOMAIN s : Append(s, x)[i] = s[i]
      /\ Append(s, x)[Len(s) + 1] = x
  OBVIOUS
<1>2. DOMAIN Append(s, x) = DOMAIN s \cup {Len(s) + 1}
  BY <1>1
<1>3. ToSet(Append(s, x)) = ToSet(s) \cup {x}
  BY <1>1, <1>2 DEF ToSet
<1>4. ASSUME Increasing(s), \A n \in ToSet(s) : n < x
      PROVE  Increasing(Append(s, x))
  <2>1. SUFFICES ASSUME NEW i \in DOMAIN Append(s, x), NEW j \in DOMAIN Append(s, x), i < j
                 PROVE  Append(s, x)[i] < Append(s, x)[j]
    BY DEF Increasing
  <2>2. i \in DOMAIN s
    BY <1>1, <2>1
  <2>3. CASE j \in DOMAIN s
    BY <1>1, <1>4, <2>1, <2>2, <2>3 DEF Increasing
  <2>4. CASE j = Len(s) + 1
    BY <1>1, <1>4, <2>2, <2>4 DEF ToSet
  <2> QED
    BY <1>2, <2>3, <2>4
<1>5. ASSUME NEW t \in Seq(Nat), Below(t, s), \A n \in ToSet(t) : n < x
      PROVE  Below(t, Append(s, x))
  BY <1>1, <1>2, <1>5 DEF Below, ToSet
<1> QED
  BY <1>1, <1>3, <1>4, <1>5

LEMMA NarrowSeq ==
  ASSUME NEW s \in Seq(Nat), NEW S, ToSet(s) \subseteq S
  PROVE  s \in Seq(S)
<1>1. Len(s) \in Nat /\ DOMAIN s = 1 .. Len(s) /\ s = [i \in 1 .. Len(s) |-> s[i]]
  OBVIOUS
<1>2. \A i \in 1 .. Len(s) : s[i] \in S
  BY <1>1 DEF ToSet
<1> QED
  BY <1>1, <1>2

-----------------------------------------------------------------------------
(* The strengthening implies what is to be proved. *)
LEMMA InvImplies == ASSUME RInv PROVE TypeOK /\ OnceInOrder /\ NothingVanishes
<1> USE DEF RInv, Holds
<1>1. run.batch \in Seq(Nat)
  OBVIOUS
<1>2. TypeOK
  <2>1. /\ ToSet(buffer) \subseteq 1 .. added /\ ToSet(run.batch) \subseteq 1 .. added
        /\ ToSet(received) \subseteq 1 .. added /\ lost \subseteq 1 .. added
    BY DEF Placed
  <2>2. /\ buffer \in Seq(1 .. added) /\ run.batch \in Seq(1 .. added)
        /\ received \in Seq(1 .. added)
    BY <1>1, <2>1, NarrowSeq
  <2>3. \A b \in givenUp : b \in Seq(1 .. added)
    BY NarrowSeq
  <2>4. added \in 0 .. MaxResults
    BY ReporterAssumption DEF ReporterAssumption
  <2> QED
    BY <2>1, <2>2, <2>3, <2>4 DEF TypeOK
<1>3. OnceInOrder
  <2>1. Increasing(run.batch \o buffer)
    BY <1>1, ConcatIncreasing DEF Ordered
  <2>2. ToSet(run.batch \o buffer) = ToSet(run.batch) \cup ToSet(buffer)
    BY <1>1, ConcatSet
  <2>3. ASSUME NEW b \in givenUp \cup {received}
        PROVE  Below(b, run.batch) /\ Below(b, buffer)
    BY DEF Ordered
  <2>4. ASSUME NEW b \in givenUp \cup {received},
               NEW n \in ToSet(b), NEW k \in ToSet(run.batch) \cup ToSet(buffer)
        PROVE  n < k
    BY <2>3 DEF Below, ToSet
  <2> QED
    BY <2>1, <2>2, <2>4 DEF OnceInOrder, Ordered, Arrived, InOrderBut, GivenUpWithout
<1>4. NothingVanishes
  <2> DEFINE places == <<ToSet(received), lost, OnWay, ToSet(run.batch), ToSet(buffer)>>
  <2>1. places[1] = ToSet(received) /\ places[2] = lost /\ places[3] = OnWay
        /\ places[4] = ToSet(run.batch) /\ places[5] = ToSet(buffer)
    OBVIOUS
  <2> HIDE DEF places
  <2>2. 1 .. 5 = {1, 2, 3, 4, 5}
    OBVIOUS
  <2>3. UNION {places[i] : i \in 1 .. 5}
          = places[1] \cup places[2] \cup places[3] \cup places[4] \cup places[5]
    BY <2>2
  <2>4. UNION {places[i] : i \in 1 .. 5} = 1 .. added
    BY <2>1, <2>3 DEF Placed
  <2>5. ASSUME NEW i \in 1 .. 5, NEW j \in 1 .. 5, i # j
        PROVE  places[i] \cap places[j] = {}
    <3>1. CASE i = 1 \/ j = 1
      BY <2>1, <2>2, <2>5, <3>1 DEF Placed
    <3>2. CASE i = 2 \/ j = 2
      BY <2>1, <2>2, <2>5, <3>2 DEF Placed
    <3>3. CASE i \in 3 .. 5 /\ j \in 3 .. 5
      BY <2>1, <2>2, <2>5, <3>3 DEF Placed
    <3> QED
      BY <2>2, <3>1, <3>2, <3>3
  <2> QED
    BY <2>4, <2>5 DEF NothingVanishes, places, OnWay
<1> QED
  BY <1>2, <1>3, <1>4

LEMMA InitRInv == Init => RInv
<1> SUFFICES ASSUME Init PROVE RInv
  OBVIOUS
<1> USE DEF Init, Waiting
<1>1. Holds
  <2>1. 0 \in Nat /\ 0 <= MaxResults
    BY ReporterAssumption DEF ReporterAssumption
  <2>2. /\ buffer \in Seq(Nat) /\ received \in Seq(Nat)
        /\ run \in [at : {"waiting", "posting", "final", "returned"}, batch : Seq(Nat)]
        /\ run.batch = <<>> /\ run.at = "waiting" /\ givenUp = {} /\ late = {}
    BY EmptySequence
  <2> QED
    BY <2>1, <2>2 DEF Holds
<1>2. Ordered
  <2>1. Arrived
    BY DEF Arrived, InOrderBut
  <2>2. buffer = <<>> /\ received = <<>> /\ run.batch = <<>> /\ givenUp = {}
    OBVIOUS
  <2> HIDE DEF Init, Waiting
  <2> QED
    BY <2>1, <2>2, EmptySequence DEF Ordered
<1>3. Placed
  <2>1. 1 .. 0 = {} /\ OnWay = {}
    BY DEF OnWay
  <2> QED
    BY <2>1, EmptySequence DEF Placed
<1> QED
  BY <1>1, <1>2, <1>3 DEF RInv

-----------------------------------------------------------------------------
LEMMA AddStep == ASSUME RInv, Add PROVE RInv'
<1> USE DEF RInv, Holds, Add
<1>0. added \in Nat /\ added < MaxResults /\ run.batch \in Seq(Nat)
  OBVIOUS
<1> HIDE DEF RInv, Holds, Add
<1>1. /\ added \in Nat /\ added + 1 \in Nat /\ added + 1 <= MaxResults
      /\ run.batch \in Seq(Nat)
      /\ \A n \in 1 .. added : n < added + 1
      /\ 1 .. (added + 1) = (1 .. added) \cup {added + 1}
      /\ added + 1 \notin 1 .. added
  BY <1>0, ReporterAssumption DEF ReporterAssumption
<1> USE DEF RInv, Holds, Add
<1>2. /\ Append(buffer, added + 1) \in Seq(Nat)
      /\ ToSet(Append(buffer, added + 1)) = ToSet(buffer) \cup {added + 1}
  BY <1>1, AppendAbove
<1>3. /\ ToSet(buffer) \subseteq 1 .. added /\ ToSet(run.batch) \subseteq 1 .. added
      /\ ToSet(received) \subseteq 1 .. added /\ lost \subseteq 1 .. added
      /\ OnWay \subseteq 1 .. added
  BY DEF Placed
<1>4. Holds'
  <2>1. buffer' \in Seq(Nat) /\ added' \in Nat /\ added' <= MaxResults
    BY <1>1, <1>2
  <2>2. \A b \in givenUp : ToSet(b) \subseteq 1 .. added'
    BY <1>1
  <2> QED
    BY <2>1, <2>2 DEF heartVars, wayVars
<1>5. Ordered'
  <2>1. Increasing(buffer') /\ Below(received, buffer') /\ Below(run.batch, buffer')
    BY <1>1, <1>3, AppendAbove DEF Ordered
  <2>2. ASSUME NEW b \in givenUp PROVE Below(b, buffer')
    <3>1. b \in Seq(Nat) /\ \A n \in ToSet(b) : n < added + 1
      BY <1>1
    <3>2. Below(b, buffer)
      BY DEF Ordered
    <3> QED
      BY <1>1, <3>1, <3>2, AppendAbove
  <2> QED
    BY <2>1, <2>2 DEF Ordered, Arrived, wayVars
<1>6. Placed'
  <2>1. OnWay' = OnWay
    BY DEF OnWay, wayVars
  <2> QED
    BY <1>1, <1>2, <1>3, <2>1 DEF Placed, wayVars
<1> QED
  BY <1>4, <1>5, <1>6

(* flush takes the buffer. *)
LEMMA TakeBatchStep ==
  ASSUME RInv, NEW at \in {"posting", "final"}, run.at = "waiting", TakeBatch(at),
         UNCHANGED <<done, alive, added, wayVars, heartVars>>
  PROVE  RInv'
<1> USE DEF RInv, Holds, TakeBatch, heartVars, wayVars
<1>1. run.batch = <<>> /\ run'.at = at /\ run'.batch = buffer /\ buffer' = <<>>
  OBVIOUS
<1>2. Holds'
  BY EmptySequence
<1>3. Ordered'
  BY <1>1, EmptySequence DEF Ordered, Arrived
<1>4. Placed'
  <2>1. OnWay' = OnWay
    BY DEF OnWay
  <2> QED
    BY <1>1, <2>1, EmptySequence DEF Placed
<1> QED
  BY <1>2, <1>3, <1>4

(* What comes in order and is above all before, or was given up without    *)
(* any of it, keeps the order; and so do more batches given up.            *)
LEMMA ConcatInOrder ==
  ASSUME NEW G, NEW s \in Seq(Nat), NEW b \in Seq(Nat), InOrderBut(G, s), Increasing(b),
         Below(s, b) \/ (b \in G /\ ToSet(s) \cap ToSet(b) = {})
  PROVE  InOrderBut(G, s \o b)
<1>1. /\ s \o b \in Seq(Nat) /\ Len(s \o b) = Len(s) + Len(b)
      /\ \A i \in 1 .. Len(s) : (s \o b)[i] = s[i]
      /\ \A i \in (Len(s) + 1) .. (Len(s) + Len(b)) : (s \o b)[i] = b[i - Len(s)]
  OBVIOUS
<1>2. Len(s) \in Nat /\ Len(b) \in Nat /\ DOMAIN s = 1 .. Len(s) /\ DOMAIN b = 1 .. Len(b)
      /\ DOMAIN (s \o b) = 1 .. (Len(s) + Len(b))
  BY <1>1
<1> DEFINE Without(x, y) == \E c \in G : x \in ToSet(c) /\ y \notin ToSet(c)
<1>3. SUFFICES ASSUME NEW i \in DOMAIN (s \o b), NEW j \in DOMAIN (s \o b), i < j
               PROVE  (s \o b)[i] < (s \o b)[j] \/ Without((s \o b)[j], (s \o b)[i])
  BY DEF InOrderBut
<1>4. CASE j <= Len(s)
  <2>1. i \in DOMAIN s /\ j \in DOMAIN s /\ (s \o b)[i] = s[i] /\ (s \o b)[j] = s[j]
    BY <1>1, <1>2, <1>3, <1>4
  <2> QED
    BY <1>3, <2>1 DEF InOrderBut
<1>5. CASE i > Len(s)
  <2>1. i - Len(s) \in DOMAIN b /\ j - Len(s) \in DOMAIN b /\ i - Len(s) < j - Len(s)
    BY <1>2, <1>3, <1>5
  <2>2. (s \o b)[i] = b[i - Len(s)] /\ (s \o b)[j] = b[j - Len(s)]
    BY <1>1, <1>2, <1>3, <1>5
  <2> QED
    BY <2>1, <2>2 DEF Increasing
<1>6. CASE i <= Len(s) /\ j > Len(s)
  <2>1. i \in DOMAIN s /\ (s \o b)[i] = s[i]
    BY <1>1, <1>2, <1>6
  <2>2. j - Len(s) \in DOMAIN b /\ (s \o b)[j] = b[j - Len(s)]
    BY <1>1, <1>2, <1>6
  <2>3. CASE Below(s, b)
    BY <2>1, <2>2, <2>3 DEF Below
  <2>4. CASE b \in G /\ ToSet(s) \cap ToSet(b) = {}
    <3>1. b[j - Len(s)] \in ToSet(b) /\ s[i] \notin ToSet(b)
      BY <2>1, <2>2, <2>4 DEF ToSet
    <3> QED
      BY <2>1, <2>2, <2>4, <3>1
  <2> QED
    BY <2>3, <2>4
<1> HIDE DEF Without
<1> QED
  BY <1>2, <1>3, <1>4, <1>5, <1>6

LEMMA MoreGivenUp ==
  ASSUME NEW G, NEW H, G \subseteq H, NEW s, InOrderBut(G, s) PROVE InOrderBut(H, s)
BY DEF InOrderBut

LEMMA ArrivedMore ==
  ASSUME Arrived, received \in Seq(Nat), NEW b \in Seq(Nat), Increasing(b),
         Below(received, b) \/ (b \in givenUp /\ ToSet(received) \cap ToSet(b) = {}),
         received' = received \o b, givenUp' = givenUp
  PROVE  Arrived'
BY ConcatInOrder DEF Arrived

LEMMA ArrivedStill ==
  ASSUME Arrived, received' = received, givenUp \subseteq givenUp' PROVE Arrived'
BY MoreGivenUp DEF Arrived

LEMMA OnWayMore ==
  ASSUME NEW b, late' = late \cup {b} PROVE OnWay' = OnWay \cup ToSet(b)
BY DEF OnWay

LEMMA PostStep == ASSUME RInv, Post PROVE RInv'
<1> USE DEF RInv, Holds, Waiting, AfterPost, heartVars
<1>1. /\ run.batch \in Seq(Nat) /\ run'.batch = <<>> /\ run'.at \in {"waiting", "returned"}
      /\ run' \in [at : {"waiting", "returned"}, batch : Seq(Nat)]
      /\ UNCHANGED <<buffer, added, done, alive, beating, seen>>
  BY EmptySequence DEF Post
<1>2. /\ Below(run'.batch, buffer') /\ Increasing(run'.batch) /\ ToSet(run'.batch) = {}
      /\ \A b \in Seq(Nat) : Below(b, run'.batch)
  BY <1>1, EmptySequence
<1>3. ToSet(run.batch) \subseteq 1 .. added
  BY DEF Placed
<1>4. CASE received' = received \o run.batch /\ UNCHANGED <<lost, late, givenUp>>
  <2>1. received' \in Seq(Nat) /\ ToSet(received') = ToSet(received) \cup ToSet(run.batch)
    BY <1>1, <1>4, ConcatSet
  <2>2. Holds'
    BY <1>1, <1>4, <2>1
  <2>3. Arrived' /\ Below(received', buffer)
    BY <1>1, <1>4, ArrivedMore, ConcatBelow DEF Ordered
  <2>4. Ordered'
    BY <1>1, <1>2, <1>4, <2>1, <2>3 DEF Ordered
  <2>5. OnWay' = OnWay
    BY <1>4 DEF OnWay
  <2>6. Placed'
    BY <1>1, <1>2, <1>4, <2>1, <2>5 DEF Placed
  <2> QED
    BY <2>2, <2>4, <2>6
<1>5. CASE lost' = lost \cup ToSet(run.batch) /\ UNCHANGED <<received, late, givenUp>>
  <2>1. Holds'
    BY <1>1, <1>5
  <2>2. Ordered'
    BY <1>1, <1>2, <1>5, ArrivedStill DEF Ordered
  <2>3. OnWay' = OnWay
    BY <1>5 DEF OnWay
  <2>4. Placed'
    BY <1>1, <1>2, <1>5, <2>3 DEF Placed
  <2> QED
    BY <2>1, <2>2, <2>4
<1>6. CASE GiveUp(run.batch)
  <2>1. /\ late' = late \cup {run.batch} /\ givenUp' = givenUp \cup {run.batch}
        /\ UNCHANGED <<lost, received>>
    BY <1>6 DEF GiveUp
  <2>2. Holds'
    BY <1>1, <1>3, <2>1
  <2>3. Ordered'
    BY <1>1, <1>2, <2>1, ArrivedStill DEF Ordered
  <2>4. OnWay' = OnWay \cup ToSet(run.batch)
    BY <2>1, OnWayMore
  <2>5. \A b \in late : ToSet(b) \subseteq OnWay
    BY DEF OnWay
  <2>6. \A b, c \in late' : b # c => ToSet(b) \cap ToSet(c) = {}
    BY <2>1, <2>5 DEF Placed
  <2>7. Placed'
    BY <1>1, <1>2, <2>1, <2>4, <2>6 DEF Placed
  <2> QED
    BY <2>2, <2>3, <2>7
<1> QED
  BY <1>4, <1>5, <1>6 DEF Post

(* A batch on its way ends: what it held moves, the others stay. *)
LEMMA LateEndStep == ASSUME RInv, LateEnd PROVE RInv'
<1> USE DEF RInv, Holds, heartVars
<1>1. PICK b \in late :
        /\ late' = late \ {b}
        /\ \/ received' = received \o b /\ UNCHANGED lost
           \/ lost' = lost \cup ToSet(b) /\ UNCHANGED received
  BY DEF LateEnd
<1>2. UNCHANGED <<buffer, run, added, givenUp, done, alive, beating, seen>>
  BY DEF LateEnd
<1>3. b \in givenUp /\ b \in Seq(Nat) /\ late' \subseteq givenUp'
  BY <1>1, <1>2
<1>4. OnWay = OnWay' \cup ToSet(b) /\ OnWay' \cap ToSet(b) = {}
  BY <1>1 DEF OnWay, Placed
<1>5. \A c, d \in late' : c # d => ToSet(c) \cap ToSet(d) = {}
  BY <1>1 DEF Placed
<1>6. Increasing(b) /\ Below(b, run.batch) /\ Below(b, buffer)
  BY <1>3 DEF Ordered
<1>7. CASE received' = received \o b /\ UNCHANGED lost
  <2>1. received' \in Seq(Nat) /\ ToSet(received') = ToSet(received) \cup ToSet(b)
    BY <1>3, <1>7, ConcatSet
  <2>2. Holds'
    BY <1>2, <1>3, <2>1
  <2>3. Arrived'
    <3>1. ToSet(received) \cap ToSet(b) = {}
      BY <1>4 DEF Placed
    <3> QED
      BY <1>2, <1>3, <1>6, <1>7, <3>1, ArrivedMore DEF Ordered
  <2>4. Below(received', run.batch) /\ Below(received', buffer)
    BY <1>3, <1>6, <1>7, ConcatBelow DEF Ordered
  <2>5. Ordered'
    BY <1>2, <2>3, <2>4 DEF Ordered
  <2>6. Placed'
    BY <1>2, <1>4, <1>5, <1>7, <2>1 DEF Placed
  <2> QED
    BY <2>2, <2>5, <2>6
<1>8. CASE lost' = lost \cup ToSet(b) /\ UNCHANGED received
  <2>1. Holds'
    BY <1>2, <1>3, <1>8
  <2>2. Ordered'
    BY <1>2, <1>8, ArrivedStill DEF Ordered
  <2>3. Placed'
    BY <1>2, <1>4, <1>5, <1>8 DEF Placed
  <2> QED
    BY <2>1, <2>2, <2>3
<1> QED
  BY <1>1, <1>7, <1>8

(* The process ends: its buffer is lost, its POST on its own. *)
LEMMA ExitStep == ASSUME RInv, Exit PROVE RInv'
<1> USE DEF RInv, Holds, heartVars
<1>1. /\ run'.batch = <<>> /\ run'.at = "returned" /\ buffer' = <<>>
      /\ run' \in [at : {"returned"}, batch : Seq(Nat)]
      /\ lost' = lost \cup ToSet(buffer)
      /\ UNCHANGED <<added, received, done, beating, seen>> /\ alive' \in BOOLEAN
  BY EmptySequence DEF Exit, Waiting
<1>2. /\ Increasing(<<>>) /\ ToSet(<<>>) = {} /\ <<>> \in Seq(Nat)
      /\ \A s \in Seq(Nat) : Below(<<>>, s) /\ Below(s, <<>>)
  BY EmptySequence
<1>3. run.batch \in Seq(Nat) /\ ToSet(run.batch) \subseteq 1 .. added
  BY DEF Placed
<1>4. CASE run.batch = <<>>
  <2>1. late' = late /\ givenUp' = givenUp
    BY <1>4 DEF Exit
  <2>2. Holds'
    BY <1>1, <1>2, <2>1
  <2>3. Ordered'
    BY <1>1, <1>2, <2>1, ArrivedStill DEF Ordered
  <2>4. OnWay' = OnWay
    BY <2>1 DEF OnWay
  <2>5. Placed'
    BY <1>1, <1>2, <1>4, <2>1, <2>4 DEF Placed
  <2> QED
    BY <2>2, <2>3, <2>5
<1>5. CASE run.batch # <<>>
  <2>1. late' = late \cup {run.batch} /\ givenUp' = givenUp \cup {run.batch}
    BY <1>5 DEF Exit
  <2>2. Holds'
    BY <1>1, <1>2, <1>3, <2>1
  <2>3. Ordered'
    BY <1>1, <1>2, <1>3, <2>1, ArrivedStill DEF Ordered
  <2>4. OnWay' = OnWay \cup ToSet(run.batch)
    BY <2>1, OnWayMore
  <2>5. \A b \in late : ToSet(b) \subseteq OnWay
    BY DEF OnWay
  <2>6. \A b, c \in late' : b # c => ToSet(b) \cap ToSet(c) = {}
    BY <2>1, <2>5 DEF Placed
  <2>7. Placed'
    BY <1>1, <1>2, <2>1, <2>4, <2>6 DEF Placed
  <2> QED
    BY <2>2, <2>3, <2>7
<1> QED
  BY <1>4, <1>5

(* A step that leaves the results alone. *)
LEMMA OtherStep ==
  ASSUME RInv, UNCHANGED resultVars,
         done' \in BOOLEAN, alive' \in BOOLEAN, beating' \in BOOLEAN, seen' \in BOOLEAN
  PROVE  RInv'
<1>1. UNCHANGED <<buffer, run, added, lost, late, givenUp, received>>
  BY DEF resultVars, wayVars
<1>2. Holds'
  BY <1>1 DEF RInv, Holds
<1>3. Ordered'
  BY <1>1, ArrivedStill DEF RInv, Ordered
<1>4. Placed'
  BY <1>1 DEF RInv, Placed, OnWay
<1> QED
  BY <1>2, <1>3, <1>4 DEF RInv

LEMMA NextRInv == RInv /\ [Next]_vars => RInv'
<1> SUFFICES ASSUME RInv, [Next]_vars PROVE RInv'
  OBVIOUS
<1>0. done \in BOOLEAN /\ alive \in BOOLEAN /\ beating \in BOOLEAN /\ seen \in BOOLEAN
  BY DEF RInv, Holds
<1>1. CASE Add
  BY <1>1, AddStep
<1>2. CASE TickFlush
  BY <1>2, TakeBatchStep DEF TickFlush
<1>3. CASE FinalFlush
  <2>1. CASE TakeBatch("final")
    BY <1>3, <2>1, TakeBatchStep DEF FinalFlush
  <2>2. CASE buffer = <<>> /\ run' = [Waiting EXCEPT !.at = "returned"] /\ UNCHANGED buffer
    <3>1. run.batch = <<>> /\ run'.batch = <<>> /\ run'.at = "returned"
      BY <1>3, <2>2 DEF FinalFlush, RInv, Holds, Waiting
    <3>2. Holds'
      BY <1>3, <2>2, <3>1, EmptySequence DEF FinalFlush, RInv, Holds, Waiting, heartVars, wayVars
    <3>3. Ordered'
      BY <1>3, <2>2, <3>1, ArrivedStill DEF FinalFlush, RInv, Ordered, wayVars
    <3>4. Placed'
      BY <1>3, <2>2, <3>1 DEF FinalFlush, RInv, Placed, OnWay, wayVars
    <3> QED
      BY <3>2, <3>3, <3>4 DEF RInv
  <2> QED
    BY <1>3, <2>1, <2>2 DEF FinalFlush
<1>4. CASE Post
  BY <1>4, PostStep
<1>5. CASE Heartbeat
  <2>1. seen' \in BOOLEAN /\ beating' \in BOOLEAN
    BY <1>0, <1>5 DEF Heartbeat, AfterHeartbeat
  <2> QED
    BY <1>0, <1>5, <2>1, OtherStep DEF Heartbeat
<1>6. CASE HeartStops \/ Forget \/ Cancel
  BY <1>0, <1>6, OtherStep DEF HeartStops, Forget, Cancel, heartVars
<1>7. CASE LateEnd \/ Exit
  BY <1>7, LateEndStep, ExitStep
<1>8. CASE UNCHANGED vars
  BY <1>0, <1>8, OtherStep DEF vars, heartVars
<1> QED
  BY <1>1, <1>2, <1>3, <1>4, <1>5, <1>6, <1>7, <1>8 DEF Next

LEMMA AlwaysRInv == Spec => []RInv
BY InitRInv, NextRInv, PTL DEF Spec

-----------------------------------------------------------------------------
(* The variables of the reporter keep their types, for any number of       *)
(* results, and Run posts nothing empty.                                   *)
THEOREM ReporterTyped == Spec => []TypeOK
<1>1. RInv => TypeOK
  BY InvImplies
<1> QED
  BY <1>1, AlwaysRInv, PTL

(* The Control Plane gets every result at most once, and in order but for  *)
(* what comes late from a POST that was given up: it is overtaken by whole *)
(* batches posted after it, and never by a result that was in it.  This    *)
(* holds whatever POSTs fail and wherever the agent is stopped.            *)
THEOREM ReporterKeepsOrder == Spec => []OnceInOrder
<1>1. RInv => OnceInOrder
  BY InvImplies
<1> QED
  BY <1>1, AlwaysRInv, PTL

(* Every result added was received, was lost in a POST that failed or with *)
(* the buffer of a process that ended, is on its way in a POST given up,   *)
(* or is still in the agent, and is only one of these.                     *)
THEOREM ReporterAccountsForAll == Spec => []NothingVanishes
<1>1. RInv => NothingVanishes
  BY InvImplies
<1> QED
  BY <1>1, AlwaysRInv, PTL

-----------------------------------------------------------------------------
(* An agent that is not stopped is there with both its goroutines. *)
Running == alive /\ beating /\ run.at \in {"waiting", "posting"}
Lives   == ~done => Running

LEMMA NextLives == Lives /\ [Next]_vars => Lives'
<1> SUFFICES ASSUME Lives, [Next]_vars PROVE Lives'
  OBVIOUS
<1> USE DEF Lives, Running
<1>1. CASE Add \/ Forget \/ Cancel
  BY <1>1 DEF Add, Forget, Cancel, resultVars, heartVars
<1>2. CASE TickFlush \/ Post \/ LateEnd
  BY <1>2 DEF LateEnd, TickFlush, TakeBatch, Post, AfterPost, Waiting, heartVars
<1>3. CASE FinalFlush \/ HeartStops \/ Exit
  BY <1>3 DEF FinalFlush, HeartStops, Exit
<1>4. CASE Heartbeat
  BY <1>4 DEF Heartbeat, AfterHeartbeat, resultVars
<1>5. CASE UNCHANGED vars
  BY <1>5 DEF vars, resultVars, heartVars
<1>6. QED
  BY <1>1, <1>2, <1>3, <1>4, <1>5 DEF Next

LEMMA AlwaysLives == Spec => []Lives
<1>1. Init => Lives
  BY DEF Init, Lives, Running, Waiting
<1>2. QED
  BY <1>1, NextLives, PTL DEF Spec

(* An agent that runs is seen again and again, however long the Control    *)
(* Plane forgets it and whatever POSTs and heartbeats fail: no failure     *)
(* ends the goroutine, so some heartbeat gets through.  GuardsSuffice      *)
(* stands for what the prover cannot expand, that the steps under fairness *)
(* are enabled where their guards hold.                                    *)
THEOREM ReporterStaysSeen == FairSpec /\ []GuardsSuffice => StaysSeen
<1>1. Lives => (~done => alive /\ beating)
  BY DEF Lives, Running
<1>2. QED
  BY <1>1, AlwaysLives, PTL DEF FairSpec, Spec, Fairness, GuardsSuffice, StaysSeen

-----------------------------------------------------------------------------
(* The way of a result out of the agent. *)
Buffered(r) == ~done /\ run.at = "waiting" /\ r \in ToSet(buffer)
Behind(r)   == ~done /\ run.at = "posting" /\ r \in ToSet(buffer)
Posted(r)   == ~done /\ run.at = "posting" /\ r \in ToSet(run.batch) /\ r \notin ToSet(buffer)
Gone(r)     == r \notin ToSet(buffer) \cup ToSet(run.batch) \/ done
Leaves(r)   == r \in ToSet(buffer) ~> Gone(r)

LEMMA EveryPlace ==
  ASSUME RInv, Lives, NEW r
  PROVE  Buffered(r) \/ Behind(r) \/ Posted(r) \/ Gone(r)
<1>1. run.at = "waiting" => ToSet(run.batch) = {}
  BY EmptySequence DEF RInv, Holds
<1>2. QED
  BY <1>1 DEF Lives, Running, Buffered, Behind, Posted, Gone

LEMMA ResultMoves ==
  ASSUME RInv, Lives, [Next]_vars, NEW r
  PROVE  /\ Buffered(r) => Buffered(r)' \/ Posted(r)' \/ Gone(r)'
         /\ Behind(r) => Behind(r)' \/ Buffered(r)' \/ Gone(r)'
         /\ Posted(r) => Posted(r)' \/ Gone(r)'
<1> USE DEF Buffered, Behind, Posted, Gone
<1>1. RInv' /\ Lives'
  BY NextRInv, NextLives
<1>2. CASE Add
  <2>1. /\ ToSet(buffer') = ToSet(buffer) \cup {added + 1}
        /\ UNCHANGED <<run, done>>
    BY <1>2, AppendAbove DEF Add, RInv, Holds
  <2>2. added + 1 \notin ToSet(run.batch)
    <3>1. ToSet(run.batch) \subseteq 1 .. added /\ added \in Nat
      BY DEF RInv, Holds, Placed
    <3>2. QED
      BY <3>1
  <2>3. QED
    BY <2>1, <2>2
<1>3. CASE TickFlush
  <2>1. /\ run.at = "waiting" /\ done' = done
        /\ run'.at = "posting" /\ run'.batch = buffer /\ buffer' = <<>>
    BY <1>3 DEF TickFlush, TakeBatch
  <2>2. QED
    BY <2>1, EmptySequence
<1>4. CASE Post
  <2>1. run'.batch = <<>> /\ buffer' = buffer /\ done' = done
    BY <1>4 DEF Post, Waiting
  <2>2. run.at = "posting" => run'.at = "waiting"
    BY <1>4 DEF Post, Waiting, AfterPost
  <2>3. QED
    BY <1>4, <2>1, <2>2, EmptySequence DEF Post
<1>5. CASE UNCHANGED <<buffer, run, done>>
  BY <1>5
<1>6. CASE done'
  BY <1>6
<1>7. QED
  BY <1>2, <1>3, <1>4, <1>5, <1>6
     DEF Next, FinalFlush, LateEnd, Heartbeat, HeartStops, Forget, Cancel, Exit, vars, resultVars

LEMMA FlushAndPost ==
  ASSUME NEW r
  PROVE  /\ TickFlush => ~Buffered(r)'
         /\ Post => ~Behind(r)' /\ ~Posted(r)'
<1>1. TickFlush => run'.at = "posting"
  BY DEF TickFlush, TakeBatch
<1>2. Post => run'.at # "posting"
  BY DEF Post, Waiting, AfterPost
<1>3. QED
  BY <1>1, <1>2 DEF Buffered, Behind, Posted

(* No result stays in a running agent: it is flushed with the buffer on    *)
(* some tick, after the POST before it has ended, and its own POST ends,   *)
(* received or lost.  For any number of results, added at any time.        *)
THEOREM ReporterResultsLeave == FairSpec /\ []GuardsSuffice => ResultsLeave
<1>1. ASSUME NEW r \in 1 .. MaxResults
      PROVE  FairSpec /\ []GuardsSuffice => Leaves(r)
  <2>1. RInv /\ Lives => Buffered(r) \/ Behind(r) \/ Posted(r) \/ Gone(r)
    BY EveryPlace
  <2>2. RInv /\ Lives /\ [Next]_vars =>
          /\ Buffered(r) => Buffered(r)' \/ Posted(r)' \/ Gone(r)'
          /\ Behind(r) => Behind(r)' \/ Buffered(r)' \/ Gone(r)'
          /\ Posted(r) => Posted(r)' \/ Gone(r)'
    BY ResultMoves
  <2>3. <<TickFlush>>_vars => ~Buffered(r)'
    BY FlushAndPost
  <2>4. <<Post>>_vars => ~Behind(r)' /\ ~Posted(r)'
    BY FlushAndPost
  <2>5. /\ Lives /\ Buffered(r) => alive /\ run.at = "waiting" /\ buffer # <<>>
        /\ Lives /\ (Behind(r) \/ Posted(r)) => alive /\ run.at = "posting"
    BY EmptySequence DEF Lives, Running, Buffered, Behind, Posted
  <2>6. QED
    BY <2>1, <2>2, <2>3, <2>4, <2>5, AlwaysRInv, AlwaysLives, PTL
       DEF FairSpec, Spec, Fairness, GuardsSuffice, Leaves
<1>2. QED
  BY <1>1 DEF ResultsLeave, Leaves, Gone

=============================================================================
