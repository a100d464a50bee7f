------------------------- MODULE MailPipelineProofs -------------------------
(***************************************************************************)
(* Safety of MailPipeline for any keys, any number of workers and messages *)
(* and any limits: where a message whose fate is open can be, and that the *)
(* pipeline implements Outbox.                                             *)
(***************************************************************************)
EXTENDS MailPipeline, FiniteSetTheorems, TLAPS

Ids(mail) == ToSet(mail.msgs)

(* The four places where message m may be. *)
Batched(m) == \E k \in Key : \E i \in DOMAIN alertQueue[k] : alertQueue[k][i] = m
Flushed(m) == \E mail \in flushing : m \in Ids(mail)
Queued(m)  == \E i \in DOMAIN queue : m \in Ids(queue[i])
InHands(w, m) == worker[w].at = "sending" /\ m \in Ids(worker[w].mail)
Sending(m) == \E w \in Worker : InHands(w, m)

Held(m) == Batched(m) \/ Flushed(m) \/ Queued(m) \/ Sending(m)

-----------------------------------------------------------------------------
(* The inductive invariant. *)
Slot == [at : {"idle", "sending", "exited"}, mail : Mail \cup {<<>>}, attempt : 0 .. MaxRetries]

PartsTyped ==
  /\ alertQueue \in [Key -> Seq(Nat)]
  /\ flushing \subseteq Mail
  /\ queue \in Seq(Mail) /\ Len(queue) <= QueueCap
  /\ worker \in [Worker -> Slot]
  /\ \A w \in Worker : worker[w].at = "sending" => /\ worker[w].mail \in Mail
                                                   /\ worker[w].attempt >= 1

ControlTyped ==
  /\ closed \in BOOLEAN /\ done \in BOOLEAN
  /\ main \in {"running", "stopping", "waiting", "stopped", "panicked"}
  /\ posted \in 0 .. MaxPosts /\ posting \in 0 .. posted

RecordTyped == fate \in Seq(Fates) /\ mails \in Seq(Nat) /\ Len(mails) = Len(fate)

(* b.timer is set exactly while one timer runs. *)
Timed ==
  /\ timer \in BOOLEAN
  /\ armed = IF timer THEN 1 ELSE 0
  /\ (\E k \in Key : alertQueue[k] # <<>>) => timer

Typed == PartsTyped /\ ControlTyped /\ RecordTyped /\ Timed

(* Each place holds a message once. *)
Once ==
  /\ \A k1, k2 \in Key : \A i \in DOMAIN alertQueue[k1], j \in DOMAIN alertQueue[k2] :
       alertQueue[k1][i] = alertQueue[k2][j] => k1 = k2 /\ i = j
  /\ \A a, b \in flushing : \A m \in Nat : m \in Ids(a) /\ m \in Ids(b) => a = b
  /\ \A i, j \in DOMAIN queue : \A m \in Nat : m \in Ids(queue[i]) /\ m \in Ids(queue[j]) => i = j
  /\ \A v, w \in Worker : \A m \in Nat : InHands(v, m) /\ InHands(w, m) => v = w

(* No two places hold it. *)
Apart ==
  \A m \in Nat : /\ ~(Batched(m) /\ Flushed(m)) /\ ~(Batched(m) /\ Queued(m))
                 /\ ~(Batched(m) /\ Sending(m)) /\ ~(Flushed(m) /\ Queued(m))
                 /\ ~(Flushed(m) /\ Sending(m)) /\ ~(Queued(m) /\ Sending(m))

(* What is held is open; what is open is held, unless a panic lost it. *)
Open == \A m \in Nat : Held(m) => m \in Msgs /\ fate[m] = "pending"

Kept == main # "panicked" => \A m \in Msgs : fate[m] = "pending" => Held(m)

(* No mail has gone out before a worker has the message, and then fewer    *)
(* than its attempts, the current one included.                            *)
Tried ==
  /\ \A m \in Msgs : Batched(m) \/ Flushed(m) \/ Queued(m) => mails[m] = 0
  /\ \A w \in Worker : \A m \in Msgs : InHands(w, m) => mails[m] < worker[w].attempt

Placed == Once /\ Apart /\ Open /\ Kept /\ Tried

-----------------------------------------------------------------------------
(* About the operators of the model. *)
LEMMA MinOfTwo ==
  ASSUME NEW a \in Int, NEW b \in Int
  PROVE  Min({a, b}) = IF a <= b THEN a ELSE b
<1> DEFINE x == IF a <= b THEN a ELSE b
<1> DEFINE S == {a, b}
<1> DEFINE P(z) == \A y \in S : z =< y
<1>1. x \in S /\ P(x)
  OBVIOUS
<1>2. \A z \in S : P(z) => z = x
  OBVIOUS
<1>3. Min(S) = CHOOSE z \in S : P(z)
  BY DEF Min
<1> HIDE DEF x, S, P
<1>4. (CHOOSE z \in S : P(z)) \in S /\ P(CHOOSE z \in S : P(z))
  BY <1>1, Zenon
<1>5. Min(S) = x
  BY <1>2, <1>3, <1>4
<1> QED
  BY <1>5 DEF x, S

LEMMA Prefix ==
  ASSUME NEW s \in Seq(Nat), NEW n \in Nat, n <= Len(s)
  PROVE  /\ SubSeq(s, 1, n) \in Seq(Nat)
         /\ DOMAIN SubSeq(s, 1, n) = 1 .. n
         /\ \A i \in 1 .. n : SubSeq(s, 1, n)[i] = s[i]
OBVIOUS

LEMMA FirstOf ==
  ASSUME NEW s \in Seq(Nat), NEW b \in Nat
  PROVE  /\ SubSeq(s, 1, Min({b, Len(s)})) \in Seq(Nat)
         /\ \A x : x \in ToSet(SubSeq(s, 1, Min({b, Len(s)})))
                     <=> \E i \in DOMAIN s : i <= b /\ s[i] = x
<1>1. PICK n \in Nat : n = Min({b, Len(s)}) /\ n = IF b <= Len(s) THEN b ELSE Len(s)
  BY MinOfTwo
<1>2. /\ SubSeq(s, 1, n) \in Seq(Nat)
      /\ DOMAIN SubSeq(s, 1, n) = 1 .. n
      /\ \A i \in 1 .. n : SubSeq(s, 1, n)[i] = s[i]
  <2>1. n <= Len(s)
    BY <1>1
  <2> QED
    BY <2>1, Prefix
<1>3. 1 .. n = {i \in DOMAIN s : i <= b}
  BY <1>1
<1>4. ToSet(SubSeq(s, 1, n)) = {s[i] : i \in {i \in DOMAIN s : i <= b}}
  BY <1>2, <1>3 DEF ToSet
<1> QED
  BY <1>1, <1>2, <1>4

LEMMA RestOf ==
  ASSUME NEW s \in Seq(Nat), NEW b \in Nat
  PROVE  \A x : x \in ToSet(SubSeq(s, b + 1, Len(s)))
                  <=> \E i \in DOMAIN s : i > b /\ s[i] = x
<1>1. CASE b <= Len(s)
  <2>1. /\ DOMAIN SubSeq(s, b + 1, Len(s)) = 1 .. Len(s) - b
        /\ \A i \in 1 .. Len(s) - b : SubSeq(s, b + 1, Len(s))[i] = s[b + i]
    BY <1>1
  <2>2. ToSet(SubSeq(s, b + 1, Len(s))) = {s[b + i] : i \in 1 .. Len(s) - b}
    BY <2>1 DEF ToSet
  <2>3. \A i \in DOMAIN s : i > b => i - b \in 1 .. Len(s) - b /\ b + (i - b) = i
    BY <1>1
  <2>4. \A i \in 1 .. Len(s) - b : b + i \in DOMAIN s /\ b + i > b
    BY <1>1
  <2> QED
    BY <2>2, <2>3, <2>4
<1>2. CASE b > Len(s)
  <2>1. DOMAIN SubSeq(s, b + 1, Len(s)) = {}
    BY <1>2
  <2>2. \A i \in DOMAIN s : ~(i > b)
    BY <1>2
  <2> QED
    BY <2>1, <2>2 DEF ToSet
<1> QED
  BY <1>1, <1>2

LEMMA MembersAreNumbers ==
  ASSUME NEW mail \in Mail
  PROVE  Ids(mail) \subseteq Nat
<1>1. mail.msgs \in Seq(Nat)
  BY DEF Mail
<1> QED
  BY <1>1 DEF Ids, ToSet

(* A flush splits what is collected under a key: the first BatchLimit      *)
(* messages are in the mail of the key, the others are omitted.            *)
LEMMA MailHasFirst ==
  ASSUME MailAssumption, PartsTyped, NEW k \in Key
  PROVE  /\ MailOf(k) \in Mail
         /\ MailOf(k).key = k
         /\ \A m : m \in Ids(MailOf(k)) <=>
                     \E i \in DOMAIN alertQueue[k] : i <= BatchLimit /\ alertQueue[k][i] = m
<1>1. alertQueue[k] \in Seq(Nat) /\ BatchLimit \in Nat
  BY DEF PartsTyped, MailAssumption
<1> DEFINE t == SubSeq(alertQueue[k], 1, Min({BatchLimit, Len(alertQueue[k])}))
<1>2. /\ t \in Seq(Nat)
      /\ \A m : m \in ToSet(t) <=> \E i \in DOMAIN alertQueue[k] : i <= BatchLimit /\ alertQueue[k][i] = m
  BY <1>1, FirstOf
<1>3. MailOf(k) = [key |-> k, msgs |-> t]
  BY DEF MailOf
<1> HIDE DEF t
<1>4. MailOf(k) \in Mail /\ MailOf(k).key = k /\ MailOf(k).msgs = t
  BY <1>2, <1>3 DEF Mail
<1> QED
  BY <1>2, <1>4 DEF Ids

LEMMA OmittedAreRest ==
  ASSUME MailAssumption, PartsTyped
  PROVE  \A m : m \in Omitted <=>
           \E k \in Key : \E i \in DOMAIN alertQueue[k] : i > BatchLimit /\ alertQueue[k][i] = m
<1>1. \A k \in Key : alertQueue[k] \in Seq(Nat) /\ BatchLimit \in Nat
  BY DEF PartsTyped, MailAssumption
<1>2. \A m : m \in Omitted <=>
        \E k \in Key : m \in ToSet(SubSeq(alertQueue[k], BatchLimit + 1, Len(alertQueue[k])))
  BY DEF Omitted
<1>3. \A k \in Key : \A m : m \in ToSet(SubSeq(alertQueue[k], BatchLimit + 1, Len(alertQueue[k])))
                          <=> \E i \in DOMAIN alertQueue[k] : i > BatchLimit /\ alertQueue[k][i] = m
  <2> TAKE k \in Key
  <2>1. PICK s \in Seq(Nat) : s = alertQueue[k]
    BY <1>1
  <2>2. PICK b \in Nat : b = BatchLimit
    BY DEF MailAssumption
  <2> QED
    BY <2>1, <2>2, RestOf
<1> QED
  BY <1>2, <1>3, Zenon

LEMMA DecideDecides ==
  ASSUME fate \in Seq(Fates), NEW ids, NEW f \in Fates, Decide(ids, f)
  PROVE  /\ fate' \in Seq(Fates) /\ Len(fate') = Len(fate) /\ DOMAIN fate' = Msgs
         /\ \A m \in Msgs : fate'[m] = IF m \in ids THEN f ELSE fate[m]
<1>1. PICK n \in Nat : n = Len(fate) /\ Msgs = 1 .. n
  BY DEF Msgs
<1>2. \A m \in Msgs : (IF m \in ids THEN f ELSE fate[m]) \in Fates
  BY DEF Msgs
<1>3. fate' = [m \in Msgs |-> IF m \in ids THEN f ELSE fate[m]]
  BY DEF Decide
<1>4. fate' \in [1 .. n -> Fates]
  BY <1>1, <1>2, <1>3
<1>5. fate' \in Seq(Fates) /\ Len(fate') = n
  BY <1>4
<1> QED
  BY <1>1, <1>3, <1>5

-----------------------------------------------------------------------------
(* The types: what each action does to them. *)
LEMMA MailTypedInit == ASSUME MailAssumption, Init PROVE Typed
<1>1. PartsTyped
  <2>1. Idle \in Slot /\ Idle.at = "idle"
    BY DEF MailAssumption, Idle, Slot
  <2>2. alertQueue \in [Key -> Seq(Nat)] /\ flushing \subseteq Mail
    BY DEF Init
  <2>3. queue \in Seq(Mail) /\ Len(queue) <= QueueCap
    BY DEF Init, MailAssumption
  <2> QED
    BY <2>1, <2>2, <2>3 DEF Init, PartsTyped
<1>2. ControlTyped
  <2>1. posted \in 0 .. MaxPosts /\ posting \in 0 .. posted
    BY DEF Init, MailAssumption
  <2> QED
    BY <2>1 DEF Init, ControlTyped
<1>3. RecordTyped
  BY DEF Init, RecordTyped
<1>4. Timed
  BY DEF Init, Timed
<1> QED
  BY <1>1, <1>2, <1>3, <1>4 DEF Typed

LEMMA SendEmailTyped ==
  ASSUME MailAssumption, Typed, NEW k \in Key, SendEmail(k) PROVE Typed'
<1>1. PartsTyped'
  <2>1. Len(fate) + 1 \in Nat
    BY DEF Typed, RecordTyped
  <2>2. alertQueue[k] \in Seq(Nat)
    BY DEF Typed, PartsTyped
  <2>3. Append(alertQueue[k], Len(fate) + 1) \in Seq(Nat)
    BY <2>1, <2>2
  <2>4. alertQueue' \in [Key -> Seq(Nat)]
    BY <2>3 DEF SendEmail, Typed, PartsTyped
  <2> QED
    BY <2>4 DEF SendEmail, Typed, PartsTyped
<1>2. ControlTyped'
  BY DEF SendEmail, Typed, ControlTyped, postVars
<1>3. RecordTyped'
  BY DEF SendEmail, Typed, RecordTyped, Fates
<1>4. Timed'
  BY DEF SendEmail, Typed, Timed
<1> QED
  BY <1>1, <1>2, <1>3, <1>4 DEF Typed

LEMMA FlushTyped == ASSUME MailAssumption, Typed, Flush PROVE Typed'
<1>1. PartsTyped'
  <2>1. {MailOf(k) : k \in {x \in Key : alertQueue[x] # <<>>}} \subseteq Mail
    BY MailHasFirst DEF Typed
  <2>2. alertQueue' \in [Key -> Seq(Nat)]
    BY DEF Flush, TakeBatch
  <2> QED
    BY <2>1, <2>2 DEF Flush, Typed, PartsTyped
<1>2. ControlTyped'
  BY DEF Flush, Typed, ControlTyped, postVars
<1>3. RecordTyped'
  <2>1. "omitted" \in Fates
    BY DEF Fates
  <2> QED
    BY <2>1, DecideDecides DEF Flush, Typed, RecordTyped
<1>4. Timed'
  <2>1. timer' = FALSE /\ alertQueue' = [k \in Key |-> <<>>]
    BY DEF Flush, TakeBatch
  <2>2. armed' = 0
    BY DEF Flush, Typed, Timed
  <2> QED
    BY <2>1, <2>2 DEF Timed
<1> QED
  BY <1>1, <1>2, <1>3, <1>4 DEF Typed

LEMMA EnqueueTyped ==
  ASSUME MailAssumption, Typed, NEW mail \in flushing, Enqueue(mail) PROVE Typed'
<1>1. PartsTyped'
  <2>1. mail \in Mail /\ queue \in Seq(Mail) /\ QueueCap \in Nat
    BY DEF Typed, PartsTyped, MailAssumption
  <2>2. Append(queue, mail) \in Seq(Mail) /\ Len(Append(queue, mail)) = Len(queue) + 1
    BY <2>1
  <2>3. queue' \in Seq(Mail) /\ Len(queue') <= QueueCap
    BY <2>1, <2>2 DEF Enqueue, Typed, PartsTyped
  <2> QED
    BY <2>3 DEF Enqueue, Typed, PartsTyped
<1>2. ControlTyped'
  BY DEF Enqueue, Typed, ControlTyped, postVars
<1>3. RecordTyped'
  <2>1. "dropped" \in Fates
    BY DEF Fates
  <2>2. \/ UNCHANGED <<fate, mails>>
        \/ Decide(ToSet(mail.msgs), "dropped") /\ UNCHANGED mails
    BY DEF Enqueue
  <2> QED
    BY <2>1, <2>2, DecideDecides DEF Typed, RecordTyped
<1>4. Timed'
  BY DEF Enqueue, Typed, Timed
<1> QED
  BY <1>1, <1>2, <1>3, <1>4 DEF Typed

LEMMA TakeMailTyped ==
  ASSUME MailAssumption, Typed, NEW w \in Worker, TakeMail(w) PROVE Typed'
<1>1. PartsTyped'
  <2>1. /\ queue \in Seq(Mail) /\ Len(queue) <= QueueCap /\ queue # <<>>
        /\ QueueCap \in Nat /\ MaxRetries \in Nat /\ MaxRetries >= 1
    BY DEF TakeMail, Typed, PartsTyped, MailAssumption
  <2>2. /\ Tail(queue) \in Seq(Mail) /\ Len(Tail(queue)) <= QueueCap
        /\ Head(queue) \in Mail
    BY <2>1
  <2> DEFINE slot == [at |-> "sending", mail |-> Head(queue), attempt |-> 1]
  <2>3. slot \in Slot /\ slot.mail \in Mail /\ slot.attempt = 1
    BY <2>1, <2>2 DEF Slot
  <2>4. worker' = [worker EXCEPT ![w] = slot] /\ worker \in [Worker -> Slot]
    BY DEF TakeMail, Typed, PartsTyped
  <2> HIDE DEF slot
  <2>5. worker' \in [Worker -> Slot]
    BY <2>3, <2>4
  <2>6. \A v \in Worker : worker'[v] = IF v = w THEN slot ELSE worker[v]
    BY <2>4
  <2>7. \A v \in Worker : worker'[v].at = "sending" => /\ worker'[v].mail \in Mail
                                                       /\ worker'[v].attempt >= 1
    BY <2>3, <2>6 DEF Typed, PartsTyped
  <2> QED
    BY <2>2, <2>5, <2>7 DEF TakeMail, Typed, PartsTyped
<1>2. ControlTyped' /\ RecordTyped' /\ Timed'
  BY DEF TakeMail, Typed, ControlTyped, RecordTyped, Timed, postVars
<1> QED
  BY <1>1, <1>2 DEF Typed

LEMMA ExitWorkerTyped ==
  ASSUME MailAssumption, Typed, NEW w \in Worker, ExitWorker(w) PROVE Typed'
<1>1. PartsTyped'
  <2>1. worker \in [Worker -> Slot] /\ worker' = [worker EXCEPT ![w].at = "exited"]
    BY DEF ExitWorker, Typed, PartsTyped
  <2>2. [worker[w] EXCEPT !.at = "exited"] \in Slot
    BY <2>1 DEF Slot
  <2>3. worker' \in [Worker -> Slot]
    BY <2>1, <2>2
  <2>4. \A v \in Worker : worker'[v].at = "sending" => worker'[v] = worker[v]
    BY <2>1 DEF Slot
  <2> QED
    BY <2>3, <2>4 DEF ExitWorker, Typed, PartsTyped
<1>2. ControlTyped' /\ RecordTyped' /\ Timed'
  BY DEF ExitWorker, Typed, ControlTyped, RecordTyped, Timed, postVars
<1> QED
  BY <1>1, <1>2 DEF Typed

(* The three outcomes of an attempt for the worker. *)
LEMMA AttemptOutcome ==
  ASSUME MailAssumption, Typed, NEW w \in Worker, SendAttempt(w)
  PROVE  /\ worker[w].at = "sending"
         /\ \/ /\ worker' = [worker EXCEPT ![w] = Idle]
               /\ \E f \in {"delivered", "exhausted"} : Decide(Ids(worker[w].mail), f)
            \/ /\ worker' = [worker EXCEPT ![w].attempt = worker[w].attempt + 1]
               /\ worker[w].attempt < MaxRetries
               /\ UNCHANGED fate
         /\ \/ mails' = [m \in Msgs |-> IF m \in Ids(worker[w].mail) THEN mails[m] + 1 ELSE mails[m]]
            \/ /\ mails' = mails
               /\ Decide(Ids(worker[w].mail), "exhausted") \/ UNCHANGED fate
         /\ UNCHANGED <<alertQueue, timer, armed, flushing, queue, closed, done, main, postVars>>
<1>1. worker[w].attempt \in Int /\ MaxRetries \in Int
  BY DEF Typed, PartsTyped, Slot, MailAssumption
<1>2. worker[w].attempt >= MaxRetries \/ worker[w].attempt < MaxRetries
  BY <1>1
<1> QED
  BY <1>2 DEF SendAttempt, LastAttempt, Ids

LEMMA SendAttemptTyped ==
  ASSUME MailAssumption, Typed, NEW w \in Worker, SendAttempt(w) PROVE Typed'
<1>1. PartsTyped'
  <2>1. worker \in [Worker -> Slot] /\ worker[w] \in Slot /\ worker[w].at = "sending"
    BY AttemptOutcome DEF Typed, PartsTyped
  <2>2. CASE worker' = [worker EXCEPT ![w] = Idle]
    <3>1. Idle \in Slot /\ Idle.at = "idle"
      BY DEF MailAssumption, Idle, Slot
    <3>2. \A v \in Worker : worker'[v] = IF v = w THEN Idle ELSE worker[v]
      BY <2>1, <2>2
    <3>3. worker' \in [Worker -> Slot]
      BY <2>1, <2>2, <3>1
    <3> QED
      BY <3>1, <3>2, <3>3, AttemptOutcome DEF Typed, PartsTyped
  <2>3. CASE /\ worker' = [worker EXCEPT ![w].attempt = worker[w].attempt + 1]
             /\ worker[w].attempt < MaxRetries
    <3> DEFINE slot == [worker[w] EXCEPT !.attempt = worker[w].attempt + 1]
    <3>1. /\ slot \in Slot /\ slot.mail = worker[w].mail
          /\ slot.attempt = worker[w].attempt + 1 /\ slot.attempt >= 1
      BY <2>1, <2>3 DEF Slot, MailAssumption
    <3>2. worker' = [worker EXCEPT ![w] = slot]
      BY <2>1, <2>3
    <3> HIDE DEF slot
    <3>3. worker' \in [Worker -> Slot]
      BY <2>1, <3>1, <3>2
    <3>4. \A v \in Worker : worker'[v] = IF v = w THEN slot ELSE worker[v]
      BY <2>1, <3>2
    <3>5. \A v \in Worker : worker'[v].at = "sending" => /\ worker'[v].mail \in Mail
                                                         /\ worker'[v].attempt >= 1
      BY <2>1, <3>1, <3>4 DEF Typed, PartsTyped
    <3> QED
      BY <3>3, <3>5, AttemptOutcome DEF Typed, PartsTyped
  <2> QED
    BY <2>2, <2>3, AttemptOutcome
<1>2. ControlTyped' /\ Timed'
  BY AttemptOutcome DEF Typed, ControlTyped, Timed, postVars
<1>3. RecordTyped'
  <2>1. {"delivered", "exhausted"} \subseteq Fates
    BY DEF Fates
  <2>2. fate' \in Seq(Fates) /\ Len(fate') = Len(fate)
    BY <2>1, AttemptOutcome, DecideDecides DEF Typed, RecordTyped
  <2>3. PICK n \in Nat : n = Len(fate) /\ Len(mails) = n /\ Msgs = 1 .. n /\ mails \in [1 .. n -> Nat]
    BY DEF Typed, RecordTyped, Msgs
  <2>4. mails' \in [1 .. n -> Nat]
    BY <2>3, AttemptOutcome
  <2>5. mails' \in Seq(Nat) /\ Len(mails') = n
    BY <2>4
  <2> QED
    BY <2>2, <2>3, <2>5 DEF RecordTyped
<1> QED
  BY <1>1, <1>2, <1>3 DEF Typed

(* The other steps leave the mails and their places alone. *)
Elsewhere == SendTelegram \/ PostEnds \/ Signal \/ CloseQueue \/ WorkersGone \/ UNCHANGED vars

LEMMA ElsewhereTyped == ASSUME MailAssumption, Typed, Elsewhere PROVE Typed'
<1>1. UNCHANGED <<alertQueue, timer, armed, flushing, queue, worker, fate, mails>>
  BY DEF Elsewhere, SendTelegram, PostEnds, Signal, CloseQueue, WorkersGone, vars, mailVars
<1>2. PartsTyped' /\ RecordTyped' /\ Timed'
  BY <1>1 DEF Typed, PartsTyped, RecordTyped, Timed
<1>3. closed' \in BOOLEAN /\ done' \in BOOLEAN
  BY Zenon DEF Elsewhere, SendTelegram, PostEnds, Signal, CloseQueue, WorkersGone, vars, mailVars,
         postVars, Typed, ControlTyped, MailAssumption
<1>4. main' \in {"running", "stopping", "waiting", "stopped", "panicked"}
  BY DEF Elsewhere, SendTelegram, PostEnds, Signal, CloseQueue, WorkersGone, vars, mailVars,
         Typed, ControlTyped
<1>5. posted' \in 0 .. MaxPosts /\ posting' \in 0 .. posted'
  BY DEF Elsewhere, SendTelegram, PostEnds, Signal, CloseQueue, WorkersGone, vars, postVars,
         Typed, ControlTyped, MailAssumption
<1>6. ControlTyped'
  BY <1>3, <1>4, <1>5 DEF ControlTyped
<1> QED
  BY <1>2, <1>6 DEF Typed

LEMMA MailTypedNext == ASSUME MailAssumption, Typed, [Next]_vars PROVE Typed'
<1> QED
  BY SendEmailTyped, FlushTyped, EnqueueTyped, TakeMailTyped, ExitWorkerTyped,
     SendAttemptTyped, ElsewhereTyped DEF Next, Elsewhere

-----------------------------------------------------------------------------
(* The places: where each action moves the messages. *)
LEMMA MailPlacedInit == ASSUME MailAssumption, Init PROVE Placed
<1>1. Msgs = {} /\ \A w \in Worker : worker[w].at = "idle"
  BY DEF Init, Msgs, Idle
<1>2. \A m : ~Held(m) /\ ~Batched(m) /\ ~Flushed(m) /\ ~Queued(m) /\ ~Sending(m)
  BY <1>1 DEF Init, Held, Batched, Flushed, Queued, Sending, InHands
<1>3. Once
  BY <1>1 DEF Init, Once, InHands
<1> QED
  BY <1>1, <1>2, <1>3 DEF Placed, Apart, Open, Kept, Tried

LEMMA SendEmailPlaces ==
  ASSUME MailAssumption, Typed, Placed, NEW k \in Key, SendEmail(k) PROVE Placed'
<1>1. PICK n \in Nat : n = Len(fate) + 1
  BY DEF Typed, RecordTyped
<1>2. /\ n \notin Msgs /\ Msgs' = Msgs \cup {n} /\ Msgs \subseteq Nat
      /\ fate'[n] = "pending" /\ \A m \in Msgs : fate'[m] = fate[m]
      /\ mails'[n] = 0 /\ \A m \in Msgs : mails'[m] = mails[m]
  BY <1>1 DEF SendEmail, Typed, RecordTyped, Msgs
<1>3. ~Held(n)
  BY <1>2 DEF Placed, Open
<1>4. UNCHANGED <<flushing, queue, worker, main>>
  BY DEF SendEmail
<1>5. /\ \A m : Flushed(m)' <=> Flushed(m)
      /\ \A m : Queued(m)' <=> Queued(m)
      /\ \A m : Sending(m)' <=> Sending(m)
      /\ \A w \in Worker : \A m : InHands(w, m)' <=> InHands(w, m)
  BY <1>4 DEF Flushed, Queued, Sending, InHands
<1>6. PICK l \in Nat : l = Len(alertQueue[k]) + 1
  BY DEF Typed, PartsTyped
<1>7. /\ l \notin DOMAIN alertQueue[k] /\ DOMAIN alertQueue'[k] = DOMAIN alertQueue[k] \cup {l}
      /\ alertQueue'[k][l] = n
      /\ \A i \in DOMAIN alertQueue[k] : alertQueue'[k][i] = alertQueue[k][i]
      /\ \A j \in Key : j # k => alertQueue'[j] = alertQueue[j]
  <2>1. alertQueue[k] \in Seq(Nat) /\ alertQueue'[k] = Append(alertQueue[k], n)
    BY <1>1 DEF SendEmail, Typed, PartsTyped
  <2>2. \A j \in Key : j # k => alertQueue'[j] = alertQueue[j]
    BY DEF SendEmail, Typed, PartsTyped
  <2> QED
    BY <1>6, <2>1, <2>2
<1>8. \A m : Batched(m)' <=> Batched(m) \/ m = n
  BY <1>7 DEF Batched
<1>9. Once'
  <2>1. \A j \in Key : \A i \in DOMAIN alertQueue[j] : alertQueue[j][i] # n
    BY <1>3 DEF Held, Batched
  <2>2. ASSUME NEW k1 \in Key, NEW k2 \in Key,
               NEW i \in DOMAIN alertQueue'[k1], NEW j \in DOMAIN alertQueue'[k2],
               alertQueue'[k1][i] = alertQueue'[k2][j]
        PROVE  k1 = k2 /\ i = j
    BY <1>7, <2>1, <2>2 DEF Placed, Once
  <2> QED
    BY <1>4, <1>5, <2>2 DEF Placed, Once
<1>10. Apart' /\ Open' /\ Kept'
  BY <1>2, <1>3, <1>4, <1>5, <1>8 DEF Placed, Apart, Open, Kept, Held
<1>11. Tried'
  <2>1. UNCHANGED worker
    BY <1>4
  <2>2. \A w \in Worker : ~InHands(w, n)
    BY <1>3 DEF Held, Sending
  <2> QED
    BY <1>2, <1>3, <1>5, <1>8, <2>1, <2>2 DEF Placed, Tried, Held
<1> QED
  BY <1>9, <1>10, <1>11 DEF Placed

LEMMA FlushPlaces ==
  ASSUME MailAssumption, Typed, Placed, Flush PROVE Placed'
<1> DEFINE First(m) == \E k \in Key : m \in Ids(MailOf(k))
<1>1. /\ \A k \in Key : \A m : m \in Ids(MailOf(k)) <=>
           \E i \in DOMAIN alertQueue[k] : i <= BatchLimit /\ alertQueue[k][i] = m
      /\ \A k \in Key : MailOf(k).key = k
  BY MailHasFirst DEF Typed
<1>2. \A m : m \in Omitted <=>
        \E k \in Key : \E i \in DOMAIN alertQueue[k] : i > BatchLimit /\ alertQueue[k][i] = m
  BY OmittedAreRest DEF Typed
<1>3. \A m : Batched(m) <=> First(m) \/ m \in Omitted
  <2>1. \A k \in Key : \A i \in DOMAIN alertQueue[k] : i <= BatchLimit \/ i > BatchLimit
    BY DEF Typed, PartsTyped, MailAssumption
  <2> QED
    BY <1>1, <1>2, <2>1 DEF Batched
<1>4. \A m : ~(First(m) /\ m \in Omitted)
  <2>1. \A k \in Key : \A i \in DOMAIN alertQueue[k] : ~(i <= BatchLimit /\ i > BatchLimit)
    BY DEF Typed, PartsTyped, MailAssumption
  <2> QED
    BY <1>1, <1>2, <2>1 DEF Placed, Once
<1>5. \A j, k \in Key : \A m : m \in Ids(MailOf(j)) /\ m \in Ids(MailOf(k)) => j = k
  BY <1>1 DEF Placed, Once
<1>6. \A k \in Key : \A m : m \in Ids(MailOf(k)) => alertQueue[k] # <<>>
  BY <1>1
<1>7. /\ UNCHANGED <<queue, worker, main, mails>>
      /\ alertQueue' = [k \in Key |-> <<>>]
      /\ flushing' = flushing \cup {MailOf(k) : k \in {x \in Key : alertQueue[x] # <<>>}}
  BY DEF Flush, TakeBatch
<1>8. /\ Msgs' = Msgs /\ Msgs \subseteq Nat
      /\ \A m \in Msgs : fate'[m] = IF m \in Omitted THEN "omitted" ELSE fate[m]
  BY DecideDecides DEF Flush, Typed, RecordTyped, Fates, Msgs
<1>9. /\ \A m : Queued(m)' <=> Queued(m)
      /\ \A m : Sending(m)' <=> Sending(m)
      /\ \A w \in Worker : \A m : InHands(w, m)' <=> InHands(w, m)
  BY <1>7 DEF Queued, Sending, InHands
<1>10. /\ \A m : ~Batched(m)'
       /\ \A m : Flushed(m)' <=> Flushed(m) \/ First(m)
  BY <1>6, <1>7 DEF Batched, Flushed
<1>11. Once'
  <2>1. \A m : m \in Nat /\ First(m) => ~Flushed(m)
    BY <1>3 DEF Placed, Apart
  <2>2. \A a, b \in flushing' : \A m \in Nat : m \in Ids(a) /\ m \in Ids(b) => a = b
    BY <1>5, <1>7, <2>1 DEF Placed, Once, Flushed
  <2>3. \A k \in Key : DOMAIN alertQueue'[k] = {}
    BY <1>7
  <2> QED
    BY <1>7, <1>9, <2>2, <2>3 DEF Placed, Once
<1>12. Apart'
  BY <1>3, <1>9, <1>10 DEF Placed, Apart
<1>13. \A m \in Nat : Held(m)' <=> Held(m) /\ m \notin Omitted
  BY <1>3, <1>4, <1>9, <1>10 DEF Held, Placed, Apart
<1>14. Open'
  BY <1>8, <1>13 DEF Placed, Open
<1>15. Kept'
  BY <1>7, <1>8, <1>13 DEF Placed, Kept
<1>16. Tried'
  BY <1>3, <1>7, <1>8, <1>9, <1>10 DEF Placed, Tried
<1> QED
  BY <1>11, <1>12, <1>14, <1>15, <1>16 DEF Placed

LEMMA EnqueuePlaces ==
  ASSUME MailAssumption, Typed, Placed, NEW mail \in flushing, Enqueue(mail) PROVE Placed'
<1>1. /\ flushing' = flushing \ {mail}
      /\ UNCHANGED <<alertQueue, worker, mails>>
  BY DEF Enqueue
<1>2. /\ \A m : Batched(m)' <=> Batched(m)
      /\ \A m : Sending(m)' <=> Sending(m)
      /\ \A w \in Worker : \A m : InHands(w, m)' <=> InHands(w, m)
  BY <1>1 DEF Batched, Sending, InHands
<1>3. \A m \in Nat : Flushed(m)' <=> Flushed(m) /\ m \notin Ids(mail)
  BY <1>1 DEF Flushed, Placed, Once
<1>4. \A m : m \in Ids(mail) => Flushed(m)
  BY DEF Flushed
<1>5. Msgs \subseteq Nat
  BY DEF Typed, RecordTyped, Msgs
<1>6. CASE queue' = Append(queue, mail) /\ UNCHANGED <<main, fate>>
  <2>1. PICK l \in Nat : l = Len(queue) + 1
    BY DEF Typed, PartsTyped
  <2>2. /\ l \notin DOMAIN queue /\ DOMAIN queue' = DOMAIN queue \cup {l}
        /\ queue'[l] = mail /\ \A i \in DOMAIN queue : queue'[i] = queue[i]
    <3>1. queue \in Seq(Mail) /\ mail \in Mail
      BY DEF Typed, PartsTyped
    <3> QED
      BY <1>6, <2>1, <3>1
  <2>3. \A m : Queued(m)' <=> Queued(m) \/ m \in Ids(mail)
    BY <2>2 DEF Queued
  <2>4. Once'
    <3>1. \A m \in Nat : m \in Ids(mail) => \A i \in DOMAIN queue : m \notin Ids(queue[i])
      BY <1>4 DEF Placed, Apart, Queued
    <3>2. \A i, j \in DOMAIN queue' : \A m \in Nat :
            m \in Ids(queue'[i]) /\ m \in Ids(queue'[j]) => i = j
      BY <2>2, <3>1 DEF Placed, Once
    <3>3. \A a, b \in flushing' : \A m \in Nat : m \in Ids(a) /\ m \in Ids(b) => a = b
      BY <1>1 DEF Placed, Once
    <3> QED
      BY <1>1, <1>2, <3>2, <3>3 DEF Placed, Once
  <2>5. \A m \in Nat : Held(m)' <=> Held(m)
    BY <1>2, <1>3, <1>4, <2>3 DEF Held
  <2>6. Msgs' = Msgs /\ fate' = fate /\ main' = main
    BY <1>6 DEF Msgs
  <2>7. Apart'
    BY <1>2, <1>3, <1>4, <2>3 DEF Placed, Apart
  <2>8. Open' /\ Kept'
    BY <1>5, <2>5, <2>6 DEF Placed, Open, Kept
  <2>9. Tried'
    BY <1>1, <1>2, <1>3, <1>4, <1>5, <2>3, <2>6 DEF Placed, Tried
  <2> QED
    BY <2>4, <2>7, <2>8, <2>9 DEF Placed
<1>7. CASE queue' = queue /\ main' = main /\ Decide(Ids(mail), "dropped")
  <2>1. /\ Msgs' = Msgs
        /\ \A m \in Msgs : fate'[m] = IF m \in Ids(mail) THEN "dropped" ELSE fate[m]
    BY <1>7, DecideDecides DEF Typed, RecordTyped, Fates, Msgs
  <2>2. \A m : Queued(m)' <=> Queued(m)
    BY <1>7 DEF Queued
  <2>3. Once'
    BY <1>1, <1>2, <1>7 DEF Placed, Once
  <2>4. Apart'
    BY <1>2, <1>3, <2>2 DEF Placed, Apart
  <2>5. \A m \in Nat : Held(m)' <=> Held(m) /\ m \notin Ids(mail)
    BY <1>2, <1>3, <1>4, <2>2 DEF Held, Placed, Apart
  <2>6. Open' /\ Kept'
    BY <1>5, <1>7, <2>1, <2>5 DEF Placed, Open, Kept
  <2>7. Tried'
    BY <1>1, <1>2, <1>3, <1>5, <2>1, <2>2 DEF Placed, Tried
  <2> QED
    BY <2>3, <2>4, <2>6, <2>7 DEF Placed
<1>8. CASE main' = "panicked" /\ UNCHANGED <<queue, fate>>
  <2>1. Msgs' = Msgs /\ fate' = fate
    BY <1>8 DEF Msgs
  <2>2. \A m : Queued(m)' <=> Queued(m)
    BY <1>8 DEF Queued
  <2>3. Once'
    BY <1>1, <1>2, <1>8 DEF Placed, Once
  <2>4. Apart'
    BY <1>2, <1>3, <2>2 DEF Placed, Apart
  <2>5. \A m \in Nat : Held(m)' => Held(m)
    BY <1>2, <1>3, <2>2 DEF Held
  <2>6. Open' /\ Kept'
    BY <1>8, <2>1, <2>5 DEF Placed, Open, Kept
  <2>7. Tried'
    BY <1>1, <1>2, <1>3, <1>5, <2>1, <2>2 DEF Placed, Tried
  <2> QED
    BY <2>3, <2>4, <2>6, <2>7 DEF Placed
<1> QED
  BY <1>6, <1>7, <1>8 DEF Enqueue, Ids

LEMMA TakeMailPlaces ==
  ASSUME MailAssumption, Typed, Placed, NEW w \in Worker, TakeMail(w) PROVE Placed'
<1>1. PICK l \in Nat : l = Len(queue)
  BY DEF Typed, PartsTyped
<1>2. /\ DOMAIN queue = 1 .. l /\ l >= 1 /\ DOMAIN queue' = 1 .. l - 1
      /\ \A i \in 1 .. l - 1 : queue'[i] = queue[i + 1]
      /\ Head(queue) = queue[1]
  BY <1>1 DEF TakeMail, Typed, PartsTyped
<1>3. /\ worker[w].at = "idle"
      /\ worker'[w].at = "sending" /\ worker'[w].mail = queue[1] /\ worker'[w].attempt = 1
      /\ \A v \in Worker : v # w => worker'[v] = worker[v]
  BY <1>2 DEF TakeMail, Typed, PartsTyped
<1>4. /\ UNCHANGED <<alertQueue, flushing, main, fate, mails>>
      /\ Msgs' = Msgs /\ Msgs \subseteq Nat
  BY DEF TakeMail, Typed, RecordTyped, Msgs
<1>5. /\ \A m : Batched(m)' <=> Batched(m)
      /\ \A m : Flushed(m)' <=> Flushed(m)
  BY <1>4 DEF Batched, Flushed
<1>6. /\ \A m : InHands(w, m)' <=> m \in Ids(queue[1])
      /\ \A m : ~InHands(w, m)
      /\ \A v \in Worker : v # w => \A m : InHands(v, m)' <=> InHands(v, m)
  BY <1>3 DEF InHands
<1>7. \A m : Sending(m)' <=> Sending(m) \/ m \in Ids(queue[1])
  BY <1>6 DEF Sending
<1>8. \A m : m \in Ids(queue[1]) => Queued(m)
  BY <1>2 DEF Queued
<1>9. \A m \in Nat : Queued(m)' <=> Queued(m) /\ m \notin Ids(queue[1])
  <2>1. \A i \in 1 .. l - 1 : i + 1 \in 1 .. l /\ i + 1 # 1
    BY <1>1
  <2>2. \A i \in 1 .. l : i # 1 => i - 1 \in 1 .. l - 1 /\ (i - 1) + 1 = i
    BY <1>1
  <2>3. \A i \in 2 .. l : \A m \in Nat : m \in Ids(queue[i]) => m \notin Ids(queue[1])
    BY <1>1, <1>2 DEF Placed, Once
  <2>4. \A m : Queued(m)' <=> \E i \in 2 .. l : m \in Ids(queue[i])
    <3>1. \A m : Queued(m)' <=> \E i \in 1 .. l - 1 : m \in Ids(queue[i + 1])
      BY <1>2 DEF Queued
    <3>2. \A i \in 2 .. l : i - 1 \in 1 .. l - 1 /\ (i - 1) + 1 = i
      BY <1>1
    <3>3. \A i \in 1 .. l - 1 : i + 1 \in 2 .. l
      BY <1>1
    <3> QED
      BY <3>1, <3>2, <3>3
  <2>5. \A m : Queued(m) <=> m \in Ids(queue[1]) \/ \E i \in 2 .. l : m \in Ids(queue[i])
    <3>1. 1 .. l = {1} \cup 2 .. l
      BY <1>2
    <3> QED
      BY <1>2, <3>1 DEF Queued
  <2> QED
    BY <2>3, <2>4, <2>5
<1>10. Once'
  <2>1. \A i, j \in DOMAIN queue' : \A m \in Nat :
          m \in Ids(queue'[i]) /\ m \in Ids(queue'[j]) => i = j
    <3>1. \A i \in 1 .. l - 1 : i + 1 \in DOMAIN queue /\ queue'[i] = queue[i + 1]
      BY <1>1, <1>2
    <3>2. \A i, j \in 1 .. l - 1 : i + 1 = j + 1 => i = j
      OBVIOUS
    <3>3. ASSUME NEW i \in 1 .. l - 1, NEW j \in 1 .. l - 1, NEW m \in Nat,
                 m \in Ids(queue'[i]), m \in Ids(queue'[j])
          PROVE  i = j
      <4>1. i + 1 = j + 1
        BY <3>1, <3>3 DEF Placed, Once
      <4> QED
        BY <3>2, <4>1
    <3> QED
      BY <1>2, <3>3
  <2>2. \A v, x \in Worker : \A m \in Nat : InHands(v, m)' /\ InHands(x, m)' => v = x
    <3>1. \A v \in Worker : \A m \in Nat : m \in Ids(queue[1]) => ~InHands(v, m)
      BY <1>8 DEF Placed, Apart, Sending
    <3> QED
      BY <1>6, <3>1 DEF Placed, Once
  <2> QED
    BY <1>4, <2>1, <2>2 DEF Placed, Once
<1>11. Apart'
  BY <1>5, <1>7, <1>8, <1>9 DEF Placed, Apart
<1>12. \A m \in Nat : Held(m)' <=> Held(m)
  BY <1>5, <1>7, <1>8, <1>9 DEF Held
<1>13. Open' /\ Kept'
  BY <1>4, <1>12 DEF Placed, Open, Kept
<1>14. Tried'
  <2>1. \A m \in Msgs : Batched(m)' \/ Flushed(m)' \/ Queued(m)' => mails[m] = 0
    BY <1>4, <1>5, <1>9 DEF Placed, Tried
  <2>2. \A v \in Worker : \A m \in Msgs : InHands(v, m)' => mails[m] < worker'[v].attempt
    <3>1. \A m \in Msgs : InHands(w, m)' => mails[m] < worker'[w].attempt
      BY <1>3, <1>6, <1>8 DEF Placed, Tried
    <3>2. \A v \in Worker : v # w => \A m \in Msgs : InHands(v, m)' => mails[m] < worker'[v].attempt
      BY <1>3, <1>6 DEF Placed, Tried
    <3> QED
      BY <3>1, <3>2
  <2> QED
    BY <1>4, <2>1, <2>2 DEF Tried
<1> QED
  BY <1>10, <1>11, <1>13, <1>14 DEF Placed

LEMMA SendAttemptPlaces ==
  ASSUME MailAssumption, Typed, Placed, NEW w \in Worker, SendAttempt(w) PROVE Placed'
<1> DEFINE ids == Ids(worker[w].mail)
<1>1. /\ worker[w].at = "sending"
      /\ UNCHANGED <<alertQueue, flushing, queue, main>>
      /\ Msgs \subseteq Nat /\ worker \in [Worker -> Slot]
  BY AttemptOutcome DEF Typed, PartsTyped, RecordTyped, Msgs
<1>2. /\ \A m : Batched(m)' <=> Batched(m)
      /\ \A m : Flushed(m)' <=> Flushed(m)
      /\ \A m : Queued(m)' <=> Queued(m)
      /\ \A m : InHands(w, m) <=> m \in ids
  BY <1>1 DEF Batched, Flushed, Queued, InHands
<1>3. \A m \in Msgs : /\ mails[m] \in Nat /\ mails'[m] \in Nat
                      /\ mails'[m] <= mails[m] + 1
                      /\ m \notin ids => mails'[m] = mails[m]
  <2>1. \A m \in Msgs : mails[m] \in Nat
    BY DEF Typed, RecordTyped, Msgs
  <2>2. CASE mails' = [m \in Msgs |-> IF m \in ids THEN mails[m] + 1 ELSE mails[m]]
    BY <2>1, <2>2
  <2>3. CASE mails' = mails
    BY <2>1, <2>3
  <2> QED
    BY <2>2, <2>3, AttemptOutcome
<1>4. \A m \in Nat : m \in ids => ~Batched(m) /\ ~Flushed(m) /\ ~Queued(m) /\ Sending(m)
  BY <1>2 DEF Placed, Apart, Sending
<1>5. CASE /\ worker' = [worker EXCEPT ![w] = Idle]
           /\ \E f \in {"delivered", "exhausted"} : Decide(ids, f)
  <2>1. PICK f \in {"delivered", "exhausted"} :
          Msgs' = Msgs /\ \A m \in Msgs : fate'[m] = IF m \in ids THEN f ELSE fate[m]
    BY <1>5, DecideDecides DEF Typed, RecordTyped, Fates, Msgs
  <2>2. /\ \A m : ~InHands(w, m)'
        /\ \A v \in Worker : v # w => worker'[v] = worker[v]
        /\ \A v \in Worker : v # w => \A m : InHands(v, m)' <=> InHands(v, m)
    BY <1>1, <1>5 DEF InHands, Idle
  <2>3. \A m \in Nat : Sending(m)' <=> Sending(m) /\ m \notin ids
    BY <1>2, <2>2 DEF Sending, Placed, Once
  <2>4. Once'
    BY <1>1, <2>2 DEF Placed, Once
  <2>5. Apart'
    BY <1>2, <2>3 DEF Placed, Apart
  <2>6. \A m \in Nat : Held(m)' <=> Held(m) /\ m \notin ids
    BY <1>2, <1>4, <2>3 DEF Held
  <2>7. Open' /\ Kept'
    BY <1>1, <2>1, <2>6 DEF Placed, Open, Kept
  <2>8. Tried'
    <3>1. \A m \in Msgs : Batched(m)' \/ Flushed(m)' \/ Queued(m)' => mails'[m] = 0
      BY <1>1, <1>2, <1>3, <1>4 DEF Placed, Tried
    <3>2. \A v \in Worker : v # w => \A m \in Nat : InHands(v, m) => m \notin ids
      BY <1>2 DEF Placed, Once
    <3>3. \A v \in Worker : \A m \in Msgs : InHands(v, m)' => mails'[m] < worker'[v].attempt
      BY <1>1, <1>3, <2>2, <3>2 DEF Placed, Tried
    <3> QED
      BY <2>1, <3>1, <3>3 DEF Tried
  <2> QED
    BY <2>4, <2>5, <2>7, <2>8 DEF Placed
<1>6. CASE /\ worker' = [worker EXCEPT ![w].attempt = worker[w].attempt + 1]
           /\ UNCHANGED fate
  <2>1. Msgs' = Msgs /\ fate' = fate
    BY <1>6 DEF Msgs
  <2>2. /\ worker'[w].at = worker[w].at /\ worker'[w].mail = worker[w].mail
        /\ worker'[w].attempt = worker[w].attempt + 1
        /\ \A v \in Worker : v # w => worker'[v] = worker[v]
    BY <1>1, <1>6 DEF Slot
  <2>3. \A v \in Worker : \A m : InHands(v, m)' <=> InHands(v, m)
    BY <2>2 DEF InHands
  <2>4. \A m : Sending(m)' <=> Sending(m)
    BY <2>3 DEF Sending
  <2>5. Once' /\ Apart'
    BY <1>1, <1>2, <2>3, <2>4 DEF Placed, Once, Apart
  <2>6. Open' /\ Kept'
    BY <1>1, <1>2, <2>1, <2>4 DEF Placed, Open, Kept, Held
  <2>7. Tried'
    <3>1. \A m \in Msgs : Batched(m)' \/ Flushed(m)' \/ Queued(m)' => mails'[m] = 0
      BY <1>1, <1>2, <1>3, <1>4 DEF Placed, Tried
    <3>2. \A v \in Worker : v # w => \A m \in Nat : InHands(v, m) => m \notin ids
      BY <1>2 DEF Placed, Once
    <3>3. worker[w].attempt \in Nat
      BY <1>1 DEF Slot
    <3>4. \A m \in Msgs : InHands(w, m) => mails'[m] < worker'[w].attempt
      BY <1>3, <2>2, <3>3 DEF Placed, Tried
    <3>5. \A v \in Worker : v # w => \A m \in Msgs : InHands(v, m) => mails'[m] < worker'[v].attempt
      BY <1>1, <1>3, <2>2, <3>2 DEF Placed, Tried
    <3> QED
      BY <2>1, <2>3, <3>1, <3>4, <3>5 DEF Tried
  <2> QED
    BY <2>5, <2>6, <2>7 DEF Placed
<1> QED
  BY <1>5, <1>6, AttemptOutcome

(* A worker that exits holds nothing, and the other steps move nothing. *)
LEMMA StillPlaces ==
  ASSUME Typed, Placed,
         UNCHANGED <<alertQueue, flushing, queue, fate, mails>>,
         main' # "panicked" => main # "panicked",
         \A w \in Worker : \/ worker'[w] = worker[w]
                           \/ worker[w].at # "sending" /\ worker'[w].at # "sending"
  PROVE  Placed'
<1>1. \A w \in Worker : \A m : InHands(w, m)' <=> InHands(w, m)
  BY DEF InHands
<1>2. \A w \in Worker : \A m : InHands(w, m) => worker'[w] = worker[w]
  BY DEF InHands
<1>3. /\ \A m : Batched(m)' <=> Batched(m)
      /\ \A m : Flushed(m)' <=> Flushed(m)
      /\ \A m : Queued(m)' <=> Queued(m)
      /\ \A m : Sending(m)' <=> Sending(m)
      /\ Msgs' = Msgs
  BY <1>1 DEF Batched, Flushed, Queued, Sending, Msgs
<1>4. Once' /\ Apart'
  BY <1>1, <1>3 DEF Placed, Once, Apart
<1>5. Open' /\ Kept'
  BY <1>3 DEF Placed, Open, Kept, Held
<1>6. Tried'
  BY <1>1, <1>2, <1>3 DEF Placed, Tried
<1> QED
  BY <1>4, <1>5, <1>6 DEF Placed

LEMMA MailPlacedNext == ASSUME MailAssumption, Typed, Placed, [Next]_vars PROVE Placed'
<1>1. ASSUME NEW w \in Worker, ExitWorker(w) PROVE Placed'
  <2>1. \A v \in Worker : \/ worker'[v] = worker[v]
                          \/ worker[v].at # "sending" /\ worker'[v].at # "sending"
    BY <1>1 DEF ExitWorker, Typed, PartsTyped, Slot
  <2> QED
    BY <1>1, <2>1, StillPlaces DEF ExitWorker
<1>2. CASE Elsewhere
  <2>1. UNCHANGED <<alertQueue, flushing, queue, worker, fate, mails>>
    BY <1>2 DEF Elsewhere, SendTelegram, PostEnds, Signal, CloseQueue, WorkersGone, vars, mailVars
  <2>2. main' # "panicked" => main # "panicked"
    BY <1>2 DEF Elsewhere, SendTelegram, PostEnds, Signal, CloseQueue, WorkersGone, vars
  <2> QED
    BY <2>1, <2>2, StillPlaces
<1> QED
  BY <1>1, <1>2, SendEmailPlaces, FlushPlaces, EnqueuePlaces, TakeMailPlaces,
     SendAttemptPlaces DEF Next, Elsewhere

-----------------------------------------------------------------------------
(* The theorems. *)
LEMMA MailInvariant == Spec => [](Typed /\ Placed)
<1> USE MailAssumption
<1>1. Init => Typed /\ Placed
  BY MailTypedInit, MailPlacedInit
<1>2. Typed /\ Placed /\ [Next]_vars => (Typed /\ Placed)'
  BY MailTypedNext, MailPlacedNext
<1> QED
  BY <1>1, <1>2, PTL DEF Spec

(* Every variable keeps its type, the queue and the attempts their limits. *)
THEOREM MailTyped == Spec => []TypeOK
<1>1. Typed => TypeOK
  <2> SUFFICES ASSUME Typed PROVE TypeOK
    OBVIOUS
  <2>1. \A mail \in HeldMails : mail \in Mail
    BY DEF Typed, PartsTyped, HeldMails, ToSet
  <2>2. \A w \in Worker : /\ worker[w].at \in {"idle", "sending", "exited"}
                          /\ worker[w].attempt \in 0 .. MaxRetries
    BY DEF Typed, PartsTyped, Slot
  <2>3. armed \in 0 .. 1
    BY DEF Typed, Timed
  <2>4. \A k \in Key : alertQueue[k] \in Seq(Nat)
    BY DEF Typed, PartsTyped
  <2>5. timer \in BOOLEAN /\ closed \in BOOLEAN /\ done \in BOOLEAN
    BY DEF Typed, Timed, ControlTyped
  <2> QED
    BY <2>1, <2>2, <2>3, <2>4, <2>5 DEF Typed, PartsTyped, ControlTyped, RecordTyped, TypeOK
<1> QED
  BY <1>1, MailInvariant, PTL

(* While messages wait for a flush a timer runs that will make it. *)
THEOREM MailNoStrandedBatch == Spec => []NoStrandedBatch
<1>1. Typed => NoStrandedBatch
  BY DEF Typed, Timed, NoStrandedBatch
<1> QED
  BY <1>1, MailInvariant, PTL

LEMMA CardAtMostOne ==
  ASSUME NEW S, \A x, y \in S : x = y
  PROVE  Cardinality(S) = IF S = {} THEN 0 ELSE 1
<1>1. CASE S = {}
  BY <1>1, FS_EmptySet
<1>2. CASE S # {}
  <2>1. PICK x \in S : S = {x}
    BY <1>2
  <2> QED
    BY <1>2, <2>1, FS_Singleton
<1> QED
  BY <1>1, <1>2

(* Unless Enqueue has panicked, a message whose fate is open is in exactly *)
(* one place and one whose fate is decided in none.                        *)
THEOREM MailConserved == Spec => []Conservation
<1>1. Typed /\ Placed => Conservation
  <2> SUFFICES ASSUME Typed, Placed, main # "panicked", NEW m \in Msgs
               PROVE  Places(m) = IF fate[m] = "pending" THEN 1 ELSE 0
    BY DEF Conservation
  <2>1. m \in Nat
    BY DEF Typed, RecordTyped, Msgs
  <2>2. /\ Held(m) <=> fate[m] = "pending"
    BY <2>1 DEF Placed, Open, Kept
  <2> DEFINE B == {k \in Key : m \in ToSet(alertQueue[k])}
             F == {mail \in flushing : m \in ToSet(mail.msgs)}
             Q == {i \in DOMAIN queue : m \in ToSet(queue[i].msgs)}
             W == {w \in Worker : worker[w].at = "sending" /\ m \in ToSet(worker[w].mail.msgs)}
  <2>3. Cardinality(B) = IF Batched(m) THEN 1 ELSE 0
    <3>1. \A k \in Key : m \in ToSet(alertQueue[k]) <=> \E i \in DOMAIN alertQueue[k] : alertQueue[k][i] = m
      BY DEF ToSet
    <3>2. \A j, k \in B : j = k
      BY <3>1 DEF Placed, Once
    <3>3. B # {} <=> Batched(m)
      BY <3>1 DEF Batched
    <3> QED
      BY <3>2, <3>3, CardAtMostOne
  <2>4. Cardinality(F) = IF Flushed(m) THEN 1 ELSE 0
    <3>1. \A a, b \in F : a = b
      BY <2>1 DEF Placed, Once, Ids
    <3>2. F # {} <=> Flushed(m)
      BY DEF Flushed, Ids
    <3> QED
      BY <3>1, <3>2, CardAtMostOne
  <2>5. Cardinality(Q) = IF Queued(m) THEN 1 ELSE 0
    <3>1. \A i, j \in Q : i = j
      BY <2>1 DEF Placed, Once, Ids
    <3>2. Q # {} <=> Queued(m)
      BY DEF Queued, Ids
    <3> QED
      BY <3>1, <3>2, CardAtMostOne
  <2>6. Cardinality(W) = IF Sending(m) THEN 1 ELSE 0
    <3>1. \A v, w \in W : v = w
      BY <2>1 DEF Placed, Once, InHands, Ids
    <3>2. W # {} <=> Sending(m)
      BY DEF Sending, InHands, Ids
    <3> QED
      BY <3>1, <3>2, CardAtMostOne
  <2>7. Places(m) = Cardinality(B) + Cardinality(F) + Cardinality(Q) + Cardinality(W)
    BY DEF Places
  <2> HIDE DEF B, F, Q, W
  <2> QED
    BY <2>1, <2>2, <2>3, <2>4, <2>5, <2>6, <2>7 DEF Placed, Apart, Held
<1> QED
  BY <1>1, MailInvariant, PTL

-----------------------------------------------------------------------------
(* The pipeline implements Outbox. *)
LEMMA OpenIsWaiting ==
  ASSUME Typed, Placed
  PROVE  \A m \in Nat : Held(m) => m \in Promise!Waiting
BY DEF Placed, Open, Promise!Waiting, Msgs

LEMMA OutboxOfFlush ==
  ASSUME MailAssumption, Typed, Placed, Flush
  PROVE  Promise!Discard(Omitted) /\ Omitted \subseteq Promise!Waiting
<1>1. \A m \in Omitted : m \in Nat /\ Batched(m)
  BY OmittedAreRest DEF Typed, PartsTyped, Batched
<1>2. Omitted \subseteq Promise!Waiting
  BY <1>1, OpenIsWaiting DEF Held
<1>3. \A m \in Omitted : mails[m] = 0
  BY <1>1, <1>2 DEF Placed, Tried, Promise!Waiting, Msgs
<1>4. Promise!Decide(Omitted, "omitted") /\ UNCHANGED mails
  BY DEF Flush, Decide, Promise!Decide, Msgs
<1> QED
  BY <1>2, <1>3, <1>4 DEF Promise!Discard

LEMMA OutboxOfEnqueue ==
  ASSUME MailAssumption, Typed, Placed, NEW mail \in flushing, Enqueue(mail)
  PROVE  \/ UNCHANGED <<fate, mails>>
         \/ Promise!Discard(Ids(mail)) /\ Ids(mail) \subseteq Promise!Waiting
<1>1. \A m \in Ids(mail) : m \in Nat /\ Flushed(m)
  BY MembersAreNumbers DEF Typed, PartsTyped, Flushed
<1>2. Ids(mail) \subseteq Promise!Waiting
  BY <1>1, OpenIsWaiting DEF Held
<1>3. \A m \in Ids(mail) : mails[m] = 0
  BY <1>1, <1>2 DEF Placed, Tried, Promise!Waiting, Msgs
<1>4. \/ UNCHANGED <<fate, mails>>
      \/ Promise!Decide(Ids(mail), "dropped") /\ UNCHANGED mails
  BY DEF Enqueue, Decide, Promise!Decide, Msgs, Ids
<1> QED
  BY <1>2, <1>3, <1>4 DEF Promise!Discard

LEMMA OutboxOfAttempt ==
  ASSUME MailAssumption, Typed, Placed, NEW w \in Worker, SendAttempt(w)
  PROVE  \/ UNCHANGED <<fate, mails>>
         \/ /\ Promise!Attempt(Ids(worker[w].mail))
            /\ Ids(worker[w].mail) \subseteq Promise!Waiting
<1> DEFINE ids == Ids(worker[w].mail)
<1>1. worker[w].at = "sending" /\ worker[w].mail \in Mail /\ worker[w].attempt \in 0 .. MaxRetries
  BY AttemptOutcome DEF Typed, PartsTyped, Slot
<1>2. \A m \in ids : m \in Nat /\ InHands(w, m) /\ Sending(m)
  BY <1>1, MembersAreNumbers DEF InHands, Sending
<1>3. ids \subseteq Promise!Waiting
  BY <1>2, OpenIsWaiting DEF Held
<1>4. \A m \in ids : mails[m] < MaxRetries
  <2>1. \A m \in ids : mails[m] \in Nat /\ mails[m] < worker[w].attempt
    BY <1>2, <1>3 DEF Placed, Tried, Promise!Waiting, Msgs, Typed, RecordTyped
  <2> QED
    BY <1>1, <2>1 DEF MailAssumption
<1>5. UNCHANGED fate => Promise!Decide(ids, "pending")
  <2>1. fate = [m \in DOMAIN fate |-> IF m \in ids THEN "pending" ELSE fate[m]]
    BY <1>3 DEF Promise!Waiting, Typed, RecordTyped
  <2> QED
    BY <2>1 DEF Promise!Decide
<1>6. \E f \in {"pending", "delivered", "exhausted"} : Promise!Decide(ids, f)
  BY <1>5, AttemptOutcome DEF Decide, Promise!Decide, Msgs
<1>7. DOMAIN mails = Msgs
  BY DEF Typed, RecordTyped, Msgs
<1>8. CASE mails' = [m \in Msgs |-> IF m \in ids THEN mails[m] + 1 ELSE mails[m]]
  BY <1>3, <1>4, <1>6, <1>7, <1>8 DEF Promise!Attempt
<1>9. CASE mails' = mails /\ Decide(ids, "exhausted")
  BY <1>3, <1>9 DEF Promise!Attempt, Decide, Promise!Decide, Msgs
<1> QED
  BY <1>8, <1>9, AttemptOutcome

(* Every step of the pipeline is one that Outbox allows, or none.          *)
THEOREM MailKeepsPromise == Spec => KeepsPromise
<1> USE MailAssumption
<1>1. Init => Promise!Init
  BY DEF Init, Promise!Init
<1>2. Typed /\ Placed /\ [Next]_vars => [Promise!Next]_(Promise!vars)
  <2> SUFFICES ASSUME Typed, Placed, [Next]_vars, ~UNCHANGED <<fate, mails>>
               PROVE  Promise!Next
    BY DEF Promise!vars
  <2>1. CASE \E k \in Key : SendEmail(k)
    BY <2>1 DEF SendEmail, Promise!Next, Promise!Submit
  <2>2. CASE Flush
    BY <2>2, OutboxOfFlush DEF Promise!Next
  <2>3. CASE \E mail \in flushing : Enqueue(mail)
    BY <2>3, OutboxOfEnqueue DEF Promise!Next
  <2>4. CASE \E w \in Worker : SendAttempt(w)
    BY <2>4, OutboxOfAttempt DEF Promise!Next
  <2>5. CASE \E w \in Worker : TakeMail(w) \/ ExitWorker(w)
    BY <2>5 DEF TakeMail, ExitWorker
  <2>6. CASE Elsewhere
    BY <2>6 DEF Elsewhere, SendTelegram, PostEnds, Signal, CloseQueue, WorkersGone, vars, mailVars
  <2> QED
    BY <2>1, <2>2, <2>3, <2>4, <2>5, <2>6 DEF Next, Elsewhere
<1> QED
  BY <1>1, <1>2, MailInvariant, PTL DEF Spec, KeepsPromise, Promise!Spec

-----------------------------------------------------------------------------
(* The shutdown.  A worker that nobody cancelled has left an empty queue   *)
(* that is closed, and nothing comes into it again.                        *)
Leaving ==
  /\ main = "running" => ~done
  /\ ~done => \A w \in Worker : worker[w].at = "exited" => closed /\ queue = <<>>
  /\ main = "stopped" => \A w \in Worker : worker[w].at = "exited"

LEMMA LeavingStep == ASSUME Typed, Leaving, [Next]_vars PROVE Leaving'
<1> USE DEF Leaving, Alive
<1>1. CASE \E k \in Key : SendEmail(k)
  BY <1>1 DEF SendEmail, postVars
<1>2. CASE Flush
  BY <1>2 DEF Flush, postVars
<1>3. CASE \E mail \in flushing : Enqueue(mail)
  BY <1>3 DEF Enqueue, postVars
<1>4. ASSUME NEW w \in Worker, TakeMail(w) PROVE Leaving'
  <2>1. /\ main # "stopped" /\ queue # <<>> /\ UNCHANGED <<closed, done, main>>
        /\ worker'[w].at = "sending"
        /\ \A v \in Worker \ {w} : worker'[v] = worker[v]
    BY <1>4 DEF TakeMail, Typed, PartsTyped
  <2> QED
    BY <2>1
<1>5. ASSUME NEW w \in Worker, SendAttempt(w) PROVE Leaving'
  <2>1. /\ main # "stopped" /\ worker[w].at = "sending"
        /\ UNCHANGED <<queue, closed, done, main>>
    BY <1>5 DEF SendAttempt
  <2>2. \/ worker' = [worker EXCEPT ![w] = Idle]
        \/ worker' = [worker EXCEPT ![w].attempt = @ + 1]
    BY <1>5 DEF SendAttempt
  <2>3. /\ worker'[w].at # "exited"
        /\ \A v \in Worker \ {w} : worker'[v] = worker[v]
    BY <2>1, <2>2 DEF Idle, Typed, PartsTyped, Slot
  <2> QED
    BY <2>1, <2>3
<1>6. ASSUME NEW w \in Worker, ExitWorker(w) PROVE Leaving'
  <2>1. /\ main # "stopped" /\ UNCHANGED <<queue, closed, done, main>>
        /\ done \/ (closed /\ queue = <<>>)
        /\ \A v \in Worker \ {w} : worker'[v] = worker[v]
    BY <1>6 DEF ExitWorker, MayExit, Typed, PartsTyped
  <2> QED
    BY <2>1
<1>7. CASE SendTelegram \/ PostEnds \/ UNCHANGED vars
  BY <1>7 DEF SendTelegram, PostEnds, vars, mailVars
<1>8. CASE Signal
  BY <1>8 DEF Signal, mailVars
<1>9. CASE CloseQueue
  BY <1>9 DEF CloseQueue
<1>10. CASE WorkersGone
  BY <1>10 DEF WorkersGone, mailVars
<1> QED
  BY <1>1, <1>2, <1>3, <1>4, <1>5, <1>6, <1>7, <1>8, <1>9, <1>10 DEF Next

(* When Stop has returned and nobody cancelled, no mail is left in the     *)
(* queue.  Without a worker Stop would wait for nobody.                    *)
THEOREM MailStopDrainsQueue == ASSUME Worker # {} PROVE Spec => []StopDrainsQueue
<1>1. Init => Leaving
  BY DEF Init, Leaving, Idle
<1>2. Leaving => StopDrainsQueue
  BY DEF Leaving, StopDrainsQueue
<1> QED
  BY <1>1, <1>2, LeavingStep, MailInvariant, PTL DEF Spec
=============================================================================
