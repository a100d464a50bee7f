---------------------------- MODULE MailPipeline ----------------------------
(***************************************************************************)
(* The way of a mail from the alert engine to the SMTP server:             *)
(* BatchNotifier (internal/alerts/notifier_impl.go) collects messages per  *)
(* recipient and subject and flushes them when its timer fires; Dispatcher *)
(* (internal/notification/dispatcher.go) queues the mails and its workers  *)
(* send them, each up to three times; cmdRun shuts both down on a signal.  *)
(* Telegram messages take no such way: each is one request in a goroutine  *)
(* of its own (TelegramSender), which nobody waits for.                    *)
(*                                                                         *)
(* A message is a number, given in the order of the SendEmail calls.  The  *)
(* mails of a flush that are not enqueued yet are a set: flush walks a Go  *)
(* map, whose order is arbitrary, and several flushes may overlap.         *)
(***************************************************************************)
EXTENDS Integers, Sequences, FiniteSets, FiniteSetsExt, SequencesExt

CONSTANTS
  Key,          \* the "recipient|subject" keys
  Worker,       \* the dispatcher's workers (2 in cmdRun)
  QueueCap,     \* capacity of the queue (500 in the code)
  BatchLimit,   \* messages written into one mail (10 in the code)
  MaxRetries,   \* attempts to send a mail (3 in the code)
  CancelFirst,  \* whether cancel() precedes Stop(): TRUE as in cmdRun, FALSE
                \* as in TestDispatcher_WorkerGracefulShutdown, or either
  MaxMsgs,      \* bound: mail messages the engine produces
  MaxPosts      \* bound: Telegram messages it produces

ASSUME MailAssumption ==
  /\ QueueCap \in Nat /\ BatchLimit \in Nat \ {0} /\ MaxRetries \in Nat \ {0}
  /\ CancelFirst \subseteq BOOLEAN
  /\ MaxMsgs \in Nat /\ MaxPosts \in Nat

VARIABLES
  alertQueue,  \* b.alertQueue: the messages collected under each key
  timer,       \* b.timer # nil
  armed,       \* timers that will call flush
  flushing,    \* mails that running flushes have still to enqueue
  queue,       \* d.queue
  closed,      \* close(d.queue) was called
  worker,      \* what each worker of the dispatcher is doing
  done,        \* ctx is cancelled
  main,        \* where cmdRun is
  fate,        \* what became of each message produced so far
  mails,       \* how often the SMTP server accepted a mail with the message
  posting,     \* Telegram requests under way
  posted       \* Telegram requests made so far

postVars == <<posting, posted>>
mailVars == <<alertQueue, timer, armed, flushing, queue, closed, worker, fate, mails>>
vars     == <<mailVars, done, main, postVars>>

-----------------------------------------------------------------------------
Msgs == DOMAIN fate

Mail == [key : Key, msgs : Seq(Nat)]

Fates == {"pending", "omitted", "dropped", "delivered", "exhausted"}

Idle == [at |-> "idle", mail |-> <<>>, attempt |-> 0]

Alive == main \notin {"stopped", "panicked"}

(* The mails that somebody still holds. *)
HeldMails == flushing \cup ToSet(queue)
               \cup {worker[w].mail : w \in {x \in Worker : worker[x].at = "sending"}}

Decide(ids, f) == fate' = [m \in Msgs |-> IF m \in ids THEN f ELSE fate[m]]

-----------------------------------------------------------------------------
(* BatchNotifier. *)
SendEmail(k) ==
  /\ Alive
  /\ Len(fate) < MaxMsgs
  /\ alertQueue' = [alertQueue EXCEPT ![k] = Append(@, Len(fate) + 1)]
  /\ timer' = TRUE
  /\ armed' = IF timer THEN armed ELSE armed + 1
  /\ fate' = Append(fate, "pending")
  /\ mails' = Append(mails, 0)
  /\ UNCHANGED <<flushing, queue, closed, worker, done, main, postVars>>

(* Mutant: the messages over the limit are not mentioned. *)
NoneOmitted == {}

(* The mail of a key: the first BatchLimit messages; of the others only    *)
(* their number is given.                                                  *)
MailOf(k) ==
  [key |-> k, msgs |-> SubSeq(alertQueue[k], 1, Min({BatchLimit, Len(alertQueue[k])}))]

Omitted == UNION {ToSet(SubSeq(alertQueue[k], BatchLimit + 1, Len(alertQueue[k]))) : k \in Key}

(* Mutant: b.timer keeps the timer that has fired. *)
TakeBatchKeepsTimer == alertQueue' = [k \in Key |-> <<>>] /\ UNCHANGED timer

(* flush takes the whole map, under b.mu, and lets the next SendEmail set  *)
(* a new timer.                                                            *)
TakeBatch == alertQueue' = [k \in Key |-> <<>>] /\ timer' = FALSE

(* The timer fires. *)
Flush ==
  /\ Alive
  /\ armed > 0
  /\ armed' = armed - 1
  /\ flushing' = flushing \cup {MailOf(k) : k \in {x \in Key : alertQueue[x] # <<>>}}
  /\ TakeBatch
  /\ Decide(Omitted, "omitted")
  /\ UNCHANGED <<queue, closed, worker, done, main, mails, postVars>>

-----------------------------------------------------------------------------
(* Dispatcher.  Enqueue drops the mail if the queue is full; to send on a  *)
(* closed channel is a panic, which ends the process.                      *)
Enqueue(mail) ==
  /\ Alive
  /\ flushing' = flushing \ {mail}
  /\ \/ /\ ~closed /\ Len(queue) < QueueCap
        /\ queue' = Append(queue, mail)
        /\ UNCHANGED <<main, fate>>
     \/ /\ ~closed /\ Len(queue) >= QueueCap
        /\ Decide(ToSet(mail.msgs), "dropped")
        /\ UNCHANGED <<queue, main>>
     \/ /\ closed
        /\ main' = "panicked"
        /\ UNCHANGED <<queue, fate>>
  /\ UNCHANGED <<alertQueue, timer, armed, closed, worker, done, mails, postVars>>

(* workerLoop: with several cases ready, select takes any of them. *)
TakeMail(w) ==
  /\ Alive
  /\ worker[w].at = "idle"
  /\ queue # <<>>
  /\ queue' = Tail(queue)
  /\ worker' = [worker EXCEPT ![w] = [at |-> "sending", mail |-> Head(queue), attempt |-> 1]]
  /\ UNCHANGED <<alertQueue, timer, armed, flushing, closed, done, main, fate, mails, postVars>>

(* Mutants: a closed queue is left before it is empty, or never. *)
MayExitEarly   == done \/ closed
MayExitByCtx   == done

MayExit == done \/ (closed /\ queue = <<>>)

ExitWorker(w) ==
  /\ Alive
  /\ worker[w].at = "idle"
  /\ MayExit
  /\ worker' = [worker EXCEPT ![w].at = "exited"]
  /\ UNCHANGED <<alertQueue, timer, armed, flushing, queue, closed, done, main, fate, mails, postVars>>

(* Mutant: one attempt too many. *)
LastAttemptOffByOne(w) == worker[w].attempt > MaxRetries

LastAttempt(w) == worker[w].attempt >= MaxRetries

(* An attempt to send ends: the server accepts the mail or not, and the    *)
(* worker hears of it or not (an error after the server had accepted).     *)
(* It need not end: SendMail sets no deadline, and waits for a server that *)
(* is silent.                                                              *)
SendAttempt(w) ==
  LET ids == ToSet(worker[w].mail.msgs)
  IN  /\ Alive
      /\ worker[w].at = "sending"
      /\ \E accepted \in BOOLEAN, err \in BOOLEAN :
           /\ accepted \/ err
           /\ mails' = IF accepted
                       THEN [m \in Msgs |-> IF m \in ids THEN mails[m] + 1 ELSE mails[m]]
                       ELSE mails
           /\ \/ /\ ~err
                 /\ worker' = [worker EXCEPT ![w] = Idle]
                 /\ Decide(ids, "delivered")
              \/ /\ err /\ ~LastAttempt(w)
                 /\ worker' = [worker EXCEPT ![w].attempt = @ + 1]
                 /\ UNCHANGED fate
              \/ /\ err /\ LastAttempt(w)
                 /\ worker' = [worker EXCEPT ![w] = Idle]
                 /\ Decide(ids, "exhausted")
      /\ UNCHANGED <<alertQueue, timer, armed, flushing, queue, closed, done, main, postVars>>

-----------------------------------------------------------------------------
(* TelegramSender.  Without a token or a chat nothing is sent.             *)
SendTelegram ==
  /\ Alive
  /\ posted < MaxPosts
  /\ posted' = posted + 1
  /\ posting' = posting + 1
  /\ UNCHANGED <<mailVars, done, main>>

(* The request is answered or fails, after 10 s at the latest; either way  *)
(* that was all.                                                           *)
PostEnds ==
  /\ Alive
  /\ posting > 0
  /\ posting' = posting - 1
  /\ UNCHANGED <<mailVars, done, main, posted>>

-----------------------------------------------------------------------------
(* cmdRun: the signal, cancel(), then Stop(), which closes the queue and   *)
(* waits for the workers; then the process ends.                           *)
Signal ==
  /\ main = "running"
  /\ main' = "stopping"
  /\ done' \in CancelFirst
  /\ UNCHANGED <<mailVars, postVars>>

CloseQueue ==
  /\ main = "stopping"
  /\ main' = "waiting"
  /\ closed' = TRUE
  /\ UNCHANGED <<alertQueue, timer, armed, flushing, queue, worker, done, fate, mails, postVars>>

WorkersGone ==
  /\ main = "waiting"
  /\ \A w \in Worker : worker[w].at = "exited"
  /\ main' = "stopped"
  /\ UNCHANGED <<mailVars, done, postVars>>

-----------------------------------------------------------------------------
Init == /\ alertQueue = [k \in Key |-> <<>>]
        /\ timer = FALSE
        /\ armed = 0
        /\ flushing = {}
        /\ queue = <<>>
        /\ closed = FALSE
        /\ worker = [w \in Worker |-> Idle]
        /\ done = FALSE
        /\ main = "running"
        /\ fate = <<>>
        /\ mails = <<>>
        /\ posting = 0 /\ posted = 0

Next == \/ \E k \in Key : SendEmail(k)
        \/ Flush
        \/ \E mail \in flushing : Enqueue(mail)
        \/ \E w \in Worker : TakeMail(w) \/ SendAttempt(w) \/ ExitWorker(w)
        \/ SendTelegram \/ PostEnds
        \/ Signal \/ CloseQueue \/ WorkersGone

Spec == Init /\ [][Next]_vars

(* Goroutines that can run do run, timers fire, and cmdRun goes on after   *)
(* the signal.  The signal itself need never come, and an attempt to send  *)
(* need never end.                                                         *)
Fairness ==
  /\ WF_vars(Flush)
  /\ WF_vars(\E mail \in flushing : Enqueue(mail))
  /\ \A w \in Worker : WF_vars(TakeMail(w)) /\ WF_vars(ExitWorker(w))
  /\ WF_vars(CloseQueue) /\ WF_vars(WorkersGone)

FairSpec == Spec /\ Fairness

-----------------------------------------------------------------------------
(* Properties *)

(* Every variable has its type, the queue and the attempts their limits. *)
TypeOK ==
  /\ \A k \in Key : alertQueue[k] \in Seq(Nat)
  /\ armed \in 0 .. 1 /\ timer \in BOOLEAN /\ closed \in BOOLEAN /\ done \in BOOLEAN
  /\ \A mail \in HeldMails : mail \in Mail
  /\ Len(queue) <= QueueCap
  /\ \A w \in Worker : /\ worker[w].at \in {"idle", "sending", "exited"}
                       /\ worker[w].attempt \in 0 .. MaxRetries
  /\ main \in {"running", "stopping", "waiting", "stopped", "panicked"}
  /\ fate \in Seq(Fates)
  /\ mails \in Seq(Nat) /\ Len(mails) = Len(fate)
  /\ posted \in 0 .. MaxPosts /\ posting \in 0 .. posted

(* No message is forgotten or sent by two: one whose fate is open is in    *)
(* exactly one place (the batch, one mail of a flush, one mail in the      *)
(* queue, one worker's hands) and one whose fate is decided is in none.    *)
Places(m) ==
  Cardinality({k \in Key : m \in ToSet(alertQueue[k])})
  + Cardinality({mail \in flushing : m \in ToSet(mail.msgs)})
  + Cardinality({i \in DOMAIN queue : m \in ToSet(queue[i].msgs)})
  + Cardinality({w \in Worker : worker[w].at = "sending" /\ m \in ToSet(worker[w].mail.msgs)})

Conservation ==
  main # "panicked" =>
    \A m \in Msgs : Places(m) = IF fate[m] = "pending" THEN 1 ELSE 0

(* A batch is never stranded: while messages wait for a flush, a timer is  *)
(* running that will make it (SendEmail arms it only if there is none).    *)
NoStrandedBatch == (\E k \in Key : alertQueue[k] # <<>>) => armed > 0

(* The pipeline keeps the promise of Outbox: the fate of a message is      *)
(* decided once, in agreement with what the server was given (one that is  *)
(* dropped or omitted never was, one that is delivered was), and it is     *)
(* mailed only before that and not too often.                              *)
Promise == INSTANCE Outbox WITH copies <- mails, MaxCopies <- MaxRetries
KeepsPromise == Promise!Spec

(* The SMTP server does not leave the worker w waiting for ever. *)
AttemptsEnd(w) == WF_vars(SendAttempt(w))

InHandsOf(w, m) == worker[w].at = "sending" /\ m \in ToSet(worker[w].mail.msgs)

(* While the agent runs, the fate of every message is decided some day, be *)
(* the server up or down, as long as it does not fall silent on every      *)
(* worker: what a worker holds that waits for ever is stuck with it, and   *)
(* nothing else is (an unreachable server must not block the pipeline,     *)
(* dispatcher.go:65).                                                      *)
EverySettled ==
  (\E w \in Worker : AttemptsEnd(w)) =>
    \A m \in 1 .. MaxMsgs :
      (m \in Msgs /\ main = "running")
        ~> \/ main # "running"
           \/ m \in Msgs /\ fate[m] # "pending"
           \/ [](\E w \in Worker : InHandsOf(w, m))

(* The shutdown comes to an end, whatever the workers were doing, provided *)
(* that their attempts to send do: wg.Wait has no deadline, nor SendMail.  *)
ShutdownEnds == (\A w \in Worker : AttemptsEnd(w)) => (main = "stopping" ~> ~Alive)

(* Stop keeps the promise of dispatcher.go:58 (it "gracefully waits for    *)
(* all pending emails to be sent before shutting down") as long as ctx is  *)
(* not cancelled: when it has returned no mail is left in the queue.       *)
StopDrainsQueue == main = "stopped" /\ ~done => queue = <<>>

(* What dispatcher.go:64 says of Enqueue: it "securely pushes an alert to  *)
(* the background queue".  It never brings the process down.               *)
EnqueueIsSafe == main # "panicked"
=============================================================================
