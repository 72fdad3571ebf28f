-------------------------- MODULE NotificationQueue -------------------------
(***************************************************************************)
(* The e-mail queue of internal/service/notification_queue_service.go, the *)
(* handlers that fill it (internal/handler/auth_handler.go), the goroutine *)
(* that works it off every 30 seconds, and the shutdown of the server      *)
(* (cmd/api/main.go, Shutdown in internal/server/server.go).               *)
(*                                                                         *)
(* The mutex is held through a whole pass over the queue, the SMTP         *)
(* dialogues included: meanwhile every handler that queues waits.  The     *)
(* other critical sections are one step each, so the mutex is taken        *)
(* exactly while the goroutine is in one of the two loops of a pass.       *)
(***************************************************************************)
EXTENDS Naturals, Sequences, SequencesExt

CONSTANTS
    Notifications,  \* notification ids (uuid.New: never used twice)
    Requests,       \* goroutines of the HTTP server
    QueueSize       \* 100 in the code

ASSUME QueueAssumption == QueueSize \in Nat \ {0} /\ Notifications # {}

MaxRetries == 3

VARIABLES
    queue,     \* nqs.queue
    status,    \* Status of each notification
    retries,   \* RetryCount of each notification
    proc,      \* the goroutine of Start: where it is, the loop index, remainingQueue
    req,       \* handlers
    main,      \* the goroutine of gracefulShutdown
    accepted,  \* history: the notifications queued, in that order
    attempts   \* history: calls of SendEmail for each notification

vars == <<queue, status, retries, proc, req, main, accepted, attempts>>
-----------------------------------------------------------------------------
NoRequest == [pc |-> "idle", id |-> CHOOSE n \in Notifications : TRUE]

\* The goroutine as it enters a loop or its select.
At(pc) == [pc |-> pc, at |-> 1, kept |-> <<>>]

Init ==
    /\ queue = <<>>
    /\ status = [n \in Notifications |-> "none"]
    /\ retries = [n \in Notifications |-> 0]
    /\ proc = At("select")
    /\ req = [r \in Requests |-> NoRequest]
    /\ main = "running"
    /\ accepted = <<>>
    /\ attempts = [n \in Notifications |-> 0]

Unlocked == proc.pc \notin {"sending", "cleaning"}

Alive == main # "exited"

\* SendEmailNotification and TestEmailSend: the notification is built, and the
\* handler asks for the mutex.  (A request received before the signal gets there
\* at any time.)
SendEmailNotification(r, n) ==
    /\ Alive
    /\ req[r].pc = "idle"
    /\ status[n] = "none"
    /\ status' = [status EXCEPT ![n] = "pending"]
    /\ req' = [req EXCEPT ![r] = [pc |-> "lock", id |-> n]]
    /\ UNCHANGED <<queue, retries, proc, main, accepted, attempts>>

HasRoom == Len(queue) < QueueSize

\* QueueNotification.  A full queue refuses with an error.
QueueNotification(r) ==
    LET n == req[r].id IN
    /\ Alive
    /\ req[r].pc = "lock"
    /\ Unlocked
    /\ queue' = IF HasRoom THEN Append(queue, n) ELSE queue
    /\ accepted' = IF HasRoom THEN Append(accepted, n) ELSE accepted
    /\ req' = [req EXCEPT ![r].pc = "reply"]
    /\ UNCHANGED <<status, retries, proc, main, attempts>>

\* The handlers drop that error: 202 (or 200) whatever became of it.
Reply(r) ==
    /\ Alive
    /\ req[r].pc = "reply"
    /\ req' = [req EXCEPT ![r] = NoRequest]
    /\ UNCHANGED <<queue, status, retries, proc, main, accepted, attempts>>
-----------------------------------------------------------------------------
(***************************************************************************)
(* ProcessQueue.                                                           *)
(***************************************************************************)
Exhausted(k) == k >= MaxRetries

Mutant_Remaining(kept, n) == IF status[n] = "pending" THEN <<n>> \o kept ELSE kept

\* remainingQueue after notification n.
Remaining(kept, n) == IF status[n] = "pending" THEN Append(kept, n) ELSE kept

Mutant_AfterPass == "ended"

\* An error of a pass is logged and the loop goes on.
AfterPass == "select"

\* A tick.  An empty queue is returned from at once.
BeginPass ==
    /\ Alive
    /\ proc.pc = "select"
    /\ queue # <<>>
    /\ proc' = At("sending")
    /\ UNCHANGED <<queue, status, retries, req, main, accepted, attempts>>

\* One round of the loop for notification n: SendEmail fails or not.
Attempt(n) ==
    IF status[n] # "pending"
       THEN UNCHANGED <<status, retries, attempts>>
       ELSE /\ attempts' = [attempts EXCEPT ![n] = @ + 1]
            /\ \/ /\ status' = [status EXCEPT ![n] = "sent"]
                  /\ retries' = [retries EXCEPT ![n] = 0]
               \/ /\ status' = [status EXCEPT ![n] =
                                  IF Exhausted(retries[n] + 1) THEN "failed" ELSE @]
                  /\ retries' = [retries EXCEPT ![n] = @ + 1]

ProcessNotification ==
    /\ Alive
    /\ proc.pc = "sending"
    /\ Attempt(queue[proc.at])
    /\ proc' = IF proc.at < Len(queue) THEN [proc EXCEPT !.at = @ + 1] ELSE At("cleaning")
    /\ UNCHANGED <<queue, req, main, accepted>>

\* One round of the loop that removes what is not pending any more.  The last
\* releases the mutex.
CleanUp ==
    LET kept == Remaining(proc.kept, queue[proc.at]) IN
    /\ Alive
    /\ proc.pc = "cleaning"
    /\ IF proc.at < Len(queue)
          THEN /\ proc' = [proc EXCEPT !.at = @ + 1, !.kept = kept]
               /\ UNCHANGED queue
          ELSE /\ proc' = At(AfterPass)
               /\ queue' = kept
    /\ UNCHANGED <<status, retries, req, main, accepted, attempts>>
-----------------------------------------------------------------------------
(***************************************************************************)
(* Shutdown: no more connections, up to 30 seconds for the requests under  *)
(* way, Stop, exit.  What is still in the queue is lost.                   *)
(***************************************************************************)
Signal ==
    /\ main = "running"
    /\ main' = "draining"
    /\ UNCHANGED <<queue, status, retries, proc, req, accepted, attempts>>

\* Either every request has been answered or the 30 seconds are over.
Drained ==
    /\ main = "draining"
    /\ main' = "stopping"
    /\ UNCHANGED <<queue, status, retries, proc, req, accepted, attempts>>

\* Stop sends on a channel with no buffer: it waits until the goroutine is back
\* in its select, which then chooses at random between the tick and the stop.
Stop ==
    /\ main = "stopping"
    /\ proc.pc = "select"
    /\ proc' = At("ended")
    /\ main' = "stopped"
    /\ UNCHANGED <<queue, status, retries, req, accepted, attempts>>

Exit ==
    /\ main = "stopped"
    /\ main' = "exited"
    /\ UNCHANGED <<queue, status, retries, proc, req, accepted, attempts>>

Next ==
    \/ \E r \in Requests, n \in Notifications : SendEmailNotification(r, n)
    \/ \E r \in Requests : QueueNotification(r)
    \/ \E r \in Requests : Reply(r)
    \/ BeginPass
    \/ ProcessNotification
    \/ CleanUp
    \/ Signal
    \/ Drained
    \/ Stop
    \/ Exit

\* The ticker ticks, SendEmail returns, and a select that is offered the stop
\* again and again takes it some time.
Fairness ==
    /\ \A r \in Requests : SF_vars(QueueNotification(r)) /\ WF_vars(Reply(r))
    /\ WF_vars(BeginPass)
    /\ WF_vars(ProcessNotification)
    /\ WF_vars(CleanUp)
    /\ WF_vars(Drained)
    /\ SF_vars(Stop)
    /\ WF_vars(Exit)

Spec == Init /\ [][Next]_vars /\ Fairness
-----------------------------------------------------------------------------
\* Every variable has its type, the queue is within its limit, and a pass is at
\* a place of the queue.
TypeOK ==
    /\ queue \in Seq(Notifications) /\ Len(queue) <= QueueSize
    /\ status \in [Notifications -> {"none", "pending", "sent", "failed"}]
    /\ retries \in [Notifications -> 0..MaxRetries]
    /\ proc \in [pc : {"select", "sending", "cleaning", "ended"}, at : Nat \ {0},
                kept : Seq(Notifications)]
    /\ ~Unlocked => proc.at \in DOMAIN queue
    /\ req \in [Requests -> [pc : {"idle", "lock", "reply"}, id : Notifications]]
    /\ main \in {"running", "draining", "stopping", "stopped", "exited"}
    /\ accepted \in Seq(Notifications)
    /\ attempts \in [Notifications -> Nat]

Accepted == ToSet(accepted)

\* Outside a pass the queue holds every accepted notification that is still
\* pending, and nothing else: the removal at the end of a pass loses none and
\* leaves none behind to take up room.
QueueHoldsThePending ==
    Unlocked => ToSet(queue) = {n \in Accepted : status[n] = "pending"}

\* A notification is given up after exactly maxRetries attempts, and none is
\* attempted again once it was sent or given up.
GivenUpAfterAllAttempts ==
    \A n \in Notifications :
        /\ status[n] = "failed" => attempts[n] = MaxRetries
        /\ status[n] = "pending" => attempts[n] = retries[n] /\ attempts[n] < MaxRetries
        /\ attempts[n] <= MaxRetries

\* First come, first served: a notification is never attempted more often than
\* one that was accepted before it and is still pending.
NoOvertaking ==
    \A i, k \in DOMAIN accepted :
        i < k /\ status[accepted[i]] = "pending" =>
            attempts[accepted[k]] <= attempts[accepted[i]]

\* Accepted notifications are kept, counted and taken in their order, in a queue
\* that is within its limit at every step of a pass.
KeptInOrder == TypeOK /\ QueueHoldsThePending /\ GivenUpAfterAllAttempts /\ NoOvertaking

\* Every accepted notification is sent or given up in the end, unless the server
\* is shut down first.
AcceptedIsSettled ==
    \A n \in Notifications :
        n \in Accepted ~> status[n] \in {"sent", "failed"} \/ main # "running"

\* A shutdown comes to its end: Stop does not wait for ever for a goroutine that
\* is sending.
ShutdownCompletes == main = "draining" ~> main = "exited"
=============================================================================
