----------------------- MODULE NotificationQueue_proofs ---------------------
(***************************************************************************)
(* The retries and the order of NotificationQueue, for any number of       *)
(* notifications and handlers and any size of the queue.                   *)
(***************************************************************************)
EXTENDS NotificationQueue, TLAPS

Statuses == {"none", "pending", "sent", "failed"}

\* What the three columns of a notification say of each other.
Counted(n) ==
    /\ attempts[n] <= MaxRetries
    /\ status[n] = "none" => attempts[n] = 0 /\ retries[n] = 0
    /\ status[n] = "pending" => attempts[n] = retries[n] /\ attempts[n] < MaxRetries
    /\ status[n] = "failed" => attempts[n] = MaxRetries

Pending(n) == status[n] = "pending"

\* A notification that waits for the mutex is new, and of one handler.
Asks(r) ==
    req[r].pc = "lock" =>
        /\ Pending(req[r].id) /\ attempts[req[r].id] = 0
        /\ \A k \in DOMAIN accepted : accepted[k] # req[r].id
        /\ \A s \in Requests \ {r} : req[s].pc = "lock" => req[s].id # req[r].id

AcceptedOnce ==
    /\ \A k \in DOMAIN accepted : status[accepted[k]] # "none"
    /\ \A k, l \in DOMAIN accepted : accepted[k] = accepted[l] => k = l

\* The queue is a part of the accepted ones, in their order, with all that are pending.
Placed ==
    /\ \A i \in DOMAIN queue : \E k \in DOMAIN accepted : queue[i] = accepted[k]
    /\ \A i, j \in DOMAIN queue, k, l \in DOMAIN accepted :
          i < j /\ queue[i] = accepted[k] /\ queue[j] = accepted[l] => k < l
    /\ \A k \in DOMAIN accepted :
          Pending(accepted[k]) => \E i \in DOMAIN queue : queue[i] = accepted[k]

\* In the loop that sends: who has had his turn is ahead of who has not.
Sending ==
    \A j \in DOMAIN queue : proc.at <= j =>
        /\ Pending(queue[j])
        /\ \A i \in DOMAIN queue :
              i < proc.at /\ Pending(queue[i]) => attempts[queue[j]] < attempts[queue[i]]

\* In the loop that removes: what is kept of the part of the queue gone through.
Cleaning ==
    /\ Len(proc.kept) < proc.at
    /\ \A i \in DOMAIN proc.kept :
          /\ Pending(proc.kept[i])
          /\ \E j \in DOMAIN queue : j < proc.at /\ proc.kept[i] = queue[j]
    /\ \A i, k \in DOMAIN proc.kept, j, l \in DOMAIN queue :
          i < k /\ proc.kept[i] = queue[j] /\ proc.kept[k] = queue[l] => j < l
    /\ \A j \in DOMAIN queue :
          j < proc.at /\ Pending(queue[j]) => \E i \in DOMAIN proc.kept : proc.kept[i] = queue[j]

Rounds ==
    /\ Unlocked => \A i \in DOMAIN queue : Pending(queue[i])
    /\ proc.pc = "sending" => Sending
    /\ proc.pc = "cleaning" => Cleaning

Order ==
    /\ TypeOK
    /\ \A r \in Requests : Asks(r)
    /\ AcceptedOnce
    /\ Placed
    /\ Rounds
    /\ NoOvertaking

Inv ==
    /\ status \in [Notifications -> Statuses]
    /\ retries \in [Notifications -> Nat]
    /\ attempts \in [Notifications -> Nat]
    /\ \A n \in Notifications : Counted(n)

LEMMA InitInv == Init => Inv
  BY DEF Init, Inv, Counted, Statuses, MaxRetries

LEMMA Unchanged ==
    ASSUME Inv, UNCHANGED <<status, retries, attempts>>
    PROVE  Inv'
  BY DEF Inv, Counted

\* One round: a failure that is the last gives up, any other leaves the
\* notification to the next pass.
LEMMA AttemptStep ==
    ASSUME Inv, NEW m, Attempt(m)
    PROVE  Inv'
<1>. USE DEF Inv
<1>1. CASE UNCHANGED <<status, retries, attempts>>
  BY <1>1, Unchanged
<1>2. CASE m \notin Notifications
  <2>1. UNCHANGED <<status, retries, attempts>>
    BY <1>1, <1>2 DEF Attempt
  <2>. QED
    BY <2>1, Unchanged
<1>3. CASE m \in Notifications /\ status[m] = "pending"
  <2>1. attempts[m] = retries[m] /\ attempts[m] \in Nat /\ attempts[m] < MaxRetries
    BY <1>3 DEF Counted
  <2>2. /\ attempts' = [attempts EXCEPT ![m] = @ + 1]
        /\ \/ /\ status' = [status EXCEPT ![m] = "sent"]
              /\ retries' = [retries EXCEPT ![m] = 0]
           \/ /\ status' = [status EXCEPT ![m] =
                              IF Exhausted(retries[m] + 1) THEN "failed" ELSE @]
              /\ retries' = [retries EXCEPT ![m] = @ + 1]
    BY <1>3 DEF Attempt
  <2>3. /\ status' \in [Notifications -> Statuses]
        /\ retries' \in [Notifications -> Nat]
    <3>1. m \in Notifications /\ retries[m] \in Nat /\ retries[m] + 1 \in Nat
      BY <1>3
    <3>2. CASE status' = [status EXCEPT ![m] = "sent"] /\ retries' = [retries EXCEPT ![m] = 0]
      BY <3>1, <3>2 DEF Statuses
    <3>3. CASE /\ status' = [status EXCEPT ![m] =
                               IF Exhausted(retries[m] + 1) THEN "failed" ELSE @]
               /\ retries' = [retries EXCEPT ![m] = @ + 1]
      <4>1. retries' \in [Notifications -> Nat]
        BY <3>1, <3>3
      <4>2. CASE Exhausted(retries[m] + 1)
        <5>1. status' = [status EXCEPT ![m] = "failed"]
          BY <3>3, <4>2
        <5>. QED
          BY <4>1, <5>1 DEF Statuses
      <4>3. CASE ~Exhausted(retries[m] + 1)
        <5>1. status' = [status EXCEPT ![m] = status[m]]
          BY <3>3, <4>3
        <5>. QED
          BY <3>1, <4>1, <5>1 DEF Statuses
      <4>. QED
        BY <4>2, <4>3
    <3>. QED
      BY <2>2, <3>2, <3>3
  <2>4. attempts' \in [Notifications -> Nat]
    <3>1. attempts' = [attempts EXCEPT ![m] = @ + 1]
      BY <2>2
    <3>2. attempts[m] + 1 \in Nat
      BY <2>1
    <3>. QED
      BY <3>1, <3>2
  <2>5. Counted(m)'
    <3>1. m \in Notifications /\ attempts'[m] = attempts[m] + 1
      BY <1>3, <2>2
    <3>2. CASE status' = [status EXCEPT ![m] = "sent"] /\ retries' = [retries EXCEPT ![m] = 0]
      <4>1. status'[m] = "sent"
        BY <3>1, <3>2
      <4>. QED
        BY <2>1, <3>1, <4>1 DEF Counted, MaxRetries
    <3>3. CASE /\ status' = [status EXCEPT ![m] =
                               IF Exhausted(retries[m] + 1) THEN "failed" ELSE @]
               /\ retries' = [retries EXCEPT ![m] = @ + 1]
      <4>1. retries'[m] = retries[m] + 1
        BY <3>1, <3>3
      <4>2. status'[m] = IF Exhausted(retries[m] + 1) THEN "failed" ELSE status[m]
        BY <3>1, <3>3
      <4>3. status'[m] = IF retries[m] + 1 >= MaxRetries THEN "failed" ELSE "pending"
        BY <1>3, <4>2 DEF Exhausted
      <4>. QED
        BY <2>1, <3>1, <4>1, <4>3 DEF Counted, MaxRetries
    <3>. QED
      BY <2>2, <3>2, <3>3
  <2>6. ASSUME NEW n \in Notifications, n # m
        PROVE  Counted(n)'
    <3>1. Counted(n)
      OBVIOUS
    <3>2. attempts'[n] = attempts[n]
      BY <2>2, <2>6
    <3>3. retries'[n] = retries[n]
      BY <2>2, <2>6
    <3>4. status'[n] = status[n]
      BY <2>2, <2>6
    <3>. QED
      BY <3>1, <3>2, <3>3, <3>4 DEF Counted
  <2>. QED
    BY <2>3, <2>4, <2>5, <2>6
<1>. QED
  BY <1>1, <1>2, <1>3 DEF Attempt

LEMMA StepInv == Inv /\ [Next]_vars => Inv'
<1>. SUFFICES ASSUME Inv, [Next]_vars PROVE Inv'
  OBVIOUS
<1>1. ASSUME NEW r \in Requests, NEW n \in Notifications, SendEmailNotification(r, n)
      PROVE  Inv'
  BY <1>1 DEF SendEmailNotification, Inv, Counted, Statuses, MaxRetries
<1>2. CASE ProcessNotification
  BY <1>2, AttemptStep DEF ProcessNotification
<1>3. CASE UNCHANGED <<status, retries, attempts>>
  BY <1>3, Unchanged
<1>. QED
  BY <1>1, <1>2, <1>3 DEF Next, QueueNotification, Reply, BeginPass, CleanUp, Signal, Drained,
     Stop, Exit, vars

\* ProcessQueue gives up after maxRetries failures, not before, and attempts nothing
\* that was sent or given up, however passes, handlers and the shutdown overlap.
THEOREM GivenUpInTime == Spec => []GivenUpAfterAllAttempts
<1>1. Inv => GivenUpAfterAllAttempts
  BY DEF Inv, Counted, GivenUpAfterAllAttempts
<1>. QED
  BY <1>1, InitInv, StepInv, PTL DEF Spec
-----------------------------------------------------------------------------
(***************************************************************************)
(* The order.                                                              *)
(***************************************************************************)
LEMMA Appended ==
    ASSUME NEW S, NEW s \in Seq(S), NEW e \in S
    PROVE  /\ Append(s, e) \in Seq(S)
           /\ DOMAIN Append(s, e) = DOMAIN s \cup {Len(s) + 1}
           /\ \A i \in DOMAIN s : Append(s, e)[i] = s[i] /\ i < Len(s) + 1
           /\ Append(s, e)[Len(s) + 1] = e
           /\ Len(Append(s, e)) = Len(s) + 1
  OBVIOUS

LEMMA InitOrder == Init => Order
<1>. SUFFICES ASSUME Init PROVE Order
  OBVIOUS
<1>. USE DEF Init, At
<1>1. TypeOK
  <2>1. req \in [Requests -> [pc : {"idle", "lock", "reply"}, id : Notifications]]
    BY QueueAssumption DEF NoRequest
  <2>2. proc \in [pc : {"select", "sending", "cleaning", "ended"}, at : Nat \ {0},
                  kept : Seq(Notifications)]
    OBVIOUS
  <2>. QED
    BY <2>1, <2>2, QueueAssumption DEF TypeOK, Unlocked, MaxRetries
<1>2. \A r \in Requests : Asks(r)
  BY DEF Asks, NoRequest
<1>. QED
  BY <1>1, <1>2 DEF Order, AcceptedOnce, Placed, Rounds, NoOvertaking, Pending

\* A handler builds a notification: it is nowhere yet.
LEMMA SendKeeps ==
    ASSUME Inv, Order, NEW r \in Requests, NEW n \in Notifications, SendEmailNotification(r, n)
    PROVE  Order'
<1>. USE DEF SendEmailNotification
<1>1. status' = [status EXCEPT ![n] = "pending"] /\ status[n] = "none"
  OBVIOUS
<1>2. TypeOK'
  BY DEF Order, TypeOK, Unlocked
<1>3. \A k \in DOMAIN accepted : accepted[k] \in Notifications /\ accepted[k] # n
  BY <1>1 DEF Order, TypeOK, AcceptedOnce
<1>4. \A m \in Notifications : m # n => status'[m] = status[m]
  BY <1>1 DEF Order, TypeOK
<1>5. \A i \in DOMAIN queue : queue[i] \in Notifications /\ queue[i] # n
  BY <1>3 DEF Order, TypeOK, Placed
<1>6. \A s \in Requests : Asks(s)'
  <2>. SUFFICES ASSUME NEW s \in Requests PROVE Asks(s)'
    OBVIOUS
  <2>1. attempts[n] = 0 /\ status'[n] = "pending"
    BY <1>1 DEF Inv, Counted, Order, TypeOK
  <2>2. \A q \in Requests : q # r => req'[q] = req[q]
    BY DEF Order, TypeOK
  <2>3. req'[r] = [pc |-> "lock", id |-> n]
    BY DEF Order, TypeOK
  <2>4. \A q \in Requests : req[q].pc = "lock" => req[q].id \in Notifications /\ req[q].id # n
    BY <1>1 DEF Order, TypeOK, Asks, Pending
  <2>5. CASE s = r
    BY <1>3, <2>1, <2>2, <2>3, <2>4, <2>5 DEF Asks, Pending
  <2>6. CASE s # r
    <3>1. Asks(s)
      BY DEF Order
    <3>. QED
      BY <1>4, <2>2, <2>3, <2>4, <2>6, <3>1 DEF Asks, Pending
  <2>. QED
    BY <2>5, <2>6
<1>7. AcceptedOnce'
  BY <1>3, <1>4 DEF Order, AcceptedOnce
<1>8. Placed'
  BY <1>3, <1>4 DEF Order, Placed, Pending
<1>9. Rounds'
  <2>1. CASE proc.pc = "cleaning"
    <3>1. \A i \in DOMAIN proc.kept : Pending(proc.kept[i])'
      BY <1>4, <1>5, <2>1 DEF Order, Rounds, Cleaning, Pending
    <3>2. Cleaning
      BY <2>1 DEF Order, Rounds
    <3>3. Cleaning'
      BY <1>4, <1>5, <3>1, <3>2 DEF Cleaning, Pending
    <3>. QED
      BY <2>1, <3>3 DEF Rounds, Unlocked
  <2>2. CASE proc.pc # "cleaning"
    BY <1>4, <1>5, <2>2 DEF Order, Rounds, Sending, Pending, Unlocked
  <2>. QED
    BY <2>1, <2>2
<1>10. NoOvertaking'
  BY <1>3, <1>4 DEF Order, NoOvertaking
<1>. QED
  BY <1>2, <1>6, <1>7, <1>8, <1>9, <1>10 DEF Order

\* The append under the mutex puts the notification behind all others, on both lists.
LEMMA QueueKeeps ==
    ASSUME Inv, Order, NEW r \in Requests, QueueNotification(r)
    PROVE  Order'
<1>. DEFINE n == req[r].id
<1>1. /\ n \in Notifications /\ Pending(n) /\ attempts[n] = 0
      /\ \A k \in DOMAIN accepted : accepted[k] # n
      /\ \A s \in Requests \ {r} : req[s].pc = "lock" => req[s].id # n
  BY DEF Order, TypeOK, Asks, QueueNotification
<1>2. /\ req' = [req EXCEPT ![r].pc = "reply"]
      /\ UNCHANGED <<status, retries, proc, main, attempts>>
      /\ Unlocked
  BY DEF QueueNotification
<1>3. /\ req' \in [Requests -> [pc : {"idle", "lock", "reply"}, id : Notifications]]
      /\ req'[r].pc = "reply"
      /\ \A s \in Requests : s # r => req'[s] = req[s]
  BY <1>2 DEF Order, TypeOK
<1>4. CASE ~HasRoom
  <2>1. UNCHANGED <<queue, accepted>>
    BY <1>4 DEF QueueNotification
  <2>2. TypeOK'
    BY <1>2, <1>3, <2>1 DEF Order, TypeOK, Unlocked
  <2>3. \A s \in Requests : Asks(s)'
    BY <1>2, <1>3, <2>1 DEF Order, Asks, Pending
  <2>. QED
    BY <1>2, <2>1, <2>2, <2>3
       DEF Order, AcceptedOnce, Placed, Rounds, Unlocked, Pending, NoOvertaking
<1>5. CASE HasRoom
  <2>1. queue' = Append(queue, n) /\ accepted' = Append(accepted, n)
    BY <1>5 DEF QueueNotification
  <2>2. queue \in Seq(Notifications) /\ accepted \in Seq(Notifications)
    BY DEF Order, TypeOK
  <2>3. /\ queue' \in Seq(Notifications)
        /\ DOMAIN queue' = DOMAIN queue \cup {Len(queue) + 1}
        /\ \A i \in DOMAIN queue : queue'[i] = queue[i] /\ i < Len(queue) + 1
        /\ queue'[Len(queue) + 1] = n
        /\ Len(queue') = Len(queue) + 1
    BY <1>1, <2>1, <2>2, Appended
  <2>4. /\ accepted' \in Seq(Notifications)
        /\ DOMAIN accepted' = DOMAIN accepted \cup {Len(accepted) + 1}
        /\ \A i \in DOMAIN accepted : accepted'[i] = accepted[i] /\ i < Len(accepted) + 1
        /\ accepted'[Len(accepted) + 1] = n
    BY <1>1, <2>1, <2>2, Appended
  <2>5. TypeOK'
    <3>1. Len(queue') <= QueueSize
      BY <1>5, <2>2, <2>3, QueueAssumption DEF HasRoom
    <3>. QED
      BY <1>2, <1>3, <2>3, <2>4, <3>1 DEF Order, TypeOK, Unlocked
  <2>6. \A s \in Requests : Asks(s)'
    <3>. SUFFICES ASSUME NEW s \in Requests, s # r PROVE Asks(s)'
      BY <1>3 DEF Asks
    <3>1. Asks(s)
      BY DEF Order
    <3>. QED
      BY <1>1, <1>2, <1>3, <2>4, <3>1 DEF Asks, Pending
  <2>7. AcceptedOnce'
    BY <1>1, <1>2, <2>2, <2>4 DEF Order, AcceptedOnce, Pending
  <2>8. \A i \in DOMAIN queue : queue[i] # n /\ \E k \in DOMAIN accepted : queue[i] = accepted[k]
    BY <1>1 DEF Order, Placed
  <2>9. Placed'
    <3>1. \A i \in DOMAIN queue' : \E k \in DOMAIN accepted' : queue'[i] = accepted'[k]
      BY <2>3, <2>4, <2>8
    <3>2. ASSUME NEW i \in DOMAIN queue', NEW j \in DOMAIN queue',
                 NEW k \in DOMAIN accepted', NEW l \in DOMAIN accepted',
                 i < j, queue'[i] = accepted'[k], queue'[j] = accepted'[l]
          PROVE  k < l
      <4>1. i \in DOMAIN queue /\ queue'[i] = queue[i] /\ queue[i] # n
        BY <2>2, <2>3, <2>8, <3>2
      <4>2. k \in DOMAIN accepted /\ accepted'[k] = accepted[k]
        BY <2>4, <3>2, <4>1
      <4>3. CASE j \in DOMAIN queue
        <5>1. l \in DOMAIN accepted /\ accepted'[l] = accepted[l] /\ queue'[j] = queue[j]
          BY <2>3, <2>4, <2>8, <3>2, <4>3
        <5>. QED
          BY <3>2, <4>1, <4>2, <4>3, <5>1 DEF Order, Placed
      <4>4. CASE j \notin DOMAIN queue
        <5>1. queue'[j] = n
          BY <2>3, <4>4
        <5>2. l = Len(accepted) + 1
          BY <1>1, <2>4, <3>2, <5>1
        <5>. QED
          BY <2>4, <4>2, <5>2
      <4>. QED
        BY <4>3, <4>4
    <3>3. ASSUME NEW k \in DOMAIN accepted', status'[accepted'[k]] = "pending"
          PROVE  \E i \in DOMAIN queue' : queue'[i] = accepted'[k]
      <4>1. CASE k \in DOMAIN accepted
        <5>1. accepted'[k] = accepted[k] /\ Pending(accepted[k])
          BY <1>2, <2>4, <3>3, <4>1 DEF Pending
        <5>2. PICK i \in DOMAIN queue : queue[i] = accepted[k]
          BY <4>1, <5>1 DEF Order, Placed
        <5>. QED
          BY <2>3, <5>1, <5>2
      <4>2. CASE k \notin DOMAIN accepted
        BY <2>3, <2>4, <4>2
      <4>. QED
        BY <4>1, <4>2
    <3>. QED
      BY <3>1, <3>2, <3>3 DEF Placed, Pending
  <2>10. Rounds'
    BY <1>1, <1>2, <2>3 DEF Order, Rounds, Unlocked, Pending
  <2>11. NoOvertaking'
    <3>. SUFFICES ASSUME NEW i \in DOMAIN accepted', NEW k \in DOMAIN accepted', i < k,
                         status'[accepted'[i]] = "pending"
                  PROVE  attempts'[accepted'[k]] <= attempts'[accepted'[i]]
      BY DEF NoOvertaking
    <3>1. i \in DOMAIN accepted /\ accepted'[i] = accepted[i] /\ accepted[i] \in Notifications
      BY <2>2, <2>4
    <3>2. CASE k \in DOMAIN accepted
      BY <1>2, <2>4, <3>1, <3>2 DEF Order, NoOvertaking
    <3>3. CASE k \notin DOMAIN accepted
      <4>1. attempts'[accepted'[k]] = 0
        BY <1>1, <1>2, <2>4, <3>3
      <4>2. attempts'[accepted'[i]] \in Nat
        BY <1>2, <3>1 DEF Order, TypeOK
      <4>. QED
        BY <4>1, <4>2
    <3>. QED
      BY <3>2, <3>3
  <2>. QED
    BY <2>5, <2>6, <2>7, <2>9, <2>10, <2>11 DEF Order
<1>. QED
  BY <1>4, <1>5

LEMMA ReplyKeeps ==
    ASSUME Order, NEW r \in Requests, Reply(r)
    PROVE  Order'
<1>. USE DEF Reply
<1>1. /\ req'[r].pc = "idle"
      /\ \A s \in Requests : s # r => req'[s] = req[s]
      /\ req' \in [Requests -> [pc : {"idle", "lock", "reply"}, id : Notifications]]
  BY QueueAssumption DEF Order, TypeOK, NoRequest
<1>2. TypeOK'
  BY <1>1 DEF Order, TypeOK, Unlocked
<1>3. \A s \in Requests : Asks(s)'
  BY <1>1 DEF Order, Asks, Pending
<1>. QED
  BY <1>2, <1>3
     DEF Order, AcceptedOnce, Placed, Rounds, Sending, Cleaning, Unlocked, Pending, NoOvertaking

\* The first round: nobody has had his turn.
LEMMA BeginKeeps ==
    ASSUME Order, BeginPass
    PROVE  Order'
<1>. USE DEF BeginPass, At
<1>1. 1 \in DOMAIN queue
  BY DEF Order, TypeOK
<1>2. proc' \in [pc : {"select", "sending", "cleaning", "ended"}, at : Nat \ {0},
                 kept : Seq(Notifications)]
  OBVIOUS
<1>3. TypeOK'
  BY <1>1, <1>2 DEF Order, TypeOK, Unlocked
<1>4. Sending' /\ proc'.pc = "sending"
  BY DEF Order, Rounds, Unlocked, Sending, Pending, TypeOK
<1>5. \A s \in Requests : Asks(s)'
  BY DEF Order, Asks, Pending
<1>. QED
  BY <1>3, <1>4, <1>5 DEF Order, AcceptedOnce, Placed, Rounds, Unlocked, Pending, NoOvertaking

LEMMA ShutdownKeeps ==
    ASSUME Order, Signal \/ Drained \/ Stop \/ Exit
    PROVE  Order'
<1>. USE DEF Signal, Drained, Stop, Exit, At
<1>1. TypeOK'
  <2>1. proc' \in [pc : {"select", "sending", "cleaning", "ended"}, at : Nat \ {0},
                   kept : Seq(Notifications)]
    <3>1. CASE proc' = proc
      BY <3>1 DEF Order, TypeOK
    <3>2. CASE proc' = [pc |-> "ended", at |-> 1, kept |-> <<>>]
      BY <3>2
    <3>. QED
      BY <3>1, <3>2
  <2>. QED
    BY <2>1 DEF Order, TypeOK, Unlocked
<1>2. \A s \in Requests : Asks(s)'
  BY DEF Order, Asks, Pending
<1>3. Rounds'
  <2>1. CASE proc' = proc
    BY <2>1 DEF Order, Rounds, Sending, Cleaning, Unlocked, Pending
  <2>2. CASE Stop
    BY <2>2 DEF Order, Rounds, Unlocked, Pending
  <2>. QED
    BY <2>1, <2>2
<1>. QED
  BY <1>1, <1>2, <1>3 DEF Order, AcceptedOnce, Placed, Pending, NoOvertaking

\* A round for notification m at its place of the queue.
LEMMA RoundFacts ==
    ASSUME Inv, Order, ProcessNotification, NEW m, m = queue[proc.at]
    PROVE  /\ proc.at \in DOMAIN queue /\ proc.at \in Nat \ {0} /\ m \in Notifications
           /\ Pending(m) /\ Sending
           /\ attempts[m] \in Nat /\ attempts'[m] = attempts[m] + 1
           /\ \A n \in Notifications : n # m => attempts'[n] = attempts[n] /\ status'[n] = status[n]
           /\ status' \in [Notifications -> Statuses] /\ status'[m] # "none"
           /\ attempts' \in [Notifications -> Nat]
           /\ retries' \in [Notifications -> 0..MaxRetries]
           /\ UNCHANGED <<queue, req, main, accepted>>
<1>. USE DEF ProcessNotification
<1>1. proc.at \in DOMAIN queue /\ proc.at \in Nat \ {0} /\ m \in Notifications
  BY DEF Order, TypeOK, Unlocked
<1>2. Sending /\ Pending(m)
  BY <1>1 DEF Order, Rounds, Sending
<1>3. /\ attempts' = [attempts EXCEPT ![m] = @ + 1]
      /\ \/ /\ status' = [status EXCEPT ![m] = "sent"]
            /\ retries' = [retries EXCEPT ![m] = 0]
         \/ /\ status' = [status EXCEPT ![m] =
                            IF Exhausted(retries[m] + 1) THEN "failed" ELSE @]
            /\ retries' = [retries EXCEPT ![m] = @ + 1]
  BY <1>2 DEF Attempt, Pending
<1>4. /\ attempts[m] \in Nat /\ attempts[m] < MaxRetries /\ retries[m] = attempts[m]
      /\ status[m] = "pending"
  BY <1>1, <1>2 DEF Inv, Counted, Pending
<1>5. Inv'
  BY AttemptStep
<1>6. \A n \in Notifications : n # m => attempts'[n] = attempts[n] /\ status'[n] = status[n]
  BY <1>1, <1>3 DEF Order, TypeOK
<1>7. attempts'[m] = attempts[m] + 1
  BY <1>1, <1>3 DEF Order, TypeOK
<1>8. status'[m] # "none"
  <2>1. CASE status' = [status EXCEPT ![m] = "sent"]
    BY <1>1, <2>1 DEF Order, TypeOK
  <2>2. CASE status' = [status EXCEPT ![m] = IF Exhausted(retries[m] + 1) THEN "failed" ELSE @]
    BY <1>1, <1>4, <2>2 DEF Order, TypeOK
  <2>. QED
    BY <1>3, <2>1, <2>2
<1>9. retries' \in [Notifications -> 0..MaxRetries]
  <2>1. retries \in [Notifications -> 0..MaxRetries]
    BY DEF Order, TypeOK
  <2>2. retries[m] + 1 \in 0..MaxRetries /\ 0 \in 0..MaxRetries
    BY <1>4 DEF MaxRetries
  <2>. QED
    BY <1>1, <1>3, <2>1, <2>2
<1>. QED
  BY <1>1, <1>2, <1>4, <1>5, <1>6, <1>7, <1>8, <1>9 DEF Inv

\* Nobody is attempted twice in a pass, and each before those behind him: who has had his
\* turn and is pending still is one attempt ahead until the others have had theirs.
LEMMA ProcessKeeps ==
    ASSUME Inv, Order, ProcessNotification
    PROVE  Order'
<1>. DEFINE m == queue[proc.at]
<1>1. /\ proc.at \in DOMAIN queue /\ proc.at \in Nat \ {0} /\ m \in Notifications
      /\ Pending(m) /\ Sending
      /\ attempts[m] \in Nat /\ attempts'[m] = attempts[m] + 1
      /\ \A n \in Notifications : n # m => attempts'[n] = attempts[n] /\ status'[n] = status[n]
      /\ status' \in [Notifications -> Statuses] /\ status'[m] # "none"
      /\ attempts' \in [Notifications -> Nat]
      /\ retries' \in [Notifications -> 0..MaxRetries]
      /\ UNCHANGED <<queue, req, main, accepted>>
  BY RoundFacts
<1>. HIDE DEF m
<1>2. queue \in Seq(Notifications) /\ accepted \in Seq(Notifications)
  BY DEF Order, TypeOK
<1>3. /\ \A i \in DOMAIN queue : queue[i] \in Notifications /\ i \in Nat
      /\ \A k \in DOMAIN accepted : accepted[k] \in Notifications
  BY <1>2
<1>4. \A i, j \in DOMAIN queue : queue[i] = queue[j] => i = j
  <2>. SUFFICES ASSUME NEW i \in DOMAIN queue, NEW j \in DOMAIN queue, queue[i] = queue[j], i < j
                PROVE  FALSE
    BY <1>3
  <2>1. PICK k \in DOMAIN accepted : queue[i] = accepted[k]
    BY DEF Order, Placed
  <2>2. k < k
    BY <2>1 DEF Order, Placed
  <2>. QED
    BY <1>2, <2>2
<1>5. \A n \in Notifications : status'[n] = "pending" => Pending(n)
  BY <1>1 DEF Pending
<1>6. /\ proc' \in [pc : {"select", "sending", "cleaning", "ended"}, at : Nat \ {0},
                     kept : Seq(Notifications)]
      /\ proc'.pc \in {"sending", "cleaning"} /\ proc'.at \in DOMAIN queue
      /\ proc'.pc = "sending" => proc'.at = proc.at + 1
      /\ proc'.pc = "cleaning" => proc'.at = 1 /\ proc'.kept = <<>>
  <2>1. proc \in [pc : {"select", "sending", "cleaning", "ended"}, at : Nat \ {0},
                  kept : Seq(Notifications)]
    BY DEF Order, TypeOK
  <2>2. CASE proc.at < Len(queue)
    <3>1. proc' = [proc EXCEPT !.at = proc.at + 1] /\ proc.pc = "sending"
      BY <2>2 DEF ProcessNotification
    <3>2. proc.at + 1 \in DOMAIN queue /\ proc.at + 1 \in Nat \ {0}
      BY <1>1, <1>2, <2>2
    <3>. QED
      BY <2>1, <3>1, <3>2
  <2>3. CASE ~(proc.at < Len(queue))
    <3>1. proc' = [pc |-> "cleaning", at |-> 1, kept |-> <<>>]
      BY <2>3 DEF ProcessNotification, At
    <3>2. 1 \in DOMAIN queue
      BY <1>1, <1>2
    <3>. QED
      BY <3>1, <3>2
  <2>. QED
    BY <2>2, <2>3
<1>7. TypeOK'
  BY <1>1, <1>2, <1>6 DEF Order, TypeOK, Unlocked, Statuses
<1>8. \A r \in Requests : Asks(r)'
  <2>. SUFFICES ASSUME NEW r \in Requests, req[r].pc = "lock" PROVE Asks(r)'
    BY <1>1 DEF Asks
  <2>1. Asks(r) /\ req[r].id \in Notifications
    BY DEF Order, TypeOK
  <2>2. req[r].id # m
    <3>1. PICK k \in DOMAIN accepted : m = accepted[k]
      BY <1>1 DEF Order, Placed, m
    <3>. QED
      BY <2>1, <3>1 DEF Asks
  <2>. QED
    BY <1>1, <2>1, <2>2 DEF Asks, Pending
<1>9. AcceptedOnce'
  BY <1>1, <1>3 DEF Order, AcceptedOnce
<1>10. Placed'
  BY <1>1, <1>3, <1>5 DEF Order, Placed, Pending
<1>11. \A i, k \in DOMAIN accepted :
          i < k /\ status'[accepted[i]] = "pending" =>
             attempts'[accepted[k]] <= attempts'[accepted[i]]
  <2>. SUFFICES ASSUME NEW i \in DOMAIN accepted, NEW k \in DOMAIN accepted, i < k,
                       status'[accepted[i]] = "pending"
                PROVE  attempts'[accepted[k]] <= attempts'[accepted[i]]
    OBVIOUS
  <2>1. accepted[i] # accepted[k] /\ i \in Nat /\ k \in Nat
    BY <1>2 DEF Order, AcceptedOnce
  <2>2. Pending(accepted[i]) /\ accepted[i] \in Notifications /\ accepted[k] \in Notifications
    BY <1>3, <1>5
  <2>3. attempts[accepted[k]] <= attempts[accepted[i]]
    BY <2>2 DEF Order, NoOvertaking, Pending
  <2>4. attempts[accepted[i]] \in Nat /\ attempts[accepted[k]] \in Nat
    BY <2>2 DEF Order, TypeOK
  <2>5. CASE accepted[i] = m
    <3>1. attempts'[accepted[k]] = attempts[accepted[k]]
      BY <1>1, <2>1, <2>2, <2>5
    <3>. QED
      BY <1>1, <2>3, <2>4, <2>5, <3>1
  <2>6. CASE accepted[k] = m
    <3>1. PICK j \in DOMAIN queue : queue[j] = accepted[i]
      BY <2>2 DEF Order, Placed
    <3>2. j < proc.at
      <4>1. j # proc.at
        BY <2>1, <2>6, <3>1 DEF m
      <4>2. ~(proc.at < j)
        <5>1. SUFFICES ASSUME proc.at < j PROVE k < i
          BY <2>1
        <5>. QED
          BY <1>1, <2>6, <3>1, <5>1 DEF Order, Placed, m
      <4>. QED
        BY <1>1, <1>3, <4>1, <4>2
    <3>3. attempts[m] < attempts[accepted[i]]
      BY <1>1, <2>2, <3>1, <3>2 DEF Sending, m
    <3>4. attempts'[accepted[i]] = attempts[accepted[i]]
      BY <1>1, <2>1, <2>2, <2>6
    <3>. QED
      BY <1>1, <2>4, <2>6, <3>3, <3>4
  <2>7. CASE accepted[i] # m /\ accepted[k] # m
    BY <1>1, <2>2, <2>3, <2>7
  <2>. QED
    BY <2>5, <2>6, <2>7
<1>12. ASSUME proc'.pc = "sending"
       PROVE  Sending'
  <2>1. proc'.at = proc.at + 1
    BY <1>6, <1>12
  <2>. SUFFICES ASSUME NEW j \in DOMAIN queue, proc.at + 1 <= j
                PROVE  /\ status'[queue[j]] = "pending"
                       /\ \A i \in DOMAIN queue :
                             i < proc.at + 1 /\ status'[queue[i]] = "pending" =>
                                attempts'[queue[j]] < attempts'[queue[i]]
    BY <1>1, <2>1 DEF Sending, Pending
  <2>2. proc.at < j /\ proc.at <= j /\ queue[j] \in Notifications
    BY <1>1, <1>3
  <2>3. queue[j] # m
    BY <1>1, <1>3, <1>4, <2>2 DEF m
  <2>4. /\ status'[queue[j]] = "pending" /\ attempts'[queue[j]] = attempts[queue[j]]
        /\ attempts[queue[j]] \in Nat
    BY <1>1, <2>2, <2>3 DEF Sending, Pending, Order, TypeOK
  <2>5. ASSUME NEW i \in DOMAIN queue, i < proc.at + 1, status'[queue[i]] = "pending"
        PROVE  attempts'[queue[j]] < attempts'[queue[i]]
    <3>1. CASE i = proc.at
      <4>1. PICK k \in DOMAIN accepted : m = accepted[k]
        BY <1>1 DEF Order, Placed, m
      <4>2. PICK l \in DOMAIN accepted : queue[j] = accepted[l]
        BY DEF Order, Placed
      <4>3. k < l
        BY <1>1, <2>2, <4>1, <4>2 DEF Order, Placed, m
      <4>4. attempts[queue[j]] <= attempts[m]
        BY <1>1, <4>1, <4>2, <4>3 DEF Order, NoOvertaking, Pending
      <4>. QED
        BY <1>1, <2>4, <3>1, <4>4 DEF m
    <3>2. CASE i # proc.at
      <4>1. i < proc.at /\ queue[i] # m /\ queue[i] \in Notifications
        BY <1>1, <1>3, <1>4, <2>5, <3>2 DEF m
      <4>2. attempts'[queue[i]] = attempts[queue[i]] /\ Pending(queue[i])
        BY <1>1, <1>5, <2>5, <4>1
      <4>3. attempts[queue[j]] < attempts[queue[i]]
        BY <1>1, <2>2, <4>1, <4>2 DEF Sending
      <4>. QED
        BY <2>4, <4>2, <4>3
    <3>. QED
      BY <3>1, <3>2
  <2>. QED
    BY <2>4, <2>5
<1>13. ASSUME proc'.pc = "cleaning"
       PROVE  Cleaning'
  <2>1. proc'.at = 1 /\ proc'.kept = <<>>
    BY <1>6, <1>13
  <2>. QED
    BY <1>1, <1>3, <1>2, <2>1 DEF Cleaning
<1>14. Rounds'
  BY <1>6, <1>12, <1>13 DEF Rounds, Unlocked
<1>15. NoOvertaking'
  BY <1>1, <1>11 DEF NoOvertaking
<1>. QED
  BY <1>7, <1>8, <1>9, <1>10, <1>14, <1>15 DEF Order

\* What is kept after one more round of the loop that removes.
KeptUpTo(kept, at) ==
    /\ kept \in Seq(Notifications) /\ Len(kept) <= at
    /\ \A i \in DOMAIN kept :
          /\ Pending(kept[i])
          /\ \E j \in DOMAIN queue : j <= at /\ kept[i] = queue[j]
    /\ \A i, k \in DOMAIN kept, j, l \in DOMAIN queue :
          i < k /\ kept[i] = queue[j] /\ kept[k] = queue[l] => j < l
    /\ \A j \in DOMAIN queue :
          j <= at /\ Pending(queue[j]) => \E i \in DOMAIN kept : kept[i] = queue[j]

LEMMA QueueOnce ==
    ASSUME Order
    PROVE  \A i, j \in DOMAIN queue : queue[i] = queue[j] => i = j
<1>1. queue \in Seq(Notifications) /\ accepted \in Seq(Notifications)
  BY DEF Order, TypeOK
<1>. SUFFICES ASSUME NEW i \in DOMAIN queue, NEW j \in DOMAIN queue, queue[i] = queue[j], i < j
              PROVE  FALSE
  BY <1>1
<1>2. PICK k \in DOMAIN accepted : queue[i] = accepted[k]
  BY DEF Order, Placed
<1>3. k < k
  BY <1>2 DEF Order, Placed
<1>. QED
  BY <1>1, <1>3

LEMMA RemainingKeeps ==
    ASSUME Order, proc.pc = "cleaning"
    PROVE  /\ proc.at \in DOMAIN queue /\ proc.at \in Nat \ {0}
           /\ KeptUpTo(Remaining(proc.kept, queue[proc.at]), proc.at)
<1>. DEFINE m    == queue[proc.at]
            kept == proc.kept
            next == Remaining(kept, m)
<1>1. proc.at \in DOMAIN queue /\ proc.at \in Nat \ {0} /\ m \in Notifications
  BY DEF Order, TypeOK, Unlocked
<1>2. queue \in Seq(Notifications) /\ kept \in Seq(Notifications) /\ Cleaning
  BY DEF Order, TypeOK, Rounds
<1>3. \A i, j \in DOMAIN queue : queue[i] = queue[j] => i = j
  BY QueueOnce
<1>4. CASE ~Pending(m)
  <2>1. next = kept
    BY <1>4 DEF Remaining, Pending
  <2>2. \A j \in DOMAIN queue : j <= proc.at /\ Pending(queue[j]) => j < proc.at
    BY <1>1, <1>2, <1>4
  <2>3. Len(kept) <= proc.at
    BY <1>1, <1>2 DEF Cleaning
  <2>4. \A i \in DOMAIN kept :
          /\ Pending(kept[i])
          /\ \E j \in DOMAIN queue : j <= proc.at /\ kept[i] = queue[j]
    BY <1>1, <1>2 DEF Cleaning
  <2>. HIDE DEF m, next
  <2>. QED
    BY <1>1, <1>2, <2>1, <2>2, <2>3, <2>4 DEF KeptUpTo, Cleaning, next, m
<1>5. CASE Pending(m)
  <2>1. next = Append(kept, m)
    BY <1>5 DEF Remaining, Pending
  <2>2. /\ next \in Seq(Notifications)
        /\ DOMAIN next = DOMAIN kept \cup {Len(kept) + 1}
        /\ \A i \in DOMAIN kept : next[i] = kept[i] /\ i < Len(kept) + 1
        /\ next[Len(kept) + 1] = m
        /\ Len(next) = Len(kept) + 1
    BY <1>1, <1>2, <2>1, Appended
  <2>. HIDE DEF next
  <2>3. Len(next) <= proc.at
    BY <1>1, <1>2, <2>2 DEF Cleaning
  <2>4. ASSUME NEW i \in DOMAIN next
        PROVE  Pending(next[i]) /\ \E j \in DOMAIN queue : j <= proc.at /\ next[i] = queue[j]
    <3>1. CASE i \in DOMAIN kept
      <4>1. PICK j \in DOMAIN queue : j < proc.at /\ kept[i] = queue[j]
        BY <1>2, <3>1 DEF Cleaning
      <4>. QED
        BY <1>1, <1>2, <2>2, <3>1, <4>1 DEF Cleaning
    <3>2. CASE i \notin DOMAIN kept
      <4>1. next[i] = m
        BY <2>2, <3>2
      <4>. QED
        BY <1>1, <1>5, <4>1
    <3>. QED
      BY <3>1, <3>2
  <2>5. ASSUME NEW i \in DOMAIN next, NEW k \in DOMAIN next,
               NEW j \in DOMAIN queue, NEW l \in DOMAIN queue,
               i < k, next[i] = queue[j], next[k] = queue[l]
        PROVE  j < l
    <3>1. i \in DOMAIN kept /\ next[i] = kept[i]
      <4>1. i # Len(kept) + 1
        BY <1>2, <2>2, <2>5
      <4>. QED
        BY <2>2, <4>1
    <3>2. PICK h \in DOMAIN queue : h < proc.at /\ kept[i] = queue[h]
      BY <1>2, <3>1 DEF Cleaning
    <3>3. j < proc.at
      BY <1>3, <2>5, <3>1, <3>2
    <3>4. CASE k \in DOMAIN kept
      BY <1>2, <2>2, <2>5, <3>1, <3>4 DEF Cleaning
    <3>5. CASE k \notin DOMAIN kept
      <4>1. next[k] = m
        BY <2>2, <3>5
      <4>2. l = proc.at
        BY <1>1, <1>3, <2>5, <4>1
      <4>. QED
        BY <3>3, <4>2
    <3>. QED
      BY <3>4, <3>5
  <2>6. ASSUME NEW j \in DOMAIN queue, j <= proc.at, Pending(queue[j])
        PROVE  \E i \in DOMAIN next : next[i] = queue[j]
    <3>1. CASE j = proc.at
      BY <2>2, <3>1
    <3>2. CASE j # proc.at
      <4>1. j < proc.at
        BY <1>1, <1>2, <2>6, <3>2
      <4>2. PICK i \in DOMAIN kept : kept[i] = queue[j]
        BY <1>2, <2>6, <4>1 DEF Cleaning
      <4>. QED
        BY <2>2, <4>2
    <3>. QED
      BY <3>1, <3>2
  <2>7. KeptUpTo(next, proc.at)
    BY <2>2, <2>3, <2>4, <2>5, <2>6 DEF KeptUpTo
  <2>. QED
    BY <1>1, <2>7 DEF next
<1>. QED
  BY <1>4, <1>5

\* The removal of what was sent or given up loses nobody and keeps the order.
LEMMA CleanUpKeeps ==
    ASSUME Inv, Order, CleanUp
    PROVE  Order'
<1>. DEFINE next == Remaining(proc.kept, queue[proc.at])
<1>1. /\ proc.at \in DOMAIN queue /\ proc.at \in Nat \ {0} /\ proc.pc = "cleaning"
      /\ KeptUpTo(next, proc.at)
  BY RemainingKeeps DEF CleanUp
<1>2. UNCHANGED <<status, retries, req, main, accepted, attempts>>
  BY DEF CleanUp
<1>3. queue \in Seq(Notifications) /\ Len(queue) <= QueueSize /\ accepted \in Seq(Notifications)
  BY DEF Order, TypeOK
<1>4. \A r \in Requests : Asks(r)'
  BY <1>2 DEF Order, Asks, Pending
<1>5. AcceptedOnce' /\ NoOvertaking'
  BY <1>2 DEF Order, AcceptedOnce, NoOvertaking
<1>6. CASE proc.at < Len(queue)
  <2>1. proc' = [proc EXCEPT !.at = proc.at + 1, !.kept = next] /\ queue' = queue
    BY <1>6 DEF CleanUp
  <2>. HIDE DEF next
  <2>2. /\ proc.at + 1 \in DOMAIN queue /\ proc.at + 1 \in Nat \ {0}
        /\ next \in Seq(Notifications)
    BY <1>1, <1>3, <1>6 DEF KeptUpTo
  <2>3. /\ proc' \in [pc : {"select", "sending", "cleaning", "ended"}, at : Nat \ {0},
                       kept : Seq(Notifications)]
        /\ proc'.pc = "cleaning" /\ proc'.at = proc.at + 1 /\ proc'.kept = next
    BY <1>1, <2>1, <2>2 DEF Order, TypeOK
  <2>4. TypeOK'
    BY <1>2, <2>1, <2>2, <2>3 DEF Order, TypeOK, Unlocked
  <2>5. \A j \in DOMAIN queue : j \in Nat /\ (j < proc.at + 1 <=> j <= proc.at)
    BY <1>1, <1>3
  <2>6. Len(next) < proc.at + 1
    BY <1>1, <2>2 DEF KeptUpTo
  <2>7. Cleaning'
    BY <1>1, <1>2, <2>1, <2>3, <2>5, <2>6 DEF KeptUpTo, Cleaning, Pending
  <2>8. Rounds'
    BY <2>3, <2>7 DEF Rounds, Unlocked
  <2>9. Placed'
    BY <1>2, <2>1 DEF Order, Placed, Pending
  <2>. QED
    BY <1>4, <1>5, <2>4, <2>8, <2>9 DEF Order
<1>7. CASE ~(proc.at < Len(queue))
  <2>1. proc' = [pc |-> "select", at |-> 1, kept |-> <<>>] /\ queue' = next
    BY <1>7 DEF CleanUp, At, AfterPass
  <2>. HIDE DEF next
  <2>2. proc.at = Len(queue) /\ \A j \in DOMAIN queue : j <= proc.at
    BY <1>1, <1>3, <1>7
  <2>3. /\ next \in Seq(Notifications) /\ Len(next) <= QueueSize
        /\ \A i \in DOMAIN next : Pending(next[i]) /\ \E j \in DOMAIN queue : next[i] = queue[j]
        /\ \A i, k \in DOMAIN next, j, l \in DOMAIN queue :
              i < k /\ next[i] = queue[j] /\ next[k] = queue[l] => j < l
        /\ \A j \in DOMAIN queue :
              Pending(queue[j]) => \E i \in DOMAIN next : next[i] = queue[j]
    BY <1>1, <1>3, <2>2, QueueAssumption DEF KeptUpTo
  <2>4. TypeOK'
    <3>1. proc' \in [pc : {"select", "sending", "cleaning", "ended"}, at : Nat \ {0},
                     kept : Seq(Notifications)]
      BY <2>1
    <3>. QED
      BY <1>2, <2>1, <2>3, <3>1 DEF Order, TypeOK, Unlocked
  <2>5. \A i \in DOMAIN next : \E k \in DOMAIN accepted : next[i] = accepted[k]
    BY <2>3 DEF Order, Placed
  <2>6. ASSUME NEW i \in DOMAIN next, NEW j \in DOMAIN next,
               NEW k \in DOMAIN accepted, NEW l \in DOMAIN accepted,
               i < j, next[i] = accepted[k], next[j] = accepted[l]
        PROVE  k < l
    <3>1. PICK a \in DOMAIN queue, b \in DOMAIN queue : next[i] = queue[a] /\ next[j] = queue[b]
      BY <2>3
    <3>2. a < b
      BY <2>3, <2>6, <3>1
    <3>. QED
      BY <2>6, <3>1, <3>2 DEF Order, Placed
  <2>7. ASSUME NEW k \in DOMAIN accepted, Pending(accepted[k])
        PROVE  \E i \in DOMAIN next : next[i] = accepted[k]
    <3>1. PICK j \in DOMAIN queue : queue[j] = accepted[k]
      BY <2>7 DEF Order, Placed
    <3>. QED
      BY <2>3, <2>7, <3>1
  <2>8. Placed'
    BY <1>2, <2>1, <2>5, <2>6, <2>7 DEF Placed, Pending
  <2>9. Rounds'
    BY <1>2, <2>1, <2>3 DEF Rounds, Unlocked, Pending
  <2>. QED
    BY <1>4, <1>5, <2>4, <2>8, <2>9 DEF Order
<1>. QED
  BY <1>6, <1>7

LEMMA StepOrder == Inv /\ Order /\ [Next]_vars => Order'
<1>. SUFFICES ASSUME Inv, Order, [Next]_vars PROVE Order'
  OBVIOUS
<1>1. CASE UNCHANGED vars
  BY <1>1 DEF vars, Order, TypeOK, Asks, AcceptedOnce, Placed, Rounds, Sending, Cleaning, Unlocked,
     Pending, NoOvertaking
<1>2. ASSUME NEW r \in Requests, NEW n \in Notifications, SendEmailNotification(r, n)
      PROVE  Order'
  BY <1>2, SendKeeps
<1>3. ASSUME NEW r \in Requests, QueueNotification(r)
      PROVE  Order'
  BY <1>3, QueueKeeps
<1>4. ASSUME NEW r \in Requests, Reply(r)
      PROVE  Order'
  BY <1>4, ReplyKeeps
<1>5. CASE BeginPass \/ ProcessNotification \/ CleanUp
  BY <1>5, BeginKeeps, ProcessKeeps, CleanUpKeeps
<1>6. CASE Signal \/ Drained \/ Stop \/ Exit
  BY <1>6, ShutdownKeeps
<1>. QED
  BY <1>1, <1>2, <1>3, <1>4, <1>5, <1>6 DEF Next

\* ProcessQueue and QueueNotification keep every accepted e-mail that is pending, and
\* nothing else, in a queue within its limit; attempt it three times at most before
\* they give it up; and never attempt one more often than one accepted before it.
THEOREM QueueKeptInOrder == Spec => []KeptInOrder
<1>1. Inv /\ Order => KeptInOrder
  <2>. SUFFICES ASSUME Inv, Order PROVE KeptInOrder
    OBVIOUS
  <2>1. GivenUpAfterAllAttempts
    BY DEF Inv, Counted, GivenUpAfterAllAttempts
  <2>2. QueueHoldsThePending
    <3>1. \A i \in DOMAIN queue : \E k \in DOMAIN accepted : queue[i] = accepted[k]
      BY DEF Order, Placed
    <3>2. \A k \in DOMAIN accepted :
            Pending(accepted[k]) => \E i \in DOMAIN queue : queue[i] = accepted[k]
      BY DEF Order, Placed
    <3>3. Unlocked => \A i \in DOMAIN queue : Pending(queue[i])
      BY DEF Order, Rounds
    <3>. QED
      BY <3>1, <3>2, <3>3 DEF QueueHoldsThePending, Accepted, ToSet, Pending
  <2>. QED
    BY <2>1, <2>2 DEF KeptInOrder, Order
<1>. QED
  BY <1>1, InitInv, StepInv, InitOrder, StepOrder, PTL DEF Spec
=============================================================================
