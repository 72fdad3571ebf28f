------------------------------ MODULE Api_proofs ----------------------------
(***************************************************************************)
(* What holds of the limiter for any number of requests at a time, any limit *)
(* and any durations: the types, that a counter gets its expiry, that a lock *)
(* ends by its time alone, and that a window of the counter admits no more *)
(* than its limit if it is no longer than the lockout.  Then what holds of *)
(* the breaker of HealthProbes; and last what every route of ApiServer keeps *)
(* to, with and without Redis, wherever a call fails.                      *)
(***************************************************************************)
EXTENDS MCApi, Sequences, FiniteSetTheorems, TLAPS

ReqType == [pc : {"idle", "delete", "incr", "reset", "expire", "lock"},
            left : 0..LockoutDuration]

\* The history `alone' tells the behaviours without overlap.
OneAtATime ==
    alone => \A r, q \in Requests : req[r].pc # "idle" /\ req[q].pc # "idle" => r = q

\* What a request without company does to the lock: it deletes one that has run
\* out, and the one it is about to set lasts no less than the one that is there.
LockOrder ==
    alone => \A r \in Requests :
                /\ req[r].pc = "delete" => ~InForce
                /\ req[r].pc = "lock" => req[r].left >= locked.left

Inv == TypeOK /\ CounterHasWindow /\ OneAtATime /\ LockOrder

\* The counter is at its limit only under a lock that lasts as long as it, or
\* with the request under way that will set it.
UnderLock ==
    attempts.count = MaxAttempts =>
        \/ \E r \in Requests : req[r].pc \in {"expire", "lock"}
        \/ locked.left >= attempts.ttl

InWindow ==
    alone /\ clean =>
        /\ attempts.count <= MaxAttempts
        /\ UnderLock
        /\ \A r \in Requests :
              /\ req[r].pc # "reset"
              /\ req[r].pc \in {"delete", "incr"} => attempts.count < MaxAttempts
              /\ req[r].pc = "expire" => attempts.count = 1 /\ attempts.ttl = NoTTL
              /\ req[r].pc = "lock" => req[r].left >= attempts.ttl

LEMMA Numbers ==
    /\ Cap \in Nat /\ Cap >= MaxAttempts /\ MaxAttempts \in Nat /\ MaxAttempts >= 1
    /\ LockoutDuration \in Nat /\ LockoutDuration >= 1
    /\ ResetWindow \in Nat /\ ResetWindow >= 1
    /\ NoTTL = ResetWindow + 1
<1>1. Cardinality(Requests) \in Nat
  BY LimiterAssumption, FS_CardinalityType
<1>. QED
  BY <1>1, LimiterAssumption DEF Cap, NoTTL

LEMMA InitInv == Init => Inv /\ InWindow
  BY Numbers DEF Init, Inv, InWindow, TypeOK, CounterHasWindow, OneAtATime, LockOrder,
         UnderLock, NoAttempts, NoLock, Idle, InForce

\* A request takes its next command.
LEMMA Turn ==
    ASSUME TypeOK, NEW r \in Requests, NEW new \in ReqType, req' = [req EXCEPT ![r] = new]
    PROVE  /\ req' \in [Requests -> ReqType]
           /\ req'[r] = new
           /\ \A q \in Requests \ {r} : req'[q] = req[q]
  BY DEF TypeOK, ReqType

LEMMA Going ==
    ASSUME TypeOK, NEW r \in Requests,
           NEW l \in {"idle", "delete", "incr", "reset", "expire", "lock"}, Goto(r, l)
    PROVE  /\ req' \in [Requests -> ReqType]
           /\ req'[r].pc = l
           /\ req'[r].left = req[r].left
           /\ \A q \in Requests \ {r} : req'[q] = req[q]
<1>. DEFINE new == [req[r] EXCEPT !.pc = l]
<1>1. req[r] \in ReqType
  BY DEF TypeOK, ReqType
<1>2. req' = [req EXCEPT ![r] = new]
  BY DEF Goto
<1>3. new \in ReqType /\ new.pc = l /\ new.left = req[r].left
  BY <1>1 DEF ReqType
<1>. HIDE DEF new
<1>. QED
  BY <1>2, <1>3, Turn

\* The steps of a request, each with what it keeps.
LEMMA ArriveStep ==
    ASSUME Inv, NEW r \in Requests, GetLock(r) \/ GetFails(r)
    PROVE  Inv' /\ (InWindow => InWindow')
<1>. USE DEF Inv
<1>. DEFINE l == IF GetLock(r) THEN NextAfterGet ELSE "incr"
<1>1. /\ req[r].pc = "idle" /\ UNCHANGED <<attempts, locked>>
      /\ alone' \in BOOLEAN /\ (alone' => alone /\ \A q \in Requests : req[q].pc = "idle")
      /\ clean' \in BOOLEAN /\ (clean' => clean /\ GetLock(r))
  <2>1. req[r].pc = "idle" /\ UNCHANGED <<attempts, locked>>
    BY DEF GetLock, GetFails, Arrives, Blocked
  <2>2. alone' = (alone /\ \A q \in Requests : req[q].pc = "idle")
    BY DEF GetLock, GetFails, Arrives
  <2>3. alone' \in BOOLEAN /\ (alone' => alone /\ \A q \in Requests : req[q].pc = "idle")
    BY <2>2, Zenon
  <2>4. clean \in BOOLEAN
    BY DEF TypeOK
  <2>5. CASE GetLock(r)
    BY <2>1, <2>3, <2>4, <2>5, Zenon DEF GetLock
  <2>6. CASE GetFails(r)
    BY <2>1, <2>3, <2>6, Zenon DEF GetFails
  <2>. QED
    BY <2>5, <2>6
<1>2. Goto(r, l) /\ l \in {"idle", "delete", "incr"}
  BY DEF GetLock, GetFails, Arrives, NextAfterGet
<1>3. GetLock(r) => (l \in {"delete", "incr"} => ~InForce)
  BY DEF NextAfterGet
<1>4. l = "delete" => ~InForce
  BY DEF NextAfterGet
<1>. HIDE DEF l
<1>5. /\ req' \in [Requests -> ReqType]
      /\ req'[r].pc = l
      /\ \A q \in Requests \ {r} : req'[q] = req[q]
  BY <1>2, Going
<1>6. TypeOK'
  BY <1>1, <1>5 DEF TypeOK, ReqType
<1>7. CounterHasWindow'
  BY <1>1, <1>5 DEF CounterHasWindow
<1>8. OneAtATime' /\ LockOrder'
  BY <1>1, <1>2, <1>4, <1>5 DEF OneAtATime, LockOrder, InForce
<1>9. ASSUME InWindow PROVE InWindow'
  <2>. SUFFICES ASSUME alone', clean' PROVE InWindow'
    BY DEF InWindow
  <2>1. alone /\ clean /\ GetLock(r) /\ \A q \in Requests : req[q].pc = "idle"
    BY <1>1
  <2>2. attempts.count <= MaxAttempts /\ (attempts.count = MaxAttempts => locked.left >= attempts.ttl)
    BY <1>9, <2>1 DEF InWindow, UnderLock
  <2>3. attempts.count = MaxAttempts => InForce
    BY <2>2, Numbers DEF TypeOK, InForce
  <2>4. l \in {"delete", "incr"} => attempts.count < MaxAttempts
    BY <2>1, <2>2, <2>3, <1>3, Numbers DEF TypeOK
  <2>5. \A q \in Requests : q # r => req'[q].pc = "idle"
    BY <2>1, <1>5
  <2>. QED
    BY <2>2, <2>4, <2>5, <1>1, <1>2, <1>5 DEF InWindow, UnderLock
<1>. QED
  BY <1>6, <1>7, <1>8, <1>9

LEMMA DeleteStep ==
    ASSUME Inv, NEW r \in Requests, DeleteLock(r)
    PROVE  Inv' /\ (InWindow => InWindow')
<1>. USE DEF Inv
<1>1. /\ req[r].pc = "delete" /\ Goto(r, "incr") /\ UNCHANGED <<attempts, alone>>
      /\ locked' \in {locked, NoLock} /\ clean' \in BOOLEAN /\ (clean' => clean)
  <2>1. clean \in BOOLEAN
    BY DEF TypeOK
  <2>2. req[r].pc = "delete" /\ Goto(r, "incr") /\ UNCHANGED <<attempts, alone>>
    BY Zenon DEF DeleteLock
  <2>3. CASE locked' = NoLock /\ clean' = clean
    BY <2>1, <2>2, <2>3, Zenon
  <2>4. CASE clean' = FALSE /\ locked' = locked
    BY <2>2, <2>4, Zenon
  <2>. QED
    BY <2>3, <2>4, Zenon DEF DeleteLock
<1>2. /\ req' \in [Requests -> ReqType]
      /\ req'[r].pc = "incr"
      /\ \A q \in Requests \ {r} : req'[q] = req[q]
  BY <1>1, Going
<1>3. locked' \in [ttl : 0..LockoutDuration, left : 0..LockoutDuration] /\ locked'.left <= locked'.ttl
      /\ locked'.left <= locked.left
  BY <1>1, Numbers DEF NoLock, TypeOK
<1>4. TypeOK'
  BY <1>1, <1>2, <1>3 DEF TypeOK, ReqType
<1>5. CounterHasWindow'
  BY <1>1, <1>2 DEF CounterHasWindow
<1>6. OneAtATime'
  BY <1>1, <1>2 DEF OneAtATime
<1>7. LockOrder'
  BY <1>1, <1>2, <1>6 DEF OneAtATime, LockOrder
<1>8. ASSUME InWindow PROVE InWindow'
  BY <1>1, <1>2, <1>8 DEF InWindow, UnderLock, OneAtATime, TypeOK
<1>. QED
  BY <1>4, <1>5, <1>6, <1>7, <1>8
\* A request that has been counted: it is served, or sets the expiry or the lock.
LEMMA Counted ==
    ASSUME NEW n \in 0..Cap
    PROVE  /\ Decide(n) \in ReqType
           /\ Decide(n).pc = IF n >= MaxAttempts THEN "lock" ELSE "idle"
           /\ n >= MaxAttempts => Decide(n).left = LockoutDuration
           /\ AfterIncr(n) \in ReqType
           /\ AfterIncr(n).pc = IF n = 1 THEN "expire"
                                ELSE IF n >= MaxAttempts THEN "lock" ELSE "idle"
           /\ n # 1 /\ n >= MaxAttempts => AfterIncr(n).left = LockoutDuration
  BY Numbers DEF Decide, AfterIncr, Idle, ReqType

LEMMA IncrementedType ==
    ASSUME TypeOK
    PROVE  /\ Incremented \in [count : 0..Cap, ttl : 0..NoTTL]
           /\ Incremented.count \in 1..Cap /\ Incremented.count <= attempts.count + 1
           /\ attempts.count < Cap => Incremented.count = attempts.count + 1
           /\ Incremented.ttl = IF attempts.count = 0 THEN NoTTL ELSE attempts.ttl
           /\ Incremented.ttl # 0
           /\ attempts.count = 0 => Incremented.count = 1
  BY Numbers DEF Incremented, TypeOK

LEMMA IncrStep ==
    ASSUME Inv, NEW r \in Requests, Incr(r)
    PROVE  Inv' /\ (ResetWindow <= LockoutDuration /\ InWindow => InWindow')
<1>. USE DEF Inv
<1>1. req[r].pc = "incr" /\ locked' = locked /\ alone' = alone
  BY Zenon DEF Incr
<1>2. CASE clean' = clean /\ attempts' = Incremented
           /\ req' = [req EXCEPT ![r] = AfterIncr(Incremented.count)]
  <2>. DEFINE n == Incremented.count
  <2>1. n \in 0..Cap /\ n >= 1
    BY IncrementedType, Numbers
  <2>2. /\ AfterIncr(n) \in ReqType
        /\ AfterIncr(n).pc = IF n = 1 THEN "expire"
                             ELSE IF n >= MaxAttempts THEN "lock" ELSE "idle"
        /\ n # 1 /\ n >= MaxAttempts => AfterIncr(n).left = LockoutDuration
    BY <2>1, Counted
  <2>3. /\ req' \in [Requests -> ReqType]
        /\ req'[r] = AfterIncr(n)
        /\ \A q \in Requests \ {r} : req'[q] = req[q]
    BY <1>2, <2>2, Turn
  <2>4. TypeOK'
    BY <1>1, <1>2, <2>1, <2>3, IncrementedType, Numbers DEF TypeOK, ReqType
  <2>5. CounterHasWindow'
    BY <1>1, <1>2, <2>2, <2>3, IncrementedType DEF CounterHasWindow
  <2>6. OneAtATime'
    BY <1>1, <2>3 DEF OneAtATime
  <2>7. LockOrder'
    BY <1>1, <2>1, <2>2, <2>3, Numbers DEF OneAtATime, LockOrder, InForce, TypeOK
  <2>8. ASSUME ResetWindow <= LockoutDuration, InWindow PROVE InWindow'
    <3>. SUFFICES ASSUME alone, clean PROVE InWindow'
      BY <1>1, <1>2 DEF InWindow
    <3>1. attempts.count < MaxAttempts
      BY <2>8, <1>1 DEF InWindow
    <3>2. n = attempts.count + 1 /\ n <= MaxAttempts
      BY <3>1, IncrementedType, Numbers DEF TypeOK
    <3>3. \A q \in Requests : q # r => req'[q].pc = "idle"
      BY <1>1, <2>3 DEF OneAtATime, TypeOK, ReqType
    <3>4. attempts.count # 0 => attempts.ttl # NoTTL
      BY <1>1, <3>3, <2>3 DEF CounterHasWindow
    <3>a. n = 1 => attempts'.ttl = NoTTL
      BY <1>2, <3>2, IncrementedType DEF TypeOK
    <3>5. n # 1 => attempts'.ttl <= LockoutDuration
      BY <1>2, <2>8, <3>2, <3>4, IncrementedType, Numbers DEF TypeOK
    <3>. QED
      BY <1>2, <2>1, <2>2, <2>3, <3>2, <3>3, <3>a, <3>5, Numbers DEF InWindow, UnderLock
  <2>. QED
    BY <2>4, <2>5, <2>6, <2>7, <2>8
<1>3. CASE clean' = FALSE /\ attempts' \in {attempts, Incremented} /\ Goto(r, "reset")
  <2>1. /\ req' \in [Requests -> ReqType]
        /\ req'[r].pc = "reset"
        /\ \A q \in Requests \ {r} : req'[q] = req[q]
    BY <1>3, Going
  <2>2. TypeOK'
    <3>1. attempts' \in [count : 0..Cap, ttl : 0..NoTTL] /\ (attempts'.count = 0 <=> attempts'.ttl = 0)
      BY <1>3, IncrementedType, Numbers DEF TypeOK
    <3>2. clean' \in BOOLEAN /\ alone' \in BOOLEAN
      BY <1>1, <1>3, Zenon DEF TypeOK
    <3>. QED
      BY <1>1, <2>1, <3>1, <3>2 DEF TypeOK, ReqType
  <2>3. CounterHasWindow' /\ InWindow'
    <3>1. ~clean'
      BY <1>3
    <3>2. CounterHasWindow'
      BY <3>1, Zenon DEF CounterHasWindow
    <3>3. InWindow'
      BY <3>1, Zenon DEF InWindow
    <3>. QED
      BY <3>2, <3>3
  <2>4. OneAtATime'
    BY <1>1, <2>1 DEF OneAtATime
  <2>5. LockOrder'
    BY <1>1, <2>1 DEF LockOrder, InForce
  <2>. QED
    BY <2>2, <2>3, <2>4, <2>5
<1>. QED
  BY <1>2, <1>3, Zenon DEF Incr

LEMMA ResetStep ==
    ASSUME Inv, NEW r \in Requests, ResetCounter(r)
    PROVE  Inv' /\ (InWindow => InWindow')
<1>. USE DEF Inv
<1>. DEFINE one == [count |-> 1, ttl |-> ResetWindow]
<1>1. /\ req[r].pc = "reset" /\ req' = [req EXCEPT ![r] = Decide(1)]
      /\ locked' = locked /\ clean' = clean /\ alone' = alone
      /\ (attempts' = one \/ attempts' = attempts)
  BY Zenon DEF ResetCounter
<1>2. one \in [count : 0..Cap, ttl : 0..NoTTL] /\ one.count = 1 /\ one.ttl \in 1..ResetWindow
  BY Numbers
<1>. HIDE DEF one
<1>3. 1 \in 0..Cap
  BY Numbers
<1>4. /\ Decide(1) \in ReqType
      /\ Decide(1).pc = IF 1 >= MaxAttempts THEN "lock" ELSE "idle"
      /\ 1 >= MaxAttempts => Decide(1).left = LockoutDuration
  BY <1>3, Counted
<1>5. /\ req' \in [Requests -> ReqType]
      /\ req'[r] = Decide(1)
      /\ \A q \in Requests \ {r} : req'[q] = req[q]
  BY <1>1, <1>4, Turn
<1>6. TypeOK'
  BY <1>1, <1>2, <1>5 DEF TypeOK, ReqType
<1>7. CounterHasWindow'
  BY <1>1, <1>2, <1>5, Numbers DEF CounterHasWindow, TypeOK
<1>8. OneAtATime'
  BY <1>1, <1>5 DEF OneAtATime
<1>9. LockOrder'
  BY <1>1, <1>4, <1>5, Numbers DEF LockOrder, InForce, TypeOK
<1>10. InWindow => InWindow'
  BY <1>1 DEF InWindow
<1>. QED
  BY <1>6, <1>7, <1>8, <1>9, <1>10
LEMMA ExpireStep ==
    ASSUME Inv, NEW r \in Requests, ExpireCounter(r)
    PROVE  Inv' /\ (ResetWindow <= LockoutDuration /\ InWindow => InWindow')
<1>. USE DEF Inv
<1>. DEFINE renewed == [attempts EXCEPT !.ttl = ResetWindow]
<1>1. /\ req[r].pc = "expire" /\ req' = [req EXCEPT ![r] = Decide(1)]
      /\ locked' = locked /\ alone' = alone
      /\ \/ clean' = clean /\ attempts' = IF attempts.count = 0 THEN attempts ELSE renewed
         \/ clean' = FALSE /\ attempts' = attempts
  BY Zenon DEF ExpireCounter
<1>2. /\ renewed \in [count : 0..Cap, ttl : 0..NoTTL]
      /\ renewed.count = attempts.count /\ renewed.ttl = ResetWindow
  BY Numbers DEF TypeOK
<1>. HIDE DEF renewed
<1>3. 1 \in 0..Cap
  BY Numbers
<1>4. /\ Decide(1) \in ReqType
      /\ Decide(1).pc = IF 1 >= MaxAttempts THEN "lock" ELSE "idle"
      /\ 1 >= MaxAttempts => Decide(1).left = LockoutDuration
  BY <1>3, Counted
<1>5. /\ req' \in [Requests -> ReqType]
      /\ req'[r] = Decide(1)
      /\ \A q \in Requests \ {r} : req'[q] = req[q]
  BY <1>1, <1>4, Turn
<1>6. clean' \in BOOLEAN
  BY <1>1, Zenon DEF TypeOK
<1>7. TypeOK'
  BY <1>1, <1>2, <1>5, <1>6, Numbers DEF TypeOK, ReqType
<1>8. CounterHasWindow'
  <2>1. CASE clean' = FALSE
    BY <2>1, Zenon DEF CounterHasWindow
  <2>2. CASE attempts' = IF attempts.count = 0 THEN attempts ELSE renewed
    BY <2>2, <1>2, Numbers DEF CounterHasWindow, TypeOK
  <2>. QED
    BY <1>1, <2>1, <2>2
<1>9. OneAtATime'
  BY <1>1, <1>5 DEF OneAtATime
<1>10. LockOrder'
  BY <1>1, <1>4, <1>5, Numbers DEF LockOrder, InForce, TypeOK
<1>11. ASSUME ResetWindow <= LockoutDuration, InWindow PROVE InWindow'
  <2>1. CASE clean' = FALSE
    BY <2>1, Zenon DEF InWindow
  <2>2. CASE clean' = clean /\ attempts' = IF attempts.count = 0 THEN attempts ELSE renewed
    <3>. SUFFICES ASSUME alone, clean PROVE InWindow'
      BY <1>1, <2>2, Zenon DEF InWindow
    <3>1. attempts.count = 1
      BY <1>11, <1>1 DEF InWindow
    <3>2. attempts'.count = 1 /\ attempts'.ttl = ResetWindow
      BY <3>1, <2>2, <1>2
    <3>3. \A q \in Requests : q # r => req'[q].pc = "idle"
      BY <1>1, <1>5 DEF OneAtATime, TypeOK, ReqType
    <3>. QED
      BY <3>2, <3>3, <1>4, <1>5, <1>11, Numbers DEF InWindow, UnderLock
  <2>. QED
    BY <1>1, <2>1, <2>2
<1>. QED
  BY <1>7, <1>8, <1>9, <1>10, <1>11

LEMMA SetLockStep ==
    ASSUME Inv, NEW r \in Requests, SetLock(r)
    PROVE  Inv' /\ (InWindow => InWindow')
<1>. USE DEF Inv
<1>. DEFINE new == [ttl |-> LockoutDuration, left |-> req[r].left]
<1>1. /\ req[r].pc = "lock" /\ req' = [req EXCEPT ![r] = Idle]
      /\ attempts' = attempts /\ alone' = alone
      /\ \/ clean' = clean /\ locked' = new
         \/ clean' = FALSE /\ locked' = locked
  BY Zenon DEF SetLock, NewLock
<1>2. /\ new \in [ttl : 0..LockoutDuration, left : 0..LockoutDuration]
      /\ new.left <= new.ttl /\ new.left = req[r].left
  BY Numbers DEF TypeOK
<1>. HIDE DEF new
<1>3. Idle \in ReqType /\ Idle.pc = "idle"
  BY Numbers DEF Idle, ReqType
<1>4. /\ req' \in [Requests -> ReqType]
      /\ req'[r] = Idle
      /\ \A q \in Requests \ {r} : req'[q] = req[q]
  BY <1>1, <1>3, Turn
<1>5. clean' \in BOOLEAN
  BY <1>1, Zenon DEF TypeOK
<1>6. TypeOK'
  BY <1>1, <1>2, <1>4, <1>5 DEF TypeOK, ReqType
<1>7. CounterHasWindow'
  <2>1. CASE clean' = FALSE
    BY <2>1, Zenon DEF CounterHasWindow
  <2>2. CASE clean' = clean
    BY <2>2, <1>1, <1>4 DEF CounterHasWindow
  <2>. QED
    BY <1>1, <2>1, <2>2
<1>8. OneAtATime'
  BY <1>1, <1>3, <1>4 DEF OneAtATime
<1>9. LockOrder'
  BY <1>1, <1>3, <1>4 DEF OneAtATime, LockOrder
<1>10. ASSUME InWindow PROVE InWindow'
  <2>1. CASE clean' = FALSE
    BY <2>1, Zenon DEF InWindow
  <2>2. CASE clean' = clean /\ locked' = new
    <3>. SUFFICES ASSUME alone, clean PROVE InWindow'
      BY <1>1, <2>2, Zenon DEF InWindow
    <3>1. attempts.count <= MaxAttempts /\ req[r].left >= attempts.ttl
      BY <1>10, <1>1 DEF InWindow
    <3>2. \A q \in Requests : req'[q].pc = "idle"
      BY <1>1, <1>3, <1>4 DEF OneAtATime, TypeOK, ReqType
    <3>. QED
      BY <3>1, <3>2, <2>2, <1>1, <1>2 DEF InWindow, UnderLock
  <2>. QED
    BY <1>1, <2>1, <2>2
<1>. QED
  BY <1>6, <1>7, <1>8, <1>9, <1>10

LEMMA RestartStep ==
    ASSUME Inv, Restart
    PROVE  Inv' /\ InWindow'
<1>. USE DEF Inv
<1>1. /\ req' = [r \in Requests |-> Idle] /\ clean' = FALSE
      /\ attempts' = attempts /\ locked' = locked /\ alone' = alone
  BY Zenon DEF Restart
<1>2. Idle \in ReqType /\ Idle.pc = "idle"
  BY Numbers DEF Idle, ReqType
<1>3. TypeOK'
  BY <1>1, <1>2 DEF TypeOK, ReqType
<1>4. CounterHasWindow' /\ InWindow'
  BY <1>1, Zenon DEF CounterHasWindow, InWindow
<1>5. OneAtATime' /\ LockOrder'
  BY <1>1, <1>2 DEF OneAtATime, LockOrder
<1>. QED
  BY <1>3, <1>4, <1>5

LEMMA TickStep ==
    ASSUME Inv, Tick
    PROVE  Inv' /\ (InWindow => InWindow')
<1>. USE DEF Inv
<1>. DEFINE older(r) == [req[r] EXCEPT !.left = Less(@)]
            aged == [attempts EXCEPT !.ttl = @ - 1]
            lock == [ttl |-> locked.ttl - 1, left |-> Less(locked.left)]
<1>1. /\ attempts' = IF attempts.count = 0 \/ attempts.ttl = NoTTL THEN attempts
                     ELSE IF attempts.ttl = 1 THEN NoAttempts ELSE aged
      /\ locked' = IF locked.ttl <= 1 THEN NoLock ELSE lock
      /\ req' = [r \in Requests |-> older(r)]
      /\ clean' = clean /\ alone' = alone
  BY DEF Tick
<1>2. \A r \in Requests : /\ older(r) \in ReqType /\ older(r).pc = req[r].pc
                          /\ older(r).left = Less(req[r].left)
  <2>. TAKE r \in Requests
  <2>1. req[r] \in ReqType /\ Less(req[r].left) \in 0..LockoutDuration
    BY Numbers DEF TypeOK, ReqType, Less
  <2>. QED
    BY <2>1 DEF ReqType
<1>3. aged.count = attempts.count /\ aged.ttl = attempts.ttl - 1
      /\ (attempts.ttl > 0 => aged \in [count : 0..Cap, ttl : 0..NoTTL])
  BY Numbers DEF TypeOK
<1>4. lock.ttl = locked.ttl - 1 /\ lock.left = Less(locked.left)
      /\ (locked.ttl > 0 => lock \in [ttl : 0..LockoutDuration, left : 0..LockoutDuration])
  BY Numbers DEF TypeOK, Less
<1>. HIDE DEF older, aged, lock
<1>5. /\ req' \in [Requests -> ReqType]
      /\ \A r \in Requests : req'[r].pc = req[r].pc /\ req'[r].left = Less(req[r].left)
  BY <1>1, <1>2
<1>6. /\ attempts' \in [count : 0..Cap, ttl : 0..NoTTL]
      /\ attempts'.count = 0 <=> attempts'.ttl = 0
      /\ attempts'.count \in {attempts.count, 0}
      /\ attempts'.ttl = NoTTL => attempts.ttl = NoTTL
      /\ attempts.ttl # NoTTL => attempts'.ttl <= Less(attempts.ttl)
      /\ attempts.ttl = NoTTL => attempts' = attempts
  BY <1>1, <1>3, Numbers DEF TypeOK, NoAttempts, Less
<1>7. /\ locked' \in [ttl : 0..LockoutDuration, left : 0..LockoutDuration]
      /\ locked'.left <= locked'.ttl
      /\ locked'.left = Less(locked.left)
  BY <1>1, <1>4, Numbers DEF TypeOK, NoLock, Less
<1>8. TypeOK'
  BY <1>1, <1>5, <1>6, <1>7 DEF TypeOK, ReqType
<1>9. CounterHasWindow'
  BY <1>1, <1>5, <1>6 DEF CounterHasWindow
<1>10. OneAtATime'
  BY <1>1, <1>5 DEF OneAtATime
<1>11. LockOrder'
  BY <1>1, <1>5, <1>7, Numbers DEF LockOrder, InForce, TypeOK, Less
<1>12. ASSUME InWindow PROVE InWindow'
  <2>. SUFFICES ASSUME alone, clean PROVE InWindow'
    BY <1>1 DEF InWindow
  <2>1. ASSUME attempts.ttl = NoTTL PROVE InWindow'
    <3>1. PICK q \in Requests : req[q].pc = "expire"
      BY <2>1 DEF CounterHasWindow
    <3>2. \A r \in Requests : req[r].pc # "lock"
      BY <3>1 DEF OneAtATime
    <3>. QED
      BY <2>1, <3>1, <3>2, <1>5, <1>6, <1>12 DEF InWindow, UnderLock
  <2>2. ASSUME attempts.ttl # NoTTL PROVE InWindow'
    <3>1. /\ attempts.count <= MaxAttempts
          /\ attempts.count = MaxAttempts => \/ \E r \in Requests : req[r].pc \in {"expire", "lock"}
                                             \/ locked.left >= attempts.ttl
          /\ \A r \in Requests :
                /\ req[r].pc # "reset"
                /\ req[r].pc \in {"delete", "incr"} => attempts.count < MaxAttempts
                /\ req[r].pc = "expire" => attempts.count = 1 /\ attempts.ttl = NoTTL
                /\ req[r].pc = "lock" => req[r].left >= attempts.ttl
      BY <1>12 DEF InWindow, UnderLock
    <3>2. \A r \in Requests : req[r].pc # "expire"
      BY <3>1, <2>2
    <3>3. attempts'.count <= MaxAttempts /\ attempts'.count <= attempts.count
      BY <3>1, <1>6, Numbers DEF TypeOK
    <3>4. UnderLock'
      <4>. SUFFICES ASSUME attempts'.count = MaxAttempts
                    PROVE  \/ \E r \in Requests : req'[r].pc \in {"expire", "lock"}
                           \/ locked'.left >= attempts'.ttl
        BY DEF UnderLock
      <4>1. attempts.count = MaxAttempts
        BY <1>6, Numbers
      <4>2. CASE \E r \in Requests : req[r].pc \in {"expire", "lock"}
        BY <4>2, <1>5
      <4>3. CASE locked.left >= attempts.ttl
        BY <4>3, <2>2, <1>6, <1>7, Numbers DEF Less, TypeOK
      <4>. QED
        BY <4>1, <4>2, <4>3, <3>1
    <3>5. ASSUME NEW r \in Requests, req[r].pc = "lock" PROVE req'[r].left >= attempts'.ttl
      BY <3>1, <3>5, <2>2, <1>5, <1>6, Numbers DEF Less, TypeOK
    <3>. QED
      BY <3>1, <3>2, <3>3, <3>4, <3>5, <1>5, <1>6, Numbers DEF InWindow, TypeOK
  <2>. QED
    BY <2>1, <2>2
<1>. QED
  BY <1>8, <1>9, <1>10, <1>11, <1>12
LEMMA StepInv ==
    ASSUME Inv, [Next]_vars
    PROVE  Inv' /\ (ResetWindow <= LockoutDuration /\ InWindow => InWindow')
<1>1. CASE \E r \in Requests : GetLock(r) \/ GetFails(r)
  BY <1>1, ArriveStep
<1>2. ASSUME NEW r \in Requests, Proceed(r)
      PROVE  Inv' /\ (ResetWindow <= LockoutDuration /\ InWindow => InWindow')
  BY <1>2, DeleteStep, IncrStep, ResetStep, ExpireStep, SetLockStep DEF Proceed
<1>3. CASE Tick
  BY <1>3, TickStep
<1>4. CASE Restart
  BY <1>4, RestartStep
<1>5. CASE UNCHANGED vars
  <2>1. attempts' = attempts /\ locked' = locked /\ req' = req /\ clean' = clean /\ alone' = alone
    BY <1>5 DEF vars
  <2>2. Inv'
    BY <2>1 DEF Inv, TypeOK, CounterHasWindow, OneAtATime, LockOrder, InForce
  <2>3. InWindow => InWindow'
    BY <2>1 DEF InWindow, UnderLock
  <2>. QED
    BY <2>2, <2>3
<1>. QED
  BY <1>1, <1>2, <1>3, <1>4, <1>5 DEF Next

LEMMA AlwaysInv == Spec => []Inv
<1>1. Init => Inv
  BY InitInv
<1>2. Inv /\ [Next]_vars => Inv'
  BY StepInv
<1>. QED
  BY <1>1, <1>2, PTL DEF Spec

\* Of the two keys and of the requests in rate_limit_enhanced.go: the types, and
\* that the lock key outlives the time it holds.
THEOREM LimiterTypeCorrect == Spec => []TypeOK
<1>1. Inv => TypeOK
  BY DEF Inv
<1>. QED
  BY <1>1, AlwaysInv, PTL

\* Incr and Expire are two commands: unless one fails or the server stops between
\* them, no order of the commands of any number of requests leaves a counter that
\* is never reset.
THEOREM CounterGetsWindow == Spec => []CounterHasWindow
<1>1. Inv => CounterHasWindow
  BY DEF Inv
<1>. QED
  BY <1>1, AlwaysInv, PTL

\* Requests that come one at a time never pass more than the limit in a window of
\* the counter, if the lockout is no shorter than the window (as the defaults of
\* login and e-mail verification are; those of registration, password reset and
\* license activation are not).
THEOREM LimitIsKept ==
    ASSUME ResetWindow <= LockoutDuration
    PROVE  Spec => []WithinLimit
<1>1. Init => Inv /\ InWindow
  BY InitInv
<1>2. (Inv /\ InWindow) /\ [Next]_vars => (Inv /\ InWindow)'
  BY StepInv
<1>3. Inv /\ InWindow => WithinLimit
  BY DEF InWindow, WithinLimit
<1>. QED
  BY <1>1, <1>2, <1>3, PTL DEF Spec

\* With such requests, whatever the durations and whatever fails, a lock in force
\* is ended by time alone.
THEOREM LockIsKept == Spec => LockHolds
<1>1. Inv /\ [Next]_vars => [alone /\ InForce => InForce' \/ Tick]_vars
  <2>. SUFFICES ASSUME Inv, Next, alone, InForce, ~Tick PROVE InForce'
    BY Zenon
  <2>. USE DEF Inv
  <2>1. CASE \E r \in Requests : GetLock(r) \/ GetFails(r)
    <3>1. locked' = locked
      BY <2>1 DEF GetLock, GetFails, Blocked
    <3>. QED
      BY <3>1 DEF InForce
  <2>2. ASSUME NEW r \in Requests, Proceed(r) PROVE InForce'
    <3>1. CASE DeleteLock(r)
      BY <3>1 DEF DeleteLock, LockOrder
    <3>2. CASE Incr(r) \/ ResetCounter(r) \/ ExpireCounter(r)
      <4>1. locked' = locked
        BY <3>2, Zenon DEF Incr, ResetCounter, ExpireCounter
      <4>. QED
        BY <4>1 DEF InForce
    <3>3. CASE SetLock(r)
      <4>1. req[r].left > 0
        BY <3>3, Numbers DEF SetLock, LockOrder, InForce, TypeOK
      <4>2. CASE locked' = NewLock(req[r].left)
        BY <4>1, <4>2, Numbers DEF NewLock, InForce
      <4>3. CASE locked' = locked
        BY <4>3 DEF InForce
      <4>. QED
        BY <3>3, <4>2, <4>3 DEF SetLock
    <3>. QED
      BY <2>2, <3>1, <3>2, <3>3 DEF Proceed
  <2>3. CASE Restart
    BY <2>3 DEF Restart, InForce
  <2>. QED
    BY <2>1, <2>2, <2>3 DEF Next
<1>. QED
  BY <1>1, AlwaysInv, PTL DEF Spec, LockHolds
-----------------------------------------------------------------------------
(***************************************************************************)
(* HealthProbes: the breaker behind the health endpoints.                  *)
(***************************************************************************)
\* The calls whose result would count: those of the present generation.
InFlight == {c \in Calls : call[c] \notin {"idle", "stale"}}

Breaker ==
    [state : {"closed", "half-open", "open"}, requests : Nat, failures : Nat, successes : Nat,
     left : 0..Timeout]

\* No call of the present generation is in flight while the breaker is open: it
\* opens for all that were, and lets none through.
BreakerInv ==
    /\ up \in BOOLEAN
    /\ breaker \in Breaker
    /\ call \in [Calls -> Probes!Phases]
    /\ Cardinality(InFlight) <= breaker.requests
    /\ Probes!HalfOpenIsLimited
    /\ breaker.state = "open" => InFlight = {}

LEMMA BreakerNumbers ==
    /\ IsFiniteSet(Calls) /\ Cardinality({}) = 0
    /\ \A S \in SUBSET Calls : Cardinality(S) \in Nat
    /\ \A S \in SUBSET Calls, c \in Calls :
          /\ Cardinality(S \cup {c}) <= Cardinality(S) + 1
          /\ Cardinality(S \ {c}) <= Cardinality(S)
    /\ {MaxRequests, MinRequests, MaxFailures, FailurePercent} \subseteq Nat
    /\ Interval \in Nat /\ Timeout \in Nat /\ Interval <= Timeout
<1>1. \A S \in SUBSET Calls : IsFiniteSet(S)
  BY BreakerAssumption, FS_Subset
<1>2. ASSUME NEW S \in SUBSET Calls, NEW c \in Calls
      PROVE  /\ Cardinality(S \cup {c}) <= Cardinality(S) + 1
             /\ Cardinality(S \ {c}) <= Cardinality(S)
  <2>1. IsFiniteSet(S) /\ Cardinality(S) \in Nat
    BY <1>1, FS_CardinalityType
  <2>2. /\ Cardinality(S \cup {c}) = IF c \in S THEN Cardinality(S) ELSE Cardinality(S) + 1
        /\ Cardinality(S \ {c}) = IF c \in S THEN Cardinality(S) - 1 ELSE Cardinality(S)
    BY <2>1, FS_AddElement, FS_RemoveElement
  <2>. QED
    BY <2>1, <2>2
<1>3. \A S \in SUBSET Calls : Cardinality(S) \in Nat
  BY <1>1, FS_CardinalityType
<1>. QED
  BY <1>2, <1>3, BreakerAssumption, FS_EmptySet

\* A step gives the breaker b and the calls in flight F: what is to be shown of them.
LEMMA BreakerKept ==
    ASSUME up' \in BOOLEAN, NEW b \in Breaker, breaker' = b,
           call' \in [Calls -> Probes!Phases],
           NEW F \in SUBSET Calls, \A c \in Calls : call'[c] \notin {"idle", "stale"} <=> c \in F,
           Cardinality(F) <= b.requests,
           b.state = "half-open" => b.requests <= MaxRequests,
           b.state = "open" => F = {}
    PROVE  BreakerInv'
<1>1. InFlight' = F
  BY DEF InFlight
<1>. QED
  BY <1>1 DEF BreakerInv, Probes!HalfOpenIsLimited

\* A generation begins with no call of its own.
LEMMA NewGeneration ==
    ASSUME NEW state \in {"closed", "half-open", "open"}
    PROVE  /\ Probes!Generation(state) \in Breaker
           /\ Probes!Generation(state).state = state
           /\ Probes!Generation(state).requests = 0
<1>1. CASE state = "closed"
  BY <1>1, BreakerNumbers DEF Probes!Generation, Breaker
<1>2. CASE state = "open"
  BY <1>2, BreakerNumbers DEF Probes!Generation, Breaker
<1>3. CASE state = "half-open"
  BY <1>3, BreakerNumbers DEF Probes!Generation, Breaker
<1>. QED
  BY <1>1, <1>2, <1>3

LEMMA StaledCalls ==
    ASSUME BreakerInv
    PROVE  /\ Probes!Staled \in [Calls -> Probes!Phases]
           /\ \A c \in Calls : Probes!Staled[c] \in {"idle", "stale"}
  BY DEF BreakerInv, Probes!Staled, Probes!Phases

\* Bringing the breaker up to date.
LEMMA UpToDate ==
    ASSUME BreakerInv
    PROVE  /\ Probes!CurrentBreaker \in Breaker /\ Probes!CurrentCalls \in [Calls -> Probes!Phases]
           /\ Probes!CurrentBreaker.state = "half-open" =>
                 Probes!CurrentBreaker.requests <= MaxRequests
           /\ Probes!Due =>
                 /\ Probes!CurrentBreaker.requests = 0
                 /\ Probes!CurrentBreaker.state # "open"
                 /\ breaker.state = "open" => Probes!CurrentBreaker.state = "half-open"
                 /\ \A c \in Calls : Probes!CurrentCalls[c] \in {"idle", "stale"}
           /\ ~Probes!Due => Probes!CurrentBreaker = breaker /\ Probes!CurrentCalls = call
           /\ \A c \in Calls : call[c] \in {"idle", "stale"} =>
                                   Probes!CurrentCalls[c] \in {"idle", "stale"}
<1>1. CASE ~Probes!Due
  BY <1>1 DEF BreakerInv, Probes!CurrentBreaker, Probes!CurrentCalls, Probes!HalfOpenIsLimited
<1>2. CASE Probes!Due
  <2>. DEFINE next == IF breaker.state = "open" THEN "half-open" ELSE "closed"
  <2>1. Probes!CurrentBreaker = Probes!Generation(next) /\ Probes!CurrentCalls = Probes!Staled
    BY <1>2 DEF Probes!CurrentBreaker, Probes!CurrentCalls
  <2>2. next \in {"closed", "half-open", "open"} /\ next # "open"
    OBVIOUS
  <2>3. 0 <= MaxRequests
    BY BreakerNumbers
  <2>4. breaker.state = "open" => next = "half-open"
    OBVIOUS
  <2>. HIDE DEF next
  <2>. QED
    BY <1>2, <2>1, <2>2, <2>3, <2>4, NewGeneration, StaledCalls
<1>. QED
  BY <1>1, <1>2

\* The calls in flight of an up-to-date breaker.
LEMMA CurrentFlight ==
    ASSUME BreakerInv
    PROVE  \E F \in SUBSET Calls :
              /\ \A c \in Calls : Probes!CurrentCalls[c] \notin {"idle", "stale"} <=> c \in F
              /\ Cardinality(F) <= Probes!CurrentBreaker.requests
              /\ Probes!CurrentBreaker.state = "open" => F = {}
<1>1. CASE Probes!Due
  <2>1. Cardinality({}) <= Probes!CurrentBreaker.requests
    BY <1>1, UpToDate, BreakerNumbers
  <2>. QED
    BY <1>1, <2>1, UpToDate
<1>2. CASE ~Probes!Due
  <2>1. /\ Cardinality(InFlight) <= breaker.requests /\ InFlight \in SUBSET Calls
        /\ breaker.state = "open" => InFlight = {}
        /\ \A c \in Calls : call[c] \notin {"idle", "stale"} <=> c \in InFlight
    BY DEF BreakerInv, InFlight
  <2>2. Probes!CurrentBreaker = breaker /\ Probes!CurrentCalls = call
    BY <1>2, UpToDate
  <2>. QED
    BY <2>1, <2>2
<1>. QED
  BY <1>1, <1>2

LEMMA HealthStep ==
    ASSUME BreakerInv, NEW c \in Calls, Probes!Health(c)
    PROVE  BreakerInv' /\ Probes!OpenWaits
<1>. DEFINE b == Probes!CurrentBreaker
            refused == b.state = "open" \/ (b.state = "half-open" /\ b.requests >= MaxRequests)
            counted == [b EXCEPT !.requests = @ + 1]
            calls == Probes!CurrentCalls
            begun == [calls EXCEPT ![c] = "pinging"]
<1>1. call[c] = "idle" /\ up' = up /\ up \in BOOLEAN
  BY DEF BreakerInv, Probes!Health
<1>2. \/ breaker' = b /\ call' = calls
      \/ ~refused /\ breaker' = counted /\ call' = begun
  BY DEF Probes!Health
<1>3. /\ b \in Breaker /\ calls \in [Calls -> Probes!Phases] /\ calls[c] \in {"idle", "stale"}
      /\ b.state = "half-open" => b.requests <= MaxRequests
      /\ breaker.state = "open" /\ b.state # "open" => breaker.left = 0 /\ b.state = "half-open"
  BY <1>1, UpToDate DEF Probes!Due
<1>4. PICK F \in SUBSET Calls :
         /\ \A d \in Calls : calls[d] \notin {"idle", "stale"} <=> d \in F
         /\ Cardinality(F) <= b.requests
         /\ b.state = "open" => F = {}
  BY CurrentFlight
<1>5. counted \in Breaker /\ counted.state = b.state /\ counted.requests = b.requests + 1
  BY <1>3 DEF Breaker
<1>. HIDE DEF b, counted, calls
<1>6. CASE breaker' = b /\ call' = calls
  <2>1. BreakerInv'
    BY <1>1, <1>3, <1>4, <1>6, BreakerKept
  <2>. QED
    BY <2>1, <1>3, <1>6 DEF Probes!OpenWaits
<1>7. CASE ~refused /\ breaker' = counted /\ call' = begun
  <2>. DEFINE G == F \cup {c}
  <2>1. /\ begun \in [Calls -> Probes!Phases] /\ begun[c] = "pinging"
        /\ \A d \in Calls \ {c} : begun[d] = calls[d]
    BY <1>3 DEF Probes!Phases
  <2>2. G \in SUBSET Calls /\ Cardinality(G) <= counted.requests
    <3>1. /\ Cardinality(G) <= Cardinality(F) + 1 /\ Cardinality(F) \in Nat
          /\ Cardinality(G) \in Nat
      BY BreakerNumbers
    <3>2. b.requests \in Nat
      BY <1>3 DEF Breaker
    <3>. QED
      BY <1>4, <1>5, <3>1, <3>2
  <2>3. \A d \in Calls : begun[d] \notin {"idle", "stale"} <=> d \in G
    BY <1>4, <2>1
  <2>4. counted.state # "open" /\ (counted.state = "half-open" => counted.requests <= MaxRequests)
    <3>1. b.state = "half-open" => b.requests + 1 <= MaxRequests
      BY <1>3, <1>7, BreakerNumbers DEF Breaker
    <3>. QED
      BY <1>5, <1>7, <3>1
  <2>. HIDE DEF begun, G, refused
  <2>5. BreakerInv'
    BY <1>1, <1>5, <1>7, <2>1, <2>2, <2>3, <2>4, BreakerKept
  <2>. QED
    BY <2>5, <1>3, <1>5, <1>7 DEF Probes!OpenWaits
<1>. QED
  BY <1>2, <1>6, <1>7

\* A ping ends, whichever way, in its own generation or not at all.
LEMMA PingStep ==
    ASSUME BreakerInv, NEW c \in Calls, Probes!Ping(c)
    PROVE  BreakerInv' /\ Probes!OpenWaits
<1>1. /\ call[c] = "pinging" /\ up' = up /\ breaker' = breaker
      /\ \E x \in {"succeeded", "failed"} : call' = [call EXCEPT ![c] = x]
  BY DEF Probes!Ping
<1>2. /\ call' \in [Calls -> Probes!Phases]
      /\ \A d \in Calls : call'[d] \in {"idle", "stale"} <=> call[d] \in {"idle", "stale"}
  BY <1>1 DEF BreakerInv, Probes!Phases
<1>3. /\ up \in BOOLEAN /\ breaker \in Breaker /\ InFlight \in SUBSET Calls
      /\ Cardinality(InFlight) <= breaker.requests
      /\ breaker.state = "half-open" => breaker.requests <= MaxRequests
      /\ breaker.state = "open" => InFlight = {}
      /\ \A d \in Calls : call'[d] \notin {"idle", "stale"} <=> d \in InFlight
  BY <1>2 DEF BreakerInv, InFlight, Probes!HalfOpenIsLimited
<1>. QED
  BY <1>1, <1>2, <1>3, BreakerKept DEF Probes!OpenWaits

\* The result of a call counts for its own generation alone; that of an open
\* breaker has no calls.
LEMMA ReportStep ==
    ASSUME BreakerInv, NEW c \in Calls, Probes!Report(c)
    PROVE  BreakerInv' /\ Probes!OpenWaits
<1>. DEFINE ok == call[c] = "succeeded"
            good == [breaker EXCEPT !.successes = IF @ < MaxRequests THEN @ + 1 ELSE @]
            bad == [breaker EXCEPT !.failures = @ + 1, !.successes = 0]
            b == IF ok THEN good ELSE bad
            to == IF ok /\ b.state = "half-open" /\ b.successes >= MaxRequests THEN "closed"
                  ELSE IF ~ok /\ (b.state = "half-open" \/ Probes!ReadyToTrip(b)) THEN "open"
                  ELSE b.state
            over == Probes!Due \/ to # breaker.state
            rest == IF over THEN Probes!Staled ELSE call
<1>1. /\ call[c] \notin {"idle", "stale"} /\ up' = up /\ up \in BOOLEAN
      /\ breaker' = IF Probes!Due THEN Probes!CurrentBreaker
                    ELSE IF to = breaker.state THEN b ELSE Probes!Generation(to)
      /\ call' = [rest EXCEPT ![c] = "idle"]
  BY DEF BreakerInv, Probes!Report
<1>2. breaker \in Breaker /\ breaker.state # "open" /\ call \in [Calls -> Probes!Phases]
  BY <1>1 DEF BreakerInv, InFlight
<1>3. b \in Breaker /\ b.state = breaker.state /\ b.requests = breaker.requests
  <2>1. /\ good \in Breaker /\ good.state = breaker.state
        /\ good.requests = breaker.requests
    BY <1>2, BreakerNumbers DEF Breaker
  <2>2. bad \in Breaker /\ bad.state = breaker.state /\ bad.requests = breaker.requests
    <3>1. breaker.failures + 1 \in Nat /\ 0 \in Nat
      BY <1>2 DEF Breaker
    <3>. QED
      BY <1>2, <3>1 DEF Breaker
  <2>. HIDE DEF good, bad
  <2>. QED
    BY <2>1, <2>2
<1>4. to \in {"closed", "half-open", "open"}
  BY <1>2, <1>3 DEF Breaker
<1>. HIDE DEF ok, good, bad, b, to
<1>5. Probes!OpenWaits
  BY <1>2 DEF Probes!OpenWaits
<1>6. CASE over
  <2>1. /\ call' \in [Calls -> Probes!Phases]
        /\ \A d \in Calls : call'[d] \in {"idle", "stale"}
    BY <1>1, <1>6, StaledCalls DEF Probes!Phases
  <2>2. breaker' \in Breaker /\ breaker'.requests = 0
    BY <1>1, <1>4, <1>6, NewGeneration, UpToDate
  <2>3. Cardinality({}) <= breaker'.requests /\ 0 <= MaxRequests
    BY <2>2, BreakerNumbers
  <2>. QED
    BY <1>1, <1>5, <2>1, <2>2, <2>3, BreakerKept
<1>7. CASE ~over
  <2>. DEFINE G == InFlight \ {c}
  <2>1. /\ call' \in [Calls -> Probes!Phases] /\ G \in SUBSET Calls
        /\ \A d \in Calls : call'[d] \notin {"idle", "stale"} <=> d \in G
    BY <1>1, <1>2, <1>7 DEF InFlight, Probes!Phases
  <2>2. breaker' = b
    BY <1>1, <1>7
  <2>3. Cardinality(G) <= b.requests
    <3>1. Cardinality(G) <= Cardinality(InFlight) /\ Cardinality(G) \in Nat
          /\ Cardinality(InFlight) \in Nat
      BY BreakerNumbers DEF InFlight
    <3>2. Cardinality(InFlight) <= breaker.requests /\ breaker.requests \in Nat
      BY <1>2 DEF BreakerInv, Breaker
    <3>. QED
      BY <1>3, <3>1, <3>2
  <2>4. b.state = "half-open" => b.requests <= MaxRequests
    BY <1>3 DEF BreakerInv, Probes!HalfOpenIsLimited
  <2>. HIDE DEF G, over, rest
  <2>. QED
    BY <1>1, <1>2, <1>3, <1>5, <2>1, <2>2, <2>3, <2>4, BreakerKept
<1>. QED
  BY <1>6, <1>7

\* A call of an ended generation goes, or somebody asks for the state.
LEMMA AskStep ==
    ASSUME BreakerInv, (\E c \in Calls : Probes!Forget(c)) \/ Probes!Readiness
    PROVE  BreakerInv' /\ Probes!OpenWaits
<1>. DEFINE b == Probes!CurrentBreaker
            calls == Probes!CurrentCalls
<1>1. /\ up' = up /\ breaker' = b
      /\ \/ call' = calls
         \/ \E c \in Calls : call[c] = "stale" /\ call' = [calls EXCEPT ![c] = "idle"]
  BY Zenon DEF Probes!Forget, Probes!Readiness
<1>2. /\ up \in BOOLEAN /\ b \in Breaker /\ calls \in [Calls -> Probes!Phases]
      /\ b.state = "half-open" => b.requests <= MaxRequests
      /\ breaker.state = "open" /\ b.state # "open" => breaker.left = 0 /\ b.state = "half-open"
      /\ \A c \in Calls : call[c] = "stale" => calls[c] \in {"idle", "stale"}
  BY UpToDate DEF BreakerInv, Probes!Due
<1>3. PICK F \in SUBSET Calls :
         /\ \A d \in Calls : calls[d] \notin {"idle", "stale"} <=> d \in F
         /\ Cardinality(F) <= b.requests
         /\ b.state = "open" => F = {}
  BY CurrentFlight
<1>. HIDE DEF b, calls
<1>4. /\ call' \in [Calls -> Probes!Phases]
      /\ \A d \in Calls : call'[d] \in {"idle", "stale"} <=> calls[d] \in {"idle", "stale"}
  BY <1>1, <1>2 DEF Probes!Phases
<1>5. BreakerInv'
  BY <1>1, <1>2, <1>3, <1>4, BreakerKept
<1>. QED
  BY <1>1, <1>2, <1>5 DEF Probes!OpenWaits

\* Time passes, or the database goes down or comes back.
LEMMA OutsideStep ==
    ASSUME BreakerInv, Probes!Tick \/ Probes!Flip \/ UNCHANGED healthVars
    PROVE  BreakerInv' /\ Probes!OpenWaits
<1>1. /\ call' = call /\ up' \in BOOLEAN
      /\ breaker' = breaker \/ (breaker.left > 0 /\ breaker' = [breaker EXCEPT !.left = @ - 1])
  BY DEF BreakerInv, Probes!Tick, Probes!Flip, healthVars
<1>2. /\ breaker' \in Breaker /\ breaker'.state = breaker.state
      /\ breaker'.requests = breaker.requests
  BY <1>1, BreakerNumbers DEF BreakerInv, Breaker
<1>3. InFlight' = InFlight
  BY <1>1 DEF InFlight
<1>4. BreakerInv'
  BY <1>1, <1>2, <1>3 DEF BreakerInv, Probes!HalfOpenIsLimited
<1>. QED
  BY <1>2, <1>4 DEF Probes!OpenWaits

LEMMA BreakerStep == BreakerInv /\ [Probes!Next]_healthVars => BreakerInv' /\ Probes!OpenWaits
<1>. SUFFICES ASSUME BreakerInv, [Probes!Next]_healthVars PROVE BreakerInv' /\ Probes!OpenWaits
  OBVIOUS
<1>1. ASSUME NEW c \in Calls,
             Probes!Health(c) \/ Probes!Ping(c) \/ Probes!Report(c) \/ Probes!Forget(c)
      PROVE  BreakerInv' /\ Probes!OpenWaits
  BY <1>1, HealthStep, PingStep, ReportStep, AskStep
<1>. QED
  BY <1>1, AskStep, OutsideStep DEF Probes!Next

\* What the invariant says of the types.
LEMMA ProbeTypes == BreakerInv => Probes!TypeOK
<1>1. \A S : Probes!Cardinality(S) = Cardinality(S)
  BY DEF Probes!Cardinality, Cardinality, Probes!IsFiniteSet, IsFiniteSet
<1>. QED
  BY <1>1 DEF BreakerInv, Breaker, InFlight, Probes!TypeOK

\* Health pings through the breaker and Readiness asks it for its state: however
\* many pings are in flight, however late they end and whatever the limits, a
\* half-open breaker lets no more through than its tries, an open one is ended by
\* time alone, and the calls in flight are among those it has counted.
THEOREM BreakerIsKept == MCSpec => BreakerHolds
<1>1. MCInit => BreakerInv
  <2>. SUFFICES ASSUME MCInit PROVE BreakerInv
    OBVIOUS
  <2>1. /\ up \in BOOLEAN /\ breaker = Probes!Generation("closed")
        /\ call = [c \in Calls |-> "idle"]
    BY DEF MCInit, Probes!Init
  <2>2. call \in [Calls -> Probes!Phases] /\ InFlight = {}
    BY <2>1 DEF InFlight, Probes!Phases
  <2>. QED
    BY <2>1, <2>2, NewGeneration, BreakerNumbers DEF BreakerInv, Probes!HalfOpenIsLimited
<1>2. BreakerInv /\ [MCNext]_<<guard, vars, healthVars, apiVars>> => [Probes!Next]_healthVars
  BY DEF MCNext
<1>3. BreakerInv /\ [MCNext]_<<guard, vars, healthVars, apiVars>> => BreakerInv' /\ Probes!OpenWaits
  BY <1>2, BreakerStep
<1>4. BreakerInv => Probes!TypeOK /\ Probes!HalfOpenIsLimited
  BY ProbeTypes DEF BreakerInv
<1>. QED
  BY <1>1, <1>3, <1>4, PTL DEF MCSpec, BreakerHolds

\* The limiter of the composed specification is that of RateLimiter.
LEMMA ComposedLimiter == MCSpec => Spec
<1>1. MCInit => Init
  BY DEF MCInit
<1>2. [MCNext]_<<guard, vars, healthVars, apiVars>> => [Next]_vars
  BY DEF MCNext, vars
<1>. QED
  BY <1>1, <1>2, PTL DEF MCSpec, Spec

\* So it keeps its limit and its locks in front of the requests as well.
THEOREM ComposedLimiterHolds ==
    ASSUME ResetWindow <= LockoutDuration
    PROVE  MCSpec => []WithinLimit /\ LockHolds
BY ComposedLimiter, LimitIsKept, LockIsKept, PTL

-----------------------------------------------------------------------------
(***************************************************************************)
(* The requests of ApiServer.  What a handler is built to keep is said of  *)
(* its steps alone, shown for every handler, and carried over to the route *)
(* with the middleware in front of it; the invariant then follows one      *)
(* request through any list of steps that keeps to it.                     *)
(***************************************************************************)
Kinds == {"need", "do", "try", "log", "show", "panic", "fork", "answer"}

ErrorCodes == {400, 401, 403, 404, 409, 429, 500, 503}

Codes == {200, 201, 202} \cup ErrorCodes

Writes(s) == s.kind \in {"do", "try"}

\* The steps at which a request may be answered.
Ends(s) == s.kind \in {"need", "do", "panic", "answer"}

\* The steps after which the next may be left out.
Jumps(s) == s.kind \in {"try", "fork"} /\ s.code # 0

IsSequence(h) == h \in Seq({h[i] : i \in DOMAIN h})

\* A handler ends with an answer that every request gets which comes so far; an
\* early return is an error; what may be left out is an audit row or a call whose
\* error is dropped.
Shape(h) ==
    /\ IsSequence(h) /\ Len(h) > 0
    /\ h[Len(h)].kind = "answer" /\ h[Len(h)].when = "always"
    /\ \A i \in DOMAIN h :
           /\ h[i].kind \in Kinds
           /\ Ends(h[i]) => h[i].code \in Codes
           /\ Ends(h[i]) /\ h[i].kind # "answer" => h[i].code \in ErrorCodes
           /\ h[i].kind = "answer" /\ i < Len(h) => h[i].code = 500
           /\ h[i].kind = "log" => h[i].when = "always"
           /\ Jumps(h[i]) => /\ h[i].code = 1 /\ i + 2 <= Len(h)
                             /\ h[i + 1].kind \in {"try", "log"} /\ h[i + 1].code = 0

LeftByErrors(r) ==
    IF r \in DOMAIN Api!KeptByErrors THEN Api!KeptByErrors[r] ELSE {}

LeftByPanics(r) ==
    IF r \in DOMAIN Api!KeptByPanics THEN Api!KeptByPanics[r] ELSE {}

\* Nothing is written before an error answer, but for what is known to be left.
Clean(r, h) ==
    \A i, j \in DOMAIN h :
        i < j /\ Writes(h[i]) /\ Ends(h[j]) /\ h[j].code >= 400 =>
            \/ h[i].what \in LeftByErrors(r)
            \/ h[i].what \in LeftByPanics(r) /\ h[j].when = "no-redis"
            \/ h[i].when = "redis" /\ h[j].when = "no-redis"

Asks(s, what) == s.kind = "need" /\ s.when = "always" /\ s.what = what

AskedBefore(h, i, what) == \E j \in DOMAIN h : j < i /\ Asks(h[j], what)

\* What is an administrator's or the owner's comes after the question who asks.
Guarded(r, h) ==
    \A i \in DOMAIN h :
        /\ Writes(h[i]) /\ h[i].what \in Api!AdminChanges => AskedBefore(h, i, "admin")
        /\ Writes(h[i]) /\ r = "UpdateUser" => AskedBefore(h, i, "own-record-or-admin")
        /\ h[i].kind = "show" /\ h[i].what = "all-rows" =>
               h[i].when = "admin" \/ AskedBefore(h, i, "admin")
        /\ h[i].kind = "show" /\ h[i].what = "the-record" =>
               AskedBefore(h, i, "own-record-or-admin")
        /\ h[i].kind = "show" /\ r \in Api!Public => AskedBefore(h, i, "user")

Promised(r) == IF r \in DOMAIN Api!Promise THEN Api!Promise[r] ELSE {}

PromisedRows(r) == IF r \in Api!Unrecorded THEN {} ELSE Promised(r)

Tells(action) == IF action \in DOMAIN Api!Recorded THEN {Api!Recorded[action]} ELSE {}

\* A change that every request which comes past it has made.
Makes(s, change) == s.kind = "do" /\ s.when = "always" /\ s.what = change

\* An audit row that nothing leaves out.
Notes(h, i, change) ==
    h[i].kind = "log" /\ change \in Tells(h[i].what) /\ (i > 1 => ~Jumps(h[i - 1]))

\* Before an answer of success stand the promised changes and their audit rows.
KeepsPromise(r, h) ==
    h[Len(h)].code \in 200..299 =>
        /\ \A change \in Promised(r) : \E i \in DOMAIN h : Makes(h[i], change)
        /\ \A change \in PromisedRows(r) : \E i \in DOMAIN h : Notes(h, i, change)

\* An audit row stands behind the change it tells of, or in the branch of its
\* success.
TellsTruth(h) ==
    \A i \in DOMAIN h : h[i].kind = "log" => \A change \in Tells(h[i].what) :
        \/ \E j \in DOMAIN h : j < i /\ Makes(h[j], change)
        \/ i > 1 /\ h[i - 1].kind = "try" /\ h[i - 1].when = "always"
                 /\ h[i - 1].code = 1 /\ h[i - 1].what = change

Sound(r, h) ==
    Shape(h) /\ Clean(r, h) /\ Guarded(r, h) /\ KeepsPromise(r, h) /\ TellsTruth(h)

\* Two sequences of the same steps are the same.
LEMMA SameSteps ==
    ASSUME NEW s, NEW t, IsSequence(s), IsSequence(t), Len(s) = Len(t),
           \A i \in 1..Len(s) : s[i] = t[i]
    PROVE  s = t
BY DEF IsSequence

\* The tables of ApiServer, entry by entry.
LEMMA Promises ==
    /\ DOMAIN Api!Promise = {"Register", "VerifyEmail",
        "ResendVerificationEmail", "RequestPasswordReset",
        "ConfirmPasswordReset", "CreateLicense", "ActivateLicense",
        "DeactivateLicense", "Heartbeat", "TrackMachine", "RenewLicense",
        "RevokeLicense", "UpdateLicenseStatus", "BulkRevokeAsync",
        "CancelBulkJob", "UpdateUser", "DeleteUser", "UpdateUserRole",
        "UpdateUserStatus", "SetRolePermissions", "DeleteAuditLogs"}
    /\ Api!Promise["Register"] = {"user"}
    /\ Api!Promise["VerifyEmail"] = {"verified-user"}
    /\ Api!Promise["ResendVerificationEmail"] = {"verification-token"}
    /\ Api!Promise["RequestPasswordReset"] = {"reset-token"}
    /\ Api!Promise["ConfirmPasswordReset"] = {"password"}
    /\ Api!Promise["CreateLicense"] = {"license"}
    /\ Api!Promise["ActivateLicense"] = {"activation"}
    /\ Api!Promise["DeactivateLicense"] = {"deactivated-activation"}
    /\ Api!Promise["Heartbeat"] = {"heartbeat"}
    /\ Api!Promise["TrackMachine"] = {"tracked-machine"}
    /\ Api!Promise["RenewLicense"] = {"renewed-license"}
    /\ Api!Promise["RevokeLicense"] = {"revoked-license"}
    /\ Api!Promise["UpdateLicenseStatus"] = {"license-status"}
    /\ Api!Promise["BulkRevokeAsync"] = {"started-job"}
    /\ Api!Promise["CancelBulkJob"] = {"cancelled-job"}
    /\ Api!Promise["UpdateUser"] = {"user"}
    /\ Api!Promise["DeleteUser"] = {"deleted-user"}
    /\ Api!Promise["UpdateUserRole"] = {"user-role"}
    /\ Api!Promise["UpdateUserStatus"] = {"user-status"}
    /\ Api!Promise["SetRolePermissions"] = {"role-permissions"}
    /\ Api!Promise["DeleteAuditLogs"] = {"cleared-audit-log"}
BY DEF Api!Promise

\* What errors leave behind.
LEMMA Leftovers ==
    /\ DOMAIN Api!KeptByErrors = {"Login", "DeleteUser",
        "ResetUserPermissions", "VerifyEmail", "ConfirmPasswordReset"}
    /\ Api!KeptByErrors["Login"] = {"last-login"}
    /\ Api!KeptByErrors["DeleteUser"] = {"deleted-user"}
    /\ Api!KeptByErrors["ResetUserPermissions"] = {"uncached-permissions"}
    /\ Api!KeptByErrors["VerifyEmail"] = {"cached-token"}
    /\ Api!KeptByErrors["ConfirmPasswordReset"] = {"cached-token"}
    /\ DOMAIN Api!KeptByPanics = {"Register", "RequestPasswordReset",
        "VerifyEmail", "ConfirmPasswordReset"}
    /\ Api!KeptByPanics["Register"] = {"user", "verification-token"}
    /\ Api!KeptByPanics["RequestPasswordReset"] = {"reset-token"}
    /\ Api!KeptByPanics["VerifyEmail"] = {"verified-user", "used-token"}
    /\ Api!KeptByPanics["ConfirmPasswordReset"] = {"password", "used-token"}
BY DEF Api!KeptByErrors, Api!KeptByPanics

\* What audit rows tell.
LEMMA Rows ==
    /\ DOMAIN Api!Recorded = {"USER_REGISTERED", "USER_CREATED",
        "EMAIL_VERIFIED", "PASSWORD_RESET_REQUESTED",
        "PASSWORD_RESET_CONFIRMED", "LICENSE_CREATED", "LICENSE_ACTIVATED",
        "LICENSE_DEACTIVATED", "LICENSE_HEARTBEAT", "LICENSE_STATUS_CHANGED",
        "MACHINE_TRACKED", "BULK_REVOKE_LICENSE", "USER_UPDATED",
        "USER_DELETED", "USER_STATUS_CHANGED", "AUDIT_LOG_CLEARED"}
    /\ Api!Recorded["USER_REGISTERED"] = "user"
    /\ Api!Recorded["USER_CREATED"] = "user"
    /\ Api!Recorded["EMAIL_VERIFIED"] = "verified-user"
    /\ Api!Recorded["PASSWORD_RESET_REQUESTED"] = "reset-token"
    /\ Api!Recorded["PASSWORD_RESET_CONFIRMED"] = "password"
    /\ Api!Recorded["LICENSE_CREATED"] = "license"
    /\ Api!Recorded["LICENSE_ACTIVATED"] = "activation"
    /\ Api!Recorded["LICENSE_DEACTIVATED"] = "deactivated-activation"
    /\ Api!Recorded["LICENSE_HEARTBEAT"] = "heartbeat"
    /\ Api!Recorded["LICENSE_STATUS_CHANGED"] = "license-status"
    /\ Api!Recorded["MACHINE_TRACKED"] = "tracked-machine"
    /\ Api!Recorded["BULK_REVOKE_LICENSE"] = "revoked-license"
    /\ Api!Recorded["USER_UPDATED"] = "user"
    /\ Api!Recorded["USER_DELETED"] = "deleted-user"
    /\ Api!Recorded["USER_STATUS_CHANGED"] = "user-status"
    /\ Api!Recorded["AUDIT_LOG_CLEARED"] = "cleared-audit-log"
BY DEF Api!Recorded

\* The three groups of routes.
LEMMA Groups ==
    /\ Api!Public = {"Register", "Login", "RefreshToken", "RotateToken",
        "Logout", "ListActiveSessions", "LogoutAllOtherSessions",
        "VerifyEmail", "ResendVerificationEmail", "RequestPasswordReset",
        "ConfirmPasswordReset", "Revoke", "ActivateLicense",
        "ValidateLicense", "DeactivateLicense", "Heartbeat", "Health",
        "Liveness", "Readiness", "Startup"}
    /\ DOMAIN Api!ProtectedHandlers = {"GetMe", "UpdateProfile",
        "GetNotifications", "UpdateNotifications", "SendEmailNotification",
        "GetEmailTemplates", "TestEmailSend", "GetEmailQueueStatus",
        "CreateLicense", "GetLicenses", "ExportLicenses", "BulkRevoke",
        "BulkRevokeAsync", "GetBulkJobStatus", "CancelBulkJob", "GetLicense",
        "RenewLicense", "RevokeLicense", "UpdateLicenseStatus",
        "GetMachineFingerprints", "TrackMachine", "GetUsers", "ExportUsers",
        "GetUser", "GetUserByLicenseKey", "UpdateUser", "UpdateUserRole",
        "UpdateUserStatus", "DeleteUser", "GetAuditLogs",
        "GetAuditLogsByUser", "GetAuditLogStats", "ExportAuditLogs",
        "DeleteAuditLogs", "GetUserDashboard", "GetDashboardStats",
        "GetLicenseExpirationForecast", "GetActivityTimeline",
        "GetUsageAnalytics", "GetEnhancedDashboardStats"}
    /\ Api!AdminOnly = {"GetUserPermissions", "GetRolePermissions",
        "GrantPermission", "RevokePermission", "SetRolePermissions",
        "ResetUserPermissions", "CheckPermission"}
BY DEF Api!Public, Api!PublicHandlers, Api!ProtectedHandlers, Api!AdminOnly, Api!PermissionHandlers

\* The handlers of /auth.
LEMMA AuthHandlersAreSound ==
    /\ Sound("Register", Api!Register)
    /\ Sound("Login", Api!Login)
    /\ Sound("RefreshToken", Api!RefreshToken)
    /\ Sound("RotateToken", Api!RotateToken)
    /\ Sound("Logout", Api!Logout)
    /\ Sound("ListActiveSessions", Api!ListActiveSessions)
    /\ Sound("LogoutAllOtherSessions", Api!LogoutAllOtherSessions)
    /\ Sound("VerifyEmail", Api!VerifyEmail)
    /\ Sound("ResendVerificationEmail", Api!ResendVerificationEmail)
    /\ Sound("RequestPasswordReset", Api!RequestPasswordReset)
    /\ Sound("ConfirmPasswordReset", Api!ConfirmPasswordReset)
    /\ Sound("Revoke", Api!Revoke)
    /\ Sound("GetMe", Api!GetMe)
    /\ Sound("UpdateProfile", Api!UpdateProfile)
    /\ Sound("GetNotifications", Api!GetNotifications)
    /\ Sound("UpdateNotifications", Api!UpdateNotifications)
    /\ Sound("SendEmailNotification", Api!SendEmailNotification)
    /\ Sound("GetEmailTemplates", Api!GetEmailTemplates)
    /\ Sound("TestEmailSend", Api!TestEmailSend)
    /\ Sound("GetEmailQueueStatus", Api!GetEmailQueueStatus)
<1>. USE DEF Api!NeedUser, Api!NeedAdmin, Api!NeedId, Api!NeedBody, Api!Need,
            Api!Do, Api!Attempt, Api!Try, Api!Log, Api!Show, Api!MayPanic,
            Api!Panics, Api!Fork, Api!Answer, Api!When, Api!WithRedis,
            Api!WithoutRedis, Api!ForAdmin, Api!ForOthers,
            Api!InvalidateLicense, Api!SetAuthCookies,
            Api!SetAccessTokenCookie, Api!Step
<1>. USE DEF Sound, Shape, IsSequence, Kinds, Codes, ErrorCodes, Ends, Jumps,
            Writes, Clean, LeftByErrors, LeftByPanics, Guarded, AskedBefore,
            Asks, KeepsPromise, Promised, PromisedRows, Tells, Makes, Notes,
            TellsTruth, Api!AdminChanges, Api!Unrecorded
<1>. USE Promises, Leftovers, Rows, Groups
<1>Register. Sound("Register", Api!Register)
  <2> DEFINE h == Api!Register
            t == <<Api!NeedBody, Api!Need("a-free-e-mail", 409),
                   Api!Need("a-hashed-password", 500), Api!Do("user", 500),
                   Api!Try("verification-token"),
                   Api!WithRedis(Api!Try("cached-token")),
                   Api!WithoutRedis(Api!Panics), Api!Log("USER_REGISTERED"),
                   Api!Log("USER_CREATED"), Api!Answer(201)>>
  <2>1. Sound("Register", t)
    <3>1. Shape(t)
      BY SMTT(60)
    <3>2. Clean("Register", t)
      BY SMTT(60)
    <3>3. Guarded("Register", t)
      BY SMTT(60)
    <3>4. KeepsPromise("Register", t)
      BY SMTT(60)
    <3>5. TellsTruth(t)
      BY SMTT(60)
    <3>. HIDE DEF Shape, Clean, Guarded, KeepsPromise, TellsTruth, t
    <3>. QED
      BY ONLY <3>1, <3>2, <3>3, <3>4, <3>5 DEF Sound
  <2>2. /\ DOMAIN h = 1..10 /\ Len(h) = 10 /\ IsSequence(h)
        /\ h[1] = Api!NeedBody
        /\ h[2] = Api!Need("a-free-e-mail", 409)
        /\ h[3] = Api!Need("a-hashed-password", 500)
        /\ h[4] = Api!Do("user", 500)
        /\ h[5] = Api!Try("verification-token")
        /\ h[6] = Api!WithRedis(Api!Try("cached-token"))
        /\ h[7] = Api!WithoutRedis(Api!Panics)
        /\ h[8] = Api!Log("USER_REGISTERED")
        /\ h[9] = Api!Log("USER_CREATED")
        /\ h[10] = Api!Answer(201)
    BY DEF Api!Register, Api!CacheToken, Api!RegisterAccount
  <2>3. h = t
    BY <2>2, SameSteps
  <2>. HIDE DEF Sound, t
  <2>. QED
    BY ONLY <2>1, <2>3
<1>Login. Sound("Login", Api!Login)
  <2> DEFINE h == Api!Login
            t == <<Api!NeedBody,
                   Api!WithoutRedis(Api!Need("a-free-slot-of-the-limiter", 429)),
                   Api!Need("a-known-user", 401), Api!Need("the-password", 401),
                   Api!Need("an-active-account", 401), Api!Try("last-login"),
                   Api!Need("an-access-token", 500), Api!Need("a-refresh-token", 500),
                   Api!Log("USER_LOGIN"), Api!SetAuthCookies, Api!Answer(200)>>
  <2>1. Sound("Login", t)
    <3>1. Shape(t)
      BY SMTT(60)
    <3>2. Clean("Login", t)
      BY SMTT(60)
    <3>3. Guarded("Login", t)
      BY SMTT(60)
    <3>4. KeepsPromise("Login", t)
      BY SMTT(60)
    <3>5. TellsTruth(t)
      BY SMTT(60)
    <3>. HIDE DEF Shape, Clean, Guarded, KeepsPromise, TellsTruth, t
    <3>. QED
      BY ONLY <3>1, <3>2, <3>3, <3>4, <3>5 DEF Sound
  <2>2. /\ DOMAIN h = 1..11 /\ Len(h) = 11 /\ IsSequence(h)
        /\ h[1] = Api!NeedBody
        /\ h[2] = Api!WithoutRedis(Api!Need("a-free-slot-of-the-limiter", 429))
        /\ h[3] = Api!Need("a-known-user", 401)
        /\ h[4] = Api!Need("the-password", 401)
        /\ h[5] = Api!Need("an-active-account", 401)
        /\ h[6] = Api!Try("last-login")
        /\ h[7] = Api!Need("an-access-token", 500)
        /\ h[8] = Api!Need("a-refresh-token", 500)
        /\ h[9] = Api!Log("USER_LOGIN")
        /\ h[10] = Api!SetAuthCookies
        /\ h[11] = Api!Answer(200)
    BY DEF Api!Login, Api!CheckCredentials
  <2>3. h = t
    BY <2>2, SameSteps
  <2>. HIDE DEF Sound, t
  <2>. QED
    BY ONLY <2>1, <2>3
<1>RefreshToken. Sound("RefreshToken", Api!RefreshToken)
  BY SMTT(60) DEF Api!RefreshToken
<1>RotateToken. Sound("RotateToken", Api!RotateToken)
  <2> DEFINE h == Api!RotateToken
            t == <<Api!Need("a-refresh-cookie", 401),
                   Api!WithRedis(Api!Need("a-token-not-revoked", 401)),
                   Api!Need("a-valid-refresh-token", 401),
                   Api!Need("a-stored-user", 404),
                   Api!Need("an-active-or-verified-account", 403), Api!SetAuthCookies,
                   Api!WithRedis(Api!Try("revoked-token")), Api!Answer(200)>>
  <2>1. Sound("RotateToken", t)
    <3>1. Shape(t)
      BY SMTT(60)
    <3>2. Clean("RotateToken", t)
      BY SMTT(60)
    <3>3. Guarded("RotateToken", t)
      BY SMTT(60)
    <3>4. KeepsPromise("RotateToken", t)
      BY SMTT(60)
    <3>5. TellsTruth(t)
      BY SMTT(60)
    <3>. HIDE DEF Shape, Clean, Guarded, KeepsPromise, TellsTruth, t
    <3>. QED
      BY ONLY <3>1, <3>2, <3>3, <3>4, <3>5 DEF Sound
  <2>2. /\ DOMAIN h = 1..8 /\ Len(h) = 8 /\ IsSequence(h)
        /\ h[1] = Api!Need("a-refresh-cookie", 401)
        /\ h[2] = Api!WithRedis(Api!Need("a-token-not-revoked", 401))
        /\ h[3] = Api!Need("a-valid-refresh-token", 401)
        /\ h[4] = Api!Need("a-stored-user", 404)
        /\ h[5] = Api!Need("an-active-or-verified-account", 403)
        /\ h[6] = Api!SetAuthCookies
        /\ h[7] = Api!WithRedis(Api!Try("revoked-token"))
        /\ h[8] = Api!Answer(200)
    BY DEF Api!RotateToken, Api!RotatePair
  <2>3. h = t
    BY <2>2, SameSteps
  <2>. HIDE DEF Sound, t
  <2>. QED
    BY ONLY <2>1, <2>3
<1>Logout. Sound("Logout", Api!Logout)
  BY SMTT(60) DEF Api!Logout
<1>ListActiveSessions. Sound("ListActiveSessions", Api!ListActiveSessions)
  BY SMTT(60) DEF Api!ListActiveSessions
<1>LogoutAllOtherSessions. Sound("LogoutAllOtherSessions", Api!LogoutAllOtherSessions)
  BY SMTT(60) DEF Api!LogoutAllOtherSessions
<1>VerifyEmail. Sound("VerifyEmail", Api!VerifyEmail)
  <2> DEFINE h == Api!VerifyEmail
            t == <<Api!NeedBody, Api!Need("a-stored-token", 404),
                   Api!WithRedis(Api!Try("cached-token")),
                   Api!WithoutRedis(Api!MayPanic),
                   Api!Need("a-token-not-expired", 400),
                   Api!Need("a-token-not-used", 400), Api!Need("a-stored-user", 404),
                   Api!Do("verified-user", 500), Api!Try("used-token"),
                   Api!WithRedis(Api!Try("uncached-token")),
                   Api!WithoutRedis(Api!Panics), Api!Log("EMAIL_VERIFIED"),
                   Api!Answer(200)>>
  <2>1. Sound("VerifyEmail", t)
    <3>1. Shape(t)
      BY SMTT(60)
    <3>2. Clean("VerifyEmail", t)
      BY SMTT(60)
    <3>3. Guarded("VerifyEmail", t)
      BY SMTT(60)
    <3>4. KeepsPromise("VerifyEmail", t)
      BY SMTT(60)
    <3>5. TellsTruth(t)
      BY SMTT(60)
    <3>. HIDE DEF Shape, Clean, Guarded, KeepsPromise, TellsTruth, t
    <3>. QED
      BY ONLY <3>1, <3>2, <3>3, <3>4, <3>5 DEF Sound
  <2>2. /\ DOMAIN h = 1..13 /\ Len(h) = 13 /\ IsSequence(h)
        /\ h[1] = Api!NeedBody
        /\ h[2] = Api!Need("a-stored-token", 404)
        /\ h[3] = Api!WithRedis(Api!Try("cached-token"))
        /\ h[4] = Api!WithoutRedis(Api!MayPanic)
        /\ h[5] = Api!Need("a-token-not-expired", 400)
        /\ h[6] = Api!Need("a-token-not-used", 400)
        /\ h[7] = Api!Need("a-stored-user", 404)
        /\ h[8] = Api!Do("verified-user", 500)
        /\ h[9] = Api!Try("used-token")
        /\ h[10] = Api!WithRedis(Api!Try("uncached-token"))
        /\ h[11] = Api!WithoutRedis(Api!Panics)
        /\ h[12] = Api!Log("EMAIL_VERIFIED")
        /\ h[13] = Api!Answer(200)
    BY DEF Api!VerifyEmail, Api!UncacheToken, Api!GetToken
  <2>3. h = t
    BY <2>2, SameSteps
  <2>. HIDE DEF Sound, t
  <2>. QED
    BY ONLY <2>1, <2>3
<1>ResendVerificationEmail. Sound("ResendVerificationEmail", Api!ResendVerificationEmail)
  BY SMTT(60) DEF Api!ResendVerificationEmail
<1>RequestPasswordReset. Sound("RequestPasswordReset", Api!RequestPasswordReset)
  <2> DEFINE h == Api!RequestPasswordReset
            t == <<Api!NeedBody, Api!Need("a-stored-user", 404),
                   Api!Do("reset-token", 500), Api!WithRedis(Api!Try("cached-token")),
                   Api!WithoutRedis(Api!Panics), Api!Log("PASSWORD_RESET_REQUESTED"),
                   Api!Answer(200)>>
  <2>1. Sound("RequestPasswordReset", t)
    <3>1. Shape(t)
      BY SMTT(60)
    <3>2. Clean("RequestPasswordReset", t)
      BY SMTT(60)
    <3>3. Guarded("RequestPasswordReset", t)
      BY SMTT(60)
    <3>4. KeepsPromise("RequestPasswordReset", t)
      BY SMTT(60)
    <3>5. TellsTruth(t)
      BY SMTT(60)
    <3>. HIDE DEF Shape, Clean, Guarded, KeepsPromise, TellsTruth, t
    <3>. QED
      BY ONLY <3>1, <3>2, <3>3, <3>4, <3>5 DEF Sound
  <2>2. /\ DOMAIN h = 1..7 /\ Len(h) = 7 /\ IsSequence(h)
        /\ h[1] = Api!NeedBody
        /\ h[2] = Api!Need("a-stored-user", 404)
        /\ h[3] = Api!Do("reset-token", 500)
        /\ h[4] = Api!WithRedis(Api!Try("cached-token"))
        /\ h[5] = Api!WithoutRedis(Api!Panics)
        /\ h[6] = Api!Log("PASSWORD_RESET_REQUESTED")
        /\ h[7] = Api!Answer(200)
    BY DEF Api!RequestPasswordReset, Api!CacheToken
  <2>3. h = t
    BY <2>2, SameSteps
  <2>. HIDE DEF Sound, t
  <2>. QED
    BY ONLY <2>1, <2>3
<1>ConfirmPasswordReset. Sound("ConfirmPasswordReset", Api!ConfirmPasswordReset)
  <2> DEFINE h == Api!ConfirmPasswordReset
            t == <<Api!NeedBody, Api!Need("a-stored-token", 404),
                   Api!WithRedis(Api!Try("cached-token")),
                   Api!WithoutRedis(Api!MayPanic),
                   Api!Need("a-token-not-expired", 400),
                   Api!Need("a-token-not-used", 400), Api!Need("a-stored-user", 404),
                   Api!Need("a-hashed-password", 500), Api!Do("password", 500),
                   Api!Try("used-token"), Api!WithRedis(Api!Try("uncached-token")),
                   Api!WithoutRedis(Api!Panics), Api!Log("PASSWORD_RESET_CONFIRMED"),
                   Api!Answer(200)>>
  <2>1. Sound("ConfirmPasswordReset", t)
    <3>1. Shape(t)
      BY SMTT(60)
    <3>2. Clean("ConfirmPasswordReset", t)
      BY SMTT(60)
    <3>3. Guarded("ConfirmPasswordReset", t)
      BY SMTT(60)
    <3>4. KeepsPromise("ConfirmPasswordReset", t)
      BY SMTT(60)
    <3>5. TellsTruth(t)
      BY SMTT(60)
    <3>. HIDE DEF Shape, Clean, Guarded, KeepsPromise, TellsTruth, t
    <3>. QED
      BY ONLY <3>1, <3>2, <3>3, <3>4, <3>5 DEF Sound
  <2>2. /\ DOMAIN h = 1..14 /\ Len(h) = 14 /\ IsSequence(h)
        /\ h[1] = Api!NeedBody
        /\ h[2] = Api!Need("a-stored-token", 404)
        /\ h[3] = Api!WithRedis(Api!Try("cached-token"))
        /\ h[4] = Api!WithoutRedis(Api!MayPanic)
        /\ h[5] = Api!Need("a-token-not-expired", 400)
        /\ h[6] = Api!Need("a-token-not-used", 400)
        /\ h[7] = Api!Need("a-stored-user", 404)
        /\ h[8] = Api!Need("a-hashed-password", 500)
        /\ h[9] = Api!Do("password", 500)
        /\ h[10] = Api!Try("used-token")
        /\ h[11] = Api!WithRedis(Api!Try("uncached-token"))
        /\ h[12] = Api!WithoutRedis(Api!Panics)
        /\ h[13] = Api!Log("PASSWORD_RESET_CONFIRMED")
        /\ h[14] = Api!Answer(200)
    BY DEF Api!ConfirmPasswordReset, Api!UncacheToken, Api!GetToken
  <2>3. h = t
    BY <2>2, SameSteps
  <2>. HIDE DEF Sound, t
  <2>. QED
    BY ONLY <2>1, <2>3
<1>Revoke. Sound("Revoke", Api!Revoke)
  BY SMTT(60) DEF Api!Revoke
<1>GetMe. Sound("GetMe", Api!GetMe)
  BY SMTT(60) DEF Api!GetMe
<1>UpdateProfile. Sound("UpdateProfile", Api!UpdateProfile)
  BY SMTT(60) DEF Api!UpdateProfile
<1>GetNotifications. Sound("GetNotifications", Api!GetNotifications)
  BY SMTT(60) DEF Api!GetNotifications
<1>UpdateNotifications. Sound("UpdateNotifications", Api!UpdateNotifications)
  BY SMTT(60) DEF Api!UpdateNotifications
<1>SendEmailNotification. Sound("SendEmailNotification", Api!SendEmailNotification)
  BY SMTT(60) DEF Api!SendEmailNotification
<1>GetEmailTemplates. Sound("GetEmailTemplates", Api!GetEmailTemplates)
  BY SMTT(60) DEF Api!GetEmailTemplates
<1>TestEmailSend. Sound("TestEmailSend", Api!TestEmailSend)
  BY SMTT(60) DEF Api!TestEmailSend
<1>GetEmailQueueStatus. Sound("GetEmailQueueStatus", Api!GetEmailQueueStatus)
  BY SMTT(60) DEF Api!GetEmailQueueStatus
<1>. HIDE DEF Sound
<1>. QED
  BY ONLY <1>Register, <1>Login, <1>RefreshToken, <1>RotateToken, <1>Logout,
     <1>ListActiveSessions, <1>LogoutAllOtherSessions, <1>VerifyEmail,
     <1>ResendVerificationEmail, <1>RequestPasswordReset,
     <1>ConfirmPasswordReset, <1>Revoke, <1>GetMe, <1>UpdateProfile,
     <1>GetNotifications, <1>UpdateNotifications, <1>SendEmailNotification,
     <1>GetEmailTemplates, <1>TestEmailSend, <1>GetEmailQueueStatus

\* The handlers of /licenses.
LEMMA LicenseHandlersAreSound ==
    /\ Sound("ActivateLicense", Api!ActivateLicense)
    /\ Sound("ValidateLicense", Api!ValidateLicense)
    /\ Sound("DeactivateLicense", Api!DeactivateLicense)
    /\ Sound("Heartbeat", Api!Heartbeat)
    /\ Sound("CreateLicense", Api!CreateLicense)
    /\ Sound("GetLicenses", Api!GetLicenses)
    /\ Sound("ExportLicenses", Api!ExportLicenses)
    /\ Sound("BulkRevoke", Api!BulkRevoke)
    /\ Sound("BulkRevokeAsync", Api!BulkRevokeAsync)
    /\ Sound("GetBulkJobStatus", Api!GetBulkJobStatus)
    /\ Sound("CancelBulkJob", Api!CancelBulkJob)
    /\ Sound("GetLicense", Api!GetLicense)
    /\ Sound("RenewLicense", Api!RenewLicense)
    /\ Sound("RevokeLicense", Api!RevokeLicense)
    /\ Sound("UpdateLicenseStatus", Api!UpdateLicenseStatus)
    /\ Sound("GetMachineFingerprints", Api!GetMachineFingerprints)
    /\ Sound("TrackMachine", Api!TrackMachine)
<1>. USE DEF Api!NeedUser, Api!NeedAdmin, Api!NeedId, Api!NeedBody, Api!Need,
            Api!Do, Api!Attempt, Api!Try, Api!Log, Api!Show, Api!MayPanic,
            Api!Panics, Api!Fork, Api!Answer, Api!When, Api!WithRedis,
            Api!WithoutRedis, Api!ForAdmin, Api!ForOthers,
            Api!InvalidateLicense, Api!SetAuthCookies,
            Api!SetAccessTokenCookie, Api!Step
<1>. USE DEF Sound, Shape, IsSequence, Kinds, Codes, ErrorCodes, Ends, Jumps,
            Writes, Clean, LeftByErrors, LeftByPanics, Guarded, AskedBefore,
            Asks, KeepsPromise, Promised, PromisedRows, Tells, Makes, Notes,
            TellsTruth, Api!AdminChanges, Api!Unrecorded
<1>. USE Promises, Leftovers, Rows, Groups
<1>ActivateLicense. Sound("ActivateLicense", Api!ActivateLicense)
  BY SMTT(60) DEF Api!ActivateLicense
<1>ValidateLicense. Sound("ValidateLicense", Api!ValidateLicense)
  BY SMTT(60) DEF Api!ValidateLicense
<1>DeactivateLicense. Sound("DeactivateLicense", Api!DeactivateLicense)
  BY SMTT(60) DEF Api!DeactivateLicense
<1>Heartbeat. Sound("Heartbeat", Api!Heartbeat)
  BY SMTT(60) DEF Api!Heartbeat
<1>CreateLicense. Sound("CreateLicense", Api!CreateLicense)
  BY SMTT(60) DEF Api!CreateLicense
<1>GetLicenses. Sound("GetLicenses", Api!GetLicenses)
  BY SMTT(60) DEF Api!GetLicenses
<1>ExportLicenses. Sound("ExportLicenses", Api!ExportLicenses)
  BY SMTT(60) DEF Api!ExportLicenses
<1>BulkRevoke. Sound("BulkRevoke", Api!BulkRevoke)
  BY SMTT(60) DEF Api!BulkRevoke
<1>BulkRevokeAsync. Sound("BulkRevokeAsync", Api!BulkRevokeAsync)
  BY SMTT(60) DEF Api!BulkRevokeAsync
<1>GetBulkJobStatus. Sound("GetBulkJobStatus", Api!GetBulkJobStatus)
  BY SMTT(60) DEF Api!GetBulkJobStatus
<1>CancelBulkJob. Sound("CancelBulkJob", Api!CancelBulkJob)
  BY SMTT(60) DEF Api!CancelBulkJob
<1>GetLicense. Sound("GetLicense", Api!GetLicense)
  BY SMTT(60) DEF Api!GetLicense
<1>RenewLicense. Sound("RenewLicense", Api!RenewLicense)
  BY SMTT(60) DEF Api!RenewLicense
<1>RevokeLicense. Sound("RevokeLicense", Api!RevokeLicense)
  BY SMTT(60) DEF Api!RevokeLicense
<1>UpdateLicenseStatus. Sound("UpdateLicenseStatus", Api!UpdateLicenseStatus)
  BY SMTT(60) DEF Api!UpdateLicenseStatus
<1>GetMachineFingerprints. Sound("GetMachineFingerprints", Api!GetMachineFingerprints)
  BY SMTT(60) DEF Api!GetMachineFingerprints
<1>TrackMachine. Sound("TrackMachine", Api!TrackMachine)
  BY SMTT(60) DEF Api!TrackMachine
<1>. HIDE DEF Sound
<1>. QED
  BY ONLY <1>ActivateLicense, <1>ValidateLicense, <1>DeactivateLicense,
     <1>Heartbeat, <1>CreateLicense, <1>GetLicenses, <1>ExportLicenses,
     <1>BulkRevoke, <1>BulkRevokeAsync, <1>GetBulkJobStatus, <1>CancelBulkJob,
     <1>GetLicense, <1>RenewLicense, <1>RevokeLicense, <1>UpdateLicenseStatus,
     <1>GetMachineFingerprints, <1>TrackMachine

\* The handlers of /users and /permissions.
LEMMA UserHandlersAreSound ==
    /\ Sound("GetUsers", Api!GetUsers)
    /\ Sound("ExportUsers", Api!ExportUsers)
    /\ Sound("GetUser", Api!GetUser)
    /\ Sound("GetUserByLicenseKey", Api!GetUserByLicenseKey)
    /\ Sound("UpdateUser", Api!UpdateUser)
    /\ Sound("UpdateUserRole", Api!UpdateUserRole)
    /\ Sound("UpdateUserStatus", Api!UpdateUserStatus)
    /\ Sound("DeleteUser", Api!DeleteUser)
    /\ Sound("GetUserPermissions", Api!GetUserPermissions)
    /\ Sound("GetRolePermissions", Api!GetRolePermissions)
    /\ Sound("GrantPermission", Api!GrantPermission)
    /\ Sound("RevokePermission", Api!RevokePermission)
    /\ Sound("SetRolePermissions", Api!SetRolePermissions)
    /\ Sound("ResetUserPermissions", Api!ResetUserPermissions)
    /\ Sound("CheckPermission", Api!CheckPermission)
<1>. USE DEF Api!NeedUser, Api!NeedAdmin, Api!NeedId, Api!NeedBody, Api!Need,
            Api!Do, Api!Attempt, Api!Try, Api!Log, Api!Show, Api!MayPanic,
            Api!Panics, Api!Fork, Api!Answer, Api!When, Api!WithRedis,
            Api!WithoutRedis, Api!ForAdmin, Api!ForOthers,
            Api!InvalidateLicense, Api!SetAuthCookies,
            Api!SetAccessTokenCookie, Api!Step
<1>. USE DEF Sound, Shape, IsSequence, Kinds, Codes, ErrorCodes, Ends, Jumps,
            Writes, Clean, LeftByErrors, LeftByPanics, Guarded, AskedBefore,
            Asks, KeepsPromise, Promised, PromisedRows, Tells, Makes, Notes,
            TellsTruth, Api!AdminChanges, Api!Unrecorded
<1>. USE Promises, Leftovers, Rows, Groups
<1>GetUsers. Sound("GetUsers", Api!GetUsers)
  BY SMTT(60) DEF Api!GetUsers
<1>ExportUsers. Sound("ExportUsers", Api!ExportUsers)
  BY SMTT(60) DEF Api!ExportUsers
<1>GetUser. Sound("GetUser", Api!GetUser)
  BY SMTT(60) DEF Api!GetUser
<1>GetUserByLicenseKey. Sound("GetUserByLicenseKey", Api!GetUserByLicenseKey)
  BY SMTT(60) DEF Api!GetUserByLicenseKey
<1>UpdateUser. Sound("UpdateUser", Api!UpdateUser)
  BY SMTT(60) DEF Api!UpdateUser
<1>UpdateUserRole. Sound("UpdateUserRole", Api!UpdateUserRole)
  BY SMTT(60) DEF Api!UpdateUserRole
<1>UpdateUserStatus. Sound("UpdateUserStatus", Api!UpdateUserStatus)
  BY SMTT(60) DEF Api!UpdateUserStatus
<1>DeleteUser. Sound("DeleteUser", Api!DeleteUser)
  BY SMTT(60) DEF Api!DeleteUser
<1>GetUserPermissions. Sound("GetUserPermissions", Api!GetUserPermissions)
  BY SMTT(60) DEF Api!GetUserPermissions
<1>GetRolePermissions. Sound("GetRolePermissions", Api!GetRolePermissions)
  BY SMTT(60) DEF Api!GetRolePermissions
<1>GrantPermission. Sound("GrantPermission", Api!GrantPermission)
  BY SMTT(60) DEF Api!GrantPermission
<1>RevokePermission. Sound("RevokePermission", Api!RevokePermission)
  BY SMTT(60) DEF Api!RevokePermission
<1>SetRolePermissions. Sound("SetRolePermissions", Api!SetRolePermissions)
  BY SMTT(60) DEF Api!SetRolePermissions
<1>ResetUserPermissions. Sound("ResetUserPermissions", Api!ResetUserPermissions)
  BY SMTT(60) DEF Api!ResetUserPermissions
<1>CheckPermission. Sound("CheckPermission", Api!CheckPermission)
  BY SMTT(60) DEF Api!CheckPermission
<1>. HIDE DEF Sound
<1>. QED
  BY ONLY <1>GetUsers, <1>ExportUsers, <1>GetUser, <1>GetUserByLicenseKey,
     <1>UpdateUser, <1>UpdateUserRole, <1>UpdateUserStatus, <1>DeleteUser,
     <1>GetUserPermissions, <1>GetRolePermissions, <1>GrantPermission,
     <1>RevokePermission, <1>SetRolePermissions, <1>ResetUserPermissions,
     <1>CheckPermission

\* The handlers of the reports.
LEMMA ReportHandlersAreSound ==
    /\ Sound("Health", Api!Health)
    /\ Sound("Liveness", Api!Liveness)
    /\ Sound("Readiness", Api!Readiness)
    /\ Sound("Startup", Api!Startup)
    /\ Sound("GetAuditLogs", Api!GetAuditLogs)
    /\ Sound("GetAuditLogsByUser", Api!GetAuditLogsByUser)
    /\ Sound("GetAuditLogStats", Api!GetAuditLogStats)
    /\ Sound("ExportAuditLogs", Api!ExportAuditLogs)
    /\ Sound("DeleteAuditLogs", Api!DeleteAuditLogs)
    /\ Sound("GetUserDashboard", Api!GetUserDashboard)
    /\ Sound("GetDashboardStats", Api!AdminReport)
    /\ Sound("GetLicenseExpirationForecast", Api!AdminReport)
    /\ Sound("GetActivityTimeline", Api!GetActivityTimeline)
    /\ Sound("GetUsageAnalytics", Api!AdminReport)
    /\ Sound("GetEnhancedDashboardStats", Api!AdminReport)
<1>. USE DEF Api!NeedUser, Api!NeedAdmin, Api!NeedId, Api!NeedBody, Api!Need,
            Api!Do, Api!Attempt, Api!Try, Api!Log, Api!Show, Api!MayPanic,
            Api!Panics, Api!Fork, Api!Answer, Api!When, Api!WithRedis,
            Api!WithoutRedis, Api!ForAdmin, Api!ForOthers,
            Api!InvalidateLicense, Api!SetAuthCookies,
            Api!SetAccessTokenCookie, Api!Step
<1>. USE DEF Sound, Shape, IsSequence, Kinds, Codes, ErrorCodes, Ends, Jumps,
            Writes, Clean, LeftByErrors, LeftByPanics, Guarded, AskedBefore,
            Asks, KeepsPromise, Promised, PromisedRows, Tells, Makes, Notes,
            TellsTruth, Api!AdminChanges, Api!Unrecorded
<1>. USE Promises, Leftovers, Rows, Groups
<1>Health. Sound("Health", Api!Health)
  BY SMTT(60) DEF Api!Health
<1>Liveness. Sound("Liveness", Api!Liveness)
  BY SMTT(60) DEF Api!Liveness
<1>Readiness. Sound("Readiness", Api!Readiness)
  BY SMTT(60) DEF Api!Readiness
<1>Startup. Sound("Startup", Api!Startup)
  BY SMTT(60) DEF Api!Startup
<1>GetAuditLogs. Sound("GetAuditLogs", Api!GetAuditLogs)
  BY SMTT(60) DEF Api!GetAuditLogs
<1>GetAuditLogsByUser. Sound("GetAuditLogsByUser", Api!GetAuditLogsByUser)
  BY SMTT(60) DEF Api!GetAuditLogsByUser
<1>GetAuditLogStats. Sound("GetAuditLogStats", Api!GetAuditLogStats)
  BY SMTT(60) DEF Api!GetAuditLogStats
<1>ExportAuditLogs. Sound("ExportAuditLogs", Api!ExportAuditLogs)
  BY SMTT(60) DEF Api!ExportAuditLogs
<1>DeleteAuditLogs. Sound("DeleteAuditLogs", Api!DeleteAuditLogs)
  BY SMTT(60) DEF Api!DeleteAuditLogs
<1>GetUserDashboard. Sound("GetUserDashboard", Api!GetUserDashboard)
  BY SMTT(60) DEF Api!GetUserDashboard
<1>GetDashboardStats. Sound("GetDashboardStats", Api!AdminReport)
  BY SMTT(60) DEF Api!AdminReport
<1>GetLicenseExpirationForecast. Sound("GetLicenseExpirationForecast", Api!AdminReport)
  BY SMTT(60) DEF Api!AdminReport
<1>GetActivityTimeline. Sound("GetActivityTimeline", Api!GetActivityTimeline)
  BY SMTT(60) DEF Api!GetActivityTimeline
<1>GetUsageAnalytics. Sound("GetUsageAnalytics", Api!AdminReport)
  BY SMTT(60) DEF Api!AdminReport
<1>GetEnhancedDashboardStats. Sound("GetEnhancedDashboardStats", Api!AdminReport)
  BY SMTT(60) DEF Api!AdminReport
<1>. HIDE DEF Sound
<1>. QED
  BY ONLY <1>Health, <1>Liveness, <1>Readiness, <1>Startup, <1>GetAuditLogs,
     <1>GetAuditLogsByUser, <1>GetAuditLogStats, <1>ExportAuditLogs,
     <1>DeleteAuditLogs, <1>GetUserDashboard, <1>GetDashboardStats,
     <1>GetLicenseExpirationForecast, <1>GetActivityTimeline,
     <1>GetUsageAnalytics, <1>GetEnhancedDashboardStats

\* The handlers of the routes.
LEMMA PublicTable ==
    /\ Api!PublicHandlers["Register"] = Api!Register
    /\ Api!PublicHandlers["Login"] = Api!Login
    /\ Api!PublicHandlers["RefreshToken"] = Api!RefreshToken
    /\ Api!PublicHandlers["RotateToken"] = Api!RotateToken
    /\ Api!PublicHandlers["Logout"] = Api!Logout
    /\ Api!PublicHandlers["ListActiveSessions"] = Api!ListActiveSessions
    /\ Api!PublicHandlers["LogoutAllOtherSessions"] = Api!LogoutAllOtherSessions
    /\ Api!PublicHandlers["VerifyEmail"] = Api!VerifyEmail
    /\ Api!PublicHandlers["ResendVerificationEmail"] = Api!ResendVerificationEmail
    /\ Api!PublicHandlers["RequestPasswordReset"] = Api!RequestPasswordReset
    /\ Api!PublicHandlers["ConfirmPasswordReset"] = Api!ConfirmPasswordReset
    /\ Api!PublicHandlers["Revoke"] = Api!Revoke
    /\ Api!PublicHandlers["ActivateLicense"] = Api!ActivateLicense
    /\ Api!PublicHandlers["ValidateLicense"] = Api!ValidateLicense
    /\ Api!PublicHandlers["DeactivateLicense"] = Api!DeactivateLicense
    /\ Api!PublicHandlers["Heartbeat"] = Api!Heartbeat
    /\ Api!PublicHandlers["Health"] = Api!Health
    /\ Api!PublicHandlers["Liveness"] = Api!Liveness
    /\ Api!PublicHandlers["Readiness"] = Api!Readiness
    /\ Api!PublicHandlers["Startup"] = Api!Startup
BY DEF Api!PublicHandlers

\* The handlers behind AuthMiddleware.
LEMMA ProtectedTable ==
    /\ Api!ProtectedHandlers["GetMe"] = Api!GetMe
    /\ Api!ProtectedHandlers["UpdateProfile"] = Api!UpdateProfile
    /\ Api!ProtectedHandlers["GetNotifications"] = Api!GetNotifications
    /\ Api!ProtectedHandlers["UpdateNotifications"] = Api!UpdateNotifications
    /\ Api!ProtectedHandlers["SendEmailNotification"] = Api!SendEmailNotification
    /\ Api!ProtectedHandlers["GetEmailTemplates"] = Api!GetEmailTemplates
    /\ Api!ProtectedHandlers["TestEmailSend"] = Api!TestEmailSend
    /\ Api!ProtectedHandlers["GetEmailQueueStatus"] = Api!GetEmailQueueStatus
    /\ Api!ProtectedHandlers["CreateLicense"] = Api!CreateLicense
    /\ Api!ProtectedHandlers["GetLicenses"] = Api!GetLicenses
    /\ Api!ProtectedHandlers["ExportLicenses"] = Api!ExportLicenses
    /\ Api!ProtectedHandlers["BulkRevoke"] = Api!BulkRevoke
    /\ Api!ProtectedHandlers["BulkRevokeAsync"] = Api!BulkRevokeAsync
    /\ Api!ProtectedHandlers["GetBulkJobStatus"] = Api!GetBulkJobStatus
    /\ Api!ProtectedHandlers["CancelBulkJob"] = Api!CancelBulkJob
    /\ Api!ProtectedHandlers["GetLicense"] = Api!GetLicense
    /\ Api!ProtectedHandlers["RenewLicense"] = Api!RenewLicense
    /\ Api!ProtectedHandlers["RevokeLicense"] = Api!RevokeLicense
    /\ Api!ProtectedHandlers["UpdateLicenseStatus"] = Api!UpdateLicenseStatus
    /\ Api!ProtectedHandlers["GetMachineFingerprints"] = Api!GetMachineFingerprints
    /\ Api!ProtectedHandlers["TrackMachine"] = Api!TrackMachine
    /\ Api!ProtectedHandlers["GetUsers"] = Api!GetUsers
    /\ Api!ProtectedHandlers["ExportUsers"] = Api!ExportUsers
    /\ Api!ProtectedHandlers["GetUser"] = Api!GetUser
    /\ Api!ProtectedHandlers["GetUserByLicenseKey"] = Api!GetUserByLicenseKey
    /\ Api!ProtectedHandlers["UpdateUser"] = Api!UpdateUser
    /\ Api!ProtectedHandlers["UpdateUserRole"] = Api!UpdateUserRole
    /\ Api!ProtectedHandlers["UpdateUserStatus"] = Api!UpdateUserStatus
    /\ Api!ProtectedHandlers["DeleteUser"] = Api!DeleteUser
    /\ Api!ProtectedHandlers["GetAuditLogs"] = Api!GetAuditLogs
    /\ Api!ProtectedHandlers["GetAuditLogsByUser"] = Api!GetAuditLogsByUser
    /\ Api!ProtectedHandlers["GetAuditLogStats"] = Api!GetAuditLogStats
    /\ Api!ProtectedHandlers["ExportAuditLogs"] = Api!ExportAuditLogs
    /\ Api!ProtectedHandlers["DeleteAuditLogs"] = Api!DeleteAuditLogs
    /\ Api!ProtectedHandlers["GetUserDashboard"] = Api!GetUserDashboard
    /\ Api!ProtectedHandlers["GetDashboardStats"] = Api!AdminReport
    /\ Api!ProtectedHandlers["GetLicenseExpirationForecast"] = Api!AdminReport
    /\ Api!ProtectedHandlers["GetActivityTimeline"] = Api!GetActivityTimeline
    /\ Api!ProtectedHandlers["GetUsageAnalytics"] = Api!AdminReport
    /\ Api!ProtectedHandlers["GetEnhancedDashboardStats"] = Api!AdminReport
BY DEF Api!ProtectedHandlers

\* The handlers behind AdminOnlyMiddleware as well.
LEMMA PermissionTable ==
    /\ Api!PermissionHandlers["GetUserPermissions"] = Api!GetUserPermissions
    /\ Api!PermissionHandlers["GetRolePermissions"] = Api!GetRolePermissions
    /\ Api!PermissionHandlers["GrantPermission"] = Api!GrantPermission
    /\ Api!PermissionHandlers["RevokePermission"] = Api!RevokePermission
    /\ Api!PermissionHandlers["SetRolePermissions"] = Api!SetRolePermissions
    /\ Api!PermissionHandlers["ResetUserPermissions"] = Api!ResetUserPermissions
    /\ Api!PermissionHandlers["CheckPermission"] = Api!CheckPermission
BY DEF Api!PermissionHandlers

\* A server at rest serves no route.
LEMMA IdleIsNoRoute == Api!Idle \notin Api!Routes
BY Groups DEF Api!Idle, Api!Routes

\* Every route has a sound handler.
LEMMA HandlersAreSound ==
    ASSUME NEW r \in Api!Routes
    PROVE  Sound(r, Api!HandlerOf(r))
<1>1. r \in Api!Public => Sound(r, Api!PublicHandlers[r])
  BY Groups, PublicTable, AuthHandlersAreSound, LicenseHandlersAreSound, ReportHandlersAreSound
<1>2. r \in Api!AdminOnly => Sound(r, Api!PermissionHandlers[r])
  BY Groups, PermissionTable, UserHandlersAreSound
<1>3. r \in DOMAIN Api!ProtectedHandlers => Sound(r, Api!ProtectedHandlers[r])
  BY Groups, ProtectedTable, AuthHandlersAreSound, LicenseHandlersAreSound, UserHandlersAreSound, ReportHandlersAreSound
<1>. QED
  BY <1>1, <1>2, <1>3 DEF Api!Routes, Api!HandlerOf

\* The middleware in front of a handler.
Before(r) == Api!RateLimit(r) \o Api!Auth(r) \o Api!Admins(r)

\* The middleware only asks.
LEMMA BeforeIsNeeds ==
    ASSUME NEW r
    PROVE  /\ IsSequence(Before(r))
           /\ \A i \in DOMAIN Before(r) :
                  Before(r)[i].kind = "need" /\ Before(r)[i].code \in ErrorCodes
<1> DEFINE Needs == {Api!When("limits", Api!Need("a-free-slot", 429)),
                    Api!Need("token", 401), Api!NeedAdmin}
<1>1. /\ Api!RateLimit(r) \in Seq(Needs) /\ Api!Auth(r) \in Seq(Needs)
      /\ Api!Admins(r) \in Seq(Needs)
  <2>1. <<>> \in Seq(Needs) /\ \A s \in Needs : <<s>> \in Seq(Needs)
    <3>. HIDE DEF Needs
    <3>. QED
      OBVIOUS
  <2>2. {Api!When("limits", Api!Need("a-free-slot", 429)),
         Api!Need("token", 401), Api!NeedAdmin} \subseteq Needs
    OBVIOUS
  <2>. HIDE DEF Needs
  <2>. QED
    BY <2>1, <2>2 DEF Api!RateLimit, Api!Auth, Api!Admins
<1>2. \A s \in Needs : s.kind = "need" /\ s.code \in ErrorCodes
  BY DEF Api!When, Api!Need, Api!NeedAdmin, Api!Step, ErrorCodes
<1>. HIDE DEF Needs
<1>3. Before(r) \in Seq(Needs)
  BY <1>1 DEF Before
<1>4. \A i \in DOMAIN Before(r) : Before(r)[i] \in Needs
  BY <1>3
<1>5. IsSequence(Before(r))
  BY <1>3 DEF IsSequence
<1>. QED
  BY <1>2, <1>4, <1>5

\* Questions asked in front of a sound handler keep it sound.
LEMMA Fronted ==
    ASSUME NEW r, NEW p, NEW h, IsSequence(p), Sound(r, h),
           \A i \in DOMAIN p : p[i].kind = "need" /\ p[i].code \in ErrorCodes
    PROVE  Sound(r, p \o h)
<1> DEFINE P == p \o h
           n == Len(p)
<1>0. IsSequence(h)
  BY DEF Sound, Shape
<1>1. /\ n \in Nat /\ DOMAIN p = 1..n
      /\ Len(h) \in Nat /\ DOMAIN h = 1..Len(h)
  BY <1>0 DEF IsSequence
<1>2. /\ DOMAIN P = 1..(n + Len(h)) /\ Len(P) = n + Len(h)
      /\ \A i \in 1..n : P[i] = p[i]
      /\ \A i \in 1..Len(h) : P[n + i] = h[i]
  <2> DEFINE S == {p[i] : i \in DOMAIN p} \cup {h[i] : i \in DOMAIN h}
  <2>1. p \in Seq(S) /\ h \in Seq(S)
    BY <1>0 DEF IsSequence
  <2>. HIDE DEF S
  <2>. QED
    BY <2>1
<1>3. IsSequence(P)
  <2> DEFINE S == {P[i] : i \in DOMAIN P}
  <2>1. \A i \in DOMAIN p : p[i] \in S
    BY <1>1, <1>2
  <2>2. \A k \in DOMAIN h : h[k] \in S
    <3>. SUFFICES ASSUME NEW k \in DOMAIN h PROVE h[k] \in S
      OBVIOUS
    <3>1. n + k \in DOMAIN P /\ P[n + k] = h[k]
      BY <1>1, <1>2
    <3>. QED
      BY <3>1
  <2>. HIDE DEF S
  <2>3. p \in Seq(S) /\ h \in Seq(S)
    BY <1>0, <1>1, <2>1, <2>2 DEF IsSequence
  <2>4. P \in Seq(S)
    BY <2>3
  <2>. QED
    BY <2>4 DEF IsSequence, S
<1>. HIDE DEF P, n
<1>4. \A i \in DOMAIN P : \/ i \in 1..n /\ P[i] = p[i] /\ P[i].kind = "need" /\ P[i].code \in ErrorCodes
                         \/ \E k \in DOMAIN h : i = n + k /\ P[i] = h[k]
  <2>. SUFFICES ASSUME NEW i \in DOMAIN P, i \notin 1..n
       PROVE \E k \in DOMAIN h : i = n + k /\ P[i] = h[k]
    BY <1>1, <1>2
  <2>1. i - n \in DOMAIN h /\ i = n + (i - n)
    BY <1>1, <1>2
  <2>. QED
    BY <1>1, <1>2, <2>1
<1>5. \A k \in DOMAIN h : n + k \in DOMAIN P /\ P[n + k] = h[k]
  BY <1>1, <1>2
<1>6. Shape(h) /\ Clean(r, h) /\ Guarded(r, h) /\ KeepsPromise(r, h) /\ TellsTruth(h)
  BY DEF Sound
<1>7. Len(h) \in DOMAIN h /\ Len(P) = n + Len(h) /\ P[Len(P)] = h[Len(h)]
  BY <1>1, <1>2, <1>6 DEF Shape
<1>8. Shape(P)
  <2>. SUFFICES ASSUME NEW i \in DOMAIN P
       PROVE  /\ P[i].kind \in Kinds
              /\ Ends(P[i]) => P[i].code \in Codes
              /\ Ends(P[i]) /\ P[i].kind # "answer" => P[i].code \in ErrorCodes
              /\ P[i].kind = "answer" /\ i < Len(P) => P[i].code = 500
              /\ P[i].kind = "log" => P[i].when = "always"
              /\ Jumps(P[i]) => /\ P[i].code = 1 /\ i + 2 <= Len(P)
                                /\ P[i + 1].kind \in {"try", "log"} /\ P[i + 1].code = 0
    BY <1>1, <1>3, <1>6, <1>7 DEF Shape
  <2>1. CASE P[i].kind = "need" /\ P[i].code \in ErrorCodes
    BY <2>1 DEF Kinds, Codes, Jumps
  <2>2. ASSUME NEW k \in DOMAIN h, i = n + k, P[i] = h[k]
        PROVE  Jumps(h[k]) => k + 1 \in DOMAIN h /\ P[i + 1] = h[k + 1]
    <3>1. Jumps(h[k]) => k + 1 \in DOMAIN h
      BY <1>1, <1>6 DEF Shape
    <3>2. n + (k + 1) = i + 1
      BY <1>1, <2>2
    <3>. QED
      BY <1>5, <3>1, <3>2
  <2>3. ASSUME NEW k \in DOMAIN h, i = n + k, P[i] = h[k]
        PROVE  (i < Len(P) <=> k < Len(h)) /\ (i + 2 <= Len(P) <=> k + 2 <= Len(h))
    BY <1>1, <1>7, <2>3
  <2>. QED
    BY <1>4, <1>6, <2>1, <2>2, <2>3 DEF Shape
<1>9. Clean(r, P)
  <2>. SUFFICES ASSUME NEW i \in DOMAIN P, NEW j \in DOMAIN P, i < j,
                       Writes(P[i]), Ends(P[j]), P[j].code >= 400
       PROVE  \/ P[i].what \in LeftByErrors(r)
              \/ P[i].what \in LeftByPanics(r) /\ P[j].when = "no-redis"
              \/ P[i].when = "redis" /\ P[j].when = "no-redis"
    BY DEF Clean
  <2>1. PICK k \in DOMAIN h : i = n + k /\ P[i] = h[k]
    BY <1>4 DEF Writes
  <2>2. PICK m \in DOMAIN h : j = n + m /\ P[j] = h[m]
    BY <1>1, <1>4, <2>1
  <2>3. k < m
    BY <1>1, <2>1, <2>2
  <2>. QED
    BY <1>6, <2>1, <2>2, <2>3 DEF Clean
<1>10. ASSUME NEW k \in DOMAIN h, NEW what, AskedBefore(h, k, what)
       PROVE  AskedBefore(P, n + k, what)
  <2>1. PICK j \in DOMAIN h : j < k /\ Asks(h[j], what)
    BY <1>10 DEF AskedBefore
  <2>2. n + j \in DOMAIN P /\ n + j < n + k /\ Asks(P[n + j], what)
    BY <1>1, <1>5, <2>1
  <2>. QED
    BY <2>2 DEF AskedBefore
<1>11. Guarded(r, P)
  <2>. SUFFICES ASSUME NEW i \in DOMAIN P, Writes(P[i]) \/ P[i].kind = "show"
       PROVE  /\ Writes(P[i]) /\ P[i].what \in Api!AdminChanges => AskedBefore(P, i, "admin")
              /\ Writes(P[i]) /\ r = "UpdateUser" => AskedBefore(P, i, "own-record-or-admin")
              /\ P[i].kind = "show" /\ P[i].what = "all-rows" =>
                     P[i].when = "admin" \/ AskedBefore(P, i, "admin")
              /\ P[i].kind = "show" /\ P[i].what = "the-record" =>
                     AskedBefore(P, i, "own-record-or-admin")
              /\ P[i].kind = "show" /\ r \in Api!Public => AskedBefore(P, i, "user")
    BY DEF Guarded
  <2>1. PICK k \in DOMAIN h : i = n + k /\ P[i] = h[k]
    BY <1>4 DEF Writes
  <2>. QED
    BY <1>6, <1>10, <2>1 DEF Guarded
<1>12. KeepsPromise(r, P)
  <2>. SUFFICES ASSUME P[Len(P)].code \in 200..299
       PROVE  /\ \A change \in Promised(r) : \E i \in DOMAIN P : Makes(P[i], change)
              /\ \A change \in PromisedRows(r) : \E i \in DOMAIN P : Notes(P, i, change)
    BY DEF KeepsPromise
  <2>1. ASSUME NEW change \in Promised(r)
        PROVE  \E i \in DOMAIN P : Makes(P[i], change)
    <3>1. PICK k \in DOMAIN h : Makes(h[k], change)
      BY <1>6, <1>7 DEF KeepsPromise
    <3>. QED
      BY <1>5, <3>1
  <2>2. ASSUME NEW change \in PromisedRows(r)
        PROVE  \E i \in DOMAIN P : Notes(P, i, change)
    <3>1. PICK k \in DOMAIN h : Notes(h, k, change)
      BY <1>6, <1>7 DEF KeepsPromise
    <3>2. PICK m \in DOMAIN P : m = n + k /\ P[m] = h[k]
      BY <1>5
    <3>3. m > 1 => ~Jumps(P[m - 1])
      <4>1. CASE k > 1
        <5>1. k - 1 \in DOMAIN h /\ n + (k - 1) = m - 1
          BY <1>1, <3>2, <4>1
        <5>. QED
          BY <1>5, <3>1, <4>1, <5>1 DEF Notes
      <4>2. CASE k <= 1 /\ m > 1
        <5>1. m - 1 \in 1..n
          BY <1>1, <3>2, <4>2
        <5>. QED
          BY <1>1, <1>2, <5>1 DEF Jumps
      <4>. QED
        BY <1>1, <4>1, <4>2
    <3>4. P[m].kind = "log" /\ change \in Tells(P[m].what)
      BY <3>1, <3>2 DEF Notes
    <3>. QED
      BY <3>3, <3>4 DEF Notes
  <2>. QED
    BY <2>1, <2>2
<1>13. TellsTruth(P)
  <2>. SUFFICES ASSUME NEW i \in DOMAIN P, P[i].kind = "log", NEW change \in Tells(P[i].what)
       PROVE  \/ \E j \in DOMAIN P : j < i /\ Makes(P[j], change)
              \/ i > 1 /\ P[i - 1].kind = "try" /\ P[i - 1].when = "always"
                       /\ P[i - 1].code = 1 /\ P[i - 1].what = change
    BY DEF TellsTruth
  <2>1. PICK k \in DOMAIN h : i = n + k /\ P[i] = h[k]
    BY <1>4
  <2>2. ASSUME NEW m \in DOMAIN h, m < k, Makes(h[m], change)
        PROVE  \E j \in DOMAIN P : j < i /\ Makes(P[j], change)
    <3>1. n + m \in DOMAIN P /\ n + m < i /\ Makes(P[n + m], change)
      BY <1>1, <1>5, <2>1, <2>2
    <3>. QED
      BY <3>1
  <2>3. k > 1 => i > 1 /\ P[i - 1] = h[k - 1]
    <3>. SUFFICES ASSUME k > 1 PROVE i > 1 /\ P[i - 1] = h[k - 1]
      OBVIOUS
    <3>1. k - 1 \in DOMAIN h /\ n + (k - 1) = i - 1 /\ i > 1
      BY <1>1, <2>1
    <3>. QED
      BY <1>5, <3>1
  <2>. QED
    BY <1>6, <2>1, <2>2, <2>3 DEF TellsTruth
<1>. QED
  BY <1>8, <1>9, <1>11, <1>12, <1>13 DEF Sound, P

\* What every request runs through is sound.
LEMMA ProgramsAreSound ==
    ASSUME NEW r \in Api!Routes
    PROVE  Sound(r, Api!Program(r))
<1>1. Sound(r, Before(r) \o Api!HandlerOf(r))
  BY HandlersAreSound, BeforeIsNeeds, Fronted
<1>. QED
  BY <1>1 DEF Api!Program, Before

\* The steps of the request that is served.
Course == Api!Program(route)

Applied(s) == s.when \in Api!Conditions

RequestTypes ==
    /\ redis \in BOOLEAN /\ dev \in BOOLEAN /\ own \in BOOLEAN /\ lost \in BOOLEAN
    /\ who \in {"nobody", "user", "admin"}
    /\ route \in Api!Routes \cup {Api!Idle}
    /\ pc \in Nat

Nothing ==
    /\ who = "nobody" /\ own = FALSE /\ pc = 1 /\ status = 0
    /\ wrote = {} /\ logged = {} /\ shown = {} /\ lost = FALSE

OnCourse == pc \in DOMAIN Course

\* What a request has come past it was entitled to, has done, was not answered at.
WasMet ==
    \A i \in DOMAIN Course :
        i < pc /\ Course[i].kind = "need" /\ Applied(Course[i]) =>
            TRUE \in Api!MayMeet(Course[i].what)

WasDone ==
    \A i \in DOMAIN Course :
        i < pc /\ Course[i].kind = "do" /\ Applied(Course[i]) => Course[i].what \in wrote

WasNotAnswered ==
    \A i \in DOMAIN Course : i < pc /\ Course[i].kind = "answer" => ~Applied(Course[i])

WasNoted ==
    \A i \in DOMAIN Course :
        i < pc /\ Course[i].kind = "log" /\ (i > 1 => ~Jumps(Course[i - 1])) =>
            Course[i].what \in logged \/ lost

\* Behind a call whose success is a branch of its own is the branch of success.
HasWorked ==
    pc > 1 /\ Course[pc - 1].kind = "try" /\ Course[pc - 1].when = "always"
           /\ Course[pc - 1].code = 1 => Course[pc - 1].what \in wrote

\* What was written, read and logged was so by a step before.
ComesFrom(what, kinds) ==
    \E i \in DOMAIN Course :
        i < pc /\ Course[i].kind \in kinds /\ Applied(Course[i]) /\ Course[i].what = what

AllFromCourse ==
    /\ \A what \in wrote : ComesFrom(what, {"do", "try"})
    /\ \A what \in logged : ComesFrom(what, {"log"})
    /\ \A what \in shown : ComesFrom(what, {"show"})

AnsweredHere ==
    status # 0 => /\ Ends(Course[pc]) /\ Applied(Course[pc]) /\ status = Course[pc].code
                  /\ Course[pc].kind = "need" => FALSE \in Api!MayMeet(Course[pc].what)

Served ==
    /\ OnCourse /\ WasMet /\ WasDone /\ WasNotAnswered /\ WasNoted
    /\ HasWorked /\ AllFromCourse /\ AnsweredHere /\ Api!AuditFollowsChange

RequestInv ==
    /\ RequestTypes
    /\ route = Api!Idle => Nothing
    /\ route # Api!Idle => Served

\* What a step of the request can be: it goes on with its step done, with the next
\* one left out, or is answered.
Passing(s) ==
    /\ Api!Running /\ Api!SameRequest /\ pc' = pc + 1 /\ status' = 0
    /\ s.kind = "answer" => ~Applied(s)
    /\ s.kind = "need" /\ Applied(s) => TRUE \in Api!MayMeet(s.what)
    /\ s.kind = "do" /\ Applied(s) => s.what \in wrote'
    /\ s.kind = "try" /\ Applied(s) /\ s.code = 1 => s.what \in wrote'
    /\ s.kind = "log" /\ Applied(s) => s.what \in logged' \/ lost'
    /\ wrote' # wrote => s.kind \in {"do", "try"} /\ Applied(s) /\ wrote' = wrote \cup {s.what}
    /\ logged' # logged => s.kind = "log" /\ Applied(s) /\ logged' = logged \cup {s.what}
    /\ shown' # shown => s.kind = "show" /\ Applied(s) /\ shown' = shown \cup {s.what}
    /\ lost' \in BOOLEAN /\ (lost => lost')

Skipping(s) ==
    /\ Api!Running /\ Api!SameRequest /\ pc' = pc + 1 + s.code /\ s.code # 0 /\ Jumps(s)
    /\ UNCHANGED <<wrote, logged, lost, shown, status>>

Ending(s) ==
    /\ Api!Running /\ Api!SameRequest /\ status' = s.code
    /\ Ends(s) /\ Applied(s)
    /\ s.kind = "need" => FALSE \in Api!MayMeet(s.what)
    /\ UNCHANGED <<pc, wrote, logged, lost, shown>>

\* Each action of a served request is one of these, for the step it is at.
LEMMA RequestStep ==
    ASSUME RequestInv, Api!Next, route # Api!Idle
    PROVE  Passing(Course[pc]) \/ Skipping(Course[pc]) \/ Ending(Course[pc]) \/ Api!Leave
<1> DEFINE s == Course[pc]
<1>1. lost \in BOOLEAN /\ s = Api!Current /\ (Api!Applies <=> Applied(s)) /\ pc \in Nat
  BY DEF RequestInv, RequestTypes, Course, Api!Current, Api!Applies, Applied
<1>2. s.kind \in {"try", "fork"} => s.code \in {0, 1}
  <2>1. Sound(route, Course) /\ pc \in DOMAIN Course
    BY ProgramsAreSound DEF RequestInv, RequestTypes, Course, Served, OnCourse
  <2>. QED
    BY <2>1 DEF Sound, Shape, Jumps
<1>. SUFFICES Passing(s) \/ Skipping(s) \/ Ending(s) \/ Api!Leave
  OBVIOUS
<1>. HIDE DEF s
<1>3. CASE Api!Arrive
  BY <1>3 DEF Api!Arrive
<1>4. CASE Api!PassOver
  BY <1>1, <1>4 DEF Api!PassOver, Api!NextStep, Api!Unwritten, Passing, Api!Running
<1>5. CASE Api!Meet
  BY <1>1, <1>5 DEF Api!Meet, Api!At, Api!NextStep, Api!Unwritten, Passing, Api!Running
<1>6. CASE Api!Refuse
  BY <1>1, <1>6 DEF Api!Refuse, Api!At, Api!AnswerWith, Api!Unwritten, Ending, Ends
<1>7. CASE Api!Write
  BY <1>1, <1>7 DEF Api!Write, Api!At, Api!NextStep, Passing, Api!Running
<1>8. CASE Api!Fail
  BY <1>1, <1>8 DEF Api!Fail, Api!At, Api!AnswerWith, Api!Unwritten, Ending, Ends
<1>9. CASE Api!Drop
  BY <1>1, <1>2, <1>9 DEF Api!Drop, Api!At, Api!Unwritten, Passing, Skipping, Jumps, Api!Running
<1>10. CASE Api!LogAction
  BY <1>1, <1>10 DEF Api!LogAction, Api!At, Api!NextStep, Passing, Api!Running
<1>11. CASE Api!Read
  BY <1>1, <1>11 DEF Api!Read, Api!At, Api!NextStep, Api!Unwritten, Passing, Api!Running
<1>12. CASE Api!Panic
  BY <1>1, <1>12 DEF Api!Panic, Api!At, Api!NextStep, Api!AnswerWith, Api!Unwritten, Passing, Ending, Ends, Api!Running
<1>13. CASE Api!Branch
  BY <1>1, <1>2, <1>13 DEF Api!Branch, Api!At, Api!Unwritten, Passing, Skipping, Jumps, Api!Running
<1>14. CASE Api!Finish
  BY <1>1, <1>14 DEF Api!Finish, Api!At, Api!AnswerWith, Api!Unwritten, Ending, Ends
<1>15. CASE Api!Leave
  BY <1>15
<1>. QED
  BY <1>3, <1>4, <1>5, <1>6, <1>7, <1>8, <1>9, <1>10, <1>11, <1>12, <1>13, <1>14, <1>15
     DEF Api!Next

\* What surrounds the request stays while it is served.
LEMMA SameSurroundings ==
    ASSUME Api!SameRequest
    PROVE  /\ Course' = Course
           /\ \A s : Applied(s)' <=> Applied(s)
           /\ \A what : Api!MayMeet(what)' = Api!MayMeet(what)
<1>1. Course' = Course
  BY DEF Api!SameRequest, Course
<1>2. \A s : Applied(s)' <=> Applied(s)
  BY DEF Api!SameRequest, Applied, Api!Conditions, Api!IsAdmin, Api!HasUser
<1>3. \A what : Api!MayMeet(what)' = Api!MayMeet(what)
  BY DEF Api!SameRequest, Api!MayMeet, Api!IsAdmin, Api!HasUser
<1>. QED
  BY <1>1, <1>2, <1>3

\* A request that is served runs through a sound list of steps; the last of them
\* is for everybody.
LEMMA SoundCourse ==
    ASSUME RequestInv, route # Api!Idle
    PROVE  /\ Sound(route, Course) /\ Served
           /\ Len(Course) \in Nat /\ DOMAIN Course = 1..Len(Course)
           /\ pc \in 1..Len(Course) /\ pc \in Nat
           /\ \A s : s.when = "always" => Applied(s)
           /\ Course[Len(Course)].kind = "answer" /\ Applied(Course[Len(Course)])
<1>1. Sound(route, Course) /\ Served /\ pc \in Nat
  BY ProgramsAreSound DEF RequestInv, RequestTypes, Course
<1>2. Shape(Course) /\ IsSequence(Course)
  BY <1>1 DEF Sound, Shape
<1>3. Len(Course) \in Nat /\ DOMAIN Course = 1..Len(Course)
  BY <1>2 DEF IsSequence
<1>4. \A s : s.when = "always" => Applied(s)
  BY DEF Applied, Api!Conditions
<1>5. Course[Len(Course)].kind = "answer" /\ Applied(Course[Len(Course)])
  BY <1>2, <1>4 DEF Shape
<1>. QED
  BY <1>1, <1>3, <1>4, <1>5 DEF Served, OnCourse

\* A step done keeps the invariant.
LEMMA PassingKeeps ==
    ASSUME RequestInv, route # Api!Idle, Passing(Course[pc])
    PROVE  Served'
<1> DEFINE s == Course[pc]
           n == Len(Course)
<1>1. /\ Api!SameRequest /\ pc' = pc + 1 /\ status' = 0
  BY DEF Passing
<1>2. /\ Course' = Course
      /\ \A t : Applied(t)' <=> Applied(t)
      /\ \A what : Api!MayMeet(what)' = Api!MayMeet(what)
  BY <1>1, SameSurroundings
<1>3. /\ Shape(Course) /\ TellsTruth(Course) /\ Served
      /\ n \in Nat /\ DOMAIN Course = 1..n /\ pc \in 1..n
      /\ Course[n].kind = "answer" /\ Applied(Course[n])
      /\ \A t : t.when = "always" => Applied(t)
  BY SoundCourse DEF Sound
<1>4. pc # n
  BY <1>3 DEF Passing
<1>. HIDE DEF n
<1>5. \A i \in DOMAIN Course : i < pc' <=> i < pc \/ i = pc
  BY <1>1, <1>3
<1>6. wrote \subseteq wrote' /\ logged \subseteq logged' /\ shown \subseteq shown' /\ (lost => lost')
  BY DEF Passing
<1>7. OnCourse'
  BY <1>1, <1>2, <1>3, <1>4 DEF OnCourse
<1>8. WasMet'
  <2>. SUFFICES ASSUME NEW i \in DOMAIN Course, i < pc', Course[i].kind = "need",
                       Applied(Course[i])
       PROVE  TRUE \in Api!MayMeet(Course[i].what)
    BY <1>2 DEF WasMet
  <2>. QED
    BY <1>3, <1>5 DEF Passing, Served, WasMet
<1>9. WasDone'
  <2>. SUFFICES ASSUME NEW i \in DOMAIN Course, i < pc', Course[i].kind = "do",
                       Applied(Course[i])
       PROVE  Course[i].what \in wrote'
    BY <1>2 DEF WasDone
  <2>. QED
    BY <1>3, <1>5, <1>6 DEF Passing, Served, WasDone
<1>10. WasNotAnswered'
  <2>. SUFFICES ASSUME NEW i \in DOMAIN Course, i < pc', Course[i].kind = "answer"
       PROVE  ~Applied(Course[i])
    BY <1>2 DEF WasNotAnswered
  <2>. QED
    BY <1>3, <1>5 DEF Passing, Served, WasNotAnswered
<1>11. WasNoted'
  <2>. SUFFICES ASSUME NEW i \in DOMAIN Course, i < pc', Course[i].kind = "log",
                       i > 1 => ~Jumps(Course[i - 1])
       PROVE  Course[i].what \in logged' \/ lost'
    BY <1>2 DEF WasNoted
  <2>1. CASE i < pc
    BY <1>3, <1>6, <2>1 DEF Served, WasNoted
  <2>2. CASE i = pc
    <3>1. Applied(Course[i])
      BY <1>3 DEF Shape
    <3>. QED
      BY <2>2, <3>1 DEF Passing
  <2>. QED
    BY <1>5, <2>1, <2>2
<1>12. HasWorked'
  <2>1. pc' - 1 = pc
    BY <1>1, <1>3
  <2>. SUFFICES ASSUME s.kind = "try", s.when = "always", s.code = 1
       PROVE  s.what \in wrote'
    BY <1>2, <2>1 DEF HasWorked
  <2>. QED
    BY <1>3 DEF Passing
<1>13. ASSUME NEW what, NEW kinds, ComesFrom(what, kinds)
       PROVE  ComesFrom(what, kinds)'
  <2>1. PICK i \in DOMAIN Course :
            i < pc /\ Course[i].kind \in kinds /\ Applied(Course[i]) /\ Course[i].what = what
    BY <1>13 DEF ComesFrom
  <2>. QED
    BY <1>2, <1>5, <2>1 DEF ComesFrom
<1>14. ASSUME NEW what, NEW kinds, s.kind \in kinds, Applied(s), s.what = what
       PROVE  ComesFrom(what, kinds)'
  <2>1. pc \in DOMAIN Course /\ pc < pc'
    BY <1>1, <1>3
  <2>. QED
    BY <1>2, <1>14, <2>1 DEF ComesFrom
<1>15. AllFromCourse'
  <2>1. \A what \in wrote' : ComesFrom(what, {"do", "try"})'
    <3>1. \A what \in wrote' :
             what \in wrote \/ (s.kind \in {"do", "try"} /\ Applied(s) /\ s.what = what)
      BY DEF Passing
    <3>2. \A what \in wrote : ComesFrom(what, {"do", "try"})
      BY <1>3 DEF Served, AllFromCourse
    <3>. QED
      BY <1>13, <1>14, <3>1, <3>2
  <2>2. \A what \in logged' : ComesFrom(what, {"log"})'
    <3>1. \A what \in logged' :
             what \in logged \/ (s.kind \in {"log"} /\ Applied(s) /\ s.what = what)
      BY DEF Passing
    <3>2. \A what \in logged : ComesFrom(what, {"log"})
      BY <1>3 DEF Served, AllFromCourse
    <3>. QED
      BY <1>13, <1>14, <3>1, <3>2
  <2>3. \A what \in shown' : ComesFrom(what, {"show"})'
    <3>1. \A what \in shown' :
             what \in shown \/ (s.kind \in {"show"} /\ Applied(s) /\ s.what = what)
      BY DEF Passing
    <3>2. \A what \in shown : ComesFrom(what, {"show"})
      BY <1>3 DEF Served, AllFromCourse
    <3>. QED
      BY <1>13, <1>14, <3>1, <3>2
  <2>. QED
    BY <2>1, <2>2, <2>3 DEF AllFromCourse
<1>16. AnsweredHere'
  BY <1>1 DEF AnsweredHere
<1>17. Api!AuditFollowsChange'
  <2>. SUFFICES ASSUME NEW action \in logged', action \in DOMAIN Api!Recorded
       PROVE  Api!Recorded[action] \in wrote'
    BY DEF Api!AuditFollowsChange
  <2>1. CASE action \in logged
    BY <1>3, <1>6, <2>1 DEF Served, Api!AuditFollowsChange
  <2>2. CASE action \notin logged
    <3>1. s.kind = "log" /\ action = s.what
      BY <2>2 DEF Passing
    <3>2. Api!Recorded[action] \in Tells(s.what)
      BY <3>1 DEF Tells
    <3>3. CASE \E j \in DOMAIN Course : j < pc /\ Makes(Course[j], Api!Recorded[action])
      BY <1>3, <1>6, <3>3 DEF Makes, Served, WasDone
    <3>4. CASE /\ pc > 1 /\ Course[pc - 1].kind = "try" /\ Course[pc - 1].when = "always"
               /\ Course[pc - 1].code = 1 /\ Course[pc - 1].what = Api!Recorded[action]
      BY <1>3, <1>6, <3>4 DEF Served, HasWorked
    <3>. QED
      BY <1>3, <3>1, <3>2, <3>3, <3>4 DEF TellsTruth
  <2>. QED
    BY <2>1, <2>2
<1>. QED
  BY <1>7, <1>8, <1>9, <1>10, <1>11, <1>12, <1>15, <1>16, <1>17 DEF Served

\* A step left out keeps it: it was a row of the audit log or a call whose error is
\* dropped.
LEMMA SkippingKeeps ==
    ASSUME RequestInv, route # Api!Idle, Skipping(Course[pc])
    PROVE  Served'
<1> DEFINE n == Len(Course)
<1>1. /\ Api!SameRequest /\ Jumps(Course[pc]) /\ status = 0
      /\ pc' = pc + 1 + Course[pc].code
      /\ UNCHANGED <<wrote, logged, lost, shown, status>>
  BY DEF Skipping, Api!Running
<1>2. /\ Course' = Course
      /\ \A t : Applied(t)' <=> Applied(t)
      /\ \A what : Api!MayMeet(what)' = Api!MayMeet(what)
  BY <1>1, SameSurroundings
<1>3. /\ Shape(Course) /\ Served
      /\ n \in Nat /\ DOMAIN Course = 1..n /\ pc \in 1..n
  BY SoundCourse DEF Sound
<1>. HIDE DEF n
<1>4. /\ pc' = pc + 2 /\ pc + 2 <= n /\ pc + 1 \in DOMAIN Course
      /\ Course[pc + 1].kind \in {"try", "log"} /\ Course[pc + 1].code = 0
      /\ Course[pc].kind \in {"try", "fork"}
  BY <1>1, <1>3 DEF Shape, Jumps, n
<1>5. \A i \in DOMAIN Course : i < pc' => i < pc \/ i = pc \/ i = pc + 1
  BY <1>3, <1>4
<1>6. OnCourse'
  BY <1>2, <1>3, <1>4 DEF OnCourse
<1>7. WasMet'
  <2>. SUFFICES ASSUME NEW i \in DOMAIN Course, i < pc', Course[i].kind = "need",
                       Applied(Course[i])
       PROVE  TRUE \in Api!MayMeet(Course[i].what)
    BY <1>2 DEF WasMet
  <2>. QED
    BY <1>3, <1>4, <1>5 DEF Served, WasMet
<1>8. WasDone'
  <2>. SUFFICES ASSUME NEW i \in DOMAIN Course, i < pc', Course[i].kind = "do",
                       Applied(Course[i])
       PROVE  Course[i].what \in wrote
    BY <1>1, <1>2 DEF WasDone
  <2>. QED
    BY <1>3, <1>4, <1>5 DEF Served, WasDone
<1>9. WasNotAnswered'
  <2>. SUFFICES ASSUME NEW i \in DOMAIN Course, i < pc', Course[i].kind = "answer"
       PROVE  ~Applied(Course[i])
    BY <1>2 DEF WasNotAnswered
  <2>. QED
    BY <1>3, <1>4, <1>5 DEF Served, WasNotAnswered
<1>10. WasNoted'
  <2>. SUFFICES ASSUME NEW i \in DOMAIN Course, i < pc', Course[i].kind = "log",
                       i > 1 => ~Jumps(Course[i - 1])
       PROVE  Course[i].what \in logged \/ lost
    BY <1>1, <1>2 DEF WasNoted
  <2>1. i # pc + 1
    <3>1. (pc + 1) - 1 = pc /\ pc + 1 > 1
      BY <1>3
    <3>. QED
      BY <1>1, <3>1
  <2>. QED
    BY <1>3, <1>4, <1>5, <2>1 DEF Served, WasNoted
<1>11. HasWorked'
  <2>1. pc' - 1 = pc + 1
    BY <1>3, <1>4
  <2>. QED
    BY <1>2, <1>4, <2>1 DEF HasWorked
<1>12. ASSUME NEW what, NEW kinds, ComesFrom(what, kinds)
       PROVE  ComesFrom(what, kinds)'
  <2>1. PICK i \in DOMAIN Course :
            i < pc /\ Course[i].kind \in kinds /\ Applied(Course[i]) /\ Course[i].what = what
    BY <1>12 DEF ComesFrom
  <2>2. i < pc'
    BY <1>3, <1>4, <2>1
  <2>. QED
    BY <1>2, <2>1, <2>2 DEF ComesFrom
<1>13. AllFromCourse'
  BY <1>1, <1>3, <1>12 DEF Served, AllFromCourse
<1>14. AnsweredHere'
  BY <1>1 DEF AnsweredHere
<1>15. Api!AuditFollowsChange'
  BY <1>1, <1>3 DEF Served, Api!AuditFollowsChange
<1>. QED
  BY <1>6, <1>7, <1>8, <1>9, <1>10, <1>11, <1>13, <1>14, <1>15 DEF Served

\* An answer keeps it.
LEMMA EndingKeeps ==
    ASSUME RequestInv, route # Api!Idle, Ending(Course[pc])
    PROVE  Served'
<1>1. /\ Api!SameRequest /\ status' = Course[pc].code
      /\ Ends(Course[pc]) /\ Applied(Course[pc])
      /\ Course[pc].kind = "need" => FALSE \in Api!MayMeet(Course[pc].what)
      /\ pc' = pc /\ wrote' = wrote /\ logged' = logged /\ lost' = lost /\ shown' = shown
  BY DEF Ending
<1>2. /\ Course' = Course
      /\ \A t : Applied(t)' <=> Applied(t)
      /\ \A what : Api!MayMeet(what)' = Api!MayMeet(what)
  BY <1>1, SameSurroundings
<1>3. Served
  BY SoundCourse
<1>4. OnCourse' /\ WasMet' /\ WasDone' /\ WasNotAnswered' /\ HasWorked'
  BY <1>1, <1>2, <1>3 DEF Served, OnCourse, WasMet, WasDone, WasNotAnswered, HasWorked
<1>5. WasNoted'
  BY <1>1, <1>2, <1>3 DEF Served, WasNoted
<1>6. AllFromCourse'
  BY <1>1, <1>2, <1>3 DEF Served, AllFromCourse, ComesFrom
<1>7. AnsweredHere'
  BY <1>1, <1>2 DEF AnsweredHere
<1>8. Api!AuditFollowsChange'
  BY <1>1, <1>3 DEF Served, Api!AuditFollowsChange
<1>. QED
  BY <1>3, <1>4, <1>5, <1>6, <1>7, <1>8 DEF Served

\* A server at rest has nothing to account for.
LEMMA RequestInit ==
    ASSUME Api!Init
    PROVE  RequestInv
BY DEF Api!Init, RequestInv, RequestTypes, Nothing

\* Everything a step of the server can be keeps the invariant.
LEMMA RequestKept ==
    ASSUME RequestInv, Api!Next
    PROVE  RequestInv'
<1>1. CASE route = Api!Idle
  <2>1. Nothing /\ RequestTypes /\ Api!Running = FALSE
    BY <1>1 DEF RequestInv, Api!Running
  <2>2. Api!Arrive
    <3>1. ~Api!Leave
      BY <2>1 DEF Api!Leave, Nothing
    <3>. QED
      BY <2>1, <3>1 DEF Api!Next, Api!PassOver, Api!Meet, Api!Refuse, Api!Write, Api!Fail,
         Api!Drop, Api!LogAction, Api!Read, Api!Panic, Api!Branch, Api!Finish, Api!At
  <2>3. /\ route' \in Api!Routes /\ who' \in {"nobody", "user", "admin"} /\ own' \in BOOLEAN
        /\ UNCHANGED <<redis, dev, pc, wrote, logged, lost, shown, status>>
    BY <2>2 DEF Api!Arrive
  <2>4. RequestTypes'
    BY <2>1, <2>3 DEF RequestTypes
  <2>5. /\ pc' = 1 /\ status' = 0 /\ lost' = FALSE
        /\ wrote' = {} /\ logged' = {} /\ shown' = {}
    BY <2>1, <2>3 DEF Nothing
  <2>6. Len(Course') \in Nat /\ DOMAIN Course' = 1..Len(Course') /\ Len(Course') > 0
    <3>1. Sound(route', Api!Program(route'))
      BY <2>3, ProgramsAreSound
    <3>. QED
      BY <3>1 DEF Sound, Shape, IsSequence, Course
  <2>7. Served'
    <3>1. \A i \in DOMAIN Course' : ~(i < pc')
      BY <2>5, <2>6
    <3>2. OnCourse' /\ ~(pc' > 1)
      BY <2>5, <2>6 DEF OnCourse
    <3>3. WasMet' /\ WasDone' /\ WasNotAnswered' /\ WasNoted' /\ HasWorked'
      BY <3>1, <3>2 DEF WasMet, WasDone, WasNotAnswered, WasNoted, HasWorked
    <3>4. AllFromCourse' /\ AnsweredHere' /\ Api!AuditFollowsChange'
      BY <2>5 DEF AllFromCourse, AnsweredHere, Api!AuditFollowsChange
    <3>. QED
      BY <3>2, <3>3, <3>4 DEF Served
  <2>8. route' # Api!Idle
    BY <2>3, IdleIsNoRoute
  <2>. QED
    BY <2>4, <2>7, <2>8 DEF RequestInv
<1>2. CASE route # Api!Idle /\ Api!Leave
  BY <1>2 DEF Api!Leave, RequestInv, RequestTypes, Nothing
<1>3. CASE route # Api!Idle /\ ~Api!Leave
  <2>1. Passing(Course[pc]) \/ Skipping(Course[pc]) \/ Ending(Course[pc])
    BY <1>3, RequestStep
  <2>2. Served'
    BY <1>3, <2>1, PassingKeeps, SkippingKeeps, EndingKeeps
  <2>3. UNCHANGED <<redis, dev, route, who, own>> /\ lost' \in BOOLEAN
    BY <2>1 DEF Passing, Skipping, Ending, Api!SameRequest, RequestInv, RequestTypes
  <2>4. pc' \in Nat
    <3>1. pc \in Nat /\ (Jumps(Course[pc]) => Course[pc].code = 1)
      BY <1>3, SoundCourse DEF Sound, Shape
    <3>2. CASE Passing(Course[pc])
      BY <3>1, <3>2 DEF Passing
    <3>3. CASE Skipping(Course[pc])
      BY <3>1, <3>3 DEF Skipping
    <3>4. CASE Ending(Course[pc])
      BY <3>1, <3>4 DEF Ending
    <3>. QED
      BY <2>1, <3>2, <3>3, <3>4
  <2>. QED
    BY <1>3, <2>2, <2>3, <2>4 DEF RequestInv, RequestTypes
<1>. QED
  BY <1>1, <1>2, <1>3

\* The limiter and the breaker leave requests alone.
LEMMA RequestRests ==
    ASSUME RequestInv, UNCHANGED apiVars
    PROVE  RequestInv'
<1>1. /\ Api!SameRequest
      /\ pc' = pc /\ wrote' = wrote /\ logged' = logged /\ lost' = lost /\ shown' = shown
      /\ status' = status
  BY DEF apiVars, Api!SameRequest
<1>2. /\ Course' = Course
      /\ \A t : Applied(t)' <=> Applied(t)
      /\ \A what : Api!MayMeet(what)' = Api!MayMeet(what)
  BY <1>1, SameSurroundings
<1>3. RequestTypes' /\ (Nothing' <=> Nothing) /\ route' = route
  BY DEF apiVars, RequestInv, RequestTypes, Nothing
<1>4. ASSUME Served PROVE Served'
  <2>1. OnCourse' /\ WasMet' /\ WasDone' /\ WasNotAnswered' /\ HasWorked'
    BY <1>1, <1>2, <1>4 DEF Served, OnCourse, WasMet, WasDone, WasNotAnswered, HasWorked
  <2>2. WasNoted'
    BY <1>1, <1>2, <1>4 DEF Served, WasNoted
  <2>3. AllFromCourse'
    BY <1>1, <1>2, <1>4 DEF Served, AllFromCourse, ComesFrom
  <2>4. AnsweredHere' /\ Api!AuditFollowsChange'
    BY <1>1, <1>2, <1>4 DEF Served, AnsweredHere, Api!AuditFollowsChange
  <2>. QED
    BY <2>1, <2>2, <2>3, <2>4 DEF Served
<1>. QED
  BY <1>3, <1>4 DEF RequestInv

\* RequestInv holds in every state.
LEMMA AlwaysServed == MCSpec => []RequestInv
<1>1. MCInit => RequestInv
  BY RequestInit DEF MCInit
<1>2. RequestInv /\ [MCNext]_<<guard, vars, healthVars, apiVars>> => RequestInv'
  <2>. SUFFICES ASSUME RequestInv, [MCNext]_<<guard, vars, healthVars, apiVars>>
       PROVE  RequestInv'
    OBVIOUS
  <2>1. CASE Api!Next
    BY <2>1, RequestKept
  <2>2. CASE UNCHANGED apiVars
    BY <2>2, RequestRests
  <2>. QED
    BY <2>1, <2>2 DEF MCNext
<1>. QED
  BY <1>1, <1>2, PTL DEF MCSpec

\* What the conditions and the needs say of the server and the caller.
LEMMA Meanings ==
    /\ "redis" \in Api!Conditions => redis
    /\ "no-redis" \in Api!Conditions => ~redis
    /\ "admin" \in Api!Conditions => Api!IsAdmin
    /\ TRUE \in Api!MayMeet("token") => who # "nobody"
    /\ TRUE \in Api!MayMeet("user") => Api!HasUser
    /\ TRUE \in Api!MayMeet("admin") => Api!IsAdmin
    /\ TRUE \in Api!MayMeet("own-record-or-admin") => own \/ Api!IsAdmin
<1>1. "redis" \in Api!Conditions => redis
  BY DEF Api!Conditions
<1>2. "no-redis" \in Api!Conditions => ~redis
  BY DEF Api!Conditions
<1>3. "admin" \in Api!Conditions => Api!IsAdmin
  BY DEF Api!Conditions
<1>4. TRUE \in Api!MayMeet("token") => who # "nobody"
  BY DEF Api!MayMeet
<1>5. TRUE \in Api!MayMeet("user") => Api!HasUser
  BY DEF Api!MayMeet
<1>6. TRUE \in Api!MayMeet("admin") => Api!IsAdmin
  BY DEF Api!MayMeet
<1>7. TRUE \in Api!MayMeet("own-record-or-admin") => own \/ Api!IsAdmin
  BY DEF Api!MayMeet
<1>. QED
  BY <1>1, <1>2, <1>3, <1>4, <1>5, <1>6, <1>7

\* An answer of success is the last step of the course.
LEMMA SuccessIsLast ==
    ASSUME RequestInv, route # Api!Idle, status \in 200..299
    PROVE  /\ pc = Len(Course) /\ Course[pc].kind = "answer"
           /\ Course[Len(Course)].code \in 200..299
<1>1. /\ Shape(Course) /\ AnsweredHere /\ pc \in DOMAIN Course
      /\ Len(Course) \in Nat /\ DOMAIN Course = 1..Len(Course)
  BY SoundCourse DEF Sound, Served, OnCourse
<1>2. Ends(Course[pc]) /\ status = Course[pc].code
  <2>1. status # 0
    OBVIOUS
  <2>. QED
    BY <1>1, <2>1, Zenon DEF AnsweredHere
<1>3. status \notin ErrorCodes /\ status # 500
  BY DEF ErrorCodes
<1>4. Course[pc].kind = "answer" /\ ~(pc < Len(Course))
  BY <1>1, <1>2, <1>3 DEF Shape
<1>. QED
  BY <1>1, <1>2, <1>4

\* What an error answer leaves behind.
LEMMA ErrorsAreClean ==
    ASSUME RequestInv
    PROVE  Api!ErrorsChangeNothing
<1>1. CASE route = Api!Idle
  BY <1>1 DEF RequestInv, Nothing, Api!ErrorsChangeNothing
<1>2. CASE route # Api!Idle
  <2>. SUFFICES ASSUME status >= 400, NEW what \in wrote
       PROVE  \/ what \in LeftByErrors(route)
              \/ what \in LeftByPanics(route) /\ ~redis
    BY DEF Api!ErrorsChangeNothing, Api!KeptBy, LeftByErrors, LeftByPanics
  <2>1. /\ Clean(route, Course) /\ AllFromCourse /\ AnsweredHere
        /\ pc \in DOMAIN Course
    BY <1>2, SoundCourse DEF Sound, Served, OnCourse
  <2>2. status # 0
    OBVIOUS
  <2>3. /\ Ends(Course[pc]) /\ Applied(Course[pc]) /\ Course[pc].code >= 400
    <3>1. Ends(Course[pc]) /\ Applied(Course[pc]) /\ status = Course[pc].code
      BY <2>1, <2>2, Zenon DEF AnsweredHere
    <3>. QED
      BY <3>1
  <2>4. PICK i \in DOMAIN Course :
            /\ i < pc /\ Course[i].kind \in {"do", "try"} /\ Applied(Course[i])
            /\ Course[i].what = what
    BY <2>1 DEF AllFromCourse, ComesFrom
  <2>5. \/ what \in LeftByErrors(route)
        \/ what \in LeftByPanics(route) /\ Course[pc].when = "no-redis"
        \/ Course[i].when = "redis" /\ Course[pc].when = "no-redis"
    BY <2>1, <2>3, <2>4 DEF Clean, Writes
  <2>6. Course[pc].when = "no-redis" => ~redis
    BY <2>3, Meanings DEF Applied
  <2>7. Course[i].when = "redis" => redis
    BY <2>4, Meanings DEF Applied
  <2>. QED
    BY <2>5, <2>6, <2>7
<1>. QED
  BY <1>1, <1>2

\* What an answer of success stands for.
LEMMA SuccessStands ==
    ASSUME RequestInv, route # Api!Idle, Api!Succeeded
    PROVE  /\ Promised(route) \subseteq wrote
           /\ ~lost => \A change \in PromisedRows(route) :
                  \E action \in logged : change \in Tells(action)
<1>1. /\ pc = Len(Course) /\ Course[pc].kind = "answer"
      /\ Course[Len(Course)].code \in 200..299
  BY SuccessIsLast DEF Api!Succeeded
<1>2. /\ KeepsPromise(route, Course) /\ WasDone /\ WasNoted
      /\ DOMAIN Course = 1..Len(Course) /\ Len(Course) \in Nat
      /\ \A s : s.when = "always" => Applied(s)
  BY SoundCourse DEF Sound, Served
<1>3. \A i \in DOMAIN Course : Course[i].kind # "answer" => i < pc
  BY <1>1, <1>2
<1>4. ASSUME NEW change \in Promised(route)
      PROVE  change \in wrote
  <2>1. PICK i \in DOMAIN Course : Makes(Course[i], change)
    BY <1>1, <1>2 DEF KeepsPromise
  <2>2. i < pc
    BY <1>3, <2>1 DEF Makes
  <2>. QED
    BY <1>2, <2>1, <2>2 DEF Makes, WasDone
<1>5. ASSUME ~lost, NEW change \in PromisedRows(route)
      PROVE  \E action \in logged : change \in Tells(action)
  <2>1. PICK i \in DOMAIN Course : Notes(Course, i, change)
    BY <1>1, <1>2 DEF KeepsPromise
  <2>2. /\ i < pc /\ change \in Tells(Course[i].what) /\ Course[i].kind = "log"
        /\ i > 1 => ~Jumps(Course[i - 1])
    BY <1>3, <2>1 DEF Notes
  <2>3. Course[i].what \in logged
    BY <1>2, <1>5, <2>2 DEF WasNoted
  <2>. QED
    BY <2>2, <2>3
<1>. QED
  BY <1>4, <1>5

\* What a caller is who has come past a question.
LEMMA WhoPasses ==
    ASSUME RequestInv, route # Api!Idle, NEW i \in DOMAIN Course, i < pc
    PROVE  /\ AskedBefore(Course, i, "token") => who # "nobody"
           /\ AskedBefore(Course, i, "user") => Api!HasUser
           /\ AskedBefore(Course, i, "admin") => Api!IsAdmin
           /\ AskedBefore(Course, i, "own-record-or-admin") => own \/ Api!IsAdmin
<1>1. /\ WasMet /\ DOMAIN Course = 1..Len(Course) /\ Len(Course) \in Nat /\ pc \in Nat
      /\ \A s : s.when = "always" => Applied(s)
  BY SoundCourse DEF Served
<1>2. ASSUME NEW what, AskedBefore(Course, i, what)
      PROVE  TRUE \in Api!MayMeet(what)
  <2>1. PICK j \in DOMAIN Course : j < i /\ Asks(Course[j], what)
    BY <1>2 DEF AskedBefore
  <2>2. j < pc
    BY <1>1, <2>1
  <2>. QED
    BY <1>1, <2>1, <2>2 DEF Asks, WasMet
<1>. QED
  BY <1>2, Meanings

\* Behind AuthMiddleware the token is asked for first.
LEMMA TokenFirst ==
    ASSUME NEW r \in Api!Routes, r \notin Api!Public
    PROVE  /\ 1 \in DOMAIN Api!Program(r) /\ Asks(Api!Program(r)[1], "token")
<1>1. r \notin Api!Limited
  BY Groups DEF Api!Limited
<1>2. /\ Len(Before(r)) > 0 /\ Before(r)[1] = Api!Need("token", 401)
      /\ Len(Before(r)) \in Nat
  BY <1>1 DEF Before, Api!RateLimit, Api!Auth, Api!Admins
<1>3. IsSequence(Before(r)) /\ IsSequence(Api!HandlerOf(r))
  BY BeforeIsNeeds, HandlersAreSound DEF Sound, Shape
<1>4. 1 \in DOMAIN (Before(r) \o Api!HandlerOf(r))
      /\ (Before(r) \o Api!HandlerOf(r))[1] = Before(r)[1]
  <2> DEFINE p == Before(r)
             h == Api!HandlerOf(r)
             S == {p[i] : i \in DOMAIN p} \cup {h[i] : i \in DOMAIN h}
  <2>1. p \in Seq(S) /\ h \in Seq(S) /\ Len(p) > 0
    BY <1>2, <1>3 DEF IsSequence
  <2>. HIDE DEF p, h, S
  <2>2. 1 \in DOMAIN (p \o h) /\ (p \o h)[1] = p[1]
    BY <2>1
  <2>. QED
    BY <2>2 DEF p, h
<1>. QED
  BY <1>2, <1>4 DEF Api!Program, Before, Asks, Api!Need, Api!Step

\* Who changes and who sees.
LEMMA OnlyEntitled ==
    ASSUME RequestInv
    PROVE  Api!OnlyEntitledPass
<1>1. CASE route = Api!Idle
  BY <1>1 DEF RequestInv, Nothing, Api!OnlyEntitledPass, Api!OnlyEntitledChange, Api!OnlyEntitledSee
<1>2. CASE route # Api!Idle
  <2>1. Guarded(route, Course) /\ AllFromCourse
    BY <1>2, SoundCourse DEF Sound, Served
  <2>2. Api!OnlyEntitledChange
    <3>1. ASSUME NEW what \in wrote
          PROVE  /\ what \in Api!AdminChanges => Api!IsAdmin
                 /\ route = "UpdateUser" => own \/ Api!IsAdmin
      <4>1. PICK i \in DOMAIN Course : i < pc /\ Writes(Course[i]) /\ Course[i].what = what
        BY <2>1 DEF AllFromCourse, ComesFrom, Writes
      <4>. QED
        BY <1>2, <2>1, <4>1, WhoPasses DEF Guarded
    <3>. QED
      BY <3>1 DEF Api!OnlyEntitledChange
  <2>3. ASSUME NEW what \in shown
        PROVE  /\ what = "all-rows" => Api!IsAdmin
               /\ what = "the-record" => own \/ Api!IsAdmin
               /\ who # "nobody"
    <3>1. PICK i \in DOMAIN Course :
              i < pc /\ Course[i].kind = "show" /\ Applied(Course[i]) /\ Course[i].what = what
      BY <2>1 DEF AllFromCourse, ComesFrom
    <3>2. what = "all-rows" => Api!IsAdmin
      <4>1. Course[i].when = "admin" => Api!IsAdmin
        BY <3>1, Meanings DEF Applied
      <4>. QED
        BY <1>2, <2>1, <3>1, <4>1, WhoPasses DEF Guarded
    <3>3. what = "the-record" => own \/ Api!IsAdmin
      BY <1>2, <2>1, <3>1, WhoPasses DEF Guarded
    <3>4. CASE route \in Api!Public
      <4>1. Api!HasUser
        BY <1>2, <2>1, <3>1, <3>4, WhoPasses DEF Guarded
      <4>. QED
        BY <3>2, <3>3, <4>1 DEF Api!HasUser
    <3>5. CASE route \notin Api!Public
      <4>1. 1 \in DOMAIN Course /\ Asks(Course[1], "token")
        BY <1>2, <3>5, TokenFirst DEF RequestInv, RequestTypes, Course
      <4>2. 1 < i
        <5>1. i # 1
          BY <3>1, <4>1 DEF Asks
        <5>2. DOMAIN Course = 1..Len(Course) /\ Len(Course) \in Nat
          BY <1>2, SoundCourse
        <5>. QED
          BY <5>1, <5>2
      <4>3. AskedBefore(Course, i, "token")
        BY <4>1, <4>2 DEF AskedBefore
      <4>. QED
        BY <1>2, <3>1, <3>2, <3>3, <4>3, WhoPasses
    <3>. QED
      BY <3>4, <3>5
  <2>4. Api!OnlyEntitledSee
    BY <2>3 DEF Api!OnlyEntitledSee
  <2>. QED
    BY <2>2, <2>4 DEF Api!OnlyEntitledPass
<1>. QED
  BY <1>1, <1>2

\* The session routes ask for a user whom their group of routes never has.
LEMMA SessionsRefuse ==
    ASSUME RequestInv
    PROVE  Api!SessionRoutesRefuseAll
<1>. SUFFICES ASSUME route \in {"ListActiveSessions", "LogoutAllOtherSessions"}, status # 0
     PROVE  status = 401
  BY DEF Api!SessionRoutesRefuseAll
<1>1. route # Api!Idle /\ route \in Api!Public /\ route \notin Api!Limited
  BY Groups DEF Api!Idle, Api!Limited
<1>2. 1 \in DOMAIN Course /\ Course[1] = Api!NeedUser
  <2> DEFINE h == Api!HandlerOf(route)
             p == Before(route)
  <2>1. h = Api!ListActiveSessions \/ h = Api!LogoutAllOtherSessions
    <3>1. h = Api!PublicHandlers[route]
      BY <1>1 DEF Api!HandlerOf
    <3>. QED
      BY <3>1, PublicTable
  <2>. HIDE DEF h
  <2>2. Len(h) > 0 /\ h[1] = Api!NeedUser
    <3>1. CASE h = Api!ListActiveSessions
      BY <3>1 DEF Api!ListActiveSessions
    <3>2. CASE h = Api!LogoutAllOtherSessions
      BY <3>2 DEF Api!LogoutAllOtherSessions
    <3>. QED
      BY <2>1, <3>1, <3>2
  <2>3. route \notin Api!AdminOnly /\ route \in Api!Routes
    BY Groups DEF Api!Routes
  <2>4. Len(p) = 0
    BY <1>1, <2>3 DEF Before, Api!RateLimit, Api!Auth, Api!Admins
  <2>5. IsSequence(p) /\ IsSequence(h)
    BY <2>3, BeforeIsNeeds, HandlersAreSound DEF Sound, Shape, h
  <2>. HIDE DEF p
  <2>6. 1 \in DOMAIN (p \o h) /\ (p \o h)[1] = h[1]
    <3> DEFINE S == {p[i] : i \in DOMAIN p} \cup {h[i] : i \in DOMAIN h}
    <3>1. p \in Seq(S) /\ h \in Seq(S)
      BY <2>5 DEF IsSequence
    <3>. HIDE DEF S
    <3>. QED
      BY <2>2, <2>4, <3>1
  <2>. QED
    BY <2>2, <2>6 DEF Course, Api!Program, Before, p, h
<1>3. Course[1].kind = "need" /\ Course[1].what = "user" /\ Course[1].code = 401
       /\ Course[1].when = "always"
  BY <1>2 DEF Api!NeedUser, Api!Need, Api!Step
<1>4. /\ WasMet /\ AnsweredHere /\ DOMAIN Course = 1..Len(Course) /\ Len(Course) \in Nat
      /\ pc \in 1..Len(Course) /\ \A s : s.when = "always" => Applied(s)
  BY <1>1, SoundCourse DEF Served
<1>5. ~(1 < pc)
  <2>. SUFFICES ASSUME 1 < pc PROVE FALSE
    OBVIOUS
  <2>1. Applied(Course[1])
    BY <1>3, <1>4
  <2>2. TRUE \in Api!MayMeet("user")
    BY <1>2, <1>3, <1>4, <2>1 DEF WasMet
  <2>. QED
    BY <1>1, <2>2, Meanings DEF Api!HasUser
<1>6. pc = 1
  BY <1>4, <1>5
<1>. QED
  BY <1>3, <1>4, <1>6, Zenon DEF AnsweredHere

\* What the audit log says has happened, and what was answered for it says.
LEMMA AuditIsRight ==
    ASSUME RequestInv
    PROVE  Api!AuditAgrees
<1>1. CASE route = Api!Idle
  BY <1>1 DEF RequestInv, Nothing, Api!AuditAgrees, Api!AuditFollowsChange, Api!ChangesAreLogged, Api!Succeeded
<1>2. CASE route # Api!Idle
  <2>1. Api!AuditFollowsChange
    BY <1>2, SoundCourse DEF Served
  <2>2. Api!ChangesAreLogged
    <3>. SUFFICES ASSUME Api!Succeeded, ~lost, route \in DOMAIN Api!Promise, route \notin Api!Unrecorded,
                         NEW change \in Api!Promise[route]
         PROVE  \E action \in logged \cap DOMAIN Api!Recorded : change = Api!Recorded[action]
      BY DEF Api!ChangesAreLogged
    <3>1. change \in PromisedRows(route)
      BY DEF PromisedRows, Promised
    <3>2. PICK action \in logged : change \in Tells(action)
      BY <1>2, <3>1, SuccessStands
    <3>. QED
      BY <3>2 DEF Tells
  <2>. QED
    BY <2>1, <2>2 DEF Api!AuditAgrees
<1>. QED
  BY <1>1, <1>2

\* The variables have their types, and a request is at a step of its handler.
LEMMA RequestsTyped ==
    ASSUME RequestInv
    PROVE  Api!TypeOK
<1>1. CASE route = Api!Idle
  BY <1>1 DEF RequestInv, RequestTypes, Nothing, Api!TypeOK, Api!Running
<1>2. CASE route # Api!Idle
  <2>1. /\ Shape(Course) /\ AnsweredHere /\ AllFromCourse /\ RequestTypes
        /\ DOMAIN Course = 1..Len(Course) /\ Len(Course) \in Nat
        /\ pc \in 1..Len(Course) /\ pc \in Nat
    BY <1>2, SoundCourse DEF Sound, Served, RequestInv
  <2>2. status \in {0} \cup Codes
    <3>1. CASE status # 0
      <4>1. Ends(Course[pc]) /\ status = Course[pc].code
        BY <2>1, <3>1, Zenon DEF AnsweredHere
      <4>. QED
        BY <2>1, <4>1 DEF Shape
    <3>. QED
      BY <3>1
  <2>3. ASSUME NEW what \in wrote \cup logged \cup shown
        PROVE  what \in {Course[i].what : i \in 1..pc}
    <3>1. PICK i \in DOMAIN Course : i < pc /\ Course[i].what = what
      BY <2>1 DEF AllFromCourse, ComesFrom
    <3>. QED
      BY <2>1, <3>1
  <2>. QED
    BY <1>2, <2>1, <2>2, <2>3 DEF Api!TypeOK, RequestTypes, Codes, ErrorCodes, Course
<1>. QED
  BY <1>1, <1>2

\* Every request is at a step of its handler and has done only what is there.
THEOREM RequestsTypeCorrect == MCSpec => []RequestsTypeOK
<1>1. RequestInv => RequestsTypeOK
  BY RequestsTyped DEF RequestsTypeOK
<1>. QED
  BY <1>1, AlwaysServed, PTL

\* An error answer leaves nothing behind but what is known, through every route,
\* with and without Redis, wherever the server stops.
THEOREM ErrorsAreHarmless == MCSpec => []ErrorsChangeNothing
<1>1. RequestInv => ErrorsChangeNothing
  BY ErrorsAreClean DEF ErrorsChangeNothing
<1>. QED
  BY <1>1, AlwaysServed, PTL

\* An answer of success means that the promised change was made.
THEOREM SuccessIsTrue == MCSpec => []SuccessMeansDone
<1>1. RequestInv => SuccessMeansDone
  <2>. SUFFICES ASSUME RequestInv PROVE Api!SuccessMeansDone
    BY DEF SuccessMeansDone
  <2>1. CASE route = Api!Idle
    BY <2>1 DEF RequestInv, Nothing, Api!SuccessMeansDone, Api!Succeeded
  <2>2. CASE route # Api!Idle
    BY <2>2, SuccessStands DEF Api!SuccessMeansDone, Promised
  <2>. QED
    BY <2>1, <2>2
<1>. QED
  BY <1>1, AlwaysServed, PTL

\* No route lets anybody change or see what he is not entitled to.
THEOREM EntitledOnly == MCSpec => []OnlyEntitledPass
<1>1. RequestInv => OnlyEntitledPass
  BY OnlyEntitled DEF OnlyEntitledPass
<1>. QED
  BY <1>1, AlwaysServed, PTL

\* The two session routes answer 401 to everybody.
THEOREM SessionRoutesAreDead == MCSpec => []SessionRoutesRefuseAll
<1>1. RequestInv => SessionRoutesRefuseAll
  BY SessionsRefuse DEF SessionRoutesRefuseAll
<1>. QED
  BY <1>1, AlwaysServed, PTL

\* The audit log tells what has happened, and what was answered for.
THEOREM AuditIsTrue == MCSpec => []AuditAgrees
<1>1. RequestInv => AuditAgrees
  BY AuditIsRight DEF AuditAgrees
<1>. QED
  BY <1>1, AlwaysServed, PTL
=============================================================================
