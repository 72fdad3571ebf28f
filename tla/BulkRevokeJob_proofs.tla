------------------------ MODULE BulkRevokeJob_proofs ------------------------
(***************************************************************************)
(* What holds of every bulk revocation job, whatever the number of jobs,   *)
(* licences and callers and whatever the lists, with the inductive         *)
(* invariant it follows from.                                              *)
(***************************************************************************)
EXTENDS BulkRevokeJob, FiniteSetTheorems, TLAPS

Begun(w) == IF w.pc \in {"get", "save", "processed", "result"} THEN w.item
                                                              ELSE w.item - 1

\* The record b of a job, its goroutine w and the items g that were begun when
\* it was last cancelled, at any moment: what is counted is what the loop is
\* past, and a final status says where the loop ended.
JobInv(b, w, g) ==
    /\ b.status = "none" => w.pc \in {"none", "ended"}
    /\ w.pc = "none" => w.item = 1
    /\ b.status # "none" =>
          /\ w.pc # "none"
          /\ b.total = Len(w.batch)
          /\ w.item <= b.total + 1
          /\ w.pc = "start" => w.item = 1
          /\ b.success + Len(b.failed) = w.item - 1
          /\ b.processed = IF w.pc = "result" THEN w.item ELSE w.item - 1
          /\ w.pc = "stop" => w.item <= b.total
          /\ b.status = "completed" => w.pc = "ended" /\ w.item = b.total + 1
          /\ b.status = "failed" => w.pc = "ended" /\ w.item <= b.total
          /\ b.status = "cancelled" => Begun(w) = g

\* A caller about to cancel is at a job that exists.
ClientInv ==
    \A c \in Clients :
        client[c].pc = "checked" => job[client[c].job].status # "none"

Inv ==
    /\ TypeOK
    /\ \A j \in Jobs : JobInv(job[j], worker[j], begun[j])
    /\ ClientInv
-----------------------------------------------------------------------------
LEMMA InvInit == Init => Inv
  BY DEF Init, Inv, TypeOK, JobInv, ClientInv, NoJob, NoWorker, JobStatus, Worker,
         Client

\* No caller comes to hold a job that it did not hold before.
ClientsKeep ==
    /\ client' \in [Clients -> Client]
    /\ \A c \in Clients : client'[c].pc = "checked" => client'[c] = client[c]

\* A step that changes the record, the goroutine and the history of one job: it
\* is enough to look at that job.
LEMMA OneJob ==
    ASSUME Inv, NEW j \in Jobs, NEW b \in JobStatus, NEW w \in Worker, NEW g \in Nat,
           job' = [job EXCEPT ![j] = b], worker' = [worker EXCEPT ![j] = w],
           begun' = [begun EXCEPT ![j] = g], ClientsKeep,
           revoked' \in [Known -> BOOLEAN], wrote' \in [Jobs -> SUBSET Nat],
           w.item \in Nat \ {0},
           w.pc \in {"get", "save", "processed", "result"} =>
              w.item \in DOMAIN w.batch,
           b.status # "none", JobInv(b, w, g)
    PROVE  Inv'
<1>1. /\ job'[j] = b /\ worker'[j] = w /\ begun'[j] = g
      /\ \A k \in Jobs \ {j} :
            job'[k] = job[k] /\ worker'[k] = worker[k] /\ begun'[k] = begun[k]
  BY DEF Inv, TypeOK
<1>2. TypeOK'
  BY <1>1 DEF Inv, TypeOK, ClientsKeep
<1>3. \A k \in Jobs : JobInv(job[k], worker[k], begun[k])'
  BY <1>1 DEF Inv
<1>4. ClientInv'
  BY <1>1 DEF Inv, ClientInv, TypeOK, Client, ClientsKeep
<1>. QED  BY <1>2, <1>3, <1>4 DEF Inv

\* The same when the history stays as it is.
LEMMA OneJobOnly ==
    ASSUME Inv, NEW j \in Jobs, NEW b \in JobStatus, NEW w \in Worker,
           job' = [job EXCEPT ![j] = b], worker' = [worker EXCEPT ![j] = w],
           begun' = begun, ClientsKeep,
           revoked' \in [Known -> BOOLEAN], wrote' \in [Jobs -> SUBSET Nat],
           w.item \in Nat \ {0},
           w.pc \in {"get", "save", "processed", "result"} =>
              w.item \in DOMAIN w.batch,
           b.status # "none", JobInv(b, w, begun[j])
    PROVE  Inv'
<1>. DEFINE g == begun[j]
<1>1. g \in Nat /\ begun' = [begun EXCEPT ![j] = g]
  BY DEF Inv, TypeOK
<1>. HIDE DEF g
<1>2. JobInv(b, w, g)
  BY DEF g
<1>. QED  BY <1>1, <1>2, OneJob

LEMMA ClientsStay ==
    ASSUME Inv, client' = client
    PROVE  ClientsKeep
  BY DEF Inv, TypeOK, ClientsKeep

Busy == {"get", "save", "processed", "result"}

\* A step of the goroutine that leaves the record of its job alone.
LEMMA WorkerOnly ==
    ASSUME Inv, NEW j \in Jobs, NEW w \in Worker,
           worker[j].pc \notin {"none", "ended"},
           job' = job, worker' = [worker EXCEPT ![j] = w],
           client' = client, begun' = begun,
           revoked' \in [Known -> BOOLEAN], wrote' \in [Jobs -> SUBSET Nat],
           w.item \in Nat \ {0}, w.pc \in Busy => w.item \in DOMAIN w.batch,
           JobInv(job[j], w, begun[j])
    PROVE  Inv'
<1>1. /\ worker'[j] = w
      /\ \A k \in Jobs \ {j} : worker'[k] = worker[k]
  BY DEF Inv, TypeOK
<1>2. TypeOK'
  BY <1>1 DEF Inv, TypeOK, Busy
<1>3. \A k \in Jobs : JobInv(job[k], worker[k], begun[k])'
  BY <1>1 DEF Inv
<1>. QED  BY <1>2, <1>3 DEF Inv, ClientInv

\* A goroutine at an item stays within its invariant as long as it stays there.
LEMMA AtItem ==
    ASSUME NEW b, NEW v, NEW g, NEW w, JobInv(b, v, g),
           v.pc \in {"get", "save"}, w.pc \in {"get", "save", "processed"},
           w.batch = v.batch, w.item = v.item
    PROVE  JobInv(b, w, g)
  BY DEF JobInv, Begun

(***************************************************************************)
(* The records that the steps make.                                        *)
(***************************************************************************)
Statuses == {"none", "pending", "in_progress", "completed", "failed",
             "cancelled", "torn"}

LEMMA NewJobType ==
    ASSUME NEW batch \in Seq(Ids)
    PROVE  NewJob(batch) \in JobStatus
<1>1. Len(batch) \in Nat /\ <<>> \in Seq(Ids)
  OBVIOUS
<1>. QED  BY <1>1 DEF NewJob, JobStatus

LEMMA StatusSet ==
    ASSUME NEW b \in JobStatus, NEW s \in Statuses
    PROVE  /\ [b EXCEPT !.status = s] \in JobStatus
           /\ [b EXCEPT !.status = s].status = s
           /\ [b EXCEPT !.status = s].total = b.total
           /\ [b EXCEPT !.status = s].processed = b.processed
           /\ [b EXCEPT !.status = s].success = b.success
           /\ [b EXCEPT !.status = s].failed = b.failed
  BY DEF JobStatus, Statuses

LEMMA WorkerFields ==
    ASSUME NEW w \in Worker
    PROVE  /\ w.batch \in Seq(Ids) /\ Len(w.batch) \in Nat
           /\ w.item \in Nat /\ w.attempt \in Nat /\ w.revokes \in BOOLEAN
  BY DEF Worker

Places == {"none", "start", "check", "stop", "get", "save", "processed",
           "result", "ended"}

LEMMA PlaceSet ==
    ASSUME NEW w \in Worker, NEW l \in Places
    PROVE  /\ [w EXCEPT !.pc = l] \in Worker
           /\ [w EXCEPT !.pc = l].pc = l
           /\ [w EXCEPT !.pc = l].batch = w.batch
           /\ [w EXCEPT !.pc = l].item = w.item
  BY DEF Worker, Places

LEMMA BatchSet ==
    ASSUME NEW w \in Worker, NEW batch \in Seq(Ids)
    PROVE  /\ [w EXCEPT !.pc = "start", !.batch = batch] \in Worker
           /\ [w EXCEPT !.pc = "start", !.batch = batch].pc = "start"
           /\ [w EXCEPT !.pc = "start", !.batch = batch].batch = batch
           /\ [w EXCEPT !.pc = "start", !.batch = batch].item = w.item
  BY DEF Worker

LEMMA AttemptSet ==
    ASSUME NEW w \in Worker, NEW n \in Nat
    PROVE  /\ [w EXCEPT !.pc = "get", !.attempt = n] \in Worker
           /\ [w EXCEPT !.pc = "get", !.attempt = n].pc = "get"
           /\ [w EXCEPT !.pc = "get", !.attempt = n].batch = w.batch
           /\ [w EXCEPT !.pc = "get", !.attempt = n].item = w.item
  BY DEF Worker

LEMMA ItemSet ==
    ASSUME NEW w \in Worker, NEW n \in Nat
    PROVE  /\ [w EXCEPT !.pc = "check", !.item = n] \in Worker
           /\ [w EXCEPT !.pc = "check", !.item = n].pc = "check"
           /\ [w EXCEPT !.pc = "check", !.item = n].batch = w.batch
           /\ [w EXCEPT !.pc = "check", !.item = n].item = n
  BY DEF Worker

LEMMA ReturnsIs ==
    ASSUME NEW w \in Worker, NEW v \in BOOLEAN
    PROVE  /\ Returns(w, v) \in Worker
           /\ Returns(w, v).pc = "processed"
           /\ Returns(w, v).batch = w.batch
           /\ Returns(w, v).item = w.item
  BY DEF Returns, Worker

\* What a failed statement makes of a goroutine that is at an item.
LEMMA RetryIs ==
    ASSUME NEW w \in Worker
    PROVE  /\ Retry(w) \in Worker
           /\ Retry(w).pc \in {"get", "processed"}
           /\ Retry(w).batch = w.batch
           /\ Retry(w).item = w.item
<1>1. CASE w.attempt = MaxRetries
  <2>. DEFINE v == FALSE
  <2>1. Retry(w) = Returns(w, v)
    BY <1>1 DEF Retry
  <2>2. v \in BOOLEAN
    OBVIOUS
  <2>. HIDE DEF v
  <2>. QED  BY <2>1, <2>2, ReturnsIs
<1>2. CASE w.attempt # MaxRetries
  <2>. DEFINE n == w.attempt + 1
  <2>1. n \in Nat
    BY WorkerFields
  <2>2. Retry(w) = [w EXCEPT !.pc = "get", !.attempt = n]
    BY <1>2 DEF Retry
  <2>. HIDE DEF n
  <2>. QED  BY <2>1, <2>2, AttemptSet
<1>. QED  BY <1>1, <1>2

LEMMA ReadsIs ==
    ASSUME NEW w \in Worker, NEW id
    PROVE  /\ Reads(w, id) \in Worker
           /\ Reads(w, id).pc \in {"save", "processed"}
           /\ Reads(w, id).batch = w.batch
           /\ Reads(w, id).item = w.item
<1>1. CASE revoked[id]
  <2>. DEFINE v == FALSE
  <2>1. Reads(w, id) = Returns(w, v)
    BY <1>1 DEF Reads
  <2>2. v \in BOOLEAN
    OBVIOUS
  <2>. HIDE DEF v
  <2>. QED  BY <2>1, <2>2, ReturnsIs
<1>2. CASE ~revoked[id]
  <2>. DEFINE l == "save"
  <2>1. Reads(w, id) = [w EXCEPT !.pc = l]
    BY <1>2 DEF Reads
  <2>2. l \in Places /\ l \in {"save", "processed"}
    BY DEF Places
  <2>. HIDE DEF l
  <2>. QED  BY <2>1, <2>2, PlaceSet
<1>. QED  BY <1>1, <1>2

\* A step that only moves a goroutine between items and sets the status, for
\* good if it ends: processRevokeLicensesAsync around its loop.
LEMMA StatusAndPlace ==
    ASSUME Inv, NEW j \in Jobs, NEW s \in Statuses, NEW l \in {"check", "ended"},
           SetStatus(j, s), Goto(j, l), ClientsKeep, begun' = begun,
           revoked' = revoked, wrote' = wrote,
           job[j].status # "none", worker[j].pc \in {"start", "check", "stop"},
           s \notin {"none", "cancelled"},
           s = "completed" => l = "ended" /\ worker[j].item = job[j].total + 1,
           s = "failed" => l = "ended" /\ worker[j].item <= job[j].total
    PROVE  Inv'
<1>. DEFINE b == [job[j] EXCEPT !.status = s]
            w == [worker[j] EXCEPT !.pc = l]
<1>0. job[j] \in JobStatus /\ worker[j] \in Worker /\ l \in Places
      /\ revoked \in [Known -> BOOLEAN] /\ wrote \in [Jobs -> SUBSET Nat]
  BY DEF Inv, TypeOK, Places
<1>1. b \in JobStatus /\ b.status = s /\ b.total = job[j].total
      /\ b.processed = job[j].processed /\ b.success = job[j].success
      /\ b.failed = job[j].failed
  BY <1>0, StatusSet
<1>2. w \in Worker /\ w.pc = l /\ w.batch = worker[j].batch
      /\ w.item = worker[j].item
  BY <1>0, PlaceSet
<1>3. job' = [job EXCEPT ![j] = b] /\ worker' = [worker EXCEPT ![j] = w]
  BY DEF SetStatus, Goto, Record, Become
<1>4. worker[j].item \in Nat \ {0} /\ JobInv(job[j], worker[j], begun[j])
  BY DEF Inv, TypeOK
<1>. HIDE DEF b, w
<1>5. JobInv(b, w, begun[j])
  BY <1>1, <1>2, <1>4 DEF JobInv
<1>6. /\ w.item \in Nat \ {0}
      /\ w.pc \notin {"get", "save", "processed", "result"}
      /\ b.status # "none"
      /\ revoked' \in [Known -> BOOLEAN] /\ wrote' \in [Jobs -> SUBSET Nat]
  BY <1>0, <1>1, <1>2, <1>4
<1>. QED  BY <1>1, <1>2, <1>3, <1>5, <1>6, OneJobOnly

\* A goroutine that is neither before nor after its job has a record.
LEMMA AtWork ==
    ASSUME Inv, NEW j \in Jobs, worker[j].pc \notin {"none", "ended"}
    PROVE  /\ job[j].status \notin {"none", "completed", "failed"}
           /\ job[j].total = Len(worker[j].batch)
           /\ worker[j].item <= job[j].total + 1
           /\ worker[j].pc = "stop" => worker[j].item <= job[j].total
  BY DEF Inv, JobInv

LEMMA JobFields ==
    ASSUME NEW b \in JobStatus
    PROVE  b.success \in Nat /\ b.failed \in Seq(Ids) /\ Len(b.failed) \in Nat
  BY DEF JobStatus

LEMMA ProcessedSet ==
    ASSUME NEW b \in JobStatus, NEW n \in Nat
    PROVE  /\ [b EXCEPT !.processed = n] \in JobStatus
           /\ [b EXCEPT !.processed = n].status = b.status
           /\ [b EXCEPT !.processed = n].total = b.total
           /\ [b EXCEPT !.processed = n].processed = n
           /\ [b EXCEPT !.processed = n].success = b.success
           /\ [b EXCEPT !.processed = n].failed = b.failed
  BY DEF JobStatus

LEMMA SuccessSet ==
    ASSUME NEW b \in JobStatus, NEW n \in Nat
    PROVE  /\ [b EXCEPT !.success = n] \in JobStatus
           /\ [b EXCEPT !.success = n].status = b.status
           /\ [b EXCEPT !.success = n].total = b.total
           /\ [b EXCEPT !.success = n].processed = b.processed
           /\ [b EXCEPT !.success = n].success = n
           /\ [b EXCEPT !.success = n].failed = b.failed
  BY DEF JobStatus

LEMMA FailedSet ==
    ASSUME NEW b \in JobStatus, NEW f \in Seq(Ids)
    PROVE  /\ [b EXCEPT !.failed = f] \in JobStatus
           /\ [b EXCEPT !.failed = f].status = b.status
           /\ [b EXCEPT !.failed = f].total = b.total
           /\ [b EXCEPT !.failed = f].processed = b.processed
           /\ [b EXCEPT !.failed = f].success = b.success
           /\ [b EXCEPT !.failed = f].failed = f
  BY DEF JobStatus

\* The records b and c of a job differ by one counted result.
OneMore(b, c) ==
    /\ c \in JobStatus /\ c.status = b.status /\ c.total = b.total
    /\ c.processed = b.processed
    /\ c.success + Len(c.failed) = b.success + Len(b.failed) + 1

LEMMA SuccessAdds ==
    ASSUME NEW b \in JobStatus, NEW n \in Nat, n = b.success + 1
    PROVE  OneMore(b, [b EXCEPT !.success = n])
<1>. DEFINE c == [b EXCEPT !.success = n]
<1>1. c \in JobStatus /\ c.status = b.status /\ c.total = b.total
      /\ c.processed = b.processed /\ c.success = n /\ c.failed = b.failed
  BY SuccessSet
<1>2. b.success \in Nat /\ Len(b.failed) \in Nat
  BY JobFields
<1>. HIDE DEF c
<1>3. OneMore(b, c)
  BY <1>1, <1>2 DEF OneMore
<1>. QED  BY <1>3 DEF c

LEMMA FailureAdds ==
    ASSUME NEW b \in JobStatus, NEW f \in Seq(Ids), Len(f) = Len(b.failed) + 1
    PROVE  OneMore(b, [b EXCEPT !.failed = f])
<1>. DEFINE c == [b EXCEPT !.failed = f]
<1>1. c \in JobStatus /\ c.status = b.status /\ c.total = b.total
      /\ c.processed = b.processed /\ c.success = b.success /\ c.failed = f
  BY FailedSet
<1>2. b.success \in Nat /\ Len(b.failed) \in Nat
  BY JobFields
<1>. HIDE DEF c
<1>3. OneMore(b, c)
  BY <1>1, <1>2 DEF OneMore
<1>. QED  BY <1>3 DEF c
-----------------------------------------------------------------------------
(***************************************************************************)
(* The invariant is kept.                                                  *)
(***************************************************************************)
LEMMA InvNext == Inv /\ [Next]_vars => Inv'
<1> SUFFICES ASSUME Inv, [Next]_vars PROVE Inv'
  OBVIOUS
<1>0. /\ job \in [Jobs -> JobStatus] /\ worker \in [Jobs -> Worker]
      /\ wrote \in [Jobs -> SUBSET Nat] /\ revoked \in [Known -> BOOLEAN]
      /\ begun \in [Jobs -> Nat]
  BY DEF Inv, TypeOK
<1>1. ASSUME NEW j \in Jobs, NEW batch \in Batches, Submit(j, batch) PROVE Inv'
  <2>. DEFINE b == NewJob(batch)
              w == [worker[j] EXCEPT !.pc = "start", !.batch = batch]
  <2>1. batch \in Seq(Ids)
    BY BulkAssumption
  <2>2. b \in JobStatus /\ b.status = "pending" /\ b.total = Len(batch)
        /\ b.processed = 0 /\ b.success = 0 /\ b.failed = <<>>
    BY <2>1, NewJobType DEF NewJob
  <2>3. w \in Worker /\ w.pc = "start" /\ w.batch = batch /\ w.item = worker[j].item
    BY <1>0, <2>1, BatchSet
  <2>4. worker[j].item = 1
    BY <1>1 DEF Submit, Inv, JobInv
  <2>5. /\ job' = [job EXCEPT ![j] = b] /\ worker' = [worker EXCEPT ![j] = w]
        /\ client' = client /\ begun' = begun
        /\ revoked' = revoked /\ wrote' = wrote
    BY <1>1 DEF Submit, Record, Become
  <2>9. ClientsKeep
    BY <2>5, ClientsStay
  <2>6. Len(batch) \in Nat /\ Len(b.failed) = 0
    BY <2>1, <2>2
  <2>. HIDE DEF b, w
  <2>7. JobInv(b, w, begun[j])
    BY <2>2, <2>3, <2>4, <2>6 DEF JobInv
  <2>8. /\ w.item \in Nat \ {0}
        /\ w.pc \notin {"get", "save", "processed", "result"}
        /\ b.status # "none"
        /\ revoked' \in [Known -> BOOLEAN] /\ wrote' \in [Jobs -> SUBSET Nat]
    BY <1>0, <2>2, <2>3, <2>4, <2>5
  <2>. QED  BY <2>2, <2>3, <2>5, <2>7, <2>8, <2>9, OneJobOnly
<1>2. ASSUME NEW j \in Jobs, Start(j) PROVE Inv'
  <2>. DEFINE s == "in_progress"
              l == "check"
  <2>1. SetStatus(j, s) /\ Goto(j, l) /\ worker[j].pc = "start"
        /\ begun' = begun /\ revoked' = revoked /\ wrote' = wrote
    BY <1>2 DEF Start
  <2>2. ClientsKeep
    BY <1>2, ClientsStay DEF Start
  <2>3. job[j].status # "none"
    BY <2>1, AtWork
  <2>4. s \in Statuses /\ l \in {"check", "ended"}
        /\ s \notin {"none", "cancelled", "completed", "failed"}
    BY DEF Statuses
  <2>. HIDE DEF s, l
  <2>. QED  BY <2>1, <2>2, <2>3, <2>4, StatusAndPlace
<1>3. ASSUME NEW j \in Jobs, BeginItem(j) PROVE Inv'
  <2>. DEFINE w == [worker[j] EXCEPT !.pc = "get", !.attempt = 1]
  <2>1. w \in Worker /\ w.pc = "get" /\ w.batch = worker[j].batch
        /\ w.item = worker[j].item
    BY <1>0, AttemptSet
  <2>2. /\ job' = job /\ worker' = [worker EXCEPT ![j] = w]
        /\ client' = client /\ begun' = begun
        /\ revoked' = revoked /\ wrote' = wrote
        /\ worker[j].pc = "check" /\ worker[j].item <= Len(worker[j].batch)
        /\ job[j].status # "cancelled"
    BY <1>3 DEF BeginItem, MoreItems, MustStop, Become
  <2>3. worker[j].item \in Nat \ {0} /\ JobInv(job[j], worker[j], begun[j])
        /\ worker[j].batch \in Seq(Ids)
    BY <1>0, WorkerFields DEF Inv, TypeOK
  <2>. HIDE DEF w
  <2>4. JobInv(job[j], w, begun[j])
    BY <2>1, <2>2, <2>3 DEF JobInv
  <2>5. w.item \in DOMAIN w.batch
    BY <2>1, <2>2, <2>3
  <2>. QED  BY <1>0, <2>1, <2>2, <2>3, <2>4, <2>5, WorkerOnly
<1>4. ASSUME NEW j \in Jobs, SeeCancel(j) PROVE Inv'
  <2>. DEFINE l == "stop"
              w == [worker[j] EXCEPT !.pc = l]
  <2>2. /\ job' = job /\ worker' = [worker EXCEPT ![j] = w]
        /\ client' = client /\ begun' = begun
        /\ revoked' = revoked /\ wrote' = wrote
        /\ worker[j].pc = "check" /\ worker[j].item <= Len(worker[j].batch)
    BY <1>4 DEF SeeCancel, MoreItems, Goto, Become
  <2>6. l \in Places /\ l = "stop" /\ worker[j] \in Worker
    BY <1>0 DEF Places
  <2>. HIDE DEF l
  <2>1. w \in Worker /\ w.pc = "stop" /\ w.batch = worker[j].batch
        /\ w.item = worker[j].item
    BY <2>6, PlaceSet
  <2>3. worker[j].item \in Nat \ {0} /\ JobInv(job[j], worker[j], begun[j])
    BY DEF Inv, TypeOK
  <2>. HIDE DEF w
  <2>4. JobInv(job[j], w, begun[j])
    BY <2>1, <2>2, <2>3 DEF JobInv, Begun
  <2>5. w.pc \notin Busy
    BY <2>1 DEF Busy
  <2>. QED  BY <1>0, <2>1, <2>2, <2>3, <2>4, <2>5, WorkerOnly
<1>5. ASSUME NEW j \in Jobs, Stop(j) PROVE Inv'
  <2>. DEFINE s == "failed"
              l == "ended"
  <2>1. SetStatus(j, s) /\ Goto(j, l) /\ worker[j].pc = "stop"
        /\ begun' = begun /\ revoked' = revoked /\ wrote' = wrote
    BY <1>5 DEF Stop
  <2>2. ClientsKeep
    BY <1>5, ClientsStay DEF Stop
  <2>3. job[j].status # "none" /\ worker[j].item <= job[j].total
    BY <2>1, AtWork
  <2>4. s \in Statuses /\ l \in {"check", "ended"} /\ l = "ended"
        /\ s \notin {"none", "cancelled", "completed"}
    BY DEF Statuses
  <2>. HIDE DEF s, l
  <2>. QED  BY <2>1, <2>2, <2>3, <2>4, StatusAndPlace
<1>6. ASSUME NEW j \in Jobs, Complete(j) PROVE Inv'
  <2>. DEFINE s == "completed"
              l == "ended"
  <2>1. SetStatus(j, s) /\ Goto(j, l) /\ worker[j].pc = "check"
        /\ begun' = begun /\ revoked' = revoked /\ wrote' = wrote
        /\ ~(worker[j].item <= Len(worker[j].batch))
    BY <1>6 DEF Complete, MoreItems
  <2>2. ClientsKeep
    BY <1>6, ClientsStay DEF Complete
  <2>3. job[j].status # "none" /\ job[j].total = Len(worker[j].batch)
        /\ worker[j].item <= job[j].total + 1
    BY <2>1, AtWork
  <2>4. worker[j].item \in Nat /\ Len(worker[j].batch) \in Nat
    BY <1>0, WorkerFields
  <2>5. worker[j].item = job[j].total + 1
    BY <2>1, <2>3, <2>4
  <2>6. s \in Statuses /\ l \in {"check", "ended"} /\ l = "ended"
        /\ s \notin {"none", "cancelled", "failed"}
    BY DEF Statuses
  <2>. HIDE DEF s, l
  <2>. QED  BY <2>1, <2>2, <2>3, <2>5, <2>6, StatusAndPlace
<1>7. ASSUME NEW j \in Jobs, NEW w \in Worker, worker[j].pc \in {"get", "save"},
             w.pc \in {"get", "save", "processed"},
             w.batch = worker[j].batch, w.item = worker[j].item,
             job' = job, Become(j, w), client' = client, begun' = begun,
             revoked' \in [Known -> BOOLEAN], wrote' \in [Jobs -> SUBSET Nat]
      PROVE  Inv'
  <2>1. JobInv(job[j], worker[j], begun[j])
    BY DEF Inv
  <2>2. JobInv(job[j], w, begun[j])
    BY <1>7, <2>1, AtItem
  <2>3. w.item \in Nat \ {0} /\ w.item \in DOMAIN w.batch
    BY <1>7 DEF Inv, TypeOK
  <2>4. worker' = [worker EXCEPT ![j] = w]
    BY <1>7 DEF Become
  <2>. QED  BY <1>7, <2>2, <2>3, <2>4, WorkerOnly
<1>8. ASSUME NEW j \in Jobs, GetLicense(j) PROVE Inv'
  <2>. DEFINE id == Current(j)
  <2>1. worker[j] \in Worker
    BY <1>0
  <2>2. /\ worker[j].pc = "get"
        /\ job' = job /\ client' = client /\ begun' = begun
        /\ revoked' \in [Known -> BOOLEAN] /\ wrote' \in [Jobs -> SUBSET Nat]
        /\ Become(j, Reads(worker[j], id)) \/ Become(j, Retry(worker[j]))
    BY <1>0, <1>8 DEF GetLicense
  <2>. HIDE DEF id
  <2>3. CASE Become(j, Reads(worker[j], id))
    BY <1>7, <2>1, <2>2, <2>3, ReadsIs
  <2>4. CASE Become(j, Retry(worker[j]))
    BY <1>7, <2>1, <2>2, <2>4, RetryIs
  <2>. QED  BY <2>2, <2>3, <2>4
<1>9. ASSUME NEW j \in Jobs, SaveLicense(j) PROVE Inv'
  <2>. DEFINE v == TRUE
  <2>1. worker[j] \in Worker /\ v \in BOOLEAN
    BY <1>0
  <2>2. worker[j].item \in Nat
    BY <2>1, WorkerFields
  <2>3. /\ revoked' \in [Known -> BOOLEAN]
        /\ wrote' \in [Jobs -> SUBSET Nat]
    <3>1. revoked' = revoked \/ revoked' = [revoked EXCEPT ![Current(j)] = TRUE]
      BY <1>9 DEF SaveLicense
    <3>2. \/ wrote' = wrote
          \/ wrote' = [wrote EXCEPT ![j] = @ \cup {worker[j].item}]
      BY <1>9 DEF SaveLicense
    <3>3. revoked' \in [Known -> BOOLEAN]
      BY <1>0, <3>1
    <3>4. wrote' \in [Jobs -> SUBSET Nat]
      BY <1>0, <2>2, <3>2
    <3>. QED  BY <3>3, <3>4
  <2>4. /\ worker[j].pc = "save"
        /\ job' = job /\ client' = client /\ begun' = begun
        /\ Become(j, Returns(worker[j], v)) \/ Become(j, Retry(worker[j]))
    BY <1>9 DEF SaveLicense
  <2>. HIDE DEF v
  <2>5. CASE Become(j, Returns(worker[j], v))
    BY <1>7, <2>1, <2>3, <2>4, <2>5, ReturnsIs
  <2>6. CASE Become(j, Retry(worker[j]))
    BY <1>7, <2>1, <2>3, <2>4, <2>6, RetryIs
  <2>. QED  BY <2>4, <2>5, <2>6
<1>10. ASSUME NEW j \in Jobs, CountProcessed(j) PROVE Inv'
  <2>. DEFINE n == worker[j].item
              b == [job[j] EXCEPT !.processed = n]
              l == "result"
              w == [worker[j] EXCEPT !.pc = l]
  <2>1. job[j] \in JobStatus /\ worker[j] \in Worker /\ l \in Places /\ l = "result"
    BY <1>0 DEF Places
  <2>2. n \in Nat \ {0} /\ JobInv(job[j], worker[j], begun[j])
    BY DEF Inv, TypeOK
  <2>3. /\ job' = [job EXCEPT ![j] = b] /\ worker' = [worker EXCEPT ![j] = w]
        /\ begun' = begun /\ revoked' = revoked /\ wrote' = wrote
        /\ worker[j].pc = "processed"
    BY <1>10 DEF CountProcessed, Goto, Record, Become
  <2>4. ClientsKeep
    BY <1>10, ClientsStay DEF CountProcessed
  <2>5. n \in DOMAIN worker[j].batch
    BY <2>3 DEF Inv, TypeOK
  <2>. HIDE DEF n, l
  <2>6. w \in Worker /\ w.pc = "result" /\ w.batch = worker[j].batch
        /\ w.item = worker[j].item
    BY <2>1, PlaceSet
  <2>7. b \in JobStatus /\ b.status = job[j].status /\ b.total = job[j].total
        /\ b.processed = n /\ b.success = job[j].success
        /\ b.failed = job[j].failed
    BY <2>1, <2>2, ProcessedSet
  <2>. HIDE DEF b, w
  <2>8. JobInv(b, w, begun[j])
    BY <2>2, <2>3, <2>6, <2>7 DEF JobInv, Begun, n
  <2>9. w.item \in Nat \ {0} /\ w.item \in DOMAIN w.batch
    BY <2>2, <2>5, <2>6 DEF n
  <2>10. b.status # "none"
    BY <2>3, <2>7, AtWork
  <2>. QED  BY <1>0, <2>3, <2>4, <2>6, <2>7, <2>8, <2>9, <2>10, OneJobOnly
<1>11. ASSUME NEW j \in Jobs, CountResult(j) PROVE Inv'
  <2>. DEFINE id == Current(j)
              b == IF worker[j].revokes
                      THEN [job[j] EXCEPT !.success = @ + 1]
                      ELSE [job[j] EXCEPT !.failed = Append(@, id)]
              n == worker[j].item + 1
              w == [worker[j] EXCEPT !.pc = "check", !.item = n]
  <2>1. job[j] \in JobStatus /\ worker[j] \in Worker
    BY <1>0
  <2>2. worker[j].item \in Nat \ {0} /\ JobInv(job[j], worker[j], begun[j])
        /\ worker[j].batch \in Seq(Ids)
    BY <2>1, WorkerFields DEF Inv, TypeOK
  <2>3. /\ job' = [job EXCEPT ![j] = b]
        /\ worker' = [worker EXCEPT ![j] = w]
        /\ begun' = begun /\ revoked' = revoked /\ wrote' = wrote
        /\ worker[j].pc = "result"
    BY <1>11 DEF CountResult, Record, Become
  <2>4. ClientsKeep
    BY <1>11, ClientsStay DEF CountResult
  <2>5. worker[j].item \in DOMAIN worker[j].batch
    BY <2>3 DEF Inv, TypeOK
  <2>6. worker[j].item <= Len(worker[j].batch) /\ id \in Ids /\ n \in Nat \ {0}
    BY <2>2, <2>5 DEF Current
  <2>. HIDE DEF id, n
  <2>7. w \in Worker /\ w.pc = "check" /\ w.batch = worker[j].batch /\ w.item = n
    BY <2>1, <2>6, ItemSet
  <2>8. OneMore(job[j], b)
    <3>1. job[j].success \in Nat /\ job[j].failed \in Seq(Ids)
      BY <2>1, JobFields
    <3>2. CASE worker[j].revokes
      <4>. DEFINE k == job[j].success + 1
      <4>1. k \in Nat /\ k = job[j].success + 1 /\ b = [job[j] EXCEPT !.success = k]
        BY <3>1, <3>2
      <4>. HIDE DEF k, b
      <4>. QED  BY <2>1, <4>1, SuccessAdds
    <3>3. CASE ~worker[j].revokes
      <4>. DEFINE f == Append(job[j].failed, id)
      <4>1. f \in Seq(Ids) /\ Len(f) = Len(job[j].failed) + 1
        BY <2>6, <3>1
      <4>2. b = [job[j] EXCEPT !.failed = f]
        BY <3>3
      <4>. HIDE DEF f, b
      <4>. QED  BY <2>1, <4>1, <4>2, FailureAdds
    <3>. QED  BY <3>2, <3>3
  <2>. HIDE DEF b, w
  <2>9. job[j].success \in Nat /\ Len(job[j].failed) \in Nat
    BY <2>1, JobFields
  <2>10. JobInv(b, w, begun[j])
    BY <2>2, <2>3, <2>6, <2>7, <2>8, <2>9 DEF JobInv, Begun, OneMore, n
  <2>11. b.status # "none" /\ b \in JobStatus
    BY <2>3, <2>8, AtWork DEF OneMore
  <2>. QED  BY <1>0, <2>3, <2>4, <2>6, <2>7, <2>10, <2>11, OneJobOnly
<1>12. ASSUME NEW c \in Clients, NEW j \in Jobs, CancelTest(c, j) PROVE Inv'
  <2>1. /\ job' = job /\ worker' = worker /\ begun' = begun
        /\ revoked' = revoked /\ wrote' = wrote
        /\ client' = [client EXCEPT ![c] = [pc |-> "checked", job |-> j]]
        /\ job[j].status # "none"
    BY <1>12 DEF CancelTest
  <2>2. client \in [Clients -> Client] /\ [pc |-> "checked", job |-> j] \in Client
    BY DEF Inv, TypeOK, Client
  <2>3. TypeOK'
    BY <2>1, <2>2 DEF Inv, TypeOK
  <2>4. ClientInv'
    BY <2>1, <2>2 DEF Inv, ClientInv
  <2>5. \A k \in Jobs : JobInv(job[k], worker[k], begun[k])'
    BY <2>1 DEF Inv
  <2>. QED  BY <2>3, <2>4, <2>5 DEF Inv
<1>13. ASSUME NEW c \in Clients, client[c].pc = "checked",
              client' = [client EXCEPT ![c].pc = "idle"]
       PROVE  /\ client[c].job \in Jobs
              /\ job[client[c].job].status # "none"
              /\ ClientsKeep
  BY <1>13 DEF Inv, TypeOK, ClientInv, ClientsKeep, Client
<1>14. ASSUME NEW c \in Clients, CancelUpdate(c) PROVE Inv'
  <2>. DEFINE j == client[c].job
              s == "cancelled"
              b == [job[j] EXCEPT !.status = s]
              w == worker[j]
              g == IF job[j].status = "cancelled" THEN begun[j] ELSE Begun(w)
  <2>1. j \in Jobs /\ job[j].status # "none" /\ ClientsKeep
    BY <1>13, <1>14 DEF CancelUpdate
  <2>2. s \in Statuses /\ s = "cancelled"
    BY DEF Statuses
  <2>3. /\ job' = [job EXCEPT ![j] = b] /\ worker' = worker
        /\ begun' = [begun EXCEPT ![j] = g]
        /\ revoked' = revoked /\ wrote' = wrote
    BY <1>14 DEF CancelUpdate, SetStatus, Record, ItemsBegun, Begun
  <2>. HIDE DEF j, s
  <2>4. b \in JobStatus /\ b.status = "cancelled" /\ b.total = job[j].total
        /\ b.processed = job[j].processed /\ b.success = job[j].success
        /\ b.failed = job[j].failed
    BY <1>0, <2>1, <2>2, StatusSet
  <2>5. /\ w \in Worker /\ w.item \in Nat \ {0}
        /\ w.pc \in {"get", "save", "processed", "result"} =>
              w.item \in DOMAIN w.batch
        /\ JobInv(job[j], w, begun[j])
        /\ worker' = [worker EXCEPT ![j] = w]
    BY <1>0, <2>1, <2>3 DEF Inv, TypeOK
  <2>6. g \in Nat
    BY <1>0, <2>1, <2>5 DEF Begun
  <2>. HIDE DEF b, w
  <2>7. JobInv(b, w, g)
    BY <2>1, <2>4, <2>5 DEF JobInv
  <2>. HIDE DEF g
  <2>8. b.status # "none" /\ revoked' \in [Known -> BOOLEAN]
        /\ wrote' \in [Jobs -> SUBSET Nat]
    BY <1>0, <2>3, <2>4
  <2>. QED  BY <2>1, <2>3, <2>4, <2>5, <2>6, <2>7, <2>8, OneJob
<1>15. ASSUME NEW c \in Clients, Collide(c) PROVE Inv'
  <2>. DEFINE j == client[c].job
              s == "torn"
              l == IF worker[j].pc = "start" THEN "check" ELSE "ended"
  <2>1. j \in Jobs /\ job[j].status # "none" /\ ClientsKeep
    BY <1>13, <1>15 DEF Collide
  <2>2. SetStatus(j, s) /\ Goto(j, l) /\ worker[j].pc \in {"start", "stop"}
        /\ begun' = begun /\ revoked' = revoked /\ wrote' = wrote
    BY <1>15 DEF Collide
  <2>3. s \in Statuses /\ l \in {"check", "ended"}
        /\ s \notin {"none", "cancelled", "completed", "failed"}
    BY DEF Statuses
  <2>. HIDE DEF j, s, l
  <2>. QED  BY <2>1, <2>2, <2>3, StatusAndPlace
<1>16. ASSUME NEW id \in Known, Elsewhere(id) PROVE Inv'
  <2>1. /\ job' = job /\ worker' = worker /\ client' = client /\ begun' = begun
        /\ wrote' = wrote /\ revoked' \in [Known -> BOOLEAN]
    BY <1>0, <1>16 DEF Elsewhere
  <2>. QED  BY <2>1 DEF Inv, TypeOK, ClientInv
<1>17. CASE Restart
  <2>1. /\ job' = [j \in Jobs |-> NoJob] /\ NoJob \in JobStatus
        /\ NoJob.status = "none"
    BY <1>17 DEF Restart, NoJob, JobStatus
  <2>2. /\ client' \in [Clients -> Client]
        /\ \A c \in Clients : client'[c].pc = "idle"
    BY <1>17 DEF Restart, Inv, TypeOK, Client
  <2>. DEFINE l == "ended"
              w == [NoWorker EXCEPT !.pc = l]
  <2>0. NoWorker \in Worker /\ NoWorker.item = 1
    <3>1. <<>> \in Seq(Ids)
      OBVIOUS
    <3>. QED  BY <3>1 DEF NoWorker, Worker
  <2>4. worker' = [j \in Jobs |-> IF worker[j].pc = "none" THEN worker[j] ELSE w]
    BY <1>17 DEF Restart
  <2>11. l \in Places /\ l = "ended"
    BY DEF Places
  <2>. HIDE DEF l
  <2>3. w \in Worker /\ w.pc = "ended" /\ w.item = 1
    BY <2>0, <2>11, PlaceSet
  <2>. HIDE DEF w
  <2>5. \A j \in Jobs : /\ worker'[j] \in Worker /\ worker'[j].item = 1
                        /\ worker'[j].pc \in {"none", "ended"}
    BY <1>0, <2>3, <2>4 DEF Inv, JobInv
  <2>6. \A j \in Jobs : JobInv(job[j], worker[j], begun[j])'
    BY <2>1, <2>5 DEF JobInv
  <2>7. revoked' = revoked /\ wrote' = [j \in Jobs |-> {}] /\ begun' = [j \in Jobs |-> 0]
    BY <1>17 DEF Restart
  <2>8. worker' \in [Jobs -> Worker]
    BY <2>4, <2>5
  <2>9. TypeOK'
    BY <1>0, <2>1, <2>2, <2>5, <2>7, <2>8 DEF TypeOK
  <2>10. ClientInv'
    BY <2>2 DEF ClientInv
  <2>. QED  BY <2>6, <2>9, <2>10 DEF Inv
<1>18. CASE UNCHANGED vars
  BY <1>18 DEF vars, Inv, TypeOK, ClientInv
<1>. QED
  BY <1>1, <1>2, <1>3, <1>4, <1>5, <1>6, <1>8, <1>9, <1>10, <1>11, <1>12, <1>14,
     <1>15, <1>16, <1>17, <1>18 DEF Next, Work

THEOREM BulkInvariant == Spec => []Inv
  BY InvInit, InvNext, PTL DEF Spec
-----------------------------------------------------------------------------
(***************************************************************************)
(* What follows from it.                                                   *)
(***************************************************************************)

\* Every variable keeps its type, and no goroutine indexes its list out of
\* bounds.
THEOREM BulkTypeCorrect == Spec => []TypeOK
<1>1. Inv => TypeOK
  BY DEF Inv
<1>. QED  BY <1>1, BulkInvariant, PTL

\* processRevokeLicensesAsync completes no job early, skips no licence of its
\* list and counts none twice, however callers cancel it.
THEOREM CompletedAccountsForAll == Spec => []CompletedJobAccountsForAll
<1>1. Inv => CompletedJobAccountsForAll
  <2> SUFFICES ASSUME Inv, NEW j \in Jobs, job[j].status = "completed"
               PROVE  /\ job[j].processed = job[j].total
                      /\ job[j].success + Len(job[j].failed) = job[j].total
    BY DEF CompletedJobAccountsForAll
  <2>1. worker[j].item \in Nat /\ JobInv(job[j], worker[j], begun[j])
        /\ worker[j] \in Worker
    BY DEF Inv, TypeOK
  <2>2. Len(worker[j].batch) \in Nat
    BY <2>1, WorkerFields
  <2>. QED  BY <2>1, <2>2 DEF JobInv
<1>. QED  BY <1>1, BulkInvariant, PTL

\* Between the update of CancelJob and the next write of the status, the
\* goroutine begins no item.
THEOREM NoItemAfterCancel == Spec => []NoItemBegunAfterCancel
<1>1. Inv => NoItemBegunAfterCancel
  BY DEF Inv, JobInv, Begun, ItemsBegun, NoItemBegunAfterCancel
<1>. QED  BY <1>1, BulkInvariant, PTL

\* The goroutine reports a job as failed only when it leaves items out.
THEOREM FailedIsPartial == Spec => []FailedJobIsPartial
<1>1. Inv => FailedJobIsPartial
  <2> SUFFICES ASSUME Inv, NEW j \in Jobs, job[j].status = "failed"
               PROVE  job[j].processed < job[j].total
    BY DEF FailedJobIsPartial
  <2>1. worker[j].item \in Nat /\ JobInv(job[j], worker[j], begun[j])
        /\ worker[j] \in Worker
    BY DEF Inv, TypeOK
  <2>2. Len(worker[j].batch) \in Nat
    BY <2>1, WorkerFields
  <2>. QED  BY <2>1, <2>2 DEF JobInv
<1>. QED  BY <1>1, BulkInvariant, PTL
-----------------------------------------------------------------------------
(***************************************************************************)
(* Whose writes the successes are: of the items that the loop is past, as  *)
(* many were written by the job as it reports successes, and an item that  *)
(* is about to be counted as one was written.                              *)
(***************************************************************************)
Past(S, i) == {k \in S : k < i}

ToCount(w) == w.pc \in {"processed", "result"} /\ w.revokes

Own(n, w, S) ==
    /\ IsFiniteSet(S)
    /\ n <= Cardinality(Past(S, w.item))
    /\ ToCount(w) => w.item \in S

AllOwn == \A j \in Jobs : Own(job[j].success, worker[j], wrote[j])

LEMMA OwnFrame ==
    ASSUME Inv, AllOwn, NEW j \in Jobs,
           \A k \in Jobs \ {j} : /\ job'[k].success = job[k].success
                                 /\ worker'[k] = worker[k] /\ wrote'[k] = wrote[k],
           Own(job'[j].success, worker'[j], wrote'[j])
    PROVE  AllOwn'
<1>1. ASSUME NEW k \in Jobs PROVE Own(job'[k].success, worker'[k], wrote'[k])
  BY DEF AllOwn
<1>. QED  BY <1>1 DEF AllOwn, Own, Past, ToCount

\* A step of job j that neither counts a result nor writes a licence.
LEMMA OwnQuiet ==
    ASSUME Inv, AllOwn, NEW j \in Jobs, NEW b \in JobStatus, NEW w \in Worker,
           job' = [job EXCEPT ![j] = b], worker' = [worker EXCEPT ![j] = w],
           wrote' = wrote, b.success = job[j].success, w.item = worker[j].item,
           ToCount(w) => ToCount(worker[j])
    PROVE  AllOwn'
<1>1. /\ job'[j] = b /\ worker'[j] = w
      /\ \A k \in Jobs \ {j} : job'[k] = job[k] /\ worker'[k] = worker[k]
  BY DEF Inv, TypeOK
<1>2. Own(job[j].success, worker[j], wrote[j])
  BY DEF AllOwn
<1>3. Own(b.success, w, wrote[j])
  BY <1>2 DEF Own
<1>. QED  BY <1>1, <1>3, OwnFrame

LEMMA ReturnsRevokes ==
    ASSUME NEW w \in Worker, NEW v
    PROVE  Returns(w, v).revokes = v
  BY DEF Returns, Worker

\* A failed statement and a licence found revoked are no success.
LEMMA NothingToCount ==
    ASSUME NEW w \in Worker
    PROVE  /\ ~ToCount(Retry(w))
           /\ \A id : ~ToCount(Reads(w, id))
<1>. DEFINE v == FALSE
<1>1. ~v
  OBVIOUS
<1>2. \/ Retry(w) = Returns(w, v)
      \/ Retry(w) = [w EXCEPT !.pc = "get", !.attempt = w.attempt + 1]
  BY DEF Retry
<1>3. ASSUME NEW id PROVE Reads(w, id) \in {Returns(w, v), [w EXCEPT !.pc = "save"]}
  BY DEF Reads
<1>. HIDE DEF v
<1>4. ~ToCount(Returns(w, v))
  BY <1>1, ReturnsRevokes DEF ToCount
<1>5. /\ [w EXCEPT !.pc = "get", !.attempt = w.attempt + 1].pc = "get"
      /\ [w EXCEPT !.pc = "save"].pc = "save"
  BY DEF Worker
<1>. QED  BY <1>2, <1>3, <1>4, <1>5 DEF ToCount

LEMMA OwnNext == Inv /\ AllOwn /\ [Next]_vars => AllOwn'
<1> SUFFICES ASSUME Inv, AllOwn, [Next]_vars PROVE AllOwn'
  OBVIOUS
<1>0. /\ job \in [Jobs -> JobStatus] /\ worker \in [Jobs -> Worker]
      /\ wrote \in [Jobs -> SUBSET Nat]
  BY DEF Inv, TypeOK
<1>a. ASSUME NEW j \in Jobs
      PROVE  /\ job[j] \in JobStatus /\ worker[j] \in Worker /\ job[j].success \in Nat
             /\ worker[j].item \in Nat /\ worker[j].attempt \in Nat
             /\ Own(job[j].success, worker[j], wrote[j])
             /\ job = [job EXCEPT ![j] = job[j]] /\ worker = [worker EXCEPT ![j] = worker[j]]
  BY <1>0, WorkerFields, JobFields DEF AllOwn
<1>1. ASSUME NEW j \in Jobs, NEW batch \in Batches, Submit(j, batch) PROVE AllOwn'
  <2>. DEFINE b == NewJob(batch)
              w == [worker[j] EXCEPT !.pc = "start", !.batch = batch]
  <2>1. batch \in Seq(Ids) /\ b.success = 0
    BY BulkAssumption DEF NewJob
  <2>2. w \in Worker /\ w.pc = "start" /\ w.item = worker[j].item
    BY <1>a, <2>1, BatchSet
  <2>3. /\ job' = [job EXCEPT ![j] = b] /\ worker' = [worker EXCEPT ![j] = w]
        /\ wrote' = wrote
    BY <1>1 DEF Submit, Record, Become
  <2>. HIDE DEF b, w
  <2>6. IsFiniteSet(wrote[j]) /\ Past(wrote[j], w.item) \subseteq wrote[j]
    BY <1>a DEF Own, Past
  <2>7. Cardinality(Past(wrote[j], w.item)) \in Nat
    BY <2>6, FS_CardinalityType, FS_Subset
  <2>4. Own(b.success, w, wrote[j])
    BY <2>1, <2>2, <2>6, <2>7 DEF Own, ToCount
  <2>5. /\ job'[j] = b /\ worker'[j] = w /\ wrote'[j] = wrote[j]
        /\ \A k \in Jobs \ {j} : job'[k] = job[k] /\ worker'[k] = worker[k] /\ wrote'[k] = wrote[k]
    BY <1>0, <2>3
  <2>. QED  BY <2>4, <2>5, OwnFrame
<1>2. ASSUME NEW j \in Jobs, NEW s \in Statuses, NEW l \in {"check", "ended"},
             SetStatus(j, s), Goto(j, l), wrote' = wrote
      PROVE  AllOwn'
  <2>1. /\ [job[j] EXCEPT !.status = s] \in JobStatus
        /\ [job[j] EXCEPT !.status = s].success = job[j].success
    BY <1>a, StatusSet
  <2>4. l \in Places
    BY DEF Places
  <2>2. /\ [worker[j] EXCEPT !.pc = l] \in Worker /\ [worker[j] EXCEPT !.pc = l].pc = l
        /\ [worker[j] EXCEPT !.pc = l].item = worker[j].item
    BY <1>a, <2>4, PlaceSet
  <2>3. ~ToCount([worker[j] EXCEPT !.pc = l])
    BY <2>2 DEF ToCount
  <2>. QED  BY <1>2, <2>1, <2>2, <2>3, OwnQuiet DEF SetStatus, Goto, Record, Become
<1>3. CASE \E j \in Jobs : Start(j) \/ Stop(j) \/ Complete(j)
  BY <1>2, <1>3 DEF Start, Stop, Complete, Statuses
<1>4. ASSUME NEW j \in Jobs, NEW w \in Worker, job' = job, Become(j, w), wrote' = wrote,
             w.item = worker[j].item, ~ToCount(w)
      PROVE  AllOwn'
  BY <1>a, <1>4, OwnQuiet DEF Become
<1>5. ASSUME NEW j \in Jobs, BeginItem(j) PROVE AllOwn'
  <2>. DEFINE n == 1
              w == [worker[j] EXCEPT !.pc = "get", !.attempt = n]
  <2>1. n \in Nat /\ job' = job /\ wrote' = wrote /\ Become(j, w)
    BY <1>5 DEF BeginItem
  <2>. HIDE DEF n
  <2>2. w \in Worker /\ w.pc = "get" /\ w.item = worker[j].item
    BY <1>a, <2>1, AttemptSet
  <2>. HIDE DEF w
  <2>. QED  BY <1>4, <2>1, <2>2 DEF ToCount
<1>6. ASSUME NEW j \in Jobs, SeeCancel(j) PROVE AllOwn'
  <2>. DEFINE l == "stop"
              w == [worker[j] EXCEPT !.pc = l]
  <2>1. l \in Places /\ l = "stop" /\ job' = job /\ wrote' = wrote /\ Become(j, w)
    BY <1>6 DEF SeeCancel, Goto, Places
  <2>. HIDE DEF l
  <2>2. w \in Worker /\ w.pc = "stop" /\ w.item = worker[j].item
    BY <1>a, <2>1, PlaceSet
  <2>. HIDE DEF w
  <2>. QED  BY <1>4, <2>1, <2>2 DEF ToCount
<1>7. ASSUME NEW j \in Jobs, GetLicense(j) PROVE AllOwn'
  <2>. DEFINE id == Current(j)
  <2>1. /\ job' = job /\ wrote' = wrote
        /\ Become(j, Reads(worker[j], id)) \/ Become(j, Retry(worker[j]))
    BY <1>7 DEF GetLicense
  <2>. HIDE DEF id
  <2>2. /\ Reads(worker[j], id) \in Worker /\ Reads(worker[j], id).item = worker[j].item
        /\ Retry(worker[j]) \in Worker /\ Retry(worker[j]).item = worker[j].item
        /\ ~ToCount(Reads(worker[j], id)) /\ ~ToCount(Retry(worker[j]))
    BY <1>a, ReadsIs, RetryIs, NothingToCount
  <2>. QED  BY <1>4, <2>1, <2>2
<1>8. ASSUME NEW j \in Jobs, SaveLicense(j) PROVE AllOwn'
  <2>. DEFINE i == worker[j].item
              v == TRUE
  <2>1. /\ worker[j].pc = "save" /\ job' = job
        /\ \/ wrote' = [wrote EXCEPT ![j] = @ \cup {i}] /\ Become(j, Returns(worker[j], v))
           \/ wrote' = [wrote EXCEPT ![j] = @ \cup {i}] /\ Become(j, Retry(worker[j]))
           \/ wrote' = wrote /\ Become(j, Retry(worker[j]))
    BY <1>8 DEF SaveLicense
  <2>. HIDE DEF v
  <2>2. /\ Retry(worker[j]) \in Worker /\ Retry(worker[j]).item = i /\ ~ToCount(Retry(worker[j]))
        /\ Returns(worker[j], v).item = i
    BY <1>a, RetryIs, NothingToCount DEF Returns, Worker
  <2>3. CASE wrote' = wrote /\ Become(j, Retry(worker[j]))
    BY <1>4, <2>1, <2>2, <2>3
  <2>4. ASSUME NEW w \in {Returns(worker[j], v), Retry(worker[j])},
               wrote' = [wrote EXCEPT ![j] = @ \cup {i}], Become(j, w)
        PROVE  AllOwn'
    <3>1. w.item = i
      BY <2>2
    <3>2. /\ worker'[j] = w /\ wrote'[j] = wrote[j] \cup {i}
          /\ \A k \in Jobs \ {j} : worker'[k] = worker[k] /\ wrote'[k] = wrote[k]
      BY <1>0, <2>4 DEF Become
    <3>3. Past(wrote[j] \cup {i}, i) = Past(wrote[j], i)
      BY <1>a DEF Past
    <3>4. IsFiniteSet(wrote[j] \cup {i})
      BY <1>a, FS_AddElement DEF Own
    <3>5. Own(job[j].success, w, wrote[j] \cup {i})
      BY <1>a, <3>1, <3>3, <3>4 DEF Own
    <3>. QED  BY <2>1, <3>2, <3>5, OwnFrame
  <2>. QED  BY <2>1, <2>3, <2>4
<1>9. ASSUME NEW j \in Jobs, CountProcessed(j) PROVE AllOwn'
  <2>. DEFINE n == worker[j].item
              b == [job[j] EXCEPT !.processed = n]
              l == "result"
              w == [worker[j] EXCEPT !.pc = l]
  <2>1. /\ job' = [job EXCEPT ![j] = b] /\ worker' = [worker EXCEPT ![j] = w] /\ wrote' = wrote
        /\ l \in Places /\ worker[j].pc = "processed"
    BY <1>9 DEF CountProcessed, Goto, Record, Become, Places
  <2>. HIDE DEF l
  <2>2. w \in Worker /\ w.item = worker[j].item /\ w.revokes = worker[j].revokes
    BY <1>a, <2>1, PlaceSet DEF Worker
  <2>3. n \in Nat
    BY <1>a
  <2>. HIDE DEF n
  <2>4. b \in JobStatus /\ b.success = job[j].success
    BY <1>a, <2>3, ProcessedSet
  <2>. HIDE DEF b, w
  <2>5. ToCount(w) => ToCount(worker[j])
    BY <2>1, <2>2 DEF ToCount
  <2>. QED  BY <2>1, <2>2, <2>4, <2>5, OwnQuiet
<1>10. ASSUME NEW j \in Jobs, CountResult(j) PROVE AllOwn'
  <2>. DEFINE i == worker[j].item
              S == wrote[j]
              n == i + 1
              b == IF worker[j].revokes
                      THEN [job[j] EXCEPT !.success = @ + 1]
                      ELSE [job[j] EXCEPT !.failed = Append(@, Current(j))]
              w == [worker[j] EXCEPT !.pc = "check", !.item = n]
  <2>1. /\ job' = [job EXCEPT ![j] = b] /\ worker' = [worker EXCEPT ![j] = w]
        /\ wrote' = wrote /\ worker[j].pc = "result"
    BY <1>10 DEF CountResult, Record, Become
  <2>2. n \in Nat /\ i \in Nat /\ n = i + 1 /\ S \in SUBSET Nat
    BY <1>0, <1>a
  <2>. HIDE DEF n
  <2>3. w.pc = "check" /\ w.item = n
    BY <1>a, <2>2, ItemSet
  <2>4. IsFiniteSet(S) /\ IsFiniteSet(Past(S, i)) /\ IsFiniteSet(Past(S, n))
        /\ Cardinality(Past(S, i)) \in Nat /\ Cardinality(Past(S, n)) \in Nat
    BY <1>a, FS_Subset, FS_CardinalityType DEF Own, Past
  <2>5. b.success <= Cardinality(Past(S, n))
    <3>1. CASE worker[j].revokes
      <4>5. ToCount(worker[j])
        BY <2>1, <3>1, Zenon DEF ToCount
      <4>6. i \in S
        BY <1>a, <4>5, Zenon DEF Own
      <4>1. i \in S /\ i \notin Past(S, i)
        BY <2>2, <4>6 DEF Past
      <4>2. Past(S, n) = Past(S, i) \cup {i}
        BY <2>2, <4>1 DEF Past
      <4>3. Cardinality(Past(S, n)) = Cardinality(Past(S, i)) + 1
        BY <2>4, <4>1, <4>2, FS_AddElement
      <4>4. b.success = job[j].success + 1
        BY <1>a, <3>1 DEF JobStatus
      <4>. QED  BY <1>a, <2>4, <4>3, <4>4 DEF Own
    <3>2. CASE ~worker[j].revokes
      <4>1. Past(S, i) \subseteq Past(S, n)
        BY <2>2 DEF Past
      <4>2. Cardinality(Past(S, i)) <= Cardinality(Past(S, n))
        BY <2>4, <4>1, FS_Subset
      <4>3. b.success = job[j].success
        BY <1>a, <3>2 DEF JobStatus
      <4>. QED  BY <1>a, <2>4, <4>2, <4>3 DEF Own
    <3>. QED  BY <3>1, <3>2
  <2>. HIDE DEF b, w
  <2>6. Own(b.success, w, S)
    BY <2>3, <2>4, <2>5 DEF Own, ToCount
  <2>7. /\ job'[j] = b /\ worker'[j] = w /\ wrote'[j] = wrote[j]
        /\ \A k \in Jobs \ {j} : job'[k] = job[k] /\ worker'[k] = worker[k] /\ wrote'[k] = wrote[k]
    BY <1>0, <2>1
  <2>. QED  BY <2>6, <2>7, OwnFrame
<1>11. ASSUME NEW c \in Clients, CancelUpdate(c) PROVE AllOwn'
  <2>. DEFINE j == client[c].job
              s == "cancelled"
              b == [job[j] EXCEPT !.status = s]
  <2>1. j \in Jobs /\ s \in Statuses
    BY DEF Inv, TypeOK, Client, Statuses
  <2>2. job' = [job EXCEPT ![j] = b] /\ worker' = worker /\ wrote' = wrote
    BY <1>11 DEF CancelUpdate, SetStatus, Record
  <2>. HIDE DEF j, s
  <2>3. b \in JobStatus /\ b.success = job[j].success
    BY <1>a, <2>1, StatusSet
  <2>. HIDE DEF b
  <2>. QED  BY <1>a, <2>1, <2>2, <2>3, OwnQuiet
<1>12. ASSUME NEW c \in Clients, Collide(c) PROVE AllOwn'
  <2>. DEFINE j == client[c].job
              s == "torn"
              l == IF worker[j].pc = "start" THEN "check" ELSE "ended"
  <2>1. j \in Jobs /\ s \in Statuses /\ l \in {"check", "ended"}
    BY DEF Inv, TypeOK, Client, Statuses
  <2>2. SetStatus(j, s) /\ Goto(j, l) /\ wrote' = wrote
    BY <1>12 DEF Collide
  <2>. HIDE DEF j, s, l
  <2>. QED  BY <1>2, <2>1, <2>2
<1>13. CASE Restart
  <2>1. \A j \in Jobs : job'[j].success = 0 /\ wrote'[j] = {}
    BY <1>13 DEF Restart, NoJob
  <2>2. \A j \in Jobs : worker'[j].pc \in {"none", "ended"}
    <3>1. [NoWorker EXCEPT !.pc = "ended"].pc = "ended"
      BY DEF NoWorker
    <3>. QED  BY <1>13, <3>1 DEF Restart
  <2>3. IsFiniteSet({}) /\ Cardinality({}) = 0 /\ \A i : Past({}, i) = {}
    BY FS_EmptySet DEF Past
  <2>4. ASSUME NEW j \in Jobs PROVE Own(job'[j].success, worker'[j], wrote'[j])
    <3>1. Past(wrote'[j], worker'[j].item) = {}
      BY <2>1 DEF Past
    <3>2. ~ToCount(worker'[j])
      BY <2>2 DEF ToCount
    <3>3. IsFiniteSet(wrote'[j]) /\ Cardinality(Past(wrote'[j], worker'[j].item)) = 0
      BY <2>1, <2>3, <3>1
    <3>. QED  BY <2>1, <3>2, <3>3 DEF Own
  <2>. QED  BY <2>4 DEF AllOwn, Own, Past, ToCount
<1>14. CASE UNCHANGED <<job, worker, wrote>>
  BY <1>14 DEF AllOwn
<1>. QED
  BY <1>1, <1>3, <1>5, <1>6, <1>7, <1>8, <1>9, <1>10, <1>11, <1>12, <1>13, <1>14
     DEF Next, Work, CancelTest, Elsewhere, vars

\* However many jobs there are and whoever else revokes and reinstates licences, a
\* job reports as successes only licences that its own UPDATE revoked: neither one it
\* found revoked nor one whose retries ran out is counted.
THEOREM SuccessesAreOwn == Spec => []SuccessesAreOwnWrites
<1>1. Init => AllOwn
  <2> SUFFICES ASSUME Init, NEW j \in Jobs PROVE Own(job[j].success, worker[j], wrote[j])
    BY DEF AllOwn
  <2>1. job[j].success = 0 /\ worker[j].pc = "none" /\ wrote[j] = {}
    BY DEF Init, NoJob, NoWorker
  <2>2. IsFiniteSet({}) /\ Cardinality({}) = 0 /\ \A i : Past({}, i) = {}
    BY FS_EmptySet DEF Past
  <2>. QED  BY <2>1, <2>2 DEF Own, ToCount
<1>2. Inv /\ AllOwn => SuccessesAreOwnWrites
  <2> SUFFICES ASSUME Inv, AllOwn, NEW j \in Jobs PROVE job[j].success <= Cardinality(wrote[j])
    BY DEF SuccessesAreOwnWrites
  <2>. DEFINE P == Past(wrote[j], worker[j].item)
  <2>1. IsFiniteSet(wrote[j]) /\ job[j].success <= Cardinality(P) /\ P \subseteq wrote[j]
    BY DEF AllOwn, Own, Past
  <2>2. /\ Cardinality(P) <= Cardinality(wrote[j])
        /\ Cardinality(P) \in Nat /\ Cardinality(wrote[j]) \in Nat
    BY <2>1, FS_Subset, FS_CardinalityType
  <2>3. job[j].success \in Nat
    BY JobFields DEF Inv, TypeOK
  <2>. QED  BY <2>1, <2>2, <2>3
<1>. QED  BY <1>1, <1>2, OwnNext, BulkInvariant, PTL DEF Spec
=============================================================================
