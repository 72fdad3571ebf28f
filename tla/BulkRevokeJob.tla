--------------------------- MODULE BulkRevokeJob ---------------------------
(***************************************************************************)
(* The asynchronous bulk revocation of                                     *)
(* internal/service/bulk_operation_service.go: a job record in a sync.Map  *)
(* that is shared, by pointer, between the goroutine that works the job    *)
(* off and the HTTP handlers that report on it and cancel it.              *)
(*                                                                         *)
(* The map is in memory: a restart of the server loses every job, whatever *)
(* it had revoked.  Licences are reduced to revoked_at (set or NULL); the  *)
(* other requests that set and clear it are the environment.               *)
(*                                                                         *)
(* The string field Status is accessed with no lock.  A read torn by a     *)
(* write compares equal to none of the statuses tested, which is what      *)
(* reading the old value does.  Two writes of strings of different lengths *)
(* can leave the pointer of one with the length of the other: "torn".      *)
(***************************************************************************)
EXTENDS Naturals, Sequences, FiniteSets

CONSTANTS
    Jobs,      \* job ids (uuid.New: never used twice)
    Ids,       \* licence ids that requests name
    Known,     \* the ones that are rows of the table
    Batches,   \* the lists of ids that are submitted
    Clients    \* callers of the cancel endpoint

ASSUME BulkAssumption ==
    /\ Known \subseteq Ids
    /\ Batches \subseteq Seq(Ids)

MaxRetries == 3

VARIABLES
    job,        \* jobStore: the BulkJobStatus of each job
    worker,     \* processRevokeLicensesAsync, one goroutine per job
    client,     \* CancelJob, between its test and its update
    revoked,    \* revoked_at IS NOT NULL, for each known licence
    wrote,      \* history: items of the job whose UPDATE committed
    begun       \* history: items begun when the job last became cancelled

vars == <<job, worker, client, revoked, wrote, begun>>
-----------------------------------------------------------------------------
JobStatus == [status : {"none", "pending", "in_progress", "completed",
                        "failed", "cancelled", "torn"},
              total : Nat, processed : Nat, success : Nat, failed : Seq(Ids)]

NoJob == [status |-> "none", total |-> 0, processed |-> 0, success |-> 0,
          failed |-> <<>>]

NewJob(batch) == [status |-> "pending", total |-> Len(batch), processed |-> 0,
                  success |-> 0, failed |-> <<>>]

\* `item' is the loop index, `attempt' the retry index, `revokes' the result
\* of processLicenseRevocationWithRetry.
Worker == [pc : {"none", "start", "check", "stop", "get", "save", "processed",
                 "result", "ended"},
           batch : Seq(Ids), item : Nat, attempt : Nat, revokes : BOOLEAN]

NoWorker == [pc |-> "none", batch |-> <<>>, item |-> 1, attempt |-> 1,
             revokes |-> FALSE]

Finished == {"completed", "failed"}

Client == [pc : {"idle", "checked"}, job : Jobs]

Init ==
    /\ job = [j \in Jobs |-> NoJob]
    /\ worker = [j \in Jobs |-> NoWorker]
    /\ client \in [Clients -> {c \in Client : c.pc = "idle"}]
    /\ revoked \in [Known -> BOOLEAN]
    /\ wrote = [j \in Jobs |-> {}]
    /\ begun = [j \in Jobs |-> 0]

Record(j, b) == job' = [job EXCEPT ![j] = b]

Become(j, w) == worker' = [worker EXCEPT ![j] = w]

SetStatus(j, s) == Record(j, [job[j] EXCEPT !.status = s])

Goto(j, l) == Become(j, [worker[j] EXCEPT !.pc = l])

\* BulkRevokeLicensesAsync: an empty list is refused before a job exists.
Submit(j, batch) ==
    /\ worker[j].pc = "none"
    /\ batch # <<>>
    /\ Record(j, NewJob(batch))
    /\ Become(j, [worker[j] EXCEPT !.pc = "start", !.batch = batch])
    /\ UNCHANGED <<client, revoked, wrote, begun>>
-----------------------------------------------------------------------------
(***************************************************************************)
(* processRevokeLicensesAsync.                                             *)
(***************************************************************************)
Start(j) ==
    /\ worker[j].pc = "start"
    /\ SetStatus(j, "in_progress")
    /\ Goto(j, "check")
    /\ UNCHANGED <<client, revoked, wrote, begun>>

Mutant_MustStop(j) == FALSE
Mutant_MoreItems(j) == worker[j].item < Len(worker[j].batch)
Mutant_MoreItemsPast(j) == worker[j].item <= Len(worker[j].batch) + 1

MustStop(j) == job[j].status = "cancelled"

MoreItems(j) == worker[j].item <= Len(worker[j].batch)

\* Top of the loop: the one place that looks for a cancellation.
BeginItem(j) ==
    /\ worker[j].pc = "check"
    /\ MoreItems(j)
    /\ ~MustStop(j)
    /\ Become(j, [worker[j] EXCEPT !.pc = "get", !.attempt = 1])
    /\ UNCHANGED <<job, client, revoked, wrote, begun>>

SeeCancel(j) ==
    /\ worker[j].pc = "check"
    /\ MoreItems(j)
    /\ MustStop(j)
    /\ Goto(j, "stop")
    /\ UNCHANGED <<job, client, revoked, wrote, begun>>

Stop(j) ==
    /\ worker[j].pc = "stop"
    /\ SetStatus(j, "failed")
    /\ Goto(j, "ended")
    /\ UNCHANGED <<client, revoked, wrote, begun>>

Complete(j) ==
    /\ worker[j].pc = "check"
    /\ ~MoreItems(j)
    /\ SetStatus(j, "completed")
    /\ Goto(j, "ended")
    /\ UNCHANGED <<client, revoked, wrote, begun>>

(***************************************************************************)
(* processLicenseRevocationWithRetry.                                      *)
(***************************************************************************)
Returns(w, b) == [w EXCEPT !.pc = "processed", !.revokes = b]

Mutant_Retry(w) == IF w.attempt > MaxRetries THEN Returns(w, FALSE)
                                             ELSE [w EXCEPT !.pc = "get"]

\* A failed statement: sleep and try again from the read, or give up.
Retry(w) ==
    IF w.attempt = MaxRetries
        THEN Returns(w, FALSE)
        ELSE [w EXCEPT !.pc = "get", !.attempt = @ + 1]

Mutant_Reads(w, id) == IF revoked[id] THEN Returns(w, TRUE)
                                      ELSE [w EXCEPT !.pc = "save"]

\* A licence that is already revoked is not retried and not a success.
Reads(w, id) == IF revoked[id] THEN Returns(w, FALSE)
                               ELSE [w EXCEPT !.pc = "save"]

Current(j) == worker[j].batch[worker[j].item]

\* GetByID fails on an unknown id, and may fail on any.
GetLicense(j) ==
    /\ worker[j].pc = "get"
    /\ \/ /\ Current(j) \in Known
          /\ Become(j, Reads(worker[j], Current(j)))
       \/ Become(j, Retry(worker[j]))
    /\ UNCHANGED <<job, client, revoked, wrote, begun>>

\* The UPDATE commits, or fails, or commits while its answer is lost: the
\* retry then finds the licence revoked, by this very job.
SaveLicense(j) ==
    /\ worker[j].pc = "save"
    /\ \/ /\ revoked' = [revoked EXCEPT ![Current(j)] = TRUE]
          /\ wrote' = [wrote EXCEPT ![j] = @ \cup {worker[j].item}]
          /\ \/ Become(j, Returns(worker[j], TRUE))
             \/ Become(j, Retry(worker[j]))
       \/ /\ Become(j, Retry(worker[j]))
          /\ UNCHANGED <<revoked, wrote>>
    /\ UNCHANGED <<job, client, begun>>

(***************************************************************************)
(* The closure that updates the counts runs on the shared record with no   *)
(* lock: the progress and the result become visible one after the other.   *)
(***************************************************************************)
CountProcessed(j) ==
    /\ worker[j].pc = "processed"
    /\ Record(j, [job[j] EXCEPT !.processed = worker[j].item])
    /\ Goto(j, "result")
    /\ UNCHANGED <<client, revoked, wrote, begun>>

CountResult(j) ==
    /\ worker[j].pc = "result"
    /\ Record(j, IF worker[j].revokes
                    THEN [job[j] EXCEPT !.success = @ + 1]
                    ELSE [job[j] EXCEPT !.failed = Append(@, Current(j))])
    /\ Become(j, [worker[j] EXCEPT !.pc = "check", !.item = @ + 1])
    /\ UNCHANGED <<client, revoked, wrote, begun>>
-----------------------------------------------------------------------------
(***************************************************************************)
(* CancelJob: the test of the status, then the update.                     *)
(***************************************************************************)
CancelTest(c, j) ==
    /\ client[c].pc = "idle"
    /\ job[j].status \notin Finished \cup {"none"}
    /\ client' = [client EXCEPT ![c] = [pc |-> "checked", job |-> j]]
    /\ UNCHANGED <<job, worker, revoked, wrote, begun>>

ItemsBegun(j) ==
    IF worker[j].pc \in {"get", "save", "processed", "result"}
        THEN worker[j].item ELSE worker[j].item - 1

CancelUpdate(c) ==
    LET j == client[c].job IN
    /\ client[c].pc = "checked"
    /\ SetStatus(j, "cancelled")
    /\ client' = [client EXCEPT ![c].pc = "idle"]
    /\ begun' = [begun EXCEPT ![j] = IF job[j].status = "cancelled" THEN @
                                                          ELSE ItemsBegun(j)]
    /\ UNCHANGED <<worker, revoked, wrote>>

\* The update meets the goroutine's own write of "in_progress" or "failed".
\* ("completed" is as long as "cancelled": one of the two is what is left.)
Collide(c) ==
    LET j == client[c].job IN
    /\ client[c].pc = "checked"
    /\ worker[j].pc \in {"start", "stop"}
    /\ SetStatus(j, "torn")
    /\ Goto(j, IF worker[j].pc = "start" THEN "check" ELSE "ended")
    /\ client' = [client EXCEPT ![c].pc = "idle"]
    /\ UNCHANGED <<revoked, wrote, begun>>
-----------------------------------------------------------------------------
(***************************************************************************)
(* The other handlers revoke and reinstate licences; the server restarts.  *)
(***************************************************************************)
Elsewhere(id) ==
    /\ revoked' = [revoked EXCEPT ![id] = ~@]
    /\ UNCHANGED <<job, worker, client, wrote, begun>>

Restart ==
    /\ \E j \in Jobs : worker[j].pc \notin {"none", "ended"}
    /\ job' = [j \in Jobs |-> NoJob]
    /\ worker' = [j \in Jobs |->
                    IF worker[j].pc = "none" THEN worker[j]
                                             ELSE [NoWorker EXCEPT !.pc = "ended"]]
    /\ client' = [c \in Clients |-> [client[c] EXCEPT !.pc = "idle"]]
    /\ wrote' = [j \in Jobs |-> {}]
    /\ begun' = [j \in Jobs |-> 0]
    /\ UNCHANGED revoked

Work(j) ==
    \/ Start(j)
    \/ BeginItem(j)
    \/ SeeCancel(j)
    \/ Stop(j)
    \/ Complete(j)
    \/ GetLicense(j)
    \/ SaveLicense(j)
    \/ CountProcessed(j)
    \/ CountResult(j)

Next ==
    \/ \E j \in Jobs, batch \in Batches : Submit(j, batch)
    \/ \E j \in Jobs : Work(j)
    \/ \E c \in Clients, j \in Jobs : CancelTest(c, j)
    \/ \E c \in Clients : CancelUpdate(c)
    \/ \E c \in Clients : Collide(c)
    \/ \E id \in Known : Elsewhere(id)
    \/ Restart

\* The Go scheduler runs every goroutine that is not blocked, and a database
\* call returns, with an answer or an error.
Fairness == \A j \in Jobs : WF_vars(Work(j))

Spec == Init /\ [][Next]_vars /\ Fairness
-----------------------------------------------------------------------------
\* Every variable has its type, and a goroutine at work on an item is at one of
\* its list.
TypeOK ==
    /\ job \in [Jobs -> JobStatus]
    /\ worker \in [Jobs -> Worker]
    /\ client \in [Clients -> Client]
    /\ revoked \in [Known -> BOOLEAN]
    /\ wrote \in [Jobs -> SUBSET Nat]
    /\ begun \in [Jobs -> Nat]
    /\ \A j \in Jobs :
          /\ worker[j].item \in Nat \ {0}
          /\ worker[j].pc \in {"get", "save", "processed", "result"} =>
                worker[j].item \in DOMAIN worker[j].batch

\* A job reported as completed has dealt with every licence of its list, each
\* one counted as a success or listed as failed: processRevokeLicensesAsync
\* does not complete a job early, skip an item or count one twice.
CompletedJobAccountsForAll ==
    \A j \in Jobs : job[j].status = "completed" =>
        /\ job[j].processed = job[j].total
        /\ job[j].success + Len(job[j].failed) = job[j].total

\* A job reports no more successes than licences it wrote itself: neither a
\* licence that another request revoked nor a retry is counted as one.
SuccessesAreOwnWrites ==
    \A j \in Jobs : job[j].success <= Cardinality(wrote[j])

\* Once a running job's status is cancelled, its goroutine finishes the item
\* it is at and begins no other, however the request falls between its steps.
NoItemBegunAfterCancel ==
    \A j \in Jobs :
        job[j].status = "cancelled" => ItemsBegun(j) = begun[j]

\* A job reported as failed (it was cancelled) has left at least one item out.
FailedJobIsPartial ==
    \A j \in Jobs : job[j].status = "failed" => job[j].processed < job[j].total

\* Every job settles: whatever the database answers and whoever cancels, its
\* goroutine ends, and from then on the job is never again shown as pending or
\* in progress (or it was lost in a restart).
JobSettles ==
    \A j \in Jobs :
        worker[j].pc # "none" ~>
            [](worker[j].pc = "ended" /\ job[j].status \notin {"pending", "in_progress"})

(***************************************************************************)
(* What the code or its comments say and the code does not do.             *)
(***************************************************************************)

\* CancelJob refuses finished jobs ("Cannot cancel completed or failed job"):
\* the status of a finished job changes no more.
FinishedJobIsFinal ==
    [][\A j \in Jobs : job[j].status \in Finished =>
          job'[j].status \in {job[j].status, "none"}]_vars
=============================================================================
