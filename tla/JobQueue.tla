------------------------------ MODULE JobQueue ------------------------------
(***************************************************************************)
(* The PostgreSQL job queue (apps/platform/.../queue/engine.py) together   *)
(* with the worker loop that drives it (apps/worker/.../runner.py).        *)
(*                                                                         *)
(* An action is one committed database transaction, or one event of a      *)
(* worker process between two transactions.  Two operations of the code    *)
(* read a row and write it later without having locked it at the read, and *)
(* are therefore two actions each: the settlement of a job, which loads    *)
(* the row with session.get before its SELECT ... FOR UPDATE (the second   *)
(* select does not refresh an object the session already holds, so the     *)
(* ownership test sees the first read), and cancel.                        *)
(***************************************************************************)
EXTENDS Integers

CONSTANTS
    Job,            \* idempotency keys
    Worker,         \* worker processes
    Owner,          \* values of the worker_id setting
    OwnerOf,        \* the worker_id each process is configured with
    MaxAttempts,    \* Job.max_attempts
    NoOwner,        \* locked_by IS NULL
    NoJob           \* a worker that polls holds no job

ASSUME OwnerAssumption    == OwnerOf \in [Worker -> Owner]
ASSUME AttemptsAssumption == MaxAttempts \in Nat \ {0}
ASSUME NullAssumption     == NoOwner \notin Owner /\ NoJob \notin Job

(* Every process has a worker_id of its own: what the ownership test of the
   settle paths needs, and a deployment has to provide. *)
DistinctOwners == \A v, w \in Worker : OwnerOf[v] = OwnerOf[w] => v = w

VARIABLES
    row,          \* the job table, one row per idempotency key
    worker,       \* what each process holds in memory
    cancelling,   \* jobs a cancelling transaction has read as claimable
    applied       \* history: jobs whose handler has committed since the row
                  \* was inserted

vars == <<row, worker, cancelling, applied>>

-----------------------------------------------------------------------------
Claimable == {"queued", "retry_scheduled"}
Terminal  == {"succeeded", "dead_letter", "cancelled"}
JobState  == Claimable \cup Terminal \cup {"running"}

(* leased: locked_at is younger than the lease timeout.  due: run_after has
   passed.  scrubbed: the credentials of the payload were replaced. *)
Row == [state    : JobState \cup {"absent"},
        attempts : 0 .. MaxAttempts,
        lockedBy : Owner \cup {NoOwner},
        leased   : BOOLEAN,
        due      : BOOLEAN,
        scrubbed : BOOLEAN]

NoRow == [state |-> "absent", attempts |-> 0, lockedBy |-> NoOwner,
          leased |-> FALSE, due |-> FALSE, scrubbed |-> FALSE]

FreshRow == [NoRow EXCEPT !.state = "queued"]

(* A worker polls, runs a handler, has an outcome to report (the handler's
   transaction is over), or is about to settle a row it has read as its own,
   remembering the attempts it read. *)
Verdict == {"none", "ok", "retry", "permanent"}
Process == [pc      : {"polling", "handling", "reporting", "settling"},
            job     : Job \cup {NoJob},
            verdict : Verdict,
            beating : BOOLEAN,
            seen    : 0 .. MaxAttempts]

Polling == [pc |-> "polling", job |-> NoJob, verdict |-> "none",
            beating |-> FALSE, seen |-> 0]

TypeOK == /\ row \in [Job -> Row]
          /\ worker \in [Worker -> Process]
          /\ \A w \in Worker : worker[w].pc # "polling" => worker[w].job \in Job
          /\ cancelling \subseteq Job
          /\ applied \subseteq Job

-----------------------------------------------------------------------------
(* Row transitions. *)

(* Insert ON CONFLICT DO NOTHING for every key of the outbox; run_after is
   now, or later when the caller asks for it. *)
Enqueued(rows, outbox, due) ==
    [j \in Job |-> IF j \in outbox /\ rows[j].state = "absent"
                   THEN [FreshRow EXCEPT !.due = due] ELSE rows[j]]

(* The lease is given up; every path that ends a delivery does this. *)
Released(r) == [r EXCEPT !.lockedBy = NoOwner, !.leased = FALSE]

(* Defect for the mutant runs: the sweep forgets the age of the lease. *)
ExpiredAtOnce(r) == r.state = "running"

Expired(r) == r.state = "running" /\ ~r.leased

(* Defect: one delivery too many. *)
ReclaimedOnceMore(r) ==
    LET n == r.attempts + 1
    IN [Released(r) EXCEPT !.state    = IF n > MaxAttempts THEN "dead_letter"
                                                           ELSE "queued",
                           !.attempts = n,
                           !.due      = TRUE,
                           !.scrubbed = n > MaxAttempts \/ @]

Reclaimed(r) ==
    LET n    == r.attempts + 1
        dead == n >= MaxAttempts
    IN [Released(r) EXCEPT !.state    = IF dead THEN "dead_letter" ELSE "queued",
                           !.attempts = n,
                           !.due      = TRUE,
                           !.scrubbed = dead \/ @]

(* Defects: an attempt is not counted, or a retry is scrubbed. *)
FailedWith(r, n, permanent, scrub) ==
    LET dead == permanent \/ n >= MaxAttempts
    IN [Released(r) EXCEPT !.state    = IF dead THEN "dead_letter"
                                                ELSE "retry_scheduled",
                           !.attempts = n,
                           !.due      = dead /\ @,
                           !.scrubbed = dead \/ scrub \/ @]

FailedUncounted(r, attempts, permanent) ==
    FailedWith(r, attempts, permanent, FALSE)

FailedScrubbed(r, attempts, permanent) ==
    FailedWith(r, attempts + 1, permanent, TRUE)

(* fail writes the attempts it read plus one; a retry waits for its backoff. *)
Failed(r, attempts, permanent) ==
    LET n    == attempts + 1
        dead == permanent \/ n >= MaxAttempts
    IN [Released(r) EXCEPT !.state    = IF dead THEN "dead_letter"
                                                ELSE "retry_scheduled",
                           !.attempts = n,
                           !.due      = dead /\ @,
                           !.scrubbed = dead \/ @]

Succeeded(r) == [Released(r) EXCEPT !.state = "succeeded", !.scrubbed = TRUE]

-----------------------------------------------------------------------------
Init == /\ row = [j \in Job |-> NoRow]
        /\ worker = [w \in Worker |-> Polling]
        /\ cancelling = {}
        /\ applied = {}

(* A producer commits a transaction that enqueues j. *)
Enqueue(j) ==
    /\ row[j].state = "absent"
    /\ \E due \in BOOLEAN : row' = Enqueued(row, {j}, due)
    /\ applied' = applied \ {j}
    /\ UNCHANGED <<worker, cancelling>>

(* Time passes. *)
LeaseExpires(j) ==
    /\ row[j].state = "running"
    /\ row[j].leased
    /\ row' = [row EXCEPT ![j].leased = FALSE]
    /\ UNCHANGED <<worker, cancelling, applied>>

BackoffElapses(j) ==
    /\ row[j].state \in Claimable
    /\ ~row[j].due
    /\ row' = [row EXCEPT ![j].due = TRUE]
    /\ UNCHANGED <<worker, cancelling, applied>>

(* run_once is one transaction that reclaims expired leases, then claims at
   most one due job.  Both selects skip rows another transaction has locked,
   so any subset of the expired rows may be the one reclaimed. *)
Swept(stale) ==
    [j \in Job |-> IF j \in stale THEN Reclaimed(row[j]) ELSE row[j]]

ExpiredJobs == {j \in Job : Expired(row[j])}

Claimed(r, w) == [r EXCEPT !.state = "running", !.lockedBy = OwnerOf[w],
                           !.leased = TRUE]

Claim(w, j, stale) ==
    LET rows == Swept(stale)
    IN /\ worker[w].pc = "polling"
       /\ rows[j].state \in Claimable
       /\ rows[j].due
       /\ row' = [rows EXCEPT ![j] = Claimed(@, w)]
       /\ worker' = [worker EXCEPT ![w] = [Polling EXCEPT !.pc = "handling",
                                                          !.job = j,
                                                          !.beating = TRUE]]
       /\ UNCHANGED <<cancelling, applied>>

(* run_once when it finds no due job. *)
Sweep(w, stale) ==
    /\ worker[w].pc = "polling"
    /\ stale # {}
    /\ row' = Swept(stale)
    /\ UNCHANGED <<worker, cancelling, applied>>

Owned(r, w) == r.state = "running" /\ r.lockedBy = OwnerOf[w]

(* The heartbeat task renews the lease it still holds, and ends when the row
   is no longer this worker's. *)
Heartbeat(w) ==
    LET j     == worker[w].job
        alive == Owned(row[j], w)
    IN /\ worker[w].pc # "polling"
       /\ worker[w].beating
       /\ row' = IF alive THEN [row EXCEPT ![j].leased = TRUE] ELSE row
       /\ worker' = [worker EXCEPT ![w].beating = alive]
       /\ UNCHANGED <<cancelling, applied>>

(* The handler's own transaction commits, with the jobs it enqueues. *)
HandlerCommits(w, outbox) ==
    /\ worker[w].pc = "handling"
    /\ worker' = [worker EXCEPT ![w].pc = "reporting", ![w].verdict = "ok"]
    /\ row' = Enqueued(row, outbox, TRUE)
    /\ applied' = (applied \ {j \in outbox : row[j].state = "absent"})
                    \cup {worker[w].job}
    /\ UNCHANGED cancelling

(* Defect: the exception is swallowed. *)
HandlerFailsSilently(w, verdict) ==
    /\ worker[w].pc = "handling"
    /\ verdict \in {"retry", "permanent"}
    /\ worker' = [worker EXCEPT ![w].pc = "reporting", ![w].verdict = "ok"]
    /\ UNCHANGED <<row, cancelling, applied>>

(* The handler, or the tenant check before it, raised and was rolled back. *)
HandlerFails(w, verdict) ==
    /\ worker[w].pc = "handling"
    /\ verdict \in {"retry", "permanent"}
    /\ worker' = [worker EXCEPT ![w].pc = "reporting", ![w].verdict = verdict]
    /\ UNCHANGED <<row, cancelling, applied>>

(* The commit took effect but its acknowledgement was lost: the effect is
   durable and the worker sees an exception. *)
HandlerCommitUnacknowledged(w, outbox) ==
    /\ worker[w].pc = "handling"
    /\ worker' = [worker EXCEPT ![w].pc = "reporting", ![w].verdict = "retry"]
    /\ row' = Enqueued(row, outbox, TRUE)
    /\ applied' = (applied \ {j \in outbox : row[j].state = "absent"})
                    \cup {worker[w].job}
    /\ UNCHANGED cancelling

(* The status transaction loads the row with session.get, and on this first
   read _owned_running_job decides: a worker that lost the job records
   nothing and polls on. *)
ReadRow(w) ==
    LET r == row[worker[w].job]
    IN /\ worker[w].pc = "reporting"
       /\ worker' = IF Owned(r, w)
                    THEN [worker EXCEPT ![w].pc = "settling",
                                        ![w].seen = r.attempts]
                    ELSE [worker EXCEPT ![w] = Polling]
       /\ UNCHANGED <<row, cancelling, applied>>

SettledRow(w) ==
    LET r == row[worker[w].job]
    IN IF worker[w].verdict = "ok"
       THEN Succeeded(r)
       ELSE Failed(r, worker[w].seen, worker[w].verdict = "permanent")

(* mark_succeeded or fail: SELECT ... FOR UPDATE waits for the row and its
   columns are then written, whatever they hold by now. *)
Settle(w) ==
    /\ worker[w].pc = "settling"
    /\ row' = [row EXCEPT ![worker[w].job] = SettledRow(w)]
    /\ worker' = [worker EXCEPT ![w] = Polling]
    /\ UNCHANGED <<cancelling, applied>>

(* The process dies, its status transaction fails, or a cancellation that
   timed out lets it exit: the row keeps its lease.  The replacement process
   has the same worker_id. *)
Abandon(w) ==
    /\ worker[w].pc # "polling"
    /\ worker' = [worker EXCEPT ![w] = Polling]
    /\ UNCHANGED <<row, cancelling, applied>>

(* A stop request cancels the running job, whose open transaction rolls back,
   and requeues what this worker_id holds without consuming an attempt. *)
Drain(w) ==
    LET held == {j \in Job : Owned(row[j], w)}
    IN /\ \/ held # {}
          \/ worker[w].pc # "polling"
       /\ row' = [j \in Job |-> IF j \in held
                                THEN [Released(row[j]) EXCEPT !.state = "queued"]
                                ELSE row[j]]
       /\ worker' = [worker EXCEPT ![w] = Polling]
       /\ UNCHANGED <<cancelling, applied>>

(* cancel reads the row without locking it ... *)
CancelRead(j) ==
    /\ row[j].state \in Claimable
    /\ j \notin cancelling
    /\ cancelling' = cancelling \cup {j}
    /\ UNCHANGED <<row, worker, applied>>

(* ... and updates its state by primary key. *)
CancelWrite(j) ==
    /\ j \in cancelling
    /\ row' = [row EXCEPT ![j].state = "cancelled"]
    /\ cancelling' = cancelling \ {j}
    /\ UNCHANGED <<worker, applied>>

CancelAborts(j) ==
    /\ j \in cancelling
    /\ cancelling' = cancelling \ {j}
    /\ UNCHANGED <<row, worker, applied>>

(* The daily sweep deletes rows terminal for the retention of 30 days, which
   no delivery and no cancelling transaction outlives. *)
GcTerminal(j) ==
    /\ row[j].state \in Terminal
    /\ \A w \in Worker : worker[w].job # j
    /\ j \notin cancelling
    /\ row' = [row EXCEPT ![j] = NoRow]
    /\ UNCHANGED <<worker, cancelling, applied>>

-----------------------------------------------------------------------------
(* A handler may enqueue any jobs; the modules of the handlers say which. *)
RunOnce(w) == \E stale \in SUBSET ExpiredJobs :
                 Sweep(w, stale) \/ \E j \in Job : Claim(w, j, stale)

HandlerEnds(w) == \/ \E outbox \in SUBSET Job :
                        \/ HandlerCommits(w, outbox)
                        \/ HandlerCommitUnacknowledged(w, outbox)
                  \/ \E verdict \in Verdict : HandlerFails(w, verdict)

WorkerStep(w) == \/ RunOnce(w)
                 \/ Heartbeat(w)
                 \/ HandlerEnds(w)
                 \/ ReadRow(w)
                 \/ Settle(w)
                 \/ Abandon(w)
                 \/ Drain(w)

JobStep(j) == \/ Enqueue(j)
              \/ LeaseExpires(j)
              \/ BackoffElapses(j)
              \/ CancelRead(j)
              \/ CancelWrite(j)
              \/ CancelAborts(j)
              \/ GcTerminal(j)

Next == \/ \E w \in Worker : WorkerStep(w)
        \/ \E j \in Job : JobStep(j)

Spec == Init /\ [][Next]_vars

(* The assumption under which the ownership test is what its comment says:
   nothing but a heartbeat touches a row between the unlocked read and the
   locked one of its settlement.  Spec does not make it. *)
QuietSettle ==
    \A w \in Worker :
        worker[w].pc = "settling" /\ worker'[w] = worker[w] =>
            LET j == worker[w].job
            IN /\ row'[j].state = row[j].state
               /\ row'[j].lockedBy = row[j].lockedBy
               /\ row'[j].attempts = row[j].attempts

QuietSpec == Init /\ [][Next /\ QuietSettle]_vars

(* Fairness.  Every process keeps polling and ends what it runs; run_after
   orders the claims, so a due job is not passed over for ever.  A lease
   nobody renews expires and the next polls reclaim it.  Workers are stopped
   by a deployment finitely often. *)
Unattended(j) ==
    \A w \in Worker : ~(worker[w].job = j /\ worker[w].beating)

Fairness ==
    /\ \A w \in Worker : /\ WF_vars(HandlerEnds(w))
                         /\ WF_vars(ReadRow(w))
                         /\ WF_vars(Settle(w))
    /\ \A j \in Job :
          /\ WF_vars(BackoffElapses(j))
          /\ WF_vars(Unattended(j) /\ LeaseExpires(j))
          /\ SF_vars(\E w \in Worker : Claim(w, j, {}))
          /\ SF_vars(\E w \in Worker :
                         \E stale \in SUBSET ExpiredJobs :
                            j \in stale /\ (Sweep(w, stale)
                                            \/ \E k \in Job : Claim(w, k, stale)))
    /\ <>[][\A w \in Worker : ~Drain(w)]_vars

FairSpec == Spec /\ Fairness
-----------------------------------------------------------------------------
(***************************************************************************)
(* Properties.                                                             *)
(***************************************************************************)

(* A job is recorded as succeeded only when a handler run for it committed:
   crashes, redeliveries and lost acknowledgements never turn a job that did
   nothing into a success (runner.py _process, engine.py mark_succeeded). *)
SucceededMeansApplied ==
    \A j \in Job : row[j].state = "succeeded" => j \in applied

(* A job whose attempts are used up is never deliverable again, whichever of
   fail and requeue_stale consumed the last one and whatever stale count the
   writer had read. *)
ExhaustedNotDelivered ==
    \A j \in Job : row[j].state \in Claimable \cup {"running"} =>
                       row[j].attempts < MaxAttempts

(* A payload keeps its credentials exactly as long as a delivery may still
   need them: never redelivered scrubbed, never at rest in a settled row. *)
ScrubbedOnlyWhenSettled ==
    \A j \in Job :
       /\ row[j].state \in Claimable \cup {"running"} => ~row[j].scrubbed
       /\ row[j].state \in {"succeeded", "dead_letter"} => row[j].scrubbed

(* A running job changes hands only after its lease has expired, by the stop
   of a process of the same worker_id, or by a cancellation that had read it
   before it was claimed; otherwise only its own worker ends the delivery. *)
TakenLawfully ==
    \A w \in Worker :
       LET j == worker[w].job
       IN /\ worker[w].pc # "polling" /\ worker'[w] = worker[w]
          /\ Owned(row[j], w) /\ ~Owned(row'[j], w)
          => \/ ~row[j].leased
             \/ row'[j].state = "cancelled" /\ j \in cancelling

LeaseProtectsDelivery == [][TakenLawfully]_vars

(* A worker that settles a job writes only over its own running delivery;
   the docstrings of mark_succeeded and _owned_running_job promise it. *)
SettleByOwner ==
    [][\A w \in Worker :
         LET j == worker[w].job
         IN worker[w].pc = "settling" /\ worker'[w] # worker[w] /\ row'[j] # row[j]
            => Owned(row[j], w)]_vars

(* Every job that enters the queue reaches a verdict: crashes, lost status
   transactions, expired leases and failing handlers consume attempts, and
   attempts are bounded. *)
EventuallySettled ==
    \A j \in Job : row[j].state = "queued" ~> row[j].state \in Terminal

(* The abstract promise, with the row states a producer cannot tell apart
   mapped to "pending". *)
DeliveryStatus ==
    [j \in Job |-> IF row[j].state \in Claimable \cup {"running"}
                   THEN "pending" ELSE row[j].state]

Delivery == INSTANCE JobDelivery WITH status <- DeliveryStatus

(* The queue keeps the promise of JobDelivery: no verdict is replaced or
   withdrawn, except by a late cancellation, and none is given for work that
   was not applied. *)
KeepsDeliveryPromise == Delivery!Spec
=============================================================================
