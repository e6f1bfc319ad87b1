--------------------------- MODULE JobQueueProofs ---------------------------
(***************************************************************************)
(* Proofs about JobQueue for any number of jobs and workers and any bound  *)
(* on attempts.                                                            *)
(***************************************************************************)
EXTENDS JobQueue, TLAPS

(* Types and attempt counts are one induction: the attempts a retry writes
   stay in range because no deliverable row, and no row read for settlement,
   has used up its attempts. *)
SeenNotExhausted ==
    \A w \in Worker : worker[w].pc = "settling" => worker[w].seen < MaxAttempts

AttemptInv == TypeOK /\ ExhaustedNotDelivered /\ SeenNotExhausted

Deliverable == Claimable \cup {"running"}

GoodRow(r) == r \in Row /\ (r.state \in Deliverable => r.attempts < MaxAttempts)

-----------------------------------------------------------------------------
(* What the row transitions of the engine preserve. *)

LEMMA FreshRowGood ==
    ASSUME NEW due \in BOOLEAN
    PROVE  GoodRow([FreshRow EXCEPT !.due = due])
<1>1. NoRow \in Row /\ NoRow.attempts < MaxAttempts
  BY AttemptsAssumption DEF NoRow, Row
<1>2. FreshRow \in Row /\ FreshRow.attempts < MaxAttempts
  BY <1>1 DEF FreshRow, Row, JobState, Claimable
<1>3. \A r \in Row : LET f == [r EXCEPT !.due = due]
                     IN f \in Row /\ f.attempts = r.attempts
  BY DEF Row
<1> QED BY <1>2, <1>3 DEF GoodRow

LEMMA NoRowGood == GoodRow(NoRow)
BY AttemptsAssumption DEF GoodRow, NoRow, Row, Deliverable, Claimable

LEMMA ReleasedOK ==
    ASSUME NEW r \in Row
    PROVE  /\ Released(r) \in Row
           /\ Released(r).state = r.state
           /\ Released(r).attempts = r.attempts
           /\ Released(r).lockedBy = NoOwner
BY DEF Released, Row

LEMMA ReclaimedGood ==
    ASSUME NEW r, GoodRow(r), Expired(r)
    PROVE  GoodRow(Reclaimed(r))
<1> DEFINE n    == r.attempts + 1
           dead == n >= MaxAttempts
           f    == [Released(r) EXCEPT
                      !.state    = IF dead THEN "dead_letter" ELSE "queued",
                      !.attempts = n,
                      !.due      = TRUE,
                      !.scrubbed = dead \/ @]
<1>1. n \in 0 .. MaxAttempts /\ dead \in BOOLEAN
  BY AttemptsAssumption DEF GoodRow, Expired, Deliverable, Row
<1>2. Released(r) \in Row
  BY ReleasedOK DEF GoodRow
<1> HIDE DEF n
<1>3. f \in Row
  BY <1>1, <1>2 DEF Row, JobState, Claimable, Terminal
<1>4. f.attempts = n /\ f.state = IF dead THEN "dead_letter" ELSE "queued"
  BY <1>1, <1>2 DEF Row
<1>5. f.state \in Deliverable => f.attempts < MaxAttempts
  BY <1>1, <1>4, AttemptsAssumption DEF Deliverable, Claimable
<1>6. f = Reclaimed(r)
  BY DEF Reclaimed, n
<1> QED BY <1>3, <1>5, <1>6 DEF GoodRow

LEMMA FailedGood ==
    ASSUME NEW r \in Row, NEW attempts \in 0 .. MaxAttempts,
           attempts < MaxAttempts, NEW permanent \in BOOLEAN
    PROVE  GoodRow(Failed(r, attempts, permanent))
<1> DEFINE n    == attempts + 1
           dead == permanent \/ n >= MaxAttempts
           f    == [Released(r) EXCEPT
                      !.state    = IF dead THEN "dead_letter"
                                           ELSE "retry_scheduled",
                      !.attempts = n,
                      !.due      = dead /\ @,
                      !.scrubbed = dead \/ @]
<1>1. n \in 0 .. MaxAttempts /\ dead \in BOOLEAN /\ (~dead => n < MaxAttempts)
  BY AttemptsAssumption
<1>2. Released(r) \in Row
  BY ReleasedOK
<1> HIDE DEF n, dead
<1>3. f \in Row
  BY <1>1, <1>2 DEF Row, JobState, Claimable, Terminal
<1>4. f.attempts = n /\ f.state = IF dead THEN "dead_letter" ELSE "retry_scheduled"
  BY <1>1, <1>2 DEF Row
<1>5. f.state \in Deliverable => f.attempts < MaxAttempts
  BY <1>1, <1>4 DEF Deliverable, Claimable
<1>6. f = Failed(r, attempts, permanent)
  BY DEF Failed, n, dead
<1> QED BY <1>3, <1>5, <1>6 DEF GoodRow

LEMMA SucceededGood ==
    ASSUME NEW r \in Row
    PROVE  GoodRow(Succeeded(r))
<1>1. Released(r) \in Row
  BY ReleasedOK
<1>2. Succeeded(r) \in Row /\ Succeeded(r).state = "succeeded"
  BY <1>1 DEF Succeeded, Row, JobState, Terminal
<1> QED BY <1>2 DEF GoodRow, Deliverable, Claimable

LEMMA ClaimedGood ==
    ASSUME NEW r, GoodRow(r), r.state \in Claimable, NEW w \in Worker
    PROVE  GoodRow(Claimed(r, w))
BY OwnerAssumption DEF GoodRow, Claimed, Row, JobState, Deliverable, Claimable

LEMMA RequeuedGood ==
    ASSUME NEW r, GoodRow(r), r.state = "running"
    PROVE  GoodRow([Released(r) EXCEPT !.state = "queued"])
<1>1. Released(r) \in Row /\ Released(r).attempts = r.attempts
  BY ReleasedOK DEF GoodRow
<1> QED BY <1>1 DEF GoodRow, Row, JobState, Deliverable, Claimable

LEMMA CancelledGood ==
    ASSUME NEW r \in Row
    PROVE  GoodRow([r EXCEPT !.state = "cancelled"])
BY DEF GoodRow, Row, JobState, Terminal, Deliverable, Claimable

LEMMA TimedGood ==
    ASSUME NEW r, GoodRow(r), NEW b \in BOOLEAN
    PROVE  GoodRow([r EXCEPT !.leased = b]) /\ GoodRow([r EXCEPT !.due = b])
BY DEF GoodRow, Row

-----------------------------------------------------------------------------
(* The two parts of the invariant, as facts about rows and processes. *)

RowsGood == row \in [Job -> Row] /\ \A j \in Job : GoodRow(row[j])

ProcessGood(p) ==
    /\ p \in Process
    /\ p.pc # "polling" => p.job \in Job
    /\ p.pc = "settling" => p.seen < MaxAttempts

WorkersGood == worker \in [Worker -> Process] /\ \A w \in Worker : ProcessGood(worker[w])

LEMMA AttemptInvParts ==
    AttemptInv <=> RowsGood /\ WorkersGood /\ cancelling \subseteq Job
                            /\ applied \subseteq Job
BY DEF AttemptInv, TypeOK, ExhaustedNotDelivered, SeenNotExhausted, RowsGood,
       WorkersGood, GoodRow, ProcessGood, Deliverable

LEMMA PollingGood == ProcessGood(Polling)
BY AttemptsAssumption DEF ProcessGood, Polling, Process, Verdict

LEMMA EnqueuedGood ==
    ASSUME RowsGood, NEW outbox, NEW due \in BOOLEAN
    PROVE  /\ Enqueued(row, outbox, due) \in [Job -> Row]
           /\ \A j \in Job : GoodRow(Enqueued(row, outbox, due)[j])
<1>1. GoodRow([FreshRow EXCEPT !.due = due])
  BY FreshRowGood
<1> QED BY <1>1 DEF Enqueued, RowsGood, GoodRow

LEMMA SweptGood ==
    ASSUME RowsGood, NEW stale \in SUBSET ExpiredJobs
    PROVE  /\ Swept(stale) \in [Job -> Row]
           /\ \A j \in Job : GoodRow(Swept(stale)[j])
<1>1. \A j \in stale : GoodRow(Reclaimed(row[j]))
  BY ReclaimedGood DEF RowsGood, ExpiredJobs
<1> QED BY <1>1 DEF Swept, RowsGood, GoodRow

-----------------------------------------------------------------------------
LEMMA AttemptInvInit == Init => AttemptInv
<1> SUFFICES ASSUME Init PROVE AttemptInv
  OBVIOUS
<1>1. RowsGood
  BY NoRowGood DEF Init, RowsGood, GoodRow
<1>2. WorkersGood
  BY PollingGood DEF Init, WorkersGood, ProcessGood
<1> QED BY <1>1, <1>2, AttemptInvParts DEF Init

LEMMA RowStepGood ==
    ASSUME RowsGood, NEW j \in Job, NEW r, GoodRow(r), row' = [row EXCEPT ![j] = r]
    PROVE  RowsGood'
BY DEF RowsGood, GoodRow

LEMMA WorkerStepGood ==
    ASSUME WorkersGood, NEW w \in Worker, NEW p, ProcessGood(p),
           worker' = [worker EXCEPT ![w] = p]
    PROVE  WorkersGood'
BY DEF WorkersGood, ProcessGood

(* A handler run that ends leaves its outcome with its worker, "ok" only when
   it has committed. *)
LEMMA HandlerReports ==
    ASSUME WorkersGood, NEW w \in Worker, HandlerEnds(w)
    PROVE  /\ cancelling' = cancelling
           /\ worker[w].pc = "handling"
           /\ worker'[w].pc = "reporting" /\ worker'[w].job = worker[w].job
           /\ \A v \in Worker \ {w} : worker'[v] = worker[v]
           /\ worker'[w].verdict = "ok" => worker[w].job \in applied'
<1>1. worker[w] \in Process
  BY DEF WorkersGood
<1>2. CASE \E verdict \in Verdict : HandlerFails(w, verdict)
  <2>1. PICK verdict \in Verdict : HandlerFails(w, verdict)
    BY <1>2
  <2> QED BY <1>1, <2>1 DEF HandlerFails, WorkersGood, Process
<1>3. CASE \E outbox \in SUBSET Job : HandlerCommits(w, outbox)
  <2>1. PICK outbox \in SUBSET Job : HandlerCommits(w, outbox)
    BY <1>3
  <2> QED BY <1>1, <2>1 DEF HandlerCommits, WorkersGood, Process
<1>4. CASE \E outbox \in SUBSET Job : HandlerCommitUnacknowledged(w, outbox)
  <2>1. PICK outbox \in SUBSET Job : HandlerCommitUnacknowledged(w, outbox)
    BY <1>4
  <2> QED BY <1>1, <2>1 DEF HandlerCommitUnacknowledged, WorkersGood, Process
<1> QED BY <1>2, <1>3, <1>4 DEF HandlerEnds

(* A handler's transaction inserts the jobs of its outbox whose key is free, and
   changes no other row. *)
LEMMA HandlerOutbox ==
    ASSUME RowsGood, NEW w \in Worker, HandlerEnds(w)
    PROVE  \E outbox \in SUBSET Job :
              /\ \A j \in outbox : row[j].state = "absent" /\ row'[j].state = "queued"
              /\ \A j \in Job \ outbox : row'[j] = row[j]
              /\ \/ applied' = applied \ outbox
                 \/ applied' = (applied \ outbox) \cup {worker[w].job}
<1>1. CASE \E verdict \in Verdict : HandlerFails(w, verdict)
  <2>1. row' = row /\ applied' = applied \ {}
    BY <1>1 DEF HandlerFails
  <2> WITNESS {} \in SUBSET Job
  <2> QED BY <2>1
<1>2. CASE \E outbox \in SUBSET Job : \/ HandlerCommits(w, outbox)
                                     \/ HandlerCommitUnacknowledged(w, outbox)
  <2>1. PICK outbox \in SUBSET Job : \/ HandlerCommits(w, outbox)
                                     \/ HandlerCommitUnacknowledged(w, outbox)
    BY <1>2
  <2> DEFINE new == {j \in outbox : row[j].state = "absent"}
  <2>2. /\ row' = Enqueued(row, outbox, TRUE)
        /\ applied' = (applied \ new) \cup {worker[w].job}
    BY <2>1 DEF HandlerCommits, HandlerCommitUnacknowledged
  <2>3. [FreshRow EXCEPT !.due = TRUE].state = "queued"
    BY DEF FreshRow, NoRow
  <2>4. \A j \in Job : row'[j] = IF j \in new THEN [FreshRow EXCEPT !.due = TRUE]
                                              ELSE row[j]
    BY <2>2 DEF Enqueued
  <2> QED BY <2>2, <2>3, <2>4
<1> QED BY <1>1, <1>2 DEF HandlerEnds

(* Types and attempt counts survive every step. *)
LEMMA AttemptInvStep == AttemptInv /\ [Next]_vars => AttemptInv'
<1> SUFFICES ASSUME RowsGood, WorkersGood, cancelling \subseteq Job,
                    applied \subseteq Job, [Next]_vars
             PROVE  RowsGood' /\ WorkersGood' /\ (cancelling \subseteq Job)'
                              /\ (applied \subseteq Job)'
  BY AttemptInvParts, PTL
<1>1. ASSUME NEW w \in Worker, NEW stale \in SUBSET ExpiredJobs,
             Sweep(w, stale)
      PROVE  RowsGood'
  BY <1>1, SweptGood DEF Sweep, RowsGood
<1>2. ASSUME NEW w \in Worker, NEW stale \in SUBSET ExpiredJobs, NEW j \in Job,
             Claim(w, j, stale)
      PROVE  RowsGood' /\ WorkersGood'
  <2> DEFINE rows == Swept(stale)
             p    == [Polling EXCEPT !.pc = "handling", !.job = j,
                                     !.beating = TRUE]
  <2>1. rows \in [Job -> Row] /\ \A k \in Job : GoodRow(rows[k])
    BY SweptGood
  <2>2. /\ rows[j].state \in Claimable
        /\ row' = [rows EXCEPT ![j] = Claimed(rows[j], w)]
        /\ worker' = [worker EXCEPT ![w] = p]
    BY <1>2 DEF Claim
  <2>3. GoodRow(Claimed(rows[j], w))
    BY <2>1, <2>2, ClaimedGood
  <2>4. ProcessGood(p)
    <3>1. Polling \in Process
      BY PollingGood DEF ProcessGood
    <3>2. p \in Process /\ p.pc = "handling" /\ p.job = j
      BY <3>1 DEF Process
    <3> QED BY <3>2 DEF ProcessGood
  <2> HIDE DEF rows, p
  <2>5. RowsGood'
    BY <2>1, <2>2, <2>3 DEF RowsGood, GoodRow
  <2> QED BY <2>2, <2>4, <2>5, WorkerStepGood
<1>3. ASSUME NEW w \in Worker, Heartbeat(w)
      PROVE  RowsGood' /\ WorkersGood'
  <2> DEFINE j     == worker[w].job
             alive == Owned(row[j], w)
             p     == [worker[w] EXCEPT !.beating = alive]
  <2>1. /\ row' = IF alive THEN [row EXCEPT ![j].leased = TRUE] ELSE row
        /\ worker' = [worker EXCEPT ![w].beating = alive]
        /\ j \in Job
        /\ alive \in BOOLEAN
    BY <1>3 DEF Heartbeat, WorkersGood, ProcessGood, Owned
  <2>2. RowsGood'
    <3>1. GoodRow([row[j] EXCEPT !.leased = TRUE])
      BY <2>1, TimedGood DEF RowsGood
    <3> QED BY <2>1, <3>1 DEF RowsGood, GoodRow
  <2>3. ProcessGood(p)
    BY <2>1 DEF WorkersGood, ProcessGood, Process
  <2>4. worker' = [worker EXCEPT ![w] = p]
    BY <2>1
  <2> QED BY <2>2, <2>3, <2>4, WorkerStepGood
<1>4. ASSUME NEW w \in Worker, HandlerEnds(w)
      PROVE  RowsGood' /\ WorkersGood' /\ (applied \subseteq Job)'
  <2>1. PICK v \in Verdict : worker' = [worker EXCEPT ![w] =
                     [worker[w] EXCEPT !.pc = "reporting", !.verdict = v]]
    BY <1>4 DEF HandlerEnds, HandlerCommits, HandlerCommitUnacknowledged,
                HandlerFails, Verdict
  <2>2. ProcessGood([worker[w] EXCEPT !.pc = "reporting", !.verdict = v])
    <3>1. worker[w].pc = "handling"
      BY <1>4 DEF HandlerEnds, HandlerCommits, HandlerCommitUnacknowledged,
                  HandlerFails
    <3> QED BY <3>1 DEF WorkersGood, ProcessGood, Process
  <2>3. WorkersGood'
    BY <2>1, <2>2, WorkerStepGood
  <2>4. row' = row \/ \E outbox \in SUBSET Job : row' = Enqueued(row, outbox, TRUE)
    BY <1>4 DEF HandlerEnds, HandlerCommits, HandlerCommitUnacknowledged,
                HandlerFails
  <2>5. RowsGood'
    BY <2>4, EnqueuedGood DEF RowsGood
  <2>6. worker[w].job \in Job
    BY <1>4 DEF HandlerEnds, HandlerCommits, HandlerCommitUnacknowledged,
                HandlerFails, WorkersGood, ProcessGood
  <2>7. (applied \subseteq Job)'
    BY <1>4, <2>6 DEF HandlerEnds, HandlerCommits, HandlerCommitUnacknowledged,
                      HandlerFails
  <2> QED BY <2>3, <2>5, <2>7
<1>5. ASSUME NEW w \in Worker, ReadRow(w)
      PROVE  WorkersGood'
  <2> DEFINE r == row[worker[w].job]
             p == IF Owned(r, w)
                  THEN [worker[w] EXCEPT !.pc = "settling", !.seen = r.attempts]
                  ELSE Polling
  <2>1. GoodRow(r) /\ worker[w].job \in Job
    BY <1>5 DEF ReadRow, WorkersGood, ProcessGood, RowsGood
  <2>2. Owned(r, w) => r.attempts \in 0 .. MaxAttempts /\ r.attempts < MaxAttempts
    BY <2>1 DEF Owned, GoodRow, Deliverable, Row
  <2>3. ProcessGood(p)
    BY <2>1, <2>2, PollingGood DEF WorkersGood, ProcessGood, Process
  <2>4. worker' = [worker EXCEPT ![w] = p]
    BY <1>5 DEF ReadRow
  <2> QED BY <2>3, <2>4, WorkerStepGood
<1>6. ASSUME NEW w \in Worker, Settle(w)
      PROVE  RowsGood' /\ WorkersGood'
  <2> DEFINE j == worker[w].job
  <2>1. /\ j \in Job
        /\ worker[w].seen \in 0 .. MaxAttempts
        /\ worker[w].seen < MaxAttempts
        /\ row[j] \in Row
    BY <1>6 DEF Settle, WorkersGood, ProcessGood, Process, RowsGood
  <2>2. GoodRow(SettledRow(w))
    BY <2>1, FailedGood, SucceededGood DEF SettledRow
  <2>3. RowsGood'
    BY <1>6, <2>1, <2>2, RowStepGood DEF Settle
  <2>4. WorkersGood'
    BY <1>6, PollingGood, WorkerStepGood DEF Settle
  <2> QED BY <2>3, <2>4
<1>7. ASSUME NEW w \in Worker, Abandon(w)
      PROVE  WorkersGood'
  BY <1>7, PollingGood, WorkerStepGood DEF Abandon
<1>8. ASSUME NEW w \in Worker, Drain(w)
      PROVE  RowsGood' /\ WorkersGood'
  <2>1. \A j \in Job : Owned(row[j], w) =>
                          GoodRow([Released(row[j]) EXCEPT !.state = "queued"])
    BY RequeuedGood DEF Owned, RowsGood
  <2>2. RowsGood'
    BY <1>8, <2>1 DEF Drain, RowsGood, GoodRow
  <2> QED BY <1>8, <2>2, PollingGood, WorkerStepGood DEF Drain
<1>9. ASSUME NEW j \in Job, JobStep(j)
      PROVE  RowsGood' /\ (cancelling \subseteq Job)' /\ (applied \subseteq Job)'
  <2>1. CASE Enqueue(j)
    BY <2>1, EnqueuedGood DEF Enqueue, RowsGood
  <2>2. CASE LeaseExpires(j) \/ BackoffElapses(j)
    <3>1. GoodRow([row[j] EXCEPT !.leased = FALSE])
          /\ GoodRow([row[j] EXCEPT !.due = TRUE])
      BY TimedGood DEF RowsGood
    <3> QED BY <2>2, <3>1 DEF LeaseExpires, BackoffElapses, RowsGood, GoodRow
  <2>3. CASE CancelRead(j) \/ CancelAborts(j)
    BY <2>3 DEF CancelRead, CancelAborts, RowsGood
  <2>4. CASE CancelWrite(j)
    <3>1. GoodRow([row[j] EXCEPT !.state = "cancelled"])
      BY CancelledGood DEF RowsGood
    <3> QED BY <2>4, <3>1 DEF CancelWrite, RowsGood, GoodRow
  <2>5. CASE GcTerminal(j)
    BY <2>5, NoRowGood, RowStepGood DEF GcTerminal
  <2> QED BY <1>9, <2>1, <2>2, <2>3, <2>4, <2>5 DEF JobStep
<1>10. CASE UNCHANGED vars
  BY <1>10 DEF vars, RowsGood, WorkersGood
<1>11. CASE \E w \in Worker : WorkerStep(w)
  <2>1. PICK w \in Worker : WorkerStep(w)
    BY <1>11
  <2>2. CASE RunOnce(w)
    BY <2>2, <1>1, <1>2 DEF RunOnce, Sweep, Claim, WorkersGood
  <2>3. CASE Heartbeat(w) \/ Settle(w) \/ Drain(w)
    BY <2>3, <1>3, <1>6, <1>8 DEF Heartbeat, Settle, Drain
  <2>4. CASE HandlerEnds(w)
    BY <2>4, <1>4 DEF HandlerEnds, HandlerCommits,
                      HandlerCommitUnacknowledged, HandlerFails
  <2>5. CASE ReadRow(w) \/ Abandon(w)
    BY <2>5, <1>5, <1>7 DEF ReadRow, Abandon, RowsGood
  <2> QED BY <2>1, <2>2, <2>3, <2>4, <2>5 DEF WorkerStep
<1>12. CASE \E j \in Job : JobStep(j)
  BY <1>12, <1>9 DEF JobStep, Enqueue, LeaseExpires, BackoffElapses,
     CancelRead, CancelWrite, CancelAborts, GcTerminal, WorkersGood
<1> QED BY <1>10, <1>11, <1>12 DEF Next

(* Every variable keeps its type, whatever the interleaving. *)
THEOREM TypeCorrect == Spec => []TypeOK
<1>1. AttemptInv => TypeOK
  BY DEF AttemptInv
<1> QED BY <1>1, AttemptInvInit, AttemptInvStep, PTL DEF Spec

(* A job whose attempts are used up is never deliverable again. *)
THEOREM AttemptsBounded == Spec => []ExhaustedNotDelivered
<1>1. AttemptInv => ExhaustedNotDelivered
  BY DEF AttemptInv
<1> QED BY <1>1, AttemptInvInit, AttemptInvStep, PTL DEF Spec

-----------------------------------------------------------------------------
(* Success after the effect.  A row can be inserted again under the same key,
   which starts its history afresh: no process and no cancelling transaction
   may outlive the row it read, or the new row would inherit the old verdict. *)
NothingOutlivesRow ==
    /\ \A w \in Worker : worker[w].pc # "polling" =>
                           row[worker[w].job].state # "absent"
    /\ \A j \in cancelling : row[j].state # "absent"

OkMeansApplied ==
    \A w \in Worker : worker[w].pc \in {"reporting", "settling"}
                         /\ worker[w].verdict = "ok" => worker[w].job \in applied

AppliedInv == SucceededMeansApplied /\ OkMeansApplied /\ NothingOutlivesRow

LEMMA StatesOfTransitions ==
    ASSUME NEW r \in Row
    PROVE  /\ Reclaimed(r).state \in {"dead_letter", "queued"}
           /\ Succeeded(r).state = "succeeded"
           /\ \A n \in Nat, p \in BOOLEAN :
                 Failed(r, n, p).state \in {"dead_letter", "retry_scheduled"}
<1>1. Released(r) \in Row
  BY ReleasedOK
<1> QED BY <1>1 DEF Reclaimed, Succeeded, Failed, Row

LEMMA AppliedInvInit == Init => AppliedInv
BY DEF Init, AppliedInv, SucceededMeansApplied, OkMeansApplied,
       NothingOutlivesRow, NoRow, Polling

(* A step that inserts no row, deletes none, removes nothing from applied, and
   reports nothing new keeps the invariant. *)
LEMMA AppliedInvStep == AttemptInv /\ AppliedInv /\ [Next]_vars => AppliedInv'
<1> SUFFICES ASSUME RowsGood, WorkersGood, cancelling \subseteq Job,
                    AppliedInv, [Next]_vars
             PROVE  AppliedInv'
  BY AttemptInvParts
<1> USE DEF RowsGood, WorkersGood, AppliedInv, SucceededMeansApplied,
            OkMeansApplied, NothingOutlivesRow
<1>1. ASSUME NEW stale \in SUBSET ExpiredJobs, NEW j \in Job
      PROVE  /\ Swept(stale)[j].state # "succeeded" \/ Swept(stale)[j] = row[j]
             /\ Swept(stale)[j].state = "absent" <=> row[j].state = "absent"
  BY StatesOfTransitions DEF Swept, ExpiredJobs, Expired, GoodRow
<1>2. ASSUME NEW w \in Worker, NEW stale \in SUBSET ExpiredJobs, Sweep(w, stale)
      PROVE  AppliedInv'
  BY <1>1, <1>2 DEF Sweep, ProcessGood
<1>3. ASSUME NEW w \in Worker, NEW stale \in SUBSET ExpiredJobs, NEW j \in Job,
             Claim(w, j, stale)
      PROVE  AppliedInv'
  <2> DEFINE rows == Swept(stale)
  <2>1. /\ row' = [rows EXCEPT ![j] = Claimed(rows[j], w)]
        /\ worker'[w].pc = "handling" /\ worker'[w].job = j
        /\ \A v \in Worker \ {w} : worker'[v] = worker[v]
        /\ applied' = applied /\ cancelling' = cancelling
    BY <1>3 DEF Claim, Polling
  <2>2. rows \in [Job -> Row]
    BY SweptGood
  <2>3. Claimed(rows[j], w).state = "running"
    BY <2>2 DEF Claimed, Row
  <2>4. \A k \in Job : /\ row'[k].state = "succeeded" => row[k].state = "succeeded"
                       /\ row[k].state # "absent" => row'[k].state # "absent"
    BY <2>1, <2>2, <2>3, <1>1
  <2>5. row'[j].state # "absent"
    BY <2>1, <2>2, <2>3
  <2> HIDE DEF rows
  <2>6. SucceededMeansApplied'
    <3>1. \A k \in Job : k \in applied => k \in applied'
      BY <2>1
    <3>2. \A k \in Job : row[k].state = "succeeded" => k \in applied
      OBVIOUS
    <3> QED BY <3>1, <3>2, <2>4 DEF SucceededMeansApplied
  <2>7. OkMeansApplied'
    BY <2>1
  <2>8. NothingOutlivesRow'
    <3>1. \A k \in cancelling' : row'[k].state # "absent"
      BY <2>1, <2>4
    <3>2. \A v \in Worker \ {w} : worker'[v].pc # "polling" =>
                                    row'[worker'[v].job].state # "absent"
      <4>1. \A v \in Worker : worker[v].pc # "polling" => worker[v].job \in Job
        BY DEF ProcessGood
      <4> QED BY <2>1, <2>4, <4>1
    <3> QED BY <3>1, <3>2, <2>1, <2>5
  <2> QED BY <2>6, <2>7, <2>8
<1>4. ASSUME NEW w \in Worker, Heartbeat(w)
      PROVE  AppliedInv'
  <2>1. /\ \A k \in Job : row'[k].state = row[k].state
        /\ \A v \in Worker : /\ worker'[v].pc = worker[v].pc
                              /\ worker'[v].job = worker[v].job
                              /\ worker'[v].verdict = worker[v].verdict
        /\ applied' = applied /\ cancelling' = cancelling
    BY <1>4 DEF Heartbeat, ProcessGood, Process, Row
  <2> QED BY <2>1 DEF ProcessGood
<1>5. ASSUME NEW w \in Worker, HandlerEnds(w)
      PROVE  AppliedInv'
  <2>1. PICK outbox \in SUBSET Job :
              /\ \A j \in outbox : row[j].state = "absent" /\ row'[j].state = "queued"
              /\ \A j \in Job \ outbox : row'[j] = row[j]
              /\ \/ applied' = applied \ outbox
                 \/ applied' = (applied \ outbox) \cup {worker[w].job}
    BY <1>5, HandlerOutbox
  <2>2. /\ cancelling' = cancelling
        /\ worker'[w].pc = "reporting" /\ worker'[w].job = worker[w].job
        /\ \A v \in Worker \ {w} : worker'[v] = worker[v]
        /\ worker'[w].verdict = "ok" => worker[w].job \in applied'
        /\ worker[w].pc = "handling"
    BY <1>5, HandlerReports
  <2>3. \A j \in Job : row[j].state # "absent" =>
                         /\ row'[j] = row[j]
                         /\ j \in applied => j \in applied'
    BY <2>1
  <2>4. SucceededMeansApplied'
    BY <2>1, <2>3
  <2>5. OkMeansApplied'
    <3>1. \A v \in Worker \ {w} : worker[v].pc # "polling" =>
                worker[v].job \in Job /\ row[worker[v].job].state # "absent"
      BY DEF ProcessGood
    <3> QED BY <2>2, <2>3, <3>1
  <2>6. NothingOutlivesRow'
    <3>1. \A v \in Worker : worker[v].pc # "polling" =>
                worker[v].job \in Job /\ row[worker[v].job].state # "absent"
      BY DEF ProcessGood
    <3> QED BY <2>2, <2>3, <3>1
  <2> QED BY <2>4, <2>5, <2>6
<1>6. ASSUME NEW w \in Worker, ReadRow(w)
      PROVE  AppliedInv'
  <2>1. /\ row' = row /\ cancelling' = cancelling /\ applied' = applied
        /\ \A v \in Worker \ {w} : worker'[v] = worker[v]
        /\ \/ worker'[w].pc = "polling"
           \/ /\ worker'[w].job = worker[w].job
              /\ worker'[w].verdict = worker[w].verdict
              /\ worker[w].pc = "reporting"
    BY <1>6 DEF ReadRow, Process, Polling
  <2> QED BY <2>1
<1>7. ASSUME NEW w \in Worker, Settle(w)
      PROVE  AppliedInv'
  <2> DEFINE j == worker[w].job
  <2>1. /\ j \in Job /\ row[j] \in Row
        /\ worker[w].pc = "settling"
        /\ worker[w].seen \in Nat
    BY <1>7, AttemptsAssumption DEF Settle, ProcessGood, Process
  <2>2. /\ SettledRow(w).state # "absent"
        /\ SettledRow(w).state = "succeeded" => worker[w].verdict = "ok"
    BY <2>1, StatesOfTransitions DEF SettledRow
  <2>3. /\ row' = [row EXCEPT ![j] = SettledRow(w)]
        /\ cancelling' = cancelling /\ applied' = applied
        /\ worker'[w].pc = "polling"
        /\ \A v \in Worker \ {w} : worker'[v] = worker[v]
    BY <1>7 DEF Settle, Polling
  <2> QED BY <2>1, <2>2, <2>3 DEF ProcessGood
<1>8. ASSUME NEW w \in Worker, Abandon(w) \/ Drain(w)
      PROVE  AppliedInv'
  <2>1. \A j \in Job : [Released(row[j]) EXCEPT !.state = "queued"].state = "queued"
    BY ReleasedOK DEF Row
  <2>2. /\ \A j \in Job : row'[j] = row[j] \/ row'[j].state = "queued"
        /\ cancelling' = cancelling /\ applied' = applied
        /\ worker'[w].pc = "polling"
        /\ \A v \in Worker \ {w} : worker'[v] = worker[v]
    <3>1. CASE Abandon(w)
      BY <3>1 DEF Abandon, Polling
    <3>2. CASE Drain(w)
      <4>1. \A j \in Job : row'[j] = row[j] \/ row'[j].state = "queued"
        BY <3>2, <2>1 DEF Drain
      <4> QED BY <3>2, <4>1 DEF Drain, Polling
    <3> QED BY <1>8, <3>1, <3>2
  <2> QED BY <2>2 DEF ProcessGood
<1>9. ASSUME NEW j \in Job, JobStep(j)
      PROVE  AppliedInv'
  <2>1. CASE Enqueue(j)
    <3>1. \A due \in BOOLEAN : [FreshRow EXCEPT !.due = due].state = "queued"
      BY DEF FreshRow, NoRow
    <3>2. /\ row[j].state = "absent" /\ row'[j].state = "queued"
          /\ \A k \in Job \ {j} : row'[k] = row[k]
          /\ applied' = applied \ {j}
          /\ worker' = worker /\ cancelling' = cancelling
      BY <2>1, <3>1 DEF Enqueue, Enqueued
    <3> QED BY <3>2 DEF ProcessGood
  <2>2. CASE LeaseExpires(j) \/ BackoffElapses(j)
    <3>1. /\ \A k \in Job : row'[k].state = row[k].state
          /\ UNCHANGED <<worker, cancelling, applied>>
      BY <2>2 DEF LeaseExpires, BackoffElapses, Row
    <3> QED BY <3>1 DEF ProcessGood
  <2>3. CASE CancelRead(j)
    BY <2>3 DEF CancelRead, Claimable
  <2>4. CASE CancelWrite(j)
    <3>1. /\ row'[j].state = "cancelled"
          /\ \A k \in Job \ {j} : row'[k] = row[k]
          /\ UNCHANGED <<worker, applied>>
          /\ cancelling' \subseteq cancelling
      BY <2>4 DEF CancelWrite, Row
    <3> QED BY <3>1 DEF ProcessGood
  <2>5. CASE CancelAborts(j)
    BY <2>5 DEF CancelAborts
  <2>6. CASE GcTerminal(j)
    <3>1. /\ row'[j].state = "absent"
          /\ \A k \in Job \ {j} : row'[k] = row[k]
          /\ UNCHANGED <<worker, cancelling, applied>>
          /\ j \notin cancelling /\ \A w \in Worker : worker[w].job # j
      BY <2>6 DEF GcTerminal, NoRow
    <3> QED BY <3>1 DEF ProcessGood
  <2> QED BY <1>9, <2>1, <2>2, <2>3, <2>4, <2>5, <2>6 DEF JobStep
<1>10. CASE UNCHANGED vars
  BY <1>10 DEF vars
<1> QED BY <1>2, <1>3, <1>4, <1>5, <1>6, <1>7, <1>8, <1>9, <1>10
        DEF Next, WorkerStep, RunOnce

(* A succeeded job's work was committed, through every crash and redelivery. *)
THEOREM SuccessIsReal == Spec => []SucceededMeansApplied
<1>1. AppliedInv => SucceededMeansApplied
  BY DEF AppliedInv
<1> QED BY <1>1, AttemptInvInit, AttemptInvStep, AppliedInvInit,
           AppliedInvStep, PTL DEF Spec

-----------------------------------------------------------------------------
(* The settle window.  When nothing else writes a row between the two reads of
   its settlement, the row is still the worker's own when the verdict is
   written. *)
OwnedWhileSettling ==
    \A w \in Worker : worker[w].pc = "settling" => Owned(row[worker[w].job], w)

QuietInv == AttemptInv /\ AppliedInv /\ OwnedWhileSettling

LEMMA QuietStep ==
    ASSUME QuietInv, [Next /\ QuietSettle]_vars
    PROVE  OwnedWhileSettling'
<1>0. RowsGood /\ WorkersGood
  BY AttemptInvParts DEF QuietInv
<1>1. SUFFICES ASSUME NEW w \in Worker, worker'[w].pc = "settling"
               PROVE  Owned(row'[worker'[w].job], w)
  BY DEF OwnedWhileSettling, Owned
<1>2. CASE worker'[w] = worker[w] /\ QuietSettle
  BY <1>1, <1>2 DEF QuietSettle, QuietInv, OwnedWhileSettling, Owned
<1>3. CASE UNCHANGED vars
  BY <1>1, <1>3 DEF vars, QuietInv, OwnedWhileSettling, Owned
<1>4. CASE worker'[w] # worker[w] /\ Next
  <2>1. PICK v \in Worker : WorkerStep(v)
    BY <1>4 DEF Next, JobStep, Enqueue, LeaseExpires, BackoffElapses, CancelRead,
                CancelWrite, CancelAborts, GcTerminal
  <2>2. v = w
    BY <1>0, <1>4, <2>1 DEF WorkerStep, RunOnce, Sweep, Claim, Heartbeat, HandlerEnds,
       HandlerCommits, HandlerCommitUnacknowledged, HandlerFails, ReadRow,
       Settle, Abandon, Drain, WorkersGood
  <2>3. CASE Heartbeat(w)
    <3>1. /\ worker[w].pc = "settling" /\ worker'[w].job = worker[w].job
          /\ worker[w].job \in Job
      BY <1>0, <1>1, <2>3 DEF Heartbeat, WorkersGood, ProcessGood, Process
    <3>2. Owned(row[worker[w].job], w)
      BY <3>1 DEF QuietInv, OwnedWhileSettling
    <3> QED BY <1>0, <2>3, <3>1, <3>2 DEF Heartbeat, Owned, RowsGood, Row
  <2>4. CASE ReadRow(w)
    BY <1>0, <1>1, <2>4 DEF ReadRow, WorkersGood, ProcessGood, Process, Polling
  <2>5. CASE ~ Heartbeat(w) /\ ~ ReadRow(w)
    <3>1. \/ \E stale \in SUBSET ExpiredJobs :
                Sweep(w, stale) \/ \E j \in Job : Claim(w, j, stale)
          \/ HandlerEnds(w) \/ Settle(w) \/ Abandon(w) \/ Drain(w)
      BY <2>1, <2>2, <2>5 DEF WorkerStep, RunOnce
    <3>2. ASSUME NEW stale \in SUBSET ExpiredJobs PROVE ~Sweep(w, stale)
      BY <1>4 DEF Sweep
    <3>3. ASSUME NEW stale \in SUBSET ExpiredJobs, NEW j \in Job,
                 Claim(w, j, stale)
          PROVE  worker'[w].pc = "handling"
      BY <1>0, <3>3 DEF Claim, Polling, WorkersGood
    <3>4. HandlerEnds(w) => worker'[w].pc = "reporting"
      BY <1>0, HandlerReports
    <3>5. Settle(w) \/ Abandon(w) \/ Drain(w) => worker'[w].pc = "polling"
      BY <1>0 DEF Settle, Abandon, Drain, Polling, WorkersGood
    <3> QED BY <1>1, <3>1, <3>2, <3>3, <3>4, <3>5
  <2> QED BY <2>3, <2>4, <2>5
<1> QED BY <1>2, <1>3, <1>4

LEMMA QuietInvariant == QuietSpec => []QuietInv
<1>1. Init => QuietInv
  BY AttemptInvInit, AppliedInvInit
     DEF QuietInv, OwnedWhileSettling, Init, Polling
<1>2. QuietInv /\ [Next /\ QuietSettle]_vars => QuietInv'
  BY AttemptInvStep, AppliedInvStep, QuietStep DEF QuietInv
<1> QED BY <1>1, <1>2, PTL DEF QuietSpec

-----------------------------------------------------------------------------
(* Credentials.  A row is scrubbed by the transition that settles it, and
   under the assumption nothing makes a settled row deliverable again. *)
Scrubs(r) == /\ r.state \in Deliverable => ~r.scrubbed
             /\ r.state \in {"succeeded", "dead_letter"} => r.scrubbed

LEMMA FreshScrubs ==
    /\ Scrubs(NoRow)
    /\ \A due \in BOOLEAN : Scrubs([FreshRow EXCEPT !.due = due])
<1>1. /\ NoRow.state = "absent"
      /\ FreshRow.state = "queued" /\ ~FreshRow.scrubbed
      /\ DOMAIN FreshRow = {"state", "attempts", "lockedBy", "leased", "due", "scrubbed"}
  BY DEF NoRow, FreshRow
<1> QED BY <1>1 DEF Scrubs, Deliverable, Claimable, NoRow, FreshRow

LEMMA ReleasedScrubbed ==
    ASSUME NEW r \in Row
    PROVE  Released(r) \in Row /\ Released(r).scrubbed = r.scrubbed
BY OwnerAssumption DEF Released, Row

LEMMA ReclaimedScrubs ==
    ASSUME NEW r \in Row, ~r.scrubbed
    PROVE  Scrubs(Reclaimed(r))
<1>1. Released(r) \in Row /\ ~Released(r).scrubbed
  BY ReleasedScrubbed
<1> DEFINE n == r.attempts + 1
           dead == n >= MaxAttempts
<1>2. PICK b : b = dead
  OBVIOUS
<1>3. /\ Reclaimed(r).state = IF b THEN "dead_letter" ELSE "queued"
      /\ Reclaimed(r).scrubbed = (b \/ Released(r).scrubbed)
  BY <1>1, <1>2 DEF Reclaimed, Row
<1> QED BY <1>1, <1>3 DEF Scrubs, Deliverable, Claimable

LEMMA FailedScrubs ==
    ASSUME NEW r \in Row, ~r.scrubbed, NEW attempts \in Nat, NEW permanent \in BOOLEAN
    PROVE  Scrubs(Failed(r, attempts, permanent))
<1>1. Released(r) \in Row /\ ~Released(r).scrubbed
  BY ReleasedScrubbed
<1> DEFINE n == attempts + 1
           dead == permanent \/ n >= MaxAttempts
<1>2. PICK b : b = dead
  OBVIOUS
<1>3. /\ Failed(r, attempts, permanent).state =
            IF b THEN "dead_letter" ELSE "retry_scheduled"
      /\ Failed(r, attempts, permanent).scrubbed = (b \/ Released(r).scrubbed)
  BY <1>1, <1>2 DEF Failed, Row
<1> QED BY <1>1, <1>3 DEF Scrubs, Deliverable, Claimable

ScrubInv == \A j \in Job : Scrubs(row[j])

LEMMA SweptScrubs ==
    ASSUME RowsGood, ScrubInv, NEW stale \in SUBSET ExpiredJobs
    PROVE  \A j \in Job : Scrubs(Swept(stale)[j])
<1>1. \A j \in stale : j \in Job /\ row[j] \in Row /\ ~row[j].scrubbed
  BY DEF RowsGood, ScrubInv, Scrubs, ExpiredJobs, Expired, Deliverable
<1> QED BY <1>1, ReclaimedScrubs DEF Swept, ScrubInv

LEMMA ScrubStep ==
    ASSUME QuietInv, ScrubInv, [Next]_vars
    PROVE  ScrubInv'
<1>0. RowsGood /\ WorkersGood
  BY AttemptInvParts DEF QuietInv
<1>1. ASSUME NEW w \in Worker, RunOnce(w)
      PROVE  ScrubInv'
  <2>1. PICK stale \in SUBSET ExpiredJobs :
               Sweep(w, stale) \/ \E j \in Job : Claim(w, j, stale)
    BY <1>1 DEF RunOnce
  <2>2. /\ Swept(stale) \in [Job -> Row]
        /\ \A j \in Job : Scrubs(Swept(stale)[j])
    BY <1>0, SweptGood, SweptScrubs
  <2>3. CASE Sweep(w, stale)
    BY <2>2, <2>3 DEF Sweep, ScrubInv
  <2>4. ASSUME NEW j \in Job, Claim(w, j, stale)
        PROVE  ScrubInv'
    <3>1. /\ Swept(stale)[j].state \in Claimable
          /\ row' = [Swept(stale) EXCEPT ![j] = Claimed(Swept(stale)[j], w)]
      BY <2>4 DEF Claim
    <3>2. Scrubs(Claimed(Swept(stale)[j], w))
      BY <2>2, <3>1 DEF Claimed, Scrubs, Row, Deliverable
    <3> QED BY <2>2, <3>1, <3>2 DEF ScrubInv
  <2> QED BY <2>1, <2>3, <2>4
<1>2. ASSUME NEW w \in Worker, Heartbeat(w)
      PROVE  ScrubInv'
  BY <1>0, <1>2 DEF Heartbeat, ScrubInv, Scrubs, RowsGood, Row
<1>3. ASSUME NEW w \in Worker, HandlerEnds(w)
      PROVE  ScrubInv'
  <2>1. CASE row' = row
    BY <2>1 DEF ScrubInv
  <2>2. CASE \E outbox \in SUBSET Job : row' = Enqueued(row, outbox, TRUE)
    BY <2>2, FreshScrubs DEF Enqueued, ScrubInv
  <2> QED BY <1>3, <2>1, <2>2 DEF HandlerEnds, HandlerFails, HandlerCommits,
             HandlerCommitUnacknowledged
<1>4. ASSUME NEW w \in Worker, Settle(w)
      PROVE  ScrubInv'
  <2> DEFINE j == worker[w].job
  <2>1. /\ j \in Job /\ row[j] \in Row /\ worker[w].seen \in Nat
        /\ row[j].state = "running"
    BY <1>0, <1>4 DEF Settle, QuietInv, OwnedWhileSettling, Owned, RowsGood,
       WorkersGood, ProcessGood, Process
  <2>2. ~row[j].scrubbed
    BY <2>1 DEF ScrubInv, Scrubs, Deliverable
  <2>3. Scrubs(Succeeded(row[j]))
    <3>1. Released(row[j]) \in Row
      BY <2>1, ReleasedScrubbed
    <3> QED BY <3>1 DEF Succeeded, Scrubs, Row, Deliverable, Claimable
  <2>4. Scrubs(SettledRow(w))
    BY <2>1, <2>2, <2>3, FailedScrubs DEF SettledRow
  <2>5. row' = [row EXCEPT ![j] = SettledRow(w)]
    BY <1>4 DEF Settle
  <2> QED BY <1>0, <2>4, <2>5 DEF ScrubInv, RowsGood
<1>5. ASSUME NEW w \in Worker, Drain(w)
      PROVE  ScrubInv'
  <2>1. ASSUME NEW j \in Job, Owned(row[j], w)
        PROVE  Scrubs([Released(row[j]) EXCEPT !.state = "queued"])
    <3>1. Released(row[j]) \in Row /\ ~Released(row[j]).scrubbed
      BY <1>0, <2>1, ReleasedScrubbed DEF RowsGood, ScrubInv, Scrubs, Owned, Deliverable
    <3> QED BY <3>1 DEF Scrubs, Row, Deliverable, Claimable
  <2> QED BY <1>5, <2>1 DEF Drain, ScrubInv
<1>6. ASSUME NEW w \in Worker, WorkerStep(w)
      PROVE  ScrubInv'
  BY <1>1, <1>2, <1>3, <1>4, <1>5, <1>6 DEF WorkerStep, ReadRow, Abandon, ScrubInv
<1>7. ASSUME NEW j \in Job, JobStep(j)
      PROVE  ScrubInv'
  <2>1. Enqueue(j) => ScrubInv'
    BY FreshScrubs DEF Enqueue, Enqueued, ScrubInv
  <2>2. LeaseExpires(j) \/ BackoffElapses(j) => ScrubInv'
    BY <1>0 DEF LeaseExpires, BackoffElapses, ScrubInv, Scrubs, RowsGood, Row
  <2>3. CancelWrite(j) => ScrubInv'
    BY <1>0 DEF CancelWrite, ScrubInv, Scrubs, RowsGood, Row, Deliverable, Claimable
  <2>4. GcTerminal(j) => ScrubInv'
    BY <1>0, FreshScrubs DEF GcTerminal, ScrubInv, RowsGood
  <2> QED BY <1>7, <2>1, <2>2, <2>3, <2>4 DEF JobStep, CancelRead, CancelAborts, ScrubInv
<1>8. CASE UNCHANGED vars
  BY <1>8 DEF vars, ScrubInv
<1> QED BY <1>6, <1>7, <1>8 DEF Next

(* A payload loses its credentials exactly when its job is settled: no delivery
   finds them gone, and no settled row keeps them (scrub in mark_succeeded, fail
   and requeue_stale). *)
THEOREM ScrubsWhenSettled == QuietSpec => []ScrubbedOnlyWhenSettled
<1>1. Init => ScrubInv
  BY FreshScrubs DEF Init, ScrubInv
<1>2. QuietInv /\ ScrubInv /\ [Next /\ QuietSettle]_vars => ScrubInv'
  BY ScrubStep
<1>3. ScrubInv => ScrubbedOnlyWhenSettled
  BY DEF ScrubInv, Scrubs, ScrubbedOnlyWhenSettled, Deliverable
<1> QED BY <1>1, <1>2, <1>3, QuietInvariant, PTL DEF QuietSpec

-----------------------------------------------------------------------------
(* Leases.  Only three kinds of step take a running row from the process that
   works on it: the reclaim of an expired lease, a cancellation, and a step of
   a process with the same worker_id, which is the process itself. *)
LEMMA LeaseStep ==
    ASSUME DistinctOwners, QuietInv, [Next]_vars, NEW w \in Worker,
           worker[w].pc # "polling", worker'[w] = worker[w],
           Owned(row[worker[w].job], w), ~Owned(row'[worker[w].job], w)
    PROVE  \/ ~row[worker[w].job].leased
           \/ row'[worker[w].job].state = "cancelled" /\ worker[w].job \in cancelling
<1> DEFINE j == worker[w].job
<1>0. RowsGood /\ WorkersGood /\ j \in Job /\ row[j] \in Row
  BY AttemptInvParts DEF QuietInv, RowsGood, WorkersGood, ProcessGood
<1>1. row'[j] # row[j]
  BY DEF Owned
<1>2. CASE \E v \in Worker : WorkerStep(v)
  <2>1. PICK v \in Worker : WorkerStep(v)
    BY <1>2
  <2>2. ASSUME NEW stale \in SUBSET ExpiredJobs, row[j].leased
        PROVE  Swept(stale)[j] = row[j] /\ Swept(stale)[j].state \notin Claimable
    BY <1>0, <2>2 DEF Swept, ExpiredJobs, Expired, Owned, Claimable
  <2>3. ASSUME NEW stale \in SUBSET ExpiredJobs,
               Sweep(v, stale) \/ \E k \in Job : Claim(v, k, stale)
        PROVE  ~row[j].leased
    <3>1. SUFFICES ASSUME row[j].leased PROVE FALSE
      BY <1>0 DEF Row
    <3>2. CASE Sweep(v, stale)
      BY <1>1, <2>2, <3>1, <3>2 DEF Sweep
    <3>3. ASSUME NEW k \in Job, Claim(v, k, stale) PROVE FALSE
      <4>1. k # j
        BY <2>2, <3>1, <3>3 DEF Claim
      <4>2. row' = [Swept(stale) EXCEPT ![k] = Claimed(Swept(stale)[k], v)]
        BY <3>3 DEF Claim
      <4>3. row'[j] = Swept(stale)[j]
        BY <1>0, <4>1, <4>2 DEF Swept
      <4> QED BY <1>1, <2>2, <3>1, <4>3
    <3> QED BY <2>3, <3>2, <3>3
  <2>4. ~Heartbeat(v)
    BY <1>0, <1>1 DEF Heartbeat, Owned, RowsGood, Row
  <2>5. ~HandlerEnds(v)
    <3>1. SUFFICES ASSUME HandlerEnds(v) PROVE FALSE
      OBVIOUS
    <3>2. row'[j] = row[j]
      BY <1>0, <1>1, <3>1, HandlerOutbox DEF Owned
    <3> QED BY <1>1, <3>2 DEF Owned
  <2>6. ~ReadRow(v) /\ ~Abandon(v)
    BY <1>1 DEF ReadRow, Abandon
  <2>7. ~Settle(v)
    <3>1. SUFFICES ASSUME Settle(v) PROVE FALSE
      OBVIOUS
    <3>2. worker[v].job = j /\ Owned(row[j], v)
      BY <1>0, <1>1, <3>1 DEF Settle, QuietInv, OwnedWhileSettling, RowsGood
    <3>3. v = w
      BY <3>2 DEF Owned, DistinctOwners
    <3> QED BY <1>0, <3>1, <3>3 DEF Settle, Polling, WorkersGood
  <2>8. ~Drain(v)
    <3>1. SUFFICES ASSUME Drain(v) PROVE FALSE
      OBVIOUS
    <3>2. Owned(row[j], v)
      BY <1>0, <1>1, <3>1 DEF Drain, RowsGood
    <3>3. v = w
      BY <3>2 DEF Owned, DistinctOwners
    <3> QED BY <1>0, <3>1, <3>3 DEF Drain, Polling, WorkersGood
  <2> QED BY <2>1, <2>3, <2>4, <2>5, <2>6, <2>7, <2>8 DEF WorkerStep, RunOnce
<1>3. CASE \E k \in Job : JobStep(k)
  <2>1. PICK k \in Job : JobStep(k)
    BY <1>3
  <2>2. ~Enqueue(k) /\ ~BackoffElapses(k) /\ ~GcTerminal(k)
    BY <1>0, <1>1, NoRowGood DEF Enqueue, Enqueued, BackoffElapses, GcTerminal,
       Owned, Claimable, Terminal, RowsGood
  <2>3. ~LeaseExpires(k)
    BY <1>0, <1>1 DEF LeaseExpires, Owned, RowsGood, Row
  <2>4. CancelWrite(k) => row'[j].state = "cancelled" /\ j \in cancelling
    BY <1>0, <1>1 DEF CancelWrite, RowsGood, Row
  <2> QED BY <1>1, <2>1, <2>2, <2>3, <2>4 DEF JobStep, CancelRead, CancelAborts
<1>4. CASE UNCHANGED vars
  BY <1>1, <1>4 DEF vars
<1> QED BY <1>2, <1>3, <1>4 DEF Next

(* While its lease is current, a delivery is taken from its worker only by a
   cancellation that had read the row before it was claimed. *)
THEOREM LeaseProtects == DistinctOwners => (QuietSpec => LeaseProtectsDelivery)
<1> SUFFICES ASSUME DistinctOwners PROVE QuietSpec => LeaseProtectsDelivery
  OBVIOUS
<1>1. QuietInv /\ [Next /\ QuietSettle]_vars => [TakenLawfully]_vars
  BY LeaseStep DEF TakenLawfully
<1> QED BY <1>1, QuietInvariant, PTL DEF QuietSpec, LeaseProtectsDelivery

-----------------------------------------------------------------------------
(* Attended leases.  When a lease lapses only under a job nobody beats for, a
   worker that is at a job holds its row, and so it is alone with it. *)
AliveInv ==
    \A w \in Worker : worker[w].pc # "polling" =>
        /\ Owned(row[worker[w].job], w)
        /\ row[worker[w].job].leased
        /\ worker[w].beating

AttendedStep == \A j \in Job : LeaseExpires(j) => Unattended(j)

(* No step touches the row of a worker at its job but that worker's last. *)
LEMMA HeldStep ==
    ASSUME DistinctOwners, AttemptInv, AppliedInv, AliveInv, [Next]_vars,
           AttendedStep, cancelling = {}, NEW w \in Worker, worker[w].pc # "polling"
    PROVE  \/ worker'[w] = Polling
           \/ /\ row'[worker[w].job] = row[worker[w].job]
              /\ worker'[w].job = worker[w].job
              /\ worker'[w].beating
              /\ worker'[w].pc # "polling"
<1> DEFINE j == worker[w].job
           Kept == /\ row'[j] = row[j]
                   /\ worker'[w].job = j /\ worker'[w].beating
                   /\ worker'[w].pc # "polling"
<1>0. RowsGood /\ WorkersGood /\ j \in Job /\ row[j] \in Row /\ worker[w] \in Process
  BY AttemptInvParts DEF RowsGood, WorkersGood, ProcessGood
<1>1. /\ row[j].state = "running" /\ row[j].lockedBy = OwnerOf[w]
      /\ row[j].leased /\ worker[w].beating
  BY DEF AliveInv, Owned
<1>2. QuietInv
  BY DEF QuietInv, OwnedWhileSettling, AliveInv
<1>3. ASSUME NEW v \in Worker, Owned(row[j], v) PROVE v = w
  BY <1>1, <1>3 DEF Owned, DistinctOwners
<1>4. ASSUME NEW v \in Worker, WorkerStep(v)
      PROVE  worker'[w] = Polling \/ Kept
  <2>1. ASSUME NEW stale \in SUBSET ExpiredJobs
        PROVE  Swept(stale)[j] = row[j]
    BY <1>0, <1>1, <2>1 DEF Swept, ExpiredJobs, Expired
  <2>2. CASE RunOnce(v)
    <3>1. PICK stale \in SUBSET ExpiredJobs :
                 Sweep(v, stale) \/ \E k \in Job : Claim(v, k, stale)
      BY <2>2 DEF RunOnce
    <3>2. CASE Sweep(v, stale)
      BY <1>1, <2>1, <3>2 DEF Sweep
    <3>3. ASSUME NEW k \in Job, Claim(v, k, stale) PROVE Kept
      <4>1. k # j
        BY <1>1, <2>1, <3>3 DEF Claim, Claimable
      <4>2. row' = [Swept(stale) EXCEPT ![k] = Claimed(Swept(stale)[k], v)]
        BY <3>3 DEF Claim
      <4>3. row'[j] = row[j]
        BY <1>0, <2>1, <4>1, <4>2 DEF Swept
      <4>4. worker'[w] = worker[w]
        BY <1>0, <3>3 DEF Claim, WorkersGood
      <4> QED BY <1>1, <4>3, <4>4
    <3> QED BY <3>1, <3>2, <3>3
  <2>3. CASE Heartbeat(v)
    <3> DEFINE k == worker[v].job
    <3>a. Owned(row[k], v) /\ row[k].leased /\ k \in Job /\ row[k] \in Row
      BY <1>0, <2>3 DEF Heartbeat, AliveInv, RowsGood, WorkersGood, ProcessGood
    <3>b. row' = [row EXCEPT ![k].leased = TRUE]
      BY <2>3, <3>a DEF Heartbeat
    <3>c. [row[k] EXCEPT !.leased = TRUE] = row[k]
      BY <3>a DEF Row
    <3>1. row'[j] = row[j]
      BY <1>0, <3>a, <3>b, <3>c DEF RowsGood
    <3>2. worker'[w].job = j /\ worker'[w].beating /\ worker'[w].pc = worker[w].pc
      BY <1>0, <1>1, <2>3 DEF Heartbeat, AliveInv, WorkersGood, Process
    <3> QED BY <3>1, <3>2
  <2>4. CASE HandlerEnds(v)
    <3>1. row'[j] = row[j]
      BY <1>0, <1>1, <2>4, HandlerOutbox
    <3>2. PICK verdict : worker' = [worker EXCEPT ![v].pc = "reporting",
                                                  ![v].verdict = verdict]
      BY <2>4 DEF HandlerEnds, HandlerCommits, HandlerFails,
         HandlerCommitUnacknowledged
    <3>3. worker'[w].job = j /\ worker'[w].beating /\ worker'[w].pc # "polling"
      BY <1>0, <1>1, <3>2 DEF WorkersGood, Process
    <3> QED BY <3>1, <3>3
  <2>5. CASE ReadRow(v)
    BY <1>0, <1>1, <2>5 DEF ReadRow, WorkersGood, Process
  <2>6. CASE Settle(v)
    <3>1. CASE worker[v].job = j
      <4>1. v = w
        BY <1>3, <2>6, <3>1 DEF Settle, AliveInv
      <4> QED BY <1>0, <2>6, <4>1 DEF Settle, WorkersGood
    <3>2. CASE worker[v].job # j
      <4>1. v # w
        BY <3>2
      <4> QED BY <1>0, <1>1, <2>6, <3>2, <4>1 DEF Settle, WorkersGood, RowsGood
    <3> QED BY <3>1, <3>2
  <2>7. CASE Abandon(v)
    BY <1>0, <1>1, <2>7 DEF Abandon, WorkersGood
  <2>8. CASE Drain(v)
    <3>1. CASE v = w
      BY <1>0, <2>8, <3>1 DEF Drain, WorkersGood
    <3>2. CASE v # w
      BY <1>0, <1>1, <1>3, <2>8, <3>2 DEF Drain, WorkersGood
    <3> QED BY <3>1, <3>2
  <2> QED BY <1>4, <2>2, <2>3, <2>4, <2>5, <2>6, <2>7, <2>8 DEF WorkerStep
<1>5. ASSUME NEW k \in Job, JobStep(k)
      PROVE  Kept
  <2>1. worker' = worker
    BY <1>5 DEF JobStep, Enqueue, LeaseExpires, BackoffElapses, CancelRead,
       CancelWrite, CancelAborts, GcTerminal
  <2>2. CASE LeaseExpires(k)
    <3>1. k # j
      BY <1>1, <2>2 DEF AttendedStep, Unattended
    <3> QED BY <1>0, <1>1, <2>1, <2>2, <3>1 DEF LeaseExpires, RowsGood
  <2>3. CASE Enqueue(k) \/ BackoffElapses(k) \/ CancelRead(k) \/ CancelAborts(k)
    BY <1>0, <1>1, <2>1, <2>3 DEF Enqueue, Enqueued, BackoffElapses, CancelRead,
       CancelAborts, Claimable, RowsGood
  <2>4. CASE GcTerminal(k)
    BY <1>0, <1>1, <2>1, <2>4 DEF GcTerminal, Terminal, RowsGood
  <2>5. ~CancelWrite(k)
    BY DEF CancelWrite
  <2> QED BY <1>5, <2>2, <2>3, <2>4, <2>5 DEF JobStep
<1>6. CASE UNCHANGED vars
  BY <1>1, <1>6 DEF vars
<1> QED BY <1>4, <1>5, <1>6 DEF Next

(* Whoever begins to work on a job has just claimed its row. *)
LEMMA PollingStep ==
    ASSUME AttemptInv, [Next]_vars, NEW w \in Worker,
           worker[w].pc = "polling", worker'[w].pc # "polling"
    PROVE  /\ Owned(row'[worker'[w].job], w)
           /\ row'[worker'[w].job].leased
           /\ worker'[w].beating
<1>0. RowsGood /\ WorkersGood /\ worker'[w] # worker[w]
  BY AttemptInvParts
<1>1. PICK v \in Worker : WorkerStep(v)
  BY <1>0 DEF vars, Next, JobStep, Enqueue, LeaseExpires, BackoffElapses, CancelRead,
     CancelWrite, CancelAborts, GcTerminal
<1>2. v = w
  <2>1. HandlerEnds(v) => worker'[w] = worker[w] \/ v = w
    BY <1>0, HandlerReports
  <2>2. ~HandlerEnds(v) => worker'[w] = worker[w] \/ v = w
    <3>1. CASE RunOnce(v)
      <4>1. PICK stale \in SUBSET ExpiredJobs :
                   Sweep(v, stale) \/ \E j \in Job : Claim(v, j, stale)
        BY <3>1 DEF RunOnce
      <4>2. CASE Sweep(v, stale)
        BY <4>2 DEF Sweep
      <4>3. ASSUME NEW j \in Job, Claim(v, j, stale)
            PROVE  worker'[w] = worker[w] \/ v = w
        BY <1>0, <4>3 DEF Claim, WorkersGood
      <4> QED BY <4>1, <4>2, <4>3
    <3>2. CASE Heartbeat(v) \/ ReadRow(v)
      BY <1>0, <3>2 DEF Heartbeat, ReadRow, WorkersGood
    <3>3. CASE Settle(v) \/ Abandon(v) \/ Drain(v)
      <4>1. worker' = [worker EXCEPT ![v] = Polling]
        BY <3>3 DEF Settle, Abandon, Drain
      <4> QED BY <1>0, <4>1 DEF WorkersGood
    <3> QED BY <1>1, <3>1, <3>2, <3>3 DEF WorkerStep
  <2> QED BY <1>0, <2>1, <2>2
<1>3. PICK stale \in SUBSET ExpiredJobs :
             Sweep(w, stale) \/ \E j \in Job : Claim(w, j, stale)
  <2>1. ~HandlerEnds(w)
    BY <1>0, HandlerReports
  <2>2. ~Drain(w) /\ ~Heartbeat(w) /\ ~ReadRow(w) /\ ~Settle(w) /\ ~Abandon(w)
    BY <1>0 DEF Heartbeat, ReadRow, Settle, Abandon, Drain, Polling, WorkersGood
  <2> QED BY <1>1, <1>2, <2>1, <2>2 DEF WorkerStep, RunOnce
<1>4. PICK j \in Job : Claim(w, j, stale)
  BY <1>0, <1>3 DEF Sweep
<1>5. worker'[w].job = j /\ worker'[w].beating
  BY <1>0, <1>4 DEF Claim, Polling, WorkersGood
<1>6. row'[j] = Claimed(Swept(stale)[j], w) /\ Swept(stale)[j] \in Row
  BY <1>0, <1>4, SweptGood DEF Claim
<1>7. \A r \in Row : /\ Claimed(r, w).state = "running"
                     /\ Claimed(r, w).lockedBy = OwnerOf[w]
                     /\ Claimed(r, w).leased
  BY DEF Claimed, Row
<1> QED BY <1>5, <1>6, <1>7 DEF Owned

LEMMA AliveStep ==
    ASSUME DistinctOwners, AttemptInv, AppliedInv, AliveInv, [Next]_vars,
           AttendedStep, cancelling = {}
    PROVE  AliveInv' /\ QuietSettle
<1>1. QuietSettle
  <2> SUFFICES ASSUME NEW w \in Worker, worker[w].pc = "settling",
                      worker'[w] = worker[w]
               PROVE  row'[worker[w].job] = row[worker[w].job]
    BY DEF QuietSettle
  <2> QED BY HeldStep DEF Polling
<1>2. AliveInv'
  <2> SUFFICES ASSUME NEW w \in Worker, worker'[w].pc # "polling"
               PROVE  /\ Owned(row'[worker'[w].job], w)
                      /\ row'[worker'[w].job].leased
                      /\ worker'[w].beating
    BY DEF AliveInv, Owned
  <2>1. CASE worker[w].pc = "polling"
    BY <2>1, PollingStep
  <2>2. CASE worker[w].pc # "polling"
    BY <2>2, HeldStep DEF Polling, AliveInv
  <2> QED BY <2>1, <2>2
<1> QED BY <1>1, <1>2

-----------------------------------------------------------------------------
(* Refinement.  A row shows a producer its status; every step of the queue is
   a step of JobDelivery or changes neither a status nor applied. *)
Status(r) == IF r.state \in Deliverable THEN "pending" ELSE r.state

LEMMA StatusOfRows ==
    /\ DeliveryStatus = [j \in Job |-> Status(row[j])]
    /\ DeliveryStatus' = [j \in Job |-> Status(row'[j])]
BY DEF DeliveryStatus, Status, Deliverable

(* Reclaiming leases gives up on the jobs with no attempt left, and on those
   only. *)
LEMMA SweepGivesUp ==
    ASSUME RowsGood, NEW stale \in SUBSET ExpiredJobs, UNCHANGED applied,
           \A j \in Job : Status(row'[j]) = Status(Swept(stale)[j])
    PROVE  \E jobs \in SUBSET Job : Delivery!GiveUp(jobs)
<1> DEFINE jobs == {j \in stale : Swept(stale)[j].state = "dead_letter"}
<1>1. \A j \in stale : j \in Job /\ row[j] \in Row /\ Status(row[j]) = "pending"
  BY DEF ExpiredJobs, Expired, Status, Deliverable, RowsGood
<1>2. \A j \in stale : Swept(stale)[j].state \in {"dead_letter", "queued"}
  BY <1>1, StatesOfTransitions DEF Swept
<1>3. \A j \in Job : Status(row'[j]) = IF j \in jobs THEN "dead_letter"
                                                    ELSE Status(row[j])
  <2>1. ASSUME NEW j \in Job, j \notin stale
        PROVE  Status(row'[j]) = Status(row[j]) /\ j \notin jobs
    BY <2>1 DEF Swept
  <2>2. ASSUME NEW j \in stale
        PROVE  Status(row'[j]) = IF j \in jobs THEN "dead_letter" ELSE "pending"
    BY <1>1, <1>2 DEF Status, Deliverable, Claimable
  <2> QED BY <1>1, <2>1, <2>2
<1>4. jobs \in SUBSET Job
  BY <1>1
<1>5. \A j \in jobs : DeliveryStatus[j] = "pending"
  BY <1>1, StatusOfRows
<1> HIDE DEF jobs
<1>6. DeliveryStatus' = [j \in Job |-> IF j \in jobs THEN "dead_letter"
                                                   ELSE DeliveryStatus[j]]
  BY <1>3, StatusOfRows
<1> QED BY <1>4, <1>5, <1>6 DEF Delivery!GiveUp

LEMMA StutterIfStatusKept ==
    ASSUME \A j \in Job : Status(row'[j]) = Status(row[j]), UNCHANGED applied
    PROVE  UNCHANGED Delivery!vars
BY StatusOfRows DEF Delivery!vars

LEMMA DeliveryStep ==
    ASSUME QuietInv, [Next /\ QuietSettle]_vars
    PROVE  [Delivery!Next]_(Delivery!vars)
<1>0. RowsGood /\ WorkersGood /\ cancelling \subseteq Job /\ AppliedInv
  BY AttemptInvParts DEF QuietInv
<1>1. ASSUME NEW w \in Worker, RunOnce(w)
      PROVE  Delivery!Next
  <2>1. PICK stale \in SUBSET ExpiredJobs :
               Sweep(w, stale) \/ \E j \in Job : Claim(w, j, stale)
    BY <1>1 DEF RunOnce
  <2>2. Swept(stale) \in [Job -> Row]
    BY <1>0, SweptGood
  <2>3. \A j \in Job : Status(row'[j]) = Status(Swept(stale)[j])
    <3>1. CASE Sweep(w, stale)
      BY <3>1 DEF Sweep
    <3>2. ASSUME NEW k \in Job, Claim(w, k, stale)
          PROVE  \A j \in Job : Status(row'[j]) = Status(Swept(stale)[j])
      <4> DEFINE rows == Swept(stale)
      <4>1. rows[k].state \in Claimable /\ row' = [rows EXCEPT ![k] = Claimed(rows[k], w)]
        BY <3>2 DEF Claim
      <4>2. Claimed(rows[k], w).state = "running"
        BY <2>2 DEF Claimed, Row
      <4> QED BY <2>2, <4>1, <4>2 DEF Status, Deliverable
    <3> QED BY <2>1, <3>1, <3>2
  <2>4. UNCHANGED applied
    BY <2>1 DEF Sweep, Claim
  <2> QED BY <1>0, <2>3, <2>4, SweepGivesUp DEF Delivery!Next
<1>2. ASSUME NEW w \in Worker, Heartbeat(w)
      PROVE  UNCHANGED Delivery!vars
  <2>1. /\ \A j \in Job : row'[j].state = row[j].state
        /\ UNCHANGED applied
    BY <1>0, <1>2 DEF Heartbeat, RowsGood, Row
  <2> QED BY <2>1, StutterIfStatusKept DEF Status
<1>3. ASSUME NEW w \in Worker, HandlerEnds(w)
      PROVE  [Delivery!Next]_(Delivery!vars)
  <2> DEFINE j == worker[w].job
  <2>2. PICK outbox \in SUBSET Job :
              /\ \A k \in outbox : row[k].state = "absent" /\ row'[k].state = "queued"
              /\ \A k \in Job \ outbox : row'[k] = row[k]
              /\ \/ applied' = applied \ outbox
                 \/ applied' = (applied \ outbox) \cup {j}
    BY <1>0, <1>3, HandlerOutbox
  <2>3. j \in Job /\ row[j].state # "absent"
    BY <1>0, <1>3 DEF HandlerEnds, HandlerCommits, HandlerCommitUnacknowledged,
       HandlerFails, WorkersGood, ProcessGood, AppliedInv, NothingOutlivesRow
  <2>4. /\ \A k \in outbox : DeliveryStatus[k] = "absent"
        /\ DeliveryStatus' = Delivery!Submitted(outbox)
    BY <2>2, StatusOfRows DEF Delivery!Submitted, Status, Deliverable, Claimable
  <2>5. CASE applied' = (applied \ outbox) \cup {j}
    <3>1. DeliveryStatus[j] # "absent"
      BY <2>3, StatusOfRows DEF Status
    <3>2. Delivery!Apply(j, outbox)
      BY <2>4, <2>5, <3>1 DEF Delivery!Apply
    <3> QED BY <2>3, <3>2 DEF Delivery!Next
  <2>6. CASE applied' = applied \ outbox /\ outbox # {}
    <3>1. Delivery!Submit(outbox)
      BY <2>4, <2>6 DEF Delivery!Submit
    <3> QED BY <3>1 DEF Delivery!Next
  <2>7. CASE applied' = applied \ outbox /\ outbox = {}
    BY <2>2, <2>7, StutterIfStatusKept
  <2> QED BY <2>2, <2>5, <2>6, <2>7
<1>4. ASSUME NEW w \in Worker, ReadRow(w) \/ Abandon(w)
      PROVE  UNCHANGED Delivery!vars
  BY <1>4, StutterIfStatusKept DEF ReadRow, Abandon
<1>5. ASSUME NEW w \in Worker, Settle(w)
      PROVE  [Delivery!Next]_(Delivery!vars)
  <2> DEFINE j == worker[w].job
             f == SettledRow(w)
  <2>1. /\ j \in Job /\ row[j] \in Row
        /\ worker[w].seen \in Nat
        /\ Status(row[j]) = "pending"
        /\ worker[w].verdict = "ok" => j \in applied
    BY <1>0, <1>5, AttemptsAssumption
       DEF Settle, WorkersGood, ProcessGood, Process, RowsGood, QuietInv,
           OwnedWhileSettling, Owned, Status, Deliverable, AppliedInv, OkMeansApplied
  <2>2. \/ f.state = "succeeded" /\ j \in applied
        \/ f.state = "dead_letter"
        \/ f.state = "retry_scheduled"
    BY <2>1, StatesOfTransitions DEF SettledRow
  <2>3. row' = [row EXCEPT ![j] = f] /\ UNCHANGED applied
    BY <1>5 DEF Settle
  <2> HIDE DEF f
  <2>4. /\ DeliveryStatus[j] = "pending"
        /\ DeliveryStatus' = [DeliveryStatus EXCEPT ![j] = Status(f)]
    BY <1>0, <2>1, <2>3, StatusOfRows DEF RowsGood
  <2>5. CASE f.state = "succeeded" /\ j \in applied
    <3>1. Delivery!Succeed(j)
      BY <2>3, <2>4, <2>5 DEF Delivery!Succeed, Status, Deliverable, Claimable
    <3> QED BY <2>1, <3>1 DEF Delivery!Next
  <2>6. CASE f.state = "dead_letter"
    <3>1. Delivery!GiveUp({j})
      BY <2>3, <2>4, <2>6, StatusOfRows
         DEF Delivery!GiveUp, Status, Deliverable, Claimable
    <3> QED BY <2>1, <3>1 DEF Delivery!Next
  <2>7. CASE f.state = "retry_scheduled"
    BY <2>3, <2>4, <2>7, StatusOfRows
       DEF Delivery!vars, Status, Deliverable, Claimable
  <2> QED BY <2>2, <2>5, <2>6, <2>7
<1>6. ASSUME NEW w \in Worker, Drain(w)
      PROVE  UNCHANGED Delivery!vars
  <2>1. \A j \in Job : [Released(row[j]) EXCEPT !.state = "queued"].state = "queued"
    BY <1>0, ReleasedOK DEF RowsGood, Row
  <2>2. \A j \in Job : \/ row'[j] = row[j]
                       \/ row[j].state = "running" /\ row'[j].state = "queued"
    BY <1>6, <2>1 DEF Drain, Owned
  <2>3. \A j \in Job : Status(row'[j]) = Status(row[j])
    BY <2>2 DEF Status, Deliverable, Claimable
  <2> QED BY <1>6, <2>3, StutterIfStatusKept DEF Drain
<1>7. ASSUME NEW j \in Job, JobStep(j)
      PROVE  [Delivery!Next]_(Delivery!vars)
  <2>1. CASE Enqueue(j)
    <3>1. \A due \in BOOLEAN : [FreshRow EXCEPT !.due = due].state = "queued"
      BY DEF FreshRow, NoRow
    <3>2. /\ row[j].state = "absent" /\ row'[j].state = "queued"
          /\ \A k \in Job \ {j} : row'[k] = row[k]
          /\ applied' = applied \ {j}
      BY <2>1, <3>1 DEF Enqueue, Enqueued
    <3>3. Delivery!Submit({j})
      BY <3>2, StatusOfRows DEF Delivery!Submit, Delivery!Submitted, Status,
                                Deliverable, Claimable
    <3> QED BY <3>3 DEF Delivery!Next
  <2>2. CASE LeaseExpires(j) \/ BackoffElapses(j)
    <3>1. /\ \A k \in Job : row'[k].state = row[k].state
          /\ UNCHANGED applied
      BY <1>0, <2>2 DEF LeaseExpires, BackoffElapses, RowsGood, Row
    <3> QED BY <3>1, StutterIfStatusKept DEF Status
  <2>3. CASE CancelRead(j) \/ CancelAborts(j)
    BY <2>3, StutterIfStatusKept DEF CancelRead, CancelAborts
  <2>4. CASE CancelWrite(j)
    <3>1. /\ row[j].state # "absent"
          /\ row'[j].state = "cancelled"
          /\ \A k \in Job \ {j} : row'[k] = row[k]
          /\ UNCHANGED applied
      BY <1>0, <2>4 DEF CancelWrite, RowsGood, Row, AppliedInv, NothingOutlivesRow
    <3>2. Delivery!Cancel(j)
      BY <3>1, StatusOfRows DEF Delivery!Cancel, Status, Deliverable, Claimable
    <3> QED BY <3>2 DEF Delivery!Next
  <2>5. CASE GcTerminal(j)
    <3>1. /\ row[j].state \in Terminal
          /\ row'[j].state = "absent"
          /\ \A k \in Job \ {j} : row'[k] = row[k]
          /\ UNCHANGED applied
      BY <1>0, <2>5 DEF GcTerminal, NoRow, RowsGood
    <3>2. Delivery!Forget(j)
      BY <3>1, StatusOfRows DEF Delivery!Forget, Delivery!Verdicts, Terminal,
                                Status, Deliverable, Claimable
    <3> QED BY <3>2 DEF Delivery!Next
  <2> QED BY <1>7, <2>1, <2>2, <2>3, <2>4, <2>5 DEF JobStep
<1>8. CASE UNCHANGED vars
  BY <1>8, StutterIfStatusKept DEF vars
<1> QED BY <1>1, <1>2, <1>3, <1>4, <1>5, <1>6, <1>7, <1>8 DEF Next, WorkerStep

(* The queue implements the delivery promise, for any numbers of jobs and
   workers and any attempt bound, while its settle windows stay quiet. *)
THEOREM ImplementsDelivery == QuietSpec => KeepsDeliveryPromise
<1>1. Init => Delivery!Init
  BY StatusOfRows DEF Init, Delivery!Init, Status, Deliverable, Claimable, NoRow
<1>2. QuietInv /\ [Next /\ QuietSettle]_vars => [Delivery!Next]_(Delivery!vars)
  BY DeliveryStep
<1> QED BY <1>1, <1>2, QuietInvariant, PTL
        DEF QuietSpec, KeepsDeliveryPromise, Delivery!Spec
=============================================================================
