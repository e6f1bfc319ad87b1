--------------------------- MODULE UpstreamLedger ---------------------------
(***************************************************************************)
(* The synchronization of one official source: its attempts, one per       *)
(* trigger (official_upstream/ledger.py, enqueue.py), the handler that     *)
(* fetches the source and starts a publication (sync.py), the publication  *)
(* pipeline as far as it reports back to the attempts                      *)
(* (publication_logic.py), the transfer of the catalog line to another     *)
(* account (catalog_transfer.py) and the manifest (manifest.py).           *)
(*                                                                         *)
(* The jobs are those of JobQueue: the attempt of trigger j is delivered   *)
(* by the job with the idempotency key j.  A transaction that keeps a row  *)
(* lock while it waits, or that writes what it has read without a lock, is *)
(* two actions or more, and a variable holds what it has read and locked:  *)
(*   syncing       handler runs, which lock the source and the identity;   *)
(*   recording     the mapping of queue outcomes to attempts, by the poll  *)
(*                 or by the settlement of a job;                          *)
(*   closing       the pipeline's verdict on a plan;                       *)
(*   transferring  the transfer, which locks the source and the identity;  *)
(*   passing       the pass of a day, which locks the source.              *)
(* An attempt and its outbox row are created and dispatched in one         *)
(* transaction, so nobody sees a pending outbox or a desired attempt, and  *)
(* "resolving" never leaves the handler's transaction.                     *)
(***************************************************************************)
EXTENDS JobQueue

CONSTANTS
    Daily,          \* the triggers that are days; the others are manual
    Plan,           \* publication plans, each with a version of its own
    Content,        \* what the upstream may hold
    NoPlan,
    NoContent

ASSUME DailyAssumption == Daily \subseteq Job
ASSUME NoneAssumption  == NoPlan \notin Plan /\ NoContent \notin Content

VARIABLES
    source,         \* inventory_state of the source
    owner,          \* the owner of the catalog line
    attempt,        \* official_upstream_sync, by trigger
    plan,           \* the publication plans of the official account
    catalog,        \* the plans whose version is in the catalog
    syncing, recording, closing, transferring, passing

ledgerVars == <<source, owner, attempt, plan, catalog>>
upVars == <<vars, ledgerVars, syncing, recording, closing, transferring,
            passing>>

-----------------------------------------------------------------------------
Pending == {"queued", "retry_wait"}

(* _SETTLED_ATTEMPT: what a queue outcome must not overwrite. *)
SettledAttempt == {"unchanged", "published", "cancelled_transferred",
                   "failed_permanent"}

(* _TERMINAL_ATTEMPTS: what a transfer leaves alone. *)
TerminalAttempt == SettledAttempt \cup {"dead_lettered"}

AttemptState == {"absent", "publishing"} \cup Pending \cup TerminalAttempt

Attempt == [state : AttemptState, plan : Plan \cup {NoPlan}]

PlanRow == [state   : {"absent", "open", "published", "failed"},
            content : Content \cup {NoContent}]

Syncing == [step : {"idle", "fencing", "resolving", "joining"},
            plan : Plan \cup {NoPlan}]
Recording == [rows : SUBSET Job,
              outcome : [Job -> {"none", "retry_wait", "dead_lettered"}]]
Closing == [step : {"none", "publishing", "refusing"},
            attempts : SUBSET Job]
Transferring == [open : BOOLEAN, attempts : SUBSET Job]
Passing == [job : Job \cup {NoJob}, state : AttemptState]

NotSyncing == [step |-> "idle", plan |-> NoPlan]
NotRecording == [rows |-> {}, outcome |-> [j \in Job |-> "none"]]
NotClosing == [step |-> "none", attempts |-> {}]
NotTransferring == [open |-> FALSE, attempts |-> {}]
NotPassing == [job |-> NoJob, state |-> "absent"]

UpTypeOK == /\ TypeOK
            /\ source \in {"enabled", "paused", "transferred"}
            /\ owner \in {"official", "recipient"}
            /\ attempt \in [Job -> Attempt]
            /\ plan \in [Plan -> PlanRow]
            /\ catalog \subseteq Plan
            /\ syncing \in [Worker -> Syncing]
            /\ recording \in [Worker -> Recording]
            /\ closing \in [Plan -> Closing]
            /\ transferring \in Transferring
            /\ passing \in Passing

UpInit == /\ Init
          /\ source = "enabled"
          /\ owner = "official"
          /\ attempt = [j \in Job |-> [state |-> "absent", plan |-> NoPlan]]
          /\ plan = [p \in Plan |-> [state |-> "absent", content |-> NoContent]]
          /\ catalog = {}
          /\ syncing = [w \in Worker |-> NotSyncing]
          /\ recording = [w \in Worker |-> NotRecording]
          /\ closing = [p \in Plan |-> NotClosing]
          /\ transferring = NotTransferring
          /\ passing = NotPassing

-----------------------------------------------------------------------------
(* Row locks. *)

(* A handler run that passed its fence. *)
InSync(w) == syncing[w].step \in {"resolving", "joining"}

(* SELECT ... FOR UPDATE on the source. *)
SourceFree == /\ ~transferring.open
              /\ passing.job = NoJob
              /\ \A w \in Worker : ~InSync(w)

(* SELECT ... FOR UPDATE on the catalog identity. *)
IdentityFree == /\ ~transferring.open
                /\ \A w \in Worker : ~InSync(w)
                /\ \A p \in Plan : closing[p].step # "publishing"

(* A handler run that passed its fence has written its attempt. *)
AttemptsFree(js) == \A w \in Worker : InSync(w) => worker[w].job \notin js

(* A transaction that records queue outcomes holds the rows it has swept, or
   the row it settles; only the age of a lease may change beside it. *)
RowsLocked ==
    \A w \in Worker : recording'[w] = recording[w] =>
        \A j \in recording[w].rows :
            row'[j] \in {row[j], [row[j] EXCEPT !.leased = FALSE]}

-----------------------------------------------------------------------------
(* Scheduling. *)

(* enqueue_daily for a new trigger: attempt, outbox and job in one
   transaction, under the lock of the source.  Whether the source is enabled
   was decided before: the rows that _enabled_sources loaded are tested again
   after the wait for the lock, but not read again.  The source is enabled at
   first, so such a pass, which has waited ever since, may always exist. *)
Schedule(j) ==
    /\ attempt[j].state = "absent"
    /\ SourceFree
    /\ attempt' = [attempt EXCEPT ![j].state = "queued"]
    /\ Enqueue(j) /\ row'[j].due
    /\ UNCHANGED <<source, owner, plan, catalog, syncing, recording, closing,
                   transferring, passing>>

(* dispatch_outbox for an attempt that was dispatched before; its job exists. *)
Dispatched(s) == IF s = "retry_wait" THEN "queued" ELSE s

(* Defect: every plan that is settled counts as published. *)
ReconciledAsPublished(j) ==
    LET s == Dispatched(attempt[j].state)
        p == attempt[j].plan
    IN CASE /\ row[j].state = "dead_letter"
            /\ s \notin SettledAttempt -> "dead_lettered"
         [] /\ row[j].state = "succeeded"
            /\ s \in {"queued", "publishing"}
            /\ p # NoPlan /\ plan[p].state \in {"published", "failed"} -> "published"
         [] OTHER -> s

(* Defect: a refused plan is not looked for. *)
ReconciledPublishedOnly(j) ==
    LET s == Dispatched(attempt[j].state)
        p == attempt[j].plan
    IN CASE /\ row[j].state = "dead_letter"
            /\ s \notin SettledAttempt -> "dead_lettered"
         [] /\ row[j].state = "succeeded"
            /\ s \in {"queued", "publishing"}
            /\ p # NoPlan /\ plan[p].state = "published" -> "published"
         [] OTHER -> s

(* reconcile_delivery on an attempt whose job exists. *)
Reconciled(j) ==
    LET s == Dispatched(attempt[j].state)
        p == attempt[j].plan
    IN CASE /\ row[j].state = "dead_letter"
            /\ s \notin SettledAttempt -> "dead_lettered"
         [] /\ row[j].state = "succeeded"
            /\ s \in {"queued", "publishing"}
            /\ p # NoPlan /\ plan[p].state = "published" -> "published"
         [] /\ row[j].state = "succeeded"
            /\ s \in {"queued", "publishing"}
            /\ p # NoPlan /\ plan[p].state = "failed" -> "failed_permanent"
         [] OTHER -> s

(* The first poll of a day, and of a process: enqueue_daily, which dispatches
   the attempt again whatever became of the source, and reconcile_delivery,
   which finds only sources that are enabled.  They hold the source, but have
   read the attempt, its job and its plan without a lock when they write the
   attempt.  The sweep and the recording that end this transaction are steps of
   their own; the command of enqueue.py commits without them. *)
PassReads(j) ==
    LET s == IF source = "enabled" THEN Reconciled(j)
                                   ELSE Dispatched(attempt[j].state)
    IN /\ j \in Daily
       /\ attempt[j].state # "absent"
       /\ SourceFree
       /\ s # attempt[j].state
       /\ passing' = [job |-> j, state |-> s]
       /\ UNCHANGED <<vars, ledgerVars, syncing, recording, closing,
                      transferring>>

PassCommits ==
    /\ passing.job # NoJob
    /\ attempt' = [attempt EXCEPT ![passing.job].state = passing.state]
    /\ passing' = NotPassing
    /\ UNCHANGED <<vars, source, owner, plan, catalog, syncing, recording,
                   closing, transferring>>

PassAborts ==
    /\ passing.job # NoJob
    /\ passing' = NotPassing
    /\ UNCHANGED <<vars, ledgerVars, syncing, recording, closing,
                   transferring>>

(* reconcile_official_manifest locks every source before it reads any, and
   leaves a transferred one alone. *)
ManifestSets(state) ==
    /\ SourceFree
    /\ source # "transferred"
    /\ source # state
    /\ source' = state
    /\ UNCHANGED <<vars, owner, attempt, plan, catalog, syncing, recording,
                   closing, transferring, passing>>

-----------------------------------------------------------------------------
(* The handler, run_sync. *)

Runs(w, step) == worker[w].pc = "handling" /\ syncing[w].step = step

Commits(w) == /\ HandlerCommits(w, {}) \/ HandlerCommitUnacknowledged(w, {})
              /\ syncing' = [syncing EXCEPT ![w] = NotSyncing]

Answers(w, state, p) ==
    attempt' = [attempt EXCEPT ![worker[w].job] = [state |-> state, plan |-> p]]

(* The handler looks at the source before it waits for it. *)
SyncLooks(w) ==
    /\ Runs(w, "idle")
    /\ source = "enabled"
    /\ syncing' = [syncing EXCEPT ![w].step = "fencing"]
    /\ UNCHANGED <<vars, ledgerVars, recording, closing, transferring,
                   passing>>

SyncSkips(w) ==
    /\ Runs(w, "idle")
    /\ source # "enabled"
    /\ Commits(w)
    /\ UNCHANGED <<ledgerVars, recording, closing, transferring, passing>>

(* fence_attempt, which waited for the source, finds it paused or transferred. *)
SyncIsFenced(w) ==
    /\ Runs(w, "fencing")
    /\ SourceFree
    /\ source # "enabled"
    /\ attempt' = [attempt EXCEPT ![worker[w].job].state = "cancelled_transferred"]
    /\ Commits(w)
    /\ UNCHANGED <<source, owner, plan, catalog, recording, closing,
                   transferring, passing>>

(* The fence passes and keeps both locks until the handler's commit, which
   makes the fences after the fetch pass as well. *)
PassesFence(w) ==
    /\ Runs(w, "fencing")
    /\ SourceFree
    /\ IdentityFree
    /\ source = "enabled"
    /\ owner = "official"
    /\ syncing' = [syncing EXCEPT ![w].step = "resolving"]
    /\ UNCHANGED <<vars, ledgerVars, recording, closing, transferring,
                   passing>>

(* A deterministic failure of the fetch, or another repository's identity. *)
SyncRefuses(w) ==
    /\ Runs(w, "resolving")
    /\ Answers(w, "failed_permanent", NoPlan)
    /\ Commits(w)
    /\ UNCHANGED <<source, owner, plan, catalog, recording, closing,
                   transferring, passing>>

InCatalog(c) == \E p \in catalog : plan[p].content = c

OpenWith(c) == {p \in Plan : plan[p].state = "open" /\ plan[p].content = c}

SyncFindsPublished(w, c) ==
    /\ Runs(w, "resolving")
    /\ InCatalog(c)
    /\ Answers(w, "unchanged", NoPlan)
    /\ Commits(w)
    /\ UNCHANGED <<source, owner, plan, catalog, recording, closing,
                   transferring, passing>>

(* _start_publication returns a plan it has read as unsettled ... *)
SyncReuses(w, c) ==
    /\ Runs(w, "resolving")
    /\ ~InCatalog(c)
    /\ \E p \in OpenWith(c) :
          syncing' = [syncing EXCEPT ![w] = [step |-> "joining", plan |-> p]]
    /\ UNCHANGED <<vars, ledgerVars, recording, closing, transferring,
                   passing>>

(* ... and the attempt is bound to it, whatever became of it meanwhile. *)
SyncJoins(w) ==
    /\ Runs(w, "joining")
    /\ Answers(w, "publishing", syncing[w].plan)
    /\ Commits(w)
    /\ UNCHANGED <<source, owner, plan, catalog, recording, closing,
                   transferring, passing>>

(* Defect: an unsettled plan with the same content is not looked for. *)
SyncStartsAlways(w, p, c) ==
    /\ Runs(w, "resolving")
    /\ ~InCatalog(c)
    /\ plan[p].state = "absent"
    /\ plan' = [plan EXCEPT ![p] = [state |-> "open", content |-> c]]
    /\ Answers(w, "publishing", p)
    /\ Commits(w)
    /\ UNCHANGED <<source, owner, catalog, recording, closing, transferring,
                   passing>>

(* Defect: a refused plan is opened again for the new content. *)
SyncRestarts(w, p, c) ==
    /\ Runs(w, "resolving")
    /\ ~InCatalog(c)
    /\ OpenWith(c) = {}
    /\ plan[p].state \in {"absent", "failed"}
    /\ plan' = [plan EXCEPT ![p] = [state |-> "open", content |-> c]]
    /\ Answers(w, "publishing", p)
    /\ Commits(w)
    /\ UNCHANGED <<source, owner, catalog, recording, closing, transferring,
                   passing>>

(* Plan, attempt and validate job are written in one transaction. *)
SyncStarts(w, p, c) ==
    /\ Runs(w, "resolving")
    /\ ~InCatalog(c)
    /\ OpenWith(c) = {}
    /\ plan[p].state = "absent"
    /\ plan' = [plan EXCEPT ![p] = [state |-> "open", content |-> c]]
    /\ Answers(w, "publishing", p)
    /\ Commits(w)
    /\ UNCHANGED <<source, owner, catalog, recording, closing, transferring,
                   passing>>

(* Any other failure rolls the run back, the fence's and the ledger's writes
   included. *)
SyncRaises(w) ==
    /\ HandlerFails(w, "retry")
    /\ syncing' = [syncing EXCEPT ![w] = NotSyncing]
    /\ UNCHANGED <<ledgerVars, recording, closing, transferring, passing>>

-----------------------------------------------------------------------------
(* The publication pipeline, for the plans of the source. *)

Tells(js, state) ==
    attempt' = [j \in Job |-> IF j \in js THEN [attempt[j] EXCEPT !.state = state]
                                          ELSE attempt[j]]

AttemptsOf(p) == {j \in Job : attempt[j].plan = p}

(* A validation or a publication refuses p, and reads the attempts it has to
   tell; a replayed publication may refuse a published plan. *)
RefuseReads(p) ==
    /\ closing[p].step = "none"
    /\ plan[p].state \in {"open", "published"}
    /\ closing' = [closing EXCEPT ![p] = [step |-> "refusing",
                                          attempts |-> AttemptsOf(p)]]
    /\ UNCHANGED <<vars, ledgerVars, syncing, recording, transferring,
                   passing>>

RefuseCommits(p) ==
    /\ closing[p].step = "refusing"
    /\ AttemptsFree(closing[p].attempts)
    /\ plan' = [plan EXCEPT ![p].state = "failed"]
    /\ Tells(closing[p].attempts, "failed_permanent")
    /\ closing' = [closing EXCEPT ![p] = NotClosing]
    /\ UNCHANGED <<vars, source, owner, catalog, syncing, recording,
                   transferring, passing>>

(* Defect: the ownership is read without a lock. *)
AssertsUnlockedOwner(p) ==
    /\ closing[p].step = "none"
    /\ plan[p].state = "open"
    /\ owner = "official"
    /\ closing' = [closing EXCEPT ![p].step = "publishing"]
    /\ UNCHANGED <<vars, ledgerVars, syncing, recording, transferring,
                   passing>>

(* assert_publication_owner keeps the identity locked until the commit. *)
AssertsOwner(p) ==
    /\ closing[p].step = "none"
    /\ plan[p].state = "open"
    /\ IdentityFree
    /\ owner = "official"
    /\ closing' = [closing EXCEPT ![p].step = "publishing"]
    /\ UNCHANGED <<vars, ledgerVars, syncing, recording, transferring,
                   passing>>

PublishCommits(p) ==
    /\ closing[p].step = "publishing"
    /\ plan' = [plan EXCEPT ![p].state = "published"]
    /\ catalog' = catalog \cup {p}
    /\ Tells(AttemptsOf(p), "published")
    /\ closing' = [closing EXCEPT ![p] = NotClosing]
    /\ UNCHANGED <<vars, source, owner, syncing, recording, transferring,
                   passing>>

CloseAborts(p) ==
    /\ closing[p].step # "none"
    /\ closing' = [closing EXCEPT ![p] = NotClosing]
    /\ UNCHANGED <<vars, ledgerVars, syncing, recording, transferring,
                   passing>>

-----------------------------------------------------------------------------
(* The transfer, transfer_catalog_line. *)

TransferReads ==
    /\ SourceFree
    /\ IdentityFree
    /\ owner = "official"
    /\ transferring' =
          [open |-> TRUE,
           attempts |-> {j \in Job : attempt[j].state \notin
                                        TerminalAttempt \cup {"absent"}}]
    /\ cancelling' = {j \in Job : row[j].state \in Claimable}
    /\ UNCHANGED <<row, worker, applied, ledgerVars, syncing, recording,
                   closing, passing>>

TransferCommits ==
    /\ transferring.open
    /\ source' = "transferred"
    /\ owner' = "recipient"
    /\ Tells(transferring.attempts, "cancelled_transferred")
    /\ row' = [j \in Job |-> IF j \in cancelling
                             THEN [row[j] EXCEPT !.state = "cancelled"] ELSE row[j]]
    /\ cancelling' = {}
    /\ transferring' = NotTransferring
    /\ UNCHANGED <<worker, applied, plan, catalog, syncing, recording, closing,
                   passing>>

TransferAborts ==
    /\ transferring.open
    /\ cancelling' = {}
    /\ transferring' = NotTransferring
    /\ UNCHANGED <<row, worker, applied, ledgerVars, syncing, recording,
                   closing, passing>>

-----------------------------------------------------------------------------
(* Queue outcomes. *)

(* Defect: only scheduled retries are mapped. *)
OutcomeOfRetries(r, a) ==
    IF /\ r.state = "retry_scheduled"
       /\ a.state \notin SettledAttempt \cup {"absent", "retry_wait"}
    THEN "retry_wait" ELSE "none"

(* record_queue_outcome, for a job with row r and an attempt read as a. *)
OutcomeOf(r, a) ==
    LET told == IF r.state = "dead_letter" THEN "dead_lettered" ELSE "retry_wait"
    IN IF /\ r.state \in {"dead_letter", "retry_scheduled"}
          /\ a.state \notin SettledAttempt \cup {"absent", told}
       THEN told ELSE "none"

OutcomesOf(rows) == [j \in Job |-> OutcomeOf(rows[j], attempt[j])]

NoOutcomes == [j \in Job |-> "none"]

Recorded(outcome) ==
    [j \in Job |-> IF outcome[j] = "none" THEN attempt[j]
                   ELSE [attempt[j] EXCEPT !.state = outcome[j]]]

ToRecord(outcome) == {j \in Job : outcome[j] # "none"}

(* A sweep skips the rows another transaction has locked, a settlement waits. *)
RowFree(j) == \A w \in Worker : j \notin recording[w].rows

Sweepable == {j \in ExpiredJobs : RowFree(j)}

(* run_once with nothing to record is one transaction. *)
Polls(w) ==
    /\ recording[w] = NotRecording
    /\ \E stale \in SUBSET Sweepable :
          /\ OutcomesOf(Swept(stale)) = NoOutcomes
          /\ Sweep(w, stale) \/ \E j \in Job : Claim(w, j, stale)
    /\ UNCHANGED <<ledgerVars, syncing, recording, closing, transferring,
                   passing>>

(* run_once sweeps, reads the failed jobs whose attempt does not tell, writes
   their attempts when nobody has these locked, and then claims. *)
PollReads(w) ==
    /\ worker[w].pc = "polling"
    /\ recording[w] = NotRecording
    /\ \E stale \in SUBSET Sweepable :
          /\ OutcomesOf(Swept(stale)) # NoOutcomes
          /\ recording' = [recording EXCEPT
                ![w] = [rows |-> stale, outcome |-> OutcomesOf(Swept(stale))]]
    /\ UNCHANGED <<vars, ledgerVars, syncing, closing, transferring, passing>>

Records(w) ==
    LET outcome == recording[w].outcome
    IN /\ outcome # NoOutcomes
       /\ AttemptsFree(ToRecord(outcome))
       /\ attempt' = Recorded(outcome)
       /\ recording' = [recording EXCEPT ![w] = NotRecording]
       /\ UNCHANGED <<source, owner, plan, catalog, syncing, closing,
                      transferring, passing>>

PollCommits(w) ==
    /\ worker[w].pc = "polling"
    /\ Records(w)
    /\ \/ recording[w].rows = {} /\ UNCHANGED vars
       \/ Sweep(w, recording[w].rows)
       \/ \E j \in Job : Claim(w, j, recording[w].rows)

(* The settlement of a failed job records its outcome in the same
   transaction, which has the job's row locked. *)
SettleOutcome(w) ==
    LET j == worker[w].job
    IN [NoOutcomes EXCEPT ![j] = IF worker[w].verdict = "ok" THEN "none"
                                 ELSE OutcomeOf(SettledRow(w), attempt[j])]

SettleSilently(w) ==
    /\ recording[w] = NotRecording
    /\ worker[w].pc = "settling"
    /\ SettleOutcome(w) = NoOutcomes
    /\ Settle(w)
    /\ UNCHANGED <<ledgerVars, syncing, recording, closing, transferring,
                   passing>>

SettleReads(w) ==
    /\ recording[w] = NotRecording
    /\ worker[w].pc = "settling"
    /\ RowFree(worker[w].job)
    /\ SettleOutcome(w) # NoOutcomes
    /\ recording' = [recording EXCEPT
          ![w] = [rows |-> {worker[w].job}, outcome |-> SettleOutcome(w)]]
    /\ UNCHANGED <<vars, ledgerVars, syncing, closing, transferring, passing>>

SettleCommits(w) ==
    /\ worker[w].pc = "settling"
    /\ Records(w)
    /\ Settle(w)

(* The poll's transaction fails; a settlement that fails is Dies. *)
PollAborts(w) ==
    /\ worker[w].pc = "polling"
    /\ recording[w] # NotRecording
    /\ recording' = [recording EXCEPT ![w] = NotRecording]
    /\ UNCHANGED <<vars, ledgerVars, syncing, closing, transferring, passing>>

-----------------------------------------------------------------------------
(* The rest of the queue.  A process that dies or is stopped rolls back the
   transaction it is in. *)
Dies(w) ==
    /\ Abandon(w) \/ Drain(w)
    /\ syncing' = [syncing EXCEPT ![w] = NotSyncing]
    /\ recording' = [recording EXCEPT ![w] = NotRecording]
    /\ UNCHANGED <<ledgerVars, closing, transferring, passing>>

Ticks ==
    /\ \/ \E w \in Worker : Heartbeat(w) \/ ReadRow(w)
       \/ \E j \in Job : LeaseExpires(j) \/ BackoffElapses(j)
    /\ UNCHANGED <<ledgerVars, syncing, recording, closing, transferring,
                   passing>>

-----------------------------------------------------------------------------
SyncEnds(w) ==
    \/ SyncSkips(w) \/ SyncIsFenced(w) \/ SyncRefuses(w) \/ SyncJoins(w)
    \/ SyncRaises(w)
    \/ \E c \in Content : \/ SyncFindsPublished(w, c)
                          \/ \E p \in Plan : SyncStarts(w, p, c)

SyncStep(w) == \/ SyncLooks(w) \/ PassesFence(w)
               \/ SyncEnds(w)
               \/ \E c \in Content : SyncReuses(w, c)

PipelineStep(p) == RefuseReads(p) \/ RefuseCommits(p) \/ AssertsOwner(p)
                   \/ PublishCommits(p) \/ CloseAborts(p)

WorkerLoop(w) == \/ Polls(w) \/ PollReads(w) \/ PollCommits(w) \/ PollAborts(w)
                 \/ SettleSilently(w) \/ SettleReads(w) \/ SettleCommits(w)
                 \/ Dies(w)

OfficeStep == \/ \E j \in Job : Schedule(j) \/ PassReads(j)
              \/ PassCommits \/ PassAborts
              \/ \E state \in {"enabled", "paused"} : ManifestSets(state)
              \/ TransferReads \/ TransferCommits \/ TransferAborts

UpNext == /\ \/ OfficeStep
             \/ \E p \in Plan : PipelineStep(p)
             \/ \E w \in Worker : SyncStep(w) \/ WorkerLoop(w)
             \/ Ticks
          /\ RowsLocked

UpSpec == UpInit /\ [][UpNext]_upVars

(* What JobQueue assumes of the workers: a process goes on with what it has
   begun, what is due or expired is found by some poll, backoffs and leases
   nobody renews end, and workers are stopped finitely often.  A lock is
   granted in the order of the requests, so no transaction that waits for one
   is passed over for ever.  Passes of a day recur: every process makes one for
   a day on that day and on the next, and one that starts within a week
   another. *)
GoesOn(w) == \/ SyncEnds(w)
             \/ Ticks /\ ReadRow(w)
             \/ SettleSilently(w) \/ SettleReads(w) \/ SettleCommits(w)
             \/ PollCommits(w)

Finds(w, j) == \/ (Polls(w) \/ PollCommits(w)) /\ row'[j] # row[j]
               \/ PollReads(w) /\ recording'[w].outcome[j] # "none"

Elapses(j) == /\ Ticks
              /\ \/ BackoffElapses(j)
                 \/ Unattended(j) /\ LeaseExpires(j)

UpFairness ==
    /\ \A w \in Worker : SF_upVars(GoesOn(w) /\ RowsLocked)
    /\ \A j \in Job : /\ SF_upVars((\E w \in Worker : Finds(w, j)) /\ RowsLocked)
                      /\ SF_upVars(PassReads(j) /\ source = "enabled" /\ RowsLocked)
                      /\ WF_upVars(Elapses(j) /\ RowsLocked)
    /\ SF_upVars(PassCommits /\ RowsLocked)
    /\ SF_upVars((TransferCommits \/ TransferAborts) /\ RowsLocked)
    /\ <>[][\A w \in Worker : ~Drain(w)]_upVars

FairUpSpec == UpSpec /\ UpFairness

-----------------------------------------------------------------------------
(***************************************************************************)
(* Properties.                                                             *)
(***************************************************************************)

(* The transfer cuts off official work (transfer_catalog_line, REQ-5612):
   once the line has another owner no version of the official account enters
   the catalog and no plan is started, whatever handler or publication was
   under way when the transfer began. *)
NothingAfterTransfer ==
    [][owner # "official" =>
          /\ catalog' = catalog
          /\ \A p \in Plan : plan'[p].state = "open" => plan[p].state = "open"]_upVars

(* No content is under way or in the catalog twice: a redelivered, a retried
   and a concurrent synchronization of the same upstream content find the plan
   or the version of the first (_start_publication, _already_published). *)
Live(p) == plan[p].state \in {"open", "published"} \/ p \in catalog

ContentOnce ==
    \A p, q \in Plan : Live(p) /\ Live(q) /\ plan[p].content = plan[q].content
                         => p = q

(* An attempt that says it was published names a plan whose version is in the
   catalog, whichever of the publication and the daily repair said so. *)
PublishedIsInCatalog ==
    \A j \in Job : attempt[j].state = "published" => attempt[j].plan \in catalog

(* An attempt that waits can still be told how it ended, as long as the source
   is enabled: its job exists and was not cancelled, so it is delivered again,
   it succeeded, or a poll finds that it was given up; and if the attempt waits
   for a plan that was refused meanwhile, a pass of its day changes it
   (unrecorded_queue_outcomes, reconcile_delivery, whose repair for a job that
   is missing or cancelled is never needed). *)
WaitingCanBeTold ==
    \A j \in Job :
        source = "enabled" /\ attempt[j].state \in Pending \cup {"publishing"} =>
            /\ \/ row[j].state \in Claimable \cup {"running", "succeeded"}
               \/ OutcomeOf(row[j], attempt[j]) = "dead_lettered"
            /\ \A p \in Plan :
                  /\ attempt[j] = [state |-> "publishing", plan |-> p]
                  /\ plan[p].state = "failed"
                  /\ row[j].state \notin Claimable \cup {"running"}
                  => Reconciled(j) # attempt[j].state

(* What the pipeline tells of the plans of the source, each with a version of
   its own. *)
PlanVerdict ==
    [p \in Plan |-> CASE plan[p].state = "absent" -> "none"
                      [] plan[p].state = "open"   -> "in_progress"
                      [] plan[p].state = "failed" -> "refused"
                      [] OTHER                    -> "published"]

VersionOf == [p \in Plan |-> p]

Promise ==
    INSTANCE PublicationPromise
    WITH Coordinate   <- Plan,
         CoordinateOf <- VersionOf,
         DigestOf     <- VersionOf,
         NoDigest     <- NoPlan,
         verdict      <- PlanVerdict,
         catalog      <- [p \in Plan |-> IF p \in catalog THEN p ELSE NoPlan]

(* The plans of the source are published and refused as the promise of the
   pipeline says: what this module assumes of the pipeline is what Publication
   does, and a refused content is submitted again as another plan. *)
KeepsPublicationPromise == Promise!PromisedSpec

(* A refusal reaches the attempt that waits for it, even when the attempt was
   bound to the plan after the refusal had looked for attempts, and when a
   later run binds it to another plan: at the latest a daily pass repairs it,
   as long as the source is enabled. *)
AwaitsRefused(j) ==
    \E p \in Plan : /\ attempt[j] = [state |-> "publishing", plan |-> p]
                    /\ plan[p].state = "failed"

RefusalReachesAttempt ==
    \A j \in Daily :
        AwaitsRefused(j) ~> ~AwaitsRefused(j) \/ source # "enabled"

(* A dead-lettered job is not hidden behind an attempt that waits: not when the
   process that swept it died, when a handler whose job was given up meanwhile
   commits its attempt afterwards, or when a pass of the day writes what it has
   read before.  Another worker's settlement may still change the job. *)
GivenUpIsTold ==
    \A j \in Job :
        row[j].state = "dead_letter" ~>
            \/ attempt[j].state \notin Pending \cup {"publishing"}
            \/ row[j].state # "dead_letter"
=============================================================================
