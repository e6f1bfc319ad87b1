--------------------------- MODULE UpstreamProofs ---------------------------
(***************************************************************************)
(* Proofs about UpstreamLedger for any number of triggers, plans, contents *)
(* and workers: the types, and what the row locks of the handler, of the   *)
(* publication and of the transfer are for.                                *)
(***************************************************************************)
EXTENDS UpstreamLedger, JobQueueProofs

LedgerTypes ==
    /\ source \in {"enabled", "paused", "transferred"}
    /\ owner \in {"official", "recipient"}
    /\ attempt \in [Job -> Attempt]
    /\ plan \in [Plan -> PlanRow]
    /\ catalog \subseteq Plan
    /\ syncing \in [Worker -> Syncing]
    /\ recording \in [Worker -> Recording]
    /\ closing \in [Plan -> Closing]
    /\ transferring \in Transferring
    /\ passing \in Passing

-----------------------------------------------------------------------------
(* Types of the ledger. *)

LEMMA Constants == /\ NotSyncing \in Syncing
                   /\ NotRecording \in Recording
                   /\ NotClosing \in Closing
                   /\ NotTransferring \in Transferring
                   /\ NotPassing \in Passing
                   /\ NoOutcomes \in [Job -> {"none", "retry_wait", "dead_lettered"}]
BY DEF NotSyncing, Syncing, NotRecording, Recording, NotClosing, Closing,
   NotTransferring, Transferring, NotPassing, Passing, AttemptState, NoOutcomes

LEMMA LedgerTypesInit == UpInit => LedgerTypes
BY Constants DEF UpInit, LedgerTypes, Attempt, AttemptState, PlanRow

(* A state that may be written into an attempt. *)
Told == {"publishing"} \cup Pending \cup TerminalAttempt

LEMMA ToldOK ==
    ASSUME NEW a \in Attempt, NEW s \in Told, NEW p \in Plan \cup {NoPlan}
    PROVE  /\ [a EXCEPT !.state = s] \in Attempt
           /\ [state |-> s, plan |-> p] \in Attempt
BY DEF Attempt, AttemptState, Told

LEMMA TellsOK ==
    ASSUME attempt \in [Job -> Attempt], NEW js, NEW s \in Told, Tells(js, s)
    PROVE  attempt' \in [Job -> Attempt]
BY DEF Tells, Attempt, AttemptState, Told

LEMMA SettingOK ==
    ASSUME attempt \in [Job -> Attempt], NEW j, NEW s \in Told,
           attempt' = [attempt EXCEPT ![j].state = s]
    PROVE  attempt' \in [Job -> Attempt]
BY DEF Attempt, AttemptState, Told

LEMMA AnswersOK ==
    ASSUME attempt \in [Job -> Attempt], NEW w \in Worker, NEW s \in Told,
           NEW p \in Plan \cup {NoPlan}, Answers(w, s, p)
    PROVE  attempt' \in [Job -> Attempt]
BY DEF Answers, Attempt, AttemptState, Told

LEMMA CommitsOK ==
    ASSUME syncing \in [Worker -> Syncing], NEW w \in Worker, Commits(w)
    PROVE  syncing' \in [Worker -> Syncing]
BY Constants DEF Commits

LEMMA DispatchedTold ==
    ASSUME NEW j \in Job, attempt \in [Job -> Attempt],
           attempt[j].state # "absent"
    PROVE  Dispatched(attempt[j].state) \in Told
BY DEF Dispatched, Told, Attempt, AttemptState, Pending

LEMMA ReconciledTold ==
    ASSUME NEW j \in Job, attempt \in [Job -> Attempt],
           attempt[j].state # "absent"
    PROVE  Reconciled(j) \in Told
<1> DEFINE s == Dispatched(attempt[j].state)
<1>1. s \in Told
  BY DispatchedTold
<1>2. Reconciled(j) \in {"dead_lettered", "published", "failed_permanent", s}
  BY DEF Reconciled
<1> QED BY <1>1, <1>2 DEF Told, TerminalAttempt, SettledAttempt

LEMMA OutcomesTyped ==
    ASSUME NEW rows
    PROVE  OutcomesOf(rows) \in [Job -> {"none", "retry_wait", "dead_lettered"}]
BY DEF OutcomesOf, OutcomeOf

LEMMA SettleOutcomeTyped ==
    ASSUME NEW w
    PROVE  SettleOutcome(w) \in [Job -> {"none", "retry_wait", "dead_lettered"}]
BY Constants DEF SettleOutcome, OutcomeOf

LEMMA RecordsOK ==
    ASSUME LedgerTypes, NEW w \in Worker, Records(w)
    PROVE  LedgerTypes'
<1>1. recording[w].outcome \in [Job -> {"none", "retry_wait", "dead_lettered"}]
  BY DEF LedgerTypes, Recording
<1>2. attempt' \in [Job -> Attempt]
  BY <1>1 DEF Records, Recorded, LedgerTypes, Attempt, AttemptState, Pending,
     TerminalAttempt
<1>3. recording' \in [Worker -> Recording]
  BY Constants DEF Records, LedgerTypes
<1> QED BY <1>2, <1>3 DEF Records, LedgerTypes

LEMMA OfficeTypes ==
    ASSUME LedgerTypes, OfficeStep PROVE LedgerTypes'
<1> USE DEF LedgerTypes
<1>1. ASSUME NEW j \in Job, Schedule(j) PROVE LedgerTypes'
  <2>1. attempt' \in [Job -> Attempt]
    BY <1>1, SettingOK DEF Schedule, Told, Pending
  <2> QED BY <1>1, <2>1 DEF Schedule
<1>2. ASSUME NEW j \in Job, PassReads(j) PROVE LedgerTypes'
  <2>1. PICK s \in Told : passing' = [job |-> j, state |-> s]
    BY <1>2, ReconciledTold, DispatchedTold DEF PassReads
  <2>2. passing' \in Passing
    BY <2>1 DEF Passing, AttemptState, Told
  <2> QED BY <1>2, <2>2 DEF PassReads, ledgerVars
<1>7. CASE PassCommits
  <2>1. attempt' \in [Job -> Attempt]
    BY <1>7 DEF PassCommits, Passing, Attempt
  <2> QED BY <1>7, <2>1, Constants DEF PassCommits
<1>8. CASE PassAborts
  BY <1>8, Constants DEF PassAborts, ledgerVars
<1>3. ASSUME NEW state \in {"enabled", "paused"}, ManifestSets(state)
      PROVE  LedgerTypes'
  BY <1>3 DEF ManifestSets
<1>4. CASE TransferReads
  <2>1. transferring' \in Transferring
    BY <1>4 DEF TransferReads, Transferring
  <2> QED BY <1>4, <2>1 DEF TransferReads, ledgerVars
<1>5. CASE TransferCommits
  <2>1. attempt' \in [Job -> Attempt]
    BY <1>5, TellsOK DEF TransferCommits, Told, TerminalAttempt, SettledAttempt
  <2> QED BY <1>5, <2>1, Constants DEF TransferCommits
<1>6. CASE TransferAborts
  BY <1>6, Constants DEF TransferAborts, ledgerVars
<1> QED BY <1>1, <1>2, <1>3, <1>4, <1>5, <1>6, <1>7, <1>8 DEF OfficeStep

LEMMA PipelineTypes ==
    ASSUME LedgerTypes, NEW p \in Plan, PipelineStep(p) PROVE LedgerTypes'
<1> USE DEF LedgerTypes
<1>1. CASE RefuseReads(p)
  <2>1. [step |-> "refusing", attempts |-> AttemptsOf(p)] \in Closing
    BY DEF Closing, AttemptsOf
  <2> QED BY <1>1, <2>1 DEF RefuseReads, ledgerVars
<1>2. CASE RefuseCommits(p)
  <2>1. attempt' \in [Job -> Attempt]
    BY <1>2, TellsOK DEF RefuseCommits, Told, TerminalAttempt, SettledAttempt
  <2>2. plan' \in [Plan -> PlanRow]
    BY <1>2 DEF RefuseCommits, PlanRow
  <2> QED BY <1>2, <2>1, <2>2, Constants DEF RefuseCommits
<1>3. CASE AssertsOwner(p)
  BY <1>3 DEF AssertsOwner, ledgerVars, Closing
<1>4. CASE PublishCommits(p)
  <2>1. attempt' \in [Job -> Attempt]
    BY <1>4, TellsOK DEF PublishCommits, Told, TerminalAttempt, SettledAttempt
  <2>2. plan' \in [Plan -> PlanRow]
    BY <1>4 DEF PublishCommits, PlanRow
  <2> QED BY <1>4, <2>1, <2>2, Constants DEF PublishCommits
<1>5. CASE CloseAborts(p)
  BY <1>5, Constants DEF CloseAborts, ledgerVars
<1> QED BY <1>1, <1>2, <1>3, <1>4, <1>5 DEF PipelineStep

LEMMA SyncTypes ==
    ASSUME LedgerTypes, NEW w \in Worker, SyncStep(w) PROVE LedgerTypes'
<1> USE DEF LedgerTypes
<1>1. ASSUME NEW step \in {"fencing", "resolving", "joining"},
             syncing' = [syncing EXCEPT ![w].step = step]
      PROVE  syncing' \in [Worker -> Syncing]
  BY <1>1 DEF Syncing
<1>2. CASE SyncLooks(w) \/ PassesFence(w)
  <2>1. syncing' \in [Worker -> Syncing]
    BY <1>1, <1>2 DEF SyncLooks, PassesFence
  <2> QED BY <1>2, <2>1 DEF SyncLooks, PassesFence, ledgerVars
<1>3. CASE SyncSkips(w) \/ SyncRaises(w)
  <2>1. syncing' \in [Worker -> Syncing]
    BY <1>3, CommitsOK, Constants DEF SyncSkips, SyncRaises
  <2> QED BY <1>3, <2>1 DEF SyncSkips, SyncRaises, ledgerVars
<1>4. CASE SyncIsFenced(w)
  <2>1. syncing' \in [Worker -> Syncing]
    BY <1>4, CommitsOK DEF SyncIsFenced
  <2>2. attempt' \in [Job -> Attempt]
    BY <1>4, SettingOK DEF SyncIsFenced, Told, TerminalAttempt, SettledAttempt
  <2> QED BY <1>4, <2>1, <2>2 DEF SyncIsFenced
<1>5. ASSUME NEW s \in Told, NEW p \in Plan \cup {NoPlan}, Answers(w, s, p),
             Commits(w), plan' \in [Plan -> PlanRow],
             UNCHANGED <<source, owner, catalog, recording, closing, transferring,
                         passing>>
      PROVE  LedgerTypes'
  <2>1. syncing' \in [Worker -> Syncing]
    BY <1>5, CommitsOK
  <2>2. attempt' \in [Job -> Attempt]
    BY <1>5, AnswersOK
  <2> QED BY <1>5, <2>1, <2>2
<1>6. {"publishing", "unchanged", "failed_permanent"} \subseteq Told
  BY DEF Told, TerminalAttempt, SettledAttempt
<1>7. CASE SyncRefuses(w)
  BY <1>5, <1>6, <1>7 DEF SyncRefuses
<1>8. CASE SyncJoins(w)
  <2>1. syncing[w].plan \in Plan \cup {NoPlan}
    BY DEF Syncing
  <2> QED BY <1>5, <1>6, <1>8, <2>1 DEF SyncJoins
<1>9. ASSUME NEW c \in Content, SyncFindsPublished(w, c) PROVE LedgerTypes'
  BY <1>5, <1>6, <1>9 DEF SyncFindsPublished
<1>10. ASSUME NEW c \in Content, NEW p \in Plan, SyncStarts(w, p, c)
       PROVE  LedgerTypes'
  <2>1. plan' \in [Plan -> PlanRow]
    BY <1>10 DEF SyncStarts, PlanRow
  <2> QED BY <1>5, <1>6, <1>10, <2>1 DEF SyncStarts
<1>11. ASSUME NEW c \in Content, SyncReuses(w, c) PROVE LedgerTypes'
  <2>1. syncing' \in [Worker -> Syncing]
    BY <1>11 DEF SyncReuses, OpenWith, Syncing
  <2> QED BY <1>11, <2>1 DEF SyncReuses, ledgerVars
<1> QED BY <1>2, <1>3, <1>4, <1>7, <1>8, <1>9, <1>10, <1>11 DEF SyncStep, SyncEnds

LEMMA LoopTypes ==
    ASSUME TypeOK, LedgerTypes, NEW w \in Worker, WorkerLoop(w) PROVE LedgerTypes'
<1> USE DEF LedgerTypes
<1>1. CASE Polls(w) \/ SettleSilently(w)
  BY <1>1 DEF Polls, SettleSilently, ledgerVars
<1>2. CASE PollReads(w)
  <2> PICK stale \in SUBSET Sweepable :
          recording' = [recording EXCEPT
                ![w] = [rows |-> stale, outcome |-> OutcomesOf(Swept(stale))]]
    BY <1>2 DEF PollReads
  <2>1. recording' \in [Worker -> Recording]
    BY OutcomesTyped DEF Recording, Sweepable, ExpiredJobs
  <2> QED BY <1>2, <2>1 DEF PollReads, ledgerVars
<1>3. CASE PollCommits(w) \/ SettleCommits(w)
  BY <1>3, RecordsOK DEF PollCommits, SettleCommits
<1>4. CASE PollAborts(w)
  BY <1>4, Constants DEF PollAborts, ledgerVars
<1>5. CASE SettleReads(w)
  <2>1. worker[w].job \in Job
    BY <1>5 DEF SettleReads, TypeOK
  <2>2. recording' \in [Worker -> Recording]
    BY <1>5, <2>1, SettleOutcomeTyped DEF SettleReads, Recording
  <2> QED BY <1>5, <2>2 DEF SettleReads, ledgerVars
<1>6. CASE Dies(w)
  BY <1>6, Constants DEF Dies, ledgerVars
<1> QED BY <1>1, <1>2, <1>3, <1>4, <1>5, <1>6 DEF WorkerLoop

LEMMA LedgerTypesStep ==
    TypeOK /\ LedgerTypes /\ [UpNext]_upVars => LedgerTypes'
<1> SUFFICES ASSUME TypeOK, LedgerTypes, [UpNext]_upVars PROVE LedgerTypes'
  OBVIOUS
<1>1. CASE UNCHANGED upVars
  BY <1>1 DEF upVars, ledgerVars, LedgerTypes
<1>2. CASE Ticks
  BY <1>2 DEF Ticks, ledgerVars, LedgerTypes
<1> QED BY <1>1, <1>2, OfficeTypes, PipelineTypes, SyncTypes, LoopTypes DEF UpNext

-----------------------------------------------------------------------------
(* The queue.  Every step is one of JobQueue's, except that a transfer reads
   and cancels several jobs at once.  A sweep that waits for an attempt still
   finds the leases it has read expired, since it holds their rows. *)

RecordedExpired ==
    \A w \in Worker :
        /\ worker[w].pc = "polling" => recording[w].rows \subseteq ExpiredJobs
        /\ worker[w].pc \in {"handling", "reporting"} => recording[w].rows = {}

QueueInv == AttemptInv /\ RecordedExpired

LEMMA QueueInvInit == UpInit => QueueInv
BY AttemptInvInit DEF UpInit, Init, Polling, QueueInv, RecordedExpired, NotRecording

(* What a step does to what a worker has swept and not yet recorded. *)
Moves(w) ==
    \/ recording'[w].rows = {}
    \/ /\ recording'[w] = recording[w]
       /\ \/ worker'[w].pc = worker[w].pc
          \/ worker[w].pc \in {"handling", "reporting"}
    \/ /\ worker'[w].pc \in {"polling", "settling"}
       /\ worker'[w].pc = "polling" =>
             recording'[w].rows \subseteq ExpiredJobs /\ row' = row

LEMMA OthersStay ==
    ASSUME NEW w \in Worker, LedgerTypes, TypeOK, Moves(w),
           \A v \in Worker \ {w} : /\ recording'[v] = recording[v]
                                   /\ worker'[v] = worker[v]
    PROVE  \A v \in Worker : Moves(v)
BY DEF Moves

LEMMA CommitsIsQueueStep ==
    ASSUME TypeOK, NEW w \in Worker, Commits(w) \/ HandlerFails(w, "retry")
    PROVE  /\ Next
           /\ worker[w].pc = "handling"
           /\ worker' = [worker EXCEPT ![w] = worker'[w]]
<1>1. worker[w].pc = "handling"
  BY DEF Commits, HandlerCommits, HandlerCommitUnacknowledged, HandlerFails
<1>2. HandlerEnds(w)
  BY DEF Commits, HandlerEnds, Verdict
<1>3. worker' = [worker EXCEPT ![w] = worker'[w]]
  BY DEF Commits, HandlerCommits, HandlerCommitUnacknowledged, HandlerFails, TypeOK
<1> QED BY <1>1, <1>2, <1>3 DEF Next, WorkerStep

LEMMA SyncQueueStep ==
    ASSUME TypeOK, LedgerTypes, NEW w \in Worker, SyncStep(w)
    PROVE  [Next]_vars /\ \A v \in Worker : Moves(v)
<1>1. recording' = recording
  BY DEF SyncStep, SyncEnds, SyncLooks, PassesFence, SyncSkips, SyncIsFenced,
     SyncRefuses, SyncJoins, SyncRaises, SyncFindsPublished, SyncStarts, SyncReuses
<1>2. CASE UNCHANGED vars
  BY <1>1, <1>2 DEF Moves, vars
<1>3. CASE Commits(w) \/ HandlerFails(w, "retry")
  BY <1>1, <1>3, CommitsIsQueueStep DEF Moves, TypeOK
<1> QED BY <1>2, <1>3 DEF SyncStep, SyncEnds, SyncLooks, PassesFence, SyncSkips,
     SyncIsFenced, SyncRefuses, SyncJoins, SyncRaises, SyncFindsPublished, SyncStarts,
     SyncReuses

LEMMA LoopQueueStep ==
    ASSUME TypeOK, LedgerTypes, RecordedExpired, NEW w \in Worker, WorkerLoop(w)
    PROVE  [Next]_vars /\ \A v \in Worker : Moves(v)
<1> USE DEF LedgerTypes
<1> SUFFICES [Next]_vars /\ Moves(w) /\ \A v \in Worker \ {w} :
                  recording'[v] = recording[v] /\ worker'[v] = worker[v]
  BY OthersStay
<1>1. ASSUME NEW stale \in SUBSET ExpiredJobs,
             Sweep(w, stale) \/ \E j \in Job : Claim(w, j, stale)
      PROVE  Next /\ \A v \in Worker \ {w} : worker'[v] = worker[v]
  <2>1. Next
    BY <1>1 DEF Next, WorkerStep, RunOnce
  <2> QED BY <1>1, <2>1 DEF Sweep, Claim, TypeOK
<1>2. NotRecording.rows = {}
  BY DEF NotRecording
<1>3. CASE Polls(w)
  <2>1. Sweepable \subseteq ExpiredJobs
    BY DEF Sweepable
  <2>2. recording'[w].rows = {}
    BY <1>2, <1>3 DEF Polls
  <2>3. Next /\ \A v \in Worker \ {w} : worker'[v] = worker[v]
    BY <1>1, <1>3, <2>1 DEF Polls
  <2> QED BY <1>3, <2>2, <2>3 DEF Polls, Moves
<1>4. CASE PollReads(w)
  <2>1. recording'[w].rows \subseteq ExpiredJobs
    BY <1>4 DEF PollReads, Sweepable
  <2> QED BY <1>4, <2>1 DEF PollReads, Moves, vars
<1>5. CASE PollCommits(w)
  <2>1. recording[w].rows \subseteq ExpiredJobs
    BY <1>5 DEF PollCommits, RecordedExpired
  <2>2. [Next]_vars /\ \A v \in Worker \ {w} : worker'[v] = worker[v]
    <3>1. CASE UNCHANGED vars
      BY <3>1 DEF vars
    <3>2. CASE ~UNCHANGED vars
      BY <1>1, <1>5, <2>1, <3>2 DEF PollCommits
    <3> QED BY <3>1, <3>2
  <2>3. recording' = [recording EXCEPT ![w] = NotRecording]
    BY <1>5 DEF PollCommits, Records
  <2> QED BY <1>2, <2>2, <2>3 DEF Moves
<1>6. CASE PollAborts(w)
  BY <1>2, <1>6 DEF PollAborts, Moves, vars
<1>7. ASSUME Settle(w)
      PROVE  Next /\ \A v \in Worker \ {w} : worker'[v] = worker[v]
  BY <1>7 DEF Next, WorkerStep, Settle, TypeOK
<1>8. CASE SettleSilently(w)
  BY <1>2, <1>7, <1>8 DEF SettleSilently, Moves
<1>9. CASE SettleReads(w)
  BY <1>9 DEF SettleReads, Moves, vars
<1>10. CASE SettleCommits(w)
  BY <1>2, <1>7, <1>10 DEF SettleCommits, Records, Moves
<1>11. CASE Dies(w)
  <2>1. Next /\ \A v \in Worker \ {w} : worker'[v] = worker[v]
    BY <1>11 DEF Dies, Next, WorkerStep, Abandon, Drain, TypeOK
  <2> QED BY <1>2, <1>11, <2>1 DEF Dies, Moves
<1> QED BY <1>3, <1>4, <1>5, <1>6, <1>8, <1>9, <1>10, <1>11 DEF WorkerLoop

LEMMA TicksQueueStep ==
    ASSUME TypeOK, Ticks
    PROVE  [Next]_vars /\ \A v \in Worker : Moves(v)
<1>1. Next
  BY DEF Ticks, Next, WorkerStep, JobStep
<1>2. recording' = recording
  BY DEF Ticks
<1>3. ASSUME NEW w \in Worker, Heartbeat(w)
      PROVE  \A v \in Worker : worker'[v].pc = worker[v].pc
  BY <1>3 DEF Heartbeat, TypeOK, Process
<1>4. ASSUME NEW w \in Worker, ReadRow(w), NEW v \in Worker
      PROVE  worker'[v].pc = worker[v].pc \/ worker[v].pc = "reporting"
  BY <1>4 DEF ReadRow, TypeOK, Process
<1>5. ASSUME NEW j \in Job, LeaseExpires(j) \/ BackoffElapses(j)
      PROVE  worker' = worker
  BY <1>5 DEF LeaseExpires, BackoffElapses
<1> QED BY <1>1, <1>2, <1>3, <1>4, <1>5 DEF Ticks, Moves

LEMMA OfficeQueueStep ==
    ASSUME TypeOK, OfficeStep
    PROVE  /\ \/ [Next]_vars
              \/ TransferReads \/ TransferCommits \/ TransferAborts
           /\ \A v \in Worker : Moves(v)
<1>1. recording' = recording /\ worker' = worker
  BY DEF OfficeStep, Schedule, PassReads, PassCommits, PassAborts, ManifestSets,
     TransferReads, TransferCommits, TransferAborts, vars, Enqueue
<1>2. \A v \in Worker : Moves(v)
  BY <1>1 DEF Moves
<1> QED BY <1>2 DEF OfficeStep, Schedule, PassReads, PassCommits, PassAborts,
        ManifestSets, Next, JobStep

LEMMA AttemptInvCancels ==
    ASSUME AttemptInv, TransferReads \/ TransferCommits \/ TransferAborts
    PROVE  AttemptInv'
<1> USE AttemptInvParts
<1>1. RowsGood /\ WorkersGood /\ cancelling \subseteq Job /\ applied \subseteq Job
  OBVIOUS
<1>2. RowsGood'
  <2>1. CASE TransferCommits
    BY <1>1, <2>1, CancelledGood DEF TransferCommits, RowsGood, GoodRow
  <2> QED BY <1>1, <2>1 DEF TransferReads, TransferAborts, RowsGood
<1>3. WorkersGood'
  BY <1>1 DEF TransferReads, TransferCommits, TransferAborts, WorkersGood
<1>4. (cancelling \subseteq Job)' /\ (applied \subseteq Job)'
  BY <1>1 DEF TransferReads, TransferCommits, TransferAborts
<1> QED BY <1>2, <1>3, <1>4, PTL

LEMMA QueueInvStep ==
    QueueInv /\ LedgerTypes /\ [UpNext]_upVars => QueueInv'
<1> SUFFICES ASSUME AttemptInv, RecordedExpired, LedgerTypes, [UpNext]_upVars
             PROVE  AttemptInv' /\ RecordedExpired'
  BY DEF QueueInv
<1>1. TypeOK
  BY DEF AttemptInv
<1>2. CASE UNCHANGED upVars
  <2>1. UNCHANGED vars /\ recording' = recording
    BY <1>2 DEF upVars
  <2> QED BY <2>1, AttemptInvStep DEF RecordedExpired, vars, ExpiredJobs
<1>3. CASE UpNext
  <2>1. /\ \/ [Next]_vars
           \/ TransferReads \/ TransferCommits \/ TransferAborts
        /\ \A v \in Worker : Moves(v)
    <3>1. ASSUME NEW p \in Plan, PipelineStep(p)
          PROVE  UNCHANGED vars /\ \A v \in Worker : Moves(v)
      BY <3>1 DEF PipelineStep, RefuseReads, RefuseCommits, AssertsOwner,
         PublishCommits, CloseAborts, vars, Moves
    <3> QED BY <1>1, <1>3, <3>1, OfficeQueueStep, SyncQueueStep, LoopQueueStep,
            TicksQueueStep DEF UpNext
  <2>2. AttemptInv'
    BY <2>1, AttemptInvStep, AttemptInvCancels
  <2>3. ASSUME NEW w \in Worker
        PROVE  /\ worker'[w].pc = "polling" => recording'[w].rows \subseteq ExpiredJobs'
               /\ worker'[w].pc \in {"handling", "reporting"} => recording'[w].rows = {}
    <3>1. Moves(w)
      BY <2>1
    <3>2. CASE recording'[w].rows = {}
      BY <3>2
    <3>3. CASE /\ recording'[w] = recording[w]
               /\ worker[w].pc \in {"handling", "reporting"}
      BY <3>3 DEF RecordedExpired
    <3>4. CASE recording'[w] = recording[w] /\ worker'[w].pc = worker[w].pc
      <4>1. ASSUME worker[w].pc = "polling", NEW j \in recording[w].rows
            PROVE  j \in ExpiredJobs'
        <5>1. j \in Job /\ Expired(row[j])
          BY <4>1 DEF RecordedExpired, ExpiredJobs
        <5>2. row'[j] \in {row[j], [row[j] EXCEPT !.leased = FALSE]}
          BY <1>3, <3>4, <4>1 DEF UpNext, RowsLocked
        <5>3. row[j] \in Row
          BY <1>1, <5>1 DEF TypeOK
        <5>4. Expired(row'[j])
          BY <5>1, <5>2, <5>3 DEF Expired, Row
        <5> QED BY <5>1, <5>4 DEF ExpiredJobs
      <4> QED BY <3>4, <4>1 DEF RecordedExpired
    <3>5. CASE /\ worker'[w].pc \in {"polling", "settling"}
               /\ worker'[w].pc = "polling" =>
                     recording'[w].rows \subseteq ExpiredJobs /\ row' = row
      BY <3>5 DEF ExpiredJobs
    <3> QED BY <3>1, <3>2, <3>3, <3>4, <3>5 DEF Moves
  <2> QED BY <2>2, <2>3 DEF RecordedExpired
<1> QED BY <1>2, <1>3

(* Every variable of the ledger and of its queue keeps its type. *)
THEOREM UpstreamTypeCorrect == UpSpec => []UpTypeOK
<1>1. UpInit => QueueInv /\ LedgerTypes
  BY QueueInvInit, LedgerTypesInit
<1>2. QueueInv /\ LedgerTypes /\ [UpNext]_upVars => QueueInv' /\ LedgerTypes'
  BY QueueInvStep, LedgerTypesStep DEF QueueInv, AttemptInv
<1>3. QueueInv /\ LedgerTypes => UpTypeOK
  BY DEF QueueInv, AttemptInv, LedgerTypes, UpTypeOK
<1> QED BY <1>1, <1>2, <1>3, PTL DEF UpSpec

-----------------------------------------------------------------------------
(* The row locks.  At most one handler run is past its fence; neither it nor a
   publication that asserted its owner is under way beside a transfer, and so
   the line is the official account's as long as one of them goes on.  The pass
   of a day excludes both the handler runs and the transfer. *)
LockInv ==
    /\ \A v, w \in Worker : InSync(v) /\ InSync(w) => v = w
    /\ \A w \in Worker : InSync(w) => owner = "official" /\ ~transferring.open
    /\ \A p \in Plan : closing[p].step = "publishing" =>
          owner = "official" /\ ~transferring.open /\ plan[p].state = "open"
    /\ passing.job # NoJob =>
          ~transferring.open /\ \A w \in Worker : ~InSync(w)

LEMMA LockInvStep ==
    LedgerTypes /\ LockInv /\ [UpNext]_upVars => LockInv'
<1> SUFFICES ASSUME LedgerTypes, LockInv, [UpNext]_upVars PROVE LockInv'
  OBVIOUS
<1> USE DEF LedgerTypes
<1>1. ASSUME UNCHANGED <<owner, transferring, closing, plan>>,
             passing' = passing \/ passing' = NotPassing,
             \A w \in Worker : InSync(w)' => InSync(w)
      PROVE  LockInv'
  BY <1>1 DEF LockInv, NotPassing
<1>2. ASSUME NEW w \in Worker, syncing' = [syncing EXCEPT ![w] = NotSyncing]
      PROVE  \A v \in Worker : InSync(v)' => InSync(v)
  BY <1>2 DEF InSync, NotSyncing
<1>3. CASE UNCHANGED upVars
  BY <1>1, <1>3 DEF upVars, ledgerVars, InSync
<1>4. CASE Ticks
  BY <1>1, <1>4 DEF Ticks, ledgerVars, InSync
<1>5. CASE OfficeStep
  <2>1. CASE TransferReads
    BY <2>1 DEF TransferReads, ledgerVars, LockInv, InSync, SourceFree, IdentityFree
  <2>2. CASE TransferCommits
    BY <2>2 DEF TransferCommits, LockInv, InSync
  <2>3. CASE TransferAborts
    BY <2>3 DEF TransferAborts, ledgerVars, LockInv, InSync, NotTransferring
  <2>4. ASSUME NEW j \in Job, PassReads(j) PROVE LockInv'
    BY <2>4 DEF PassReads, ledgerVars, LockInv, InSync, SourceFree
  <2>5. CASE ~(\/ TransferReads \/ TransferCommits \/ TransferAborts
               \/ \E j \in Job : PassReads(j))
    BY <1>1, <1>5, <2>5 DEF OfficeStep, Schedule, PassCommits, PassAborts, ManifestSets,
       ledgerVars, InSync
  <2> QED BY <2>1, <2>2, <2>3, <2>4, <2>5
<1>6. ASSUME NEW p \in Plan, PipelineStep(p) PROVE LockInv'
  <2>1. CASE RefuseReads(p)
    BY <2>1 DEF RefuseReads, ledgerVars, LockInv, InSync
  <2>2. CASE RefuseCommits(p)
    BY <2>2 DEF RefuseCommits, LockInv, InSync, NotClosing
  <2>3. CASE AssertsOwner(p)
    BY <2>3 DEF AssertsOwner, ledgerVars, LockInv, InSync, IdentityFree
  <2>4. CASE PublishCommits(p)
    BY <2>4 DEF PublishCommits, LockInv, InSync, NotClosing
  <2>5. CASE CloseAborts(p)
    BY <2>5 DEF CloseAborts, ledgerVars, LockInv, InSync, NotClosing
  <2> QED BY <1>6, <2>1, <2>2, <2>3, <2>4, <2>5 DEF PipelineStep
<1>7. ASSUME NEW w \in Worker, SyncStep(w) PROVE LockInv'
  <2>1. CASE SyncLooks(w)
    BY <1>1, <2>1 DEF SyncLooks, ledgerVars, InSync, Syncing
  <2>2. CASE PassesFence(w)
    BY <2>2 DEF PassesFence, ledgerVars, LockInv, InSync, SourceFree, IdentityFree
  <2>3. ASSUME NEW c \in Content, SyncReuses(w, c) PROVE LockInv'
    BY <1>1, <2>3 DEF SyncReuses, Runs, ledgerVars, InSync
  <2>4. ASSUME NEW c \in Content, NEW p \in Plan, SyncStarts(w, p, c)
        PROVE  LockInv'
    BY <1>2, <2>4 DEF SyncStarts, Commits, LockInv, PlanRow
  <2>5. CASE SyncSkips(w) \/ SyncIsFenced(w) \/ SyncRefuses(w) \/ SyncJoins(w)
               \/ SyncRaises(w) \/ \E c \in Content : SyncFindsPublished(w, c)
    BY <1>1, <1>2, <2>5 DEF SyncSkips, SyncIsFenced, SyncRefuses, SyncJoins, SyncRaises,
       SyncFindsPublished, Commits, ledgerVars
  <2> QED BY <1>7, <2>1, <2>2, <2>3, <2>4, <2>5 DEF SyncStep, SyncEnds
<1>8. ASSUME NEW w \in Worker, WorkerLoop(w) PROVE LockInv'
  <2>1. UNCHANGED <<owner, transferring, closing, plan, passing>>
    BY <1>8 DEF WorkerLoop, Polls, PollReads, PollCommits, PollAborts, SettleSilently,
       SettleReads, SettleCommits, Dies, Records, ledgerVars
  <2>2. syncing' = syncing \/ syncing' = [syncing EXCEPT ![w] = NotSyncing]
    BY <1>8 DEF WorkerLoop, Polls, PollReads, PollCommits, PollAborts, SettleSilently,
       SettleReads, SettleCommits, Dies, Records
  <2> QED BY <1>1, <1>2, <2>1, <2>2 DEF InSync
<1> QED BY <1>3, <1>4, <1>5, <1>6, <1>7, <1>8 DEF UpNext

(* What may change the plans and the catalog. *)
LEMMA PlanSteps ==
    ASSUME [UpNext]_upVars
    PROVE  \/ UNCHANGED <<plan, catalog>>
           \/ \E w \in Worker, p \in Plan, c \in Content : SyncStarts(w, p, c)
           \/ \E p \in Plan : RefuseCommits(p) \/ PublishCommits(p)
<1>1. ASSUME OfficeStep \/ Ticks \/ UNCHANGED upVars
      PROVE  UNCHANGED <<plan, catalog>>
  BY <1>1 DEF OfficeStep, Schedule, PassReads, PassCommits, PassAborts, ManifestSets,
     TransferReads, TransferCommits, TransferAborts, Ticks, upVars, ledgerVars
<1>2. ASSUME NEW p \in Plan, PipelineStep(p)
      PROVE  UNCHANGED <<plan, catalog>> \/ RefuseCommits(p) \/ PublishCommits(p)
  BY <1>2 DEF PipelineStep, RefuseReads, AssertsOwner, CloseAborts, ledgerVars
<1>3. ASSUME NEW w \in Worker, SyncStep(w)
      PROVE  \/ UNCHANGED <<plan, catalog>>
             \/ \E p \in Plan, c \in Content : SyncStarts(w, p, c)
  BY <1>3 DEF SyncStep, SyncEnds, SyncLooks, PassesFence, SyncSkips, SyncIsFenced,
     SyncRefuses, SyncJoins, SyncRaises, SyncFindsPublished, SyncReuses, ledgerVars
<1>4. ASSUME NEW w \in Worker, WorkerLoop(w) PROVE UNCHANGED <<plan, catalog>>
  BY <1>4 DEF WorkerLoop, Polls, PollReads, PollCommits, PollAborts, SettleSilently,
     SettleReads, SettleCommits, Dies, Records, ledgerVars
<1> QED BY <1>1, <1>2, <1>3, <1>4 DEF UpNext

UpInv == QueueInv /\ LedgerTypes /\ LockInv

LEMMA UpInvariant == UpSpec => []UpInv
<1>1. UpInit => UpInv
  <2>1. UpInit => LockInv
    BY DEF UpInit, LockInv, InSync, NotSyncing, NotClosing, NotPassing
  <2> QED BY <2>1, QueueInvInit, LedgerTypesInit DEF UpInv
<1>2. UpInv /\ [UpNext]_upVars => UpInv'
  BY QueueInvStep, LedgerTypesStep, LockInvStep DEF UpInv, QueueInv, AttemptInv
<1> QED BY <1>1, <1>2, PTL DEF UpSpec

(* Once the line is transferred, nothing of the official account enters the
   catalog and nothing is started there any more. *)
THEOREM TransferCutsOff == UpSpec => NothingAfterTransfer
<1> DEFINE Cut == owner # "official" =>
              /\ catalog' = catalog
              /\ \A p \in Plan : plan'[p].state = "open" => plan[p].state = "open"
<1>1. UpInv /\ [UpNext]_upVars => Cut
  <2> SUFFICES ASSUME LedgerTypes, LockInv, [UpNext]_upVars, owner # "official"
               PROVE  Cut
    BY DEF UpInv
  <2> USE DEF LedgerTypes
  <2>1. CASE UNCHANGED <<plan, catalog>>
    BY <2>1
  <2>2. ASSUME NEW w \in Worker, NEW p \in Plan, NEW c \in Content, SyncStarts(w, p, c)
        PROVE  FALSE
    BY <2>2 DEF SyncStarts, Runs, LockInv, InSync
  <2>3. ASSUME NEW p \in Plan, RefuseCommits(p) PROVE Cut
    BY <2>3 DEF RefuseCommits, PlanRow
  <2>4. ASSUME NEW p \in Plan, PublishCommits(p) PROVE FALSE
    BY <2>4 DEF PublishCommits, LockInv
  <2> QED BY <2>1, <2>2, <2>3, <2>4, PlanSteps
<1> QED BY <1>1, UpInvariant, PTL DEF UpSpec, NothingAfterTransfer

-----------------------------------------------------------------------------
(* One live plan per content.  A published plan is in the catalog, and a plan
   of the catalog was started: so the two questions a synchronization asks,
   under the lock of the source, find every live plan. *)
ContentInv ==
    /\ ContentOnce
    /\ \A p \in Plan : /\ plan[p].state = "published" => p \in catalog
                       /\ p \in catalog => plan[p].state # "absent"

LEMMA ContentInvStep == UpInv /\ ContentInv /\ [UpNext]_upVars => ContentInv'
<1> SUFFICES ASSUME LedgerTypes, LockInv, ContentInv, [UpNext]_upVars
             PROVE  ContentInv'
  BY DEF UpInv
<1> USE DEF LedgerTypes
<1>1. CASE UNCHANGED <<plan, catalog>>
  BY <1>1 DEF ContentInv, ContentOnce, Live
<1>2. ASSUME NEW w \in Worker, NEW p \in Plan, NEW c \in Content, SyncStarts(w, p, c)
      PROVE  ContentInv'
  <2>1. \A q \in Plan \ {p} : plan'[q] = plan[q]
    BY <1>2 DEF SyncStarts
  <2>2. plan'[p] = [state |-> "open", content |-> c] /\ catalog' = catalog
    BY <1>2 DEF SyncStarts
  <2>3. \A q \in Plan : Live(q) => plan[q].content # c
    BY <1>2 DEF SyncStarts, InCatalog, OpenWith, Live, ContentInv
  <2>4. plan[p].state = "absent"
    BY <1>2 DEF SyncStarts
  <2> QED BY <2>1, <2>2, <2>3, <2>4 DEF ContentInv, ContentOnce, Live
<1>3. ASSUME NEW p \in Plan, RefuseCommits(p) \/ PublishCommits(p)
      PROVE  ContentInv'
  <2>1. \A q \in Plan \ {p} : plan'[q] = plan[q]
    BY <1>3 DEF RefuseCommits, PublishCommits
  <2>2. plan'[p].content = plan[p].content
    BY <1>3 DEF RefuseCommits, PublishCommits, PlanRow
  <2>3. CASE RefuseCommits(p)
    BY <2>1, <2>2, <2>3 DEF RefuseCommits, PlanRow, ContentInv, ContentOnce, Live
  <2>4. CASE PublishCommits(p)
    <3>1. plan[p].state = "open" /\ plan'[p].state = "published"
      BY <2>4 DEF PublishCommits, LockInv, PlanRow
    <3>2. catalog' = catalog \cup {p}
      BY <2>4 DEF PublishCommits
    <3> QED BY <2>1, <2>2, <3>1, <3>2 DEF ContentInv, ContentOnce, Live
  <2> QED BY <1>3, <2>3, <2>4
<1> QED BY <1>1, <1>2, <1>3, PlanSteps

(* No content is under way or in the catalog twice. *)
THEOREM ContentStaysOnce == UpSpec => []ContentOnce
<1>1. UpInit => ContentInv
  BY DEF UpInit, ContentInv, ContentOnce, Live
<1>2. ContentInv => ContentOnce
  BY DEF ContentInv
<1> QED BY <1>1, <1>2, UpInvariant, ContentInvStep, PTL DEF UpSpec

-----------------------------------------------------------------------------
(* What a pass of a day has read stays true until it writes: the catalog only
   grows, and no handler binds an attempt while the pass holds the source. *)
PassInv == passing.job # NoJob /\ passing.state = "published"
              => attempt[passing.job].plan \in catalog

LEMMA PassingSteps ==
    ASSUME [UpNext]_upVars
    PROVE  \/ passing' = passing \/ passing' = NotPassing
           \/ \E j \in Job : PassReads(j)
<1>1. ASSUME OfficeStep \/ Ticks \/ UNCHANGED upVars
      PROVE  \/ passing' = passing \/ passing' = NotPassing
             \/ \E j \in Job : PassReads(j)
  BY <1>1 DEF OfficeStep, Schedule, PassCommits, PassAborts, ManifestSets,
     TransferReads, TransferCommits, TransferAborts, Ticks, upVars
<1>2. ASSUME NEW p \in Plan, PipelineStep(p) PROVE passing' = passing
  BY <1>2 DEF PipelineStep, RefuseReads, RefuseCommits, AssertsOwner, PublishCommits,
     CloseAborts
<1>3. ASSUME NEW w \in Worker, SyncStep(w) PROVE passing' = passing
  BY <1>3 DEF SyncStep, SyncEnds, SyncLooks, PassesFence, SyncSkips, SyncIsFenced,
     SyncRefuses, SyncJoins, SyncRaises, SyncFindsPublished, SyncStarts, SyncReuses
<1>4. ASSUME NEW w \in Worker, WorkerLoop(w) PROVE passing' = passing
  BY <1>4 DEF WorkerLoop, Polls, PollReads, PollCommits, PollAborts, SettleSilently,
     SettleReads, SettleCommits, Dies, Records
<1> QED BY <1>1, <1>2, <1>3, <1>4 DEF UpNext

LEMMA BindingsStay ==
    ASSUME LedgerTypes, LockInv, passing.job # NoJob, [UpNext]_upVars, NEW j \in Job
    PROVE  attempt'[j].plan = attempt[j].plan
<1> USE DEF LedgerTypes
<1>1. CASE UNCHANGED attempt
  BY <1>1
<1>2. ASSUME NEW js, NEW state, Tells(js, state)
      PROVE  attempt'[j].plan = attempt[j].plan
  BY <1>2 DEF Tells, Attempt
<1>3. ASSUME NEW k, NEW state, attempt' = [attempt EXCEPT ![k].state = state]
      PROVE  attempt'[j].plan = attempt[j].plan
  BY <1>3 DEF Attempt
<1>4. CASE OfficeStep
  BY <1>1, <1>2, <1>3, <1>4 DEF OfficeStep, Schedule, PassReads, PassCommits,
     PassAborts, ManifestSets, TransferReads, TransferCommits, TransferAborts,
     ledgerVars
<1>5. ASSUME NEW p \in Plan, PipelineStep(p)
      PROVE  attempt'[j].plan = attempt[j].plan
  BY <1>1, <1>2, <1>5 DEF PipelineStep, RefuseReads, RefuseCommits, AssertsOwner,
     PublishCommits, CloseAborts, ledgerVars
<1>6. ASSUME NEW w \in Worker, SyncStep(w)
      PROVE  attempt'[j].plan = attempt[j].plan
  <2>1. ~Runs(w, "resolving") /\ ~Runs(w, "joining")
    BY DEF LockInv, InSync, Runs
  <2> QED BY <1>1, <1>3, <1>6, <2>1 DEF SyncStep, SyncEnds, SyncLooks, PassesFence,
          SyncSkips, SyncIsFenced, SyncRefuses, SyncJoins, SyncRaises,
          SyncFindsPublished, SyncStarts, SyncReuses, ledgerVars
<1>7. ASSUME NEW w \in Worker, WorkerLoop(w)
      PROVE  attempt'[j].plan = attempt[j].plan
  <2>1. Records(w) => attempt'[j].plan = attempt[j].plan
    BY DEF Records, Recorded, Attempt
  <2> QED BY <1>1, <1>7, <2>1 DEF WorkerLoop, Polls, PollReads, PollCommits,
          PollAborts, SettleSilently, SettleReads, SettleCommits, Dies, ledgerVars
<1> QED BY <1>1, <1>4, <1>5, <1>6, <1>7 DEF UpNext, Ticks, upVars, ledgerVars

LEMMA PassInvStep == UpInv /\ ContentInv /\ PassInv /\ [UpNext]_upVars => PassInv'
<1> SUFFICES ASSUME LedgerTypes, LockInv, ContentInv, PassInv, [UpNext]_upVars
             PROVE  PassInv'
  BY DEF UpInv
<1> USE DEF LedgerTypes
<1>1. catalog \subseteq catalog'
  BY PlanSteps DEF SyncStarts, RefuseCommits, PublishCommits
<1>2. CASE passing' = passing
  <2>1. ASSUME passing.job # NoJob
        PROVE  attempt'[passing.job].plan = attempt[passing.job].plan
    BY <2>1, BindingsStay DEF Passing
  <2> QED BY <1>1, <1>2, <2>1 DEF PassInv
<1>3. CASE passing' = NotPassing
  BY <1>3 DEF PassInv, NotPassing
<1>4. ASSUME NEW j \in Job, PassReads(j) PROVE PassInv'
  <2>1. Dispatched(attempt[j].state) = "published" => attempt[j].state = "published"
    BY DEF Dispatched
  <2>2. attempt[j].plan \in Plan \cup {NoPlan}
    BY DEF Attempt
  <2>3. Reconciled(j) = "published" =>
           \/ attempt[j].state = "published"
           \/ attempt[j].plan \in Plan /\ plan[attempt[j].plan].state = "published"
    BY <2>1, <2>2 DEF Reconciled
  <2>4. PICK s : /\ passing' = [job |-> j, state |-> s]
                 /\ s # attempt[j].state
                 /\ s \in {Reconciled(j), Dispatched(attempt[j].state)}
    BY <1>4 DEF PassReads
  <2>5. s = "published" => attempt[j].plan \in catalog
    BY <2>1, <2>3, <2>4 DEF ContentInv
  <2>6. attempt' = attempt /\ catalog' = catalog
    BY <1>4 DEF PassReads, ledgerVars
  <2> QED BY <2>4, <2>5, <2>6 DEF PassInv
<1> QED BY <1>2, <1>3, <1>4, PassingSteps

(* An attempt is told of a publication only by the commit that makes it, or
   when its plan is found published. *)
LEMMA PublishedStep ==
    UpInv /\ PassInv /\ PublishedIsInCatalog /\ [UpNext]_upVars
        => PublishedIsInCatalog'
<1> SUFFICES ASSUME LedgerTypes, LockInv, PassInv, PublishedIsInCatalog,
                    [UpNext]_upVars
             PROVE  PublishedIsInCatalog'
  BY DEF UpInv
<1> USE DEF LedgerTypes
<1>1. catalog \subseteq catalog'
  BY PlanSteps DEF SyncStarts, RefuseCommits, PublishCommits
<1>2. ASSUME \A j \in Job : attempt'[j].state = "published" =>
                 attempt'[j].plan \in catalog' \/ attempt'[j] = attempt[j]
      PROVE  PublishedIsInCatalog'
  BY <1>1, <1>2 DEF PublishedIsInCatalog
<1>3. CASE UNCHANGED attempt
  BY <1>2, <1>3
<1>4. CASE OfficeStep
  <2>1. CASE PassCommits
    <3>1. passing.job \in Job /\ catalog' = catalog
      BY <2>1 DEF PassCommits, Passing
    <3>2. attempt'[passing.job] = [attempt[passing.job] EXCEPT !.state = passing.state]
      BY <2>1, <3>1 DEF PassCommits
    <3>3. /\ attempt'[passing.job].state = passing.state
          /\ attempt'[passing.job].plan = attempt[passing.job].plan
      BY <3>1, <3>2 DEF Attempt
    <3>4. \A i \in Job \ {passing.job} : attempt'[i] = attempt[i]
      BY <2>1 DEF PassCommits
    <3> QED BY <1>2, <2>1, <3>1, <3>3, <3>4 DEF PassInv, PassCommits
  <2>2. ASSUME NEW j \in Job, Schedule(j) PROVE PublishedIsInCatalog'
    BY <1>2, <2>2 DEF Schedule, Attempt
  <2>3. CASE TransferCommits
    BY <1>2, <2>3 DEF TransferCommits, Tells, Attempt
  <2> QED BY <1>3, <1>4, <2>1, <2>2, <2>3 DEF OfficeStep, PassReads, PassAborts,
          ManifestSets, TransferReads, TransferAborts, ledgerVars
<1>5. ASSUME NEW p \in Plan, PipelineStep(p) PROVE PublishedIsInCatalog'
  <2>1. CASE RefuseCommits(p)
    BY <1>2, <2>1 DEF RefuseCommits, Tells, Attempt
  <2>2. CASE PublishCommits(p)
    BY <1>2, <2>2 DEF PublishCommits, Tells, AttemptsOf, Attempt
  <2> QED BY <1>3, <1>5, <2>1, <2>2 DEF PipelineStep, RefuseReads, AssertsOwner,
          CloseAborts, ledgerVars
<1>6. ASSUME NEW w \in Worker, SyncStep(w) PROVE PublishedIsInCatalog'
  <2>1. ASSUME NEW s, NEW p, s # "published", Answers(w, s, p)
        PROVE  PublishedIsInCatalog'
    BY <1>2, <2>1 DEF Answers, Attempt
  <2>2. CASE SyncIsFenced(w)
    BY <1>2, <2>2 DEF SyncIsFenced, Attempt
  <2> QED BY <1>3, <1>6, <2>1, <2>2 DEF SyncStep, SyncEnds, SyncLooks, PassesFence,
          SyncSkips, SyncRefuses, SyncJoins, SyncRaises, SyncFindsPublished, SyncStarts,
          SyncReuses, ledgerVars
<1>7. ASSUME NEW w \in Worker, WorkerLoop(w) PROVE PublishedIsInCatalog'
  <2>1. ASSUME Records(w) PROVE PublishedIsInCatalog'
    <3>1. recording[w].outcome \in [Job -> {"none", "retry_wait", "dead_lettered"}]
      BY DEF Recording
    <3> QED BY <1>2, <2>1, <3>1 DEF Records, Recorded, Attempt
  <2> QED BY <1>3, <1>7, <2>1 DEF WorkerLoop, Polls, PollReads, PollCommits, PollAborts,
          SettleSilently, SettleReads, SettleCommits, Dies, ledgerVars
<1> QED BY <1>3, <1>4, <1>5, <1>6, <1>7 DEF UpNext, Ticks, upVars, ledgerVars

(* An attempt that says it was published names a plan of the catalog. *)
THEOREM PublishedAttemptsAreTrue == UpSpec => []PublishedIsInCatalog
<1>1. UpInit => ContentInv /\ PassInv /\ PublishedIsInCatalog
  BY DEF UpInit, ContentInv, ContentOnce, Live, PassInv, NotPassing,
     PublishedIsInCatalog
<1> QED BY <1>1, UpInvariant, ContentInvStep, PassInvStep, PublishedStep, PTL
        DEF UpSpec

-----------------------------------------------------------------------------
(* The promise of the pipeline.  A refusal is decided on a plan that is open or
   published and committed later; nothing else moves the plan meanwhile. *)
RefusingInv == \A p \in Plan : closing[p].step = "refusing" =>
                                  plan[p].state \in {"open", "published"}

LEMMA ClosingSteps ==
    ASSUME LedgerTypes, [UpNext]_upVars, NEW p \in Plan
    PROVE  closing'[p].step = "refusing" => \/ closing[p].step = "refusing"
                                            \/ RefuseReads(p)
<1>1. ASSUME NEW q \in Plan, PipelineStep(q)
      PROVE  closing'[p].step = "refusing" => closing[p].step = "refusing" \/ RefuseReads(p)
  BY <1>1 DEF LedgerTypes, PipelineStep, RefuseReads, RefuseCommits, AssertsOwner,
     PublishCommits, CloseAborts, NotClosing, Closing
<1>2. ASSUME OfficeStep \/ Ticks \/ UNCHANGED upVars
      PROVE  closing' = closing
  BY <1>2 DEF OfficeStep, Schedule, PassReads, PassCommits, PassAborts, ManifestSets,
     TransferReads, TransferCommits, TransferAborts, Ticks, upVars
<1>3. ASSUME NEW w \in Worker, SyncStep(w)
      PROVE  closing' = closing
  BY <1>3 DEF SyncStep, SyncEnds, SyncLooks, PassesFence, SyncSkips, SyncIsFenced,
     SyncRefuses, SyncJoins, SyncRaises, SyncFindsPublished, SyncStarts, SyncReuses
<1>4. ASSUME NEW w \in Worker, WorkerLoop(w)
      PROVE  closing' = closing
  BY <1>4 DEF WorkerLoop, Polls, PollReads, PollCommits, PollAborts, SettleSilently,
     SettleReads, SettleCommits, Dies, Records
<1> QED BY <1>1, <1>2, <1>3, <1>4 DEF UpNext

LEMMA RefusingInvStep == UpInv /\ RefusingInv /\ [UpNext]_upVars => RefusingInv'
<1> SUFFICES ASSUME LedgerTypes, RefusingInv, [UpNext]_upVars,
                    NEW p \in Plan, closing'[p].step = "refusing"
             PROVE  plan'[p].state \in {"open", "published"}
  BY DEF UpInv, RefusingInv
<1> USE DEF LedgerTypes
<1>1. plan[p].state \in {"open", "published"}
  BY ClosingSteps DEF RefusingInv, RefuseReads
<1>2. ASSUME NEW w \in Worker, NEW q \in Plan, NEW c \in Content, SyncStarts(w, q, c)
      PROVE  plan'[p].state = plan[p].state
  BY <1>1, <1>2 DEF SyncStarts
<1>3. ASSUME NEW q \in Plan, RefuseCommits(q) \/ PublishCommits(q)
      PROVE  plan'[p].state \in {plan[p].state, "published"}
  <2>1. p = q => closing'[p].step # "refusing"
    BY <1>3 DEF RefuseCommits, PublishCommits, NotClosing
  <2> QED BY <1>3, <2>1 DEF RefuseCommits, PublishCommits, PlanRow
<1> QED BY <1>1, <1>2, <1>3, PlanSteps

LEMMA VersionOfPlan == \A p \in Plan : VersionOf[p] = p
BY DEF VersionOf

LEMMA PromisedStep ==
    ASSUME UpInv, ContentInv, RefusingInv, [UpNext]_upVars
    PROVE  [Promise!PromisedNext]_(Promise!promisedVars)
<1> DEFINE seen == [p \in Plan |-> IF p \in catalog THEN p ELSE NoPlan]
<1>0. LedgerTypes /\ LockInv
  BY DEF UpInv
<1>1. CASE UNCHANGED <<plan, catalog>>
  BY <1>1 DEF Promise!promisedVars, PlanVerdict
<1>2. ASSUME NEW w \in Worker, NEW p \in Plan, NEW c \in Content, SyncStarts(w, p, c)
      PROVE  Promise!PromisedNext
  <2>1. /\ plan[p].state = "absent"
        /\ plan' = [plan EXCEPT ![p] = [state |-> "open", content |-> c]]
        /\ catalog' = catalog
    BY <1>2 DEF SyncStarts
  <2>2. PlanVerdict' = [PlanVerdict EXCEPT ![p] = "in_progress"]
    <3> DEFINE started == [state |-> "open", content |-> c]
    <3>1. started.state = "open" /\ plan' = [plan EXCEPT ![p] = started]
      BY <2>1
    <3> HIDE DEF started
    <3> QED BY <1>0, <3>1 DEF LedgerTypes, PlanVerdict
  <2>3. PlanVerdict[p] = "none"
    BY <2>1 DEF PlanVerdict
  <2>4. Promise!Submits(p)
    BY <2>1, <2>2, <2>3 DEF Promise!Submits, Promise!Moves
  <2> QED BY <2>4 DEF Promise!PromisedNext
<1>3. ASSUME NEW p \in Plan, RefuseCommits(p)
      PROVE  Promise!PromisedNext
  <2>1. plan[p].state \in {"open", "published"}
    BY <1>3 DEF RefuseCommits, RefusingInv
  <2>2. /\ plan' = [plan EXCEPT ![p] = [plan[p] EXCEPT !.state = "failed"]]
        /\ [plan[p] EXCEPT !.state = "failed"].state = "failed"
        /\ catalog' = catalog
    BY <1>0, <1>3 DEF RefuseCommits, LedgerTypes, PlanRow
  <2>3. /\ PlanVerdict[p] \in {"in_progress", "published"}
        /\ PlanVerdict' = [PlanVerdict EXCEPT ![p] = "refused"]
    BY <1>0, <2>1, <2>2 DEF LedgerTypes, PlanVerdict
  <2>4. Promise!Refuses(p)
    BY <2>2, <2>3 DEF Promise!Refuses, Promise!Moves
  <2> QED BY <2>4 DEF Promise!PromisedNext
<1>4. ASSUME NEW p \in Plan, PublishCommits(p)
      PROVE  Promise!PromisedNext
  <2>1. plan[p].state = "open"
    BY <1>0, <1>4 DEF PublishCommits, LockInv
  <2>2. /\ plan' = [plan EXCEPT ![p] = [plan[p] EXCEPT !.state = "published"]]
        /\ [plan[p] EXCEPT !.state = "published"].state = "published"
        /\ catalog' = catalog \cup {p}
    BY <1>0, <1>4 DEF PublishCommits, LedgerTypes, PlanRow
  <2>3. /\ PlanVerdict[p] = "in_progress"
        /\ PlanVerdict' = [PlanVerdict EXCEPT ![p] = "published"]
    BY <1>0, <2>1, <2>2 DEF LedgerTypes, PlanVerdict
  <2>4. /\ seen[VersionOf[p]] \in {NoPlan, VersionOf[p]}
        /\ seen' = [seen EXCEPT ![VersionOf[p]] = VersionOf[p]]
    BY <2>2, VersionOfPlan
  <2>5. Promise!Publishes(p)
    BY <2>3, <2>4 DEF Promise!Publishes, Promise!Moves
  <2> QED BY <2>5 DEF Promise!PromisedNext
<1> QED BY <1>1, <1>2, <1>3, <1>4, PlanSteps

(* What the ledger assumes of the publication pipeline is what the pipeline
   promises: a refusal is final, and a plan is published by the commit that
   brings its version. *)
THEOREM LedgerKeepsPromise == UpSpec => KeepsPublicationPromise
<1>1. UpInit => /\ ContentInv
                /\ RefusingInv
                /\ Promise!PromisedInit
  BY DEF UpInit, ContentInv, ContentOnce, Live, RefusingInv, NotClosing,
     Promise!PromisedInit, PlanVerdict
<1>2. UpInv /\ ContentInv /\ RefusingInv /\ [UpNext]_upVars
         => [Promise!PromisedNext]_(Promise!promisedVars)
  BY PromisedStep
<1> QED BY <1>1, <1>2, UpInvariant, ContentInvStep, RefusingInvStep, PTL
        DEF UpSpec, KeepsPublicationPromise, Promise!PromisedSpec

-----------------------------------------------------------------------------
(* Whoever waits can be told.  An attempt is written only after its job was
   inserted, whose row is never removed here, and only a transfer cancels jobs:
   every state that a transaction has read and will write is about a job that
   exists. *)
Present(j) == row[j].state # "absent"

PresentInv ==
    /\ \A j \in Job : /\ attempt[j].state # "absent" => Present(j)
                      /\ attempt[j].plan # NoPlan => Present(j)
                      /\ row[j].state = "cancelled" => source = "transferred"
    /\ \A w \in Worker :
          /\ worker[w].pc # "polling" => Present(worker[w].job)
          /\ \A j \in Job : recording[w].outcome[j] # "none" => Present(j)
    /\ \A p \in Plan : \A j \in closing[p].attempts : Present(j)
    /\ \A j \in transferring.attempts : Present(j)
    /\ passing.job # NoJob => Present(passing.job)

(* The states that the queue itself gives to a row. *)
Delivers(j) == row'[j].state \in {row[j].state, "queued", "running", "succeeded",
                                  "dead_letter", "retry_scheduled"}

LEMMA SweptDelivers ==
    ASSUME AttemptInv, NEW stale \in SUBSET ExpiredJobs, NEW j \in Job
    PROVE  /\ Swept(stale) \in [Job -> Row]
           /\ \/ Swept(stale)[j] = row[j]
              \/ /\ row[j].state = "running"
                 /\ Swept(stale)[j].state \in {"queued", "dead_letter"}
<1>1. RowsGood
  BY AttemptInvParts
<1>2. Swept(stale) \in [Job -> Row]
  BY <1>1, SweptGood
<1>3. ASSUME j \in stale
      PROVE  /\ row[j].state = "running"
             /\ Swept(stale)[j].state \in {"queued", "dead_letter"}
  <2>1. row[j].state = "running" /\ row[j] \in Row
    BY <1>1, <1>3 DEF ExpiredJobs, Expired, RowsGood
  <2>2. Reclaimed(row[j]).state \in {"queued", "dead_letter"}
    BY <2>1 DEF Reclaimed, Released, Row
  <2> QED BY <1>3, <2>1, <2>2 DEF Swept
<1>4. j \notin stale => Swept(stale)[j] = row[j]
  BY DEF Swept
<1> QED BY <1>2, <1>3, <1>4

LEMMA ClaimDelivers ==
    ASSUME AttemptInv, NEW w \in Worker, NEW stale \in SUBSET ExpiredJobs,
           NEW k \in Job, Claim(w, k, stale)
    PROVE  /\ \A j \in Job : Delivers(j)
           /\ Present(k)
           /\ worker'[w].job = k
<1>1. \A j \in Job : /\ Swept(stale) \in [Job -> Row]
                     /\ \/ Swept(stale)[j] = row[j]
                        \/ /\ row[j].state = "running"
                           /\ Swept(stale)[j].state \in {"queued", "dead_letter"}
  BY SweptDelivers
<1>2. /\ Swept(stale)[k].state \in Claimable
      /\ row' = [Swept(stale) EXCEPT ![k] = Claimed(@, w)]
      /\ worker' = [worker EXCEPT ![w] = [Polling EXCEPT !.pc = "handling", !.job = k,
                                                         !.beating = TRUE]]
  BY DEF Claim
<1>3. row'[k].state = "running"
  BY <1>1, <1>2 DEF Claimed, Row
<1>4. \A j \in Job \ {k} : row'[j] = Swept(stale)[j]
  BY <1>1, <1>2
<1>5. Present(k)
  BY <1>1, <1>2 DEF Present, Claimable
<1>6. worker'[w].job = k
  BY <1>2 DEF AttemptInv, TypeOK, Polling
<1> QED BY <1>1, <1>3, <1>4, <1>5, <1>6 DEF Delivers

LEMMA SettleDelivers ==
    ASSUME AttemptInv, NEW w \in Worker, Settle(w), NEW j \in Job
    PROVE  Delivers(j)
<1>1. worker[w].job \in Job /\ row \in [Job -> Row]
  BY DEF Settle, AttemptInv, TypeOK
<1>2. row[worker[w].job] \in Row
  BY <1>1
<1>3. SettledRow(w).state \in {"succeeded", "dead_letter", "retry_scheduled"}
  BY <1>2 DEF SettledRow, Succeeded, Failed, Released, Row
<1>4. row' = [row EXCEPT ![worker[w].job] = SettledRow(w)]
  BY DEF Settle
<1> QED BY <1>1, <1>3, <1>4 DEF Delivers

LEMMA TicksDeliver ==
    ASSUME AttemptInv, Ticks, NEW j \in Job
    PROVE  row'[j].state = row[j].state
<1>1. row \in [Job -> Row] /\ row[j] \in Row
  BY DEF AttemptInv, TypeOK
<1>2. ASSUME NEW k \in Job, \/ row' = [row EXCEPT ![k].leased = TRUE]
                            \/ row' = [row EXCEPT ![k].leased = FALSE]
                            \/ row' = [row EXCEPT ![k].due = TRUE]
      PROVE  row'[j].state = row[j].state
  BY <1>1, <1>2 DEF Row
<1>3. ASSUME NEW w \in Worker, Heartbeat(w) PROVE row'[j].state = row[j].state
  <2>1. worker[w].job \in Job
    BY <1>3 DEF Heartbeat, AttemptInv, TypeOK
  <2> QED BY <1>2, <1>3, <2>1 DEF Heartbeat
<1> QED BY <1>2, <1>3 DEF Ticks, ReadRow, LeaseExpires, BackoffElapses

LEMMA CommitsDelivers ==
    ASSUME AttemptInv, NEW w \in Worker, Commits(w)
    PROVE  row' = row
<1>1. row \in [Job -> Row]
  BY DEF AttemptInv, TypeOK
<1>2. row' = Enqueued(row, {}, TRUE)
  BY DEF Commits, HandlerCommits, HandlerCommitUnacknowledged
<1>3. Enqueued(row, {}, TRUE) = [j \in Job |-> row[j]]
  BY DEF Enqueued
<1> QED BY <1>1, <1>2, <1>3

LEMMA LoopDelivers ==
    ASSUME QueueInv, LedgerTypes, NEW w \in Worker, WorkerLoop(w), NEW j \in Job
    PROVE  Delivers(j)
<1>1. AttemptInv
  BY DEF QueueInv
<1>2. ASSUME UNCHANGED vars PROVE Delivers(j)
  BY <1>2 DEF vars, Delivers
<1>3. ASSUME NEW stale \in SUBSET ExpiredJobs,
             Sweep(w, stale) \/ \E k \in Job : Claim(w, k, stale)
      PROVE  Delivers(j)
  <2>1. CASE Sweep(w, stale)
    BY <1>1, <2>1, SweptDelivers DEF Sweep, Delivers
  <2> QED BY <1>1, <1>3, <2>1, ClaimDelivers
<1>4. CASE Polls(w)
  BY <1>3, <1>4 DEF Polls, Sweepable
<1>5. CASE PollCommits(w)
  <2>1. recording[w].rows \subseteq ExpiredJobs
    BY <1>5 DEF PollCommits, QueueInv, RecordedExpired
  <2> QED BY <1>2, <1>3, <1>5, <2>1 DEF PollCommits
<1>6. CASE SettleSilently(w) \/ SettleCommits(w)
  BY <1>1, <1>6, SettleDelivers DEF SettleSilently, SettleCommits
<1>7. CASE Dies(w)
  <2>1. row \in [Job -> Row] /\ row[j] \in Row
    BY <1>1 DEF AttemptInv, TypeOK
  <2>2. [Released(row[j]) EXCEPT !.state = "queued"].state = "queued"
    BY <2>1 DEF Released, Row
  <2>3. CASE Drain(w)
    <3>1. row'[j] \in {row[j], [Released(row[j]) EXCEPT !.state = "queued"]}
      BY <2>3 DEF Drain
    <3> QED BY <2>2, <3>1 DEF Delivers
  <2> QED BY <1>7, <2>3 DEF Dies, Abandon, Delivers
<1>8. CASE PollReads(w) \/ PollAborts(w) \/ SettleReads(w)
  BY <1>2, <1>8 DEF PollReads, PollAborts, SettleReads
<1> QED BY <1>4, <1>5, <1>6, <1>7, <1>8 DEF WorkerLoop

LEMMA SyncDelivers ==
    ASSUME AttemptInv, NEW w \in Worker, SyncStep(w)
    PROVE  row' = row
<1>1. CASE UNCHANGED vars
  BY <1>1 DEF vars
<1>2. CASE HandlerFails(w, "retry")
  BY <1>2 DEF HandlerFails
<1>3. CASE Commits(w)
  BY <1>3, CommitsDelivers
<1> QED BY <1>1, <1>2, <1>3 DEF SyncStep, SyncEnds, SyncLooks, PassesFence, SyncSkips,
     SyncIsFenced, SyncRefuses, SyncJoins, SyncRaises, SyncFindsPublished, SyncStarts,
     SyncReuses

LEMMA EnqueueDelivers ==
    ASSUME AttemptInv, NEW k \in Job, Enqueue(k)
    PROVE  /\ \A j \in Job : Delivers(j)
           /\ row'[k].state = "queued"
<1>1. PICK due \in BOOLEAN : row' = Enqueued(row, {k}, due)
  BY DEF Enqueue
<1>2. row'[k].state = "queued"
  BY <1>1 DEF Enqueue, Enqueued, FreshRow, NoRow
<1> QED BY <1>1, <1>2 DEF Enqueued, Delivers

(* Only the transfer does more to a row than the queue, and it ends all work. *)
LEMMA RowsStay ==
    ASSUME UpInv, [UpNext]_upVars, NEW j \in Job
    PROVE  \/ Delivers(j)
           \/ /\ TransferCommits
              /\ row'[j].state = "cancelled"
<1>1. AttemptInv /\ QueueInv /\ LedgerTypes /\ row[j] \in Row
  BY DEF UpInv, QueueInv, AttemptInv, TypeOK
<1>2. ASSUME row' = row PROVE Delivers(j)
  BY <1>2 DEF Delivers
<1>3. CASE UNCHANGED upVars
  BY <1>2, <1>3 DEF upVars, vars
<1>4. CASE Ticks
  BY <1>1, <1>4, TicksDeliver DEF Delivers
<1>5. ASSUME NEW w \in Worker, SyncStep(w) \/ WorkerLoop(w) PROVE Delivers(j)
  BY <1>1, <1>2, <1>5, SyncDelivers, LoopDelivers
<1>6. ASSUME NEW p \in Plan, PipelineStep(p) PROVE Delivers(j)
  BY <1>2, <1>6 DEF PipelineStep, RefuseReads, RefuseCommits, AssertsOwner,
     PublishCommits, CloseAborts, vars
<1>7. CASE TransferCommits
  BY <1>1, <1>7 DEF TransferCommits, Delivers, Row
<1>8. CASE OfficeStep /\ ~TransferCommits
  BY <1>1, <1>2, <1>8, EnqueueDelivers DEF OfficeStep, Schedule, PassReads, PassCommits,
     PassAborts, ManifestSets, TransferReads, TransferAborts, vars
<1> QED BY <1>3, <1>4, <1>5, <1>6, <1>7, <1>8 DEF UpNext

LEMMA PresentStays ==
    ASSUME UpInv, PresentInv, [UpNext]_upVars, NEW j \in Job, Present(j)
    PROVE  Present(j)'
BY RowsStay DEF Delivers, Present

(* What is written into an attempt is about a job that exists. *)
LEMMA AttemptsArePresent ==
    ASSUME UpInv, PresentInv, [UpNext]_upVars, NEW j \in Job
    PROVE  attempt'[j] = attempt[j] \/ Present(j)'
<1>1. AttemptInv /\ LedgerTypes /\ attempt \in [Job -> Attempt]
  BY DEF UpInv, QueueInv, LedgerTypes
<1>2. Present(j) => Present(j)'
  BY PresentStays
<1>3. SUFFICES ASSUME ~Present(j) PROVE attempt'[j] = attempt[j] \/ Present(j)'
  BY <1>2
<1>4. ASSUME NEW js, NEW state, Tells(js, state), j \notin js
      PROVE  attempt'[j] = attempt[j]
  BY <1>4 DEF Tells
<1>5. CASE OfficeStep
  <2>1. ASSUME NEW k \in Job, Schedule(k) PROVE attempt'[j] = attempt[j] \/ Present(j)'
    <3>1. row'[k].state = "queued" /\ attempt' = [attempt EXCEPT ![k].state = "queued"]
      BY <1>1, <2>1, EnqueueDelivers DEF Schedule
    <3> QED BY <1>1, <3>1 DEF Present
  <2>2. CASE PassCommits
    BY <1>1, <1>3, <2>2 DEF PassCommits, PresentInv
  <2>3. CASE TransferCommits
    BY <1>3, <1>4, <2>3 DEF TransferCommits, PresentInv
  <2> QED BY <1>5, <2>1, <2>2, <2>3 DEF OfficeStep, PassReads, PassAborts, ManifestSets,
          TransferReads, TransferAborts, ledgerVars
<1>6. ASSUME NEW p \in Plan, PipelineStep(p) PROVE attempt'[j] = attempt[j]
  <2>1. j \notin closing[p].attempts
    BY <1>3 DEF PresentInv
  <2>2. j \notin AttemptsOf(p)
    <3>1. attempt[j].plan = NoPlan
      BY <1>3 DEF PresentInv
    <3> QED BY <3>1, NoneAssumption DEF AttemptsOf
  <2> QED BY <1>4, <1>6, <2>1, <2>2 DEF PipelineStep, RefuseReads, RefuseCommits,
          AssertsOwner, PublishCommits, CloseAborts, ledgerVars
<1>7. ASSUME NEW w \in Worker, SyncStep(w) PROVE attempt'[j] = attempt[j]
  <2>1. worker[w].pc # "polling" => j # worker[w].job
    BY <1>3 DEF PresentInv
  <2>2. \A state, p : Answers(w, state, p) /\ worker[w].pc # "polling"
           => attempt'[j] = attempt[j]
    BY <1>1, <2>1 DEF Answers
  <2> QED BY <1>1, <1>7, <2>1, <2>2 DEF SyncStep, SyncEnds, SyncLooks, PassesFence,
          SyncSkips, SyncIsFenced, SyncRefuses, SyncJoins, SyncRaises,
          SyncFindsPublished, SyncStarts, SyncReuses, Runs, ledgerVars
<1>8. ASSUME NEW w \in Worker, WorkerLoop(w) PROVE attempt'[j] = attempt[j]
  <2>1. recording[w].outcome[j] = "none"
    BY <1>3 DEF PresentInv
  <2>2. Records(w) => attempt'[j] = attempt[j]
    BY <2>1 DEF Records, Recorded
  <2> QED BY <1>8, <2>2 DEF WorkerLoop, Polls, PollReads, PollCommits, PollAborts,
          SettleSilently, SettleReads, SettleCommits, Dies, ledgerVars
<1> QED BY <1>5, <1>6, <1>7, <1>8 DEF UpNext, Ticks, upVars, ledgerVars

(* What is read is about jobs that exist. *)
LEMMA ReadsArePresent ==
    ASSUME UpInv, PresentInv, [UpNext]_upVars
    PROVE  /\ \A p \in Plan : \A j \in closing'[p].attempts : Present(j)
           /\ \A j \in transferring'.attempts : Present(j)
           /\ \A w \in Worker, j \in Job : recording'[w].outcome[j] # "none" => Present(j)
           /\ passing'.job # NoJob => Present(passing'.job)
<1>1. AttemptInv /\ LedgerTypes /\ row \in [Job -> Row]
  BY DEF UpInv, QueueInv, AttemptInv, TypeOK
<1>2. ASSUME NEW p \in Plan, NEW j \in closing'[p].attempts PROVE Present(j)
  <2>1. ASSUME closing' = closing PROVE Present(j)
    BY <1>2, <2>1 DEF PresentInv
  <2>2. ASSUME NEW q \in Plan, PipelineStep(q) PROVE Present(j)
    <3>1. \/ closing'[p].attempts \subseteq closing[p].attempts
          \/ closing'[p].attempts \subseteq AttemptsOf(p)
      BY <1>1, <2>2 DEF PipelineStep, RefuseReads, RefuseCommits, AssertsOwner,
         PublishCommits, CloseAborts, NotClosing, LedgerTypes, Closing
    <3>2. ASSUME j \in AttemptsOf(p) PROVE Present(j)
      BY <3>2, NoneAssumption DEF AttemptsOf, PresentInv
    <3> QED BY <1>2, <3>1, <3>2 DEF PresentInv
  <2> QED BY <2>1, <2>2 DEF UpNext, OfficeStep, Schedule, PassReads, PassCommits,
          PassAborts, ManifestSets, TransferReads, TransferCommits, TransferAborts,
          SyncStep, SyncEnds, SyncLooks, PassesFence, SyncSkips, SyncIsFenced,
          SyncRefuses, SyncJoins, SyncRaises, SyncFindsPublished, SyncStarts,
          SyncReuses, WorkerLoop, Polls, PollReads, PollCommits, PollAborts,
          SettleSilently, SettleReads, SettleCommits, Dies, Records, Ticks, upVars
<1>3. ASSUME NEW j \in transferring'.attempts PROVE Present(j)
  <2>1. ASSUME transferring' = transferring PROVE Present(j)
    BY <1>3, <2>1 DEF PresentInv
  <2>2. CASE TransferReads
    BY <1>3, <2>2 DEF TransferReads, PresentInv
  <2>3. CASE TransferCommits \/ TransferAborts
    BY <1>3, <2>3 DEF TransferCommits, TransferAborts, NotTransferring
  <2> QED BY <2>1, <2>2, <2>3 DEF UpNext, OfficeStep, Schedule, PassReads, PassCommits,
          PassAborts, ManifestSets, PipelineStep, RefuseReads, RefuseCommits,
          AssertsOwner, PublishCommits, CloseAborts, SyncStep, SyncEnds, SyncLooks,
          PassesFence, SyncSkips, SyncIsFenced, SyncRefuses, SyncJoins, SyncRaises,
          SyncFindsPublished, SyncStarts, SyncReuses, WorkerLoop, Polls, PollReads,
          PollCommits, PollAborts, SettleSilently, SettleReads, SettleCommits, Dies,
          Records, Ticks, upVars
<1>4. ASSUME NEW w \in Worker, NEW j \in Job, recording'[w].outcome[j] # "none"
      PROVE  Present(j)
  <2>1. ASSUME recording'[w] = recording[w] PROVE Present(j)
    BY <1>4, <2>1 DEF PresentInv
  <2>2. recording'[w] # NotRecording
    BY <1>4 DEF NotRecording
  <2>3. ASSUME NEW stale \in SUBSET Sweepable,
               recording'[w].outcome = OutcomesOf(Swept(stale))
        PROVE  Present(j)
    <3>1. Swept(stale)[j].state \in {"dead_letter", "retry_scheduled"}
      BY <1>4, <2>3 DEF OutcomesOf, OutcomeOf
    <3>2. Swept(stale)[j] = row[j] \/ row[j].state = "running"
      BY <1>1, SweptDelivers DEF Sweepable
    <3> QED BY <3>1, <3>2 DEF Present
  <2>4. ASSUME worker[w].pc = "settling", recording'[w].outcome = SettleOutcome(w)
        PROVE  Present(j)
    <3>1. j = worker[w].job
      BY <1>4, <2>4 DEF SettleOutcome, NoOutcomes
    <3> QED BY <2>4, <3>1 DEF PresentInv
  <2>5. ASSUME NEW v \in Worker, WorkerLoop(v)
        PROVE  \/ recording'[w] \in {recording[w], NotRecording}
               \/ \E stale \in SUBSET Sweepable :
                     recording'[w].outcome = OutcomesOf(Swept(stale))
               \/ worker[w].pc = "settling" /\ recording'[w].outcome = SettleOutcome(w)
    <3>1. recording \in [Worker -> Recording]
      BY <1>1 DEF LedgerTypes
    <3>2. CASE PollReads(v)
      <4> PICK stale \in SUBSET Sweepable : recording' = [recording EXCEPT
                 ![v] = [rows |-> stale, outcome |-> OutcomesOf(Swept(stale))]]
        BY <3>2 DEF PollReads
      <4> QED BY <3>1
    <3>3. CASE SettleReads(v)
      BY <3>1, <3>3 DEF SettleReads
    <3> QED BY <2>5, <3>1, <3>2, <3>3 DEF WorkerLoop, Polls, PollCommits, PollAborts,
            SettleSilently, SettleCommits, Dies, Records
  <2>6. ASSUME NEW v \in Worker, WorkerLoop(v) PROVE Present(j)
    BY <2>1, <2>2, <2>3, <2>4, <2>5, <2>6
  <2> QED BY <2>1, <2>6 DEF UpNext, OfficeStep, Schedule, PassReads, PassCommits,
          PassAborts, ManifestSets, TransferReads, TransferCommits, TransferAborts,
          PipelineStep, RefuseReads, RefuseCommits, AssertsOwner, PublishCommits,
          CloseAborts, SyncStep, SyncEnds, SyncLooks, PassesFence, SyncSkips,
          SyncIsFenced, SyncRefuses, SyncJoins, SyncRaises, SyncFindsPublished,
          SyncStarts, SyncReuses, Ticks, upVars
<1>5. ASSUME passing'.job # NoJob PROVE Present(passing'.job)
  <2>1. ASSUME NEW j \in Job, PassReads(j) PROVE Present(passing'.job)
    BY <2>1 DEF PassReads, PresentInv
  <2> QED BY <1>5, <2>1, PassingSteps DEF PresentInv, NotPassing
<1> QED BY <1>2, <1>3, <1>4, <1>5

(* A worker is at a job that exists. *)
LEMMA WorkersArePresent ==
    ASSUME UpInv, PresentInv, [UpNext]_upVars, NEW w \in Worker,
           worker'[w].pc # "polling"
    PROVE  row'[worker'[w].job].state # "absent"
<1>1. AttemptInv /\ QueueInv /\ LedgerTypes /\ worker \in [Worker -> Process]
  BY DEF UpInv, QueueInv, AttemptInv, TypeOK
<1>2. ASSUME worker[w].pc # "polling", worker'[w].job = worker[w].job
      PROVE  row'[worker'[w].job].state # "absent"
  <2>1. worker[w].job \in Job /\ Present(worker[w].job)
    BY <1>1, <1>2 DEF PresentInv, AttemptInv, TypeOK
  <2>2. \A j \in Job : Present(j) => Present(j)'
    BY PresentStays
  <2> QED BY <1>2, <2>1, <2>2 DEF Present
<1>3. CASE worker' = worker
  BY <1>2, <1>3
<1>4. ASSUME NEW v \in Worker, NEW k \in Job, NEW stale \in SUBSET ExpiredJobs,
             Claim(v, k, stale)
      PROVE  row'[worker'[w].job].state # "absent"
  <2>1. CASE v = w
    BY <1>1, <1>4, <2>1, ClaimDelivers DEF Present, Delivers
  <2>2. CASE v # w
    BY <1>1, <1>2, <1>4, <2>2 DEF Claim
  <2> QED BY <2>1, <2>2
<1>5. ASSUME NEW v \in Worker, worker[v].pc # "polling",
             \A u \in Worker \ {v} : worker'[u] = worker[u],
             worker'[v] = Polling \/ worker'[v].job = worker[v].job
      PROVE  row'[worker'[w].job].state # "absent"
  <2>1. v = w => worker'[w].job = worker[w].job
    BY <1>5 DEF Polling
  <2> QED BY <1>2, <1>5, <2>1
<1>6. ASSUME NEW v \in Worker, SyncStep(v) PROVE row'[worker'[w].job].state # "absent"
  <2>0. worker[v] \in Process
    BY <1>1
  <2>1. CASE HandlerFails(v, "retry")
    BY <1>1, <1>5, <2>0, <2>1 DEF HandlerFails, Process
  <2>2. CASE Commits(v)
    <3>1. PICK verdict : worker' = [worker EXCEPT ![v].pc = "reporting",
                                                  ![v].verdict = verdict]
      BY <2>2 DEF Commits, HandlerCommits, HandlerCommitUnacknowledged
    <3>2. worker[v].pc # "polling"
      BY <2>2 DEF Commits, HandlerCommits, HandlerCommitUnacknowledged
    <3> QED BY <1>1, <1>5, <2>0, <3>1, <3>2 DEF Process
  <2> QED BY <1>3, <1>6, <2>1, <2>2 DEF SyncStep, SyncEnds, SyncLooks, PassesFence,
          SyncSkips, SyncIsFenced, SyncRefuses, SyncJoins, SyncRaises,
          SyncFindsPublished, SyncStarts, SyncReuses, vars
<1>7. ASSUME NEW v \in Worker, WorkerLoop(v) PROVE row'[worker'[w].job].state # "absent"
  <2>1. CASE Polls(v)
    BY <1>3, <1>4, <2>1 DEF Polls, Sweep, Sweepable
  <2>2. CASE PollCommits(v)
    <3>1. recording[v].rows \subseteq ExpiredJobs
      BY <1>1, <2>2 DEF PollCommits, QueueInv, RecordedExpired
    <3> QED BY <1>3, <1>4, <2>2, <3>1 DEF PollCommits, Sweep, vars
  <2>3. CASE SettleSilently(v) \/ SettleCommits(v)
    <3>1. worker[v].pc # "polling" /\ worker' = [worker EXCEPT ![v] = Polling]
      BY <2>3 DEF SettleSilently, SettleCommits, Settle
    <3> QED BY <1>1, <1>5, <3>1
  <2>4. CASE Dies(v)
    <3>1. worker' = [worker EXCEPT ![v] = Polling]
      BY <2>4 DEF Dies, Abandon, Drain
    <3> QED BY <1>1, <1>2, <3>1 DEF Polling
  <2> QED BY <1>3, <1>7, <2>1, <2>2, <2>3, <2>4 DEF WorkerLoop, PollReads, PollAborts,
          SettleReads, vars
<1>8. CASE Ticks
  <2>1. ASSUME NEW v \in Worker, Heartbeat(v) PROVE row'[worker'[w].job].state # "absent"
    <3>1. worker[v] \in Process
      BY <1>1
    <3> QED BY <1>1, <1>5, <2>1, <3>1 DEF Heartbeat, Process
  <2>2. ASSUME NEW v \in Worker, ReadRow(v) PROVE row'[worker'[w].job].state # "absent"
    <3>1. worker[v] \in Process
      BY <1>1
    <3> QED BY <1>1, <1>5, <2>2, <3>1 DEF ReadRow, Process
  <2> QED BY <1>3, <1>8, <2>1, <2>2 DEF Ticks, LeaseExpires, BackoffElapses
<1> QED BY <1>3, <1>6, <1>7, <1>8 DEF UpNext, OfficeStep, Schedule, Enqueue, PassReads,
        PassCommits, PassAborts, ManifestSets, TransferReads, TransferCommits,
        TransferAborts, PipelineStep, RefuseReads, RefuseCommits, AssertsOwner,
        PublishCommits, CloseAborts, upVars, vars

LEMMA OnlyTransfersCancel ==
    ASSUME UpInv, PresentInv, [UpNext]_upVars, NEW j \in Job,
           row'[j].state = "cancelled"
    PROVE  source' = "transferred"
<1>1. CASE TransferCommits
  BY <1>1 DEF TransferCommits
<1>2. CASE ~TransferCommits
  <2>1. row[j].state = "cancelled"
    BY <1>2, RowsStay DEF Delivers
  <2>2. source = "transferred"
    BY <2>1 DEF PresentInv
  <2> QED BY <1>2, <2>2 DEF UpNext, OfficeStep, Schedule, PassReads, PassCommits,
          PassAborts, ManifestSets, TransferReads, TransferAborts, PipelineStep,
          RefuseReads, RefuseCommits, AssertsOwner, PublishCommits, CloseAborts,
          SyncStep, SyncEnds, SyncLooks, PassesFence, SyncSkips, SyncIsFenced,
          SyncRefuses, SyncJoins, SyncRaises, SyncFindsPublished, SyncStarts,
          SyncReuses, WorkerLoop, Polls, PollReads, PollCommits, PollAborts,
          SettleSilently, SettleReads, SettleCommits, Dies, Records, Ticks, upVars,
          ledgerVars
<1> QED BY <1>1, <1>2

LEMMA PresentInvInit == UpInit => PresentInv
<1> SUFFICES ASSUME UpInit PROVE PresentInv
  OBVIOUS
<1>1. \A j \in Job : attempt[j] = [state |-> "absent", plan |-> NoPlan]
  BY DEF UpInit
<1>2. \A j \in Job : row[j].state # "cancelled"
  BY DEF UpInit, Init, NoRow
<1>3. \A w \in Worker : worker[w].pc = "polling" /\ recording[w] = NotRecording
  BY DEF UpInit, Init, Polling
<1>4. \A p \in Plan : closing[p].attempts = {}
  BY DEF UpInit, NotClosing
<1>5. transferring.attempts = {}
  BY DEF UpInit, NotTransferring
<1>6. passing.job = NoJob
  BY DEF UpInit, NotPassing
<1> QED BY <1>1, <1>2, <1>3, <1>4, <1>5, <1>6 DEF PresentInv, NotRecording

LEMMA PresentInvStep == UpInv /\ PresentInv /\ [UpNext]_upVars => PresentInv'
<1> SUFFICES ASSUME UpInv, PresentInv, [UpNext]_upVars PROVE PresentInv'
  OBVIOUS
<1>1. \A j \in Job : Present(j) => Present(j)'
  BY PresentStays
<1>2. ASSUME NEW j \in Job
      PROVE  /\ (attempt[j].state # "absent")' => Present(j)'
             /\ (attempt[j].plan # NoPlan)' => Present(j)'
  BY <1>1, <1>2, AttemptsArePresent DEF PresentInv
<1>3. \A j \in Job : (row[j].state = "cancelled")' => (source = "transferred")'
  BY OnlyTransfersCancel
<1>4. \A w \in Worker : (worker[w].pc # "polling")' => Present(worker[w].job)'
  BY WorkersArePresent DEF Present
<1>5. LedgerTypes'
  BY LedgerTypesStep DEF UpInv, QueueInv, AttemptInv
<1>6. \A p \in Plan : \A j \in closing'[p].attempts : Present(j)'
  <2>1. \A p \in Plan : closing'[p].attempts \subseteq Job
    BY <1>5 DEF LedgerTypes, Closing
  <2> QED BY <1>1, <2>1, ReadsArePresent
<1>7. \A j \in transferring'.attempts : Present(j)'
  <2>1. transferring'.attempts \subseteq Job
    BY <1>5 DEF LedgerTypes, Transferring
  <2> QED BY <1>1, <2>1, ReadsArePresent
<1>8. \A w \in Worker, j \in Job : recording'[w].outcome[j] # "none" => Present(j)'
  BY <1>1, ReadsArePresent
<1>9. (passing.job # NoJob)' => Present(passing.job)'
  <2>1. passing'.job # NoJob => passing'.job \in Job /\ Present(passing'.job)
    BY <1>5, ReadsArePresent DEF LedgerTypes, Passing
  <2> QED BY <1>1, <2>1 DEF Present
<1> QED BY <1>2, <1>3, <1>4, <1>6, <1>7, <1>8, <1>9 DEF PresentInv

LEMMA PresentIsTold == UpInv /\ PresentInv => WaitingCanBeTold
<1> SUFFICES ASSUME UpInv, PresentInv, NEW j \in Job, source = "enabled",
                    attempt[j].state \in Pending \cup {"publishing"}
             PROVE  /\ \/ row[j].state \in Claimable \cup {"running", "succeeded"}
                       \/ OutcomeOf(row[j], attempt[j]) = "dead_lettered"
                    /\ \A p \in Plan :
                          /\ attempt[j] = [state |-> "publishing", plan |-> p]
                          /\ plan[p].state = "failed"
                          /\ row[j].state \notin Claimable \cup {"running"}
                          => Reconciled(j) # attempt[j].state
  BY DEF WaitingCanBeTold
<1>1. row[j] \in Row /\ attempt[j] \in Attempt
  BY DEF UpInv, QueueInv, AttemptInv, TypeOK, LedgerTypes
<1>2. row[j].state \notin {"absent", "cancelled"}
  BY DEF PresentInv, Present, Pending
<1>3. row[j].state \in Claimable \cup {"running", "succeeded", "dead_letter"}
  BY <1>1, <1>2 DEF Row, JobState, Claimable, Terminal
<1>4. row[j].state = "dead_letter" => OutcomeOf(row[j], attempt[j]) = "dead_lettered"
  BY DEF OutcomeOf, Pending, SettledAttempt
<1>5. ASSUME NEW p \in Plan, attempt[j] = [state |-> "publishing", plan |-> p],
             plan[p].state = "failed", row[j].state \in {"succeeded", "dead_letter"}
      PROVE  Reconciled(j) # attempt[j].state
  <2>1. Dispatched(attempt[j].state) = "publishing" /\ p # NoPlan /\ attempt[j].plan = p
    BY <1>5, NoneAssumption DEF Dispatched
  <2>2. CASE row[j].state = "dead_letter"
    BY <1>5, <2>1, <2>2 DEF Reconciled, SettledAttempt
  <2>3. CASE row[j].state = "succeeded"
    BY <1>5, <2>1, <2>3 DEF Reconciled
  <2> QED BY <1>5, <2>2, <2>3
<1> QED BY <1>3, <1>4, <1>5

(* Every attempt that waits can still be told how it ended, for any numbers of
   triggers, plans and workers: reconcile_delivery meets no job that is missing
   or, on an enabled source, cancelled.  It is the safety half of
   RefusalReachesAttempt and GivenUpIsTold. *)
THEOREM WaitersCanBeTold == UpSpec => []WaitingCanBeTold
<1>1. UpSpec => []UpInv
  BY UpInvariant
<1>2. UpInit => PresentInv
  BY PresentInvInit
<1>3. UpInv /\ PresentInv /\ [UpNext]_upVars => PresentInv'
  BY PresentInvStep
<1>4. UpInv /\ PresentInv => WaitingCanBeTold
  BY PresentIsTold
<1> QED BY <1>1, <1>2, <1>3, <1>4, PTL DEF UpSpec
=============================================================================
