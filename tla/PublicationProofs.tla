------------------------- MODULE PublicationProofs -------------------------
(***************************************************************************)
(* Proofs about Publication for any number of plans, coordinates, requests *)
(* and workers: the pipeline uses the queue as JobQueue describes it, and  *)
(* nothing is published that was not validated.                            *)
(***************************************************************************)
EXTENDS Publication, JobQueueProofs

DomainOK == /\ plan \in [Plan -> PlanState]
            /\ snapshot \in [Plan -> {"none", "passed", "failed"}]
            /\ catalog \in [Coordinate -> Digest \cup {NoDigest}]
            /\ confirming \in [Request -> Plan \cup {NoPlan}]
            /\ executing \in [Worker -> Execution]

-----------------------------------------------------------------------------
(* The pipeline's own variables keep their types. *)
LEMMA DomainInit == PubInit => DomainOK
BY DEF PubInit, DomainOK, PlanState, Execution, Idle

(* A transition of the plans, the snapshots and the executions at a time. *)
LEMMA DomainStep == DomainOK /\ [PubNext]_pubVars => DomainOK'
<1> SUFFICES ASSUME DomainOK, [PubNext]_pubVars PROVE DomainOK'
  OBVIOUS
<1> USE DEF DomainOK
<1>1. Idle \in Execution
  BY DEF Idle, Execution, PlanState
<1>2. ASSUME NEW w \in Worker, NEW outbox, Commits(w, outbox)
      PROVE  executing' \in [Worker -> Execution]
  BY <1>1, <1>2 DEF Commits
<1>3. CASE UNCHANGED pubVars
  BY <1>3 DEF pubVars, domainVars
<1>4. CASE ApiStep
  BY <1>4, PlanAssumption DEF ApiStep, CreatePlan, CreateConfirmedPlan, ConfirmRead,
     ConfirmWrite, ConfirmRefused, PlanState
<1>5. ASSUME NEW w \in Worker, NEW p \in Plan, NEW step, Reads(w, step, plan[p]),
             step \in {"scanning", "publishing", "inserting"}
      PROVE  DomainOK'
  BY <1>5 DEF Reads, Execution, domainVars
<1>6. ASSUME NEW w \in Worker, NEW p \in Plan,
             ValidateReplay(w, p) \/ ValidateRefuses(w, p)
               \/ PublishSkips(w, p) \/ PublishRefuses(w, p)
      PROVE  DomainOK'
  BY <1>2, <1>6 DEF ValidateReplay, ValidateRefuses, PublishSkips, PublishRefuses,
     RefusalSnapshot, domainVars, PlanState
<1>7. ASSUME NEW w \in Worker, NEW p \in Plan,
             NEW outcome \in {"passed", "failed"}, ValidateRecords(w, p, outcome)
      PROVE  DomainOK'
  BY <1>2, <1>7 DEF ValidateRecords, PlanState
<1>8. ASSUME NEW w \in Worker, NEW p \in Plan,
             ValidateScans(w, p) \/ PublishReadsPlan(w, p)
      PROVE  DomainOK'
  BY <1>5, <1>8 DEF ValidateScans, PublishReadsPlan
<1>9. ASSUME NEW w \in Worker, NEW p \in Plan, PublishFindsNothing(w, p)
      PROVE  DomainOK'
  <2>1. executing[w].loaded \in PlanState
    BY DEF Execution
  <2> QED BY <1>9, <2>1 DEF PublishFindsNothing, Reads, Execution, domainVars
<1>10. ASSUME NEW w \in Worker, NEW p \in Plan,
              PublishFindsPublished(w, p) \/ PublishInserts(w, p)
       PROVE  DomainOK'
  BY <1>2, <1>10, PlanAssumption DEF PublishFindsPublished, PublishInserts, PlanState
<1>11. ASSUME NEW w \in Worker, HandlerRaises(w) \/ StatusStep(w)
       PROVE  DomainOK'
  BY <1>1, <1>11 DEF HandlerRaises, StatusStep, SettleVerdict, SettleDeadLetter,
     SettleRollsBack, RefusalSnapshot, domainVars, PlanState
<1>12. CASE QueueStep
  BY <1>1, <1>12 DEF QueueStep, domainVars
<1>13. ASSUME NEW w \in Worker, HandlerStep(w)
       PROVE  DomainOK'
  BY <1>6, <1>7, <1>8, <1>9, <1>10, <1>11, <1>13 DEF HandlerStep
<1> QED BY <1>3, <1>4, <1>11, <1>12, <1>13 DEF PubNext

-----------------------------------------------------------------------------
(* Every step of the pipeline is a step of the queue, or leaves the job table
   and the workers alone. *)
LEMMA PubStepIsQueueStep == DomainOK /\ [PubNext]_pubVars => [Next]_vars
<1> SUFFICES ASSUME DomainOK, [PubNext]_pubVars PROVE [Next]_vars
  OBVIOUS
<1>1. ASSUME NEW p \in Plan, EnqueueNow(ValidateJob[p])
      PROVE  [Next]_vars
  BY <1>1, KeyAssumption DEF EnqueueNow, Next, JobStep
<1>2. ASSUME NEW w \in Worker, NEW outbox \in SUBSET Job, Commits(w, outbox)
      PROVE  Next
  BY <1>2 DEF Commits, HandlerEnds, WorkerStep, Next
<1>3. CASE UNCHANGED pubVars
  BY <1>3 DEF pubVars
<1>4. CASE ApiStep
  BY <1>1, <1>4 DEF ApiStep, CreatePlan, CreateConfirmedPlan, ConfirmRead,
     ConfirmWrite, ConfirmRefused, DomainOK
<1>5. ASSUME NEW w \in Worker, HandlerStep(w)
      PROVE  [Next]_vars
  <2>1. ASSUME NEW p \in Plan, ValidateReplay(w, p) \/ ValidateRefuses(w, p)
          \/ PublishSkips(w, p) \/ PublishRefuses(w, p)
          \/ PublishFindsPublished(w, p) \/ PublishInserts(w, p)
        PROVE  Commits(w, {})
    BY <2>1 DEF ValidateReplay, ValidateRefuses, PublishSkips, PublishRefuses,
                PublishFindsPublished, PublishInserts
  <2>2. ASSUME NEW p \in Plan, ValidateScans(w, p) \/ PublishReadsPlan(w, p)
          \/ PublishFindsNothing(w, p)
        PROVE  UNCHANGED vars
    BY <2>2 DEF ValidateScans, PublishReadsPlan, PublishFindsNothing, Reads
  <2>3. ASSUME NEW p \in Plan, NEW outcome \in {"passed", "failed"},
               ValidateRecords(w, p, outcome)
        PROVE  \E outbox \in SUBSET Job : Commits(w, outbox)
    BY <2>3, KeyAssumption DEF ValidateRecords
  <2>4. HandlerRaises(w) => Next
    BY DEF HandlerRaises, Verdict, HandlerEnds, WorkerStep, Next
  <2> QED BY <1>2, <1>5, <2>1, <2>2, <2>3, <2>4 DEF HandlerStep
<1>6. ASSUME NEW w \in Worker, StatusStep(w)
      PROVE  Next
  BY <1>6 DEF StatusStep, SettleVerdict, SettleDeadLetter, SettleRollsBack,
              WorkerStep, Next
<1>7. CASE QueueStep
  BY <1>7 DEF QueueStep, WorkerStep, JobStep, Next
<1> QED BY <1>3, <1>4, <1>5, <1>6, <1>7 DEF PubNext

(* The pipeline is one use of the queue: whatever is proved of every behaviour
   of JobQueue holds of the jobs of the pipeline. *)
THEOREM PipelineUsesQueue == PubSpec => Spec
<1>1. PubInit => Init
  BY DEF PubInit
<1> QED BY <1>1, DomainInit, DomainStep, PubStepIsQueueStep, PTL DEF PubSpec, Spec

(* Every variable of the pipeline and of its queue keeps its type. *)
THEOREM PipelineTypeCorrect == PubSpec => []PubTypeOK
<1>1. TypeOK /\ DomainOK => PubTypeOK
  BY DEF DomainOK, PubTypeOK
<1> QED BY <1>1, PipelineUsesQueue, TypeCorrect, DomainInit, DomainStep, PTL
        DEF PubSpec

-----------------------------------------------------------------------------
(* Nothing unvalidated is published.  The publish job is the witness: it is
   inserted with the passed snapshot, its row is never deleted while its plan
   waits or is published, and a snapshot is never replaced; so whoever runs it,
   however late, finds the snapshot passed. *)
PlanInv(p) ==
    /\ row[PublishJob[p]].state # "absent" => snapshot[p] = "passed"
    /\ plan[p] \in {"publish_planned", "published"} =>
           row[PublishJob[p]].state # "absent"
    /\ plan[p] = "published" => /\ PublishJob[p] \in applied
                                /\ catalog[CoordinateOf[p]] = DigestOf[p]

QueueInv == AttemptInv /\ AppliedInv

PipelineInv == /\ \A p \in Plan : PlanInv(p)
               /\ CatalogIsValidated

(* What a step may do to the rows: none disappears or loses its effect, and
   only the jobs of S appear. *)
RowsKept(S) ==
    \A j \in Job :
       /\ row[j].state # "absent" => /\ row'[j].state # "absent"
                                     /\ j \in applied => j \in applied'
       /\ row'[j].state # "absent" => row[j].state # "absent" \/ j \in S

(* A new job appears, and nothing happens to the rows of the others. *)
LEMMA EnqueueKeepsRows ==
    ASSUME RowsGood, NEW p \in Plan, EnqueueNow(ValidateJob[p])
    PROVE  RowsKept({ValidateJob[p]})
<1>1. CASE UNCHANGED vars
  BY <1>1 DEF vars, RowsKept
<1>2. CASE Enqueue(ValidateJob[p])
  BY <1>2 DEF Enqueue, Enqueued, RowsKept
<1> QED BY <1>1, <1>2 DEF EnqueueNow

(* A handler's commit adds its outbox, and its own job to applied. *)
LEMMA CommitKeepsRows ==
    ASSUME NEW w \in Worker, NEW outbox \in SUBSET Job, Commits(w, outbox)
    PROVE  RowsKept(outbox) /\ worker[w].job \in applied'
BY DEF Commits, HandlerCommits, HandlerCommitUnacknowledged, Enqueued, RowsKept

(* The rest of the queue inserts and deletes nothing. *)
LEMMA QueueKeepsRows ==
    ASSUME QueueInv,
           \/ QueueStep
           \/ \E w \in Worker : Settle(w) \/ Abandon(w) \/ HandlerFails(w, "retry")
    PROVE  RowsKept({})
<1>0. RowsGood /\ WorkersGood /\ NothingOutlivesRow
  BY AttemptInvParts DEF QueueInv, AppliedInv
<1> USE DEF RowsKept
<1>1. ASSUME NEW stale \in SUBSET ExpiredJobs, NEW j \in Job
      PROVE  Swept(stale)[j].state = "absent" <=> row[j].state = "absent"
  BY <1>0, <1>1, StatesOfTransitions DEF Swept, ExpiredJobs, Expired, RowsGood
<1>2. ASSUME NEW w \in Worker, RunOnce(w)
      PROVE  RowsKept({})
  <2>1. PICK stale \in SUBSET ExpiredJobs :
               Sweep(w, stale) \/ \E j \in Job : Claim(w, j, stale)
    BY <1>2 DEF RunOnce
  <2>2. CASE Sweep(w, stale)
    BY <1>1, <2>2 DEF Sweep
  <2>3. ASSUME NEW j \in Job, Claim(w, j, stale)
        PROVE  RowsKept({})
    <3> DEFINE rows == Swept(stale)
    <3>1. /\ rows[j].state \in Claimable
          /\ row' = [rows EXCEPT ![j] = Claimed(rows[j], w)]
          /\ applied' = applied
      BY <2>3 DEF Claim
    <3>2. rows \in [Job -> Row]
      BY <1>0, SweptGood
    <3>3. Claimed(rows[j], w).state = "running"
      BY <3>2 DEF Claimed, Row
    <3>4. rows[j].state # "absent"
      BY <3>1 DEF Claimable
    <3> HIDE DEF rows
    <3>5. \A k \in Job : row'[k].state = "absent" <=> rows[k].state = "absent"
      BY <3>1, <3>2, <3>3, <3>4
    <3> QED BY <1>1, <3>1, <3>5 DEF rows
  <2> QED BY <2>1, <2>2, <2>3
<1>3. ASSUME NEW w \in Worker, Heartbeat(w)
      PROVE  RowsKept({})
  BY <1>0, <1>3 DEF Heartbeat, RowsGood, Row
<1>4. ASSUME NEW w \in Worker,
             ReadRow(w) \/ Abandon(w) \/ HandlerFails(w, "retry")
      PROVE  RowsKept({})
  BY <1>4 DEF ReadRow, Abandon, HandlerFails
<1>5. ASSUME NEW w \in Worker, Drain(w)
      PROVE  RowsKept({})
  <2>1. \A j \in Job : Owned(row[j], w) =>
           /\ [Released(row[j]) EXCEPT !.state = "queued"].state = "queued"
           /\ row[j].state # "absent"
    BY <1>0, ReleasedOK DEF Owned, RowsGood, Row
  <2> QED BY <1>5, <2>1 DEF Drain
<1>6. ASSUME NEW w \in Worker, Settle(w)
      PROVE  RowsKept({})
  <2> DEFINE j == worker[w].job
  <2>1. /\ j \in Job /\ row[j] \in Row /\ row[j].state # "absent"
        /\ worker[w].seen \in Nat
    BY <1>0, <1>6 DEF Settle, WorkersGood, ProcessGood, Process, RowsGood,
                      NothingOutlivesRow
  <2>2. SettledRow(w).state # "absent"
    BY <2>1, StatesOfTransitions DEF SettledRow
  <2> QED BY <1>0, <1>6, <2>1, <2>2 DEF Settle, RowsGood
<1>7. ASSUME NEW j \in Job, LeaseExpires(j) \/ BackoffElapses(j)
      PROVE  RowsKept({})
  BY <1>0, <1>7 DEF LeaseExpires, BackoffElapses, RowsGood, Row
<1> QED BY <1>2, <1>3, <1>4, <1>5, <1>6, <1>7 DEF QueueStep

(* A run of a publish job works on a validated plan. *)
LEMMA RunnerIsValidated ==
    ASSUME QueueInv, PipelineInv, NEW w \in Worker, NEW p \in Plan,
           worker[w].pc # "polling", worker[w].job = PublishJob[p]
    PROVE  row[PublishJob[p]].state # "absent" /\ snapshot[p] = "passed"
BY KeyAssumption DEF QueueInv, AppliedInv, NothingOutlivesRow, PipelineInv, PlanInv

LEMMA PipelineInit == PubInit => PipelineInv
BY KeyAssumption, PlanAssumption
   DEF PubInit, Init, NoRow, PipelineInv, PlanInv, CatalogIsValidated

(* What holds of a plan, its snapshot and its version survives a step that
   leaves them alone. *)
LEMMA PlanInvKept ==
    ASSUME NEW S, RowsKept(S), NEW p \in Plan, PlanInv(p), PublishJob[p] \notin S,
           plan'[p] = plan[p], snapshot'[p] = snapshot[p],
           UNCHANGED catalog
    PROVE  PlanInv(p)'
BY KeyAssumption DEF RowsKept, PlanInv

(* A published version is still backed once snapshots are only added. *)
LEMMA CatalogKept ==
    ASSUME CatalogIsValidated, UNCHANGED catalog,
           \A p \in Plan : snapshot[p] = "passed" => snapshot'[p] = "passed"
    PROVE  CatalogIsValidated'
BY DEF CatalogIsValidated

LEMMA PipelineStep ==
    ASSUME QueueInv, DomainOK, PipelineInv, [PubNext]_pubVars
    PROVE  PipelineInv'
<1>0. /\ RowsGood /\ WorkersGood
      /\ \A p \in Plan : PlanInv(p)
      /\ CatalogIsValidated
  BY AttemptInvParts DEF QueueInv, PipelineInv
<1> USE DEF DomainOK
(* Steps that write no plan. *)
<1>1. ASSUME UNCHANGED domainVars, RowsKept({})
      PROVE  PipelineInv'
  BY <1>0, <1>1, PlanInvKept, CatalogKept DEF PipelineInv, domainVars
(* Steps that move a plan without a snapshot back or to its refusal. *)
<1>2. ASSUME NEW p \in Plan, NEW state \in {"ready", "validating", "failed"},
             plan' = [plan EXCEPT ![p] = state], UNCHANGED catalog,
             \A q \in Plan \ {p} : snapshot'[q] = snapshot[q],
             \/ snapshot'[p] = snapshot[p]
             \/ row[PublishJob[p]].state = "absent" /\ snapshot[p] # "passed",
             NEW S, RowsKept(S), \A q \in Plan : PublishJob[q] \notin S
      PROVE  PipelineInv'
  <2>1. \A q \in Plan \ {p} : PlanInv(q)'
    BY <1>0, <1>2, PlanInvKept
  <2>2. PlanInv(p)'
    BY <1>0, <1>2, KeyAssumption DEF PlanInv, RowsKept
  <2>3. CatalogIsValidated'
    BY <1>0, <1>2, CatalogKept
  <2> QED BY <2>1, <2>2, <2>3 DEF PipelineInv
<1>3. ASSUME NEW p \in Plan, RefusalSnapshot(p), UNCHANGED catalog,
             RowsKept({})
      PROVE  PipelineInv'
  <2>1. row[PublishJob[p]].state = "absent"
    BY <1>0, <1>3 DEF PlanInv, RefusalSnapshot
  <2> QED BY <1>2, <1>3, <2>1 DEF RefusalSnapshot
<1>4. ASSUME UNCHANGED vars
      PROVE  RowsKept({})
  BY <1>4 DEF vars, RowsKept
<1>5. \A p, q \in Plan : PublishJob[p] \notin {ValidateJob[q]}
  BY KeyAssumption
<1>6. CASE ApiStep
  <2>1. ASSUME NEW p \in Plan, CreatePlan(p)
        PROVE  PipelineInv'
    BY <1>2, <1>4, <2>1 DEF CreatePlan
  <2>2. ASSUME NEW p \in Plan, CreateConfirmedPlan(p)
        PROVE  PipelineInv'
    <3>1. RowsKept({ValidateJob[p]})
      BY <1>0, <2>2, EnqueueKeepsRows DEF CreateConfirmedPlan
    <3> QED BY <1>2, <1>5, <2>2, <3>1 DEF CreateConfirmedPlan
  <2>3. ASSUME NEW q \in Request, ConfirmWrite(q)
        PROVE  PipelineInv'
    <3> DEFINE p == confirming[q]
    <3>1. p \in Plan
      BY <2>3 DEF ConfirmWrite
    <3>2. RowsKept({ValidateJob[p]})
      BY <1>0, <2>3, <3>1, EnqueueKeepsRows DEF ConfirmWrite
    <3> QED BY <1>2, <1>5, <2>3, <3>1, <3>2 DEF ConfirmWrite
  <2>4. ASSUME NEW q \in Request,
               ConfirmRefused(q) \/ \E p \in Plan : ConfirmRead(q, p)
        PROVE  PipelineInv'
    <3>1. UNCHANGED <<vars, plan, snapshot, catalog>>
      BY <2>4 DEF ConfirmRefused, ConfirmRead
    <3> QED BY <1>0, <1>4, <3>1, PlanInvKept, CatalogKept DEF PipelineInv
  <2> QED BY <1>6, <2>1, <2>2, <2>3, <2>4 DEF ApiStep
<1>7. ASSUME NEW w \in Worker, NEW p \in Plan,
             ValidateReplay(w, p) \/ PublishSkips(w, p)
      PROVE  PipelineInv'
  BY <1>1, <1>7, CommitKeepsRows DEF ValidateReplay, PublishSkips
<1>8. ASSUME NEW w \in Worker, NEW p \in Plan,
             ValidateScans(w, p) \/ PublishReadsPlan(w, p)
               \/ PublishFindsNothing(w, p)
      PROVE  PipelineInv'
  BY <1>1, <1>4, <1>8 DEF ValidateScans, PublishReadsPlan, PublishFindsNothing, Reads
<1>9. ASSUME NEW w \in Worker, NEW p \in Plan, ValidateRefuses(w, p)
      PROVE  PipelineInv'
  BY <1>3, <1>9, CommitKeepsRows DEF ValidateRefuses
<1>10. ASSUME NEW w \in Worker, NEW p \in Plan, ValidateRecords(w, p, "failed")
       PROVE  PipelineInv'
  <2>1. RowsKept({})
    BY <1>10, CommitKeepsRows DEF ValidateRecords
  <2>2. RefusalSnapshot(p) /\ UNCHANGED catalog
    BY <1>10 DEF ValidateRecords, RefusalSnapshot
  <2> QED BY <1>3, <2>1, <2>2
<1>11. ASSUME NEW w \in Worker, NEW p \in Plan, ValidateRecords(w, p, "passed")
       PROVE  PipelineInv'
  <2>1. RowsKept({PublishJob[p]})
    <3>1. Commits(w, {PublishJob[p]})
      BY <1>11 DEF ValidateRecords
    <3> QED BY <3>1, KeyAssumption, CommitKeepsRows
  <2>2. /\ plan' = [plan EXCEPT ![p] = "publish_planned"]
        /\ snapshot' = [snapshot EXCEPT ![p] = "passed"]
        /\ UNCHANGED catalog
    BY <1>11 DEF ValidateRecords
  <2>3. row'[PublishJob[p]].state # "absent"
    <3>1. row' = Enqueued(row, {PublishJob[p]}, TRUE)
      BY <1>11 DEF ValidateRecords, Commits, HandlerCommits,
                   HandlerCommitUnacknowledged
    <3>2. [FreshRow EXCEPT !.due = TRUE].state = "queued"
      BY DEF FreshRow, NoRow
    <3> QED BY <3>1, <3>2, KeyAssumption DEF Enqueued
  <2>4. \A q \in Plan \ {p} : PlanInv(q)'
    BY <1>0, <2>1, <2>2, PlanInvKept, KeyAssumption
  <2>5. PlanInv(p)'
    BY <2>2, <2>3 DEF PlanInv
  <2>6. CatalogIsValidated'
    BY <1>0, <2>2, CatalogKept
  <2> QED BY <2>4, <2>5, <2>6 DEF PipelineInv
<1>12. ASSUME NEW w \in Worker, NEW p \in Plan, PublishRefuses(w, p)
       PROVE  PipelineInv'
  BY <1>2, <1>12, CommitKeepsRows DEF PublishRefuses
<1>13. ASSUME NEW w \in Worker, NEW p \in Plan,
              PublishFindsPublished(w, p) \/ PublishInserts(w, p)
       PROVE  PipelineInv'
  <2>1. /\ RowsKept({})
        /\ PublishJob[p] \in applied'
        /\ worker[w].pc # "polling" /\ worker[w].job = PublishJob[p]
    BY <1>13, CommitKeepsRows DEF PublishFindsPublished, PublishInserts, Runs
  <2>2. row[PublishJob[p]].state # "absent" /\ snapshot[p] = "passed"
    BY <2>1, RunnerIsValidated
  <2>3. /\ plan' = plan \/ plan' = [plan EXCEPT ![p] = "published"]
        /\ catalog' = [catalog EXCEPT ![CoordinateOf[p]] = DigestOf[p]]
        /\ catalog[CoordinateOf[p]] \in {NoDigest, DigestOf[p]}
        /\ UNCHANGED snapshot
    BY <1>13, PlanAssumption DEF PublishFindsPublished, PublishInserts
  <2>4. \A c \in Coordinate : \/ catalog'[c] = catalog[c]
                              \/ catalog[c] = NoDigest /\ c = CoordinateOf[p]
    BY <2>3
  <2>5. ASSUME NEW q \in Plan, plan'[q] = plan[q]
        PROVE  PlanInv(q)'
    <3>1. plan[q] = "published" => catalog'[CoordinateOf[q]] = DigestOf[q]
      BY <1>0, <2>4, PlanAssumption DEF PlanInv
    <3> QED BY <1>0, <2>1, <2>3, <2>5, <3>1, KeyAssumption DEF PlanInv, RowsKept
  <2>6. ASSUME plan' = [plan EXCEPT ![p] = "published"]
        PROVE  PlanInv(p)'
    <3>1. row'[PublishJob[p]].state # "absent"
      BY <2>1, <2>2, KeyAssumption DEF RowsKept
    <3> QED BY <2>1, <2>2, <2>3, <2>6, <3>1, PlanAssumption DEF PlanInv
  <2>7. CatalogIsValidated'
    BY <1>0, <2>2, <2>3, <2>4, PlanAssumption DEF CatalogIsValidated
  <2> QED BY <2>3, <2>5, <2>6, <2>7 DEF PipelineInv
<1>14. ASSUME NEW w \in Worker, HandlerRaises(w)
       PROVE  PipelineInv'
  BY <1>1, <1>14, QueueKeepsRows DEF HandlerRaises
<1>15. ASSUME NEW w \in Worker, SettleVerdict(w)
       PROVE  PipelineInv'
  BY <1>1, <1>15, QueueKeepsRows DEF SettleVerdict
<1>16. ASSUME NEW w \in Worker, NEW p \in Plan,
              SettleDeadLetter(w, p) \/ SettleRollsBack(w, p)
       PROVE  PipelineInv'
  <2>1. RowsKept({})
    BY <1>16, QueueKeepsRows DEF SettleDeadLetter, SettleRollsBack
  <2>2. UNCHANGED <<catalog, confirming>>
    BY <1>16 DEF SettleDeadLetter, SettleRollsBack, domainVars
  <2>3. \/ UNCHANGED <<plan, snapshot>>
        \/ plan' = [plan EXCEPT ![p] = "failed"] /\ UNCHANGED snapshot
        \/ RefusalSnapshot(p)
    BY <1>16 DEF SettleDeadLetter, SettleRollsBack, domainVars
  <2> QED BY <1>1, <1>2, <1>3, <2>1, <2>2, <2>3 DEF domainVars
<1>17. CASE QueueStep
  BY <1>1, <1>17, QueueKeepsRows DEF QueueStep
<1>18. CASE UNCHANGED pubVars
  BY <1>1, <1>4, <1>18 DEF pubVars
<1>19. ASSUME NEW w \in Worker, HandlerStep(w)
       PROVE  PipelineInv'
  BY <1>7, <1>8, <1>9, <1>10, <1>11, <1>12, <1>13, <1>14, <1>19 DEF HandlerStep
<1> QED BY <1>6, <1>15, <1>16, <1>17, <1>18, <1>19 DEF PubNext, StatusStep

(* The invariant of the pipeline, of its queue and of its types. *)
LEMMA PipelineInvariant == PubSpec => [](QueueInv /\ DomainOK /\ PipelineInv)
<1>1. PubInit => QueueInv
  BY AttemptInvInit, AppliedInvInit DEF PubInit, QueueInv
<1>2. QueueInv /\ DomainOK /\ [PubNext]_pubVars => QueueInv'
  BY PubStepIsQueueStep, AttemptInvStep, AppliedInvStep DEF QueueInv
<1> QED BY <1>1, <1>2, DomainInit, DomainStep, PipelineInit, PipelineStep, PTL
        DEF PubSpec

(* A published plan passed its validation, its publish job was run, and the
   catalog holds its passport. *)
THEOREM PublishedWasValidated == PubSpec => []PublishedIsValidated
<1>1. PipelineInv => PublishedIsValidated
  BY KeyAssumption DEF PipelineInv, PlanInv, PublishedIsValidated
<1> QED BY <1>1, PipelineInvariant, PTL

(* No catalog version is there without a plan that validated it. *)
THEOREM CatalogWasValidated == PubSpec => []CatalogIsValidated
<1>1. PipelineInv => CatalogIsValidated
  BY DEF PipelineInv
<1> QED BY <1>1, PipelineInvariant, PTL

(* A plan that waits for its publication has the job that will bring it. *)
THEOREM PublicationWasQueued == PubSpec => []PublicationIsQueued
<1>1. PipelineInv => PublicationIsQueued
  BY DEF PipelineInv, PlanInv, PublicationIsQueued
<1> QED BY <1>1, PipelineInvariant, PTL

(* A catalog version that is there stays as it is, whoever runs which publish
   job how often: the insert meets the unique coordinate (execute_publish). *)
THEOREM CatalogStaysImmutable == PubSpec => CatalogImmutable
<1> DEFINE Stays == \A c \in Coordinate : catalog[c] # NoDigest => catalog'[c] = catalog[c]
<1>1. DomainOK /\ [PubNext]_pubVars => [Stays]_pubVars
  <2> SUFFICES ASSUME DomainOK, PubNext PROVE Stays
    OBVIOUS
  <2>1. ASSUME NEW w \in Worker, NEW p \in Plan, PublishInserts(w, p)
        PROVE  Stays
    BY <2>1 DEF PublishInserts, DomainOK
  <2>2. ASSUME NEW w \in Worker, HandlerStep(w)
        PROVE  Stays
    <3>1. ASSUME NEW p \in Plan, ~PublishInserts(w, p),
                 \/ ValidateReplay(w, p) \/ ValidateRefuses(w, p) \/ ValidateScans(w, p)
                 \/ PublishSkips(w, p) \/ PublishReadsPlan(w, p) \/ PublishRefuses(w, p)
                 \/ PublishFindsPublished(w, p) \/ PublishFindsNothing(w, p)
                 \/ \E outcome \in {"passed", "failed"} : ValidateRecords(w, p, outcome)
          PROVE  catalog' = catalog
      BY <3>1 DEF ValidateReplay, ValidateRefuses, ValidateScans, PublishSkips,
         PublishReadsPlan, PublishRefuses, PublishFindsPublished, PublishFindsNothing,
         ValidateRecords, RefusalSnapshot, Reads, domainVars
    <3>2. HandlerRaises(w) => catalog' = catalog
      BY DEF HandlerRaises, domainVars
    <3> QED BY <2>1, <2>2, <3>1, <3>2 DEF HandlerStep
  <2>3. ASSUME NEW w \in Worker, StatusStep(w)
        PROVE  catalog' = catalog
    BY <2>3 DEF StatusStep, SettleVerdict, SettleDeadLetter, SettleRollsBack,
       RefusalSnapshot, domainVars
  <2>4. ApiStep => catalog' = catalog
    BY DEF ApiStep, CreatePlan, CreateConfirmedPlan, ConfirmRead, ConfirmWrite,
       ConfirmRefused
  <2>5. QueueStep => catalog' = catalog
    BY DEF QueueStep, domainVars
  <2> QED BY <2>2, <2>3, <2>4, <2>5 DEF PubNext
<1> QED BY <1>1, DomainInit, DomainStep, PTL DEF PubSpec, CatalogImmutable

-----------------------------------------------------------------------------
(* Attended leases.  When only the leases of processes that died or stopped
   lapse, the process that works on a job is alone with it until it lets go. *)
AttendedInv == /\ QueueInv
               /\ DomainOK
               /\ PipelineInv
               /\ AliveInv
               /\ cancelling = {}

(* The pipeline cancels no job. *)
LEMMA NothingIsCancelled == [PubNext]_pubVars => cancelling' = cancelling
<1> SUFFICES ASSUME [PubNext]_pubVars PROVE cancelling' = cancelling
  OBVIOUS
<1>1. ASSUME NEW j, EnqueueNow(j) PROVE cancelling' = cancelling
  BY <1>1 DEF EnqueueNow, Enqueue, vars
<1>2. ASSUME NEW w, NEW outbox, Commits(w, outbox) PROVE cancelling' = cancelling
  BY <1>2 DEF Commits, HandlerCommits, HandlerCommitUnacknowledged
<1>3. ApiStep => cancelling' = cancelling
  BY <1>1 DEF ApiStep, CreatePlan, CreateConfirmedPlan, ConfirmRead, ConfirmWrite,
     ConfirmRefused, vars
<1>4. ASSUME NEW w \in Worker, HandlerStep(w) PROVE cancelling' = cancelling
  <2>1. CASE HandlerRaises(w)
    BY <2>1 DEF HandlerRaises, HandlerFails
  <2>2. ASSUME NEW p \in Plan,
               \/ ValidateScans(w, p) \/ PublishReadsPlan(w, p) \/ PublishFindsNothing(w, p)
        PROVE  cancelling' = cancelling
    BY <2>2 DEF ValidateScans, PublishReadsPlan, PublishFindsNothing, Reads, vars
  <2>3. ASSUME NEW p \in Plan,
               \/ ValidateReplay(w, p) \/ ValidateRefuses(w, p) \/ PublishSkips(w, p)
               \/ PublishRefuses(w, p) \/ PublishFindsPublished(w, p)
               \/ PublishInserts(w, p)
               \/ \E outcome \in {"passed", "failed"} : ValidateRecords(w, p, outcome)
        PROVE  cancelling' = cancelling
    BY <1>2, <2>3 DEF ValidateReplay, ValidateRefuses, PublishSkips, PublishRefuses,
       PublishFindsPublished, PublishInserts, ValidateRecords
  <2> QED BY <1>4, <2>1, <2>2, <2>3 DEF HandlerStep
<1>5. ASSUME NEW w \in Worker, StatusStep(w) PROVE cancelling' = cancelling
  BY <1>5 DEF StatusStep, SettleVerdict, SettleDeadLetter, SettleRollsBack, Settle,
     Abandon
<1>6. QueueStep => cancelling' = cancelling
  BY DEF QueueStep, RunOnce, Sweep, Claim, Heartbeat, ReadRow, Abandon, Drain,
     LeaseExpires, BackoffElapses
<1>7. UNCHANGED pubVars => cancelling' = cancelling
  BY DEF pubVars, vars
<1> QED BY <1>3, <1>4, <1>5, <1>6, <1>7 DEF PubNext

(* What Attended says of the pipeline is what AliveStep asks of the queue. *)
LEMMA AttendedLeases == QueueInv /\ [PubNext /\ Attended]_pubVars => AttendedStep
<1> SUFFICES ASSUME QueueInv, [PubNext /\ Attended]_pubVars,
                    NEW j \in Job, LeaseExpires(j)
             PROVE  Unattended(j)
  BY DEF AttendedStep
<1>1. row \in [Job -> Row]
  BY AttemptInvParts DEF QueueInv, RowsGood
<1>2. row[j].leased /\ row'[j] = [row[j] EXCEPT !.leased = FALSE]
  BY <1>1 DEF LeaseExpires
<1>3. row'[j] # row[j]
  BY <1>1, <1>2 DEF Row
<1> QED BY <1>2, <1>3 DEF Attended, pubVars, vars

LEMMA AttendedInit == PubInit => AttendedInv
BY AttemptInvInit, AppliedInvInit, DomainInit, PipelineInit
   DEF PubInit, Init, QueueInv, AttendedInv, AliveInv, Polling

LEMMA AttendedInvStep ==
    ASSUME DistinctOwners, AttendedInv, [PubNext /\ Attended]_pubVars
    PROVE  AttendedInv' /\ [Next /\ QuietSettle]_vars
<1>1. [PubNext]_pubVars
  OBVIOUS
<1>2. [Next]_vars /\ AttendedStep
  BY <1>1, PubStepIsQueueStep, AttendedLeases DEF AttendedInv
<1>3. AliveInv' /\ QuietSettle
  BY <1>2, AliveStep DEF AttendedInv, QueueInv
<1>4. QueueInv'
  BY <1>2, AttemptInvStep, AppliedInvStep DEF AttendedInv, QueueInv
<1> QED BY <1>1, <1>2, <1>3, <1>4, DomainStep, PipelineStep, NothingIsCancelled
        DEF AttendedInv

LEMMA AttendedInvariant == DistinctOwners => (AttendedSpec => []AttendedInv)
<1> SUFFICES ASSUME DistinctOwners PROVE AttendedSpec => []AttendedInv
  OBVIOUS
<1>1. AttendedInv /\ [PubNext /\ Attended]_pubVars => AttendedInv'
  BY AttendedInvStep
<1> QED BY <1>1, AttendedInit, PTL DEF AttendedSpec

(* The settle windows of the pipeline are quiet: what JobQueue proves under
   QuietSettle is not assumed of the pipeline but follows from its leases.
   So the queue keeps its promise to the pipeline, whichever workers crash. *)
THEOREM PipelineIsQuiet == DistinctOwners => (AttendedSpec => QuietSpec)
<1> SUFFICES ASSUME DistinctOwners PROVE AttendedSpec => QuietSpec
  OBVIOUS
<1>1. PubInit => Init
  BY DEF PubInit
<1>2. AttendedInv /\ [PubNext /\ Attended]_pubVars => [Next /\ QuietSettle]_vars
  BY AttendedInvStep
<1> QED BY <1>1, <1>2, AttendedInvariant, PTL DEF AttendedSpec, QuietSpec

THEOREM PipelineDelivers == DistinctOwners => (AttendedSpec => KeepsDeliveryPromise)
BY PipelineIsQuiet, ImplementsDelivery, PTL

(* A worker of the pipeline settles only its own running delivery, whichever
   workers die, are stopped or commit without an acknowledgement: a lease with a
   heartbeat is renewed in time, so the sweep reclaims the rows of the dead, and
   a row is requeued by a stop of its own worker only (mark_succeeded, fail). *)
THEOREM PipelineSettlesByOwner == DistinctOwners => (AttendedSpec => SettleByOwner)
<1> SUFFICES ASSUME DistinctOwners PROVE AttendedSpec => SettleByOwner
  OBVIOUS
<1>1. AttendedInv =>
         [\A w \in Worker :
             LET j == worker[w].job
             IN worker[w].pc = "settling" /\ worker'[w] # worker[w]
                  /\ row'[j] # row[j] => Owned(row[j], w)]_vars
  BY DEF AttendedInv, AliveInv
<1> QED BY <1>1, AttendedInvariant, PTL DEF SettleByOwner

(* Two workers that hold a job own its row, which has one owner, and a
   worker_id has one worker. *)
THEOREM JobsRunOnce == DistinctOwners => (AttendedSpec => []OneRunPerJob)
<1> SUFFICES ASSUME DistinctOwners PROVE AttendedSpec => []OneRunPerJob
  OBVIOUS
<1>1. AttendedInv => OneRunPerJob
  <2> SUFFICES ASSUME AttendedInv, NEW v \in Worker, NEW w \in Worker,
                      worker[v].job = worker[w].job, worker[v].pc # "polling",
                      worker[w].pc # "polling"
               PROVE  v = w
    BY DEF OneRunPerJob
  <2> QED BY DEF AttendedInv, AliveInv, Owned, DistinctOwners
<1> QED BY <1>1, AttendedInvariant, PTL

-----------------------------------------------------------------------------
(* Progress of a plan.  A confirmation, a validation, a publication and a
   settlement write the state of a plan without reading it again.  What they
   find is implied by the job they work for: nobody else works for it, and a
   job has done its part exactly when the plan shows it. *)
PlanProgress(p) ==
    /\ plan[p] \in {"absent", "ready"} => /\ row[ValidateJob[p]].state = "absent"
                                          /\ snapshot[p] = "none"
    /\ plan[p] = "validating" => snapshot[p] = "none" /\ Works(ValidateJob[p])
    /\ plan[p] = "publish_planned" => snapshot[p] # "none" /\ Works(PublishJob[p])
    /\ plan[p] \in Settled => snapshot[p] # "none"

At(w, j) == worker[w].pc # "polling" /\ worker[w].job = j

Done(w, j) == At(w, j) /\ worker[w].verdict = "ok"

PublishRuns(w, p) == \/ Runs(w, PublishJob[p], "publishing")
                     \/ Runs(w, PublishJob[p], "inserting")

RunProgress(w, p) ==
    /\ PublishRuns(w, p) =>
          /\ plan[p] \in {"publish_planned", "published"}
          /\ executing[w].loaded = "published" => plan[p] = "published"
    /\ Done(w, ValidateJob[p]) => plan[p] # "validating"
    /\ Done(w, PublishJob[p]) => plan[p] \in Settled

ConfirmsReady == \A q \in Request : confirming[q] # NoPlan => plan[confirming[q]] = "ready"

OnlyHandlersRead == \A w \in Worker : worker[w].pc # "handling" => executing[w] = Idle

ProgressInv == /\ \A p \in Plan : PlanProgress(p)
               /\ \A w \in Worker, p \in Plan : RunProgress(w, p)
               /\ ConfirmsReady
               /\ OnlyHandlersRead

(* A worker that begins nothing new: it lets go, takes a job, or goes on with
   what it has read and reported. *)
Follows(w) ==
    /\ \A j \in Job : Done(w, j)' => Done(w, j)
    /\ \A p \in Plan : PublishRuns(w, p)' => /\ PublishRuns(w, p)
                                             /\ executing'[w] = executing[w]
    /\ worker'[w].pc # "handling" => executing'[w] = Idle

(* What the queue does to its workers is no progress of a plan. *)
LEMMA QueueFollows ==
    ASSUME AttemptInv, DomainOK, OnlyHandlersRead, QueueStep, NEW w \in Worker
    PROVE  Follows(w)
<1>0. WorkersGood /\ worker[w] \in Process
  BY AttemptInvParts DEF WorkersGood
<1>1. \/ worker'[w].pc = "polling"
      \/ /\ worker[w].pc = "polling"
         /\ worker'[w].verdict = "none"
      \/ /\ worker[w].pc # "polling"
         /\ worker'[w].job = worker[w].job
         /\ worker'[w].verdict = worker[w].verdict
         /\ worker'[w].pc = "handling" <=> worker[w].pc = "handling"
  <2>1. CASE worker' = worker
    BY <2>1
  <2>2. ASSUME NEW v \in Worker, RunOnce(v)
        PROVE  worker' = worker \/ \E j \in Job : worker' =
                  [worker EXCEPT ![v] = [Polling EXCEPT !.pc = "handling", !.job = j,
                                                        !.beating = TRUE]]
                  /\ worker[v].pc = "polling"
    BY <2>2 DEF RunOnce, Sweep, Claim
  <2>3. ASSUME NEW v \in Worker, NEW j \in Job, worker[v].pc = "polling",
               worker' = [worker EXCEPT ![v] = [Polling EXCEPT !.pc = "handling", !.job = j,
                                                               !.beating = TRUE]]
        PROVE  <1>1!2 \/ worker'[w] = worker[w]
    BY <1>0, <2>3 DEF WorkersGood, Polling
  <2>4. ASSUME NEW v \in Worker, Heartbeat(v) \/ ReadRow(v) \/ Abandon(v) \/ Drain(v)
        PROVE  <1>1
    BY <1>0, <2>4 DEF Heartbeat, ReadRow, Abandon, Drain, WorkersGood, Process, Polling
  <2>5. ASSUME NEW j \in Job, LeaseExpires(j) \/ BackoffElapses(j)
        PROVE  worker' = worker
    BY <2>5 DEF LeaseExpires, BackoffElapses
  <2>6. worker'[w] = worker[w] => <1>1
    OBVIOUS
  <2> QED BY <2>1, <2>2, <2>3, <2>4, <2>5, <2>6 DEF QueueStep
<1>2. executing'[w] = IF worker'[w].pc = "handling" THEN executing[w] ELSE Idle
  BY DEF QueueStep
<1>3. Idle.step = "idle"
  BY DEF Idle
<1>4. worker[w].pc = "polling" => executing[w] = Idle
  BY DEF OnlyHandlersRead
<1> QED BY <1>1, <1>2, <1>3, <1>4 DEF Follows, Done, At, PublishRuns, Runs

(* A worker whose process and executing are left alone begins nothing. *)
LEMMA IdleFollows ==
    ASSUME OnlyHandlersRead, NEW w \in Worker, worker'[w] = worker[w],
           executing'[w] = executing[w]
    PROVE  Follows(w)
BY DEF OnlyHandlersRead, Follows, Done, At, PublishRuns, Runs

(* The jobs that work for a plan go on working, until a worker settles one with
   success. *)
LEMMA QueueKeepsWorks ==
    ASSUME QueueInv, NEW k \in Job, Works(k),
           \/ QueueStep
           \/ \E w \in Worker : \/ Settle(w) /\ ~Done(w, k)
                                \/ Abandon(w)
                                \/ HandlerFails(w, "retry")
    PROVE  Works(k)'
<1>0. RowsGood /\ WorkersGood /\ row[k] \in Row
  BY AttemptInvParts DEF QueueInv, RowsGood
<1> USE DEF Works, Claimable
<1>1. ASSUME NEW w \in Worker, RunOnce(w)
      PROVE  Works(k)'
  <2>1. PICK stale \in SUBSET ExpiredJobs :
               Sweep(w, stale) \/ \E j \in Job : Claim(w, j, stale)
    BY <1>1 DEF RunOnce
  <2>2. Swept(stale)[k].state \in Claimable \cup {"running", "dead_letter"}
    BY <1>0, StatesOfTransitions DEF Swept
  <2>3. CASE Sweep(w, stale)
    BY <2>2, <2>3 DEF Sweep
  <2>4. ASSUME NEW j \in Job, Claim(w, j, stale)
        PROVE  Works(k)'
    <3>1. row' = [Swept(stale) EXCEPT ![j] = Claimed(Swept(stale)[j], w)]
      BY <2>4 DEF Claim
    <3>2. Swept(stale) \in [Job -> Row]
      BY <1>0, SweptGood
    <3>3. Claimed(Swept(stale)[j], w).state = "running"
      BY <3>2 DEF Claimed, Row
    <3> QED BY <2>2, <3>1, <3>2, <3>3
  <2> QED BY <2>1, <2>3, <2>4
<1>2. ASSUME NEW w \in Worker, Heartbeat(w)
      PROVE  Works(k)'
  BY <1>0, <1>2 DEF Heartbeat, RowsGood, Row
<1>3. ASSUME NEW w \in Worker,
             ReadRow(w) \/ Abandon(w) \/ HandlerFails(w, "retry")
      PROVE  Works(k)'
  BY <1>3 DEF ReadRow, Abandon, HandlerFails
<1>4. ASSUME NEW w \in Worker, Drain(w)
      PROVE  Works(k)'
  <2>1. [Released(row[k]) EXCEPT !.state = "queued"].state = "queued"
    BY <1>0, ReleasedOK DEF Row
  <2> QED BY <1>4, <2>1 DEF Drain
<1>5. ASSUME NEW w \in Worker, Settle(w), ~Done(w, k)
      PROVE  Works(k)'
  <2>1. CASE worker[w].job = k
    <3>1. worker[w].verdict # "ok" /\ worker[w].seen \in Nat
      BY <1>0, <1>5, <2>1 DEF Done, At, Settle, WorkersGood, Process
    <3>2. SettledRow(w).state \in {"dead_letter", "retry_scheduled"}
      BY <1>0, <2>1, <3>1, StatesOfTransitions DEF SettledRow
    <3> QED BY <1>0, <1>5, <2>1, <3>2 DEF Settle, RowsGood
  <2>2. CASE worker[w].job # k
    BY <1>0, <1>5, <2>2 DEF Settle, RowsGood
  <2> QED BY <2>1, <2>2
<1>6. ASSUME NEW j \in Job, LeaseExpires(j) \/ BackoffElapses(j)
      PROVE  Works(k)'
  BY <1>0, <1>6 DEF LeaseExpires, BackoffElapses, RowsGood, Row
<1> QED BY <1>1, <1>2, <1>3, <1>4, <1>5, <1>6 DEF QueueStep

(* An enqueued job works; the rows that are there, and the workers, are left
   alone. *)
LEMMA EnqueueWorks ==
    ASSUME NEW j \in Job, EnqueueNow(j)
    PROVE  /\ row[j].state = "absent" => Works(j)'
           /\ \A k \in Job : Works(k) => Works(k)'
           /\ worker' = worker
<1>1. CASE Enqueue(j)
  <2>1. \A due : [FreshRow EXCEPT !.due = due].state = "queued"
    BY DEF FreshRow, NoRow
  <2> QED BY <1>1, <2>1 DEF Enqueue, Enqueued, Works, Claimable
<1>2. CASE row[j].state # "absent" /\ UNCHANGED vars
  BY <1>2 DEF vars, Works
<1> QED BY <1>1, <1>2 DEF EnqueueNow

(* A commit reports for its own worker only, and starts the jobs of its
   outbox. *)
LEMMA CommitWorks ==
    ASSUME WorkersGood, DomainOK, OnlyHandlersRead,
           NEW w \in Worker, NEW outbox \in SUBSET Job, Commits(w, outbox)
    PROVE  /\ \A k \in Job : Works(k) => Works(k)'
           /\ \A k \in outbox : row[k].state = "absent" => Works(k)'
           /\ \A v \in Worker \ {w} : Follows(v)
           /\ worker'[w].pc = "reporting" /\ worker'[w].job = worker[w].job
           /\ executing'[w] = Idle
<1>1. /\ row' = Enqueued(row, outbox, TRUE)
      /\ \E verdict : worker' = [worker EXCEPT ![w].pc = "reporting", ![w].verdict = verdict]
      /\ executing' = [executing EXCEPT ![w] = Idle]
  BY DEF Commits, HandlerCommits, HandlerCommitUnacknowledged
<1>2. [FreshRow EXCEPT !.due = TRUE].state = "queued"
  BY DEF FreshRow, NoRow
<1>3. /\ \A k \in Job : Works(k) => Works(k)'
      /\ \A k \in outbox : row[k].state = "absent" => Works(k)'
  BY <1>1, <1>2 DEF Enqueued, Works, Claimable
<1>4. \A v \in Worker \ {w} : Follows(v)
  BY <1>1, IdleFollows DEF WorkersGood, DomainOK
<1>5. /\ worker'[w].pc = "reporting" /\ worker'[w].job = worker[w].job
      /\ executing'[w] = Idle
  BY <1>1 DEF WorkersGood, Process, DomainOK
<1> QED BY <1>3, <1>4, <1>5

(* A step of the workers and the queue that writes no plan. *)
LEMMA ProgressOfQueue ==
    ASSUME QueueInv, ProgressInv, UNCHANGED domainVars,
           NEW S \in SUBSET Job, RowsKept(S), \A p \in Plan : ValidateJob[p] \notin S,
           \A w \in Worker : Follows(w),
           \A k \in Job : Works(k) => Works(k)' \/ \E w \in Worker : Done(w, k)
    PROVE  ProgressInv'
<1>1. ASSUME NEW p \in Plan
      PROVE  PlanProgress(p)'
  <2>1. PlanProgress(p) /\ \A w \in Worker : RunProgress(w, p)
    BY DEF ProgressInv
  <2>2. ValidateJob[p] \in Job /\ PublishJob[p] \in Job
    BY KeyAssumption
  <2>3. plan[p] = "validating" => Works(ValidateJob[p])'
    BY <2>1, <2>2 DEF PlanProgress, RunProgress
  <2>4. plan[p] = "publish_planned" => Works(PublishJob[p])'
    BY <2>1, <2>2 DEF PlanProgress, RunProgress, Settled
  <2>5. row[ValidateJob[p]].state = "absent" => row'[ValidateJob[p]].state = "absent"
    BY <2>2 DEF RowsKept
  <2> QED BY <2>1, <2>3, <2>4, <2>5 DEF PlanProgress, domainVars
<1>2. ASSUME NEW w \in Worker, NEW p \in Plan
      PROVE  RunProgress(w, p)'
  BY KeyAssumption DEF ProgressInv, RunProgress, Follows, domainVars
<1>3. ConfirmsReady'
  BY DEF ProgressInv, ConfirmsReady, domainVars
<1>4. OnlyHandlersRead'
  BY DEF OnlyHandlersRead, Follows
<1> QED BY <1>1, <1>2, <1>3, <1>4 DEF ProgressInv

(* A step that writes one plan, with or without a worker that works for it. *)
LEMMA ProgressOfOne ==
    ASSUME ProgressInv, DomainOK, NEW p \in Plan,
           \A q \in Plan \ {p} : plan'[q] = plan[q] /\ snapshot'[q] = snapshot[q],
           RowsKept({ValidateJob[p], PublishJob[p]}),
           \A q \in Plan \ {p} : /\ Works(ValidateJob[q]) => Works(ValidateJob[q])'
                                 /\ Works(PublishJob[q]) => Works(PublishJob[q])',
           \A w \in Worker : \/ Follows(w)
                             \/ /\ worker'[w].job \in {ValidateJob[p], PublishJob[p]}
                                /\ worker'[w].pc # "handling" => executing'[w] = Idle,
           \A q \in Request : \/ confirming'[q] = NoPlan
                              \/ confirming'[q] = confirming[q] /\ confirming[q] # p,
           PlanProgress(p)', \A w \in Worker : RunProgress(w, p)'
    PROVE  ProgressInv'
<1>1. ASSUME NEW q \in Plan \ {p}
      PROVE  PlanProgress(q)'
  <2>1. /\ ValidateJob[q] \notin {ValidateJob[p], PublishJob[p]}
        /\ ValidateJob[q] \in Job
    BY KeyAssumption
  <2>2. row[ValidateJob[q]].state = "absent" => row'[ValidateJob[q]].state = "absent"
    BY <2>1 DEF RowsKept
  <2> QED BY <2>2 DEF ProgressInv, PlanProgress
<1>2. ASSUME NEW w \in Worker, NEW q \in Plan \ {p}
      PROVE  RunProgress(w, q)'
  <2>1. CASE Follows(w)
    BY <2>1, KeyAssumption DEF ProgressInv, RunProgress, Follows
  <2>2. CASE worker'[w].job \in {ValidateJob[p], PublishJob[p]}
    BY <2>2, KeyAssumption DEF RunProgress, PublishRuns, Runs, Done, At
  <2> QED BY <2>1, <2>2
<1>3. ConfirmsReady'
  BY DEF ProgressInv, ConfirmsReady, DomainOK
<1>4. OnlyHandlersRead'
  BY DEF OnlyHandlersRead, Follows
<1> QED BY <1>1, <1>2, <1>3, <1>4 DEF ProgressInv

(* Whoever works for a plan finds the plan in progress, and alone. *)
LEMMA AloneAtJob ==
    ASSUME DistinctOwners, AttendedInv, NEW v \in Worker, NEW w \in Worker,
           NEW j \in Job, At(v, j), At(w, j)
    PROVE  v = w
BY DEF AttendedInv, AliveInv, Owned, DistinctOwners, At

LEMMA ValidatorFinds ==
    ASSUME DistinctOwners, AttendedInv, ProgressInv, NEW w \in Worker, NEW p \in Plan,
           At(w, ValidateJob[p]), snapshot[p] = "none"
    PROVE  /\ plan[p] = "validating"
           /\ row[PublishJob[p]].state = "absent"
           /\ \A v \in Worker : ~At(v, PublishJob[p])
           /\ \A q \in Request : confirming[q] # p
<1>1. PlanProgress(p) /\ PlanInv(p) /\ plan[p] \in PlanState
  BY DEF ProgressInv, AttendedInv, PipelineInv, DomainOK
<1>2. row[ValidateJob[p]].state # "absent"
  BY DEF AttendedInv, QueueInv, AppliedInv, NothingOutlivesRow, At
<1>3. plan[p] = "validating"
  BY <1>1, <1>2 DEF PlanProgress, PlanState, Settled
<1>4. row[PublishJob[p]].state = "absent"
  BY <1>1 DEF PlanInv
<1>5. \A v \in Worker : ~At(v, PublishJob[p])
  BY <1>4 DEF AttendedInv, QueueInv, AppliedInv, NothingOutlivesRow, At
<1>6. \A q \in Request : confirming[q] # p
  BY <1>3, PlanAssumption DEF ProgressInv, ConfirmsReady
<1> QED BY <1>3, <1>4, <1>5, <1>6

LEMMA PublisherFinds ==
    ASSUME DistinctOwners, AttendedInv, ProgressInv, NEW w \in Worker, NEW p \in Plan,
           At(w, PublishJob[p])
    PROVE  /\ snapshot[p] = "passed"
           /\ plan[p] \in {"publish_planned", "published", "failed"}
           /\ \A v \in Worker \ {w} : ~At(v, PublishJob[p])
           /\ \A q \in Request : confirming[q] # p
<1>1. PlanProgress(p) /\ plan[p] \in PlanState
  BY DEF ProgressInv, AttendedInv, DomainOK
<1>2. snapshot[p] = "passed"
  BY RunnerIsValidated DEF AttendedInv, At
<1>3. plan[p] \in {"publish_planned", "published", "failed"}
  BY <1>1, <1>2 DEF PlanProgress, PlanState
<1>4. \A v \in Worker \ {w} : ~At(v, PublishJob[p])
  BY AloneAtJob, KeyAssumption
<1>5. \A q \in Request : confirming[q] # p
  BY <1>3, PlanAssumption DEF ProgressInv, ConfirmsReady
<1> QED BY <1>2, <1>3, <1>4, <1>5

(* A plan that is not confirmed yet has nobody at its jobs. *)
LEMMA NobodyFinds ==
    ASSUME AttendedInv, ProgressInv, NEW p \in Plan, plan[p] \in {"absent", "ready"}
    PROVE  /\ row[ValidateJob[p]].state = "absent"
           /\ snapshot[p] = "none"
           /\ \A w \in Worker : ~At(w, ValidateJob[p]) /\ ~At(w, PublishJob[p])
<1>1. PlanProgress(p) /\ PlanInv(p)
  BY DEF ProgressInv, AttendedInv, PipelineInv
<1>2. /\ row[ValidateJob[p]].state = "absent"
      /\ row[PublishJob[p]].state = "absent"
      /\ snapshot[p] = "none"
  BY <1>1 DEF PlanProgress, PlanInv
<1> QED BY <1>2 DEF AttendedInv, QueueInv, AppliedInv, NothingOutlivesRow, At

(* The API.  A request that confirms finds its plan as it has read it, when no
   other request confirms the same plan. *)
LEMMA ApiProgress ==
    ASSUME DistinctOwners, AttendedInv, ProgressInv, OneConfirmation, ApiStep
    PROVE  ProgressInv'
<1>0. /\ RowsGood /\ DomainOK /\ OnlyHandlersRead
      /\ \A p \in Plan : PlanProgress(p)
      /\ \A w \in Worker, p \in Plan : RunProgress(w, p)
      /\ ConfirmsReady
  BY AttemptInvParts DEF AttendedInv, QueueInv, ProgressInv
<1>1. ASSUME NEW p \in Plan, plan[p] \in {"absent", "ready"},
             NEW state \in {"ready", "validating"}, plan' = [plan EXCEPT ![p] = state],
             UNCHANGED <<snapshot, executing>>,
             \/ state = "ready" /\ UNCHANGED vars
             \/ state = "validating" /\ EnqueueNow(ValidateJob[p]),
             \A q \in Request : \/ confirming'[q] = NoPlan
                                \/ confirming'[q] = confirming[q] /\ confirming[q] # p
      PROVE  ProgressInv'
  <2>1. /\ row[ValidateJob[p]].state = "absent"
        /\ snapshot[p] = "none"
        /\ \A w \in Worker : ~At(w, ValidateJob[p]) /\ ~At(w, PublishJob[p])
    BY <1>1, NobodyFinds
  <2>2. /\ RowsKept({ValidateJob[p], PublishJob[p]})
        /\ \A k \in Job : Works(k) => Works(k)'
        /\ worker' = worker
        /\ state = "validating" => Works(ValidateJob[p])'
        /\ state = "ready" => row'[ValidateJob[p]].state = "absent"
    <3>1. CASE state = "validating"
      <4>1. EnqueueNow(ValidateJob[p]) /\ ValidateJob[p] \in Job
        BY <1>1, <3>1, KeyAssumption
      <4>2. RowsKept({ValidateJob[p]})
        BY <1>0, <4>1, EnqueueKeepsRows
      <4>3. RowsKept({ValidateJob[p], PublishJob[p]})
        BY <4>2 DEF RowsKept
      <4> QED BY <2>1, <3>1, <4>1, <4>3, EnqueueWorks
    <3>2. CASE state = "ready"
      <4>1. UNCHANGED vars
        BY <1>1, <3>2
      <4> QED BY <2>1, <3>2, <4>1 DEF vars, RowsKept, Works
    <3> QED BY <3>1, <3>2
  <2>3. \A w \in Worker : Follows(w)
    BY <1>0, <1>1, <2>2, IdleFollows
  <2>4. plan'[p] = state /\ \A q \in Plan \ {p} : plan'[q] = plan[q]
    BY <1>0, <1>1 DEF DomainOK
  <2>5. PlanProgress(p)'
    BY <1>1, <2>1, <2>2, <2>4 DEF PlanProgress, Settled
  <2>6. \A w \in Worker : RunProgress(w, p)'
    BY <2>1, <2>2 DEF RunProgress, PublishRuns, Runs, Done, At
  <2> QED BY <1>0, <1>1, <2>2, <2>3, <2>4, <2>5, <2>6, ProgressOfOne, KeyAssumption
<1>2. ASSUME NEW p \in Plan, CreatePlan(p) \/ CreateConfirmedPlan(p)
      PROVE  ProgressInv'
  <2>1. \A q \in Request : confirming[q] # p
    BY <1>0, <1>2, PlanAssumption DEF ConfirmsReady, CreatePlan, CreateConfirmedPlan
  <2> QED BY <1>1, <1>2, <2>1 DEF CreatePlan, CreateConfirmedPlan
<1>3. ASSUME NEW q \in Request, ConfirmWrite(q)
      PROVE  ProgressInv'
  <2> DEFINE p == confirming[q]
  <2>1. p \in Plan /\ plan[p] = "ready"
    BY <1>0, <1>3 DEF ConfirmWrite, ConfirmsReady, DomainOK
  <2>2. \A r \in Request : \/ confirming'[r] = NoPlan
                           \/ confirming'[r] = confirming[r] /\ confirming[r] # p
    BY <1>0, <1>3 DEF ConfirmWrite, OneConfirmation, DomainOK
  <2> QED BY <1>1, <1>3, <2>1, <2>2 DEF ConfirmWrite
<1>4. ASSUME NEW q \in Request,
             ConfirmRefused(q) \/ \E p \in Plan : ConfirmRead(q, p)
      PROVE  ProgressInv'
  <2>1. UNCHANGED <<row, worker, plan, snapshot, executing>>
    BY <1>4 DEF ConfirmRefused, ConfirmRead, vars
  <2>2. ConfirmsReady'
    BY <1>0, <1>4, <2>1, PlanAssumption
       DEF ConfirmRefused, ConfirmRead, ConfirmsReady, DomainOK
  <2>3. \A p \in Plan : PlanProgress(p)'
    BY <1>0, <2>1 DEF PlanProgress, Works
  <2>4. \A w \in Worker, p \in Plan : RunProgress(w, p)'
    BY <1>0, <2>1 DEF RunProgress, PublishRuns, Runs, Done, At
  <2>5. OnlyHandlersRead'
    BY <1>0, <2>1 DEF OnlyHandlersRead
  <2> QED BY <2>2, <2>3, <2>4, <2>5 DEF ProgressInv
<1> QED BY <1>2, <1>3, <1>4 DEF ApiStep

(* The handlers.  A run that commits leaves its plan as its job promises. *)
LEMMA CommitProgress ==
    ASSUME DistinctOwners, AttendedInv, ProgressInv,
           NEW w \in Worker, NEW p \in Plan, NEW j \in {ValidateJob[p], PublishJob[p]},
           At(w, j), NEW outbox \in SUBSET {PublishJob[p]}, Commits(w, outbox),
           UNCHANGED confirming, \A q \in Request : confirming[q] # p,
           \A q \in Plan \ {p} : plan'[q] = plan[q] /\ snapshot'[q] = snapshot[q],
           PlanProgress(p)', plan'[p] # "validating",
           j = PublishJob[p] => plan'[p] \in Settled,
           \/ plan'[p] = plan[p]
           \/ \A v \in Worker \ {w} : ~At(v, PublishJob[p])
    PROVE  ProgressInv'
<1>0. /\ WorkersGood /\ DomainOK /\ OnlyHandlersRead
      /\ outbox \in SUBSET Job
      /\ \A v \in Worker : RunProgress(v, p)
  BY AttemptInvParts, KeyAssumption DEF AttendedInv, QueueInv, ProgressInv
<1>1. RowsKept(outbox)
  BY <1>0, CommitKeepsRows
<1>2. RowsKept({ValidateJob[p], PublishJob[p]})
  BY <1>1 DEF RowsKept
<1>3. /\ \A k \in Job : Works(k) => Works(k)'
      /\ \A v \in Worker \ {w} : Follows(v)
      /\ worker'[w].pc = "reporting" /\ worker'[w].job = j
      /\ executing'[w] = Idle
  BY <1>0, CommitWorks DEF At
<1>4. RunProgress(w, p)'
  BY <1>3, KeyAssumption DEF RunProgress, PublishRuns, Runs, Done, At
<1>5. ASSUME NEW v \in Worker \ {w}
      PROVE  RunProgress(v, p)'
  <2>1. Follows(v) /\ ValidateJob[p] \in Job /\ PublishJob[p] \in Job
    BY <1>3, KeyAssumption
  <2>2. CASE plan'[p] = plan[p]
    BY <1>0, <2>1, <2>2 DEF RunProgress, Follows
  <2>3. CASE ~At(v, PublishJob[p])
    BY <2>1, <2>3 DEF RunProgress, Follows, Done, PublishRuns, Runs, At
  <2> QED BY <2>2, <2>3
<1> QED BY <1>0, <1>2, <1>3, <1>4, <1>5, ProgressOfOne, KeyAssumption

(* A run that reads keeps what it has read until it commits. *)
LEMMA ReadProgress ==
    ASSUME AttendedInv, ProgressInv, NEW w \in Worker, NEW step, NEW loaded,
           Reads(w, step, loaded), worker[w].pc = "handling",
           \A p \in Plan : worker[w].job = PublishJob[p] =>
               /\ plan[p] \in {"publish_planned", "published"}
               /\ loaded = "published" => plan[p] = "published"
    PROVE  ProgressInv'
<1>0. /\ DomainOK /\ OnlyHandlersRead /\ ConfirmsReady
      /\ \A p \in Plan : PlanProgress(p)
      /\ \A v \in Worker, p \in Plan : RunProgress(v, p)
  BY DEF AttendedInv, ProgressInv
<1>1. /\ UNCHANGED <<row, worker, plan, snapshot, confirming>>
      /\ executing' = [executing EXCEPT ![w] = [step |-> step, loaded |-> loaded]]
  BY DEF Reads, vars, domainVars
<1>2. \A p \in Plan : PlanProgress(p)'
  BY <1>0, <1>1 DEF PlanProgress, Works
<1>3. \A v \in Worker \ {w}, p \in Plan : RunProgress(v, p)'
  BY <1>0, <1>1 DEF RunProgress, PublishRuns, Runs, Done, At, DomainOK
<1>4. \A p \in Plan : RunProgress(w, p)'
  BY <1>0, <1>1 DEF RunProgress, PublishRuns, Runs, Done, At, DomainOK
<1>5. OnlyHandlersRead' /\ ConfirmsReady'
  BY <1>0, <1>1 DEF OnlyHandlersRead, ConfirmsReady, DomainOK
<1> QED BY <1>2, <1>3, <1>4, <1>5 DEF ProgressInv

LEMMA ValidateProgress ==
    ASSUME DistinctOwners, AttendedInv, ProgressInv, NEW w \in Worker, NEW p \in Plan,
           \/ ValidateReplay(w, p) \/ ValidateRefuses(w, p) \/ ValidateScans(w, p)
           \/ \E outcome \in {"passed", "failed"} : ValidateRecords(w, p, outcome)
    PROVE  ProgressInv'
<1>0. DomainOK /\ PlanProgress(p) /\ plan[p] \in PlanState
  BY DEF AttendedInv, ProgressInv, DomainOK
<1>1. At(w, ValidateJob[p])
  BY DEF ValidateReplay, ValidateRefuses, ValidateScans, ValidateRecords, Runs, At
<1>2. CASE ValidateReplay(w, p)
  <2>1. /\ snapshot[p] # "none" /\ Commits(w, {})
        /\ UNCHANGED <<plan, snapshot, confirming>>
    BY <1>2 DEF ValidateReplay, domainVars
  <2>2. plan[p] \in {"publish_planned", "published", "failed"}
    BY <1>0, <2>1 DEF PlanProgress, PlanState
  <2>3. \A q \in Request : confirming[q] # p
    BY <2>2, PlanAssumption DEF ProgressInv, ConfirmsReady
  <2>4. plan[p] = "publish_planned" => Works(PublishJob[p])'
    BY <1>0, <2>1, KeyAssumption, CommitWorks, AttemptInvParts
       DEF PlanProgress, AttendedInv, QueueInv, ProgressInv
  <2>5. PlanProgress(p)'
    BY <2>1, <2>2, <2>4 DEF PlanProgress, Settled
  <2> QED BY <1>1, <2>1, <2>2, <2>3, <2>5, CommitProgress, KeyAssumption
<1>3. ASSUME RefusalSnapshot(p), Commits(w, {}), UNCHANGED confirming
      PROVE  ProgressInv'
  <2>1. /\ plan' = [plan EXCEPT ![p] = "failed"]
        /\ snapshot' = [snapshot EXCEPT ![p] = "failed"]
        /\ snapshot[p] = "none"
    BY <1>3 DEF RefusalSnapshot
  <2>2. /\ \A v \in Worker : ~At(v, PublishJob[p])
        /\ \A q \in Request : confirming[q] # p
    BY <1>1, <2>1, ValidatorFinds
  <2>3. PlanProgress(p)' /\ plan'[p] = "failed"
    BY <1>0, <2>1 DEF PlanProgress, DomainOK, Settled
  <2>4. \A q \in Plan \ {p} : plan'[q] = plan[q] /\ snapshot'[q] = snapshot[q]
    BY <1>0, <2>1 DEF DomainOK
  <2> QED BY <1>1, <1>3, <2>2, <2>3, <2>4, CommitProgress, KeyAssumption
<1>4. CASE ValidateRefuses(w, p)
  BY <1>3, <1>4 DEF ValidateRefuses
<1>5. CASE ValidateRecords(w, p, "failed")
  BY <1>3, <1>5 DEF ValidateRecords, RefusalSnapshot
<1>6. CASE ValidateRecords(w, p, "passed")
  <2>1. /\ plan' = [plan EXCEPT ![p] = "publish_planned"]
        /\ snapshot' = [snapshot EXCEPT ![p] = "passed"]
        /\ snapshot[p] = "none"
        /\ Commits(w, {PublishJob[p]})
        /\ UNCHANGED confirming
    BY <1>6 DEF ValidateRecords
  <2>2. /\ row[PublishJob[p]].state = "absent"
        /\ \A v \in Worker : ~At(v, PublishJob[p])
        /\ \A q \in Request : confirming[q] # p
    BY <1>1, <2>1, ValidatorFinds
  <2>3. Works(PublishJob[p])'
    BY <1>0, <2>1, <2>2, KeyAssumption, CommitWorks, AttemptInvParts
       DEF AttendedInv, QueueInv, ProgressInv
  <2>4. plan'[p] = "publish_planned" /\ snapshot'[p] = "passed"
    BY <1>0, <2>1 DEF DomainOK
  <2>5. PlanProgress(p)'
    BY <2>3, <2>4 DEF PlanProgress, Settled
  <2>6. \A q \in Plan \ {p} : plan'[q] = plan[q] /\ snapshot'[q] = snapshot[q]
    BY <1>0, <2>1 DEF DomainOK
  <2> QED BY <1>1, <2>1, <2>2, <2>4, <2>5, <2>6, CommitProgress, KeyAssumption
<1>7. CASE ValidateScans(w, p)
  <2>1. \A q \in Plan : worker[w].job # PublishJob[q]
    BY <1>1, KeyAssumption DEF At
  <2> QED BY <1>7, <2>1, ReadProgress DEF ValidateScans, Runs
<1> QED BY <1>2, <1>4, <1>5, <1>6, <1>7

LEMMA PublishProgress ==
    ASSUME DistinctOwners, AttendedInv, ProgressInv, NEW w \in Worker, NEW p \in Plan,
           \/ PublishSkips(w, p) \/ PublishReadsPlan(w, p) \/ PublishRefuses(w, p)
           \/ PublishFindsPublished(w, p) \/ PublishFindsNothing(w, p)
           \/ PublishInserts(w, p)
    PROVE  ProgressInv'
<1>0. DomainOK /\ RunProgress(w, p)
  BY DEF AttendedInv, ProgressInv
<1>1. At(w, PublishJob[p]) /\ worker[w].pc = "handling"
  BY DEF PublishSkips, PublishReadsPlan, PublishRefuses, PublishFindsPublished,
     PublishFindsNothing, PublishInserts, Runs, At
<1>2. /\ snapshot[p] = "passed"
      /\ plan[p] \in {"publish_planned", "published", "failed"}
      /\ \A v \in Worker \ {w} : ~At(v, PublishJob[p])
      /\ \A q \in Request : confirming[q] # p
  BY <1>1, PublisherFinds
<1>3. ASSUME NEW state \in Settled, plan'[p] = state, UNCHANGED <<snapshot, confirming>>,
             \A q \in Plan \ {p} : plan'[q] = plan[q], Commits(w, {})
      PROVE  ProgressInv'
  <2>1. PlanProgress(p)'
    BY <1>2, <1>3 DEF PlanProgress, Settled
  <2> QED BY <1>1, <1>2, <1>3, <2>1, CommitProgress, KeyAssumption DEF Settled
<1>4. CASE PublishSkips(w, p)
  BY <1>3, <1>4 DEF PublishSkips, domainVars, Settled
<1>5. CASE PublishRefuses(w, p)
  BY <1>0, <1>3, <1>5 DEF PublishRefuses, DomainOK, Settled
<1>6. CASE PublishInserts(w, p)
  BY <1>0, <1>3, <1>6 DEF PublishInserts, DomainOK, Settled
<1>7. CASE PublishFindsPublished(w, p)
  <2>1. executing[w].loaded = "published" => plan[p] = "published"
    BY <1>0, <1>7 DEF PublishFindsPublished, RunProgress, PublishRuns
  <2>2. plan'[p] = "published" /\ \A q \in Plan \ {p} : plan'[q] = plan[q]
    BY <1>0, <1>7, <2>1 DEF PublishFindsPublished, DomainOK
  <2> QED BY <1>3, <1>7, <2>2 DEF PublishFindsPublished, Settled
<1>8. \A q \in Plan : worker[w].job = PublishJob[q] => q = p
  BY <1>1, KeyAssumption DEF At
<1>9. CASE PublishReadsPlan(w, p)
  BY <1>1, <1>2, <1>8, <1>9, ReadProgress DEF PublishReadsPlan
<1>10. CASE PublishFindsNothing(w, p)
  <2>1. /\ plan[p] \in {"publish_planned", "published"}
        /\ executing[w].loaded = "published" => plan[p] = "published"
    BY <1>0, <1>10 DEF PublishFindsNothing, RunProgress, PublishRuns
  <2> QED BY <1>1, <1>8, <1>10, <2>1, ReadProgress DEF PublishFindsNothing
<1> QED BY <1>4, <1>5, <1>6, <1>7, <1>9, <1>10

(* The status transactions, and what the queue does on its own. *)
LEMMA SettleFollows ==
    ASSUME AttemptInv, OnlyHandlersRead, NEW w \in Worker, UNCHANGED executing,
           Settle(w) \/ (Abandon(w) /\ worker[w].pc # "handling"), NEW v \in Worker
    PROVE  Follows(v)
<1>1. worker' = [worker EXCEPT ![w] = Polling] /\ worker[w].pc # "handling"
  BY DEF Settle, Abandon
<1>2. WorkersGood
  BY AttemptInvParts
<1>3. CASE v = w
  <2>1. worker'[w] = Polling /\ executing'[w] = Idle
    BY <1>1, <1>2 DEF WorkersGood, OnlyHandlersRead
  <2> QED BY <1>3, <2>1 DEF Follows, Done, At, PublishRuns, Runs, Polling
<1>4. CASE v # w
  BY <1>1, <1>2, <1>4, IdleFollows DEF WorkersGood
<1> QED BY <1>3, <1>4

LEMMA StatusProgress ==
    ASSUME DistinctOwners, AttendedInv, ProgressInv, NEW w \in Worker, StatusStep(w)
    PROVE  ProgressInv'
<1>0. /\ QueueInv /\ DomainOK /\ OnlyHandlersRead /\ AttemptInv
      /\ \A v \in Worker, p \in Plan : RunProgress(v, p)
  BY DEF AttendedInv, ProgressInv, QueueInv
<1>1. /\ Settle(w) \/ Abandon(w)
      /\ worker[w].pc = "settling"
      /\ UNCHANGED executing
  BY DEF StatusStep, SettleVerdict, SettleDeadLetter, SettleRollsBack, DeadLetters, Settle
<1>2. \A v \in Worker : Follows(v)
  BY <1>0, <1>1, SettleFollows
<1>3. RowsKept({})
  BY <1>0, <1>1, QueueKeepsRows
<1>4. \A k \in Job : Works(k) => Works(k)' \/ Done(w, k)
  BY <1>0, <1>1, QueueKeepsWorks
<1>5. CASE UNCHANGED domainVars
  BY <1>0, <1>2, <1>3, <1>4, <1>5, ProgressOfQueue
<1>6. ASSUME NEW p \in Plan, plan' = [plan EXCEPT ![p] = "failed"],
             \A q \in Plan \ {p} : snapshot'[q] = snapshot[q],
             snapshot'[p] # "none", UNCHANGED confirming,
             At(w, ValidateJob[p]) \/ At(w, PublishJob[p]),
             \A v \in Worker \ {w} : ~At(v, PublishJob[p]),
             \A q \in Request : confirming[q] # p
      PROVE  ProgressInv'
  <2>1. plan'[p] = "failed" /\ \A q \in Plan \ {p} : plan'[q] = plan[q]
    BY <1>0, <1>6 DEF DomainOK
  <2>2. PlanProgress(p)'
    BY <1>6, <2>1 DEF PlanProgress, Settled
  <2>3. worker'[w].pc = "polling"
    BY <1>0, <1>1, AttemptInvParts DEF Settle, Abandon, WorkersGood, Polling
  <2>4. ASSUME NEW v \in Worker PROVE RunProgress(v, p)'
    <3>1. CASE v = w
      BY <2>3, <3>1 DEF RunProgress, PublishRuns, Runs, Done, At
    <3>2. CASE v # w
      <4>1. Follows(v) /\ ~At(v, PublishJob[p]) /\ PublishJob[p] \in Job
        BY <1>2, <1>6, <3>2, KeyAssumption
      <4> QED BY <2>1, <4>1 DEF RunProgress, Follows, Done, PublishRuns, Runs, At, Settled
    <3> QED BY <3>1, <3>2
  <2>5. RowsKept({ValidateJob[p], PublishJob[p]})
    BY <1>3 DEF RowsKept
  <2>6. ASSUME NEW q \in Plan \ {p}
        PROVE  /\ Works(ValidateJob[q]) => Works(ValidateJob[q])'
               /\ Works(PublishJob[q]) => Works(PublishJob[q])'
    BY <1>4, <1>6, KeyAssumption DEF Done, At
  <2> QED BY <1>0, <1>2, <1>6, <2>1, <2>2, <2>4, <2>5, <2>6, ProgressOfOne
<1>7. ASSUME NEW p \in Plan, SettleDeadLetter(w, p), ~UNCHANGED domainVars
      PROVE  ProgressInv'
  <2>1. CASE /\ worker[w].job = PublishJob[p]
             /\ plan' = [plan EXCEPT ![p] = "failed"]
             /\ UNCHANGED snapshot
    <3>1. At(w, PublishJob[p])
      BY <1>1, <2>1 DEF At
    <3> QED BY <1>6, <1>7, <2>1, <3>1, PublisherFinds DEF SettleDeadLetter
  <2>2. CASE worker[w].job = ValidateJob[p] /\ RefusalSnapshot(p)
    <3>1. At(w, ValidateJob[p]) /\ snapshot[p] = "none"
      BY <1>1, <2>2 DEF At, RefusalSnapshot
    <3>2. /\ \A q \in Plan \ {p} : snapshot'[q] = snapshot[q]
          /\ snapshot'[p] = "failed"
          /\ plan' = [plan EXCEPT ![p] = "failed"]
      BY <1>0, <2>2 DEF RefusalSnapshot, DomainOK
    <3> QED BY <1>6, <1>7, <3>1, <3>2, ValidatorFinds DEF SettleDeadLetter
  <2> QED BY <1>7, <2>1, <2>2 DEF SettleDeadLetter, domainVars
<1> QED BY <1>5, <1>7 DEF StatusStep, SettleVerdict, SettleRollsBack

LEMMA RaiseProgress ==
    ASSUME AttendedInv, ProgressInv, NEW w \in Worker, HandlerRaises(w)
    PROVE  ProgressInv'
<1>0. QueueInv /\ DomainOK /\ OnlyHandlersRead /\ WorkersGood
  BY AttemptInvParts DEF AttendedInv, ProgressInv, QueueInv
<1>1. /\ HandlerFails(w, "retry") /\ UNCHANGED domainVars
      /\ executing' = [executing EXCEPT ![w] = Idle]
  BY DEF HandlerRaises
<1>2. worker' = [worker EXCEPT ![w].pc = "reporting", ![w].verdict = "retry"]
  BY <1>1 DEF HandlerFails
<1>3. ASSUME NEW v \in Worker PROVE Follows(v)
  <2>1. CASE v = w
    <3>1. /\ worker'[w].pc = "reporting" /\ worker'[w].verdict = "retry"
          /\ executing'[w] = Idle
      BY <1>0, <1>1, <1>2 DEF WorkersGood, Process, DomainOK
    <3> QED BY <2>1, <3>1 DEF Follows, Done, PublishRuns, Runs
  <2>2. CASE v # w
    BY <1>0, <1>1, <1>2, <2>2, IdleFollows DEF WorkersGood, DomainOK
  <2> QED BY <2>1, <2>2
<1>4. RowsKept({}) /\ \A k \in Job : Works(k) => Works(k)'
  BY <1>0, <1>1, QueueKeepsRows, QueueKeepsWorks
<1> QED BY <1>0, <1>1, <1>3, <1>4, ProgressOfQueue

LEMMA ProgressStep ==
    ASSUME DistinctOwners, AttendedInv, ProgressInv, OneConfirmation,
           [PubNext]_pubVars
    PROVE  ProgressInv'
<1>1. ASSUME NEW w \in Worker, HandlerStep(w)
      PROVE  ProgressInv'
  BY <1>1, ValidateProgress, PublishProgress, RaiseProgress DEF HandlerStep
<1>2. CASE QueueStep
  <2>1. QueueInv /\ AttemptInv /\ DomainOK /\ OnlyHandlersRead
    BY DEF AttendedInv, ProgressInv, QueueInv
  <2>2. /\ RowsKept({})
        /\ \A k \in Job : Works(k) => Works(k)'
        /\ \A w \in Worker : Follows(w)
    BY <1>2, <2>1, QueueKeepsRows, QueueKeepsWorks, QueueFollows
  <2> QED BY <1>2, <2>1, <2>2, ProgressOfQueue DEF QueueStep
<1>3. CASE UNCHANGED pubVars
  BY <1>3 DEF pubVars, domainVars, vars, ProgressInv, PlanProgress, RunProgress,
     ConfirmsReady, OnlyHandlersRead, PublishRuns, Runs, Done, At, Works
<1> QED BY <1>1, <1>2, <1>3, ApiProgress, StatusProgress DEF PubNext

LEMMA ProgressInit == PubInit => ProgressInv
<1> SUFFICES ASSUME PubInit PROVE ProgressInv
  OBVIOUS
<1>1. /\ \A j \in Job : row[j].state = "absent"
      /\ \A w \in Worker : worker[w].pc = "polling"
  BY DEF PubInit, Init, NoRow, Polling
<1>2. \A p \in Plan : PlanProgress(p)
  BY <1>1, KeyAssumption DEF PubInit, PlanProgress, Settled
<1>3. \A w \in Worker, p \in Plan : RunProgress(w, p)
  BY <1>1 DEF RunProgress, PublishRuns, Runs, Done, At
<1> QED BY <1>2, <1>3 DEF PubInit, ProgressInv, ConfirmsReady, OnlyHandlersRead

LEMMA ProgressInvariant ==
    DistinctOwners =>
        (AttendedSpec /\ []OneConfirmation => [](AttendedInv /\ ProgressInv))
<1> SUFFICES ASSUME DistinctOwners
             PROVE  AttendedSpec /\ []OneConfirmation => [](AttendedInv /\ ProgressInv)
  OBVIOUS
<1>1. AttendedInv /\ ProgressInv /\ OneConfirmation /\ [PubNext /\ Attended]_pubVars
         => ProgressInv'
  BY ProgressStep
<1>2. AttendedSpec => []AttendedInv
  BY AttendedInvariant
<1> QED BY <1>1, <1>2, ProgressInit, PTL DEF AttendedSpec

-----------------------------------------------------------------------------
(* Verdicts.  The moves of a plan, of which most handlers check nothing when
   they write; a publication brings the passport with it. *)
PlanMoves(p, from, to) == plan[p] \in from /\ plan' = [plan EXCEPT ![p] = to]

LawfulMove(p) ==
    \/ /\ \/ PlanMoves(p, {"absent"}, "ready")
          \/ PlanMoves(p, {"absent", "ready"}, "validating")
          \/ PlanMoves(p, {"validating"}, "publish_planned")
          \/ PlanMoves(p, {"validating", "publish_planned", "published"}, "failed")
       /\ UNCHANGED catalog
    \/ /\ PlanMoves(p, {"publish_planned"}, "published")
       /\ catalog[CoordinateOf[p]] \in {NoDigest, DigestOf[p]}
       /\ catalog' = [catalog EXCEPT ![CoordinateOf[p]] = DigestOf[p]]

LEMMA LawfulStep ==
    ASSUME DistinctOwners, AttendedInv, ProgressInv, [PubNext]_pubVars
    PROVE  UNCHANGED <<plan, catalog>> \/ \E p \in Plan : LawfulMove(p)
<1> DEFINE Lawful == UNCHANGED <<plan, catalog>> \/ \E p \in Plan : LawfulMove(p)
<1>0. DomainOK
  BY DEF AttendedInv
<1>1. CASE ApiStep
  <2>1. ASSUME NEW p \in Plan, CreatePlan(p) \/ CreateConfirmedPlan(p)
        PROVE  LawfulMove(p)
    BY <2>1 DEF CreatePlan, CreateConfirmedPlan, LawfulMove, PlanMoves
  <2>2. ASSUME NEW q \in Request, ConfirmWrite(q)
        PROVE  confirming[q] \in Plan /\ LawfulMove(confirming[q])
    BY <1>0, <2>2 DEF ConfirmWrite, LawfulMove, PlanMoves, ProgressInv, ConfirmsReady,
       DomainOK
  <2>3. ASSUME NEW q \in Request,
               ConfirmRefused(q) \/ \E p \in Plan : ConfirmRead(q, p)
        PROVE  UNCHANGED <<plan, catalog>>
    BY <2>3 DEF ConfirmRefused, ConfirmRead
  <2> QED BY <1>1, <2>1, <2>2, <2>3 DEF ApiStep
<1>2. ASSUME NEW w \in Worker, HandlerStep(w)
      PROVE  Lawful
  <2>1. ASSUME NEW p \in Plan,
               \/ ValidateReplay(w, p) \/ ValidateScans(w, p) \/ PublishSkips(w, p)
               \/ PublishReadsPlan(w, p) \/ PublishFindsNothing(w, p)
        PROVE  UNCHANGED <<plan, catalog>>
    BY <2>1 DEF ValidateReplay, ValidateScans, PublishSkips, PublishReadsPlan,
       PublishFindsNothing, Reads, domainVars
  <2>2. ASSUME NEW p \in Plan, NEW outcome \in {"passed", "failed"},
               ValidateRefuses(w, p) \/ ValidateRecords(w, p, outcome)
        PROVE  LawfulMove(p)
    <3>1. At(w, ValidateJob[p]) /\ snapshot[p] = "none"
      BY <2>2 DEF ValidateRefuses, ValidateRecords, RefusalSnapshot, Runs, At
    <3>2. plan[p] = "validating"
      BY <3>1, ValidatorFinds
    <3> QED BY <2>2, <3>2 DEF ValidateRefuses, ValidateRecords, RefusalSnapshot,
               LawfulMove, PlanMoves
  <2>3. ASSUME NEW p \in Plan, PublishRefuses(w, p)
        PROVE  LawfulMove(p)
    BY <2>3 DEF PublishRefuses, ProgressInv, RunProgress, PublishRuns, LawfulMove,
       PlanMoves
  <2>4. ASSUME NEW p \in Plan, PublishFindsPublished(w, p) \/ PublishInserts(w, p)
        PROVE  Lawful
    <3>1. /\ plan[p] \in {"publish_planned", "published"}
          /\ executing[w].loaded = "published" => plan[p] = "published"
      BY <2>4 DEF PublishFindsPublished, PublishInserts, ProgressInv, RunProgress,
         PublishRuns
    <3>2. /\ plan[p] = "published" => catalog[CoordinateOf[p]] = DigestOf[p]
          /\ CoordinateOf[p] \in Coordinate /\ DigestOf[p] # NoDigest
      BY PlanAssumption DEF AttendedInv, PipelineInv, PlanInv
    <3>3. /\ plan' = [plan EXCEPT ![p] = "published"]
          /\ catalog[CoordinateOf[p]] \in {NoDigest, DigestOf[p]}
          /\ catalog' = [catalog EXCEPT ![CoordinateOf[p]] = DigestOf[p]]
      BY <1>0, <2>4, <3>1, <3>2 DEF PublishFindsPublished, PublishInserts, DomainOK
    <3>4. CASE plan[p] = "published"
      BY <1>0, <3>2, <3>3, <3>4 DEF DomainOK
    <3>5. CASE plan[p] = "publish_planned"
      BY <3>3, <3>5 DEF LawfulMove, PlanMoves
    <3> QED BY <3>1, <3>4, <3>5
  <2>5. HandlerRaises(w) => UNCHANGED <<plan, catalog>>
    BY DEF HandlerRaises, domainVars
  <2> QED BY <1>2, <2>1, <2>2, <2>3, <2>4, <2>5 DEF HandlerStep
<1>3. ASSUME NEW w \in Worker, StatusStep(w)
      PROVE  Lawful
  <2>1. ASSUME NEW p \in Plan, SettleDeadLetter(w, p)
        PROVE  Lawful
    <3>1. worker[w].pc # "polling"
      BY <2>1 DEF SettleDeadLetter, DeadLetters
    <3>2. CASE plan' = plan
      BY <2>1, <3>2 DEF SettleDeadLetter
    <3>3. CASE /\ worker[w].job = PublishJob[p] /\ plan[p] \notin Settled
               /\ plan' = [plan EXCEPT ![p] = "failed"]
      <4>1. plan[p] = "publish_planned"
        BY <3>1, <3>3, PublisherFinds DEF At, Settled
      <4> QED BY <2>1, <3>3, <4>1 DEF SettleDeadLetter, LawfulMove, PlanMoves
    <3>4. CASE worker[w].job = ValidateJob[p] /\ RefusalSnapshot(p)
      <4>1. plan[p] = "validating"
        BY <3>1, <3>4, ValidatorFinds DEF At, RefusalSnapshot
      <4> QED BY <2>1, <3>4, <4>1 DEF SettleDeadLetter, RefusalSnapshot, LawfulMove,
                 PlanMoves
    <3> QED BY <2>1, <3>2, <3>3, <3>4 DEF SettleDeadLetter
  <2>2. ASSUME SettleVerdict(w) \/ \E p \in Plan : SettleRollsBack(w, p)
        PROVE  Lawful
    BY <2>2 DEF SettleVerdict, SettleRollsBack, domainVars
  <2> QED BY <1>3, <2>1, <2>2 DEF StatusStep
<1>4. CASE QueueStep \/ UNCHANGED pubVars
  BY <1>4 DEF QueueStep, pubVars, domainVars
<1> QED BY <1>1, <1>2, <1>3, <1>4 DEF PubNext

(* A refused plan stays refused: no retried, late or second job of the plan
   brings it back, for any numbers of plans, requests and workers. *)
THEOREM RefusalIsFinal ==
    DistinctOwners => (AttendedSpec /\ []OneConfirmation => RefusedStaysRefused)
<1> SUFFICES ASSUME DistinctOwners
             PROVE  AttendedSpec /\ []OneConfirmation => RefusedStaysRefused
  OBVIOUS
<1> DEFINE Stays == \A p \in Plan : plan[p] = "failed" => plan'[p] = "failed"
<1>1. AttendedInv /\ ProgressInv /\ [PubNext /\ Attended]_pubVars => [Stays]_pubVars
  <2> SUFFICES ASSUME AttendedInv, ProgressInv, [PubNext]_pubVars PROVE Stays
    OBVIOUS
  <2>1. ASSUME NEW q \in Plan, LawfulMove(q) PROVE Stays
    BY <2>1 DEF LawfulMove, PlanMoves, AttendedInv, DomainOK
  <2> QED BY <2>1, LawfulStep
<1>2. AttendedSpec /\ []OneConfirmation => [](AttendedInv /\ ProgressInv)
  BY ProgressInvariant
<1> QED BY <1>1, <1>2, PTL DEF AttendedSpec, RefusedStaysRefused

(* No confirmed plan is left to nobody: as long as it waits, the job that will
   bring its verdict is queued, runs or was dead-lettered. *)
THEOREM NoPlanIsStranded ==
    DistinctOwners => (AttendedSpec /\ []OneConfirmation => []ConfirmedIsNotStranded)
<1> SUFFICES ASSUME DistinctOwners
             PROVE  AttendedSpec /\ []OneConfirmation => []ConfirmedIsNotStranded
  OBVIOUS
<1>1. ProgressInv => ConfirmedIsNotStranded
  BY DEF ProgressInv, PlanProgress, ConfirmedIsNotStranded
<1>2. AttendedSpec /\ []OneConfirmation => [](AttendedInv /\ ProgressInv)
  BY ProgressInvariant
<1> QED BY <1>1, <1>2, PTL

(* The pipeline implements the publication promise. *)
LEMMA MoveIsPromised ==
    ASSUME DomainOK, NEW p \in Plan, LawfulMove(p)
    PROVE  [Promise!PromisedNext]_(Promise!promisedVars)
<1>1. \A q \in Plan : q # p => PlanVerdict'[q] = PlanVerdict[q]
  BY DEF PlanVerdict, LawfulMove, PlanMoves, DomainOK
<1>2. /\ PlanVerdict' = [PlanVerdict EXCEPT ![p] = PlanVerdict'[p]]
      /\ plan'[p] = plan[p] => PlanVerdict'[p] = PlanVerdict[p]
  BY <1>1 DEF PlanVerdict
<1>3. /\ PlanVerdict[p] = CASE plan[p] = "absent"    -> "none"
                            [] plan[p] = "published" -> "published"
                            [] plan[p] = "failed"    -> "refused"
                            [] OTHER                 -> "in_progress"
      /\ PlanVerdict'[p] = CASE plan'[p] = "absent"    -> "none"
                             [] plan'[p] = "published" -> "published"
                             [] plan'[p] = "failed"    -> "refused"
                             [] OTHER                  -> "in_progress"
  BY DEF PlanVerdict
<1>4. CASE plan[p] = "absent" /\ UNCHANGED catalog
  <2>1. PlanVerdict[p] = "none" /\ PlanVerdict'[p] = "in_progress"
    BY <1>3, <1>4, PlanAssumption DEF LawfulMove, PlanMoves, DomainOK
  <2> QED BY <1>2, <1>4, <2>1 DEF Promise!PromisedNext, Promise!Submits, Promise!Moves
<1>5. CASE plan'[p] = "failed" /\ UNCHANGED catalog
  <2>1. PlanVerdict[p] \in {"in_progress", "published"} /\ PlanVerdict'[p] = "refused"
    BY <1>3, <1>5 DEF LawfulMove, PlanMoves, DomainOK
  <2> QED BY <1>2, <1>5, <2>1 DEF Promise!PromisedNext, Promise!Refuses, Promise!Moves
<1>6. CASE plan[p] \in {"ready", "validating"} /\ plan'[p] # "failed" /\ UNCHANGED catalog
  <2>1. PlanVerdict[p] = "in_progress" /\ PlanVerdict'[p] = "in_progress"
    BY <1>3, <1>6 DEF LawfulMove, PlanMoves, DomainOK
  <2>2. PlanVerdict \in [Plan -> {"none", "published", "refused", "in_progress"}]
    BY DEF PlanVerdict
  <2>3. PlanVerdict' = PlanVerdict
    BY <1>2, <2>1, <2>2
  <2> QED BY <1>6, <2>3 DEF Promise!promisedVars
<1>7. CASE plan[p] = "publish_planned" /\ plan'[p] = "published"
  <2>1. PlanVerdict[p] = "in_progress" /\ PlanVerdict'[p] = "published"
    BY <1>3, <1>7
  <2>2. /\ catalog[CoordinateOf[p]] \in {NoDigest, DigestOf[p]}
        /\ catalog' = [catalog EXCEPT ![CoordinateOf[p]] = DigestOf[p]]
    BY <1>7 DEF LawfulMove, PlanMoves, DomainOK
  <2> QED BY <1>2, <2>1, <2>2 DEF Promise!PromisedNext, Promise!Publishes, Promise!Moves
<1> QED BY <1>4, <1>5, <1>6, <1>7 DEF LawfulMove, PlanMoves, DomainOK

THEOREM ImplementsPublicationPromise ==
    DistinctOwners => (AttendedSpec /\ []OneConfirmation => KeepsPublicationPromise)
<1> SUFFICES ASSUME DistinctOwners
             PROVE  AttendedSpec /\ []OneConfirmation => KeepsPublicationPromise
  OBVIOUS
<1>1. PubInit => Promise!PromisedInit
  BY DEF PubInit, Promise!PromisedInit, PlanVerdict
<1>2. AttendedInv /\ ProgressInv /\ [PubNext /\ Attended]_pubVars
         => [Promise!PromisedNext]_(Promise!promisedVars)
  <2> SUFFICES ASSUME AttendedInv, ProgressInv, [PubNext]_pubVars
               PROVE  [Promise!PromisedNext]_(Promise!promisedVars)
    OBVIOUS
  <2>1. CASE UNCHANGED <<plan, catalog>>
    BY <2>1 DEF Promise!promisedVars, PlanVerdict
  <2>2. ASSUME NEW p \in Plan, LawfulMove(p)
        PROVE  [Promise!PromisedNext]_(Promise!promisedVars)
    BY <2>2, MoveIsPromised DEF AttendedInv
  <2> QED BY <2>1, <2>2, LawfulStep
<1>3. AttendedSpec /\ []OneConfirmation => [](AttendedInv /\ ProgressInv)
  BY ProgressInvariant
<1> QED BY <1>1, <1>2, <1>3, PTL
        DEF AttendedSpec, KeepsPublicationPromise, Promise!PromisedSpec
=============================================================================
