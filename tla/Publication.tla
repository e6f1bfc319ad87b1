---------------------------- MODULE Publication ----------------------------
(***************************************************************************)
(* The publication pipeline over the job queue: the plans the API creates  *)
(* and confirms (slices/publish/service.py), the validate and publish      *)
(* handlers (publication_logic.py) and the settlement of a plan whose job  *)
(* was dead-lettered (runner.py).                                          *)
(*                                                                         *)
(* A handler run is one transaction, except that execute_validate commits  *)
(* its reads before the scan and execute_publish may wait, between its     *)
(* reads of the plan and of the catalog and its insert, for object storage *)
(* and for other transactions: `executing` holds what such a run has read. *)
(* Everything the queue does to a run (lost leases, crashes, stops, lost   *)
(* acknowledgements) comes from JobQueue.                                  *)
(***************************************************************************)
EXTENDS JobQueue

CONSTANTS
    Plan,
    Request,          \* confirm requests the API serves at a time
    Coordinate,       \* <<object_kind, stable_id, version>>
    Digest,           \* passport digests
    ObjectKind,       \* "component" or "setup"
    ValidateJob,      \* the idempotency key validate:<plan>
    PublishJob,       \* the idempotency key publish:<plan>
    CoordinateOf,
    DigestOf,
    NoPlan,
    NoDigest

ASSUME KeyAssumption ==
    /\ ValidateJob \in [Plan -> Job]
    /\ PublishJob \in [Plan -> Job]
    /\ \A p, q \in Plan : /\ ValidateJob[p] # PublishJob[q]
                          /\ ValidateJob[p] = ValidateJob[q] => p = q
                          /\ PublishJob[p] = PublishJob[q] => p = q

ASSUME PlanAssumption ==
    /\ CoordinateOf \in [Plan -> Coordinate]
    /\ DigestOf \in [Plan -> Digest]
    /\ ObjectKind \in {"component", "setup"}
    /\ NoPlan \notin Plan
    /\ NoDigest \notin Digest

VARIABLES
    plan,         \* publication_plan.state
    snapshot,     \* validation_snapshot, one row per plan at most
    catalog,      \* the active catalog_metadata row of each coordinate
    confirming,   \* the plan each confirm request has read as ready
    executing     \* what each handler run has read so far

domainVars == <<plan, snapshot, catalog, confirming>>
pubVars == <<vars, domainVars, executing>>

-----------------------------------------------------------------------------
(* draft, stale and cancelled are never persisted: no code writes the first
   and the last, and the request that writes stale raises, which rolls its
   transaction back. *)
PlanState == {"absent", "ready", "validating", "publish_planned",
              "published", "failed"}

Settled == {"published", "failed"}

Execution == [step : {"idle", "scanning", "publishing", "inserting"},
              loaded : PlanState]

Idle == [step |-> "idle", loaded |-> "absent"]

PubTypeOK == /\ TypeOK
             /\ plan \in [Plan -> PlanState]
             /\ snapshot \in [Plan -> {"none", "passed", "failed"}]
             /\ catalog \in [Coordinate -> Digest \cup {NoDigest}]
             /\ confirming \in [Request -> Plan \cup {NoPlan}]
             /\ executing \in [Worker -> Execution]

PubInit == /\ Init
           /\ plan = [p \in Plan |-> "absent"]
           /\ snapshot = [p \in Plan |-> "none"]
           /\ catalog = [c \in Coordinate |-> NoDigest]
           /\ confirming = [q \in Request |-> NoPlan]
           /\ executing = [w \in Worker |-> Idle]

-----------------------------------------------------------------------------
(* The API. *)

EnqueueNow(j) == \/ Enqueue(j) /\ row'[j].due
                 \/ row[j].state # "absent" /\ UNCHANGED vars

CreatePlan(p) ==
    /\ plan[p] = "absent"
    /\ plan' = [plan EXCEPT ![p] = "ready"]
    /\ UNCHANGED <<vars, snapshot, catalog, confirming, executing>>

(* The official upstream sync creates its plans confirmed. *)
CreateConfirmedPlan(p) ==
    /\ plan[p] = "absent"
    /\ plan' = [plan EXCEPT ![p] = "validating"]
    /\ EnqueueNow(ValidateJob[p])
    /\ UNCHANGED <<snapshot, catalog, confirming, executing>>

(* confirm_plan decides on a plan it has read without a lock; the checks of
   the artifacts and of the bound source then wait for other services. *)
ConfirmRead(q, p) ==
    /\ confirming[q] = NoPlan
    /\ plan[p] = "ready"
    /\ confirming' = [confirming EXCEPT ![q] = p]
    /\ UNCHANGED <<vars, plan, snapshot, catalog, executing>>

ConfirmWrite(q) ==
    LET p == confirming[q]
    IN /\ p # NoPlan
       /\ plan' = [plan EXCEPT ![p] = "validating"]
       /\ EnqueueNow(ValidateJob[p])
       /\ confirming' = [confirming EXCEPT ![q] = NoPlan]
       /\ UNCHANGED <<snapshot, catalog, executing>>

ConfirmRefused(q) ==
    /\ confirming[q] # NoPlan
    /\ confirming' = [confirming EXCEPT ![q] = NoPlan]
    /\ UNCHANGED <<vars, plan, snapshot, catalog, executing>>

-----------------------------------------------------------------------------
(* The handlers. *)

Runs(w, j, step) == /\ worker[w].pc = "handling"
                    /\ worker[w].job = j
                    /\ executing[w].step = step

Reads(w, step, loaded) ==
    /\ executing' = [executing EXCEPT ![w] = [step |-> step, loaded |-> loaded]]
    /\ UNCHANGED <<vars, domainVars>>

(* The run's transaction commits; its acknowledgement may be lost. *)
Commits(w, outbox) ==
    /\ HandlerCommits(w, outbox) \/ HandlerCommitUnacknowledged(w, outbox)
    /\ executing' = [executing EXCEPT ![w] = Idle]

(* _record_refusal_snapshot; the unique plan_id refuses a second snapshot. *)
RefusalSnapshot(p) ==
    /\ snapshot[p] = "none"
    /\ snapshot' = [snapshot EXCEPT ![p] = "failed"]
    /\ plan' = [plan EXCEPT ![p] = "failed"]

ValidateReplay(w, p) ==
    /\ Runs(w, ValidateJob[p], "idle")
    /\ snapshot[p] # "none"
    /\ Commits(w, {})
    /\ UNCHANGED domainVars

(* The plan was settled before, or its bound source refuses. *)
ValidateRefuses(w, p) ==
    /\ Runs(w, ValidateJob[p], "idle")
    /\ RefusalSnapshot(p)
    /\ Commits(w, {})
    /\ UNCHANGED <<catalog, confirming>>

ValidateScans(w, p) ==
    /\ Runs(w, ValidateJob[p], "idle")
    /\ snapshot[p] = "none"
    /\ plan[p] # "failed"
    /\ Reads(w, "scanning", plan[p])

(* Defect: the publish job is left to another transaction. *)
ValidateRecordsUnqueued(w, p, outcome) ==
    /\ Runs(w, ValidateJob[p], "scanning")
    /\ snapshot[p] = "none"
    /\ snapshot' = [snapshot EXCEPT ![p] = outcome]
    /\ plan' = [plan EXCEPT ![p] = IF outcome = "passed" THEN "publish_planned"
                                                         ELSE "failed"]
    /\ Commits(w, {})
    /\ UNCHANGED <<catalog, confirming>>

(* The scan is over: the snapshot, the plan and the publish job are written in
   one transaction, without reading the plan again. *)
ValidateRecords(w, p, outcome) ==
    /\ Runs(w, ValidateJob[p], "scanning")
    /\ snapshot[p] = "none"
    /\ snapshot' = [snapshot EXCEPT ![p] = outcome]
    /\ plan' = [plan EXCEPT ![p] = IF outcome = "passed" THEN "publish_planned"
                                                         ELSE "failed"]
    /\ Commits(w, IF outcome = "passed" THEN {PublishJob[p]} ELSE {})
    /\ UNCHANGED <<catalog, confirming>>

PublishSkips(w, p) ==
    /\ Runs(w, PublishJob[p], "idle")
    /\ plan[p] = "failed"
    /\ Commits(w, {})
    /\ UNCHANGED domainVars

(* Defect: a late job does not look at the plan. *)
PublishReadsAnyPlan(w, p) ==
    /\ Runs(w, PublishJob[p], "idle")
    /\ Reads(w, "publishing", plan[p])

PublishReadsPlan(w, p) ==
    /\ Runs(w, PublishJob[p], "idle")
    /\ plan[p] # "failed"
    /\ Reads(w, "publishing", plan[p])

(* _refuse_publish: the plan expired, its source, passport, ownership or bytes
   are refused, the coordinate is taken, or no passed snapshot exists. *)
PublishRefuses(w, p) ==
    /\ \/ Runs(w, PublishJob[p], "publishing")
       \/ Runs(w, PublishJob[p], "inserting")
    /\ plan' = [plan EXCEPT ![p] = "failed"]
    /\ Commits(w, {})
    /\ UNCHANGED <<snapshot, catalog, confirming>>

(* assert_publication_owner holds the line of a component until the commit;
   nothing serializes the publication of setups. *)
LineIsFree(p) ==
    ObjectKind = "component" =>
        \A w \in Worker : \A q \in Plan :
            CoordinateOf[q] = CoordinateOf[p] => ~Runs(w, PublishJob[q], "inserting")

(* Defect: the passport of an existing version is not compared. *)
PublishFindsVersion(w, p) ==
    /\ Runs(w, PublishJob[p], "publishing")
    /\ LineIsFree(p)
    /\ catalog[CoordinateOf[p]] # NoDigest
    /\ plan' = IF executing[w].loaded = "published"
               THEN plan ELSE [plan EXCEPT ![p] = "published"]
    /\ Commits(w, {})
    /\ UNCHANGED <<snapshot, catalog, confirming>>

(* The coordinate already holds this passport: an idempotent replay.  An
   object loaded as published is not written. *)
PublishFindsPublished(w, p) ==
    /\ Runs(w, PublishJob[p], "publishing")
    /\ LineIsFree(p)
    /\ catalog[CoordinateOf[p]] = DigestOf[p]
    /\ plan' = IF executing[w].loaded = "published"
               THEN plan ELSE [plan EXCEPT ![p] = "published"]
    /\ Commits(w, {})
    /\ UNCHANGED <<snapshot, catalog, confirming>>

PublishFindsNothing(w, p) ==
    /\ Runs(w, PublishJob[p], "publishing")
    /\ LineIsFree(p)
    /\ catalog[CoordinateOf[p]] = NoDigest
    /\ snapshot[p] = "passed"
    /\ Reads(w, "inserting", executing[w].loaded)

(* Defect: no unique constraint on the coordinate. *)
PublishOverwrites(w, p) ==
    /\ Runs(w, PublishJob[p], "inserting")
    /\ catalog' = [catalog EXCEPT ![CoordinateOf[p]] = DigestOf[p]]
    /\ plan' = [plan EXCEPT ![p] = "published"]
    /\ Commits(w, {})
    /\ UNCHANGED <<snapshot, confirming>>

(* The insert; when another run has inserted the coordinate meanwhile, the
   unique constraint makes the handler fail instead. *)
PublishInserts(w, p) ==
    /\ Runs(w, PublishJob[p], "inserting")
    /\ catalog[CoordinateOf[p]] = NoDigest
    /\ catalog' = [catalog EXCEPT ![CoordinateOf[p]] = DigestOf[p]]
    /\ plan' = [plan EXCEPT ![p] = "published"]
    /\ Commits(w, {})
    /\ UNCHANGED <<snapshot, confirming>>

HandlerRaises(w) ==
    /\ HandlerFails(w, "retry")
    /\ executing' = [executing EXCEPT ![w] = Idle]
    /\ UNCHANGED domainVars

-----------------------------------------------------------------------------
(* The status transaction of the worker. *)

DeadLetters(w) == /\ worker[w].pc = "settling"
                  /\ SettledRow(w).state = "dead_letter"

SettleVerdict(w) ==
    /\ ~DeadLetters(w)
    /\ Settle(w)
    /\ UNCHANGED <<domainVars, executing>>

(* fail dead-letters the job and settle_dead_lettered_plan refuses its plan in
   the same transaction. *)
SettleDeadLetter(w, p) ==
    /\ DeadLetters(w)
    /\ Settle(w)
    /\ \/ /\ worker[w].job \in {ValidateJob[p], PublishJob[p]}
          /\ plan[p] \in Settled
          /\ UNCHANGED <<plan, snapshot>>
       \/ /\ worker[w].job = PublishJob[p]
          /\ plan[p] \notin Settled
          /\ plan' = [plan EXCEPT ![p] = "failed"]
          /\ UNCHANGED snapshot
       \/ /\ worker[w].job = ValidateJob[p]
          /\ plan[p] \notin Settled
          /\ RefusalSnapshot(p)
    /\ UNCHANGED <<catalog, confirming, executing>>

(* A refusal snapshot beside an existing one violates the constraint, and the
   whole transaction is rolled back: the job keeps its lease. *)
SettleRollsBack(w, p) ==
    /\ DeadLetters(w)
    /\ worker[w].job = ValidateJob[p]
    /\ plan[p] \notin Settled
    /\ snapshot[p] # "none"
    /\ Abandon(w)
    /\ UNCHANGED <<domainVars, executing>>

(* What the queue does on its own.  A run that has ended, or whose process has
   died, has read nothing. *)
QueueStep ==
    /\ \/ \E w \in Worker : RunOnce(w) \/ Heartbeat(w) \/ ReadRow(w)
                            \/ Abandon(w) \/ Drain(w)
       \/ \E j \in Job : LeaseExpires(j) \/ BackoffElapses(j)
    /\ executing' = [w \in Worker |-> IF worker'[w].pc = "handling"
                                      THEN executing[w] ELSE Idle]
    /\ UNCHANGED domainVars

-----------------------------------------------------------------------------
ApiStep == \/ \E p \in Plan : \/ CreatePlan(p)
                              \/ CreateConfirmedPlan(p)
                              \/ \E q \in Request : ConfirmRead(q, p)
           \/ \E q \in Request : ConfirmWrite(q) \/ ConfirmRefused(q)

HandlerStep(w) ==
    \/ \E p \in Plan : \/ ValidateReplay(w, p)
                       \/ ValidateRefuses(w, p)
                       \/ ValidateScans(w, p)
                       \/ \E outcome \in {"passed", "failed"} :
                             ValidateRecords(w, p, outcome)
                       \/ PublishSkips(w, p)
                       \/ PublishReadsPlan(w, p)
                       \/ PublishRefuses(w, p)
                       \/ PublishFindsPublished(w, p)
                       \/ PublishFindsNothing(w, p)
                       \/ PublishInserts(w, p)
    \/ HandlerRaises(w)

StatusStep(w) == \/ SettleVerdict(w)
                 \/ \E p \in Plan : SettleDeadLetter(w, p) \/ SettleRollsBack(w, p)

PubNext == \/ ApiStep
           \/ \E w \in Worker : HandlerStep(w) \/ StatusStep(w)
           \/ QueueStep

PubSpec == PubInit /\ [][PubNext]_pubVars

(* Leases lapse only when their worker has died or stopped beating.  PubSpec
   lets them lapse under a live worker too: a process that is suspended, or
   cut off from the database, past the lease timeout. *)
Attended ==
    \A j \in Job : row[j].leased /\ row'[j] = [row[j] EXCEPT !.leased = FALSE]
                       => Unattended(j)

AttendedSpec == PubInit /\ [][PubNext /\ Attended]_pubVars

(* What JobQueue assumes of the workers, for these handlers. *)
PubFairness ==
    /\ \A w \in Worker : /\ WF_pubVars(HandlerStep(w))
                         /\ WF_pubVars(QueueStep /\ ReadRow(w))
                         /\ WF_pubVars(StatusStep(w))
    /\ \A j \in Job :
          /\ WF_pubVars(QueueStep /\ BackoffElapses(j))
          /\ WF_pubVars(QueueStep /\ Unattended(j) /\ LeaseExpires(j))
          /\ SF_pubVars(QueueStep /\ \E w \in Worker : Claim(w, j, {}))
          /\ SF_pubVars(QueueStep /\ \E w \in Worker :
                                        RunOnce(w) /\ Expired(row[j]) /\ ~Expired(row'[j]))
    /\ <>[][\A w \in Worker : ~Drain(w)]_pubVars

FairPubSpec == AttendedSpec /\ PubFairness
-----------------------------------------------------------------------------
(***************************************************************************)
(* Properties.                                                             *)
(***************************************************************************)

(* A published plan has passed its validation, its publish job was run, and
   the catalog holds exactly its passport, however often its jobs were
   redelivered and whoever else published to the coordinate. *)
PublishedIsValidated ==
    \A p \in Plan : plan[p] = "published" =>
        /\ snapshot[p] = "passed"
        /\ PublishJob[p] \in applied
        /\ catalog[CoordinateOf[p]] = DigestOf[p]

(* What anybody can read in the catalog was validated: a version is there only
   on behalf of a plan with that passport and a passed snapshot. *)
CatalogIsValidated ==
    \A c \in Coordinate : catalog[c] # NoDigest =>
        \E p \in Plan : /\ CoordinateOf[p] = c
                        /\ DigestOf[p] = catalog[c]
                        /\ snapshot[p] = "passed"

(* The publish job and the passed snapshot it needs appear together, and a
   plan that waits for its publication has the job that will bring it: a
   redelivered validation can neither lose the job nor start a second scan
   that takes the verdict back (execute_validate). *)
PublicationIsQueued ==
    \A p \in Plan :
        /\ plan[p] = "publish_planned" => row[PublishJob[p]].state # "absent"
        /\ row[PublishJob[p]].state # "absent" => snapshot[p] = "passed"

(* Catalog versions are immutable: of two plans that publish different
   passports to one coordinate, only the first to commit is ever there. *)
CatalogImmutable ==
    [][\A c \in Coordinate : catalog[c] # NoDigest => catalog'[c] = catalog[c]]_pubVars

(* A refused plan is terminal (PLAN_STATES_REFUSED): no retried or late job
   brings it back. *)
RefusedStaysRefused ==
    [][\A p \in Plan : plan[p] = "failed" => plan'[p] = "failed"]_pubVars

(* Two requests never hold one plan as ready at a time.  confirm_plan takes no
   lock that would see to it: what follows for refused plans is what the code
   promises to the owners that confirm a plan once. *)
OneConfirmation ==
    \A q, r \in Request : confirming[q] = confirming[r] /\ confirming[q] # NoPlan
                             => q = r

(* No two processes ever work on one job: every delivery ends in its worker
   before the next one begins (run_once, drain, the heartbeat). *)
OneRunPerJob ==
    \A v, w \in Worker :
        /\ worker[v].pc # "polling" /\ worker[w].pc # "polling"
        /\ worker[v].job = worker[w].job
        => v = w

Works(j) == row[j].state \in Claimable \cup {"running", "dead_letter"}

(* A plan that waits has a job that works for it, unless that job was
   dead-lettered by the stale sweep: no plan is left to nobody. *)
ConfirmedIsNotStranded ==
    \A p \in Plan : /\ plan[p] = "validating" => Works(ValidateJob[p])
                    /\ plan[p] = "publish_planned" => Works(PublishJob[p])

(* What a caller is told of each plan. *)
PlanVerdict ==
    [p \in Plan |-> CASE plan[p] = "absent"    -> "none"
                      [] plan[p] = "published" -> "published"
                      [] plan[p] = "failed"    -> "refused"
                      [] OTHER                 -> "in_progress"]

Promise == INSTANCE PublicationPromise WITH verdict <- PlanVerdict

(* The pipeline keeps the promise of PublicationPromise: no refusal is taken
   back, nothing is told published but by the step that publishes it, and no
   version is replaced. *)
KeepsPublicationPromise == Promise!PromisedSpec

(* The replay of a publication leaves the plan published. *)
PublishedStaysPublished ==
    [][\A p \in Plan : plan[p] = "published" => plan'[p] = "published"]_pubVars

(* A plan that was confirmed gets a verdict the owner can see, unless one of
   its jobs was dead-lettered by the stale sweep. *)
ConfirmedGetsVerdict ==
    \A p \in Plan : plan[p] = "validating" ~>
        \/ plan[p] \in Settled
        \/ row[ValidateJob[p]].state = "dead_letter"
        \/ row[PublishJob[p]].state = "dead_letter"

(* settle_dead_lettered_plan: no plan stays in validating or publish_planned
   for ever when its job is given up. *)
NoSilentLimbo ==
    \A p \in Plan : plan[p] = "validating" ~> plan[p] \in Settled
=============================================================================
