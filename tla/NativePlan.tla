----------------------------- MODULE NativePlan -----------------------------
(* One reviewed configuration plan over several roots
   (apps/cli/src/installation/planning/execution.rs, application.rs,
   retained.rs, and custody/mod.rs).

   A plan is spread over stores that commit one after the other: the custody
   of the installation, itself a forward writer; the intent in the operation
   table of the CLI store; and one forward writer for each root.  The custody is
   locked for the length of a command, so commands run one at a time; each may
   die between any two of its writes, and is repeated, or followed by another
   command, by somebody who knows nothing of how far it came.  Users edit the
   files meanwhile.

   What a writer does for one root is ForwardTransaction.  Here each of its
   calls is one step, and RootsKeepPromise says that the steps stay within what
   InstallPromise allows, which is all that ForwardTransaction promises. *)
EXTENDS Naturals

CONSTANTS
    Plan,        \* reviewed plans
    Root,        \* the roots that plans write to: one file stands for each
    RootsOf,     \* the roots of a plan
    Base,        \* what a root holds at first
    Foreign,     \* what a user may write into it
    NoPlan, NoContent,
    MaxEdits     \* bound on the edits by users

ASSUME PlanAssumption ==
    /\ RootsOf \in [Plan -> (SUBSET Root) \ {{}}]
    /\ NoPlan \notin Plan
    /\ Base \notin Plan /\ Foreign \notin Plan
    /\ NoContent \notin Plan \cup {Base, Foreign}
    /\ MaxEdits \in Nat

VARIABLES
    custody,     \* custody.status of a plan: the progress of the custody's writer
    intent,      \* operation.state of its admission
    child,       \* the progress of the writer of each root, for each plan
    before,      \* the content of each root its review is bound to
    file,        \* what each root holds
    command,     \* the command under way: its place and the roots it has still to visit
    applied,     \* history: roots that were applied
    published,   \* history: plans that changed the file of a root
    edits        \* bound: edits so far

planVars == <<custody, intent, child, before, file, command, applied, published, edits>>
stores   == <<custody, intent, child, before, file, applied, published>>

Content == Plan \cup {Base, Foreign}
Begun   == {"prepared", "applying", "finishing"}
Phase   == {"absent", "done", "cancelled"} \cup Begun
Intent  == {"absent", "prepared", "applying", "configured", "confirmed", "cancelled"}
Step    == {"idle", "admit", "prepare", "withdraw", "cancel", "start", "announce",
            "startRoots", "apply", "finish", "commit", "report"}

PlanTypeOK ==
    /\ custody \in [Plan -> Phase]
    /\ intent \in [Plan -> Intent]
    /\ child \in [Root -> [Plan -> Phase]]
    /\ before \in [Plan -> [Root -> Content \cup {NoContent}]]
    /\ file \in [Root -> Content]
    /\ command \in [plan : Plan \cup {NoPlan}, at : Step, todo : SUBSET Root]
    /\ command.at # "idle" <=> command.plan \in Plan
    /\ applied \in [Plan -> SUBSET Root]
    /\ published \in [Root -> SUBSET Plan]
    /\ edits \in 0..MaxEdits

NoCommand == [plan |-> NoPlan, at |-> "idle", todo |-> {}]

PlanInit ==
    /\ custody = [p \in Plan |-> "absent"]
    /\ intent = [p \in Plan |-> "absent"]
    /\ child = [r \in Root |-> [p \in Plan |-> "absent"]]
    /\ before = [p \in Plan |-> [r \in Root |-> NoContent]]
    /\ file = [r \in Root |-> Base]
    /\ command = NoCommand
    /\ applied = [p \in Plan |-> {}]
    /\ published = [r \in Root |-> {}]
    /\ edits = 0

-----------------------------------------------------------------------------
(* What the commands read. *)

CustodyIdle == \A p \in Plan : custody[p] \notin Begun
RootIdle(r) == \A p \in Plan : child[r][p] \notin Begun

UnchangedAt(p, r) == file[r] = before[p][r]
Unchanged(p)      == \A r \in RootsOf[p] : UnchangedAt(p, r)
InPlace(p)        == \A r \in RootsOf[p] : file[r] = p

(* Defect: what has begun is taken for pending. *)
UnstartedOrBegun == {"absent", "prepared", "applying"}

(* The states that a cancellation takes back, in every store. *)
Unstarted == {"absent", "prepared"}

(* staged_result: the outcome is recorded in a root from its finish on. *)
Candidate(p) == \E r \in RootsOf[p] : child[r][p] \in {"finishing", "done"}

CommandAt(at) == command.at = at
Begins(p, at) == command' = [plan |-> p, at |-> at, todo |-> RootsOf[p]]
Goes(at)      == command' = [command EXCEPT !.at = at, !.todo = RootsOf[command.plan]]
Visited(r)    == command' = [command EXCEPT !.todo = @ \ {r}]

Returns       == command' = NoCommand

(* The writer of a root, or the custody's, moves on. *)
ChildMoves(r, p, to) == child' = [child EXCEPT ![r][p] = to]
CustodyMoves(p, to)  == custody' = [custody EXCEPT ![p] = to]
IntentMoves(p, to)   == intent' = [intent EXCEPT ![p] = to]

-----------------------------------------------------------------------------
(* Reviewed::prepare. *)

(* custody.prepare: admitted when no other plan is begun, bound to the
   observed files; once prepared, the same call goes on with the rest. *)
PreparePlan(p) ==
    /\ CommandAt("idle")
    /\ \/ /\ custody[p] = "absent" /\ CustodyIdle
          /\ CustodyMoves(p, "prepared")
          /\ before' = [before EXCEPT ![p] =
                           [r \in Root |-> IF r \in RootsOf[p] THEN file[r] ELSE NoContent]]
       \/ custody[p] = "prepared" /\ UNCHANGED <<custody, before>>
    /\ Begins(p, "admit")
    /\ UNCHANGED <<intent, child, file, applied, published, edits>>

(* Plan::admit inserts the intent or reads it; a withdrawn one ends the command. *)
MayAdmit(p) == intent[p] \in Unstarted

AdmitIntent ==
    LET p == command.plan IN
    /\ CommandAt("admit") /\ MayAdmit(p)
    /\ IntentMoves(p, "prepared")
    /\ Goes("prepare")
    /\ UNCHANGED <<custody, child, before, file, applied, published, edits>>

(* Defect: a tombstone is no obstacle. *)
MayPrepareAgain(p, r) ==
    child[r][p] \in {"absent", "cancelled"} /\ RootIdle(r) /\ UnchangedAt(p, r)

MayPrepare(p, r) == child[r][p] = "absent" /\ RootIdle(r) /\ UnchangedAt(p, r)

(* writer.prepare of a root that is prepared verifies it, of one that has its
   outcome returns that outcome, also when it is a cancellation. *)
IsPrepared(p, r) == \/ child[r][p] = "prepared" /\ UnchangedAt(p, r)
                    \/ child[r][p] \in {"cancelled", "done"}

PrepareRoot ==
    LET p == command.plan IN
    /\ CommandAt("prepare")
    /\ \E r \in command.todo :
          /\ \/ MayPrepare(p, r) /\ ChildMoves(r, p, "prepared")
             \/ ~MayPrepare(p, r) /\ IsPrepared(p, r) /\ UNCHANGED child
          /\ Visited(r)
    /\ UNCHANGED <<custody, intent, before, file, applied, published, edits>>

-----------------------------------------------------------------------------
(* cancel_preparation: the roots, the intent, and the custody last. *)

CancelPlan(p) ==
    /\ CommandAt("idle")
    /\ custody[p] # "absent" /\ custody[p] \in Unstarted
    /\ Begins(p, "withdraw")
    /\ UNCHANGED stores /\ UNCHANGED edits

(* Defect: the cancellation of a cancelled root is refused. *)
MayWithdrawOnce(p, r) ==
    child[r][p] = "absent" \/ (child[r][p] \in Unstarted /\ UnchangedAt(p, r))

MayWithdraw(p, r) ==
    \/ child[r][p] \in {"absent", "cancelled"}
    \/ child[r][p] \in Unstarted /\ UnchangedAt(p, r)

CancelRoot ==
    LET p == command.plan IN
    /\ CommandAt("withdraw")
    /\ \E r \in command.todo :
          /\ MayWithdraw(p, r)
          /\ ChildMoves(r, p, "cancelled")
          /\ Visited(r)
    /\ UNCHANGED <<custody, intent, before, file, applied, published, edits>>

(* Defect: the loop over the roots is not awaited. *)
VisitedSome == command.todo # RootsOf[command.plan]

VisitedAll == command.todo = {}

(* cancel_intent: an intent that was never admitted is no obstacle. *)
MayCancelIntent(p) == intent[p] \in Unstarted \cup {"cancelled"}

CancelIntent ==
    LET p == command.plan IN
    /\ CommandAt("withdraw") /\ VisitedAll /\ MayCancelIntent(p)
    /\ intent' = [intent EXCEPT ![p] = IF @ = "absent" THEN @ ELSE "cancelled"]
    /\ Goes("cancel")
    /\ UNCHANGED <<custody, child, before, file, applied, published, edits>>

CancelCustody ==
    /\ CommandAt("cancel")
    /\ CustodyMoves(command.plan, "cancelled")
    /\ Returns
    /\ UNCHANGED <<intent, child, before, file, applied, published, edits>>

-----------------------------------------------------------------------------
(* apply_prepared.  A root with a result means that all were applied: the command
   goes on with the outcomes.  Otherwise it starts whatever is not started. *)

MayApply(p) ==
    /\ custody[p] \in Begun
    /\ intent[p] \in {"prepared", "applying"}
    /\ \A r \in RootsOf[p] : child[r][p] \notin {"absent", "cancelled"}

ApplyPlan(p) ==
    /\ CommandAt("idle") /\ MayApply(p)
    /\ Begins(p, IF Candidate(p) THEN "finish" ELSE "start")
    /\ UNCHANGED stores /\ UNCHANGED edits

(* Defect: the custody is started with its commit only. *)
StartedLater(phase) == phase

Started(phase) == IF phase = "prepared" THEN "applying" ELSE phase

MayStart(p) == custody[p] = "prepared" => Unchanged(p)

(* custody.start, unless it was started before *)
StartCustody ==
    LET p == command.plan IN
    /\ CommandAt("start") /\ MayStart(p)
    /\ CustodyMoves(p, Started(custody[p]))
    /\ Goes("announce")
    /\ UNCHANGED <<intent, child, before, file, applied, published, edits>>

(* transition to applying *)
AnnounceApplying ==
    /\ CommandAt("announce")
    /\ IntentMoves(command.plan, "applying")
    /\ Goes("startRoots")
    /\ UNCHANGED <<custody, child, before, file, applied, published, edits>>

MayStartRoot(p, r) == child[r][p] = "applying" \/ (child[r][p] = "prepared" /\ UnchangedAt(p, r))

StartRoot ==
    LET p == command.plan IN
    /\ CommandAt("startRoots")
    /\ \E r \in command.todo :
          /\ MayStartRoot(p, r)
          /\ ChildMoves(r, p, "applying")
          /\ IF command.todo = {r} THEN Goes("apply") ELSE Visited(r)
    /\ UNCHANGED <<custody, intent, before, file, applied, published, edits>>

(* apply_checked: a root with the content it was observed with gets the plan's. *)
MayPublish(p, r) == file[r] \in {before[p][r], p}

Publishes(p, r) ==
    /\ file' = [file EXCEPT ![r] = p]
    /\ published' = IF file[r] = p THEN published ELSE [published EXCEPT ![r] = @ \cup {p}]

ApplyRoot ==
    LET p == command.plan IN
    /\ CommandAt("apply")
    /\ \E r \in command.todo :
          /\ MayPublish(p, r) /\ Publishes(p, r)
          /\ applied' = [applied EXCEPT ![p] = @ \cup {r}]
          /\ IF command.todo = {r} THEN Goes("finish") ELSE Visited(r)
    /\ UNCHANGED <<custody, intent, child, before, edits>>

(* finish records the outcome in a root, apply puts back what was undone since,
   complete ends it; each is a write of its own, and one root ends before the
   next one finishes. *)
FinishRoot ==
    LET p == command.plan IN
    /\ CommandAt("finish")
    /\ \E r \in command.todo :
          /\ child[r][p] = "applying" /\ file[r] = p
          /\ \A s \in command.todo : child[s][p] # "finishing"
          /\ ChildMoves(r, p, "finishing")
    /\ UNCHANGED <<custody, intent, before, file, command, applied, published, edits>>

RepublishRoot ==
    LET p == command.plan IN
    /\ CommandAt("finish")
    /\ \E r \in command.todo :
          /\ child[r][p] = "finishing" /\ file[r] # p /\ MayPublish(p, r)
          /\ Publishes(p, r)
    /\ UNCHANGED <<custody, intent, child, before, command, applied, edits>>

CompleteRoot ==
    LET p == command.plan IN
    /\ CommandAt("finish")
    /\ \E r \in command.todo :
          /\ \/ child[r][p] = "finishing" /\ file[r] = p /\ ChildMoves(r, p, "done")
             \/ child[r][p] = "done" /\ UNCHANGED child
          /\ Visited(r)
    /\ UNCHANGED <<custody, intent, before, file, applied, published, edits>>

(* complete_with_result: the custody finishes when the configuration is found
   in place, and then completes. *)
FinishCustody ==
    LET p == command.plan IN
    /\ CommandAt("finish") /\ VisitedAll
    /\ custody[p] \in {"applying", "finishing"} /\ InPlace(p)
    /\ CustodyMoves(p, "finishing")
    /\ Goes("commit")
    /\ UNCHANGED <<intent, child, before, file, applied, published, edits>>

CommitCustody ==
    /\ CommandAt("commit")
    /\ CustodyMoves(command.plan, "done")
    /\ Goes("report")
    /\ UNCHANGED <<intent, child, before, file, applied, published, edits>>

ReportConfigured ==
    /\ CommandAt("report")
    /\ IntentMoves(command.plan, "configured")
    /\ Returns
    /\ UNCHANGED <<custody, child, before, file, applied, published, edits>>

-----------------------------------------------------------------------------
(* confirm_session.  It catches up when the process died before the report. *)
ConfirmSession(p) ==
    /\ CommandAt("idle") /\ custody[p] = "done"
    /\ \/ intent[p] = "applying" /\ IntentMoves(p, "configured")
       \/ intent[p] = "configured" /\ InPlace(p) /\ IntentMoves(p, "confirmed")
    /\ UNCHANGED <<custody, child, before, file, command, applied, published, edits>>

-----------------------------------------------------------------------------
(* A check that fails ends the command; what it wrote so far stays. *)
Refused ==
    LET p == command.plan
        Stuck(Passes(_, _)) == \E r \in command.todo : ~Passes(p, r)
        MayComplete(q, r) == \/ child[r][q] = "applying" /\ file[r] = q
                             \/ child[r][q] = "finishing" /\ MayPublish(q, r)
                             \/ child[r][q] = "done"
        MayPass(q, r) == MayPrepare(q, r) \/ IsPrepared(q, r)
    IN \/ CommandAt("admit") /\ ~MayAdmit(p)
       \/ CommandAt("prepare") /\ Stuck(MayPass)
       \/ CommandAt("withdraw") /\ Stuck(MayWithdraw)
       \/ CommandAt("withdraw") /\ VisitedAll /\ ~MayCancelIntent(p)
       \/ CommandAt("start") /\ ~MayStart(p)
       \/ CommandAt("startRoots") /\ Stuck(MayStartRoot)
       \/ CommandAt("apply") /\ Stuck(MayPublish)
       \/ CommandAt("finish") /\ Stuck(MayComplete)
       \/ CommandAt("finish") /\ VisitedAll /\ ~InPlace(p)

Prepared == CommandAt("prepare") /\ VisitedAll

EndCommand == (Refused \/ Prepared) /\ Returns /\ UNCHANGED stores /\ UNCHANGED edits

(* The process dies, a write fails, or the authority, the idleness of the consumer
   or the locks of older writers are not given. *)
Interrupt ==
    /\ ~CommandAt("idle") /\ ~Refused /\ ~Prepared
    /\ Returns
    /\ UNCHANGED stores /\ UNCHANGED edits

UserEdit ==
    /\ edits < MaxEdits
    /\ \E r \in Root, c \in Content : c # file[r] /\ file' = [file EXCEPT ![r] = c]
    /\ edits' = edits + 1
    /\ UNCHANGED <<custody, intent, child, before, command, applied, published>>

Request(p) == PreparePlan(p) \/ CancelPlan(p) \/ ApplyPlan(p) \/ ConfirmSession(p)

Proceed ==
    \/ AdmitIntent \/ PrepareRoot
    \/ CancelRoot \/ CancelIntent \/ CancelCustody
    \/ StartCustody \/ AnnounceApplying \/ StartRoot \/ ApplyRoot
    \/ FinishRoot \/ RepublishRoot \/ CompleteRoot
    \/ FinishCustody \/ CommitCustody \/ ReportConfigured
    \/ EndCommand

PlanNext == (\E p \in Plan : Request(p)) \/ Proceed \/ Interrupt \/ UserEdit

PlanSpec == PlanInit /\ [][PlanNext]_planVars

(* Liveness.  The owner of a plan applies it again until it is done, and cancels
   one whose preparation or cancellation was interrupted.  No fairness on
   prepare: a review expires. *)
Incomplete(p) == \/ intent[p] \in {"absent", "cancelled"}
                 \/ \E r \in RootsOf[p] : child[r][p] \in {"absent", "cancelled"}

Drive(p) == ApplyPlan(p) \/ (Incomplete(p) /\ CancelPlan(p)) \/ ConfirmSession(p)

PlanFairness ==
    /\ WF_planVars(Proceed)
    /\ \A p \in Plan : SF_planVars(Drive(p))
    /\ <>[][~Interrupt]_planVars

FairPlanSpec == PlanSpec /\ PlanFairness
-----------------------------------------------------------------------------
(* Properties. *)

(* A cancelled plan changed none of its roots: there is no crash, and no order
   of repeated commands, after which a part of it stays behind
   (configuration_changed is false). *)
CancelledPlanChangedNothing ==
    \A p \in Plan : custody[p] = "cancelled" => \A r \in Root : p \notin published[r]

(* The outcome is recorded in a root only when every root was applied: no
   resumed command takes a half-applied plan for a configured one. *)
NoOutcomeBeforeAll ==
    \A p \in Plan : \A r \in RootsOf[p] :
        child[r][p] \in {"finishing", "done"} => applied[p] = RootsOf[p]

(* What is begun in a root is begun in the custody, where the next process
   finds the review it needs to finish or cancel it: no root is ever blocked by
   a plan that nobody can name. *)
NoOrphanedRoot ==
    \A p \in Plan, r \in Root : child[r][p] \in Begun => custody[p] \in Begun

(* The stores agree on how a plan ended, at every moment between their
   commits. *)
OutcomesAgree ==
    \A p \in Plan :
       /\ custody[p] = "done" => /\ \A r \in RootsOf[p] : child[r][p] = "done"
                                 /\ intent[p] \in {"applying", "configured", "confirmed"}
       /\ intent[p] \in {"configured", "confirmed"} => custody[p] = "done"
       /\ custody[p] = "cancelled" \/ intent[p] = "cancelled"
             => \A r \in RootsOf[p] : child[r][p] = "cancelled"

(* What makes a plan wait for the user: a root it still needs holds neither what
   was reviewed nor, from its start on, what the plan publishes; once an outcome
   is recorded, only a root that is finishing may go back to what was reviewed. *)
Expected(p, r) ==
    (IF Candidate(p) /\ child[r][p] # "finishing" THEN {} ELSE {before[p][r]})
    \cup (IF child[r][p] = "prepared" THEN {} ELSE {p})
Obstructed(p) ==
    \E r \in RootsOf[p] : /\ child[r][p] \notin {"absent", "cancelled"}
                         /\ file[r] \notin Expected(p, r)

(* A begun plan ends in all stores, and an applied one is reported, unless the
   user's files stand in its way for ever. *)
PlanSettles ==
    \A p \in Plan : <>[]~Obstructed(p) =>
       (custody[p] \in Begun
          ~> \/ custody[p] = "cancelled"
             \/ custody[p] = "done" /\ intent[p] \in {"configured", "confirmed"})

(* The promise of the forward writer, for each root and for the plan as a
   whole: a plan over many roots behaves like one installation. *)
StatusOf(phase) == CASE phase = "prepared" -> "pending"
                     [] phase \in {"applying", "finishing"} -> "started"
                     [] OTHER -> phase

RootPromise(r) == INSTANCE InstallPromise WITH
    Op <- Plan, status <- [p \in Plan |-> StatusOf(child[r][p])], published <- published[r]
RootsKeepPromise ==
    /\ \A r \in Root : RootPromise(r)!PromiseInit
    /\ [][\A r \in Root :
             [RootPromise(r)!PromiseNext]_(RootPromise(r)!promiseVars)]_planVars

WholePromise == INSTANCE InstallPromise WITH
    Op <- Plan, status <- [p \in Plan |-> StatusOf(custody[p])],
    published <- UNION {published[r] : r \in Root}
PlanKeepsPromise == WholePromise!PromiseSpec
=============================================================================
