------------------------- MODULE ForwardTransaction -------------------------
(* The forward-only installation transaction of the CLI
   (apps/cli/src/installation/forward.rs and forward/): how the files of one target are
   replaced by the bytes an operation was admitted with, so that a process that
   dies anywhere can be resumed and nothing a user wrote is lost.

   Four stores change one after the other, each write durable on its own: the
   operations and changes tables (SQLite in the control directory), the staging
   directory, the guard file journal.json, and the target's files.  One process
   at a time holds the target lock; it may die between any two writes.  Users
   edit the files whenever they like, and callers bring requests in any order,
   delayed and repeated ones included. *)
EXTENDS Naturals

CONSTANTS
    Op,          \* operations (Admission: an identity and the plan it is bound to)
    File,        \* paths under the target
    Dir,         \* directory identities; a removed directory's may come back
    ChangesOf,   \* the paths an operation is admitted to change
    MetaOf,      \* the paths of the final metadata that finish() adds
    RemovedBy,   \* the paths among them whose desired content is None
    Base,        \* what a file holds at first
    Foreign,     \* what a user may write into it
    Gone,        \* no file there
    NoOp, NoDir, NoRow, NoFile,
    MaxEdits     \* bound on the edits by users

ASSUME ForwardAssumption ==
    /\ ChangesOf \in [Op -> SUBSET File]
    /\ MetaOf \in [Op -> SUBSET File]
    /\ RemovedBy \in [Op -> SUBSET File]
    /\ \A o \in Op : ChangesOf[o] \cap MetaOf[o] = {}
    /\ Base \notin Op /\ Foreign \notin Op /\ Gone \notin Op
    /\ NoOp \notin Op /\ NoDir \notin Dir /\ NoFile \notin File
    /\ NoRow \notin Op \cup {Base, Foreign, Gone}
    /\ MaxEdits \in Nat

VARIABLES
    phase,       \* operations.phase and outcome of each operation
    stage,       \* operations.stage: the recorded identity of its staging directory
    rows,        \* its changes: what each path held when it was observed, or NoRow
    journal,     \* the operation named by journal.json, the guard
    staging,     \* the directory STAGING: its identity and the entries in it
    file,        \* what each path holds
    writer,      \* the process with the target lock, and where its command stands
    late,        \* history: a user edited the file between the last check and its replacement
    wrote,       \* history: operations that replaced a file
    landed,      \* history: paths that held an operation's desired content while it was active
    edits        \* bound: edits so far

vars == <<phase, stage, rows, journal, staging, file, writer, late, wrote, landed, edits>>
durable == <<phase, stage, rows, journal, staging, file>>

Content  == Op \cup {Base, Foreign, Gone}
Active   == {"prepared", "applying", "finishing"}
Terminal == {"cancelled", "done"}
Command  == {"prepare", "start", "cancel", "apply", "complete", "replay"}
GuardEntry == NoFile    \* the entry "guard", beside one entry for each path

(* The desired content: an operation's bytes for a path are its own. *)
After(o, f) == IF f \in RemovedBy[o] THEN Gone ELSE o

Idle == [cmd |-> "none", op |-> NoOp, at |-> "idle", path |-> NoFile, todo |-> {}]
At(cmd, o, at) == [Idle EXCEPT !.cmd = cmd, !.op = o, !.at = at]

Place == {"idle", "open", "bind", "guard", "hang", "opened", "publish", "staged",
          "swap", "swapped", "clear", "unguard"}

ForwardTypeOK ==
    /\ phase \in [Op -> {"absent"} \cup Active \cup Terminal]
    /\ stage \in [Op -> Dir \cup {NoDir}]
    /\ rows \in [Op -> [File -> Content \cup {NoRow}]]
    /\ journal \in Op \cup {NoOp}
    /\ staging \in [dir : Dir \cup {NoDir}, entries : SUBSET (File \cup {GuardEntry})]
    /\ file \in [File -> Content]
    /\ writer \in [cmd : Command \cup {"none"}, op : Op \cup {NoOp}, at : Place,
                   path : File \cup {NoFile}, todo : SUBSET File]
    /\ late \in BOOLEAN
    /\ wrote \subseteq Op
    /\ landed \in [Op -> SUBSET File]
    /\ edits \in 0..MaxEdits
    /\ writer.at # "idle" => writer.op \in Op

NoStaging == [dir |-> NoDir, entries |-> {}]

ForwardInit ==
    /\ phase = [o \in Op |-> "absent"]
    /\ stage = [o \in Op |-> NoDir]
    /\ rows = [o \in Op |-> [f \in File |-> NoRow]]
    /\ journal = NoOp
    /\ staging = NoStaging
    /\ file = [f \in File |-> Base]
    /\ writer = Idle
    /\ late = FALSE
    /\ wrote = {}
    /\ landed = [o \in Op |-> {}]
    /\ edits = 0

-----------------------------------------------------------------------------
(* What the guards read. *)
Rows(o)      == {f \in File : rows[o][f] # NoRow}
Unchanged(o) == \A f \in Rows(o) : file[f] = rows[o][f]

(* Defect for the mutant runs: the metadata is not verified. *)
VerifiedChanges(o) == \A f \in Rows(o) \cap ChangesOf[o] : file[f] = After(o, f)

Verified(o)  == \A f \in Rows(o) : file[f] = After(o, f)

(* Defect: an operation that is only prepared does not count. *)
NoneApplying == \A o \in Op : phase[o] \notin {"applying", "finishing"}

NoneActive   == \A o \in Op : phase[o] \notin Active
NotStaged    == staging.dir = NoDir
Retired(o)   == [rows EXCEPT ![o] = [f \in File |-> NoRow]]

(* The rows admit inserts and finish adds: the observations their changes are
   bound to, which both compare with the files first. *)
Observed(o, paths) == [rows EXCEPT ![o] = [f \in File |-> IF f \in paths THEN file[f] ELSE @[f]]]

LandedWith(files, phases) ==
    [o \in Op |-> IF phases[o] \in Active
                  THEN landed[o] \cup {f \in File : files[f] = After(o, f)} ELSE landed[o]]

WriterIsAt(at) == writer.at = at
Goto(at)       == writer' = [writer EXCEPT !.at = at]

Returns        == writer' = Idle
KeepsHistory   == UNCHANGED <<late, wrote, landed, edits>>

-----------------------------------------------------------------------------
(* Requests.  One that a guard here refuses changes nothing. *)

(* admit, and prepare of an operation that is absent: every check, then one
   transaction.  prepare goes on with the guard in the same call. *)
Admit(o, first) ==
    /\ WriterIsAt("idle")
    /\ phase[o] = "absent" /\ NoneActive
    /\ journal = NoOp /\ NotStaged
    /\ phase' = [phase EXCEPT ![o] = first]
    /\ rows' = Observed(o, ChangesOf[o])
    /\ writer' = IF first = "prepared" THEN At("prepare", o, "open") ELSE writer
    /\ landed' = LandedWith(file, phase')
    /\ UNCHANGED <<stage, journal, staging, file, late, wrote, edits>>

(* prepared() and start() begin with the phase and the observations, apply
   and complete with the phase, complete with the published content too. *)
Resume(o, cmd) ==
    /\ WriterIsAt("idle")
    /\ \/ cmd \in {"prepare", "start"} /\ phase[o] = "prepared"
       \/ cmd = "apply" /\ phase[o] \in {"applying", "finishing"}
       \/ cmd = "complete" /\ phase[o] = "finishing" /\ Verified(o)
    /\ writer' = At(cmd, o, "open")
    /\ UNCHANGED durable /\ KeepsHistory

(* Defects: a begun application is cancelled; its directory is not looked for. *)
CancelBegun(o) == phase[o] = "applying" /\ Unchanged(o)
CancelStaged(o) ==
    phase[o] = "applying" /\ stage[o] = NoDir /\ journal = NoOp /\ Unchanged(o)

(* cancel of a prepared operation completes its guard first; of one admitted
   without preparation it needs proof that nothing was begun; of an unknown
   one it leaves a tombstone, which its delayed admission meets. *)
CancelPrepared(o) ==
    /\ WriterIsAt("idle") /\ phase[o] = "prepared"
    /\ writer' = At("cancel", o, "open")
    /\ UNCHANGED durable /\ KeepsHistory

CancelUnbegun(o) ==
    /\ phase[o] = "applying" /\ stage[o] = NoDir
    /\ journal = NoOp /\ NotStaged /\ Unchanged(o)

CancelAtOnce(o) ==
    /\ WriterIsAt("idle")
    /\ phase[o] = "absent" \/ CancelUnbegun(o)
    /\ phase' = [phase EXCEPT ![o] = "cancelled"]
    /\ rows' = Retired(o)
    /\ writer' = At("cancel", o, "clear")
    /\ UNCHANGED <<stage, journal, staging, file>> /\ KeepsHistory

(* finish: the metadata joins the changes when all of them are in place.  The
   stage is there whenever a caller gets here: each applies before it finishes
   or has started a preparation. *)
Finish(o) ==
    /\ WriterIsAt("idle")
    /\ phase[o] = "applying" /\ stage[o] # NoDir
    /\ Verified(o)
    /\ phase' = [phase EXCEPT ![o] = "finishing"]
    /\ rows' = Observed(o, MetaOf[o])
    /\ UNCHANGED <<stage, journal, staging, file, writer>> /\ KeepsHistory

(* progress and prepare of an operation in the history, and its cancellation
   once more: its outcome is returned, after what its end left is cleared. *)
Replay(o) ==
    /\ WriterIsAt("idle") /\ phase[o] \in Terminal
    /\ writer' = At("replay", o, "clear")
    /\ UNCHANGED durable /\ KeepsHistory

-----------------------------------------------------------------------------
(* staging(): the guard goes up before anything that needs it. *)

(* Without a guard the files must be as observed; prepared() asks that anyway. *)
MayOpen(o) ==
    /\ journal \in {NoOp, o}
    /\ journal = NoOp \/ writer.cmd \in {"prepare", "start", "cancel"} => Unchanged(o)
    /\ NotStaged => stage[o] = NoDir

Open ==
    /\ WriterIsAt("open") /\ MayOpen(writer.op)
    /\ IF NotStaged THEN \E d \in Dir : staging' = [dir |-> d, entries |-> {}]
                    ELSE UNCHANGED staging
    /\ Goto("bind")
    /\ UNCHANGED <<phase, stage, rows, journal, file>> /\ KeepsHistory

(* Defect: a directory that a crash left unrecorded is not taken over. *)
MayBindRecorded(o) == stage[o] = staging.dir

(* The directory is the recorded one, or an empty one that set_stage records. *)
MayBind(o) ==
    \/ stage[o] = staging.dir
    \/ stage[o] = NoDir /\ staging.entries = {} /\ phase[o] \in {"prepared", "applying"}

Bind ==
    /\ WriterIsAt("bind") /\ MayBind(writer.op)
    /\ stage' = [stage EXCEPT ![writer.op] = staging.dir]
    /\ Goto(IF journal = NoOp THEN "guard" ELSE "opened")
    /\ UNCHANGED <<phase, rows, journal, staging, file>> /\ KeepsHistory

StageGuard ==
    /\ WriterIsAt("guard")
    /\ staging' = [staging EXCEPT !.entries = @ \cup {GuardEntry}]
    /\ Goto("hang")
    /\ UNCHANGED <<phase, stage, rows, journal, file>> /\ KeepsHistory

HangGuard ==
    /\ WriterIsAt("hang")
    /\ journal' = writer.op
    /\ staging' = [staging EXCEPT !.entries = @ \ {GuardEntry}]
    /\ Goto("opened")
    /\ UNCHANGED <<phase, stage, rows, file>> /\ KeepsHistory

-----------------------------------------------------------------------------
(* What each request does once the directory is held. *)

StartApplies ==
    /\ WriterIsAt("opened") /\ writer.cmd = "start" /\ staging.entries = {}
    /\ phase' = [phase EXCEPT ![writer.op] = "applying"]
    /\ Returns
    /\ UNCHANGED <<stage, rows, journal, staging, file>> /\ KeepsHistory

MayCancel(o) == staging.entries = {} /\ Unchanged(o)

CancelRetires ==
    /\ WriterIsAt("opened") /\ writer.cmd = "cancel" /\ MayCancel(writer.op)
    /\ phase' = [phase EXCEPT ![writer.op] = "cancelled"]
    /\ rows' = Retired(writer.op)
    /\ Goto("clear")
    /\ UNCHANGED <<stage, journal, staging, file>> /\ KeepsHistory

CompleteRetires ==
    /\ WriterIsAt("opened") /\ writer.cmd = "complete" /\ staging.entries = {}
    /\ phase' = [phase EXCEPT ![writer.op] = "done"]
    /\ rows' = Retired(writer.op)
    /\ Goto("clear")
    /\ UNCHANGED <<stage, journal, staging, file>> /\ KeepsHistory

ApplyBegins ==
    /\ WriterIsAt("opened") /\ writer.cmd = "apply"
    /\ writer' = [writer EXCEPT !.at = "publish", !.todo = Rows(writer.op)]
    /\ UNCHANGED durable /\ KeepsHistory

(* files::publish for one change.  A path that already holds the desired
   content is passed over; one that holds anything but the observed content
   refuses.  The order of the changes is left open. *)
PublishSkips ==
    /\ WriterIsAt("publish")
    /\ \E f \in writer.todo :
          /\ file[f] = After(writer.op, f)
          /\ writer' = [writer EXCEPT !.todo = @ \ {f}]
    /\ UNCHANGED durable /\ KeepsHistory

PublishStages ==
    /\ WriterIsAt("publish")
    /\ \E f \in writer.todo :
          /\ file[f] # After(writer.op, f)
          /\ file[f] = rows[writer.op][f]
          /\ writer' = [writer EXCEPT !.at = "staged", !.path = f, !.todo = @ \ {f}]
          /\ staging' = IF f \in RemovedBy[writer.op] THEN staging
                        ELSE [staging EXCEPT !.entries = @ \cup {f}]
    /\ UNCHANGED <<phase, stage, rows, journal, file>> /\ KeepsHistory

(* Defect: what was read before the stage is trusted. *)
MayReplaceUnread(o, f) == TRUE

(* The second read, which must find what the first one found. *)
MayReplace(o, f) == file[f] = rows[o][f]

PublishChecks ==
    /\ WriterIsAt("staged") /\ MayReplace(writer.op, writer.path)
    /\ Goto("swap")
    /\ late' = FALSE
    /\ UNCHANGED durable /\ UNCHANGED <<wrote, landed, edits>>

(* rename over the path, or its removal, which fails when nothing is there. *)
MayRemove(o, f) == f \in RemovedBy[o] => file[f] # Gone

PublishReplaces ==
    /\ WriterIsAt("swap") /\ MayRemove(writer.op, writer.path)
    /\ file' = [file EXCEPT ![writer.path] = After(writer.op, writer.path)]
    /\ staging' = [staging EXCEPT !.entries = @ \ {writer.path}]
    /\ wrote' = wrote \cup {writer.op}
    /\ landed' = LandedWith(file', phase)
    /\ Goto("swapped")
    /\ UNCHANGED <<phase, stage, rows, journal, late, edits>>

PublishConfirms ==
    /\ WriterIsAt("swapped") /\ file[writer.path] = After(writer.op, writer.path)
    /\ writer' = [writer EXCEPT !.at = "publish", !.path = NoFile]
    /\ UNCHANGED durable /\ KeepsHistory

-----------------------------------------------------------------------------
(* clear_completed: the directory goes first, so that the guard is there until
   nothing else is left of the operation. *)

(* Defects: without a guard nobody asks whether an operation is active; any
   guard is taken for the operation's own. *)
NotMineUnasked(o) == journal \notin {NoOp, o} \/ (journal = NoOp /\ stage[o] = NoDir)
NotMineAnyGuard(o) == journal = NoOp /\ (stage[o] = NoDir \/ ~NoneActive)

(* Nothing to clear: another operation's guard is up; or there is no guard, and
   this operation had no directory or another one may own it. *)
NotMine(o) == \/ journal \notin {NoOp, o}
              \/ journal = NoOp /\ (stage[o] = NoDir \/ ~NoneActive)

MayClear(o) == NotStaged \/ (staging.dir = stage[o] /\ staging.entries = {})

ClearStaging ==
    /\ WriterIsAt("clear") /\ ~NotMine(writer.op) /\ MayClear(writer.op)
    /\ staging' = NoStaging
    /\ Goto("unguard")
    /\ UNCHANGED <<phase, stage, rows, journal, file>> /\ KeepsHistory

ClearGuard ==
    /\ WriterIsAt("unguard")
    /\ journal' = NoOp
    /\ Returns
    /\ UNCHANGED <<phase, stage, rows, staging, file>> /\ KeepsHistory

-----------------------------------------------------------------------------
(* A check that fails ends the command; what it wrote so far stays. *)
Refused ==
    \/ WriterIsAt("open") /\ ~MayOpen(writer.op)
    \/ WriterIsAt("bind") /\ ~MayBind(writer.op)
    \/ WriterIsAt("opened") /\ writer.cmd \in {"prepare", "start", "complete"} /\ staging.entries # {}
    \/ WriterIsAt("opened") /\ writer.cmd = "cancel" /\ ~MayCancel(writer.op)
    \/ WriterIsAt("publish") /\ \E f \in writer.todo : file[f] \notin {After(writer.op, f), rows[writer.op][f]}
    \/ WriterIsAt("staged") /\ ~MayReplace(writer.op, writer.path)
    \/ WriterIsAt("swap") /\ ~MayRemove(writer.op, writer.path)
    \/ WriterIsAt("swapped") /\ file[writer.path] # After(writer.op, writer.path)
    \/ WriterIsAt("clear") /\ ~NotMine(writer.op) /\ ~MayClear(writer.op)

(* prepare has its guard up; apply has been through its changes, and its final
   verification changes nothing, whatever it answers; there is nothing to clear. *)
Answered ==
    \/ WriterIsAt("opened") /\ writer.cmd = "prepare" /\ staging.entries = {}
    \/ WriterIsAt("publish") /\ writer.todo = {}
    \/ WriterIsAt("clear") /\ NotMine(writer.op)

Return == (Refused \/ Answered) /\ Returns /\ UNCHANGED durable /\ KeepsHistory

(* The process dies, a write fails, or the authority that is asked before
   every file effect is gone: the lock is free again.  Where the command ends
   anyway this is its Return. *)
Interrupt ==
    /\ ~WriterIsAt("idle") /\ ~Refused /\ ~Answered
    /\ Returns
    /\ UNCHANGED durable /\ KeepsHistory

(* A user writes, restores or removes a file. *)
UserEdit ==
    /\ edits < MaxEdits
    /\ \E f \in File, c \in Content :
          /\ c # file[f]
          /\ file' = [file EXCEPT ![f] = c]
          /\ late' = (late \/ (WriterIsAt("swap") /\ writer.path = f))
    /\ landed' = LandedWith(file', phase)
    /\ edits' = edits + 1
    /\ UNCHANGED <<phase, stage, rows, journal, staging, writer, wrote>>

-----------------------------------------------------------------------------
Request(o) ==
    \/ \E first \in {"prepared", "applying"} : Admit(o, first)
    \/ \E cmd \in {"prepare", "start", "apply", "complete"} : Resume(o, cmd)
    \/ CancelPrepared(o)
    \/ CancelAtOnce(o)
    \/ Finish(o)
    \/ Replay(o)

Proceed ==
    \/ Open \/ Bind \/ StageGuard \/ HangGuard
    \/ StartApplies \/ CancelRetires \/ CompleteRetires \/ ApplyBegins
    \/ PublishSkips \/ PublishStages \/ PublishChecks \/ PublishReplaces \/ PublishConfirms
    \/ ClearStaging \/ ClearGuard
    \/ Return

ForwardNext == (\E o \in Op : Request(o)) \/ Proceed \/ Interrupt \/ UserEdit

ForwardSpec == ForwardInit /\ [][ForwardNext]_vars

(* Liveness.  The owner of an unfinished operation makes the calls of
   apply_prepared in their order; a process is interrupted finitely often. *)
Drive(o) ==
    \/ Resume(o, "start")
    \/ phase[o] = "applying" /\ (stage[o] = NoDir \/ ~Verified(o)) /\ Resume(o, "apply")
    \/ Finish(o)
    \/ phase[o] = "finishing" /\ ~Verified(o) /\ Resume(o, "apply")
    \/ Resume(o, "complete")
    \/ journal = o /\ Replay(o)

ForwardFairness ==
    /\ WF_vars(Proceed)
    /\ \A o \in Op : SF_vars(Drive(o))
    /\ <>[][~Interrupt]_vars

FairForwardSpec == ForwardSpec /\ ForwardFairness
-----------------------------------------------------------------------------
(* Properties. *)

(* A cancelled operation changed no file, as its outcome says
   (configuration_changed is false), and never will. *)
CancelledChangedNothing == \A o \in Op : phase[o] = "cancelled" => o \notin wrote

(* The guard that keeps other writers out is up from the first file an
   operation replaces until its outcome is recorded: every crash in between
   leaves it in place. *)
GuardedFromFirstEffect == \A o \in wrote : phase[o] \in Active => journal = o

(* The staging directory an active operation recorded stays there, whatever
   replays of older operations clear, also when the identity of a removed
   directory has come back. *)
ActiveKeepsStaging ==
    \A o \in Op : phase[o] \in Active /\ stage[o] # NoDir => staging.dir = stage[o]

(* What is left when no operation is active belongs to an operation whose
   replay can clear it: nothing blocks the next admission for ever. *)
LeftoversHaveAnOwner ==
    NoneActive /\ (journal # NoOp \/ ~NotStaged)
       => /\ journal # NoOp
          /\ phase[journal] \in Terminal
          /\ NotStaged \/ (staging.dir = stage[journal] /\ staging.entries = {})

(* An operation is recorded as done only if each of its paths, the metadata
   included, held the desired content while it was active. *)
DoneWasPublished ==
    \A o \in Op : phase[o] = "done" => ChangesOf[o] \cup MetaOf[o] \subseteq landed[o]

(* A publication replaces only the content its operation observed, however
   often it is resumed.  What a user writes between the last read and the
   rename is beyond any check and excepted. *)
ReplacesOnlyObserved ==
    [][\A f \in File :
          file'[f] # file[f] /\ edits' = edits /\ ~late => file[f] = rows[writer.op][f]]_vars

(* What makes an operation wait for the user: a file that is neither as it was
   observed nor, once the guard is up and the operation begun, as desired; and
   a staged entry for a file that got the desired content in another way, which
   complete refuses and nothing takes away. *)
Expected(o, f) == {rows[o][f]} \cup (IF phase[o] # "prepared" /\ journal = o
                                     THEN {After(o, f)} ELSE {})
Obstructed(o) == \/ \E f \in Rows(o) : file[f] \notin Expected(o, f)
                 \/ \E f \in staging.entries \cap File : file[f] = After(o, f)

Settled(o) == phase[o] \in Terminal /\ journal # o

(* An admitted operation is completed, or cancelled, and its guard taken down,
   unless the user's files stand in its way for ever. *)
ForwardSettles ==
    \A o \in Op :
       <>[]~Obstructed(o) => (phase[o] \in Active ~> Settled(o))

(* The promise of Progress: see InstallPromise. *)
StatusOf(o) == CASE phase[o] = "prepared" -> "pending"
                 [] phase[o] = "applying" /\ stage[o] = NoDir -> "pending"
                 [] phase[o] = "applying" /\ stage[o] # NoDir -> "started"
                 [] phase[o] = "finishing" -> "started"
                 [] OTHER -> phase[o]

Promise == INSTANCE InstallPromise WITH
              status <- [o \in Op |-> StatusOf(o)], published <- wrote
KeepsPromise == Promise!PromiseSpec
=============================================================================
