---------------------------- MODULE ForwardProofs ----------------------------
(* Proofs about ForwardTransaction for any operations, paths and directory
   identities, and any number of edits and interruptions. *)
EXTENDS ForwardTransaction, TLAPS

-----------------------------------------------------------------------------
(* Types. *)

LEMMA AfterIsContent == \A o \in Op, f \in File : After(o, f) \in Content
BY DEF After, Content

LEMMA IdleTyped ==
    /\ Idle \in [cmd : Command \cup {"none"}, op : Op \cup {NoOp}, at : Place,
                 path : File \cup {NoFile}, todo : SUBSET File]
    /\ Idle.at = "idle"
BY DEF Idle, Place

LEMMA AtTyped ==
    ASSUME NEW cmd \in Command, NEW o \in Op, NEW at \in Place
    PROVE  /\ At(cmd, o, at) \in [cmd : Command \cup {"none"}, op : Op \cup {NoOp}, at : Place,
                                  path : File \cup {NoFile}, todo : SUBSET File]
           /\ At(cmd, o, at).cmd = cmd
           /\ At(cmd, o, at).op = o
           /\ At(cmd, o, at).at = at
BY DEF At, Idle, Place, Command

LEMMA LandedTyped ==
    ASSUME ForwardTypeOK, NEW files, NEW phases
    PROVE  LandedWith(files, phases) \in [Op -> SUBSET File]
BY DEF ForwardTypeOK, LandedWith

LEMMA ObservedTyped ==
    ASSUME ForwardTypeOK, NEW o \in Op, NEW paths \in SUBSET File
    PROVE  Observed(o, paths) \in [Op -> [File -> Content \cup {NoRow}]]
<1> DEFINE r == [f \in File |-> IF f \in paths THEN file[f] ELSE rows[o][f]]
<1>1. r \in [File -> Content \cup {NoRow}]
  BY DEF ForwardTypeOK
<1>2. Observed(o, paths) = [rows EXCEPT ![o] = r]
  BY DEF Observed, ForwardTypeOK
<1> HIDE DEF r
<1> QED BY <1>1, <1>2 DEF ForwardTypeOK

LEMMA RetiredTyped ==
    ASSUME ForwardTypeOK, NEW o \in Op
    PROVE  Retired(o) \in [Op -> [File -> Content \cup {NoRow}]]
BY DEF ForwardTypeOK, Retired

LEMMA TypeInit == ForwardInit => ForwardTypeOK
<1> SUFFICES ASSUME ForwardInit PROVE ForwardTypeOK
  OBVIOUS
<1>1. phase \in [Op -> {"absent"} \cup Active \cup Terminal] /\ stage \in [Op -> Dir \cup {NoDir}]
  BY DEF ForwardInit
<1>2. rows \in [Op -> [File -> Content \cup {NoRow}]]
  BY DEF ForwardInit
<1>3. file \in [File -> Content]
  BY DEF ForwardInit, Content
<1>4. staging \in [dir : Dir \cup {NoDir}, entries : SUBSET (File \cup {GuardEntry})]
  BY DEF ForwardInit, NoStaging
<1>5. edits \in 0..MaxEdits
  BY ForwardAssumption DEF ForwardInit
<1>6. late \in BOOLEAN
  BY Zenon DEF ForwardInit
<1> QED BY <1>1, <1>2, <1>3, <1>4, <1>5, <1>6, IdleTyped DEF ForwardInit, ForwardTypeOK

LEMMA TypeStep == ForwardTypeOK /\ [ForwardNext]_vars => ForwardTypeOK'
<1> SUFFICES ASSUME ForwardTypeOK, [ForwardNext]_vars PROVE ForwardTypeOK'
  OBVIOUS
<1> USE DEF WriterIsAt, Goto, Returns, KeepsHistory, durable
<1>1. ASSUME NEW o \in Op, NEW first \in {"prepared", "applying"}, Admit(o, first)
      PROVE  ForwardTypeOK'
  <2>1. rows' \in [Op -> [File -> Content \cup {NoRow}]]
    BY <1>1, ObservedTyped, ForwardAssumption DEF Admit
  <2>2. landed' \in [Op -> SUBSET File]
    BY <1>1, LandedTyped DEF Admit
  <2>3. /\ writer' \in [cmd : Command \cup {"none"}, op : Op \cup {NoOp}, at : Place,
                        path : File \cup {NoFile}, todo : SUBSET File]
        /\ writer'.at # "idle" => writer'.op \in Op
    BY <1>1, AtTyped DEF Admit, ForwardTypeOK, Command, Place
  <2> QED BY <1>1, <2>1, <2>2, <2>3 DEF Admit, ForwardTypeOK, Active
<1>2. ASSUME NEW o \in Op, NEW cmd \in {"prepare", "start", "apply", "complete"}, Resume(o, cmd)
      PROVE  ForwardTypeOK'
  BY <1>2, AtTyped DEF Resume, ForwardTypeOK, Command, Place
<1>3. ASSUME NEW o \in Op, CancelPrepared(o) PROVE ForwardTypeOK'
  BY <1>3, AtTyped DEF CancelPrepared, ForwardTypeOK, Command, Place
<1>4. ASSUME NEW o \in Op, CancelAtOnce(o) PROVE ForwardTypeOK'
  BY <1>4, AtTyped, RetiredTyped DEF CancelAtOnce, ForwardTypeOK, Command, Place, Terminal
<1>5. ASSUME NEW o \in Op, Finish(o) PROVE ForwardTypeOK'
  BY <1>5, ObservedTyped, ForwardAssumption DEF Finish, ForwardTypeOK, Active
<1>6. ASSUME NEW o \in Op, Replay(o) PROVE ForwardTypeOK'
  BY <1>6, AtTyped DEF Replay, ForwardTypeOK, Command, Place
<1>7. CASE Open
  <2>1. staging' \in [dir : Dir \cup {NoDir}, entries : SUBSET (File \cup {GuardEntry})]
    <3>1. CASE NotStaged
      BY <1>7, <3>1 DEF Open
    <3>2. CASE ~NotStaged
      BY <1>7, <3>2 DEF Open, ForwardTypeOK
    <3> QED BY <3>1, <3>2
  <2> QED BY <1>7, <2>1 DEF Open, ForwardTypeOK, Place
<1>8. CASE Bind
  BY <1>8 DEF Bind, MayBind, ForwardTypeOK, Place
<1>9. CASE StageGuard
  BY <1>9 DEF StageGuard, ForwardTypeOK, Place, GuardEntry
<1>10. CASE HangGuard
  BY <1>10 DEF HangGuard, ForwardTypeOK, Place, GuardEntry
<1>11. CASE StartApplies
  BY <1>11, IdleTyped DEF StartApplies, ForwardTypeOK, Active
<1>12. CASE CancelRetires
  BY <1>12, RetiredTyped DEF CancelRetires, ForwardTypeOK, Place, Terminal
<1>13. CASE CompleteRetires
  BY <1>13, RetiredTyped DEF CompleteRetires, ForwardTypeOK, Place, Terminal
<1>14. CASE ApplyBegins
  BY <1>14 DEF ApplyBegins, ForwardTypeOK, Place, Rows
<1>15. CASE PublishSkips
  BY <1>15 DEF PublishSkips, ForwardTypeOK
<1>16. CASE PublishStages
  <2>1. PICK f \in writer.todo :
           /\ writer' = [writer EXCEPT !.at = "staged", !.path = f, !.todo = @ \ {f}]
           /\ staging' = IF f \in RemovedBy[writer.op] THEN staging
                         ELSE [staging EXCEPT !.entries = @ \cup {f}]
    BY <1>16 DEF PublishStages
  <2>2. f \in File
    BY <2>1 DEF ForwardTypeOK
  <2>3. staging' \in [dir : Dir \cup {NoDir}, entries : SUBSET (File \cup {GuardEntry})]
    BY <2>1, <2>2 DEF ForwardTypeOK
  <2> QED BY <1>16, <2>1, <2>2, <2>3 DEF PublishStages, ForwardTypeOK, Place
<1>17. CASE PublishChecks
  BY <1>17 DEF PublishChecks, ForwardTypeOK, Place
<1>18. CASE PublishReplaces
  <2>1. landed' \in [Op -> SUBSET File]
    BY <1>18, LandedTyped DEF PublishReplaces
  <2>2. file' \in [File -> Content]
    BY <1>18, AfterIsContent DEF PublishReplaces, ForwardTypeOK
  <2> QED BY <1>18, <2>1, <2>2 DEF PublishReplaces, ForwardTypeOK, Place
<1>19. CASE PublishConfirms
  BY <1>19 DEF PublishConfirms, ForwardTypeOK, Place
<1>20. CASE ClearStaging
  BY <1>20 DEF ClearStaging, ForwardTypeOK, Place, NoStaging
<1>21. CASE ClearGuard
  BY <1>21, IdleTyped DEF ClearGuard, ForwardTypeOK
<1>22. CASE Return \/ Interrupt
  BY <1>22, IdleTyped DEF Return, Interrupt, ForwardTypeOK
<1>23. CASE UserEdit
  <2>1. landed' \in [Op -> SUBSET File]
    BY <1>23, LandedTyped DEF UserEdit
  <2>2. late' \in BOOLEAN
    <3>1. PICK f \in File : late' = (late \/ (writer.at = "swap" /\ writer.path = f))
      BY <1>23 DEF UserEdit
    <3>2. late \in BOOLEAN
      BY DEF ForwardTypeOK
    <3> QED BY <3>1, <3>2, Zenon
  <2>3. edits' \in 0..MaxEdits
    BY <1>23, ForwardAssumption DEF UserEdit, ForwardTypeOK
  <2>4. file' \in [File -> Content]
    BY <1>23 DEF UserEdit, ForwardTypeOK
  <2> QED BY <1>23, <2>1, <2>2, <2>3, <2>4 DEF UserEdit, ForwardTypeOK
<1>24. CASE UNCHANGED vars
  BY <1>24 DEF vars, ForwardTypeOK
<1> QED
  BY <1>1, <1>2, <1>3, <1>4, <1>5, <1>6, <1>7, <1>8, <1>9, <1>10, <1>11, <1>12, <1>13,
     <1>14, <1>15, <1>16, <1>17, <1>18, <1>19, <1>20, <1>21, <1>22, <1>23, <1>24
  DEF ForwardNext, Request, Proceed

(* Every reachable state is well typed (ForwardTypeOK). *)
THEOREM ForwardTypes == ForwardSpec => []ForwardTypeOK
BY TypeInit, TypeStep, PTL DEF ForwardSpec
-----------------------------------------------------------------------------
(* The induction behind the safety properties.  OneActive, GuardOfActive and
   LeftoversHaveAnOwner say whose the guard and the directory are; WriterStands
   what the process has established where it stands, which the other processes
   cannot take back while it holds the lock. *)

IsActive(o) == phase[o] \in Active

OneActive == \A o, p \in Op : IsActive(o) /\ IsActive(p) => o = p

Untouched == \A o \in Op : phase[o] = "absent" => stage[o] = NoDir

WroteBegun == \A o \in wrote : phase[o] \in {"applying", "finishing", "done"}

GuardOfActive ==
    \A o \in Op : IsActive(o) /\ journal # NoOp => journal = o /\ stage[o] # NoDir

GuardAdmitted == journal # NoOp => phase[journal] # "absent"

PhasesFor(cmd) == CASE cmd \in {"prepare", "start", "cancel"} -> {"prepared"}
                    [] cmd = "apply" -> {"applying", "finishing"}
                    [] cmd = "complete" -> {"finishing"}
                    [] OTHER -> {}

Holding    == {"opened", "publish", "staged", "swap", "swapped"}
Publishing == {"publish", "staged", "swap", "swapped"}

WriterStands ==
    LET o == writer.op IN
    /\ writer.at \in {"open", "bind", "guard", "hang"} \cup Holding
          => phase[o] \in PhasesFor(writer.cmd)
    /\ writer.at \in Publishing => writer.cmd = "apply"
    /\ writer.at = "bind" => staging.dir # NoDir /\ journal \in {NoOp, o}
    /\ writer.at \in {"guard", "hang"}
          => staging.dir # NoDir /\ stage[o] = staging.dir /\ journal = NoOp
    /\ writer.at \in Holding
          => staging.dir # NoDir /\ stage[o] = staging.dir /\ journal = o
    /\ writer.at \in {"clear", "unguard"} => phase[o] \in Terminal
    /\ writer.at = "unguard" => NoneActive /\ NotStaged /\ journal \in {NoOp, o}

SafetyInv ==
    /\ OneActive
    /\ Untouched
    /\ WroteBegun
    /\ GuardOfActive
    /\ GuardAdmitted
    /\ ActiveKeepsStaging
    /\ GuardedFromFirstEffect
    /\ LeftoversHaveAnOwner
    /\ WriterStands

LEMMA SafetyInit == ForwardInit => SafetyInv
BY IdleTyped DEF ForwardInit, SafetyInv, OneActive, IsActive, Active, Untouched, WroteBegun,
   GuardOfActive, GuardAdmitted, ActiveKeepsStaging, GuardedFromFirstEffect,
   LeftoversHaveAnOwner, WriterStands, NoStaging, NotStaged, Holding, Publishing

LEMMA SafetyStep ==
    ForwardTypeOK /\ ForwardTypeOK' /\ SafetyInv /\ [ForwardNext]_vars => SafetyInv'
<1> SUFFICES ASSUME ForwardTypeOK, ForwardTypeOK', SafetyInv, [ForwardNext]_vars
             PROVE  SafetyInv'
  OBVIOUS
<1> USE ForwardAssumption, IdleTyped
    DEF WriterIsAt, Goto, Returns, KeepsHistory, durable, IsActive, Active, Terminal,
        NotStaged, NoneActive, Holding, Publishing, PhasesFor
<1>1. ASSUME NEW o \in Op, NEW first \in {"prepared", "applying"}, Admit(o, first)
      PROVE  SafetyInv'
  <2>1. \/ first = "prepared" /\ writer'.op = o /\ writer'.at = "open" /\ writer'.cmd = "prepare"
        \/ first = "applying" /\ writer' = writer
    BY <1>1, AtTyped DEF Admit, Command, Place
  <2> QED BY <1>1, <2>1 DEF Admit, Observed,
         SafetyInv, OneActive, Untouched, WroteBegun, GuardOfActive, GuardAdmitted, ActiveKeepsStaging,
         GuardedFromFirstEffect, LeftoversHaveAnOwner, WriterStands, ForwardTypeOK
<1>2. ASSUME NEW o \in Op, NEW cmd \in {"prepare", "start", "apply", "complete"}, Resume(o, cmd)
      PROVE  SafetyInv'
  <2>1. writer'.op = o /\ writer'.at = "open" /\ writer'.cmd = cmd
    BY <1>2, AtTyped DEF Resume, Command, Place
  <2> QED BY <1>2, <2>1 DEF Resume,
         SafetyInv, OneActive, Untouched, WroteBegun, GuardOfActive, GuardAdmitted, ActiveKeepsStaging,
         GuardedFromFirstEffect, LeftoversHaveAnOwner, WriterStands, ForwardTypeOK
<1>3. ASSUME NEW o \in Op, CancelPrepared(o) PROVE SafetyInv'
  <2>1. writer'.op = o /\ writer'.at = "open" /\ writer'.cmd = "cancel"
    BY <1>3, AtTyped DEF CancelPrepared, Command, Place
  <2> QED BY <1>3, <2>1 DEF CancelPrepared,
         SafetyInv, OneActive, Untouched, WroteBegun, GuardOfActive, GuardAdmitted, ActiveKeepsStaging,
         GuardedFromFirstEffect, LeftoversHaveAnOwner, WriterStands, ForwardTypeOK
<1>4. ASSUME NEW o \in Op, CancelAtOnce(o) PROVE SafetyInv'
  <2>1. writer'.op = o /\ writer'.at = "clear"
    BY <1>4, AtTyped DEF CancelAtOnce, Command, Place
  <2> QED BY <1>4, <2>1 DEF CancelAtOnce, CancelUnbegun,
         SafetyInv, OneActive, Untouched, WroteBegun, GuardOfActive, GuardAdmitted, ActiveKeepsStaging,
         GuardedFromFirstEffect, LeftoversHaveAnOwner, WriterStands, ForwardTypeOK
<1>5. ASSUME NEW o \in Op, Finish(o) PROVE SafetyInv'
  BY <1>5 DEF Finish,
         SafetyInv, OneActive, Untouched, WroteBegun, GuardOfActive, GuardAdmitted, ActiveKeepsStaging,
         GuardedFromFirstEffect, LeftoversHaveAnOwner, WriterStands, ForwardTypeOK
<1>6. ASSUME NEW o \in Op, Replay(o) PROVE SafetyInv'
  <2>1. writer'.op = o /\ writer'.at = "clear"
    BY <1>6, AtTyped DEF Replay, Command, Place
  <2> QED BY <1>6, <2>1 DEF Replay,
         SafetyInv, OneActive, Untouched, WroteBegun, GuardOfActive, GuardAdmitted, ActiveKeepsStaging,
         GuardedFromFirstEffect, LeftoversHaveAnOwner, WriterStands, ForwardTypeOK
<1>7. CASE Open
  BY <1>7 DEF Open, MayOpen,
         SafetyInv, OneActive, Untouched, WroteBegun, GuardOfActive, GuardAdmitted, ActiveKeepsStaging,
         GuardedFromFirstEffect, LeftoversHaveAnOwner, WriterStands, ForwardTypeOK
<1>8. CASE Bind
  BY <1>8 DEF Bind, MayBind,
         SafetyInv, OneActive, Untouched, WroteBegun, GuardOfActive, GuardAdmitted, ActiveKeepsStaging,
         GuardedFromFirstEffect, LeftoversHaveAnOwner, WriterStands, ForwardTypeOK
<1>9. CASE StageGuard
  BY <1>9 DEF StageGuard,
         SafetyInv, OneActive, Untouched, WroteBegun, GuardOfActive, GuardAdmitted, ActiveKeepsStaging,
         GuardedFromFirstEffect, LeftoversHaveAnOwner, WriterStands, ForwardTypeOK
<1>10. CASE HangGuard
  BY <1>10 DEF HangGuard, GuardEntry,
         SafetyInv, OneActive, Untouched, WroteBegun, GuardOfActive, GuardAdmitted, ActiveKeepsStaging,
         GuardedFromFirstEffect, LeftoversHaveAnOwner, WriterStands, ForwardTypeOK
<1>11. CASE StartApplies
  BY <1>11 DEF StartApplies,
         SafetyInv, OneActive, Untouched, WroteBegun, GuardOfActive, GuardAdmitted, ActiveKeepsStaging,
         GuardedFromFirstEffect, LeftoversHaveAnOwner, WriterStands, ForwardTypeOK
<1>12. CASE CancelRetires
  BY <1>12 DEF CancelRetires, MayCancel,
         SafetyInv, OneActive, Untouched, WroteBegun, GuardOfActive, GuardAdmitted, ActiveKeepsStaging,
         GuardedFromFirstEffect, LeftoversHaveAnOwner, WriterStands, ForwardTypeOK
<1>13. CASE CompleteRetires
  BY <1>13 DEF CompleteRetires,
         SafetyInv, OneActive, Untouched, WroteBegun, GuardOfActive, GuardAdmitted, ActiveKeepsStaging,
         GuardedFromFirstEffect, LeftoversHaveAnOwner, WriterStands, ForwardTypeOK
<1>14. CASE ApplyBegins
  BY <1>14 DEF ApplyBegins,
         SafetyInv, OneActive, Untouched, WroteBegun, GuardOfActive, GuardAdmitted, ActiveKeepsStaging,
         GuardedFromFirstEffect, LeftoversHaveAnOwner, WriterStands, ForwardTypeOK
<1>15. CASE PublishSkips
  BY <1>15 DEF PublishSkips,
         SafetyInv, OneActive, Untouched, WroteBegun, GuardOfActive, GuardAdmitted, ActiveKeepsStaging,
         GuardedFromFirstEffect, LeftoversHaveAnOwner, WriterStands, ForwardTypeOK
<1>16. CASE PublishStages
  BY <1>16 DEF PublishStages,
         SafetyInv, OneActive, Untouched, WroteBegun, GuardOfActive, GuardAdmitted, ActiveKeepsStaging,
         GuardedFromFirstEffect, LeftoversHaveAnOwner, WriterStands, ForwardTypeOK
<1>17. CASE PublishChecks
  BY <1>17 DEF PublishChecks,
         SafetyInv, OneActive, Untouched, WroteBegun, GuardOfActive, GuardAdmitted, ActiveKeepsStaging,
         GuardedFromFirstEffect, LeftoversHaveAnOwner, WriterStands, ForwardTypeOK
<1>18. CASE PublishReplaces
  BY <1>18 DEF PublishReplaces,
         SafetyInv, OneActive, Untouched, WroteBegun, GuardOfActive, GuardAdmitted, ActiveKeepsStaging,
         GuardedFromFirstEffect, LeftoversHaveAnOwner, WriterStands, ForwardTypeOK
<1>19. CASE PublishConfirms
  BY <1>19 DEF PublishConfirms,
         SafetyInv, OneActive, Untouched, WroteBegun, GuardOfActive, GuardAdmitted, ActiveKeepsStaging,
         GuardedFromFirstEffect, LeftoversHaveAnOwner, WriterStands, ForwardTypeOK
<1>20. CASE ClearStaging
  BY <1>20 DEF ClearStaging, NotMine, MayClear, NoStaging,
         SafetyInv, OneActive, Untouched, WroteBegun, GuardOfActive, GuardAdmitted, ActiveKeepsStaging,
         GuardedFromFirstEffect, LeftoversHaveAnOwner, WriterStands, ForwardTypeOK
<1>21. CASE ClearGuard
  BY <1>21 DEF ClearGuard,
         SafetyInv, OneActive, Untouched, WroteBegun, GuardOfActive, GuardAdmitted, ActiveKeepsStaging,
         GuardedFromFirstEffect, LeftoversHaveAnOwner, WriterStands, ForwardTypeOK
<1>22. CASE Return \/ Interrupt
  BY <1>22 DEF Return, Interrupt,
         SafetyInv, OneActive, Untouched, WroteBegun, GuardOfActive, GuardAdmitted, ActiveKeepsStaging,
         GuardedFromFirstEffect, LeftoversHaveAnOwner, WriterStands, ForwardTypeOK
<1>23. CASE UserEdit
  BY <1>23 DEF UserEdit,
         SafetyInv, OneActive, Untouched, WroteBegun, GuardOfActive, GuardAdmitted, ActiveKeepsStaging,
         GuardedFromFirstEffect, LeftoversHaveAnOwner, WriterStands, ForwardTypeOK
<1>24. CASE UNCHANGED vars
  BY <1>24 DEF vars,
         SafetyInv, OneActive, Untouched, WroteBegun, GuardOfActive, GuardAdmitted, ActiveKeepsStaging,
         GuardedFromFirstEffect, LeftoversHaveAnOwner, WriterStands, ForwardTypeOK
<1> QED
  BY <1>1, <1>2, <1>3, <1>4, <1>5, <1>6, <1>7, <1>8, <1>9, <1>10, <1>11, <1>12, <1>13, <1>14, <1>15, <1>16, <1>17, <1>18, <1>19, <1>20, <1>21, <1>22, <1>23, <1>24
  DEF ForwardNext, Request, Proceed

LEMMA SafetyInvariant == ForwardSpec => [](ForwardTypeOK /\ SafetyInv)
<1>1. ForwardTypeOK /\ SafetyInv /\ [ForwardNext]_vars => (ForwardTypeOK /\ SafetyInv)'
  BY TypeStep, SafetyStep
<1> QED BY TypeInit, SafetyInit, <1>1, PTL DEF ForwardSpec

(* A cancelled operation changed no file (cancel, store.cancel). *)
THEOREM CancelledIsHarmless == ForwardSpec => []CancelledChangedNothing
<1>1. SafetyInv => CancelledChangedNothing
  BY DEF SafetyInv, WroteBegun, CancelledChangedNothing
<1> QED BY <1>1, SafetyInvariant, PTL

(* The guard covers every file effect up to the recorded outcome (staging). *)
THEOREM GuardCovers == ForwardSpec => []GuardedFromFirstEffect
<1>1. SafetyInv => GuardedFromFirstEffect
  BY DEF SafetyInv
<1> QED BY <1>1, SafetyInvariant, PTL

(* No replay of a historical operation takes away the directory of an active
   one (clear_completed). *)
THEOREM StagingIsKept == ForwardSpec => []ActiveKeepsStaging
<1>1. SafetyInv => ActiveKeepsStaging
  BY DEF SafetyInv
<1> QED BY <1>1, SafetyInvariant, PTL

(* What remains of a finished operation can be cleared by its own replay. *)
THEOREM LeftoversCanBeCleared == ForwardSpec => []LeftoversHaveAnOwner
<1>1. SafetyInv => LeftoversHaveAnOwner
  BY DEF SafetyInv
<1> QED BY <1>1, SafetyInvariant, PTL

-----------------------------------------------------------------------------
(* What an operation recorded as done has published. *)

Covers(o, paths) == \A f \in paths : f \in landed[o]

RowsKept == \A o \in Op :
    /\ phase[o] \in Active => \A f \in ChangesOf[o] : rows[o][f] # NoRow
    /\ phase[o] = "finishing" => \A f \in MetaOf[o] : rows[o][f] # NoRow

LandedSeen == \A o \in Op, f \in File :
    phase[o] \in Active /\ file[f] = After(o, f) => f \in landed[o]

CompletingLanded ==
    writer.at \in {"open", "bind", "guard", "hang", "opened"} /\ writer.cmd = "complete"
       => Covers(writer.op, ChangesOf[writer.op]) /\ Covers(writer.op, MetaOf[writer.op])

DoneLanded == \A o \in Op :
    phase[o] = "done" => Covers(o, ChangesOf[o]) /\ Covers(o, MetaOf[o])

PublishedInv == RowsKept /\ LandedSeen /\ CompletingLanded /\ DoneLanded

LEMMA LandedGrows ==
    ASSUME ForwardTypeOK, NEW files, NEW phases, landed' = LandedWith(files, phases)
    PROVE  /\ \A o \in Op, f \in File : f \in landed[o] => f \in landed'[o]
           /\ \A o \in Op, f \in File :
                 phases[o] \in Active /\ files[f] = After(o, f) => f \in landed'[o]
BY DEF LandedWith, ForwardTypeOK

LEMMA ObservedRows ==
    ASSUME ForwardTypeOK, NEW o \in Op, NEW paths \in SUBSET File, rows' = Observed(o, paths)
    PROVE  /\ \A f \in paths : rows'[o][f] # NoRow
           /\ \A f \in File : rows[o][f] # NoRow => rows'[o][f] # NoRow
           /\ \A p \in Op \ {o} : rows'[p] = rows[p]
<1> DEFINE r == [f \in File |-> IF f \in paths THEN file[f] ELSE rows[o][f]]
<1>1. rows' = [rows EXCEPT ![o] = r]
  BY DEF Observed, ForwardTypeOK
<1>2. \A f \in File : file[f] # NoRow
  BY ForwardAssumption DEF ForwardTypeOK, Content
<1>3. rows'[o] = r /\ \A p \in Op \ {o} : rows'[p] = rows[p]
  BY <1>1 DEF ForwardTypeOK
<1> QED BY <1>2, <1>3

LEMMA PublishedInit == ForwardInit => PublishedInv
BY IdleTyped DEF ForwardInit, PublishedInv, RowsKept, LandedSeen, CompletingLanded, DoneLanded, Active

LEMMA PublishedStep ==
    /\ ForwardTypeOK /\ ForwardTypeOK' /\ SafetyInv /\ PublishedInv /\ [ForwardNext]_vars
    => PublishedInv'
<1> SUFFICES ASSUME ForwardTypeOK, ForwardTypeOK', SafetyInv, PublishedInv, [ForwardNext]_vars
             PROVE  PublishedInv'
  OBVIOUS
<1> USE ForwardAssumption, IdleTyped
    DEF WriterIsAt, Goto, Returns, KeepsHistory, durable, Active, Terminal, PublishedInv, Covers
<1>1. ASSUME NEW o \in Op, NEW first \in {"prepared", "applying"}, Admit(o, first)
      PROVE  PublishedInv'
  <2>1. \/ first = "prepared" /\ writer'.cmd = "prepare"
        \/ writer'.at = "idle"
    BY <1>1, AtTyped DEF Admit, Command, Place
  <2>2. /\ \A f \in ChangesOf[o] : rows'[o][f] # NoRow
        /\ \A p \in Op \ {o} : rows'[p] = rows[p]
    BY <1>1, ObservedRows DEF Admit
  <2>3. /\ \A p \in Op, f \in File : f \in landed[p] => f \in landed'[p]
        /\ \A p \in Op, f \in File :
              phase'[p] \in Active /\ file[f] = After(p, f) => f \in landed'[p]
    BY <1>1, LandedGrows DEF Admit
  <2>4. \A p \in Op \ {o} : phase'[p] = phase[p]
    BY <1>1 DEF Admit, ForwardTypeOK
  <2>5. phase'[o] = first
    BY <1>1 DEF Admit, ForwardTypeOK
  <2>6. RowsKept'
    BY <2>2, <2>4, <2>5 DEF RowsKept
  <2>7. LandedSeen'
    BY <1>1, <2>3 DEF LandedSeen, Admit, After
  <2>8. DoneLanded'
    BY <2>3, <2>4, <2>5 DEF DoneLanded
  <2> QED BY <2>1, <2>6, <2>7, <2>8 DEF CompletingLanded
<1>2. ASSUME NEW o \in Op, NEW cmd \in {"prepare", "start", "apply", "complete"}, Resume(o, cmd)
      PROVE  PublishedInv'
  <2>1. writer'.op = o /\ writer'.at = "open" /\ writer'.cmd = cmd
    BY <1>2, AtTyped DEF Resume, Command, Place
  <2>2. CASE cmd # "complete"
    BY <1>2, <2>1, <2>2 DEF Resume, RowsKept, LandedSeen, CompletingLanded, DoneLanded, After
  <2>3. CASE cmd = "complete"
    <3>1. phase[o] = "finishing" /\ \A f \in Rows(o) : file[f] = After(o, f)
      BY <1>2, <2>3 DEF Resume, Verified
    <3>2. \A f \in Rows(o) : f \in landed[o]
      BY <3>1 DEF LandedSeen, Rows
    <3>3. /\ \A f \in ChangesOf[o] : f \in Rows(o)
          /\ \A f \in MetaOf[o] : f \in Rows(o)
      BY <3>1 DEF RowsKept, Rows
    <3> QED BY <1>2, <2>1, <3>2, <3>3
            DEF Resume, RowsKept, LandedSeen, CompletingLanded, DoneLanded, After
  <2> QED BY <2>2, <2>3
<1>3. ASSUME NEW o \in Op, CancelPrepared(o) \/ Replay(o) PROVE PublishedInv'
  <2>1. writer'.cmd # "complete"
    BY <1>3, AtTyped DEF CancelPrepared, Replay, Command, Place
  <2> QED BY <1>3, <2>1 DEF CancelPrepared, Replay, RowsKept, LandedSeen, CompletingLanded, DoneLanded, After
<1>4. ASSUME NEW o \in Op, CancelAtOnce(o) PROVE PublishedInv'
  <2>1. writer'.cmd # "complete"
    BY <1>4, AtTyped DEF CancelAtOnce, Command, Place
  <2> QED BY <1>4, <2>1 DEF CancelAtOnce, Retired, ForwardTypeOK,
             RowsKept, LandedSeen, CompletingLanded, DoneLanded, After
<1>5. ASSUME NEW o \in Op, Finish(o) PROVE PublishedInv'
  <2>1. /\ \A f \in MetaOf[o] : rows'[o][f] # NoRow
        /\ \A f \in File : rows[o][f] # NoRow => rows'[o][f] # NoRow
        /\ \A p \in Op \ {o} : rows'[p] = rows[p]
    BY <1>5, ObservedRows DEF Finish
  <2>2. RowsKept'
    BY <1>5, <2>1 DEF Finish, RowsKept, ForwardTypeOK
  <2> QED BY <1>5, <2>2 DEF Finish, ForwardTypeOK, LandedSeen, CompletingLanded, DoneLanded, After
<1>6. CASE Open
  BY <1>6 DEF Open, ForwardTypeOK, RowsKept, LandedSeen, CompletingLanded, DoneLanded, After
<1>7. CASE Bind
  BY <1>7 DEF Bind, ForwardTypeOK, RowsKept, LandedSeen, CompletingLanded, DoneLanded, After
<1>8. CASE StageGuard
  BY <1>8 DEF StageGuard, ForwardTypeOK, RowsKept, LandedSeen, CompletingLanded, DoneLanded, After
<1>17. CASE HangGuard
  BY <1>17 DEF HangGuard, ForwardTypeOK, RowsKept, LandedSeen, CompletingLanded, DoneLanded, After
<1>9. CASE StartApplies
  BY <1>9 DEF StartApplies, ForwardTypeOK, SafetyInv, WriterStands, Holding, PhasesFor,
              RowsKept, LandedSeen, CompletingLanded, DoneLanded, After
<1>10. CASE CancelRetires
  BY <1>10 DEF CancelRetires, Retired, ForwardTypeOK,
              RowsKept, LandedSeen, CompletingLanded, DoneLanded, After
<1>11. CASE CompleteRetires
  BY <1>11 DEF CompleteRetires, Retired, ForwardTypeOK,
              RowsKept, LandedSeen, CompletingLanded, DoneLanded, After
<1>12. CASE ApplyBegins \/ PublishSkips \/ PublishStages \/ PublishChecks \/ PublishConfirms
  <2>1. writer'.at \in {"publish", "staged", "swap", "swapped"}
    <3>1. CASE ApplyBegins
      BY <3>1 DEF ApplyBegins, ForwardTypeOK
    <3>2. CASE PublishSkips
      BY <3>2 DEF PublishSkips, ForwardTypeOK
    <3>3. CASE PublishStages
      BY <3>3 DEF PublishStages, ForwardTypeOK
    <3>4. CASE PublishChecks \/ PublishConfirms
      BY <3>4 DEF PublishChecks, PublishConfirms, ForwardTypeOK
    <3> QED BY <1>12, <3>1, <3>2, <3>3, <3>4
  <2>2. UNCHANGED <<phase, rows, file, landed>>
    BY <1>12 DEF ApplyBegins, PublishSkips, PublishStages, PublishChecks, PublishConfirms
  <2> QED BY <2>1, <2>2 DEF RowsKept, LandedSeen, CompletingLanded, DoneLanded, After
<1>13. CASE PublishReplaces
  <2>1. /\ \A o \in Op, f \in File : f \in landed[o] => f \in landed'[o]
        /\ \A o \in Op, f \in File :
              phase[o] \in Active /\ file'[f] = After(o, f) => f \in landed'[o]
    BY <1>13, LandedGrows DEF PublishReplaces
  <2>2. writer'.at = "swapped" /\ UNCHANGED <<phase, rows>>
    BY <1>13 DEF PublishReplaces, ForwardTypeOK
  <2> QED BY <2>1, <2>2 DEF RowsKept, LandedSeen, CompletingLanded, DoneLanded, After
<1>14. CASE ClearStaging \/ ClearGuard \/ Return \/ Interrupt
  BY <1>14 DEF ClearStaging, ClearGuard, Return, Interrupt, ForwardTypeOK,
              RowsKept, LandedSeen, CompletingLanded, DoneLanded, After
<1>15. CASE UserEdit
  <2>1. /\ \A o \in Op, f \in File : f \in landed[o] => f \in landed'[o]
        /\ \A o \in Op, f \in File :
              phase[o] \in Active /\ file'[f] = After(o, f) => f \in landed'[o]
    BY <1>15, LandedGrows DEF UserEdit
  <2>2. UNCHANGED <<phase, rows, writer>>
    BY <1>15 DEF UserEdit
  <2> QED BY <2>1, <2>2 DEF ForwardTypeOK, RowsKept, LandedSeen, CompletingLanded, DoneLanded, After
<1>16. CASE UNCHANGED vars
  BY <1>16 DEF vars, RowsKept, LandedSeen, CompletingLanded, DoneLanded, After
<1> QED
  BY <1>1, <1>2, <1>3, <1>4, <1>5, <1>6, <1>7, <1>8, <1>9, <1>10, <1>11, <1>12, <1>13,
     <1>14, <1>15, <1>16, <1>17
  DEF ForwardNext, Request, Proceed

(* An operation is recorded as done only if every path of it held its desired
   content while it was active (apply, verify, finish, complete). *)
THEOREM DoneIsTrue == ForwardSpec => []DoneWasPublished
<1>1. ForwardTypeOK /\ SafetyInv /\ PublishedInv /\ [ForwardNext]_vars
         => (ForwardTypeOK /\ SafetyInv /\ PublishedInv)'
  BY TypeStep, SafetyStep, PublishedStep
<1>2. PublishedInv => DoneWasPublished
  BY DEF PublishedInv, DoneLanded, Covers, DoneWasPublished
<1> QED BY TypeInit, SafetyInit, PublishedInit, <1>1, <1>2, PTL DEF ForwardSpec

-----------------------------------------------------------------------------
(* What a publication replaces. *)

CheckedAtSwap ==
    writer.at = "swap" /\ ~late => file[writer.path] = rows[writer.op][writer.path]

LEMMA CheckedStep ==
    ForwardTypeOK /\ CheckedAtSwap /\ [ForwardNext]_vars => CheckedAtSwap'
<1> SUFFICES ASSUME ForwardTypeOK, CheckedAtSwap, [ForwardNext]_vars PROVE CheckedAtSwap'
  OBVIOUS
<1> USE IdleTyped DEF WriterIsAt, Goto, Returns, KeepsHistory, durable, CheckedAtSwap
<1>1. ASSUME NEW o \in Op, Request(o) PROVE CheckedAtSwap'
  <2>1. writer'.at # "swap"
    BY <1>1, AtTyped DEF Request, Admit, Resume, CancelPrepared, CancelAtOnce, Finish, Replay,
                         Command, Place
  <2> QED BY <2>1
<1>2. CASE PublishChecks
  BY <1>2 DEF PublishChecks, MayReplace, ForwardTypeOK
<1>3. CASE UserEdit
  <2>1. PICK f \in File, c \in Content :
           /\ file' = [file EXCEPT ![f] = c]
           /\ late' = (late \/ (writer.at = "swap" /\ writer.path = f))
    BY <1>3 DEF UserEdit
  <2>2. UNCHANGED <<writer, rows>>
    BY <1>3 DEF UserEdit
  <2>3. CASE writer.at = "swap" /\ writer.path = f
    BY <2>1, <2>3
  <2>4. CASE writer.at # "swap"
    BY <2>2, <2>4
  <2>5. CASE writer.path # f
    <3>1. ~late' => ~late
      BY <2>1
    <3>2. file'[writer.path] = file[writer.path]
      BY <2>1, <2>5 DEF ForwardTypeOK
    <3> QED BY <2>2, <3>1, <3>2
  <2> QED BY <2>3, <2>4, <2>5
<1>4. CASE Open \/ Bind \/ StageGuard \/ HangGuard
  BY <1>4 DEF Open, Bind, StageGuard, HangGuard, ForwardTypeOK
<1>5. CASE StartApplies \/ CancelRetires \/ CompleteRetires \/ ApplyBegins
  BY <1>5 DEF StartApplies, CancelRetires, CompleteRetires, ApplyBegins, ForwardTypeOK
<1>6. CASE PublishSkips
  BY <1>6 DEF PublishSkips, ForwardTypeOK
<1>7. CASE PublishStages
  BY <1>7 DEF PublishStages, ForwardTypeOK
<1>8. CASE PublishReplaces \/ PublishConfirms
  BY <1>8 DEF PublishReplaces, PublishConfirms, ForwardTypeOK
<1>9. CASE ClearStaging \/ ClearGuard \/ Return \/ Interrupt
  BY <1>9 DEF ClearStaging, ClearGuard, Return, Interrupt, ForwardTypeOK
<1>10. CASE UNCHANGED vars
  BY <1>10 DEF vars
<1> QED BY <1>1, <1>2, <1>3, <1>4, <1>5, <1>6, <1>7, <1>8, <1>9, <1>10 DEF ForwardNext, Proceed

(* Only observed content is ever replaced, apart from what a user writes in the
   moment between the last read and the rename (files::publish). *)
THEOREM OnlyObservedIsReplaced == ForwardSpec => ReplacesOnlyObserved
<1>1. ForwardInit => CheckedAtSwap
  BY IdleTyped DEF ForwardInit, CheckedAtSwap
<1>2. ForwardTypeOK /\ CheckedAtSwap /\ [ForwardNext]_vars =>
        [\A f \in File :
            file'[f] # file[f] /\ edits' = edits /\ ~late => file[f] = rows[writer.op][f]]_vars
  <2> SUFFICES ASSUME ForwardTypeOK, CheckedAtSwap, ForwardNext, NEW f \in File,
                      file'[f] # file[f], edits' = edits, ~late
               PROVE  file[f] = rows[writer.op][f]
    BY DEF vars
  <2>1. ~UserEdit
    BY ForwardAssumption DEF UserEdit, ForwardTypeOK
  <2>2. PublishReplaces
    BY <2>1 DEF ForwardNext, Request, Proceed, Admit, Resume, CancelPrepared, CancelAtOnce, Finish,
           Replay, Open, Bind, StageGuard, HangGuard, StartApplies, CancelRetires,
           CompleteRetires, ApplyBegins, PublishSkips, PublishStages, PublishChecks,
           PublishConfirms, ClearStaging, ClearGuard, Return, Interrupt, durable
  <2> QED BY <2>2 DEF PublishReplaces, CheckedAtSwap, WriterIsAt, ForwardTypeOK
<1> QED BY TypeInit, TypeStep, CheckedStep, <1>1, <1>2, PTL DEF ForwardSpec, ReplacesOnlyObserved

-----------------------------------------------------------------------------
(* The transaction keeps the promise of InstallPromise: every step is one of
   its steps, or changes neither a status nor what was published. *)

StatusMap == [o \in Op |-> StatusOf(o)]

LEMMA StatusStays ==
    ASSUME NEW o \in Op, phase'[o] = phase[o], stage'[o] = stage[o]
    PROVE  StatusOf(o)' = StatusOf(o)
BY DEF StatusOf

LEMMA StatusMoves ==
    ASSUME NEW o \in Op, NEW to, StatusOf(o)' = to,
           \A p \in Op \ {o} : phase'[p] = phase[p] /\ stage'[p] = stage[p]
    PROVE  StatusMap' = [StatusMap EXCEPT ![o] = to]
<1>1. \A p \in Op \ {o} : StatusOf(p)' = StatusOf(p)
  BY StatusStays
<1> QED BY <1>1 DEF StatusMap

LEMMA PromiseStep ==
    ForwardTypeOK /\ SafetyInv /\ [ForwardNext]_vars => [Promise!PromiseNext]_(Promise!promiseVars)
<1> SUFFICES ASSUME ForwardTypeOK, SafetyInv, [ForwardNext]_vars
             PROVE  Promise!PromiseNext \/ (StatusMap' = StatusMap /\ wrote' = wrote)
  BY DEF Promise!promiseVars, StatusMap
<1> USE DEF WriterIsAt, Goto, Returns, KeepsHistory, durable
<1>1. ASSUME NEW o \in Op, NEW first \in {"prepared", "applying"}, Admit(o, first)
      PROVE  Promise!PromiseAdmits(o)
  <2>1. \A p \in Op : StatusOf(p) \notin {"pending", "started"}
    <3> SUFFICES ASSUME NEW p \in Op PROVE StatusOf(p) \notin {"pending", "started"}
      OBVIOUS
    <3>1. phase[p] \in {"absent", "cancelled", "done"}
      BY <1>1 DEF Admit, NoneActive, Active, Terminal, ForwardTypeOK
    <3> QED BY <3>1 DEF StatusOf
  <2>2. StatusOf(o) = "absent"
    BY <1>1 DEF Admit, StatusOf
  <2>3. StatusOf(o)' = "pending"
    BY <1>1 DEF Admit, StatusOf, SafetyInv, Untouched, ForwardTypeOK
  <2>4. StatusMap' = [StatusMap EXCEPT ![o] = "pending"]
    BY <1>1, <2>3, StatusMoves DEF Admit, ForwardTypeOK
  <2> QED BY <1>1, <2>1, <2>2, <2>4
      DEF Admit, Promise!PromiseAdmits, Promise!Moves, Promise!Unfinished, StatusMap
<1>2. ASSUME NEW o \in Op, CancelAtOnce(o) PROVE Promise!PromiseCancels(o)
  <2>1. StatusOf(o) \in {"absent", "pending"}
    BY <1>2 DEF CancelAtOnce, CancelUnbegun, StatusOf
  <2>2. StatusOf(o)' = "cancelled"
    BY <1>2 DEF CancelAtOnce, StatusOf, ForwardTypeOK
  <2>3. StatusMap' = [StatusMap EXCEPT ![o] = "cancelled"]
    BY <1>2, <2>2, StatusMoves DEF CancelAtOnce, ForwardTypeOK
  <2> QED BY <1>2, <2>1, <2>3 DEF CancelAtOnce, Promise!PromiseCancels, Promise!Moves, StatusMap
<1>3. ASSUME NEW o \in Op, Finish(o) PROVE StatusMap' = StatusMap /\ wrote' = wrote
  <2>1. StatusOf(o)' = StatusOf(o)
    BY <1>3 DEF Finish, StatusOf, ForwardTypeOK
  <2>2. \A p \in Op \ {o} : StatusOf(p)' = StatusOf(p)
    BY <1>3, StatusStays DEF Finish, ForwardTypeOK
  <2> QED BY <1>3, <2>1, <2>2 DEF Finish, StatusMap
<1>4. CASE Bind
  <2> DEFINE o == writer.op
  <2>0. o \in Op
    BY <1>4 DEF Bind, ForwardTypeOK
  <2>1. CASE phase[o] = "applying" /\ stage[o] = NoDir
    <3>1. staging.dir # NoDir
      BY <1>4 DEF Bind, SafetyInv, WriterStands
    <3>2. StatusOf(o) = "pending"
      BY <2>1 DEF StatusOf
    <3>3. StatusOf(o)' = "started"
      BY <1>4, <2>0, <2>1, <3>1 DEF Bind, StatusOf, ForwardTypeOK
    <3>4. StatusMap' = [StatusMap EXCEPT ![o] = "started"]
      BY <1>4, <2>0, <3>3, StatusMoves DEF Bind, ForwardTypeOK
    <3>5. Promise!PromiseStarts(o)
      BY <1>4, <2>0, <3>2, <3>4 DEF Bind, Promise!PromiseStarts, Promise!Moves, StatusMap
    <3> QED BY <2>0, <3>5 DEF Promise!PromiseNext
  <2>2. CASE ~(phase[o] = "applying" /\ stage[o] = NoDir)
    <3>1. StatusOf(o)' = StatusOf(o)
      BY <1>4, <2>0, <2>2 DEF Bind, MayBind, StatusOf, ForwardTypeOK
    <3>2. \A p \in Op \ {o} : StatusOf(p)' = StatusOf(p)
      BY <1>4, StatusStays DEF Bind, ForwardTypeOK
    <3> QED BY <1>4, <3>1, <3>2 DEF Bind, StatusMap
  <2> QED BY <2>1, <2>2
<1>5. CASE StartApplies
  <2>0. PICK o \in Op : o = writer.op
    BY <1>5 DEF StartApplies, ForwardTypeOK
  <2>1. phase[o] = "prepared" /\ stage[o] # NoDir
    BY <1>5, <2>0 DEF StartApplies, ForwardTypeOK, SafetyInv, WriterStands, Holding, PhasesFor
  <2>2. StatusOf(o) = "pending"
    BY <2>1 DEF StatusOf
  <2>3. StatusOf(o)' = "started"
    BY <1>5, <2>0, <2>1 DEF StartApplies, StatusOf, ForwardTypeOK
  <2>4. StatusMap' = [StatusMap EXCEPT ![o] = "started"]
    BY <1>5, <2>0, <2>1, <2>3, StatusMoves DEF StartApplies, ForwardTypeOK
  <2>5. Promise!PromiseStarts(o)
    BY <1>5, <2>0, <2>1, <2>2, <2>4 DEF StartApplies, Promise!PromiseStarts, Promise!Moves, StatusMap
  <2> QED BY <2>5 DEF Promise!PromiseNext
<1>6. CASE CancelRetires
  <2> DEFINE o == writer.op
  <2>1. o \in Op /\ phase[o] = "prepared"
    BY <1>6 DEF CancelRetires, ForwardTypeOK, SafetyInv, WriterStands, Holding, PhasesFor
  <2>2. StatusOf(o) = "pending"
    BY <2>1 DEF StatusOf
  <2>3. StatusOf(o)' = "cancelled"
    BY <1>6, <2>1 DEF CancelRetires, StatusOf, ForwardTypeOK
  <2>4. StatusMap' = [StatusMap EXCEPT ![o] = "cancelled"]
    BY <1>6, <2>1, <2>3, StatusMoves DEF CancelRetires, ForwardTypeOK
  <2>5. Promise!PromiseCancels(o)
    BY <1>6, <2>1, <2>2, <2>4 DEF CancelRetires, Promise!PromiseCancels, Promise!Moves, StatusMap
  <2> QED BY <2>1, <2>5 DEF Promise!PromiseNext
<1>7. CASE CompleteRetires
  <2> DEFINE o == writer.op
  <2>1. o \in Op /\ phase[o] = "finishing"
    BY <1>7 DEF CompleteRetires, ForwardTypeOK, SafetyInv, WriterStands, Holding, PhasesFor
  <2>2. StatusOf(o) = "started"
    BY <2>1 DEF StatusOf
  <2>3. StatusOf(o)' = "done"
    BY <1>7, <2>1 DEF CompleteRetires, StatusOf, ForwardTypeOK
  <2>4. StatusMap' = [StatusMap EXCEPT ![o] = "done"]
    BY <1>7, <2>1, <2>3, StatusMoves DEF CompleteRetires, ForwardTypeOK
  <2>5. Promise!PromiseCompletes(o)
    BY <1>7, <2>1, <2>2, <2>4 DEF CompleteRetires, Promise!PromiseCompletes, Promise!Moves, StatusMap
  <2> QED BY <2>1, <2>5 DEF Promise!PromiseNext
<1>8. CASE PublishReplaces
  <2> DEFINE o == writer.op
  <2>1. o \in Op /\ phase[o] \in {"applying", "finishing"} /\ stage[o] # NoDir
    BY <1>8 DEF PublishReplaces, ForwardTypeOK, SafetyInv, WriterStands, Holding, Publishing, PhasesFor
  <2>2. StatusOf(o) = "started"
    BY <2>1 DEF StatusOf
  <2>3. StatusMap' = StatusMap
    BY <1>8, StatusStays DEF PublishReplaces, StatusMap
  <2>4. Promise!PromisePublishes(o)
    BY <1>8, <2>1, <2>2, <2>3 DEF PublishReplaces, Promise!PromisePublishes, StatusMap
  <2> QED BY <2>1, <2>4 DEF Promise!PromiseNext
<1>9. CASE UNCHANGED <<phase, stage, wrote>>
  BY <1>9, StatusStays DEF StatusMap
<1>10. ASSUME NEW o \in Op,
              (\E cmd \in {"prepare", "start", "apply", "complete"} : Resume(o, cmd))
                 \/ CancelPrepared(o) \/ Replay(o)
       PROVE  UNCHANGED <<phase, stage, wrote>>
  BY <1>10 DEF Resume, CancelPrepared, Replay
<1>11. ASSUME Open \/ StageGuard \/ HangGuard \/ ApplyBegins \/ PublishSkips \/ PublishStages
                 \/ PublishChecks \/ PublishConfirms \/ ClearStaging \/ ClearGuard
                 \/ Return \/ Interrupt \/ UserEdit \/ UNCHANGED vars
       PROVE  UNCHANGED <<phase, stage, wrote>>
  BY <1>11 DEF Open, StageGuard, HangGuard, ApplyBegins, PublishSkips, PublishStages, PublishChecks,
       PublishConfirms, ClearStaging, ClearGuard, Return, Interrupt, UserEdit, vars
<1> QED BY <1>1, <1>2, <1>3, <1>4, <1>5, <1>6, <1>7, <1>8, <1>9, <1>10, <1>11
    DEF ForwardNext, Request, Proceed, Promise!PromiseNext

(* The transaction implements the promise its callers build on (Progress). *)
THEOREM ImplementsPromise == ForwardSpec => KeepsPromise
<1>1. ForwardInit => Promise!PromiseInit
  BY DEF ForwardInit, Promise!PromiseInit, StatusOf
<1> QED BY SafetyInvariant, PromiseStep, <1>1, PTL DEF ForwardSpec, KeepsPromise, Promise!PromiseSpec
=============================================================================
