--------------------------- MODULE NativePlanProofs ---------------------------
(* Proofs about NativePlan for any plans and roots, and any number of edits
   and interruptions. *)
EXTENDS NativePlan, TLAPS

-----------------------------------------------------------------------------
(* Types. *)

LEMMA PlanTypeInit == PlanInit => PlanTypeOK
<1> SUFFICES ASSUME PlanInit PROVE PlanTypeOK
  OBVIOUS
<1> USE DEF PlanInit, Content, Phase, Intent, Begun, Step, NoCommand
<1>1. /\ custody \in [Plan -> Phase]
      /\ intent \in [Plan -> Intent]
      /\ child \in [Root -> [Plan -> Phase]]
  OBVIOUS
<1>2. before \in [Plan -> [Root -> Content \cup {NoContent}]] /\ file \in [Root -> Content]
  OBVIOUS
<1>3. /\ command \in [plan : Plan \cup {NoPlan}, at : Step, todo : SUBSET Root]
      /\ command.at # "idle" <=> command.plan \in Plan
  BY PlanAssumption
<1>4. applied \in [Plan -> SUBSET Root] /\ published \in [Root -> SUBSET Plan]
  OBVIOUS
<1>5. edits \in 0..MaxEdits
  BY PlanAssumption
<1> QED BY <1>1, <1>2, <1>3, <1>4, <1>5 DEF PlanTypeOK

(* The functions that each step updates at one plan, or at one root of it. *)
LEMMA MovesTyped ==
    ASSUME PlanTypeOK, NEW p \in Plan, NEW r \in Root, NEW to \in Phase, NEW it \in Intent
    PROVE  /\ CustodyMoves(p, to) => custody' \in [Plan -> Phase]
           /\ IntentMoves(p, it) => intent' \in [Plan -> Intent]
           /\ ChildMoves(r, p, to) => child' \in [Root -> [Plan -> Phase]]
           /\ Publishes(p, r) => /\ file' \in [Root -> Content]
                                 /\ published' \in [Root -> SUBSET Plan]
<1>1. ChildMoves(r, p, to) => child' \in [Root -> [Plan -> Phase]]
  <2> DEFINE c == [child[r] EXCEPT ![p] = to]
  <2>1. c \in [Plan -> Phase]
    BY DEF PlanTypeOK
  <2>2. ChildMoves(r, p, to) => child' = [child EXCEPT ![r] = c]
    BY DEF ChildMoves, PlanTypeOK
  <2> HIDE DEF c
  <2> QED BY <2>1, <2>2 DEF PlanTypeOK
<1>2. Publishes(p, r) => file' \in [Root -> Content] /\ published' \in [Root -> SUBSET Plan]
  BY DEF Publishes, PlanTypeOK, Content
<1> QED BY <1>1, <1>2 DEF CustodyMoves, IntentMoves, PlanTypeOK

CommandOK == /\ command \in [plan : Plan \cup {NoPlan}, at : Step, todo : SUBSET Root]
             /\ command.at # "idle" <=> command.plan \in Plan

LEMMA CommandTyped ==
    ASSUME PlanTypeOK, NEW p \in Plan, NEW r, NEW at \in Step \ {"idle"}
    PROVE  /\ Begins(p, at) => CommandOK'
           /\ command.plan \in Plan /\ Goes(at) => CommandOK'
           /\ command.plan \in Plan /\ Visited(r) => CommandOK'
           /\ Returns => CommandOK'
<1>1. \A q \in Plan : RootsOf[q] \in SUBSET Root
  BY PlanAssumption
<1>2. Begins(p, at) => CommandOK'
  BY <1>1 DEF Begins, CommandOK
<1>3. command.plan \in Plan /\ Goes(at) => CommandOK'
  BY <1>1 DEF Goes, CommandOK, PlanTypeOK
<1>4. command.plan \in Plan /\ Visited(r) => CommandOK'
  <2> SUFFICES ASSUME command.plan \in Plan, Visited(r) PROVE CommandOK'
    OBVIOUS
  <2>1. command.todo \ {r} \in SUBSET Root
    BY DEF PlanTypeOK
  <2>2. command' = [command EXCEPT !.todo = command.todo \ {r}]
    BY DEF Visited
  <2> QED BY <2>1, <2>2 DEF CommandOK, PlanTypeOK
<1>5. Returns => CommandOK'
  BY PlanAssumption DEF Returns, NoCommand, CommandOK, Step
<1> QED BY <1>2, <1>3, <1>4, <1>5

LEMMA PlanTypeStep == PlanTypeOK /\ [PlanNext]_planVars => PlanTypeOK'
<1> SUFFICES ASSUME PlanTypeOK, [PlanNext]_planVars PROVE PlanTypeOK'
  OBVIOUS
<1> DEFINE p == command.plan
<1> USE DEF CommandAt, stores, CommandOK
<1>0. /\ \A at \in Step \ {"idle"} : CommandAt(at) => p \in Plan
      /\ \A r \in command.todo : r \in Root
  BY DEF PlanTypeOK
<1>1. ASSUME NEW q \in Plan, PreparePlan(q) PROVE PlanTypeOK'
  <2>1. before' \in [Plan -> [Root -> Content \cup {NoContent}]]
    <3> DEFINE b == [r \in Root |-> IF r \in RootsOf[q] THEN file[r] ELSE NoContent]
    <3>1. b \in [Root -> Content \cup {NoContent}]
      BY DEF PlanTypeOK
    <3>2. before' = before \/ before' = [before EXCEPT ![q] = b]
      BY <1>1 DEF PreparePlan
    <3> HIDE DEF b
    <3> QED BY <3>1, <3>2 DEF PlanTypeOK
  <2>2. custody' \in [Plan -> Phase]
    BY <1>1 DEF PreparePlan, CustodyMoves, PlanTypeOK, Phase, Begun
  <2>3. CommandOK'
    BY <1>1, CommandTyped DEF PreparePlan, Step
  <2> QED BY <1>1, <2>1, <2>2, <2>3 DEF PreparePlan, PlanTypeOK
<1>2. ASSUME NEW q \in Plan, CancelPlan(q) PROVE PlanTypeOK'
  <2>1. CommandOK'
    BY <1>2, CommandTyped DEF CancelPlan, Step
  <2> QED BY <1>2, <2>1 DEF CancelPlan, PlanTypeOK
<1>3. ASSUME NEW q \in Plan, ApplyPlan(q) PROVE PlanTypeOK'
  <2>1. CommandOK'
    BY <1>3, CommandTyped DEF ApplyPlan, Step
  <2> QED BY <1>3, <2>1 DEF ApplyPlan, PlanTypeOK
<1>4. ASSUME NEW q \in Plan, ConfirmSession(q) PROVE PlanTypeOK'
  BY <1>4 DEF ConfirmSession, IntentMoves, PlanTypeOK, Intent
<1>5. CASE AdmitIntent
  <2>1. p \in Plan
    BY <1>0, <1>5 DEF AdmitIntent, Step
  <2>2. intent' \in [Plan -> Intent] /\ CommandOK'
    BY <1>5, <2>1, CommandTyped DEF AdmitIntent, IntentMoves, PlanTypeOK, Intent, Step
  <2> QED BY <1>5, <2>2 DEF AdmitIntent, PlanTypeOK
<1>6. CASE PrepareRoot
  <2>1. p \in Plan
    BY <1>0, <1>6 DEF PrepareRoot, Step
  <2>2. PICK r \in command.todo : (ChildMoves(r, p, "prepared") \/ UNCHANGED child) /\ Visited(r)
    BY <1>6 DEF PrepareRoot
  <2>3. child' \in [Root -> [Plan -> Phase]] /\ CommandOK'
    BY <1>0, <2>1, <2>2, MovesTyped, CommandTyped DEF PlanTypeOK, Phase, Begun, Intent, Step
  <2> QED BY <1>6, <2>3 DEF PrepareRoot, PlanTypeOK
<1>7. CASE CancelRoot
  <2>1. p \in Plan
    BY <1>0, <1>7 DEF CancelRoot, Step
  <2>2. PICK r \in command.todo : ChildMoves(r, p, "cancelled") /\ Visited(r)
    BY <1>7 DEF CancelRoot
  <2>3. child' \in [Root -> [Plan -> Phase]] /\ CommandOK'
    BY <1>0, <2>1, <2>2, MovesTyped, CommandTyped DEF PlanTypeOK, Phase, Intent, Step
  <2> QED BY <1>7, <2>3 DEF CancelRoot, PlanTypeOK
<1>8. CASE CancelIntent
  <2>1. p \in Plan
    BY <1>0, <1>8 DEF CancelIntent, Step
  <2>2. intent' \in [Plan -> Intent] /\ CommandOK'
    BY <1>8, <2>1, CommandTyped DEF CancelIntent, PlanTypeOK, Intent, Step
  <2> QED BY <1>8, <2>2 DEF CancelIntent, PlanTypeOK
<1>9. CASE CancelCustody
  <2>1. p \in Plan
    BY <1>0, <1>9 DEF CancelCustody, Step
  <2>2. custody' \in [Plan -> Phase] /\ CommandOK'
    BY <1>9, <2>1, CommandTyped DEF CancelCustody, CustodyMoves, PlanTypeOK, Phase, Step
  <2> QED BY <1>9, <2>2 DEF CancelCustody, PlanTypeOK
<1>10. CASE StartCustody
  <2>1. p \in Plan
    BY <1>0, <1>10 DEF StartCustody, Step
  <2>2. Started(custody[p]) \in Phase
    BY <2>1 DEF PlanTypeOK, Started, Phase, Begun
  <2>3. custody' \in [Plan -> Phase] /\ CommandOK'
    BY <1>10, <2>1, <2>2, CommandTyped DEF StartCustody, CustodyMoves, PlanTypeOK, Step
  <2> QED BY <1>10, <2>3 DEF StartCustody, PlanTypeOK
<1>11. CASE AnnounceApplying
  <2>1. p \in Plan
    BY <1>0, <1>11 DEF AnnounceApplying, Step
  <2>2. intent' \in [Plan -> Intent] /\ CommandOK'
    BY <1>11, <2>1, CommandTyped DEF AnnounceApplying, IntentMoves, PlanTypeOK, Intent, Step
  <2> QED BY <1>11, <2>2 DEF AnnounceApplying, PlanTypeOK
<1>12. CASE StartRoot
  <2>1. p \in Plan
    BY <1>0, <1>12 DEF StartRoot, Step
  <2>2. PICK r \in command.todo : ChildMoves(r, p, "applying") /\ (Goes("apply") \/ Visited(r))
    BY <1>12 DEF StartRoot
  <2>3. child' \in [Root -> [Plan -> Phase]] /\ CommandOK'
    BY <1>0, <2>1, <2>2, MovesTyped, CommandTyped DEF PlanTypeOK, Phase, Begun, Intent, Step
  <2> QED BY <1>12, <2>3 DEF StartRoot, PlanTypeOK
<1>13. CASE ApplyRoot
  <2>1. p \in Plan
    BY <1>0, <1>13 DEF ApplyRoot, Step
  <2>2. PICK r \in command.todo : /\ Publishes(p, r)
                                  /\ applied' = [applied EXCEPT ![p] = @ \cup {r}]
                                  /\ Goes("finish") \/ Visited(r)
    BY <1>13 DEF ApplyRoot
  <2>3. file' \in [Root -> Content] /\ published' \in [Root -> SUBSET Plan]
    BY <1>0, <2>1, <2>2, MovesTyped DEF PlanTypeOK, Phase, Intent
  <2>4. applied' \in [Plan -> SUBSET Root] /\ CommandOK'
    BY <1>0, <2>1, <2>2, CommandTyped DEF PlanTypeOK, Step
  <2> QED BY <1>13, <2>3, <2>4 DEF ApplyRoot, PlanTypeOK
<1>14. CASE FinishRoot
  <2>1. p \in Plan
    BY <1>0, <1>14 DEF FinishRoot, Step
  <2>2. PICK r \in command.todo : ChildMoves(r, p, "finishing")
    BY <1>14 DEF FinishRoot
  <2>3. child' \in [Root -> [Plan -> Phase]]
    BY <1>0, <2>1, <2>2, MovesTyped DEF PlanTypeOK, Phase, Begun, Intent
  <2> QED BY <1>14, <2>3 DEF FinishRoot, PlanTypeOK
<1>15. CASE RepublishRoot
  <2>1. p \in Plan
    BY <1>0, <1>15 DEF RepublishRoot, Step
  <2>2. PICK r \in command.todo : Publishes(p, r)
    BY <1>15 DEF RepublishRoot
  <2>3. file' \in [Root -> Content] /\ published' \in [Root -> SUBSET Plan]
    BY <1>0, <2>1, <2>2, MovesTyped DEF PlanTypeOK, Phase, Intent
  <2> QED BY <1>15, <2>3 DEF RepublishRoot, PlanTypeOK
<1>16. CASE CompleteRoot
  <2>1. p \in Plan
    BY <1>0, <1>16 DEF CompleteRoot, Step
  <2>2. PICK r \in command.todo : (ChildMoves(r, p, "done") \/ UNCHANGED child) /\ Visited(r)
    BY <1>16 DEF CompleteRoot
  <2>3. child' \in [Root -> [Plan -> Phase]] /\ CommandOK'
    BY <1>0, <2>1, <2>2, MovesTyped, CommandTyped DEF PlanTypeOK, Phase, Intent, Step
  <2> QED BY <1>16, <2>3 DEF CompleteRoot, PlanTypeOK
<1>17. CASE FinishCustody
  <2>1. p \in Plan
    BY <1>0, <1>17 DEF FinishCustody, Step
  <2>2. custody' \in [Plan -> Phase] /\ CommandOK'
    BY <1>17, <2>1, CommandTyped DEF FinishCustody, CustodyMoves, PlanTypeOK, Phase, Begun, Step
  <2> QED BY <1>17, <2>2 DEF FinishCustody, PlanTypeOK
<1>18. CASE CommitCustody
  <2>1. p \in Plan
    BY <1>0, <1>18 DEF CommitCustody, Step
  <2>2. custody' \in [Plan -> Phase] /\ CommandOK'
    BY <1>18, <2>1, CommandTyped DEF CommitCustody, CustodyMoves, PlanTypeOK, Phase, Step
  <2> QED BY <1>18, <2>2 DEF CommitCustody, PlanTypeOK
<1>19. CASE ReportConfigured
  <2>1. p \in Plan
    BY <1>0, <1>19 DEF ReportConfigured, Step
  <2>2. intent' \in [Plan -> Intent] /\ CommandOK'
    BY <1>19, <2>1, CommandTyped DEF ReportConfigured, IntentMoves, PlanTypeOK, Intent, Step
  <2> QED BY <1>19, <2>2 DEF ReportConfigured, PlanTypeOK
<1>20. CASE EndCommand \/ Interrupt
  <2>1. CommandOK'
    BY <1>20, PlanAssumption DEF EndCommand, Interrupt, Returns, NoCommand, Step
  <2> QED BY <1>20, <2>1 DEF EndCommand, Interrupt, PlanTypeOK
<1>21. CASE UserEdit
  BY <1>21, PlanAssumption DEF UserEdit, PlanTypeOK
<1>22. CASE UNCHANGED planVars
  BY <1>22 DEF planVars, PlanTypeOK
<1> QED BY <1>1, <1>2, <1>3, <1>4, <1>5, <1>6, <1>7, <1>8, <1>9, <1>10, <1>11, <1>12, <1>13, <1>14,
           <1>15, <1>16, <1>17, <1>18, <1>19, <1>20, <1>21, <1>22
    DEF PlanNext, Request, Proceed

(* The stores of a plan, its command and the history stay within their types. *)
THEOREM PlanTypes == PlanSpec => []PlanTypeOK
BY PlanTypeInit, PlanTypeStep, PTL DEF PlanSpec

-----------------------------------------------------------------------------
(* The induction behind the safety properties: PlanStands says of each plan how
   far its stores can be apart, CommandStands what the command under way has
   established, which nobody else touches while the custody is locked. *)

ChildrenIn(p, phases) == \A r \in RootsOf[p] : child[r][p] \in phases

Past == {"applying", "finishing", "done"}

StoresMatch(p) ==
    /\ custody[p] = "absent"    => intent[p] = "absent" /\ ChildrenIn(p, {"absent"})
    /\ custody[p] = "prepared"  => /\ intent[p] \in {"absent", "prepared", "cancelled"}
                                   /\ ChildrenIn(p, {"absent", "prepared", "cancelled"})
                                   /\ intent[p] = "cancelled" => ChildrenIn(p, {"cancelled"})
    /\ custody[p] = "applying"  => /\ intent[p] \in {"prepared", "applying"}
                                   /\ ChildrenIn(p, {"prepared"} \cup Past)
    /\ custody[p] = "finishing" => intent[p] = "applying" /\ ChildrenIn(p, {"done"})
    /\ custody[p] = "done"      => /\ intent[p] \in {"applying", "configured", "confirmed"}
                                   /\ ChildrenIn(p, {"done"})
    /\ custody[p] = "cancelled" => /\ intent[p] \in {"absent", "cancelled"}
                                   /\ ChildrenIn(p, {"cancelled"})

PlanStands(p) ==
    /\ StoresMatch(p)
    /\ \A r \in Root \ RootsOf[p] : child[r][p] = "absent" /\ p \notin published[r]
    /\ Candidate(p) => applied[p] = RootsOf[p] /\ intent[p] # "prepared" /\ ChildrenIn(p, Past)
    /\ \A r \in Root : p \in published[r] => ChildrenIn(p, Past)

Reached(p, phases) == \A r \in RootsOf[p] \ command.todo : child[r][p] \in phases

CommandStands ==
    LET p == command.plan IN
    /\ command.at # "idle" => command.todo \subseteq RootsOf[p]
    /\ command.at = "admit" => custody[p] = "prepared"
    /\ command.at = "prepare" => custody[p] = "prepared" /\ intent[p] = "prepared"
    /\ command.at = "withdraw" => custody[p] = "prepared" /\ Reached(p, {"cancelled"})
    /\ command.at = "cancel" => /\ custody[p] = "prepared"
                                /\ intent[p] \in {"absent", "cancelled"}
                                /\ ChildrenIn(p, {"cancelled"})
    /\ command.at = "start" => /\ custody[p] \in {"prepared", "applying"}
                               /\ intent[p] \in {"prepared", "applying"}
                               /\ ChildrenIn(p, {"prepared", "applying"})
    /\ command.at = "announce" => /\ custody[p] = "applying"
                                  /\ ChildrenIn(p, {"prepared", "applying"})
    /\ command.at = "startRoots" => /\ custody[p] = "applying" /\ intent[p] = "applying"
                                    /\ ChildrenIn(p, {"prepared", "applying"})
                                    /\ Reached(p, {"applying"})
    /\ command.at = "apply" => /\ custody[p] = "applying" /\ intent[p] = "applying"
                               /\ ChildrenIn(p, {"applying"})
                               /\ RootsOf[p] \ command.todo \subseteq applied[p]
    /\ command.at = "finish" => /\ custody[p] \in {"applying", "finishing"}
                                /\ intent[p] = "applying" /\ applied[p] = RootsOf[p]
                                /\ ChildrenIn(p, Past)
                                /\ Reached(p, {"done"})
    /\ command.at = "commit" => custody[p] = "finishing"
    /\ command.at = "report" => custody[p] = "done" /\ intent[p] = "applying"

AppliedWithin == \A p \in Plan : applied[p] \subseteq RootsOf[p]

AllStand == \A p \in Plan : PlanStands(p)

PlanInv == AppliedWithin /\ CommandStands /\ AllStand

LEMMA PlanInvInit == PlanInit => PlanInv
BY PlanAssumption DEF PlanInit, PlanInv, AppliedWithin, CommandStands, AllStand, PlanStands, StoresMatch,
   ChildrenIn, Candidate, NoCommand

(* A plan whose stores are left alone stands as before. *)
LEMMA PlanStays ==
    ASSUME NEW q \in Plan, PlanStands(q),
           custody'[q] = custody[q], intent'[q] = intent[q], applied'[q] = applied[q],
           \A r \in Root : child'[r][q] = child[r][q],
           \A r \in Root : q \in published'[r] => q \in published[r]
    PROVE  PlanStands(q)'
<1>1. \A r \in RootsOf[q] : child'[r][q] = child[r][q]
  BY PlanAssumption
<1> QED BY <1>1 DEF PlanStands, StoresMatch, ChildrenIn, Candidate

(* What a step that moves one store of one plan leaves alone. *)
LEMMA MovesOne ==
    ASSUME PlanTypeOK, NEW p \in Plan, NEW r \in Root, NEW to
    PROVE  ChildMoves(r, p, to) =>
                 /\ child'[r][p] = to
                 /\ \A s \in Root \ {r} : child'[s][p] = child[s][p]
                 /\ \A q \in Plan \ {p}, s \in Root : child'[s][q] = child[s][q]
BY DEF ChildMoves, PlanTypeOK

LEMMA PublishesOne ==
    ASSUME PlanTypeOK, NEW p \in Plan, NEW r \in Root, Publishes(p, r)
    PROVE  /\ \A s \in Root \ {r} : published'[s] = published[s]
           /\ \A q \in Plan \ {p}, s \in Root : q \in published'[s] => q \in published[s]
<1>1. CASE file[r] = p
  BY <1>1 DEF Publishes
<1>2. CASE file[r] # p
  <2>1. published' = [published EXCEPT ![r] = @ \cup {p}]
    BY <1>2 DEF Publishes
  <2> QED BY <2>1 DEF PlanTypeOK
<1> QED BY <1>1, <1>2

LEMMA PlanInvStep ==
    PlanTypeOK /\ PlanTypeOK' /\ PlanInv /\ [PlanNext]_planVars => PlanInv'
<1> SUFFICES ASSUME PlanTypeOK, PlanTypeOK', PlanInv, [PlanNext]_planVars PROVE PlanInv'
  OBVIOUS
<1> USE PlanAssumption DEF CommandAt, stores, PlanInv
<1>0. /\ \A at \in Step \ {"idle"} : CommandAt(at) => command.plan \in Plan
      /\ \A p \in Plan : \A r \in RootsOf[p] : r \in Root
  BY DEF PlanTypeOK
<1>1. ASSUME NEW p \in Plan, PreparePlan(p) PROVE PlanInv'
  <2>1. \A q \in Plan \ {p} : PlanStands(q)'
    BY <1>1, PlanStays DEF PreparePlan, AllStand, CustodyMoves, PlanTypeOK
  <2>2. PlanStands(p)'
    BY <1>1
      DEF PreparePlan, AllStand, CustodyMoves, PlanTypeOK, PlanStands, StoresMatch, ChildrenIn,
          Candidate, CommandStands, Reached, Past
  <2>3. CommandStands'
    BY <1>1 DEF PreparePlan, CustodyMoves, Begins, PlanTypeOK, CommandStands
  <2> QED BY <1>1, <2>1, <2>2, <2>3 DEF PreparePlan, AllStand, AppliedWithin
<1>2. ASSUME NEW p \in Plan, CancelPlan(p) PROVE PlanInv'
  <2>1. AllStand'
    BY <1>2, PlanStays DEF CancelPlan, AllStand
  <2>2. CommandStands'
    BY <1>2 DEF CancelPlan, Begins, Unstarted, PlanTypeOK, CommandStands, Reached
  <2> QED BY <1>2, <2>1, <2>2 DEF CancelPlan, AppliedWithin
<1>3. ASSUME NEW p \in Plan, ApplyPlan(p) PROVE PlanInv'
  <2>1. AllStand'
    BY <1>3, PlanStays DEF ApplyPlan, AllStand
  <2>2. PlanStands(p)
    BY DEF AllStand
  <2>3. CASE Candidate(p)
    <3>1. custody[p] \in {"applying", "finishing"}
      BY <1>3, <2>2, <2>3
        DEF ApplyPlan, MayApply, Begun, PlanStands, StoresMatch, ChildrenIn, Candidate, CommandStands,
            Reached, Past
    <3>2. intent[p] = "applying" /\ applied[p] = RootsOf[p] /\ ChildrenIn(p, Past)
      BY <2>2, <2>3, <3>1 DEF PlanStands, StoresMatch
    <3>3. CommandStands'
      BY <1>3, <2>3, <3>1, <3>2 DEF ApplyPlan, Begins, CommandStands, Reached, ChildrenIn
    <3> QED BY <1>3, <2>1, <3>3 DEF ApplyPlan, AppliedWithin
  <2>4. CASE ~Candidate(p)
    <3>1. custody[p] \in {"prepared", "applying"}
      BY <1>3, <1>0, <2>2, <2>4
        DEF ApplyPlan, MayApply, Begun, PlanStands, StoresMatch, ChildrenIn, Candidate, CommandStands,
            Reached, Past
    <3>2. ChildrenIn(p, {"prepared", "applying"})
      BY <1>3, <2>2, <2>4, <3>1
        DEF ApplyPlan, MayApply, PlanStands, StoresMatch, ChildrenIn, Candidate, CommandStands, Reached,
            Past
    <3>3. CommandStands'
      BY <1>3, <2>4, <3>1, <3>2 DEF ApplyPlan, MayApply, Begins, CommandStands, ChildrenIn
    <3> QED BY <1>3, <2>1, <3>3 DEF ApplyPlan, AppliedWithin
  <2> QED BY <2>3, <2>4
<1>4. ASSUME NEW p \in Plan, ConfirmSession(p) PROVE PlanInv'
  <2>1. \A q \in Plan \ {p} : PlanStands(q)'
    BY <1>4, PlanStays DEF ConfirmSession, IntentMoves, AllStand, PlanTypeOK
  <2>2. PlanStands(p)'
    BY <1>4
      DEF ConfirmSession, IntentMoves, AllStand, PlanTypeOK, PlanStands, StoresMatch, ChildrenIn,
          Candidate
  <2>3. CommandStands'
    BY <1>4 DEF ConfirmSession, CommandStands, PlanTypeOK
  <2> QED BY <1>4, <2>1, <2>2, <2>3 DEF ConfirmSession, AllStand, AppliedWithin
<1>5. CASE AdmitIntent
  <2>0. PICK p \in Plan : p = command.plan
    BY <1>0, <1>5 DEF AdmitIntent, Step
  <2>1. \A q \in Plan \ {p} : PlanStands(q)'
    BY <1>5, <2>0, PlanStays DEF AdmitIntent, IntentMoves, AllStand, PlanTypeOK
  <2>2. PlanStands(p)'
    <3>1. custody[p] = "prepared" /\ PlanStands(p) /\ intent[p] \in {"absent", "prepared"}
      BY <1>5, <2>0 DEF AdmitIntent, MayAdmit, Unstarted, CommandStands, AllStand
    <3>2. intent'[p] = "prepared" /\ UNCHANGED <<custody, child, applied, published>>
      BY <1>5, <2>0 DEF AdmitIntent, IntentMoves, PlanTypeOK
    <3>3. ~Candidate(p)
      BY <3>1 DEF PlanStands, StoresMatch, ChildrenIn, Candidate
    <3>4. StoresMatch(p)' /\ ~Candidate(p)'
      BY <3>1, <3>2, <3>3 DEF PlanStands, StoresMatch, ChildrenIn, Candidate
    <3> QED BY <3>1, <3>2, <3>4 DEF PlanStands, ChildrenIn
  <2>3. CommandStands'
    BY <1>5, <2>0
      DEF AdmitIntent, IntentMoves, MayAdmit, Unstarted, Goes, Returns, NoCommand, PlanTypeOK, AllStand,
          PlanStands, StoresMatch, ChildrenIn, Candidate, CommandStands, Reached, Past
  <2> QED BY <1>5, <2>1, <2>2, <2>3 DEF AdmitIntent, AllStand, AppliedWithin
<1>6. CASE PrepareRoot
  <2>0. PICK p \in Plan : p = command.plan
    BY <1>0, <1>6 DEF PrepareRoot, Step
  <2>1. PICK r \in command.todo : /\ \/ MayPrepare(p, r) /\ ChildMoves(r, p, "prepared")
                                     \/ UNCHANGED child
                                  /\ Visited(r)
    BY <1>6, <2>0 DEF PrepareRoot
  <2>2. r \in RootsOf[p] /\ r \in Root
    BY <1>0, <1>6, <2>0, <2>1 DEF PrepareRoot, CommandStands
  <2>3. /\ command.at # "idle" /\ command.todo \subseteq RootsOf[p]
        /\ custody[p] = "prepared" /\ intent[p] = "prepared"
    BY <1>6, <2>0 DEF PrepareRoot, CommandStands
  <2>4. /\ \/ child[r][p] = "absent" /\ child'[r][p] = "prepared"
           \/ child'[r][p] = child[r][p]
        /\ \A s \in Root \ {r} : child'[s][p] = child[s][p]
        /\ \A q \in Plan \ {p}, s \in Root : child'[s][q] = child[s][q]
    BY <2>1, <2>2, MovesOne DEF MayPrepare
  <2>5. UNCHANGED <<custody, intent, applied, published>>
    BY <1>6 DEF PrepareRoot
  <2>6. applied' = applied
    BY <2>5
  <2>7. \A q \in Plan \ {p} : PlanStands(q)'
    BY <2>4, <2>5, <2>6, PlanStays DEF AllStand
  <2>8. PlanStands(p)
    BY DEF AllStand
  <2>9. StoresMatch(p)'
    BY <2>2, <2>3, <2>4, <2>5, <2>8 DEF PlanStands, StoresMatch, ChildrenIn, Past
  <2>10. \A s \in Root \ RootsOf[p] : child'[s][p] = "absent" /\ p \notin published'[s]
    BY <2>2, <2>4, <2>5, <2>8 DEF PlanStands
  <2>11. Candidate(p)' => applied'[p] = RootsOf[p] /\ intent'[p] # "prepared" /\ ChildrenIn(p, Past)'
    BY <2>2, <2>3, <2>4, <2>5, <2>6, <2>8 DEF PlanStands, StoresMatch, ChildrenIn, Candidate, Past
  <2>12. \A s \in Root : p \in published'[s] => ChildrenIn(p, Past)'
    BY <2>2, <2>3, <2>4, <2>5, <2>6, <2>8 DEF PlanStands, StoresMatch, ChildrenIn, Past
  <2>13. PlanStands(p)'
    BY <2>9, <2>10, <2>11, <2>12 DEF PlanStands
  <2>14. CommandStands'
    <3>1. command'.plan = p /\ command'.at = command.at /\ command'.todo = command.todo \ {r}
      BY <2>0, <2>1 DEF Visited, PlanTypeOK
    <3> QED BY <1>6, <2>2, <2>3, <2>4, <2>5, <2>6, <3>1
      DEF PrepareRoot, CommandStands, ChildrenIn, Reached, Past
  <2> QED BY <2>0, <2>2, <2>6, <2>7, <2>13, <2>14 DEF AllStand, AppliedWithin
<1>7. CASE CancelRoot
  <2>0. PICK p \in Plan : p = command.plan
    BY <1>0, <1>7 DEF CancelRoot, Step
  <2>1. PICK r \in command.todo : ChildMoves(r, p, "cancelled") /\ Visited(r)
    BY <1>7, <2>0 DEF CancelRoot
  <2>2. r \in RootsOf[p] /\ r \in Root
    BY <1>0, <1>7, <2>0, <2>1 DEF CancelRoot, CommandStands
  <2>3. /\ command.at # "idle" /\ command.todo \subseteq RootsOf[p]
        /\ custody[p] = "prepared" /\ Reached(p, {"cancelled"})
    BY <1>7, <2>0 DEF CancelRoot, CommandStands
  <2>4. /\ child'[r][p] = "cancelled"
        /\ \A s \in Root \ {r} : child'[s][p] = child[s][p]
        /\ \A q \in Plan \ {p}, s \in Root : child'[s][q] = child[s][q]
    BY <2>1, <2>2, MovesOne
  <2>5. UNCHANGED <<custody, intent, applied, published>>
    BY <1>7 DEF CancelRoot
  <2>6. applied' = applied
    BY <2>5
  <2>7. \A q \in Plan \ {p} : PlanStands(q)'
    BY <2>4, <2>5, <2>6, PlanStays DEF AllStand
  <2>8. PlanStands(p)
    BY DEF AllStand
  <2>9. StoresMatch(p)'
    BY <2>2, <2>3, <2>4, <2>5, <2>8 DEF PlanStands, StoresMatch, ChildrenIn, Past
  <2>10. \A s \in Root \ RootsOf[p] : child'[s][p] = "absent" /\ p \notin published'[s]
    BY <2>2, <2>4, <2>5, <2>8 DEF PlanStands
  <2>11. Candidate(p)' => applied'[p] = RootsOf[p] /\ intent'[p] # "prepared" /\ ChildrenIn(p, Past)'
    BY <2>2, <2>3, <2>4, <2>5, <2>6, <2>8 DEF PlanStands, StoresMatch, ChildrenIn, Candidate, Past
  <2>12. \A s \in Root : p \in published'[s] => ChildrenIn(p, Past)'
    BY <2>2, <2>3, <2>4, <2>5, <2>6, <2>8 DEF PlanStands, StoresMatch, ChildrenIn, Past
  <2>13. PlanStands(p)'
    BY <2>9, <2>10, <2>11, <2>12 DEF PlanStands
  <2>14. CommandStands'
    <3>1. command'.plan = p /\ command'.at = command.at /\ command'.todo = command.todo \ {r}
      BY <2>0, <2>1 DEF Visited, PlanTypeOK
    <3> QED BY <1>7, <2>2, <2>3, <2>4, <2>5, <2>6, <3>1
      DEF CancelRoot, CommandStands, ChildrenIn, Reached, Past
  <2> QED BY <2>0, <2>2, <2>6, <2>7, <2>13, <2>14 DEF AllStand, AppliedWithin
<1>8. CASE CancelIntent
  <2>0. PICK p \in Plan : p = command.plan
    BY <1>0, <1>8 DEF CancelIntent, Step
  <2>1. \A q \in Plan \ {p} : PlanStands(q)'
    BY <1>8, <2>0, PlanStays DEF CancelIntent, AllStand, PlanTypeOK
  <2>2. PlanStands(p)'
    BY <1>8, <2>0
      DEF CancelIntent, VisitedAll, MayCancelIntent, Unstarted, AllStand, PlanTypeOK, PlanStands,
          StoresMatch, ChildrenIn, Candidate, CommandStands, Reached, Past
  <2>3. CommandStands'
    BY <1>8, <2>0
      DEF CancelIntent, VisitedAll, MayCancelIntent, Unstarted, Goes, Returns, NoCommand, PlanTypeOK,
          AllStand, PlanStands, StoresMatch, ChildrenIn, Candidate, CommandStands, Reached, Past
  <2> QED BY <1>8, <2>1, <2>2, <2>3 DEF CancelIntent, AllStand, AppliedWithin
<1>9. CASE CancelCustody
  <2>0. PICK p \in Plan : p = command.plan
    BY <1>0, <1>9 DEF CancelCustody, Step
  <2>1. \A q \in Plan \ {p} : PlanStands(q)'
    BY <1>9, <2>0, PlanStays DEF CancelCustody, CustodyMoves, AllStand, PlanTypeOK
  <2>2. PlanStands(p)'
    BY <1>9, <2>0
      DEF CancelCustody, CustodyMoves, AllStand, PlanTypeOK, PlanStands, StoresMatch, ChildrenIn,
          Candidate, CommandStands, Reached, Past
  <2>3. CommandStands'
    BY <1>9, <2>0
      DEF CancelCustody, CustodyMoves, Goes, Returns, NoCommand, PlanTypeOK, AllStand, PlanStands,
          StoresMatch, ChildrenIn, Candidate, CommandStands, Reached, Past
  <2> QED BY <1>9, <2>1, <2>2, <2>3 DEF CancelCustody, AllStand, AppliedWithin
<1>10. CASE StartCustody
  <2>0. PICK p \in Plan : p = command.plan
    BY <1>0, <1>10 DEF StartCustody, Step
  <2>1. \A q \in Plan \ {p} : PlanStands(q)'
    BY <1>10, <2>0, PlanStays DEF StartCustody, CustodyMoves, AllStand, PlanTypeOK
  <2>2. PlanStands(p)'
    BY <1>10, <2>0
      DEF StartCustody, CustodyMoves, Started, AllStand, PlanTypeOK, PlanStands, StoresMatch,
          ChildrenIn, Candidate, CommandStands, Reached, Past
  <2>3. CommandStands'
    BY <1>10, <2>0
      DEF StartCustody, CustodyMoves, Started, Goes, Returns, NoCommand, PlanTypeOK, AllStand,
          PlanStands, StoresMatch, ChildrenIn, Candidate, CommandStands, Reached, Past
  <2> QED BY <1>10, <2>1, <2>2, <2>3 DEF StartCustody, AllStand, AppliedWithin
<1>11. CASE AnnounceApplying
  <2>0. PICK p \in Plan : p = command.plan
    BY <1>0, <1>11 DEF AnnounceApplying, Step
  <2>1. \A q \in Plan \ {p} : PlanStands(q)'
    BY <1>11, <2>0, PlanStays DEF AnnounceApplying, IntentMoves, AllStand, PlanTypeOK
  <2>2. PlanStands(p)'
    BY <1>11, <2>0
      DEF AnnounceApplying, IntentMoves, AllStand, PlanTypeOK, PlanStands, StoresMatch, ChildrenIn,
          Candidate, CommandStands, Reached, Past
  <2>3. CommandStands'
    BY <1>11, <2>0
      DEF AnnounceApplying, IntentMoves, Goes, Returns, NoCommand, PlanTypeOK, AllStand, PlanStands,
          StoresMatch, ChildrenIn, Candidate, CommandStands, Reached, Past
  <2> QED BY <1>11, <2>1, <2>2, <2>3 DEF AnnounceApplying, AllStand, AppliedWithin
<1>12. CASE StartRoot
  <2>0. PICK p \in Plan : p = command.plan
    BY <1>0, <1>12 DEF StartRoot, Step
  <2>1. PICK r \in command.todo : /\ ChildMoves(r, p, "applying")
                                  /\ IF command.todo = {r} THEN Goes("apply") ELSE Visited(r)
    BY <1>12, <2>0 DEF StartRoot
  <2>2. r \in RootsOf[p] /\ r \in Root
    BY <1>0, <1>12, <2>0, <2>1 DEF StartRoot, CommandStands
  <2>3. /\ command.at # "idle" /\ command.todo \subseteq RootsOf[p]
        /\ custody[p] = "applying" /\ intent[p] = "applying"
        /\ ChildrenIn(p, {"prepared", "applying"}) /\ Reached(p, {"applying"})
    BY <1>12, <2>0 DEF StartRoot, CommandStands
  <2>4. /\ child'[r][p] = "applying"
        /\ \A s \in Root \ {r} : child'[s][p] = child[s][p]
        /\ \A q \in Plan \ {p}, s \in Root : child'[s][q] = child[s][q]
    BY <2>1, <2>2, MovesOne
  <2>5. UNCHANGED <<custody, intent, applied, published>>
    BY <1>12 DEF StartRoot
  <2>6. applied' = applied
    BY <2>5
  <2>7. \A q \in Plan \ {p} : PlanStands(q)'
    BY <2>4, <2>5, <2>6, PlanStays DEF AllStand
  <2>8. PlanStands(p)
    BY DEF AllStand
  <2>9. StoresMatch(p)'
    BY <2>2, <2>3, <2>4, <2>5, <2>8 DEF PlanStands, StoresMatch, ChildrenIn, Past
  <2>10. \A s \in Root \ RootsOf[p] : child'[s][p] = "absent" /\ p \notin published'[s]
    BY <2>2, <2>4, <2>5, <2>8 DEF PlanStands
  <2>11. Candidate(p)' => applied'[p] = RootsOf[p] /\ intent'[p] # "prepared" /\ ChildrenIn(p, Past)'
    BY <2>2, <2>3, <2>4, <2>5, <2>6, <2>8 DEF PlanStands, StoresMatch, ChildrenIn, Candidate, Past
  <2>12. \A s \in Root : p \in published'[s] => ChildrenIn(p, Past)'
    BY <2>2, <2>3, <2>4, <2>5, <2>6, <2>8 DEF PlanStands, StoresMatch, ChildrenIn, Past
  <2>13. PlanStands(p)'
    BY <2>9, <2>10, <2>11, <2>12 DEF PlanStands
  <2>14. CommandStands'
    <3>1. CASE command.todo = {r}
      <4>1. command'.plan = p /\ command'.at = "apply" /\ command'.todo = RootsOf[p]
        BY <2>0, <2>1, <3>1 DEF Goes, PlanTypeOK
      <4> QED BY <2>2, <2>3, <2>4, <2>5, <2>6, <3>1, <4>1
        DEF CommandStands, ChildrenIn, Reached, Past, AppliedWithin
    <3>2. CASE command.todo # {r}
      <4>1. command'.plan = p /\ command'.at = command.at /\ command'.todo = command.todo \ {r}
        BY <2>0, <2>1, <3>2 DEF Visited, PlanTypeOK
      <4> QED BY <1>12, <2>2, <2>3, <2>4, <2>5, <2>6, <4>1
        DEF StartRoot, CommandStands, ChildrenIn, Reached
    <3> QED BY <3>1, <3>2
  <2> QED BY <2>0, <2>2, <2>6, <2>7, <2>13, <2>14 DEF AllStand, AppliedWithin
<1>13. CASE ApplyRoot
  <2>0. PICK p \in Plan : p = command.plan
    BY <1>0, <1>13 DEF ApplyRoot, Step
  <2>1. PICK r \in command.todo : /\ Publishes(p, r)
                                  /\ applied' = [applied EXCEPT ![p] = @ \cup {r}]
                                  /\ IF command.todo = {r} THEN Goes("finish") ELSE Visited(r)
    BY <1>13, <2>0 DEF ApplyRoot
  <2>2. r \in RootsOf[p] /\ r \in Root
    BY <1>0, <1>13, <2>0, <2>1 DEF ApplyRoot, CommandStands
  <2>3. /\ command.at # "idle" /\ command.todo \subseteq RootsOf[p]
        /\ custody[p] = "applying" /\ intent[p] = "applying"
        /\ ChildrenIn(p, {"applying"}) /\ RootsOf[p] \ command.todo \subseteq applied[p]
    BY <1>13, <2>0 DEF ApplyRoot, CommandStands
  <2>4. /\ \A s \in Root \ {r} : published'[s] = published[s]
        /\ \A q \in Plan \ {p}, s \in Root : q \in published'[s] => q \in published[s]
    BY <2>1, <2>2, PublishesOne
  <2>5. UNCHANGED <<custody, intent, child>>
    BY <1>13 DEF ApplyRoot
  <2>6. applied'[p] = applied[p] \cup {r} /\ \A q \in Plan \ {p} : applied'[q] = applied[q]
    BY <2>1 DEF PlanTypeOK
  <2>7. \A q \in Plan \ {p} : PlanStands(q)'
    BY <2>4, <2>5, <2>6, PlanStays DEF AllStand
  <2>8. PlanStands(p)
    BY DEF AllStand
  <2>9. StoresMatch(p)'
    BY <2>2, <2>3, <2>4, <2>5, <2>8 DEF PlanStands, StoresMatch, ChildrenIn, Past
  <2>10. \A s \in Root \ RootsOf[p] : child'[s][p] = "absent" /\ p \notin published'[s]
    BY <2>2, <2>4, <2>5, <2>8 DEF PlanStands
  <2>11. Candidate(p)' => applied'[p] = RootsOf[p] /\ intent'[p] # "prepared" /\ ChildrenIn(p, Past)'
    BY <2>2, <2>3, <2>4, <2>5, <2>6, <2>8 DEF PlanStands, StoresMatch, ChildrenIn, Candidate, Past
  <2>12. \A s \in Root : p \in published'[s] => ChildrenIn(p, Past)'
    BY <2>2, <2>3, <2>4, <2>5, <2>6, <2>8 DEF PlanStands, StoresMatch, ChildrenIn, Past
  <2>13. PlanStands(p)'
    BY <2>9, <2>10, <2>11, <2>12 DEF PlanStands
  <2>14. CommandStands'
    <3>1. CASE command.todo = {r}
      <4>1. command'.plan = p /\ command'.at = "finish" /\ command'.todo = RootsOf[p]
        <5>1. Goes("finish")
          BY <2>1, <3>1
        <5> QED BY <2>0, <5>1 DEF Goes, PlanTypeOK
      <4>2. applied'[p] = RootsOf[p]
        BY <2>2, <2>3, <2>6, <3>1 DEF AppliedWithin
      <4>3. custody'[p] = "applying" /\ intent'[p] = "applying" /\ ChildrenIn(p, Past)'
        BY <2>3, <2>5 DEF ChildrenIn, Past
      <4> QED BY <4>1, <4>2, <4>3 DEF CommandStands, Reached
    <3>2. CASE command.todo # {r}
      <4>1. command'.plan = p /\ command'.at = command.at /\ command'.todo = command.todo \ {r}
        BY <2>0, <2>1, <3>2 DEF Visited, PlanTypeOK
      <4> QED BY <1>13, <2>2, <2>3, <2>4, <2>5, <2>6, <4>1
        DEF ApplyRoot, CommandStands, ChildrenIn, Reached
    <3> QED BY <3>1, <3>2
  <2> QED BY <2>0, <2>2, <2>6, <2>7, <2>13, <2>14 DEF AllStand, AppliedWithin
<1>14. CASE FinishRoot
  <2>0. PICK p \in Plan : p = command.plan
    BY <1>0, <1>14 DEF FinishRoot, Step
  <2>1. PICK r \in command.todo : child[r][p] = "applying" /\ ChildMoves(r, p, "finishing")
    BY <1>14, <2>0 DEF FinishRoot
  <2>2. r \in RootsOf[p] /\ r \in Root
    BY <1>0, <1>14, <2>0, <2>1 DEF FinishRoot, CommandStands
  <2>3. /\ command.at # "idle" /\ command.todo \subseteq RootsOf[p]
        /\ custody[p] \in {"applying", "finishing"} /\ intent[p] = "applying"
        /\ applied[p] = RootsOf[p] /\ ChildrenIn(p, Past) /\ Reached(p, {"done"})
    BY <1>14, <2>0 DEF FinishRoot, CommandStands
  <2>4. /\ child'[r][p] = "finishing"
        /\ \A s \in Root \ {r} : child'[s][p] = child[s][p]
        /\ \A q \in Plan \ {p}, s \in Root : child'[s][q] = child[s][q]
    BY <2>1, <2>2, MovesOne
  <2>5. UNCHANGED <<custody, intent, applied, published>>
    BY <1>14 DEF FinishRoot
  <2>6. applied' = applied
    BY <2>5
  <2>7. \A q \in Plan \ {p} : PlanStands(q)'
    BY <2>4, <2>5, <2>6, PlanStays DEF AllStand
  <2>8. PlanStands(p)
    BY DEF AllStand
  <2>9. StoresMatch(p)'
    BY <2>1, <2>2, <2>3, <2>4, <2>5, <2>8 DEF PlanStands, StoresMatch, ChildrenIn, Past
  <2>10. \A s \in Root \ RootsOf[p] : child'[s][p] = "absent" /\ p \notin published'[s]
    BY <2>2, <2>4, <2>5, <2>8 DEF PlanStands
  <2>11. Candidate(p)' => applied'[p] = RootsOf[p] /\ intent'[p] # "prepared" /\ ChildrenIn(p, Past)'
    BY <2>2, <2>3, <2>4, <2>5, <2>6, <2>8 DEF PlanStands, StoresMatch, ChildrenIn, Candidate, Past
  <2>12. \A s \in Root : p \in published'[s] => ChildrenIn(p, Past)'
    BY <2>2, <2>3, <2>4, <2>5, <2>6, <2>8 DEF PlanStands, StoresMatch, ChildrenIn, Past
  <2>13. PlanStands(p)'
    BY <2>9, <2>10, <2>11, <2>12 DEF PlanStands
  <2>14. CommandStands'
    BY <1>14, <2>0, <2>1, <2>2, <2>3, <2>4, <2>5, <2>6
      DEF FinishRoot, CommandStands, ChildrenIn, Reached, Past
  <2> QED BY <2>0, <2>2, <2>6, <2>7, <2>13, <2>14 DEF AllStand, AppliedWithin
<1>15. CASE RepublishRoot
  <2>0. PICK p \in Plan : p = command.plan
    BY <1>0, <1>15 DEF RepublishRoot, Step
  <2>1. PICK r \in command.todo : Publishes(p, r)
    BY <1>15, <2>0 DEF RepublishRoot
  <2>2. r \in RootsOf[p] /\ r \in Root
    BY <1>0, <1>15, <2>0, <2>1 DEF RepublishRoot, CommandStands
  <2>3. /\ command.at # "idle" /\ command.todo \subseteq RootsOf[p]
        /\ custody[p] \in {"applying", "finishing"} /\ intent[p] = "applying"
        /\ applied[p] = RootsOf[p] /\ ChildrenIn(p, Past) /\ Reached(p, {"done"})
    BY <1>15, <2>0 DEF RepublishRoot, CommandStands
  <2>4. /\ \A s \in Root \ {r} : published'[s] = published[s]
        /\ \A q \in Plan \ {p}, s \in Root : q \in published'[s] => q \in published[s]
    BY <2>1, <2>2, PublishesOne
  <2>5. UNCHANGED <<custody, intent, child, applied>>
    BY <1>15 DEF RepublishRoot
  <2>6. applied' = applied
    BY <2>5
  <2>7. \A q \in Plan \ {p} : PlanStands(q)'
    BY <2>4, <2>5, <2>6, PlanStays DEF AllStand
  <2>8. PlanStands(p)
    BY DEF AllStand
  <2>9. StoresMatch(p)'
    BY <2>2, <2>3, <2>4, <2>5, <2>8 DEF PlanStands, StoresMatch, ChildrenIn, Past
  <2>10. \A s \in Root \ RootsOf[p] : child'[s][p] = "absent" /\ p \notin published'[s]
    BY <2>2, <2>4, <2>5, <2>8 DEF PlanStands
  <2>11. Candidate(p)' => applied'[p] = RootsOf[p] /\ intent'[p] # "prepared" /\ ChildrenIn(p, Past)'
    BY <2>2, <2>3, <2>4, <2>5, <2>6, <2>8 DEF PlanStands, StoresMatch, ChildrenIn, Candidate, Past
  <2>12. \A s \in Root : p \in published'[s] => ChildrenIn(p, Past)'
    BY <2>2, <2>3, <2>4, <2>5, <2>6, <2>8 DEF PlanStands, StoresMatch, ChildrenIn, Past
  <2>13. PlanStands(p)'
    BY <2>9, <2>10, <2>11, <2>12 DEF PlanStands
  <2>14. CommandStands'
    BY <1>15, <2>0, <2>1, <2>2, <2>3, <2>4, <2>5, <2>6
      DEF RepublishRoot, CommandStands, ChildrenIn, Reached, Past
  <2> QED BY <2>0, <2>2, <2>6, <2>7, <2>13, <2>14 DEF AllStand, AppliedWithin
<1>16. CASE CompleteRoot
  <2>0. PICK p \in Plan : p = command.plan
    BY <1>0, <1>16 DEF CompleteRoot, Step
  <2>1. PICK r \in command.todo : /\ \/ child[r][p] = "finishing" /\ ChildMoves(r, p, "done")
                                     \/ child[r][p] = "done" /\ UNCHANGED child
                                  /\ Visited(r)
    BY <1>16, <2>0 DEF CompleteRoot
  <2>2. r \in RootsOf[p] /\ r \in Root
    BY <1>0, <1>16, <2>0, <2>1 DEF CompleteRoot, CommandStands
  <2>3. /\ command.at # "idle" /\ command.todo \subseteq RootsOf[p]
        /\ custody[p] \in {"applying", "finishing"} /\ intent[p] = "applying"
        /\ applied[p] = RootsOf[p] /\ ChildrenIn(p, Past) /\ Reached(p, {"done"})
    BY <1>16, <2>0 DEF CompleteRoot, CommandStands
  <2>4. /\ child[r][p] \in {"finishing", "done"} /\ child'[r][p] = "done"
        /\ \A s \in Root \ {r} : child'[s][p] = child[s][p]
        /\ \A q \in Plan \ {p}, s \in Root : child'[s][q] = child[s][q]
    BY <2>1, <2>2, MovesOne
  <2>5. UNCHANGED <<custody, intent, applied, published>>
    BY <1>16 DEF CompleteRoot
  <2>6. applied' = applied
    BY <2>5
  <2>7. \A q \in Plan \ {p} : PlanStands(q)'
    BY <2>4, <2>5, <2>6, PlanStays DEF AllStand
  <2>8. PlanStands(p)
    BY DEF AllStand
  <2>9. StoresMatch(p)'
    BY <2>2, <2>3, <2>4, <2>5, <2>8 DEF PlanStands, StoresMatch, ChildrenIn, Past
  <2>10. \A s \in Root \ RootsOf[p] : child'[s][p] = "absent" /\ p \notin published'[s]
    BY <2>2, <2>4, <2>5, <2>8 DEF PlanStands
  <2>11. Candidate(p)' => applied'[p] = RootsOf[p] /\ intent'[p] # "prepared" /\ ChildrenIn(p, Past)'
    BY <2>2, <2>3, <2>4, <2>5, <2>6, <2>8 DEF PlanStands, StoresMatch, ChildrenIn, Candidate, Past
  <2>12. \A s \in Root : p \in published'[s] => ChildrenIn(p, Past)'
    BY <2>2, <2>3, <2>4, <2>5, <2>6, <2>8 DEF PlanStands, StoresMatch, ChildrenIn, Past
  <2>13. PlanStands(p)'
    BY <2>9, <2>10, <2>11, <2>12 DEF PlanStands
  <2>14. CommandStands'
    <3>1. command'.plan = p /\ command'.at = command.at /\ command'.todo = command.todo \ {r}
      BY <2>0, <2>1 DEF Visited, PlanTypeOK
    <3> QED BY <1>16, <2>2, <2>3, <2>4, <2>5, <2>6, <3>1
      DEF CompleteRoot, CommandStands, ChildrenIn, Reached, Past
  <2> QED BY <2>0, <2>2, <2>6, <2>7, <2>13, <2>14 DEF AllStand, AppliedWithin
<1>17. CASE FinishCustody
  <2>0. PICK p \in Plan : p = command.plan
    BY <1>0, <1>17 DEF FinishCustody, Step
  <2>1. \A q \in Plan \ {p} : PlanStands(q)'
    BY <1>17, <2>0, PlanStays DEF FinishCustody, CustodyMoves, AllStand, PlanTypeOK
  <2>2. PlanStands(p)'
    BY <1>17, <2>0
      DEF FinishCustody, CustodyMoves, VisitedAll, AllStand, PlanTypeOK, PlanStands, StoresMatch,
          ChildrenIn, Candidate, CommandStands, Reached, Past
  <2>3. CommandStands'
    BY <1>17, <2>0
      DEF FinishCustody, CustodyMoves, VisitedAll, Goes, Returns, NoCommand, PlanTypeOK, AllStand,
          PlanStands, StoresMatch, ChildrenIn, Candidate, CommandStands, Reached, Past
  <2> QED BY <1>17, <2>1, <2>2, <2>3 DEF FinishCustody, AllStand, AppliedWithin
<1>18. CASE CommitCustody
  <2>0. PICK p \in Plan : p = command.plan
    BY <1>0, <1>18 DEF CommitCustody, Step
  <2>1. \A q \in Plan \ {p} : PlanStands(q)'
    BY <1>18, <2>0, PlanStays DEF CommitCustody, CustodyMoves, AllStand, PlanTypeOK
  <2>2. PlanStands(p)'
    BY <1>18, <2>0
      DEF CommitCustody, CustodyMoves, AllStand, PlanTypeOK, PlanStands, StoresMatch, ChildrenIn,
          Candidate, CommandStands, Reached, Past
  <2>3. CommandStands'
    BY <1>18, <2>0
      DEF CommitCustody, CustodyMoves, Goes, Returns, NoCommand, PlanTypeOK, AllStand, PlanStands,
          StoresMatch, ChildrenIn, Candidate, CommandStands, Reached, Past
  <2> QED BY <1>18, <2>1, <2>2, <2>3 DEF CommitCustody, AllStand, AppliedWithin
<1>19. CASE ReportConfigured
  <2>0. PICK p \in Plan : p = command.plan
    BY <1>0, <1>19 DEF ReportConfigured, Step
  <2>1. \A q \in Plan \ {p} : PlanStands(q)'
    BY <1>19, <2>0, PlanStays DEF ReportConfigured, IntentMoves, AllStand, PlanTypeOK
  <2>2. PlanStands(p)'
    BY <1>19, <2>0
      DEF ReportConfigured, IntentMoves, AllStand, PlanTypeOK, PlanStands, StoresMatch, ChildrenIn,
          Candidate, CommandStands, Reached, Past
  <2>3. CommandStands'
    BY <1>19, <2>0
      DEF ReportConfigured, IntentMoves, Goes, Returns, NoCommand, PlanTypeOK, AllStand, PlanStands,
          StoresMatch, ChildrenIn, Candidate, CommandStands, Reached, Past
  <2> QED BY <1>19, <2>1, <2>2, <2>3 DEF ReportConfigured, AllStand, AppliedWithin
<1>20. CASE EndCommand \/ Interrupt
  <2>1. AllStand'
    BY <1>20, PlanStays DEF EndCommand, Interrupt, AllStand
  <2>2. CommandStands'
    BY <1>20 DEF EndCommand, Interrupt, Returns, NoCommand, CommandStands
  <2> QED BY <1>20, <2>1, <2>2 DEF EndCommand, Interrupt, AppliedWithin
<1>21. CASE UserEdit
  <2>1. AllStand'
    BY <1>21, PlanStays DEF UserEdit, AllStand
  <2> QED BY <1>21, <2>1 DEF UserEdit, AppliedWithin, CommandStands, ChildrenIn, Reached
<1>22. CASE UNCHANGED planVars
  <2>1. AllStand'
    BY <1>22, PlanStays DEF planVars, AllStand
  <2> QED BY <1>22, <2>1 DEF planVars, AppliedWithin, CommandStands, ChildrenIn, Reached
<1> QED BY <1>1, <1>2, <1>3, <1>4, <1>5, <1>6, <1>7, <1>8, <1>9, <1>10, <1>11, <1>12, <1>13, <1>14,
           <1>15, <1>16, <1>17, <1>18, <1>19, <1>20, <1>21, <1>22
    DEF PlanNext, Request, Proceed

LEMMA PlanInvariant == PlanSpec => [](PlanTypeOK /\ PlanInv)
<1>1. PlanTypeOK /\ PlanInv /\ [PlanNext]_planVars => (PlanTypeOK /\ PlanInv)'
  BY PlanTypeStep, PlanInvStep
<1> QED BY PlanTypeInit, PlanInvInit, <1>1, PTL DEF PlanSpec

(* A cancelled plan changed nothing in any root (cancel_preparation). *)
THEOREM CancelledPlanIsHarmless == PlanSpec => []CancelledPlanChangedNothing
<1>1. PlanTypeOK /\ PlanInv => CancelledPlanChangedNothing
  <2> SUFFICES ASSUME PlanTypeOK, PlanInv, NEW p \in Plan, custody[p] = "cancelled", NEW r \in Root,
                      p \in published[r]
               PROVE  FALSE
    BY DEF CancelledPlanChangedNothing
  <2>1. PlanStands(p)
    BY DEF PlanInv, AllStand
  <2>2. PICK s \in RootsOf[p] : TRUE
    BY PlanAssumption
  <2> QED BY <2>1, <2>2 DEF PlanStands, StoresMatch, ChildrenIn, Past
<1> QED BY <1>1, PlanInvariant, PTL

(* No root has an outcome before all were applied (apply_prepared). *)
THEOREM OutcomeComesLast == PlanSpec => []NoOutcomeBeforeAll
<1>1. PlanInv => NoOutcomeBeforeAll
  BY DEF PlanInv, AllStand, PlanStands, Candidate, NoOutcomeBeforeAll
<1> QED BY <1>1, PlanInvariant, PTL

(* What is begun in a root is begun in the custody (prepare, complete). *)
THEOREM NoRootIsOrphaned == PlanSpec => []NoOrphanedRoot
<1>1. PlanTypeOK /\ PlanInv => NoOrphanedRoot
  <2> SUFFICES ASSUME PlanTypeOK, PlanInv, NEW p \in Plan, NEW r \in Root,
                      child[r][p] \in Begun
               PROVE  custody[p] \in Begun
    BY DEF NoOrphanedRoot
  <2>1. PlanStands(p)
    BY DEF PlanInv, AllStand
  <2>2. r \in RootsOf[p]
    BY <2>1 DEF PlanStands, Begun
  <2> QED BY <2>1, <2>2 DEF PlanTypeOK, Phase, PlanStands, StoresMatch, ChildrenIn, Past, Begun
<1> QED BY <1>1, PlanInvariant, PTL

(* Custody, intent and roots agree on the end of a plan. *)
THEOREM StoresAgree == PlanSpec => []OutcomesAgree
<1>1. PlanTypeOK /\ PlanInv => OutcomesAgree
  <2> SUFFICES ASSUME PlanTypeOK, PlanInv, NEW p \in Plan
               PROVE  /\ custody[p] = "done" =>
                            /\ \A r \in RootsOf[p] : child[r][p] = "done"
                            /\ intent[p] \in {"applying", "configured", "confirmed"}
                      /\ intent[p] \in {"configured", "confirmed"} => custody[p] = "done"
                      /\ custody[p] = "cancelled" \/ intent[p] = "cancelled"
                            => \A r \in RootsOf[p] : child[r][p] = "cancelled"
    BY DEF OutcomesAgree
  <2>1. PlanStands(p) /\ custody[p] \in Phase
    BY DEF PlanInv, AllStand, PlanTypeOK
  <2> QED BY <2>1 DEF Phase, Begun, PlanStands, StoresMatch, ChildrenIn
<1> QED BY <1>1, PlanInvariant, PTL
-----------------------------------------------------------------------------
(* The refinement. *)

StatusIs ==
    /\ StatusOf("absent") = "absent" /\ StatusOf("cancelled") = "cancelled"
    /\ StatusOf("done") = "done" /\ StatusOf("prepared") = "pending"
    /\ StatusOf("applying") = "started" /\ StatusOf("finishing") = "started"

LEMMA StatusOfIs == StatusIs
BY DEF StatusOf, StatusIs

(* What is neither begun is nor unfinished. *)
LEMMA IdleIsFinished ==
    ASSUME NEW phase \in Phase, phase \notin Begun
    PROVE  StatusOf(phase) \notin {"pending", "started"}
BY StatusOfIs DEF StatusIs, Phase, Begun

WholeStatus    == [p \in Plan |-> StatusOf(custody[p])]
WholePublished == UNION {published[r] : r \in Root}

(* The status of a plan moves with its custody. *)
LEMMA WholeMoves ==
    ASSUME PlanTypeOK, NEW p \in Plan, NEW to, CustodyMoves(p, to)
    PROVE  WholeStatus' = [WholeStatus EXCEPT ![p] = StatusOf(to)]
<1>1. custody' = [custody EXCEPT ![p] = to]
  BY DEF CustodyMoves
<1>2. \A q \in Plan : custody'[q] = IF q = p THEN to ELSE custody[q]
  BY <1>1 DEF PlanTypeOK
<1>3. \A q \in Plan : StatusOf(custody'[q]) = IF q = p THEN StatusOf(to) ELSE StatusOf(custody[q])
  BY <1>2
<1>4. WholeStatus' = [q \in Plan |-> StatusOf(custody'[q])]
  BY DEF WholeStatus
<1> QED BY <1>3, <1>4 DEF WholeStatus

LEMMA WholePublishes ==
    ASSUME PlanTypeOK, NEW p \in Plan, NEW r \in Root, Publishes(p, r)
    PROVE  WholePublished' \in {WholePublished, WholePublished \cup {p}}
<1>1. CASE file[r] = p
  BY <1>1 DEF Publishes, WholePublished
<1>2. CASE file[r] # p
  <2>1. published' = [published EXCEPT ![r] = @ \cup {p}]
    BY <1>2 DEF Publishes
  <2>2. /\ published'[r] = published[r] \cup {p}
        /\ \A s \in Root \ {r} : published'[s] = published[s]
    BY <2>1 DEF PlanTypeOK
  <2>3. WholePublished' = WholePublished \cup {p}
    BY <2>2 DEF WholePublished
  <2> QED BY <2>3
<1> QED BY <1>1, <1>2

LEMMA WholeStep ==
    PlanTypeOK /\ PlanInv /\ [PlanNext]_planVars
       => [WholePromise!PromiseNext]_(WholePromise!promiseVars)
<1> SUFFICES ASSUME PlanTypeOK, PlanInv, [PlanNext]_planVars
             PROVE  \/ WholePromise!PromiseNext
                    \/ WholeStatus' = WholeStatus /\ WholePublished' = WholePublished
  BY DEF WholePromise!promiseVars, WholeStatus, WholePublished
<1>0. \A q \in Plan : WholeStatus[q] = StatusOf(custody[q])
  BY DEF WholeStatus
<1>1. ASSUME UNCHANGED <<custody, published>>
      PROVE  WholeStatus' = WholeStatus /\ WholePublished' = WholePublished
  BY <1>1 DEF WholeStatus, WholePublished
<1>2. ASSUME NEW p \in Plan, PreparePlan(p)
      PROVE  \/ WholePromise!PromiseAdmits(p)
             \/ UNCHANGED <<custody, published>>
  <2>1. CASE custody[p] = "absent" /\ CustodyIdle /\ CustodyMoves(p, "prepared")
    <3>1. WholeStatus' = [WholeStatus EXCEPT ![p] = "pending"]
      BY <2>1, WholeMoves, StatusOfIs DEF StatusIs
    <3>2. WholeStatus[p] = "absent"
      BY <1>0, <2>1, StatusOfIs DEF StatusIs
    <3>3. \A q \in Plan : WholeStatus[q] \notin {"pending", "started"}
      BY <1>0, <2>1, IdleIsFinished DEF CustodyIdle, PlanTypeOK
    <3>4. WholePublished' = WholePublished
      BY <1>2 DEF PreparePlan, WholePublished
    <3> QED BY <3>1, <3>2, <3>3, <3>4
        DEF WholePromise!PromiseAdmits, WholePromise!Moves, WholePromise!Unfinished,
            WholeStatus, WholePublished
  <2> QED BY <1>2, <2>1 DEF PreparePlan
<1>3. ASSUME StartCustody
      PROVE  (\E p \in Plan : WholePromise!PromiseStarts(p)) \/ UNCHANGED <<custody, published>>
  <2>1. PICK p \in Plan : /\ custody[p] \in {"prepared", "applying"}
                          /\ CustodyMoves(p, Started(custody[p]))
    BY <1>3 DEF StartCustody, CommandAt, CommandStands, PlanInv, PlanTypeOK
  <2>2. CASE custody[p] = "prepared"
    <3>1. WholeStatus' = [WholeStatus EXCEPT ![p] = "started"]
      BY <2>1, <2>2, WholeMoves, StatusOfIs DEF StatusIs, Started
    <3>2. WholeStatus[p] = "pending"
      BY <1>0, <2>2, StatusOfIs DEF StatusIs
    <3>3. WholePublished' = WholePublished
      BY <1>3 DEF StartCustody, WholePublished
    <3> QED BY <3>1, <3>2, <3>3
        DEF WholePromise!PromiseStarts, WholePromise!Moves, WholeStatus, WholePublished
  <2>3. CASE custody[p] = "applying"
    BY <1>3, <2>1, <2>3 DEF StartCustody, CustodyMoves, Started, PlanTypeOK
  <2> QED BY <2>1, <2>2, <2>3
<1>4. ASSUME CancelCustody PROVE \E p \in Plan : WholePromise!PromiseCancels(p)
  <2>1. PICK p \in Plan : custody[p] = "prepared" /\ CustodyMoves(p, "cancelled")
    BY <1>4 DEF CancelCustody, CommandAt, CommandStands, PlanInv, PlanTypeOK
  <2>2. WholeStatus' = [WholeStatus EXCEPT ![p] = "cancelled"] /\ WholeStatus[p] = "pending"
    BY <1>0, <2>1, WholeMoves, StatusOfIs DEF StatusIs
  <2>3. WholePublished' = WholePublished
    BY <1>4 DEF CancelCustody, WholePublished
  <2> QED BY <2>2, <2>3
      DEF WholePromise!PromiseCancels, WholePromise!Moves, WholeStatus, WholePublished
<1>5. ASSUME FinishCustody PROVE WholeStatus' = WholeStatus /\ WholePublished' = WholePublished
  <2>1. PICK p \in Plan : /\ custody[p] \in {"applying", "finishing"}
                          /\ CustodyMoves(p, "finishing")
    BY <1>5 DEF FinishCustody, CommandAt, PlanTypeOK
  <2>2. WholeStatus' = [WholeStatus EXCEPT ![p] = "started"] /\ WholeStatus[p] = "started"
    BY <1>0, <2>1, WholeMoves, StatusOfIs DEF StatusIs
  <2>3. WholePublished' = WholePublished
    BY <1>5 DEF FinishCustody, WholePublished
  <2> QED BY <2>2, <2>3 DEF WholeStatus
<1>6. ASSUME CommitCustody PROVE \E p \in Plan : WholePromise!PromiseCompletes(p)
  <2>1. PICK p \in Plan : custody[p] = "finishing" /\ CustodyMoves(p, "done")
    BY <1>6 DEF CommitCustody, CommandAt, CommandStands, PlanInv, PlanTypeOK
  <2>2. WholeStatus' = [WholeStatus EXCEPT ![p] = "done"] /\ WholeStatus[p] = "started"
    BY <1>0, <2>1, WholeMoves, StatusOfIs DEF StatusIs
  <2>3. WholePublished' = WholePublished
    BY <1>6 DEF CommitCustody, WholePublished
  <2> QED BY <2>2, <2>3
      DEF WholePromise!PromiseCompletes, WholePromise!Moves, WholeStatus, WholePublished
<1>7. ASSUME ApplyRoot \/ RepublishRoot
      PROVE  \/ \E p \in Plan : WholePromise!PromisePublishes(p)
             \/ WholeStatus' = WholeStatus /\ WholePublished' = WholePublished
  <2>1. PICK p \in Plan : p = command.plan /\ custody[p] \in {"applying", "finishing"}
    BY <1>7 DEF ApplyRoot, RepublishRoot, CommandAt, CommandStands, PlanInv, PlanTypeOK
  <2>2. PICK r \in command.todo : Publishes(p, r)
    BY <1>7, <2>1 DEF ApplyRoot, RepublishRoot
  <2>3. r \in Root
    BY <2>2 DEF PlanTypeOK
  <2>4. WholePublished' \in {WholePublished, WholePublished \cup {p}}
    BY <2>2, <2>3, WholePublishes
  <2>5. WholeStatus' = WholeStatus /\ WholeStatus[p] = "started"
    BY <1>0, <1>7, <2>1, StatusOfIs DEF ApplyRoot, RepublishRoot, WholeStatus, StatusIs
  <2> QED BY <2>4, <2>5 DEF WholePromise!PromisePublishes, WholeStatus, WholePublished
<1>8. ASSUME \/ \E p \in Plan : CancelPlan(p) \/ ApplyPlan(p) \/ ConfirmSession(p)
             \/ AdmitIntent \/ PrepareRoot \/ CancelRoot \/ CancelIntent \/ AnnounceApplying
             \/ StartRoot \/ FinishRoot \/ CompleteRoot \/ ReportConfigured \/ EndCommand
             \/ Interrupt \/ UserEdit \/ UNCHANGED planVars
      PROVE  UNCHANGED <<custody, published>>
  BY <1>8 DEF CancelPlan, ApplyPlan, ConfirmSession, AdmitIntent, PrepareRoot, CancelRoot, CancelIntent,
       AnnounceApplying, StartRoot, FinishRoot, CompleteRoot, ReportConfigured, EndCommand, Interrupt,
       UserEdit, planVars, stores
<1> QED BY <1>1, <1>2, <1>3, <1>4, <1>5, <1>6, <1>7, <1>8
    DEF PlanNext, Request, Proceed, WholePromise!PromiseNext

(* A plan over many roots keeps the promise of one installation: whatever the
   interruptions, it is pending until its roots may change, and from then on it
   can only be brought to its end (apply_prepared, cancel_preparation). *)
THEOREM PlanImplementsPromise == PlanSpec => PlanKeepsPromise
<1>1. PlanInit => WholePromise!PromiseInit
  <2>1. PlanInit => WholePublished = {} /\ WholeStatus = [p \in Plan |-> "absent"]
    BY StatusOfIs DEF PlanInit, WholePublished, WholeStatus, StatusIs
  <2> QED BY <2>1 DEF WholePromise!PromiseInit, WholePublished, WholeStatus
<1> QED BY PlanInvariant, WholeStep, <1>1, PTL DEF PlanSpec, PlanKeepsPromise, WholePromise!PromiseSpec

RootStatus(r) == [p \in Plan |-> StatusOf(child[r][p])]

(* What the writer of one root does between two commands of a plan. *)
RootStays(r) == RootStatus(r)' = RootStatus(r) /\ published'[r] = published[r]

RootKeeps(r) == RootPromise(r)!PromiseNext \/ RootStays(r)

(* Only the root whose writer moves is touched. *)
LEMMA RootMoves ==
    ASSUME PlanTypeOK, NEW p \in Plan, NEW r \in Root, NEW to, ChildMoves(r, p, to)
    PROVE  /\ RootStatus(r)' = [RootStatus(r) EXCEPT ![p] = StatusOf(to)]
           /\ RootStatus(r)[p] = StatusOf(child[r][p])
           /\ \A s \in Root \ {r} : RootStatus(s)' = RootStatus(s)
<1>1. /\ child'[r][p] = to
      /\ \A q \in Plan \ {p} : child'[r][q] = child[r][q]
      /\ \A s \in Root \ {r} : \A q \in Plan : child'[s][q] = child[s][q]
  BY MovesOne
<1>2. \A q \in Plan : StatusOf(child'[r][q]) = IF q = p THEN StatusOf(to) ELSE StatusOf(child[r][q])
  BY <1>1
<1>3. \A s \in Root : RootStatus(s)' = [q \in Plan |-> StatusOf(child'[s][q])]
  BY DEF RootStatus
<1>4. \A s \in Root \ {r} : RootStatus(s)' = RootStatus(s)
  BY <1>1, <1>3 DEF RootStatus
<1>5. RootStatus(r)' = [RootStatus(r) EXCEPT ![p] = StatusOf(to)]
  BY <1>2, <1>3 DEF RootStatus
<1> QED BY <1>4, <1>5 DEF RootStatus

(* A step that moves the writer of one root is one of its promise there, and
   none elsewhere. *)
LEMMA MovingKeeps ==
    ASSUME PlanTypeOK, NEW p \in Plan, NEW r \in Root, NEW to, ChildMoves(r, p, to),
           UNCHANGED published,
           \/ child[r][p] = "absent" /\ to = "prepared" /\ RootIdle(r)
           \/ child[r][p] = "prepared" /\ to = "applying"
           \/ child[r][p] \in {"absent", "prepared"} /\ to = "cancelled"
           \/ child[r][p] = "finishing" /\ to = "done"
           \/ child[r][p] = "applying" /\ to = "finishing"
           \/ child[r][p] = to
    PROVE  \A s \in Root : RootKeeps(s)
<1>1. \A s \in Root \ {r} : RootKeeps(s)
  BY RootMoves DEF RootKeeps, RootStays
<1>2. /\ RootStatus(r)' = [RootStatus(r) EXCEPT ![p] = StatusOf(to)]
      /\ RootStatus(r)[p] = StatusOf(child[r][p])
      /\ published'[r] = published[r]
  BY RootMoves
<1>3. ASSUME child[r][p] = "absent" /\ to = "prepared" /\ RootIdle(r)
      PROVE  RootKeeps(r)
  <2>1. \A q \in Plan : RootStatus(r)[q] \notin {"pending", "started"}
    BY <1>3, IdleIsFinished DEF RootIdle, PlanTypeOK, RootStatus
  <2>2. RootPromise(r)!PromiseAdmits(p)
    BY <1>2, <1>3, <2>1, StatusOfIs
    DEF StatusIs, RootPromise!PromiseAdmits, RootPromise!Moves, RootPromise!Unfinished, RootStatus
  <2> QED BY <2>2 DEF RootKeeps, RootPromise!PromiseNext
<1>4. ASSUME child[r][p] = "prepared" /\ to = "applying"
      PROVE  RootKeeps(r)
  <2>1. RootPromise(r)!PromiseStarts(p)
    BY <1>2, <1>4, StatusOfIs DEF StatusIs, RootPromise!PromiseStarts, RootPromise!Moves, RootStatus
  <2> QED BY <2>1 DEF RootKeeps, RootPromise!PromiseNext
<1>5. ASSUME child[r][p] \in {"absent", "prepared"} /\ to = "cancelled"
      PROVE  RootKeeps(r)
  <2>1. RootPromise(r)!PromiseCancels(p)
    BY <1>2, <1>5, StatusOfIs DEF StatusIs, RootPromise!PromiseCancels, RootPromise!Moves, RootStatus
  <2> QED BY <2>1 DEF RootKeeps, RootPromise!PromiseNext
<1>6. ASSUME child[r][p] = "finishing" /\ to = "done"
      PROVE  RootKeeps(r)
  <2>1. RootPromise(r)!PromiseCompletes(p)
    BY <1>2, <1>6, StatusOfIs DEF StatusIs, RootPromise!PromiseCompletes, RootPromise!Moves, RootStatus
  <2> QED BY <2>1 DEF RootKeeps, RootPromise!PromiseNext
<1>7. ASSUME \/ child[r][p] = "applying" /\ to = "finishing"
             \/ child[r][p] = to
      PROVE  RootKeeps(r)
  <2>1. StatusOf(to) = RootStatus(r)[p]
    BY <1>2, <1>7, StatusOfIs DEF StatusIs
  <2>2. RootStatus(r)' = RootStatus(r)
    BY <1>2, <2>1 DEF RootStatus
  <2> QED BY <1>2, <2>2 DEF RootKeeps, RootStays
<1>8. RootKeeps(r)
  BY <1>3, <1>4, <1>5, <1>6, <1>7
<1> QED BY <1>1, <1>8

(* The same of a step that publishes in one root. *)
LEMMA PublishingKeeps ==
    ASSUME PlanTypeOK, NEW p \in Plan, NEW r \in Root, Publishes(p, r), UNCHANGED child,
           child[r][p] \in {"applying", "finishing"}
    PROVE  \A s \in Root : RootKeeps(s)
<1>1. \A s \in Root : RootStatus(s)' = RootStatus(s)
  BY DEF RootStatus
<1>2. \A s \in Root \ {r} : RootKeeps(s)
  BY <1>1, PublishesOne DEF RootKeeps, RootStays
<1>3. ASSUME file[r] = p
      PROVE  RootKeeps(r)
  BY <1>1, <1>3 DEF Publishes, RootKeeps, RootStays
<1>4. ASSUME file[r] # p
      PROVE  RootKeeps(r)
  <2>1. published' = [published EXCEPT ![r] = @ \cup {p}]
    BY <1>4 DEF Publishes
  <2>2. published'[r] = published[r] \cup {p}
    BY <2>1 DEF PlanTypeOK
  <2>3. RootStatus(r)[p] = "started"
    BY StatusOfIs DEF StatusIs, RootStatus
  <2>4. RootPromise(r)!PromisePublishes(p)
    BY <1>1, <2>2, <2>3 DEF RootPromise!PromisePublishes, RootStatus
  <2> QED BY <2>4 DEF RootKeeps, RootPromise!PromiseNext
<1> QED BY <1>2, <1>3, <1>4

LEMMA RootsStep ==
    ASSUME PlanTypeOK, PlanInv, [PlanNext]_planVars
    PROVE  \A r \in Root : RootKeeps(r)
<1> DEFINE p == command.plan
<1>1. ASSUME UNCHANGED <<child, published>> PROVE \A r \in Root : RootKeeps(r)
  BY <1>1 DEF RootKeeps, RootStays, RootStatus
<1>2. ASSUME PrepareRoot \/ CancelRoot \/ StartRoot \/ FinishRoot \/ CompleteRoot
      PROVE  \A r \in Root : RootKeeps(r)
  <2>1. p \in Plan
    BY <1>2 DEF PrepareRoot, CancelRoot, StartRoot, FinishRoot, CompleteRoot, CommandAt, PlanTypeOK
  <2>2. UNCHANGED published
    BY <1>2 DEF PrepareRoot, CancelRoot, StartRoot, FinishRoot, CompleteRoot
  <2>3. CASE UNCHANGED child
    BY <1>1, <2>2, <2>3
  <2>4. CASE ~UNCHANGED child
    <3>1. PICK r \in command.todo :
             \/ child[r][p] = "absent" /\ RootIdle(r) /\ ChildMoves(r, p, "prepared")
             \/ child[r][p] \in {"absent", "prepared", "cancelled"} /\ ChildMoves(r, p, "cancelled")
             \/ child[r][p] \in {"applying", "prepared"} /\ ChildMoves(r, p, "applying")
             \/ child[r][p] = "applying" /\ ChildMoves(r, p, "finishing")
             \/ child[r][p] = "finishing" /\ ChildMoves(r, p, "done")
      BY <1>2, <2>4 DEF PrepareRoot, CancelRoot, StartRoot, FinishRoot, CompleteRoot,
           MayPrepare, MayWithdraw, MayStartRoot, Unstarted
    <3>2. r \in Root
      BY <3>1 DEF PlanTypeOK
    <3> QED BY <2>1, <2>2, <3>1, <3>2, MovingKeeps
  <2> QED BY <2>3, <2>4
<1>3. ASSUME ApplyRoot \/ RepublishRoot PROVE \A r \in Root : RootKeeps(r)
  <2>1. p \in Plan
    BY <1>3 DEF ApplyRoot, RepublishRoot, CommandAt, PlanTypeOK
  <2>2. PICK r \in command.todo : /\ Publishes(p, r)
                                  /\ child[r][p] = "finishing" \/ command.at = "apply"
    BY <1>3 DEF ApplyRoot, RepublishRoot, CommandAt
  <2>3. r \in Root /\ r \in RootsOf[p]
    BY <1>3, <2>2 DEF PlanTypeOK, PlanInv, CommandStands, ApplyRoot, RepublishRoot, CommandAt
  <2>4. child[r][p] \in {"applying", "finishing"}
    BY <2>2, <2>3 DEF PlanInv, CommandStands, ChildrenIn
  <2>5. UNCHANGED child
    BY <1>3 DEF ApplyRoot, RepublishRoot
  <2> QED BY <2>1, <2>2, <2>3, <2>4, <2>5, PublishingKeeps
<1>4. ASSUME \/ \E q \in Plan : Request(q)
             \/ AdmitIntent \/ CancelIntent \/ CancelCustody \/ StartCustody \/ AnnounceApplying
             \/ FinishCustody \/ CommitCustody \/ ReportConfigured \/ EndCommand
             \/ Interrupt \/ UserEdit \/ UNCHANGED planVars
      PROVE  UNCHANGED <<child, published>>
  BY <1>4 DEF Request, PreparePlan, CancelPlan, ApplyPlan, ConfirmSession, AdmitIntent, CancelIntent,
       CancelCustody, StartCustody, AnnounceApplying, FinishCustody, CommitCustody, ReportConfigured,
       EndCommand, Interrupt, UserEdit, planVars, stores
<1> QED BY <1>1, <1>2, <1>3, <1>4 DEF PlanNext, Proceed

(* No step of a plan asks the writer of a root for more than it promises
   (prepare, start, apply, complete, cancel of forward.rs). *)
THEOREM RootsImplementPromise == PlanSpec => RootsKeepPromise
<1>1. PlanInit => \A r \in Root : RootPromise(r)!PromiseInit
  <2> SUFFICES ASSUME PlanInit, NEW r \in Root PROVE RootPromise(r)!PromiseInit
    OBVIOUS
  <2>1. published[r] = {}
    BY DEF PlanInit
  <2>2. RootStatus(r) = [p \in Plan |-> "absent"]
    BY StatusOfIs DEF PlanInit, StatusIs, RootStatus
  <2> QED BY <2>1, <2>2 DEF RootPromise!PromiseInit, RootStatus
<1>2. PlanTypeOK /\ PlanInv /\ [PlanNext]_planVars
         => [\A r \in Root : [RootPromise(r)!PromiseNext]_(RootPromise(r)!promiseVars)]_planVars
  BY RootsStep DEF RootKeeps, RootStays, RootStatus, RootPromise!promiseVars
<1> QED BY PlanInvariant, <1>1, <1>2, PTL DEF PlanSpec, RootsKeepPromise
=============================================================================
