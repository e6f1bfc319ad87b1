-------------------------- MODULE MCUpstreamLedger --------------------------
(* An instance of UpstreamLedger for TLC: every process has its own worker_id. *)
EXTENDS UpstreamLedger

CONSTANTS
    Helper,     \* the processes that work only until a plan is started
    Spare       \* the plans that are started when the others have been

ASSUME BoundsAssumption == Helper \subseteq Worker /\ Spare \subseteq Plan

MCOwnerOf == [w \in Worker |-> w]

(* The bounds of the instance: several processes share the queue until a plan
   is started; from then on the helpers rest.  A run that would start a plan
   beyond the bounds may end in another way, and what has to happen in the end
   is left to the processes that go on. *)
Unstarted(p) == plan[p].state = "absent"

HelpersRest ==
    \A w \in Helper : worker[w].pc = "polling" /\ recording[w] = NotRecording

WithinBounds ==
    /\ (\A p \in Plan : Unstarted(p)) \/ HelpersRest
    /\ (\A p \in Spare : Unstarted(p)) \/ ~\E p \in Plan : Unstarted(p)

BoundedSpec == UpInit /\ [][UpNext /\ WithinBounds']_upVars /\ UpFairness
=============================================================================
