---------------------------- MODULE JobDelivery ----------------------------
(***************************************************************************)
(* What the job queue promises to the code that enqueues work, with the    *)
(* workers, leases and retries hidden: a job is pending until one verdict  *)
(* is recorded, success is recorded only after the work was applied, work  *)
(* may be applied more than once, and only a cancellation may replace a    *)
(* verdict (cancel decides on a state it read before, queue/engine.py).    *)
(***************************************************************************)
CONSTANT Job

VARIABLES status, applied

vars == <<status, applied>>

Verdicts == {"succeeded", "dead_letter", "cancelled"}

Init == /\ status = [j \in Job |-> "absent"]
        /\ applied = {}

(* One transaction may submit several jobs, and apply the work of another. *)
Submitted(jobs) ==
    [j \in Job |-> IF j \in jobs THEN "pending" ELSE status[j]]

Submit(jobs) ==
    /\ jobs # {}
    /\ \A j \in jobs : status[j] = "absent"
    /\ status' = Submitted(jobs)
    /\ applied' = applied \ jobs

Apply(j, jobs) ==
    /\ status[j] # "absent"
    /\ \A k \in jobs : status[k] = "absent"
    /\ status' = Submitted(jobs)
    /\ applied' = (applied \ jobs) \cup {j}

Succeed(j) ==
    /\ status[j] = "pending"
    /\ j \in applied
    /\ status' = [status EXCEPT ![j] = "succeeded"]
    /\ UNCHANGED applied

(* One transaction may give up on several jobs whose workers were lost. *)
GiveUp(jobs) ==
    /\ \A j \in jobs : status[j] = "pending"
    /\ status' = [j \in Job |-> IF j \in jobs THEN "dead_letter" ELSE status[j]]
    /\ UNCHANGED applied

Cancel(j) ==
    /\ status[j] # "absent"
    /\ status' = [status EXCEPT ![j] = "cancelled"]
    /\ UNCHANGED applied

Forget(j) ==
    /\ status[j] \in Verdicts
    /\ status' = [status EXCEPT ![j] = "absent"]
    /\ UNCHANGED applied

Next == \/ \E jobs \in SUBSET Job : Submit(jobs) \/ GiveUp(jobs)
        \/ \E j \in Job : \/ \E jobs \in SUBSET Job : Apply(j, jobs)
                           \/ Succeed(j)
                           \/ Cancel(j)
                           \/ Forget(j)

Spec == Init /\ [][Next]_vars
=============================================================================
