----------------------------- MODULE MCJobQueue -----------------------------
(* Instances of JobQueue for TLC: every worker process has a worker_id of its
   own. *)
EXTENDS JobQueue, TLC

MCOwnerOf == [w \in Worker |-> w]

(* Nobody cancels a job. *)
UncancelledSpec == Init /\ [][Next /\ cancelling' = {}]_vars

Symmetry == Permutations(Job) \cup Permutations(Worker)
=============================================================================
