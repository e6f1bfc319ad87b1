--------------------------- MODULE InstallPromise ---------------------------
(* What the forward writer promises its callers for one target
   (apps/cli/src/installation/forward.rs, Progress): an operation is pending
   until its publication may begin, and only till then can it be cancelled; a
   published one can only be brought to its end, whoever resumes it and however
   often its requests are repeated. *)
CONSTANT Op

VARIABLES
    status,       \* what progress() tells of each operation
    published     \* operations that changed a file of the target

promiseVars == <<status, published>>

Unfinished == {"pending", "started"}

PromiseInit == status = [o \in Op |-> "absent"] /\ published = {}

Moves(o, from, to) == status[o] \in from /\ status' = [status EXCEPT ![o] = to]

PromiseAdmits(o) == /\ \A p \in Op : status[p] \notin Unfinished
                    /\ Moves(o, {"absent"}, "pending")
                    /\ UNCHANGED published
PromiseStarts(o)    == Moves(o, {"pending"}, "started") /\ UNCHANGED published
PromisePublishes(o) == /\ status[o] = "started"
                       /\ published' = published \cup {o}
                       /\ UNCHANGED status
PromiseCancels(o)   == Moves(o, {"absent", "pending"}, "cancelled") /\ UNCHANGED published
PromiseCompletes(o) == Moves(o, {"started"}, "done") /\ UNCHANGED published

PromiseNext == \E o \in Op : \/ PromiseAdmits(o)
                             \/ PromiseStarts(o)
                             \/ PromisePublishes(o)
                             \/ PromiseCancels(o)
                             \/ PromiseCompletes(o)

PromiseSpec == PromiseInit /\ [][PromiseNext]_promiseVars
=============================================================================
