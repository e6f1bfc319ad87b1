---------------------------- MODULE MCNativePlan ----------------------------
(* Instances of NativePlan for TLC: one plan over both roots, one over the
   second. *)
EXTENDS NativePlan, TLC

CONSTANTS p1, p2, r1, r2

MCRootsOf == (p1 :> {r1, r2}) @@ (p2 :> {r2})
=============================================================================
