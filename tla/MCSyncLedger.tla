---------------------------- MODULE MCSyncLedger ----------------------------
(* Instances of SyncLedger for TLC. *)
EXTENDS SyncLedger, TLC

SyncSymmetry == Permutations(EventId) \cup Permutations(Entity)
=============================================================================
