---------------------------- MODULE MCSyncEngine ----------------------------
(* Instances of SyncEngine for TLC: the device that created the passport is
   replaced once. *)
EXTENDS SyncEngine

MCEventId == 1 .. MaxEvents

MCReplacements == [d \in Device |-> IF d = Origin THEN 1 ELSE 0]
=============================================================================
