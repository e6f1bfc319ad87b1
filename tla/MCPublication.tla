---------------------------- MODULE MCPublication ----------------------------
(* Instances of Publication for TLC.  All plans publish to one coordinate, each
   a passport of its own. *)
EXTENDS Publication, TLC

MCJob         == {"validate", "publish"} \X Plan
MCValidateJob == [p \in Plan |-> <<"validate", p>>]
MCPublishJob  == [p \in Plan |-> <<"publish", p>>]
MCOwnerOf     == [w \in Worker |-> w]
MCCoordinateOf == [p \in Plan |-> CHOOSE c \in Coordinate : TRUE]
MCDigestOf    == [p \in Plan |-> p]

PubSymmetry == Permutations(Worker) \cup Permutations(Request) \cup Permutations(Plan)
==============================================================================
