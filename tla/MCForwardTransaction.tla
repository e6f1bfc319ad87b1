------------------------ MODULE MCForwardTransaction ------------------------
(* Instances of ForwardTransaction for TLC: the first operation replaces one
   file and removes another, the second one replaces the first file again and
   adds metadata. *)
EXTENDS ForwardTransaction, TLC

CONSTANTS o1, o2, f1, f2

MCChangesOf == (o1 :> {f1, f2}) @@ (o2 :> {f1})
MCMetaOf    == (o1 :> {}) @@ (o2 :> {f2})
MCRemovedBy == (o1 :> {f2}) @@ (o2 :> {})
=============================================================================
