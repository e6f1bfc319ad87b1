------------------------------ MODULE SyncGraph ------------------------------
(***************************************************************************)
(* The graph of private revisions an account holds: each revision names at *)
(* most two parents, and the account's stream must deliver parents first.  *)
(***************************************************************************)
EXTENDS Integers, FiniteSets, Sequences

(* A device can apply the stream from its first position: every parent was
   delivered before the revision that names it. *)
ParentsFirst(stream, parents) ==
    \A i \in 1 .. Len(stream) : \A p \in parents[stream[i]] :
        \E h \in 1 .. i - 1 : stream[h] = p

(* What was never delivered among some revisions and their ancestors: the
   least set that holds the undelivered roots and, with a revision, its
   undelivered parents. *)
ClosedUp(C, parents, delivered, roots) ==
    /\ roots \ delivered \subseteq C
    /\ \A r \in C : parents[r] \ delivered \subseteq C

Backlog(parents, delivered, roots) ==
    {r \in DOMAIN parents :
        \A C \in SUBSET DOMAIN parents :
            ClosedUp(C, parents, delivered, roots) => r \in C}

(* The orders in which a backlog may be delivered. *)
IsDelivery(s, B, parents) ==
    /\ \A r \in B : \E i \in DOMAIN s : s[i] = r
    /\ \A i, j \in DOMAIN s : /\ s[i] = s[j] => i = j
                              /\ s[i] \in parents[s[j]] => i < j

Deliveries(B, parents) ==
    {s \in [1 .. Cardinality(B) -> B] : IsDelivery(s, B, parents)}
=============================================================================
