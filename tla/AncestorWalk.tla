---------------------------- MODULE AncestorWalk ----------------------------
(***************************************************************************)
(* _undelivered_ancestors (slices/sync/service.py): the bounded depth-first*)
(* walk that decides what has to be delivered ahead of an accepted merge,  *)
(* one action per turn of its loop.                                        *)
(***************************************************************************)
EXTENDS SyncGraph

CONSTANTS
    Size,            \* the account holds the revisions 1 .. Size, in the order
                     \* it stored them
    MaxUndelivered   \* MAX_UNDELIVERED_ANCESTORS

ASSUME WalkAssumption == Size \in Nat /\ MaxUndelivered \in Nat \ {0}

VARIABLES
    parents,     \* parent_revision_ids of each revision
    delivered,   \* the revisions of the outbox
    roots,       \* the parents of the event to accept
    stack,       \* revisions to visit, each marked when its parents are on top of it
    seen, ordered

account  == <<parents, delivered, roots>>
walkVars == <<account, stack, seen, ordered>>

Revision == 1 .. Size

(* The orders in which a list may name the revisions of a set. *)
Lists(S) == {s \in [1 .. Cardinality(S) -> S] :
                \A r \in S : \E i \in DOMAIN s : s[i] = r}

Entries(s) == [i \in DOMAIN s |-> <<s[i], FALSE>>]

(* Parents are stored before their children, and delivered before them.  An
   accepted event names the head, which was delivered, and at most one other
   revision. *)
WalkInit ==
    /\ parents \in {f \in [Revision -> SUBSET Revision] :
                       \A r \in Revision : /\ f[r] \subseteq 1 .. r - 1
                                           /\ Cardinality(f[r]) <= 2}
    /\ delivered \in {D \in SUBSET Revision : \A r \in D : parents[r] \subseteq D}
    /\ roots \in {R \in SUBSET Revision : /\ Cardinality(R) <= 2
                                          /\ R = {} \/ R \cap delivered # {}}
    /\ \E s \in Lists(roots \ delivered) : stack = Entries(s)
    /\ seen = {}
    /\ ordered = <<>>

Running == stack # <<>> /\ Len(ordered) < MaxUndelivered

Top  == stack[Len(stack)]
Rest == SubSeq(stack, 1, Len(stack) - 1)

(* All its undelivered ancestors are in place. *)
Emit == /\ Running
        /\ Top[2]
        /\ ordered' = Append(ordered, Top[1])
        /\ stack' = Rest
        /\ UNCHANGED <<account, seen>>

Skip == /\ Running
        /\ ~Top[2]
        /\ Top[1] \in seen \cup delivered
        /\ stack' = Rest
        /\ UNCHANGED <<account, seen, ordered>>

(* Defect for the mutant runs: a revision is emitted before its parents. *)
ExpandPreOrder ==
    /\ Running
    /\ ~Top[2]
    /\ Top[1] \notin seen \cup delivered
    /\ seen' = seen \cup {Top[1]}
    /\ ordered' = Append(ordered, Top[1])
    /\ \E s \in Lists(parents[Top[1]] \ (delivered \cup seen')) :
          stack' = Rest \o Entries(s)
    /\ UNCHANGED account

(* Defect: the revision is put back unmarked, and expanded again. *)
ExpandUnmarked ==
    /\ Running
    /\ ~Top[2]
    /\ Top[1] \notin delivered
    /\ \E s \in Lists(parents[Top[1]] \ delivered) :
          stack' = Append(Rest, <<Top[1], FALSE>>) \o Entries(s)
    /\ UNCHANGED <<account, seen, ordered>>

(* The walk comes back to the revision after the parents it stacks on it. *)
Expand == /\ Running
          /\ ~Top[2]
          /\ Top[1] \notin seen \cup delivered
          /\ seen' = seen \cup {Top[1]}
          /\ \E s \in Lists(parents[Top[1]] \ (delivered \cup seen')) :
                stack' = Append(Rest, <<Top[1], TRUE>>) \o Entries(s)
          /\ UNCHANGED <<account, ordered>>

WalkNext == Emit \/ Skip \/ Expand

WalkSpec == WalkInit /\ [][WalkNext]_walkVars /\ WF_walkVars(WalkNext)
-----------------------------------------------------------------------------
(***************************************************************************)
(* Properties.                                                             *)
(***************************************************************************)

(* What the walk answers: an order in which the whole backlog can be
   delivered, or the refusal of a backlog beyond the bound.  The test for a
   rest of the stack never refuses a backlog of exactly the bound, although
   the stack may hold a revision twice, because the last revision emitted is
   the only undelivered root. *)
WalkIsExact ==
    ~Running => LET B == Backlog(parents, delivered, roots)
                IN IF stack = <<>>
                   THEN ordered \in Deliveries(B, parents)
                   ELSE Cardinality(B) > MaxUndelivered

(* The loop ends: a revision is expanded once. *)
WalkEnds == <>[](~Running)
=============================================================================
