----------------------------- MODULE SyncLedger -----------------------------
(***************************************************************************)
(* One account's private revision ledger (apps/api/.../slices/sync): what  *)
(* its devices push and what they can pull.                                *)
(*                                                                         *)
(* An action applies one event of a push (_apply_one): the account row is  *)
(* locked before anything is read, and the transaction is committed before *)
(* the next event, so events of all devices are applied one at a time, in  *)
(* any order, and a device whose answer was lost repeats any of them.      *)
(* Pulls read the stream and change nothing.                               *)
(***************************************************************************)
EXTENDS SyncGraph

CONSTANTS
    Entity,
    Singleton,        \* the entities of SINGLETON_ENTITY_KINDS
    EventId,          \* chosen by the devices
    MaxUndelivered,   \* MAX_UNDELIVERED_ANCESTORS
    MaxEvents         \* bound: how many idempotency keys are used

ASSUME SyncAssumption == /\ Singleton \subseteq Entity
                         /\ MaxUndelivered \in Nat \ {0}
                         /\ MaxEvents \in Nat

VARIABLES
    revision,   \* sync_revision, in the order the rows were stored
    head,       \* sync_entity_head
    stream,     \* sync_outbox in the order of its sequence numbers
    receipt     \* sync_event_receipt, in the order the keys were first used

syncVars == <<revision, head, stream, receipt>>

-----------------------------------------------------------------------------
(* A content-addressed revision id is abstracted to the place of its row. *)
NoRevision == 0        \* null
Unknown    == -1       \* an id the account does not hold
Held       == DOMAIN revision
ParentsOf  == [r \in Held |-> revision[r].parents]
Delivered  == {stream[i] : i \in DOMAIN stream}

(* An event that validate_event_document lets pass. *)
Content == {c \in [entity    : Entity,
                   parents   : {P \in SUBSET (Held \cup {Unknown}) :
                                   Cardinality(P) <= 2},
                   tombstone : BOOLEAN,
                   eventId   : EventId] : c.tombstone => c.parents # {}}

Receipt == [state    : {"accepted", "conflict", "superseded", "rejected"},
            revision : Held \cup {NoRevision},
            sequence : Nat]

Answer(state, r, n) == [state |-> state, revision |-> r, sequence |-> n]

(* A stored revision names revisions stored before it, of its own entity. *)
ParentsOK(r) == \A p \in revision[r].parents :
                   p \in 1 .. r - 1 /\ revision[p].entity = revision[r].entity

LedgerTypeOK == /\ revision \in Seq(Content)
                /\ \A r \in Held : ParentsOK(r)
                /\ head \in [Entity -> Held \cup {NoRevision}]
                /\ stream \in Seq(Held)
                /\ receipt \in Seq(Receipt)

LedgerInit == /\ revision = <<>>
              /\ head = [e \in Entity |-> NoRevision]
              /\ stream = <<>>
              /\ receipt = <<>>

-----------------------------------------------------------------------------
(* The decisions of _apply_one, in its order. *)

LiveEntities == {e \in Entity : /\ head[e] # NoRevision
                                /\ ~revision[head[e]].tombstone}

(* Defect for the mutant runs: a new entity is not compared with the others. *)
SecondIdentityUnheaded(e) == /\ e \in Singleton
                             /\ head[e] # NoRevision
                             /\ \E f \in LiveEntities \cap Singleton : f # e

(* The account holds another live identity of a kind that admits one. *)
SecondIdentity(e) == /\ e \in Singleton
                     /\ \E f \in LiveEntities \cap Singleton : f # e

KnownParents(c) == \A p \in c.parents :
                      p \in Held /\ revision[p].entity = c.entity

(* Defect: a merge need not name the head it replaces. *)
CanAcceptHeadTransitionLoose(c, expectsHead) == expectsHead

(* An event names the head it expects, or none: expectsHead says that it is
   the head the entity has, or has not. *)
CanAcceptHeadTransition(c, expectsHead) ==
    /\ expectsHead
    /\ \/ head[c.entity] = NoRevision /\ c.parents = {}
       \/ head[c.entity] \in c.parents

(* Defect: only the event itself is delivered. *)
UndeliveredNone(c) == {}

Undelivered(c) == Backlog(ParentsOf, Delivered, c.parents)

(* Defect: what was delivered before is not looked up. *)
CollidesAhead(c) ==
    LET B == Undelivered(c)
    IN \/ \E r \in B : revision[r].eventId = c.eventId
       \/ \E r, s \in B : r # s /\ revision[r].eventId = revision[s].eventId

(* The stream holds an event id once: not in what is delivered ahead of the
   event, and not in what was delivered before. *)
Collides(c) ==
    LET B == Undelivered(c)
        emitted == {revision[r].eventId : r \in B}
    IN \/ c.eventId \in emitted
       \/ \E r, s \in B : r # s /\ revision[r].eventId = revision[s].eventId
       \/ \E r \in Delivered : revision[r].eventId \in emitted \cup {c.eventId}

Fits(c) == Cardinality(Undelivered(c)) <= MaxUndelivered

Admissible(c) == ~SecondIdentity(c.entity) /\ KnownParents(c)

(* A key that was used before is answered with its receipt, or refused when it
   comes with another event, and nothing changes. *)
Answers(answer) == receipt' = Append(receipt, answer)

Rejects == Answers(Answer("rejected", NoRevision, 0))

New == Len(revision) + 1

Retains(c) == revision' = Append(revision, c)
-----------------------------------------------------------------------------
(* validate_event_document raises. *)
RejectInvalid ==
    /\ Rejects
    /\ UNCHANGED <<revision, head, stream>>

(* Defect: a stored revision was delivered. *)
RepeatAsSuperseded(r) ==
    /\ Answers(Answer("superseded", r, 0))
    /\ UNCHANGED <<revision, head, stream>>

(* The revision is stored already, pushed under another key. *)
Repeat(r) ==
    /\ Answers(Answer(IF r \in Delivered \/ head[revision[r].entity] = r
                      THEN "superseded" ELSE "conflict", r, 0))
    /\ UNCHANGED <<revision, head, stream>>

(* The event adds a second identity, or names a parent that is unknown or of
   another entity. *)
RejectInadmissible(c) ==
    /\ ~Admissible(c)
    /\ Rejects
    /\ UNCHANGED <<revision, head, stream>>

(* The event does not extend the head: its revision is kept for a merge. *)
Conflict(c, expectsHead) ==
    /\ Admissible(c)
    /\ ~CanAcceptHeadTransition(c, expectsHead)
    /\ Retains(c)
    /\ Answers(Answer("conflict", New, 0))
    /\ UNCHANGED <<head, stream>>

(* Its ancestors are too many to deliver at once: kept as well. *)
RefuseBacklog(c, expectsHead) ==
    /\ Admissible(c)
    /\ CanAcceptHeadTransition(c, expectsHead)
    /\ ~Fits(c)
    /\ Retains(c)
    /\ Rejects
    /\ UNCHANGED <<head, stream>>

RefuseCollision(c, expectsHead) ==
    /\ Admissible(c)
    /\ CanAcceptHeadTransition(c, expectsHead)
    /\ Fits(c)
    /\ Collides(c)
    /\ Rejects
    /\ UNCHANGED <<revision, head, stream>>

(* The undelivered ancestors go out first, in an order the walk of
   AncestorWalk finds, then the event. *)
Accept(c, expectsHead) ==
    /\ Admissible(c)
    /\ CanAcceptHeadTransition(c, expectsHead)
    /\ Fits(c)
    /\ ~Collides(c)
    /\ \E ahead \in Deliveries(Undelivered(c), ParentsOf) :
          stream' = Append(stream \o ahead, New)
    /\ Retains(c)
    /\ head' = [head EXCEPT ![c.entity] = New]
    /\ Answers(Answer("accepted", New, Len(stream')))

ApplyAs(c, expectsHead) == \/ RejectInadmissible(c)
                           \/ Conflict(c, expectsHead)
                           \/ RefuseBacklog(c, expectsHead)
                           \/ RefuseCollision(c, expectsHead)
                           \/ Accept(c, expectsHead)

Apply(c) == \E expectsHead \in BOOLEAN : ApplyAs(c, expectsHead)

LedgerNext == /\ Len(receipt) < MaxEvents
              /\ \/ RejectInvalid
                 \/ \E r \in Held : Repeat(r)
                 \/ \E c \in Content : Apply(c)

LedgerSpec == LedgerInit /\ [][LedgerNext]_syncVars
-----------------------------------------------------------------------------
(***************************************************************************)
(* Properties.                                                             *)
(***************************************************************************)

(* A fresh device can apply the stream from its start, wherever a page of it
   ends: a merge never names a revision that a conflict kept out of it
   (_undelivered_ancestors). *)
StreamApplicable == ParentsFirst(stream, ParentsOf)

(* No revision and no event id is delivered twice: the unique constraint on
   the outbox is never what refuses a push. *)
StreamUnique ==
    \A i, j \in DOMAIN stream :
        revision[stream[i]].eventId = revision[stream[j]].eventId => i = j

(* No accepted update is lost: whatever was delivered is the head of its
   entity, or another delivered revision was built on it. *)
HeadCoversStream ==
    \A r \in Delivered : \/ head[revision[r].entity] = r
                         \/ \E s \in Delivered : r \in revision[s].parents

(* In every prefix of the stream, at most one entity of a singleton kind is
   live: its last revision so far is no tombstone.  A device refuses a page
   that shows it a second developer passport, and then never syncs again. *)
LiveAt(n) ==
    {e \in Singleton :
        \E i \in 1 .. n : /\ revision[stream[i]].entity = e
                          /\ ~revision[stream[i]].tombstone
                          /\ \A j \in i + 1 .. n : revision[stream[j]].entity # e}

OneLiveIdentity ==
    \A n \in DOMAIN stream : \A e, f \in LiveAt(n) : e = f

(* A receipt stays true: what it calls accepted is in the stream at its
   cursor, what it calls superseded has been delivered, and what it calls a
   conflict is kept for the merge. *)
ReceiptsAreTrue ==
    \A k \in DOMAIN receipt :
        LET a == receipt[k]
        IN /\ a.state = "accepted" => /\ a.sequence \in DOMAIN stream
                                      /\ stream[a.sequence] = a.revision
           /\ a.state = "superseded" => a.revision \in Delivered
           /\ a.state = "conflict" => a.revision \in Held
=============================================================================
