-------------------------- MODULE SyncLedgerProofs --------------------------
(***************************************************************************)
(* The ledger's theorems: whatever the devices of an account push, and in  *)
(* whatever order, the stream stays applicable and covered by its heads.   *)
(* The argument is about one step, Accept; the other steps only store      *)
(* revisions and receipts.  Of the backlog that Accept delivers it uses    *)
(* only that it is a least fixed point.                                    *)
(***************************************************************************)
EXTENDS SyncLedger, FiniteSetTheorems, TLAPS

-----------------------------------------------------------------------------
(* Backlog is a least fixed point: it is closed, disjoint from what was
   delivered, within every closed set, and each of its members is a root or has
   a child in it. *)

LEMMA BacklogClosed ==
    ASSUME NEW R, NEW parents \in [R -> SUBSET R], NEW D, NEW roots \in SUBSET R
    PROVE  LET B == Backlog(parents, D, roots)
           IN /\ B \subseteq R
              /\ roots \ D \subseteq B
              /\ \A r \in B : parents[r] \ D \subseteq B
BY DEF Backlog, ClosedUp

LEMMA BacklogLeast ==
    ASSUME NEW R, NEW parents \in [R -> SUBSET R], NEW D, NEW roots \in SUBSET R,
           NEW C \in SUBSET R, ClosedUp(C, parents, D, roots)
    PROVE  Backlog(parents, D, roots) \subseteq C
BY DEF Backlog

LEMMA BacklogUndelivered ==
    ASSUME NEW R, NEW parents \in [R -> SUBSET R], NEW D, NEW roots \in SUBSET R
    PROVE  Backlog(parents, D, roots) \cap D = {}
<1>1. ClosedUp(R \ D, parents, D, roots)
  BY DEF ClosedUp
<1> QED BY <1>1, BacklogLeast

LEMMA BacklogHasChildren ==
    ASSUME NEW R, NEW parents \in [R -> SUBSET R], NEW D, NEW roots \in SUBSET R
    PROVE  LET B == Backlog(parents, D, roots)
           IN \A r \in B : r \in roots \/ \E s \in B : r \in parents[s]
<1> DEFINE B == Backlog(parents, D, roots)
           C == {r \in B : r \in roots \/ \E s \in B : r \in parents[s]}
<1>1. /\ B \subseteq R
      /\ roots \ D \subseteq B
      /\ \A r \in B : parents[r] \ D \subseteq B
  BY BacklogClosed
<1> HIDE DEF B
<1>2. ClosedUp(C, parents, D, roots)
  BY <1>1 DEF ClosedUp
<1>3. B \subseteq C
  BY <1>1, <1>2, BacklogLeast DEF B
<1> QED BY <1>3 DEF B

(* What is below a revision's parents belongs to its entity. *)
LEMMA BacklogKeeps ==
    ASSUME NEW R, NEW parents \in [R -> SUBSET R], NEW D, NEW roots \in SUBSET R,
           NEW C \in SUBSET R, roots \subseteq C, \A r \in C : parents[r] \subseteq C
    PROVE  Backlog(parents, D, roots) \subseteq C
<1>1. ClosedUp(C, parents, D, roots)
  BY DEF ClosedUp
<1> QED BY <1>1, BacklogLeast

-----------------------------------------------------------------------------
(* The tables. *)

LEMMA HeldIsInterval ==
    ASSUME LedgerTypeOK
    PROVE  /\ Len(revision) \in Nat
           /\ Held = 1 .. Len(revision)
           /\ New \notin Held
           /\ NoRevision \notin Held
           /\ Unknown \notin Held
BY DEF LedgerTypeOK, Held, New, NoRevision, Unknown

LEMMA ContentFields ==
    ASSUME NEW c \in Content
    PROVE  /\ c.entity \in Entity
           /\ c.parents \subseteq Held \cup {Unknown}
           /\ c.eventId \in EventId
           /\ c.tombstone \in BOOLEAN
BY DEF Content

LEMMA ParentsAreHeld ==
    ASSUME LedgerTypeOK
    PROVE  /\ ParentsOf \in [Held -> SUBSET Held]
           /\ \A r \in Held : /\ ParentsOf[r] = revision[r].parents
                              /\ revision[r].entity \in Entity
                              /\ \A p \in revision[r].parents :
                                    revision[p].entity = revision[r].entity
<1>1. /\ Len(revision) \in Nat /\ Held = 1 .. Len(revision)
  BY HeldIsInterval
<1>2. \A r \in Held : revision[r] \in Content
  BY <1>1 DEF LedgerTypeOK
<1>3. \A r \in Held : revision[r].parents \subseteq Held
  BY <1>1 DEF LedgerTypeOK, ParentsOK
<1>4. \A r \in Held : revision[r].entity \in Entity
  BY <1>2, ContentFields
<1> QED BY <1>3, <1>4 DEF ParentsOf, LedgerTypeOK, ParentsOK

(* A revision is stored: what was held stays as it is. *)
LEMMA RetainsShape ==
    ASSUME LedgerTypeOK, NEW c \in Content, KnownParents(c), Retains(c)
    PROVE  /\ Held' = Held \cup {New}
           /\ \A r \in Held : revision'[r] = revision[r]
           /\ revision'[New] = c
           /\ revision' \in Seq(Content')
           /\ \A r \in Held' : ParentsOK(r)'
<1>1. /\ Len(revision) \in Nat /\ Held = 1 .. Len(revision)
  BY HeldIsInterval
<1>2. revision \in Seq(Content) /\ \A r \in Held : ParentsOK(r)
  BY DEF LedgerTypeOK
<1>3. revision' = Append(revision, c)
  BY DEF Retains
<1>4. /\ Len(revision') = Len(revision) + 1
      /\ DOMAIN revision' = 1 .. Len(revision) + 1
      /\ \A r \in 1 .. Len(revision) : revision'[r] = revision[r]
      /\ revision'[Len(revision) + 1] = c
  BY <1>2, <1>3
<1>5. Held' = Held \cup {New}
  BY <1>1, <1>4 DEF Held, New
<1>6. Content \subseteq Content'
  BY <1>5 DEF Content
<1>7. revision' \in Seq(Content')
  <2>1. c \in Content' /\ revision \in Seq(Content')
    BY <1>2, <1>6
  <2> QED BY <1>3, <2>1
<1>8. ASSUME NEW r \in Held PROVE ParentsOK(r)'
  BY <1>1, <1>2, <1>4 DEF ParentsOK
<1>9. ASSUME NEW r, r = Len(revision) + 1 PROVE ParentsOK(r)'
  <2>1. revision'[r] = c
    BY <1>4, <1>9
  <2>2. \A p \in c.parents : p \in 1 .. r - 1 /\ revision'[p].entity = c.entity
    BY <1>1, <1>4, <1>9 DEF KnownParents
  <2> QED BY <2>1, <2>2 DEF ParentsOK
<1>10. \A r \in Held' : ParentsOK(r)'
  BY <1>5, <1>8, <1>9 DEF New
<1>11. /\ \A r \in Held : revision'[r] = revision[r]
       /\ revision'[New] = c
  BY <1>1, <1>4 DEF New
<1> QED BY <1>5, <1>7, <1>10, <1>11

-----------------------------------------------------------------------------
(* What Accept delivers. *)

LEMMA UndeliveredFacts ==
    ASSUME LedgerTypeOK, NEW c \in Content, KnownParents(c)
    PROVE  LET B == Undelivered(c)
           IN /\ B \subseteq Held
              /\ Cardinality(B) \in Nat
              /\ B \cap Delivered = {}
              /\ c.parents \subseteq B \cup Delivered
              /\ \A r \in B : /\ revision[r].parents \subseteq B \cup Delivered
                              /\ revision[r].entity = c.entity
                              /\ \/ r \in c.parents
                                 \/ \E s \in B : r \in revision[s].parents
<1> DEFINE B == Undelivered(c)
<1>1. c.parents \in SUBSET Held
  BY DEF KnownParents
<1>2. /\ ParentsOf \in [Held -> SUBSET Held]
      /\ \A r \in Held : ParentsOf[r] = revision[r].parents
  BY ParentsAreHeld
<1>3. /\ B \subseteq Held
      /\ c.parents \ Delivered \subseteq B
      /\ \A r \in B : ParentsOf[r] \ Delivered \subseteq B
  BY <1>1, <1>2, BacklogClosed DEF Undelivered
<1>4. B \cap Delivered = {}
  BY <1>1, <1>2, BacklogUndelivered DEF Undelivered
<1>5. \A r \in B : r \in c.parents \/ \E s \in B : r \in ParentsOf[s]
  BY <1>1, <1>2, BacklogHasChildren DEF Undelivered
<1>6. \A r \in B : revision[r].entity = c.entity
  <2> DEFINE C == {r \in Held : revision[r].entity = c.entity}
  <2>1. c.parents \subseteq C
    BY DEF KnownParents
  <2>2. \A r \in C : ParentsOf[r] \subseteq C
    BY <1>2, ParentsAreHeld
  <2>3. C \in SUBSET Held
    OBVIOUS
  <2> HIDE DEF C
  <2>4. B \subseteq C
    BY <1>1, <1>2, <2>1, <2>2, <2>3, BacklogKeeps DEF Undelivered
  <2> QED BY <2>4 DEF C
<1>7. Cardinality(B) \in Nat
  <2>1. IsFiniteSet(Held)
    BY HeldIsInterval, FS_Interval
  <2> QED BY <1>3, <2>1, FS_Subset, FS_CardinalityType
<1> HIDE DEF B
<1>8. \A r \in B : revision[r].parents \subseteq B \cup Delivered
  BY <1>2, <1>3
<1>9. \A r \in B : r \in c.parents \/ \E s \in B : r \in revision[s].parents
  BY <1>2, <1>3, <1>5
<1> QED BY <1>3, <1>4, <1>6, <1>7, <1>8, <1>9 DEF B

(* The stream after Accept: the old one, the backlog, the event. *)
Extended(c, ahead, m) ==
    LET n == Len(stream)
    IN /\ m \in Nat
       /\ ahead \in [1 .. m -> Undelivered(c)]
       /\ IsDelivery(ahead, Undelivered(c), ParentsOf)
       /\ Len(stream') = n + m + 1
       /\ \A i \in 1 .. n : stream'[i] = stream[i]
       /\ \A j \in 1 .. m : stream'[n + j] = ahead[j]
       /\ stream'[n + m + 1] = New

LEMMA AcceptExtends ==
    ASSUME LedgerTypeOK, NEW c \in Content, NEW x \in BOOLEAN, Accept(c, x)
    PROVE  /\ stream' \in Seq(Held')
           /\ \E m \in Nat : \E ahead \in [1 .. m -> Undelivered(c)] :
                 Extended(c, ahead, m)
<1> DEFINE m == Cardinality(Undelivered(c))
<1>1. KnownParents(c) /\ Retains(c)
  BY DEF Accept, Admissible
<1>2. PICK ahead \in Deliveries(Undelivered(c), ParentsOf) :
            stream' = Append(stream \o ahead, New)
  BY DEF Accept
<1>3. /\ ahead \in [1 .. m -> Undelivered(c)]
      /\ IsDelivery(ahead, Undelivered(c), ParentsOf)
  BY <1>2 DEF Deliveries
<1>4. m \in Nat /\ Undelivered(c) \subseteq Held
  BY <1>1, UndeliveredFacts
<1>5. Held' = Held \cup {New}
  BY <1>1, RetainsShape
<1> HIDE DEF m
<1>6. stream \in Seq(Held') /\ ahead \in Seq(Held') /\ New \in Held'
  BY <1>3, <1>4, <1>5 DEF LedgerTypeOK
<1>7. /\ stream \o ahead \in Seq(Held')
      /\ Len(ahead) = m /\ Len(stream) \in Nat
      /\ Len(stream \o ahead) = Len(stream) + m
      /\ \A i \in 1 .. Len(stream) : (stream \o ahead)[i] = stream[i]
      /\ \A j \in 1 .. m : (stream \o ahead)[Len(stream) + j] = ahead[j]
  BY <1>3, <1>4, <1>6
<1>8. /\ stream' \in Seq(Held')
      /\ Len(stream') = Len(stream) + m + 1
      /\ \A i \in 1 .. Len(stream) + m : stream'[i] = (stream \o ahead)[i]
      /\ stream'[Len(stream) + m + 1] = New
  BY <1>2, <1>4, <1>6, <1>7
<1>9. /\ \A i \in 1 .. Len(stream) : stream'[i] = stream[i]
      /\ \A j \in 1 .. m : stream'[Len(stream) + j] = ahead[j]
  <2>1. /\ \A i \in 1 .. Len(stream) : i \in 1 .. Len(stream) + m
        /\ \A j \in 1 .. m : Len(stream) + j \in 1 .. Len(stream) + m
    BY <1>4, <1>7
  <2> QED BY <1>7, <1>8, <2>1
<1>10. Extended(c, ahead, m)
  BY <1>3, <1>4, <1>8, <1>9 DEF Extended
<1> QED BY <1>3, <1>4, <1>8, <1>10

(* Positions of the extended stream. *)
LEMMA ExtendedPositions ==
    ASSUME LedgerTypeOK, NEW c \in Content, NEW m \in Nat,
           NEW ahead \in [1 .. m -> Undelivered(c)], Extended(c, ahead, m),
           stream' \in Seq(Held')
    PROVE  /\ DOMAIN stream' = 1 .. Len(stream) + m + 1
           /\ Len(stream) \in Nat /\ DOMAIN stream = 1 .. Len(stream)
           /\ \A i \in DOMAIN stream' :
                 \/ i \in DOMAIN stream /\ stream'[i] = stream[i]
                 \/ \E j \in 1 .. m : i = Len(stream) + j /\ stream'[i] = ahead[j]
                 \/ i = Len(stream) + m + 1 /\ stream'[i] = New
           /\ Delivered' = Delivered \cup Undelivered(c) \cup {New}
<1> DEFINE n == Len(stream)
<1>1. /\ n \in Nat /\ DOMAIN stream = 1 .. n
      /\ DOMAIN stream' = 1 .. Len(stream')
  BY DEF LedgerTypeOK
<1>2. DOMAIN stream' = 1 .. n + m + 1
  BY <1>1 DEF Extended
<1>3. \A i \in DOMAIN stream' :
         \/ i \in DOMAIN stream /\ stream'[i] = stream[i]
         \/ \E j \in 1 .. m : i = n + j /\ stream'[i] = ahead[j]
         \/ i = n + m + 1 /\ stream'[i] = New
  <2>1. TAKE i \in DOMAIN stream'
  <2>2. CASE i \in 1 .. n
    BY <1>1, <2>2 DEF Extended
  <2>3. CASE i - n \in 1 .. m
    <3>1. i = n + (i - n)
      BY <1>1, <1>2
    <3> QED BY <2>3, <3>1 DEF Extended
  <2>4. CASE i = n + m + 1
    BY <2>4 DEF Extended
  <2>5. i \in 1 .. n \/ i - n \in 1 .. m \/ i = n + m + 1
    BY <1>1, <1>2
  <2> QED BY <2>2, <2>3, <2>4, <2>5
<1>4. \A r \in Delivered : r \in Delivered'
  BY <1>1, <1>2 DEF Delivered, Extended
<1>5. \A r \in Undelivered(c) : r \in Delivered'
  <2>1. TAKE r \in Undelivered(c)
  <2>2. PICK j \in 1 .. m : ahead[j] = r
    BY DEF Extended, IsDelivery
  <2>3. n + j \in DOMAIN stream' /\ stream'[n + j] = r
    BY <1>1, <1>2, <2>2 DEF Extended
  <2> QED BY <2>3 DEF Delivered
<1>6. New \in Delivered'
  <2>1. n + m + 1 \in DOMAIN stream'
    BY <1>1, <1>2
  <2> QED BY <2>1 DEF Delivered, Extended
<1>7. Delivered' \subseteq Delivered \cup Undelivered(c) \cup {New}
  BY <1>3 DEF Delivered
<1> QED BY <1>1, <1>2, <1>3, <1>4, <1>5, <1>6, <1>7

-----------------------------------------------------------------------------
(* The inductive invariant.  An entity has a head exactly when the stream
   holds a revision of it, and the head is the last one: without this, the
   decision about a second identity, which looks at heads, says nothing of the
   stream. *)
HeadIsLast(e) ==
    /\ revision[head[e]].entity = e
    /\ \E i \in DOMAIN stream :
          /\ stream[i] = head[e]
          /\ \A j \in DOMAIN stream : j > i => revision[stream[j]].entity # e

HeadsMatchStream ==
    /\ \A e \in Entity : head[e] # NoRevision => HeadIsLast(e)
    /\ \A i \in DOMAIN stream : head[revision[stream[i]].entity] # NoRevision

LedgerInv == /\ LedgerTypeOK
             /\ StreamApplicable
             /\ StreamUnique
             /\ HeadCoversStream
             /\ HeadsMatchStream
             /\ OneLiveIdentity
             /\ ReceiptsAreTrue

(* Every step but Accept leaves heads and stream, and at most stores a
   revision. *)
Stores == /\ UNCHANGED <<head, stream>>
          /\ \/ UNCHANGED revision
             \/ \E c \in Content : KnownParents(c) /\ Retains(c)

LEMMA StepKinds ==
    ASSUME LedgerNext
    PROVE  Stores \/ \E c \in Content, x \in BOOLEAN : Accept(c, x)
<1>1. CASE RejectInvalid \/ \E r \in Held : Repeat(r)
  BY <1>1 DEF RejectInvalid, Repeat, Stores
<1>2. ASSUME NEW c \in Content, Apply(c)
      PROVE  Stores \/ \E d \in Content, x \in BOOLEAN : Accept(d, x)
  BY <1>2 DEF Apply, ApplyAs, RejectInadmissible, Conflict, RefuseBacklog,
              RefuseCollision, Stores, Admissible
<1> QED BY <1>1, <1>2 DEF LedgerNext

(* Held revisions are never changed or lost. *)
LEMMA HeldKept ==
    ASSUME LedgerTypeOK, Stores \/ \E c \in Content, x \in BOOLEAN : Accept(c, x)
    PROVE  /\ Held \subseteq Held'
           /\ \A r \in Held : revision'[r] = revision[r]
           /\ revision' \in Seq(Content')
           /\ \A r \in Held' : ParentsOK(r)'
<1>1. CASE UNCHANGED revision
  BY <1>1 DEF LedgerTypeOK, Held, Content, ParentsOK
<1>2. ASSUME NEW c \in Content, KnownParents(c), Retains(c)
      PROVE  /\ Held \subseteq Held'
             /\ \A r \in Held : revision'[r] = revision[r]
             /\ revision' \in Seq(Content')
             /\ \A r \in Held' : ParentsOK(r)'
  BY <1>2, RetainsShape
<1> QED BY <1>1, <1>2 DEF Stores, Accept, Admissible

-----------------------------------------------------------------------------
(* Types. *)

LEMMA ReceiptType ==
    ASSUME LedgerTypeOK, Held \subseteq Held', NEW a, a \in Receipt', Answers(a)
    PROVE  receipt' \in Seq(Receipt')
<1>1. Receipt \subseteq Receipt'
  BY DEF Receipt, NoRevision
<1>2. receipt \in Seq(Receipt')
  BY <1>1 DEF LedgerTypeOK
<1> QED BY <1>2 DEF Answers

LEMMA TypeStep ==
    ASSUME LedgerTypeOK, LedgerNext
    PROVE  LedgerTypeOK'
<1>1. /\ Held \subseteq Held'
      /\ revision' \in Seq(Content')
      /\ \A r \in Held' : ParentsOK(r)'
  BY StepKinds, HeldKept
<1>2. \A e \in Entity : head[e] \in Held' \cup {NoRevision}
  BY <1>1 DEF LedgerTypeOK
<1>3. CASE RejectInvalid \/ \E r \in Held : Repeat(r)
  <2>1. UNCHANGED <<revision, head, stream>>
    BY <1>3 DEF RejectInvalid, Repeat
  <2>2. \E a \in Receipt : Answers(a)
    BY <1>3 DEF RejectInvalid, Repeat, Rejects, Answer, Receipt
  <2>3. Receipt \subseteq Receipt'
    BY <1>1 DEF Receipt, NoRevision
  <2>4. receipt' \in Seq(Receipt')
    BY <1>1, <2>2, <2>3, ReceiptType
  <2> QED BY <1>1, <2>1, <2>4 DEF LedgerTypeOK, Held, NoRevision
<1>4. ASSUME NEW c \in Content, Apply(c)
      PROVE  LedgerTypeOK'
  <2>1. CASE RejectInadmissible(c)
    <3>1. UNCHANGED <<revision, head, stream>>
      BY <2>1 DEF RejectInadmissible
    <3>2. /\ Answers(Answer("rejected", NoRevision, 0))
          /\ Answer("rejected", NoRevision, 0) \in Receipt'
      BY <2>1 DEF RejectInadmissible, Rejects, Answer, Receipt, NoRevision
    <3>3. receipt' \in Seq(Receipt')
      BY <1>1, <3>2, ReceiptType
    <3> QED BY <1>1, <3>1, <3>3 DEF LedgerTypeOK, Held, NoRevision
  <2>2. ASSUME NEW x \in BOOLEAN,
               Conflict(c, x) \/ RefuseBacklog(c, x) \/ RefuseCollision(c, x)
        PROVE  LedgerTypeOK'
    <3>1. UNCHANGED <<head, stream>>
      BY <2>2 DEF Conflict, RefuseBacklog, RefuseCollision
    <3>2. \E a \in Receipt' : Answers(a)
      <4>1. CASE Conflict(c, x)
        <5>1. New \in Held'
          BY <4>1, RetainsShape DEF Conflict, Admissible
        <5>2. Answer("conflict", New, 0) \in Receipt'
          BY <5>1 DEF Answer, Receipt
        <5> QED BY <4>1, <5>2 DEF Conflict
      <4>2. CASE RefuseBacklog(c, x) \/ RefuseCollision(c, x)
        <5>1. Answer("rejected", NoRevision, 0) \in Receipt'
          BY DEF Answer, Receipt, NoRevision
        <5> QED BY <4>2, <5>1 DEF RefuseBacklog, RefuseCollision, Rejects
      <4> QED BY <2>2, <4>1, <4>2
    <3>3. receipt' \in Seq(Receipt')
      BY <1>1, <3>2, ReceiptType
    <3>4. stream' \in Seq(Held')
      BY <1>1, <3>1 DEF LedgerTypeOK
    <3>5. head' \in [Entity -> Held' \cup {NoRevision}]
      BY <1>2, <3>1 DEF LedgerTypeOK
    <3> QED BY <1>1, <3>3, <3>4, <3>5 DEF LedgerTypeOK, NoRevision
  <2>3. ASSUME NEW x \in BOOLEAN, Accept(c, x)
        PROVE  LedgerTypeOK'
    <3>1. New \in Held' /\ c.entity \in Entity
      BY <2>3, RetainsShape, ContentFields DEF Accept, Admissible
    <3>2. stream' \in Seq(Held')
      BY <2>3, AcceptExtends
    <3>3. Answer("accepted", New, Len(stream')) \in Receipt'
      BY <3>1, <3>2 DEF Answer, Receipt
    <3>4. receipt' \in Seq(Receipt')
      BY <1>1, <2>3, <3>3, ReceiptType DEF Accept
    <3>5. head' \in [Entity -> Held' \cup {NoRevision}]
      BY <1>2, <2>3, <3>1 DEF Accept, LedgerTypeOK
    <3> QED BY <1>1, <3>2, <3>4, <3>5 DEF LedgerTypeOK, NoRevision
  <2> QED BY <1>4, <2>1, <2>2, <2>3 DEF Apply, ApplyAs
<1> QED BY <1>3, <1>4 DEF LedgerNext
-----------------------------------------------------------------------------
(* The first state, and the steps that only store. *)

LEMMA InitInv == LedgerInit => LedgerInv
<1> SUFFICES ASSUME LedgerInit PROVE LedgerInv
  OBVIOUS
<1>1. /\ revision = <<>> /\ stream = <<>> /\ receipt = <<>>
      /\ DOMAIN revision = {} /\ DOMAIN stream = {} /\ DOMAIN receipt = {}
      /\ Len(stream) = 0
      /\ head = [e \in Entity |-> NoRevision]
  BY DEF LedgerInit
<1>2. LedgerTypeOK
  <2>1. /\ revision \in Seq(Content) /\ stream \in Seq(Held)
        /\ receipt \in Seq(Receipt)
    BY <1>1
  <2> QED BY <1>1, <2>1 DEF LedgerTypeOK, Held
<1>3. Delivered = {}
  BY <1>1 DEF Delivered
<1>4. StreamApplicable
  BY <1>1 DEF StreamApplicable, ParentsFirst
<1>5. HeadsMatchStream /\ OneLiveIdentity /\ ReceiptsAreTrue
  BY <1>1 DEF HeadsMatchStream, OneLiveIdentity, ReceiptsAreTrue
<1>6. StreamUnique /\ HeadCoversStream
  BY <1>1, <1>3 DEF StreamUnique, HeadCoversStream
<1> QED BY <1>2, <1>4, <1>5, <1>6 DEF LedgerInv

LEMMA StreamFacts ==
    ASSUME LedgerTypeOK
    PROVE  /\ Len(stream) \in Nat
           /\ DOMAIN stream = 1 .. Len(stream)
           /\ \A i \in DOMAIN stream : stream[i] \in Held
           /\ Delivered \subseteq Held
BY DEF LedgerTypeOK, Delivered

(* The order of the stream, in terms of the table. *)
ParentsAhead ==
    \A i \in 1 .. Len(stream) : \A p \in revision[stream[i]].parents :
        \E h \in 1 .. i - 1 : stream[h] = p

LEMMA ApplicableIsAhead ==
    ASSUME LedgerTypeOK
    PROVE  StreamApplicable <=> ParentsAhead
<1>1. \A i \in 1 .. Len(stream) :
         ParentsOf[stream[i]] = revision[stream[i]].parents
  BY StreamFacts, ParentsAreHeld
<1> QED BY <1>1 DEF StreamApplicable, ParentsFirst, ParentsAhead

LEMMA StoresKeeps ==
    ASSUME LedgerTypeOK, LedgerTypeOK', Stores, StreamApplicable, StreamUnique,
           HeadCoversStream, HeadsMatchStream, OneLiveIdentity
    PROVE  (/\ StreamApplicable /\ StreamUnique /\ HeadCoversStream
            /\ HeadsMatchStream /\ OneLiveIdentity)'
<1>1. stream' = stream /\ head' = head
  BY DEF Stores
<1>2. \A i \in DOMAIN stream : revision'[stream[i]] = revision[stream[i]]
  BY HeldKept, StreamFacts
<1>3. Delivered' = Delivered
  BY <1>1 DEF Delivered
<1>4. \A r \in Delivered : revision'[r] = revision[r]
  BY HeldKept, StreamFacts
<1>5. StreamApplicable'
  <2>1. LedgerTypeOK' => (StreamApplicable' <=> ParentsAhead')
    BY ApplicableIsAhead, PTL
  <2>2. ParentsAhead
    BY ApplicableIsAhead
  <2>3. ParentsAhead'
    BY <1>1, <1>2, <2>2, StreamFacts DEF ParentsAhead
  <2> QED BY <2>1, <2>3
<1>6. StreamUnique'
  BY <1>1, <1>2 DEF StreamUnique
<1>7. HeadCoversStream'
  BY <1>1, <1>3, <1>4 DEF HeadCoversStream
<1>8. HeadsMatchStream'
  <2>1. ASSUME NEW e \in Entity, head'[e] # NoRevision
        PROVE  HeadIsLast(e)'
    <3>1. HeadIsLast(e)
      BY <1>1, <2>1 DEF HeadsMatchStream, NoRevision
    <3>2. revision'[head[e]] = revision[head[e]]
      BY <1>2, <3>1 DEF HeadIsLast
    <3> QED BY <1>1, <1>2, <3>1, <3>2 DEF HeadIsLast
  <2>2. \A i \in DOMAIN stream' : head'[revision'[stream'[i]].entity] # NoRevision
    BY <1>1, <1>2 DEF HeadsMatchStream
  <2> QED BY <2>1, <2>2 DEF HeadsMatchStream, NoRevision
<1>9. OneLiveIdentity'
  <2>1. \A n \in DOMAIN stream : LiveAt(n)' = LiveAt(n)
    BY <1>1, <1>2, StreamFacts DEF LiveAt
  <2> QED BY <1>1, <2>1 DEF OneLiveIdentity
<1> QED BY <1>5, <1>6, <1>7, <1>8, <1>9
-----------------------------------------------------------------------------
(* Accept, one part of the invariant at a time. *)

LEMMA AcceptFacts ==
    ASSUME LedgerTypeOK, NEW c \in Content, NEW x \in BOOLEAN, Accept(c, x)
    PROVE  /\ KnownParents(c)
           /\ c.parents \subseteq Held
           /\ revision'[New] = c
           /\ \A r \in Held : revision'[r] = revision[r]
           /\ Held' = Held \cup {New}
           /\ New \notin Held
           /\ c.entity \in Entity
           /\ head' = [head EXCEPT ![c.entity] = New]
           /\ \E m \in Nat : \E ahead \in [1 .. m -> Undelivered(c)] :
                 Extended(c, ahead, m)
<1>1. KnownParents(c) /\ Retains(c) /\ head' = [head EXCEPT ![c.entity] = New]
  BY DEF Accept, Admissible
<1>2. c.parents \subseteq Held
  BY <1>1 DEF KnownParents
<1>3. /\ revision'[New] = c
      /\ \A r \in Held : revision'[r] = revision[r]
      /\ Held' = Held \cup {New}
  BY <1>1, RetainsShape
<1>4. \E m \in Nat : \E ahead \in [1 .. m -> Undelivered(c)] : Extended(c, ahead, m)
  BY AcceptExtends
<1> QED BY <1>1, <1>2, <1>3, <1>4, HeldIsInterval, ContentFields

LEMMA AcceptApplicable ==
    ASSUME LedgerTypeOK, LedgerTypeOK', StreamApplicable,
           NEW c \in Content, NEW x \in BOOLEAN, Accept(c, x)
    PROVE  StreamApplicable'
<1> DEFINE n == Len(stream)
           B == Undelivered(c)
<1>1. /\ revision'[New] = c
      /\ \A r \in Held : revision'[r] = revision[r]
      /\ KnownParents(c)
  BY AcceptFacts
<1>2. PICK m \in Nat : \E ahead \in [1 .. m -> B] : Extended(c, ahead, m)
  BY AcceptFacts
<1>3. PICK ahead \in [1 .. m -> B] : Extended(c, ahead, m)
  BY <1>2
<1>4. /\ DOMAIN stream' = 1 .. n + m + 1
      /\ n \in Nat /\ DOMAIN stream = 1 .. n
      /\ \A i \in DOMAIN stream' :
            \/ i \in DOMAIN stream /\ stream'[i] = stream[i]
            \/ \E j \in 1 .. m : i = n + j /\ stream'[i] = ahead[j]
            \/ i = n + m + 1 /\ stream'[i] = New
  BY <1>3, ExtendedPositions, AcceptExtends
<1>5. /\ B \subseteq Held
      /\ c.parents \subseteq B \cup Delivered
      /\ \A r \in B : revision[r].parents \subseteq B \cup Delivered
  BY <1>1, UndeliveredFacts
<1>6. /\ \A i \in 1 .. n : stream'[i] = stream[i]
      /\ \A j \in 1 .. m : stream'[n + j] = ahead[j]
      /\ \A r \in B : \E j \in 1 .. m : ahead[j] = r
      /\ \A k, j \in 1 .. m : ahead[k] \in ParentsOf[ahead[j]] => k < j
  BY <1>3 DEF Extended, IsDelivery
<1> HIDE DEF B
<1>7. \A p \in Delivered : \E h \in 1 .. n : stream'[h] = p
  BY <1>4, <1>6 DEF Delivered
<1>8. ParentsAhead
  BY ApplicableIsAhead
<1>9. ASSUME NEW i \in DOMAIN stream', NEW p \in revision'[stream'[i]].parents
      PROVE  \E h \in 1 .. i - 1 : stream'[h] = p
  <2>1. CASE i \in DOMAIN stream /\ stream'[i] = stream[i]
    <3>1. p \in revision[stream[i]].parents
      BY <1>1, <1>9, <2>1, StreamFacts
    <3>2. PICK h \in 1 .. i - 1 : stream[h] = p
      BY <1>4, <1>8, <2>1, <3>1 DEF ParentsAhead
    <3>3. h \in 1 .. n
      BY <1>4, <2>1
    <3> QED BY <1>6, <3>2, <3>3
  <2>2. ASSUME NEW j \in 1 .. m, i = n + j, stream'[i] = ahead[j]
        PROVE  \E h \in 1 .. i - 1 : stream'[h] = p
    <3>1. ahead[j] \in B /\ ahead[j] \in Held
      BY <1>5
    <3>2. p \in revision[ahead[j]].parents
      BY <1>1, <1>9, <2>2, <3>1
    <3>3. CASE p \in Delivered
      <4>1. PICK h \in 1 .. n : stream'[h] = p
        BY <1>7, <3>3
      <4>2. h \in 1 .. i - 1
        BY <1>4, <2>2
      <4> QED BY <4>1, <4>2
    <3>4. CASE p \in B
      <4>1. PICK k \in 1 .. m : ahead[k] = p
        BY <1>6, <3>4
      <4>2. k < j
        BY <1>6, <3>1, <3>2, <4>1, ParentsAreHeld
      <4>3. n + k \in 1 .. i - 1
        BY <1>4, <2>2, <4>2
      <4> QED BY <1>6, <4>1, <4>3
    <3> QED BY <1>5, <3>1, <3>2, <3>3, <3>4
  <2>3. CASE i = n + m + 1 /\ stream'[i] = New
    <3>1. p \in c.parents
      BY <1>1, <1>9, <2>3
    <3>2. CASE p \in Delivered
      <4>1. PICK h \in 1 .. n : stream'[h] = p
        BY <1>7, <3>2
      <4>2. h \in 1 .. i - 1
        BY <1>4, <2>3
      <4> QED BY <4>1, <4>2
    <3>3. CASE p \in B
      <4>1. PICK k \in 1 .. m : ahead[k] = p
        BY <1>6, <3>3
      <4>2. n + k \in 1 .. i - 1
        BY <1>4, <2>3
      <4> QED BY <1>6, <4>1, <4>2
    <3> QED BY <1>5, <3>1, <3>2, <3>3
  <2> QED BY <1>4, <2>1, <2>2, <2>3
<1>10. ParentsAhead'
  <2>1. Len(stream') = n + m + 1
    BY <1>3 DEF Extended
  <2> QED BY <1>4, <1>9, <2>1 DEF ParentsAhead
<1>11. LedgerTypeOK' => (StreamApplicable' <=> ParentsAhead')
  BY ApplicableIsAhead, PTL
<1> QED BY <1>10, <1>11

LEMMA AcceptUnique ==
    ASSUME LedgerTypeOK, StreamUnique,
           NEW c \in Content, NEW x \in BOOLEAN, Accept(c, x)
    PROVE  StreamUnique'
<1> DEFINE n == Len(stream)
           B == Undelivered(c)
           Id(i) == revision'[stream'[i]].eventId
<1>1. /\ revision'[New] = c
      /\ \A r \in Held : revision'[r] = revision[r]
      /\ KnownParents(c)
  BY AcceptFacts
<1>2. PICK m \in Nat : \E ahead \in [1 .. m -> B] : Extended(c, ahead, m)
  BY AcceptFacts
<1>3. PICK ahead \in [1 .. m -> B] : Extended(c, ahead, m)
  BY <1>2
<1>4. /\ n \in Nat /\ DOMAIN stream = 1 .. n
      /\ \A i \in DOMAIN stream' :
            \/ i \in DOMAIN stream /\ stream'[i] = stream[i]
            \/ \E j \in 1 .. m : i = n + j /\ stream'[i] = ahead[j]
            \/ i = n + m + 1 /\ stream'[i] = New
  BY <1>3, ExtendedPositions, AcceptExtends
<1>5. /\ \A r \in B : revision[r].eventId # c.eventId
      /\ \A r, s \in B : revision[r].eventId = revision[s].eventId => r = s
      /\ \A r \in Delivered : /\ revision[r].eventId # c.eventId
                              /\ \A s \in B : revision[r].eventId # revision[s].eventId
  BY DEF Accept, Collides
<1>6. \A k, j \in 1 .. m : ahead[k] = ahead[j] => k = j
  BY <1>3 DEF Extended, IsDelivery
<1>7. B \subseteq Held /\ Delivered \subseteq Held
  BY <1>1, UndeliveredFacts, StreamFacts
<1> HIDE DEF B
<1>8. \A i \in DOMAIN stream' :
         \/ i \in DOMAIN stream /\ stream[i] \in Delivered
                                /\ Id(i) = revision[stream[i]].eventId
         \/ \E j \in 1 .. m : i = n + j /\ Id(i) = revision[ahead[j]].eventId
         \/ i = n + m + 1 /\ Id(i) = c.eventId
  <2>1. \A i \in DOMAIN stream : stream[i] \in Delivered
    BY DEF Delivered
  <2>2. \A j \in 1 .. m : ahead[j] \in B
    OBVIOUS
  <2> QED BY <1>1, <1>4, <1>7, <2>1, <2>2
<1> HIDE DEF Id
<1>9. \A j \in 1 .. m : ahead[j] \in B
  OBVIOUS
<1>10. ASSUME NEW i \in DOMAIN stream', NEW k \in DOMAIN stream', Id(i) = Id(k)
       PROVE  i = k
  <2>1. CASE i \in DOMAIN stream /\ stream[i] \in Delivered
                                 /\ Id(i) = revision[stream[i]].eventId
    <3>1. /\ k \in DOMAIN stream
          /\ Id(k) = revision[stream[k]].eventId
      BY <1>5, <1>8, <1>9, <1>10, <2>1
    <3> QED BY <1>10, <2>1, <3>1 DEF StreamUnique
  <2>2. ASSUME NEW j \in 1 .. m, i = n + j, Id(i) = revision[ahead[j]].eventId
        PROVE  i = k
    <3>1. PICK l \in 1 .. m : k = n + l /\ Id(k) = revision[ahead[l]].eventId
      BY <1>5, <1>8, <1>9, <1>10, <2>2
    <3>2. ahead[j] = ahead[l]
      BY <1>5, <1>9, <1>10, <2>2, <3>1
    <3> QED BY <1>6, <2>2, <3>1, <3>2
  <2>3. CASE i = n + m + 1 /\ Id(i) = c.eventId
    <3>1. k = n + m + 1
      BY <1>5, <1>8, <1>9, <1>10, <2>3
    <3> QED BY <2>3, <3>1
  <2> QED BY <1>8, <2>1, <2>2, <2>3
<1> QED BY <1>10 DEF StreamUnique, Id

LEMMA AcceptCovers ==
    ASSUME LedgerTypeOK, HeadCoversStream, HeadsMatchStream,
           NEW c \in Content, NEW x \in BOOLEAN, Accept(c, x)
    PROVE  HeadCoversStream'
<1> DEFINE B == Undelivered(c)
<1>1. /\ revision'[New] = c
      /\ \A r \in Held : revision'[r] = revision[r]
      /\ KnownParents(c)
      /\ c.entity \in Entity
      /\ head' = [head EXCEPT ![c.entity] = New]
  BY AcceptFacts
<1>2. Delivered' = Delivered \cup B \cup {New}
  BY AcceptFacts, AcceptExtends, ExtendedPositions
<1>3. /\ B \subseteq Held /\ Delivered \subseteq Held
      /\ \A r \in B : r \in c.parents \/ \E s \in B : r \in revision[s].parents
  BY <1>1, UndeliveredFacts, StreamFacts
<1> HIDE DEF B
<1>4. head[c.entity] = NoRevision \/ head[c.entity] \in c.parents
  BY DEF Accept, CanAcceptHeadTransition
<1>5. New \in Delivered' /\ head'[c.entity] = New
  BY <1>1, <1>2 DEF LedgerTypeOK
<1>6. \A r \in c.parents : \E s \in Delivered' : r \in revision'[s].parents
  BY <1>1, <1>5
<1>7. ASSUME NEW r \in Delivered
      PROVE  \/ head'[revision'[r].entity] = r
             \/ \E s \in Delivered' : r \in revision'[s].parents
  <2>1. r \in Held /\ revision'[r] = revision[r] /\ revision[r].entity \in Entity
    BY <1>1, <1>3, ParentsAreHeld
  <2>2. CASE \E s \in Delivered : r \in revision[s].parents
    BY <1>1, <1>2, <1>3, <2>2
  <2>3. CASE head[revision[r].entity] = r
    <3>1. CASE revision[r].entity = c.entity
      <4>1. head[c.entity] # NoRevision
        BY <2>1, <2>3, <3>1, HeldIsInterval
      <4> QED BY <1>4, <1>6, <2>3, <3>1, <4>1
    <3>2. CASE revision[r].entity # c.entity
      BY <1>1, <2>1, <2>3, <3>2 DEF LedgerTypeOK
    <3> QED BY <3>1, <3>2
  <2> QED BY <2>2, <2>3 DEF HeadCoversStream
<1>8. ASSUME NEW r \in B
      PROVE  \E s \in Delivered' : r \in revision'[s].parents
  BY <1>1, <1>2, <1>3, <1>6
<1>9. head'[revision'[New].entity] = New
  BY <1>1, <1>5
<1> DEFINE Covered(r) == \/ head'[revision'[r].entity] = r
                         \/ \E s \in Delivered' : r \in revision'[s].parents
<1>10. \A r \in Delivered \cup B \cup {New} : Covered(r)
  BY <1>7, <1>8, <1>9
<1> QED BY <1>2, <1>10 DEF HeadCoversStream

(* Whatever is delivered behind the old stream is of the event's entity. *)
LEMMA BehindIsOfEntity ==
    ASSUME LedgerTypeOK, NEW c \in Content, NEW x \in BOOLEAN, Accept(c, x)
    PROVE  /\ Len(stream) \in Nat /\ Len(stream') \in Nat
           /\ Len(stream') > Len(stream)
           /\ DOMAIN stream = 1 .. Len(stream)
           /\ DOMAIN stream' = 1 .. Len(stream')
           /\ stream'[Len(stream')] = New
           /\ \A i \in DOMAIN stream : /\ stream'[i] = stream[i]
                                       /\ revision'[stream'[i]] = revision[stream[i]]
           /\ \A i \in DOMAIN stream' \ DOMAIN stream :
                 revision'[stream'[i]].entity = c.entity
<1> DEFINE n == Len(stream)
           B == Undelivered(c)
<1>1. /\ revision'[New] = c
      /\ \A r \in Held : revision'[r] = revision[r]
      /\ KnownParents(c)
  BY AcceptFacts
<1>2. PICK m \in Nat : \E ahead \in [1 .. m -> B] : Extended(c, ahead, m)
  BY AcceptFacts
<1>3. PICK ahead \in [1 .. m -> B] : Extended(c, ahead, m)
  BY <1>2
<1> stream' \in Seq(Held')
  BY AcceptExtends
<1>4. /\ n \in Nat /\ DOMAIN stream = 1 .. n
      /\ DOMAIN stream' = 1 .. n + m + 1
      /\ \A i \in DOMAIN stream' :
            \/ i \in DOMAIN stream /\ stream'[i] = stream[i]
            \/ \E j \in 1 .. m : i = n + j /\ stream'[i] = ahead[j]
            \/ i = n + m + 1 /\ stream'[i] = New
  BY <1>3, ExtendedPositions
<1>5. \A r \in B : r \in Held /\ revision[r].entity = c.entity
  BY <1>1, UndeliveredFacts
<1>6. /\ Len(stream') = n + m + 1
      /\ \A i \in 1 .. n : stream'[i] = stream[i]
      /\ stream'[n + m + 1] = New
  BY <1>3 DEF Extended
<1> HIDE DEF B
<1>7. \A j \in 1 .. m : revision'[ahead[j]].entity = c.entity
  BY <1>1, <1>5
<1>8. \A i \in DOMAIN stream' \ DOMAIN stream : revision'[stream'[i]].entity = c.entity
  BY <1>1, <1>4, <1>7
<1>9. \A i \in DOMAIN stream : revision'[stream'[i]] = revision[stream[i]]
  BY <1>1, <1>4, <1>6, StreamFacts
<1> QED BY <1>4, <1>6, <1>8, <1>9

LEMMA AcceptMatches ==
    ASSUME LedgerTypeOK, HeadsMatchStream,
           NEW c \in Content, NEW x \in BOOLEAN, Accept(c, x)
    PROVE  HeadsMatchStream'
<1>1. /\ revision'[New] = c
      /\ c.entity \in Entity
      /\ \A e \in Entity : head'[e] = IF e = c.entity THEN New ELSE head[e]
  BY AcceptFacts DEF LedgerTypeOK
<1>2. /\ Len(stream') \in Nat /\ Len(stream) \in Nat
      /\ Len(stream') > Len(stream)
      /\ DOMAIN stream = 1 .. Len(stream)
      /\ DOMAIN stream' = 1 .. Len(stream')
      /\ stream'[Len(stream')] = New
      /\ \A i \in DOMAIN stream : /\ stream'[i] = stream[i]
                                  /\ revision'[stream'[i]] = revision[stream[i]]
      /\ \A i \in DOMAIN stream' \ DOMAIN stream :
            revision'[stream'[i]].entity = c.entity
  BY BehindIsOfEntity
<1>3. New # NoRevision
  BY HeldIsInterval DEF New, NoRevision
<1>4. ASSUME NEW e \in Entity, head'[e] # NoRevision
      PROVE  HeadIsLast(e)'
  <2>1. CASE e = c.entity
    <3>1. Len(stream') \in DOMAIN stream'
      BY <1>2
    <3>2. \A j \in DOMAIN stream' : ~(j > Len(stream'))
      BY <1>2
    <3> QED BY <1>1, <1>2, <2>1, <3>1, <3>2 DEF HeadIsLast
  <2>2. CASE e # c.entity
    <3>1. head'[e] = head[e] /\ HeadIsLast(e)
      BY <1>1, <1>4, <2>2 DEF HeadsMatchStream
    <3>2. PICK i \in DOMAIN stream :
             /\ stream[i] = head[e]
             /\ \A j \in DOMAIN stream : j > i => revision[stream[j]].entity # e
      BY <3>1 DEF HeadIsLast
    <3>3. i \in DOMAIN stream' /\ stream'[i] = head'[e]
      BY <1>2, <3>1, <3>2
    <3>4. \A j \in DOMAIN stream' : j > i => revision'[stream'[j]].entity # e
      BY <1>2, <2>2, <3>2
    <3>5. revision'[head'[e]].entity = e
      BY <1>2, <3>1, <3>2 DEF HeadIsLast
    <3> QED BY <3>3, <3>4, <3>5 DEF HeadIsLast
  <2> QED BY <2>1, <2>2
<1>5. ASSUME NEW i \in DOMAIN stream'
      PROVE  head'[revision'[stream'[i]].entity] # NoRevision
  <2>1. CASE i \in DOMAIN stream
    <3>1. revision[stream[i]].entity \in Entity
      BY <2>1, StreamFacts, ParentsAreHeld
    <3> QED BY <1>1, <1>2, <1>3, <2>1, <3>1 DEF HeadsMatchStream
  <2>2. CASE i \notin DOMAIN stream
    BY <1>1, <1>2, <1>3, <2>2
  <2> QED BY <2>1, <2>2
<1>6. NoRevision' = NoRevision
  BY DEF NoRevision
<1> QED BY <1>4, <1>5, <1>6 DEF HeadsMatchStream

LEMMA AcceptOneIdentity ==
    ASSUME LedgerTypeOK, HeadsMatchStream, OneLiveIdentity,
           NEW c \in Content, NEW x \in BOOLEAN, Accept(c, x)
    PROVE  OneLiveIdentity'
<1> DEFINE n == Len(stream)
<1>1. /\ n \in Nat /\ Len(stream') \in Nat /\ Len(stream') > n
      /\ DOMAIN stream = 1 .. n
      /\ DOMAIN stream' = 1 .. Len(stream')
      /\ \A i \in DOMAIN stream : /\ stream'[i] = stream[i]
                                  /\ revision'[stream'[i]] = revision[stream[i]]
      /\ \A i \in DOMAIN stream' \ DOMAIN stream :
            revision'[stream'[i]].entity = c.entity
  BY BehindIsOfEntity
<1>2. ASSUME NEW k \in DOMAIN stream PROVE LiveAt(k)' = LiveAt(k)
  <2>1. \A i \in 1 .. k : revision'[stream'[i]] = revision[stream[i]]
    BY <1>1
  <2>2. \A i \in 1 .. k : \A j \in i + 1 .. k : j \in 1 .. k
    BY <1>1
  <2> QED BY <2>1, <2>2 DEF LiveAt
<1>3. ASSUME NEW k \in DOMAIN stream', k > n,
             NEW e \in LiveAt(k)', e # c.entity
      PROVE  n \in DOMAIN stream /\ e \in LiveAt(n) /\ e \in LiveEntities
  <2>1. PICK i \in 1 .. k :
           /\ revision'[stream'[i]].entity = e
           /\ ~revision'[stream'[i]].tombstone
           /\ \A j \in i + 1 .. k : revision'[stream'[j]].entity # e
    BY <1>3 DEF LiveAt
  <2>2. i \in 1 .. n
    BY <1>1, <1>3, <2>1
  <2>3. /\ revision[stream[i]].entity = e
        /\ ~revision[stream[i]].tombstone
        /\ \A j \in i + 1 .. n : revision[stream[j]].entity # e
    BY <1>1, <1>3, <2>1, <2>2
  <2>4. e \in Singleton
    BY <1>3 DEF LiveAt
  <2>5. n \in DOMAIN stream /\ e \in LiveAt(n)
    BY <1>1, <2>2, <2>3, <2>4 DEF LiveAt
  <2>6. e \in Entity /\ head[e] # NoRevision
    BY <1>1, <2>2, <2>3, StreamFacts, ParentsAreHeld DEF HeadsMatchStream
  <2>7. PICK l \in DOMAIN stream :
           /\ stream[l] = head[e]
           /\ revision[stream[l]].entity = e
           /\ \A j \in DOMAIN stream : j > l => revision[stream[j]].entity # e
    BY <2>6 DEF HeadsMatchStream, HeadIsLast
  <2>8. l = i
    BY <1>1, <2>2, <2>3, <2>7
  <2> QED BY <2>3, <2>5, <2>6, <2>7, <2>8 DEF LiveEntities
<1>4. ASSUME NEW e \in LiveEntities, e \in Singleton, c.entity \in Singleton
      PROVE  e = c.entity
  BY <1>4 DEF Accept, Admissible, SecondIdentity
<1>5. ASSUME NEW k \in DOMAIN stream', k > n,
             NEW e \in LiveAt(k)', NEW f \in LiveAt(k)'
      PROVE  e = f
  <2>1. e \in Singleton /\ f \in Singleton
    BY DEF LiveAt
  <2>2. CASE e = c.entity /\ f # c.entity
    BY <1>3, <1>4, <1>5, <2>1, <2>2
  <2>3. CASE e # c.entity /\ f = c.entity
    BY <1>3, <1>4, <1>5, <2>1, <2>3
  <2>4. CASE e # c.entity /\ f # c.entity
    BY <1>3, <1>5, <2>4 DEF OneLiveIdentity
  <2> QED BY <2>2, <2>3, <2>4
<1>6. ASSUME NEW k \in DOMAIN stream'
      PROVE  \A e, f \in LiveAt(k)' : e = f
  <2>1. CASE k \in DOMAIN stream
    BY <1>2, <2>1 DEF OneLiveIdentity
  <2>2. CASE k > n
    BY <1>5, <2>2
  <2> QED BY <1>1, <2>1, <2>2
<1> QED BY <1>6 DEF OneLiveIdentity

-----------------------------------------------------------------------------
(* Receipts. *)

IsTrue(a) == /\ a.state = "accepted" => /\ a.sequence \in DOMAIN stream
                                        /\ stream[a.sequence] = a.revision
             /\ a.state = "superseded" => a.revision \in Delivered
             /\ a.state = "conflict" => a.revision \in Held

LEMMA AnswerFields ==
    ASSUME NEW s, NEW r, NEW q
    PROVE  /\ Answer(s, r, q).state = s
           /\ Answer(s, r, q).revision = r
           /\ Answer(s, r, q).sequence = q
BY DEF Answer

(* What an answer says stays true, so only the new one is to be looked at. *)
LEMMA OldReceiptsStayTrue ==
    ASSUME LedgerTypeOK, LedgerNext, ReceiptsAreTrue,
           NEW a, Answers(a), IsTrue(a)'
    PROVE  ReceiptsAreTrue'
<1>1. Held \subseteq Held'
  BY StepKinds, HeldKept
<1>2. \A i \in DOMAIN stream : i \in DOMAIN stream' /\ stream'[i] = stream[i]
  <2>1. CASE Stores
    BY <2>1 DEF Stores
  <2>2. ASSUME NEW c \in Content, NEW x \in BOOLEAN, Accept(c, x)
        PROVE  \A i \in DOMAIN stream : i \in DOMAIN stream' /\ stream'[i] = stream[i]
    BY <2>2, BehindIsOfEntity
  <2> QED BY <2>1, <2>2, StepKinds
<1>3. Delivered \subseteq Delivered'
  BY <1>2 DEF Delivered
<1>4. ASSUME NEW k \in DOMAIN receipt PROVE IsTrue(receipt[k])
  BY DEF ReceiptsAreTrue, IsTrue
<1>5. /\ receipt' = Append(receipt, a)
      /\ receipt \in Seq(Receipt)
  BY DEF Answers, LedgerTypeOK
<1>6. /\ Len(receipt) \in Nat
      /\ DOMAIN receipt = 1 .. Len(receipt)
      /\ DOMAIN receipt' = 1 .. Len(receipt) + 1
      /\ receipt'[Len(receipt) + 1] = a
      /\ \A k \in 1 .. Len(receipt) : receipt'[k] = receipt[k]
  BY <1>5
<1>7. ASSUME NEW k \in DOMAIN receipt'
      PROVE  LET b == receipt'[k]
             IN /\ b.state = "accepted" => /\ b.sequence \in DOMAIN stream'
                                           /\ stream'[b.sequence] = b.revision
                /\ b.state = "superseded" => b.revision \in Delivered'
                /\ b.state = "conflict" => b.revision \in Held'
  <2>1. CASE k \in DOMAIN receipt
    <3>1. IsTrue(receipt[k]) /\ receipt'[k] = receipt[k]
      BY <1>4, <1>6, <2>1
    <3> QED BY <1>1, <1>2, <1>3, <3>1 DEF IsTrue
  <2>2. CASE k = Len(receipt) + 1
    BY <1>6, <2>2 DEF IsTrue
  <2> QED BY <1>6, <2>1, <2>2
<1> QED BY <1>7 DEF ReceiptsAreTrue

LEMMA ReceiptStep ==
    ASSUME LedgerTypeOK, LedgerTypeOK', HeadsMatchStream, ReceiptsAreTrue, LedgerNext
    PROVE  ReceiptsAreTrue'
<1>1. ASSUME Rejects PROVE ReceiptsAreTrue'
  <2>1. PICK a : a = Answer("rejected", NoRevision, 0)
    OBVIOUS
  <2>2. Answers(a)
    BY <1>1, <2>1 DEF Rejects
  <2>3. IsTrue(a)'
    BY <2>1, AnswerFields DEF IsTrue
  <2> QED BY <2>2, <2>3, OldReceiptsStayTrue
<1>2. ASSUME NEW r \in Held, Repeat(r) PROVE ReceiptsAreTrue'
  <2> DEFINE s == IF r \in Delivered \/ head[revision[r].entity] = r
                  THEN "superseded" ELSE "conflict"
  <2>1. PICK a : a = Answer(s, r, 0)
    OBVIOUS
  <2>2. Answers(a)
    BY <1>2, <2>1 DEF Repeat
  <2>3. UNCHANGED <<revision, stream>>
    BY <1>2 DEF Repeat
  <2>4. s = "superseded" => r \in Delivered
    <3>1. ASSUME head[revision[r].entity] = r PROVE r \in Delivered
      <4>1. head[revision[r].entity] # NoRevision /\ revision[r].entity \in Entity
        BY <3>1, HeldIsInterval, ParentsAreHeld
      <4>2. HeadIsLast(revision[r].entity)
        BY <4>1 DEF HeadsMatchStream
      <4> QED BY <3>1, <4>2 DEF HeadIsLast, Delivered
    <3> QED BY <3>1
  <2>5. s \in {"superseded", "conflict"}
    OBVIOUS
  <2> HIDE DEF s
  <2>6. a.state = s /\ a.revision = r
    BY <2>1, AnswerFields
  <2>7. IsTrue(a)'
    BY <2>3, <2>4, <2>5, <2>6 DEF IsTrue, Held, Delivered
  <2> QED BY <2>2, <2>7, OldReceiptsStayTrue
<1>3. ASSUME NEW c \in Content, NEW x \in BOOLEAN, Conflict(c, x)
      PROVE  ReceiptsAreTrue'
  <2>1. PICK a : a = Answer("conflict", New, 0)
    OBVIOUS
  <2>2. Answers(a) /\ KnownParents(c) /\ Retains(c)
    BY <1>3, <2>1 DEF Conflict, Admissible
  <2>3. New \in Held'
    BY <2>2, RetainsShape
  <2>4. a.state = "conflict" /\ a.revision \in Held'
    BY <2>1, <2>3, AnswerFields
  <2>5. IsTrue(a)'
    BY <2>4 DEF IsTrue
  <2> QED BY <2>2, <2>5, OldReceiptsStayTrue
<1>4. ASSUME NEW c \in Content, NEW x \in BOOLEAN, Accept(c, x)
      PROVE  ReceiptsAreTrue'
  <2>1. PICK a : a = Answer("accepted", New, Len(stream'))
    OBVIOUS
  <2>2. Answers(a)
    BY <1>4, <2>1 DEF Accept
  <2>3. Len(stream') \in DOMAIN stream' /\ stream'[Len(stream')] = New
    BY <1>4, BehindIsOfEntity
  <2>4. a.state = "accepted" /\ a.sequence = Len(stream') /\ a.revision = New
    BY <2>1, AnswerFields
  <2>5. IsTrue(a)'
    BY <2>3, <2>4 DEF IsTrue
  <2> QED BY <2>2, <2>5, OldReceiptsStayTrue
<1>5. ASSUME NEW c \in Content, Apply(c) PROVE ReceiptsAreTrue'
  BY <1>1, <1>3, <1>4, <1>5
     DEF Apply, ApplyAs, RejectInadmissible, RefuseBacklog, RefuseCollision
<1> QED BY <1>1, <1>2, <1>5 DEF LedgerNext, RejectInvalid

-----------------------------------------------------------------------------
(* The invariant, and what follows from it. *)

LEMMA InvStep == LedgerInv /\ [LedgerNext]_syncVars => LedgerInv'
<1> SUFFICES ASSUME LedgerInv, [LedgerNext]_syncVars PROVE LedgerInv'
  OBVIOUS
<1>1. CASE UNCHANGED syncVars
  BY <1>1 DEF LedgerInv, syncVars, LedgerTypeOK, Content, Receipt, Held, NoRevision,
              ParentsOK, StreamApplicable, ParentsOf, StreamUnique, HeadCoversStream,
              Delivered, HeadsMatchStream, HeadIsLast, OneLiveIdentity, LiveAt,
              ReceiptsAreTrue
<1>2. CASE LedgerNext
  <2>1. LedgerTypeOK'
    BY <1>2, TypeStep DEF LedgerInv
  <2>2. ReceiptsAreTrue'
    BY <1>2, <2>1, ReceiptStep DEF LedgerInv
  <2>3. CASE Stores
    BY <2>1, <2>2, <2>3, StoresKeeps DEF LedgerInv
  <2>4. ASSUME NEW c \in Content, NEW x \in BOOLEAN, Accept(c, x)
        PROVE  LedgerInv'
    <3>1. StreamApplicable'
      BY <2>1, <2>4, AcceptApplicable DEF LedgerInv
    <3>2. StreamUnique'
      BY <2>4, AcceptUnique DEF LedgerInv
    <3>3. HeadCoversStream'
      BY <2>4, AcceptCovers DEF LedgerInv
    <3>4. HeadsMatchStream'
      BY <2>4, AcceptMatches DEF LedgerInv
    <3>5. OneLiveIdentity'
      BY <2>4, AcceptOneIdentity DEF LedgerInv
    <3> QED BY <2>1, <2>2, <3>1, <3>2, <3>3, <3>4, <3>5 DEF LedgerInv
  <2> QED BY <1>2, <2>3, <2>4, StepKinds
<1> QED BY <1>1, <1>2

(* What the devices of an account push, in any order and with any repetition,
   leaves the ledger in its inductive invariant (_apply_one). *)
THEOREM LedgerInvariant == LedgerSpec => []LedgerInv
BY InitInv, InvStep, PTL DEF LedgerSpec

(* The rows keep their shape: parents are stored before their children, with
   the same entity (the checks of _apply_one on parents). *)
THEOREM LedgerTypeCorrect == LedgerSpec => []LedgerTypeOK
<1>1. LedgerInv => LedgerTypeOK
  BY DEF LedgerInv
<1> QED BY <1>1, LedgerInvariant, PTL

(* Every page of the outbox a device pulls can be applied in order: no
   accepted merge names a revision that the stream has not delivered. *)
THEOREM StreamIsApplicable == LedgerSpec => []StreamApplicable
<1>1. LedgerInv => StreamApplicable
  BY DEF LedgerInv
<1> QED BY <1>1, LedgerInvariant, PTL

(* The collision checks suffice: the outbox never delivers an event id, or a
   revision, twice. *)
THEOREM StreamIsUnique == LedgerSpec => []StreamUnique
<1>1. LedgerInv => StreamUnique
  BY DEF LedgerInv
<1> QED BY <1>1, LedgerInvariant, PTL

(* No accepted update of any device is lost: what was delivered is the head of
   its entity or an ancestor of another delivered revision. *)
THEOREM NoUpdateIsLost == LedgerSpec => []HeadCoversStream
<1>1. LedgerInv => HeadCoversStream
  BY DEF LedgerInv
<1> QED BY <1>1, LedgerInvariant, PTL

(* Looking at heads suffices for the whole stream: no prefix of it shows two
   live entities of a singleton kind (_singleton_identity). *)
THEOREM OneIdentityInEveryPrefix == LedgerSpec => []OneLiveIdentity
<1>1. LedgerInv => OneLiveIdentity
  BY DEF LedgerInv
<1> QED BY <1>1, LedgerInvariant, PTL

(* The answer kept for a retry (_store_receipt) never becomes false. *)
THEOREM ReceiptsStayTrue == LedgerSpec => []ReceiptsAreTrue
<1>1. LedgerInv => ReceiptsAreTrue
  BY DEF LedgerInv
<1> QED BY <1>1, LedgerInvariant, PTL
=============================================================================
