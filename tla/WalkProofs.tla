----------------------------- MODULE WalkProofs -----------------------------
(***************************************************************************)
(* The walk computes the backlog: whenever its loop ends, for every account*)
(* and every bound, it has found an order in which the whole backlog can   *)
(* be delivered, or refuses a backlog beyond the bound.                    *)
(***************************************************************************)
EXTENDS AncestorWalk, FiniteSetTheorems, SequenceTheorems, TLAPS

-----------------------------------------------------------------------------
(* The backlog is closed, disjoint from what was delivered, and within every
   closed set. *)

LEMMA BacklogClosed ==
    ASSUME NEW R, NEW P \in [R -> SUBSET R], NEW D, NEW S \in SUBSET R
    PROVE  LET B == Backlog(P, D, S)
           IN /\ B \subseteq R
              /\ S \ D \subseteq B
              /\ \A r \in B : P[r] \ D \subseteq B
BY DEF Backlog, ClosedUp

LEMMA BacklogLeast ==
    ASSUME NEW R, NEW P \in [R -> SUBSET R], NEW D, NEW S \in SUBSET R,
           NEW C \in SUBSET R, ClosedUp(C, P, D, S)
    PROVE  Backlog(P, D, S) \subseteq C
BY DEF Backlog

LEMMA BacklogUndelivered ==
    ASSUME NEW R, NEW P \in [R -> SUBSET R], NEW D, NEW S \in SUBSET R
    PROVE  Backlog(P, D, S) \cap D = {}
<1>1. ClosedUp(R \ D, P, D, S)
  BY DEF ClosedUp
<1> QED BY <1>1, BacklogLeast

-----------------------------------------------------------------------------
(* The inductive invariant. *)

Entry == Revision \X BOOLEAN

WalkTypeOK ==
    /\ parents \in [Revision -> SUBSET Revision]
    /\ \A r \in Revision : parents[r] \subseteq 1 .. r - 1
    /\ delivered \subseteq Revision
    /\ roots \subseteq Revision
    /\ stack \in Seq(Entry)
    /\ seen \subseteq Revision
    /\ ordered \in Seq(Revision)

Undelivered == Backlog(parents, delivered, roots)

Emitted == {ordered[i] : i \in DOMAIN ordered}

(* Below an entry, only descendants of it are waiting for their parents. *)
StackDescends ==
    \A i, j \in DOMAIN stack : i < j /\ stack[i][2] => stack[j][1] < stack[i][1]

(* A revision that was expanded is emitted, or comes back once. *)
SeenOnce ==
    /\ seen = Emitted \cup {stack[i][1] : i \in {k \in DOMAIN stack : stack[k][2]}}
    /\ \A i \in DOMAIN stack : stack[i][2] => stack[i][1] \notin Emitted
    /\ \A i, j \in DOMAIN ordered : ordered[i] = ordered[j] => i = j

(* Each undelivered parent is emitted before its child, or above it. *)
ParentsCovered ==
    /\ \A i \in DOMAIN stack : stack[i][2] =>
          \A p \in parents[stack[i][1]] \ delivered :
             p \in Emitted \/ \E j \in DOMAIN stack : i < j /\ stack[j][1] = p
    /\ \A i \in DOMAIN ordered : \A p \in parents[ordered[i]] \ delivered :
          \E h \in DOMAIN ordered : h < i /\ ordered[h] = p

(* The one undelivered root stays at the bottom until it is emitted. *)
RootAtBottom ==
    IF stack = <<>> THEN roots \ delivered \subseteq Emitted
    ELSE /\ roots \ delivered = {stack[1][1]}
         /\ stack[1][1] \notin Emitted
         /\ ~stack[1][2] => Len(stack) = 1 /\ seen = {}

WithinBacklog ==
    /\ seen \subseteq Undelivered
    /\ \A i \in DOMAIN stack : stack[i][1] \in Undelivered

WalkInv == /\ WalkTypeOK /\ StackDescends /\ SeenOnce
           /\ ParentsCovered /\ RootAtBottom /\ WithinBacklog

-----------------------------------------------------------------------------
(* The lists and stacks of the walk. *)

LEMMA SeqFromFunction ==
    ASSUME NEW T, NEW n \in Nat, NEW e \in [1 .. n -> T]
    PROVE  e \in Seq(T)
OBVIOUS

LEMMA EntryFacts ==
    ASSUME NEW r \in Revision, NEW m \in BOOLEAN, NEW x, x = <<r, m>>
    PROVE  x \in Entry /\ x[1] = r /\ x[2] = m
<1>1. <<r, m>> \in Revision \X BOOLEAN
  OBVIOUS
<1>2. <<r, m>>[1] = r /\ <<r, m>>[2] = m
  OBVIOUS
<1> QED BY <1>1, <1>2 DEF Entry

LEMMA ListFacts ==
    ASSUME NEW S, S \subseteq Revision, NEW s \in Lists(S)
    PROVE  /\ Entries(s) \in Seq(Entry)
           /\ Len(Entries(s)) = Cardinality(S)
           /\ DOMAIN Entries(s) = 1 .. Len(Entries(s))
           /\ \A i \in DOMAIN Entries(s) : /\ Entries(s)[i][1] \in S
                                           /\ ~Entries(s)[i][2]
           /\ \A r \in S : \E i \in DOMAIN Entries(s) : Entries(s)[i][1] = r
<1> DEFINE n == Cardinality(S)  e == Entries(s)
<1>1. n \in Nat
  <2>1. IsFiniteSet(Revision)
    BY FS_Interval, WalkAssumption DEF Revision
  <2>2. IsFiniteSet(S)
    BY <2>1, FS_Subset
  <2> QED BY <2>2, FS_CardinalityType
<1>2. /\ s \in [1 .. n -> S]
      /\ \A r \in S : \E i \in 1 .. n : s[i] = r
  BY DEF Lists
<1>3. DOMAIN e = 1 .. n /\ \A i \in 1 .. n : e[i] = <<s[i], FALSE>>
  BY <1>2 DEF Entries
<1>4. e = [i \in 1 .. n |-> <<s[i], FALSE>>]
  BY <1>2 DEF Entries
<1> HIDE DEF n, e
<1>5. \A i \in 1 .. n : s[i] \in S /\ s[i] \in Revision
  BY <1>2
<1>6. \A i \in 1 .. n : e[i] \in Entry /\ e[i][1] = s[i] /\ e[i][2] = FALSE
  <2> SUFFICES ASSUME NEW i \in 1 .. n
               PROVE  e[i] \in Entry /\ e[i][1] = s[i] /\ e[i][2] = FALSE
    OBVIOUS
  <2>1. s[i] \in Revision /\ e[i] = <<s[i], FALSE>>
    BY <1>3, <1>5
  <2>2. FALSE \in BOOLEAN
    OBVIOUS
  <2> HIDE DEF e
  <2> QED BY <2>1, <2>2, EntryFacts, Zenon
<1>7. e \in [1 .. n -> Entry]
  <2>1. \A i \in 1 .. n : <<s[i], FALSE>> \in Entry
    BY <1>3, <1>6
  <2> QED BY <1>4, <2>1
<1>8. e \in Seq(Entry)
  BY <1>1, <1>7, SeqFromFunction
<1>9. Len(e) = n
  BY <1>1, <1>3, <1>8
<1>10. \A r \in S : \E i \in 1 .. n : e[i][1] = r
  <2> SUFFICES ASSUME NEW r \in S PROVE \E i \in 1 .. n : e[i][1] = r
    OBVIOUS
  <2>1. \E i \in 1 .. n : s[i] = r
    BY <1>2
  <2> QED BY <1>6, <2>1
<1> QED BY <1>3, <1>5, <1>6, <1>8, <1>9, <1>10 DEF n, e

(* What is left of the stack when its top is taken. *)
LEMMA TopFacts ==
    ASSUME WalkTypeOK, stack # <<>>
    PROVE  /\ Len(stack) \in Nat \ {0}
           /\ DOMAIN stack = 1 .. Len(stack)
           /\ Top = stack[Len(stack)]
           /\ Top \in Entry /\ Top[1] \in Revision /\ Top[2] \in BOOLEAN
           /\ Rest \in Seq(Entry)
           /\ Len(Rest) = Len(stack) - 1
           /\ \A i \in 1 .. Len(stack) - 1 : Rest[i] = stack[i]
<1>1. /\ stack \in Seq(Entry) /\ Len(stack) \in Nat \ {0}
      /\ DOMAIN stack = 1 .. Len(stack)
  BY DEF WalkTypeOK
<1>2. Top = stack[Len(stack)] /\ Top \in Entry
  BY <1>1 DEF Top
<1>3. Top[1] \in Revision /\ Top[2] \in BOOLEAN
  BY <1>2 DEF Entry
<1>4. /\ Rest \in Seq(Entry) /\ Len(Rest) = Len(stack) - 1
      /\ \A i \in 1 .. Len(stack) - 1 : Rest[i] = stack[i]
  BY <1>1 DEF Rest
<1> QED BY <1>1, <1>2, <1>3, <1>4

(* The stack after an expansion: the revision, marked, under its parents. *)
LEMMA ExpandedFacts ==
    ASSUME WalkTypeOK, stack # <<>>, NEW S, S \subseteq Revision, NEW s \in Lists(S)
    PROVE  LET new == Append(Rest, <<Top[1], TRUE>>) \o Entries(s)
           IN /\ new \in Seq(Entry) /\ new # <<>>
              /\ DOMAIN new = 1 .. Len(new) /\ Len(new) \in Nat
              /\ Len(stack) \in DOMAIN new
              /\ \A i \in 1 .. Len(stack) - 1 : new[i] = stack[i]
              /\ new[Len(stack)][1] = Top[1] /\ new[Len(stack)][2]
              /\ \A i \in DOMAIN new : i > Len(stack) => new[i][1] \in S /\ ~new[i][2]
              /\ \A q \in S : \E i \in DOMAIN new : i > Len(stack) /\ new[i][1] = q
<1> DEFINE n == Len(stack)  m == <<Top[1], TRUE>>  e == Entries(s)
<1>1. /\ n \in Nat \ {0} /\ Rest \in Seq(Entry) /\ Len(Rest) = n - 1
      /\ \A i \in 1 .. n - 1 : Rest[i] = stack[i]
  BY TopFacts
<1>2. m \in Entry /\ m[1] = Top[1] /\ m[2]
  <2>1. Top[1] \in Revision /\ TRUE \in BOOLEAN
    BY TopFacts
  <2>2. m \in Entry /\ m[1] = Top[1] /\ m[2] = TRUE
    BY <2>1, EntryFacts, Zenon
  <2> QED BY <2>2
<1>3. /\ e \in Seq(Entry)
      /\ \A i \in 1 .. Len(e) : e[i][1] \in S /\ ~e[i][2]
      /\ \A r \in S : \E i \in 1 .. Len(e) : e[i][1] = r
  BY ListFacts
<1> HIDE DEF m, e, n
<1> DEFINE low == Append(Rest, m)
<1>4. /\ low \in Seq(Entry) /\ Len(low) = n
      /\ \A i \in 1 .. n - 1 : low[i] = Rest[i]
      /\ low[n] = m
  BY <1>1, <1>2
<1> DEFINE new == low \o e
<1>5. new = low \o e
  OBVIOUS
<1> HIDE DEF low, new
<1>6. /\ new \in Seq(Entry) /\ Len(e) \in Nat
      /\ Len(new) = n + Len(e) /\ DOMAIN new = 1 .. n + Len(e)
      /\ \A i \in 1 .. n - 1 : new[i] = Rest[i]
      /\ new[n] = m
      /\ \A i \in DOMAIN new : i > n => i - n \in 1 .. Len(e) /\ new[i] = e[i - n]
      /\ \A i \in 1 .. Len(e) : n + i \in DOMAIN new /\ new[n + i] = e[i]
  <2>1. /\ low \o e \in Seq(Entry) /\ Len(low \o e) = Len(low) + Len(e)
        /\ \A i \in 1 .. Len(low) + Len(e) :
              (low \o e)[i] = IF i <= Len(low) THEN low[i] ELSE e[i - Len(low)]
    <3>1. low \in Seq(Entry) /\ e \in Seq(Entry)
      BY <1>3, <1>4
    <3> QED BY <3>1, ConcatProperties
  <2>2. /\ new \in Seq(Entry) /\ Len(new) = n + Len(e)
        /\ \A i \in 1 .. n + Len(e) : new[i] = IF i <= n THEN low[i] ELSE e[i - n]
    BY <1>4, <1>5, <2>1, Zenon
  <2>3. Len(e) \in Nat /\ DOMAIN new = 1 .. Len(new)
    BY <1>3, <2>2, LenProperties
  <2>4. n \in Nat \ {0}
    BY <1>1
  <2>5. \A i \in 1 .. n - 1 : new[i] = low[i]
    BY <2>2, <2>3, <2>4
  <2>6. new[n] = low[n]
    BY <2>2, <2>3, <2>4
  <2>7. \A i \in 1 .. n + Len(e) :
           i > n => i - n \in 1 .. Len(e) /\ new[i] = e[i - n]
    BY <2>2, <2>3, <2>4
  <2>8. \A i \in 1 .. Len(e) : n + i \in 1 .. n + Len(e) /\ new[n + i] = e[i]
    BY <2>2, <2>3, <2>4
  <2> QED BY <1>4, <2>2, <2>3, <2>5, <2>6, <2>7, <2>8
<1>7. /\ DOMAIN new = 1 .. Len(new) /\ Len(new) \in Nat
      /\ n \in DOMAIN new
  BY <1>1, <1>6
<1>8. new # <<>>
  <2>1. DOMAIN <<>> = {}
    OBVIOUS
  <2> QED BY <1>7, <2>1
<1>9. \A i \in 1 .. n - 1 : new[i] = stack[i]
  BY <1>1, <1>6
<1>10. \A i \in DOMAIN new : i > n => new[i][1] \in S /\ ~new[i][2]
  BY <1>3, <1>6
<1>11. \A q \in S : \E i \in DOMAIN new : i > n /\ new[i][1] = q
  <2> SUFFICES ASSUME NEW q \in S
               PROVE  \E i \in DOMAIN new : i > n /\ new[i][1] = q
    OBVIOUS
  <2>1. PICK i \in 1 .. Len(e) : e[i][1] = q
    BY <1>3
  <2>2. n + i \in DOMAIN new /\ new[n + i] = e[i]
    BY <1>6
  <2>3. n + i > n
    BY <1>1, <1>6
  <2> QED BY <2>1, <2>2, <2>3
<1> QED BY <1>2, <1>6, <1>7, <1>8, <1>9, <1>10, <1>11 DEF n, m, e, low, new

(* A revision of the backlog is undelivered, and so are the parents of it that
   the walk stacks. *)
LEMMA BacklogFacts ==
    ASSUME WalkTypeOK
    PROVE  /\ Undelivered \subseteq Revision
           /\ Undelivered \cap delivered = {}
           /\ roots \ delivered \subseteq Undelivered
           /\ \A r \in Undelivered : parents[r] \ delivered \subseteq Undelivered
BY BacklogClosed, BacklogUndelivered DEF WalkTypeOK, Undelivered

LEMMA WalkInitInv == WalkInit => WalkInv
<1> SUFFICES ASSUME WalkInit PROVE WalkInv
  OBVIOUS
<1>1. /\ parents \in [Revision -> SUBSET Revision]
      /\ \A r \in Revision : parents[r] \subseteq 1 .. r - 1
      /\ delivered \subseteq Revision /\ roots \subseteq Revision
      /\ seen = {} /\ ordered = <<>>
  BY DEF WalkInit
<1>2. PICK s \in Lists(roots \ delivered) : stack = Entries(s)
  BY DEF WalkInit
<1>3. roots \ delivered \subseteq Revision
  BY <1>1
<1>4. /\ stack \in Seq(Entry)
      /\ Len(stack) = Cardinality(roots \ delivered)
      /\ DOMAIN stack = 1 .. Len(stack)
      /\ \A i \in DOMAIN stack : stack[i][1] \in roots \ delivered /\ ~stack[i][2]
      /\ \A r \in roots \ delivered : \E i \in DOMAIN stack : stack[i][1] = r
  BY <1>2, <1>3, ListFacts
<1>5. WalkTypeOK
  BY <1>1, <1>4 DEF WalkTypeOK
<1>6. Emitted = {} /\ DOMAIN ordered = {}
  BY <1>1 DEF Emitted
<1>7. StackDescends /\ SeenOnce /\ ParentsCovered
  BY <1>1, <1>4, <1>6 DEF StackDescends, SeenOnce, ParentsCovered
<1>8. WithinBacklog
  BY <1>1, <1>4, <1>5, BacklogFacts DEF WithinBacklog
<1>9. RootAtBottom
  <2>1. IsFiniteSet(roots) /\ Cardinality(roots) <= 2
    <3>1. IsFiniteSet(Revision)
      BY FS_Interval, WalkAssumption DEF Revision
    <3>2. Cardinality(roots) <= 2
      BY DEF WalkInit
    <3> QED BY <1>1, <3>1, <3>2, FS_Subset
  <2>2. \A x, y \in roots \ delivered : x = y
    <3>1. SUFFICES ASSUME NEW x \in roots \ delivered, NEW y \in roots \ delivered, x # y
                   PROVE  FALSE
      OBVIOUS
    <3>2. PICK z \in roots : z \in delivered
      BY <3>1 DEF WalkInit
    <3>3. Cardinality({x, y, z}) = 3
      <4>1. IsFiniteSet({x}) /\ Cardinality({x}) = 1
        BY FS_Singleton
      <4>2. IsFiniteSet({x} \cup {y}) /\ Cardinality({x} \cup {y}) = 2
        <5>1. y \notin {x}
          BY <3>1
        <5> QED BY <4>1, <5>1, FS_AddElement
      <4>3. Cardinality(({x} \cup {y}) \cup {z}) = 3
        <5>1. z \notin {x} \cup {y}
          BY <3>1, <3>2
        <5> DEFINE S == {x} \cup {y}
        <5> HIDE DEF S
        <5>2. IsFiniteSet(S) /\ Cardinality(S) = 2 /\ z \notin S
          BY <4>2, <5>1 DEF S
        <5>3. Cardinality(S \cup {z}) = Cardinality(S) + 1
          BY <5>2, FS_AddElement
        <5> QED BY <5>2, <5>3 DEF S
      <4>4. ({x} \cup {y}) \cup {z} = {x, y, z}
        OBVIOUS
      <4> QED BY <4>3, <4>4
    <3>4. Cardinality({x, y, z}) <= Cardinality(roots)
      BY <2>1, <3>1, <3>2, FS_Subset
    <3>5. Cardinality(roots) \in Nat
      BY <2>1, FS_CardinalityType
    <3> QED BY <2>1, <3>3, <3>4, <3>5
  <2>3. CASE roots \ delivered = {}
    <3>1. DOMAIN stack = {}
      BY <1>4, <2>3
    <3>2. stack = <<>>
      BY <1>4, <3>1
    <3> QED BY <2>3, <3>2 DEF RootAtBottom
  <2>4. CASE roots \ delivered # {}
    <3>1. PICK x : roots \ delivered = {x}
      BY <2>2, <2>4
    <3>2. Len(stack) = 1
      BY <1>4, <3>1, FS_Singleton
    <3>3. stack # <<>> /\ 1 \in DOMAIN stack
      BY <1>4, <3>2
    <3>4. stack[1][1] = x
      BY <1>4, <3>1, <3>3
    <3> QED BY <1>1, <1>6, <3>1, <3>2, <3>3, <3>4 DEF RootAtBottom
  <2> QED BY <2>3, <2>4
<1> QED BY <1>5, <1>7, <1>8, <1>9 DEF WalkInv

-----------------------------------------------------------------------------
(* The steps. *)

LEMMA EmitKeeps == WalkInv /\ Emit => WalkInv'
<1> SUFFICES ASSUME WalkInv, Emit PROVE WalkInv'
  OBVIOUS
<1> DEFINE n == Len(stack)  r == Top[1]
<1>1. /\ WalkTypeOK /\ StackDescends /\ SeenOnce
      /\ ParentsCovered /\ RootAtBottom /\ WithinBacklog
  BY DEF WalkInv
<1>2. /\ stack # <<>> /\ Top[2]
      /\ ordered' = Append(ordered, r) /\ stack' = Rest
      /\ parents' = parents /\ delivered' = delivered /\ roots' = roots /\ seen' = seen
  BY DEF Emit, Running, account
<1>3. /\ n \in Nat \ {0} /\ DOMAIN stack = 1 .. n
      /\ stack[n][1] = r /\ stack[n][2] /\ r \in Revision
      /\ stack' \in Seq(Entry) /\ Len(stack') = n - 1 /\ DOMAIN stack' = 1 .. n - 1
      /\ \A i \in 1 .. n - 1 : stack'[i] = stack[i]
  BY <1>1, <1>2, TopFacts, LenProperties
<1>4. /\ ordered \in Seq(Revision) /\ Len(ordered) \in Nat
      /\ DOMAIN ordered = 1 .. Len(ordered)
      /\ ordered' \in Seq(Revision) /\ DOMAIN ordered' = 1 .. Len(ordered) + 1
      /\ \A i \in 1 .. Len(ordered) : ordered'[i] = ordered[i]
      /\ ordered'[Len(ordered) + 1] = r
  BY <1>1, <1>2, <1>3 DEF WalkTypeOK
<1>5. Emitted' = Emitted \cup {r}
  BY <1>4 DEF Emitted
<1>6. r \notin Emitted
  BY <1>1, <1>3 DEF SeenOnce
<1> HIDE DEF n, r
<1>7. WalkTypeOK'
  BY <1>1, <1>2, <1>3, <1>4 DEF WalkTypeOK, Revision
<1>8. StackDescends'
  BY <1>1, <1>3 DEF StackDescends
<1>9. SeenOnce'
  <2>1. \A i \in 1 .. n - 1 : stack[i][2] => stack[i][1] # r
    BY <1>1, <1>3 DEF StackDescends, Revision
  <2>2. \A i \in DOMAIN stack' : stack'[i][2] => stack'[i][1] \notin Emitted'
    BY <1>1, <1>3, <1>5, <2>1 DEF SeenOnce
  <2>3. \A i, j \in DOMAIN ordered' : ordered'[i] = ordered'[j] => i = j
    <3>1. \A i \in 1 .. Len(ordered) : ordered[i] # r
      BY <1>4, <1>6 DEF Emitted
    <3> QED BY <1>1, <1>4, <3>1 DEF SeenOnce
  <2>4. seen = Emitted' \cup {stack'[i][1] : i \in {k \in DOMAIN stack' : stack'[k][2]}}
    <3>1. seen = Emitted \cup {stack[i][1] : i \in {k \in DOMAIN stack : stack[k][2]}}
      BY <1>1 DEF SeenOnce
    <3> QED BY <1>3, <1>5, <3>1
  <2> QED BY <1>2, <2>2, <2>3, <2>4 DEF SeenOnce
<1>10. ParentsCovered'
  <2>1. \A i \in DOMAIN stack' : stack'[i][2] =>
           \A p \in parents[stack'[i][1]] \ delivered :
              p \in Emitted' \/ \E j \in DOMAIN stack' : i < j /\ stack'[j][1] = p
    <3> SUFFICES ASSUME NEW i \in 1 .. n - 1, stack[i][2],
                        NEW p \in parents[stack[i][1]] \ delivered, p \notin Emitted'
                 PROVE  \E j \in 1 .. n - 1 : i < j /\ stack[j][1] = p
      BY <1>3
    <3>1. PICK j \in 1 .. n : i < j /\ stack[j][1] = p
      BY <1>1, <1>3, <1>5 DEF ParentsCovered
    <3>2. j # n
      BY <1>3, <1>5, <3>1
    <3> QED BY <1>3, <3>1, <3>2
  <2>2. parents[r] \ delivered \subseteq Emitted
    BY <1>1, <1>3 DEF ParentsCovered
  <2>3. \A i \in DOMAIN ordered' : \A p \in parents[ordered'[i]] \ delivered :
           \E h \in DOMAIN ordered' : h < i /\ ordered'[h] = p
    <3> SUFFICES ASSUME NEW i \in 1 .. Len(ordered) + 1,
                        NEW p \in parents[ordered'[i]] \ delivered
                 PROVE  \E h \in 1 .. Len(ordered) : h < i /\ ordered[h] = p
      BY <1>4
    <3>1. CASE i = Len(ordered) + 1
      BY <1>4, <2>2, <3>1 DEF Emitted
    <3>2. CASE i \in 1 .. Len(ordered)
      BY <1>1, <1>4, <3>2 DEF ParentsCovered
    <3> QED BY <1>4, <3>1, <3>2
  <2> QED BY <1>2, <2>1, <2>3 DEF ParentsCovered
<1>11. RootAtBottom'
  <2>1. roots \ delivered = {stack[1][1]} /\ stack[1][1] \notin Emitted
    BY <1>1, <1>2 DEF RootAtBottom
  <2>2. CASE n = 1
    <3>1. stack' = <<>>
      BY <1>3, <2>2
    <3> QED BY <1>2, <1>3, <1>5, <2>1, <2>2, <3>1 DEF RootAtBottom
  <2>3. CASE n > 1
    <3>1. stack' # <<>> /\ stack'[1] = stack[1] /\ stack[1][2]
      BY <1>1, <1>2, <1>3, <2>3 DEF RootAtBottom, n
    <3>2. stack[1][1] # r
      BY <1>1, <1>3, <2>3, <3>1 DEF StackDescends, Revision
    <3> QED BY <1>2, <1>5, <2>1, <3>1, <3>2 DEF RootAtBottom
  <2> QED BY <1>3, <2>2, <2>3
<1>12. WithinBacklog'
  <2>1. Undelivered' = Undelivered
    BY <1>2 DEF Undelivered
  <2> QED BY <1>1, <1>2, <1>3, <2>1 DEF WithinBacklog
<1> QED BY <1>7, <1>8, <1>9, <1>10, <1>11, <1>12 DEF WalkInv

LEMMA SkipKeeps == WalkInv /\ Skip => WalkInv'
<1> SUFFICES ASSUME WalkInv, Skip PROVE WalkInv'
  OBVIOUS
<1> DEFINE n == Len(stack)  r == Top[1]
<1>1. /\ WalkTypeOK /\ StackDescends /\ SeenOnce
      /\ ParentsCovered /\ RootAtBottom /\ WithinBacklog
  BY DEF WalkInv
<1>2. /\ stack # <<>> /\ ~Top[2] /\ r \in seen \cup delivered /\ stack' = Rest
      /\ parents' = parents /\ delivered' = delivered /\ roots' = roots
      /\ seen' = seen /\ ordered' = ordered
  BY DEF Skip, Running, account
<1>3. /\ n \in Nat \ {0} /\ DOMAIN stack = 1 .. n
      /\ stack[n][1] = r /\ ~stack[n][2] /\ r \in Revision
      /\ stack' \in Seq(Entry) /\ Len(stack') = n - 1 /\ DOMAIN stack' = 1 .. n - 1
      /\ \A i \in 1 .. n - 1 : stack'[i] = stack[i]
  BY <1>1, <1>2, TopFacts, LenProperties
<1>4. r \in seen
  BY <1>1, <1>2, <1>3, BacklogFacts DEF WithinBacklog
<1>5. Emitted' = Emitted
  BY <1>2 DEF Emitted
<1> HIDE DEF n, r
<1>6. WalkTypeOK'
  BY <1>1, <1>2, <1>3 DEF WalkTypeOK, Revision
<1>7. StackDescends'
  BY <1>1, <1>3 DEF StackDescends
<1>8. SeenOnce'
  <2>1. seen = Emitted \cup {stack'[i][1] : i \in {k \in DOMAIN stack' : stack'[k][2]}}
    <3>1. seen = Emitted \cup {stack[i][1] : i \in {k \in DOMAIN stack : stack[k][2]}}
      BY <1>1 DEF SeenOnce
    <3> QED BY <1>3, <3>1
  <2>2. \A i \in DOMAIN stack' : stack'[i][2] => stack'[i][1] \notin Emitted
    BY <1>1, <1>3 DEF SeenOnce
  <2> QED BY <1>1, <1>2, <1>5, <2>1, <2>2 DEF SeenOnce
<1>9. ParentsCovered'
  <2>1. \A i \in DOMAIN stack' : stack'[i][2] =>
           \A p \in parents[stack'[i][1]] \ delivered :
              p \in Emitted \/ \E j \in DOMAIN stack' : i < j /\ stack'[j][1] = p
    <3> SUFFICES ASSUME NEW i \in 1 .. n - 1, stack[i][2],
                        NEW p \in parents[stack[i][1]] \ delivered, p \notin Emitted
                 PROVE  \E j \in 1 .. n - 1 : i < j /\ stack[j][1] = p
      BY <1>3
    <3>1. PICK j \in 1 .. n : i < j /\ stack[j][1] = p
      BY <1>1, <1>3 DEF ParentsCovered
    <3>2. CASE j # n
      BY <1>3, <3>1, <3>2
    <3>3. CASE j = n
      <4>1. p = r /\ p \in seen
        BY <1>3, <1>4, <3>1, <3>3
      <4>2. PICK k \in 1 .. n : stack[k][2] /\ stack[k][1] = p
        BY <1>1, <1>3, <4>1 DEF SeenOnce
      <4>3. stack[i][1] \in Revision
        BY <1>1, <1>3 DEF WalkTypeOK, Entry
      <4>4. p \in Int /\ p < stack[i][1]
        BY <1>1, <4>3 DEF WalkTypeOK, Revision
      <4>5. ~(k < i)
        BY <1>1, <1>3, <4>2, <4>3, <4>4 DEF StackDescends, Revision
      <4>6. k # i /\ k # n
        BY <1>3, <4>2, <4>3, <4>4 DEF Revision
      <4> QED BY <1>3, <4>2, <4>5, <4>6
    <3> QED BY <3>2, <3>3
  <2> QED BY <1>1, <1>2, <1>5, <2>1 DEF ParentsCovered
<1>10. RootAtBottom'
  <2>1. roots \ delivered = {stack[1][1]} /\ stack[1][1] \notin Emitted
    BY <1>1, <1>2 DEF RootAtBottom
  <2>2. n > 1
    <3>1. CASE n = 1
      BY <1>1, <1>2, <1>3, <1>4, <3>1 DEF RootAtBottom
    <3> QED BY <1>3, <3>1
  <2>3. stack' # <<>> /\ stack'[1] = stack[1] /\ stack[1][2]
    BY <1>1, <1>2, <1>3, <2>2 DEF RootAtBottom, n
  <2> QED BY <1>2, <1>5, <2>1, <2>3 DEF RootAtBottom
<1>11. WithinBacklog'
  <2>1. Undelivered' = Undelivered
    BY <1>2 DEF Undelivered
  <2> QED BY <1>1, <1>2, <1>3, <2>1 DEF WithinBacklog
<1> QED BY <1>6, <1>7, <1>8, <1>9, <1>10, <1>11 DEF WalkInv

LEMMA ExpandKeeps == WalkInv /\ Expand => WalkInv'
<1> SUFFICES ASSUME WalkInv, Expand PROVE WalkInv'
  OBVIOUS
<1> DEFINE n == Len(stack)  r == Top[1]  S == parents[r] \ (delivered \cup seen')
<1>1. /\ WalkTypeOK /\ StackDescends /\ SeenOnce
      /\ ParentsCovered /\ RootAtBottom /\ WithinBacklog
  BY DEF WalkInv
<1>2. /\ stack # <<>> /\ ~Top[2] /\ r \notin seen \cup delivered
      /\ seen' = seen \cup {r}
      /\ parents' = parents /\ delivered' = delivered /\ roots' = roots
      /\ ordered' = ordered
  BY DEF Expand, Running, account
<1>3. PICK s \in Lists(S) : stack' = Append(Rest, <<r, TRUE>>) \o Entries(s)
  BY DEF Expand
<1>4. /\ n \in Nat \ {0} /\ DOMAIN stack = 1 .. n
      /\ stack[n][1] = r /\ ~stack[n][2] /\ r \in Revision
  BY <1>1, <1>2, TopFacts
<1>5. S \subseteq Revision /\ S \subseteq parents[r]
  BY <1>1, <1>4 DEF WalkTypeOK
<1>6. /\ stack' \in Seq(Entry) /\ stack' # <<>>
      /\ DOMAIN stack' = 1 .. Len(stack') /\ Len(stack') \in Nat
      /\ n \in DOMAIN stack'
      /\ \A i \in 1 .. n - 1 : stack'[i] = stack[i]
      /\ stack'[n][1] = r /\ stack'[n][2]
      /\ \A i \in DOMAIN stack' : i > n => stack'[i][1] \in S /\ ~stack'[i][2]
      /\ \A q \in S : \E i \in DOMAIN stack' : i > n /\ stack'[i][1] = q
  <2> DEFINE new == Append(Rest, <<r, TRUE>>) \o Entries(s)
  <2>1. WalkTypeOK /\ stack # <<>> /\ S \subseteq Revision
    BY <1>1, <1>2, <1>5
  <2> HIDE DEF S
  <2>2. /\ new \in Seq(Entry) /\ new # <<>>
        /\ DOMAIN new = 1 .. Len(new) /\ Len(new) \in Nat
        /\ n \in DOMAIN new
        /\ \A i \in 1 .. n - 1 : new[i] = stack[i]
        /\ new[n][1] = r /\ new[n][2]
        /\ \A i \in DOMAIN new : i > n => new[i][1] \in S /\ ~new[i][2]
        /\ \A q \in S : \E i \in DOMAIN new : i > n /\ new[i][1] = q
    BY <2>1, ExpandedFacts, Zenon
  <2> HIDE DEF new
  <2>3. stack' = new
    BY <1>3 DEF new
  <2> QED BY <2>2, <2>3, Zenon
<1>7. \A q \in S : q \in Int /\ q < r
  BY <1>1, <1>4, <1>5 DEF WalkTypeOK, Revision
<1>8. Emitted' = Emitted
  BY <1>2 DEF Emitted
<1> HIDE DEF n, r
<1>9. WalkTypeOK'
  <2>1. Revision' = Revision /\ Entry' = Entry
    BY DEF Revision, Entry
  <2>2. seen' \subseteq Revision
    BY <1>1, <1>2, <1>4 DEF WalkTypeOK
  <2>3. /\ parents \in [Revision -> SUBSET Revision]
        /\ \A q \in Revision : parents[q] \subseteq 1 .. q - 1
        /\ delivered \subseteq Revision /\ roots \subseteq Revision
        /\ ordered \in Seq(Revision)
    BY <1>1 DEF WalkTypeOK
  <2> QED BY <1>2, <1>6, <2>1, <2>2, <2>3 DEF WalkTypeOK
<1>10. \A i \in 1 .. n : stack'[i][1] = stack[i][1]
  BY <1>4, <1>6
<1>11. \A i \in 1 .. n - 1 : stack[i][2] => r < stack[i][1] /\ stack[i][1] \in Int
  <2>1. \A i \in 1 .. n - 1 : stack[i][1] \in Revision
    BY <1>1, <1>4 DEF WalkTypeOK, Entry
  <2> QED BY <1>1, <1>4, <2>1 DEF StackDescends, Revision
<1>12. StackDescends'
  <2> SUFFICES ASSUME NEW i \in DOMAIN stack', NEW j \in DOMAIN stack', i < j, stack'[i][2]
               PROVE  stack'[j][1] < stack'[i][1]
    BY DEF StackDescends
  <2>1. i \in 1 .. n
    BY <1>4, <1>6
  <2>2. CASE j \in 1 .. n
    BY <1>1, <1>4, <1>6, <1>10, <2>1, <2>2 DEF StackDescends
  <2>3. CASE j > n
    <3>1. stack'[j][1] \in Int /\ stack'[j][1] < r
      BY <1>6, <1>7, <2>3
    <3>2. CASE i = n
      BY <1>6, <3>1, <3>2
    <3>3. CASE i # n
      BY <1>4, <1>6, <1>11, <2>1, <3>1, <3>3 DEF Revision
    <3> QED BY <3>2, <3>3
  <2> QED BY <1>4, <1>6, <2>2, <2>3
<1>13. SeenOnce'
  <2>1. seen = Emitted \cup {stack[i][1] : i \in {k \in DOMAIN stack : stack[k][2]}}
    BY <1>1 DEF SeenOnce
  <2>2. seen' = Emitted \cup {stack'[i][1] : i \in {k \in DOMAIN stack' : stack'[k][2]}}
    <3> DEFINE marked  == {stack[i][1] : i \in {k \in DOMAIN stack : stack[k][2]}}
               marked2 == {stack'[i][1] : i \in {k \in DOMAIN stack' : stack'[k][2]}}
    <3>1. ASSUME NEW q \in marked PROVE q \in marked2
      <4>1. PICK i \in 1 .. n : stack[i][2] /\ q = stack[i][1]
        BY <1>4
      <4>2. i \in 1 .. n - 1 /\ i \in DOMAIN stack'
        BY <1>4, <1>6, <4>1
      <4> QED BY <1>6, <4>1, <4>2
    <3>2. r \in marked2
      BY <1>6
    <3>3. ASSUME NEW q \in marked2, q # r PROVE q \in marked
      <4>1. PICK i \in DOMAIN stack' : stack'[i][2] /\ q = stack'[i][1]
        OBVIOUS
      <4>2. i \in 1 .. n - 1
        BY <1>4, <1>6, <3>3, <4>1
      <4> QED BY <1>4, <1>6, <4>1, <4>2
    <3> QED BY <1>2, <2>1, <3>1, <3>2, <3>3
  <2>3. r \notin Emitted
    BY <1>2, <2>1
  <2>4. \A i \in DOMAIN stack' : stack'[i][2] => stack'[i][1] \notin Emitted
    <3> SUFFICES ASSUME NEW i \in DOMAIN stack', stack'[i][2]
                 PROVE  stack'[i][1] \notin Emitted
      OBVIOUS
    <3>1. i = n \/ i \in 1 .. n - 1
      BY <1>4, <1>6
    <3> QED BY <1>1, <1>4, <1>6, <2>3, <3>1 DEF SeenOnce
  <2> QED BY <1>1, <1>2, <1>8, <2>2, <2>4 DEF SeenOnce
<1>14. ParentsCovered'
  <2>1. \A i \in DOMAIN stack' : stack'[i][2] =>
           \A p \in parents[stack'[i][1]] \ delivered :
              p \in Emitted \/ \E j \in DOMAIN stack' : i < j /\ stack'[j][1] = p
    <3> SUFFICES ASSUME NEW i \in DOMAIN stack', stack'[i][2],
                        NEW p \in parents[stack'[i][1]] \ delivered, p \notin Emitted
                 PROVE  \E j \in DOMAIN stack' : i < j /\ stack'[j][1] = p
      OBVIOUS
    <3>1. CASE i = n
      <4>1. p \in parents[r] /\ p \in Int /\ p < r
        BY <1>1, <1>4, <1>6, <3>1 DEF WalkTypeOK, Revision
      <4>2. p \notin seen'
        <5>1. SUFFICES ASSUME p \in seen' PROVE FALSE
          OBVIOUS
        <5>2. p \in seen
          BY <1>2, <1>4, <4>1, <5>1 DEF Revision
        <5>3. PICK k \in 1 .. n : stack[k][2] /\ stack[k][1] = p
          BY <1>1, <1>4, <5>2 DEF SeenOnce
        <5>4. k \in 1 .. n - 1
          BY <1>4, <5>3
        <5> QED BY <1>4, <1>11, <4>1, <5>3, <5>4 DEF Revision
      <4>3. p \in S
        BY <4>1, <4>2
      <4> QED BY <1>6, <3>1, <4>3
    <3>2. CASE i # n
      <4>1. i \in 1 .. n - 1 /\ stack[i] = stack'[i]
        BY <1>4, <1>6, <3>2
      <4>2. PICK j \in 1 .. n : i < j /\ stack[j][1] = p
        BY <1>1, <1>4, <4>1 DEF ParentsCovered
      <4>3. j \in DOMAIN stack' /\ stack'[j][1] = p
        BY <1>4, <1>6, <1>10, <4>2
      <4> QED BY <4>2, <4>3
    <3> QED BY <3>1, <3>2
  <2> QED BY <1>1, <1>2, <1>8, <2>1 DEF ParentsCovered
<1>15. RootAtBottom'
  <2>1. /\ roots \ delivered = {stack[1][1]} /\ stack[1][1] \notin Emitted
        /\ ~stack[1][2] => n = 1
    BY <1>1, <1>2 DEF RootAtBottom, n
  <2>2. stack'[1][1] = stack[1][1]
    BY <1>4, <1>10
  <2>3. stack'[1][2]
    BY <1>4, <1>6, <2>1
  <2> QED BY <1>2, <1>6, <1>8, <2>1, <2>2, <2>3 DEF RootAtBottom
<1>16. WithinBacklog'
  <2>1. Undelivered' = Undelivered
    BY <1>2 DEF Undelivered
  <2>2. r \in Undelivered
    BY <1>1, <1>4 DEF WithinBacklog
  <2>3. S \subseteq Undelivered
    BY <1>1, <2>2, BacklogFacts
  <2>4. \A i \in DOMAIN stack' : stack'[i][1] \in Undelivered
    <3> SUFFICES ASSUME NEW i \in DOMAIN stack' PROVE stack'[i][1] \in Undelivered
      OBVIOUS
    <3>1. i \in 1 .. n \/ i > n
      BY <1>4, <1>6
    <3> QED BY <1>1, <1>4, <1>6, <1>10, <2>3, <3>1 DEF WithinBacklog
  <2> QED BY <1>1, <1>2, <2>1, <2>2, <2>4 DEF WithinBacklog
<1> QED BY <1>9, <1>12, <1>13, <1>14, <1>15, <1>16 DEF WalkInv

LEMMA WalkInvStep == WalkInv /\ [WalkNext]_walkVars => WalkInv'
<1> SUFFICES ASSUME WalkInv, [WalkNext]_walkVars PROVE WalkInv'
  OBVIOUS
<1>1. CASE Emit
  BY <1>1, EmitKeeps
<1>2. CASE Skip
  BY <1>2, SkipKeeps
<1>3. CASE Expand
  BY <1>3, ExpandKeeps
<1>4. CASE UNCHANGED walkVars
  BY <1>4 DEF walkVars, account, WalkInv, WalkTypeOK, StackDescends, SeenOnce,
     ParentsCovered, RootAtBottom, WithinBacklog, Emitted, Undelivered
<1> QED BY <1>1, <1>2, <1>3, <1>4 DEF WalkNext

-----------------------------------------------------------------------------
(* What the walk answers. *)

(* The revisions emitted are counted by their list. *)
LEMMA EmittedFacts ==
    ASSUME WalkInv
    PROVE  /\ IsFiniteSet(Undelivered) /\ Emitted \subseteq Undelivered
           /\ IsFiniteSet(Emitted) /\ Cardinality(Emitted) = Len(ordered)
           /\ Len(ordered) \in Nat /\ DOMAIN ordered = 1 .. Len(ordered)
<1>1. ordered \in Seq(Revision) /\ Emitted \subseteq Undelivered
  BY DEF WalkInv, WalkTypeOK, SeenOnce, WithinBacklog
<1>2. Len(ordered) \in Nat /\ DOMAIN ordered = 1 .. Len(ordered)
  BY <1>1
<1>3. IsFiniteSet(Undelivered)
  <2>1. IsFiniteSet(Revision)
    BY FS_Interval, WalkAssumption DEF Revision
  <2> QED BY <2>1, BacklogFacts, FS_Subset DEF WalkInv
<1>4. IsFiniteSet(1 .. Len(ordered)) /\ Cardinality(1 .. Len(ordered)) = Len(ordered)
  <2> DEFINE L == Len(ordered)
  <2>1. L \in Nat
    BY <1>2
  <2> HIDE DEF L
  <2>2. /\ IsFiniteSet(1 .. L)
        /\ Cardinality(1 .. L) = IF 1 > L THEN 0 ELSE L - 1 + 1
    BY <2>1, FS_Interval
  <2>3. IsFiniteSet(1 .. L) /\ Cardinality(1 .. L) = L
    BY <2>1, <2>2
  <2> QED BY <2>3 DEF L
<1>5. ordered \in Bijection(1 .. Len(ordered), Emitted)
  <2>1. ordered \in [1 .. Len(ordered) -> Emitted]
    BY <1>1, <1>2 DEF Emitted
  <2>2. \A i, j \in 1 .. Len(ordered) : ordered[i] = ordered[j] => i = j
    BY <1>2 DEF WalkInv, SeenOnce
  <2>3. \A q \in Emitted : \E i \in 1 .. Len(ordered) : ordered[i] = q
    BY <1>2 DEF Emitted
  <2>4. ordered \in Injection(1 .. Len(ordered), Emitted)
    BY <2>1, <2>2 DEF Injection, IsInjective
  <2>5. ordered \in Surjection(1 .. Len(ordered), Emitted)
    BY <2>1, <2>3 DEF Surjection
  <2> QED BY <2>4, <2>5 DEF Bijection
<1>6. ExistsBijection(1 .. Len(ordered), Emitted)
  BY <1>5 DEF ExistsBijection
<1> QED BY <1>1, <1>2, <1>3, <1>4, <1>6, FS_Bijection

LEMMA InvIsExact == WalkInv => WalkIsExact
<1> SUFFICES ASSUME WalkInv, ~Running
             PROVE  IF stack = <<>>
                    THEN ordered \in Deliveries(Undelivered, parents)
                    ELSE Cardinality(Undelivered) > MaxUndelivered
  BY DEF WalkIsExact, Undelivered
<1>1. /\ WalkTypeOK /\ StackDescends /\ SeenOnce
      /\ ParentsCovered /\ RootAtBottom /\ WithinBacklog
  BY DEF WalkInv
<1>2. CASE stack = <<>>
  <2>1. Undelivered \subseteq Emitted
    <3>1. Emitted \subseteq Revision
      BY <1>1 DEF WalkTypeOK, Emitted
    <3>2. \A q \in Emitted : parents[q] \ delivered \subseteq Emitted
      BY <1>1 DEF ParentsCovered, Emitted
    <3>3. ClosedUp(Emitted, parents, delivered, roots)
      BY <1>1, <1>2, <3>2 DEF RootAtBottom, ClosedUp
    <3> QED BY <1>1, <3>1, <3>3, BacklogLeast DEF WalkTypeOK, Undelivered
  <2>2. Undelivered = Emitted
    BY <2>1, EmittedFacts
  <2>3. /\ Cardinality(Undelivered) = Len(ordered)
        /\ Len(ordered) \in Nat /\ DOMAIN ordered = 1 .. Len(ordered)
    BY <2>2, EmittedFacts
  <2>4. ordered \in [1 .. Cardinality(Undelivered) -> Undelivered]
    <3>1. ordered \in [1 .. Len(ordered) -> Revision]
      BY <1>1, LenProperties DEF WalkTypeOK
    <3>2. \A i \in 1 .. Len(ordered) : ordered[i] \in Undelivered
      BY <2>2, <2>3 DEF Emitted
    <3>3. ordered \in [1 .. Len(ordered) -> Undelivered]
      BY <3>1, <3>2
    <3> QED BY <2>3, <3>3
  <2>5. IsDelivery(ordered, Undelivered, parents)
    <3>1. \A q \in Undelivered : \E i \in DOMAIN ordered : ordered[i] = q
      BY <2>2 DEF Emitted
    <3>2. \A i, j \in DOMAIN ordered : ordered[i] = ordered[j] => i = j
      BY <1>1 DEF SeenOnce
    <3>3. \A i, j \in DOMAIN ordered : ordered[i] \in parents[ordered[j]] => i < j
      <4> SUFFICES ASSUME NEW i \in DOMAIN ordered, NEW j \in DOMAIN ordered,
                          ordered[i] \in parents[ordered[j]]
                   PROVE  i < j
        OBVIOUS
      <4>1. ordered[i] \notin delivered
        BY <1>1, <2>2, BacklogFacts DEF Emitted
      <4>2. PICK h \in DOMAIN ordered : h < j /\ ordered[h] = ordered[i]
        BY <1>1, <4>1 DEF ParentsCovered
      <4> QED BY <3>2, <4>2
    <3> QED BY <3>1, <3>2, <3>3 DEF IsDelivery
  <2> QED BY <1>2, <2>4, <2>5 DEF Deliveries
<1>3. CASE stack # <<>>
  <2>1. Len(ordered) >= MaxUndelivered
    BY <1>3, EmittedFacts, WalkAssumption DEF Running
  <2>2. stack[1][1] \in Undelivered \ Emitted
    <3>1. 1 \in DOMAIN stack
      BY <1>1, <1>3, TopFacts
    <3> QED BY <1>1, <1>3, <3>1 DEF RootAtBottom, WithinBacklog
  <2>3. Cardinality(Emitted) <= Cardinality(Undelivered) /\ Emitted # Undelivered
    BY <2>2, EmittedFacts, FS_Subset
  <2>4. Cardinality(Emitted) # Cardinality(Undelivered)
    BY <2>3, EmittedFacts, FS_Subset
  <2>5. Cardinality(Undelivered) \in Nat
    BY EmittedFacts, FS_CardinalityType
  <2>6. Cardinality(Undelivered) > Len(ordered)
    BY <2>3, <2>4, <2>5, EmittedFacts
  <2> QED BY <1>3, <2>1, <2>5, <2>6, EmittedFacts, WalkAssumption
<1> QED BY <1>2, <1>3

(* For every account, bound and choice of the walk, the loop of
   _undelivered_ancestors ends with the whole backlog in an order a device can
   apply, or refuses a backlog larger than MAX_UNDELIVERED_ANCESTORS: what
   Accept of SyncLedger takes from it. *)
THEOREM WalkComputesBacklog == WalkSpec => []WalkIsExact
<1>1. WalkInit => WalkInv
  BY WalkInitInv
<1>2. WalkInv /\ [WalkNext]_walkVars => WalkInv'
  BY WalkInvStep
<1>3. WalkInv => WalkIsExact
  BY InvIsExact
<1> QED BY <1>1, <1>2, <1>3, PTL DEF WalkSpec

-----------------------------------------------------------------------------
(* The walk ends.  Turns that the loop can still make: each undelivered
   revision is expanded once, which stacks it and at most two parents. *)
TurnsLeft == 3 * (Size - Cardinality(seen)) + Len(stack)

TwoParents == \A r \in Revision : Cardinality(parents[r]) <= 2

SeenIsFinite == IsFiniteSet(seen) /\ Cardinality(seen) \in 0 .. Size

LEMMA SeenFacts == WalkInv => SeenIsFinite
<1> SUFFICES ASSUME WalkInv PROVE SeenIsFinite
  OBVIOUS
<1>1. IsFiniteSet(Revision) /\ Cardinality(Revision) = Size
  BY FS_Interval, WalkAssumption DEF Revision
<1>2. seen \subseteq Revision
  BY DEF WalkInv, WalkTypeOK
<1>3. IsFiniteSet(seen) /\ Cardinality(seen) <= Cardinality(Revision)
  BY <1>1, <1>2, FS_Subset
<1>4. Cardinality(seen) \in Nat
  BY <1>3, FS_CardinalityType
<1> QED BY <1>1, <1>3, <1>4, WalkAssumption DEF SeenIsFinite

LEMMA PopShortens ==
    ASSUME WalkInv, stack # <<>>, stack' = Rest, seen' = seen
    PROVE  TurnsLeft' < TurnsLeft
<1>1. WalkTypeOK /\ SeenIsFinite
  BY SeenFacts DEF WalkInv
<1>2. Len(stack) \in Nat /\ Len(stack') = Len(stack) - 1
  BY <1>1, TopFacts
<1> QED BY <1>1, <1>2, WalkAssumption DEF TurnsLeft, SeenIsFinite

LEMMA ExpandShortens == WalkInv /\ TwoParents /\ Expand => TurnsLeft' < TurnsLeft
<1> SUFFICES ASSUME WalkInv, TwoParents, Expand PROVE TurnsLeft' < TurnsLeft
  OBVIOUS
<1> DEFINE n == Len(stack)  r == Top[1]  S == parents[r] \ (delivered \cup seen')
<1>1. WalkTypeOK /\ SeenIsFinite
  BY SeenFacts DEF WalkInv
<1>2. stack # <<>> /\ r \notin seen /\ seen' = seen \cup {r}
  BY DEF Expand, Running
<1>3. PICK s \in Lists(S) : stack' = Append(Rest, <<r, TRUE>>) \o Entries(s)
  BY DEF Expand
<1>4. /\ n \in Nat \ {0} /\ r \in Revision
      /\ Rest \in Seq(Entry) /\ Len(Rest) = n - 1
  BY <1>1, <1>2, TopFacts
<1>5. Cardinality(seen') = Cardinality(seen) + 1
  BY <1>1, <1>2, FS_AddElement DEF SeenIsFinite
<1>6. S \subseteq Revision /\ S \subseteq parents[r]
  BY <1>1, <1>4 DEF WalkTypeOK
<1>7. Cardinality(S) \in Nat /\ Cardinality(S) <= 2
  <2>1. IsFiniteSet(Revision)
    BY FS_Interval, WalkAssumption DEF Revision
  <2>2. IsFiniteSet(parents[r])
    <3>1. parents[r] \subseteq Revision
      BY <1>1, <1>4 DEF WalkTypeOK
    <3> QED BY <2>1, <3>1, FS_Subset
  <2>3. IsFiniteSet(S) /\ Cardinality(S) <= Cardinality(parents[r])
    BY <1>6, <2>2, FS_Subset
  <2>4. Cardinality(S) \in Nat /\ Cardinality(parents[r]) \in Nat
    BY <2>2, <2>3, FS_CardinalityType
  <2>5. Cardinality(parents[r]) <= 2
    BY <1>4 DEF TwoParents
  <2> QED BY <2>3, <2>4, <2>5
<1>8. Len(stack') = n + Cardinality(S)
  <2> DEFINE e == Entries(s)  m == <<r, TRUE>>
  <2>1. e \in Seq(Entry) /\ Len(e) = Cardinality(S)
    BY <1>6, ListFacts
  <2>2. m \in Entry
    <3>1. TRUE \in BOOLEAN
      OBVIOUS
    <3> QED BY <1>4, <3>1, EntryFacts, Zenon
  <2> HIDE DEF e, m, S, r
  <2>3. Append(Rest, m) \in Seq(Entry) /\ Len(Append(Rest, m)) = n
    BY <1>4, <2>2
  <2>4. stack' = Append(Rest, m) \o e
    BY <1>3 DEF e, m
  <2>5. Len(Append(Rest, m) \o e) = Len(Append(Rest, m)) + Len(e)
    BY <2>1, <2>3, ConcatProperties
  <2> QED BY <2>1, <2>3, <2>4, <2>5
<1> HIDE DEF S, n
<1> QED BY <1>1, <1>4, <1>5, <1>7, <1>8, WalkAssumption DEF TurnsLeft, SeenIsFinite, n

LEMMA TurnShortens == WalkInv /\ TwoParents /\ WalkNext => TurnsLeft' < TurnsLeft
<1> SUFFICES ASSUME WalkInv, TwoParents, WalkNext PROVE TurnsLeft' < TurnsLeft
  OBVIOUS
<1>1. CASE Emit
  BY <1>1, PopShortens DEF Emit, Running
<1>2. CASE Skip
  BY <1>2, PopShortens DEF Skip, Running
<1>3. CASE Expand
  BY <1>3, ExpandShortens
<1> QED BY <1>1, <1>2, <1>3 DEF WalkNext

TurnsAreBounded == TurnsLeft \in 0 .. 3 * Size + 1

TurnsRunOut == [][TurnsLeft' < TurnsLeft]_walkVars

(* What makes the bound inductive: no revision has more than two parents. *)
EndingInv == WalkInv /\ TwoParents /\ TurnsAreBounded

LEMMA EndingInit == WalkInit => EndingInv
<1> SUFFICES ASSUME WalkInit PROVE EndingInv
  OBVIOUS
<1>1. WalkInv
  BY WalkInitInv
<1>2. TwoParents
  BY DEF WalkInit, TwoParents
<1>3. seen = {} /\ Cardinality(seen) = 0
  BY FS_EmptySet DEF WalkInit
<1>4. Len(stack) \in 0 .. 1
  <2>1. CASE stack = <<>>
    BY <2>1
  <2>2. CASE stack # <<>>
    <3>1. PICK s \in Lists(roots \ delivered) : stack = Entries(s)
      BY DEF WalkInit
    <3>2. roots \ delivered \subseteq Revision
      BY <1>1 DEF WalkInv, WalkTypeOK
    <3>3. 1 \in DOMAIN stack
      BY <1>1, <2>2, TopFacts DEF WalkInv
    <3>4. ~stack[1][2]
      BY <3>1, <3>2, <3>3, ListFacts
    <3> QED BY <1>1, <2>2, <3>4 DEF WalkInv, RootAtBottom
  <2> QED BY <2>1, <2>2
<1>5. TurnsLeft \in 3 * Size .. 3 * Size + 1
  <2>1. TurnsLeft = 3 * (Size - 0) + Len(stack)
    BY <1>3, Zenon DEF TurnsLeft
  <2>2. Size \in Nat
    BY WalkAssumption
  <2> QED BY <1>4, <2>1, <2>2
<1>6. TurnsLeft \in 0 .. 3 * Size + 1
  BY <1>5, WalkAssumption
<1> QED BY <1>1, <1>2, <1>6, WalkAssumption DEF EndingInv, TurnsAreBounded

LEMMA EndingStep ==
    ASSUME EndingInv, [WalkNext]_walkVars
    PROVE  EndingInv' /\ (walkVars' = walkVars \/ TurnsLeft' < TurnsLeft)
<1>1. WalkInv'
  BY WalkInvStep DEF EndingInv
<1>2. TwoParents'
  BY DEF EndingInv, TwoParents, Revision, WalkNext, Emit, Skip, Expand, walkVars, account
<1>3. TurnsLeft' \in Int /\ TurnsLeft' >= 0
  <2>1. SeenIsFinite' /\ WalkTypeOK'
    <3>1. IsFiniteSet(Revision) /\ Cardinality(Revision) = Size
      BY FS_Interval, WalkAssumption DEF Revision
    <3>2. seen' \subseteq Revision /\ WalkTypeOK'
      BY <1>1 DEF WalkInv, WalkTypeOK, Revision
    <3>3. IsFiniteSet(seen') /\ Cardinality(seen') <= Cardinality(Revision)
      BY <3>1, <3>2, FS_Subset
    <3>4. Cardinality(seen') \in Nat
      BY <3>3, FS_CardinalityType
    <3> QED BY <3>1, <3>2, <3>3, <3>4, WalkAssumption DEF SeenIsFinite
  <2>2. Len(stack') \in Nat
    BY <2>1 DEF WalkTypeOK
  <2> QED BY <2>1, <2>2, WalkAssumption DEF TurnsLeft, SeenIsFinite
<1>4. CASE WalkNext
  <2>1. TurnsLeft' < TurnsLeft
    BY <1>4, TurnShortens DEF EndingInv
  <2>2. TurnsLeft \in 0 .. 3 * Size + 1
    BY DEF EndingInv, TurnsAreBounded
  <2> QED BY <1>1, <1>2, <1>3, <2>1, <2>2, WalkAssumption DEF EndingInv, TurnsAreBounded
<1>5. CASE walkVars' = walkVars
  <2>1. TurnsLeft' = TurnsLeft
    BY <1>5 DEF TurnsLeft, walkVars
  <2> QED BY <1>1, <1>2, <1>5, <2>1 DEF EndingInv, TurnsAreBounded
<1> QED BY <1>4, <1>5

(* Every turn of the loop of _undelivered_ancestors leaves fewer turns to
   make, and there are never more than three for each revision of the account
   and one for the root: for every account, bound and order of the lists the
   loop ends, if it goes on at all. *)
THEOREM WalkTurnsRunOut == WalkSpec => []TurnsAreBounded /\ TurnsRunOut
<1>1. WalkInit => EndingInv
  BY EndingInit
<1>2. EndingInv /\ [WalkNext]_walkVars
         => EndingInv' /\ [TurnsLeft' < TurnsLeft]_walkVars
  BY EndingStep
<1>3. EndingInv => TurnsAreBounded
  BY DEF EndingInv
<1> QED BY <1>1, <1>2, <1>3, PTL DEF WalkSpec, TurnsRunOut

=============================================================================
