----------------------------- MODULE SyncEngine -----------------------------
(***************************************************************************)
(* The devices of one account that share a developer passport through the  *)
(* ledger of SyncLedger (apps/cli/src/sync): local revisions, the log of   *)
(* the requests each device has retained and of the events it has pulled,  *)
(* the remote head it believes in, and its position in the stream.         *)
(*                                                                         *)
(* A command holds the store and the account of its device until it ends,  *)
(* so that nothing but its own call separates its steps.  A request is     *)
(* stored before it is sent; it may be applied at any later time, and its  *)
(* answer may never come back.  A push walks the local revisions parents   *)
(* first and looks each of them up in the log, so that a push and its      *)
(* repetition after a death are made of the same steps.                    *)
(***************************************************************************)
EXTENDS SyncLedger

CONSTANTS
    Device,
    Origin,            \* the device that created the passport
    Passport,          \* its entity
    MaxEdits,          \* bound: local revisions that are no merges
    MaxReplacements    \* bound: how often each device is replaced

ASSUME EngineAssumption == /\ Origin \in Device
                           /\ Passport \in Entity
                           /\ EventId = 1 .. MaxEvents
                           /\ MaxEdits \in Nat
                           /\ MaxReplacements \in [Device -> Nat]

VARIABLES
    document,    \* the parents of each local revision, by content address
    local,       \* the revisions each device holds
    heads,       \* its revision heads
    request,     \* the sealed events, by event id
    log,         \* sync_event of each device, in the order of its rows
    remote,      \* sync_remote_head
    cursor,      \* sync_cursor, as a position in the stream
    enrolled,    \* how often the device was replaced, which gives its device id
    call,        \* the event whose answer the running push awaits
    answered     \* the event of each key of `receipt`

localVars  == <<document, local, heads>>
logVars    == <<log, remote, cursor>>
deviceVars == <<localVars, logVars, request, enrolled, call>>
engineVars == <<syncVars, deviceVars, answered>>

-----------------------------------------------------------------------------
NoEvent == 0

(* What decides the content address of an event, and the head it expects.  A
   device stores one event per address (retain), so that the event stands for
   its remote revision too. *)
Request == [device   : Device \X Nat,
            payload  : DOMAIN document,
            parents  : SUBSET DOMAIN request,
            expected : DOMAIN request \cup {NoEvent}]

Row == [event : DOMAIN request,
        state : {"pending", "accepted", "conflict", "superseded",
                 "rejected", "failed"}]

EngineTypeOK ==
    /\ LedgerTypeOK
    /\ document \in Seq(SUBSET DOMAIN document)
    /\ local \in [Device -> SUBSET DOMAIN document]
    /\ heads \in [Device -> SUBSET DOMAIN document]
    /\ request \in Seq(Request)
    /\ log \in [Device -> Seq(Row)]
    /\ remote \in [Device -> DOMAIN request \cup {NoEvent}]
    /\ cursor \in [Device -> 0 .. Len(stream)]
    /\ enrolled \in [Device -> Nat]
    /\ call \in [Device -> DOMAIN request \cup {NoEvent}]
    /\ answered \in Seq(DOMAIN request)

EngineInit ==
    /\ LedgerInit
    /\ document = <<{}>>
    /\ local = [d \in Device |-> IF d = Origin THEN {1} ELSE {}]
    /\ heads = local
    /\ request = <<>>
    /\ log = [d \in Device |-> <<>>]
    /\ remote = [d \in Device |-> NoEvent]
    /\ cursor = [d \in Device |-> 0]
    /\ enrolled = [d \in Device |-> 0]
    /\ call = [d \in Device |-> NoEvent]
    /\ answered = <<>>

-----------------------------------------------------------------------------
(* What a device reads in its log. *)

DeviceId(d) == <<d, enrolled[d]>>

EventAt(d, i) == log[d][i].event

Logged(d) == {EventAt(d, i) : i \in DOMAIN log[d]}

InState(d, states) ==
    {e \in Logged(d) : \E i \in DOMAIN log[d] : /\ EventAt(d, i) = e
                                                /\ log[d][i].state \in states}

Pending(d) == InState(d, {"pending"})

(* Defect for the mutant runs: what conflicted has not reached the ledger. *)
UsableAccepted == {"accepted", "superseded"}

(* With these answers a revision has reached the ledger. *)
Usable == {"accepted", "conflict", "superseded"}

Carriers(d, r) == {i \in DOMAIN log[d] : /\ log[d][i].state \in Usable
                                         /\ request[EventAt(d, i)].payload = r}

(* The event that carries a local revision: the remote head if it does, else
   the latest one; none if there is none. *)
Mapping(d, r) ==
    IF \E i \in Carriers(d, r) : EventAt(d, i) = remote[d]
    THEN {remote[d]}
    ELSE {EventAt(d, i) : i \in {j \in Carriers(d, r) :
                                    \A k \in Carriers(d, r) : k <= j}}

(* A revision and its ancestors. *)
Lineage(parents, r) == Backlog(parents, {}, {r})

RemoteParents == [e \in DOMAIN request |-> request[e].parents]

(* advance: the head moves to an event, unless the head descends from it as
   far as the log can tell. *)
Advanced(d, logged, e) ==
    LET walked == Lineage(RemoteParents, remote[d])
    IN IF \/ remote[d] = NoEvent
          \/ remote[d] \in request[e].parents
          \/ e \notin walked /\ walked \subseteq logged
       THEN e ELSE remote[d]

Idle(d) == call[d] = NoEvent

Settled(d, e, state) ==
    [log EXCEPT ![d] = [i \in DOMAIN @ |->
        IF @[i].event = e THEN [@[i] EXCEPT !.state = state] ELSE @[i]]]

-----------------------------------------------------------------------------
(* Local commands. *)

Commits(d, r) == /\ local' = [local EXCEPT ![d] = @ \cup {r}]
                 /\ heads' = [heads EXCEPT ![d] = {r}]

Writes(d, parents) == /\ document' = Append(document, parents)
                      /\ Commits(d, Len(document) + 1)

Edit(d) ==
    /\ Idle(d)
    /\ Cardinality({r \in DOMAIN document : Cardinality(document[r]) < 2}) <= MaxEdits
    /\ \E r \in heads[d] : heads[d] = {r} /\ Writes(d, {r})
    /\ UNCHANGED <<syncVars, logVars, request, enrolled, call, answered>>

(* Two heads have one mechanical merge, which another device may have made
   too. *)
Merge(d) ==
    /\ Idle(d)
    /\ \E a, b \in heads[d] : a # b /\ heads[d] = {a, b}
    /\ \/ /\ \A r \in DOMAIN document : document[r] # heads[d]
          /\ Writes(d, heads[d])
       \/ /\ \E r \in DOMAIN document : document[r] = heads[d] /\ Commits(d, r)
          /\ UNCHANGED document
    /\ UNCHANGED <<syncVars, logVars, request, enrolled, call, answered>>

-----------------------------------------------------------------------------
(* sync push. *)

(* History::load: the head it reads was accepted. *)
HistoryLoads(d) == remote[d] = NoEvent \/ remote[d] \in InState(d, {"accepted"})

PushBegins(d) == Idle(d) /\ HistoryLoads(d)

(* A request that was left pending goes out first, unchanged; one that was
   signed under a device id since replaced is refused. *)
Resend(d) ==
    /\ PushBegins(d)
    /\ Cardinality(heads[d]) = 1
    /\ \E e \in Pending(d) : /\ request[e].device = DeviceId(d)
                             /\ call' = [call EXCEPT ![d] = e]
    /\ UNCHANGED <<syncVars, localVars, logVars, request, enrolled, answered>>

(* Defect: the event names the remote head without a merge. *)
SealedOnHead(d, r) ==
    [device   |-> DeviceId(d),
     payload  |-> r,
     parents  |-> UNION {Mapping(d, p) : p \in document[r]} \cup ({remote[d]} \ {NoEvent}),
     expected |-> remote[d]]

Sealed(d, r) == [device   |-> DeviceId(d),
                 payload  |-> r,
                 parents  |-> UNION {Mapping(d, p) : p \in document[r]},
                 expected |-> remote[d]]

SameRevision(a, b) == /\ a.device = b.device
                      /\ a.payload = b.payload
                      /\ a.parents = b.parents

(* Defect: a revision goes out before its parents. *)
ParentsCarriedOrNot(d, r) == TRUE

ParentsCarried(d, r) == \A p \in document[r] : Mapping(d, p) # {}

(* The next step of the walk: a revision that no event carries, of which the
   parents are carried.  What is stored already, and was rejected or retired,
   is not sent again. *)
Send(d) ==
    /\ PushBegins(d)
    /\ Pending(d) = {}
    /\ Len(request) < MaxEvents
    /\ \E h \in heads[d] : heads[d] = {h} /\
       \E r \in Lineage(document, h) :
          /\ Mapping(d, r) = {}
          /\ ParentsCarried(d, r)
          /\ \A e \in Logged(d) : ~SameRevision(request[e], Sealed(d, r))
          /\ request' = Append(request, Sealed(d, r))
    /\ log' = [log EXCEPT ![d] =
                  Append(@, [event |-> Len(request) + 1, state |-> "pending"])]
    /\ call' = [call EXCEPT ![d] = Len(request) + 1]
    /\ UNCHANGED <<syncVars, localVars, remote, cursor, enrolled, answered>>

(* The call ends without an answer, or the process dies. *)
Lose(d) ==
    /\ ~Idle(d)
    /\ call' = [call EXCEPT ![d] = NoEvent]
    /\ UNCHANGED <<syncVars, localVars, logVars, request, enrolled, answered>>

(* Defect: the head moves to what conflicted, too. *)
MovesUnlessRejected(state) == state # "rejected"

Moves(state) == state = "accepted"

(* record_receipt *)
Learn(d) ==
    /\ ~Idle(d)
    /\ \E k \in DOMAIN answered :
          /\ answered[k] = call[d]
          /\ log' = Settled(d, call[d], receipt[k].state)
          /\ remote' = IF Moves(receipt[k].state)
                       THEN [remote EXCEPT ![d] = Advanced(d, Logged(d), call[d])]
                       ELSE remote
    /\ call' = [call EXCEPT ![d] = NoEvent]
    /\ UNCHANGED <<syncVars, localVars, request, cursor, enrolled, answered>>

-----------------------------------------------------------------------------
(* The ledger applies a request the first time it sees its key. *)

RevisionOf(e) ==
    IF e = NoEvent THEN NoRevision
    ELSE IF \E r \in Held : revision[r].eventId = e
         THEN CHOOSE r \in Held : revision[r].eventId = e
         ELSE Unknown

Posted(e) == [entity    |-> Passport,
              parents   |-> {RevisionOf(p) : p \in request[e].parents},
              tombstone |-> FALSE,
              eventId   |-> e]

Serve(e) ==
    /\ \A k \in DOMAIN answered : answered[k] # e
    /\ Len(receipt) < MaxEvents
    /\ ApplyAs(Posted(e), head[Passport] = RevisionOf(request[e].expected))
    /\ answered' = Append(answered, e)
    /\ UNCHANGED deviceVars

-----------------------------------------------------------------------------
(* sync pull, for pages of one event: a longer page is several of them. *)

StreamEvent(i) == revision[stream[i]].eventId

NextEvent(d) == StreamEvent(cursor[d] + 1)

(* Defect: a retired request is not looked at again. *)
UnsettledPending == {"pending"}

(* An event of the stream was accepted, whatever the log says. *)
Unsettled == {"pending", "failed"}

(* The log knows the event. *)
Replay(d, e) ==
    /\ e \in Logged(d)
    /\ log' = IF e \in InState(d, Unsettled) THEN Settled(d, e, "accepted") ELSE log
    /\ remote' = [remote EXCEPT ![d] = Advanced(d, Logged(d), e)]
    /\ UNCHANGED localVars

(* revisions::commit: a received revision needs its local parents. *)
Admits(d, r) == r \in local[d] \/ document[r] \subseteq local[d]

Receive(d, e) ==
    LET r == request[e].payload
    IN /\ e \notin Logged(d)
       /\ Admits(d, r)
       /\ local' = [local EXCEPT ![d] = @ \cup {r}]
       /\ heads' = IF r \in local[d] THEN heads
                   ELSE [heads EXCEPT ![d] = (@ \ document[r]) \cup {r}]
       /\ log' = [log EXCEPT ![d] = Append(@, [event |-> e, state |-> "accepted"])]
       /\ remote' = [remote EXCEPT ![d] = Advanced(d, Logged(d) \cup {e}, e)]
       /\ UNCHANGED document

Pull(d) ==
    /\ Idle(d)
    /\ cursor[d] < Len(stream)
    /\ Replay(d, NextEvent(d)) \/ Receive(d, NextEvent(d))
    /\ cursor' = [cursor EXCEPT ![d] = @ + 1]
    /\ UNCHANGED <<syncVars, request, enrolled, call, answered>>

-----------------------------------------------------------------------------
(* The device was revoked and is enrolled again under a new id.  Its old
   requests may still arrive. *)
Replace(d) ==
    /\ Idle(d)
    /\ enrolled[d] < MaxReplacements[d]
    /\ enrolled' = [enrolled EXCEPT ![d] = @ + 1]
    /\ UNCHANGED <<syncVars, localVars, logVars, request, call, answered>>

(* sync recover retires what an old id left pending, whatever became of it. *)
Recover(d) ==
    /\ Idle(d)
    /\ \E e \in Pending(d) : /\ request[e].device # DeviceId(d)
                             /\ log' = Settled(d, e, "failed")
    /\ UNCHANGED <<syncVars, localVars, request, remote, cursor, enrolled, call,
                   answered>>

-----------------------------------------------------------------------------
EngineNext ==
    \/ \E d \in Device : \/ Edit(d) \/ Merge(d)
                         \/ Resend(d) \/ Send(d) \/ Lose(d) \/ Learn(d)
                         \/ Pull(d)
                         \/ Replace(d) \/ Recover(d)
    \/ \E e \in DOMAIN request : Serve(e)

EngineSpec == EngineInit /\ [][EngineNext]_engineVars

(* The owner keeps running whatever sync commands a device admits, and a
   request that is sent again and again is applied and answered some day. *)
Syncs(d) == Merge(d) \/ Resend(d) \/ Send(d) \/ Pull(d) \/ Recover(d)

EngineFairness ==
    \A d \in Device : /\ WF_engineVars(Syncs(d))
                      /\ SF_engineVars(~Idle(d) /\ Serve(call[d]))
                      /\ SF_engineVars(Learn(d))

FairEngineSpec == EngineSpec /\ EngineFairness
-----------------------------------------------------------------------------
(***************************************************************************)
(* Properties.                                                             *)
(***************************************************************************)

(* No page is ever refused for a missing parent, wherever the previous one
   ended: what the ledger delivers for a merge, and in which order, is what a
   device needs to rebuild the local history (revisions::commit). *)
PageApplies ==
    \A d \in Device : cursor[d] < Len(stream) =>
        \/ NextEvent(d) \in Logged(d)
        \/ Admits(d, request[NextEvent(d)].payload)

(* The log is true of the ledger, however many answers were lost and however
   late requests were applied: what it calls accepted was delivered, a conflict
   is kept for a merge, and no event up to the cursor is left uncertain. *)
LogIsTrue ==
    \A d \in Device :
        /\ \A e \in InState(d, {"accepted"}) : RevisionOf(e) \in Delivered
        /\ \A e \in InState(d, {"conflict"}) : RevisionOf(e) \in Held
        /\ \A i \in 1 .. cursor[d] : StreamEvent(i) \in InState(d, {"accepted", "conflict"})

(* A device that has pulled the whole stream can go on: its remote head is the
   head of the ledger, although revisions beside the head were delivered after
   it and moved it back; a push can load that head, and at most two local heads
   are left, which a merge joins. *)
CaughtUpCanGoOn ==
    \A d \in Device : cursor[d] = Len(stream) =>
        /\ RevisionOf(remote[d]) = head[Passport]
        /\ HistoryLoads(d)
        /\ Cardinality(heads[d]) <= 2

(* No edit is lost: the head of the ledger carries a local revision that
   descends from every revision that was ever delivered, so that two edits of
   one revision are joined by a merge and never by naming the other's event as
   a parent. *)
NoEditLost ==
    \A r \in Delivered :
        request[revision[r].eventId].payload
            \in Lineage(document, request[revision[head[Passport]].eventId].payload)

(* A caught-up device with one head, which conflicted and does not descend from
   another head: it has nothing to merge and nothing to send, and the head of
   the ledger carries another event of its history.  Only a later event of
   another device gets it out. *)
Stranded(d) ==
    /\ Idle(d) /\ Pending(d) = {}
    /\ cursor[d] = Len(stream)
    /\ \E r \in heads[d] : /\ heads[d] = {r}
                           /\ Mapping(d, r) # {}
                           /\ remote[d] \notin Mapping(d, r)

Converged ==
    /\ head[Passport] # NoRevision
    /\ \A d \in Device :
          /\ cursor[d] = Len(stream)
          /\ heads[d] = {request[revision[head[Passport]].eventId].payload}

(* A sync command finds something to do: a page, a head to merge, a request to
   retire or to repeat, or a revision to send. *)
HasWork(d) ==
    \/ cursor[d] < Len(stream)
    \/ \E a, b \in heads[d] : a # b /\ heads[d] = {a, b}
    \/ \E e \in Pending(d) : request[e].device # DeviceId(d)
    \/ /\ HistoryLoads(d)
       /\ \E h \in heads[d] :
             /\ heads[d] = {h}
             /\ \/ Pending(d) # {}
                \/ \E r \in Lineage(document, h) :
                      /\ Mapping(d, r) = {}
                      /\ ParentsCarried(d, r)
                      /\ \A e \in Logged(d) : ~SameRevision(request[e], Sealed(d, r))

(* The ledger rejected a revision of the history of d, which is therefore never
   sent again. *)
Refused(d) ==
    \E h \in heads[d], e \in InState(d, {"rejected"}) :
        request[e].payload \in Lineage(document, h)

(* The devices rest only when they agree: if no command of any device finds
   anything to do, all of them hold the revision of the ledger's head, but for
   a device that is stranded or was refused. *)
RestIsAgreement ==
    (\A d \in Device : Idle(d) /\ ~HasWork(d))
       => Converged \/ \E d \in Device : Stranded(d) \/ Refused(d)

(* When the edits end, all devices come to hold the one revision that the head
   of the ledger carries, through lost answers, conflicts, merges made twice
   and replaced devices, unless one of them is stranded. *)
Converges == <>[](Converged \/ \E d \in Device : Stranded(d))
=============================================================================
