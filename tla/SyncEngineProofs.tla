-------------------------- MODULE SyncEngineProofs --------------------------
(***************************************************************************)
(* The engine's theorems, for any number of devices, edits and events: it  *)
(* uses the ledger as SyncLedger describes it, every page applies, the     *)
(* logs are true of the ledger, a caught-up device can go on, no edit is   *)
(* lost, and the devices rest only when they agree.                        *)
(***************************************************************************)
EXTENDS SyncEngine, SyncLedgerProofs, WellFoundedInduction

-----------------------------------------------------------------------------
(* The inductive invariant. *)

IsDelivered(e) == \E r \in Delivered : revision[r].eventId = e

Told(e, states) == \E k \in DOMAIN answered : /\ answered[k] = e
                                              /\ receipt[k].state \in states

Kept(e) == Told(e, {"accepted", "conflict"})

(* A device holds whole histories, and its heads are their ends. *)
HistoryOK(d) ==
    /\ \A r \in local[d] : document[r] \subseteq local[d]
    /\ heads[d] = {r \in local[d] : \A s \in local[d] : r \notin document[s]}

DocumentsOK == \A r \in DOMAIN document : \E x, y : document[r] \subseteq {x, y}

(* The parents of an event carry the parents of its revision, and the ledger
   keeps them. *)
RequestOK(e) ==
    /\ \E x, y : request[e].parents \subseteq {x, y}
    /\ \A q \in document[request[e].payload] :
          \E p \in request[e].parents : request[p].payload = q
    /\ \A p \in request[e].parents :
          /\ request[p].payload \in document[request[e].payload]
          /\ Kept(p)

(* A log holds an event once, with its parents, and its revision is local. *)
LogOK(d) ==
    /\ \A i, j \in DOMAIN log[d] : EventAt(d, i) = EventAt(d, j) => i = j
    /\ \A e \in Logged(d) : /\ request[e].payload \in local[d]
                            /\ request[e].parents \subseteq Logged(d)
    /\ call[d] # NoEvent => call[d] \in Pending(d)
    /\ remote[d] # NoEvent => remote[d] \in Logged(d) /\ IsDelivered(remote[d])

(* What a row says of an event. *)
RowsTrue(d) ==
    \A i \in DOMAIN log[d] :
        /\ log[d][i].state # "superseded"
        /\ log[d][i].state = "accepted" => IsDelivered(EventAt(d, i))
        /\ log[d][i].state \in {"conflict", "rejected"}
              => Told(EventAt(d, i), {log[d][i].state})

PulledOK(d) == \A i \in 1 .. cursor[d] :
                  StreamEvent(i) \in InState(d, {"accepted", "conflict"})

(* One head at most is the device's own. *)
OwnHeads(d) ==
    \E x : \A h \in heads[d] :
        h = x \/ \E i \in 1 .. cursor[d] : request[StreamEvent(i)].payload = h

HeadEvent == IF head[Passport] = NoRevision THEN NoEvent
             ELSE revision[head[Passport]].eventId

RemoteOK(d) == cursor[d] = Len(stream) => remote[d] = HeadEvent

(* The ledger holds the requests, under their own ids. *)
Mirrors(r) ==
    LET e == revision[r].eventId
    IN /\ e \in DOMAIN request
       /\ revision[r].entity = Passport
       /\ \A p \in revision[r].parents : revision[p].eventId \in request[e].parents
       /\ \A q \in request[e].parents :
             \E p \in revision[r].parents : revision[p].eventId = q
       /\ \E k \in DOMAIN answered : answered[k] = e

TablesOK ==
    /\ \A r \in Held : Mirrors(r)
    /\ \A r, s \in Held : revision[r].eventId = revision[s].eventId => r = s

AnswersOK ==
    /\ Len(answered) = Len(receipt)
    /\ \A j, k \in DOMAIN answered : answered[j] = answered[k] => j = k
    /\ \A k \in DOMAIN receipt :
          /\ receipt[k].state \in {"accepted", "conflict", "rejected"}
          /\ receipt[k].state # "rejected"
                => /\ receipt[k].revision \in Held
                   /\ revision[receipt[k].revision].eventId = answered[k]

DeliveredOK ==
    /\ \A r \in Delivered : Kept(revision[r].eventId)
    /\ head[Passport] # NoRevision
          => Told(revision[head[Passport]].eventId, {"accepted"})

DeviceInv(d) == /\ HistoryOK(d) /\ LogOK(d) /\ RowsTrue(d)
                /\ PulledOK(d) /\ OwnHeads(d) /\ RemoteOK(d)

EngineInv == /\ EngineTypeOK
             /\ LedgerInv
             /\ DocumentsOK
             /\ Len(request) <= MaxEvents
             /\ \A e \in DOMAIN request : RequestOK(e)
             /\ TablesOK /\ AnswersOK /\ DeliveredOK
             /\ NoEditLost
             /\ \A d \in Device : DeviceInv(d)

-----------------------------------------------------------------------------
(* Documents and requests are only ever added. *)

LEMMA DocumentGrows ==
    ASSUME EngineTypeOK, NEW P \in SUBSET DOMAIN document,
           document' = Append(document, P)
    PROVE  /\ Len(document) \in Nat
           /\ Len(document) + 1 \notin DOMAIN document
           /\ DOMAIN document' = DOMAIN document \cup {Len(document) + 1}
           /\ \A r \in DOMAIN document : document'[r] = document[r]
           /\ document'[Len(document) + 1] = P
           /\ document' \in Seq(SUBSET DOMAIN document')
<1> DEFINE D == DOMAIN document
           n == Len(document)
<1>1. document \in Seq(SUBSET D) /\ n \in Nat /\ D = 1 .. n
  BY DEF EngineTypeOK
<1>2. /\ DOMAIN document' = 1 .. n + 1
      /\ \A r \in 1 .. n : document'[r] = document[r]
      /\ document'[n + 1] = P
  BY <1>1
<1>3. DOMAIN document' = D \cup {n + 1} /\ n + 1 \notin D
  BY <1>1, <1>2
<1>4. SUBSET D \subseteq SUBSET DOMAIN document'
  BY <1>3
<1>5. document \in Seq(SUBSET DOMAIN document') /\ P \in SUBSET DOMAIN document'
  BY <1>1, <1>4
<1>6. document' \in Seq(SUBSET DOMAIN document')
  BY <1>5
<1> QED BY <1>1, <1>2, <1>3, <1>6

LEMMA RequestGrows ==
    ASSUME EngineTypeOK, NEW q \in Request, request' = Append(request, q),
           UNCHANGED document
    PROVE  /\ Len(request) \in Nat
           /\ Len(request) + 1 \notin DOMAIN request
           /\ DOMAIN request' = DOMAIN request \cup {Len(request) + 1}
           /\ \A e \in DOMAIN request : request'[e] = request[e]
           /\ request'[Len(request) + 1] = q
           /\ request' \in Seq(Request')
<1> DEFINE n == Len(request)
<1>1. request \in Seq(Request) /\ n \in Nat /\ DOMAIN request = 1 .. n
  BY DEF EngineTypeOK
<1>2. /\ DOMAIN request' = 1 .. n + 1
      /\ \A e \in 1 .. n : request'[e] = request[e]
      /\ request'[n + 1] = q
  BY <1>1
<1>3. DOMAIN request' = DOMAIN request \cup {n + 1} /\ n + 1 \notin DOMAIN request
  BY <1>1, <1>2
<1>4. Request \subseteq Request'
  BY <1>3 DEF Request, NoEvent
<1>5. request \in Seq(Request') /\ q \in Request'
  BY <1>1, <1>4
<1>6. request' \in Seq(Request')
  BY <1>5
<1> QED BY <1>1, <1>2, <1>3, <1>6

(* The fields of a request. *)
LEMMA RequestFields ==
    ASSUME EngineTypeOK
    PROVE  \A e \in DOMAIN request :
              /\ request[e] \in Request
              /\ request[e].device \in Device \X Nat
              /\ request[e].payload \in DOMAIN document
              /\ request[e].parents \subseteq DOMAIN request
              /\ request[e].expected \in DOMAIN request \cup {NoEvent}
<1>1. \A e \in DOMAIN request : request[e] \in Request
  BY DEF EngineTypeOK
<1> QED BY <1>1 DEF Request

(* The rows of a log. *)
LEMMA LogRows ==
    ASSUME EngineTypeOK, NEW d \in Device
    PROVE  /\ log[d] \in Seq(Row)
           /\ Len(log[d]) \in Nat
           /\ DOMAIN log[d] = 1 .. Len(log[d])
           /\ \A i \in DOMAIN log[d] :
                 /\ log[d][i] \in Row
                 /\ EventAt(d, i) = log[d][i].event
                 /\ EventAt(d, i) \in DOMAIN request
                 /\ log[d][i].state \in {"pending", "accepted", "conflict",
                                         "superseded", "rejected", "failed"}
           /\ Logged(d) \subseteq DOMAIN request
           /\ \A e \in Logged(d) : \E i \in DOMAIN log[d] : EventAt(d, i) = e
           /\ \A i \in DOMAIN log[d] : EventAt(d, i) \in Logged(d)
<1>1. log[d] \in Seq(Row)
  BY DEF EngineTypeOK
<1>2. \A i \in DOMAIN log[d] : log[d][i] \in Row
  BY <1>1
<1>3. /\ Len(log[d]) \in Nat
      /\ DOMAIN log[d] = 1 .. Len(log[d])
  BY <1>1
<1> QED BY <1>1, <1>2, <1>3 DEF Row, EventAt, Logged

(* Rows are settled in place. *)
LEMMA SettledRows ==
    ASSUME EngineTypeOK, NEW d \in Device, NEW e,
           NEW state \in {"pending", "accepted", "conflict", "superseded",
                          "rejected", "failed"},
           log' = Settled(d, e, state)
    PROVE  /\ log' \in [Device -> Seq(Row)]
           /\ \A c \in Device : c # d => log'[c] = log[c]
           /\ DOMAIN log'[d] = DOMAIN log[d]
           /\ \A i \in DOMAIN log[d] :
                 /\ log'[d][i].event = log[d][i].event
                 /\ log'[d][i].state = IF log[d][i].event = e THEN state
                                       ELSE log[d][i].state
<1> DEFINE s == [i \in DOMAIN log[d] |->
                    IF log[d][i].event = e THEN [log[d][i] EXCEPT !.state = state]
                    ELSE log[d][i]]
<1>1. log' = [log EXCEPT ![d] = s]
  BY DEF Settled
<1>2. /\ log \in [Device -> Seq(Row)]
      /\ DOMAIN log[d] = 1 .. Len(log[d])
      /\ Len(log[d]) \in Nat
      /\ \A i \in DOMAIN log[d] : log[d][i] \in Row
  BY LogRows DEF EngineTypeOK
<1>3. \A i \in DOMAIN log[d] :
         /\ s[i] \in Row
         /\ s[i].event = log[d][i].event
         /\ s[i].state = IF log[d][i].event = e THEN state ELSE log[d][i].state
  BY <1>2 DEF Row
<1>4. s \in [1 .. Len(log[d]) -> Row]
  BY <1>2, <1>3
<1>5. DOMAIN s = DOMAIN log[d]
  OBVIOUS
<1> HIDE DEF s
<1>6. s \in Seq(Row)
  BY <1>2, <1>4
<1> QED BY <1>1, <1>2, <1>3, <1>5, <1>6

-----------------------------------------------------------------------------
(* Types. *)

(* A local step writes or takes over one revision. *)
LocalStep(d) ==
    /\ UNCHANGED <<syncVars, logVars, request, enrolled, call, answered>>
    /\ \/ Writes(d, heads[d])
       \/ \E r \in DOMAIN document : /\ document[r] = heads[d]
                                      /\ Commits(d, r)
                                      /\ UNCHANGED document
    /\ \E x, y : heads[d] = {x, y}

LEMMA LocalSteps ==
    ASSUME EngineTypeOK, NEW d \in Device, Edit(d) \/ Merge(d)
    PROVE  LocalStep(d)
<1>1. CASE Edit(d)
  <2>1. PICK r \in heads[d] : heads[d] = {r} /\ Writes(d, {r})
    BY <1>1 DEF Edit
  <2>2. heads[d] = {r, r}
    BY <2>1
  <2> QED BY <1>1, <2>1, <2>2 DEF Edit, LocalStep
<1>2. CASE Merge(d)
  BY <1>2 DEF Merge, LocalStep
<1> QED BY <1>1, <1>2

LEMMA LocalShape ==
    ASSUME EngineTypeOK, NEW d \in Device, LocalStep(d)
    PROVE  /\ DOMAIN document \subseteq DOMAIN document'
           /\ \A r \in DOMAIN document : document'[r] = document[r]
           /\ document' \in Seq(SUBSET DOMAIN document')
           /\ \E r \in DOMAIN document' :
                 /\ document'[r] = heads[d]
                 /\ local' = [local EXCEPT ![d] = @ \cup {r}]
                 /\ heads' = [heads EXCEPT ![d] = {r}]
                 /\ DOMAIN document' = DOMAIN document \cup {r}
<1>1. heads[d] \in SUBSET DOMAIN document
  BY DEF EngineTypeOK
<1>2. CASE Writes(d, heads[d])
  <2>1. document' = Append(document, heads[d])
    BY <1>2 DEF Writes
  <2> QED BY <1>1, <1>2, <2>1, DocumentGrows DEF Writes, Commits
<1>3. ASSUME NEW r \in DOMAIN document, document[r] = heads[d], Commits(d, r),
             UNCHANGED document
      PROVE  /\ document \in Seq(SUBSET DOMAIN document)
             /\ local' = [local EXCEPT ![d] = @ \cup {r}]
             /\ heads' = [heads EXCEPT ![d] = {r}]
             /\ DOMAIN document = DOMAIN document \cup {r}
  BY <1>3 DEF Commits, EngineTypeOK
<1> QED BY <1>2, <1>3 DEF LocalStep

(* What only reads the ledger leaves it as it is. *)
LEMMA LedgerSame ==
    ASSUME LedgerTypeOK, UNCHANGED syncVars
    PROVE  LedgerTypeOK'
BY DEF syncVars, LedgerTypeOK, Content, Receipt, Held, NoRevision, ParentsOK

LEMMA LocalTypes ==
    ASSUME EngineTypeOK, NEW d \in Device, LocalStep(d)
    PROVE  EngineTypeOK'
<1>1. PICK r \in DOMAIN document' :
         /\ local' = [local EXCEPT ![d] = @ \cup {r}]
         /\ heads' = [heads EXCEPT ![d] = {r}]
  BY LocalShape
<1>2. /\ DOMAIN document \subseteq DOMAIN document'
      /\ document' \in Seq(SUBSET DOMAIN document')
  BY LocalShape
<1>3. /\ local' \in [Device -> SUBSET DOMAIN document']
      /\ heads' \in [Device -> SUBSET DOMAIN document']
  BY <1>1, <1>2 DEF EngineTypeOK
<1>4. UNCHANGED <<syncVars, logVars, request, enrolled, call, answered>>
  BY DEF LocalStep
<1>5. Request \subseteq Request' /\ Row' = Row
  BY <1>2, <1>4 DEF Request, Row, NoEvent
<1>6. request' \in Seq(Request')
  BY <1>4, <1>5 DEF EngineTypeOK
<1>7. LedgerTypeOK'
  BY <1>4, LedgerSame DEF EngineTypeOK
<1> QED BY <1>2, <1>3, <1>4, <1>5, <1>6, <1>7
        DEF EngineTypeOK, logVars, syncVars, NoEvent

(* The log of a device gets a row at its end. *)
LEMMA LogGrows ==
    ASSUME NEW R, log \in [Device -> Seq(R)], NEW d \in Device, NEW row \in R,
           log' = [log EXCEPT ![d] = Append(@, row)]
    PROVE  /\ log' \in [Device -> Seq(R)]
           /\ \A c \in Device : c # d => log'[c] = log[c]
           /\ Len(log[d]) \in Nat
           /\ DOMAIN log[d] = 1 .. Len(log[d])
           /\ DOMAIN log'[d] = 1 .. Len(log[d]) + 1
           /\ \A i \in DOMAIN log[d] : log'[d][i] = log[d][i]
           /\ log'[d][Len(log[d]) + 1] = row
<1>1. log[d] \in Seq(R) /\ log'[d] = Append(log[d], row)
  OBVIOUS
<1> QED BY <1>1

(* What carries a revision is in the log, and there is one such event at most. *)
LEMMA MappingFacts ==
    ASSUME EngineTypeOK, NEW d \in Device, NEW r
    PROVE  /\ Mapping(d, r) \subseteq Logged(d)
           /\ \A e \in Mapping(d, r) :
                 /\ request[e].payload = r
                 /\ \E i \in DOMAIN log[d] : /\ EventAt(d, i) = e
                                             /\ log[d][i].state \in Usable
           /\ \E x : Mapping(d, r) \subseteq {x}
<1> DEFINE C == Carriers(d, r)
           L == {j \in C : \A k \in C : k <= j}
<1>1. \A i \in C : /\ i \in DOMAIN log[d] /\ i \in Nat
                   /\ log[d][i].state \in Usable
                   /\ request[EventAt(d, i)].payload = r
                   /\ EventAt(d, i) \in Logged(d)
  BY LogRows DEF Carriers
<1>2. CASE \E i \in C : EventAt(d, i) = remote[d]
  <2>1. Mapping(d, r) = {remote[d]}
    BY <1>2 DEF Mapping
  <2> QED BY <1>1, <1>2, <2>1
<1>3. CASE ~\E i \in C : EventAt(d, i) = remote[d]
  <2>1. Mapping(d, r) = {EventAt(d, i) : i \in L}
    BY <1>3 DEF Mapping
  <2> HIDE DEF C
  <2>2. \A i, j \in L : i = j
    BY <1>1
  <2>3. \E x : {EventAt(d, i) : i \in L} \subseteq {x}
    <3>1. CASE L = {}
      BY <3>1
    <3>2. CASE L # {}
      <4>1. PICK j \in L : TRUE
        BY <3>2
      <4> QED BY <2>2, <4>1
    <3> QED BY <3>1, <3>2
  <2> QED BY <1>1, <2>1, <2>3
<1> QED BY <1>2, <1>3

(* A request is sealed and stored. *)
SendStep(d, q) ==
    /\ Len(request) < MaxEvents
    /\ q.device = DeviceId(d)
    /\ \E h \in heads[d] : q.payload \in Lineage(document, h)
    /\ \E x, y : q.parents \subseteq {x, y}
    /\ \A s \in document[q.payload] : \E p \in q.parents : request[p].payload = s
    /\ \A p \in q.parents :
          /\ p \in Logged(d)
          /\ request[p].payload \in document[q.payload]
          /\ \E i \in DOMAIN log[d] : /\ EventAt(d, i) = p
                                      /\ log[d][i].state \in Usable
    /\ request' = Append(request, q)
    /\ log' = [log EXCEPT ![d] =
                  Append(@, [event |-> Len(request) + 1, state |-> "pending"])]
    /\ call' = [call EXCEPT ![d] = Len(request) + 1]
    /\ UNCHANGED <<syncVars, localVars, remote, cursor, enrolled, answered>>

LEMMA SendSteps ==
    ASSUME EngineTypeOK, DocumentsOK, NEW d \in Device, Send(d)
    PROVE  \E q \in Request : SendStep(d, q)
<1>1. PICK h \in heads[d] : \E r \in Lineage(document, h) :
         /\ ParentsCarried(d, r)
         /\ request' = Append(request, Sealed(d, r))
  BY DEF Send
<1>2. PICK r \in Lineage(document, h) :
         /\ ParentsCarried(d, r)
         /\ request' = Append(request, Sealed(d, r))
  BY <1>1
<1>3. PICK q : q = Sealed(d, r)
  OBVIOUS
<1>4. /\ q.device = DeviceId(d)
      /\ q.payload = r
      /\ q.parents = UNION {Mapping(d, p) : p \in document[r]}
      /\ q.expected = remote[d]
      /\ q = [device |-> q.device, payload |-> q.payload, parents |-> q.parents,
              expected |-> q.expected]
  BY <1>3 DEF Sealed
<1>5. r \in DOMAIN document
  BY DEF Lineage, Backlog
<1>6. /\ q.parents \subseteq Logged(d)
      /\ \A p \in q.parents : request[p].payload \in document[r]
      /\ \A p \in q.parents : \E i \in DOMAIN log[d] :
            EventAt(d, i) = p /\ log[d][i].state \in Usable
  BY <1>4, MappingFacts
<1>7. \A s \in document[r] : \E p \in q.parents : request[p].payload = s
  <2>1. \A s \in document[r] : Mapping(d, s) # {}
    BY <1>2 DEF ParentsCarried
  <2> QED BY <1>4, <2>1, MappingFacts
<1>8. \E x, y : q.parents \subseteq {x, y}
  <2>1. PICK a, b : document[r] \subseteq {a, b}
    BY <1>5 DEF DocumentsOK
  <2>2. PICK x : Mapping(d, a) \subseteq {x}
    BY MappingFacts
  <2>3. PICK y : Mapping(d, b) \subseteq {y}
    BY MappingFacts
  <2>4. q.parents \subseteq Mapping(d, a) \cup Mapping(d, b)
    BY <1>4, <2>1
  <2>5. q.parents \subseteq {x, y}
    BY <2>2, <2>3, <2>4
  <2> QED BY <2>5
<1>9. q \in Request
  <2>1. q.device \in Device \X Nat
    BY <1>4 DEF DeviceId, EngineTypeOK
  <2>2. q.parents \subseteq DOMAIN request
    BY <1>6, LogRows
  <2>3. q.expected \in DOMAIN request \cup {NoEvent}
    BY <1>4 DEF EngineTypeOK
  <2> QED BY <1>4, <1>5, <2>1, <2>2, <2>3 DEF Request
<1>10. SendStep(d, q)
  BY <1>2, <1>3, <1>4, <1>6, <1>7, <1>8 DEF Send, SendStep
<1> QED BY <1>9, <1>10

LEMMA SendTypes ==
    ASSUME EngineTypeOK, NEW d \in Device, NEW q \in Request, SendStep(d, q)
    PROVE  EngineTypeOK'
<1> DEFINE n == Len(request) + 1
           row == [event |-> n, state |-> "pending"]
<1>1. /\ request' = Append(request, q)
      /\ UNCHANGED <<syncVars, localVars, remote, cursor, enrolled, answered>>
      /\ log' = [log EXCEPT ![d] = Append(@, row)]
      /\ call' = [call EXCEPT ![d] = n]
  BY DEF SendStep
<1>2. /\ DOMAIN request' = DOMAIN request \cup {n}
      /\ request' \in Seq(Request')
  BY <1>1, RequestGrows DEF localVars
<1>3. Row \subseteq Row' /\ row \in Row'
  BY <1>2 DEF Row
<1>4. log \in [Device -> Seq(Row')]
  BY <1>3 DEF EngineTypeOK
<1> HIDE DEF row, n
<1>5. log' \in [Device -> Seq(Row')]
  BY <1>1, <1>3, <1>4, LogGrows
<1>6. call' \in [Device -> DOMAIN request' \cup {NoEvent}]
  BY <1>1, <1>2 DEF EngineTypeOK
<1>7. answered' \in Seq(DOMAIN request')
  BY <1>1, <1>2 DEF EngineTypeOK
<1>8. remote' \in [Device -> DOMAIN request' \cup {NoEvent}]
  BY <1>1, <1>2 DEF EngineTypeOK
<1>9. LedgerTypeOK'
  BY <1>1, LedgerSame DEF EngineTypeOK
<1> QED BY <1>1, <1>2, <1>5, <1>6, <1>7, <1>8, <1>9
        DEF EngineTypeOK, localVars, syncVars, NoEvent

(* The other steps of a device write no document and no request. *)
LEMMA QuietTypes ==
    ASSUME EngineTypeOK, UNCHANGED <<syncVars, document, request, answered>>,
           log' \in [Device -> Seq(Row)],
           local' \in [Device -> SUBSET DOMAIN document],
           heads' \in [Device -> SUBSET DOMAIN document],
           remote' \in [Device -> DOMAIN request \cup {NoEvent}],
           cursor' \in [Device -> 0 .. Len(stream)],
           enrolled' \in [Device -> Nat],
           call' \in [Device -> DOMAIN request \cup {NoEvent}]
    PROVE  EngineTypeOK'
<1>1. LedgerTypeOK'
  BY LedgerSame DEF EngineTypeOK
<1>2. Request' = Request /\ Row' = Row /\ NoEvent' = NoEvent
  BY DEF Request, Row, NoEvent
<1> QED BY <1>1, <1>2 DEF EngineTypeOK, syncVars

LEMMA AdvancedFacts ==
    ASSUME NEW d, NEW L, NEW e
    PROVE  Advanced(d, L, e) \in {e, remote[d]}
BY DEF Advanced

LEMMA CallTypes ==
    ASSUME EngineTypeOK, NEW d \in Device, Resend(d) \/ Lose(d) \/ Replace(d)
    PROVE  EngineTypeOK'
<1>1. UNCHANGED <<syncVars, localVars, logVars, request, answered>>
  BY DEF Resend, Lose, Replace
<1>2. Pending(d) \subseteq DOMAIN request
  BY LogRows DEF Pending, InState
<1>3. call' \in [Device -> DOMAIN request \cup {NoEvent}]
  BY <1>2 DEF Resend, Lose, Replace, EngineTypeOK
<1>4. enrolled' \in [Device -> Nat]
  BY DEF Resend, Lose, Replace, EngineTypeOK
<1>5. UNCHANGED <<syncVars, document, request, answered>>
  BY <1>1 DEF localVars
<1> QED BY <1>1, <1>3, <1>4, <1>5, QuietTypes DEF EngineTypeOK, localVars, logVars

LEMMA RecoverTypes ==
    ASSUME EngineTypeOK, NEW d \in Device, Recover(d)
    PROVE  EngineTypeOK'
<1>1. PICK e \in Pending(d) : log' = Settled(d, e, "failed")
  BY DEF Recover
<1>2. log' \in [Device -> Seq(Row)]
  BY <1>1, SettledRows
<1>3. UNCHANGED <<syncVars, localVars, request, remote, cursor, enrolled, call, answered>>
  BY DEF Recover
<1>4. UNCHANGED <<syncVars, document, request, answered>>
  BY <1>3 DEF localVars
<1> QED BY <1>2, <1>3, <1>4, QuietTypes DEF EngineTypeOK, localVars

(* An answer is learnt. *)
LearnStep(d, state) ==
    /\ ~Idle(d)
    /\ state \in {"accepted", "conflict", "rejected"}
    /\ Told(call[d], {state})
    /\ log' = Settled(d, call[d], state)
    /\ remote' = IF state = "accepted"
                 THEN [remote EXCEPT ![d] = Advanced(d, Logged(d), call[d])]
                 ELSE remote
    /\ call' = [call EXCEPT ![d] = NoEvent]
    /\ UNCHANGED <<syncVars, localVars, request, cursor, enrolled, answered>>

LEMMA LearnSteps ==
    ASSUME EngineTypeOK, AnswersOK, NEW d \in Device, Learn(d)
    PROVE  \E state : LearnStep(d, state)
<1>1. PICK k \in DOMAIN answered :
         /\ answered[k] = call[d]
         /\ log' = Settled(d, call[d], receipt[k].state)
         /\ remote' = IF Moves(receipt[k].state)
                      THEN [remote EXCEPT ![d] = Advanced(d, Logged(d), call[d])]
                      ELSE remote
  BY DEF Learn
<1>2. DOMAIN answered = DOMAIN receipt
  BY DEF AnswersOK, EngineTypeOK, LedgerTypeOK
<1>3. receipt[k].state \in {"accepted", "conflict", "rejected"}
  BY <1>2 DEF AnswersOK
<1>4. Told(call[d], {receipt[k].state})
  BY <1>1 DEF Told
<1> QED BY <1>1, <1>3, <1>4 DEF Learn, LearnStep, Moves

LEMMA LearnTypes ==
    ASSUME EngineTypeOK, NEW d \in Device, NEW state, LearnStep(d, state)
    PROVE  EngineTypeOK'
<1>1. /\ UNCHANGED <<syncVars, localVars, request, cursor, enrolled, answered>>
      /\ call' = [call EXCEPT ![d] = NoEvent]
      /\ state \in {"accepted", "conflict", "rejected"}
      /\ log' = Settled(d, call[d], state)
      /\ ~Idle(d)
      /\ \/ remote' = [remote EXCEPT ![d] = Advanced(d, Logged(d), call[d])]
         \/ remote' = remote
  BY DEF LearnStep
<1>2. log' \in [Device -> Seq(Row)]
  BY <1>1, SettledRows
<1>3. call[d] \in DOMAIN request \cup {NoEvent} /\ remote[d] \in DOMAIN request \cup {NoEvent}
  BY DEF EngineTypeOK
<1>4. remote' \in [Device -> DOMAIN request \cup {NoEvent}]
  <2>1. Advanced(d, Logged(d), call[d]) \in DOMAIN request \cup {NoEvent}
    BY <1>3, AdvancedFacts
  <2> QED BY <1>1, <2>1 DEF EngineTypeOK
<1>5. call' \in [Device -> DOMAIN request \cup {NoEvent}]
  BY <1>1 DEF EngineTypeOK
<1>6. UNCHANGED <<syncVars, document, request, answered>>
  BY <1>1 DEF localVars
<1> QED BY <1>1, <1>2, <1>4, <1>5, <1>6, QuietTypes DEF EngineTypeOK, localVars

(* The next event of the stream is a request. *)
LEMMA NextIsRequest ==
    ASSUME EngineTypeOK, TablesOK, NEW d \in Device, cursor[d] < Len(stream)
    PROVE  /\ cursor[d] \in Nat /\ cursor[d] + 1 \in DOMAIN stream
           /\ stream[cursor[d] + 1] \in Held \cap Delivered
           /\ NextEvent(d) = revision[stream[cursor[d] + 1]].eventId
           /\ NextEvent(d) \in DOMAIN request
           /\ NextEvent(d) # NoEvent
<1>1. LedgerTypeOK /\ cursor[d] \in 0 .. Len(stream)
  BY DEF EngineTypeOK
<1>2. cursor[d] \in Nat /\ cursor[d] + 1 \in DOMAIN stream
  BY <1>1, StreamFacts
<1>3. stream[cursor[d] + 1] \in Held \cap Delivered
  BY <1>1, <1>2, StreamFacts DEF Delivered
<1>4. NextEvent(d) = revision[stream[cursor[d] + 1]].eventId
  BY DEF NextEvent, StreamEvent
<1>5. NextEvent(d) \in DOMAIN request
  BY <1>3, <1>4 DEF TablesOK, Mirrors
<1>6. NoEvent \notin DOMAIN request
  BY DEF EngineTypeOK, NoEvent
<1> QED BY <1>2, <1>3, <1>4, <1>5, <1>6

LEMMA PullTypes ==
    ASSUME EngineTypeOK, TablesOK, NEW d \in Device, Pull(d)
    PROVE  EngineTypeOK'
<1> DEFINE e == NextEvent(d)
<1>1. /\ cursor[d] < Len(stream)
      /\ Replay(d, e) \/ Receive(d, e)
      /\ cursor' = [cursor EXCEPT ![d] = @ + 1]
      /\ UNCHANGED <<syncVars, request, enrolled, call, answered>>
  BY DEF Pull
<1>2. e \in DOMAIN request /\ cursor[d] \in Nat /\ cursor[d] + 1 \in DOMAIN stream
  BY <1>1, NextIsRequest
<1> HIDE DEF e
<1>3. cursor' \in [Device -> 0 .. Len(stream)]
  BY <1>1, <1>2, StreamFacts DEF EngineTypeOK
<1>4. \A L : Advanced(d, L, e) \in DOMAIN request \cup {NoEvent}
  BY <1>2, AdvancedFacts DEF EngineTypeOK
<1>5. remote' \in [Device -> DOMAIN request \cup {NoEvent}]
  <2>1. PICK x \in DOMAIN request \cup {NoEvent} : remote' = [remote EXCEPT ![d] = x]
    BY <1>1, <1>4 DEF Replay, Receive
  <2> QED BY <2>1 DEF EngineTypeOK
<1>6. CASE Replay(d, e)
  <2>1. UNCHANGED localVars /\ (log' = Settled(d, e, "accepted") \/ log' = log)
    BY <1>6 DEF Replay
  <2>2. log' \in [Device -> Seq(Row)]
    <3>1. CASE log' = Settled(d, e, "accepted")
      BY <3>1, SettledRows
    <3>2. CASE log' = log
      BY <3>2 DEF EngineTypeOK
    <3> QED BY <2>1, <3>1, <3>2
  <2>3. UNCHANGED <<syncVars, document, request, answered>>
    BY <1>1, <2>1 DEF localVars
  <2> QED BY <1>1, <1>3, <1>5, <2>1, <2>2, <2>3, QuietTypes DEF EngineTypeOK, localVars
<1>7. CASE Receive(d, e)
  <2> DEFINE r == request[e].payload
             row == [event |-> e, state |-> "accepted"]
  <2>1. /\ local' = [local EXCEPT ![d] = @ \cup {r}]
        /\ heads' = heads \/ heads' = [heads EXCEPT ![d] = (@ \ document[r]) \cup {r}]
        /\ log' = [log EXCEPT ![d] = Append(@, row)]
        /\ UNCHANGED document
    BY <1>7 DEF Receive
  <2>2. r \in DOMAIN document
    BY <1>2, RequestFields
  <2>3. row \in Row
    BY <1>2 DEF Row
  <2> HIDE DEF r, row
  <2>4. log' \in [Device -> Seq(Row)]
    BY <2>1, <2>3, LogGrows DEF EngineTypeOK
  <2>5. /\ local' \in [Device -> SUBSET DOMAIN document]
        /\ heads' \in [Device -> SUBSET DOMAIN document]
    <3>1. local[d] \cup {r} \in SUBSET DOMAIN document
      BY <2>2 DEF EngineTypeOK
    <3>2. (heads[d] \ document[r]) \cup {r} \in SUBSET DOMAIN document
      BY <2>2 DEF EngineTypeOK
    <3>3. local' \in [Device -> SUBSET DOMAIN document]
      BY <2>1, <3>1 DEF EngineTypeOK
    <3>4. heads' \in [Device -> SUBSET DOMAIN document]
      BY <2>1, <3>2 DEF EngineTypeOK
    <3> QED BY <3>3, <3>4
  <2>6. UNCHANGED <<syncVars, document, request, answered>>
    BY <1>1, <2>1
  <2>7. enrolled' \in [Device -> Nat] /\ call' \in [Device -> DOMAIN request \cup {NoEvent}]
    BY <1>1 DEF EngineTypeOK
  <2> QED BY <1>3, <1>5, <2>4, <2>5, <2>6, <2>7, QuietTypes
<1> QED BY <1>1, <1>6, <1>7

-----------------------------------------------------------------------------
(* A served request is a step of the ledger. *)

LEMMA PairCardinality ==
    ASSUME NEW S, NEW x, NEW y, S \subseteq {x, y}
    PROVE  IsFiniteSet(S) /\ Cardinality(S) \in Nat /\ Cardinality(S) <= 2
<1>1. IsFiniteSet({x, y}) /\ Cardinality({x, y}) <= 2
  <2>1. IsFiniteSet({x}) /\ Cardinality({x}) = 1
    BY FS_Singleton
  <2>2. {x, y} = {x} \cup {y}
    OBVIOUS
  <2>3. /\ IsFiniteSet({x} \cup {y})
        /\ Cardinality({x} \cup {y}) = IF y \in {x} THEN Cardinality({x})
                                       ELSE Cardinality({x}) + 1
    BY <2>1, FS_AddElement
  <2> QED BY <2>1, <2>2, <2>3
<1>2. IsFiniteSet(S) /\ Cardinality(S) <= Cardinality({x, y})
  BY <1>1, FS_Subset
<1>3. Cardinality(S) \in Nat /\ Cardinality({x, y}) \in Nat
  BY <1>1, <1>2, FS_CardinalityType
<1> QED BY <1>1, <1>2, <1>3

LEMMA RevisionOfFacts ==
    ASSUME EngineTypeOK, NEW e, e # NoEvent
    PROVE  /\ RevisionOf(e) \in Held \cup {Unknown}
           /\ RevisionOf(e) \in Held => revision[RevisionOf(e)].eventId = e
           /\ \A r \in Held : revision[r].eventId = e => RevisionOf(e) \in Held
<1>1. Unknown \notin Held
  BY HeldIsInterval DEF EngineTypeOK
<1>2. CASE \E r \in Held : revision[r].eventId = e
  <2>1. RevisionOf(e) = CHOOSE r \in Held : revision[r].eventId = e
    BY <1>2 DEF RevisionOf
  <2> QED BY <1>2, <2>1
<1>3. CASE ~\E r \in Held : revision[r].eventId = e
  <2>1. RevisionOf(e) = Unknown
    BY <1>3 DEF RevisionOf
  <2> QED BY <1>1, <1>3, <2>1
<1> QED BY <1>2, <1>3

LEMMA RevisionIsOf ==
    ASSUME EngineTypeOK, TablesOK, NEW r \in Held
    PROVE  RevisionOf(revision[r].eventId) = r
<1>1. revision[r].eventId \in DOMAIN request
  BY DEF TablesOK, Mirrors
<1>2. revision[r].eventId # NoEvent
  BY <1>1 DEF EngineTypeOK, NoEvent
<1>3. /\ RevisionOf(revision[r].eventId) \in Held
      /\ revision[RevisionOf(revision[r].eventId)].eventId = revision[r].eventId
  BY <1>2, RevisionOfFacts
<1> QED BY <1>3 DEF TablesOK

LEMMA PostedIsContent ==
    ASSUME EngineTypeOK, NEW e \in DOMAIN request, Len(request) <= MaxEvents,
           RequestOK(e)
    PROVE  /\ Posted(e) \in Content
           /\ Posted(e).entity = Passport
           /\ Posted(e).eventId = e
           /\ Posted(e).parents = {RevisionOf(p) : p \in request[e].parents}
<1> DEFINE P == {RevisionOf(p) : p \in request[e].parents}
<1>1. P \subseteq Held \cup {Unknown}
  <2>1. ASSUME NEW p \in request[e].parents PROVE RevisionOf(p) \in Held \cup {Unknown}
    <3>1. p \in DOMAIN request
      BY RequestFields
    <3>2. p # NoEvent
      BY <3>1 DEF EngineTypeOK, NoEvent
    <3> QED BY <3>2, RevisionOfFacts
  <2> QED BY <2>1
<1>2. Cardinality(P) <= 2
  <2>1. PICK x, y : request[e].parents \subseteq {x, y}
    BY DEF RequestOK
  <2>2. P \subseteq {RevisionOf(x), RevisionOf(y)}
    BY <2>1
  <2> HIDE DEF P
  <2> QED BY <2>2, PairCardinality
<1>3. e \in EventId
  BY EngineAssumption, SyncAssumption DEF EngineTypeOK
<1>4. Posted(e) = [entity |-> Passport, parents |-> P, tombstone |-> FALSE, eventId |-> e]
  BY DEF Posted
<1> HIDE DEF P
<1>5. Posted(e) \in [entity    : Entity,
                     parents   : {S \in SUBSET (Held \cup {Unknown}) : Cardinality(S) <= 2},
                     tombstone : BOOLEAN,
                     eventId   : EventId]
  BY <1>1, <1>2, <1>3, <1>4, EngineAssumption
<1>6. ~Posted(e).tombstone
  BY <1>4
<1>7. Posted(e) \in Content
  BY <1>5, <1>6 DEF Content
<1> QED BY <1>4, <1>7 DEF P

(* What can become of a request. *)
ServeStep(e, c) ==
    /\ c = Posted(e) /\ c \in Content
    /\ c.entity = Passport /\ c.eventId = e
    /\ c.parents = {RevisionOf(p) : p \in request[e].parents}
    /\ \A k \in DOMAIN answered : answered[k] # e
    /\ answered' = Append(answered, e)
    /\ UNCHANGED deviceVars
    /\ \/ UNCHANGED <<revision, head, stream>> /\ Rejects
       \/ /\ KnownParents(c) /\ Retains(c)
          /\ UNCHANGED <<head, stream>>
          /\ Rejects \/ Answers(Answer("conflict", New, 0))
       \/ \E x \in BOOLEAN : Accept(c, x)

LEMMA ServeSteps ==
    ASSUME EngineTypeOK, NEW e \in DOMAIN request, Len(request) <= MaxEvents,
           RequestOK(e), Serve(e)
    PROVE  LedgerNext /\ ServeStep(e, Posted(e))
<1> DEFINE c == Posted(e)
           x == head[Passport] = RevisionOf(request[e].expected)
<1>1. /\ c \in Content
      /\ c.entity = Passport /\ c.eventId = e
      /\ c.parents = {RevisionOf(p) : p \in request[e].parents}
  BY PostedIsContent
<1>2. /\ ApplyAs(c, x)
      /\ Len(receipt) < MaxEvents
      /\ \A k \in DOMAIN answered : answered[k] # e
      /\ answered' = Append(answered, e)
      /\ UNCHANGED deviceVars
  BY DEF Serve
<1>3. x \in BOOLEAN
  OBVIOUS
<1> HIDE DEF c, x
<1>4. LedgerNext
  BY <1>1, <1>2, <1>3 DEF LedgerNext, Apply
<1>5. \/ UNCHANGED <<revision, head, stream>> /\ Rejects
      \/ /\ KnownParents(c) /\ Retains(c)
         /\ UNCHANGED <<head, stream>>
         /\ Rejects \/ Answers(Answer("conflict", New, 0))
      \/ \E y \in BOOLEAN : Accept(c, y)
  BY <1>2, <1>3 DEF ApplyAs, RejectInadmissible, Conflict, RefuseBacklog,
                    RefuseCollision, Admissible
<1>6. ServeStep(e, c)
  BY <1>1, <1>2, <1>5 DEF ServeStep, c
<1> QED BY <1>4, <1>6 DEF c

LEMMA ServeTypes ==
    ASSUME EngineTypeOK, NEW e \in DOMAIN request, NEW c, ServeStep(e, c), LedgerNext
    PROVE  EngineTypeOK'
<1>1. LedgerTypeOK'
  BY TypeStep DEF EngineTypeOK
<1>2. answered' = Append(answered, e) /\ UNCHANGED deviceVars
  BY DEF ServeStep
<1>3. UNCHANGED <<localVars, logVars, document, local, heads, request, log, remote, cursor, enrolled, call>>
  BY <1>2 DEF deviceVars, localVars, logVars
<1>4. Len(stream) \in Nat /\ Len(stream') \in Nat /\ Len(stream') >= Len(stream)
  <2>1. Len(stream) \in Nat
    BY StreamFacts DEF EngineTypeOK
  <2>2. CASE stream' = stream
    BY <2>1, <2>2
  <2>3. CASE \E x \in BOOLEAN : Accept(c, x)
    <3>1. c \in Content
      BY DEF ServeStep
    <3> QED BY <2>3, <3>1, BehindIsOfEntity DEF EngineTypeOK
  <2> QED BY <2>2, <2>3 DEF ServeStep
<1>5. cursor' \in [Device -> 0 .. Len(stream')]
  BY <1>3, <1>4 DEF EngineTypeOK
<1>6. answered' \in Seq(DOMAIN request')
  BY <1>2, <1>3 DEF EngineTypeOK
<1>7. Request' = Request /\ Row' = Row
  BY <1>3 DEF Request, Row, NoEvent
<1> QED BY <1>1, <1>3, <1>5, <1>6, <1>7 DEF EngineTypeOK, NoEvent

-----------------------------------------------------------------------------
(* Whatever the step, nothing that is written is changed. *)

Grows ==
    /\ DOMAIN document \subseteq DOMAIN document'
    /\ \A r \in DOMAIN document : document'[r] = document[r]
    /\ DOMAIN request \subseteq DOMAIN request'
    /\ \A e \in DOMAIN request : request'[e] = request[e]
    /\ Held \subseteq Held'
    /\ \A r \in Held : revision'[r] = revision[r]
    /\ \A i \in DOMAIN stream : i \in DOMAIN stream' /\ stream'[i] = stream[i]
    /\ \A k \in DOMAIN answered : /\ k \in DOMAIN answered'
                                  /\ answered'[k] = answered[k]
                                  /\ receipt'[k] = receipt[k]

LEMMA WhatGrowthKeeps ==
    ASSUME EngineTypeOK, Grows
    PROVE  /\ Delivered \subseteq Delivered'
           /\ \A e, S : Told(e, S) => Told(e, S)'
           /\ \A e : Kept(e) => Kept(e)'
           /\ \A e : IsDelivered(e) => IsDelivered(e)'
           /\ \A i \in DOMAIN stream : StreamEvent(i)' = StreamEvent(i)
<1>1. \A i \in DOMAIN stream : stream[i] \in Held
  BY StreamFacts DEF EngineTypeOK
<1>2. Delivered \subseteq Delivered' /\ Delivered \subseteq Held
  BY <1>1 DEF Delivered, Grows
<1>3. \A e, S : Told(e, S) => Told(e, S)'
  BY DEF Told, Grows
<1>4. \A e : Kept(e) => Kept(e)'
  BY <1>3 DEF Kept
<1>5. \A e : IsDelivered(e) => IsDelivered(e)'
  BY <1>2 DEF IsDelivered, Grows
<1>6. \A i \in DOMAIN stream : StreamEvent(i)' = StreamEvent(i)
  BY <1>1 DEF StreamEvent, Grows
<1> QED BY <1>2, <1>3, <1>4, <1>5, <1>6

(* A device that the step leaves alone. *)
Untouched(d) == /\ local'[d] = local[d] /\ heads'[d] = heads[d]
                /\ log'[d] = log[d] /\ remote'[d] = remote[d]
                /\ cursor'[d] = cursor[d]

LEMMA HistoryKept ==
    ASSUME EngineTypeOK, Grows, NEW d \in Device, HistoryOK(d),
           local'[d] = local[d], heads'[d] = heads[d]
    PROVE  HistoryOK(d)'
<1>1. local[d] \subseteq DOMAIN document
  BY DEF EngineTypeOK
<1> QED BY <1>1 DEF HistoryOK, Grows

LEMMA LoggedKept ==
    ASSUME NEW d \in Device, log'[d] = log[d]
    PROVE  /\ \A i : EventAt(d, i)' = EventAt(d, i)
           /\ Logged(d)' = Logged(d)
           /\ \A S : InState(d, S)' = InState(d, S)
           /\ Pending(d)' = Pending(d)
<1>1. \A i : EventAt(d, i)' = EventAt(d, i)
  BY DEF EventAt
<1>2. Logged(d)' = Logged(d)
  BY <1>1 DEF Logged
<1>3. \A S : InState(d, S)' = InState(d, S)
  BY <1>1, <1>2 DEF InState
<1> QED BY <1>1, <1>2, <1>3 DEF Pending

LEMMA PulledKept ==
    ASSUME EngineTypeOK, Grows, NEW d \in Device, PulledOK(d),
           cursor'[d] = cursor[d],
           InState(d, {"accepted", "conflict"}) \subseteq InState(d, {"accepted", "conflict"})'
    PROVE  PulledOK(d)'
<1>1. \A i \in 1 .. cursor[d] : StreamEvent(i)' = StreamEvent(i)
  <2>1. cursor[d] \in 0 .. Len(stream) /\ DOMAIN stream = 1 .. Len(stream) /\ Len(stream) \in Nat
    BY StreamFacts DEF EngineTypeOK
  <2>2. 1 .. cursor[d] \subseteq DOMAIN stream
    BY <2>1
  <2> QED BY <2>2, WhatGrowthKeeps
<1>2. \A i \in 1 .. cursor[d] : StreamEvent(i) \in InState(d, {"accepted", "conflict"})
  BY DEF PulledOK
<1>3. \A i \in 1 .. cursor'[d] : StreamEvent(i)' \in InState(d, {"accepted", "conflict"})'
  BY <1>1, <1>2
<1> QED BY <1>3 DEF PulledOK

LEMMA RowsKept ==
    ASSUME EngineTypeOK, Grows, NEW d \in Device,
           LogOK(d), RowsTrue(d),
           local[d] \subseteq local'[d], log'[d] = log[d],
           NEW f, remote'[d] = f, f # NoEvent => f \in Logged(d) /\ IsDelivered(f),
           call'[d] # NoEvent => call'[d] \in Pending(d)
    PROVE  (LogOK(d) /\ RowsTrue(d))'
<1>1. log'[d] = log[d] /\ remote'[d] = f /\ local[d] \subseteq local'[d]
  OBVIOUS
<1>2. /\ \A i : EventAt(d, i)' = EventAt(d, i)
      /\ Logged(d)' = Logged(d)
      /\ \A S : InState(d, S)' = InState(d, S)
      /\ Pending(d)' = Pending(d)
  BY <1>1, LoggedKept
<1>3. /\ \A e, S : Told(e, S) => Told(e, S)'
      /\ \A e : IsDelivered(e) => IsDelivered(e)'
  BY WhatGrowthKeeps
<1>4. /\ \A e \in Logged(d) : request'[e] = request[e]
      /\ \A i \in DOMAIN log[d] : EventAt(d, i) \in Logged(d)
  BY LogRows DEF Grows
<1>5. LogOK(d)'
  <2>1. \A i, j \in DOMAIN log'[d] : EventAt(d, i)' = EventAt(d, j)' => i = j
    BY <1>1, <1>2 DEF LogOK
  <2>2. \A e \in Logged(d)' : /\ request'[e].payload \in local'[d]
                              /\ request'[e].parents \subseteq Logged(d)'
    BY <1>1, <1>2, <1>4 DEF LogOK
  <2>3. call'[d] # NoEvent' => call'[d] \in Pending(d)'
    BY <1>2 DEF NoEvent
  <2>4. remote'[d] # NoEvent' => remote'[d] \in Logged(d)' /\ IsDelivered(remote[d])'
    BY <1>1, <1>2, <1>3 DEF NoEvent
  <2> QED BY <2>1, <2>2, <2>3, <2>4 DEF LogOK
<1>6. RowsTrue(d)'
  <2>1. ASSUME NEW i \in DOMAIN log'[d]
        PROVE  /\ log'[d][i].state # "superseded"
               /\ log'[d][i].state = "accepted" => IsDelivered(EventAt(d, i))'
               /\ log'[d][i].state \in {"conflict", "rejected"}
                     => Told(EventAt(d, i), {log[d][i].state})'
    <3>1. PICK e, s : e = EventAt(d, i) /\ s = log[d][i].state
      OBVIOUS
    <3>2. /\ s # "superseded"
          /\ s = "accepted" => IsDelivered(e)
          /\ s \in {"conflict", "rejected"} => Told(e, {s})
      BY <1>1, <2>1, <3>1 DEF RowsTrue
    <3>3. /\ s = "accepted" => IsDelivered(e)'
          /\ s \in {"conflict", "rejected"} => Told(e, {s})'
      BY <1>3, <3>2
    <3>4. e = EventAt(d, i)' /\ s = log'[d][i].state
      BY <1>1, <1>2, <3>1
    <3> QED BY <3>2, <3>3, <3>4 DEF IsDelivered, Told
  <2> QED BY <2>1 DEF RowsTrue
<1> QED BY <1>5, <1>6

(* The payloads of what was pulled. *)
LEMMA OwnHeadsKept ==
    ASSUME EngineTypeOK, Grows, NEW d \in Device, PulledOK(d), OwnHeads(d),
           heads'[d] = heads[d], cursor'[d] = cursor[d]
    PROVE  OwnHeads(d)'
<1>1. cursor[d] \in 0 .. Len(stream) /\ DOMAIN stream = 1 .. Len(stream) /\ Len(stream) \in Nat
  BY StreamFacts DEF EngineTypeOK
<1>2. \A i \in 1 .. cursor[d] : /\ StreamEvent(i)' = StreamEvent(i)
                                /\ StreamEvent(i) \in Logged(d)
  BY <1>1, WhatGrowthKeeps DEF PulledOK, InState
<1>3. \A i \in 1 .. cursor[d] :
         request'[StreamEvent(i)'].payload = request[StreamEvent(i)].payload
  BY <1>2, LogRows DEF Grows
<1>4. PICK x : \A h \in heads[d] :
         h = x \/ \E i \in 1 .. cursor[d] : request[StreamEvent(i)].payload = h
  BY DEF OwnHeads
<1>5. \A h \in heads'[d] :
         h = x \/ \E i \in 1 .. cursor'[d] : request'[StreamEvent(i)'].payload = h
  BY <1>3, <1>4
<1> QED BY <1>5 DEF OwnHeads

LEMMA UntouchedKept ==
    ASSUME EngineTypeOK, Grows, NEW d \in Device, Untouched(d),
           HistoryOK(d), LogOK(d), RowsTrue(d), PulledOK(d), OwnHeads(d),
           call'[d] # NoEvent => call'[d] \in Pending(d)
    PROVE  (HistoryOK(d) /\ LogOK(d) /\ RowsTrue(d) /\ PulledOK(d) /\ OwnHeads(d))'
<1>1. /\ local'[d] = local[d] /\ heads'[d] = heads[d] /\ log'[d] = log[d]
      /\ remote'[d] = remote[d] /\ cursor'[d] = cursor[d]
  BY DEF Untouched
<1>2. HistoryOK(d)'
  BY <1>1, HistoryKept
<1>3. (LogOK(d) /\ RowsTrue(d))'
  BY <1>1, RowsKept DEF LogOK
<1>4. PulledOK(d)'
  BY <1>1, LoggedKept, PulledKept
<1>5. OwnHeads(d)'
  BY <1>1, OwnHeadsKept
<1> QED BY <1>2, <1>3, <1>4, <1>5

-----------------------------------------------------------------------------
(* A revision and its ancestors. *)

LEMMA LineageFacts ==
    ASSUME NEW R, NEW parents \in [R -> SUBSET R], NEW r \in R
    PROVE  /\ r \in Lineage(parents, r)
           /\ Lineage(parents, r) \subseteq R
           /\ \A s \in Lineage(parents, r) : parents[s] \subseteq Lineage(parents, r)
           /\ \A s \in Lineage(parents, r) :
                 s = r \/ \E t \in Lineage(parents, r) : s \in parents[t]
<1>0. {r} \in SUBSET R
  OBVIOUS
<1>1. /\ Lineage(parents, r) \subseteq R
      /\ {r} \ {} \subseteq Lineage(parents, r)
      /\ \A s \in Lineage(parents, r) : parents[s] \ {} \subseteq Lineage(parents, r)
  BY <1>0, BacklogClosed DEF Lineage
<1>2. \A s \in Lineage(parents, r) :
         s \in {r} \/ \E t \in Lineage(parents, r) : s \in parents[t]
  BY <1>0, BacklogHasChildren DEF Lineage
<1> QED BY <1>1, <1>2

LEMMA LineageWithin ==
    ASSUME NEW R, NEW parents \in [R -> SUBSET R], NEW r \in R,
           NEW C \in SUBSET R, r \in C, \A s \in C : parents[s] \subseteq C
    PROVE  Lineage(parents, r) \subseteq C
<1>1. {r} \subseteq C
  OBVIOUS
<1> QED BY <1>1, BacklogKeeps DEF Lineage

LEMMA GraphOfSequence ==
    ASSUME NEW f, f \in Seq(SUBSET DOMAIN f)
    PROVE  f \in [DOMAIN f -> SUBSET DOMAIN f]
<1>1. DOMAIN f = 1 .. Len(f) /\ f \in [1 .. Len(f) -> SUBSET DOMAIN f]
  OBVIOUS
<1> QED BY <1>1

LEMMA LineageGrows ==
    ASSUME EngineTypeOK, EngineTypeOK', Grows, NEW r \in DOMAIN document
    PROVE  Lineage(document, r) \subseteq Lineage(document', r)
<1> DEFINE C == Lineage(document', r) \cap DOMAIN document
<1>1. document \in [DOMAIN document -> SUBSET DOMAIN document]
  BY GraphOfSequence DEF EngineTypeOK
<1>2. document' \in [DOMAIN document' -> SUBSET DOMAIN document']
  BY GraphOfSequence DEF EngineTypeOK
<1>3. /\ r \in DOMAIN document'
      /\ \A s \in DOMAIN document : document'[s] = document[s]
  BY DEF Grows
<1>4. /\ r \in Lineage(document', r)
      /\ \A s \in Lineage(document', r) : document'[s] \subseteq Lineage(document', r)
  BY <1>2, <1>3, LineageFacts
<1>5. r \in C /\ C \in SUBSET DOMAIN document
  BY <1>4
<1>6. \A s \in C : document[s] \subseteq C
  BY <1>1, <1>3, <1>4
<1> HIDE DEF C
<1>7. Lineage(document, r) \subseteq C
  BY <1>1, <1>5, <1>6, LineageWithin
<1> QED BY <1>7 DEF C

(* Where the head is. *)
LEMMA HeadFacts ==
    ASSUME EngineTypeOK, HeadsMatchStream, TablesOK
    PROVE  /\ Len(stream) \in Nat
           /\ DOMAIN stream = 1 .. Len(stream)
           /\ Len(stream) = 0 => head[Passport] = NoRevision /\ Delivered = {}
           /\ Len(stream) > 0 => /\ head[Passport] = stream[Len(stream)]
                                 /\ head[Passport] \in Held
                                 /\ head[Passport] # NoRevision
<1>1. LedgerTypeOK
  BY DEF EngineTypeOK
<1>2. /\ Len(stream) \in Nat
      /\ DOMAIN stream = 1 .. Len(stream)
      /\ \A i \in DOMAIN stream : stream[i] \in Held
  BY <1>1, StreamFacts
<1>3. \A i \in DOMAIN stream : revision[stream[i]].entity = Passport
  BY <1>2 DEF TablesOK, Mirrors
<1>4. NoRevision \notin Held /\ Passport \in Entity
  BY <1>1, HeldIsInterval, EngineAssumption
<1>5. ASSUME head[Passport] # NoRevision
      PROVE  Len(stream) > 0 /\ head[Passport] = stream[Len(stream)]
  <2>1. PICK i \in DOMAIN stream :
           /\ stream[i] = head[Passport]
           /\ \A j \in DOMAIN stream : j > i => revision[stream[j]].entity # Passport
    BY <1>4, <1>5 DEF HeadsMatchStream, HeadIsLast
  <2>2. \A j \in DOMAIN stream : ~(j > i)
    BY <1>3, <2>1
  <2>3. i \in 1 .. Len(stream) /\ Len(stream) \in DOMAIN stream
    BY <1>2, <2>1
  <2>4. i = Len(stream) /\ Len(stream) > 0
    BY <1>2, <2>2, <2>3
  <2> QED BY <2>1, <2>4
<1>6. ASSUME Len(stream) > 0
      PROVE  head[Passport] # NoRevision
  <2>1. 1 \in DOMAIN stream
    BY <1>2, <1>6
  <2> QED BY <1>3, <2>1 DEF HeadsMatchStream
<1>7. Len(stream) = 0 => Delivered = {}
  BY <1>2 DEF Delivered
<1>8. Len(stream) > 0 => stream[Len(stream)] \in Held
  BY <1>2
<1> QED BY <1>2, <1>4, <1>5, <1>6, <1>7, <1>8

(* The ledger is left alone: what relates it to the requests stays. *)
LEMMA LedgerSideKept ==
    ASSUME EngineTypeOK, EngineTypeOK', Grows, UNCHANGED <<syncVars, answered>>,
           HeadsMatchStream, TablesOK, AnswersOK, DeliveredOK, NoEditLost
    PROVE  (TablesOK /\ AnswersOK /\ DeliveredOK /\ NoEditLost)'
<1>1. /\ UNCHANGED <<revision, head, stream, receipt, answered>>
      /\ Held' = Held /\ Delivered' = Delivered
      /\ NoRevision' = NoRevision
  BY DEF syncVars, Held, Delivered, NoRevision
<1>2. \A r \in Held : revision[r].eventId \in DOMAIN request
  BY DEF TablesOK, Mirrors
<1>3. TablesOK'
  <2>1. ASSUME NEW r \in Held' PROVE Mirrors(r)'
    <3>1. Mirrors(r)
      BY <1>1, <2>1 DEF TablesOK
    <3> QED BY <1>1, <3>1 DEF Mirrors, Grows
  <2> QED BY <1>1, <2>1 DEF TablesOK
<1>4. AnswersOK'
  BY <1>1 DEF AnswersOK
<1>5. DeliveredOK'
  BY <1>1 DEF DeliveredOK, Kept, Told
<1>6. NoEditLost'
  <2>1. ASSUME NEW r \in Delivered'
        PROVE  request'[revision'[r].eventId].payload
                  \in Lineage(document', request'[revision'[head'[Passport]].eventId].payload)
    <3>1. Len(stream) > 0
      BY <1>1, <2>1, HeadFacts
    <3>2. r \in Held /\ head[Passport] \in Held
      BY <1>1, <2>1, <3>1, HeadFacts, StreamFacts DEF EngineTypeOK
    <3> DEFINE e == revision[r].eventId
               f == revision[head[Passport]].eventId
    <3>3. e \in DOMAIN request /\ f \in DOMAIN request
      BY <1>2, <3>2
    <3>4. request'[e] = request[e] /\ request'[f] = request[f]
      BY <3>3 DEF Grows
    <3>5. request[f].payload \in DOMAIN document
      BY <3>3, RequestFields
    <3>6. request[e].payload \in Lineage(document, request[f].payload)
      BY <1>1, <2>1 DEF NoEditLost
    <3>7. request[e].payload \in Lineage(document', request[f].payload)
      BY <3>5, <3>6, LineageGrows
    <3> QED BY <1>1, <3>4, <3>7
  <2> QED BY <2>1 DEF NoEditLost
<1> QED BY <1>3, <1>4, <1>5, <1>6

(* A request stays what it was. *)
LEMMA RequestKept ==
    ASSUME EngineTypeOK, Grows, NEW e \in DOMAIN request, RequestOK(e)
    PROVE  RequestOK(e)'
<1>1. /\ request'[e] = request[e]
      /\ request[e].payload \in DOMAIN document
      /\ request[e].parents \subseteq DOMAIN request
  BY RequestFields DEF Grows
<1>2. \A p \in request[e].parents : request'[p] = request[p]
  BY <1>1 DEF Grows
<1>3. document'[request[e].payload] = document[request[e].payload]
  BY <1>1 DEF Grows
<1>4. \A p \in request[e].parents : Kept(p)'
  BY WhatGrowthKeeps DEF RequestOK
<1>5. \E x, y : request'[e].parents \subseteq {x, y}
  BY <1>1 DEF RequestOK
<1>6. \A q \in document'[request'[e].payload] :
         \E p \in request'[e].parents : request'[p].payload = q
  BY <1>1, <1>2, <1>3 DEF RequestOK
<1>7. \A p \in request'[e].parents :
         /\ request'[p].payload \in document'[request'[e].payload]
         /\ Kept(p)'
  BY <1>1, <1>2, <1>3, <1>4 DEF RequestOK
<1> QED BY <1>5, <1>6, <1>7 DEF RequestOK

-----------------------------------------------------------------------------
(* A step of one device, which leaves the ledger alone. *)

LEMMA RemoteKept ==
    ASSUME UNCHANGED syncVars, NEW d \in Device, RemoteOK(d),
           remote'[d] = remote[d], cursor'[d] = cursor[d]
    PROVE  RemoteOK(d)'
BY DEF syncVars, RemoteOK, HeadEvent, NoRevision, NoEvent

LEMMA DeviceStep ==
    ASSUME EngineInv, EngineTypeOK', Grows, UNCHANGED <<syncVars, answered>>,
           DocumentsOK', Len(request') <= MaxEvents,
           \A e \in DOMAIN request' \ DOMAIN request : RequestOK(e)',
           NEW d \in Device, DeviceInv(d)',
           \A c \in Device \ {d} : Untouched(c) /\ call'[c] = call[c]
    PROVE  EngineInv'
<1>1. LedgerInv'
  <2>1. LedgerInv /\ [LedgerNext]_syncVars
    BY DEF EngineInv
  <2> QED BY <2>1, InvStep
<1>2. (TablesOK /\ AnswersOK /\ DeliveredOK /\ NoEditLost)'
  BY LedgerSideKept DEF EngineInv, LedgerInv
<1>3. \A e \in DOMAIN request' : RequestOK(e)'
  <2>1. \A e \in DOMAIN request : RequestOK(e)'
    BY RequestKept DEF EngineInv
  <2> QED BY <2>1
<1>4. \A c \in Device : DeviceInv(c)'
  <2>1. ASSUME NEW c \in Device \ {d} PROVE DeviceInv(c)'
    <3>1. Untouched(c) /\ call'[c] = call[c]
      OBVIOUS
    <3>2. /\ HistoryOK(c) /\ LogOK(c) /\ RowsTrue(c)
          /\ PulledOK(c) /\ OwnHeads(c) /\ RemoteOK(c)
      BY DEF EngineInv, DeviceInv
    <3>3. call'[c] # NoEvent => call'[c] \in Pending(c)
      BY <3>1, <3>2 DEF LogOK
    <3>4. (HistoryOK(c) /\ LogOK(c) /\ RowsTrue(c) /\ PulledOK(c) /\ OwnHeads(c))'
      BY <3>1, <3>2, <3>3, UntouchedKept DEF EngineInv
    <3>5. RemoteOK(c)'
      BY <3>1, <3>2, RemoteKept DEF Untouched
    <3> QED BY <3>4, <3>5 DEF DeviceInv
  <2> QED BY <2>1
<1> QED BY <1>1, <1>2, <1>3, <1>4 DEF EngineInv

-----------------------------------------------------------------------------
(* Edit and Merge. *)

LEMMA LocalHistory ==
    ASSUME EngineTypeOK, NEW d \in Device, HistoryOK(d), LocalStep(d)
    PROVE  HistoryOK(d)'
<1>1. PICK r \in DOMAIN document' :
         /\ document'[r] = heads[d]
         /\ local' = [local EXCEPT ![d] = @ \cup {r}]
         /\ heads' = [heads EXCEPT ![d] = {r}]
  BY LocalShape
<1>2. \A s \in DOMAIN document : document'[s] = document[s]
  BY LocalShape
<1>3. /\ local'[d] = local[d] \cup {r} /\ heads'[d] = {r}
      /\ local[d] \subseteq DOMAIN document
  BY <1>1 DEF EngineTypeOK
<1>4. /\ \A s \in local[d] : document[s] \subseteq local[d]
      /\ heads[d] = {s \in local[d] : \A t \in local[d] : s \notin document[t]}
  BY DEF HistoryOK
<1>5. PICK x : x \in heads[d]
  BY DEF LocalStep
<1>6. r \notin local[d]
  <2>1. ASSUME r \in local[d] PROVE FALSE
    BY <1>1, <1>2, <1>3, <1>4, <1>5, <2>1
  <2> QED BY <2>1
<1>7. \A s \in local'[d] : document'[s] \subseteq local'[d]
  BY <1>1, <1>2, <1>3, <1>4
<1>8. \A s \in local'[d] : (\A t \in local'[d] : s \notin document'[t]) <=> s = r
  <2>1. \A t \in local'[d] : r \notin document'[t]
    BY <1>1, <1>2, <1>3, <1>4, <1>6
  <2>2. \A s \in local[d] : \E t \in local'[d] : s \in document'[t]
    BY <1>1, <1>2, <1>3, <1>4
  <2> QED BY <1>3, <2>1, <2>2
<1>9. heads'[d] = {s \in local'[d] : \A t \in local'[d] : s \notin document'[t]}
  BY <1>3, <1>8
<1> QED BY <1>7, <1>9 DEF HistoryOK

LEMMA LocalInv ==
    ASSUME EngineInv, NEW d \in Device, LocalStep(d)
    PROVE  EngineInv'
<1>1. EngineTypeOK /\ EngineTypeOK'
  BY LocalTypes DEF EngineInv
<1>2. UNCHANGED <<syncVars, logVars, request, enrolled, call, answered>>
  BY DEF LocalStep
<1>3. /\ UNCHANGED <<syncVars, answered>>
      /\ request' = request /\ log' = log /\ remote' = remote
      /\ cursor' = cursor /\ call' = call
  BY <1>2 DEF logVars
<1>4. PICK r \in DOMAIN document' :
         /\ document'[r] = heads[d]
         /\ local' = [local EXCEPT ![d] = @ \cup {r}]
         /\ heads' = [heads EXCEPT ![d] = {r}]
         /\ DOMAIN document' = DOMAIN document \cup {r}
  BY <1>1, LocalShape
<1>5. Grows
  BY <1>1, <1>3, LocalShape DEF Grows, syncVars, Held
<1>6. \A c \in Device \ {d} : Untouched(c) /\ call'[c] = call[c]
  BY <1>1, <1>3, <1>4 DEF Untouched, EngineTypeOK
<1>7. DocumentsOK'
  <2>1. \E x, y : document'[r] \subseteq {x, y}
    <3>1. PICK x, y : heads[d] = {x, y}
      BY DEF LocalStep
    <3>2. document'[r] \subseteq {x, y}
      BY <1>4, <3>1
    <3> QED BY <3>2
  <2>2. \A s \in DOMAIN document : \E x, y : document'[s] \subseteq {x, y}
    BY <1>5 DEF EngineInv, DocumentsOK, Grows
  <2> QED BY <1>4, <2>1, <2>2 DEF DocumentsOK
<1>8. DeviceInv(d)'
  <2>1. /\ HistoryOK(d) /\ LogOK(d) /\ RowsTrue(d)
        /\ PulledOK(d) /\ OwnHeads(d) /\ RemoteOK(d)
    BY DEF EngineInv, DeviceInv
  <2>2. HistoryOK(d)'
    BY <1>1, <2>1, LocalHistory
  <2>3. local[d] \subseteq local'[d] /\ heads'[d] = {r}
    BY <1>1, <1>4 DEF EngineTypeOK
  <2>4. (LogOK(d) /\ RowsTrue(d) /\ PulledOK(d))'
    <3>1. /\ call'[d] # NoEvent => call'[d] \in Pending(d)
          /\ remote[d] # NoEvent => remote[d] \in Logged(d) /\ IsDelivered(remote[d])
      BY <1>3, <2>1 DEF LogOK
    <3>2. (LogOK(d) /\ RowsTrue(d))'
      BY <1>1, <1>3, <1>5, <2>1, <2>3, <3>1, RowsKept
    <3>3. PulledOK(d)'
      BY <1>1, <1>3, <1>5, <2>1, LoggedKept, PulledKept
    <3> QED BY <3>2, <3>3
  <2>5. OwnHeads(d)'
    BY <2>3 DEF OwnHeads
  <2>6. RemoteOK(d)'
    BY <1>3, <2>1, RemoteKept
  <2> QED BY <2>2, <2>4, <2>5, <2>6 DEF DeviceInv
<1>9. /\ Len(request') <= MaxEvents
      /\ \A e \in DOMAIN request' \ DOMAIN request : RequestOK(e)'
  BY <1>3 DEF EngineInv
<1> QED BY <1>1, <1>3, <1>5, <1>6, <1>7, <1>8, <1>9, DeviceStep

-----------------------------------------------------------------------------
(* The two ways a log changes. *)

LEMMA AppendedLog ==
    ASSUME EngineTypeOK, NEW d \in Device, NEW e \in DOMAIN request', NEW state,
           e \notin Logged(d),
           log' = [log EXCEPT ![d] = Append(@, [event |-> e, state |-> state])]
    PROVE  /\ Logged(d)' = Logged(d) \cup {e}
           /\ \A i \in DOMAIN log'[d] :
                 \/ /\ i \in DOMAIN log[d]
                    /\ log'[d][i] = log[d][i]
                    /\ EventAt(d, i)' = EventAt(d, i)
                 \/ EventAt(d, i)' = e /\ log'[d][i].state = state
           /\ \A S : InState(d, S) \subseteq InState(d, S)'
           /\ \A S : state \in S => e \in InState(d, S)'
           /\ (\A i, j \in DOMAIN log[d] : EventAt(d, i) = EventAt(d, j) => i = j)
                 => (\A i, j \in DOMAIN log'[d] : EventAt(d, i)' = EventAt(d, j)' => i = j)
<1>0. PICK n : n = Len(log[d]) + 1
  OBVIOUS
<1> DEFINE row == [event |-> e, state |-> state]
           R == Row \cup {row}
<1>1. row.event = e /\ row.state = state /\ row \in R
  OBVIOUS
<1>2. log \in [Device -> Seq(R)]
  BY DEF EngineTypeOK
<1> HIDE DEF row, R
<1>3. /\ Len(log[d]) \in Nat
      /\ DOMAIN log[d] = 1 .. Len(log[d])
      /\ DOMAIN log'[d] = 1 .. Len(log[d]) + 1
      /\ \A i \in DOMAIN log[d] : log'[d][i] = log[d][i]
      /\ log'[d][Len(log[d]) + 1] = row
  <2>1. log' = [log EXCEPT ![d] = Append(@, row)]
    BY DEF row
  <2> QED BY <1>1, <1>2, <2>1, LogGrows
<1>4. /\ DOMAIN log'[d] = DOMAIN log[d] \cup {n}
      /\ n \notin DOMAIN log[d]
      /\ log'[d][n].event = e /\ log'[d][n].state = state
  BY <1>0, <1>1, <1>3
<1>5. /\ \A i \in DOMAIN log[d] : EventAt(d, i)' = EventAt(d, i)
      /\ EventAt(d, n)' = e
  BY <1>3, <1>4 DEF EventAt
<1>6. Logged(d)' = Logged(d) \cup {e}
  BY <1>4, <1>5 DEF Logged
<1>7. \A S : InState(d, S) \subseteq InState(d, S)'
  BY <1>3, <1>4, <1>5, <1>6 DEF InState
<1>8. \A S : state \in S => e \in InState(d, S)'
  BY <1>4, <1>5, <1>6 DEF InState
<1>9. ASSUME \A i, j \in DOMAIN log[d] : EventAt(d, i) = EventAt(d, j) => i = j
      PROVE  \A i, j \in DOMAIN log'[d] : EventAt(d, i)' = EventAt(d, j)' => i = j
  <2>1. \A i \in DOMAIN log[d] : EventAt(d, i)' # e
    BY <1>5 DEF Logged
  <2> QED BY <1>4, <1>5, <1>9, <2>1
<1>10. \A i \in DOMAIN log'[d] :
          \/ /\ i \in DOMAIN log[d]
             /\ log'[d][i] = log[d][i]
             /\ EventAt(d, i)' = EventAt(d, i)
          \/ EventAt(d, i)' = e /\ log'[d][i].state = state
  BY <1>3, <1>4, <1>5
<1> QED BY <1>6, <1>7, <1>8, <1>9, <1>10

LEMMA SettledLog ==
    ASSUME EngineTypeOK, NEW d \in Device, NEW e,
           NEW state \in {"pending", "accepted", "conflict", "superseded",
                          "rejected", "failed"},
           log' = Settled(d, e, state)
    PROVE  /\ Logged(d)' = Logged(d)
           /\ DOMAIN log'[d] = DOMAIN log[d]
           /\ \A i \in DOMAIN log[d] :
                 /\ EventAt(d, i)' = EventAt(d, i)
                 /\ \/ EventAt(d, i) = e /\ log'[d][i].state = state
                    \/ EventAt(d, i) # e /\ log'[d][i].state = log[d][i].state
           /\ \A S : InState(d, S) \ {e} \subseteq InState(d, S)'
           /\ \A S : state \in S /\ e \in Logged(d) => e \in InState(d, S)'
<1>1. /\ DOMAIN log'[d] = DOMAIN log[d]
      /\ \A i \in DOMAIN log[d] :
            /\ log'[d][i].event = log[d][i].event
            /\ log'[d][i].state = IF log[d][i].event = e THEN state
                                  ELSE log[d][i].state
  BY SettledRows
<1>2. \A i \in DOMAIN log[d] :
         /\ EventAt(d, i)' = EventAt(d, i)
         /\ \/ EventAt(d, i) = e /\ log'[d][i].state = state
            \/ EventAt(d, i) # e /\ log'[d][i].state = log[d][i].state
  BY <1>1 DEF EventAt
<1>3. Logged(d)' = Logged(d)
  BY <1>1, <1>2 DEF Logged
<1>4. \A S : InState(d, S) \ {e} \subseteq InState(d, S)'
  BY <1>1, <1>2, <1>3 DEF InState
<1>5. \A S : state \in S /\ e \in Logged(d) => e \in InState(d, S)'
  BY <1>1, <1>2, <1>3 DEF InState, Logged
<1> QED BY <1>1, <1>2, <1>3, <1>4, <1>5

(* What a row says of an event carries over to the next state. *)
RowSays(s, e) == /\ s # "superseded"
                 /\ s = "accepted" => IsDelivered(e)
                 /\ s \in {"conflict", "rejected"} => Told(e, {s})

LEMMA RowsSay ==
    ASSUME NEW d \in Device
    PROVE  RowsTrue(d) <=> \A i \in DOMAIN log[d] : RowSays(log[d][i].state, EventAt(d, i))
BY DEF RowsTrue, RowSays

LEMMA SayingsStay ==
    ASSUME EngineTypeOK, Grows
    PROVE  \A s, e : RowSays(s, e) => RowSays(s, e)'
BY WhatGrowthKeeps DEF RowSays

(* An event that carries a revision is kept by the ledger. *)
LEMMA UsableIsKept ==
    ASSUME EngineTypeOK, DeliveredOK, NEW d \in Device, RowsTrue(d),
           NEW i \in DOMAIN log[d], log[d][i].state \in Usable
    PROVE  Kept(EventAt(d, i))
<1>1. RowSays(log[d][i].state, EventAt(d, i))
  BY RowsSay
<1>2. CASE log[d][i].state = "accepted"
  BY <1>1, <1>2 DEF RowSays, IsDelivered, DeliveredOK
<1>3. CASE log[d][i].state = "conflict"
  BY <1>1, <1>3 DEF RowSays, Told, Kept
<1> QED BY <1>1, <1>2, <1>3 DEF RowSays, Usable

-----------------------------------------------------------------------------
(* Send. *)

LEMMA SendRequest ==
    ASSUME EngineInv, NEW d \in Device, NEW q \in Request, SendStep(d, q), Grows,
           NEW n, n = Len(request) + 1
    PROVE  RequestOK(n)' /\ q.payload \in local[d]
<1>1. EngineTypeOK /\ DeliveredOK /\ RowsTrue(d) /\ HistoryOK(d)
  BY DEF EngineInv, DeviceInv
<1>2. request' = Append(request, q) /\ UNCHANGED <<document, local>>
  BY DEF SendStep, localVars
<1>3. request'[n] = q
  BY <1>1, <1>2, RequestGrows
<1>4. q.payload \in DOMAIN document
  BY DEF Request
<1>5. \A p \in q.parents : p \in DOMAIN request /\ request'[p] = request[p] /\ Kept(p)'
  <2>1. ASSUME NEW p \in q.parents
        PROVE  p \in DOMAIN request /\ request'[p] = request[p] /\ Kept(p)'
    <3>1. PICK i \in DOMAIN log[d] : EventAt(d, i) = p /\ log[d][i].state \in Usable
      BY DEF SendStep
    <3>2. Kept(p)
      BY <1>1, <3>1, UsableIsKept
    <3>3. p \in DOMAIN request
      BY <1>1, <3>1, LogRows
    <3> QED BY <1>1, <3>2, <3>3, WhatGrowthKeeps DEF Grows
  <2> QED BY <2>1
<1>6. \E x, y : request'[n].parents \subseteq {x, y}
  BY <1>3 DEF SendStep
<1>7. \A s \in document'[request'[n].payload] :
         \E p \in request'[n].parents : request'[p].payload = s
  BY <1>2, <1>3, <1>5 DEF SendStep
<1>8. \A p \in request'[n].parents :
         request'[p].payload \in document'[request'[n].payload] /\ Kept(p)'
  BY <1>2, <1>3, <1>5 DEF SendStep
<1>9. RequestOK(n)'
  BY <1>6, <1>7, <1>8 DEF RequestOK
<1>10. q.payload \in local[d]
  <2>1. PICK h \in heads[d] : q.payload \in Lineage(document, h)
    BY DEF SendStep
  <2>2. h \in local[d] /\ local[d] \in SUBSET DOMAIN document
    BY <1>1 DEF HistoryOK, EngineTypeOK
  <2>3. \A s \in local[d] : document[s] \subseteq local[d]
    BY <1>1 DEF HistoryOK
  <2>4. document \in [DOMAIN document -> SUBSET DOMAIN document]
    BY <1>1, GraphOfSequence DEF EngineTypeOK
  <2>5. Lineage(document, h) \subseteq local[d]
    BY <2>2, <2>3, <2>4, LineageWithin
  <2> QED BY <2>1, <2>5
<1> QED BY <1>9, <1>10

LEMMA SendInv ==
    ASSUME EngineInv, NEW d \in Device, NEW q \in Request, SendStep(d, q)
    PROVE  EngineInv'
<1>0. PICK n : n = Len(request) + 1
  OBVIOUS
<1>1. EngineTypeOK /\ EngineTypeOK'
  BY SendTypes DEF EngineInv
<1>2. /\ HistoryOK(d) /\ LogOK(d) /\ RowsTrue(d)
      /\ PulledOK(d) /\ OwnHeads(d) /\ RemoteOK(d)
  BY DEF EngineInv, DeviceInv
<1>3. /\ request' = Append(request, q)
      /\ log' = [log EXCEPT ![d] = Append(@, [event |-> n, state |-> "pending"])]
      /\ call' = [call EXCEPT ![d] = n]
      /\ UNCHANGED <<syncVars, answered>>
      /\ document' = document /\ local' = local /\ heads' = heads
      /\ remote' = remote /\ cursor' = cursor
  BY <1>0 DEF SendStep, localVars
<1>4. /\ Len(request) \in Nat
      /\ n \notin DOMAIN request
      /\ DOMAIN request' = DOMAIN request \cup {n}
      /\ \A e \in DOMAIN request : request'[e] = request[e]
      /\ request'[n] = q
  BY <1>0, <1>1, <1>3, RequestGrows
<1>5. Grows
  BY <1>3, <1>4 DEF Grows, syncVars, Held
<1>6. RequestOK(n)' /\ q.payload \in local[d]
  BY <1>0, <1>5, SendRequest
<1>7. n \notin Logged(d)
  BY <1>1, <1>4, LogRows
<1>8. /\ Logged(d)' = Logged(d) \cup {n}
      /\ \A i \in DOMAIN log'[d] :
            \/ /\ i \in DOMAIN log[d]
               /\ log'[d][i] = log[d][i]
               /\ EventAt(d, i)' = EventAt(d, i)
            \/ EventAt(d, i)' = n /\ log'[d][i].state = "pending"
      /\ \A S : InState(d, S) \subseteq InState(d, S)'
      /\ \A S : "pending" \in S => n \in InState(d, S)'
      /\ (\A i, j \in DOMAIN log[d] : EventAt(d, i) = EventAt(d, j) => i = j)
            => (\A i, j \in DOMAIN log'[d] : EventAt(d, i)' = EventAt(d, j)' => i = j)
  BY <1>1, <1>3, <1>4, <1>7, AppendedLog
<1>9. LogOK(d)'
  <2>1. \A i, j \in DOMAIN log'[d] : EventAt(d, i)' = EventAt(d, j)' => i = j
    BY <1>2, <1>8 DEF LogOK
  <2>2. \A e \in Logged(d)' : /\ request'[e].payload \in local'[d]
                              /\ request'[e].parents \subseteq Logged(d)'
    <3>1. \A e \in Logged(d) : /\ request'[e].payload \in local'[d]
                               /\ request'[e].parents \subseteq Logged(d)'
      BY <1>1, <1>2, <1>3, <1>4, <1>8, LogRows DEF LogOK
    <3>2. q.parents \subseteq Logged(d)
      BY DEF SendStep
    <3> QED BY <1>3, <1>4, <1>6, <1>8, <3>1, <3>2
  <2>3. call'[d] # NoEvent' => call'[d] \in Pending(d)'
    <3>1. call'[d] = n
      BY <1>1, <1>3 DEF EngineTypeOK
    <3> QED BY <1>8, <3>1 DEF Pending
  <2>4. remote'[d] # NoEvent' => remote'[d] \in Logged(d)' /\ IsDelivered(remote[d])'
    BY <1>1, <1>2, <1>3, <1>5, <1>8, WhatGrowthKeeps DEF LogOK, NoEvent
  <2> QED BY <2>1, <2>2, <2>3, <2>4 DEF LogOK
<1>10. RowsTrue(d)'
  <2>1. ASSUME NEW i \in DOMAIN log'[d]
        PROVE  RowSays(log[d][i].state, EventAt(d, i))'
    <3>1. PICK s, e : s = log'[d][i].state /\ e = EventAt(d, i)'
      OBVIOUS
    <3>2. RowSays(s, e)
      BY <1>2, <1>8, <3>1, RowsSay DEF RowSays
    <3>3. RowSays(s, e)'
      BY <1>1, <1>5, <3>2, SayingsStay
    <3> QED BY <3>1, <3>3 DEF RowSays, IsDelivered, Told
  <2> QED BY <2>1 DEF RowsTrue, RowSays
<1>11. HistoryOK(d)' /\ OwnHeads(d)' /\ RemoteOK(d)'
  BY <1>1, <1>2, <1>3, <1>5, HistoryKept, OwnHeadsKept, RemoteKept
<1>12. PulledOK(d)'
  BY <1>1, <1>2, <1>3, <1>5, <1>8, PulledKept
<1>13. DeviceInv(d)'
  BY <1>9, <1>10, <1>11, <1>12 DEF DeviceInv
<1>14. DocumentsOK'
  BY <1>3 DEF EngineInv, DocumentsOK
<1>15. Len(request') <= MaxEvents
  <2>1. Len(request') = Len(request) + 1
    BY <1>1, <1>3 DEF EngineTypeOK
  <2> QED BY <1>4, <2>1, SyncAssumption DEF SendStep
<1>16. \A e \in DOMAIN request' \ DOMAIN request : RequestOK(e)'
  BY <1>4, <1>6
<1>17. \A c \in Device \ {d} : Untouched(c) /\ call'[c] = call[c]
  BY <1>1, <1>3 DEF Untouched, EngineTypeOK
<1> QED BY <1>1, <1>3, <1>5, <1>13, <1>14, <1>15, <1>16, <1>17, DeviceStep

-----------------------------------------------------------------------------
(* Resend, Lose and Replace. *)

LEMMA StillGrows ==
    ASSUME UNCHANGED <<syncVars, document, request, answered>>
    PROVE  Grows
BY DEF Grows, syncVars, Held

LEMMA QuietRequests ==
    ASSUME EngineInv, UNCHANGED <<document, request>>
    PROVE  /\ DocumentsOK'
           /\ Len(request') <= MaxEvents
           /\ \A e \in DOMAIN request' \ DOMAIN request : RequestOK(e)'
BY DEF EngineInv, DocumentsOK

LEMMA CallInv ==
    ASSUME EngineInv, NEW d \in Device, Resend(d) \/ Lose(d) \/ Replace(d)
    PROVE  EngineInv'
<1>1. EngineTypeOK /\ EngineTypeOK'
  BY CallTypes DEF EngineInv
<1>2. /\ UNCHANGED <<syncVars, document, request, answered>>
      /\ local' = local /\ heads' = heads /\ log' = log
      /\ remote' = remote /\ cursor' = cursor
  BY DEF Resend, Lose, Replace, localVars, logVars
<1>3. /\ HistoryOK(d) /\ LogOK(d) /\ RowsTrue(d)
      /\ PulledOK(d) /\ OwnHeads(d) /\ RemoteOK(d)
  BY DEF EngineInv, DeviceInv
<1>4. \A c \in Device \ {d} : call'[c] = call[c]
  BY <1>1 DEF Resend, Lose, Replace, EngineTypeOK
<1>5. call'[d] # NoEvent => call'[d] \in Pending(d)
  <2>1. DOMAIN call = Device
    BY <1>1 DEF EngineTypeOK
  <2>2. CASE Resend(d)
    BY <2>1, <2>2 DEF Resend
  <2>3. CASE Lose(d)
    BY <2>1, <2>3 DEF Lose
  <2>4. CASE Replace(d)
    BY <1>3, <2>4 DEF Replace, LogOK
  <2> QED BY <2>2, <2>3, <2>4
<1>6. Grows
  BY <1>2, StillGrows
<1>7. \A c \in Device : Untouched(c)
  BY <1>2 DEF Untouched
<1>8. DeviceInv(d)'
  <2>1. (HistoryOK(d) /\ LogOK(d) /\ RowsTrue(d) /\ PulledOK(d) /\ OwnHeads(d))'
    BY <1>1, <1>3, <1>5, <1>6, <1>7, UntouchedKept
  <2>2. RemoteOK(d)'
    BY <1>2, <1>3, RemoteKept
  <2> QED BY <2>1, <2>2 DEF DeviceInv
<1> QED BY <1>1, <1>2, <1>4, <1>6, <1>7, <1>8, QuietRequests, DeviceStep

-----------------------------------------------------------------------------
(* Recover and Learn: a row is settled. *)

(* A row has one state. *)
LEMMA OneState ==
    ASSUME NEW d \in Device, LogOK(d), NEW S, NEW T, S \cap T = {},
           NEW e \in InState(d, S)
    PROVE  e \notin InState(d, T)
BY DEF LogOK, InState

LEMMA SettledDevice ==
    ASSUME EngineInv, EngineTypeOK', NEW d \in Device, NEW e,
           NEW state \in {"pending", "accepted", "conflict", "superseded",
                          "rejected", "failed"},
           log' = Settled(d, e, state),
           RowSays(state, e),
           e \in InState(d, {"accepted", "conflict"}) => state \in {"accepted", "conflict"},
           UNCHANGED <<syncVars, document, request, answered>>,
           local'[d] = local[d],
           NEW f, remote'[d] = f, f # NoEvent => f \in Logged(d) /\ IsDelivered(f),
           call'[d] # NoEvent => call'[d] \in Pending(d)'
    PROVE  (LogOK(d) /\ RowsTrue(d))' /\ (cursor'[d] = cursor[d] => PulledOK(d)')
<1>1. EngineTypeOK /\ Grows
  BY StillGrows DEF EngineInv
<1>2. LogOK(d) /\ RowsTrue(d) /\ PulledOK(d)
  BY DEF EngineInv, DeviceInv
<1>3. /\ Logged(d)' = Logged(d)
      /\ DOMAIN log'[d] = DOMAIN log[d]
      /\ \A i \in DOMAIN log[d] :
            /\ EventAt(d, i)' = EventAt(d, i)
            /\ \/ EventAt(d, i) = e /\ log'[d][i].state = state
               \/ EventAt(d, i) # e /\ log'[d][i].state = log[d][i].state
      /\ \A S : InState(d, S) \ {e} \subseteq InState(d, S)'
      /\ \A S : state \in S /\ e \in Logged(d) => e \in InState(d, S)'
  BY <1>1, SettledLog
<1>4. LogOK(d)'
  <2>1. \A i, j \in DOMAIN log'[d] : EventAt(d, i)' = EventAt(d, j)' => i = j
    BY <1>2, <1>3 DEF LogOK
  <2>2. \A x \in Logged(d)' : /\ request'[x].payload \in local'[d]
                              /\ request'[x].parents \subseteq Logged(d)'
    BY <1>2, <1>3 DEF LogOK
  <2>3. call'[d] # NoEvent' => call'[d] \in Pending(d)'
    BY DEF NoEvent
  <2>4. remote'[d] # NoEvent' => remote'[d] \in Logged(d)' /\ IsDelivered(remote[d])'
    <3>1. ASSUME f # NoEvent PROVE IsDelivered(f)'
      BY <1>1, <3>1, WhatGrowthKeeps
    <3>2. ASSUME f # NoEvent PROVE IsDelivered(remote[d])'
      BY <3>1, <3>2 DEF IsDelivered
    <3> QED BY <1>3, <3>2 DEF NoEvent
  <2> QED BY <2>1, <2>2, <2>3, <2>4 DEF LogOK
<1>5. RowsTrue(d)'
  <2>1. ASSUME NEW i \in DOMAIN log'[d]
        PROVE  RowSays(log[d][i].state, EventAt(d, i))'
    <3>1. PICK s, x : s = log'[d][i].state /\ x = EventAt(d, i)'
      OBVIOUS
    <3>2. RowSays(s, x)
      <4>1. RowSays(log[d][i].state, EventAt(d, i))
        BY <1>2, <1>3, <2>1, RowsSay
      <4> QED BY <1>3, <2>1, <3>1, <4>1
    <3>3. RowSays(s, x)'
      BY <1>1, <3>2, SayingsStay
    <3> QED BY <3>1, <3>3 DEF RowSays, IsDelivered, Told
  <2> QED BY <2>1 DEF RowsTrue, RowSays
<1>6. ASSUME cursor'[d] = cursor[d] PROVE PulledOK(d)'
  <2>1. InState(d, {"accepted", "conflict"}) \subseteq InState(d, {"accepted", "conflict"})'
    BY <1>3 DEF InState
  <2> QED BY <1>1, <1>2, <1>6, <2>1, PulledKept
<1> QED BY <1>4, <1>5, <1>6

LEMMA RecoverInv ==
    ASSUME EngineInv, NEW d \in Device, Recover(d)
    PROVE  EngineInv'
<1>1. EngineTypeOK /\ EngineTypeOK'
  BY RecoverTypes DEF EngineInv
<1>2. PICK e \in Pending(d) : log' = Settled(d, e, "failed")
  BY DEF Recover
<1>3. /\ UNCHANGED <<syncVars, document, request, answered>>
      /\ local' = local /\ heads' = heads
      /\ remote' = remote /\ cursor' = cursor /\ call' = call
      /\ call[d] = NoEvent
  BY DEF Recover, localVars, Idle
<1>4. /\ HistoryOK(d) /\ LogOK(d) /\ RowsTrue(d)
      /\ PulledOK(d) /\ OwnHeads(d) /\ RemoteOK(d)
  BY DEF EngineInv, DeviceInv
<1>5. Grows
  BY <1>3, StillGrows
<1>6. e \notin InState(d, {"accepted", "conflict"})
  BY <1>2, <1>4, OneState DEF Pending
<1>7. RowSays("failed", e)
  BY DEF RowSays
<1>8. remote[d] # NoEvent => remote[d] \in Logged(d) /\ IsDelivered(remote[d])
  BY <1>4 DEF LogOK
<1>9. (LogOK(d) /\ RowsTrue(d) /\ PulledOK(d))'
  BY <1>1, <1>2, <1>3, <1>6, <1>7, <1>8, SettledDevice
<1>10. (HistoryOK(d) /\ OwnHeads(d) /\ RemoteOK(d))'
  BY <1>1, <1>3, <1>4, <1>5, HistoryKept, OwnHeadsKept, RemoteKept
<1>11. DeviceInv(d)'
  BY <1>9, <1>10 DEF DeviceInv
<1>12. \A c \in Device \ {d} : Untouched(c) /\ call'[c] = call[c]
  BY <1>1, <1>2, <1>3, SettledRows DEF Untouched
<1> QED BY <1>1, <1>3, <1>5, <1>11, <1>12, QuietRequests, DeviceStep

(* What was accepted is in the stream. *)
LEMMA AcceptedIsDelivered ==
    ASSUME EngineTypeOK, AnswersOK, ReceiptsAreTrue, NEW e, Told(e, {"accepted"})
    PROVE  IsDelivered(e)
<1>1. PICK k \in DOMAIN answered : answered[k] = e /\ receipt[k].state = "accepted"
  BY DEF Told
<1>2. k \in DOMAIN receipt
  BY DEF AnswersOK, EngineTypeOK, LedgerTypeOK
<1>3. revision[receipt[k].revision].eventId = e
  BY <1>1, <1>2 DEF AnswersOK
<1>4. receipt[k].revision \in Delivered
  BY <1>1, <1>2 DEF ReceiptsAreTrue, Delivered
<1> QED BY <1>3, <1>4 DEF IsDelivered

(* Where the stream delivers an event. *)
LEMMA DeliveredAt ==
    ASSUME EngineTypeOK, NEW e
    PROVE  IsDelivered(e) <=> \E i \in 1 .. Len(stream) : StreamEvent(i) = e
<1>1. DOMAIN stream = 1 .. Len(stream)
  BY StreamFacts DEF EngineTypeOK
<1> QED BY <1>1 DEF IsDelivered, Delivered, StreamEvent

LEMMA LearnInv ==
    ASSUME EngineInv, NEW d \in Device, NEW state, LearnStep(d, state)
    PROVE  EngineInv'
<1>1. EngineTypeOK /\ EngineTypeOK'
  BY LearnTypes DEF EngineInv
<1>2. PICK e, f : e = call[d] /\ f = remote'[d]
  OBVIOUS
<1>3. /\ e # NoEvent
      /\ state \in {"accepted", "conflict", "rejected"}
      /\ Told(e, {state})
      /\ log' = Settled(d, e, state)
      /\ call' = [call EXCEPT ![d] = NoEvent]
      /\ UNCHANGED <<syncVars, document, request, answered>>
      /\ local' = local /\ heads' = heads /\ cursor' = cursor
  BY <1>2 DEF LearnStep, Idle, localVars
<1>4. /\ HistoryOK(d) /\ LogOK(d) /\ RowsTrue(d)
      /\ PulledOK(d) /\ OwnHeads(d) /\ RemoteOK(d)
      /\ AnswersOK /\ ReceiptsAreTrue
  BY DEF EngineInv, DeviceInv, LedgerInv
<1>5. Grows
  BY <1>3, StillGrows
<1>6. e \in Pending(d) /\ e \in Logged(d) /\ e \notin InState(d, {"accepted", "conflict"})
  <2>1. e \in Pending(d)
    BY <1>2, <1>3, <1>4 DEF LogOK
  <2> QED BY <1>4, <2>1, OneState DEF Pending, InState
<1>7. state = "accepted" => IsDelivered(e)
  BY <1>1, <1>3, <1>4, AcceptedIsDelivered
<1>8. RowSays(state, e)
  BY <1>3, <1>7 DEF RowSays
<1>9. f # NoEvent => f \in Logged(d) /\ IsDelivered(f)
  <2>1. f = remote[d] \/ (f = e /\ state = "accepted")
    BY <1>1, <1>2, AdvancedFacts DEF LearnStep, EngineTypeOK
  <2> QED BY <1>4, <1>6, <1>7, <2>1 DEF LogOK
<1>10. call'[d] = NoEvent
  BY <1>1, <1>3 DEF EngineTypeOK
<1>11. (LogOK(d) /\ RowsTrue(d) /\ PulledOK(d))'
  BY <1>1, <1>2, <1>3, <1>6, <1>8, <1>9, <1>10, SettledDevice
<1>12. (HistoryOK(d) /\ OwnHeads(d))'
  BY <1>1, <1>3, <1>4, <1>5, HistoryKept, OwnHeadsKept
<1>13. RemoteOK(d)'
  <2>1. CASE state = "accepted"
    <3>1. PICK i \in 1 .. Len(stream) : StreamEvent(i) = e
      BY <1>1, <1>7, <2>1, DeliveredAt
    <3>2. ~(i \in 1 .. cursor[d])
      BY <1>4, <1>6, <3>1 DEF PulledOK
    <3>3. cursor'[d] # Len(stream')
      BY <1>3, <3>1, <3>2 DEF syncVars
    <3> QED BY <3>3 DEF RemoteOK
  <2>2. CASE state # "accepted"
    <3>1. remote'[d] = remote[d]
      BY <2>2 DEF LearnStep
    <3> QED BY <1>3, <1>4, <3>1, RemoteKept
  <2> QED BY <2>1, <2>2
<1>14. DeviceInv(d)'
  BY <1>11, <1>12, <1>13 DEF DeviceInv
<1>15. \A c \in Device \ {d} : Untouched(c) /\ call'[c] = call[c]
  <2>1. \A c \in Device \ {d} : remote'[c] = remote[c]
    BY <1>1 DEF LearnStep, EngineTypeOK
  <2> QED BY <1>1, <1>3, <2>1, SettledRows DEF Untouched
<1> QED BY <1>1, <1>3, <1>5, <1>14, <1>15, QuietRequests, DeviceStep

-----------------------------------------------------------------------------
(* Pull. *)

(* Parents of a delivered event were delivered before it. *)
LEMMA ParentsBefore ==
    ASSUME EngineInv, NEW i \in 1 .. Len(stream)
    PROVE  /\ StreamEvent(i) \in DOMAIN request
           /\ \A p \in request[StreamEvent(i)].parents :
                 \E h \in 1 .. i - 1 : StreamEvent(h) = p
<1>1. EngineTypeOK /\ LedgerTypeOK /\ TablesOK /\ StreamApplicable
  BY DEF EngineInv, EngineTypeOK, LedgerInv
<1>2. stream[i] \in Held /\ Mirrors(stream[i])
  BY <1>1, StreamFacts DEF TablesOK
<1>3. \A q \in revision[stream[i]].parents : \E h \in 1 .. i - 1 : stream[h] = q
  BY <1>1, ApplicableIsAhead DEF ParentsAhead
<1>4. \A p \in request[StreamEvent(i)].parents :
         \E q \in revision[stream[i]].parents : revision[q].eventId = p
  BY <1>2 DEF Mirrors, StreamEvent
<1>5. StreamEvent(i) \in DOMAIN request
  BY <1>2 DEF Mirrors, StreamEvent
<1>6. ASSUME NEW p \in request[StreamEvent(i)].parents
      PROVE  \E h \in 1 .. i - 1 : StreamEvent(h) = p
  <2>1. PICK q \in revision[stream[i]].parents : revision[q].eventId = p
    BY <1>4
  <2>2. PICK h \in 1 .. i - 1 : stream[h] = q
    BY <1>3
  <2> QED BY <2>1, <2>2 DEF StreamEvent
<1> QED BY <1>5, <1>6

(* What the next event needs is there. *)
LEMMA NextApplies ==
    ASSUME EngineInv, NEW d \in Device, cursor[d] < Len(stream)
    PROVE  /\ request[NextEvent(d)].parents \subseteq Logged(d)
           /\ document[request[NextEvent(d)].payload] \subseteq local[d]
<1> DEFINE e == NextEvent(d)
<1>1. /\ EngineTypeOK /\ TablesOK /\ PulledOK(d) /\ LogOK(d)
  BY DEF EngineInv, DeviceInv
<1>2. cursor[d] \in Nat /\ cursor[d] + 1 \in 1 .. Len(stream)
  BY <1>1, NextIsRequest, StreamFacts DEF EngineTypeOK
<1>3. /\ e \in DOMAIN request
      /\ \A p \in request[e].parents : \E h \in 1 .. (cursor[d] + 1) - 1 : StreamEvent(h) = p
  BY <1>2, ParentsBefore DEF NextEvent
<1> HIDE DEF e
<1>4. \A p \in request[e].parents : p \in Logged(d)
  BY <1>1, <1>2, <1>3 DEF PulledOK, InState
<1>5. \A q \in document[request[e].payload] : q \in local[d]
  <2>1. RequestOK(e)
    BY <1>3 DEF EngineInv
  <2> QED BY <1>1, <1>4, <2>1 DEF RequestOK, LogOK
<1> QED BY <1>4, <1>5 DEF e

(* The last event of the stream becomes the remote head. *)
LEMMA AdvancedToLast ==
    ASSUME EngineInv, NEW d \in Device, cursor[d] < Len(stream), NEW L,
           Logged(d) \subseteq L, cursor[d] + 1 = Len(stream)
    PROVE  Advanced(d, L, NextEvent(d)) = NextEvent(d)
<1> DEFINE e == NextEvent(d)
           n == Len(stream)
           W == Lineage(RemoteParents, remote[d])
           C == {StreamEvent(i) : i \in 1 .. n - 1}
<1>1. EngineTypeOK /\ LogOK(d) /\ StreamUnique
  BY DEF EngineInv, DeviceInv, LedgerInv
<1>2. n \in Nat /\ n > 0 /\ DOMAIN stream = 1 .. n
  BY <1>1, StreamFacts DEF EngineTypeOK
<1>3. e = StreamEvent(n)
  BY DEF NextEvent
<1>4. \A i \in 1 .. n - 1 : StreamEvent(i) # e
  <2>1. ASSUME NEW i \in 1 .. n - 1 PROVE StreamEvent(i) # e
    <3>0. i \in 1 .. n /\ n \in 1 .. n /\ i # n
      <4> HIDE DEF n
      <4> QED BY <1>2
    <3>1. i \in DOMAIN stream /\ n \in DOMAIN stream /\ i # n
      BY <1>2, <3>0
    <3>2. revision[stream[i]].eventId # revision[stream[n]].eventId
      BY <1>1, <3>1 DEF StreamUnique
    <3> QED BY <1>3, <3>2 DEF StreamEvent
  <2> QED BY <2>1
<1>5. CASE remote[d] = NoEvent \/ remote[d] = e
  BY <1>5 DEF Advanced
<1>6. CASE remote[d] # NoEvent /\ remote[d] # e
  <2>1. remote[d] \in Logged(d) /\ remote[d] \in DOMAIN request
    BY <1>1, <1>6, LogRows DEF LogOK
  <2>2. RemoteParents \in [DOMAIN request -> SUBSET DOMAIN request]
    BY <1>1, RequestFields DEF RemoteParents
  <2>3. \A x \in DOMAIN request : RemoteParents[x] = request[x].parents
    BY DEF RemoteParents
  <2>4. W \subseteq Logged(d)
    <3>1. Logged(d) \in SUBSET DOMAIN request
      BY <1>1, LogRows
    <3>2. \A x \in Logged(d) : RemoteParents[x] \subseteq Logged(d)
      BY <1>1, <2>3, <3>1 DEF LogOK
    <3> QED BY <2>1, <2>2, <3>1, <3>2, LineageWithin
  <2>5. W \subseteq C
    <3>1. \A i \in 1 .. n - 1 :
             /\ StreamEvent(i) \in DOMAIN request
             /\ \A p \in request[StreamEvent(i)].parents : p \in C
      <4>1. ASSUME NEW i \in 1 .. n - 1
            PROVE  /\ StreamEvent(i) \in DOMAIN request
                   /\ \A p \in request[StreamEvent(i)].parents : p \in C
        <5>1. i \in 1 .. n /\ 1 .. i - 1 \subseteq 1 .. n - 1
          BY <1>2
        <5>2. /\ StreamEvent(i) \in DOMAIN request
              /\ \A p \in request[StreamEvent(i)].parents :
                    \E h \in 1 .. i - 1 : StreamEvent(h) = p
          BY <5>1, ParentsBefore
        <5> QED BY <5>1, <5>2
      <4> QED BY <4>1
    <3>2. C \in SUBSET DOMAIN request /\ \A x \in C : RemoteParents[x] \subseteq C
      BY <2>3, <3>1
    <3>3. remote[d] \in C
      <4>1. IsDelivered(remote[d])
        BY <1>1, <1>6 DEF LogOK
      <4>2. PICK i \in 1 .. n : StreamEvent(i) = remote[d]
        BY <1>1, <4>1, DeliveredAt
      <4>3. i \in 1 .. n - 1
        BY <1>2, <1>3, <1>6, <4>2
      <4> QED BY <4>2, <4>3
    <3> HIDE DEF C
    <3> QED BY <2>1, <2>2, <3>2, <3>3, LineageWithin
  <2>6. e \notin W
    BY <1>4, <2>5
  <2>7. Advanced(d, L, e) = e
    BY <2>4, <2>6 DEF Advanced
  <2> QED BY <2>7
<1> QED BY <1>5, <1>6

LEMMA PullRemote ==
    ASSUME EngineInv, NEW d \in Device, Pull(d)
    PROVE  /\ remote'[d] \in {remote[d], NextEvent(d)}
           /\ RemoteOK(d)'
<1> DEFINE e == NextEvent(d)
<1>1. EngineTypeOK /\ TablesOK /\ HeadsMatchStream
  BY DEF EngineInv, LedgerInv
<1>2. cursor[d] < Len(stream) /\ UNCHANGED syncVars /\ cursor'[d] = cursor[d] + 1
  BY <1>1 DEF Pull, EngineTypeOK
<1>3. PICK L : Logged(d) \subseteq L /\ remote' = [remote EXCEPT ![d] = Advanced(d, L, e)]
  BY DEF Pull, Replay, Receive
<1>4. remote'[d] = Advanced(d, L, e)
  BY <1>1, <1>3 DEF EngineTypeOK
<1>5. ASSUME cursor'[d] = Len(stream') PROVE remote'[d] = HeadEvent'
  <2>1. cursor[d] + 1 = Len(stream)
    BY <1>2, <1>5 DEF syncVars
  <2>2. remote'[d] = NextEvent(d)
    BY <1>2, <1>3, <1>4, <2>1, AdvancedToLast
  <2>3. /\ head[Passport] = stream[Len(stream)]
        /\ head[Passport] # NoRevision
    BY <1>1, <1>2, HeadFacts DEF EngineTypeOK
  <2>4. NextEvent(d) = HeadEvent
    BY <2>1, <2>3 DEF NextEvent, StreamEvent, HeadEvent
  <2>5. HeadEvent' = HeadEvent
    BY <1>2 DEF HeadEvent, syncVars, NoRevision, NoEvent
  <2> QED BY <2>2, <2>4, <2>5
<1>6. RemoteOK(d)'
  BY <1>5 DEF RemoteOK
<1>7. remote'[d] \in {remote[d], e}
  BY <1>4, AdvancedFacts
<1> QED BY <1>6, <1>7

LEMMA PullShape ==
    ASSUME EngineInv, NEW d \in Device, Pull(d)
    PROVE  /\ UNCHANGED <<syncVars, document, request, answered>>
           /\ Grows
           /\ call' = call /\ call[d] = NoEvent
           /\ cursor[d] < Len(stream) /\ cursor[d] \in Nat
           /\ cursor'[d] = cursor[d] + 1
           /\ \A i \in 1 .. cursor'[d] : StreamEvent(i)' = StreamEvent(i)
           /\ \A i \in 1 .. cursor'[d] : i \in 1 .. cursor[d] \/ StreamEvent(i) = NextEvent(d)
<1>1. EngineTypeOK
  BY DEF EngineInv
<1>2. /\ UNCHANGED <<syncVars, document, request, answered>>
      /\ call' = call /\ call[d] = NoEvent /\ cursor[d] < Len(stream)
  BY DEF Pull, Replay, Receive, localVars, Idle
<1>3. cursor' = [cursor EXCEPT ![d] = @ + 1]
  BY DEF Pull
<1>4. cursor[d] \in Nat /\ cursor'[d] = cursor[d] + 1
  BY <1>1, <1>3 DEF EngineTypeOK
<1>5. \A i : StreamEvent(i)' = StreamEvent(i)
  BY <1>2 DEF syncVars, StreamEvent
<1>6. \A i \in 1 .. cursor'[d] : i \in 1 .. cursor[d] \/ i = cursor[d] + 1
  BY <1>4
<1> QED BY <1>2, <1>4, <1>5, <1>6, StillGrows DEF NextEvent

LEMMA PulledMore ==
    ASSUME EngineInv, NEW d \in Device, Pull(d),
           InState(d, {"accepted", "conflict"}) \subseteq InState(d, {"accepted", "conflict"})',
           NextEvent(d) \in InState(d, {"accepted", "conflict"})'
    PROVE  PulledOK(d)'
<1>1. \A i \in 1 .. cursor'[d] :
         StreamEvent(i) \in InState(d, {"accepted", "conflict"}) \/ StreamEvent(i) = NextEvent(d)
  BY PullShape DEF EngineInv, DeviceInv, PulledOK
<1>2. \A i \in 1 .. cursor'[d] : StreamEvent(i)' \in InState(d, {"accepted", "conflict"})'
  BY <1>1, PullShape
<1> QED BY <1>2 DEF PulledOK

LEMMA OwnHeadsMore ==
    ASSUME EngineInv, NEW d \in Device, Pull(d),
           heads'[d] \subseteq heads[d] \cup {request[NextEvent(d)].payload}
    PROVE  OwnHeads(d)'
<1>1. PICK x : \A h \in heads[d] :
         h = x \/ \E i \in 1 .. cursor[d] : request[StreamEvent(i)].payload = h
  BY DEF EngineInv, DeviceInv, OwnHeads
<1>2. /\ \A i \in 1 .. cursor[d] : i \in 1 .. cursor'[d]
      /\ cursor'[d] \in 1 .. cursor'[d]
      /\ StreamEvent(cursor'[d]) = NextEvent(d)
  BY PullShape DEF NextEvent
<1>3. \A h \in heads'[d] :
         h = x \/ \E i \in 1 .. cursor'[d] : request[StreamEvent(i)].payload = h
  BY <1>1, <1>2
<1>4. \A i \in 1 .. cursor'[d] : request'[StreamEvent(i)'] = request[StreamEvent(i)]
  BY PullShape
<1>5. \A h \in heads'[d] :
         h = x \/ \E i \in 1 .. cursor'[d] : request'[StreamEvent(i)'].payload = h
  BY <1>3, <1>4
<1> QED BY <1>5 DEF OwnHeads

(* A delivered event was not rejected. *)
LEMMA DeliveredIsKept ==
    ASSUME EngineInv, NEW e, IsDelivered(e)
    PROVE  Kept(e) /\ ~Told(e, {"rejected"})
<1>1. PICK k \in DOMAIN answered :
         answered[k] = e /\ receipt[k].state \in {"accepted", "conflict"}
  BY DEF EngineInv, DeliveredOK, IsDelivered, Kept, Told
<1>2. ASSUME NEW j \in DOMAIN answered, answered[j] = e
      PROVE  receipt[j].state # "rejected"
  BY <1>1, <1>2 DEF EngineInv, AnswersOK
<1> QED BY <1>1, <1>2 DEF Kept, Told

LEMMA ReplayInv ==
    ASSUME EngineInv, NEW d \in Device, Pull(d), Replay(d, NextEvent(d))
    PROVE  DeviceInv(d)'
<1>0. PICK e, f : e = NextEvent(d) /\ f = remote'[d]
  OBVIOUS
<1>1. EngineTypeOK /\ EngineTypeOK'
  BY PullTypes DEF EngineInv
<1>2. /\ HistoryOK(d) /\ LogOK(d) /\ RowsTrue(d) /\ PulledOK(d)
  BY DEF EngineInv, DeviceInv
<1>3. /\ UNCHANGED <<syncVars, document, request, answered>>
      /\ Grows
      /\ call' = call /\ call[d] = NoEvent
  BY PullShape
<1>4. /\ e \in Logged(d)
      /\ log' = IF e \in InState(d, Unsettled) THEN Settled(d, e, "accepted") ELSE log
      /\ local' = local /\ heads' = heads /\ document' = document
  BY <1>0 DEF Replay, localVars
<1>5. IsDelivered(e)
  BY <1>0, <1>1, PullShape, NextIsRequest DEF IsDelivered, EngineInv
<1>6. f # NoEvent => f \in Logged(d) /\ IsDelivered(f)
  <2>1. f = remote[d] \/ f = e
    BY <1>0, PullRemote
  <2> QED BY <1>2, <1>4, <1>5, <2>1 DEF LogOK
<1>7. (LogOK(d) /\ RowsTrue(d) /\ PulledOK(d))'
  <2>1. CASE log' = Settled(d, e, "accepted")
    <3>1. RowSays("accepted", e)
      BY <1>5 DEF RowSays
    <3>2. (LogOK(d) /\ RowsTrue(d))'
      BY <1>0, <1>1, <1>3, <1>4, <1>6, <2>1, <3>1, SettledDevice
    <3>3. /\ \A S : InState(d, S) \ {e} \subseteq InState(d, S)'
          /\ \A S : "accepted" \in S /\ e \in Logged(d) => e \in InState(d, S)'
      BY <1>1, <2>1, SettledLog
    <3>4. PulledOK(d)'
      BY <1>0, <1>4, <3>3, PulledMore
    <3> QED BY <3>2, <3>4
  <2>2. CASE log' = log /\ e \notin InState(d, Unsettled)
    <3>1. (LogOK(d) /\ RowsTrue(d))'
      BY <1>0, <1>1, <1>2, <1>3, <1>4, <1>6, <2>2, RowsKept
    <3>2. PICK i \in DOMAIN log[d] : EventAt(d, i) = e
      BY <1>4 DEF Logged
    <3>3. log[d][i].state \in {"accepted", "conflict"}
      <4>1. RowSays(log[d][i].state, e)
        BY <1>2, <3>2, RowsSay
      <4>2. log[d][i].state \notin {"superseded", "rejected"}
        BY <1>5, <4>1, DeliveredIsKept DEF RowSays
      <4>3. log[d][i].state \notin {"pending", "failed"}
        BY <1>4, <2>2, <3>2 DEF InState, Unsettled
      <4> QED BY <1>1, <4>2, <4>3, LogRows
    <3>4. e \in InState(d, {"accepted", "conflict"})
      BY <1>4, <3>2, <3>3 DEF InState
    <3>5. \A S : InState(d, S)' = InState(d, S)
      BY <2>2, LoggedKept
    <3>6. PulledOK(d)'
      BY <1>0, <3>4, <3>5, PulledMore
    <3> QED BY <3>1, <3>6
  <2> QED BY <1>4, <2>1, <2>2
<1>8. HistoryOK(d)'
  BY <1>1, <1>2, <1>3, <1>4, HistoryKept
<1>9. OwnHeads(d)'
  BY <1>4, OwnHeadsMore
<1>10. RemoteOK(d)'
  BY PullRemote
<1> QED BY <1>7, <1>8, <1>9, <1>10 DEF DeviceInv

LEMMA ReceiveHistory ==
    ASSUME EngineInv, NEW d \in Device, Pull(d), Receive(d, NextEvent(d))
    PROVE  HistoryOK(d)' /\ OwnHeads(d)'
<1>0. PICK e, r : e = NextEvent(d) /\ r = request[e].payload
  OBVIOUS
<1>1. /\ EngineTypeOK
      /\ document' = document
  BY DEF EngineInv, Receive
<1>2. /\ local' = [local EXCEPT ![d] = @ \cup {r}]
      /\ heads' = IF r \in local[d] THEN heads
                  ELSE [heads EXCEPT ![d] = (@ \ document[r]) \cup {r}]
  BY <1>0 DEF Receive
<1>3. /\ local'[d] = local[d] \cup {r}
      /\ r \in local[d] => heads'[d] = heads[d]
      /\ r \notin local[d] => heads'[d] = (heads[d] \ document[r]) \cup {r}
  BY <1>1, <1>2 DEF EngineTypeOK
<1>4. /\ \A s \in local[d] : document[s] \subseteq local[d]
      /\ heads[d] = {s \in local[d] : \A t \in local[d] : s \notin document[t]}
  BY DEF EngineInv, DeviceInv, HistoryOK
<1>5. document[r] \subseteq local[d]
  BY <1>0, PullShape, NextApplies
<1>6. \A s \in local'[d] : document'[s] \subseteq local'[d]
  BY <1>1, <1>3, <1>4, <1>5
<1>7. heads'[d] = {s \in local'[d] : \A t \in local'[d] : s \notin document'[t]}
  <2>1. CASE r \in local[d]
    <3>1. local'[d] = local[d]
      BY <1>3, <2>1
    <3> QED BY <1>1, <1>3, <1>4, <2>1, <3>1
  <2>2. CASE r \notin local[d]
    <3>1. \A s \in local'[d] :
             s \in heads'[d] <=> \A t \in local'[d] : s \notin document[t]
      BY <1>3, <1>4, <1>5, <2>2
    <3>2. heads'[d] \subseteq local'[d]
      BY <1>3, <1>4, <2>2
    <3> QED BY <1>1, <3>1, <3>2
  <2> QED BY <2>1, <2>2
<1>8. OwnHeads(d)'
  BY <1>0, <1>3, OwnHeadsMore
<1> QED BY <1>6, <1>7, <1>8 DEF HistoryOK

LEMMA ReceiveInv ==
    ASSUME EngineInv, NEW d \in Device, Pull(d), Receive(d, NextEvent(d))
    PROVE  DeviceInv(d)'
<1>0. PICK e, f : e = NextEvent(d) /\ f = remote'[d]
  OBVIOUS
<1>1. EngineTypeOK /\ EngineTypeOK'
  BY PullTypes DEF EngineInv
<1>2. /\ LogOK(d) /\ RowsTrue(d) /\ PulledOK(d)
  BY DEF EngineInv, DeviceInv
<1>3. /\ UNCHANGED <<syncVars, document, request, answered>>
      /\ Grows
      /\ call' = call /\ call[d] = NoEvent
  BY PullShape
<1>4. /\ e \notin Logged(d)
      /\ local' = [local EXCEPT ![d] = @ \cup {request[e].payload}]
      /\ log' = [log EXCEPT ![d] = Append(@, [event |-> e, state |-> "accepted"])]
  BY <1>0 DEF Receive
<1>5. IsDelivered(e) /\ e \in DOMAIN request /\ e \in DOMAIN request'
  BY <1>0, <1>1, <1>3, PullShape, NextIsRequest DEF IsDelivered, EngineInv
<1>6. local'[d] = local[d] \cup {request[e].payload}
  BY <1>1, <1>4 DEF EngineTypeOK
<1>7. /\ Logged(d)' = Logged(d) \cup {e}
      /\ \A i \in DOMAIN log'[d] :
            \/ /\ i \in DOMAIN log[d]
               /\ log'[d][i] = log[d][i]
               /\ EventAt(d, i)' = EventAt(d, i)
            \/ EventAt(d, i)' = e /\ log'[d][i].state = "accepted"
      /\ \A S : InState(d, S) \subseteq InState(d, S)'
      /\ \A S : "accepted" \in S => e \in InState(d, S)'
      /\ (\A i, j \in DOMAIN log[d] : EventAt(d, i) = EventAt(d, j) => i = j)
            => (\A i, j \in DOMAIN log'[d] : EventAt(d, i)' = EventAt(d, j)' => i = j)
  BY <1>1, <1>4, <1>5, AppendedLog
<1>8. LogOK(d)'
  <2>1. \A i, j \in DOMAIN log'[d] : EventAt(d, i)' = EventAt(d, j)' => i = j
    BY <1>2, <1>7 DEF LogOK
  <2>2. \A x \in Logged(d)' : /\ request'[x].payload \in local'[d]
                              /\ request'[x].parents \subseteq Logged(d)'
    <3>1. request[e].parents \subseteq Logged(d)
      BY <1>0, PullShape, NextApplies
    <3> QED BY <1>2, <1>3, <1>6, <1>7, <3>1 DEF LogOK
  <2>3. call'[d] # NoEvent' => call'[d] \in Pending(d)'
    BY <1>3 DEF NoEvent
  <2>4. f # NoEvent => f \in Logged(d)' /\ IsDelivered(f)
    <3>1. f = remote[d] \/ f = e
      BY <1>0, PullRemote
    <3> QED BY <1>2, <1>5, <1>7, <3>1 DEF LogOK
  <2>5. remote'[d] # NoEvent' => remote'[d] \in Logged(d)' /\ IsDelivered(remote[d])'
    <3>1. IsDelivered(f) => IsDelivered(remote[d])'
      BY <1>0, <1>1, <1>3, WhatGrowthKeeps DEF IsDelivered
    <3> QED BY <1>0, <2>4, <3>1 DEF NoEvent
  <2> QED BY <2>1, <2>2, <2>3, <2>5 DEF LogOK
<1>9. RowsTrue(d)'
  <2>1. ASSUME NEW i \in DOMAIN log'[d]
        PROVE  RowSays(log[d][i].state, EventAt(d, i))'
    <3>1. PICK s, x : s = log'[d][i].state /\ x = EventAt(d, i)'
      OBVIOUS
    <3>2. RowSays(s, x)
      BY <1>2, <1>5, <1>7, <3>1, RowsSay DEF RowSays
    <3>3. RowSays(s, x)'
      BY <1>1, <1>3, <3>2, SayingsStay
    <3> QED BY <3>1, <3>3 DEF RowSays, IsDelivered, Told
  <2> QED BY <2>1 DEF RowsTrue, RowSays
<1>10. PulledOK(d)'
  BY <1>0, <1>7, PulledMore
<1>11. RemoteOK(d)'
  BY PullRemote
<1> QED BY <1>8, <1>9, <1>10, <1>11, ReceiveHistory DEF DeviceInv

LEMMA PullInv ==
    ASSUME EngineInv, NEW d \in Device, Pull(d)
    PROVE  EngineInv'
<1>1. EngineTypeOK /\ EngineTypeOK'
  BY PullTypes DEF EngineInv
<1>2. DeviceInv(d)'
  BY ReplayInv, ReceiveInv DEF Pull
<1>3. \A c \in Device \ {d} : Untouched(c) /\ call'[c] = call[c]
  BY <1>1 DEF Pull, Replay, Receive, Settled, localVars, Untouched, EngineTypeOK
<1> QED BY <1>1, <1>2, <1>3, PullShape, QuietRequests, DeviceStep

-----------------------------------------------------------------------------
(* Serve. *)

(* What the ledger stores of a request names the revisions of its parents. *)
LEMMA PostedParents ==
    ASSUME EngineTypeOK, NEW e \in DOMAIN request, NEW c, ServeStep(e, c), KnownParents(c)
    PROVE  /\ c.parents \subseteq Held
           /\ \A r \in c.parents : revision[r].eventId \in request[e].parents
           /\ \A p \in request[e].parents :
                 \E r \in c.parents : revision[r].eventId = p
<1>1. c.parents = {RevisionOf(p) : p \in request[e].parents}
  BY DEF ServeStep
<1>2. c.parents \subseteq Held
  BY DEF KnownParents
<1>3. ASSUME NEW p \in request[e].parents
      PROVE  RevisionOf(p) \in c.parents /\ revision[RevisionOf(p)].eventId = p
  <2>1. p # NoEvent
    BY RequestFields DEF EngineTypeOK, NoEvent
  <2> QED BY <1>1, <1>2, <2>1, RevisionOfFacts
<1> QED BY <1>1, <1>2, <1>3

Accepts(c) == \E x \in BOOLEAN : Accept(c, x)

(* The receipt, and the revision it is about. *)
LEMMA ServeReceipt ==
    ASSUME EngineInv, NEW e \in DOMAIN request, NEW c, ServeStep(e, c), LedgerNext
    PROVE  \E a :
              /\ receipt' = Append(receipt, a)
              /\ a.state \in {"accepted", "conflict", "rejected"}
              /\ a.state # "rejected" => /\ a.revision \in Held'
                                         /\ revision'[a.revision].eventId = e
              /\ Accepts(c) => a.state = "accepted"
<1>1. LedgerTypeOK /\ c \in Content /\ c.eventId = e
  BY DEF EngineInv, LedgerInv, ServeStep
<1>2. ASSUME Accepts(c)
      PROVE  \E a :
              /\ receipt' = Append(receipt, a)
              /\ a.state = "accepted"
              /\ a.revision \in Held'
              /\ revision'[a.revision].eventId = e
  <2>1. PICK x \in BOOLEAN : Accept(c, x)
    BY <1>2 DEF Accepts
  <2>2. revision'[New] = c /\ New \in Held'
    BY <1>1, <2>1, AcceptFacts
  <2>3. PICK a : a = Answer("accepted", New, Len(stream'))
    OBVIOUS
  <2>4. receipt' = Append(receipt, a)
    BY <2>1, <2>3 DEF Accept, Answers
  <2>5. a.state = "accepted" /\ a.revision = New
    BY <2>3, AnswerFields
  <2> QED BY <1>1, <2>2, <2>4, <2>5
<1>3. ASSUME Rejects
      PROVE  \E a : receipt' = Append(receipt, a) /\ a.state = "rejected"
  <2>1. PICK a : a = Answer("rejected", NoRevision, 0)
    OBVIOUS
  <2>2. receipt' = Append(receipt, a) /\ a.state = "rejected"
    BY <1>3, <2>1, AnswerFields DEF Rejects, Answers
  <2> QED BY <2>2
<1>4. ASSUME KnownParents(c), Retains(c), Answers(Answer("conflict", New, 0))
      PROVE  \E a :
              /\ receipt' = Append(receipt, a)
              /\ a.state = "conflict"
              /\ a.revision \in Held'
              /\ revision'[a.revision].eventId = e
  <2>1. revision'[New] = c /\ New \in Held'
    BY <1>1, <1>4, RetainsShape
  <2>2. PICK a : a = Answer("conflict", New, 0)
    OBVIOUS
  <2>3. receipt' = Append(receipt, a) /\ a.state = "conflict" /\ a.revision = New
    BY <1>4, <2>2, AnswerFields DEF Answers
  <2> QED BY <1>1, <2>1, <2>3
<1>5. CASE Accepts(c)
  BY <1>2, <1>5
<1>6. CASE ~Accepts(c)
  BY <1>3, <1>4, <1>6 DEF ServeStep, Accepts
<1> QED BY <1>5, <1>6

LEMMA ServeKinds ==
    ASSUME EngineInv, NEW e \in DOMAIN request, NEW c, ServeStep(e, c)
    PROVE  /\ Stores \/ \E x \in BOOLEAN : Accept(c, x)
           /\ c \in Content /\ LedgerTypeOK
           /\ \/ UNCHANGED revision
              \/ KnownParents(c) /\ Retains(c)
BY DEF ServeStep, Stores, Accept, Admissible, EngineInv, LedgerInv

(* The answer under a new key. *)
GivesAnswer(e, c, k, a) ==
    /\ DOMAIN answered = DOMAIN receipt
    /\ k \notin DOMAIN answered
    /\ DOMAIN answered' = DOMAIN answered \cup {k}
    /\ DOMAIN receipt' = DOMAIN receipt \cup {k}
    /\ Len(answered') = Len(receipt')
    /\ answered'[k] = e /\ receipt'[k] = a
    /\ a.state \in {"accepted", "conflict", "rejected"}
    /\ a.state # "rejected" => /\ a.revision \in Held'
                               /\ revision'[a.revision].eventId = e
    /\ Accepts(c) => a.state = "accepted"

LEMMA ServeGrows ==
    ASSUME EngineInv, NEW e \in DOMAIN request, NEW c, ServeStep(e, c), LedgerNext
    PROVE  /\ Grows
           /\ UNCHANGED <<document, local, heads, log, remote, cursor, request, call>>
           /\ \E k, a : GivesAnswer(e, c, k, a)
<1>1. LedgerTypeOK /\ EngineTypeOK /\ AnswersOK
  BY DEF EngineInv, LedgerInv
<1>2. PICK a : /\ receipt' = Append(receipt, a)
               /\ a.state \in {"accepted", "conflict", "rejected"}
               /\ a.state # "rejected" => /\ a.revision \in Held'
                                          /\ revision'[a.revision].eventId = e
               /\ Accepts(c) => a.state = "accepted"
  BY ServeReceipt
<1>3. PICK k : k = Len(answered) + 1
  OBVIOUS
<1>4. /\ DOMAIN answered = DOMAIN receipt
      /\ k \notin DOMAIN answered
      /\ DOMAIN receipt' = DOMAIN receipt \cup {k}
      /\ Len(receipt') = k
      /\ receipt'[k] = a
      /\ \A j \in DOMAIN receipt : receipt'[j] = receipt[j]
  BY <1>1, <1>2, <1>3 DEF AnswersOK, EngineTypeOK, LedgerTypeOK
<1>5. answered' = Append(answered, e) /\ answered \in Seq(DOMAIN request)
  BY <1>1 DEF ServeStep, EngineTypeOK
<1>6. /\ DOMAIN answered' = DOMAIN answered \cup {k}
      /\ Len(answered') = k
      /\ answered'[k] = e
      /\ \A j \in DOMAIN answered : answered'[j] = answered[j]
  BY <1>3, <1>5
<1>7. UNCHANGED <<document, local, heads, log, remote, cursor, request, call>>
  BY DEF ServeStep, deviceVars, localVars, logVars
<1>8. Held \subseteq Held' /\ \A r \in Held : revision'[r] = revision[r]
  BY ServeKinds, HeldKept
<1>9. \A i \in DOMAIN stream : i \in DOMAIN stream' /\ stream'[i] = stream[i]
  <2>1. CASE Stores
    BY <2>1 DEF Stores
  <2>2. ASSUME NEW x \in BOOLEAN, Accept(c, x)
        PROVE  \A i \in DOMAIN stream : i \in DOMAIN stream' /\ stream'[i] = stream[i]
    BY <2>2, ServeKinds, BehindIsOfEntity
  <2> QED BY <2>1, <2>2, ServeKinds
<1>10. Grows
  BY <1>4, <1>6, <1>7, <1>8, <1>9 DEF Grows
<1>11. GivesAnswer(e, c, k, a)
  BY <1>2, <1>4, <1>6 DEF GivesAnswer
<1> QED BY <1>7, <1>10, <1>11

LEMMA ServeAnswers ==
    ASSUME EngineInv, NEW e \in DOMAIN request, NEW c, ServeStep(e, c), LedgerNext
    PROVE  AnswersOK'
<1>1. AnswersOK /\ Grows /\ \A k \in DOMAIN answered : answered[k] # e
  BY ServeGrows DEF EngineInv, ServeStep
<1>2. PICK k, a : GivesAnswer(e, c, k, a)
  BY ServeGrows
<1>3. \A i, j \in DOMAIN answered' : answered'[i] = answered'[j] => i = j
  BY <1>1, <1>2 DEF GivesAnswer, AnswersOK, Grows
<1>4. \A j \in DOMAIN receipt' :
         /\ receipt'[j].state \in {"accepted", "conflict", "rejected"}
         /\ receipt'[j].state # "rejected"
               => /\ receipt'[j].revision \in Held'
                  /\ revision'[receipt'[j].revision].eventId = answered'[j]
  <2>1. ASSUME NEW j \in DOMAIN receipt
        PROVE  /\ receipt'[j].state \in {"accepted", "conflict", "rejected"}
               /\ receipt'[j].state # "rejected"
                     => /\ receipt'[j].revision \in Held'
                        /\ revision'[receipt'[j].revision].eventId = answered'[j]
    BY <1>1, <1>2 DEF GivesAnswer, AnswersOK, Grows
  <2> QED BY <1>2, <2>1 DEF GivesAnswer
<1> QED BY <1>2, <1>3, <1>4 DEF GivesAnswer, AnswersOK

LEMMA ServeTables ==
    ASSUME EngineInv, NEW e \in DOMAIN request, NEW c, ServeStep(e, c), LedgerNext
    PROVE  TablesOK'
<1>1. TablesOK /\ EngineTypeOK /\ Grows /\ \A k \in DOMAIN answered : answered[k] # e
  BY ServeGrows DEF EngineInv, ServeStep
<1>2. PICK k : /\ DOMAIN answered' = DOMAIN answered \cup {k}
               /\ answered'[k] = e
  <2>1. PICK k, a : GivesAnswer(e, c, k, a)
    BY ServeGrows
  <2> QED BY <2>1 DEF GivesAnswer
<1>3. ASSUME NEW r \in Held PROVE Mirrors(r)'
  <2>1. Mirrors(r) /\ revision'[r] = revision[r]
    BY <1>1 DEF TablesOK, Grows
  <2>2. \A p \in revision[r].parents : revision'[p] = revision[p]
    BY <1>1, ParentsAreHeld DEF Grows, EngineTypeOK
  <2> QED BY <1>1, <2>1, <2>2 DEF Mirrors, Grows
<1>4. \A r \in Held : revision'[r].eventId # e
  BY <1>1 DEF TablesOK, Mirrors, Grows
<1>5. CASE UNCHANGED revision
  <2>1. Held' = Held
    BY <1>5 DEF Held
  <2> QED BY <1>1, <1>3, <1>5, <2>1 DEF TablesOK
<1>6. CASE KnownParents(c) /\ Retains(c)
  <2>1. /\ Held' = Held \cup {New}
        /\ revision'[New] = c
        /\ \A r \in Held : revision'[r] = revision[r]
    BY <1>6, ServeKinds, RetainsShape
  <2>2. /\ c.parents \subseteq Held
        /\ \A r \in c.parents : revision[r].eventId \in request[e].parents
        /\ \A p \in request[e].parents : \E r \in c.parents : revision[r].eventId = p
        /\ c.entity = Passport /\ c.eventId = e
    BY <1>1, <1>6, PostedParents DEF ServeStep
  <2>3. PICK n : n = New
    OBVIOUS
  <2>4. Mirrors(n)'
    <3>1. revision'[n] = c /\ request'[e] = request[e] /\ e \in DOMAIN request'
      BY <1>1, <2>1, <2>3 DEF Grows
    <3> QED BY <1>2, <2>1, <2>2, <3>1 DEF Mirrors
  <2>5. \A r, s \in Held' : revision'[r].eventId = revision'[s].eventId => r = s
    BY <1>1, <1>4, <2>1, <2>2 DEF TablesOK
  <2>6. \A r \in Held' : Mirrors(r)'
    BY <1>3, <2>1, <2>3, <2>4
  <2> QED BY <2>5, <2>6 DEF TablesOK
<1> QED BY <1>5, <1>6, ServeKinds

LEMMA AcceptDelivers ==
    ASSUME LedgerTypeOK, NEW c \in Content, NEW x \in BOOLEAN, Accept(c, x)
    PROVE  Delivered' = Delivered \cup Undelivered(c) \cup {New}
<1>1. PICK m \in Nat : \E ahead \in [1 .. m -> Undelivered(c)] : Extended(c, ahead, m)
  BY AcceptFacts
<1>2. PICK ahead \in [1 .. m -> Undelivered(c)] : Extended(c, ahead, m)
  BY <1>1
<1>3. stream' \in Seq(Held')
  BY AcceptExtends
<1> QED BY <1>2, <1>3, ExtendedPositions

(* What is delivered with a request carries ancestors of its revision, and is
   kept. *)
LEMMA BehindIsLineage ==
    ASSUME EngineInv, NEW e \in DOMAIN request, NEW c, ServeStep(e, c), KnownParents(c)
    PROVE  \A r \in Undelivered(c) :
              /\ r \in Held
              /\ request[revision[r].eventId].payload \in Lineage(document, request[e].payload)
              /\ Kept(revision[r].eventId)
<1> DEFINE L == Lineage(document, request[e].payload)
           C == {r \in Held : /\ request[revision[r].eventId].payload \in L
                              /\ Kept(revision[r].eventId)}
<1>1. EngineTypeOK /\ LedgerTypeOK /\ TablesOK /\ c \in Content
  BY DEF EngineInv, LedgerInv, ServeStep
<1>2. /\ request[e].payload \in L
      /\ \A s \in L : document[s] \subseteq L
  <2>1. document \in [DOMAIN document -> SUBSET DOMAIN document]
    BY <1>1, GraphOfSequence DEF EngineTypeOK
  <2>2. request[e].payload \in DOMAIN document
    BY <1>1, RequestFields
  <2> QED BY <2>1, <2>2, LineageFacts
<1> HIDE DEF L
<1>3. c.parents \subseteq C
  <2>1. ASSUME NEW r \in c.parents PROVE r \in C
    <3>1. r \in Held /\ revision[r].eventId \in request[e].parents
      BY <1>1, PostedParents
    <3>2. RequestOK(e)
      BY DEF EngineInv
    <3> QED BY <1>2, <3>1, <3>2 DEF RequestOK
  <2> QED BY <2>1
<1>4. ASSUME NEW s \in C, NEW r \in revision[s].parents PROVE r \in C
  <2>1. r \in Held
    BY <1>1, ParentsAreHeld
  <2>2. /\ revision[s].eventId \in DOMAIN request
        /\ revision[r].eventId \in request[revision[s].eventId].parents
    BY <1>1 DEF TablesOK, Mirrors
  <2>3. RequestOK(revision[s].eventId)
    BY <2>2 DEF EngineInv
  <2> QED BY <1>2, <2>1, <2>2, <2>3 DEF RequestOK
<1>5. \A s \in C : ParentsOf[s] \subseteq C
  BY <1>1, <1>4, ParentsAreHeld
<1>6. /\ C \in SUBSET Held /\ c.parents \in SUBSET Held
      /\ ParentsOf \in [Held -> SUBSET Held]
  BY <1>1, <1>3, ParentsAreHeld
<1> HIDE DEF C
<1>7. Undelivered(c) \subseteq C
  BY <1>3, <1>5, <1>6, BacklogKeeps DEF Undelivered
<1> QED BY <1>7 DEF C, L

LEMMA AcceptDeliversKept ==
    ASSUME EngineInv, NEW e \in DOMAIN request, NEW c, ServeStep(e, c), LedgerNext,
           NEW x \in BOOLEAN, Accept(c, x)
    PROVE  DeliveredOK' /\ NoEditLost'
<1>1. /\ EngineTypeOK /\ LedgerTypeOK /\ TablesOK /\ c \in Content
      /\ c.entity = Passport /\ c.eventId = e
      /\ HeadsMatchStream /\ DeliveredOK /\ NoEditLost
  BY DEF EngineInv, LedgerInv, ServeStep
<1>2. Grows /\ UNCHANGED <<document, request>>
  BY ServeGrows
<1>3. PICK n : n = New
  OBVIOUS
<1>4. /\ KnownParents(c)
      /\ revision'[n] = c
      /\ \A r \in Held : revision'[r] = revision[r]
      /\ head'[Passport] = n
  BY <1>1, <1>3, AcceptFacts DEF LedgerTypeOK
<1>5. Delivered' = Delivered \cup Undelivered(c) \cup {n} /\ Delivered \subseteq Held
  BY <1>1, <1>3, AcceptDelivers, StreamFacts
<1>6. \A r \in Undelivered(c) :
         /\ r \in Held
         /\ request[revision[r].eventId].payload \in Lineage(document, request[e].payload)
         /\ Kept(revision[r].eventId)
  BY <1>4, BehindIsLineage
<1>7. Told(e, {"accepted"})' /\ Kept(e)'
  <2>1. PICK k, a : GivesAnswer(e, c, k, a)
    BY ServeGrows
  <2>2. Accepts(c)
    BY DEF Accepts
  <2> QED BY <2>1, <2>2 DEF GivesAnswer, Told, Kept
<1>8. DeliveredOK'
  <2>1. ASSUME NEW r \in Delivered' PROVE Kept(revision[r].eventId)'
    <3>1. PICK f : f = revision'[r].eventId
      OBVIOUS
    <3>2. CASE r = n
      BY <1>1, <1>4, <1>7, <3>1, <3>2 DEF Kept, Told
    <3>3. CASE r # n
      <4>1. Kept(f)
        BY <1>1, <1>4, <1>5, <1>6, <3>1, <3>3 DEF DeliveredOK
      <4>2. Kept(f)'
        BY <1>1, <1>2, <4>1, WhatGrowthKeeps
      <4> QED BY <3>1, <4>2 DEF Kept, Told
    <3> QED BY <3>2, <3>3
  <2>2. Told(revision[head[Passport]].eventId, {"accepted"})'
    BY <1>1, <1>4, <1>7 DEF Told
  <2> QED BY <2>1, <2>2 DEF DeliveredOK
<1>9. NoEditLost'
  <2> DEFINE P == request[e].payload
             L == Lineage(document, P)
  <2>1. document \in [DOMAIN document -> SUBSET DOMAIN document] /\ P \in DOMAIN document
    BY <1>1, GraphOfSequence, RequestFields DEF EngineTypeOK
  <2>2. P \in L /\ L \subseteq DOMAIN document /\ \A s \in L : document[s] \subseteq L
    BY <2>1, LineageFacts
  <2>3. \A r \in Delivered : request[revision[r].eventId].payload \in L
    <3>1. CASE Len(stream) = 0
      BY <1>1, <3>1, HeadFacts
    <3>2. CASE Len(stream) # 0
      <4>1. head[Passport] # NoRevision /\ head[Passport] \in Held
        BY <1>1, <3>2, HeadFacts
      <4>2. head[Passport] \in c.parents
        BY <1>1, <4>1 DEF Accept, CanAcceptHeadTransition
      <4> DEFINE H == request[revision[head[Passport]].eventId].payload
      <4>3. H \in document[P]
        <5>1. revision[head[Passport]].eventId \in request[e].parents
          BY <1>1, <1>4, <4>2, PostedParents
        <5>2. RequestOK(e)
          BY DEF EngineInv
        <5> QED BY <5>1, <5>2 DEF RequestOK
      <4>4. H \in L
        BY <2>2, <4>3
      <4>5. \A r \in Delivered : request[revision[r].eventId].payload \in Lineage(document, H)
        BY <1>1 DEF NoEditLost
      <4> HIDE DEF H, L
      <4>6. Lineage(document, H) \subseteq L
        BY <2>1, <2>2, <4>4, LineageWithin
      <4> QED BY <4>5, <4>6
    <3> QED BY <3>1, <3>2
  <2>4. \A r \in Delivered' : request[revision'[r].eventId].payload \in L
    BY <1>1, <1>4, <1>5, <1>6, <2>2, <2>3
  <2>5. request[revision'[head'[Passport]].eventId].payload = P
    BY <1>1, <1>4
  <2> HIDE DEF P
  <2>6. \A r \in Delivered' :
           request'[revision'[r].eventId].payload
              \in Lineage(document', request'[revision'[head'[Passport]].eventId].payload)
    BY <1>2, <2>4, <2>5
  <2> QED BY <2>6 DEF NoEditLost
<1> QED BY <1>8, <1>9

LEMMA StoresDeliversKept ==
    ASSUME EngineInv, NEW e \in DOMAIN request, NEW c, ServeStep(e, c), LedgerNext,
           Stores
    PROVE  DeliveredOK' /\ NoEditLost' /\ HeadEvent' = HeadEvent
<1>1. /\ EngineTypeOK /\ LedgerTypeOK /\ TablesOK /\ HeadsMatchStream
      /\ DeliveredOK /\ NoEditLost
  BY DEF EngineInv, LedgerInv
<1>2. Grows /\ UNCHANGED <<document, request>>
  BY ServeGrows
<1>3. /\ head' = head /\ stream' = stream /\ Delivered' = Delivered
      /\ Delivered \subseteq Held
      /\ head[Passport] # NoRevision => head[Passport] \in Held
  BY <1>1, StreamFacts, EngineAssumption DEF Stores, Delivered, LedgerTypeOK
<1>4. \A r \in Held : revision'[r] = revision[r]
  BY <1>2 DEF Grows
<1>5. Delivered # {} => head[Passport] # NoRevision
  BY <1>1, HeadFacts
<1>6. DeliveredOK'
  <2>1. ASSUME NEW r \in Delivered' PROVE Kept(revision[r].eventId)'
    <3>1. PICK f : f = revision'[r].eventId
      OBVIOUS
    <3>2. Kept(f)
      BY <1>1, <1>3, <1>4, <3>1 DEF DeliveredOK
    <3>3. Kept(f)'
      BY <1>1, <1>2, <3>2, WhatGrowthKeeps
    <3> QED BY <3>1, <3>3 DEF Kept, Told
  <2>2. ASSUME head'[Passport] # NoRevision'
        PROVE  Told(revision[head[Passport]].eventId, {"accepted"})'
    <3>1. PICK f : f = revision'[head'[Passport]].eventId
      OBVIOUS
    <3>2. Told(f, {"accepted"})
      BY <1>1, <1>3, <1>4, <2>2, <3>1 DEF DeliveredOK, NoRevision
    <3>3. Told(f, {"accepted"})'
      BY <1>1, <1>2, <3>2, WhatGrowthKeeps
    <3> QED BY <3>1, <3>3 DEF Told
  <2> QED BY <2>1, <2>2 DEF DeliveredOK
<1>7. NoEditLost'
  BY <1>1, <1>2, <1>3, <1>4, <1>5 DEF NoEditLost
<1>8. HeadEvent' = HeadEvent
  BY <1>3, <1>4 DEF HeadEvent, NoRevision, NoEvent
<1> QED BY <1>6, <1>7, <1>8

LEMMA ServeInv ==
    ASSUME EngineInv, NEW e \in DOMAIN request, Serve(e)
    PROVE  EngineInv'
<1>0. PICK c : c = Posted(e)
  OBVIOUS
<1>1. EngineTypeOK /\ Len(request) <= MaxEvents /\ RequestOK(e) /\ LedgerInv
  BY DEF EngineInv
<1>2. LedgerNext /\ ServeStep(e, c)
  BY <1>0, <1>1, ServeSteps
<1>3. EngineTypeOK'
  BY <1>1, <1>2, ServeTypes
<1>4. LedgerInv'
  BY <1>1, <1>2, InvStep
<1>5. /\ Grows
      /\ UNCHANGED <<document, local, heads, log, remote, cursor, request, call>>
  BY <1>2, ServeGrows
<1>6. TablesOK' /\ AnswersOK'
  BY <1>2, ServeTables, ServeAnswers
<1>7. DeliveredOK' /\ NoEditLost'
  BY <1>2, ServeKinds, StoresDeliversKept, AcceptDeliversKept
<1>8. DocumentsOK' /\ Len(request') <= MaxEvents
  BY <1>5, QuietRequests
<1>9. \A f \in DOMAIN request' : RequestOK(f)'
  BY <1>1, <1>5, RequestKept DEF EngineInv
<1>10. ASSUME NEW d \in Device PROVE DeviceInv(d)'
  <2>1. /\ HistoryOK(d) /\ LogOK(d) /\ RowsTrue(d)
        /\ PulledOK(d) /\ OwnHeads(d) /\ RemoteOK(d)
    BY DEF EngineInv, DeviceInv
  <2>2. Untouched(d) /\ (call'[d] # NoEvent => call'[d] \in Pending(d))
    BY <1>5, <2>1 DEF Untouched, LogOK
  <2>3. (HistoryOK(d) /\ LogOK(d) /\ RowsTrue(d) /\ PulledOK(d) /\ OwnHeads(d))'
    BY <1>1, <1>5, <2>1, <2>2, UntouchedKept
  <2>4. RemoteOK(d)'
    <3>1. CASE Stores
      <4>1. HeadEvent' = HeadEvent /\ stream' = stream
        BY <1>2, <3>1, StoresDeliversKept DEF Stores
      <4> QED BY <1>5, <2>1, <4>1 DEF RemoteOK
    <3>2. ASSUME NEW x \in BOOLEAN, Accept(c, x) PROVE RemoteOK(d)'
      <4>1. /\ Len(stream) \in Nat /\ Len(stream') \in Nat
            /\ Len(stream') > Len(stream)
        BY <1>2, <3>2, ServeKinds, BehindIsOfEntity
      <4>2. cursor'[d] \in 0 .. Len(stream)
        BY <1>1, <1>5 DEF EngineTypeOK
      <4>3. cursor'[d] # Len(stream')
        BY <4>1, <4>2
      <4> QED BY <4>3 DEF RemoteOK
    <3> QED BY <1>2, <3>1, <3>2, ServeKinds
  <2> QED BY <2>3, <2>4 DEF DeviceInv
<1> QED BY <1>3, <1>4, <1>6, <1>7, <1>8, <1>9, <1>10 DEF EngineInv

-----------------------------------------------------------------------------
(* The invariant, and what follows from it. *)

LEMMA EngineInitInv == EngineInit => EngineInv
<1> SUFFICES ASSUME EngineInit PROVE EngineInv
  OBVIOUS
<1>1. /\ document = <<{}>> /\ request = <<>> /\ answered = <<>> /\ receipt = <<>>
      /\ revision = <<>> /\ stream = <<>>
      /\ head = [e \in Entity |-> NoRevision]
      /\ local = [d \in Device |-> IF d = Origin THEN {1} ELSE {}]
      /\ heads = local
      /\ log = [d \in Device |-> <<>>]
      /\ remote = [d \in Device |-> NoEvent]
      /\ cursor = [d \in Device |-> 0]
      /\ enrolled = [d \in Device |-> 0]
      /\ call = [d \in Device |-> NoEvent]
  BY DEF EngineInit, LedgerInit
<1>2. LedgerInv
  BY InitInv DEF EngineInit
<1>3. /\ DOMAIN document = {1} /\ document[1] = {}
      /\ DOMAIN request = {} /\ Len(request) = 0
      /\ DOMAIN answered = {} /\ DOMAIN receipt = {} /\ Len(answered) = Len(receipt)
      /\ Held = {} /\ Len(stream) = 0 /\ DOMAIN stream = {}
  BY <1>1 DEF Held
<1>4. Delivered = {}
  BY <1>3 DEF Delivered
<1>5. EngineTypeOK
  <2>1. document \in Seq(SUBSET DOMAIN document)
    <3>1. {} \in SUBSET DOMAIN document
      OBVIOUS
    <3> QED BY <1>1, <3>1
  <2>2. request \in Seq(Request) /\ answered \in Seq(DOMAIN request)
    BY <1>1
  <2>3. log \in [Device -> Seq(Row)]
    <3>1. <<>> \in Seq(Row)
      OBVIOUS
    <3> QED BY <1>1, <3>1
  <2>4. local \in [Device -> SUBSET DOMAIN document]
    BY <1>1, <1>3
  <2>5. LedgerTypeOK
    BY <1>2 DEF LedgerInv
  <2>6. cursor \in [Device -> 0 .. Len(stream)]
    BY <1>1, <1>3
  <2> QED BY <1>1, <2>1, <2>2, <2>3, <2>4, <2>5, <2>6 DEF EngineTypeOK
<1>6. DocumentsOK
  <2>1. {} \subseteq {0, 0}
    OBVIOUS
  <2> QED BY <1>3, <2>1 DEF DocumentsOK
<1>7. TablesOK /\ AnswersOK
  BY <1>3 DEF TablesOK, AnswersOK
<1>8. DeliveredOK /\ NoEditLost
  BY <1>1, <1>4, EngineAssumption DEF DeliveredOK, NoEditLost
<1>9. ASSUME NEW d \in Device PROVE DeviceInv(d)
  <2>1. /\ DOMAIN log[d] = {} /\ remote[d] = NoEvent /\ cursor[d] = 0 /\ call[d] = NoEvent
        /\ local[d] \subseteq {1} /\ heads[d] = local[d]
    BY <1>1
  <2>2. HistoryOK(d)
    BY <1>3, <2>1 DEF HistoryOK
  <2>3. Logged(d) = {}
    BY <2>1 DEF Logged
  <2>4. LogOK(d) /\ RowsTrue(d)
    BY <2>1, <2>3 DEF LogOK, RowsTrue
  <2>5. PulledOK(d)
    BY <2>1 DEF PulledOK
  <2>6. OwnHeads(d)
    <3>1. \A h \in heads[d] : h = 1
      BY <2>1
    <3> QED BY <3>1 DEF OwnHeads
  <2>7. RemoteOK(d)
    BY <1>1, <2>1, EngineAssumption DEF RemoteOK, HeadEvent
  <2> QED BY <2>2, <2>4, <2>5, <2>6, <2>7 DEF DeviceInv
<1>10. Len(request) <= MaxEvents
  BY <1>3, SyncAssumption
<1>11. \A e \in DOMAIN request : RequestOK(e)
  BY <1>3
<1> QED BY <1>2, <1>5, <1>6, <1>7, <1>8, <1>9, <1>10, <1>11 DEF EngineInv

LEMMA EngineStays ==
    ASSUME EngineInv, UNCHANGED engineVars
    PROVE  EngineInv'
<1>1. /\ UNCHANGED <<syncVars, document, request, answered>>
      /\ local' = local /\ heads' = heads /\ log' = log /\ remote' = remote
      /\ cursor' = cursor /\ enrolled' = enrolled /\ call' = call
  BY DEF engineVars, deviceVars, localVars, logVars
<1>2. EngineTypeOK /\ Grows
  BY <1>1, StillGrows DEF EngineInv
<1>3. EngineTypeOK'
  BY <1>1, <1>2, QuietTypes DEF EngineTypeOK
<1>4. ASSUME NEW d \in Device PROVE DeviceInv(d)' /\ Untouched(d) /\ call'[d] = call[d]
  <2>1. /\ HistoryOK(d) /\ LogOK(d) /\ RowsTrue(d)
        /\ PulledOK(d) /\ OwnHeads(d) /\ RemoteOK(d)
    BY DEF EngineInv, DeviceInv
  <2>2. Untouched(d) /\ call'[d] = call[d] /\ (call'[d] # NoEvent => call'[d] \in Pending(d))
    BY <1>1, <2>1 DEF Untouched, LogOK
  <2>3. (HistoryOK(d) /\ LogOK(d) /\ RowsTrue(d) /\ PulledOK(d) /\ OwnHeads(d))'
    BY <1>2, <2>1, <2>2, UntouchedKept
  <2>4. RemoteOK(d)'
    BY <1>1, <2>1, RemoteKept
  <2> QED BY <2>2, <2>3, <2>4 DEF DeviceInv
<1> QED BY <1>1, <1>2, <1>3, <1>4, EngineAssumption, QuietRequests, DeviceStep

(* Every step of the engine keeps the invariant, and is a step of the ledger
   or leaves it alone. *)
LEMMA EngineStep ==
    ASSUME EngineInv, [EngineNext]_engineVars
    PROVE  EngineInv' /\ [LedgerNext]_syncVars
<1>1. EngineTypeOK /\ DocumentsOK /\ AnswersOK /\ Len(request) <= MaxEvents
      /\ \A e \in DOMAIN request : RequestOK(e)
  BY DEF EngineInv
<1>2. CASE UNCHANGED engineVars
  BY <1>2, EngineStays DEF engineVars
<1>3. ASSUME NEW d \in Device, Edit(d) \/ Merge(d)
      PROVE  EngineInv' /\ UNCHANGED syncVars
  <2>1. LocalStep(d)
    BY <1>1, <1>3, LocalSteps
  <2> QED BY <2>1, LocalInv DEF LocalStep
<1>4. ASSUME NEW d \in Device, Send(d)
      PROVE  EngineInv' /\ UNCHANGED syncVars
  <2>1. PICK q \in Request : SendStep(d, q)
    BY <1>1, <1>4, SendSteps
  <2> QED BY <2>1, SendInv DEF SendStep
<1>5. ASSUME NEW d \in Device, Learn(d)
      PROVE  EngineInv' /\ UNCHANGED syncVars
  <2>1. PICK state : LearnStep(d, state)
    BY <1>1, <1>5, LearnSteps
  <2> QED BY <2>1, LearnInv DEF LearnStep
<1>6. ASSUME NEW d \in Device, Resend(d) \/ Lose(d) \/ Replace(d)
      PROVE  EngineInv' /\ UNCHANGED syncVars
  BY <1>6, CallInv DEF Resend, Lose, Replace
<1>7. ASSUME NEW d \in Device, Pull(d)
      PROVE  EngineInv' /\ UNCHANGED syncVars
  BY <1>7, PullInv DEF Pull
<1>8. ASSUME NEW d \in Device, Recover(d)
      PROVE  EngineInv' /\ UNCHANGED syncVars
  BY <1>8, RecoverInv DEF Recover
<1>9. ASSUME NEW e \in DOMAIN request, Serve(e)
      PROVE  EngineInv' /\ LedgerNext
  BY <1>1, <1>9, ServeInv, ServeSteps
<1> QED BY <1>2, <1>3, <1>4, <1>5, <1>6, <1>7, <1>8, <1>9 DEF EngineNext

(* Whatever the devices do, and whichever calls are lost, the engine stays in
   its inductive invariant (push, pull and record_receipt of apps/cli/src/sync
   against _apply_one). *)
THEOREM EngineInvariant == EngineSpec => []EngineInv
<1>1. EngineInv /\ [EngineNext]_engineVars => EngineInv'
  BY EngineStep
<1> QED BY EngineInitInv, <1>1, PTL DEF EngineSpec

(* The tables of the devices keep their shape: logs name stored requests, and
   requests name stored revisions (retain, revisions::commit). *)
THEOREM EngineTypes == EngineSpec => []EngineTypeOK
<1>1. EngineInv => EngineTypeOK
  BY DEF EngineInv
<1> QED BY <1>1, EngineInvariant, PTL

(* The requests of the devices are events the ledger's specification admits,
   so that its theorems are about them (_apply_one). *)
THEOREM EngineUsesLedger == EngineSpec => LedgerSpec
<1>1. EngineInit => LedgerInit
  BY DEF EngineInit
<1>2. EngineInv /\ [EngineNext]_engineVars => [LedgerNext]_syncVars
  BY EngineStep
<1> QED BY <1>1, <1>2, EngineInvariant, PTL DEF EngineSpec, LedgerSpec

(* Every page of the stream applies on every device, whatever it has done
   itself: the next event is in the log, or its parents are there
   (revisions::commit never refuses a pulled revision). *)
THEOREM PagesApply == EngineSpec => []PageApplies
<1>1. EngineInv => PageApplies
  BY NextApplies DEF PageApplies, Admits
<1> QED BY <1>1, EngineInvariant, PTL

(* The merge protocol loses no edit: the revision of the head descends from
   every revision ever delivered (seal names as parents the events that carry
   the parents of the revision, and no others). *)
THEOREM NoEditIsLost == EngineSpec => []NoEditLost
<1>1. EngineInv => NoEditLost
  BY DEF EngineInv
<1> QED BY <1>1, EngineInvariant, PTL

(* The log of a device never says more than the ledger did, through lost
   answers and retired requests (record_receipt, retire_pending). *)
THEOREM LogsAreTrue == EngineSpec => []LogIsTrue
<1>1. EngineInv => LogIsTrue
  <2> SUFFICES ASSUME EngineInv PROVE LogIsTrue
    OBVIOUS
  <2>1. EngineTypeOK /\ TablesOK /\ AnswersOK
    BY DEF EngineInv
  <2>2. ASSUME NEW d \in Device, NEW s, NEW e \in InState(d, {s})
        PROVE  RowSays(s, e)
    <3>1. PICK i \in DOMAIN log[d] : EventAt(d, i) = e /\ log[d][i].state = s
      BY <2>2 DEF InState
    <3>2. RowSays(log[d][i].state, EventAt(d, i))
      BY <2>1, RowsSay DEF EngineInv, DeviceInv
    <3> QED BY <3>1, <3>2
  <2>3. ASSUME NEW d \in Device, NEW e \in InState(d, {"accepted"})
        PROVE  RevisionOf(e) \in Delivered
    <3>1. IsDelivered(e)
      BY <2>2, <2>3 DEF RowSays
    <3>2. PICK r \in Delivered : revision[r].eventId = e
      BY <3>1 DEF IsDelivered
    <3>3. r \in Held
      BY <2>1, StreamFacts DEF EngineTypeOK
    <3> QED BY <2>1, <3>2, <3>3, RevisionIsOf
  <2>4. ASSUME NEW d \in Device, NEW e \in InState(d, {"conflict"})
        PROVE  RevisionOf(e) \in Held
    <3>1. Told(e, {"conflict"})
      BY <2>2, <2>4 DEF RowSays
    <3>2. PICK k \in DOMAIN answered : answered[k] = e /\ receipt[k].state = "conflict"
      BY <3>1 DEF Told
    <3>3. k \in DOMAIN receipt
      BY <2>1 DEF AnswersOK, EngineTypeOK, LedgerTypeOK
    <3>4. /\ receipt[k].revision \in Held
          /\ revision[receipt[k].revision].eventId = e
      BY <2>1, <3>2, <3>3 DEF AnswersOK
    <3> QED BY <2>1, <3>4, RevisionIsOf
  <2>5. \A d \in Device : \A i \in 1 .. cursor[d] :
           StreamEvent(i) \in InState(d, {"accepted", "conflict"})
    BY DEF EngineInv, DeviceInv, PulledOK
  <2> QED BY <2>3, <2>4, <2>5 DEF LogIsTrue
<1> QED BY <1>1, EngineInvariant, PTL

(* With the whole stream pulled, one local head at most is not the revision of
   the ledger's head. *)
LEMMA TwoHeads ==
    ASSUME EngineInv, NEW d \in Device, cursor[d] = Len(stream)
    PROVE  \E x, y : heads[d] \subseteq {x, y}
<1>1. /\ EngineTypeOK /\ TablesOK /\ HeadsMatchStream /\ NoEditLost
      /\ HistoryOK(d) /\ LogOK(d) /\ PulledOK(d) /\ OwnHeads(d)
  BY DEF EngineInv, DeviceInv, LedgerInv
<1>2. PICK x : \A h \in heads[d] :
         h = x \/ \E i \in 1 .. cursor[d] : request[StreamEvent(i)].payload = h
  BY <1>1 DEF OwnHeads
<1>3. CASE Len(stream) = 0
  <2>1. heads[d] \subseteq {x, x}
    BY <1>2, <1>3
  <2> QED BY <2>1
<1>4. CASE Len(stream) # 0
  <2> DEFINE n == Len(stream)
             y == request[StreamEvent(n)].payload
             L == Lineage(document, y)
  <2>1. /\ n \in 1 .. n /\ DOMAIN stream = 1 .. n
        /\ head[Passport] = stream[n]
    BY <1>1, <1>4, HeadFacts
  <2>2. y \in local[d] /\ local[d] \subseteq DOMAIN document
    <3>1. StreamEvent(n) \in Logged(d)
      BY <1>1, <2>1 DEF PulledOK, InState
    <3> QED BY <1>1, <3>1 DEF LogOK, EngineTypeOK
  <2>3. \A i \in 1 .. n : request[StreamEvent(i)].payload \in L
    <3>1. \A i \in 1 .. n : stream[i] \in Delivered
      BY <2>1 DEF Delivered
    <3> QED BY <1>1, <2>1, <3>1 DEF NoEditLost, StreamEvent
  <2> HIDE DEF n, y
  <2>4. document \in [DOMAIN document -> SUBSET DOMAIN document]
    BY <1>1, GraphOfSequence DEF EngineTypeOK
  <2>5. /\ L \subseteq local[d]
        /\ \A s \in L : s = y \/ \E t \in L : s \in document[t]
    <3>1. \A s \in local[d] : document[s] \subseteq local[d]
      BY <1>1 DEF HistoryOK
    <3>2. L \subseteq local[d]
      BY <2>2, <2>4, <3>1, LineageWithin
    <3>3. \A s \in L : s = y \/ \E t \in L : s \in document[t]
      BY <2>2, <2>4, LineageFacts
    <3> QED BY <3>2, <3>3
  <2> HIDE DEF L
  <2>6. ASSUME NEW h \in heads[d], h # x PROVE h = y
    <3>1. h \in L
      BY <1>2, <2>3, <2>6 DEF n
    <3>2. \A t \in local[d] : h \notin document[t]
      BY <1>1 DEF HistoryOK
    <3> QED BY <2>5, <3>1, <3>2
  <2>7. heads[d] \subseteq {x, y}
    BY <2>6
  <2> QED BY <2>7
<1> QED BY <1>3, <1>4

LEMMA CaughtUp == EngineInv => CaughtUpCanGoOn
<1> SUFFICES ASSUME EngineInv, NEW d \in Device, cursor[d] = Len(stream)
             PROVE  /\ RevisionOf(remote[d]) = head[Passport]
                    /\ HistoryLoads(d)
                    /\ Cardinality(heads[d]) <= 2
  BY DEF CaughtUpCanGoOn
<1>1. /\ EngineTypeOK /\ TablesOK /\ HeadsMatchStream
      /\ LogOK(d) /\ RowsTrue(d) /\ PulledOK(d)
      /\ remote[d] = HeadEvent
  BY DEF EngineInv, DeviceInv, LedgerInv, RemoteOK
<1>2. Cardinality(heads[d]) <= 2
  <2>1. PICK x, y : heads[d] \subseteq {x, y}
    BY TwoHeads
  <2> QED BY <2>1, PairCardinality
<1>3. CASE head[Passport] = NoRevision
  BY <1>1, <1>2, <1>3 DEF HeadEvent, RevisionOf, HistoryLoads
<1>4. CASE head[Passport] # NoRevision
  <2>1. /\ Len(stream) > 0 /\ Len(stream) \in 1 .. Len(stream)
        /\ head[Passport] = stream[Len(stream)] /\ head[Passport] \in Held
    BY <1>1, <1>4, HeadFacts
  <2>2. remote[d] = revision[head[Passport]].eventId
    BY <1>1, <1>4 DEF HeadEvent
  <2>3. RevisionOf(remote[d]) = head[Passport]
    BY <1>1, <2>1, <2>2, RevisionIsOf
  <2>4. remote[d] \in InState(d, {"accepted", "conflict"})
    BY <1>1, <2>1, <2>2 DEF PulledOK, StreamEvent
  <2>5. ~Told(remote[d], {"conflict"})
    <3>1. Told(remote[d], {"accepted"})
      BY <1>4, <2>2 DEF EngineInv, DeliveredOK
    <3> QED BY <3>1 DEF Told, EngineInv, AnswersOK
  <2>6. remote[d] \in InState(d, {"accepted"})
    BY <1>1, <2>4, <2>5 DEF InState, RowsTrue
  <2> QED BY <1>2, <2>3, <2>6 DEF HistoryLoads
<1> QED BY <1>3, <1>4

(* A device that has pulled the whole stream is never stuck on a head it
   cannot load, and has at most one merge to make (advance, History::load). *)
THEOREM CaughtUpDevicesGoOn == EngineSpec => []CaughtUpCanGoOn
BY CaughtUp, EngineInvariant, PTL

-----------------------------------------------------------------------------
(* Numbers.  A set of numbers has a least one, and a bounded one a largest:
   what the proofs below have instead of an induction. *)

Below == {p \in Nat \X Nat : p[1] < p[2]}

LEMMA BelowIsWellFounded == IsWellFoundedOn(Below, Nat)
<1>1. Below = OpToRel(<, Nat)
  BY DEF Below, OpToRel
<1> QED BY <1>1, NatLessThanWellFounded

LEMMA LeastNumber ==
    ASSUME NEW T \in SUBSET Nat, T # {}
    PROVE  \E m \in T : \A k \in T : m <= k
<1>1. PICK m \in T : \A k \in T : <<k, m>> \notin Below
  BY BelowIsWellFounded, WFMin
<1>2. ASSUME NEW k \in T PROVE ~(k < m)
  <2>1. <<k, m>> \in Nat \X Nat /\ <<k, m>>[1] = k /\ <<k, m>>[2] = m
    OBVIOUS
  <2> QED BY <1>1, <2>1 DEF Below
<1> QED BY <1>2

LEMMA LargestNumber ==
    ASSUME NEW n \in Nat, NEW T \in SUBSET (0 .. n), T # {}
    PROVE  \E m \in T : \A k \in T : k <= m
<1> DEFINE U == {n - k : k \in T}
<1>1. U \in SUBSET Nat
  OBVIOUS
<1>2. U # {}
  <2>1. PICK k \in T : TRUE
    OBVIOUS
  <2>2. n - k \in U
    OBVIOUS
  <2> QED BY <2>2
<1>3. PICK u \in U : \A v \in U : u <= v
  <2> HIDE DEF U
  <2> QED BY <1>1, <1>2, LeastNumber
<1>4. PICK m \in T : u = n - m
  BY <1>3
<1>5. \A k \in T : n - m <= n - k
  BY <1>3, <1>4
<1> QED BY <1>5

-----------------------------------------------------------------------------
(* The devices rest only when they agree.  What a device cannot send again, it
   has been refused: its own requests are pending, or retired under an id that
   it no longer has. *)

ParentsAreOlder == \A r \in DOMAIN document : \A q \in document[r] : q < r

OwnRow(d, state, e) ==
    state \in {"pending", "failed"} =>
       \E n \in 0 .. enrolled[d] : /\ request[e].device = <<d, n>>
                                   /\ state = "failed" => n # enrolled[d]

OwnRows(d) == \A i \in DOMAIN log[d] : OwnRow(d, log[d][i].state, EventAt(d, i))

RestInv == /\ ParentsAreOlder
           /\ 1 \in local[Origin]
           /\ \A d \in Device : OwnRows(d)

LEMMA OwnRowsKept ==
    ASSUME EngineTypeOK, NEW d \in Device, OwnRows(d),
           log'[d] = log[d], enrolled'[d] = enrolled[d],
           \A e \in DOMAIN request : request'[e] = request[e]
    PROVE  OwnRows(d)'
<1> SUFFICES ASSUME NEW i \in DOMAIN log[d]
             PROVE  OwnRow(d, log[d][i].state, EventAt(d, i))'
  BY DEF OwnRows
<1>1. EventAt(d, i)' = EventAt(d, i) /\ EventAt(d, i) \in DOMAIN request
  BY LogRows DEF EventAt
<1>2. OwnRow(d, log[d][i].state, EventAt(d, i))
  BY DEF OwnRows
<1> QED BY <1>1, <1>2 DEF OwnRow

(* A row that is settled is no longer pending. *)
LEMMA OwnRowsSettled ==
    ASSUME EngineTypeOK, NEW d \in Device, OwnRows(d),
           NEW e, NEW state \in {"accepted", "conflict", "rejected"},
           log' = Settled(d, e, state),
           enrolled' = enrolled, request' = request
    PROVE  OwnRows(d)'
<1> SUFFICES ASSUME NEW i \in DOMAIN log'[d]
             PROVE  OwnRow(d, log[d][i].state, EventAt(d, i))'
  BY DEF OwnRows
<1>1. /\ i \in DOMAIN log[d]
      /\ EventAt(d, i)' = EventAt(d, i)
      /\ log'[d][i].state \in {state, log[d][i].state}
  BY SettledLog
<1>2. OwnRow(d, log[d][i].state, EventAt(d, i))
  BY <1>1 DEF OwnRows
<1>3. CASE log'[d][i].state = state
  BY <1>3 DEF OwnRow
<1>4. CASE log'[d][i].state = log[d][i].state
  BY <1>1, <1>2, <1>4 DEF OwnRow
<1> QED BY <1>1, <1>3, <1>4

LEMMA SendOwns ==
    ASSUME EngineInv, NEW d \in Device, OwnRows(d), NEW q \in Request, SendStep(d, q)
    PROVE  OwnRows(d)'
<1>0. PICK n : n = Len(request) + 1
  OBVIOUS
<1>1. EngineTypeOK
  BY DEF EngineInv
<1>2. /\ request' = Append(request, q) /\ q.device = DeviceId(d)
      /\ log' = [log EXCEPT ![d] = Append(@, [event |-> n, state |-> "pending"])]
      /\ UNCHANGED <<document, enrolled>>
  BY <1>0 DEF SendStep, localVars
<1>3. /\ n \in DOMAIN request' /\ n \notin DOMAIN request /\ request'[n] = q
      /\ \A e \in DOMAIN request : request'[e] = request[e]
  <2>1. /\ Len(request) + 1 \notin DOMAIN request
        /\ DOMAIN request' = DOMAIN request \cup {Len(request) + 1}
        /\ \A e \in DOMAIN request : request'[e] = request[e]
        /\ request'[Len(request) + 1] = q
    BY <1>1, <1>2, RequestGrows
  <2> QED BY <1>0, <2>1
<1>4. n \notin Logged(d)
  BY <1>1, <1>3, LogRows
<1>5. \A i \in DOMAIN log'[d] :
         \/ /\ i \in DOMAIN log[d]
            /\ log'[d][i] = log[d][i]
            /\ EventAt(d, i)' = EventAt(d, i)
         \/ EventAt(d, i)' = n /\ log'[d][i].state = "pending"
  BY <1>1, <1>2, <1>3, <1>4, AppendedLog
<1>6. ASSUME NEW i \in DOMAIN log'[d]
      PROVE  OwnRow(d, log[d][i].state, EventAt(d, i))'
  <2>1. \/ /\ i \in DOMAIN log[d]
           /\ log'[d][i] = log[d][i]
           /\ EventAt(d, i)' = EventAt(d, i)
        \/ EventAt(d, i)' = n /\ log'[d][i].state = "pending"
    BY <1>5
  <2>2. CASE i \in DOMAIN log[d] /\ log'[d][i] = log[d][i]
                /\ EventAt(d, i)' = EventAt(d, i)
    <3>1. OwnRow(d, log[d][i].state, EventAt(d, i))
      BY <2>2 DEF OwnRows
    <3>2. EventAt(d, i) \in DOMAIN request
      BY <1>1, <2>2, LogRows
    <3> QED BY <1>2, <1>3, <2>2, <3>1, <3>2 DEF OwnRow
  <2>3. CASE EventAt(d, i)' = n /\ log'[d][i].state = "pending"
    <3>1. enrolled[d] \in 0 .. enrolled[d]
      BY <1>1 DEF EngineTypeOK
    <3>2. request'[n].device = <<d, enrolled[d]>>
      BY <1>2, <1>3 DEF DeviceId
    <3> QED BY <1>2, <2>3, <3>1, <3>2 DEF OwnRow
  <2> QED BY <2>1, <2>2, <2>3
<1> QED BY <1>6 DEF OwnRows

LEMMA RecoverOwns ==
    ASSUME EngineInv, NEW d \in Device, OwnRows(d), Recover(d)
    PROVE  OwnRows(d)'
<1>1. EngineTypeOK /\ LogOK(d)
  BY DEF EngineInv, DeviceInv
<1>2. PICK e \in Pending(d) : request[e].device # DeviceId(d)
                               /\ log' = Settled(d, e, "failed")
  BY DEF Recover
<1>3. UNCHANGED <<request, enrolled>>
  BY DEF Recover
<1> SUFFICES ASSUME NEW i \in DOMAIN log'[d]
             PROVE  OwnRow(d, log[d][i].state, EventAt(d, i))'
  BY DEF OwnRows
<1>4. /\ i \in DOMAIN log[d]
      /\ EventAt(d, i)' = EventAt(d, i)
      /\ \/ EventAt(d, i) = e /\ log'[d][i].state = "failed"
         \/ EventAt(d, i) # e /\ log'[d][i].state = log[d][i].state
  BY <1>1, <1>2, SettledLog
<1>5. OwnRow(d, log[d][i].state, EventAt(d, i))
  BY <1>4 DEF OwnRows
<1>6. CASE EventAt(d, i) = e /\ log'[d][i].state = "failed"
  <2>1. PICK j \in DOMAIN log[d] : EventAt(d, j) = e /\ log[d][j].state = "pending"
    BY <1>2 DEF Pending, InState
  <2>2. j = i
    BY <1>1, <1>4, <1>6, <2>1 DEF LogOK
  <2>3. PICK n \in 0 .. enrolled[d] : request[e].device = <<d, n>>
    BY <1>5, <1>6, <2>1, <2>2 DEF OwnRow
  <2>4. n # enrolled[d]
    BY <1>2, <2>3 DEF DeviceId
  <2> QED BY <1>3, <1>4, <1>6, <2>3, <2>4 DEF OwnRow
<1>7. CASE log'[d][i].state = log[d][i].state
  BY <1>3, <1>4, <1>5, <1>7 DEF OwnRow
<1> QED BY <1>4, <1>6, <1>7

LEMMA PullOwns ==
    ASSUME EngineInv, NEW d \in Device, OwnRows(d), Pull(d)
    PROVE  OwnRows(d)'
<1>1. EngineTypeOK /\ TablesOK
  BY DEF EngineInv
<1>2. UNCHANGED <<request, enrolled>> /\ cursor[d] < Len(stream)
  BY DEF Pull
<1>3. PICK e : e = NextEvent(d)
  OBVIOUS
<1>4. e \in DOMAIN request
  BY <1>1, <1>2, <1>3, NextIsRequest
<1>5. CASE Replay(d, e)
  <2>1. CASE log' = Settled(d, e, "accepted")
    BY <1>1, <1>2, <2>1, OwnRowsSettled
  <2>2. CASE log' = log
    BY <1>1, <1>2, <2>2, OwnRowsKept
  <2> QED BY <1>5, <2>1, <2>2 DEF Replay
<1>6. CASE Receive(d, e)
  <2>1. /\ e \notin Logged(d)
        /\ log' = [log EXCEPT ![d] = Append(@, [event |-> e, state |-> "accepted"])]
    BY <1>6 DEF Receive
  <2>2. ASSUME NEW i \in DOMAIN log'[d]
        PROVE  OwnRow(d, log[d][i].state, EventAt(d, i))'
    <3>1. \/ /\ i \in DOMAIN log[d]
             /\ log'[d][i] = log[d][i]
             /\ EventAt(d, i)' = EventAt(d, i)
          \/ EventAt(d, i)' = e /\ log'[d][i].state = "accepted"
      BY <1>1, <1>2, <1>4, <2>1, AppendedLog
    <3>2. CASE i \in DOMAIN log[d] /\ log'[d][i] = log[d][i]
                  /\ EventAt(d, i)' = EventAt(d, i)
      <4>1. OwnRow(d, log[d][i].state, EventAt(d, i))
        BY <3>2 DEF OwnRows
      <4> QED BY <1>2, <3>2, <4>1 DEF OwnRow
    <3>3. CASE log'[d][i].state = "accepted"
      BY <3>3 DEF OwnRow
    <3> QED BY <3>1, <3>2, <3>3
  <2> QED BY <2>2 DEF OwnRows
<1> QED BY <1>3, <1>5, <1>6 DEF Pull

LEMMA ReplaceOwns ==
    ASSUME EngineInv, NEW d \in Device, OwnRows(d), Replace(d)
    PROVE  OwnRows(d)'
<1>1. EngineTypeOK
  BY DEF EngineInv
<1>2. UNCHANGED <<request, log>> /\ enrolled' = [enrolled EXCEPT ![d] = @ + 1]
  BY DEF Replace, logVars
<1>3. enrolled[d] \in Nat /\ enrolled'[d] = enrolled[d] + 1
  BY <1>1, <1>2 DEF EngineTypeOK
<1> SUFFICES ASSUME NEW i \in DOMAIN log[d]
             PROVE  OwnRow(d, log[d][i].state, EventAt(d, i))'
  BY <1>2 DEF OwnRows
<1>4. OwnRow(d, log[d][i].state, EventAt(d, i)) /\ EventAt(d, i)' = EventAt(d, i)
  BY <1>2 DEF OwnRows, EventAt
<1>5. \A n \in 0 .. enrolled[d] : n \in 0 .. enrolled'[d] /\ n # enrolled'[d]
  BY <1>3
<1> QED BY <1>2, <1>4, <1>5 DEF OwnRow

LEMMA OlderStep ==
    ASSUME EngineInv, ParentsAreOlder, [EngineNext]_engineVars
    PROVE  ParentsAreOlder'
<1>1. EngineTypeOK /\ DocumentsOK
  BY DEF EngineInv
<1>2. CASE UNCHANGED document
  BY <1>2 DEF ParentsAreOlder
<1>3. ASSUME NEW d \in Device, Edit(d) \/ Merge(d) PROVE ParentsAreOlder'
  <2>1. LocalStep(d)
    BY <1>1, <1>3, LocalSteps
  <2>2. CASE Writes(d, heads[d])
    <3>1. heads[d] \in SUBSET DOMAIN document
      BY <1>1 DEF EngineTypeOK
    <3>2. document' = Append(document, heads[d])
      BY <2>2 DEF Writes
    <3>3. /\ Len(document) \in Nat
          /\ DOMAIN document' = DOMAIN document \cup {Len(document) + 1}
          /\ \A r \in DOMAIN document : document'[r] = document[r]
          /\ document'[Len(document) + 1] = heads[d]
      BY <1>1, <3>1, <3>2, DocumentGrows
    <3>4. \A q \in heads[d] : q < Len(document) + 1
      BY <1>1, <3>1 DEF EngineTypeOK
    <3>5. ASSUME NEW r \in DOMAIN document', NEW q \in document'[r] PROVE q < r
      <4>1. CASE r \in DOMAIN document
        BY <3>3, <3>5, <4>1 DEF ParentsAreOlder
      <4>2. CASE r = Len(document) + 1
        <5>1. q \in heads[d]
          BY <3>3, <3>5, <4>2
        <5> QED BY <3>4, <4>2, <5>1
      <4> QED BY <3>3, <3>5, <4>1, <4>2
    <3> QED BY <3>5 DEF ParentsAreOlder
  <2>3. CASE UNCHANGED document
    BY <2>3 DEF ParentsAreOlder
  <2> QED BY <2>1, <2>2, <2>3 DEF LocalStep
<1>4. ASSUME NEW d \in Device,
             Resend(d) \/ Send(d) \/ Lose(d) \/ Learn(d) \/ Pull(d) \/ Replace(d) \/ Recover(d)
      PROVE  UNCHANGED document
  BY <1>4 DEF Resend, Send, Lose, Learn, Pull, Replay, Receive, Replace, Recover, localVars
<1>5. ASSUME NEW e \in DOMAIN request, Serve(e) PROVE UNCHANGED document
  BY <1>5 DEF Serve, deviceVars, localVars
<1>6. CASE UNCHANGED engineVars
  BY <1>2, <1>6 DEF engineVars, deviceVars, localVars
<1> QED BY <1>2, <1>3, <1>4, <1>5, <1>6 DEF EngineNext

LEMMA OriginKeeps ==
    ASSUME EngineInv, 1 \in local[Origin], [EngineNext]_engineVars
    PROVE  1 \in local'[Origin]
<1>1. EngineTypeOK /\ DocumentsOK /\ Origin \in Device
  BY EngineAssumption DEF EngineInv
<1>2. CASE UNCHANGED local
  BY <1>2
<1>3. ASSUME NEW d \in Device, Edit(d) \/ Merge(d) PROVE 1 \in local'[Origin]
  <2>1. LocalStep(d)
    BY <1>1, <1>3, LocalSteps
  <2>2. PICK r : local' = [local EXCEPT ![d] = @ \cup {r}]
    BY <1>1, <2>1, LocalShape
  <2> QED BY <1>1, <2>2 DEF EngineTypeOK
<1>4. ASSUME NEW d \in Device, Pull(d) PROVE 1 \in local'[Origin]
  <2>1. CASE Replay(d, NextEvent(d))
    BY <2>1 DEF Replay, localVars
  <2>2. CASE Receive(d, NextEvent(d))
    <3>1. PICK r : local' = [local EXCEPT ![d] = @ \cup {r}]
      BY <2>2 DEF Receive
    <3> QED BY <1>1, <3>1 DEF EngineTypeOK
  <2> QED BY <1>4, <2>1, <2>2 DEF Pull
<1>5. ASSUME NEW d \in Device,
             Resend(d) \/ Send(d) \/ Lose(d) \/ Learn(d) \/ Replace(d) \/ Recover(d)
      PROVE  UNCHANGED local
  BY <1>5 DEF Resend, Send, Lose, Learn, Replace, Recover, localVars
<1>6. ASSUME NEW e \in DOMAIN request, Serve(e) PROVE UNCHANGED local
  BY <1>6 DEF Serve, deviceVars, localVars
<1>7. CASE UNCHANGED engineVars
  BY <1>2, <1>7 DEF engineVars, deviceVars, localVars
<1> QED BY <1>2, <1>3, <1>4, <1>5, <1>6, <1>7 DEF EngineNext

(* The log of every other device stays as it is. *)
LEMMA OthersOwn ==
    ASSUME EngineInv, NEW d \in Device, NEW c \in Device, OwnRows(c),
           \/ Edit(d) \/ Merge(d) \/ Resend(d) \/ Send(d) \/ Lose(d) \/ Learn(d)
           \/ Pull(d) \/ Replace(d) \/ Recover(d),
           c = d => UNCHANGED <<log, enrolled>>
    PROVE  OwnRows(c)'
<1>1. EngineTypeOK /\ DocumentsOK
  BY DEF EngineInv
<1>2. \A e \in DOMAIN request : request'[e] = request[e]
  <2>1. CASE Send(d)
    <3>1. PICK q \in Request : SendStep(d, q)
      BY <1>1, <2>1, SendSteps
    <3>2. request' = Append(request, q) /\ UNCHANGED document
      BY <3>1 DEF SendStep, localVars
    <3> QED BY <1>1, <3>2, RequestGrows
  <2>2. CASE ~Send(d)
    BY <2>2 DEF Edit, Merge, Resend, Lose, Learn, Pull, Replace, Recover
  <2> QED BY <2>1, <2>2
<1>3. ASSUME c # d PROVE log'[c] = log[c] /\ enrolled'[c] = enrolled[c]
  <2>1. log \in [Device -> Seq(Row)] /\ enrolled \in [Device -> Nat]
    BY <1>1 DEF EngineTypeOK
  <2>2. \A e, state : log' = Settled(d, e, state) => log'[c] = log[c]
    BY <1>3, <2>1 DEF Settled
  <2>3. \A row : log' = [log EXCEPT ![d] = Append(@, row)] => log'[c] = log[c]
    BY <1>3, <2>1
  <2>4. log'[c] = log[c]
    <3>1. CASE Pull(d)
      BY <2>2, <2>3, <3>1 DEF Pull, Replay, Receive
    <3>2. CASE Send(d)
      BY <2>3, <3>2 DEF Send
    <3>3. CASE Learn(d) \/ Recover(d)
      BY <2>2, <3>3 DEF Learn, Recover
    <3>4. CASE Edit(d) \/ Merge(d) \/ Resend(d) \/ Lose(d) \/ Replace(d)
      BY <3>4 DEF Edit, Merge, Resend, Lose, Replace, logVars
    <3> QED BY <3>1, <3>2, <3>3, <3>4
  <2>5. enrolled'[c] = enrolled[c]
    BY <1>3, <2>1 DEF Edit, Merge, Resend, Send, Lose, Learn, Pull, Replace, Recover
  <2> QED BY <2>4, <2>5
<1>4. log'[c] = log[c] /\ enrolled'[c] = enrolled[c]
  BY <1>3
<1> QED BY <1>1, <1>2, <1>4, OwnRowsKept

LEMMA OwnStep ==
    ASSUME EngineInv, \A d \in Device : OwnRows(d), [EngineNext]_engineVars,
           NEW c \in Device
    PROVE  OwnRows(c)'
<1>1. EngineTypeOK /\ DocumentsOK /\ AnswersOK
  BY DEF EngineInv
<1>2. ASSUME NEW d \in Device,
             Edit(d) \/ Merge(d) \/ Resend(d) \/ Lose(d)
      PROVE  OwnRows(c)'
  <2>1. UNCHANGED <<log, enrolled>>
    BY <1>2 DEF Edit, Merge, Resend, Lose, logVars
  <2> QED BY <1>2, <2>1, OthersOwn
<1>3. ASSUME NEW d \in Device,
             Send(d) \/ Learn(d) \/ Pull(d) \/ Replace(d) \/ Recover(d)
      PROVE  OwnRows(c)'
  <2>1. CASE c # d
    BY <1>3, <2>1, OthersOwn
  <2>2. CASE c = d /\ Send(d)
    <3>1. PICK q \in Request : SendStep(d, q)
      BY <1>1, <2>2, SendSteps
    <3> QED BY <2>2, <3>1, SendOwns
  <2>3. CASE c = d /\ Learn(d)
    <3>1. PICK state : LearnStep(d, state)
      BY <1>1, <2>3, LearnSteps
    <3> QED BY <1>1, <2>3, <3>1, OwnRowsSettled DEF LearnStep
  <2>4. CASE c = d /\ Pull(d)
    BY <2>4, PullOwns
  <2>5. CASE c = d /\ Replace(d)
    BY <2>5, ReplaceOwns
  <2>6. CASE c = d /\ Recover(d)
    BY <2>6, RecoverOwns
  <2> QED BY <1>3, <2>1, <2>2, <2>3, <2>4, <2>5, <2>6
<1>4. ASSUME NEW e \in DOMAIN request, Serve(e) PROVE OwnRows(c)'
  BY <1>1, <1>4, OwnRowsKept DEF Serve, deviceVars, logVars
<1>5. CASE UNCHANGED engineVars
  BY <1>1, <1>5, OwnRowsKept DEF engineVars, deviceVars, logVars
<1> QED BY <1>2, <1>3, <1>4, <1>5 DEF EngineNext

LEMMA RestInvStep == EngineInv /\ RestInv /\ [EngineNext]_engineVars => RestInv'
BY OlderStep, OriginKeeps, OwnStep DEF RestInv

LEMMA RestInvInit == EngineInit => RestInv
<1> SUFFICES ASSUME EngineInit PROVE RestInv
  OBVIOUS
<1>1. document = <<{}>> /\ local = [d \in Device |-> IF d = Origin THEN {1} ELSE {}]
      /\ log = [d \in Device |-> <<>>]
  BY DEF EngineInit
<1>2. DOMAIN document = {1} /\ document[1] = {}
  BY <1>1
<1>3. 1 \in local[Origin]
  BY <1>1, EngineAssumption
<1>4. \A d \in Device : DOMAIN log[d] = {}
  BY <1>1
<1> QED BY <1>2, <1>3, <1>4 DEF RestInv, ParentsAreOlder, OwnRows

(* What has reached the ledger from the log carries its revision. *)
LEMMA UsableCarries ==
    ASSUME EngineTypeOK, NEW d \in Device, NEW i \in DOMAIN log[d],
           log[d][i].state \in Usable
    PROVE  Mapping(d, request[EventAt(d, i)].payload) # {}
<1> DEFINE r == request[EventAt(d, i)].payload
           C == Carriers(d, r)
<1>1. i \in C
  BY DEF Carriers
<1>2. CASE \E k \in C : EventAt(d, k) = remote[d]
  BY <1>2 DEF Mapping
<1>3. CASE ~\E k \in C : EventAt(d, k) = remote[d]
  <2>1. Mapping(d, r) = {EventAt(d, k) : k \in {j \in C : \A l \in C : l <= j}}
    BY <1>3 DEF Mapping
  <2>2. Len(log[d]) \in Nat /\ C \in SUBSET (0 .. Len(log[d]))
    BY LogRows DEF Carriers, EngineTypeOK
  <2> HIDE DEF C
  <2>3. PICK j \in C : \A l \in C : l <= j
    BY <1>1, <2>2, LargestNumber
  <2>4. EventAt(d, j) \in {EventAt(d, k) : k \in {m \in C : \A l \in C : l <= m}}
    BY <2>3
  <2> QED BY <2>1, <2>4
<1> QED BY <1>2, <1>3

(* Who holds a revision has a head. *)
LEMMA HistoryHasHead ==
    ASSUME EngineInv, RestInv, NEW d \in Device, local[d] # {}
    PROVE  heads[d] # {}
<1>1. /\ Len(document) \in Nat
      /\ DOMAIN document = 1 .. Len(document)
      /\ local[d] \in SUBSET DOMAIN document
  BY DEF EngineInv, EngineTypeOK
<1>2. local[d] \in SUBSET (0 .. Len(document))
  BY <1>1
<1>3. PICK m \in local[d] : \A s \in local[d] : s <= m
  BY <1>1, <1>2, LargestNumber
<1>4. ASSUME NEW s \in local[d] PROVE m \notin document[s]
  <2>1. m \in document[s] => m < s
    BY <1>1 DEF RestInv, ParentsAreOlder
  <2>2. s <= m /\ s \in Nat /\ m \in Nat
    BY <1>1, <1>3
  <2> QED BY <2>1, <2>2
<1>5. heads[d] = {r \in local[d] : \A s \in local[d] : r \notin document[s]}
  BY DEF EngineInv, DeviceInv, HistoryOK
<1> QED BY <1>3, <1>4, <1>5

(* A device with one head and nothing left to do has sent the history of the
   head: the oldest revision that no event carries could be sent. *)
LEMMA AllIsCarried ==
    ASSUME EngineInv, RestInv, NEW d \in Device,
           HistoryLoads(d), ~HasWork(d), ~Refused(d),
           NEW h, heads[d] = {h}
    PROVE  Mapping(d, h) # {}
<1> DEFINE L == Lineage(document, h)
           T == {r \in L : Mapping(d, r) = {}}
<1>1. EngineTypeOK /\ RowsTrue(d) /\ OwnRows(d) /\ ParentsAreOlder
  BY DEF EngineInv, DeviceInv, RestInv
<1>2. /\ Len(document) \in Nat
      /\ DOMAIN document = 1 .. Len(document)
      /\ document \in [DOMAIN document -> SUBSET DOMAIN document]
      /\ h \in DOMAIN document
  <2>1. document \in [DOMAIN document -> SUBSET DOMAIN document]
    BY <1>1, GraphOfSequence DEF EngineTypeOK
  <2>2. h \in DOMAIN document
    BY <1>1 DEF EngineTypeOK
  <2> QED BY <1>1, <2>1, <2>2 DEF EngineTypeOK
<1>3. /\ h \in L /\ L \subseteq DOMAIN document
      /\ \A s \in L : document[s] \subseteq L
  BY <1>2, LineageFacts
<1>4. /\ Pending(d) = {}
      /\ \A r \in L : Mapping(d, r) = {} /\ ParentsCarried(d, r) =>
            \E e \in Logged(d) : SameRevision(request[e], Sealed(d, r))
  BY DEF HasWork
<1>5. ASSUME NEW e \in InState(d, {"rejected"}) PROVE request[e].payload \notin L
  BY <1>5 DEF Refused
<1> HIDE DEF L
<1>6. SUFFICES ASSUME T # {} PROVE FALSE
  BY <1>3
<1>7. T \in SUBSET Nat
  BY <1>2, <1>3
<1>8. PICK r \in T : \A s \in T : r <= s
  <2> HIDE DEF T
  <2> QED BY <1>6, <1>7, LeastNumber
<1>9. ParentsCarried(d, r)
  <2> SUFFICES ASSUME NEW p \in document[r] PROVE p \notin T
    BY <1>3 DEF ParentsCarried
  <2>1. p < r /\ p \in Nat /\ r \in Nat
    BY <1>1, <1>2, <1>3 DEF ParentsAreOlder
  <2> QED BY <1>8, <2>1
<1>10. PICK e \in Logged(d) : SameRevision(request[e], Sealed(d, r))
  BY <1>4, <1>8, <1>9
<1>11. request[e].payload = r /\ request[e].device = DeviceId(d)
  BY <1>10 DEF SameRevision, Sealed
<1>12. PICK i \in DOMAIN log[d] : EventAt(d, i) = e
  BY DEF Logged
<1>13. /\ log[d][i].state \in {"pending", "accepted", "conflict", "superseded",
                               "rejected", "failed"}
       /\ \A states : log[d][i].state \in states => e \in InState(d, states)
  BY <1>1, <1>12, LogRows DEF Row, InState
<1>14. CASE log[d][i].state \in Usable
  BY <1>1, <1>8, <1>11, <1>12, <1>14, UsableCarries
<1>15. CASE log[d][i].state = "pending"
  BY <1>4, <1>13, <1>15 DEF Pending
<1>16. CASE log[d][i].state = "rejected"
  BY <1>5, <1>8, <1>11, <1>13, <1>16
<1>17. CASE log[d][i].state = "failed"
  <2>1. PICK n \in 0 .. enrolled[d] : request[e].device = <<d, n>> /\ n # enrolled[d]
    BY <1>1, <1>12, <1>17 DEF OwnRows, OwnRow
  <2> QED BY <1>11, <2>1 DEF DeviceId
<1> QED BY <1>13, <1>14, <1>15, <1>16, <1>17 DEF Usable

(* A device at rest has the head of the ledger, if it has anything. *)
LEMMA RestsAtHead ==
    ASSUME EngineInv, RestInv, NEW d \in Device,
           Idle(d), ~HasWork(d), ~Refused(d), ~Stranded(d)
    PROVE  /\ cursor[d] = Len(stream)
           /\ local[d] # {} => /\ HeadEvent # NoEvent
                               /\ heads[d] = {request[HeadEvent].payload}
<1>1. /\ EngineTypeOK /\ LogOK(d) /\ TablesOK /\ HeadsMatchStream /\ RemoteOK(d)
  BY DEF EngineInv, DeviceInv, LedgerInv
<1>2. cursor[d] = Len(stream)
  <2>1. cursor[d] \in 0 .. Len(stream) /\ ~(cursor[d] < Len(stream)) /\ Len(stream) \in Nat
    BY <1>1, HeadFacts DEF HasWork, EngineTypeOK
  <2> QED BY <2>1
<1>3. HistoryLoads(d) /\ remote[d] = HeadEvent
  BY <1>1, <1>2, CaughtUp DEF CaughtUpCanGoOn, RemoteOK
<1>4. ASSUME local[d] # {}
      PROVE  HeadEvent # NoEvent /\ heads[d] = {request[HeadEvent].payload}
  <2>1. PICK h : heads[d] = {h}
    <3>1. PICK x, y : heads[d] \subseteq {x, y}
      BY <1>2, TwoHeads
    <3>2. PICK h \in heads[d] : TRUE
      BY <1>4, HistoryHasHead
    <3>3. \A a, b \in heads[d] : a # b => heads[d] # {a, b}
      BY DEF HasWork
    <3>4. \A a \in heads[d] : a = h
      <4> SUFFICES ASSUME NEW a \in heads[d], a # h PROVE FALSE
        OBVIOUS
      <4>1. heads[d] = {a, h}
        BY <3>1, <3>2
      <4> QED BY <3>2, <3>3, <4>1
    <3> QED BY <3>2, <3>4
  <2>2. Mapping(d, h) # {} /\ Pending(d) = {}
    BY <1>3, <2>1, AllIsCarried DEF HasWork
  <2>3. remote[d] \in Mapping(d, h)
    BY <1>2, <2>1, <2>2 DEF Stranded
  <2>4. request[remote[d]].payload = h /\ remote[d] \in Logged(d)
    BY <1>1, <2>3, MappingFacts
  <2>5. remote[d] # NoEvent
    <3>1. Logged(d) \subseteq DOMAIN request
      BY <1>1, LogRows
    <3> QED BY <1>1, <2>4, <3>1 DEF NoEvent, EngineTypeOK
  <2> QED BY <1>3, <2>1, <2>4, <2>5
<1> QED BY <1>2, <1>4

LEMMA RestAgrees == EngineInv /\ RestInv => RestIsAgreement
<1> SUFFICES ASSUME EngineInv, RestInv,
                    \A d \in Device : Idle(d) /\ ~HasWork(d),
                    \A d \in Device : ~Stranded(d) /\ ~Refused(d)
             PROVE  Converged
  BY DEF RestIsAgreement
<1>1. EngineTypeOK /\ TablesOK /\ HeadsMatchStream
  BY DEF EngineInv, LedgerInv
<1>2. HeadEvent # NoEvent
  BY EngineAssumption, RestsAtHead DEF RestInv
<1>3. /\ head[Passport] # NoRevision
      /\ HeadEvent = revision[head[Passport]].eventId
  BY <1>2 DEF HeadEvent
<1>4. /\ Len(stream) \in 1 .. Len(stream)
      /\ head[Passport] = stream[Len(stream)]
  BY <1>1, <1>3, HeadFacts
<1>5. ASSUME NEW d \in Device
      PROVE  cursor[d] = Len(stream) /\ heads[d] = {request[HeadEvent].payload}
  <2>1. cursor[d] = Len(stream)
    BY RestsAtHead
  <2>2. StreamEvent(Len(stream)) \in Logged(d)
    BY <1>4, <2>1 DEF EngineInv, DeviceInv, PulledOK, InState
  <2>3. local[d] # {}
    BY <2>2 DEF EngineInv, DeviceInv, LogOK
  <2> QED BY <2>1, <2>3, RestsAtHead
<1> QED BY <1>3, <1>5 DEF Converged

(* The devices rest only in agreement: when no sync command of any of them
   finds anything to do, each holds the revision of the ledger's head and
   nothing beside it, unless a device is stranded on a conflict or was refused
   (push walks the history of its head and sends what no event carries, pull
   reads to the end of the stream, sync recover retires what is pending). *)
THEOREM DevicesRestInAgreement == EngineSpec => []RestIsAgreement
<1>1. EngineInv /\ RestInv /\ [EngineNext]_engineVars => RestInv'
  BY RestInvStep
<1>2. EngineSpec => []RestInv
  BY RestInvInit, EngineInvariant, <1>1, PTL DEF EngineSpec
<1> QED BY RestAgrees, EngineInvariant, <1>2, PTL

=============================================================================
