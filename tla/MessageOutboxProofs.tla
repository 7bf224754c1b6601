------------------------- MODULE MessageOutboxProofs -------------------------
(***************************************************************************)
(* Proofs about MessageOutbox, for every number of requests, workers and   *)
(* ids: messages and webhook events are stored once and keep their work,   *)
(* the extra copies a customer gets are at most the workers that died, and *)
(* the outbox implements the fate of a message (MessageFate).              *)
(***************************************************************************)
EXTENDS MessageOutbox, FiniteSetTheorems, TLAPS

(* The inductive invariant. *)

Stored == {"inserted", "received"}   \* requests whose row waits for its commit

\* The requests hold ids of their kind, and what they checked is still so.
RequestOK(r) ==
  /\ req[r].pc \in {"new", "inserted"} => req[r].id \in ClientIds /\ req[r].content \in Contents
  /\ req[r].pc \in {"delivered", "received"} => req[r].id \in ExternalIds
  /\ req[r].pc = "inserted" => WithClient(req[r].id) = {}
  /\ req[r].pc = "received" => ~Known(req[r].id)

\* The unique indexes let one request at a time store an id.
IndexOK ==
  \A r, s \in Requests :
    r # s /\ req[r].pc \in Stored /\ req[s].pc \in Stored => req[r].id # req[s].id

\* The message of outbox row i, and the client id it was written under.
Of(i)     == outbox[i].of
Client(i) == messages[Of(i)].client

TaskOK(w) ==
  task[w].pc # "idle" =>
    /\ task[w].row \in DOMAIN outbox
    /\ outbox[task[w].row].topic = "send" /\ ~outbox[task[w].row].published
    /\ task[w].pc = "sending" <=> task[w].reply = "none"
    /\ task[w].reply = "ack" => accepted[Client(task[w].row)] > 0

RowsLocked ==
  \A v, w \in Workers :
    v # w /\ task[v].pc # "idle" /\ task[w].pc # "idle" => task[v].row # task[w].row

\* Records and their work.
OutboxOK ==
  /\ \A i \in DOMAIN outbox :
       /\ outbox[i].topic = "send" /\ ~outbox[i].published => messages[Of(i)].status = "queued"
       /\ outbox[i].topic = "received" => ~outbox[i].published
       /\ \A j \in DOMAIN outbox :
            outbox[i].topic = outbox[j].topic /\ Of(i) = Of(j) => i = j
  /\ \A m \in DOMAIN messages : messages[m].status = "queued" => Work("send", m) # {}
  /\ \A n \in DOMAIN receipts : Work("received", n) # {}

\* One message for each client id, one receipt for each external id.
KeysOK ==
  /\ \A m, n \in DOMAIN messages : messages[m].client = messages[n].client => m = n
  /\ \A i, j \in DOMAIN receipts : receipts[i] = receipts[j] => i = j
  /\ \A e \in acked : Known(e)
  /\ \A a \in answers : messages[a[3]].client = a[1] /\ messages[a[3]].content = a[2]

(* Copies the provider accepted.  A message is answered for while a task  *)
(* holds its reply; one that left before and is to be sent again takes a  *)
(* death of the task that had the reply.                                  *)

Queued(c)   == \E m \in WithClient(c) : messages[m].status = "queued"
Answered(c) == \E w \in Workers : task[w].pc = "done" /\ Client(task[w].row) = c
Exposed     == {c \in ClientIds : Queued(c) /\ ~Answered(c) /\ accepted[c] > 0}
Doubles     == {u \in ClientIds \X Nat : 2 <= u[2] /\ u[2] <= accepted[u[1]]}

CopiesOK ==
  /\ \A c \in ClientIds :
       /\ WithClient(c) = {} => accepted[c] = 0
       /\ accepted[c] <= crashes + 1
       /\ Queued(c) /\ ~Answered(c) => accepted[c] <= crashes

DoublesOK == /\ IsFiniteSet(Doubles) /\ IsFiniteSet(Exposed)
             /\ Cardinality(Doubles) + Cardinality(Exposed) <= crashes

RequestsOK == \A r \in Requests : RequestOK(r)
TasksOK    == \A w \in Workers : TaskOK(w)

Inv == /\ TypeOK /\ RequestsOK /\ IndexOK /\ TasksOK /\ RowsLocked
       /\ OutboxOK /\ KeysOK /\ AnnouncedOnce /\ CopiesOK /\ DoublesOK

USE DEF tables

\* The types of TypeOK, by name.
Req     == [pc : {"idle", "new", "inserted", "delivered", "received"},
            id : ClientIds \union ExternalIds \union {None},
            content : Contents \union {None}, stamp : Nat]
Message == [client : ClientIds, content : Contents, status : MessageStatuses]
Row     == [topic : {"send", "received"}, of : Nat, stamp : Nat, published : BOOLEAN]
Task    == [pc : {"idle", "sending", "done"}, row : Nat,
            reply : {"none", "ack", "timeout", "error"}]
-----------------------------------------------------------------------------
LEMMA Typed ==
  ASSUME TypeOK
  PROVE  /\ messages \in Seq(Message) /\ outbox \in Seq(Row) /\ receipts \in Seq(ExternalIds)
         /\ events \in Seq(Seq(MessageStatuses)) /\ Len(events) = Len(messages)
         /\ req \in [Requests -> Req] /\ task \in [Workers -> Task]
         /\ accepted \in [ClientIds -> Nat] /\ crashes \in Nat /\ clock \in Nat
         /\ DOMAIN messages = 1..Len(messages) /\ Len(messages) \in Nat
         /\ DOMAIN outbox = 1..Len(outbox) /\ Len(outbox) \in Nat
         /\ DOMAIN receipts = 1..Len(receipts) /\ Len(receipts) \in Nat
         /\ DOMAIN events = 1..Len(events)
<1>1. /\ messages \in Seq(Message) /\ outbox \in Seq(Row) /\ receipts \in Seq(ExternalIds)
      /\ events \in Seq(Seq(MessageStatuses)) /\ Len(events) = Len(messages)
      /\ accepted \in [ClientIds -> Nat] /\ crashes \in Nat /\ clock \in Nat
  BY DEF TypeOK, Message, Row
<1>2. req \in [Requests -> Req]
  BY DEF TypeOK, Req
<1>3. task \in [Workers -> Task]
  <2>1. 0..Len(outbox) \subseteq Nat
    BY <1>1
  <2>2. task \in [Workers -> [pc : {"idle", "sending", "done"}, row : 0..Len(outbox),
                              reply : {"none", "ack", "timeout", "error"}]]
    BY DEF TypeOK
  <2> QED
    BY <2>1, <2>2 DEF Task
<1> QED
  BY <1>1, <1>2, <1>3

LEMMA Member ==
  ASSUME NEW S, NEW q \in Seq(S), NEW i \in DOMAIN q
  PROVE  q[i] \in S
OBVIOUS

LEMMA Appended ==
  ASSUME NEW S, NEW q \in Seq(S), NEW x \in S
  PROVE  /\ Append(q, x) \in Seq(S) /\ Len(q) \in Nat
         /\ Len(Append(q, x)) = Len(q) + 1
         /\ DOMAIN Append(q, x) = DOMAIN q \union {Len(q) + 1} /\ DOMAIN q = 1..Len(q)
         /\ Len(q) + 1 \notin DOMAIN q
         /\ \A i \in DOMAIN q : Append(q, x)[i] = q[i]
         /\ Append(q, x)[Len(q) + 1] = x
OBVIOUS

LEMMA InitInv == Init => Inv
<1> SUFFICES ASSUME Init PROVE Inv
  OBVIOUS
<1> USE DEF Init
<1>1. TypeOK
  BY DEF TypeOK, NoRequest, NoTask
<1>2. RequestsOK /\ IndexOK
  BY DEF RequestsOK, RequestOK, IndexOK, NoRequest, Stored
<1>3. TasksOK /\ RowsLocked
  BY DEF TasksOK, TaskOK, RowsLocked, NoTask
<1>4. OutboxOK /\ KeysOK /\ AnnouncedOnce
  BY DEF OutboxOK, KeysOK, AnnouncedOnce
<1>5. CopiesOK
  BY DEF CopiesOK, Queued, WithClient
<1>6. DoublesOK
  <2>1. Doubles = {} /\ Exposed = {}
    BY DEF Doubles, Exposed
  <2> QED
    BY <2>1, FS_EmptySet DEF DoublesOK
<1> QED
  BY <1>1, <1>2, <1>3, <1>4, <1>5, <1>6 DEF Inv
-----------------------------------------------------------------------------
(* Steps of requests that write no table. *)

LEMMA RequestStep ==
  ASSUME Inv, UNCHANGED <<tables, task, accepted, crashes>>,
         req' \in [Requests -> Req], answers' \subseteq ClientIds \X Contents \X DOMAIN messages,
         acked' \subseteq ExternalIds, channelReady' \in BOOLEAN, clock' \in Nat,
         RequestsOK', IndexOK',
         \A e \in acked' : Known(e),
         \A a \in answers' : messages[a[3]].client = a[1] /\ messages[a[3]].content = a[2]
  PROVE  Inv'
<1> USE DEF Inv
<1>1. TypeOK'
  BY DEF TypeOK, Req
<1>2. TasksOK' /\ RowsLocked'
  BY DEF TasksOK, TaskOK, RowsLocked, Client, Of
<1>3. OutboxOK' /\ AnnouncedOnce'
  BY DEF OutboxOK, Of, Work, AnnouncedOnce
<1>4. KeysOK'
  BY DEF KeysOK, Known
<1>5. \A c : Queued(c)' = Queued(c) /\ Answered(c)' = Answered(c) /\ WithClient(c)' = WithClient(c)
  BY DEF Queued, Answered, WithClient, Client, Of
<1>6. CopiesOK'
  BY <1>5 DEF CopiesOK
<1>7. Doubles' = Doubles /\ Exposed' = Exposed
  BY <1>5 DEF Doubles, Exposed
<1>8. DoublesOK'
  BY <1>7 DEF DoublesOK
<1> QED
  BY <1>1, <1>2, <1>3, <1>4, <1>6, <1>8

LEMMA OneRequest ==
  ASSUME Inv, NEW r \in Requests, NEW x \in Req, req' = [req EXCEPT ![r] = x],
         UNCHANGED <<messages, receipts>>, RequestOK(r)',
         x.pc \in Stored => \A s \in Requests \ {r} : ~(req[s].pc \in Stored /\ req[s].id = x.id)
  PROVE  req' \in [Requests -> Req] /\ RequestsOK' /\ IndexOK'
<1>1. req \in [Requests -> Req]
  BY Typed DEF Inv
<1>2. req'[r] = x /\ \A s \in Requests \ {r} : req'[s] = req[s]
  BY <1>1
<1>3. RequestsOK'
  BY <1>2 DEF Inv, RequestsOK, RequestOK, WithClient, Known
<1>4. IndexOK'
  BY <1>2 DEF Inv, IndexOK
<1> QED
  BY <1>1, <1>3, <1>4

LEMMA IdleRequest ==
  ASSUME NEW r \in Requests, req'[r] = NoRequest
  PROVE  RequestOK(r)'
BY DEF RequestOK, NoRequest

LEMMA NoRequestType == NoRequest \in Req /\ NoRequest.pc \notin Stored
BY DEF NoRequest, Req, Stored

LEMMA LookupInv ==
  ASSUME Inv, NEW r \in Requests, NEW c \in ClientIds, NEW b \in Contents, Lookup(r, c, b)
  PROVE  Inv'
<1>1. UNCHANGED <<tables, acked, task, channelReady, accepted, clock, crashes>>
  BY DEF Lookup
<1>2. /\ answers \subseteq ClientIds \X Contents \X DOMAIN messages /\ acked \subseteq ExternalIds
      /\ channelReady \in BOOLEAN /\ clock \in Nat
      /\ RequestsOK /\ IndexOK /\ \A e \in acked : Known(e)
      /\ \A a \in answers : messages[a[3]].client = a[1] /\ messages[a[3]].content = a[2]
      /\ req \in [Requests -> Req]
  BY Typed DEF Inv, TypeOK, KeysOK
<1>3. CASE UNCHANGED answers
  <2>1. CASE UNCHANGED req
    <3>1. RequestsOK' /\ IndexOK'
      BY <1>1, <1>2, <2>1 DEF RequestsOK, RequestOK, IndexOK, WithClient, Known
    <3> QED
      BY <1>1, <1>2, <1>3, <2>1, <3>1, RequestStep
  <2>2. CASE ~UNCHANGED req
    <3> DEFINE x == [NoRequest EXCEPT !.pc = "new", !.id = c, !.content = b]
    <3>1. req' = [req EXCEPT ![r] = x]
      BY <2>2 DEF Lookup
    <3>2. x \in Req /\ x.pc = "new" /\ x.id = c /\ x.content = b
      BY DEF NoRequest, Req
    <3> HIDE DEF x
    <3>3. RequestOK(r)'
      BY <1>2, <3>1, <3>2 DEF RequestOK
    <3>4. req' \in [Requests -> Req] /\ RequestsOK' /\ IndexOK'
      BY <1>1, <3>1, <3>2, <3>3, OneRequest DEF Stored
    <3> QED
      BY <1>1, <1>2, <1>3, <3>4, RequestStep
  <2> QED
    BY <2>1, <2>2
<1>4. CASE ~UNCHANGED answers
  <2>1. PICK m \in WithClient(c) :
          /\ messages[m].content = b /\ answers' = answers \union {<<c, b, m>>}
          /\ UNCHANGED req
    BY <1>4 DEF Lookup
  <2>2. m \in DOMAIN messages /\ messages[m].client = c
    BY DEF WithClient
  <2>3. answers' \subseteq ClientIds \X Contents \X DOMAIN messages
    BY <1>2, <2>1, <2>2
  <2>4. \A a \in answers' : messages[a[3]].client = a[1] /\ messages[a[3]].content = a[2]
    BY <1>2, <2>1, <2>2
  <2>5. RequestsOK' /\ IndexOK'
    BY <1>1, <1>2, <2>1 DEF RequestsOK, RequestOK, IndexOK, WithClient, Known
  <2> QED
    BY <1>1, <1>2, <2>1, <2>3, <2>4, <2>5, RequestStep
<1> QED
  BY <1>3, <1>4

\* The parts of Inv that RequestStep asks for again, in this state.
LEMMA Now ==
  ASSUME Inv
  PROVE  /\ answers \subseteq ClientIds \X Contents \X DOMAIN messages /\ acked \subseteq ExternalIds
         /\ channelReady \in BOOLEAN /\ clock \in Nat
         /\ RequestsOK /\ IndexOK /\ \A e \in acked : Known(e)
         /\ \A a \in answers : messages[a[3]].client = a[1] /\ messages[a[3]].content = a[2]
         /\ req \in [Requests -> Req]
BY Typed DEF Inv, TypeOK, KeysOK

\* Insert and Receive: the index admits the id, and nothing stored has it.
LEMMA StoreInv ==
  ASSUME Inv, NEW r \in Requests, Insert(r) \/ Receive(r)
  PROVE  Inv'
<1>1. PICK pc \in Stored, t \in Nat :
        /\ clock' = t /\ req' = [req EXCEPT ![r].pc = pc, ![r].stamp = t]
        /\ pc = "inserted" => req[r].pc = "new" /\ Unique(r)
        /\ pc = "received" => req[r].pc = "delivered" /\ ~Known(req[r].id)
        /\ IndexFree(r)
  <2>1. clock + 1 \in Nat
    BY Now
  <2>2. CASE Insert(r)
    BY <2>1, <2>2 DEF Insert, Stored
  <2>3. CASE Receive(r)
    BY <2>1, <2>3 DEF Receive, Stored
  <2> QED
    BY <2>2, <2>3
<1>2. UNCHANGED <<tables, answers, acked, task, channelReady, accepted, crashes>>
  BY DEF Insert, Receive
<1> DEFINE x == [req[r] EXCEPT !.pc = pc, !.stamp = t]
<1>3. req[r] \in Req /\ req' = [req EXCEPT ![r] = x] /\ req'[r] = x
  BY <1>1, Now
<1>4. x \in Req /\ x.pc = pc /\ x.id = req[r].id /\ x.content = req[r].content
  BY <1>3 DEF Req, Stored
<1> HIDE DEF x
<1>5. \A s \in Requests \ {r} : ~(req[s].pc \in Stored /\ req[s].id = x.id)
  BY <1>1, <1>4 DEF IndexFree, Stored
<1>6. RequestOK(r)'
  <2>1. RequestOK(r) /\ WithClient(req[r].id)' = WithClient(x.id) /\ Known(req[r].id)' = Known(x.id)
    BY <1>2, <1>3, <1>4, Now DEF RequestsOK, WithClient, Known
  <2>2. pc = "inserted" \/ pc = "received"
    BY DEF Stored
  <2> QED
    BY <1>1, <1>3, <1>4, <2>1, <2>2 DEF RequestOK, Unique
<1>7. req' \in [Requests -> Req] /\ RequestsOK' /\ IndexOK'
  BY <1>2, <1>3, <1>4, <1>5, <1>6, OneRequest
<1> QED
  BY <1>1, <1>2, <1>7, Now, RequestStep

\* A request that ends without a commit.
LEMMA LeaveInv ==
  ASSUME Inv, NEW r \in Requests, Conflict(r) \/ Abort(r) \/ Duplicate(r)
  PROVE  Inv'
<1>1. /\ UNCHANGED <<tables, answers, task, channelReady, accepted, clock, crashes>>
      /\ req' = [req EXCEPT ![r] = NoRequest]
  BY DEF Conflict, Abort, Duplicate
<1>2. req'[r] = NoRequest
  BY <1>1, Now
<1>3. req' \in [Requests -> Req] /\ RequestsOK' /\ IndexOK'
  BY <1>1, <1>2, OneRequest, NoRequestType, IdleRequest
<1>4. acked' \subseteq ExternalIds /\ \A e \in acked' : Known(e)
  <2>1. CASE UNCHANGED acked
    BY <2>1, Now
  <2>2. CASE Duplicate(r)
    <3>1. req[r].pc = "delivered" /\ Known(req[r].id) /\ acked' = acked \union {req[r].id}
      BY <2>2 DEF Duplicate
    <3> QED
      BY <3>1, Now DEF RequestsOK, RequestOK
  <2> QED
    BY <2>1, <2>2 DEF Conflict, Abort
<1> QED
  BY <1>1, <1>3, <1>4, Now, RequestStep

LEMMA DeliverInv ==
  ASSUME Inv, NEW r \in Requests, NEW e \in ExternalIds, Deliver(r, e)
  PROVE  Inv'
<1> DEFINE x == [NoRequest EXCEPT !.pc = "delivered", !.id = e]
<1>1. /\ UNCHANGED <<tables, answers, acked, task, channelReady, accepted, clock, crashes>>
      /\ req' = [req EXCEPT ![r] = x]
  BY DEF Deliver
<1>2. x \in Req /\ x.pc = "delivered" /\ x.id = e
  BY DEF NoRequest, Req
<1> HIDE DEF x
<1>3. req'[r] = x
  BY <1>1, Now
<1>4. RequestOK(r)'
  BY <1>2, <1>3 DEF RequestOK
<1>5. req' \in [Requests -> Req] /\ RequestsOK' /\ IndexOK'
  BY <1>1, <1>2, <1>4, OneRequest DEF Stored
<1> QED
  BY <1>1, <1>5, Now, RequestStep

LEMMA ReconfigureInv ==
  ASSUME Inv, Reconfigure
  PROVE  Inv'
<1>1. /\ UNCHANGED <<tables, answers, acked, task, accepted, clock, crashes>>
      /\ req' = [r \in Requests |-> NoRequest] /\ channelReady' \in BOOLEAN
  BY Now DEF Reconfigure
<1>2. req' \in [Requests -> Req]
  BY <1>1, NoRequestType
<1>3. RequestsOK' /\ IndexOK'
  BY <1>1, NoRequestType, IdleRequest DEF RequestsOK, IndexOK
<1> QED
  BY <1>1, <1>2, <1>3, Now, RequestStep
-----------------------------------------------------------------------------
(* Steps of tasks that settle nothing. *)

\* Claim, Send and Crash leave the tables alone.
LEMMA TaskStep ==
  ASSUME Inv, UNCHANGED <<tables, answers, acked, req, channelReady, clock>>,
         task' \in [Workers -> [pc : {"idle", "sending", "done"}, row : 0..Len(outbox),
                               reply : {"none", "ack", "timeout", "error"}]],
         accepted' \in [ClientIds -> Nat], crashes' \in Nat,
         TasksOK', RowsLocked', CopiesOK', DoublesOK'
  PROVE  Inv'
<1> USE DEF Inv
<1>1. TypeOK'
  BY DEF TypeOK
<1>2. RequestsOK' /\ IndexOK'
  BY DEF RequestsOK, RequestOK, IndexOK, WithClient, Known
<1>3. OutboxOK' /\ AnnouncedOnce' /\ KeysOK'
  BY DEF OutboxOK, Of, Work, AnnouncedOnce, KeysOK, Known
<1> QED
  BY <1>1, <1>2, <1>3

\* The row a task holds, its message and its client id.
LEMMA TaskRow ==
  ASSUME Inv, NEW w \in Workers, task[w].pc # "idle"
  PROVE  /\ task[w].row \in DOMAIN outbox /\ outbox[task[w].row] \in Row
         /\ Of(task[w].row) \in DOMAIN messages
         /\ messages[Of(task[w].row)] \in Message
         /\ Client(task[w].row) \in ClientIds
         /\ messages[Of(task[w].row)].status = "queued"
         /\ task[w] \in Task /\ TaskOK(w)
<1> DEFINE i == task[w].row
<1>1. TaskOK(w) /\ task[w] \in Task
  BY Typed DEF Inv, TasksOK
<1>2. i \in DOMAIN outbox /\ outbox[i].topic = "send" /\ ~outbox[i].published
  BY <1>1 DEF TaskOK
<1>3. outbox[i] \in Row
  BY <1>2, Typed, Member DEF Inv
<1>4. Of(i) \in DOMAIN messages
  BY <1>2 DEF Inv, TypeOK, Of
<1>5. messages[Of(i)] \in Message
  BY <1>4, Typed, Member DEF Inv
<1>6. messages[Of(i)].status = "queued"
  BY <1>2 DEF Inv, OutboxOK
<1> QED
  BY <1>1, <1>2, <1>3, <1>4, <1>5, <1>6 DEF Client, Message

\* Two tasks never work for one client id.
LEMMA OneTaskPerClient ==
  ASSUME Inv, NEW v \in Workers, NEW w \in Workers, v # w,
         task[v].pc # "idle", task[w].pc # "idle"
  PROVE  Client(task[v].row) # Client(task[w].row)
<1> DEFINE i == task[v].row  j == task[w].row
<1>1. /\ i \in DOMAIN outbox /\ outbox[i].topic = "send" /\ Of(i) \in DOMAIN messages
      /\ j \in DOMAIN outbox /\ outbox[j].topic = "send" /\ Of(j) \in DOMAIN messages
  BY TaskRow DEF TaskOK
<1>2. i # j
  BY DEF Inv, RowsLocked
<1>3. Of(i) # Of(j)
  BY <1>1, <1>2 DEF Inv, OutboxOK
<1> QED
  BY <1>1, <1>3 DEF Inv, KeysOK, Client

\* What holds of a client id as long as the tables stay.
LEMMA SameTables ==
  ASSUME UNCHANGED tables
  PROVE  /\ \A c : WithClient(c)' = WithClient(c) /\ Queued(c)' = Queued(c)
         /\ \A i : Of(i)' = Of(i) /\ Client(i)' = Client(i)
BY DEF WithClient, Queued, Of, Client

LEMMA ClaimInv ==
  ASSUME Inv, NEW w \in Workers, Claim(w)
  PROVE  Inv'
<1>1. PICK i \in Claimable(w) :
        task' = [task EXCEPT ![w] =
            [NoTask EXCEPT !.row = i,
               !.pc = IF messages[outbox[i].of].status = "queued" THEN "sending" ELSE "done"]]
  BY DEF Claim
<1>2. /\ UNCHANGED <<tables, answers, acked, req, channelReady, accepted, clock, crashes>>
      /\ task[w].pc = "idle"
  BY DEF Claim
<1>3. /\ i \in DOMAIN outbox /\ outbox[i].topic = "send" /\ ~outbox[i].published
      /\ \A v \in Workers \ {w} : task[v].row # i
      /\ messages[outbox[i].of].status = "queued"
  BY DEF Claimable, Inv, OutboxOK, Of
<1> DEFINE x == [NoTask EXCEPT !.row = i, !.pc = "sending"]
<1>4. task' = [task EXCEPT ![w] = x]
  BY <1>1, <1>3
<1>4x. x.pc = "sending" /\ x.row = i /\ x.reply = "none"
       /\ x \in [pc : {"idle", "sending", "done"}, row : {i}, reply : {"none", "ack", "timeout", "error"}]
  BY DEF NoTask
<1> HIDE DEF x
<1>5. task \in [Workers -> Task] /\ i \in 0..Len(outbox)
  BY <1>3, Typed DEF Inv
<1>6. task'[w] = x /\ \A v \in Workers \ {w} : task'[v] = task[v]
  BY <1>4, <1>5
<1>7. task' \in [Workers -> [pc : {"idle", "sending", "done"}, row : 0..Len(outbox),
                            reply : {"none", "ack", "timeout", "error"}]]
  BY <1>4, <1>4x, <1>5 DEF Inv, TypeOK
<1>8. TasksOK'
  BY <1>2, <1>3, <1>4x, <1>6 DEF Inv, TasksOK, TaskOK, Client, Of
<1>9. RowsLocked'
  BY <1>3, <1>4x, <1>6 DEF Inv, RowsLocked
<1>10. \A c : Answered(c)' = Answered(c)
  BY <1>2, <1>4x, <1>6 DEF Answered, Client, Of
<1>11. CopiesOK'
  BY <1>2, <1>10, SameTables DEF Inv, CopiesOK
<1>12. DoublesOK'
  <2>1. Doubles' = Doubles /\ Exposed' = Exposed
    BY <1>2, <1>10, SameTables DEF Doubles, Exposed
  <2> QED
    BY <1>2, <2>1 DEF Inv, DoublesOK
<1> QED
  BY <1>2, <1>7, <1>8, <1>9, <1>11, <1>12, TaskStep DEF Inv, TypeOK

\* A message about to leave: no task answers for it, and a copy that left
\* before took a death.
LEMMA Sending ==
  ASSUME Inv, NEW w \in Workers, task[w].pc = "sending"
  PROVE  /\ Client(task[w].row) \in ClientIds /\ Queued(Client(task[w].row))
         /\ ~Answered(Client(task[w].row)) /\ accepted[Client(task[w].row)] <= crashes
<1>1. PICK c \in ClientIds : c = Client(task[w].row)
  BY TaskRow
<1>2. Queued(c)
  BY <1>1, TaskRow DEF Queued, WithClient, Client
<1>3. ~Answered(c)
  BY <1>1, OneTaskPerClient DEF Answered
<1>4. accepted[c] <= crashes
  BY <1>2, <1>3 DEF Inv, CopiesOK
<1> QED
  BY <1>1, <1>2, <1>3, <1>4

LEMMA SendInv ==
  ASSUME Inv, NEW w \in Workers, Send(w)
  PROVE  Inv'
<1>1. PICK reply \in {"ack", "timeout", "error"}, accept \in BOOLEAN, c \in ClientIds :
        /\ reply = "ack" => accept
        /\ task' = [task EXCEPT ![w].pc = "done", ![w].reply = reply]
        /\ accepted' = [accepted EXCEPT ![c] = IF accept THEN @ + 1 ELSE @]
        /\ c = Client(task[w].row)
  BY TaskRow DEF Send, Client, Of
<1>2. /\ UNCHANGED <<tables, answers, acked, req, channelReady, clock, crashes>>
      /\ task[w].pc = "sending"
  BY DEF Send
<1>3. /\ task \in [Workers -> Task] /\ accepted \in [ClientIds -> Nat] /\ crashes \in Nat
      /\ TaskOK(w) /\ Of(task[w].row) \in DOMAIN messages
      /\ messages[Of(task[w].row)].status = "queued"
  BY <1>2, Typed, TaskRow DEF Inv
<1>4. /\ task'[w] = [task[w] EXCEPT !.pc = "done", !.reply = reply]
      /\ \A v \in Workers \ {w} : task'[v] = task[v]
  BY <1>1, <1>3
<1>5. /\ task'[w].pc = "done" /\ task'[w].reply = reply /\ task'[w].row = task[w].row
  BY <1>3, <1>4 DEF Task
<1>6. /\ accepted' \in [ClientIds -> Nat]
      /\ accepted'[c] = IF accept THEN accepted[c] + 1 ELSE accepted[c]
      /\ \A d \in ClientIds \ {c} : accepted'[d] = accepted[d]
  BY <1>1, <1>3
<1>7. task' \in [Workers -> [pc : {"idle", "sending", "done"}, row : 0..Len(outbox),
                            reply : {"none", "ack", "timeout", "error"}]]
  BY <1>1 DEF Inv, TypeOK
<1>8. /\ \A d : Client(d)' = Client(d)
      /\ \A d : WithClient(d)' = WithClient(d) /\ Queued(d)' = Queued(d)
  BY <1>2, SameTables
<1>9. TasksOK'
  <2>1. ASSUME NEW v \in Workers PROVE TaskOK(v)'
    <3>1. CASE v = w
      BY <1>1, <1>2, <1>3, <1>5, <1>6, <1>8, <3>1 DEF TaskOK
    <3>2. CASE v # w /\ task[v].pc # "idle"
      <4>1. Client(task[v].row) \in ClientIds /\ Client(task[v].row) # c /\ TaskOK(v)
        BY <1>1, <1>2, <3>2, TaskRow, OneTaskPerClient
      <4>2. task'[v] = task[v]
        BY <1>4, <3>2
      <4>3. accepted'[Client(task[v].row)] = accepted[Client(task[v].row)]
        BY <1>6, <4>1
      <4> QED
        BY <1>2, <4>1, <4>2, <4>3 DEF TaskOK, Client, Of
    <3>3. CASE v # w /\ task[v].pc = "idle"
      BY <1>4, <3>3 DEF TaskOK
    <3> QED
      BY <3>1, <3>2, <3>3
  <2> QED
    BY <2>1 DEF TasksOK
<1>10. RowsLocked'
  <2>1. \A v \in Workers : task'[v].row = task[v].row /\ (task'[v].pc # "idle" => task[v].pc # "idle")
    BY <1>2, <1>4, <1>5
  <2> QED
    BY <2>1 DEF Inv, RowsLocked
<1>11. /\ Queued(c) /\ ~Answered(c) /\ Answered(c)' /\ c \in ClientIds
       /\ \A d \in ClientIds \ {c} : Answered(d)' <=> Answered(d)
  <2>1. Queued(c) /\ ~Answered(c)
    BY <1>1, <1>2, Sending
  <2>3. Answered(c)'
    BY <1>1, <1>5, <1>8 DEF Answered
  <2>4. ASSUME NEW d \in ClientIds \ {c} PROVE Answered(d)' <=> Answered(d)
    <3>1. Client(task[w].row) # d /\ Client(task[w].row)' # d
      BY <1>1, <1>2, <1>5 DEF Client, Of
    <3>2. \A v \in Workers \ {w} :
            (task[v].pc = "done" /\ Client(task[v].row) = d)'
              <=> task[v].pc = "done" /\ Client(task[v].row) = d
      BY <1>2, <1>4 DEF Client, Of
    <3> QED
      BY <3>1, <3>2 DEF Answered
  <2> QED
    BY <2>1, <2>3, <2>4
<1>12. accepted[c] <= crashes
  BY <1>1, <1>2, Sending
<1>13. CopiesOK'
  <2>1. ASSUME NEW d \in ClientIds
        PROVE  /\ WithClient(d)' = {} => accepted'[d] = 0
               /\ accepted'[d] <= crashes' + 1
               /\ Queued(d)' /\ ~Answered(d)' => accepted'[d] <= crashes'
    <3>1. CASE d = c
      <4>1. WithClient(c) # {}
        BY <1>11 DEF Queued
      <4>2. accepted'[c] <= crashes + 1
        BY <1>3, <1>6, <1>12
      <4> QED
        BY <1>2, <1>8, <1>11, <3>1, <4>1, <4>2
    <3>2. CASE d # c
      BY <1>2, <1>6, <1>8, <1>11, <3>2 DEF Inv, CopiesOK
    <3> QED
      BY <3>1, <3>2
  <2> QED
    BY <2>1 DEF CopiesOK
<1>14. DoublesOK'
  <2>0. /\ IsFiniteSet(Doubles) /\ IsFiniteSet(Exposed)
        /\ Cardinality(Doubles) + Cardinality(Exposed) <= crashes
        /\ Cardinality(Doubles) \in Nat /\ Cardinality(Exposed) \in Nat
    BY FS_CardinalityType DEF Inv, DoublesOK
  <2>1. Exposed' = Exposed \ {c}
    BY <1>6, <1>8, <1>11 DEF Exposed
  <2>2. /\ IsFiniteSet(Exposed')
        /\ Cardinality(Exposed') = IF c \in Exposed THEN Cardinality(Exposed) - 1
                                                    ELSE Cardinality(Exposed)
    BY <2>0, <2>1, FS_RemoveElement
  <2>3. CASE accept /\ accepted[c] > 0
    <3> DEFINE u == <<c, accepted[c] + 1>>
    <3>1. Doubles' = Doubles \union {u} /\ u \notin Doubles
      BY <1>3, <1>6, <2>3 DEF Doubles
    <3> HIDE DEF u
    <3>2. IsFiniteSet(Doubles') /\ Cardinality(Doubles') = Cardinality(Doubles) + 1
      BY <2>0, <3>1, FS_AddElement
    <3>3. c \in Exposed
      BY <1>11, <2>3 DEF Exposed
    <3> QED
      BY <1>2, <2>0, <2>2, <3>2, <3>3 DEF DoublesOK
  <2>4. CASE ~(accept /\ accepted[c] > 0)
    <3>1. Doubles' = Doubles
      BY <1>3, <1>6, <2>4 DEF Doubles
    <3>2. Cardinality(Exposed') <= Cardinality(Exposed) /\ Cardinality(Exposed') \in Nat
      BY <2>0, <2>2, FS_CardinalityType
    <3>3. Cardinality(Doubles') + Cardinality(Exposed') <= crashes'
      BY <1>2, <1>3, <2>0, <3>1, <3>2
    <3> QED
      BY <2>0, <2>2, <3>1, <3>3 DEF DoublesOK
  <2> QED
    BY <2>3, <2>4
<1> QED
  BY <1>2, <1>3, <1>6, <1>7, <1>9, <1>10, <1>13, <1>14, TaskStep

LEMMA CrashInv ==
  ASSUME Inv, NEW w \in Workers, Crash(w)
  PROVE  Inv'
<1>1. /\ UNCHANGED <<tables, answers, acked, req, channelReady, accepted, clock>>
      /\ task[w].pc # "idle" /\ task' = [task EXCEPT ![w] = NoTask]
      /\ crashes' = crashes + 1
  BY DEF Crash
<1>2. PICK c \in ClientIds : c = Client(task[w].row)
  BY <1>1, TaskRow
<1>3. /\ task \in [Workers -> Task] /\ accepted \in [ClientIds -> Nat] /\ crashes \in Nat
      /\ crashes' \in Nat
  BY <1>1, Typed DEF Inv
<1>4. task'[w] = NoTask /\ \A v \in Workers \ {w} : task'[v] = task[v]
  BY <1>1, <1>3
<1>5. task' \in [Workers -> [pc : {"idle", "sending", "done"}, row : 0..Len(outbox),
                            reply : {"none", "ack", "timeout", "error"}]]
  <2>1. NoTask \in [pc : {"idle", "sending", "done"}, row : 0..Len(outbox),
                    reply : {"none", "ack", "timeout", "error"}]
    BY Typed DEF NoTask, Inv
  <2> QED
    BY <1>1, <2>1 DEF Inv, TypeOK
<1>6. /\ \A d : Client(d)' = Client(d)
      /\ \A d : WithClient(d)' = WithClient(d) /\ Queued(d)' = Queued(d)
  BY <1>1, SameTables
<1>7. TasksOK' /\ RowsLocked'
  BY <1>1, <1>4, <1>6 DEF Inv, TasksOK, TaskOK, RowsLocked, NoTask
<1>8. \A d \in ClientIds \ {c} : Answered(d)' = Answered(d)
  BY <1>2, <1>4, <1>6 DEF Answered, NoTask
<1>9. CopiesOK'
  <2>1. \A d \in ClientIds : accepted[d] <= crashes + 1 /\ accepted[d] \in Nat
    BY <1>3 DEF Inv, CopiesOK
  <2> QED
    BY <1>1, <1>3, <1>6, <2>1 DEF Inv, CopiesOK
<1>10. DoublesOK'
  <2>0. /\ IsFiniteSet(Doubles) /\ IsFiniteSet(Exposed)
        /\ Cardinality(Doubles) + Cardinality(Exposed) <= crashes
        /\ Cardinality(Doubles) \in Nat /\ Cardinality(Exposed) \in Nat
    BY FS_CardinalityType DEF Inv, DoublesOK
  <2>1. Doubles' = Doubles
    BY <1>1 DEF Doubles
  <2>2. Exposed' \subseteq Exposed \union {c}
    BY <1>1, <1>6, <1>8 DEF Exposed
  <2>3. /\ IsFiniteSet(Exposed \union {c})
        /\ Cardinality(Exposed \union {c}) <= Cardinality(Exposed) + 1
        /\ Cardinality(Exposed \union {c}) \in Nat
    <3>1. /\ IsFiniteSet(Exposed \union {c})
          /\ Cardinality(Exposed \union {c}) = IF c \in Exposed THEN Cardinality(Exposed)
                                               ELSE Cardinality(Exposed) + 1
      BY <2>0, FS_AddElement
    <3>2. CASE c \in Exposed
      BY <2>0, <3>1, <3>2
    <3>3. CASE c \notin Exposed
      BY <2>0, <3>1, <3>3
    <3> QED
      BY <3>1, <3>2, <3>3
  <2>4. /\ IsFiniteSet(Exposed') /\ Cardinality(Exposed') \in Nat
        /\ Cardinality(Exposed') <= Cardinality(Exposed \union {c})
    BY <2>2, <2>3, FS_Subset, FS_CardinalityType
  <2> QED
    BY <1>1, <1>3, <2>0, <2>1, <2>3, <2>4 DEF DoublesOK
<1> QED
  BY <1>1, <1>3, <1>5, <1>7, <1>9, <1>10, TaskStep
-----------------------------------------------------------------------------
(* Steps that write the tables. *)

LEMMA Updated ==
  ASSUME NEW S, NEW q \in Seq(S), NEW i \in DOMAIN q, NEW x \in S
  PROVE  /\ [q EXCEPT ![i] = x] \in Seq(S)
         /\ Len([q EXCEPT ![i] = x]) = Len(q) /\ DOMAIN [q EXCEPT ![i] = x] = DOMAIN q
         /\ [q EXCEPT ![i] = x][i] = x
         /\ \A j \in DOMAIN q \ {i} : [q EXCEPT ![i] = x][j] = q[j]
OBVIOUS

\* What Publish does: row i of task w is published and its message m settled.
Settles(w, i, m, st) ==
  /\ i = task[w].row /\ m = Of(i) /\ st = Settled(task[w].reply)
  /\ task[w].pc = "done" /\ task[w].reply # "none"
  /\ outbox[i].topic = "send" /\ ~outbox[i].published
  /\ messages[m].status = "queued"
  /\ messages' \in Seq(Message) /\ Len(messages') = Len(messages)
  /\ DOMAIN messages' = DOMAIN messages
  /\ \A k \in DOMAIN messages : /\ messages'[k].client = messages[k].client
                                /\ messages'[k].content = messages[k].content
  /\ messages'[m].status = st
  /\ \A k \in DOMAIN messages \ {m} : messages'[k] = messages[k]
  /\ outbox' \in Seq(Row) /\ Len(outbox') = Len(outbox) /\ DOMAIN outbox' = DOMAIN outbox
  /\ \A k \in DOMAIN outbox : /\ outbox'[k].topic = outbox[k].topic
                              /\ outbox'[k].of = outbox[k].of
  /\ outbox'[i].published
  /\ \A k \in DOMAIN outbox \ {i} : outbox'[k] = outbox[k]
  /\ events' \in Seq(Seq(MessageStatuses)) /\ Len(events') = Len(events)
  /\ \A k \in DOMAIN messages \ {m} : events'[k] = events[k]
  /\ events[m] \in Seq(MessageStatuses)
  /\ events'[m] = Append(events[m], st)
  /\ task \in [Workers -> Task] /\ task' = [task EXCEPT ![w] = NoTask]
  /\ UNCHANGED <<receipts, answers, acked, req, channelReady, accepted, clock, crashes>>

LEMMA PublishStep ==
  ASSUME Inv, NEW w \in Workers, Publish(w)
  PROVE  \E i \in DOMAIN outbox, m \in DOMAIN messages, st \in {"sent", "unknown", "failed"} :
           Settles(w, i, m, st)
<1> DEFINE i == task[w].row  m == Of(i)  st == Settled(task[w].reply)
           x == [messages[m] EXCEPT !.status = st]
           y == [outbox[i] EXCEPT !.published = TRUE]
<1>1. /\ task[w].pc = "done"
      /\ UNCHANGED <<receipts, answers, acked, req, channelReady, accepted, clock, crashes>>
      /\ task' = [task EXCEPT ![w] = NoTask]
  BY DEF Publish
<1>2. /\ i \in DOMAIN outbox /\ m \in DOMAIN messages /\ outbox[i] \in Row /\ messages[m] \in Message
      /\ messages[m].status = "queued" /\ task[w] \in Task /\ TaskOK(w)
  BY <1>1, TaskRow
<1>3. /\ outbox[i].topic = "send" /\ ~outbox[i].published /\ task[w].reply # "none"
  BY <1>1, <1>2 DEF TaskOK
<1>4. st \in {"sent", "unknown", "failed"}
  BY DEF Settled
<1>5. /\ outbox' = [outbox EXCEPT ![i] = y]
      /\ messages' = [messages EXCEPT ![m] = x]
      /\ events' = [events EXCEPT ![m] = Append(events[m], st)]
  BY <1>3 DEF Publish, Of
<1>6. /\ x \in Message /\ x.client = messages[m].client /\ x.content = messages[m].content
      /\ x.status = st
  BY <1>2, <1>4 DEF Message, MessageStatuses
<1>7. y \in Row /\ y.topic = outbox[i].topic /\ y.of = outbox[i].of /\ y.published
  BY <1>2 DEF Row
<1>8. /\ events \in Seq(Seq(MessageStatuses)) /\ m \in DOMAIN events /\ DOMAIN events = DOMAIN messages
      /\ messages \in Seq(Message) /\ outbox \in Seq(Row) /\ task \in [Workers -> Task]
  BY <1>2, Typed DEF Inv
<1>9. events[m] \in Seq(MessageStatuses) /\ Append(events[m], st) \in Seq(MessageStatuses)
  <2>1. st \in MessageStatuses
    BY <1>4 DEF MessageStatuses
  <2>2. events[m] \in Seq(MessageStatuses)
    BY <1>8, Member
  <2> QED
    BY <2>1, <2>2, Appended
<1> HIDE DEF i, m, st, x, y
<1>10. /\ messages' \in Seq(Message) /\ Len(messages') = Len(messages)
       /\ DOMAIN messages' = DOMAIN messages /\ messages'[m] = x
       /\ \A k \in DOMAIN messages \ {m} : messages'[k] = messages[k]
  BY <1>2, <1>5, <1>6, <1>8, Updated
<1>11. /\ outbox' \in Seq(Row) /\ Len(outbox') = Len(outbox)
       /\ DOMAIN outbox' = DOMAIN outbox /\ outbox'[i] = y
       /\ \A k \in DOMAIN outbox \ {i} : outbox'[k] = outbox[k]
  BY <1>2, <1>5, <1>7, <1>8, Updated
<1>12. /\ events' \in Seq(Seq(MessageStatuses)) /\ Len(events') = Len(events)
       /\ events'[m] = Append(events[m], st)
       /\ \A k \in DOMAIN messages \ {m} : events'[k] = events[k]
  BY <1>2, <1>5, <1>8, <1>9, Updated
<1>13. i = task[w].row /\ m = Of(i) /\ st = Settled(task[w].reply)
  BY DEF i, m, st
<1>14. \A k \in DOMAIN messages : /\ messages'[k].client = messages[k].client
                                  /\ messages'[k].content = messages[k].content
  BY <1>6, <1>10
<1>15. \A k \in DOMAIN outbox : /\ outbox'[k].topic = outbox[k].topic
                                /\ outbox'[k].of = outbox[k].of
  BY <1>7, <1>11
<1> QED
  BY <1>1, <1>2, <1>3, <1>4, <1>6, <1>7, <1>8, <1>9, <1>10, <1>11, <1>12, <1>13, <1>14, <1>15
  DEF Settles

LEMMA PublishInv ==
  ASSUME Inv, NEW w \in Workers, Publish(w)
  PROVE  Inv'
<1>1. PICK i \in DOMAIN outbox, m \in DOMAIN messages, st \in {"sent", "unknown", "failed"} :
           Settles(w, i, m, st)
  BY PublishStep
<1> USE DEF Settles
<1>2. task'[w] = NoTask /\ \A v \in Workers \ {w} : task'[v] = task[v]
  BY <1>1
<1>3. PICK c \in ClientIds : c = Client(i)
  BY <1>1, TaskRow
<1>4. messages[m].client = c
  BY <1>1, <1>3 DEF Client
<1>5. \A d : WithClient(d)' = WithClient(d)
  BY <1>1 DEF WithClient
<1>6. \A k \in DOMAIN outbox : outbox[k].topic = "send" => Of(k) \in DOMAIN messages
  BY DEF Inv, TypeOK, Of
<1>7. \A k \in DOMAIN outbox : Of(k)' = Of(k) /\ (outbox[k].topic = "send" => Client(k)' = Client(k))
  BY <1>1, <1>6 DEF Of, Client
<1>8. TypeOK'
  <2>1. /\ messages' \in Seq([client : ClientIds, content : Contents, status : MessageStatuses])
        /\ outbox' \in Seq([topic : {"send", "received"}, of : Nat, stamp : Nat, published : BOOLEAN])
        /\ events' \in Seq(Seq(MessageStatuses)) /\ Len(events') = Len(messages')
    BY <1>1, Typed DEF Message, Row, Inv
  <2>2. \A k \in DOMAIN outbox' :
          outbox'[k].of \in IF outbox'[k].topic = "send" THEN DOMAIN messages' ELSE DOMAIN receipts'
    <3>1. \A k \in DOMAIN outbox :
            outbox[k].of \in IF outbox[k].topic = "send" THEN DOMAIN messages ELSE DOMAIN receipts
      BY DEF Inv, TypeOK
    <3>2. /\ DOMAIN outbox' = DOMAIN outbox /\ DOMAIN messages' = DOMAIN messages /\ receipts' = receipts
          /\ \A k \in DOMAIN outbox : outbox'[k].topic = outbox[k].topic /\ outbox'[k].of = outbox[k].of
      BY <1>1
    <3> HIDE DEF Settles
    <3> QED
      BY <3>1, <3>2
  <2>3. task' \in [Workers -> [pc : {"idle", "sending", "done"}, row : 0..Len(outbox'),
                               reply : {"none", "ack", "timeout", "error"}]]
    <3>1. NoTask \in [pc : {"idle", "sending", "done"}, row : 0..Len(outbox'),
                      reply : {"none", "ack", "timeout", "error"}]
      BY <1>1, Typed DEF NoTask, Inv
    <3>2. task \in [Workers -> [pc : {"idle", "sending", "done"}, row : 0..Len(outbox'),
                               reply : {"none", "ack", "timeout", "error"}]]
      BY <1>1 DEF Inv, TypeOK
    <3> QED
      BY <1>1, <3>1, <3>2
  <2>4. answers' \subseteq ClientIds \X Contents \X DOMAIN messages'
    BY <1>1 DEF Inv, TypeOK
  <2>5. /\ receipts' \in Seq(ExternalIds) /\ acked' \subseteq ExternalIds
        /\ channelReady' \in BOOLEAN /\ accepted' \in [ClientIds -> Nat]
        /\ clock' \in Nat /\ crashes' \in Nat
        /\ req' \in [Requests -> [pc : {"idle", "new", "inserted", "delivered", "received"},
                           id : ClientIds \union ExternalIds \union {None},
                           content : Contents \union {None}, stamp : Nat]]
    BY <1>1 DEF Inv, TypeOK
  <2> QED
    BY <2>1, <2>2, <2>3, <2>4, <2>5 DEF TypeOK
<1>9. RequestsOK' /\ IndexOK'
  BY <1>1, <1>5 DEF Inv, RequestsOK, RequestOK, IndexOK, Known
<1>10. \A v \in Workers \ {w} :
         task[v].pc # "idle" =>
           /\ task[v].row \in DOMAIN outbox /\ task[v].row # i
           /\ outbox'[task[v].row] = outbox[task[v].row]
           /\ Client(task[v].row)' = Client(task[v].row)
  <2>1. ASSUME NEW v \in Workers \ {w}, task[v].pc # "idle"
        PROVE  /\ task[v].row \in DOMAIN outbox /\ task[v].row # i
               /\ outbox'[task[v].row] = outbox[task[v].row]
               /\ Client(task[v].row)' = Client(task[v].row)
    <3>1. /\ task[v].row \in DOMAIN outbox /\ outbox[task[v].row].topic = "send"
          /\ Of(task[v].row) \in DOMAIN messages
      BY <2>1, TaskRow DEF TaskOK
    <3>2. task[v].row # i
      BY <1>1, <2>1 DEF Inv, RowsLocked
    <3> QED
      BY <1>1, <1>2, <3>1, <3>2 DEF Client, Of
  <2> QED
    BY <2>1
<1>11. TasksOK'
  <2>1. ASSUME NEW v \in Workers PROVE TaskOK(v)'
    <3>1. CASE v = w
      BY <1>2, <3>1 DEF TaskOK, NoTask
    <3>2. CASE v # w /\ task[v].pc = "idle"
      BY <1>2, <3>2 DEF TaskOK
    <3>3. CASE v # w /\ task[v].pc # "idle"
      <4>1. TaskOK(v)
        BY DEF Inv, TasksOK
      <4> QED
        BY <1>1, <1>2, <1>10, <3>3, <4>1 DEF TaskOK
    <3> QED
      BY <3>1, <3>2, <3>3
  <2> QED
    BY <2>1 DEF TasksOK
<1>12. RowsLocked'
  BY <1>2 DEF Inv, RowsLocked, NoTask
<1>13. OutboxOK'
  <2>1. \A k \in DOMAIN outbox \ {i} : outbox[k].topic = "send" => Of(k) # m
    BY <1>1 DEF Inv, OutboxOK
  <2>2. ASSUME NEW k \in DOMAIN outbox'
        PROVE  /\ outbox'[k].topic = "send" /\ ~outbox'[k].published
                   => messages'[Of(k)'].status = "queued"
               /\ outbox'[k].topic = "received" => ~outbox'[k].published
               /\ \A j \in DOMAIN outbox' :
                    outbox'[k].topic = outbox'[j].topic /\ Of(k)' = Of(j)' => k = j
    <3>1. outbox'[k].topic = "send" /\ ~outbox'[k].published => messages'[Of(k)'].status = "queued"
      <4>1. CASE k = i
        BY <1>1, <4>1
      <4>2. CASE k # i /\ outbox[k].topic = "send" /\ ~outbox[k].published
        <5>1. Of(k) \in DOMAIN messages \ {m} /\ messages[Of(k)].status = "queued"
          BY <1>1, <1>6, <2>1, <4>2 DEF Inv, OutboxOK
        <5>2. messages'[Of(k)] = messages[Of(k)] /\ Of(k)' = Of(k)
          BY <1>1, <1>7, <5>1
        <5> QED
          BY <5>1, <5>2
      <4> QED
        BY <1>1, <4>1, <4>2
    <3>2. outbox'[k].topic = "received" => ~outbox'[k].published
      <4>1. k \in DOMAIN outbox /\ outbox'[k].topic = outbox[k].topic
        BY <1>1
      <4>2. outbox[k].topic = "received" => ~outbox[k].published /\ outbox'[k] = outbox[k]
        BY <1>1, <4>1 DEF Inv, OutboxOK
      <4> QED
        BY <4>1, <4>2
    <3>3. \A j \in DOMAIN outbox' :
            outbox'[k].topic = outbox'[j].topic /\ Of(k)' = Of(j)' => k = j
      <4>1. ASSUME NEW j \in DOMAIN outbox, NEW l \in DOMAIN outbox,
                   outbox[l].topic = outbox[j].topic, Of(l) = Of(j)
            PROVE  l = j
        BY <4>1 DEF Inv, OutboxOK
      <4>2. /\ DOMAIN outbox' = DOMAIN outbox
            /\ \A j \in DOMAIN outbox : outbox'[j].topic = outbox[j].topic /\ Of(j)' = Of(j)
        BY <1>1, <1>7
      <4> HIDE DEF Settles
      <4> QED
        BY <4>1, <4>2
    <3> QED
      BY <3>1, <3>2, <3>3
  <2>3. ASSUME NEW n \in DOMAIN messages', messages'[n].status = "queued"
        PROVE  Work("send", n)' # {}
    <3>1. n \in DOMAIN messages /\ n # m /\ messages[n].status = "queued"
      BY <1>1, <2>3
    <3>2. PICK k \in Work("send", n) : TRUE
      BY <3>1 DEF Inv, OutboxOK
    <3>3. k \in DOMAIN outbox \ {i} /\ outbox[k].topic = "send" /\ outbox[k].of = n /\ ~outbox[k].published
      BY <1>1, <3>1, <3>2 DEF Work, Of
    <3>4. k \in Work("send", n)'
      BY <1>1, <3>3 DEF Work
    <3> QED
      BY <3>4
  <2>4. ASSUME NEW n \in DOMAIN receipts'
        PROVE  Work("received", n)' # {}
    <3>1. PICK k \in Work("received", n) : TRUE
      BY <1>1 DEF Inv, OutboxOK
    <3>2. k \in DOMAIN outbox \ {i} /\ outbox[k].topic = "received" /\ outbox[k].of = n /\ ~outbox[k].published
      BY <1>1, <3>1 DEF Work
    <3>3. k \in Work("received", n)'
      BY <1>1, <3>2 DEF Work
    <3> QED
      BY <3>3
  <2> QED
    BY <2>2, <2>3, <2>4 DEF OutboxOK
<1>14. KeysOK'
  <2>1. \A a \in answers : a[3] \in DOMAIN messages
    BY DEF Inv, TypeOK
  <2>2. \A a \in answers' : messages'[a[3]].client = a[1] /\ messages'[a[3]].content = a[2]
    BY <1>1, <2>1 DEF Inv, KeysOK
  <2>3. \A k, n \in DOMAIN messages' : messages'[k].client = messages'[n].client => k = n
    <3>1. \A k, n \in DOMAIN messages : messages[k].client = messages[n].client => k = n
      BY DEF Inv, KeysOK
    <3>2. DOMAIN messages' = DOMAIN messages /\ \A k \in DOMAIN messages : messages'[k].client = messages[k].client
      BY <1>1
    <3> QED
      BY <3>1, <3>2
  <2>4. /\ \A k, j \in DOMAIN receipts' : receipts'[k] = receipts'[j] => k = j
        /\ \A e \in acked' : Known(e)'
    BY <1>1 DEF Inv, KeysOK, Known
  <2> QED
    BY <2>2, <2>3, <2>4 DEF KeysOK
<1>15. AnnouncedOnce'
  <2>1. ASSUME NEW k \in DOMAIN messages
        PROVE  /\ Len(events'[k]) = IF messages'[k].status \in {"draft", "queued"} THEN 1 ELSE 2
               /\ events'[k][Len(events'[k])] = messages'[k].status
    <3>1. CASE k = m
      <4>1. Len(events[m]) = 1
        BY <1>1 DEF Inv, AnnouncedOnce
      <4>2. st \in MessageStatuses
        BY DEF MessageStatuses
      <4>3. Len(events'[m]) = 2 /\ events'[m][2] = st
        <5>1. /\ Len(events[m]) \in Nat /\ Len(Append(events[m], st)) = Len(events[m]) + 1
              /\ Append(events[m], st)[Len(events[m]) + 1] = st
          BY <1>1, <4>2, Appended
        <5>2. Len(events[m]) + 1 = 2
          BY <4>1
        <5> QED
          BY <1>1, <5>1, <5>2
      <4> QED
        BY <1>1, <3>1, <4>3
    <3>2. CASE k # m
      BY <1>1, <3>2 DEF Inv, AnnouncedOnce
    <3> QED
      BY <3>1, <3>2
  <2> QED
    BY <1>1, <2>1 DEF AnnouncedOnce
<1>16. Answered(c) /\ ~Queued(c)'
  <2>1. Answered(c)
    BY <1>1, <1>3 DEF Answered
  <2>2. \A k \in WithClient(c) : k = m
    BY <1>4 DEF Inv, KeysOK, WithClient
  <2> QED
    BY <1>1, <1>5, <2>1, <2>2 DEF Queued
<1>17. ASSUME NEW d \in ClientIds \ {c}
       PROVE  (Queued(d)' <=> Queued(d)) /\ (Answered(d)' <=> Answered(d))
  <2>1. \A k \in WithClient(d) : k \in DOMAIN messages \ {m}
    BY <1>4 DEF WithClient
  <2>2. Queued(d)' <=> Queued(d)
    BY <1>1, <1>5, <2>1 DEF Queued
  <2>3. \A v \in Workers \ {w} :
          (task[v].pc = "done" /\ Client(task[v].row) = d)'
            <=> task[v].pc = "done" /\ Client(task[v].row) = d
    <3>1. ASSUME NEW v \in Workers \ {w}
          PROVE  (task[v].pc = "done" /\ Client(task[v].row) = d)'
                   <=> task[v].pc = "done" /\ Client(task[v].row) = d
      BY <1>2, <1>10
    <3> QED
      BY <3>1
  <2>4. task'[w].pc # "done" /\ Client(task[w].row) # d
    BY <1>1, <1>2, <1>3 DEF NoTask
  <2>5. Answered(d)' <=> Answered(d)
    BY <2>3, <2>4 DEF Answered
  <2> QED
    BY <2>2, <2>5
<1>18. CopiesOK'
  <2>1. ASSUME NEW d \in ClientIds
        PROVE  /\ WithClient(d)' = {} => accepted'[d] = 0
               /\ accepted'[d] <= crashes' + 1
               /\ Queued(d)' /\ ~Answered(d)' => accepted'[d] <= crashes'
    BY <1>1, <1>5, <1>16, <1>17 DEF Inv, CopiesOK
  <2> QED
    BY <2>1 DEF CopiesOK
<1>19. DoublesOK'
  <2>1. Doubles' = Doubles
    BY <1>1 DEF Doubles
  <2>2. Exposed' = Exposed
    BY <1>1, <1>16, <1>17 DEF Exposed
  <2> QED
    BY <1>1, <2>1, <2>2 DEF Inv, DoublesOK
<1> QED
  BY <1>8, <1>9, <1>11, <1>12, <1>13, <1>14, <1>15, <1>18, <1>19 DEF Inv

\* What a commit that only appends leaves alone.
LEMMA RowsKept ==
  ASSUME Inv, UNCHANGED <<task, accepted, crashes>>,
         DOMAIN outbox \subseteq DOMAIN outbox', \A k \in DOMAIN outbox : outbox'[k] = outbox[k],
         DOMAIN messages \subseteq DOMAIN messages',
         \A k \in DOMAIN messages : messages'[k] = messages[k]
  PROVE  TasksOK' /\ RowsLocked' /\ \A d : Answered(d)' <=> Answered(d)
<1>1. \A v \in Workers : task[v].pc # "idle" =>
        /\ task[v].row \in DOMAIN outbox
        /\ outbox'[task[v].row] = outbox[task[v].row]
        /\ Client(task[v].row)' = Client(task[v].row)
  BY TaskRow DEF Client, Of
<1>2. TasksOK'
  BY <1>1 DEF Inv, TasksOK, TaskOK
<1>3. RowsLocked'
  BY DEF Inv, RowsLocked
<1>4. \A d : Answered(d)' <=> Answered(d)
  BY <1>1 DEF Answered
<1> QED
  BY <1>2, <1>3, <1>4

\* What Commit does: message n of client id c appears, and its work if it is
\* queued.
Stores(r, c, b, n, st) ==
  /\ c = req[r].id /\ WithClient(c) = {} /\ req[r].pc = "inserted"
  /\ n = Len(messages) + 1 /\ n \notin DOMAIN messages
  /\ messages' \in Seq(Message) /\ Len(messages') = n
  /\ DOMAIN messages' = DOMAIN messages \union {n}
  /\ \A k \in DOMAIN messages : messages'[k] = messages[k]
  /\ messages'[n] = [client |-> c, content |-> b, status |-> st]
  /\ events' \in Seq(Seq(MessageStatuses)) /\ Len(events') = n
  /\ \A k \in DOMAIN messages : events'[k] = events[k]
  /\ events'[n] = <<st>>
  /\ outbox' \in Seq(Row) /\ DOMAIN outbox \subseteq DOMAIN outbox' /\ 0..Len(outbox) \subseteq 0..Len(outbox')
  /\ \A k \in DOMAIN outbox : outbox'[k] = outbox[k]
  /\ \A k \in DOMAIN outbox' \ DOMAIN outbox :
       /\ k = Len(outbox) + 1 /\ st = "queued"
       /\ outbox'[k].topic = "send" /\ outbox'[k].of = n /\ ~outbox'[k].published
  /\ st = "queued" => Len(outbox) + 1 \in DOMAIN outbox' \ DOMAIN outbox
  /\ answers' = answers \union {<<c, b, n>>}
  /\ req' = [req EXCEPT ![r] = NoRequest]
  /\ UNCHANGED <<receipts, acked, task, channelReady, accepted, clock, crashes>>

LEMMA CommitStep ==
  ASSUME Inv, NEW r \in Requests, Commit(r)
  PROVE  \E c \in ClientIds, b \in Contents, n \in Nat, st \in {"draft", "queued"} :
           Stores(r, c, b, n, st)
<1> DEFINE c == req[r].id  b == req[r].content  n == Len(messages) + 1
           st == IF channelReady THEN "queued" ELSE "draft"
           x == [client |-> c, content |-> b, status |-> st]
           y == [topic |-> "send", of |-> n, stamp |-> req[r].stamp, published |-> FALSE]
<1>1. /\ req[r].pc = "inserted"
      /\ messages' = Append(messages, x) /\ events' = Append(events, <<st>>)
      /\ outbox' = IF channelReady THEN Append(outbox, y) ELSE outbox
      /\ answers' = answers \union {<<c, b, n>>} /\ req' = [req EXCEPT ![r] = NoRequest]
      /\ UNCHANGED <<receipts, acked, task, channelReady, accepted, clock, crashes>>
  BY DEF Commit, Intent
<1>2. c \in ClientIds /\ b \in Contents /\ WithClient(c) = {}
  BY <1>1 DEF Inv, RequestsOK, RequestOK
<1>3. st \in {"draft", "queued"} /\ st \in MessageStatuses /\ n \in Nat
  BY Typed DEF MessageStatuses, Inv
<1>4. x \in Message /\ <<st>> \in Seq(MessageStatuses)
  BY <1>2, <1>3 DEF Message
<1>5. y \in Row /\ y.topic = "send" /\ y.of = n /\ ~y.published
  BY <1>3, Now DEF Row, Req
<1>6. /\ messages \in Seq(Message) /\ outbox \in Seq(Row) /\ events \in Seq(Seq(MessageStatuses))
      /\ Len(events) = Len(messages) /\ DOMAIN events = DOMAIN messages
      /\ channelReady \in BOOLEAN
  BY Typed DEF Inv, TypeOK
<1> HIDE DEF x, y
<1>7. /\ messages' \in Seq(Message) /\ Len(messages') = n /\ n \notin DOMAIN messages
      /\ DOMAIN messages' = DOMAIN messages \union {n}
      /\ \A k \in DOMAIN messages : messages'[k] = messages[k]
      /\ messages'[n] = x
  BY <1>1, <1>4, <1>6, Appended
<1>8. /\ events' \in Seq(Seq(MessageStatuses)) /\ Len(events') = n
      /\ \A k \in DOMAIN messages : events'[k] = events[k]
      /\ events'[n] = <<st>>
  BY <1>1, <1>4, <1>6, Appended
<1>9. /\ outbox' \in Seq(Row) /\ DOMAIN outbox \subseteq DOMAIN outbox'
      /\ 0..Len(outbox) \subseteq 0..Len(outbox')
      /\ \A k \in DOMAIN outbox : outbox'[k] = outbox[k]
      /\ \A k \in DOMAIN outbox' \ DOMAIN outbox :
           k = Len(outbox) + 1 /\ st = "queued" /\ outbox'[k] = y
      /\ st = "queued" => Len(outbox) + 1 \in DOMAIN outbox' \ DOMAIN outbox
  <2>1. CASE channelReady
    <3>1. outbox' = Append(outbox, y) /\ st = "queued"
      BY <1>1, <2>1
    <3> HIDE DEF st
    <3> QED
      BY <1>5, <1>6, <3>1, Appended
  <2>2. CASE ~channelReady
    BY <1>1, <1>6, <2>2
  <2> QED
    BY <2>1, <2>2
<1>10. x = [client |-> c, content |-> b, status |-> st]
  BY DEF x
<1> HIDE DEF c, b, n, st
<1>11. c = req[r].id /\ n = Len(messages) + 1
  BY DEF c, n
<1> QED
  BY <1>1, <1>2, <1>3, <1>5, <1>7, <1>8, <1>9, <1>10, <1>11 DEF Stores

LEMMA CommitInv ==
  ASSUME Inv, NEW r \in Requests, Commit(r)
  PROVE  Inv'
<1>1. PICK c \in ClientIds, b \in Contents, n \in Nat, st \in {"draft", "queued"} :
        Stores(r, c, b, n, st)
  BY CommitStep
<1> USE DEF Stores
<1>2. /\ messages'[n].client = c /\ messages'[n].content = b /\ messages'[n].status = st
  BY <1>1
<1>3. /\ \A k \in DOMAIN messages : messages[k].client # c
      /\ WithClient(c)' = {n} /\ \A d : d # c => WithClient(d)' = WithClient(d)
  BY <1>1, <1>2 DEF WithClient
<1>4. \A k \in DOMAIN outbox :
        /\ Of(k)' = Of(k)
        /\ outbox[k].topic = "send" => Of(k) \in DOMAIN messages
        /\ outbox[k].topic = "received" => Of(k) \in DOMAIN receipts
  <2>1. \A k \in DOMAIN outbox :
          outbox[k].of \in IF outbox[k].topic = "send" THEN DOMAIN messages ELSE DOMAIN receipts
    BY DEF Inv, TypeOK
  <2> QED
    BY <1>1, <2>1 DEF Of
<1>5. \A k \in DOMAIN outbox' \ DOMAIN outbox : Of(k)' = n
  BY <1>1 DEF Of
<1>6. TasksOK' /\ RowsLocked' /\ \A d : Answered(d)' <=> Answered(d)
  BY <1>1, RowsKept
<1>7. req' \in [Requests -> Req] /\ req'[r] = NoRequest /\ \A s \in Requests \ {r} : req'[s] = req[s]
  BY <1>1, Now, NoRequestType
<1>8. TypeOK'
  <2>1. /\ messages' \in Seq([client : ClientIds, content : Contents, status : MessageStatuses])
        /\ outbox' \in Seq([topic : {"send", "received"}, of : Nat, stamp : Nat, published : BOOLEAN])
        /\ events' \in Seq(Seq(MessageStatuses)) /\ Len(events') = Len(messages')
    BY <1>1 DEF Message, Row
  <2>2. \A k \in DOMAIN outbox' :
          outbox'[k].of \in IF outbox'[k].topic = "send" THEN DOMAIN messages' ELSE DOMAIN receipts'
    <3>1. \A k \in DOMAIN outbox :
            outbox[k].of \in IF outbox[k].topic = "send" THEN DOMAIN messages ELSE DOMAIN receipts
      BY DEF Inv, TypeOK
    <3> QED
      BY <1>1, <3>1
  <2>3. task' \in [Workers -> [pc : {"idle", "sending", "done"}, row : 0..Len(outbox'),
                               reply : {"none", "ack", "timeout", "error"}]]
    <3>1. task \in [Workers -> [pc : {"idle", "sending", "done"}, row : 0..Len(outbox),
                               reply : {"none", "ack", "timeout", "error"}]]
      BY DEF Inv, TypeOK
    <3>2. task' = task /\ 0..Len(outbox) \subseteq 0..Len(outbox')
      BY <1>1
    <3> QED
      BY <3>1, <3>2
  <2>4. answers' \subseteq ClientIds \X Contents \X DOMAIN messages'
    <3>1. answers \subseteq ClientIds \X Contents \X DOMAIN messages
      BY DEF Inv, TypeOK
    <3> QED
      BY <1>1, <3>1
  <2>5. req' \in [Requests -> [pc : {"idle", "new", "inserted", "delivered", "received"},
                           id : ClientIds \union ExternalIds \union {None},
                           content : Contents \union {None}, stamp : Nat]]
    BY <1>7 DEF Req
  <2>6. /\ receipts' \in Seq(ExternalIds) /\ acked' \subseteq ExternalIds
        /\ channelReady' \in BOOLEAN /\ accepted' \in [ClientIds -> Nat]
        /\ clock' \in Nat /\ crashes' \in Nat
    BY <1>1 DEF Inv, TypeOK
  <2> QED
    BY <2>1, <2>2, <2>3, <2>4, <2>5, <2>6 DEF TypeOK
<1>9. RequestsOK' /\ IndexOK'
  <2>1. ASSUME NEW s \in Requests PROVE RequestOK(s)'
    <3>1. CASE s = r
      BY <1>7, <3>1, IdleRequest
    <3>2. CASE s # r
      <4>1. RequestOK(s) /\ (req[s].pc = "inserted" => req[s].id # c)
        BY <1>1, <3>2 DEF Inv, RequestsOK, IndexOK, Stored
      <4> QED
        BY <1>1, <1>3, <1>7, <3>2, <4>1 DEF RequestOK, Known
    <3> QED
      BY <3>1, <3>2
  <2>2. IndexOK'
    BY <1>7, NoRequestType DEF Inv, IndexOK
  <2> QED
    BY <2>1, <2>2 DEF RequestsOK
<1>10. OutboxOK'
  <2>1. ASSUME NEW k \in DOMAIN outbox'
        PROVE  outbox'[k].topic = "send" /\ ~outbox'[k].published => messages'[Of(k)'].status = "queued"
    <3>1. CASE k \in DOMAIN outbox
      BY <1>1, <1>4, <3>1 DEF Inv, OutboxOK
    <3>2. CASE k \notin DOMAIN outbox
      BY <1>1, <1>2, <1>5, <3>2
    <3> QED
      BY <3>1, <3>2
  <2>2. \A k \in DOMAIN outbox' : outbox'[k].topic = "received" => ~outbox'[k].published
    BY <1>1 DEF Inv, OutboxOK
  <2>3. ASSUME NEW k \in DOMAIN outbox', NEW j \in DOMAIN outbox',
               outbox'[k].topic = outbox'[j].topic, Of(k)' = Of(j)'
        PROVE  k = j
    <3>1. CASE k \in DOMAIN outbox /\ j \in DOMAIN outbox
      BY <1>1, <1>4, <2>3, <3>1 DEF Inv, OutboxOK
    <3>2. CASE k \notin DOMAIN outbox /\ j \notin DOMAIN outbox
      BY <1>1, <3>2
    <3>3. CASE k \in DOMAIN outbox /\ j \notin DOMAIN outbox
      BY <1>1, <1>4, <1>5, <2>3, <3>3
    <3>4. CASE k \notin DOMAIN outbox /\ j \in DOMAIN outbox
      BY <1>1, <1>4, <1>5, <2>3, <3>4
    <3> QED
      BY <3>1, <3>2, <3>3, <3>4
  <2>4. ASSUME NEW m \in DOMAIN messages', messages'[m].status = "queued"
        PROVE  Work("send", m)' # {}
    <3>1. CASE m \in DOMAIN messages
      <4>1. PICK k \in Work("send", m) : TRUE
        BY <1>1, <2>4, <3>1 DEF Inv, OutboxOK
      <4>2. k \in Work("send", m)'
        BY <1>1, <4>1 DEF Work
      <4> QED
        BY <4>2
    <3>2. CASE m = n
      <4>1. Len(outbox) + 1 \in Work("send", m)'
        BY <1>1, <1>2, <2>4, <3>2 DEF Work
      <4> QED
        BY <4>1
    <3> QED
      BY <1>1, <3>1, <3>2
  <2>5. ASSUME NEW m \in DOMAIN receipts'
        PROVE  Work("received", m)' # {}
    <3>1. PICK k \in Work("received", m) : TRUE
      BY <1>1 DEF Inv, OutboxOK
    <3>2. k \in Work("received", m)'
      BY <1>1, <3>1 DEF Work
    <3> QED
      BY <3>2
  <2> QED
    BY <2>1, <2>2, <2>3, <2>4, <2>5 DEF OutboxOK
<1>11. KeysOK'
  <2>1. ASSUME NEW k \in DOMAIN messages', NEW j \in DOMAIN messages',
               messages'[k].client = messages'[j].client
        PROVE  k = j
    <3>1. CASE k \in DOMAIN messages /\ j \in DOMAIN messages
      BY <1>1, <2>1, <3>1 DEF Inv, KeysOK
    <3>2. CASE ~(k \in DOMAIN messages /\ j \in DOMAIN messages)
      BY <1>1, <1>2, <1>3, <2>1, <3>2
    <3> QED
      BY <3>1, <3>2
  <2>2. /\ \A k, j \in DOMAIN receipts' : receipts'[k] = receipts'[j] => k = j
        /\ \A e \in acked' : Known(e)'
    BY <1>1 DEF Inv, KeysOK, Known
  <2>3. ASSUME NEW a \in answers' PROVE messages'[a[3]].client = a[1] /\ messages'[a[3]].content = a[2]
    <3>1. CASE a \in answers
      <4>1. a[3] \in DOMAIN messages
        BY <3>1 DEF Inv, TypeOK
      <4> QED
        BY <1>1, <3>1, <4>1 DEF Inv, KeysOK
    <3>2. CASE a = <<c, b, n>>
      BY <1>2, <3>2
    <3> QED
      BY <1>1, <3>1, <3>2
  <2> QED
    BY <2>1, <2>2, <2>3 DEF KeysOK
<1>12. AnnouncedOnce'
  <2>1. ASSUME NEW k \in DOMAIN messages'
        PROVE  /\ Len(events'[k]) = IF messages'[k].status \in {"draft", "queued"} THEN 1 ELSE 2
               /\ events'[k][Len(events'[k])] = messages'[k].status
    <3>1. CASE k \in DOMAIN messages
      BY <1>1, <3>1 DEF Inv, AnnouncedOnce
    <3>2. CASE k = n
      <4>1. events'[k] = <<st>> /\ messages'[k].status = st
        BY <1>1, <1>2, <3>2
      <4>2. Len(<<st>>) = 1 /\ <<st>>[1] = st
        OBVIOUS
      <4> QED
        BY <4>1, <4>2
    <3> QED
      BY <1>1, <3>1, <3>2
  <2> QED
    BY <2>1 DEF AnnouncedOnce
<1>13. accepted[c] = 0 /\ accepted' = accepted /\ crashes' = crashes /\ crashes \in Nat
  BY <1>1, Typed DEF Inv, CopiesOK
<1>14. ASSUME NEW d \in ClientIds \ {c}
       PROVE  Queued(d)' <=> Queued(d)
  <2>1. WithClient(d)' = WithClient(d)
    BY <1>3
  <2>2. \A k \in WithClient(d) : messages'[k] = messages[k]
    BY <1>1 DEF WithClient
  <2> QED
    BY <2>1, <2>2 DEF Queued
<1>15. CopiesOK'
  <2>1. ASSUME NEW d \in ClientIds
        PROVE  /\ WithClient(d)' = {} => accepted'[d] = 0
               /\ accepted'[d] <= crashes' + 1
               /\ Queued(d)' /\ ~Answered(d)' => accepted'[d] <= crashes'
    <3>1. CASE d = c
      BY <1>13, <3>1
    <3>2. CASE d # c
      BY <1>3, <1>6, <1>13, <1>14, <3>2 DEF Inv, CopiesOK
    <3> QED
      BY <3>1, <3>2
  <2> QED
    BY <2>1 DEF CopiesOK
<1>16. DoublesOK'
  <2>1. Doubles' = Doubles
    BY <1>13 DEF Doubles
  <2>2. Exposed' = Exposed
    BY <1>6, <1>13, <1>14 DEF Exposed
  <2> QED
    BY <1>1, <2>1, <2>2 DEF Inv, DoublesOK
<1> QED
  BY <1>6, <1>8, <1>9, <1>10, <1>11, <1>12, <1>15, <1>16 DEF Inv

\* What Accept does: receipt n of event e appears with its work.
Keeps(r, e, n) ==
  /\ e = req[r].id /\ ~Known(e) /\ req[r].pc = "received"
  /\ n \notin DOMAIN receipts /\ receipts' \in Seq(ExternalIds)
  /\ DOMAIN receipts' = DOMAIN receipts \union {n}
  /\ \A k \in DOMAIN receipts : receipts'[k] = receipts[k]
  /\ receipts'[n] = e
  /\ outbox' \in Seq(Row) /\ Len(outbox) + 1 \notin DOMAIN outbox
  /\ DOMAIN outbox' = DOMAIN outbox \union {Len(outbox) + 1}
  /\ 0..Len(outbox) \subseteq 0..Len(outbox')
  /\ \A k \in DOMAIN outbox : outbox'[k] = outbox[k]
  /\ outbox'[Len(outbox) + 1].topic = "received" /\ outbox'[Len(outbox) + 1].of = n
  /\ ~outbox'[Len(outbox) + 1].published
  /\ acked' = acked \union {e}
  /\ req' = [req EXCEPT ![r] = NoRequest]
  /\ UNCHANGED <<messages, events, answers, task, channelReady, accepted, clock, crashes>>

LEMMA AcceptStep ==
  ASSUME Inv, NEW r \in Requests, Accept(r)
  PROVE  \E e \in ExternalIds, n \in Nat : Keeps(r, e, n)
<1> DEFINE e == req[r].id  n == Len(receipts) + 1
           y == [topic |-> "received", of |-> n, stamp |-> req[r].stamp, published |-> FALSE]
<1>1. /\ req[r].pc = "received"
      /\ receipts' = Append(receipts, e) /\ outbox' = Append(outbox, y)
      /\ acked' = acked \union {e} /\ req' = [req EXCEPT ![r] = NoRequest]
      /\ UNCHANGED <<messages, events, answers, task, channelReady, accepted, clock, crashes>>
  BY DEF Accept
<1>2. e \in ExternalIds /\ ~Known(e)
  BY <1>1 DEF Inv, RequestsOK, RequestOK
<1>3. outbox \in Seq(Row) /\ receipts \in Seq(ExternalIds) /\ n \in Nat
  BY Typed DEF Inv
<1>4. y \in Row /\ y.topic = "received" /\ y.of = n /\ ~y.published
  BY <1>3, Now DEF Row, Req
<1> HIDE DEF y
<1>5. /\ receipts' \in Seq(ExternalIds) /\ n \notin DOMAIN receipts
      /\ DOMAIN receipts' = DOMAIN receipts \union {n}
      /\ \A k \in DOMAIN receipts : receipts'[k] = receipts[k]
      /\ receipts'[n] = e
  BY <1>1, <1>2, <1>3, Appended
<1>6. /\ outbox' \in Seq(Row) /\ Len(outbox) + 1 \notin DOMAIN outbox
      /\ DOMAIN outbox' = DOMAIN outbox \union {Len(outbox) + 1}
      /\ 0..Len(outbox) \subseteq 0..Len(outbox')
      /\ \A k \in DOMAIN outbox : outbox'[k] = outbox[k]
      /\ outbox'[Len(outbox) + 1] = y
  BY <1>1, <1>3, <1>4, Appended
<1> HIDE DEF e, n
<1>7. e = req[r].id
  BY DEF e
<1> QED
  BY <1>1, <1>2, <1>3, <1>4, <1>5, <1>6, <1>7 DEF Keeps

LEMMA AcceptInv ==
  ASSUME Inv, NEW r \in Requests, Accept(r)
  PROVE  Inv'
<1>1. PICK e \in ExternalIds, n \in Nat : Keeps(r, e, n)
  BY AcceptStep
<1> USE DEF Keeps
<1>2. \A k \in DOMAIN outbox :
        /\ Of(k)' = Of(k)
        /\ outbox[k].topic = "send" => Of(k) \in DOMAIN messages
        /\ outbox[k].topic = "received" => Of(k) \in DOMAIN receipts
  <2>1. \A k \in DOMAIN outbox :
          outbox[k].of \in IF outbox[k].topic = "send" THEN DOMAIN messages ELSE DOMAIN receipts
    BY DEF Inv, TypeOK
  <2> QED
    BY <1>1, <2>1 DEF Of
<1>3. \A k \in DOMAIN outbox' \ DOMAIN outbox : k = Len(outbox) + 1 /\ Of(k)' = n
  BY <1>1 DEF Of
<1>4. TasksOK' /\ RowsLocked' /\ \A d : Answered(d)' <=> Answered(d)
  BY <1>1, RowsKept
<1>5. \A d : WithClient(d)' = WithClient(d) /\ (Queued(d)' <=> Queued(d))
  BY <1>1 DEF WithClient, Queued
<1>6. req' \in [Requests -> Req] /\ req'[r] = NoRequest /\ \A s \in Requests \ {r} : req'[s] = req[s]
  BY <1>1, Now, NoRequestType
<1>7. \A d : Known(d)' <=> Known(d) \/ d = e
  BY <1>1 DEF Known
<1>8. TypeOK'
  <2>1. /\ outbox' \in Seq([topic : {"send", "received"}, of : Nat, stamp : Nat, published : BOOLEAN])
        /\ receipts' \in Seq(ExternalIds)
    BY <1>1 DEF Row
  <2>2. \A k \in DOMAIN outbox' :
          outbox'[k].of \in IF outbox'[k].topic = "send" THEN DOMAIN messages' ELSE DOMAIN receipts'
    <3>1. \A k \in DOMAIN outbox :
            outbox[k].of \in IF outbox[k].topic = "send" THEN DOMAIN messages ELSE DOMAIN receipts
      BY DEF Inv, TypeOK
    <3> QED
      BY <1>1, <3>1
  <2>3. task' \in [Workers -> [pc : {"idle", "sending", "done"}, row : 0..Len(outbox'),
                               reply : {"none", "ack", "timeout", "error"}]]
    <3>1. task \in [Workers -> [pc : {"idle", "sending", "done"}, row : 0..Len(outbox),
                               reply : {"none", "ack", "timeout", "error"}]]
      BY DEF Inv, TypeOK
    <3>2. task' = task /\ 0..Len(outbox) \subseteq 0..Len(outbox')
      BY <1>1
    <3> QED
      BY <3>1, <3>2
  <2>4. req' \in [Requests -> [pc : {"idle", "new", "inserted", "delivered", "received"},
                           id : ClientIds \union ExternalIds \union {None},
                           content : Contents \union {None}, stamp : Nat]]
    BY <1>6 DEF Req
  <2>5. acked' \subseteq ExternalIds
    BY <1>1 DEF Inv, TypeOK
  <2>6. /\ messages' \in Seq([client : ClientIds, content : Contents, status : MessageStatuses])
        /\ events' \in Seq(Seq(MessageStatuses)) /\ Len(events') = Len(messages')
        /\ answers' \subseteq ClientIds \X Contents \X DOMAIN messages'
        /\ channelReady' \in BOOLEAN /\ accepted' \in [ClientIds -> Nat]
        /\ clock' \in Nat /\ crashes' \in Nat
    BY <1>1 DEF Inv, TypeOK
  <2> QED
    BY <2>1, <2>2, <2>3, <2>4, <2>5, <2>6 DEF TypeOK
<1>9. RequestsOK' /\ IndexOK'
  <2>1. ASSUME NEW s \in Requests PROVE RequestOK(s)'
    <3>1. CASE s = r
      BY <1>6, <3>1, IdleRequest
    <3>2. CASE s # r
      <4>1. RequestOK(s) /\ (req[s].pc = "received" => req[s].id # e)
        BY <1>1, <3>2 DEF Inv, RequestsOK, IndexOK, Stored
      <4>2. req'[s] = req[s]
        BY <1>6, <3>2
      <4> QED
        BY <1>5, <1>7, <4>1, <4>2 DEF RequestOK
    <3> QED
      BY <3>1, <3>2
  <2>2. IndexOK'
    BY <1>6, NoRequestType DEF Inv, IndexOK
  <2> QED
    BY <2>1, <2>2 DEF RequestsOK
<1>10. OutboxOK'
  <2>1. ASSUME NEW k \in DOMAIN outbox'
        PROVE  /\ outbox'[k].topic = "send" /\ ~outbox'[k].published
                    => messages'[Of(k)'].status = "queued"
               /\ outbox'[k].topic = "received" => ~outbox'[k].published
    <3>1. CASE k \in DOMAIN outbox
      BY <1>1, <1>2, <3>1 DEF Inv, OutboxOK
    <3>2. CASE k \notin DOMAIN outbox
      BY <1>1, <3>2
    <3> QED
      BY <3>1, <3>2
  <2>2. ASSUME NEW k \in DOMAIN outbox', NEW j \in DOMAIN outbox',
               outbox'[k].topic = outbox'[j].topic, Of(k)' = Of(j)'
        PROVE  k = j
    <3>1. CASE k \in DOMAIN outbox /\ j \in DOMAIN outbox
      BY <1>1, <1>2, <2>2, <3>1 DEF Inv, OutboxOK
    <3>2. CASE k \notin DOMAIN outbox /\ j \notin DOMAIN outbox
      BY <1>3, <3>2
    <3>3. CASE k \in DOMAIN outbox /\ j \notin DOMAIN outbox
      BY <1>1, <1>2, <1>3, <2>2, <3>3
    <3>4. CASE k \notin DOMAIN outbox /\ j \in DOMAIN outbox
      BY <1>1, <1>2, <1>3, <2>2, <3>4
    <3> QED
      BY <3>1, <3>2, <3>3, <3>4
  <2>3. ASSUME NEW m \in DOMAIN messages', messages'[m].status = "queued"
        PROVE  Work("send", m)' # {}
    <3>1. PICK k \in Work("send", m) : TRUE
      BY <1>1, <2>3 DEF Inv, OutboxOK
    <3>2. k \in Work("send", m)'
      BY <1>1, <3>1 DEF Work
    <3> QED
      BY <3>2
  <2>4. ASSUME NEW m \in DOMAIN receipts'
        PROVE  Work("received", m)' # {}
    <3>1. CASE m \in DOMAIN receipts
      <4>1. PICK k \in Work("received", m) : TRUE
        BY <3>1 DEF Inv, OutboxOK
      <4>2. k \in Work("received", m)'
        BY <1>1, <4>1 DEF Work
      <4> QED
        BY <4>2
    <3>2. CASE m = n
      <4>1. Len(outbox) + 1 \in Work("received", m)'
        BY <1>1, <3>2 DEF Work
      <4> QED
        BY <4>1
    <3> QED
      BY <1>1, <3>1, <3>2
  <2> QED
    BY <2>1, <2>2, <2>3, <2>4 DEF OutboxOK
<1>11. KeysOK'
  <2>1. ASSUME NEW k \in DOMAIN receipts', NEW j \in DOMAIN receipts', receipts'[k] = receipts'[j]
        PROVE  k = j
    <3>1. CASE k \in DOMAIN receipts /\ j \in DOMAIN receipts
      BY <1>1, <2>1, <3>1 DEF Inv, KeysOK
    <3>2. CASE ~(k \in DOMAIN receipts /\ j \in DOMAIN receipts)
      BY <1>1, <2>1, <3>2 DEF Known
    <3> QED
      BY <3>1, <3>2
  <2>2. \A d \in acked' : Known(d)'
    BY <1>1, <1>7 DEF Inv, KeysOK
  <2>3. /\ \A k, j \in DOMAIN messages' : messages'[k].client = messages'[j].client => k = j
        /\ \A a \in answers' : messages'[a[3]].client = a[1] /\ messages'[a[3]].content = a[2]
    BY <1>1 DEF Inv, KeysOK
  <2> QED
    BY <2>1, <2>2, <2>3 DEF KeysOK
<1>12. AnnouncedOnce'
  BY <1>1 DEF Inv, AnnouncedOnce
<1>13. accepted' = accepted /\ crashes' = crashes
  BY <1>1
<1>14. CopiesOK'
  BY <1>4, <1>5, <1>13 DEF Inv, CopiesOK
<1>15. Doubles' = Doubles /\ Exposed' = Exposed
  BY <1>4, <1>5, <1>13 DEF Doubles, Exposed
<1>16. DoublesOK'
  BY <1>13, <1>15 DEF Inv, DoublesOK
<1> QED
  BY <1>4, <1>8, <1>9, <1>10, <1>11, <1>12, <1>14, <1>16 DEF Inv
-----------------------------------------------------------------------------
LEMMA StutterInv ==
  ASSUME Inv, UNCHANGED vars
  PROVE  Inv'
<1> USE DEF vars
<1>1. \A c : Queued(c)' = Queued(c) /\ Answered(c)' = Answered(c) /\ WithClient(c)' = WithClient(c)
  BY DEF Queued, Answered, WithClient, Client, Of
<1>2. RequestsOK' /\ IndexOK'
  BY <1>1 DEF Inv, RequestsOK, RequestOK, IndexOK, Known
<1> QED
  BY <1>2, Now, RequestStep

LEMMA NextInv == Inv /\ [Next]_vars => Inv'
<1> SUFFICES ASSUME Inv, [Next]_vars PROVE Inv'
  OBVIOUS
<1>1. ASSUME NEW r \in Requests, NEW c \in ClientIds, NEW b \in Contents, Lookup(r, c, b)
      PROVE  Inv'
  BY <1>1, LookupInv
<1>2. ASSUME NEW r \in Requests, Insert(r) \/ Receive(r) PROVE Inv'
  BY <1>2, StoreInv
<1>3. ASSUME NEW r \in Requests, Conflict(r) \/ Abort(r) \/ Duplicate(r) PROVE Inv'
  BY <1>3, LeaveInv
<1>4. ASSUME NEW r \in Requests, Commit(r) PROVE Inv'
  BY <1>4, CommitInv
<1>5. ASSUME NEW r \in Requests, NEW e \in ExternalIds, Deliver(r, e) PROVE Inv'
  BY <1>5, DeliverInv
<1>6. ASSUME NEW r \in Requests, Accept(r) PROVE Inv'
  BY <1>6, AcceptInv
<1>7. ASSUME NEW w \in Workers, Claim(w) PROVE Inv'
  BY <1>7, ClaimInv
<1>8. ASSUME NEW w \in Workers, Send(w) PROVE Inv'
  BY <1>8, SendInv
<1>9. ASSUME NEW w \in Workers, Publish(w) PROVE Inv'
  BY <1>9, PublishInv
<1>10. ASSUME NEW w \in Workers, Crash(w) PROVE Inv'
  BY <1>10, CrashInv
<1>11. CASE Reconfigure
  BY <1>11, ReconfigureInv
<1>12. CASE UNCHANGED vars
  BY <1>12, StutterInv
<1> QED
  BY <1>1, <1>2, <1>3, <1>4, <1>5, <1>6, <1>7, <1>8, <1>9, <1>10, <1>11, <1>12 DEF Next, Dispatch

LEMMA Invariant == Spec => []Inv
BY InitInv, NextInv, PTL DEF Spec
-----------------------------------------------------------------------------
(* The properties. *)

\* Type correctness: every outbox row that create_outbound_message or
\* ingest_whatsapp wrote names a stored record of its table.
THEOREM TypeCorrect == Spec => []TypeOK
<1>1. Inv => TypeOK
  BY DEF Inv
<1> QED
  BY <1>1, Invariant, PTL

\* A record has one row of its topic in the outbox at most.
LEMMA OneWork ==
  ASSUME Inv, NEW topic, NEW n, Work(topic, n) # {}
  PROVE  Cardinality(Work(topic, n)) = 1
<1>1. PICK i \in Work(topic, n) : TRUE
  OBVIOUS
<1>2. Work(topic, n) = {i}
  BY <1>1 DEF Work, Of, Inv, OutboxOK
<1> QED
  BY <1>2, FS_Singleton

\* A message that create_outbound_message stored as queued is exactly the one
\* that dispatch_outbox has one unpublished row for, whatever was cut off:
\* none is stranded, and no settled message is picked up again.
THEOREM QueuedKeepsItsWork == Spec => []QueuedHasWork
<1>1. ASSUME Inv PROVE QueuedHasWork
  <2>1. ASSUME NEW m \in DOMAIN messages, messages[m].status = "queued"
        PROVE  Cardinality(Work("send", m)) = 1
    BY <1>1, <2>1, OneWork DEF Inv, OutboxOK
  <2>2. ASSUME NEW m \in DOMAIN messages, messages[m].status # "queued"
        PROVE  Cardinality(Work("send", m)) = 0
    <3>1. Work("send", m) = {}
      BY <1>1, <2>2 DEF Work, Of, Inv, OutboxOK
    <3> QED
      BY <3>1, FS_EmptySet
  <2> QED
    BY <2>1, <2>2 DEF QueuedHasWork
<1> QED
  BY <1>1, Invariant, PTL

\* Whichever requests race with one client_message_id, the lookup and the
\* unique index of create_outbound_message make all successful answers name
\* one message, of the content that was sent.
THEOREM AnswersAgree == Spec => []OneMessagePerClientId
<1>1. ASSUME Inv PROVE OneMessagePerClientId
  <2>1. \A a \in answers : /\ a[3] \in DOMAIN messages
                           /\ messages[a[3]].client = a[1] /\ messages[a[3]].content = a[2]
    BY <1>1 DEF Inv, TypeOK, KeysOK
  <2> QED
    BY <1>1, <2>1 DEF OneMessagePerClientId, Inv, KeysOK
<1> QED
  BY <1>1, Invariant, PTL

\* An event that ingest_whatsapp answered 202 is stored once, and its outbox
\* row is there, also when deliveries of it race.
THEOREM AckedIsKept == Spec => []AckedIsStored
<1>1. ASSUME Inv PROVE AckedIsStored
  <2>1. ASSUME NEW e \in acked
        PROVE  \E i \in DOMAIN receipts :
                 /\ \A j \in DOMAIN receipts : receipts[j] = e <=> j = i
                 /\ Cardinality(Work("received", i)) = 1
    <3>1. PICK i \in DOMAIN receipts : receipts[i] = e
      BY <1>1 DEF Inv, KeysOK, Known
    <3>2. \A j \in DOMAIN receipts : receipts[j] = e <=> j = i
      BY <1>1, <3>1 DEF Inv, KeysOK
    <3>3. Cardinality(Work("received", i)) = 1
      BY <1>1, OneWork DEF Inv, OutboxOK
    <3> QED
      BY <3>2, <3>3
  <2> QED
    BY <2>1 DEF AckedIsStored
<1> QED
  BY <1>1, Invariant, PTL

\* The console gets one realtime event when create_outbound_message stores a
\* message and one when dispatch_outbox settles it, and the last is its status.
THEOREM EachFateAnnounced == Spec => []AnnouncedOnce
<1>1. Inv => AnnouncedOnce
  BY DEF Inv
<1> QED
  BY <1>1, Invariant, PTL

\* Whatever the interleaving of requests and of dispatch_outbox tasks, the
\* copies the provider accepts beyond the first of each message are at most
\* the tasks that died between the call and the commit.
THEOREM CopiesTakeDeaths == Spec => []DoubledOnlyByCrash
<1>1. ASSUME Inv PROVE DoubledOnlyByCrash
  <2> DEFINE D == {u \in ClientIds \X (2..MaxInserts + MaxCrashes) : u[2] <= accepted[u[1]]}
  <2>1. D \subseteq Doubles
    BY DEF Doubles
  <2>2. /\ IsFiniteSet(Doubles) /\ IsFiniteSet(Exposed) /\ crashes \in Nat
        /\ Cardinality(Doubles) + Cardinality(Exposed) <= crashes
    BY <1>1, Typed DEF Inv, DoublesOK
  <2> HIDE DEF D
  <2>3. Cardinality(D) <= Cardinality(Doubles) /\ Cardinality(D) \in Nat
    BY <2>1, <2>2, FS_Subset, FS_CardinalityType
  <2>4. Cardinality(Doubles) \in Nat /\ Cardinality(Exposed) \in Nat
    BY <2>2, FS_CardinalityType
  <2>5. Cardinality(D) <= crashes
    BY <2>2, <2>3, <2>4
  <2> QED
    BY <2>5 DEF D, DoubledOnlyByCrash
<1> QED
  BY <1>1, Invariant, PTL
-----------------------------------------------------------------------------
(* The refinement of MessageFate. *)

LEMMA FateIs ==
  ASSUME NEW c, NEW m
  PROVE  /\ WithClient(c) = {} => FateOf(c) = "none"
         /\ WithClient(c) = {m} => FateOf(c) = messages[m].status
         /\ WithClient(c)' = {} => FateOf(c)' = "none"
         /\ WithClient(c)' = {m} => FateOf(c)' = messages'[m].status
<1>1. (CHOOSE x \in {m} : TRUE) = m
  OBVIOUS
<1> QED
  BY <1>1 DEF FateOf

\* The message of a client id is its only one.
LEMMA ItsMessage ==
  ASSUME Inv, NEW m \in DOMAIN messages
  PROVE  /\ WithClient(messages[m].client) = {m}
         /\ FateOf(messages[m].client) = messages[m].status
<1>1. WithClient(messages[m].client) = {m}
  BY DEF Inv, KeysOK, WithClient
<1> QED
  BY <1>1, FateIs

LEMMA FateStays ==
  ASSUME Inv, UNCHANGED messages
  PROVE  \A c : FateOf(c)' = FateOf(c)
<1>1. ASSUME NEW c PROVE FateOf(c)' = FateOf(c)
  <2>1. WithClient(c)' = WithClient(c)
    BY DEF WithClient
  <2>2. CASE WithClient(c) = {}
    BY <2>1, <2>2, FateIs
  <2>3. CASE WithClient(c) # {}
    <3>1. PICK m \in DOMAIN messages : messages[m].client = c
      BY <2>3 DEF WithClient
    <3>2. WithClient(c) = {m}
      BY <3>1, ItsMessage
    <3> QED
      BY <2>1, <3>2, FateIs
  <2> QED
    BY <2>2, <2>3
<1> QED
  BY <1>1

LEMMA StoreStep ==
  ASSUME Inv, NEW r \in Requests, Commit(r)
  PROVE  Fate!Next
<1>1. PICK c \in ClientIds, b \in Contents, n \in Nat, st \in {"draft", "queued"} :
        Stores(r, c, b, n, st)
  BY CommitStep
<1>2. /\ WithClient(c) = {} /\ WithClient(c)' = {n} /\ messages'[n].status = st
      /\ \A d \in ClientIds \ {c} : WithClient(d)' = WithClient(d)
      /\ \A k \in DOMAIN messages : messages'[k] = messages[k]
      /\ UNCHANGED <<accepted, crashes>>
  BY <1>1 DEF Stores, WithClient
<1>3. FateOf(c) = "none" /\ FateOf(c)' = st
  BY <1>2, FateIs
<1>4. ASSUME NEW d \in ClientIds \ {c} PROVE FateOf(d)' = FateOf(d)
  <2>1. CASE WithClient(d) = {}
    BY <1>2, <2>1, FateIs
  <2>2. CASE WithClient(d) # {}
    <3>1. PICK k \in DOMAIN messages : messages[k].client = d
      BY <2>2 DEF WithClient
    <3>2. WithClient(d) = {k}
      BY <3>1, ItsMessage
    <3> QED
      BY <1>2, <3>2, FateIs
  <2> QED
    BY <2>1, <2>2
<1>5. Fate!Store(c)
  BY <1>2, <1>3, <1>4 DEF Fate!Store, Fate!Become
<1> QED
  BY <1>5 DEF Fate!Next

LEMMA LeaveStep ==
  ASSUME Inv, NEW w \in Workers, Send(w)
  PROVE  [Fate!Next]_(Fate!delivery)
<1>1. PICK c \in ClientIds, accept \in BOOLEAN :
        /\ c = Client(task[w].row)
        /\ accepted' = [accepted EXCEPT ![c] = IF accept THEN @ + 1 ELSE @]
        /\ task[w].pc = "sending" /\ UNCHANGED <<messages, crashes>>
  BY TaskRow DEF Send, Client, Of
<1>2. /\ accepted \in [ClientIds -> Nat] /\ accepted[c] <= crashes
      /\ FateOf(c) = "queued"
  <2>1. Of(task[w].row) \in DOMAIN messages /\ messages[Of(task[w].row)].status = "queued"
    BY <1>1, TaskRow
  <2> QED
    BY <1>1, <2>1, Sending, ItsMessage, Typed DEF Client, Inv
<1>3. \A d : FateOf(d)' = FateOf(d)
  BY <1>1, FateStays
<1>4. CASE accept
  <2>1. Fate!Leave(c)
    BY <1>1, <1>2, <1>3, <1>4 DEF Fate!Leave
  <2> QED
    BY <2>1 DEF Fate!Next
<1>5. CASE ~accept
  <2>1. UNCHANGED Fate!delivery
    BY <1>1, <1>2, <1>3, <1>5 DEF Fate!delivery
  <2> QED
    BY <2>1
<1> QED
  BY <1>4, <1>5

LEMMA SettleStep ==
  ASSUME Inv, NEW w \in Workers, Publish(w)
  PROVE  Fate!Next
<1>1. PICK i \in DOMAIN outbox, m \in DOMAIN messages, st \in {"sent", "unknown", "failed"} :
           Settles(w, i, m, st)
  BY PublishStep
<1>2. PICK c \in ClientIds : c = messages[m].client
  <2>1. messages[m] \in Message
    BY Typed, Member DEF Inv
  <2> QED
    BY <2>1 DEF Message
<1>3. /\ messages[m].status = "queued" /\ messages'[m].status = st
      /\ \A d : WithClient(d)' = WithClient(d)
      /\ \A k \in DOMAIN messages \ {m} : messages'[k] = messages[k]
      /\ UNCHANGED <<accepted, crashes>>
  BY <1>1 DEF Settles, WithClient
<1>4. FateOf(c) = "queued" /\ FateOf(c)' = st
  BY <1>2, <1>3, ItsMessage, FateIs
<1>5. ASSUME NEW d \in ClientIds \ {c} PROVE FateOf(d)' = FateOf(d)
  <2>1. CASE WithClient(d) = {}
    BY <1>3, <2>1, FateIs
  <2>2. CASE WithClient(d) # {}
    <3>1. PICK k \in DOMAIN messages : messages[k].client = d
      BY <2>2 DEF WithClient
    <3>2. WithClient(d) = {k} /\ k # m
      BY <1>2, <3>1, ItsMessage
    <3> QED
      BY <1>3, <3>2, FateIs
  <2> QED
    BY <2>1, <2>2
<1>6. st = "sent" => accepted[c] > 0
  <2>1. TaskOK(w) /\ i = task[w].row /\ m = Of(i) /\ st = Settled(task[w].reply) /\ task[w].pc = "done"
    BY <1>1 DEF Settles, Inv, TasksOK
  <2>2. c = Client(task[w].row)
    BY <1>2, <2>1 DEF Client
  <2> QED
    BY <2>1, <2>2 DEF TaskOK, Settled
<1>7. Fate!Settle(c)
  BY <1>3, <1>4, <1>5, <1>6 DEF Fate!Settle, Fate!Become
<1> QED
  BY <1>7 DEF Fate!Next

LEMMA DieStep ==
  ASSUME Inv, NEW w \in Workers, Crash(w)
  PROVE  Fate!Next
<1>1. crashes' = crashes + 1 /\ UNCHANGED <<messages, accepted>>
  BY DEF Crash
<1>2. Fate!Die
  BY <1>1, FateStays DEF Fate!Die
<1> QED
  BY <1>2 DEF Fate!Next

\* Every step of requests and tasks is a step of the message's fate, or none.
LEMMA StepFate == Inv /\ [Next]_vars => [Fate!Next]_(Fate!delivery)
<1> SUFFICES ASSUME Inv, [Next]_vars PROVE [Fate!Next]_(Fate!delivery)
  OBVIOUS
<1>1. CASE UNCHANGED <<messages, accepted, crashes>>
  BY <1>1, FateStays DEF Fate!delivery
<1>2. ASSUME NEW r \in Requests, Commit(r) PROVE Fate!Next
  BY <1>2, StoreStep
<1>3. ASSUME NEW w \in Workers, Send(w) PROVE [Fate!Next]_(Fate!delivery)
  BY <1>3, LeaveStep
<1>4. ASSUME NEW w \in Workers, Publish(w) PROVE Fate!Next
  BY <1>4, SettleStep
<1>5. ASSUME NEW w \in Workers, Crash(w) PROVE Fate!Next
  BY <1>5, DieStep
<1>6. ASSUME NEW r \in Requests, NEW c \in ClientIds, NEW b \in Contents, Lookup(r, c, b)
      PROVE  UNCHANGED <<messages, accepted, crashes>>
  BY <1>6 DEF Lookup
<1>7. ASSUME NEW r \in Requests,
             Insert(r) \/ Conflict(r) \/ Abort(r) \/ Receive(r) \/ Duplicate(r) \/ Accept(r)
      PROVE  UNCHANGED <<messages, accepted, crashes>>
  BY <1>7 DEF Insert, Conflict, Abort, Receive, Duplicate, Accept
<1>8. ASSUME NEW r \in Requests, NEW e \in ExternalIds, Deliver(r, e)
      PROVE  UNCHANGED <<messages, accepted, crashes>>
  BY <1>8 DEF Deliver
<1>9. ASSUME NEW w \in Workers, Claim(w) PROVE UNCHANGED <<messages, accepted, crashes>>
  BY <1>9 DEF Claim
<1>10. Reconfigure \/ UNCHANGED vars => UNCHANGED <<messages, accepted, crashes>>
  BY DEF Reconfigure, vars
<1> QED
  BY <1>1, <1>2, <1>3, <1>4, <1>5, <1>6, <1>7, <1>8, <1>9, <1>10 DEF Next, Dispatch

\* create_outbound_message, dispatch_outbox, their locks and their crashes
\* implement the fate of a message: it leaves only while it is queued, a
\* second copy takes a death, "sent" is said only of what the provider has,
\* and no fate is revised.
THEOREM OutboxImplementsFate == Spec => ImplementsFate
<1>1. Init => Fate!Init
  <2>1. Init => \A c : WithClient(c) = {}
    BY DEF Init, WithClient
  <2> QED
    BY <2>1, FateIs DEF Init, Fate!Init
<1>2. Inv /\ [Next]_vars => [Fate!Next]_(Fate!delivery)
  BY StepFate
<1>3. Spec => Fate!Spec
  BY <1>1, <1>2, Invariant, PTL DEF Spec, Fate!Spec
<1> QED
  BY <1>3 DEF ImplementsFate
=============================================================================
