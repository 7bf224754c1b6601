---------------------------- MODULE MessageOutbox ----------------------------
(***************************************************************************)
(* The outbox: create_outbound_message of api.py stores a message and its  *)
(* outbox row, dispatch_outbox of worker.py hands it to WhatsApp, and      *)
(* ingest_whatsapp stores what WhatsApp delivers in the same table, under  *)
(* a topic nothing in the code consumes yet.                               *)
(*                                                                         *)
(* A request or a worker task is one database transaction: what it writes  *)
(* is seen by the others when it commits, and is gone if it is cut off.    *)
(* What the provider has accepted stays accepted.                          *)
(***************************************************************************)
EXTENDS Integers, Sequences, FiniteSets

CONSTANTS Requests, Workers,
          ClientIds,                 \* values of client_message_id
          ExternalIds,               \* delivery ids or hashes of webhook calls
          Contents,                  \* a conversation and a stripped body
          None,
          MaxInserts, MaxCrashes     \* bounds of the model

ASSUME SetsAssumption == /\ None \notin ClientIds \union ExternalIds \union Contents
                         /\ ClientIds \intersect ExternalIds = {}
ASSUME BoundsAssumption == MaxInserts \in Nat /\ MaxCrashes \in Nat

VARIABLES
  messages,      \* the messages table, in commit order
  receipts,      \* the external ids of webhook_events, in commit order
  outbox,        \* outbox_events; topic "send" is whatsapp.message.send,
                 \* "received" is whatsapp.event.received
  events,        \* the statuses realtime_events announced, for each message
  answers,       \* client id, content and message of each successful answer
  acked,         \* the external ids answered 202
  req, task,     \* the requests and the dispatch tasks in progress
  channelReady,  \* the three WhatsApp settings are present
  accepted,      \* how often the provider accepted each client id's message
  clock,         \* time of the latest insert
  crashes        \* dispatch tasks that were cut off

tables == <<messages, receipts, outbox, events>>
vars   == <<tables, answers, acked, req, task, channelReady, accepted, clock, crashes>>

NoRequest == [pc |-> "idle", id |-> None, content |-> None, stamp |-> 0]
NoTask    == [pc |-> "idle", row |-> 0, reply |-> "none"]

WithClient(c) == {m \in DOMAIN messages : messages[m].client = c}
-----------------------------------------------------------------------------
(* create_outbound_message *)

\* The lookup of the client id.  An id that names other content is answered
\* 409 at once.
Lookup(r, c, b) ==
  /\ req[r].pc = "idle"
  /\ \/ /\ WithClient(c) = {}
        /\ req' = [req EXCEPT ![r] =
             [NoRequest EXCEPT !.pc = "new", !.id = c, !.content = b]]
        /\ UNCHANGED answers
     \/ /\ \E m \in WithClient(c) :
             messages[m].content = b /\ answers' = answers \union {<<c, b, m>>}
        /\ UNCHANGED req
  /\ UNCHANGED <<tables, acked, task, channelReady, accepted, clock, crashes>>

IndexIgnored(r) == TRUE            \* mutant: no unique index

\* The unique indexes on the client id and on the external id make an insert
\* wait for another one of that id that has not committed yet.
IndexFree(r) ==
  \A s \in Requests \ {r} :
    ~(req[s].pc \in {"inserted", "received"} /\ req[s].id = req[r].id)

Unique(r) == WithClient(req[r].id) = {}

Insert(r) ==
  /\ req[r].pc = "new" /\ IndexFree(r) /\ Unique(r)
  /\ clock < MaxInserts
  /\ clock' = clock + 1
  /\ req' = [req EXCEPT ![r].pc = "inserted", ![r].stamp = clock']
  /\ UNCHANGED <<tables, answers, acked, task, channelReady, accepted, crashes>>

\* IntegrityError: answered 500, nothing is written.
Conflict(r) ==
  /\ req[r].pc = "new" /\ IndexFree(r) /\ ~Unique(r)
  /\ req' = [req EXCEPT ![r] = NoRequest]
  /\ UNCHANGED <<tables, answers, acked, task, channelReady, accepted, clock, crashes>>

NoIntent(r) == outbox              \* mutant: the intent is left to a later commit
IntentUnflushed(r) ==              \* mutant: the id is read before the flush gives it
  IF channelReady
  THEN Append(outbox, [topic |-> "send", of |-> 0, stamp |-> req[r].stamp,
                       published |-> FALSE])
  ELSE outbox

\* The outbox row of the message that request r commits.
Intent(r) ==
  IF channelReady
  THEN Append(outbox, [topic |-> "send", of |-> Len(messages) + 1,
                       stamp |-> req[r].stamp, published |-> FALSE])
  ELSE outbox

Commit(r) ==
  LET status == IF channelReady THEN "queued" ELSE "draft" IN
  /\ req[r].pc = "inserted"
  /\ messages' = Append(messages, [client |-> req[r].id,
                                   content |-> req[r].content, status |-> status])
  /\ outbox' = Intent(r)
  /\ events' = Append(events, <<status>>)
  /\ answers' = answers \union {<<req[r].id, req[r].content, Len(messages) + 1>>}
  /\ req' = [req EXCEPT ![r] = NoRequest]
  /\ UNCHANGED <<receipts, acked, task, channelReady, accepted, clock, crashes>>

\* The API process dies or the connection drops.
Abort(r) ==
  /\ req[r].pc # "idle"
  /\ req' = [req EXCEPT ![r] = NoRequest]
  /\ UNCHANGED <<tables, answers, acked, task, channelReady, accepted, clock, crashes>>

\* The settings are read when the process starts.
Reconfigure ==
  /\ channelReady' = ~channelReady
  /\ req' = [r \in Requests |-> NoRequest]
  /\ UNCHANGED <<tables, answers, acked, task, accepted, clock, crashes>>
-----------------------------------------------------------------------------
(* ingest_whatsapp: WhatsApp delivers an event, and again until it gets 202. *)

Deliver(r, e) ==
  /\ req[r].pc = "idle"
  /\ req' = [req EXCEPT ![r] = [NoRequest EXCEPT !.pc = "delivered", !.id = e]]
  /\ UNCHANGED <<tables, answers, acked, task, channelReady, accepted, clock, crashes>>

Known(e) == \E i \in DOMAIN receipts : receipts[i] = e

Receive(r) ==
  /\ req[r].pc = "delivered" /\ IndexFree(r) /\ ~Known(req[r].id)
  /\ clock < MaxInserts
  /\ clock' = clock + 1
  /\ req' = [req EXCEPT ![r].pc = "received", ![r].stamp = clock']
  /\ UNCHANGED <<tables, answers, acked, task, channelReady, accepted, crashes>>

\* IntegrityError: the event is known, nothing is written, and that is fine.
Duplicate(r) ==
  /\ req[r].pc = "delivered" /\ IndexFree(r) /\ Known(req[r].id)
  /\ acked' = acked \union {req[r].id}
  /\ req' = [req EXCEPT ![r] = NoRequest]
  /\ UNCHANGED <<tables, answers, task, channelReady, accepted, clock, crashes>>

\* Receipt and outbox row commit together.
Accept(r) ==
  /\ req[r].pc = "received"
  /\ receipts' = Append(receipts, req[r].id)
  /\ outbox' = Append(outbox, [topic |-> "received", of |-> Len(receipts) + 1,
                              stamp |-> req[r].stamp, published |-> FALSE])
  /\ acked' = acked \union {req[r].id}
  /\ req' = [req EXCEPT ![r] = NoRequest]
  /\ UNCHANGED <<messages, events, answers, task, channelReady, accepted, clock, crashes>>
-----------------------------------------------------------------------------
(* dispatch_outbox *)

ClaimableByAll(w) ==               \* mutant: no lock
  {i \in DOMAIN outbox : outbox[i].topic = "send" /\ ~outbox[i].published}

\* FOR UPDATE SKIP LOCKED passes over the rows other tasks hold.
Claimable(w) ==
  {i \in DOMAIN outbox : /\ outbox[i].topic = "send"
                         /\ ~outbox[i].published
                         /\ \A v \in Workers \ {w} : task[v].row # i}

\* A message that is no longer queued is not sent: its row is just published.
Claim(w) ==
  /\ task[w].pc = "idle"
  /\ \E i \in Claimable(w) :
       /\ \A j \in Claimable(w) : outbox[i].stamp <= outbox[j].stamp
       /\ task' = [task EXCEPT ![w] =
            [NoTask EXCEPT !.row = i,
               !.pc = IF messages[outbox[i].of].status = "queued"
                      THEN "sending" ELSE "done"]]
  /\ UNCHANGED <<tables, answers, acked, req, channelReady, accepted, clock, crashes>>

\* send_text: the provider accepts the message or not, and the task learns an
\* acknowledgement, a timeout, or some other error (a refusal, but also a
\* connection lost, or an answer it cannot read, after the acceptance).
Send(w) ==
  LET c == messages[outbox[task[w].row].of].client IN
  /\ task[w].pc = "sending"
  /\ \E reply \in {"ack", "timeout", "error"}, accept \in BOOLEAN :
       /\ reply = "ack" => accept
       /\ task' = [task EXCEPT ![w].pc = "done", ![w].reply = reply]
       /\ accepted' = [accepted EXCEPT ![c] = IF accept THEN @ + 1 ELSE @]
  /\ UNCHANGED <<tables, answers, acked, req, channelReady, clock, crashes>>

SettledNoTimeout(reply) ==         \* mutant: a timeout is left for another try
  CASE reply = "ack" -> "sent" [] reply = "timeout" -> "queued" [] OTHER -> "failed"
SettledHopeful(reply) ==           \* mutant: a timeout counts as sent
  IF reply = "error" THEN "failed" ELSE "sent"

Settled(reply) ==
  CASE reply = "ack" -> "sent" [] reply = "timeout" -> "unknown" [] OTHER -> "failed"

\* The end of the task: status, event and published_at commit together.
Publish(w) ==
  LET i == task[w].row
      m == outbox[i].of
      status == Settled(task[w].reply) IN
  /\ task[w].pc = "done"
  /\ outbox' = [outbox EXCEPT ![i].published = TRUE]
  /\ IF task[w].reply = "none" THEN UNCHANGED <<messages, events>>
     ELSE /\ messages' = [messages EXCEPT ![m].status = status]
          /\ events' = [events EXCEPT ![m] = Append(@, status)]
  /\ task' = [task EXCEPT ![w] = NoTask]
  /\ UNCHANGED <<receipts, answers, acked, req, channelReady, accepted, clock, crashes>>

\* The worker dies: the transaction rolls back and the row is free again.
Crash(w) ==
  /\ task[w].pc # "idle"
  /\ crashes < MaxCrashes
  /\ crashes' = crashes + 1
  /\ task' = [task EXCEPT ![w] = NoTask]
  /\ UNCHANGED <<tables, answers, acked, req, channelReady, accepted, clock>>
-----------------------------------------------------------------------------
Init ==
  /\ messages = <<>> /\ receipts = <<>> /\ outbox = <<>> /\ events = <<>>
  /\ answers = {} /\ acked = {}
  /\ req = [r \in Requests |-> NoRequest]
  /\ task = [w \in Workers |-> NoTask]
  /\ channelReady \in BOOLEAN
  /\ accepted = [c \in ClientIds |-> 0]
  /\ clock = 0 /\ crashes = 0

Dispatch(w) == Claim(w) \/ Send(w) \/ Publish(w)

Next ==
  \/ \E r \in Requests :
       \/ \E c \in ClientIds, b \in Contents : Lookup(r, c, b)
       \/ Insert(r) \/ Conflict(r) \/ Commit(r) \/ Abort(r)
       \/ \E e \in ExternalIds : Deliver(r, e)
       \/ Receive(r) \/ Duplicate(r) \/ Accept(r)
  \/ \E w \in Workers : Dispatch(w) \/ Crash(w)
  \/ Reconfigure

Spec == Init /\ [][Next]_vars

\* Celery beat starts a dispatch task every two seconds; a task ends, the call
\* to the provider being limited to twenty seconds.
FairSpec == Spec /\ \A w \in Workers : WF_vars(Dispatch(w))
-----------------------------------------------------------------------------
(* Properties. *)

MessageStatuses == {"draft", "queued", "sent", "unknown", "failed"}

\* Every variable has its type: a message's outbox row names a stored message.
TypeOK ==
  /\ messages \in Seq([client : ClientIds, content : Contents,
                       status : MessageStatuses])
  /\ receipts \in Seq(ExternalIds) /\ acked \subseteq ExternalIds
  /\ outbox \in Seq([topic : {"send", "received"}, of : Nat, stamp : Nat,
                     published : BOOLEAN])
  /\ \A i \in DOMAIN outbox :
       outbox[i].of \in IF outbox[i].topic = "send" THEN DOMAIN messages
                                                   ELSE DOMAIN receipts
  /\ events \in Seq(Seq(MessageStatuses)) /\ Len(events) = Len(messages)
  /\ answers \subseteq ClientIds \X Contents \X DOMAIN messages
  /\ req \in [Requests -> [pc : {"idle", "new", "inserted", "delivered", "received"},
                           id : ClientIds \union ExternalIds \union {None},
                           content : Contents \union {None}, stamp : Nat]]
  /\ task \in [Workers -> [pc : {"idle", "sending", "done"}, row : 0..Len(outbox),
                           reply : {"none", "ack", "timeout", "error"}]]
  /\ channelReady \in BOOLEAN
  /\ accepted \in [ClientIds -> Nat]
  /\ clock \in Nat /\ crashes \in Nat

\* The unpublished rows of a topic that stand for record n of its table.
Work(topic, n) ==
  {i \in DOMAIN outbox : /\ outbox[i].topic = topic /\ outbox[i].of = n
                         /\ ~outbox[i].published}

\* A message is queued exactly as long as one unpublished outbox row will send
\* it: none is stranded, whichever transactions were cut off, and a settled
\* message is never picked up again.
QueuedHasWork ==
  \A m \in DOMAIN messages :
    Cardinality(Work("send", m)) = IF messages[m].status = "queued" THEN 1 ELSE 0

\* All successful answers to one client id speak of one message, of the content
\* that was sent, though the id is looked up before any lock.
OneMessagePerClientId ==
  \A a, b \in answers : /\ a[1] = b[1] => a[3] = b[3]
                        /\ messages[a[3]].content = a[2]

\* A webhook event that was answered 202 is stored, once, with work to do, also
\* when a second delivery overtakes or outlives the first (PRD MSG-01).
AckedIsStored ==
  \A e \in acked :
    \E i \in DOMAIN receipts :
      /\ \A j \in DOMAIN receipts : receipts[j] = e <=> j = i
      /\ Cardinality(Work("received", i)) = 1

\* The customer gets each message once, and the extra copies are at most the
\* dispatch tasks that died: two workers, or a retried request, double nothing.
DoubledOnlyByCrash ==
  Cardinality({u \in ClientIds \X (2..MaxInserts + MaxCrashes) :
                 u[2] <= accepted[u[1]]}) <= crashes

\* The fate of the message with client id c, as its row tells it.
FateOf(c) ==
  IF WithClient(c) = {} THEN "none"
  ELSE messages[CHOOSE m \in WithClient(c) : TRUE].status

\* Outbox, workers and locks refine the fate of a message: nothing leaves of a
\* draft, nor of a message once it is settled; a second copy takes a death;
\* "sent" is said only of what the provider has; and no fate is ever revised.
Fate == INSTANCE MessageFate WITH
          fate <- [c \in ClientIds |-> FateOf(c)],
          copies <- accepted,
          deaths <- crashes
ImplementsFate == Fate!Spec

\* The console hears of each message once when it is stored, once when it is
\* settled, and the last word is the status of the row.
AnnouncedOnce ==
  \A m \in DOMAIN messages :
    /\ Len(events[m]) = IF messages[m].status \in {"draft", "queued"} THEN 1 ELSE 2
    /\ events[m][Len(events[m])] = messages[m].status

IsQueued(m) == m \in DOMAIN messages /\ messages[m].status = "queued"

\* A queued message is settled in the end, whichever tasks die on the way.
QueuedIsSettled == \A m \in 1..MaxInserts : IsQueued(m) ~> ~IsQueued(m)
=============================================================================
