----------------------------- MODULE EventStream -----------------------------
(***************************************************************************)
(* Realtime events: emit_event of events.py writes rows inside the         *)
(* transactions of the handlers, stream_events of api.py polls them for a  *)
(* browser's EventSource, which reconnects with the last id it received,   *)
(* until an answer other than 200 closes it for good.                      *)
(*                                                                         *)
(* A row is stamped when it is inserted and seen when its transaction      *)
(* commits; the stream moves its cursor along the stamps.                  *)
(***************************************************************************)
EXTENDS Integers, Sequences, FiniteSets, SequencesExt

CONSTANTS Writers,                   \* transactions that emit an event
          Limit,                     \* rows of one poll, 100 in the code
          MaxTime, MaxEvents, MaxDrops   \* bounds of the model

ASSUME LimitAssumption == Limit \in Nat \ {0}
ASSUME BoundsAssumption == MaxTime \in Nat /\ MaxEvents \in Nat /\ MaxDrops \in Nat

VARIABLES
  table,      \* created_at of the committed rows, in commit order
  pending,    \* the stamps of each writer's uncommitted row, at most one
  now,
  online,     \* a stream is open
  closed,     \* the EventSource was refused and does not try again
  cursor,     \* the stream's cursor
  batch,      \* rows of the last poll not yielded yet
  got,        \* the events the page has received, in order
  start,      \* the cursor of the connection from which nothing is skipped
  drops

server == <<online, closed, cursor, batch>>
vars   == <<table, pending, now, server, got, start, drops>>
-----------------------------------------------------------------------------
(* Handlers. *)

Emit(w) ==
  /\ pending[w] = {} /\ Len(table) < MaxEvents
  /\ pending' = [pending EXCEPT ![w] = {now}]
  /\ UNCHANGED <<table, now, server, got, start, drops>>

Commit(w) ==
  /\ pending[w] # {}
  /\ \E stamp \in pending[w] : table' = Append(table, stamp)
  /\ pending' = [pending EXCEPT ![w] = {}]
  /\ UNCHANGED <<now, server, got, start, drops>>

Rollback(w) ==
  /\ pending[w] # {}
  /\ pending' = [pending EXCEPT ![w] = {}]
  /\ UNCHANGED <<table, now, server, got, start, drops>>
-----------------------------------------------------------------------------
(* stream_events *)

FromNow == now                     \* mutant: Last-Event-ID is ignored

\* The cursor of a new connection: the stamp of the last event received, the
\* present if there is none.
From == IF got = <<>> THEN now ELSE table[Last(got)]

Connect ==
  /\ ~online /\ ~closed
  /\ online' = TRUE
  /\ cursor' = From
  /\ batch' = <<>>
  /\ start' = IF got = <<>> THEN now ELSE start
  /\ UNCHANGED <<table, pending, now, closed, got, drops>>

\* current_user and company_context: the access cookie has expired (401), the
\* membership is gone (404), or the pool has no connection in time (500).  The
\* page listens for messages only: nobody renews the cookie or opens again.
Refused ==
  /\ ~online /\ ~closed
  /\ closed' = TRUE
  /\ UNCHANGED <<table, pending, now, online, cursor, batch, got, start, drops>>

NewRowsInclusive == {i \in DOMAIN table : table[i] >= cursor}  \* mutant: >= for >
NewRowsLatest ==                   \* mutant: only rows of the present moment
  {i \in DOMAIN table : table[i] > cursor /\ table[i] = now}

NewRows == {i \in DOMAIN table : table[i] > cursor}

AllRows(b) == b                    \* mutant: no limit

FirstRows(b) == SubSeq(b, 1, IF Len(b) < Limit THEN Len(b) ELSE Limit)

\* One poll: the oldest rows after the cursor, rows of one stamp in any order.
Poll ==
  /\ online /\ batch = <<>> /\ NewRows # {}
  /\ \E b \in SetToSeqs(NewRows) :
       /\ \A i, j \in DOMAIN b : i < j => table[b[i]] <= table[b[j]]
       /\ batch' = FirstRows(b)
  /\ UNCHANGED <<table, pending, now, online, closed, cursor, got, start, drops>>

Advance(i) == IF table[i] > cursor THEN table[i] ELSE cursor

Yield ==
  /\ online /\ batch # <<>>
  /\ cursor' = Advance(Head(batch))
  /\ got' = Append(got, Head(batch))
  /\ batch' = Tail(batch)
  /\ UNCHANGED <<table, pending, now, online, closed, start, drops>>

\* The connection breaks; what was not received is lost with it.
Drop ==
  /\ online /\ drops < MaxDrops
  /\ online' = FALSE /\ batch' = <<>>
  /\ drops' = drops + 1
  /\ UNCHANGED <<table, pending, now, closed, cursor, got, start>>

Tick ==
  /\ now < MaxTime /\ now' = now + 1
  /\ UNCHANGED <<table, pending, server, got, start, drops>>
-----------------------------------------------------------------------------
Init ==
  /\ table = <<>> /\ pending = [w \in Writers |-> {}] /\ now = 0
  /\ online = FALSE /\ closed = FALSE /\ cursor = 0 /\ batch = <<>>
  /\ got = <<>> /\ start = 0 /\ drops = 0

Open == Connect \/ Refused

Stream == Poll \/ Yield

Next ==
  \/ \E w \in Writers : Emit(w) \/ Commit(w) \/ Rollback(w)
  \/ Open \/ Stream \/ Drop
  \/ Tick

Spec == Init /\ [][Next]_vars

\* The generator polls every second; EventSource tries again by itself, and is
\* answered: with a stream or with a refusal.
FairSpec == Spec /\ WF_vars(Stream) /\ WF_vars(Open)
-----------------------------------------------------------------------------
(* Properties. *)

\* Every variable has its type.
TypeOK ==
  /\ table \in Seq(0..now) /\ now \in Nat
  /\ pending \in [Writers -> SUBSET (0..now)]
  /\ {online, closed} \subseteq BOOLEAN /\ cursor \in 0..now /\ start \in 0..now
  /\ batch \in Seq(DOMAIN table) /\ Len(batch) <= Limit
  /\ got \in Seq(DOMAIN table)
  /\ drops \in Nat

\* No event is shown twice and none before an older one, across reconnections
\* and polls that overlap commits.
InOrderOnce ==
  /\ IsInjective(got)
  /\ \A i, j \in DOMAIN got : i < j => table[got[i]] <= table[got[j]]

\* Another event of the same instant was received, or a younger one that was
\* committed before it.
Overtaken(e) ==
  \E k \in DOMAIN got :
    \/ table[got[k]] = table[e]
    \/ table[got[k]] > table[e] /\ got[k] < e

\* The stream, or one opened from the last id received, has yet to send it.
ToCome(e) == IF online THEN e \in Range(batch) \/ table[e] > cursor
                       ELSE got = <<>> \/ table[e] > From

\* Stamped since the page connected.  An event stamped before that and committed
\* after it is lost, overtaken or not, and so is one of a gap that began before
\* the first event was received: nothing says where to resume.
Waiting(e) == /\ e \in DOMAIN table /\ table[e] > start
              /\ e \notin Range(got) /\ ~Overtaken(e)

\* An event stamped since the page connected is skipped only if it was
\* overtaken: neither the limit of a poll nor a lost connection skips one.
MissedOnlyIfOvertaken == \A e \in DOMAIN table : Waiting(e) => ToCome(e)

\* And what is to come arrives once connections stop breaking, or the stream was
\* refused.
EventsArrive == \A e \in 1..MaxEvents : Waiting(e) ~> (~Waiting(e) \/ closed)
=============================================================================
