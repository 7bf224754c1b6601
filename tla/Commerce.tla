------------------------------ MODULE Commerce ------------------------------
(***************************************************************************)
(* Orders, quotes and reserved stock: services.py and the /orders handlers *)
(* of api.py, running as concurrent database transactions.                 *)
(*                                                                         *)
(* A request is one HTTP call with its own database session.  A row read   *)
(* with FOR UPDATE stays locked until the session commits or rolls back;   *)
(* what the session changes (copy) reaches the database at the commit.     *)
(* An order is "ABSENT" until the request that inserts it commits.         *)
(***************************************************************************)
EXTENDS Integers, Sequences, FiniteSets

CONSTANTS Orders, Variants, Requests, Keys,
          None,          \* no order, no idempotency key
          Carts,         \* the item lists clients send
          OnHand,        \* stock_on_hand of each variant
          Prices,        \* effective prices a variant can have
          Fees,          \* delivery_minor of a quote request
          QuoteTTL,      \* 15 minutes, in ticks
          MaxTime, MaxQuotes,           \* bounds of the model
          MaxLines, MaxQuantity         \* bounds on a cart

Lines(priceSet) == [variant : Variants, quantity : 1..MaxQuantity, price : priceSet]

ASSUME SetsAssumption ==
  /\ IsFiniteSet(Orders)
  /\ None \notin Orders
  /\ None \notin Keys
ASSUME StockAssumption == OnHand \in [Variants -> Nat]
ASSUME PriceAssumption == Prices \subseteq Nat /\ Prices # {} /\ Fees \subseteq Nat
ASSUME BoundsAssumption ==
  /\ MaxLines \in Nat /\ MaxQuantity \in Nat
  /\ QuoteTTL \in Nat /\ MaxTime \in Nat /\ MaxQuotes \in Nat
ASSUME CartsAssumption ==
  \A c \in Carts : /\ c \in Seq([variant : Variants, quantity : 1..MaxQuantity])
                   /\ Len(c) \in 1..MaxLines

VARIABLES
  \* the orders table with its items and quotes; total_minor is always the
  \* sum of the items, which never change, plus delivery
  status, version, lines, quotes, delivery, evidence,
  \* the product_variants table
  reserved, price,
  \* append-only tables: order_status_history, audit_logs, realtime_events
  history, audits, events,
  \* the requests in progress, and the clock
  txn, now

orderRow == <<status, version, lines, quotes, delivery, evidence>>
trails   == <<history, audits, events>>
vars     == <<orderRow, reserved, price, trails, txn, now>>

Statuses == {"ABSENT", "DRAFT", "WAITING_CONFIRMATION", "CONFIRMED",
             "PREPARING", "READY_FOR_DELIVERY", "CANCELLED"}

\* The statuses whose orders hold reserved stock.
Live == {"CONFIRMED", "PREPARING", "READY_FOR_DELIVERY"}
Cancellable == Live \union {"DRAFT", "WAITING_CONFIRMATION"}

\* The dictionary "allowed" of transition_order; other statuses go nowhere.
Allowed(from) == CASE from = "CONFIRMED" -> "PREPARING"
                   [] from = "PREPARING" -> "READY_FOR_DELIVERY"
                   [] OTHER              -> "ABSENT"
Targets == {"PREPARING", "READY_FOR_DELIVERY"}

Idle == [op |-> "none", pc |-> "idle", order |-> None, key |-> None,
         seen |-> 0, target |-> "ABSENT", cart |-> <<>>, draft |-> <<>>,
         done |-> {}, want |-> 0, copy |-> [v \in Variants |-> 0]]
-----------------------------------------------------------------------------
(* Row locks. *)

OrderLocks(s) ==
  IF txn[s].pc = "lines" /\ txn[s].op \in {"confirm", "cancel"}
  THEN {txn[s].order} ELSE {}

VariantLocks(s) ==
  IF txn[s].op = "create"
  THEN {txn[s].draft[i].variant : i \in DOMAIN txn[s].draft}
  ELSE {lines[txn[s].order][i].variant : i \in txn[s].done}

\* (Definitions marked "mutant" are never used by the specification: each
\* replaces the definition after it in one mutation run.)
OrderNotLocked(s, o)   == TRUE     \* mutant: scoped_order without FOR UPDATE
VariantNotLocked(s, v) == TRUE     \* mutant: a variant read without FOR UPDATE

\* mutant: each item is locked in a transaction of its own
VariantFreeAnew(s, v)  == \A r \in Requests : v \notin VariantLocks(r)

OrderFree(s, o)   == \A r \in Requests \ {s} : o \notin OrderLocks(r)
VariantFree(s, v) == \A r \in Requests \ {s} : v \notin VariantLocks(r)

SeenInTable(s, v) == reserved[v]   \* mutant: an item forgets the items before it

\* The session's value of stock_reserved: its own copy once it has the row.
Seen(s, v) == IF v \in VariantLocks(s) THEN txn[s].copy[v] ELSE reserved[v]

\* Items are loaded with no ORDER BY: any item not yet handled may be next.
NextLines(o, done) ==
  IF DOMAIN lines[o] \subseteq done THEN {0} ELSE DOMAIN lines[o] \ done

\* The variant whose row the request asks for next.
Wanted(s) ==
  IF txn[s].op = "create" THEN txn[s].cart[Len(txn[s].draft) + 1].variant
                          ELSE lines[txn[s].order][txn[s].want].variant

MoreLines(s) ==
  /\ txn[s].pc = "lines"
  /\ IF txn[s].op = "create" THEN Len(txn[s].draft) < Len(txn[s].cart)
                             ELSE txn[s].want # 0

\* r is queued behind the row that t holds.
WaitsFor(r, t) == r # t /\ MoreLines(r) /\ Wanted(r) \in VariantLocks(t)
-----------------------------------------------------------------------------
Finish(s) == txn' = [txn EXCEPT ![s] = Idle]

\* get_db closes the session without a commit: nothing was written.
Rollback(s) == Finish(s) /\ UNCHANGED <<orderRow, reserved, price, trails, now>>

\* A row of order_status_history, of audit_logs and of realtime_events.
RecordOldVersion(o, to, key) ==    \* mutant: the event is made before the increment
  /\ history' = [history EXCEPT ![o] = Append(@, [from |-> status[o], to |-> to])]
  /\ audits'  = [audits EXCEPT ![o] = Append(@, [to |-> to, key |-> key])]
  /\ events'  = [events EXCEPT ![o] = Append(@, [version |-> version[o], status |-> to])]

Record(o, to, key) ==
  /\ history' = [history EXCEPT ![o] = Append(@, [from |-> status[o], to |-> to])]
  /\ audits'  = [audits EXCEPT ![o] = Append(@, [to |-> to, key |-> key])]
  /\ events'  = [events EXCEPT ![o] =
                   Append(@, [version |-> version[o] + 1, status |-> to])]

-----------------------------------------------------------------------------
(* add_order: lock and price the variants in payload order, insert, commit. *)

BeginCreate(s, o, c) ==
  /\ txn[s].pc = "idle" /\ status[o] = "ABSENT"
  /\ \A r \in Requests : txn[r].order = o => txn[r].op # "create"
  /\ txn' = [txn EXCEPT ![s] =
       [Idle EXCEPT !.op = "create", !.pc = "lines", !.order = o, !.cart = c]]
  /\ UNCHANGED <<orderRow, reserved, price, trails, now>>

CreateLine(s) ==
  /\ txn[s].op = "create" /\ MoreLines(s)
  /\ LET line == txn[s].cart[Len(txn[s].draft) + 1] IN
     /\ VariantFree(s, line.variant)
     /\ txn' = [txn EXCEPT ![s].draft =
          Append(@, [variant |-> line.variant, quantity |-> line.quantity,
                     price |-> price[line.variant]])]
  /\ UNCHANGED <<orderRow, reserved, price, trails, now>>

CreateCommit(s) ==
  LET o == txn[s].order IN
  /\ txn[s].op = "create" /\ ~MoreLines(s)
  /\ status'  = [status EXCEPT ![o] = "DRAFT"]
  /\ version' = [version EXCEPT ![o] = 1]
  /\ lines'   = [lines EXCEPT ![o] = txn[s].draft]
  /\ audits'  = [audits EXCEPT ![o] = Append(@, [to |-> "DRAFT", key |-> None])]
  /\ events'  = [events EXCEPT ![o] = Append(@, [version |-> 1, status |-> "DRAFT"])]
  /\ Finish(s)
  /\ UNCHANGED <<quotes, delivery, evidence, reserved, price, history, now>>
-----------------------------------------------------------------------------
(* add_quote: one locked row, so the whole transaction is one step.        *)

Quotable == {"DRAFT", "WAITING_CONFIRMATION"}

Quote(o, fee) ==
  /\ status[o] \in Quotable
  /\ \A s \in Requests : o \notin OrderLocks(s)
  /\ Len(quotes[o]) < MaxQuotes
  /\ quotes' = [quotes EXCEPT ![o] =
       Append(@, [delivery |-> fee, expires |-> now + QuoteTTL])]
  /\ delivery' = [delivery EXCEPT ![o] = fee]
  /\ status'  = [status EXCEPT ![o] = "WAITING_CONFIRMATION"]
  /\ version' = [version EXCEPT ![o] = @ + 1]
  /\ events'  = [events EXCEPT ![o] =
       Append(@, [version |-> version[o] + 1, status |-> "WAITING_CONFIRMATION"])]
  /\ UNCHANGED <<lines, evidence, reserved, price, history, audits, txn, now>>
-----------------------------------------------------------------------------
(* confirm: the idempotency lookup precedes the lock on the order.         *)

WithKey(k) ==
  {o \in Orders : \E i \in DOMAIN audits[o] :
                    audits[o][i].to = "CONFIRMED" /\ audits[o][i].key = k}

\* A client confirms the newest quote it has seen, under a key.  A key that
\* names another order's confirmation is answered 409 at once.
BeginConfirm(s, o, k) ==
  /\ txn[s].pc = "idle" /\ quotes[o] # <<>>
  /\ \/ /\ WithKey(k) = {}
        /\ txn' = [txn EXCEPT ![s] =
             [Idle EXCEPT !.op = "confirm", !.pc = "waiting", !.order = o,
                          !.key = k, !.seen = Len(quotes[o])]]
     \/ /\ o \in WithKey(k)     \* db.scalar returns some row with this key
        /\ txn' = [txn EXCEPT ![s] =
             [Idle EXCEPT !.op = "replay", !.pc = "waiting", !.order = o]]
  /\ UNCHANGED <<orderRow, reserved, price, trails, now>>

\* A replay only waits for the row and returns it.
Replay(s) ==
  /\ txn[s].op = "replay" /\ OrderFree(s, txn[s].order)
  /\ Rollback(s)

MayConfirmAgain(s) ==              \* mutant: no check of the status
  LET o == txn[s].order IN
  /\ txn[s].seen = Len(quotes[o])
  /\ quotes[o][txn[s].seen].expires > now

MayConfirmOldQuote(s) ==           \* mutant: any quote of the order will do
  LET o == txn[s].order IN
  /\ status[o] = "WAITING_CONFIRMATION"
  /\ quotes[o][txn[s].seen].expires > now

MayConfirm(s) ==
  LET o == txn[s].order IN
  /\ status[o] = "WAITING_CONFIRMATION"
  /\ txn[s].seen = Len(quotes[o])
  /\ quotes[o][txn[s].seen].expires > now

ConfirmLock(s) ==
  /\ txn[s].op = "confirm" /\ txn[s].pc = "waiting"
  /\ OrderFree(s, txn[s].order)
  /\ MayConfirm(s)
  /\ \E n \in NextLines(txn[s].order, {}) :
       txn' = [txn EXCEPT ![s].pc = "lines", ![s].want = n]
  /\ UNCHANGED <<orderRow, reserved, price, trails, now>>

MayReserveStale(s, line) ==        \* mutant: availability without the copy
  /\ OnHand[line.variant] - reserved[line.variant] >= line.quantity
  /\ price[line.variant] = line.price

MayReserveAnyPrice(s, line) ==     \* mutant: no check of the price
  OnHand[line.variant] - Seen(s, line.variant) >= line.quantity

MayReserve(s, line) ==
  /\ OnHand[line.variant] - Seen(s, line.variant) >= line.quantity
  /\ price[line.variant] = line.price

\* Go on to another item after line n, with the new value of its stock.
TakeLine(s, n, stock) ==
  \E m \in NextLines(txn[s].order, txn[s].done \union {n}) :
    txn' = [txn EXCEPT ![s].done = @ \union {n}, ![s].want = m,
                       ![s].copy[lines[txn[s].order][n].variant] = stock]

ConfirmLineMinus(s) ==             \* mutant: units are taken off the counter
  /\ txn[s].op = "confirm" /\ MoreLines(s)
  /\ VariantFree(s, Wanted(s))
  /\ LET n == txn[s].want  line == lines[txn[s].order][n] IN
     /\ MayReserve(s, line)
     /\ TakeLine(s, n, Seen(s, line.variant) - line.quantity)
  /\ UNCHANGED <<orderRow, reserved, price, trails, now>>

ConfirmLine(s) ==
  /\ txn[s].op = "confirm" /\ MoreLines(s)
  /\ VariantFree(s, Wanted(s))
  /\ LET n == txn[s].want  line == lines[txn[s].order][n] IN
     /\ MayReserve(s, line)
     /\ TakeLine(s, n, Seen(s, line.variant) + line.quantity)
  /\ UNCHANGED <<orderRow, reserved, price, trails, now>>

\* The session's stock figures reach the database.
Flush(s) == reserved' = [v \in Variants |-> Seen(s, v)]

ConfirmCommit(s) ==
  LET o == txn[s].order IN
  /\ txn[s].op = "confirm" /\ txn[s].pc = "lines" /\ ~MoreLines(s)
  /\ Flush(s)
  /\ status'   = [status EXCEPT ![o] = "CONFIRMED"]
  /\ evidence' = [evidence EXCEPT ![o] = [quote |-> txn[s].seen, at |-> now]]
  /\ version'  = [version EXCEPT ![o] = @ + 1]
  /\ Record(o, "CONFIRMED", txn[s].key)
  /\ Finish(s)
  /\ UNCHANGED <<lines, quotes, delivery, price, now>>
-----------------------------------------------------------------------------
(* transition and cancel: staff act on the version of the order they saw.  *)

BeginStaff(s, o, op, target) ==
  /\ txn[s].pc = "idle" /\ status[o] # "ABSENT"
  /\ txn' = [txn EXCEPT ![s] =
       [Idle EXCEPT !.op = op, !.pc = "waiting", !.order = o,
                    !.seen = version[o], !.target = target]]
  /\ UNCHANGED <<orderRow, reserved, price, trails, now>>

MayTransition(s) ==
  LET o == txn[s].order IN
  /\ version[o] = txn[s].seen
  /\ Allowed(status[o]) = txn[s].target

Transition(s) ==
  LET o == txn[s].order IN
  /\ txn[s].op = "transition" /\ OrderFree(s, o)
  /\ MayTransition(s)
  /\ status'  = [status EXCEPT ![o] = txn[s].target]
  /\ version' = [version EXCEPT ![o] = @ + 1]
  /\ Record(o, txn[s].target, None)
  /\ Finish(s)
  /\ UNCHANGED <<lines, quotes, delivery, evidence, reserved, price, now>>

MayCancelAny(s) ==                 \* mutant: expected_version is ignored
  status[txn[s].order] \in Cancellable

MayCancel(s) ==
  LET o == txn[s].order IN
  /\ version[o] = txn[s].seen
  /\ status[o] \in Cancellable

\* Only an order that holds stock has lines to give back.
CancelLock(s) ==
  LET o == txn[s].order IN
  /\ txn[s].op = "cancel" /\ txn[s].pc = "waiting"
  /\ OrderFree(s, o)
  /\ MayCancel(s)
  /\ \E n \in IF status[o] \in Live THEN NextLines(o, {}) ELSE {0} :
       txn' = [txn EXCEPT ![s].pc = "lines", ![s].want = n]
  /\ UNCHANGED <<orderRow, reserved, price, trails, now>>

MayRelease(s, line) == Seen(s, line.variant) >= line.quantity

CancelLine(s) ==
  /\ txn[s].op = "cancel" /\ MoreLines(s)
  /\ VariantFree(s, Wanted(s))
  /\ LET n == txn[s].want  line == lines[txn[s].order][n] IN
     /\ MayRelease(s, line)
     /\ TakeLine(s, n, Seen(s, line.variant) - line.quantity)
  /\ UNCHANGED <<orderRow, reserved, price, trails, now>>

CancelCommit(s) ==
  LET o == txn[s].order IN
  /\ txn[s].op = "cancel" /\ txn[s].pc = "lines" /\ ~MoreLines(s)
  /\ Flush(s)
  /\ status'  = [status EXCEPT ![o] = "CANCELLED"]
  /\ version' = [version EXCEPT ![o] = @ + 1]
  /\ Record(o, "CANCELLED", None)
  /\ Finish(s)
  /\ UNCHANGED <<lines, quotes, delivery, evidence, price, now>>
-----------------------------------------------------------------------------
(* The ways a request ends without an effect.                              *)

\* The 409 answers, each after the lock the check is made under.
Refused(s) ==
  LET o == txn[s].order IN
  \/ /\ txn[s].pc = "waiting" /\ OrderFree(s, o)
     /\ \/ txn[s].op = "confirm" /\ ~MayConfirm(s)
        \/ txn[s].op = "transition" /\ ~MayTransition(s)
        \/ txn[s].op = "cancel" /\ ~MayCancel(s)
  \/ /\ txn[s].op \in {"confirm", "cancel"} /\ MoreLines(s)
     /\ VariantFree(s, Wanted(s))
     /\ LET line == lines[o][txn[s].want] IN
        \/ txn[s].op = "confirm" /\ ~MayReserve(s, line)
        \/ txn[s].op = "cancel" /\ ~MayRelease(s, line)

Refuse(s) == Refused(s) /\ Rollback(s)

\* A crash of the API process or a dropped connection.
Abort(s) == txn[s].pc # "idle" /\ Rollback(s)

\* PostgreSQL cancels a transaction that is part of a cycle of waits.
OnWaitCycle(s) ==
  \E C \in SUBSET Requests :
    /\ s \in C
    /\ \A r \in C : /\ \E t \in C : WaitsFor(r, t)
                    /\ \E t \in C : WaitsFor(t, r)

DeadlockVictim(s) == OnWaitCycle(s) /\ Rollback(s)
-----------------------------------------------------------------------------
(* Outside this code: catalogue edits and the passing of time.             *)

EditPrice(v, p) ==
  /\ \A s \in Requests : v \notin VariantLocks(s)
  /\ price' = [price EXCEPT ![v] = p]
  /\ UNCHANGED <<orderRow, reserved, trails, txn, now>>

Tick ==
  /\ now < MaxTime
  /\ now' = now + 1
  /\ UNCHANGED <<orderRow, reserved, price, trails, txn>>
-----------------------------------------------------------------------------
NoEvidence == [quote |-> 0, at |-> 0]

Init ==
  /\ status = [o \in Orders |-> "ABSENT"]
  /\ version = [o \in Orders |-> 1]
  /\ lines = [o \in Orders |-> <<>>]
  /\ quotes = [o \in Orders |-> <<>>]
  /\ delivery = [o \in Orders |-> 0]
  /\ evidence = [o \in Orders |-> NoEvidence]
  /\ reserved = [v \in Variants |-> 0]
  /\ price \in [Variants -> Prices]
  /\ history = [o \in Orders |-> <<>>]
  /\ audits = [o \in Orders |-> <<>>]
  /\ events = [o \in Orders |-> <<>>]
  /\ txn = [s \in Requests |-> Idle]
  /\ now = 0

\* What the server does next for request s.
Progress(s) ==
  \/ CreateLine(s) \/ CreateCommit(s)
  \/ Replay(s) \/ ConfirmLock(s) \/ ConfirmLine(s) \/ ConfirmCommit(s)
  \/ Transition(s)
  \/ CancelLock(s) \/ CancelLine(s) \/ CancelCommit(s)
  \/ Refuse(s)

Begin(s) ==
  \E o \in Orders :
    \/ \E c \in Carts : BeginCreate(s, o, c)
    \/ \E k \in Keys : BeginConfirm(s, o, k)
    \/ \E t \in Targets : BeginStaff(s, o, "transition", t)
    \/ BeginStaff(s, o, "cancel", "ABSENT")

Next ==
  \/ \E s \in Requests : Begin(s) \/ Progress(s) \/ Abort(s) \/ DeadlockVictim(s)
  \/ \E o \in Orders, fee \in Fees : Quote(o, fee)
  \/ \E v \in Variants, p \in Prices : EditPrice(v, p)
  \/ Tick

Spec == Init /\ [][Next]_vars

\* Row locks are granted in the order they are asked for, so a request that
\* can proceed again and again does; the deadlock detector always runs.
Fairness ==
  /\ \A s \in Requests : SF_vars(Progress(s))
  /\ WF_vars(\E s \in Requests : DeadlockVictim(s))
FairSpec == Spec /\ Fairness
-----------------------------------------------------------------------------
(* Properties. *)

\* What a request may hold.
Txns == [op : {"none", "create", "confirm", "replay", "transition", "cancel"},
         pc : {"idle", "waiting", "lines"},
         order : Orders \union {None}, key : Keys \union {None},
         seen : Nat, target : Targets \union {"ABSENT"},
         cart : Carts \union {<<>>}, draft : Seq(Lines(Prices)),
         done : SUBSET (1..MaxLines), want : 0..MaxLines,
         copy : [Variants -> Nat]]

Quotes == [delivery : Fees, expires : Nat]

\* Every variable has its type: rows, trails, the session copies of requests.
TypeOK ==
  /\ status \in [Orders -> Statuses]
  /\ version \in [Orders -> Nat]
  /\ quotes \in [Orders -> Seq(Quotes)]
  /\ delivery \in [Orders -> Fees \union {0}]
  /\ evidence \in [Orders -> [quote : Nat, at : Nat]]
  /\ lines \in [Orders -> Seq(Lines(Prices))]
  /\ \A o \in Orders : Len(lines[o]) <= MaxLines
  /\ reserved \in [Variants -> Nat]
  /\ price \in [Variants -> Prices]
  /\ history \in [Orders -> Seq([from : Statuses, to : Statuses])]
  /\ audits \in [Orders -> Seq([to : Statuses, key : Keys \union {None}])]
  /\ events \in [Orders -> Seq([version : Nat, status : Statuses])]
  /\ now \in Nat
  /\ txn \in [Requests -> Txns]

\* The units of variant v that live orders were promised.
Held(v) ==
  {u \in Orders \X (1..MaxLines) \X (1..MaxQuantity) :
     /\ status[u[1]] \in Live
     /\ u[2] \in DOMAIN lines[u[1]]
     /\ lines[u[1]][u[2]].variant = v
     /\ u[3] <= lines[u[1]][u[2]].quantity}

\* stock_reserved is exactly what live orders hold: confirmations and
\* cancellations that run together lose no update, and one that fails half
\* way through its items leaves nothing behind (confirm_order, cancel_order).
ReservationExact == \A v \in Variants : reserved[v] = Cardinality(Held(v))

\* Live orders never hold more units than there are (PRD ORD-03).
NoOversell == \A v \in Variants : Cardinality(Held(v)) <= OnHand[v]

\* A live order stands on its newest quote, and charges that quote's delivery
\* (PRD ORD-02): quoting again cannot slip in while the order is confirmed.
ConfirmedOnLatestQuote ==
  \A o \in Orders : status[o] \in Live =>
    /\ quotes[o] # <<>> /\ evidence[o].quote = Len(quotes[o])
    /\ delivery[o] = quotes[o][evidence[o].quote].delivery

\* The history, events and audit rows of o match its row.
IsTrail(o) ==
  LET h == history[o]  e == events[o] IN
  /\ version[o] = 1 + Len(quotes[o]) + Len(h)
  /\ Len(e) = version[o]
  /\ \A i \in DOMAIN e : e[i].version = i
  /\ e[Len(e)].status = status[o]
  /\ \A i \in 2..Len(h) : h[i].from = h[i-1].to
  /\ h # <<>> => h[Len(h)].to = status[o]
  /\ Len(audits[o]) = 1 + Len(h)

\* The trails and the row never drift apart: each version of an order was
\* announced once, in order, the history is a chain that ends in the present
\* status, and quotes and history rows account for every version.
TrailTellsTheOrder == \A o \in Orders : status[o] # "ABSENT" => IsTrail(o)

\* However often it is retried, and under whatever keys, an order is
\* confirmed once.
ConfirmedOnce ==
  \A o \in Orders :
    Cardinality({i \in DOMAIN audits[o] : audits[o][i].to = "CONFIRMED"}) <= 1

\* "Reserved stock is inconsistent" (cancel_order) is never answered: what a
\* cancellation gives back was taken before.
CancelNeverInconsistent ==
  \A s \in Requests :
    txn[s].op = "cancel" /\ MoreLines(s) =>
      Seen(s, Wanted(s)) >= lines[txn[s].order][txn[s].want].quantity

\* An order becomes CONFIRMED at prices that are still the catalogue's at that
\* very step: no price moves between the check of an item and the commit.
PriceHonoured ==
  [][\A o \in Orders :
       status[o] = "WAITING_CONFIRMATION" /\ status'[o] = "CONFIRMED" =>
         \A i \in DOMAIN lines[o] : lines[o][i].price = price[lines[o][i].variant]]_vars

\* Whoever moves an order on or cancels it had seen its present version, even
\* when the request waited for locks in between (expected_version).
StaffSawIt ==
  [][\A s \in Requests :
       /\ txn[s].op \in {"transition", "cancel"} /\ txn'[s].op = "none"
       /\ status'[txn[s].order] # status[txn[s].order]
       => txn[s].seen = version[txn[s].order]]_vars

\* Every request is answered, also those that wait for each other's rows.
RequestsFinish == \A s \in Requests : txn[s].pc # "idle" ~> txn[s].pc = "idle"

\* Requests, locks and session copies refine the ledger: seen from outside,
\* each order reserves and releases all of its units at one instant.
Ledger == INSTANCE OrderLedger WITH
            status <- status, lines <- lines, reserved <- reserved
ImplementsLedger == Ledger!Spec

\* PRD ORD-04: a repeated idempotency key has one effect.
KeyHasOneEffect == \A k \in Keys : Cardinality(WithKey(k)) <= 1

\* PRD ORD-02: the confirmation came before the quote expired.
EvidenceBeforeExpiry ==
  \A o \in Orders : status[o] = "CONFIRMED" =>
    evidence[o].at < quotes[o][evidence[o].quote].expires
=============================================================================
