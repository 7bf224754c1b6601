--------------------------- MODULE CommerceProofs ---------------------------
(***************************************************************************)
(* Proofs about Commerce, for every number of orders, variants and         *)
(* requests: the types, and the trail of an order.                         *)
(***************************************************************************)
EXTENDS Commerce, FiniteSetTheorems, TLAPS

(* The inductive invariant.  First, what a request in progress looks like. *)

Locking == {"confirm", "cancel"}

RequestOK(s) ==
  LET t == txn[s]  o == txn[s].order IN
  /\ (t.pc = "idle") <=> (t.op = "none")
  /\ t.op # "none" => o \in Orders
  /\ t.op \notin {"none", "create"} => status[o] # "ABSENT"
  /\ t.op = "create" => /\ t.pc = "lines" /\ t.cart \in Carts
                        /\ Len(t.draft) <= Len(t.cart)
                        /\ status[o] = "ABSENT"
  /\ t.op \in {"replay", "transition"} => t.pc = "waiting"
  /\ t.op = "transition" => t.target \in Targets
  /\ ~(t.op \in Locking /\ t.pc = "lines") => t.done = {} /\ t.want = 0
  /\ t.op \in Locking /\ t.pc = "lines" =>
       /\ t.done \subseteq DOMAIN lines[o]
       /\ t.want # 0 => t.want \in DOMAIN lines[o] /\ t.want \notin t.done
       /\ t.op = "confirm" => status[o] = "WAITING_CONFIRMATION"
       /\ t.op = "cancel" => status[o] \in Cancellable
       /\ status[o] \in Live \/ t.op = "confirm" =>
            (t.want = 0 => t.done = DOMAIN lines[o])
       /\ status[o] \notin Live /\ t.op = "cancel" => t.want = 0 /\ t.done = {}

RequestsOK == \A s \in Requests : RequestOK(s)

(* No two requests hold one row, or insert one order. *)
Exclusive ==
  \A r, s \in Requests : r # s =>
    /\ OrderLocks(r) \cap OrderLocks(s) = {}
    /\ VariantLocks(r) \cap VariantLocks(s) = {}
    /\ txn[r].op = "create" /\ txn[s].op = "create" => txn[r].order # txn[s].order

QuotesOK == \A o \in Orders : quotes[o] # <<>> => status[o] # "ABSENT"

StateOK == TypeOK /\ QuotesOK /\ RequestsOK /\ Exclusive

USE DEF orderRow, trails

LEMMA IdleType == Idle \in Txns
<1>1. <<>> \in Seq(Lines(Prices))
  OBVIOUS
<1>2. [v \in Variants |-> 0] \in [Variants -> Nat]
  OBVIOUS
<1> QED
  BY <1>1, <1>2, BoundsAssumption DEF Idle, Txns

LEMMA InitOK == Init => StateOK
<1> SUFFICES ASSUME Init PROVE StateOK
  OBVIOUS
<1> USE DEF Init
<1>1. TypeOK
  BY IdleType, BoundsAssumption DEF TypeOK, Statuses, NoEvidence
<1>2. RequestsOK
  BY DEF RequestsOK, RequestOK, Idle, Locking
<1>3. Exclusive
  BY DEF Exclusive, OrderLocks, VariantLocks, Idle
<1>4. QuotesOK
  BY DEF QuotesOK
<1> QED
  BY <1>1, <1>2, <1>3, <1>4 DEF StateOK

-----------------------------------------------------------------------------
(* How a step of one request leaves the others as they are. *)

LEMMA SameLocks ==
  ASSUME NEW r \in Requests, txn'[r] = txn[r],
         txn[r].op # "create" => lines'[txn[r].order] = lines[txn[r].order]
  PROVE  OrderLocks(r)' = OrderLocks(r) /\ VariantLocks(r)' = VariantLocks(r)
<1>1. CASE txn[r].op = "create"
  BY <1>1 DEF OrderLocks, VariantLocks
<1>2. CASE txn[r].op # "create"
  BY <1>2 DEF OrderLocks, VariantLocks
<1> QED
  BY <1>1, <1>2

LEMMA StepOK ==
  ASSUME StateOK, NEW s \in Requests,
         txn' = [txn EXCEPT ![s] = txn'[s]], txn'[s] \in Txns,
         UNCHANGED <<orderRow, reserved, price, trails, now>>,
         RequestOK(s)',
         \A r \in Requests \ {s} :
           /\ OrderLocks(s)' \cap OrderLocks(r) = {}
           /\ VariantLocks(s)' \cap VariantLocks(r) = {}
           /\ txn'[s].op = "create" /\ txn[r].op = "create" =>
                txn'[s].order # txn[r].order
  PROVE  StateOK'
<1> USE DEF StateOK
<1>1. TypeOK'
  BY DEF TypeOK
<1>2. \A r \in Requests \ {s} : txn'[r] = txn[r]
  BY DEF TypeOK
<1>3. RequestsOK'
  BY <1>2 DEF RequestsOK, RequestOK
<1>4. ASSUME NEW r \in Requests \ {s}
      PROVE  OrderLocks(r)' = OrderLocks(r) /\ VariantLocks(r)' = VariantLocks(r)
  BY <1>2, SameLocks
<1>5. Exclusive'
  BY <1>2, <1>4 DEF Exclusive
<1>6. QuotesOK'
  BY DEF QuotesOK
<1> QED
  BY <1>1, <1>3, <1>5, <1>6

LEMMA IdleLocks ==
  ASSUME NEW s \in Requests, txn'[s] = Idle
  PROVE  OrderLocks(s)' = {} /\ VariantLocks(s)' = {}
BY DEF OrderLocks, VariantLocks, Idle

LEMMA RollbackOK ==
  ASSUME StateOK, NEW s \in Requests, Rollback(s)
  PROVE  StateOK'
<1>1. txn'[s] = Idle /\ txn' = [txn EXCEPT ![s] = txn'[s]]
  BY DEF Rollback, Finish, StateOK, TypeOK
<1>2. RequestOK(s)'
  BY <1>1 DEF RequestOK, Idle, Locking
<1>3. OrderLocks(s)' = {} /\ VariantLocks(s)' = {}
  BY <1>1, IdleLocks
<1>4. txn'[s] \in Txns /\ txn'[s].op = "none"
  BY <1>1, IdleType DEF Idle
<1>5. UNCHANGED <<orderRow, reserved, price, trails, now>>
  BY DEF Rollback
<1>6. \A r \in Requests \ {s} :
           /\ OrderLocks(s)' \cap OrderLocks(r) = {}
           /\ VariantLocks(s)' \cap VariantLocks(r) = {}
           /\ txn'[s].op = "create" /\ txn[r].op = "create" =>
                txn'[s].order # txn[r].order
  BY <1>3, <1>4
<1> QED
  BY <1>1, <1>2, <1>4, <1>5, <1>6, StepOK

\* A commit: the request held the order's row, or got it in the same step.
LEMMA CommitOK ==
  ASSUME StateOK, NEW s \in Requests, Finish(s), TypeOK', UNCHANGED <<lines, quotes>>,
         txn[s].op \notin {"none", "create"},
         OrderFree(s, txn[s].order),
         NEW to \in Statuses \ {"ABSENT"},
         status' = [status EXCEPT ![txn[s].order] = to]
  PROVE  StateOK'
<1> USE DEF StateOK
<1>1. txn'[s] = Idle /\ \A r \in Requests \ {s} : txn'[r] = txn[r]
  BY DEF Finish, TypeOK
<1>2. ASSUME NEW r \in Requests PROVE RequestOK(r)'
  <2>1. CASE r = s
    BY <1>1, <2>1 DEF RequestOK, Idle, Locking
  <2>2. CASE r # s
    <3>1. RequestOK(r) /\ RequestOK(s) /\ txn'[r] = txn[r]
      BY <1>1, <2>2 DEF RequestsOK
    <3>2. CASE txn[r].order # txn[s].order
      BY <3>1, <3>2 DEF RequestOK, TypeOK
    <3>3. CASE txn[r].order = txn[s].order
      <4>1. ~(txn[r].op \in Locking /\ txn[r].pc = "lines")
        BY <2>2, <3>3 DEF OrderFree, OrderLocks, Locking
      <4>2. txn[r].op # "create"
        BY <3>1, <3>3 DEF RequestOK
      <4> QED
        BY <3>1, <3>3, <4>1, <4>2 DEF RequestOK, TypeOK, Locking
    <3> QED
      BY <3>2, <3>3
  <2> QED
    BY <2>1, <2>2
<1>3. \A r \in Requests :
        /\ OrderLocks(r)' = IF r = s THEN {} ELSE OrderLocks(r)
        /\ VariantLocks(r)' = IF r = s THEN {} ELSE VariantLocks(r)
  BY <1>1, IdleLocks, SameLocks
<1>4. Exclusive'
  BY <1>1, <1>3 DEF Exclusive, Idle
<1>5. QuotesOK'
  BY DEF QuotesOK, TypeOK
<1> QED
  BY <1>2, <1>4, <1>5 DEF RequestsOK
-----------------------------------------------------------------------------
(* One lemma per action. *)

LEMMA BeginOK ==
  ASSUME StateOK, NEW s \in Requests, Begin(s)
  PROVE  StateOK'
<1> USE DEF StateOK
<1>0. UNCHANGED <<orderRow, reserved, price, trails, now>>
  BY DEF Begin, BeginCreate, BeginConfirm, BeginStaff
<1>1. ASSUME NEW o \in Orders, NEW c \in Carts, BeginCreate(s, o, c)
      PROVE  StateOK'
  <2> DEFINE t == [Idle EXCEPT !.op = "create", !.pc = "lines", !.order = o, !.cart = c]
  <2>1. t \in Txns
    BY IdleType DEF Txns
  <2>2. txn'[s] = t /\ txn' = [txn EXCEPT ![s] = txn'[s]]
    BY <1>1 DEF BeginCreate, TypeOK
  <2>3. /\ t.op = "create" /\ t.pc = "lines" /\ t.order = o /\ t.cart = c
        /\ t.draft = <<>> /\ t.done = {} /\ t.want = 0
    BY DEF Idle
  <2>4. /\ status[o] = "ABSENT" /\ Len(c) \in Nat /\ Len(<<>>) = 0
        /\ \A r \in Requests : txn[r].order = o => txn[r].op # "create"
    BY <1>1, CartsAssumption DEF BeginCreate
  <2> HIDE DEF t
  <2>5. RequestOK(s)'
    BY <1>0, <2>2, <2>3, <2>4 DEF RequestOK, Locking
  <2>6. OrderLocks(s)' = {} /\ VariantLocks(s)' = {}
    BY <2>2, <2>3 DEF OrderLocks, VariantLocks
  <2>7. \A r \in Requests : txn[r].op = "create" => txn[r].order # txn'[s].order
    BY <2>2, <2>3, <2>4
  <2> QED
    BY <1>0, <2>1, <2>2, <2>5, <2>6, <2>7, StepOK
<1>2. ASSUME NEW t \in Txns, NEW o \in Orders, txn' = [txn EXCEPT ![s] = t],
             t.op \in {"confirm", "replay", "transition", "cancel"},
             t.pc = "waiting", t.order = o, t.done = {}, t.want = 0,
             status[o] # "ABSENT", t.op = "transition" => t.target \in Targets
      PROVE  StateOK'
  <2>1. txn'[s] = t /\ txn' = [txn EXCEPT ![s] = txn'[s]]
    BY <1>2 DEF TypeOK
  <2>2. RequestOK(s)'
    BY <1>0, <1>2, <2>1 DEF RequestOK, Locking
  <2>3. OrderLocks(s)' = {} /\ VariantLocks(s)' = {}
    BY <1>2, <2>1 DEF OrderLocks, VariantLocks
  <2> QED
    BY <1>0, <1>2, <2>1, <2>2, <2>3, StepOK
<1>3. ASSUME NEW o \in Orders, NEW k \in Keys, BeginConfirm(s, o, k)
      PROVE  StateOK'
  <2>1. status[o] # "ABSENT" /\ Len(quotes[o]) \in Nat
    BY <1>3 DEF BeginConfirm, QuotesOK, TypeOK
  <2> DEFINE a == [Idle EXCEPT !.op = "confirm", !.pc = "waiting", !.order = o,
                               !.key = k, !.seen = Len(quotes[o])]
             b == [Idle EXCEPT !.op = "replay", !.pc = "waiting", !.order = o]
  <2>2. txn' = [txn EXCEPT ![s] = a] \/ txn' = [txn EXCEPT ![s] = b]
    BY <1>3 DEF BeginConfirm
  <2>3. a \in Txns /\ b \in Txns
    BY <2>1, IdleType DEF Txns
  <2>4. /\ a.op = "confirm" /\ a.pc = "waiting" /\ a.order = o /\ a.done = {} /\ a.want = 0
        /\ b.op = "replay" /\ b.pc = "waiting" /\ b.order = o /\ b.done = {} /\ b.want = 0
    BY DEF Idle
  <2> HIDE DEF a, b
  <2> QED
    BY <1>2, <2>1, <2>2, <2>3, <2>4
<1>4. ASSUME NEW o \in Orders, NEW op \in {"transition", "cancel"},
             NEW target \in Targets \union {"ABSENT"}, BeginStaff(s, o, op, target),
             op = "transition" => target \in Targets
      PROVE  StateOK'
  <2> DEFINE a == [Idle EXCEPT !.op = op, !.pc = "waiting", !.order = o,
                               !.seen = version[o], !.target = target]
  <2>1. txn' = [txn EXCEPT ![s] = a] /\ status[o] # "ABSENT"
    BY <1>4 DEF BeginStaff
  <2>2. a \in Txns
    BY IdleType DEF Txns, TypeOK
  <2>3. /\ a.op = op /\ a.pc = "waiting" /\ a.order = o /\ a.done = {} /\ a.want = 0
        /\ a.target = target
    BY DEF Idle
  <2> HIDE DEF a
  <2> QED
    BY <1>2, <1>4, <2>1, <2>2, <2>3
<1> QED
  BY <1>1, <1>3, <1>4 DEF Begin

LEMMA ElementType ==
  ASSUME NEW S, NEW q \in Seq(S), NEW i \in 1..Len(q)
  PROVE  q[i] \in S
OBVIOUS

LEMMA CreateLineOK ==
  ASSUME StateOK, NEW s \in Requests, CreateLine(s)
  PROVE  StateOK'
<1> USE DEF StateOK
<1> DEFINE n == Len(txn[s].draft) + 1
           line == txn[s].cart[n]
           priced == [variant |-> line.variant, quantity |-> line.quantity,
                      price |-> price[line.variant]]
<1>1. /\ txn[s] \in Txns /\ txn[s].op = "create" /\ txn[s].pc = "lines"
      /\ txn[s].cart \in Carts /\ n \in 1..Len(txn[s].cart)
      /\ txn[s].order \in Orders
      /\ RequestOK(s)
  <2>1. RequestOK(s) /\ txn[s] \in Txns
    BY DEF RequestsOK, TypeOK
  <2>2. Len(txn[s].draft) \in Nat /\ txn[s].op = "create"
    BY <2>1 DEF Txns, CreateLine
  <2> QED
    BY <2>1, <2>2, CartsAssumption DEF RequestOK, CreateLine, MoreLines
<1>2. line \in [variant : Variants, quantity : 1..MaxQuantity]
  <2>1. txn[s].cart \in Seq([variant : Variants, quantity : 1..MaxQuantity])
    BY <1>1, CartsAssumption
  <2>2. n \in 1..Len(txn[s].cart)
    BY <1>1
  <2> HIDE DEF n
  <2> QED
    BY <2>1, <2>2, ElementType
<1>3. priced \in Lines(Prices)
  BY <1>2 DEF Lines, TypeOK
<1>4. txn' = [txn EXCEPT ![s].draft = Append(@, priced)] /\ VariantFree(s, line.variant)
  BY DEF CreateLine
<1>5. /\ txn' = [txn EXCEPT ![s] = txn'[s]]
      /\ txn'[s] = [txn[s] EXCEPT !.draft = Append(txn[s].draft, priced)]
  BY <1>4 DEF TypeOK
<1>6. txn[s].draft \in Seq(Lines(Prices))
  BY <1>1 DEF Txns
<1> HIDE DEF line, priced
<1>7. txn'[s] \in Txns
  <2>1. Append(txn[s].draft, priced) \in Seq(Lines(Prices))
    BY <1>3, <1>6
  <2> QED
    BY <1>1, <1>5, <2>1 DEF Txns
<1>8. UNCHANGED <<orderRow, reserved, price, trails, now>>
  BY DEF CreateLine
<1>9. RequestOK(s)'
  <2>1. Len(txn'[s].draft) = n
    BY <1>1, <1>3, <1>5, <1>6 DEF Txns
  <2> QED
    BY <1>1, <1>5, <1>8, <2>1 DEF RequestOK, Locking, Txns
<1>10. OrderLocks(s)' = {}
  BY <1>1, <1>5 DEF OrderLocks, Txns
<1>11. VariantLocks(s)' \subseteq VariantLocks(s) \union {line.variant}
  <2>1. /\ txn'[s].op = "create"
        /\ txn'[s].draft = Append(txn[s].draft, priced)
    BY <1>1, <1>5 DEF Txns
  <2>2. \A i \in DOMAIN Append(txn[s].draft, priced) :
          Append(txn[s].draft, priced)[i] =
            IF i \in DOMAIN txn[s].draft THEN txn[s].draft[i] ELSE priced
    BY <1>3, <1>6
  <2>3. priced.variant = line.variant
    BY DEF priced
  <2> QED
    BY <1>1, <2>1, <2>2, <2>3 DEF VariantLocks
<1>12. \A r \in Requests \ {s} : txn[r].op = "create" => txn'[s].order # txn[r].order
  BY <1>1, <1>5 DEF Exclusive, Txns
<1>13. \A r \in Requests \ {s} : VariantLocks(s)' \cap VariantLocks(r) = {}
  BY <1>4, <1>11 DEF Exclusive, VariantFree
<1> QED
  BY <1>5, <1>7, <1>8, <1>9, <1>10, <1>12, <1>13, StepOK

\* Locking the order's row.
LEMMA LockOK ==
  ASSUME StateOK, NEW s \in Requests, ConfirmLock(s) \/ CancelLock(s)
  PROVE  StateOK'
<1> USE DEF StateOK
<1> DEFINE o == txn[s].order
<1>1. /\ txn[s] \in Txns /\ txn[s].op \in Locking /\ txn[s].pc = "waiting"
      /\ OrderFree(s, o) /\ RequestOK(s) /\ o \in Orders
      /\ txn[s].done = {} /\ lines[o] \in Seq(Lines(Prices)) /\ Len(lines[o]) <= MaxLines
  BY DEF RequestsOK, RequestOK, TypeOK, ConfirmLock, CancelLock, Locking
<1>2. UNCHANGED <<orderRow, reserved, price, trails, now>>
  BY DEF ConfirmLock, CancelLock
<1>3. PICK n \in NextLines(o, {}) \union {0} :
        /\ txn' = [txn EXCEPT ![s].pc = "lines", ![s].want = n]
        /\ n = 0 => \/ NextLines(o, {}) = {0}
                    \/ txn[s].op = "cancel" /\ status[o] \notin Live
        /\ txn[s].op = "cancel" /\ status[o] \notin Live => n = 0
        /\ txn[s].op = "confirm" => status[o] = "WAITING_CONFIRMATION"
        /\ txn[s].op = "cancel" => status[o] \in Cancellable
  <2>1. CASE ConfirmLock(s)
    <3>1. \A n \in NextLines(o, {}) : n = 0 => NextLines(o, {}) = {0}
      BY <1>1, BoundsAssumption DEF NextLines
    <3> QED
      BY <2>1, <3>1 DEF ConfirmLock, MayConfirm
  <2>2. CASE CancelLock(s)
    <3>1. \A n \in NextLines(o, {}) : n = 0 => NextLines(o, {}) = {0}
      BY <1>1, BoundsAssumption DEF NextLines
    <3> QED
      BY <2>2, <3>1 DEF CancelLock, MayCancel
  <2> QED
    BY <2>1, <2>2
<1>4. /\ txn' = [txn EXCEPT ![s] = txn'[s]]
      /\ txn'[s] = [txn[s] EXCEPT !.pc = "lines", !.want = n]
  BY <1>3 DEF TypeOK
<1>5. n = 0 \/ n \in DOMAIN lines[o]
  BY DEF NextLines
<1>6. n \in 0..MaxLines /\ DOMAIN lines[o] = 1..Len(lines[o]) /\ Len(lines[o]) \in Nat
  BY <1>1, <1>5, BoundsAssumption
<1>7. txn'[s] \in Txns
  BY <1>1, <1>4, <1>6 DEF Txns
<1>8. NextLines(o, {}) = {0} => DOMAIN lines[o] = {}
  BY <1>6 DEF NextLines
<1>9. RequestOK(s)'
  <2>1. /\ txn'[s].pc = "lines" /\ txn'[s].want = n /\ txn'[s].done = {}
        /\ txn'[s].op = txn[s].op /\ txn'[s].order = o
    BY <1>1, <1>4 DEF Txns
  <2>2. status[o] # "ABSENT" /\ status' = status /\ lines' = lines
    BY <1>1, <1>2 DEF RequestOK, Locking
  <2>3. n = 0 => DOMAIN lines[o] = {} \/ (txn[s].op = "cancel" /\ status[o] \notin Live)
    BY <1>3, <1>8
  <2> QED
    BY <1>1, <1>3, <1>5, <2>1, <2>2, <2>3 DEF RequestOK, Locking
<1>10. OrderLocks(s)' \subseteq {o} /\ VariantLocks(s)' = {}
  BY <1>1, <1>4 DEF OrderLocks, VariantLocks, Locking, Txns
<1>11. \A r \in Requests \ {s} : o \notin OrderLocks(r)
  BY <1>1 DEF OrderFree
<1>12. txn'[s].op # "create"
  BY <1>1, <1>4 DEF Txns, Locking
<1> QED
  BY <1>2, <1>4, <1>7, <1>9, <1>10, <1>11, <1>12, StepOK

\* Where a confirmation or a cancellation stands that still has items to do.
LEMMA AtLine ==
  ASSUME StateOK, NEW s \in Requests, txn[s].op \in Locking, MoreLines(s)
  PROVE  LET o == txn[s].order  n == txn[s].want IN
         /\ txn[s] \in Txns /\ txn[s].pc = "lines" /\ o \in Orders
         /\ n \in DOMAIN lines[o] /\ n \notin txn[s].done
         /\ txn[s].done \subseteq DOMAIN lines[o]
         /\ DOMAIN lines[o] = 1..Len(lines[o]) /\ DOMAIN lines[o] \subseteq 1..MaxLines
         /\ lines[o][n] \in Lines(Prices)
         /\ Wanted(s) = lines[o][n].variant
         /\ status[o] \in Live \/ txn[s].op = "confirm"
         /\ (txn[s].op = "confirm" => status[o] = "WAITING_CONFIRMATION")
<1> DEFINE o == txn[s].order
           n == txn[s].want
<1>1. RequestOK(s) /\ txn[s] \in Txns
  BY DEF StateOK, RequestsOK, TypeOK
<1>2. txn[s].op # "create" /\ txn[s].pc = "lines" /\ n # 0
  BY DEF Locking, MoreLines
<1>3. /\ o \in Orders /\ n \in DOMAIN lines[o] /\ n \notin txn[s].done
      /\ txn[s].done \subseteq DOMAIN lines[o]
      /\ status[o] \in Live \/ txn[s].op = "confirm"
      /\ (txn[s].op = "confirm" => status[o] = "WAITING_CONFIRMATION")
  BY <1>1, <1>2 DEF RequestOK, Locking
<1>4. lines[o] \in Seq(Lines(Prices)) /\ Len(lines[o]) <= MaxLines
  BY <1>3 DEF StateOK, TypeOK
<1>5. DOMAIN lines[o] = 1..Len(lines[o]) /\ DOMAIN lines[o] \subseteq 1..MaxLines
  BY <1>4, BoundsAssumption
<1>6. lines[o][n] \in Lines(Prices)
  BY <1>3, <1>4, <1>5, ElementType
<1>7. Wanted(s) = lines[o][n].variant
  BY <1>2 DEF Wanted
<1> QED
  BY <1>1, <1>2, <1>3, <1>5, <1>6, <1>7

LEMMA SeenType ==
  ASSUME TypeOK, NEW s \in Requests, NEW v \in Variants
  PROVE  Seen(s, v) \in Nat
BY DEF Seen, TypeOK, Txns

LEMMA TakeLineOK ==
  ASSUME StateOK, NEW s \in Requests, txn[s].op \in Locking, MoreLines(s),
         VariantFree(s, Wanted(s)),
         NEW stock \in Nat, TakeLine(s, txn[s].want, stock),
         UNCHANGED <<orderRow, reserved, price, trails, now>>
  PROVE  /\ StateOK'
         /\ txn'[s].done = txn[s].done \union {txn[s].want}
         /\ txn'[s].copy = [txn[s].copy EXCEPT ![Wanted(s)] = stock]
         /\ txn'[s].op = txn[s].op /\ txn'[s].pc = "lines"
         /\ txn'[s].order = txn[s].order
<1> DEFINE o == txn[s].order
           n == txn[s].want
           done == txn[s].done \union {n}
<1>1. /\ txn[s] \in Txns /\ txn[s].pc = "lines" /\ o \in Orders
      /\ n \in DOMAIN lines[o] /\ n \notin txn[s].done
      /\ txn[s].done \subseteq DOMAIN lines[o]
      /\ DOMAIN lines[o] = 1..Len(lines[o]) /\ DOMAIN lines[o] \subseteq 1..MaxLines
      /\ lines[o][n] \in Lines(Prices)
      /\ Wanted(s) = lines[o][n].variant
      /\ status[o] \in Live \/ txn[s].op = "confirm"
      /\ (txn[s].op = "confirm" => status[o] = "WAITING_CONFIRMATION")
  BY AtLine
<1>2. PICK m \in NextLines(o, done) :
        txn' = [txn EXCEPT ![s].done = done, ![s].want = m,
                           ![s].copy[lines[o][n].variant] = stock]
  BY DEF TakeLine
<1>3. /\ txn' = [txn EXCEPT ![s] = txn'[s]]
      /\ txn'[s] = [txn[s] EXCEPT !.done = done, !.want = m,
                     !.copy = [txn[s].copy EXCEPT ![Wanted(s)] = stock]]
  BY <1>1, <1>2 DEF StateOK, TypeOK, Txns
<1>4. /\ m = 0 => done = DOMAIN lines[o]
      /\ m # 0 => m \in DOMAIN lines[o] \ done
  BY <1>1, BoundsAssumption DEF NextLines
<1>5. m \in 0..MaxLines /\ done \subseteq 1..MaxLines
  BY <1>1, <1>4, BoundsAssumption
<1>6. [txn[s].copy EXCEPT ![Wanted(s)] = stock] \in [Variants -> Nat]
  BY <1>1 DEF Txns
<1> HIDE DEF done, n
<1>7. /\ txn'[s] \in Txns /\ txn'[s].done = done /\ txn'[s].want = m
      /\ txn'[s].copy = [txn[s].copy EXCEPT ![Wanted(s)] = stock]
      /\ txn'[s].op = txn[s].op /\ txn'[s].pc = "lines" /\ txn'[s].order = o
  BY <1>1, <1>3, <1>5, <1>6 DEF Txns
<1>8. status' = status /\ lines' = lines
  OBVIOUS
<1>9. RequestOK(s)'
  <2>1. done \subseteq DOMAIN lines[o] /\ status[o] # "ABSENT"
    BY <1>1 DEF done, Live
  <2> QED
    BY <1>1, <1>4, <1>7, <1>8, <2>1 DEF RequestOK, Locking, Cancellable
<1>10. OrderLocks(s)' = OrderLocks(s)
  BY <1>1, <1>7 DEF OrderLocks, Locking
<1>11. VariantLocks(s)' \subseteq VariantLocks(s) \union {Wanted(s)}
  BY <1>1, <1>7, <1>8 DEF VariantLocks, Locking, done
<1>12. \A r \in Requests \ {s} : /\ OrderLocks(s)' \cap OrderLocks(r) = {}
                                 /\ VariantLocks(s)' \cap VariantLocks(r) = {}
  BY <1>10, <1>11 DEF StateOK, Exclusive, VariantFree
<1>13. txn'[s].op # "create"
  BY <1>7 DEF Locking
<1>14. StateOK'
  BY <1>3, <1>7, <1>9, <1>12, <1>13, StepOK
<1> QED
  BY <1>7, <1>14 DEF done, n

LEMMA ConfirmLineOK ==
  ASSUME StateOK, NEW s \in Requests, ConfirmLine(s)
  PROVE  StateOK'
<1>1. txn[s].op \in Locking /\ MoreLines(s) /\ VariantFree(s, Wanted(s))
  BY DEF ConfirmLine, Locking
<1>2. lines[txn[s].order][txn[s].want] \in Lines(Prices)
  BY <1>1, AtLine
<1> DEFINE line == lines[txn[s].order][txn[s].want]
<1>3. Seen(s, line.variant) + line.quantity \in Nat
  <2>1. line.variant \in Variants /\ line.quantity \in Nat
    BY <1>2, BoundsAssumption DEF Lines
  <2> QED
    BY <2>1, SeenType DEF StateOK
<1>4. /\ TakeLine(s, txn[s].want, Seen(s, line.variant) + line.quantity)
      /\ UNCHANGED <<orderRow, reserved, price, trails, now>>
  BY DEF ConfirmLine
<1> QED
  BY <1>1, <1>3, <1>4, TakeLineOK

LEMMA CancelLineOK ==
  ASSUME StateOK, NEW s \in Requests, CancelLine(s)
  PROVE  StateOK'
<1>1. txn[s].op \in Locking /\ MoreLines(s) /\ VariantFree(s, Wanted(s))
  BY DEF CancelLine, Locking
<1>2. lines[txn[s].order][txn[s].want] \in Lines(Prices)
  BY <1>1, AtLine
<1> DEFINE line == lines[txn[s].order][txn[s].want]
<1>3. Seen(s, line.variant) - line.quantity \in Nat
  <2>1. line.variant \in Variants /\ line.quantity \in Nat
    BY <1>2, BoundsAssumption DEF Lines
  <2>2. Seen(s, line.variant) >= line.quantity
    BY DEF CancelLine, MayRelease
  <2> QED
    BY <2>1, <2>2, SeenType DEF StateOK
<1>4. /\ TakeLine(s, txn[s].want, Seen(s, line.variant) - line.quantity)
      /\ UNCHANGED <<orderRow, reserved, price, trails, now>>
  BY DEF CancelLine
<1> QED
  BY <1>1, <1>3, <1>4, TakeLineOK

LEMMA AppendType ==
  ASSUME NEW S, NEW x \in S, NEW f \in [Orders -> Seq(S)], NEW o \in Orders
  PROVE  [f EXCEPT ![o] = Append(@, x)] \in [Orders -> Seq(S)]
OBVIOUS

\* What a committing request writes has the type of the tables.
LEMMA RecordType ==
  ASSUME TypeOK, NEW o \in Orders, NEW to \in Statuses, NEW key \in Keys \union {None},
         Record(o, to, key)
  PROVE  /\ history' \in [Orders -> Seq([from : Statuses, to : Statuses])]
         /\ audits' \in [Orders -> Seq([to : Statuses, key : Keys \union {None}])]
         /\ events' \in [Orders -> Seq([version : Nat, status : Statuses])]
<1>1. /\ [from |-> status[o], to |-> to] \in [from : Statuses, to : Statuses]
      /\ [to |-> to, key |-> key] \in [to : Statuses, key : Keys \union {None}]
      /\ [version |-> version[o] + 1, status |-> to] \in [version : Nat, status : Statuses]
  BY DEF TypeOK
<1>2. history' \in [Orders -> Seq([from : Statuses, to : Statuses])]
  BY <1>1, AppendType DEF TypeOK, Record
<1>3. audits' \in [Orders -> Seq([to : Statuses, key : Keys \union {None}])]
  BY <1>1, AppendType DEF TypeOK, Record
<1>4. events' \in [Orders -> Seq([version : Nat, status : Statuses])]
  BY <1>1, AppendType DEF TypeOK, Record
<1> QED
  BY <1>2, <1>3, <1>4

LEMMA FinishType ==
  ASSUME TypeOK, NEW s \in Requests, Finish(s)
  PROVE  txn' \in [Requests -> Txns]
BY IdleType DEF TypeOK, Finish

LEMMA FlushType ==
  ASSUME TypeOK, NEW s \in Requests, Flush(s)
  PROVE  reserved' \in [Variants -> Nat]
BY SeenType DEF Flush

LEMMA ConfirmCommitOK ==
  ASSUME StateOK, NEW s \in Requests, ConfirmCommit(s)
  PROVE  StateOK'
<1> DEFINE o == txn[s].order
<1>1. txn[s] \in Txns /\ txn[s].op = "confirm" /\ o \in Orders /\ OrderFree(s, o)
  <2>1. RequestOK(s) /\ txn[s] \in Txns /\ txn[s].op = "confirm" /\ OrderLocks(s) = {o}
    BY DEF StateOK, TypeOK, RequestsOK, ConfirmCommit, OrderLocks
  <2> QED
    BY <2>1 DEF RequestOK, StateOK, Exclusive, OrderFree
<1>2. TypeOK'
  <2>1. txn[s].key \in Keys \union {None} /\ txn[s].seen \in Nat /\ now \in Nat
    BY <1>1 DEF Txns, StateOK, TypeOK
  <2>2. Finish(s) /\ Flush(s) /\ Record(o, "CONFIRMED", txn[s].key)
    BY DEF ConfirmCommit
  <2>3. /\ txn' \in [Requests -> Txns] /\ reserved' \in [Variants -> Nat]
        /\ history' \in [Orders -> Seq([from : Statuses, to : Statuses])]
        /\ audits' \in [Orders -> Seq([to : Statuses, key : Keys \union {None}])]
        /\ events' \in [Orders -> Seq([version : Nat, status : Statuses])]
    BY <1>1, <2>1, <2>2, RecordType, FinishType, FlushType DEF StateOK, Statuses
  <2> QED
    <3>1. /\ status' \in [Orders -> Statuses] /\ version' \in [Orders -> Nat]
          /\ evidence' \in [Orders -> [quote : Nat, at : Nat]]
      <4>1. /\ status' = [status EXCEPT ![o] = "CONFIRMED"]
            /\ version' = [version EXCEPT ![o] = version[o] + 1]
            /\ evidence' = [evidence EXCEPT ![o] = [quote |-> txn[s].seen, at |-> now]]
        BY DEF ConfirmCommit
      <4>2. "CONFIRMED" \in Statuses /\ version[o] + 1 \in Nat
        BY <1>1 DEF StateOK, TypeOK, Statuses
      <4> QED
        BY <4>1, <4>2, <2>1 DEF StateOK, TypeOK
    <3>2. UNCHANGED <<lines, quotes, delivery, price, now>>
      BY DEF ConfirmCommit
    <3> QED
      BY <2>3, <3>1, <3>2 DEF StateOK, TypeOK
<1>3. /\ Finish(s) /\ UNCHANGED <<lines, quotes>>
      /\ status' = [status EXCEPT ![o] = "CONFIRMED"]
  BY DEF ConfirmCommit
<1>4. "CONFIRMED" \in Statuses \ {"ABSENT"}
  BY DEF Statuses
<1> QED
  BY <1>1, <1>2, <1>3, <1>4, CommitOK

LEMMA CancelCommitOK ==
  ASSUME StateOK, NEW s \in Requests, CancelCommit(s)
  PROVE  StateOK'
<1> DEFINE o == txn[s].order
<1>1. txn[s] \in Txns /\ txn[s].op = "cancel" /\ o \in Orders /\ OrderFree(s, o)
  <2>1. RequestOK(s) /\ txn[s] \in Txns /\ txn[s].op = "cancel" /\ OrderLocks(s) = {o}
    BY DEF StateOK, TypeOK, RequestsOK, CancelCommit, OrderLocks
  <2> QED
    BY <2>1 DEF RequestOK, StateOK, Exclusive, OrderFree
<1>2. TypeOK'
  <2>1. Finish(s) /\ Flush(s) /\ Record(o, "CANCELLED", None)
    BY DEF CancelCommit
  <2>2. /\ txn' \in [Requests -> Txns] /\ reserved' \in [Variants -> Nat]
        /\ history' \in [Orders -> Seq([from : Statuses, to : Statuses])]
        /\ audits' \in [Orders -> Seq([to : Statuses, key : Keys \union {None}])]
        /\ events' \in [Orders -> Seq([version : Nat, status : Statuses])]
    BY <1>1, <2>1, RecordType, FinishType, FlushType DEF StateOK, Statuses
  <2> QED
    <3>1. status' \in [Orders -> Statuses] /\ version' \in [Orders -> Nat]
      <4>1. /\ status' = [status EXCEPT ![o] = "CANCELLED"]
            /\ version' = [version EXCEPT ![o] = version[o] + 1]
        BY DEF CancelCommit
      <4>2. "CANCELLED" \in Statuses /\ version[o] + 1 \in Nat
        BY <1>1 DEF StateOK, TypeOK, Statuses
      <4> QED
        BY <4>1, <4>2 DEF StateOK, TypeOK
    <3>2. UNCHANGED <<lines, quotes, delivery, evidence, price, now>>
      BY DEF CancelCommit
    <3> QED
      BY <2>2, <3>1, <3>2 DEF StateOK, TypeOK
<1>3. /\ Finish(s) /\ UNCHANGED <<lines, quotes>>
      /\ status' = [status EXCEPT ![o] = "CANCELLED"]
  BY DEF CancelCommit
<1>4. "CANCELLED" \in Statuses \ {"ABSENT"}
  BY DEF Statuses
<1> QED
  BY <1>1, <1>2, <1>3, <1>4, CommitOK

LEMMA TransitionOK ==
  ASSUME StateOK, NEW s \in Requests, Transition(s)
  PROVE  StateOK'
<1> DEFINE o == txn[s].order
           to == txn[s].target
<1>1. txn[s] \in Txns /\ txn[s].op = "transition" /\ o \in Orders /\ OrderFree(s, o)
  BY DEF StateOK, TypeOK, RequestsOK, RequestOK, Transition
<1>2. to \in Statuses \ {"ABSENT"}
  BY <1>1 DEF StateOK, RequestsOK, RequestOK, Statuses, Targets
<1>3. TypeOK'
  <2>1. Finish(s) /\ Record(o, to, None)
    BY DEF Transition
  <2>2. /\ txn' \in [Requests -> Txns]
        /\ history' \in [Orders -> Seq([from : Statuses, to : Statuses])]
        /\ audits' \in [Orders -> Seq([to : Statuses, key : Keys \union {None}])]
        /\ events' \in [Orders -> Seq([version : Nat, status : Statuses])]
    BY <1>1, <1>2, <2>1, RecordType, FinishType DEF StateOK
  <2> QED
    <3>1. status' \in [Orders -> Statuses] /\ version' \in [Orders -> Nat]
      <4>1. /\ status' = [status EXCEPT ![o] = to]
            /\ version' = [version EXCEPT ![o] = version[o] + 1]
        BY DEF Transition
      <4>2. to \in Statuses /\ version[o] + 1 \in Nat
        BY <1>1, <1>2 DEF StateOK, TypeOK, Statuses
      <4> QED
        BY <4>1, <4>2 DEF StateOK, TypeOK
    <3>2. UNCHANGED <<lines, quotes, delivery, evidence, reserved, price, now>>
      BY DEF Transition
    <3> QED
      BY <2>2, <3>1, <3>2 DEF StateOK, TypeOK
<1>4. Finish(s) /\ UNCHANGED <<lines, quotes>> /\ status' = [status EXCEPT ![o] = to]
  BY DEF Transition
<1> QED
  BY <1>1, <1>2, <1>3, <1>4, CommitOK

LEMMA CreateCommitOK ==
  ASSUME StateOK, NEW s \in Requests, CreateCommit(s)
  PROVE  StateOK'
<1> USE DEF StateOK
<1> DEFINE o == txn[s].order
<1>1. /\ txn[s] \in Txns /\ txn[s].op = "create" /\ o \in Orders /\ status[o] = "ABSENT"
      /\ txn[s].draft \in Seq(Lines(Prices)) /\ Len(txn[s].draft) <= MaxLines
      /\ quotes[o] = <<>>
  <2>1. RequestOK(s) /\ txn[s] \in Txns /\ txn[s].op = "create"
    BY DEF RequestsOK, TypeOK, CreateCommit
  <2>2. /\ o \in Orders /\ status[o] = "ABSENT" /\ txn[s].cart \in Carts
        /\ Len(txn[s].draft) <= Len(txn[s].cart)
    BY <2>1 DEF RequestOK
  <2>3. txn[s].draft \in Seq(Lines(Prices))
    BY <2>1 DEF Txns
  <2>4. Len(txn[s].cart) \in 1..MaxLines /\ Len(txn[s].draft) \in Nat
    BY <2>2, <2>3, CartsAssumption
  <2>5. Len(txn[s].draft) <= MaxLines
    BY <2>2, <2>4, BoundsAssumption
  <2> QED
    BY <2>1, <2>2, <2>3, <2>5 DEF QuotesOK
<1>2. /\ Finish(s)
      /\ status' = [status EXCEPT ![o] = "DRAFT"]
      /\ version' = [version EXCEPT ![o] = 1]
      /\ lines' = [lines EXCEPT ![o] = txn[s].draft]
      /\ audits' = [audits EXCEPT ![o] = Append(@, [to |-> "DRAFT", key |-> None])]
      /\ events' = [events EXCEPT ![o] = Append(@, [version |-> 1, status |-> "DRAFT"])]
      /\ UNCHANGED <<quotes, delivery, evidence, reserved, price, history, now>>
  BY DEF CreateCommit
<1>3. TypeOK'
  <2>1. /\ status' \in [Orders -> Statuses] /\ version' \in [Orders -> Nat]
        /\ lines' \in [Orders -> Seq(Lines(Prices))]
    BY <1>1, <1>2 DEF TypeOK, Statuses
  <2>2. \A p \in Orders : Len(lines'[p]) <= MaxLines
    BY <1>1, <1>2 DEF TypeOK
  <2>3. /\ [to |-> "DRAFT", key |-> None] \in [to : Statuses, key : Keys \union {None}]
        /\ [version |-> 1, status |-> "DRAFT"] \in [version : Nat, status : Statuses]
    BY DEF Statuses
  <2>4. audits' \in [Orders -> Seq([to : Statuses, key : Keys \union {None}])]
    BY <1>1, <1>2, <2>3, AppendType DEF TypeOK
  <2>5. events' \in [Orders -> Seq([version : Nat, status : Statuses])]
    BY <1>1, <1>2, <2>3, AppendType DEF TypeOK
  <2>6. txn' \in [Requests -> Txns]
    BY <1>2, FinishType
  <2> QED
    BY <1>2, <2>1, <2>2, <2>4, <2>5, <2>6 DEF TypeOK
<1>4. txn'[s] = Idle /\ \A r \in Requests \ {s} : txn'[r] = txn[r]
  BY <1>2 DEF Finish, TypeOK
<1>5. ASSUME NEW r \in Requests \ {s}
      PROVE  /\ txn[r].op # "none" =>
                  /\ txn[r].order # o
                  /\ status'[txn[r].order] = status[txn[r].order]
                  /\ lines'[txn[r].order] = lines[txn[r].order]
  <2>1. RequestOK(r) /\ RequestOK(s)
    BY DEF RequestsOK
  <2>2. txn[r].op # "none" => txn[r].order \in Orders /\ txn[r].order # o
    BY <1>1, <2>1 DEF RequestOK, Exclusive
  <2> QED
    BY <1>2, <2>2 DEF TypeOK
<1>6. ASSUME NEW r \in Requests PROVE RequestOK(r)'
  <2>1. CASE r = s
    BY <1>4, <2>1 DEF RequestOK, Idle, Locking
  <2>2. CASE r # s
    BY <1>4, <1>5, <2>2 DEF RequestsOK, RequestOK, Locking
  <2> QED
    BY <2>1, <2>2
<1>7. ASSUME NEW r \in Requests
      PROVE  /\ OrderLocks(r)' = IF r = s THEN {} ELSE OrderLocks(r)
             /\ VariantLocks(r)' = IF r = s THEN {} ELSE VariantLocks(r)
  <2>1. CASE r = s
    BY <1>4, <2>1, IdleLocks
  <2>2. CASE r # s /\ txn[r].op # "none"
    BY <1>4, <1>5, <2>2, SameLocks
  <2>3. CASE r # s /\ txn[r].op = "none"
    BY <1>4, <2>3 DEF OrderLocks, VariantLocks, RequestsOK, RequestOK, Locking
  <2> QED
    BY <2>1, <2>2, <2>3
<1>8. Exclusive'
  BY <1>4, <1>7 DEF Exclusive, Idle
<1>9. QuotesOK'
  BY <1>1, <1>2 DEF QuotesOK, TypeOK
<1> QED
  BY <1>3, <1>6, <1>8, <1>9 DEF RequestsOK

LEMMA QuoteOK ==
  ASSUME StateOK, NEW o \in Orders, NEW fee \in Fees, Quote(o, fee)
  PROVE  StateOK'
<1> USE DEF StateOK
<1>1. /\ status' = [status EXCEPT ![o] = "WAITING_CONFIRMATION"]
      /\ version' = [version EXCEPT ![o] = version[o] + 1]
      /\ delivery' = [delivery EXCEPT ![o] = fee]
      /\ quotes' = [quotes EXCEPT ![o] =
                      Append(@, [delivery |-> fee, expires |-> now + QuoteTTL])]
      /\ events' = [events EXCEPT ![o] =
            Append(@, [version |-> version[o] + 1, status |-> "WAITING_CONFIRMATION"])]
      /\ UNCHANGED <<lines, evidence, reserved, price, history, audits, txn, now>>
      /\ status[o] \in Quotable /\ \A s \in Requests : o \notin OrderLocks(s)
  BY DEF Quote
<1>2. TypeOK'
  <2>1. status' \in [Orders -> Statuses] /\ version' \in [Orders -> Nat]
    BY <1>1 DEF TypeOK, Statuses
  <2>2. [delivery |-> fee, expires |-> now + QuoteTTL] \in Quotes
    BY BoundsAssumption DEF Quotes, TypeOK
  <2>3. /\ quotes' \in [Orders -> Seq(Quotes)]
        /\ delivery' \in [Orders -> Fees \union {0}]
    BY <1>1, <2>2, AppendType DEF TypeOK
  <2>4. [version |-> version[o] + 1, status |-> "WAITING_CONFIRMATION"]
          \in [version : Nat, status : Statuses]
    BY DEF TypeOK, Statuses
  <2>5. events' \in [Orders -> Seq([version : Nat, status : Statuses])]
    BY <1>1, <2>4, AppendType DEF TypeOK
  <2> QED
    BY <1>1, <2>1, <2>3, <2>5 DEF TypeOK
<1>3. ASSUME NEW r \in Requests PROVE RequestOK(r)'
  <2>1. RequestOK(r)
    BY DEF RequestsOK
  <2>2. CASE txn[r].order # o
    BY <1>1, <2>1, <2>2 DEF RequestOK, TypeOK, Locking
  <2>3. CASE txn[r].order = o
    <3>1. ~(txn[r].op \in Locking /\ txn[r].pc = "lines")
      BY <1>1, <2>3 DEF OrderLocks, Locking
    <3>2. txn[r].op # "create"
      BY <1>1, <2>1, <2>3 DEF RequestOK, Quotable
    <3> QED
      BY <1>1, <2>1, <2>3, <3>1, <3>2 DEF RequestOK, TypeOK, Locking
  <2> QED
    BY <2>2, <2>3
<1>4. \A r \in Requests : OrderLocks(r)' = OrderLocks(r) /\ VariantLocks(r)' = VariantLocks(r)
  BY <1>1, SameLocks
<1>5. Exclusive'
  BY <1>1, <1>4 DEF Exclusive
<1>6. QuotesOK'
  BY <1>1 DEF QuotesOK, TypeOK
<1> QED
  BY <1>2, <1>3, <1>5, <1>6 DEF RequestsOK

LEMMA EnvironmentOK ==
  ASSUME StateOK,
         (\E v \in Variants, p \in Prices : EditPrice(v, p)) \/ Tick \/ UNCHANGED vars
  PROVE  StateOK'
<1> USE DEF StateOK
<1>1. UNCHANGED <<orderRow, reserved, trails, txn>>
  BY DEF EditPrice, Tick, vars
<1>2. price' \in [Variants -> Prices] /\ now' \in Nat
  <2>1. CASE \E v \in Variants, p \in Prices : EditPrice(v, p)
    BY <2>1 DEF EditPrice, TypeOK
  <2>2. CASE Tick
    BY <2>2 DEF Tick, TypeOK
  <2>3. CASE UNCHANGED vars
    BY <2>3 DEF vars, TypeOK
  <2> QED
    BY <2>1, <2>2, <2>3
<1>3. TypeOK'
  BY <1>1, <1>2 DEF TypeOK
<1>4. RequestsOK' /\ QuotesOK'
  BY <1>1 DEF RequestsOK, RequestOK, QuotesOK
<1>5. \A r \in Requests : OrderLocks(r)' = OrderLocks(r) /\ VariantLocks(r)' = VariantLocks(r)
  BY <1>1, SameLocks
<1>6. Exclusive'
  BY <1>1, <1>5 DEF Exclusive
<1> QED
  BY <1>3, <1>4, <1>6

\* Any step keeps the requests well formed and the locks exclusive.
LEMMA NextOK == StateOK /\ [Next]_vars => StateOK'
<1> SUFFICES ASSUME StateOK, [Next]_vars PROVE StateOK'
  OBVIOUS
<1>1. ASSUME NEW s \in Requests, Begin(s) PROVE StateOK'
  BY <1>1, BeginOK
<1>2. ASSUME NEW s \in Requests, Progress(s) PROVE StateOK'
  BY <1>2, CreateLineOK, CreateCommitOK, LockOK, ConfirmLineOK, ConfirmCommitOK,
     TransitionOK, CancelLineOK, CancelCommitOK, RollbackOK DEF Progress, Replay, Refuse
<1>3. ASSUME NEW s \in Requests, Abort(s) \/ DeadlockVictim(s) PROVE StateOK'
  BY <1>3, RollbackOK DEF Abort, DeadlockVictim
<1>4. ASSUME NEW o \in Orders, NEW fee \in Fees, Quote(o, fee) PROVE StateOK'
  BY <1>4, QuoteOK
<1>5. CASE (\E v \in Variants, p \in Prices : EditPrice(v, p)) \/ Tick \/ UNCHANGED vars
  BY <1>5, EnvironmentOK
<1> QED
  BY <1>1, <1>2, <1>3, <1>4, <1>5 DEF Next

\* Every variable keeps its type, whatever the requests do and however they
\* interleave (the tables of models.py and the sessions of services.py).
THEOREM TypeCorrect == Spec => []TypeOK
<1>1. Spec => []StateOK
  BY InitOK, NextOK, PTL DEF Spec
<1>2. StateOK => TypeOK
  BY DEF StateOK
<1> QED
  BY <1>1, <1>2, PTL
-----------------------------------------------------------------------------
(***************************************************************************)
(* The trail of an order: what is written of it agrees with its row,       *)
(* confirmations happen once and on the newest quote, and what a request   *)
(* read under its locks still holds when it commits.                       *)
(***************************************************************************)

(* The inductive invariant, beyond StateOK.  Of one order: *)

Unwritten(o) == /\ quotes[o] = <<>> /\ history[o] = <<>>
                /\ audits[o] = <<>> /\ events[o] = <<>>

Confirmations(o) == {i \in DOMAIN audits[o] : audits[o][i].to = "CONFIRMED"}

Unconfirmed == {"ABSENT", "DRAFT", "WAITING_CONFIRMATION"}

RowOK(o) ==
  /\ IF status[o] = "ABSENT" THEN Unwritten(o) ELSE IsTrail(o)
  /\ quotes[o] # <<>> => delivery[o] = quotes[o][Len(quotes[o])].delivery
  /\ status[o] \in Live => quotes[o] # <<>> /\ evidence[o].quote = Len(quotes[o])
  /\ \A i, j \in Confirmations(o) : i = j
  /\ status[o] \in Unconfirmed => Confirmations(o) = {} /\ history[o] = <<>>

(* And of one request: what it read under the lock is still so. *)
SightOK(s) ==
  LET t == txn[s]  o == txn[s].order IN
  /\ t.op = "confirm" =>
       /\ quotes[o] # <<>>
       /\ t.pc = "lines" => t.seen = Len(quotes[o])
       /\ \A i \in t.done : lines[o][i].price = price[lines[o][i].variant]
  /\ t.op = "cancel" /\ t.pc = "lines" => t.seen = version[o]

RowsOK   == \A o \in Orders : RowOK(o)
SightsOK == \A s \in Requests : SightOK(s)
TrailInv == StateOK /\ RowsOK /\ SightsOK
-----------------------------------------------------------------------------
LEMMA Appended ==
  ASSUME NEW S, NEW q \in Seq(S), NEW x \in S
  PROVE  /\ Append(q, x) # <<>> /\ Len(q) \in Nat
         /\ Len(Append(q, x)) = Len(q) + 1
         /\ DOMAIN Append(q, x) = 1..(Len(q) + 1) /\ DOMAIN q = 1..Len(q)
         /\ \A i \in 1..Len(q) : Append(q, x)[i] = q[i]
         /\ Append(q, x)[Len(q) + 1] = x
OBVIOUS

\* An event of the next version keeps the events numbered.
LEMMA EventsNumbered ==
  ASSUME NEW T, NEW e \in Seq(T), NEW x \in T,
         \A i \in DOMAIN e : e[i].version = i, x.version = Len(e) + 1
  PROVE  LET f == Append(e, x) IN
         /\ Len(f) = Len(e) + 1
         /\ \A i \in DOMAIN f : f[i].version = i
         /\ f[Len(f)].status = x.status
<1>1. /\ Len(e) \in Nat /\ Len(Append(e, x)) = Len(e) + 1
      /\ DOMAIN Append(e, x) = 1..(Len(e) + 1) /\ DOMAIN e = 1..Len(e)
      /\ \A i \in 1..Len(e) : Append(e, x)[i] = e[i]
      /\ Append(e, x)[Len(e) + 1] = x
  BY Appended
<1>2. ASSUME NEW i \in DOMAIN Append(e, x) PROVE Append(e, x)[i].version = i
  <2>1. i \in 1..Len(e) \/ i = Len(e) + 1
    BY <1>1
  <2> QED
    BY <1>1, <2>1
<1> QED
  BY <1>1, <1>2

\* A history row that starts where the chain ends continues the chain.
LEMMA ChainContinues ==
  ASSUME NEW T, NEW h \in Seq(T), NEW x \in T,
         \A i \in 2..Len(h) : h[i].from = h[i-1].to,
         h # <<>> => h[Len(h)].to = x.from
  PROVE  LET g == Append(h, x) IN
         /\ Len(g) = Len(h) + 1
         /\ \A i \in 2..Len(g) : g[i].from = g[i-1].to
         /\ g[Len(g)].to = x.to
<1>1. /\ Len(h) \in Nat /\ Len(Append(h, x)) = Len(h) + 1
      /\ \A i \in 1..Len(h) : Append(h, x)[i] = h[i]
      /\ Append(h, x)[Len(h) + 1] = x
  BY Appended
<1>2. ASSUME NEW i \in 2..Len(Append(h, x))
      PROVE  Append(h, x)[i].from = Append(h, x)[i-1].to
  <2>1. CASE i \in 2..Len(h)
    <3>1. i \in 1..Len(h) /\ i - 1 \in 1..Len(h)
      BY <1>1, <2>1
    <3> QED
      BY <1>1, <2>1, <3>1
  <2>2. CASE i = Len(h) + 1
    <3>1. Len(h) \in 1..Len(h) /\ i - 1 = Len(h)
      BY <1>1, <2>2
    <3>2. h # <<>>
      BY <3>1
    <3> QED
      BY <1>1, <2>2, <3>1, <3>2
  <2> QED
    BY <1>1, <2>1, <2>2
<1> QED
  BY <1>1, <1>2

\* Record, together with the new version and status, keeps the trail.
LEMMA RecordTrail ==
  ASSUME TypeOK, NEW o \in Orders, NEW to \in Statuses, NEW key \in Keys \union {None},
         Record(o, to, key), IsTrail(o), UNCHANGED quotes,
         status' = [status EXCEPT ![o] = to],
         version' = [version EXCEPT ![o] = version[o] + 1]
  PROVE  IsTrail(o)'
<1> DEFINE h == history[o]  e == events[o]  a == audits[o]
           hx == [from |-> status[o], to |-> to]
           ex == [version |-> version[o] + 1, status |-> to]
           ax == [to |-> to, key |-> key]
           H == [from : Statuses, to : Statuses]
           E == [version : Nat, status : Statuses]
           A == [to : Statuses, key : Keys \union {None}]
<1>1. /\ status'[o] = to /\ version'[o] = version[o] + 1 /\ quotes' = quotes
      /\ version[o] \in Nat
  BY DEF TypeOK
<1>2. Len(quotes[o]) \in Nat
  <2>1. quotes[o] \in Seq(Quotes)
    BY DEF TypeOK
  <2> QED
    BY <2>1
<1>3. history'[o] = Append(h, hx) /\ events'[o] = Append(e, ex) /\ audits'[o] = Append(a, ax)
  <2>1. DOMAIN history = Orders /\ DOMAIN events = Orders /\ DOMAIN audits = Orders
    BY DEF TypeOK
  <2> QED
    BY <2>1 DEF Record
<1>4. h \in Seq(H) /\ hx \in H /\ e \in Seq(E) /\ ex \in E /\ a \in Seq(A) /\ ax \in A
  <2>1. h \in Seq(H) /\ e \in Seq(E) /\ a \in Seq(A)
    BY DEF TypeOK
  <2>2. status[o] \in Statuses /\ version[o] + 1 \in Nat
    BY <1>1 DEF TypeOK
  <2> QED
    BY <2>1, <2>2
<1>5. /\ version[o] = 1 + Len(quotes[o]) + Len(h) /\ Len(e) = version[o]
      /\ \A i \in DOMAIN e : e[i].version = i
      /\ \A i \in 2..Len(h) : h[i].from = h[i-1].to
      /\ h # <<>> => h[Len(h)].to = hx.from
      /\ Len(a) = 1 + Len(h)
  BY DEF IsTrail
<1>6. hx.to = to /\ ex.status = to /\ ex.version = Len(e) + 1
  BY <1>5
<1> HIDE DEF h, e, a, hx, ex, ax, H, E, A
<1>a. Len(h) \in Nat /\ Len(e) \in Nat /\ Len(a) \in Nat
  BY <1>4
<1>7. LET g == Append(h, hx) IN
      /\ Len(g) = Len(h) + 1
      /\ \A i \in 2..Len(g) : g[i].from = g[i-1].to
      /\ g[Len(g)].to = hx.to
  BY <1>4, <1>5, ChainContinues
<1>8. LET f == Append(e, ex) IN
      /\ Len(f) = Len(e) + 1
      /\ \A i \in DOMAIN f : f[i].version = i
      /\ f[Len(f)].status = ex.status
  <2>1. \A i \in DOMAIN e : e[i].version = i
    BY <1>5
  <2> QED
    BY <1>4, <1>6, <1>a, <2>1, EventsNumbered
<1>9. Len(Append(a, ax)) = Len(a) + 1
  BY <1>4, Appended
<1> DEFINE q == Len(quotes[o])
           kh == Len(h)  ke == Len(e)  ka == Len(a)
           ng == Len(Append(h, hx))  nf == Len(Append(e, ex))  nb == Len(Append(a, ax))
<1>10. /\ q \in Nat /\ kh \in Nat /\ ke \in Nat /\ ka \in Nat
       /\ ng = kh + 1 /\ nf = ke + 1 /\ nb = ka + 1
       /\ version[o] = 1 + q + kh /\ ke = version[o] /\ ka = 1 + kh
       /\ version'[o] = version[o] + 1
  BY <1>1, <1>2, <1>5, <1>7, <1>8, <1>9, <1>a
<1>11. version'[o] = 1 + q + ng /\ nf = version'[o] /\ nb = 1 + ng
  <2> HIDE DEF q, kh, ke, ka, ng, nf, nb
  <2> QED
    BY <1>10
<1> QED
  BY <1>1, <1>3, <1>6, <1>7, <1>8, <1>11 DEF IsTrail

\* One more audit row is at most one more confirmation.
LEMMA AuditConfirms ==
  ASSUME TypeOK, NEW o \in Orders, NEW to \in Statuses, NEW key \in Keys \union {None},
         audits' = [audits EXCEPT ![o] = Append(@, [to |-> to, key |-> key])]
  PROVE  Confirmations(o)' = Confirmations(o) \union
                               (IF to = "CONFIRMED" THEN {Len(audits[o]) + 1} ELSE {})
<1> DEFINE a == audits[o]
           x == [to |-> to, key |-> key]
           T == [to : Statuses, key : Keys \union {None}]
<1>1. a \in Seq(T) /\ x \in T /\ audits'[o] = Append(a, x) /\ x.to = to
  BY DEF TypeOK
<1> HIDE DEF a, x, T
<1>2. /\ Len(a) \in Nat /\ DOMAIN a = 1..Len(a)
      /\ DOMAIN Append(a, x) = 1..(Len(a) + 1)
      /\ \A i \in 1..Len(a) : Append(a, x)[i] = a[i]
      /\ Append(a, x)[Len(a) + 1] = x
  BY <1>1, Appended
<1>3. \A i : i \in 1..(Len(a) + 1) <=> i \in 1..Len(a) \/ i = Len(a) + 1
  BY <1>2
<1>4. Confirmations(o) = {i \in 1..Len(a) : a[i].to = "CONFIRMED"}
  BY <1>2 DEF Confirmations, a
<1>5. Confirmations(o)' = {i \in 1..(Len(a) + 1) : Append(a, x)[i].to = "CONFIRMED"}
  BY <1>1, <1>2 DEF Confirmations
<1>6. \A i : i \in Confirmations(o)' <=>
             \/ i \in Confirmations(o)
             \/ i = Len(a) + 1 /\ to = "CONFIRMED"
  BY <1>1, <1>2, <1>3, <1>4, <1>5
<1> QED
  BY <1>6 DEF a
-----------------------------------------------------------------------------
(* The rows. *)

LEMMA SameRow ==
  ASSUME NEW o \in Orders, RowOK(o),
         status'[o] = status[o], version'[o] = version[o], quotes'[o] = quotes[o],
         delivery'[o] = delivery[o], evidence'[o] = evidence[o],
         history'[o] = history[o], audits'[o] = audits[o], events'[o] = events[o]
  PROVE  RowOK(o)'
<1>1. Confirmations(o)' = Confirmations(o)
  BY DEF Confirmations
<1>2. IsTrail(o) => IsTrail(o)'
  BY DEF IsTrail
<1> QED
  BY <1>1, <1>2 DEF RowOK, Unwritten

\* A confirmation, a transition or a cancellation, seen from the tables.
LEMMA RecordRows ==
  ASSUME TypeOK, RowsOK, NEW o \in Orders, NEW key \in Keys \union {None},
         NEW to \in Statuses \ Unconfirmed, status[o] # "ABSENT",
         to = "CONFIRMED" => status[o] = "WAITING_CONFIRMATION",
         to \in Live => quotes[o] # <<>> /\ evidence'[o].quote = Len(quotes[o]),
         \A p \in Orders \ {o} : evidence'[p] = evidence[p],
         Record(o, to, key), UNCHANGED <<quotes, delivery>>,
         status' = [status EXCEPT ![o] = to],
         version' = [version EXCEPT ![o] = version[o] + 1]
  PROVE  RowsOK'
<1>1. ASSUME NEW p \in Orders \ {o} PROVE RowOK(p)'
  <2>1. /\ status'[p] = status[p] /\ version'[p] = version[p]
        /\ history'[p] = history[p] /\ audits'[p] = audits[p] /\ events'[p] = events[p]
    BY DEF Record, TypeOK
  <2>2. RowOK(p) /\ quotes'[p] = quotes[p] /\ delivery'[p] = delivery[p]
    BY DEF RowsOK
  <2> QED
    BY <2>1, <2>2, SameRow
<1>2. RowOK(o) /\ IsTrail(o)
  BY DEF RowsOK, RowOK
<1>3. IsTrail(o)'
  BY <1>2, RecordTrail
<1>4. Confirmations(o)' = Confirmations(o) \union
                            (IF to = "CONFIRMED" THEN {Len(audits[o]) + 1} ELSE {})
  BY AuditConfirms DEF Record
<1>5. \A i, j \in Confirmations(o)' : i = j
  BY <1>2, <1>4 DEF RowOK, Unconfirmed
<1>6. status'[o] = to /\ quotes'[o] = quotes[o] /\ delivery'[o] = delivery[o]
  BY DEF TypeOK
<1>7. RowOK(o)'
  BY <1>2, <1>3, <1>5, <1>6 DEF RowOK, Unconfirmed
<1> QED
  BY <1>1, <1>7 DEF RowsOK

LEMMA CreateCommitRows ==
  ASSUME StateOK, RowsOK, NEW s \in Requests, CreateCommit(s)
  PROVE  RowsOK'
<1> DEFINE e == [version |-> 1, status |-> "DRAFT"]
           a == [to |-> "DRAFT", key |-> None]
<1>1. PICK o \in Orders : o = txn[s].order /\ status[o] = "ABSENT" /\ TypeOK
  BY DEF StateOK, RequestsOK, RequestOK, CreateCommit
<1>2. /\ status' = [status EXCEPT ![o] = "DRAFT"]
      /\ version' = [version EXCEPT ![o] = 1]
      /\ audits' = [audits EXCEPT ![o] = Append(@, a)]
      /\ events' = [events EXCEPT ![o] = Append(@, e)]
      /\ UNCHANGED <<quotes, delivery, evidence, history>>
  BY <1>1 DEF CreateCommit
<1>3. Unwritten(o)
  BY <1>1 DEF RowsOK, RowOK
<1>4. ASSUME NEW p \in Orders \ {o} PROVE RowOK(p)'
  <2>1. /\ status'[p] = status[p] /\ version'[p] = version[p]
        /\ audits'[p] = audits[p] /\ events'[p] = events[p]
    BY <1>1, <1>2 DEF TypeOK
  <2>2. /\ RowOK(p) /\ quotes'[p] = quotes[p] /\ delivery'[p] = delivery[p]
        /\ evidence'[p] = evidence[p] /\ history'[p] = history[p]
    BY <1>2 DEF RowsOK
  <2> QED
    BY <2>1, <2>2, SameRow
<1>5. /\ status'[o] = "DRAFT" /\ version'[o] = 1 /\ quotes'[o] = <<>> /\ history'[o] = <<>>
      /\ audits'[o] = Append(<<>>, a) /\ events'[o] = Append(<<>>, e)
  BY <1>1, <1>2, <1>3 DEF TypeOK, Unwritten
<1>6. /\ Len(Append(<<>>, e)) = 1 /\ DOMAIN Append(<<>>, e) = {1} /\ Append(<<>>, e)[1] = e
      /\ Len(Append(<<>>, a)) = 1 /\ DOMAIN Append(<<>>, a) = {1} /\ Append(<<>>, a)[1] = a
  OBVIOUS
<1>a. e.version = 1 /\ e.status = "DRAFT" /\ a.to # "CONFIRMED"
  OBVIOUS
<1> HIDE DEF e, a
<1>7. IsTrail(o)'
  BY <1>5, <1>6, <1>a DEF IsTrail
<1>8. Confirmations(o)' = {}
  BY <1>5, <1>6, <1>a DEF Confirmations
<1>9. RowOK(o)'
  BY <1>5, <1>7, <1>8 DEF RowOK, Live
<1> QED
  BY <1>4, <1>9 DEF RowsOK

LEMMA QuoteRows ==
  ASSUME StateOK, RowsOK, NEW o \in Orders, NEW fee \in Fees, Quote(o, fee)
  PROVE  RowsOK'
<1> DEFINE e == [version |-> version[o] + 1, status |-> "WAITING_CONFIRMATION"]
           n == [delivery |-> fee, expires |-> now + QuoteTTL]
           E == [version : Nat, status : Statuses]
<1>1. /\ status' = [status EXCEPT ![o] = "WAITING_CONFIRMATION"]
      /\ version' = [version EXCEPT ![o] = version[o] + 1]
      /\ delivery' = [delivery EXCEPT ![o] = fee]
      /\ quotes' = [quotes EXCEPT ![o] = Append(@, n)]
      /\ events' = [events EXCEPT ![o] = Append(@, e)]
      /\ UNCHANGED <<evidence, history, audits>>
      /\ status[o] \in Quotable
  BY DEF Quote
<1>2. ASSUME NEW p \in Orders \ {o} PROVE RowOK(p)'
  <2>1. /\ status'[p] = status[p] /\ version'[p] = version[p] /\ delivery'[p] = delivery[p]
        /\ quotes'[p] = quotes[p] /\ events'[p] = events[p]
    BY <1>1 DEF StateOK, TypeOK
  <2>2. /\ RowOK(p) /\ evidence'[p] = evidence[p] /\ history'[p] = history[p]
        /\ audits'[p] = audits[p]
    BY <1>1 DEF RowsOK
  <2> QED
    BY <2>1, <2>2, SameRow
<1>3. IsTrail(o) /\ history[o] = <<>> /\ Confirmations(o) = {}
  BY <1>1 DEF RowsOK, RowOK, Quotable, Unconfirmed
<1>4. /\ status'[o] = "WAITING_CONFIRMATION" /\ version'[o] = version[o] + 1
      /\ delivery'[o] = fee /\ quotes'[o] = Append(quotes[o], n)
      /\ events'[o] = Append(events[o], e) /\ history'[o] = <<>>
      /\ audits'[o] = audits[o]
  BY <1>1, <1>3 DEF StateOK, TypeOK
<1>5. quotes[o] \in Seq(Quotes) /\ n \in Quotes /\ n.delivery = fee
  <2>1. now + QuoteTTL \in Nat
    BY BoundsAssumption DEF StateOK, TypeOK
  <2> QED
    BY <2>1 DEF StateOK, TypeOK, Quotes
<1>6. events[o] \in Seq(E) /\ version[o] \in Nat /\ e \in E
  BY DEF StateOK, TypeOK, Statuses
<1>7. /\ version[o] = 1 + Len(quotes[o]) + Len(history[o]) /\ Len(events[o]) = version[o]
      /\ \A i \in DOMAIN events[o] : events[o][i].version = i
      /\ Len(audits[o]) = 1 + Len(history[o])
  BY <1>3 DEF IsTrail
<1>8. e.version = Len(events[o]) + 1 /\ e.status = "WAITING_CONFIRMATION"
  BY <1>7
<1> HIDE DEF e, n, E
<1>9. LET f == Append(events[o], e) IN
      /\ Len(f) = Len(events[o]) + 1
      /\ \A i \in DOMAIN f : f[i].version = i
      /\ f[Len(f)].status = "WAITING_CONFIRMATION"
  <2>1. \A i \in DOMAIN events[o] : events[o][i].version = i
    BY <1>7
  <2> QED
    BY <1>6, <1>8, <2>1, EventsNumbered
<1>10. /\ Len(Append(quotes[o], n)) = Len(quotes[o]) + 1 /\ Append(quotes[o], n) # <<>>
       /\ Len(quotes[o]) \in Nat
       /\ Append(quotes[o], n)[Len(Append(quotes[o], n))].delivery = fee
  <2>1. /\ Len(Append(quotes[o], n)) = Len(quotes[o]) + 1 /\ Append(quotes[o], n) # <<>>
        /\ Len(quotes[o]) \in Nat /\ Append(quotes[o], n)[Len(quotes[o]) + 1] = n
    BY <1>5, Appended
  <2> QED
    BY <1>5, <2>1
<1> DEFINE q == Len(quotes[o])  nq == Len(Append(quotes[o], n))
           nf == Len(Append(events[o], e))  k == Len(events[o])
<1>11. version'[o] = 1 + nq + 0 /\ nf = version'[o]
  <2>1. /\ q \in Nat /\ nq = q + 1 /\ nf = k + 1 /\ version[o] = 1 + q + 0 /\ k = version[o]
        /\ version'[o] = version[o] + 1
    BY <1>3, <1>4, <1>7, <1>9, <1>10
  <2> HIDE DEF q, nq, nf, k
  <2> QED
    BY <2>1
<1>12. IsTrail(o)'
  BY <1>3, <1>4, <1>7, <1>9, <1>11 DEF IsTrail
<1>13. Confirmations(o)' = {}
  BY <1>3, <1>4 DEF Confirmations
<1>14. RowOK(o)'
  BY <1>4, <1>10, <1>12, <1>13 DEF RowOK, Live
<1> QED
  BY <1>2, <1>14 DEF RowsOK
-----------------------------------------------------------------------------
(* The requests. *)

\* What others do to rows a request has not locked does not matter to it.
LEMMA OtherSight ==
  ASSUME StateOK, NEW r \in Requests, SightOK(r), txn'[r] = txn[r],
         LET o == txn[r].order IN
           txn[r].op \in Locking =>
             /\ quotes[o] # <<>> => quotes'[o] # <<>>
             /\ txn[r].pc = "lines" => /\ quotes'[o] = quotes[o] /\ version'[o] = version[o]
                                       /\ lines'[o] = lines[o]
             /\ \A v \in VariantLocks(r) : price'[v] = price[v]
  PROVE  SightOK(r)'
<1>1. RequestOK(r)
  BY DEF StateOK, RequestsOK
<1>2. CASE txn[r].op = "confirm"
  <2>1. \A i \in txn[r].done : lines[txn[r].order][i].variant \in VariantLocks(r)
    BY <1>2 DEF VariantLocks
  <2>2. txn[r].pc = "lines" \/ txn[r].done = {}
    BY <1>1, <1>2 DEF RequestOK, Locking
  <2> QED
    BY <1>2, <2>1, <2>2 DEF SightOK, Locking
<1>3. CASE txn[r].op # "confirm"
  BY <1>3 DEF SightOK, Locking
<1> QED
  BY <1>2, <1>3

\* A step of one request that writes no row.
LEMMA QuietSights ==
  ASSUME StateOK, SightsOK, NEW s \in Requests, UNCHANGED <<orderRow, price>>,
         \A r \in Requests \ {s} : txn'[r] = txn[r], SightOK(s)'
  PROVE  SightsOK'
<1>1. ASSUME NEW r \in Requests \ {s} PROVE SightOK(r)'
  BY OtherSight DEF SightsOK
<1> QED
  BY <1>1 DEF SightsOK

\* A step that writes the rows of one order, which no other request holds.
LEMMA WriterSights ==
  ASSUME StateOK, SightsOK, UNCHANGED price, NEW o \in Orders,
         \A p \in Orders \ {o} :
           quotes'[p] = quotes[p] /\ version'[p] = version[p] /\ lines'[p] = lines[p],
         quotes[o] # <<>> => quotes'[o] # <<>>,
         \A r \in Requests : \/ txn'[r] = Idle
                             \/ txn'[r] = txn[r] /\ o \notin OrderLocks(r)
  PROVE  SightsOK'
<1>1. ASSUME NEW r \in Requests, txn'[r] = Idle PROVE SightOK(r)'
  BY <1>1 DEF SightOK, Idle
<1>2. ASSUME NEW r \in Requests, txn'[r] = txn[r], o \notin OrderLocks(r) PROVE SightOK(r)'
  <2>1. txn[r].op \in Locking => txn[r].order \in Orders
    BY DEF StateOK, RequestsOK, RequestOK, Locking
  <2>2. txn[r].op \in Locking /\ txn[r].pc = "lines" => txn[r].order # o
    BY <1>2 DEF OrderLocks, Locking
  <2> QED
    BY <1>2, <2>1, <2>2, OtherSight DEF SightsOK
<1> QED
  BY <1>1, <1>2 DEF SightsOK

LEMMA FinishOthers ==
  ASSUME TypeOK, NEW s \in Requests, Finish(s), NEW o, OrderFree(s, o)
  PROVE  \A r \in Requests : \/ txn'[r] = Idle
                             \/ txn'[r] = txn[r] /\ o \notin OrderLocks(r)
BY DEF TypeOK, Finish, OrderFree

LEMMA BeginSights ==
  ASSUME StateOK, SightsOK, NEW s \in Requests, Begin(s)
  PROVE  SightsOK'
<1>1. /\ UNCHANGED <<orderRow, price>> /\ txn \in [Requests -> Txns]
      /\ \A r \in Requests \ {s} : txn'[r] = txn[r]
  BY DEF Begin, BeginCreate, BeginConfirm, BeginStaff, StateOK, TypeOK
<1>2. ASSUME NEW o \in Orders, NEW c \in Carts, BeginCreate(s, o, c) PROVE SightOK(s)'
  BY <1>1, <1>2 DEF BeginCreate, Idle, SightOK
<1>3. ASSUME NEW o \in Orders, NEW k \in Keys, BeginConfirm(s, o, k) PROVE SightOK(s)'
  <2> DEFINE a == [Idle EXCEPT !.op = "confirm", !.pc = "waiting", !.order = o,
                               !.key = k, !.seen = Len(quotes[o])]
             b == [Idle EXCEPT !.op = "replay", !.pc = "waiting", !.order = o]
  <2>1. quotes[o] # <<>> /\ (txn'[s] = a \/ txn'[s] = b)
    BY <1>1, <1>3 DEF BeginConfirm
  <2>2. /\ a.op = "confirm" /\ a.pc = "waiting" /\ a.order = o /\ a.done = {}
        /\ b.op = "replay"
    BY DEF Idle
  <2> HIDE DEF a, b
  <2> QED
    BY <1>1, <2>1, <2>2 DEF SightOK
<1>4. ASSUME NEW o \in Orders, NEW op \in {"transition", "cancel"}, NEW t,
             BeginStaff(s, o, op, t)
      PROVE  SightOK(s)'
  BY <1>1, <1>4 DEF BeginStaff, Idle, SightOK
<1>5. SightOK(s)'
  BY <1>2, <1>3, <1>4 DEF Begin
<1> QED
  BY <1>1, <1>5, QuietSights

LEMMA LockSights ==
  ASSUME StateOK, SightsOK, NEW s \in Requests, ConfirmLock(s) \/ CancelLock(s)
  PROVE  SightsOK'
<1>1. PICK n :
        /\ txn' = [txn EXCEPT ![s].pc = "lines", ![s].want = n]
        /\ txn[s].op = "confirm" => txn[s].seen = Len(quotes[txn[s].order])
        /\ txn[s].op = "cancel" => txn[s].seen = version[txn[s].order]
        /\ txn[s].pc = "waiting"
        /\ UNCHANGED <<orderRow, reserved, price, trails, now>>
  BY DEF ConfirmLock, CancelLock, MayConfirm, MayCancel
<1>2. /\ txn'[s] = [txn[s] EXCEPT !.pc = "lines", !.want = n] /\ txn[s] \in Txns
      /\ \A r \in Requests \ {s} : txn'[r] = txn[r]
  BY <1>1 DEF StateOK, TypeOK
<1>3. /\ txn'[s].op = txn[s].op /\ txn'[s].order = txn[s].order
      /\ txn'[s].seen = txn[s].seen /\ txn'[s].done = txn[s].done
  BY <1>2 DEF Txns
<1>4. SightOK(s)'
  BY <1>1, <1>3 DEF SightOK, SightsOK
<1> QED
  BY <1>1, <1>2, <1>4, QuietSights

LEMMA LineSights ==
  ASSUME StateOK, SightsOK, NEW s \in Requests, ConfirmLine(s) \/ CancelLine(s)
  PROVE  SightsOK'
<1>1. PICK stock, m :
        /\ txn' = [txn EXCEPT ![s].done = @ \union {txn[s].want}, ![s].want = m,
                              ![s].copy[lines[txn[s].order][txn[s].want].variant] = stock]
        /\ txn[s].op = "confirm" =>
             LET line == lines[txn[s].order][txn[s].want]
             IN  price[line.variant] = line.price
        /\ UNCHANGED <<orderRow, reserved, price, trails, now>>
        /\ txn[s].op \in Locking /\ txn[s].pc = "lines"
  BY DEF ConfirmLine, CancelLine, TakeLine, MayReserve, MoreLines, Locking
<1>2. /\ \A r \in Requests \ {s} : txn'[r] = txn[r]
      /\ txn[s] \in Txns
  BY <1>1 DEF StateOK, TypeOK
<1>3. /\ txn'[s].op = txn[s].op /\ txn'[s].order = txn[s].order /\ txn'[s].pc = txn[s].pc
      /\ txn'[s].seen = txn[s].seen /\ txn'[s].done = txn[s].done \union {txn[s].want}
  BY <1>1, <1>2 DEF Txns, StateOK, TypeOK
<1>4. SightOK(s)'
  <2>1. SightOK(s) /\ lines' = lines /\ price' = price /\ quotes' = quotes /\ version' = version
    BY <1>1 DEF SightsOK
  <2>2. txn[s].op = "confirm" =>
          \A i \in txn'[s].done :
            lines[txn[s].order][i].price = price[lines[txn[s].order][i].variant]
    BY <1>1, <1>3, <2>1 DEF SightOK
  <2> QED
    BY <1>3, <2>1, <2>2 DEF SightOK
<1> QED
  BY <1>1, <1>2, <1>4, QuietSights

\* Confirmation, transition and cancellation, as the tables and others see them.
LEMMA CommitTrail ==
  ASSUME TrailInv, NEW s \in Requests,
         ConfirmCommit(s) \/ Transition(s) \/ CancelCommit(s)
  PROVE  RowsOK' /\ SightsOK'
<1> DEFINE to == CASE txn[s].op = "confirm" -> "CONFIRMED"
                   [] txn[s].op = "transition" -> txn[s].target
                   [] OTHER -> "CANCELLED"
           key == IF txn[s].op = "confirm" THEN txn[s].key ELSE None
<1>1. PICK o \in Orders : o = txn[s].order /\ status[o] # "ABSENT" /\ OrderFree(s, o)
  <2>1. RequestOK(s) /\ txn[s].op \in {"confirm", "transition", "cancel"}
    BY DEF TrailInv, StateOK, RequestsOK, ConfirmCommit, Transition, CancelCommit
  <2>2. OrderFree(s, txn[s].order)
    <3>1. CASE Transition(s)
      BY <3>1 DEF Transition
    <3>2. CASE ConfirmCommit(s) \/ CancelCommit(s)
      <4>1. OrderLocks(s) = {txn[s].order}
        BY <3>2 DEF ConfirmCommit, CancelCommit, OrderLocks
      <4> QED
        BY <4>1 DEF TrailInv, StateOK, Exclusive, OrderFree
    <3> QED
      BY <3>1, <3>2
  <2> QED
    BY <2>1, <2>2 DEF RequestOK
<1>2. /\ Record(o, to, key) /\ Finish(s)
      /\ status' = [status EXCEPT ![o] = to]
      /\ version' = [version EXCEPT ![o] = version[o] + 1]
      /\ UNCHANGED <<lines, quotes, delivery, price, now>>
  BY <1>1 DEF ConfirmCommit, Transition, CancelCommit
<1>3. TypeOK /\ txn[s] \in Txns /\ RequestOK(s) /\ SightOK(s) /\ RowOK(o)
  BY DEF TrailInv, StateOK, TypeOK, RequestsOK, SightsOK, RowsOK
<1>4. to \in Statuses \ Unconfirmed /\ key \in Keys \union {None}
  BY <1>3 DEF RequestOK, Targets, Statuses, Unconfirmed, Txns, ConfirmCommit, Transition,
              CancelCommit
<1>5. /\ to = "CONFIRMED" => status[o] = "WAITING_CONFIRMATION"
      /\ to \in Live => quotes[o] # <<>> /\ evidence'[o].quote = Len(quotes[o])
      /\ \A p \in Orders \ {o} : evidence'[p] = evidence[p]
  <2>1. CASE ConfirmCommit(s)
    <3>1. txn[s].op = "confirm" /\ txn[s].pc = "lines"
      BY <2>1 DEF ConfirmCommit
    <3>2. evidence' = [evidence EXCEPT ![o] = [quote |-> txn[s].seen, at |-> now]]
      BY <1>1, <2>1 DEF ConfirmCommit
    <3> QED
      BY <1>1, <1>3, <3>1, <3>2 DEF RequestOK, SightOK, Locking, TypeOK
  <2>2. CASE Transition(s)
    <3>1. /\ txn[s].op = "transition" /\ Allowed(status[o]) = txn[s].target
          /\ evidence' = evidence /\ txn[s].target \in Targets
      BY <1>1, <1>3, <2>2 DEF Transition, MayTransition, RequestOK
    <3>2. status[o] \in Live
      BY <3>1 DEF Allowed, Live, Targets
    <3> QED
      BY <1>3, <3>1, <3>2 DEF Targets, RowOK
  <2>3. CASE CancelCommit(s)
    BY <2>3 DEF CancelCommit, Live
  <2> QED
    BY <2>1, <2>2, <2>3
<1> HIDE DEF to, key
<1>6. RowsOK'
  BY <1>1, <1>2, <1>3, <1>4, <1>5, RecordRows DEF TrailInv
<1>7. SightsOK'
  <2>1. \A p \in Orders \ {o} :
          quotes'[p] = quotes[p] /\ version'[p] = version[p] /\ lines'[p] = lines[p]
    BY <1>2, <1>3 DEF TypeOK
  <2>2. \A r \in Requests : \/ txn'[r] = Idle
                            \/ txn'[r] = txn[r] /\ o \notin OrderLocks(r)
    BY <1>1, <1>2, <1>3, FinishOthers
  <2> QED
    BY <1>2, <2>1, <2>2, WriterSights DEF TrailInv
<1> QED
  BY <1>6, <1>7

LEMMA CreateCommitTrail ==
  ASSUME TrailInv, NEW s \in Requests, CreateCommit(s)
  PROVE  RowsOK' /\ SightsOK'
<1>1. PICK o \in Orders : o = txn[s].order /\ status[o] = "ABSENT"
  BY DEF TrailInv, StateOK, RequestsOK, RequestOK, CreateCommit
<1>2. /\ version' = [version EXCEPT ![o] = 1] /\ lines' = [lines EXCEPT ![o] = txn[s].draft]
      /\ UNCHANGED <<quotes, price>> /\ Finish(s) /\ TypeOK
  BY <1>1 DEF CreateCommit, TrailInv, StateOK
<1>3. \A r \in Requests : o \notin OrderLocks(r)
  BY <1>1 DEF TrailInv, StateOK, RequestsOK, RequestOK, OrderLocks
<1>4. \A p \in Orders \ {o} :
        quotes'[p] = quotes[p] /\ version'[p] = version[p] /\ lines'[p] = lines[p]
  BY <1>2 DEF TypeOK
<1>5. \A r \in Requests : \/ txn'[r] = Idle
                          \/ txn'[r] = txn[r] /\ o \notin OrderLocks(r)
  BY <1>2, <1>3, FinishOthers DEF OrderFree
<1>6. SightsOK'
  BY <1>2, <1>4, <1>5, WriterSights DEF TrailInv
<1> QED
  BY <1>6, CreateCommitRows DEF TrailInv

LEMMA QuoteTrail ==
  ASSUME TrailInv, NEW o \in Orders, NEW fee \in Fees, Quote(o, fee)
  PROVE  RowsOK' /\ SightsOK'
<1> DEFINE n == [delivery |-> fee, expires |-> now + QuoteTTL]
<1>1. /\ version' = [version EXCEPT ![o] = version[o] + 1]
      /\ quotes' = [quotes EXCEPT ![o] = Append(@, n)]
      /\ UNCHANGED <<lines, price, txn>> /\ TypeOK
      /\ \A r \in Requests : o \notin OrderLocks(r)
  BY DEF Quote, TrailInv, StateOK
<1>2. n \in Quotes
  BY BoundsAssumption DEF Quotes, TrailInv, StateOK, TypeOK
<1> HIDE DEF n
<1>3. quotes'[o] # <<>>
  <2>1. quotes'[o] = Append(quotes[o], n) /\ quotes[o] \in Seq(Quotes)
    BY <1>1 DEF TypeOK
  <2> QED
    BY <1>2, <2>1, Appended
<1>4. \A p \in Orders \ {o} :
        quotes'[p] = quotes[p] /\ version'[p] = version[p] /\ lines'[p] = lines[p]
  BY <1>1 DEF TypeOK
<1>5. SightsOK'
  BY <1>1, <1>3, <1>4, WriterSights DEF TrailInv
<1> QED
  BY <1>5, QuoteRows DEF TrailInv

\* Steps that write no row of an order.
LEMMA QuietRows ==
  ASSUME RowsOK, UNCHANGED <<orderRow, trails>>
  PROVE  RowsOK'
BY SameRow DEF RowsOK

LEMMA InitTrail == Init => TrailInv
<1> SUFFICES ASSUME Init PROVE TrailInv
  OBVIOUS
<1>1. \A o \in Orders : Confirmations(o) = {}
  BY DEF Init, Confirmations
<1>2. RowsOK
  BY <1>1 DEF Init, RowsOK, RowOK, Unwritten, Live
<1>3. SightsOK
  BY DEF Init, SightsOK, SightOK, Idle
<1> QED
  BY <1>2, <1>3, InitOK DEF TrailInv

LEMMA NextTrail == TrailInv /\ [Next]_vars => TrailInv'
<1> SUFFICES ASSUME TrailInv, [Next]_vars PROVE TrailInv'
  OBVIOUS
<1> USE DEF TrailInv
<1>0. StateOK' /\ TypeOK
  BY NextOK DEF StateOK
<1>1. ASSUME NEW s \in Requests, Begin(s) PROVE TrailInv'
  <2>1. UNCHANGED <<orderRow, trails>>
    BY <1>1 DEF Begin, BeginCreate, BeginConfirm, BeginStaff
  <2> QED
    BY <1>0, <1>1, <2>1, BeginSights, QuietRows
<1>2. ASSUME NEW s \in Requests, Rollback(s) PROVE TrailInv'
  <2>1. /\ UNCHANGED <<orderRow, trails, price>> /\ txn'[s] = Idle
        /\ \A r \in Requests \ {s} : txn'[r] = txn[r]
    BY <1>0, <1>2 DEF Rollback, Finish, TypeOK
  <2>2. SightOK(s)'
    BY <2>1 DEF SightOK, Idle
  <2> QED
    BY <1>0, <2>1, <2>2, QuietSights, QuietRows
<1>3. ASSUME NEW s \in Requests, CreateLine(s) PROVE TrailInv'
  <2>1. /\ UNCHANGED <<orderRow, trails, price>> /\ txn'[s].op = "create"
        /\ \A r \in Requests \ {s} : txn'[r] = txn[r]
    BY <1>0, <1>3 DEF CreateLine, TypeOK, Txns
  <2>2. SightOK(s)'
    BY <2>1 DEF SightOK
  <2> QED
    BY <1>0, <2>1, <2>2, QuietSights, QuietRows
<1>4. ASSUME NEW s \in Requests,
             ConfirmLock(s) \/ CancelLock(s) \/ ConfirmLine(s) \/ CancelLine(s)
      PROVE  TrailInv'
  <2>1. UNCHANGED <<orderRow, trails>>
    BY <1>4 DEF ConfirmLock, CancelLock, ConfirmLine, CancelLine
  <2> QED
    BY <1>0, <1>4, <2>1, LockSights, LineSights, QuietRows
<1>5. ASSUME NEW s \in Requests, Progress(s) PROVE TrailInv'
  BY <1>0, <1>2, <1>3, <1>4, <1>5, CreateCommitTrail, CommitTrail
     DEF Progress, Replay, Refuse
<1>6. ASSUME NEW s \in Requests, Abort(s) \/ DeadlockVictim(s) PROVE TrailInv'
  BY <1>2, <1>6 DEF Abort, DeadlockVictim
<1>7. ASSUME NEW o \in Orders, NEW fee \in Fees, Quote(o, fee) PROVE TrailInv'
  BY <1>0, <1>7, QuoteTrail
<1>8. ASSUME NEW v \in Variants, NEW p \in Prices, EditPrice(v, p) PROVE TrailInv'
  <2>1. /\ UNCHANGED <<orderRow, trails, txn>>
        /\ \A r \in Requests : \A w \in VariantLocks(r) : price'[w] = price[w]
    BY <1>0, <1>8 DEF EditPrice, TypeOK
  <2>2. ASSUME NEW r \in Requests PROVE SightOK(r)'
    BY <2>1, OtherSight DEF SightsOK
  <2> QED
    BY <1>0, <2>1, <2>2, QuietRows DEF SightsOK
<1>9. CASE Tick \/ UNCHANGED vars
  <2>1. UNCHANGED <<orderRow, trails, txn, price>>
    BY <1>9 DEF Tick, vars
  <2>2. ASSUME NEW r \in Requests PROVE SightOK(r)'
    BY <2>1, OtherSight DEF SightsOK
  <2> QED
    BY <1>0, <2>1, <2>2, QuietRows DEF SightsOK
<1> QED
  BY <1>1, <1>5, <1>6, <1>7, <1>8, <1>9 DEF Next

LEMMA TrailInvariant == Spec => []TrailInv
BY InitTrail, NextTrail, PTL DEF Spec
-----------------------------------------------------------------------------
(* The theorems. *)

\* Each version of an order is announced once and in order, its history is a
\* chain that ends in its status, and quotes and history account for every
\* version (the increments, record_audit and events of services.py).
THEOREM TrailCorrect == Spec => []TrailTellsTheOrder
<1>1. TrailInv => TrailTellsTheOrder
  BY DEF TrailInv, RowsOK, RowOK, TrailTellsTheOrder
<1> QED
  BY <1>1, TrailInvariant, PTL

\* No retry, no second key and no race of two keys confirms an order twice
\* (the status check of confirm_order under the order's lock).
THEOREM ConfirmedAtMostOnce == Spec => []ConfirmedOnce
<1>1. ASSUME TrailInv, NEW o \in Orders PROVE Cardinality(Confirmations(o)) <= 1
  <2>1. \A i, j \in Confirmations(o) : i = j
    BY <1>1 DEF TrailInv, RowsOK, RowOK
  <2>2. CASE Confirmations(o) = {}
    BY <2>2, FS_EmptySet
  <2>3. CASE Confirmations(o) # {}
    <3>1. PICK i : Confirmations(o) = {i}
      BY <2>1, <2>3
    <3> QED
      BY <3>1, FS_Singleton
  <2> QED
    BY <2>2, <2>3
<1>2. TrailInv => ConfirmedOnce
  BY <1>1 DEF ConfirmedOnce, Confirmations
<1> QED
  BY <1>2, TrailInvariant, PTL

\* A live order stands on its newest quote and charges its delivery: add_quote
\* and confirm_order exclude each other through the order's lock.
THEOREM ConfirmedQuote == Spec => []ConfirmedOnLatestQuote
<1>1. TrailInv => ConfirmedOnLatestQuote
  BY DEF TrailInv, RowsOK, RowOK, ConfirmedOnLatestQuote
<1> QED
  BY <1>1, TrailInvariant, PTL

\* The price compared under the variant's lock is still the catalogue's when
\* the confirmation commits, whatever prices are edited meanwhile.
THEOREM PricesAreHonoured == Spec => PriceHonoured
<1> DEFINE Honoured ==
      \A o \in Orders :
        status[o] = "WAITING_CONFIRMATION" /\ status'[o] = "CONFIRMED" =>
          \A i \in DOMAIN lines[o] : lines[o][i].price = price[lines[o][i].variant]
<1>1. TrailInv /\ [Next]_vars => [Honoured]_vars
  <2> SUFFICES ASSUME TrailInv, Next, NEW o \in Orders,
                      status[o] = "WAITING_CONFIRMATION", status'[o] = "CONFIRMED"
               PROVE  \A i \in DOMAIN lines[o] :
                        lines[o][i].price = price[lines[o][i].variant]
    OBVIOUS
  <2>1. PICK s \in Requests : ConfirmCommit(s) /\ txn[s].order = o
    <3>0. status \in [Orders -> Statuses] /\ \A s \in Requests : RequestOK(s)
      BY DEF TrailInv, StateOK, TypeOK, RequestsOK
    <3>1. ASSUME NEW s \in Requests, Begin(s) PROVE FALSE
      BY <3>1 DEF Begin, BeginCreate, BeginConfirm, BeginStaff
    <3>2. ASSUME NEW s \in Requests, Rollback(s) PROVE FALSE
      BY <3>2 DEF Rollback
    <3>3. ASSUME NEW s \in Requests,
                 CreateLine(s) \/ ConfirmLock(s) \/ ConfirmLine(s)
                   \/ CancelLock(s) \/ CancelLine(s)
          PROVE  FALSE
      BY <3>3 DEF CreateLine, ConfirmLock, ConfirmLine, CancelLock, CancelLine
    <3>4. ASSUME NEW s \in Requests, CreateCommit(s) \/ CancelCommit(s) PROVE FALSE
      BY <3>0, <3>4 DEF CreateCommit, CancelCommit
    <3>5. ASSUME NEW s \in Requests, Transition(s) PROVE FALSE
      <4>1. txn[s].target \in Targets
        BY <3>0, <3>5 DEF Transition, RequestOK
      <4> QED
        BY <3>0, <3>5, <4>1 DEF Transition, Targets
    <3>6. ASSUME NEW p \in Orders, NEW fee \in Fees, Quote(p, fee) PROVE FALSE
      BY <3>0, <3>6 DEF Quote
    <3>7. ASSUME NEW v \in Variants, NEW p \in Prices, EditPrice(v, p) PROVE FALSE
      BY <3>7 DEF EditPrice
    <3>8. CASE Tick
      BY <3>8 DEF Tick
    <3>9. ASSUME NEW s \in Requests, ConfirmCommit(s) PROVE txn[s].order = o
      BY <3>0, <3>9 DEF ConfirmCommit
    <3> QED
      BY <3>1, <3>2, <3>3, <3>4, <3>5, <3>6, <3>7, <3>8, <3>9
         DEF Next, Progress, Replay, Refuse, Abort, DeadlockVictim
  <2>2. RequestOK(s) /\ SightOK(s) /\ txn[s].op = "confirm" /\ txn[s].pc = "lines"
        /\ txn[s].want = 0
    BY <2>1 DEF TrailInv, StateOK, RequestsOK, SightsOK, ConfirmCommit, MoreLines
  <2>3. txn[s].done = DOMAIN lines[o]
    BY <2>1, <2>2 DEF RequestOK, Locking
  <2> QED
    BY <2>1, <2>2, <2>3 DEF SightOK
<1>2. Spec => [][Honoured]_vars
  BY <1>1, TrailInvariant, PTL DEF Spec
<1> QED
  BY <1>2 DEF PriceHonoured

\* The version compared under the order's lock is still the order's when the
\* request commits (expected_version of transition_order and cancel_order).
THEOREM StaffSeesVersion == Spec => StaffSawIt
<1> DEFINE Saw ==
      \A s \in Requests :
       /\ txn[s].op \in {"transition", "cancel"} /\ txn'[s].op = "none"
       /\ status'[txn[s].order] # status[txn[s].order]
       => txn[s].seen = version[txn[s].order]
<1>1. TrailInv /\ [Next]_vars => [Saw]_vars
  <2> SUFFICES ASSUME TrailInv, Next, NEW s \in Requests,
                      txn[s].op \in {"transition", "cancel"}, txn'[s].op = "none",
                      status'[txn[s].order] # status[txn[s].order]
               PROVE  txn[s].seen = version[txn[s].order]
    OBVIOUS
  <2>0. txn \in [Requests -> Txns] /\ SightOK(s)
    BY DEF TrailInv, StateOK, TypeOK, SightsOK
  <2>1. ASSUME NEW r \in Requests, Begin(r) PROVE FALSE
    BY <2>1 DEF Begin, BeginCreate, BeginConfirm, BeginStaff
  <2>2. ASSUME NEW r \in Requests, Rollback(r) PROVE FALSE
    BY <2>2 DEF Rollback
  <2>3. ASSUME NEW r \in Requests,
               CreateLine(r) \/ ConfirmLock(r) \/ ConfirmLine(r)
                 \/ CancelLock(r) \/ CancelLine(r)
        PROVE  FALSE
    BY <2>3 DEF CreateLine, ConfirmLock, ConfirmLine, CancelLock, CancelLine
  <2>4. ASSUME NEW r \in Requests, Finish(r) PROVE r = s
    BY <2>0, <2>4 DEF Finish
  <2>5. ASSUME NEW r \in Requests, CreateCommit(r) \/ ConfirmCommit(r) PROVE FALSE
    BY <2>4, <2>5 DEF CreateCommit, ConfirmCommit
  <2>6. ASSUME NEW r \in Requests, Transition(r)
        PROVE  txn[s].seen = version[txn[s].order]
    BY <2>4, <2>6 DEF Transition, MayTransition
  <2>7. ASSUME NEW r \in Requests, CancelCommit(r)
        PROVE  txn[s].seen = version[txn[s].order]
    BY <2>0, <2>4, <2>7 DEF CancelCommit, SightOK
  <2>8. ASSUME NEW o \in Orders, NEW fee \in Fees, Quote(o, fee) PROVE FALSE
    BY <2>8 DEF Quote
  <2>9. ASSUME NEW v \in Variants, NEW p \in Prices, EditPrice(v, p) PROVE FALSE
    BY <2>9 DEF EditPrice
  <2>10. CASE Tick
    BY <2>10 DEF Tick
  <2> QED
    BY <2>1, <2>2, <2>3, <2>5, <2>6, <2>7, <2>8, <2>9, <2>10
       DEF Next, Progress, Replay, Refuse, Abort, DeadlockVictim
<1>2. Spec => [][Saw]_vars
  BY <1>1, TrailInvariant, PTL DEF Spec
<1> QED
  BY <1>2 DEF StaffSawIt
=============================================================================
