------------------------ MODULE CommerceStockProofs ------------------------
(***************************************************************************)
(* Reserved stock is exactly what live orders hold, and never more than    *)
(* there is.                                                               *)
(***************************************************************************)
EXTENDS CommerceProofs

Places == Orders \X (1..MaxLines) \X (1..MaxQuantity)

\* The units of variant v in the items D of order o.
Units(o, D, v) ==
  {u \in Places : /\ u[1] = o /\ u[2] \in D /\ u[2] \in DOMAIN lines[o]
                  /\ lines[o][u[2]].variant = v
                  /\ u[3] <= lines[o][u[2]].quantity}

\* The units of variant v that request s has taken or given back so far.
Moved(s, v) == Cardinality(Units(txn[s].order, txn[s].done, v))

\* A session's figure differs from the table's by what the session moved.
CopyOK(s) ==
  \A v \in Variants :
    /\ txn[s].op = "confirm" => /\ Seen(s, v) = reserved[v] + Moved(s, v)
                                /\ Seen(s, v) <= OnHand[v]
    /\ txn[s].op = "cancel"  => Seen(s, v) + Moved(s, v) = reserved[v]

StockOK ==
  /\ ReservationExact
  /\ \A v \in Variants : reserved[v] <= OnHand[v]
  /\ \A s \in Requests : CopyOK(s)

StockInv == StateOK /\ StockOK

USE DEF orderRow, trails
-----------------------------------------------------------------------------
(* Counting units. *)

LEMMA PlacesFinite == IsFiniteSet(Places)
<1> DEFINE T == (Orders \X (1..MaxLines)) \X (1..MaxQuantity)
           f == [u \in Places |-> <<<<u[1], u[2]>>, u[3]>>]
<1>0. IsFiniteSet(1..MaxLines) /\ IsFiniteSet(1..MaxQuantity)
  <2>1. 1 \in Int /\ MaxLines \in Int /\ MaxQuantity \in Int
    BY BoundsAssumption
  <2> QED
    BY <2>1, FS_Interval
<1>1. IsFiniteSet(Orders \X (1..MaxLines))
  BY <1>0, SetsAssumption, FS_Product
<1>2. IsFiniteSet(T)
  BY <1>0, <1>1, FS_Product
<1>3. \A u \in Places : u = <<u[1], u[2], u[3]>> /\ <<<<u[1], u[2]>>, u[3]>> \in T
  BY DEF Places
<1>4. f \in [Places -> T]
  BY <1>3
<1>5. \A x, y \in Places : f[x] = f[y] => x = y
  <2> SUFFICES ASSUME NEW x \in Places, NEW y \in Places, f[x] = f[y] PROVE x = y
    OBVIOUS
  <2>1. <<<<x[1], x[2]>>, x[3]>> = <<<<y[1], y[2]>>, y[3]>>
    OBVIOUS
  <2>2. <<x[1], x[2]>> = <<y[1], y[2]>> /\ x[3] = y[3]
    BY <2>1
  <2> QED
    BY <1>3, <2>2
<1>6. f \in Injection(Places, T)
  BY <1>4, <1>5 DEF Injection, IsInjective
<1> QED
  BY <1>2, <1>6, FS_Injection

LEMMA UnitsFinite ==
  ASSUME NEW o, NEW D, NEW v
  PROVE  IsFiniteSet(Units(o, D, v)) /\ Cardinality(Units(o, D, v)) \in Nat
BY PlacesFinite, FS_Subset, FS_CardinalityType DEF Units

LEMMA HeldFinite ==
  ASSUME NEW v
  PROVE  IsFiniteSet(Held(v)) /\ Cardinality(Held(v)) \in Nat
BY PlacesFinite, FS_Subset, FS_CardinalityType DEF Held, Places

\* One item stands for as many units as its quantity.
LEMMA LineUnits ==
  ASSUME NEW o \in Orders, NEW n \in 1..MaxLines, NEW q \in 0..MaxQuantity
  PROVE  LET U == {u \in Places : u[1] = o /\ u[2] = n /\ u[3] <= q}
         IN  IsFiniteSet(U) /\ Cardinality(U) = q
<1> DEFINE U == {u \in Places : u[1] = o /\ u[2] = n /\ u[3] <= q}
           f == [k \in 1..q |-> <<o, n, k>>]
<1>1. IsFiniteSet(1..q) /\ Cardinality(1..q) = q
  BY BoundsAssumption, FS_Interval
<1>2. f \in [1..q -> U]
  BY BoundsAssumption DEF Places
<1>3. \A j, k \in 1..q : f[j] = f[k] => j = k
  OBVIOUS
<1>4. \A u \in U : \E k \in 1..q : f[k] = u
  <2> SUFFICES ASSUME NEW u \in U PROVE u[3] \in 1..q /\ f[u[3]] = u
    OBVIOUS
  <2> QED
    BY BoundsAssumption DEF Places
<1>5. f \in Bijection(1..q, U)
  BY <1>2, <1>3, <1>4 DEF Bijection, Injection, Surjection, IsInjective
<1> QED
  BY <1>1, <1>5, FS_Bijection DEF ExistsBijection

\* Handling one more item adds its quantity.
LEMMA MoreUnits ==
  ASSUME TypeOK, NEW o \in Orders, NEW D, NEW n \in DOMAIN lines[o], n \notin D,
         NEW v
  PROVE  Cardinality(Units(o, D \union {n}, v)) =
           Cardinality(Units(o, D, v)) +
             (IF lines[o][n].variant = v THEN lines[o][n].quantity ELSE 0)
<1> DEFINE q == lines[o][n].quantity
           U == {u \in Places : u[1] = o /\ u[2] = n /\ u[3] <= q}
<1>1. n \in 1..MaxLines /\ q \in 0..MaxQuantity
  <2>1. lines[o] \in Seq(Lines(Prices)) /\ Len(lines[o]) <= MaxLines
    BY DEF TypeOK
  <2>2. n \in 1..Len(lines[o])
    BY <2>1
  <2>3. lines[o][n] \in Lines(Prices)
    BY <2>1, <2>2, ElementType
  <2> QED
    BY <2>1, <2>2, <2>3, BoundsAssumption DEF Lines
<1>2. IsFiniteSet(U) /\ Cardinality(U) = q
  BY <1>1, LineUnits
<1>3. CASE lines[o][n].variant = v
  <2>1. Units(o, D \union {n}, v) = Units(o, D, v) \union U
    BY <1>3 DEF Units
  <2>2. Units(o, D, v) \cap U = {}
    BY DEF Units
  <2> QED
    <3>1. IsFiniteSet(Units(o, D, v)) /\ Cardinality(Units(o, D, v)) \in Nat
      BY UnitsFinite
    <3>2. Cardinality(Units(o, D, v) \union U) =
            Cardinality(Units(o, D, v)) + Cardinality(U) - Cardinality({})
      BY <1>2, <2>2, <3>1, FS_Union
    <3>3. Cardinality({}) = 0 /\ q \in Int
      BY <1>1, BoundsAssumption, FS_EmptySet
    <3>4. Cardinality(Units(o, D, v) \union U) = Cardinality(Units(o, D, v)) + q
      <4> HIDE DEF U, q
      <4> QED
        BY <1>2, <3>1, <3>2, <3>3
    <3>5. Cardinality(Units(o, D \union {n}, v)) = Cardinality(Units(o, D, v)) + q
      <4> HIDE DEF U, q
      <4> QED
        BY <2>1, <3>4
    <3> QED
      BY <1>3, <3>5
<1>4. CASE lines[o][n].variant # v
  <2>1. Units(o, D \union {n}, v) = Units(o, D, v)
    BY <1>4 DEF Units
  <2> QED
    BY <1>4, <2>1, UnitsFinite
<1> QED
  BY <1>3, <1>4
-----------------------------------------------------------------------------
(* What a request has not locked it has not moved. *)

LEMMA NotMoved ==
  ASSUME NEW s \in Requests, txn[s].op \in Locking, NEW v, v \notin VariantLocks(s)
  PROVE  Moved(s, v) = 0 /\ Seen(s, v) = reserved[v]
<1>1. Units(txn[s].order, txn[s].done, v) = {}
  BY DEF Units, VariantLocks, Locking
<1> QED
  BY <1>1, FS_EmptySet DEF Moved, Seen

LEMMA EmptyDone ==
  ASSUME NEW s \in Requests, txn[s].op \in Locking, txn[s].done = {}, NEW v
  PROVE  v \notin VariantLocks(s)
BY DEF VariantLocks, Locking

LEMMA StockType ==
  ASSUME TypeOK, NEW v \in Variants
  PROVE  reserved[v] \in Nat /\ OnHand[v] \in Nat
BY StockAssumption DEF TypeOK

\* A request that has moved nothing is in order.
LEMMA FreshCopy ==
  ASSUME TypeOK, \A v \in Variants : reserved[v] <= OnHand[v],
         NEW s \in Requests, txn[s].op \notin Locking \/ txn[s].done = {}
  PROVE  CopyOK(s)
<1>1. CASE txn[s].op \notin Locking
  BY <1>1 DEF CopyOK, Locking
<1>2. CASE txn[s].op \in Locking /\ txn[s].done = {}
  <2>1. \A v \in Variants : Moved(s, v) = 0 /\ Seen(s, v) = reserved[v]
    BY <1>2, EmptyDone, NotMoved
  <2> QED
    BY <2>1, StockType DEF CopyOK
<1> QED
  BY <1>1, <1>2

LEMMA InitStock == Init => StockInv
<1> SUFFICES ASSUME Init PROVE StockInv
  OBVIOUS
<1>1. StateOK
  BY InitOK
<1>2. \A v \in Variants : Held(v) = {}
  BY DEF Held, Init, Live
<1>3. ReservationExact
  BY <1>2, FS_EmptySet DEF ReservationExact, Init
<1>4. \A v \in Variants : reserved[v] <= OnHand[v]
  BY <1>1, StockType DEF Init, StateOK
<1>5. \A s \in Requests : CopyOK(s)
  <2>1. \A s \in Requests : txn[s].done = {}
    BY DEF Init, Idle
  <2> QED
    BY <1>1, <1>4, <2>1, FreshCopy DEF StateOK
<1> QED
  BY <1>1, <1>3, <1>4, <1>5 DEF StockInv, StockOK

\* A request none of whose rows change stays in order.
LEMMA OtherCopy ==
  ASSUME NEW r \in Requests, CopyOK(r), txn'[r] = txn[r], txn[r].op \in Locking,
         lines'[txn[r].order] = lines[txn[r].order],
         TypeOK', \A v \in Variants : reserved'[v] <= OnHand[v],
         \A v \in VariantLocks(r) : v \in Variants => reserved'[v] = reserved[v]
  PROVE  CopyOK(r)'
<1> SUFFICES ASSUME NEW v \in Variants
             PROVE  /\ txn'[r].op = "confirm" =>
                         /\ Seen(r, v)' = reserved'[v] + Moved(r, v)'
                         /\ Seen(r, v)' <= OnHand[v]
                    /\ txn'[r].op = "cancel" => Seen(r, v)' + Moved(r, v)' = reserved'[v]
  BY DEF CopyOK
<1>1. VariantLocks(r)' = VariantLocks(r)
  BY SameLocks
<1>2. CASE v \notin VariantLocks(r)
  <2>1. Moved(r, v)' = 0 /\ Seen(r, v)' = reserved'[v]
    <3>1. Units(txn[r].order, txn[r].done, v)' = {}
      BY <1>2, <1>1 DEF Units, VariantLocks, Locking
    <3> QED
      BY <1>1, <1>2, <3>1, FS_EmptySet DEF Moved, Seen
  <2> QED
    BY <2>1, StockType, StockAssumption DEF TypeOK
<1>3. CASE v \in VariantLocks(r)
  <2>1. Units(txn[r].order, txn[r].done, v)' = Units(txn[r].order, txn[r].done, v)
    BY DEF Units
  <2>2. Moved(r, v)' = Moved(r, v) /\ Seen(r, v)' = Seen(r, v) /\ reserved'[v] = reserved[v]
    BY <1>1, <1>3, <2>1 DEF Moved, Seen
  <2> QED
    BY <2>2 DEF CopyOK
<1> QED
  BY <1>2, <1>3

LEMMA FreshCopyNext ==
  ASSUME TypeOK', \A v \in Variants : reserved'[v] <= OnHand[v],
         NEW s \in Requests, txn'[s].op \notin Locking \/ txn'[s].done = {}
  PROVE  CopyOK(s)'
<1>1. CASE txn'[s].op \notin Locking
  BY <1>1 DEF CopyOK, Locking
<1>2. CASE txn'[s].op \in Locking /\ txn'[s].done = {}
  <2>1. VariantLocks(s)' = {}
    BY <1>2 DEF VariantLocks, Locking
  <2>2. \A v \in Variants : Units(txn[s].order, txn[s].done, v)' = {}
    BY <1>2 DEF Units
  <2>3. \A v \in Variants : Moved(s, v)' = 0 /\ Seen(s, v)' = reserved'[v]
    BY <2>1, <2>2, FS_EmptySet DEF Moved, Seen
  <2>4. \A v \in Variants : reserved'[v] \in Nat /\ OnHand[v] \in Nat
    BY StockAssumption DEF TypeOK
  <2> QED
    BY <2>3, <2>4 DEF CopyOK
<1> QED
  BY <1>1, <1>2

\* A step of one request that writes no row.
LEMMA QuietStep ==
  ASSUME StockInv, StateOK', NEW s \in Requests,
         \A r \in Requests \ {s} : txn'[r] = txn[r],
         UNCHANGED <<status, lines, reserved>>, CopyOK(s)'
  PROVE  StockInv'
<1>1. \A v \in Variants : Held(v)' = Held(v)
  BY DEF Held
<1>2. ReservationExact' /\ \A v \in Variants : reserved'[v] <= OnHand[v]
  BY <1>1 DEF StockInv, StockOK, ReservationExact
<1>3. ASSUME NEW r \in Requests PROVE CopyOK(r)'
  <2>1. CASE r = s
    BY <2>1
  <2>2. CASE r # s /\ txn[r].op \in Locking
    BY <1>2, <2>2, OtherCopy DEF StockInv, StockOK, StateOK
  <2>3. CASE r # s /\ txn[r].op \notin Locking
    BY <1>2, <2>3, FreshCopyNext DEF StateOK
  <2> QED
    BY <2>1, <2>2, <2>3
<1> QED
  BY <1>2, <1>3 DEF StockInv, StockOK

\* The same for steps that leave the request with nothing moved.
LEMMA FreshStep ==
  ASSUME StockInv, StateOK', NEW s \in Requests,
         \A r \in Requests \ {s} : txn'[r] = txn[r],
         UNCHANGED <<status, lines, reserved>>,
         txn'[s].op \notin Locking \/ txn'[s].done = {}
  PROVE  StockInv'
<1>1. CopyOK(s)'
  BY FreshCopyNext DEF StockInv, StockOK, StateOK
<1> QED
  BY <1>1, QuietStep

\* A line step moves the units of the line, in the copy and in the count.
LEMMA LineStep ==
  ASSUME StockInv, NEW s \in Requests, ConfirmLine(s) \/ CancelLine(s)
  PROVE  StockInv'
<1> DEFINE o == txn[s].order
           n == txn[s].want
           line == lines[o][n]
           w == line.variant
           stock == IF txn[s].op = "confirm" THEN Seen(s, w) + line.quantity
                                             ELSE Seen(s, w) - line.quantity
<1>1. /\ txn[s].op \in Locking /\ MoreLines(s) /\ VariantFree(s, Wanted(s))
      /\ UNCHANGED <<orderRow, reserved, price, trails, now>>
      /\ TakeLine(s, n, stock)
      /\ txn[s].op = "confirm" => OnHand[w] - Seen(s, w) >= line.quantity
      /\ txn[s].op = "cancel" => Seen(s, w) >= line.quantity
  BY DEF ConfirmLine, CancelLine, MayReserve, MayRelease, Locking
<1>2. /\ txn[s] \in Txns /\ o \in Orders /\ n \in DOMAIN lines[o] /\ n \notin txn[s].done
      /\ line \in Lines(Prices) /\ Wanted(s) = w
  BY <1>1, AtLine DEF StockInv
<1>3. w \in Variants /\ line.quantity \in Nat
  BY <1>2, BoundsAssumption DEF Lines
<1>4. \A v \in Variants : Seen(s, v) \in Nat /\ Moved(s, v) \in Nat
  BY SeenType, UnitsFinite DEF StockInv, StateOK, Moved
<1>5. stock \in Nat
  <2>1. Seen(s, w) \in Nat /\ txn[s].op \in {"confirm", "cancel"}
    BY <1>1, <1>3, <1>4 DEF Locking
  <2> HIDE DEF w, line
  <2> QED
    BY <1>1, <1>3, <2>1
<1> HIDE DEF stock
<1>6. /\ StateOK'
      /\ txn'[s].done = txn[s].done \union {n}
      /\ txn'[s].copy = [txn[s].copy EXCEPT ![w] = stock]
      /\ txn'[s].op = txn[s].op /\ txn'[s].order = o
  BY <1>1, <1>2, <1>5, TakeLineOK DEF StockInv
<1>7. \A r \in Requests \ {s} : txn'[r] = txn[r]
  BY <1>1 DEF TakeLine, StockInv, StateOK, TypeOK
<1>8. \A v \in Variants :
        Seen(s, v)' = IF v = w THEN stock ELSE Seen(s, v)
  <2>1. VariantLocks(s)' = VariantLocks(s) \union {w}
    <3>1. VariantLocks(s) = {lines[o][i].variant : i \in txn[s].done}
      BY <1>1 DEF VariantLocks, Locking
    <3>2. lines' = lines /\ txn'[s].op # "create"
      BY <1>1, <1>6 DEF Locking
    <3>3. VariantLocks(s)' = {lines[o][i].variant : i \in txn[s].done \union {n}}
      BY <1>6, <3>2 DEF VariantLocks
    <3> QED
      BY <3>1, <3>3
  <2>2. txn[s].copy \in [Variants -> Nat] /\ reserved' = reserved
    BY <1>1, <1>2 DEF Txns
  <2> QED
    BY <1>6, <2>1, <2>2 DEF Seen
<1>9. \A v \in Variants :
        Moved(s, v)' = Moved(s, v) + (IF v = w THEN line.quantity ELSE 0)
  <2> TAKE v \in Variants
  <2>1. Units(o, txn[s].done \union {n}, v) = Units(txn[s].order, txn[s].done, v)'
    BY <1>1, <1>6 DEF Units
  <2>2. Cardinality(Units(o, txn[s].done \union {n}, v)) =
          Cardinality(Units(o, txn[s].done, v)) + (IF w = v THEN line.quantity ELSE 0)
    BY <1>2, MoreUnits DEF StockInv, StateOK
  <2> QED
    BY <2>1, <2>2 DEF Moved
<1>10. CopyOK(s)'
  <2> SUFFICES ASSUME NEW v \in Variants
               PROVE  /\ txn'[s].op = "confirm" =>
                           /\ Seen(s, v)' = reserved'[v] + Moved(s, v)'
                           /\ Seen(s, v)' <= OnHand[v]
                      /\ txn'[s].op = "cancel" =>
                           Seen(s, v)' + Moved(s, v)' = reserved'[v]
    BY DEF CopyOK
  <2>1. /\ reserved' = reserved /\ reserved[v] \in Nat /\ OnHand[v] \in Nat
        /\ Seen(s, v) \in Nat /\ Moved(s, v) \in Nat /\ line.quantity \in Nat
    BY <1>1, <1>3, <1>4, StockType DEF StockInv, StateOK
  <2>2. /\ txn[s].op = "confirm" => /\ Seen(s, v) = reserved[v] + Moved(s, v)
                                    /\ Seen(s, v) <= OnHand[v]
        /\ txn[s].op = "cancel" => Seen(s, v) + Moved(s, v) = reserved[v]
    BY DEF StockInv, StockOK, CopyOK
  <2>3. /\ Seen(s, v)' = IF v = w THEN stock ELSE Seen(s, v)
        /\ Moved(s, v)' = Moved(s, v) + (IF v = w THEN line.quantity ELSE 0)
    BY <1>8, <1>9
  <2>4. /\ txn[s].op = "confirm" => stock = Seen(s, w) + line.quantity
        /\ txn[s].op = "cancel" => stock = Seen(s, w) - line.quantity
    BY DEF stock
  <2> HIDE DEF w, line
  <2>5. CASE v = w
    BY <1>1, <1>6, <2>1, <2>2, <2>3, <2>4, <2>5
  <2>6. CASE v # w
    BY <1>6, <2>1, <2>2, <2>3, <2>6
  <2> QED
    BY <2>5, <2>6
<1> QED
  BY <1>1, <1>6, <1>7, <1>10, QuietStep
-----------------------------------------------------------------------------
(* Commits. *)

\* Everything an order asks for: what it holds once it is live.
LEMMA LiveUnits ==
  ASSUME TypeOK, NEW o \in Orders, NEW v, status[o] \in Live
  PROVE  Units(o, DOMAIN lines[o], v) \subseteq Held(v)
BY DEF Units, Held, Places

\* Requests other than the committing one stay in order.
LEMMA OthersAfterCommit ==
  ASSUME StockInv, StateOK', NEW s \in Requests, Finish(s), Flush(s),
         txn[s].op \in Locking, UNCHANGED lines,
         \A v \in Variants : reserved'[v] <= OnHand[v]
  PROVE  \A r \in Requests : CopyOK(r)'
<1>1. txn'[s] = Idle /\ \A r \in Requests \ {s} : txn'[r] = txn[r]
  BY DEF Finish, StockInv, StateOK, TypeOK
<1>2. \A v \in Variants : v \notin VariantLocks(s) => reserved'[v] = reserved[v]
  BY NotMoved DEF Flush
<1>3. ASSUME NEW r \in Requests \ {s}, txn[r].op \in Locking PROVE CopyOK(r)'
  <2>1. \A v \in VariantLocks(r) : v \in Variants => reserved'[v] = reserved[v]
    BY <1>2 DEF StockInv, StateOK, Exclusive
  <2> QED
    BY <1>1, <1>3, <2>1, OtherCopy DEF StockInv, StockOK, StateOK
<1>4. ASSUME NEW r \in Requests, txn'[r].op \notin Locking PROVE CopyOK(r)'
  BY <1>4, FreshCopyNext DEF StateOK
<1>5. txn'[s].op \notin Locking
  BY <1>1 DEF Idle, Locking
<1> QED
  BY <1>1, <1>3, <1>4, <1>5

LEMMA ConfirmCommitStock ==
  ASSUME StockInv, NEW s \in Requests, ConfirmCommit(s)
  PROVE  StockInv'
<1> DEFINE o == txn[s].order
           D == DOMAIN lines[o]
<1>1. /\ txn[s].op = "confirm" /\ txn[s].pc = "lines" /\ txn[s].want = 0
      /\ Finish(s) /\ Flush(s) /\ lines' = lines
      /\ status' = [status EXCEPT ![o] = "CONFIRMED"]
  BY DEF ConfirmCommit, MoreLines
<1>2. o \in Orders /\ txn[s].done = D /\ status[o] = "WAITING_CONFIRMATION"
  BY <1>1 DEF StockInv, StateOK, RequestsOK, RequestOK, Locking
<1>3. StateOK'
  BY ConfirmCommitOK DEF StockInv
<1>4. ASSUME NEW v \in Variants
      PROVE  /\ reserved'[v] = reserved[v] + Cardinality(Units(o, D, v))
             /\ reserved'[v] <= OnHand[v]
  BY <1>1, <1>2 DEF Flush, StockInv, StockOK, CopyOK, Moved
<1>5. ASSUME NEW v \in Variants PROVE reserved'[v] = Cardinality(Held(v)')
  <2>1. Held(v)' = Held(v) \union Units(o, D, v)
    <3>1. \A p \in Orders : status'[p] \in Live <=> p = o \/ status[p] \in Live
      BY <1>1, <1>2 DEF StockInv, StateOK, TypeOK, Live
    <3> QED
      BY <1>1, <3>1 DEF Held, Units, Places
  <2>2. Held(v) \cap Units(o, D, v) = {}
    BY <1>2 DEF Held, Units, Live
  <2>3. Cardinality({}) = 0
    BY FS_EmptySet
  <2>4. Cardinality(Held(v)') = Cardinality(Held(v)) + Cardinality(Units(o, D, v))
    <3>1. /\ IsFiniteSet(Held(v)) /\ Cardinality(Held(v)) \in Nat
          /\ IsFiniteSet(Units(o, D, v)) /\ Cardinality(Units(o, D, v)) \in Nat
      BY HeldFinite, UnitsFinite
    <3>2. Cardinality(Held(v) \union Units(o, D, v)) =
            Cardinality(Held(v)) + Cardinality(Units(o, D, v)) - Cardinality({})
      BY <2>2, <3>1, FS_Union
    <3> QED
      BY <2>1, <2>3, <3>1, <3>2
  <2>5. reserved[v] = Cardinality(Held(v))
    BY DEF StockInv, StockOK, ReservationExact
  <2> QED
    BY <1>4, <2>4, <2>5
<1>6. \A r \in Requests : CopyOK(r)'
  BY <1>1, <1>3, <1>4, OthersAfterCommit DEF Locking
<1> QED
  BY <1>3, <1>4, <1>5, <1>6 DEF StockInv, StockOK, ReservationExact

LEMMA CancelCommitStock ==
  ASSUME StockInv, NEW s \in Requests, CancelCommit(s)
  PROVE  StockInv'
<1> DEFINE o == txn[s].order
           D == DOMAIN lines[o]
<1>1. /\ txn[s].op = "cancel" /\ txn[s].pc = "lines" /\ txn[s].want = 0
      /\ Finish(s) /\ Flush(s) /\ lines' = lines
      /\ status' = [status EXCEPT ![o] = "CANCELLED"]
  BY DEF CancelCommit, MoreLines
<1>2. /\ o \in Orders
      /\ status[o] \in Live => txn[s].done = D
      /\ status[o] \notin Live => txn[s].done = {}
  BY <1>1 DEF StockInv, StateOK, RequestsOK, RequestOK, Locking
<1>3. StateOK'
  BY CancelCommitOK DEF StockInv
<1>4. ASSUME NEW v \in Variants
      PROVE  /\ reserved'[v] + Cardinality(Units(o, txn[s].done, v)) = reserved[v]
             /\ reserved'[v] <= OnHand[v]
  <2>1. reserved'[v] + Cardinality(Units(o, txn[s].done, v)) = reserved[v]
    BY <1>1 DEF Flush, StockInv, StockOK, CopyOK, Moved
  <2>2. reserved[v] <= OnHand[v] /\ reserved'[v] \in Nat /\ OnHand[v] \in Nat
        /\ Cardinality(Units(o, txn[s].done, v)) \in Nat
    BY <1>3, UnitsFinite, StockAssumption DEF StockInv, StockOK, StateOK, TypeOK
  <2> QED
    BY <2>1, <2>2
<1>5. ASSUME NEW v \in Variants PROVE reserved'[v] = Cardinality(Held(v)')
  <2>0. reserved[v] = Cardinality(Held(v)) /\ reserved'[v] \in Nat
    BY <1>3 DEF StockInv, StockOK, ReservationExact, StateOK, TypeOK
  <2>a. \A p \in Orders : status'[p] \in Live <=> p # o /\ status[p] \in Live
    BY <1>1, <1>2 DEF StockInv, StateOK, TypeOK, Live
  <2>1. CASE status[o] \in Live
    <3>1. Held(v)' = Held(v) \ Units(o, D, v)
      BY <1>1, <2>a DEF Held, Units, Places
    <3>2. Held(v) \cap Units(o, D, v) = Units(o, D, v)
      BY <1>2, <2>1, LiveUnits DEF StockInv, StateOK
    <3>3. /\ IsFiniteSet(Held(v)) /\ Cardinality(Held(v)) \in Nat
          /\ Cardinality(Units(o, D, v)) \in Nat
      BY HeldFinite, UnitsFinite
    <3>4. Cardinality(Held(v)') = Cardinality(Held(v)) - Cardinality(Units(o, D, v))
      BY <3>1, <3>2, <3>3, FS_Difference
    <3> QED
      BY <1>2, <1>4, <2>0, <2>1, <3>3, <3>4
  <2>2. CASE status[o] \notin Live
    <3>1. Held(v)' = Held(v)
      BY <1>1, <2>a, <2>2 DEF Held
    <3>2. Units(o, txn[s].done, v) = {}
      BY <1>2, <2>2 DEF Units
    <3> QED
      BY <1>4, <2>0, <3>1, <3>2, FS_EmptySet
  <2> QED
    BY <2>1, <2>2
<1>6. \A r \in Requests : CopyOK(r)'
  BY <1>1, <1>3, <1>4, OthersAfterCommit DEF Locking
<1> QED
  BY <1>3, <1>4, <1>5, <1>6 DEF StockInv, StockOK, ReservationExact

\* A step that changes no stock and neither adds nor removes a live order.
LEMMA NeutralStep ==
  ASSUME StockInv, StateOK', UNCHANGED reserved,
         \A o \in Orders : /\ status'[o] \in Live <=> status[o] \in Live
                           /\ status[o] \in Live => lines'[o] = lines[o],
         \A r \in Requests : \/ txn'[r].op \notin Locking
                             \/ /\ txn'[r] = txn[r]
                                /\ lines'[txn[r].order] = lines[txn[r].order]
  PROVE  StockInv'
<1>1. \A v \in Variants : Held(v)' = Held(v)
  BY DEF Held
<1>2. ReservationExact' /\ \A v \in Variants : reserved'[v] <= OnHand[v]
  BY <1>1 DEF StockInv, StockOK, ReservationExact
<1>3. ASSUME NEW r \in Requests PROVE CopyOK(r)'
  <2>1. CASE txn'[r].op \notin Locking
    BY <1>2, <2>1, FreshCopyNext DEF StateOK
  <2>2. CASE txn'[r].op \in Locking
    BY <1>2, <2>2, OtherCopy DEF StockInv, StockOK, StateOK
  <2> QED
    BY <2>1, <2>2
<1> QED
  BY <1>2, <1>3 DEF StockInv, StockOK

LEMMA CreateCommitStock ==
  ASSUME StockInv, NEW s \in Requests, CreateCommit(s)
  PROVE  StockInv'
<1> DEFINE o == txn[s].order
<1>1. /\ txn[s].op = "create" /\ Finish(s) /\ reserved' = reserved
      /\ status' = [status EXCEPT ![o] = "DRAFT"]
      /\ lines' = [lines EXCEPT ![o] = txn[s].draft]
  BY DEF CreateCommit
<1>2. o \in Orders /\ status[o] = "ABSENT"
  BY <1>1 DEF StockInv, StateOK, RequestsOK, RequestOK
<1>3. StateOK'
  BY CreateCommitOK DEF StockInv
<1>4. \A p \in Orders : /\ status'[p] \in Live <=> status[p] \in Live
                        /\ status[p] \in Live => lines'[p] = lines[p]
  BY <1>1, <1>2 DEF StockInv, StateOK, TypeOK, Live
<1>5. ASSUME NEW r \in Requests, txn'[r].op \in Locking
      PROVE  txn'[r] = txn[r] /\ lines'[txn[r].order] = lines[txn[r].order]
  <2>1. r # s /\ txn'[r] = txn[r]
    BY <1>1, <1>5 DEF Finish, Idle, Locking, StockInv, StateOK, TypeOK
  <2>2. txn[r].order \in Orders /\ txn[r].order # o
    BY <1>2, <1>5, <2>1 DEF StockInv, StateOK, RequestsOK, RequestOK, Locking
  <2> QED
    BY <1>1, <2>1, <2>2 DEF StockInv, StateOK, TypeOK
<1> QED
  BY <1>1, <1>3, <1>4, <1>5, NeutralStep

LEMMA TransitionStock ==
  ASSUME StockInv, NEW s \in Requests, Transition(s)
  PROVE  StockInv'
<1> DEFINE o == txn[s].order
<1>1. /\ txn[s].op = "transition" /\ Finish(s) /\ UNCHANGED <<lines, reserved>>
      /\ status' = [status EXCEPT ![o] = txn[s].target]
      /\ Allowed(status[o]) = txn[s].target
  BY DEF Transition, MayTransition
<1>2. o \in Orders /\ txn[s].target \in Targets
  BY <1>1 DEF StockInv, StateOK, RequestsOK, RequestOK
<1>3. status[o] \in Live /\ txn[s].target \in Live
  BY <1>1, <1>2 DEF Allowed, Targets, Live
<1>4. \A p \in Orders : status'[p] \in Live <=> status[p] \in Live
  BY <1>1, <1>3 DEF StockInv, StateOK, TypeOK
<1>5. \A r \in Requests : txn'[r].op \notin Locking \/ txn'[r] = txn[r]
  BY <1>1 DEF Finish, Idle, Locking, StockInv, StateOK, TypeOK
<1>6. StateOK'
  BY TransitionOK DEF StockInv
<1> QED
  BY <1>1, <1>4, <1>5, <1>6, NeutralStep

\* Reserved stock stays exact and within the stock there is, in every step.
LEMMA NextStock == StockInv /\ [Next]_vars => StockInv'
<1> SUFFICES ASSUME StockInv, [Next]_vars PROVE StockInv'
  OBVIOUS
<1>0. StateOK'
  BY NextOK DEF StockInv
<1>1. ASSUME NEW s \in Requests, Begin(s) PROVE StockInv'
  <2>1. /\ UNCHANGED <<status, lines, reserved>>
        /\ \A r \in Requests \ {s} : txn'[r] = txn[r]
    BY <1>1 DEF Begin, BeginCreate, BeginConfirm, BeginStaff, StockInv, StateOK, TypeOK
  <2>2. txn'[s].done = {}
    <3>1. txn \in [Requests -> Txns]
      BY DEF StockInv, StateOK, TypeOK
    <3>2. ASSUME NEW o \in Orders, NEW c \in Carts, BeginCreate(s, o, c)
          PROVE  txn'[s].done = {}
      BY <3>1, <3>2 DEF BeginCreate, Idle
    <3>3. ASSUME NEW o \in Orders, NEW k \in Keys, BeginConfirm(s, o, k)
          PROVE  txn'[s].done = {}
      BY <3>1, <3>3 DEF BeginConfirm, Idle
    <3>4. ASSUME NEW o \in Orders, NEW op, NEW t, BeginStaff(s, o, op, t)
          PROVE  txn'[s].done = {}
      BY <3>1, <3>4 DEF BeginStaff, Idle
    <3> QED
      BY <1>1, <3>2, <3>3, <3>4 DEF Begin
  <2> QED
    BY <1>0, <2>1, <2>2, FreshStep
<1>2. ASSUME NEW s \in Requests, Rollback(s) PROVE StockInv'
  <2>1. /\ UNCHANGED <<status, lines, reserved>> /\ txn'[s].done = {}
        /\ \A r \in Requests \ {s} : txn'[r] = txn[r]
    BY <1>2 DEF Rollback, Finish, Idle, StockInv, StateOK, TypeOK
  <2> QED
    BY <1>0, <2>1, FreshStep
<1>3. ASSUME NEW s \in Requests, CreateLine(s) PROVE StockInv'
  <2>1. /\ UNCHANGED <<status, lines, reserved>>
        /\ \A r \in Requests \ {s} : txn'[r] = txn[r]
        /\ txn'[s].op = "create"
    BY <1>3 DEF CreateLine, StockInv, StateOK, TypeOK, Txns
  <2> QED
    BY <1>0, <2>1, FreshStep DEF Locking
<1>4. ASSUME NEW s \in Requests, ConfirmLock(s) \/ CancelLock(s) PROVE StockInv'
  <2>1. txn[s].done = {}
    BY <1>4 DEF ConfirmLock, CancelLock, StockInv, StateOK, RequestsOK, RequestOK, Locking
  <2>2. /\ UNCHANGED <<status, lines, reserved>>
        /\ \A r \in Requests \ {s} : txn'[r] = txn[r]
        /\ txn'[s].done = txn[s].done
    BY <1>4 DEF ConfirmLock, CancelLock, StockInv, StateOK, TypeOK, Txns
  <2> QED
    BY <1>0, <2>1, <2>2, FreshStep
<1>5. ASSUME NEW s \in Requests, Progress(s) PROVE StockInv'
  BY <1>2, <1>3, <1>4, <1>5, CreateCommitStock, LineStep, ConfirmCommitStock,
     TransitionStock, CancelCommitStock DEF Progress, Replay, Refuse
<1>6. ASSUME NEW s \in Requests, Abort(s) \/ DeadlockVictim(s) PROVE StockInv'
  BY <1>2, <1>6 DEF Abort, DeadlockVictim
<1>7. ASSUME NEW o \in Orders, NEW fee \in Fees, Quote(o, fee) PROVE StockInv'
  <2>1. /\ UNCHANGED <<lines, reserved, txn>> /\ status[o] \notin Live
        /\ status' = [status EXCEPT ![o] = "WAITING_CONFIRMATION"]
    BY <1>7 DEF Quote, Quotable, Live
  <2>2. \A p \in Orders : status'[p] \in Live <=> status[p] \in Live
    BY <2>1 DEF Live, StockInv, StateOK, TypeOK
  <2> QED
    BY <1>0, <2>1, <2>2, NeutralStep
<1>8. CASE (\E v \in Variants, p \in Prices : EditPrice(v, p)) \/ Tick \/ UNCHANGED vars
  <2>1. UNCHANGED <<status, lines, reserved, txn>>
    BY <1>8 DEF EditPrice, Tick, vars
  <2> QED
    BY <1>0, <2>1, NeutralStep
<1> QED
  BY <1>1, <1>5, <1>6, <1>7, <1>8 DEF Next

LEMMA StockInvariant == Spec => []StockInv
BY InitStock, NextStock, PTL DEF Spec

\* stock_reserved is exactly the units that live orders hold, for any number
\* of concurrent creations, confirmations, transitions and cancellations.
THEOREM ReservationCorrect == Spec => []ReservationExact
<1>1. StockInv => ReservationExact
  BY DEF StockInv, StockOK
<1> QED
  BY <1>1, StockInvariant, PTL

\* Confirmation never oversells (PRD ORD-03), for every stock and cart.
THEOREM NeverOversold == Spec => []NoOversell
<1>1. StockInv => NoOversell
  BY DEF StockInv, StockOK, ReservationExact, NoOversell
<1> QED
  BY <1>1, StockInvariant, PTL

\* cancel_order never answers "Reserved stock is inconsistent": whatever a
\* cancellation is about to give back is still part of stock_reserved.
THEOREM CancelConsistent == Spec => []CancelNeverInconsistent
<1>1. StockInv => CancelNeverInconsistent
  <2> SUFFICES ASSUME StockInv, NEW s \in Requests, txn[s].op = "cancel", MoreLines(s)
               PROVE  Seen(s, Wanted(s)) >= lines[txn[s].order][txn[s].want].quantity
    BY DEF CancelNeverInconsistent
  <2> DEFINE o == txn[s].order
             n == txn[s].want
             w == lines[o][n].variant
             q == lines[o][n].quantity
             D == txn[s].done
  <2>1. /\ o \in Orders /\ n \in DOMAIN lines[o] /\ n \notin D
        /\ D \subseteq DOMAIN lines[o] /\ status[o] \in Live
        /\ lines[o][n] \in Lines(Prices) /\ Wanted(s) = w
    BY AtLine DEF StockInv, Locking
  <2>2. w \in Variants /\ q \in Nat
    BY <2>1, BoundsAssumption DEF Lines
  <2>3. Cardinality(Units(o, D \union {n}, w)) = Cardinality(Units(o, D, w)) + q
    BY <2>1, MoreUnits DEF StockInv, StateOK
  <2>4. Units(o, D \union {n}, w) \subseteq Held(w)
    BY <2>1 DEF Units, Held, Places
  <2>5. Cardinality(Units(o, D \union {n}, w)) <= Cardinality(Held(w))
    BY <2>4, HeldFinite, FS_Subset
  <2>6. Seen(s, w) + Cardinality(Units(o, D, w)) = Cardinality(Held(w))
    BY <2>2 DEF StockInv, StockOK, CopyOK, ReservationExact, Moved
  <2>7. Seen(s, w) \in Nat /\ Cardinality(Units(o, D, w)) \in Nat
        /\ Cardinality(Held(w)) \in Nat
    BY <2>2, SeenType, UnitsFinite, HeldFinite DEF StockInv, StateOK
  <2> HIDE DEF w, q, D
  <2>8. Seen(s, w) >= q
    BY <2>2, <2>3, <2>5, <2>6, <2>7
  <2> QED
    BY <2>1, <2>8 DEF q
<1> QED
  BY <1>1, StockInvariant, PTL
-----------------------------------------------------------------------------
(***************************************************************************)
(* Requests, row locks and session copies implement the ledger: every step *)
(* of Commerce is one step of OrderLedger or leaves its variables alone.   *)
(***************************************************************************)

LEMMA SameCardinality == ASSUME NEW S PROVE Ledger!Cardinality(S) = Cardinality(S)
BY DEF Ledger!Cardinality, Cardinality

\* What the ledger calls the demand of an order, as units in their places.
LEMMA DemandUnits ==
  ASSUME TypeOK, NEW o \in Orders, NEW v
  PROVE  Ledger!Demand(o, v) = Cardinality(Units(o, DOMAIN lines[o], v))
<1> DEFINE D == {u \in (DOMAIN lines[o]) \X (1..MaxQuantity) :
                   lines[o][u[1]].variant = v /\ u[2] <= lines[o][u[1]].quantity}
           U == Units(o, DOMAIN lines[o], v)
           f == [u \in U |-> <<u[2], u[3]>>]
<1>1. DOMAIN lines[o] \subseteq 1..MaxLines
  <2>1. lines[o] \in Seq(Lines(Prices)) /\ Len(lines[o]) <= MaxLines
    BY DEF TypeOK
  <2> QED
    BY <2>1, BoundsAssumption
<1>2. \A u \in U : /\ u = <<u[1], u[2], u[3]>> /\ u[1] = o /\ u[2] \in DOMAIN lines[o]
                   /\ u[3] \in 1..MaxQuantity
                   /\ lines[o][u[2]].variant = v /\ u[3] <= lines[o][u[2]].quantity
  BY DEF Units, Places
<1>3. f \in [U -> D]
  BY <1>2
<1>4. \A x, y \in U : f[x] = f[y] => x = y
  <2> SUFFICES ASSUME NEW x \in U, NEW y \in U, f[x] = f[y] PROVE x = y
    OBVIOUS
  <2>1. <<x[2], x[3]>> = <<y[2], y[3]>>
    OBVIOUS
  <2>2. x[2] = y[2] /\ x[3] = y[3]
    BY <2>1
  <2> QED
    BY <1>2, <2>2
<1>5. ASSUME NEW d \in D PROVE \E u \in U : f[u] = d
  <2> DEFINE u == <<o, d[1], d[2]>>
  <2>1. u \in U
    BY <1>1 DEF Units, Places
  <2>2. f[u] = d
    BY <2>1
  <2> QED
    BY <2>1, <2>2
<1>6. f \in Bijection(U, D)
  BY <1>3, <1>4, <1>5 DEF Bijection, Injection, Surjection, IsInjective
<1>7. IsFiniteSet(U)
  BY UnitsFinite
<1>8. Cardinality(U) = Cardinality(D)
  BY <1>6, <1>7, FS_Bijection DEF ExistsBijection
<1> QED
  BY <1>8, SameCardinality DEF Ledger!Demand

LEMMA InitLedger == Init => Ledger!Init
BY DEF Init, Ledger!Init

LEMMA PlaceStep ==
  ASSUME StockInv, NEW s \in Requests, CreateCommit(s)
  PROVE  Ledger!Next
<1>1. PICK o \in Orders : o = txn[s].order /\ status[o] = "ABSENT"
  BY DEF StockInv, StateOK, RequestsOK, RequestOK, CreateCommit
<1>2. /\ status' = [status EXCEPT ![o] = "DRAFT"]
      /\ lines' = [lines EXCEPT ![o] = txn[s].draft]
      /\ UNCHANGED reserved
      /\ txn[s].op = "create" /\ ~MoreLines(s)
  BY <1>1 DEF CreateCommit
<1>3. txn[s].draft # <<>>
  <2>1. /\ txn[s].pc = "lines" /\ txn[s].cart \in Carts
        /\ txn[s].draft \in Seq(Lines(Prices))
    BY <1>2 DEF StockInv, StateOK, RequestsOK, RequestOK, TypeOK, Txns
  <2>2. Len(txn[s].cart) \in 1..MaxLines /\ Len(txn[s].draft) \in Nat
    BY <2>1, CartsAssumption
  <2>3. ~(Len(txn[s].draft) < Len(txn[s].cart))
    BY <1>2, <2>1 DEF MoreLines
  <2>4. Len(txn[s].draft) # 0
    BY <2>2, <2>3, BoundsAssumption
  <2> QED
    BY <2>4
<1>4. lines'[o] # <<>> /\ \A p \in Orders \ {o} : lines'[p] = lines[p]
  BY <1>2, <1>3 DEF StockInv, StateOK, TypeOK
<1>5. Ledger!Place(o)
  BY <1>1, <1>2, <1>4 DEF Ledger!Place, Ledger!Move
<1> QED
  BY <1>5 DEF Ledger!Next

LEMMA OfferStep ==
  ASSUME StockInv, NEW o \in Orders, NEW fee \in Fees, Quote(o, fee)
  PROVE  Ledger!Next
<1>1. Ledger!Offer(o)
  BY DEF Quote, Quotable, Ledger!Offer, Ledger!Move
<1> QED
  BY <1>1 DEF Ledger!Next

\* All units of the order, each counted once, and no more than there are.
LEMMA ReserveStep ==
  ASSUME StockInv, NEW s \in Requests, ConfirmCommit(s)
  PROVE  Ledger!Next
<1>1. PICK o \in Orders :
        /\ o = txn[s].order /\ status[o] = "WAITING_CONFIRMATION"
        /\ txn[s].done = DOMAIN lines[o]
  BY DEF StockInv, StateOK, RequestsOK, RequestOK, Locking, ConfirmCommit, MoreLines
<1>2. /\ txn[s].op = "confirm" /\ lines' = lines
      /\ status' = [status EXCEPT ![o] = "CONFIRMED"]
      /\ reserved' = [v \in Variants |-> Seen(s, v)]
  BY <1>1 DEF ConfirmCommit, Flush
<1>3. ASSUME NEW v \in Variants
      PROVE  /\ Seen(s, v) = reserved[v] + Ledger!Demand(o, v)
             /\ reserved[v] + Ledger!Demand(o, v) <= OnHand[v]
  <2>1. Moved(s, v) = Ledger!Demand(o, v)
    BY <1>1, DemandUnits DEF Moved, StockInv, StateOK
  <2> QED
    BY <1>2, <2>1 DEF StockInv, StockOK, CopyOK
<1>4. reserved' = [v \in Variants |-> reserved[v] + Ledger!Demand(o, v)]
  BY <1>2, <1>3
<1>5. Ledger!Reserve(o)
  BY <1>1, <1>2, <1>3, <1>4 DEF Ledger!Reserve, Ledger!Move
<1> QED
  BY <1>5 DEF Ledger!Next

LEMMA AdvanceStep ==
  ASSUME StockInv, NEW s \in Requests, Transition(s)
  PROVE  Ledger!Next
<1>1. PICK o \in Orders : o = txn[s].order /\ txn[s].target \in Targets
  BY DEF StockInv, StateOK, RequestsOK, RequestOK, Transition
<1>2. /\ UNCHANGED <<lines, reserved>> /\ Allowed(status[o]) = txn[s].target
      /\ status' = [status EXCEPT ![o] = txn[s].target]
  BY <1>1 DEF Transition, MayTransition
<1>3. \/ status[o] = "CONFIRMED" /\ txn[s].target = "PREPARING"
      \/ status[o] = "PREPARING" /\ txn[s].target = "READY_FOR_DELIVERY"
  BY <1>1, <1>2 DEF Allowed, Targets
<1>4. Ledger!Advance(o)
  BY <1>2, <1>3 DEF Ledger!Advance, Ledger!Move
<1> QED
  BY <1>4 DEF Ledger!Next

LEMMA ReleaseStep ==
  ASSUME StockInv, NEW s \in Requests, CancelCommit(s)
  PROVE  Ledger!Next
<1>1. PICK o \in Orders :
        /\ o = txn[s].order /\ status[o] \in Cancellable
        /\ status[o] \in Live => txn[s].done = DOMAIN lines[o]
        /\ status[o] \notin Live => txn[s].done = {}
  BY DEF StockInv, StateOK, RequestsOK, RequestOK, Locking, CancelCommit, MoreLines
<1>2. /\ txn[s].op = "cancel" /\ lines' = lines
      /\ status' = [status EXCEPT ![o] = "CANCELLED"]
      /\ reserved' = [v \in Variants |-> Seen(s, v)]
  BY <1>1 DEF CancelCommit, Flush
<1>3. CASE status[o] \in Live
  <2>1. ASSUME NEW v \in Variants PROVE Seen(s, v) = reserved[v] - Ledger!Demand(o, v)
    <3>1. Moved(s, v) = Ledger!Demand(o, v)
      BY <1>1, <1>3, DemandUnits DEF Moved, StockInv, StateOK
    <3>2. Seen(s, v) + Moved(s, v) = reserved[v]
      BY <1>2 DEF StockInv, StockOK, CopyOK
    <3>3. Seen(s, v) \in Nat /\ Moved(s, v) \in Nat
      BY SeenType, UnitsFinite DEF Moved, StockInv, StateOK
    <3> QED
      BY <3>1, <3>2, <3>3
  <2>2. reserved' = [v \in Variants |-> reserved[v] - Ledger!Demand(o, v)]
    BY <1>2, <2>1
  <2>3. Ledger!Release(o)
    BY <1>2, <1>3, <2>2 DEF Ledger!Release, Ledger!Live, Ledger!Move, Live
  <2> QED
    BY <2>3 DEF Ledger!Next
<1>4. CASE status[o] \notin Live
  <2>1. ASSUME NEW v \in Variants PROVE Seen(s, v) = reserved[v]
    <3>1. v \notin VariantLocks(s)
      BY <1>1, <1>2, <1>4, EmptyDone DEF Locking
    <3> QED
      BY <3>1 DEF Seen
  <2>2. reserved' = reserved
    BY <1>2, <2>1 DEF StockInv, StateOK, TypeOK
  <2>3. status[o] \in {"DRAFT", "WAITING_CONFIRMATION"}
    BY <1>1, <1>4 DEF Cancellable
  <2>4. Ledger!Withdraw(o)
    BY <1>2, <2>2, <2>3 DEF Ledger!Withdraw, Ledger!Move
  <2> QED
    BY <2>4 DEF Ledger!Next
<1> QED
  BY <1>3, <1>4

\* Each step is a step of the ledger, or one it does not see.
LEMMA StepLedger == StockInv /\ [Next]_vars => [Ledger!Next]_<<status, lines, reserved>>
<1> SUFFICES ASSUME StockInv, [Next]_vars
             PROVE  Ledger!Next \/ UNCHANGED <<status, lines, reserved>>
  OBVIOUS
<1>1. ASSUME NEW s \in Requests,
             \/ Begin(s) \/ Rollback(s) \/ CreateLine(s) \/ ConfirmLock(s)
             \/ ConfirmLine(s) \/ CancelLock(s) \/ CancelLine(s)
      PROVE  UNCHANGED <<status, lines, reserved>>
  BY <1>1 DEF Begin, BeginCreate, BeginConfirm, BeginStaff, Rollback, CreateLine,
              ConfirmLock, ConfirmLine, CancelLock, CancelLine
<1>2. CASE Tick \/ (\E v \in Variants, p \in Prices : EditPrice(v, p)) \/ UNCHANGED vars
  BY <1>2 DEF Tick, EditPrice, vars
<1>3. ASSUME NEW s \in Requests, Progress(s)
      PROVE  Ledger!Next \/ UNCHANGED <<status, lines, reserved>>
  BY <1>1, <1>3, PlaceStep, ReserveStep, AdvanceStep, ReleaseStep
     DEF Progress, Replay, Refuse
<1> QED
  BY <1>1, <1>2, <1>3, OfferStep DEF Next, Abort, DeadlockVictim

\* Seen from outside, an order takes all of its units at one instant, only when
\* all are there, and gives all of them back at one instant, however the items
\* of concurrent requests interleave (confirm_order and cancel_order).
THEOREM RequestsImplementLedger == Spec => ImplementsLedger
<1>1. Init => Ledger!Init
  BY InitLedger
<1>2. StockInv /\ [Next]_vars => [Ledger!Next]_(Ledger!ledger)
  BY StepLedger DEF Ledger!ledger
<1>3. Spec => []StockInv
  BY StockInvariant
<1>4. Spec => Ledger!Spec
  BY <1>1, <1>2, <1>3, PTL DEF Spec, Ledger!Spec
<1> QED
  BY <1>4 DEF ImplementsLedger
=============================================================================
