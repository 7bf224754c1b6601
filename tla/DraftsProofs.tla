----------------------------- MODULE DraftsProofs -----------------------------
(***************************************************************************)
(* Proofs about Drafts, for every number of requests and administrators    *)
(* and whatever the language model claims: what a draft says held at some  *)
(* moment since it was asked for, of a count with a separator its last     *)
(* group, its answer is on record, and no SKU is added twice.              *)
(***************************************************************************)
EXTENDS Drafts, FiniteSetTheorems, SequenceTheorems, TLAPS

Drafted == [kind : {"price", "stock"}, digits : Nat, point : Int]
Loaded  == UNION {[D -> Rows] : D \in SUBSET Nat}
Stages  == {"idle", "begun", "products", "asked", "replied", "committed"}
Status  == {"none", "completed", "failed"}
Request == [pc : Stages, loaded : Loaded, known : SUBSET Facts, draft : SUBSET Drafted,
            status : Status, stored : Status, answer : {"none", "200", "500", "503"}]
Add     == [pc : {"idle", "new", "inserted"}, sku : Skus \union {None}]

ShapeOK ==
  /\ catalogue \in Seq(Rows) /\ edits \in 0..MaxEdits
  /\ add \in [Admins -> Add]
  /\ req \in [Requests -> Request]
  /\ held \in [Requests -> SUBSET Facts]

SkusOf(rows) == {rows[i].sku : i \in DOMAIN rows}

\* The unique index on SKU, and the inserts that wait for a commit.
IndexOK ==
  /\ \A i, j \in DOMAIN catalogue : catalogue[i].sku = catalogue[j].sku => i = j
  /\ \A a \in Admins : add[a].pc = "inserted" =>
       /\ add[a].sku \notin SkusOf(catalogue)
       /\ \A b \in Admins \ {a} : add[b].pc = "inserted" => add[a].sku # add[b].sku
  /\ \A a \in Admins : add[a].pc # "idle" => add[a].sku \in Skus

\* What a request knows, has loaded or has drafted held since it began.
GroundedIn(x, h, rows) ==
  /\ x.pc # "idle" => \A i \in DOMAIN rows : FactsOf({rows[i]}) \subseteq h
  /\ \A i \in DOMAIN x.loaded : FactsOf({x.loaded[i]}) \subseteq h
  /\ x.known \subseteq h
  /\ \A c \in x.draft : \E f \in h : Certain(c, f)
  /\ x.pc = "idle" => x.loaded = <<>> /\ x.known = {} /\ x.draft = {}

\* And how its row of ai_runs and its answer agree.
RecordedOK(x) ==
  /\ x.pc \in {"replied", "committed"} => x.status \in {"completed", "failed"}
  /\ x.pc = "committed" => x.stored = x.status
  /\ x.pc # "idle" => x.answer = "none"
  /\ x.answer = "200" => x.stored = "completed"
  /\ x.answer = "503" => x.stored = "failed"

GroundOK == \A r \in Requests : GroundedIn(req[r], held[r], catalogue) /\ RecordedOK(req[r])

Inv == ShapeOK /\ IndexOK /\ GroundOK
-----------------------------------------------------------------------------
LEMMA Amounting == Prices \subseteq Nat /\ Stocks \subseteq Nat /\ \A f \in Facts : f.amount \in Nat
  BY AmountsAssumption DEF Facts

LEMMA FactsOfRow ==
  ASSUME NEW v \in Rows
  PROVE  FactsOf({v}) \in SUBSET Facts
<1>1. v.price \in Prices /\ v.stock \in Stocks
  BY DEF Rows
<1> QED
  BY <1>1 DEF FactsOf, Facts

\* The facts of some rows are the facts of each of them.
LEMMA FactsOfRows ==
  ASSUME NEW S, NEW h, \A v \in S : FactsOf({v}) \subseteq h
  PROVE  FactsOf(S) \subseteq h
BY DEF FactsOf

LEMMA FactsGrow ==
  ASSUME NEW S, NEW v \in S
  PROVE  FactsOf({v}) \subseteq FactsOf(S)
BY DEF FactsOf

LEMMA NoneLoaded == <<>> \in Loaded /\ DOMAIN <<>> = {}
<1>1. <<>> \in Seq(Rows) /\ Len(<<>>) = 0
  BY EmptySeq
<1>2. <<>> \in [1..0 -> Rows]
  BY <1>1, LenProperties
<1>3. 1..0 \in SUBSET Nat /\ DOMAIN <<>> = {}
  OBVIOUS
<1>4. <<>> \in UNION {[D -> Rows] : D \in SUBSET Nat}
  BY <1>2, <1>3
<1> QED
  BY <1>3, <1>4 DEF Loaded

LEMMA NoDraftType == NoDraft \in Request
  BY NoneLoaded DEF NoDraft, Request, Stages, Status

Reprice(c, m, p) == [c EXCEPT !.digits = m, !.point = p]

LEMMA Repriced ==
  ASSUME NEW c \in Drafted, NEW m \in Nat, NEW p \in Int
  PROVE  /\ Reprice(c, m, p) \in Drafted
         /\ LET d == Reprice(c, m, p) IN d.kind = c.kind /\ d.digits = m /\ d.point = p
<1> DEFINE d == Reprice(c, m, p)
<1>1. d \in Drafted
  BY DEF Drafted, Reprice
<1>2. d.kind = c.kind /\ d.digits = m /\ d.point = p
  BY DEF Drafted, Reprice
<1> QED
  BY <1>1, <1>2

\* normalize_transactional_claims: each claim of a normalised reply, read as a
\* customer reads it, is one of the facts it was checked against; of a
\* count with a separator the last group is.
LEMMA NormalizedSays ==
  ASSUME NEW reply \in SUBSET Claims, NEW known \in SUBSET Facts
  PROVE  /\ Normalized(reply, known) \in SUBSET Drafted
         /\ \A c \in Normalized(reply, known) : \E f \in known : Certain(c, f)
<1> SUFFICES ASSUME NEW c \in reply, Supported(c, known)
             PROVE  /\ Rewritten(c, known) \in Drafted
                    /\ \E f \in known : Certain(Rewritten(c, known), f)
  BY DEF Normalized
<1>1. c \in [kind : {"price", "stock"}, digits : Nat, point : Nat \union {NoPoint}]
  BY ClaimsAssumption
<1>2. CASE c.kind = "price"
  <2> DEFINE m == Minor(c, known)  d == Reprice(c, m, 3)
  <2>1. PICK f \in known : f.kind = "price" /\ f.amount = m
    BY <1>2 DEF Supported, Amounts
  <2>2. m \in Nat
    BY <2>1, Amounting
  <2>3. Rewritten(c, known) = d
    BY <1>2 DEF Rewritten, Reprice
  <2> HIDE DEF m
  <2>4. c \in Drafted
    BY <1>1 DEF Drafted, NoPoint
  <2>5. d \in Drafted /\ d.kind = "price" /\ d.digits = m /\ d.point = 3
    BY <1>2, <2>2, <2>4, Repriced
  <2> HIDE DEF d
  <2>6. d.digits * 1000 = f.amount * 10^3
    <3>1. 10^3 = 1000
      OBVIOUS
    <3> QED
      BY <2>1, <2>5, <3>1
  <2>7. Certain(d, f)
    BY <2>1, <2>5, <2>6 DEF Certain, Grouped, Says, NoPoint
  <2> QED
    BY <2>1, <2>3, <2>5, <2>7
<1>3. CASE c.kind # "price"
  <2>1. Rewritten(c, known) = c /\ c.kind = "stock"
    BY <1>1, <1>3 DEF Rewritten
  <2>2. c \in Drafted
    BY <1>1 DEF Drafted, NoPoint
  <2>3. PICK f \in known : f.kind = "stock" /\ f.amount = Found(c)
    BY <1>3 DEF Supported, Amounts
  <2>4. Certain(c, f)
    BY <2>1, <2>3 DEF Certain, Grouped, Says, Found
  <2> QED
    BY <2>1, <2>2, <2>4
<1> QED
  BY <1>2, <1>3
-----------------------------------------------------------------------------
LEMMA InitInv == Init => Inv
<1> SUFFICES ASSUME Init PROVE Inv
  OBVIOUS
<1>1. NoAdd \in Add /\ NoAdd.pc = "idle"
  BY DEF NoAdd, Add
<1>2. catalogue = <<>> /\ catalogue \in Seq(Rows) /\ DOMAIN catalogue = {}
  BY EmptySeq, NoneLoaded DEF Init
<1>3. edits \in 0..MaxEdits
  BY BoundsAssumption DEF Init
<1>4. ShapeOK
  BY <1>1, <1>2, <1>3, NoDraftType DEF Init, ShapeOK
<1>5. IndexOK
  BY <1>1, <1>2 DEF Init, IndexOK
<1>6. GroundOK
  BY NoneLoaded DEF Init, GroundOK, GroundedIn, RecordedOK, NoDraft
<1> QED
  BY <1>4, <1>5, <1>6 DEF Inv

\* What a request does to itself and to what it has witnessed.
LEMMA DraftStep ==
  ASSUME Inv, NEW r \in Requests, NEW x \in Request, NEW h \in SUBSET Facts,
         req' = [req EXCEPT ![r] = x], held' = [held EXCEPT ![r] = h],
         UNCHANGED <<catalogue, add, edits>>,
         GroundedIn(x, h, catalogue), RecordedOK(x)
  PROVE  Inv'
<1>1. /\ req' \in [Requests -> Request] /\ req'[r] = x
      /\ held' \in [Requests -> SUBSET Facts] /\ held'[r] = h
      /\ \A q \in Requests \ {r} : req'[q] = req[q] /\ held'[q] = held[q]
  BY DEF Inv, ShapeOK
<1>2. ShapeOK'
  BY <1>1 DEF Inv, ShapeOK
<1>3. IndexOK'
  BY DEF Inv, IndexOK
<1>4. ASSUME NEW q \in Requests
      PROVE  GroundedIn(req'[q], held'[q], catalogue') /\ RecordedOK(req'[q])
  <2>1. CASE q = r
    BY <1>1, <2>1
  <2>2. CASE q # r
    BY <1>1, <2>2 DEF Inv, GroundOK
  <2> QED
    BY <2>1, <2>2
<1>5. GroundOK'
  BY <1>4 DEF GroundOK
<1> QED
  BY <1>2, <1>3, <1>5 DEF Inv

LEMMA SameHeld ==
  ASSUME Inv, NEW r \in Requests
  PROVE  /\ req[r] \in Request /\ held[r] \in SUBSET Facts
         /\ held = [held EXCEPT ![r] = held[r]]
         /\ GroundedIn(req[r], held[r], catalogue) /\ RecordedOK(req[r])
         /\ catalogue \in Seq(Rows) /\ DOMAIN catalogue \subseteq Nat
         /\ \A i \in DOMAIN catalogue : catalogue[i] \in Rows
<1>1. catalogue \in Seq(Rows)
  BY DEF Inv, ShapeOK
<1> QED
  BY <1>1 DEF Inv, ShapeOK, GroundOK

LEMMA BeginInv ==
  ASSUME Inv, NEW r \in Requests, Begin(r) PROVE Inv'
<1> DEFINE x == [NoDraft EXCEPT !.pc = "begun"]
           S == {catalogue[i] : i \in DOMAIN catalogue}
           h == FactsOf(S)
<1>1. x \in Request /\ x.pc = "begun" /\ x.loaded = <<>> /\ x.known = {} /\ x.draft = {}
      /\ x.answer = "none"
  BY NoDraftType DEF NoDraft, Request, Stages
<1>2. h \in SUBSET Facts
  <2>1. \A v \in S : FactsOf({v}) \subseteq Facts
    BY SameHeld, FactsOfRow
  <2> QED
    BY <2>1, FactsOfRows
<1>3. \A i \in DOMAIN catalogue : FactsOf({catalogue[i]}) \subseteq h
  BY FactsGrow
<1>4. req' = [req EXCEPT ![r] = x] /\ held' = [held EXCEPT ![r] = h]
      /\ UNCHANGED <<catalogue, add, edits>>
  BY DEF Begin
<1> HIDE DEF x, h
<1>5. GroundedIn(x, h, catalogue) /\ RecordedOK(x)
  BY <1>1, <1>3, NoneLoaded DEF GroundedIn, RecordedOK
<1> QED
  BY <1>1, <1>2, <1>4, <1>5, DraftStep

\* The end of a request: all it knew is forgotten.
LEMMA EndInv ==
  ASSUME Inv, NEW r \in Requests, NEW x \in Request, x.pc = "idle", x.loaded = <<>>,
         x.known = {}, x.draft = {}, x.answer = "200" => x.stored = "completed",
         x.answer = "503" => x.stored = "failed",
         req' = [req EXCEPT ![r] = x],
         held' = [held EXCEPT ![r] = {}], UNCHANGED <<catalogue, add, edits>>
  PROVE  Inv'
<1>1. GroundedIn(x, {}, catalogue) /\ RecordedOK(x)
  BY NoneLoaded DEF GroundedIn, RecordedOK
<1> QED
  BY <1>1, DraftStep

LEMMA ReadProductsInv ==
  ASSUME Inv, NEW r \in Requests, ReadProducts(r) PROVE Inv'
<1> DEFINE q == req[r]
           D == {j \in DOMAIN catalogue : catalogue[j].listed}
           l == [i \in D |-> catalogue[i]]
           x == [q EXCEPT !.pc = "products", !.loaded = l]
<1>1. q \in Request /\ q.pc = "begun" /\ GroundedIn(q, held[r], catalogue) /\ RecordedOK(q)
  BY SameHeld DEF ReadProducts
<1>2. l \in Loaded
  <2>1. D \in SUBSET Nat /\ l \in [D -> Rows]
    BY SameHeld
  <2> HIDE DEF D, l
  <2> QED
    BY <2>1 DEF Loaded
<1>3. DOMAIN l \subseteq DOMAIN catalogue /\ \A i \in DOMAIN l : l[i] = catalogue[i]
  OBVIOUS
<1>4. req' = [req EXCEPT ![r] = x] /\ UNCHANGED <<catalogue, add, held, edits>>
  BY SameHeld DEF ReadProducts, Inv, ShapeOK
<1> HIDE DEF q, l
<1>5. /\ x \in Request /\ x.pc = "products" /\ x.loaded = l
      /\ x.known = q.known /\ x.draft = q.draft /\ x.answer = q.answer /\ x.stored = q.stored
  BY <1>1, <1>2 DEF Request, Stages
<1> HIDE DEF x
<1>6. GroundedIn(x, held[r], catalogue) /\ RecordedOK(x)
  BY <1>1, <1>3, <1>5 DEF GroundedIn, RecordedOK
<1> QED
  BY <1>4, <1>5, <1>6, SameHeld, DraftStep

LEMMA ReadVariantsInv ==
  ASSUME Inv, NEW r \in Requests, ReadVariants(r) PROVE Inv'
<1> DEFINE q == req[r]
           active == {i \in DOMAIN catalogue : catalogue[i].active}
           row(i) == IF i \in DOMAIN q.loaded THEN q.loaded[i] ELSE catalogue[i]
           S == {row(i) : i \in active}
           k == FactsOf(S)
           x == [q EXCEPT !.pc = "asked", !.loaded = <<>>, !.known = k]
<1>1. q \in Request /\ q.pc = "products" /\ GroundedIn(q, held[r], catalogue) /\ RecordedOK(q)
  BY SameHeld DEF ReadVariants
<1>2. k \subseteq held[r]
  <2>1. ASSUME NEW i \in active PROVE FactsOf({row(i)}) \subseteq held[r]
    BY <1>1 DEF GroundedIn
  <2>2. \A v \in S : FactsOf({v}) \subseteq held[r]
    BY <2>1
  <2> HIDE DEF S
  <2> QED
    BY <2>2, FactsOfRows
<1>3. req' = [req EXCEPT ![r] = x] /\ UNCHANGED <<catalogue, add, held, edits>>
  BY DEF ReadVariants, Inv, ShapeOK
<1> HIDE DEF q, k
<1>4. /\ x \in Request /\ x.pc = "asked" /\ x.loaded = <<>>
      /\ x.known = k /\ x.draft = q.draft /\ x.answer = q.answer /\ x.stored = q.stored
  BY <1>1, <1>2, SameHeld, NoneLoaded DEF Request, Stages
<1> HIDE DEF x
<1>5. GroundedIn(x, held[r], catalogue) /\ RecordedOK(x)
  BY <1>1, <1>2, <1>4, NoneLoaded DEF GroundedIn, RecordedOK
<1> QED
  BY <1>3, <1>4, <1>5, SameHeld, DraftStep

\* Whatever the model replies, its claims are checked against what is known.
LEMMA RepliedInv ==
  ASSUME Inv, NEW r \in Requests, Replied(r) PROVE Inv'
<1>1. PICK n \in 0..MaxClaims : \E reply \in kSubset(n, Claims) :
        req' = [req EXCEPT ![r].pc = "replied", ![r].status = "completed",
                  ![r].draft = Normalized(reply, req[r].known), ![r].known = {}]
  BY DEF Replied
<1>2. PICK reply \in SUBSET Claims :
        req' = [req EXCEPT ![r].pc = "replied", ![r].status = "completed",
                  ![r].draft = Normalized(reply, req[r].known), ![r].known = {}]
  BY <1>1 DEF kSubset
<1> DEFINE q == req[r]
           d == Normalized(reply, q.known)
           x == [q EXCEPT !.pc = "replied", !.status = "completed", !.draft = d, !.known = {}]
<1>3. q \in Request /\ q.pc = "asked" /\ GroundedIn(q, held[r], catalogue) /\ RecordedOK(q)
  BY SameHeld DEF Replied
<1>4. q.known \in SUBSET Facts /\ q.known \subseteq held[r]
  BY <1>3 DEF Request, GroundedIn
<1>5. req' = [req EXCEPT ![r] = x] /\ UNCHANGED <<catalogue, add, held, edits>>
  BY <1>2 DEF Replied, Inv, ShapeOK
<1> HIDE DEF q
<1>6. d \in SUBSET Drafted /\ \A c \in d : \E f \in held[r] : Certain(c, f)
  BY <1>4, NormalizedSays
<1> HIDE DEF d
<1>7. /\ x \in Request /\ x.pc = "replied" /\ x.loaded = q.loaded
      /\ x.known = {} /\ x.draft = d /\ x.answer = q.answer /\ x.stored = q.stored
      /\ x.status = "completed"
  BY <1>3, <1>6 DEF Request, Stages, Status
<1> HIDE DEF x
<1>8. GroundedIn(x, held[r], catalogue) /\ RecordedOK(x)
  BY <1>3, <1>6, <1>7 DEF GroundedIn, RecordedOK
<1> QED
  BY <1>5, <1>7, <1>8, SameHeld, DraftStep

LEMMA FailedInv ==
  ASSUME Inv, NEW r \in Requests, Failed(r) PROVE Inv'
<1> DEFINE q == req[r]
           x == [q EXCEPT !.pc = "replied", !.status = "failed", !.known = {}]
<1>1. q \in Request /\ q.pc = "asked" /\ GroundedIn(q, held[r], catalogue) /\ RecordedOK(q)
  BY SameHeld DEF Failed
<1>2. req' = [req EXCEPT ![r] = x] /\ UNCHANGED <<catalogue, add, held, edits>>
  BY DEF Failed, Inv, ShapeOK
<1> HIDE DEF q
<1>3. /\ x \in Request /\ x.pc = "replied" /\ x.loaded = q.loaded
      /\ x.known = {} /\ x.draft = q.draft /\ x.answer = q.answer /\ x.stored = q.stored
      /\ x.status = "failed"
  BY <1>1 DEF Request, Stages, Status
<1> HIDE DEF x
<1>4. GroundedIn(x, held[r], catalogue) /\ RecordedOK(x)
  BY <1>1, <1>3 DEF GroundedIn, RecordedOK
<1> QED
  BY <1>2, <1>3, <1>4, SameHeld, DraftStep

LEMMA CommitInv ==
  ASSUME Inv, NEW r \in Requests, Commit(r) PROVE Inv'
<1> DEFINE q == req[r]
           x == [q EXCEPT !.pc = "committed", !.stored = q.status]
<1>1. q \in Request /\ q.pc = "replied" /\ GroundedIn(q, held[r], catalogue) /\ RecordedOK(q)
  BY SameHeld DEF Commit
<1>2. req' = [req EXCEPT ![r] = x] /\ UNCHANGED <<catalogue, add, held, edits>>
  BY DEF Commit, Inv, ShapeOK
<1> HIDE DEF q
<1>3. /\ x \in Request /\ x.pc = "committed" /\ x.loaded = q.loaded /\ x.known = q.known
      /\ x.draft = q.draft /\ x.answer = q.answer /\ x.stored = q.status /\ x.status = q.status
  BY <1>1 DEF Request, Stages
<1> HIDE DEF x
<1>4. GroundedIn(x, held[r], catalogue) /\ RecordedOK(x)
  BY <1>1, <1>3 DEF GroundedIn, RecordedOK
<1> QED
  BY <1>2, <1>3, <1>4, SameHeld, DraftStep

LEMMA StopInv ==
  ASSUME Inv, NEW r \in Requests, Malformed(r) \/ Answer(r) \/ Abort(r) PROVE Inv'
<1>1. req[r] \in Request /\ RecordedOK(req[r])
  BY SameHeld
<1>2. req[r].stored \in Status
  BY <1>1 DEF Request
<1>3. CASE Malformed(r)
  <2> DEFINE x == [NoDraft EXCEPT !.answer = "500"]
  <2>1. /\ x \in Request /\ x.pc = "idle" /\ x.loaded = <<>> /\ x.known = {} /\ x.draft = {}
        /\ x.answer = "500"
    BY NoDraftType DEF NoDraft, Request
  <2>2. /\ req' = [req EXCEPT ![r] = x] /\ held' = [held EXCEPT ![r] = {}]
        /\ UNCHANGED <<catalogue, add, edits>>
    BY <1>3 DEF Malformed
  <2> HIDE DEF x
  <2> QED
    BY <2>1, <2>2, EndInv
<1>4. CASE Answer(r)
  <2> DEFINE a == IF req[r].status = "completed" THEN "200" ELSE "503"
             x == [NoDraft EXCEPT !.stored = req[r].stored, !.answer = a]
  <2>1. /\ x \in Request /\ x.pc = "idle" /\ x.loaded = <<>> /\ x.known = {} /\ x.draft = {}
        /\ x.answer = a /\ x.stored = req[r].stored
    BY <1>2, NoDraftType DEF NoDraft, Request
  <2>2. /\ req[r].pc = "committed" /\ req' = [req EXCEPT ![r] = x]
        /\ held' = [held EXCEPT ![r] = {}] /\ UNCHANGED <<catalogue, add, edits>>
    BY <1>4 DEF Answer
  <2>3. /\ a = "200" => req[r].stored = "completed"
        /\ a = "503" => req[r].stored = "failed"
    BY <1>1, <2>2 DEF RecordedOK
  <2> HIDE DEF x
  <2> QED
    BY <2>1, <2>2, <2>3, EndInv
<1>5. CASE Abort(r)
  <2> DEFINE x == [NoDraft EXCEPT !.stored = req[r].stored]
  <2>1. /\ x \in Request /\ x.pc = "idle" /\ x.loaded = <<>> /\ x.known = {} /\ x.draft = {}
        /\ x.answer = "none"
    BY <1>2, NoDraftType DEF NoDraft, Request
  <2>2. /\ req' = [req EXCEPT ![r] = x] /\ held' = [held EXCEPT ![r] = {}]
        /\ UNCHANGED <<catalogue, add, edits>>
    BY <1>5 DEF Abort
  <2> HIDE DEF x
  <2> QED
    BY <2>1, <2>2, EndInv
<1> QED
  BY <1>3, <1>4, <1>5
-----------------------------------------------------------------------------
(* The catalogue. *)

LEMMA AddStep ==
  ASSUME Inv, NEW a \in Admins, NEW y \in Add, add' = [add EXCEPT ![a] = y],
         UNCHANGED <<catalogue, req, held, edits>>,
         y.pc # "idle" => y.sku \in Skus,
         y.pc = "inserted" =>
           /\ y.sku \notin SkusOf(catalogue)
           /\ \A b \in Admins \ {a} : add[b].pc = "inserted" => y.sku # add[b].sku
  PROVE  Inv'
<1>1. /\ add' \in [Admins -> Add] /\ add'[a] = y
      /\ \A b \in Admins \ {a} : add'[b] = add[b]
  BY DEF Inv, ShapeOK
<1>2. ShapeOK'
  <2>1. SkusOf(catalogue) \subseteq Skus
    <3>1. catalogue \in Seq(Rows)
      BY DEF Inv, ShapeOK
    <3>2. \A i \in DOMAIN catalogue : catalogue[i] \in Rows
      BY <3>1
    <3> QED
      BY <3>2 DEF SkusOf, Rows
  <2> QED
    BY <1>1, <2>1 DEF Inv, ShapeOK
<1>3. ASSUME NEW b \in Admins, add'[b].pc = "inserted"
      PROVE  /\ add'[b].sku \notin SkusOf(catalogue)
             /\ \A d \in Admins \ {b} : add'[d].pc = "inserted" => add'[b].sku # add'[d].sku
  <2>1. CASE b = a
    BY <1>1, <1>3, <2>1
  <2>2. CASE b # a
    BY <1>1, <1>3, <2>2 DEF Inv, IndexOK
  <2> QED
    BY <2>1, <2>2
<1>4. \A b \in Admins : add'[b].pc # "idle" => add'[b].sku \in Skus
  BY <1>1 DEF Inv, IndexOK
<1>5. IndexOK'
  BY <1>3, <1>4 DEF Inv, IndexOK
<1>6. GroundOK'
  BY DEF Inv, GroundOK
<1> QED
  BY <1>2, <1>5, <1>6 DEF Inv

LEMMA AddInv ==
  ASSUME Inv, NEW a \in Admins, Submit(a) \/ Insert(a) \/ Conflict(a) \/ NotAdded(a)
  PROVE  Inv'
<1>1. add[a] \in Add /\ NoAdd \in Add /\ NoAdd.pc = "idle" /\ add \in [Admins -> Add]
  BY DEF Inv, ShapeOK, NoAdd, Add
<1>2. add[a].pc # "idle" => add[a].sku \in Skus
  BY DEF Inv, IndexOK
<1>3. Taken(a) <=> add[a].sku \in SkusOf(catalogue)
  BY DEF Taken, SkusOf
<1>4. CASE Submit(a)
  <2>1. PICK s \in Skus : add' = [add EXCEPT ![a] = [pc |-> "new", sku |-> s]]
    BY <1>4 DEF Submit
  <2> DEFINE y == [pc |-> "new", sku |-> s]
  <2>2. y \in Add /\ y.pc = "new" /\ y.sku \in Skus
    BY DEF Add
  <2> HIDE DEF y
  <2>3. add' = [add EXCEPT ![a] = y] /\ UNCHANGED <<catalogue, req, held, edits>>
    BY <1>4, <2>1 DEF Submit, y
  <2> QED
    BY <1>2, <2>2, <2>3, AddStep
<1>5. CASE Insert(a)
  <2> DEFINE y == [add[a] EXCEPT !.pc = "inserted"]
  <2>1. y \in Add /\ y.pc = "inserted" /\ y.sku = add[a].sku
    BY <1>1 DEF Add
  <2>2. add' = [add EXCEPT ![a] = y] /\ UNCHANGED <<catalogue, req, held, edits>>
        /\ add[a].pc = "new"
    BY <1>1, <1>5 DEF Insert
  <2> HIDE DEF y
  <2>3. \A b \in Admins \ {a} : add[b].pc = "inserted" => y.sku # add[b].sku
    BY <1>5, <2>1 DEF Insert, IndexFree
  <2>4. y.sku \in Skus /\ y.sku \notin SkusOf(catalogue)
    BY <1>2, <1>3, <1>5, <2>1, <2>2 DEF Insert
  <2> QED
    BY <1>2, <2>1, <2>2, <2>3, <2>4, AddStep
<1>6. CASE Conflict(a)
  <2>1. add' = [add EXCEPT ![a] = NoAdd] /\ UNCHANGED <<catalogue, req, held, edits>>
    BY <1>6 DEF Conflict
  <2> QED
    BY <1>1, <2>1, AddStep
<1>7. CASE NotAdded(a)
  <2>1. add' = [add EXCEPT ![a] = NoAdd] /\ UNCHANGED <<catalogue, req, held, edits>>
    BY <1>7 DEF NotAdded
  <2> QED
    BY <1>1, <1>2, <2>1, AddStep
<1> QED
  BY <1>4, <1>5, <1>6, <1>7

\* A row that appears is witnessed by the requests in progress.
LEMMA Witnessed ==
  ASSUME Inv, NEW v \in Rows, Witness(v), UNCHANGED req,
         \A i \in DOMAIN catalogue' :
           catalogue'[i] = v \/ (i \in DOMAIN catalogue /\ catalogue'[i] = catalogue[i])
  PROVE  GroundOK' /\ held' \in [Requests -> SUBSET Facts]
<1> DEFINE F == FactsOf({v})
<1>1. F \in SUBSET Facts
  BY FactsOfRow
<1>2. held' = [r \in Requests |-> IF req[r].pc = "idle" THEN {} ELSE held[r] \union F]
  BY DEF Witness
<1> HIDE DEF F
<1>3. held' \in [Requests -> SUBSET Facts]
  BY <1>1, <1>2 DEF Inv, ShapeOK
<1>4. ASSUME NEW r \in Requests
      PROVE  GroundedIn(req[r], held'[r], catalogue') /\ RecordedOK(req[r])
  <2>1. GroundedIn(req[r], held[r], catalogue) /\ RecordedOK(req[r])
    BY DEF Inv, GroundOK
  <2>2. CASE req[r].pc = "idle"
    BY <2>1, <2>2, NoneLoaded DEF GroundedIn
  <2>3. CASE req[r].pc # "idle"
    <3>1. held'[r] = held[r] \union F
      BY <1>2, <2>3
    <3>2. ASSUME NEW i \in DOMAIN catalogue' PROVE FactsOf({catalogue'[i]}) \subseteq held'[r]
      <4>1. CASE catalogue'[i] = v
        BY <3>1, <4>1 DEF F
      <4>2. CASE i \in DOMAIN catalogue /\ catalogue'[i] = catalogue[i]
        BY <2>1, <2>3, <3>1, <4>2 DEF GroundedIn
      <4> QED
        BY <4>1, <4>2
    <3>3. \A i \in DOMAIN req[r].loaded : FactsOf({req[r].loaded[i]}) \subseteq held'[r]
      BY <2>1, <3>1 DEF GroundedIn
    <3>4. req[r].known \subseteq held'[r] /\ \A c \in req[r].draft : \E f \in held'[r] : Certain(c, f)
      BY <2>1, <3>1 DEF GroundedIn
    <3> QED
      BY <2>1, <2>3, <3>2, <3>3, <3>4 DEF GroundedIn
  <2> QED
    BY <2>2, <2>3
<1> QED
  BY <1>3, <1>4 DEF GroundOK

LEMMA AddedInv ==
  ASSUME Inv, NEW a \in Admins, Added(a) PROVE Inv'
<1>1. PICK v \in Rows : /\ v.sku = add[a].sku
                        /\ catalogue' = Append(catalogue, v) /\ Witness(v)
  BY DEF Added
<1>2. /\ add[a].pc = "inserted" /\ add' = [add EXCEPT ![a] = NoAdd]
      /\ UNCHANGED <<req, edits>>
  BY DEF Added
<1> DEFINE n == Len(catalogue) + 1
<1>3. catalogue \in Seq(Rows) /\ Len(catalogue) \in Nat /\ DOMAIN catalogue = 1..Len(catalogue)
  BY DEF Inv, ShapeOK
<1>4. /\ catalogue' \in Seq(Rows) /\ Len(catalogue') = n /\ catalogue'[n] = v
      /\ \A i \in 1..Len(catalogue) : catalogue'[i] = catalogue[i]
  BY <1>1, <1>3, AppendProperties
<1>5. DOMAIN catalogue' = 1..n
  BY <1>4
<1>6. /\ n \in DOMAIN catalogue' /\ n \notin DOMAIN catalogue
      /\ DOMAIN catalogue \subseteq DOMAIN catalogue'
      /\ \A i \in DOMAIN catalogue' : i \in DOMAIN catalogue \/ i = n
  BY <1>3, <1>5
<1> HIDE DEF n
<1>7. \A i \in DOMAIN catalogue : catalogue'[i] = catalogue[i]
  BY <1>3, <1>4
<1>8. GroundOK' /\ held' \in [Requests -> SUBSET Facts]
  BY <1>1, <1>2, <1>4, <1>6, <1>7, Witnessed
<1>9. /\ add' \in [Admins -> Add] /\ add'[a].pc = "idle"
      /\ \A b \in Admins \ {a} : add'[b] = add[b]
  BY <1>2 DEF Inv, ShapeOK, NoAdd, Add
<1>10. ShapeOK'
  BY <1>2, <1>4, <1>8, <1>9 DEF Inv, ShapeOK
<1>11. \A s : s \in SkusOf(catalogue') <=> s \in SkusOf(catalogue) \/ s = v.sku
  BY <1>4, <1>6, <1>7 DEF SkusOf
<1>12. v.sku \notin SkusOf(catalogue)
  BY <1>1, <1>2 DEF Inv, IndexOK
<1>13. IndexOK'
  <2>1. ASSUME NEW i \in DOMAIN catalogue', NEW j \in DOMAIN catalogue',
               catalogue'[i].sku = catalogue'[j].sku
        PROVE  i = j
    <3>1. \A k \in DOMAIN catalogue : catalogue[k].sku # v.sku
      BY <1>12 DEF SkusOf
    <3> QED
      BY <1>4, <1>6, <1>7, <2>1, <3>1 DEF Inv, IndexOK
  <2>2. ASSUME NEW b \in Admins, add'[b].pc = "inserted"
        PROVE  /\ add'[b].sku \notin SkusOf(catalogue')
               /\ \A d \in Admins \ {b} : add'[d].pc = "inserted" => add'[b].sku # add'[d].sku
    <3>1. b # a /\ add'[b] = add[b]
      BY <1>9, <2>2
    <3>2. add[b].sku # add[a].sku /\ add[b].sku \notin SkusOf(catalogue)
      BY <1>2, <2>2, <3>1 DEF Inv, IndexOK
    <3>3. \A d \in Admins \ {b} : add'[d].pc = "inserted" => d # a /\ add'[d] = add[d]
      BY <1>9
    <3> QED
      BY <1>1, <1>11, <2>2, <3>1, <3>2, <3>3 DEF Inv, IndexOK
  <2>3. \A b \in Admins : add'[b].pc # "idle" => add'[b].sku \in Skus
    BY <1>9 DEF Inv, IndexOK
  <2> QED
    BY <2>1, <2>2, <2>3 DEF IndexOK
<1> QED
  BY <1>8, <1>10, <1>13 DEF Inv

LEMMA EditInv ==
  ASSUME Inv, Edit PROVE Inv'
<1>1. PICK n \in DOMAIN catalogue, v \in Rows :
        /\ v.sku = catalogue[n].sku /\ catalogue' = [catalogue EXCEPT ![n] = v] /\ Witness(v)
  BY DEF Edit
<1>2. UNCHANGED <<req, add>> /\ edits' = edits + 1 /\ edits < MaxEdits
  BY DEF Edit
<1>3. catalogue \in Seq(Rows) /\ DOMAIN catalogue = 1..Len(catalogue)
  BY DEF Inv, ShapeOK
<1>4. /\ catalogue' \in Seq(Rows) /\ DOMAIN catalogue' = DOMAIN catalogue /\ catalogue'[n] = v
      /\ \A i \in DOMAIN catalogue \ {n} : catalogue'[i] = catalogue[i]
  BY <1>1, <1>3, ExceptSeq
<1>5. GroundOK' /\ held' \in [Requests -> SUBSET Facts]
  BY <1>1, <1>2, <1>4, Witnessed
<1>6. edits' \in 0..MaxEdits
  BY <1>2, BoundsAssumption DEF Inv, ShapeOK
<1>7. ShapeOK'
  BY <1>2, <1>4, <1>5, <1>6 DEF Inv, ShapeOK
<1>8. \A i \in DOMAIN catalogue : catalogue'[i].sku = catalogue[i].sku
  BY <1>1, <1>4
<1>9. SkusOf(catalogue') = SkusOf(catalogue)
  BY <1>4, <1>8 DEF SkusOf
<1>10. IndexOK'
  BY <1>2, <1>4, <1>8, <1>9 DEF Inv, IndexOK
<1> QED
  BY <1>5, <1>7, <1>10 DEF Inv

LEMMA NextInv == Inv /\ [Next]_vars => Inv'
<1> SUFFICES ASSUME Inv, [Next]_vars PROVE Inv'
  OBVIOUS
<1>1. CASE UNCHANGED vars
  BY <1>1 DEF vars, Inv, ShapeOK, IndexOK, GroundOK
<1>2. ASSUME NEW r \in Requests, Begin(r) \/ Draft(r) \/ Abort(r) PROVE Inv'
  BY <1>2, BeginInv, ReadProductsInv, ReadVariantsInv, RepliedInv, FailedInv, CommitInv, StopInv
     DEF Draft
<1>3. ASSUME NEW a \in Admins, Submit(a) \/ AddProduct(a) \/ NotAdded(a) PROVE Inv'
  BY <1>3, AddInv, AddedInv DEF AddProduct
<1> QED
  BY <1>1, <1>2, <1>3, EditInv DEF Next

LEMMA Invariant == Spec => []Inv
  BY InitInv, NextInv, PTL DEF Spec

\* The unique index of ProductVariant (models.py) keeps add_product of api.py
\* from adding a SKU twice, however many administrators add it at once.
THEOREM TypeCorrect == Spec => []TypeOK
<1>1. Inv => TypeOK
  <2> SUFFICES ASSUME Inv PROVE TypeOK
    OBVIOUS
  <2>1. ASSUME NEW r \in Requests
        PROVE  /\ DOMAIN req[r] = DOMAIN NoDraft
               /\ req[r].pc \in Stages
               /\ \A i \in DOMAIN req[r].loaded : req[r].loaded[i] \in Rows
               /\ req[r].known \subseteq Facts
               /\ req[r].draft \subseteq Drafted
               /\ {req[r].status, req[r].stored} \subseteq Status
               /\ req[r].answer \in {"none", "200", "500", "503"}
    <3>1. req[r] \in Request
      BY SameHeld
    <3>2. DOMAIN req[r] = DOMAIN NoDraft
      BY <3>1 DEF Request, NoDraft
    <3>3. PICK D \in SUBSET Nat : req[r].loaded \in [D -> Rows]
      BY <3>1 DEF Request, Loaded
    <3> QED
      BY <3>1, <3>2, <3>3 DEF Request
  <2> QED
    BY <2>1 DEF Inv, ShapeOK, IndexOK, TypeOK, Add, Stages, Drafted, Status
<1> QED
  BY <1>1, Invariant, PTL

\* generate_sales_draft of ai_service.py keeps a promise about a catalogue that
\* moves while the model thinks: each price of a draft, and each count without a
\* separator, as a customer reads it, was one of a variant since create_ai_draft
\* began; of a count with a separator its last group was.
THEOREM DraftsAreGrounded == Spec => []DraftIsGrounded
<1>1. Inv => DraftIsGrounded
  BY DEF Inv, GroundOK, GroundedIn, DraftIsGrounded
<1> QED
  BY <1>1, Invariant, PTL

\* create_ai_draft of api.py raises its 503 after the commit: what the page is
\* told of a draft, a failed one too, is what ai_runs has.
THEOREM AnswersAreOnRecord == Spec => []RunOnRecord
<1>1. Inv => RunOnRecord
  BY DEF Inv, GroundOK, RecordedOK, RunOnRecord
<1> QED
  BY <1>1, Invariant, PTL
=============================================================================
