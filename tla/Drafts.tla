-------------------------------- MODULE Drafts --------------------------------
(***************************************************************************)
(* What the assistant may tell a customer: create_ai_draft of api.py and   *)
(* generate_sales_draft of ai_service.py, over a catalogue that            *)
(* add_product and others change while the language model is thinking.     *)
(*                                                                         *)
(* A reply is the set of its claims that PRICE_CLAIM and STOCK_CLAIM find. *)
(* A claim has the digits of its number, and how many of them follow the   *)
(* last separator in it, NoPoint when there is none.                       *)
(***************************************************************************)
EXTENDS Integers, Sequences, FiniteSets, FiniteSetsExt

CONSTANTS Requests,           \* calls of create_ai_draft
          Admins,             \* calls of add_product
          Skus, Prices, Stocks,
          Claims,             \* what the model may claim
          None,
          MaxClaims, MaxRows, MaxEdits  \* bounds of the model

NoPoint == -1

ASSUME SetsAssumption == None \notin Skus
ASSUME AmountsAssumption == Prices \subseteq Nat /\ Stocks \subseteq Nat
ASSUME ClaimsAssumption ==
  /\ Claims \subseteq [kind : {"price", "stock"}, digits : Nat, point : Nat \union {NoPoint}]
  /\ \A c \in Claims : c.kind = "stock" => c.point # 0   \* \d+ is next to the noun
ASSUME BoundsAssumption == MaxClaims \in Nat /\ MaxRows \in Nat /\ MaxEdits \in Nat

VARIABLES
  catalogue,  \* product_variants, each with its product, in commit order
  req,        \* the last draft of each request
  add,        \* the products being added
  held,       \* the facts that held since each request in progress began
  edits       \* changes made to the catalogue so far

vars == <<catalogue, req, add, held, edits>>

\* listed: the product is active; active: the variant is.
Rows == [sku : Skus, price : Prices, stock : Stocks, listed : BOOLEAN, active : BOOLEAN]

\* known: the facts of the variants the session has read; stored, answer: the
\* row of ai_runs, and what the page got.
NoDraft == [pc |-> "idle", loaded |-> <<>>, known |-> {}, draft |-> {},
            status |-> "none", stored |-> "none", answer |-> "none"]
NoAdd == [pc |-> "idle", sku |-> None]

FactsOf(rows) == {[kind |-> "price", amount |-> v.price] : v \in rows}
                   \union {[kind |-> "stock", amount |-> v.stock] : v \in rows}

\* The requests in progress live through the facts of a new row.
Witness(v) ==
  held' = [r \in Requests |-> IF req[r].pc = "idle" THEN {}
                              ELSE held[r] \union FactsOf({v})]
-----------------------------------------------------------------------------
(* _claimed_minor and normalize_transactional_claims *)

Amounts(known, kind) == {f.amount : f \in {g \in known : g.kind = kind}}

\* The amount in millimes: an integer is a known price as it stands, or
\* dinars; int() cuts off what is less than a millime.
Minor(c, known) ==
  IF c.point # NoPoint THEN (c.digits * 1000) \div 10^c.point
  ELSE IF c.digits \in Amounts(known, "price") THEN c.digits ELSE c.digits * 1000

\* The number STOCK_CLAIM finds: of "1 000 pièces" or "1.000 articles" it is 000.
Found(c) == IF c.point = NoPoint THEN c.digits ELSE c.digits % 10^c.point

Supported(c, known) ==
  IF c.kind = "price" THEN Minor(c, known) \in Amounts(known, "price")
                      ELSE Found(c) \in Amounts(known, "stock")

AsClaimed(c, known) == c              \* mutant: the claim is checked, not rewritten

\* A price is written out as dinars with three decimals; a count stays as it is.
Rewritten(c, known) ==
  IF c.kind = "price" THEN [c EXCEPT !.digits = Minor(c, known), !.point = 3] ELSE c

\* One claim that is not supported, and the reply only says that a colleague
\* will answer.
Normalized(reply, known) ==
  IF \A c \in reply : Supported(c, known)
  THEN {Rewritten(c, known) : c \in reply} ELSE {}
-----------------------------------------------------------------------------
(* create_ai_draft.  Each statement sees what is committed when it runs, and *)
(* a row the session has loaded keeps the values it was loaded with.         *)

Begin(r) ==
  /\ req[r].pc = "idle"
  /\ req' = [req EXCEPT ![r] = [NoDraft EXCEPT !.pc = "begun"]]
  /\ held' = [held EXCEPT ![r] = FactsOf({catalogue[i] : i \in DOMAIN catalogue})]
  /\ UNCHANGED <<catalogue, add, edits>>

\* The active products, and with them all of their variants.
ReadProducts(r) ==
  /\ req[r].pc = "begun"
  /\ req' = [req EXCEPT ![r].pc = "products",
       ![r].loaded = [i \in {j \in DOMAIN catalogue : catalogue[j].listed}
                        |-> catalogue[i]]]
  /\ UNCHANGED <<catalogue, add, held, edits>>

\* The active variants, also those of other products.  They go into the
\* prompt; the claims are checked against the same objects later.
ReadVariants(r) ==
  LET loaded == req[r].loaded
      active == {i \in DOMAIN catalogue : catalogue[i].active} IN
  /\ req[r].pc = "products"
  /\ req' = [req EXCEPT ![r].pc = "asked", ![r].loaded = <<>>,
       ![r].known = FactsOf({IF i \in DOMAIN loaded THEN loaded[i]
                             ELSE catalogue[i] : i \in active})]
  /\ UNCHANGED <<catalogue, add, held, edits>>

\* complete: the model replies, whatever it likes, or fails (LLMProviderError),
\* at the latest when it has been silent for twenty seconds.
Replied(r) ==
  /\ req[r].pc = "asked"
  /\ \E n \in 0..MaxClaims : \E reply \in kSubset(n, Claims) :
       req' = [req EXCEPT ![r].pc = "replied", ![r].status = "completed",
                 ![r].draft = Normalized(reply, req[r].known), ![r].known = {}]
  /\ UNCHANGED <<catalogue, add, held, edits>>

Failed(r) ==
  /\ req[r].pc = "asked"
  /\ req' = [req EXCEPT ![r].pc = "replied", ![r].status = "failed", ![r].known = {}]
  /\ UNCHANGED <<catalogue, add, held, edits>>

\* An answer complete does not expect (no object, no message in it): an error
\* nobody handles, 500, and the run is rolled back.
Malformed(r) ==
  /\ req[r].pc = "asked"
  /\ req' = [req EXCEPT ![r] = [NoDraft EXCEPT !.answer = "500"]]
  /\ held' = [held EXCEPT ![r] = {}]
  /\ UNCHANGED <<catalogue, add, edits>>

CommitOrRefuse(r) ==                  \* mutant: a failed run raises before the commit
  /\ req[r].pc = "replied"
  /\ req' = [req EXCEPT ![r].pc = "committed",
       ![r].stored = IF req[r].status = "failed" THEN "none" ELSE "completed"]
  /\ UNCHANGED <<catalogue, add, held, edits>>

\* The run, its audit row and its event commit together.
Commit(r) ==
  /\ req[r].pc = "replied"
  /\ req' = [req EXCEPT ![r].pc = "committed", ![r].stored = req[r].status]
  /\ UNCHANGED <<catalogue, add, held, edits>>

Answer(r) ==
  /\ req[r].pc = "committed"
  /\ req' = [req EXCEPT ![r] =
       [NoDraft EXCEPT !.stored = req[r].stored,
          !.answer = IF req[r].status = "completed" THEN "200" ELSE "503"]]
  /\ held' = [held EXCEPT ![r] = {}]
  /\ UNCHANGED <<catalogue, add, edits>>

\* The process dies or the connection breaks; what is not committed is gone.
Abort(r) ==
  /\ req[r].pc # "idle"
  /\ req' = [req EXCEPT ![r] = [NoDraft EXCEPT !.stored = req[r].stored]]
  /\ held' = [held EXCEPT ![r] = {}]
  /\ UNCHANGED <<catalogue, add, edits>>
-----------------------------------------------------------------------------
(* add_product, and changes of the catalogue by others. *)

IndexIgnored(a) == TRUE               \* mutant: no unique index

\* The unique index on company and SKU makes an insert wait for another one
\* that has not committed.
IndexFree(a) ==
  \A b \in Admins \ {a} : ~(add[b].pc = "inserted" /\ add[b].sku = add[a].sku)

Taken(a) == add[a].sku \in {catalogue[i].sku : i \in DOMAIN catalogue}

Submit(a) ==
  /\ add[a].pc = "idle"
  /\ \E s \in Skus : add' = [add EXCEPT ![a] = [pc |-> "new", sku |-> s]]
  /\ UNCHANGED <<catalogue, req, held, edits>>

Insert(a) ==
  /\ add[a].pc = "new" /\ IndexFree(a) /\ ~Taken(a)
  /\ add' = [add EXCEPT ![a].pc = "inserted"]
  /\ UNCHANGED <<catalogue, req, held, edits>>

\* 409, SKU already exists.
Conflict(a) ==
  /\ add[a].pc = "new" /\ IndexFree(a) /\ Taken(a)
  /\ add' = [add EXCEPT ![a] = NoAdd]
  /\ UNCHANGED <<catalogue, req, held, edits>>

\* Product, variant, audit row and event commit together.
Added(a) ==
  /\ add[a].pc = "inserted" /\ Len(catalogue) < MaxRows
  /\ \E v \in Rows :
       /\ v.sku = add[a].sku /\ v.listed /\ v.active
       /\ catalogue' = Append(catalogue, v)
       /\ Witness(v)
  /\ add' = [add EXCEPT ![a] = NoAdd]
  /\ UNCHANGED <<req, edits>>

NotAdded(a) ==
  /\ add[a].pc # "idle"
  /\ add' = [add EXCEPT ![a] = NoAdd]
  /\ UNCHANGED <<catalogue, req, held, edits>>

\* Reservations change the stock; prices and flags change in the database.
Edit ==
  /\ edits < MaxEdits
  /\ edits' = edits + 1
  /\ \E i \in DOMAIN catalogue : \E v \in Rows :
       /\ v # catalogue[i] /\ v.sku = catalogue[i].sku
       /\ catalogue' = [catalogue EXCEPT ![i] = v]
       /\ Witness(v)
  /\ UNCHANGED <<req, add>>
-----------------------------------------------------------------------------
Init ==
  /\ catalogue = <<>>
  /\ req = [r \in Requests |-> NoDraft]
  /\ add = [a \in Admins |-> NoAdd]
  /\ held = [r \in Requests |-> {}]
  /\ edits = 0

Draft(r) == \/ ReadProducts(r) \/ ReadVariants(r)
            \/ Replied(r) \/ Failed(r) \/ Malformed(r)
            \/ Commit(r) \/ Answer(r)

AddProduct(a) == Insert(a) \/ Conflict(a) \/ Added(a)

Next ==
  \/ \E r \in Requests : Begin(r) \/ Draft(r) \/ Abort(r)
  \/ \E a \in Admins : Submit(a) \/ AddProduct(a) \/ NotAdded(a)
  \/ Edit

Spec == Init /\ [][Next]_vars
-----------------------------------------------------------------------------
(* Properties. *)

Facts == [kind : {"price", "stock"}, amount : Prices \union Stocks]

\* Every variable has its type, and no SKU is in the catalogue twice although
\* administrators add products at the same time (PRD CAT-01).
TypeOK ==
  /\ catalogue \in Seq(Rows)
  /\ \A i, j \in DOMAIN catalogue : catalogue[i].sku = catalogue[j].sku => i = j
  /\ add \in [Admins -> [pc : {"idle", "new", "inserted"}, sku : Skus \union {None}]]
  /\ held \in [Requests -> SUBSET Facts]
  /\ edits \in 0..MaxEdits
  /\ \A r \in Requests :
       /\ DOMAIN req[r] = DOMAIN NoDraft
       /\ req[r].pc \in {"idle", "begun", "products", "asked", "replied", "committed"}
       /\ \A i \in DOMAIN req[r].loaded : req[r].loaded[i] \in Rows
       /\ req[r].known \subseteq Facts
       /\ req[r].draft \subseteq [kind : {"price", "stock"}, digits : Nat, point : Int]
       /\ {req[r].status, req[r].stored} \subseteq {"none", "completed", "failed"}
       /\ req[r].answer \in {"none", "200", "500", "503"}

\* What a customer takes a claim for: a price of that many dinars, exactly; that
\* many pieces, where a separator groups thousands.
Says(c, f) ==
  /\ c.kind = f.kind
  /\ IF c.kind = "stock" THEN c.digits = f.amount
     ELSE c.digits * 1000 = f.amount * 10^(IF c.point = NoPoint THEN 0 ELSE c.point)

Grouped(c) == c.kind = "stock" /\ c.point # NoPoint

\* What is certain of a claim in a draft, if f is a fact: it says f; of a count
\* with a separator, which the code neither reads as a whole nor rewrites, only
\* that its last group is f.
Certain(c, f) == IF Grouped(c) THEN f.kind = "stock" /\ Found(c) = f.amount
                               ELSE Says(c, f)

\* Each price and stock a draft claims, read the way a customer reads it, was
\* the price or stock of a variant at some moment since the draft was asked for,
\* whatever the model replied and however the catalogue moved (PRD AI-01).  Not
\* so for a count with a separator: "1 000 pièces" passes when a variant has 0.
DraftIsGrounded ==
  \A r \in Requests : \A c \in req[r].draft : \E f \in held[r] : Certain(c, f)

\* What the page is told of a draft is on record in ai_runs: a completed run with
\* a 200, a failed one with the 503 of a provider that did not answer.
RunOnRecord ==
  \A r \in Requests :
    /\ req[r].answer = "200" => req[r].stored = "completed"
    /\ req[r].answer = "503" => req[r].stored = "failed"
=============================================================================
