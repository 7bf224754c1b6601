# AnyTech: verification project

AnyTech is a multi-tenant social-commerce console: staff of a company talk to
customers over WhatsApp, let an LLM draft replies, and turn conversations into
orders that are quoted, confirmed and delivered. The API is a FastAPI program
(`src/apps/api/app`) over PostgreSQL, with a Celery worker for messages to send
and an Angular console (`src/apps/web`).

This directory holds TLA+ modules of the parts of the program whose correctness
depends on the order in which things happen, TLC configurations that check them
on small instances, and proofs, for instances of any size, of every safety
invariant, action property and refinement that a passing run checks. Line numbers
below are of `src/apps/api/app` unless another path is given.

## 1. Inventory

| Component | State | Operations | What is hard about it | What makes it correct |
|---|---|---|---|---|
| Orders, quotes, stock (`services.py`, `api.py` 1123-1311) | `orders` with items and quotes, `product_variants.stock_reserved`, price, `order_status_history`, `audit_logs`, `realtime_events` | create, quote, confirm, move on, cancel | every request locks the order's row, then one variant after another, and waits in between; lock orders differ; it may fail after the first item | stock reserved is what live orders hold, nothing is oversold, trails and row agree, prices and quotes still hold at the commit, nobody waits for ever |
| Outbound messages (`api.py` 981-1055, `worker.py`, `integrations/whatsapp.py`) | `messages`, `outbox_events`, what the provider accepted | store a message and its outbox row, dispatch, crash | request retries that overlap, several workers, a worker that dies between the provider and its commit, timeouts that say nothing | no message lost, none sent twice but by a death, statuses honest |
| Webhook ingress (`api.py` 1330-1362) | `webhook_events`, `outbox_events` | receive, answer 202 | the provider delivers at least once, also concurrently | acknowledged means stored, once |
| Refresh sessions (`api.py` 123-161, 432-504; `dependencies.py`) | `auth_sessions`, cookies | login, refresh with rotation, reuse detection, logout | tabs share one cookie jar and race for one token | a family of tokens has one usable end |
| Web client session handling (`api-error.interceptor.ts`, `auth.service.ts`) | one shared refresh per tab, calls parked behind it | retry after 401 | parallel calls meet the same expired token; answers get lost | no false alarm of reuse, every call answered |
| Event stream (`events.py`, `api.py` 742-809; `dependencies.py` 27-64) | `realtime_events`, cursor, Last-Event-ID | emit, poll, reconnect, refuse | the stamp of an event is taken before its commit, polls are limited, connections break, a reconnection may be refused | in order, once, nothing stamped since the page connected skipped that could be seen |
| Database sessions, pool and event loop (`db.py`, async handlers) | connection pool, event loop | check out, commit, close, wait | a wait on the event loop stops everybody, also the holders of connections | everybody is answered, no connection is lost |
| Tenant isolation (`dependencies.py` 49-64, migrations) | `app.current_company_id` on a connection, row policies | set for a transaction | connections are shared; a commit ends the setting | no query under another request's company; what is committed is answered |
| Conversation mode (`api.py` 870-887, 1058-1120; `conversations-page.component.ts`) | `conversations`: mode, agent, version; what each inbox page lists and has selected | take over, give back, load and refresh the list | pages act on rows they read earlier; lists and answers arrive in any order or never; the answer is read after the commit | nobody undoes what they did not see, no agent loses a conversation to another, what a page shows is audited, buttons come back |
| AI drafts (`api.py` 926-978; `ai_service.py`; `integrations/llm.py`) | `ai_runs`, catalogue facts in a session | read facts, ask the model, check and rewrite its claims, store the run | the facts age while the model thinks, two queries read them, amounts have two readings | a draft claims only what held since it was asked for; what was answered is on record |
| Catalogue (`api.py` 831-864) | `products`, `product_variants` | add a product | two inserts of one SKU at once | a SKU is there once |
| Sandbox delivery provider (`integrations/delivery.py`) | shipments in memory | create, track, cancel | request keys | not modelled: no handler uses it |
| Read-only endpoints, company settings, middleware, other pages | none of their own | | single-step | not modelled |

Interactions. Orders, messages and the conversation mode write
`realtime_events` inside their own transactions; the stream reads them later.
A request uses one database session (`get_db`), which locks rows until it
commits or is closed. The worker shares only the database with the API. The
interceptor and the refresh handler share the cookies. The inbox learns of mode
changes from the event stream and loads its list again; drafts read the catalogue
that `add_product`, reservations and price edits write.

## 2. Modules

| Module | Models | Steps are |
|---|---|---|
| `Commerce` | orders, quotes and stock | one per lock or commit of a request |
| `OrderLedger` | what `Commerce` promises: whole orders reserve and release at once | one per order event |
| `MCCommerce` | instances of `Commerce` | |
| `CommerceProofs` | theorems about `Commerce`: types, trails, confirmations, prices | |
| `CommerceStockProofs` | theorems about `Commerce`: stock, and the refinement of `OrderLedger` | |
| `MessageOutbox` | messages, webhook receipts, outbox, dispatch tasks, the provider | one per insert, claim, send, commit |
| `MessageFate` | what `MessageOutbox` promises of a message: stored once, leaves while queued, sealed | one per change of its status, per copy, per death of a worker |
| `MessageOutboxProofs` | theorems about `MessageOutbox`, and the refinement of `MessageFate` | |
| `Sessions`, `MCSessions` | auth sessions, cookie jar, interceptor, logout | one per message between browser and API, and per lock and commit |
| `SessionsProofs` | theorems about `Sessions` | |
| `EventStream` | writers of events and one stream | one per stamp, commit, poll, event sent |
| `EventStreamProofs` | theorems about `EventStream` | |
| `DbSessions` | pool, event loop, company setting, row policies | one per checkout, commit, answer |
| `DbSessionsProofs` | theorems about `DbSessions` | |
| `Conversations` | takeover and return, the inbox pages, their lists and answers | one per lock, commit, query, answer, click |
| `ConversationsProofs` | theorems about `Conversations` | |
| `Drafts`, `MCDrafts` | drafts of the assistant over a catalogue that changes, `add_product` | one per query, provider answer, insert, commit |
| `DraftsProofs` | theorems about `Drafts` | |

Each component module has its state as variables, one action per handler or per
part of a handler between two points where others may run, an `Init` of the
empty tables, and `Spec`; liveness is checked of a `FairSpec`. Definitions
commented "mutant" are not part of a specification: each is a plausible mistake
in the definition next to it, kept to show that a property notices it.

### Commerce

A request (`txn[s]`) is one HTTP call with its session. `pc` is *waiting*
(for the order's row, `scoped_order` with FOR UPDATE) or *lines* (it holds that
row and locks the variants of its items one by one). `copy` is the session's
view of `stock_reserved`, read when a variant's row is locked and written to the
table at the commit; `Refuse`, `Abort` and `DeadlockVictim` roll back and drop
it. `done` are the items handled, `want` the one whose variant is asked for
next: items have no ORDER BY, so any order of them is possible. A lock is not a
variable: `OrderLocks` and `VariantLocks` say which rows a request holds.

| Code | Action |
|---|---|
| `add_order`, `create_order` | `BeginCreate`, `CreateLine` per item, `CreateCommit` |
| `add_quote`, `quote_order` | `Quote` (one row lock, hence one step) |
| `confirm`, `confirm_order` | `BeginConfirm` (looks the Idempotency-Key up), `Replay`, `ConfirmLock`, `ConfirmLine` per item, `ConfirmCommit` |
| `transition`, `transition_order` | `BeginStaff`, `Transition` |
| `cancel`, `cancel_order` | `BeginStaff`, `CancelLock`, `CancelLine` per item, `CancelCommit` |
| every raised `HTTPException`, `get_db` closing a session | `Refuse`, `Abort` |
| PostgreSQL's deadlock detector, price edits, the clock | `DeadlockVictim`, `EditPrice`, `Tick` (external) |

Left out because no property could tell: the 404s, `variant.version` (written,
never read), `active` (nothing switches it off), `total_minor` (the sum of the
items, which never change, plus delivery). A key used on another order is
refused at once and is no step. `seed_demo` runs in development only, and its
live orders hold no reservation: the specification starts from empty tables.

`ImplementsLedger` says that all this implements `OrderLedger`, in which an
order places, reserves and releases all its units in one step: the mapping is
the identity on `status`, `lines` and `reserved`, so every lock, copy and
rollback is a stutter and every commit is one step of the ledger.

### MessageOutbox

`Lookup`, `Insert`, `Conflict`, `Commit` are `create_outbound_message`: the
lookup of `client_message_id`, the flush that meets the unique index, and the
commit of message, outbox row (if the WhatsApp settings are there) and event.
`Deliver`, `Receive`, `Duplicate`, `Accept` are `ingest_whatsapp`. Its handler is
async and does not await between flush and commit: its deliveries interleave when
several API processes serve, which is how it is modelled. `Claim`, `Send`,
`Publish` are `dispatch_outbox`: SKIP LOCKED is `Claimable`, the outcomes of
`send_text` are *ack*, *timeout* and *error*, also after the provider accepted.
`Crash` cuts a task off at any point, `Abort` a request, `Reconfigure` restarts
the API with other settings. `attempts`, `last_error` and `next_attempt_at` are
never read to any effect, and no code consumes the webhook's topic.

`ImplementsFate` says that this implements `MessageFate`. The fate of a client
id is the status of its message (`FateOf`), the copies are what the provider
accepted for it, the deaths are the crashes. The abstract specification has no
rows, claims or tasks, and says the hard things in one place: a copy leaves a
queued message only, beyond the first only after a death, *sent* takes a copy,
and no status is left once it is *sent*, *unknown* or *failed*.

### Sessions

`sessions` is the table `auth_sessions` in insertion order, `jar` the cookies all tabs
share, `call` and `flight` the calls of the interceptor and the refresh it
started, `out` a tab's logout. `RefreshLock` and `RotateCommit` are the two ends
of the refresh transaction; revoking a family (`RevokeFamily`) is a separate statement that
sees the rows committed when it began (`snap`) and may wait for, or deadlock
with, a rotation. A 401 raised as HTTPException drops the cookie deletions
made on the response, so refused refreshes leave the jar alone. Logout's
read and write are one step, since revoking twice is revoking once. Hashes and
signatures are the identity of a token; the user signal, routes and guards are
not modelled.

### EventStream

A writer stamps an event inside its transaction (`Emit`) and makes it visible
later (`Commit`) or not (`Rollback`). `Poll` reads at most `Limit` rows after the
cursor, `Yield` sends one and moves the cursor, `Drop` breaks the connection, and
`Connect` resumes at the last id received (`From`). `Refused` is the other answer
of a connection: `current_user` and `company_context` say 401 (the access cookie
has expired) or 404, a pool without a connection ends in 500. An EventSource that
gets such an answer is `closed` for good: the page sets only `onmessage`
(`conversations-page.component.ts` 65-72), and the interceptor, which would renew
the cookie, does not see its requests. A first connection starts
at the present, also after one that broke before any event: `start` is the
instant since which nothing stamped may be skipped. `Waiting` leaves out what the
code does skip: an event stamped before `start` and committed after it, and those
of a gap before the first event received. Events are never deleted, so the
`resync.required` branch, taken for unknown ids, is not reachable and left out.

### DbSessions

`holder` says who has a pooled connection, `loop` which async handler the event
loop is stuck in, `setting` what `current_setting('app.current_company_id')`
yields on a connection outside a transaction: NULL if never set, the empty
string after a transaction that set it. `enforced` is whether the database role
is bound by the policies (the compose file's superuser is not; a production role
must be). `Finds` is the policy: NULL finds nothing, the empty string is an
error when cast to uuid. `Body` and `Resume` commit, `Reread` is the
`db.refresh` that follows in a new transaction; `Context` is `company_context`;
`PoolTimeout` is SQLAlchemy's TimeoutError, answered 500. FastAPI 0.116 closes a
handler's session before the response is sent, so the stream's own session is
gone when polling starts, and each poll has a session of its own.

### Conversations

`row` is the table, `trail` what `audit_logs` and `realtime_events` say of it,
`call` the POSTs of `changeMode`, `fetch` the GETs of the list, `listed` and
`selected` the two signals of a page. A GET is computed at one instant
(`Serve`) and taken over at a later one (`Show`), without comparing versions, as
`load` and `refreshFromEvent` do; so a page may go back to an older row.
`Serve` happens for any reason: load, the button, an event, also one that was
missed. `_change_mode` is `Lock` (SELECT FOR UPDATE), `Refuse` or `Change` (the
commit of row, audit row and event), and `Reread`, the `db.refresh` after the
commit. `Finish` and `Explain` are what the page does with the answer, `Lose`
a broken connection, `Reopen` a page that is left, whose answers
`takeUntilDestroyed` drops while the server goes on. A page offers takeover of
what it shows as the assistant's and return of what it shows as an agent's, as
the template does.

Left out: the message panel, the composer and the filter of the page; the check
that the conversation is the company's. `seed_demo` is the only code that
makes conversations, with no agent and at version 1, which is `Init`.

### Drafts

`req` is a call of `create_ai_draft`: `loaded` are the variants its session holds
since the products were read, `known` the facts it will check claims against,
`stored` and `answer` the run in `ai_runs` and what the page got. Products and
variants are read by two statements, each with its own snapshot, and a row that
is in the session keeps the values of its first reading (`ReadProducts`,
`ReadVariants`). The reply is any set of at most `MaxClaims` claims: a claim is
what a customer sees around a match of `PRICE_CLAIM` or `STOCK_CLAIM`: the
digits of its number, and how many of them follow the last separator. The pattern
of prices takes them all; `Found` is what the pattern of counts takes of them, the
digits next to the noun. `Says` is what a customer reads. `Minor`, `Supported`, `Rewritten` and
`Normalized` are `_claimed_minor` and `normalize_transactional_claims` on such
claims; the fallback sentence claims nothing. `Failed` is `LLMProviderError`,
`Malformed` an answer whose shape `complete` does not catch, which is answered
500 with the run rolled back. `held` is a history variable: the facts that held at
some moment since the draft was asked for.

`Insert`, `Conflict` (409), `Added` and `NotAdded` are `add_product`: the flush waits
while another transaction has the SKU inserted and uncommitted. What the new
row holds besides its SKU is chosen at the commit, when others can first see it.
`Edit` is everything else that changes a variant. Left out: the free text of
replies and of the prompt, customers' messages, token counts, and the refusal of an
unconfigured provider.

## 3. Runs

| Run | Instance | Shows |
|---|---|---|
| `orders` | 2 orders, 2 variants, 2 requests, 2 carts (both variants, one variant twice), 1 key, stock 2 and 1, fair | `ReservationExact`, `NoOversell`, `CancelNeverInconsistent`, `TrailTellsTheOrder`, `ConfirmedOnce`, `ImplementsLedger`, `StaffSawIt`, `RequestsFinish` |
| `quotes` | 1 order, 2 quotes, 2 prices, 2 fees, clock to 2 | `TypeOK`, `ConfirmedOnLatestQuote`, `PriceHonoured` |
| `key_reuse` | 2 orders, 1 key | violation of `KeyHasOneEffect` |
| `quote_expiry` | 1 order, clock to 2, quotes live 1 tick | violation of `EvidenceBeforeExpiry` |
| `outbox` | 2 requests, 2 workers, 2 client ids, 1 external id, 2 contents, 2 inserts, 1 crash, fair | `QueuedHasWork`, `OneMessagePerClientId`, `AckedIsStored`, `DoubledOnlyByCrash`, `AnnouncedOnce`, `QueuedIsSettled`, `ImplementsFate`, `TypeOK` |
| `sessions` | 2 tabs with a call each, 3 sessions | `OneLivePerFamily`, `RotationIsAChain`, `TypeOK` |
| `sessions_tab` | 1 tab, 2 calls, 2 logins, 1 lost answer, clock to 2, fair | `NoFalseReuse`, `CallsAnswered` |
| `stream` | 2 writers, 4 events, limit 2, 2 lost connections, refused reconnections, clock to 3, fair | `InOrderOnce`, `MissedOnlyIfOvertaken`, `EventsArrive`, `TypeOK` |
| `db_sessions` | 3 requests, 1 connection, 1 company, fair | `NoForeignSetting`, `PoolSound`, `Served`, `TypeOK` |
| `committed_reply` | 1 request, 2 connections | violation of `CommittedIsAnswered` |
| `conversations` | 2 pages, 1 conversation, 2 calls, 1 list under way, no click from version 3, fair | `NothingUnseen`, `ShownIsAudited`, `AssignmentNotStolen`, `ButtonsComeBack`, `TypeOK` |
| `drafts` | 1 draft, 2 administrators, 2 SKUs, prices of 2 and 2000 millimes, stock 0 and 1, 6 claims, 2 in a reply, 2 rows, 2 edits | `DraftIsGrounded`, `RunOnRecord`, `TypeOK` |

Why the bounds are enough. Everything that can go wrong with a lock, a stale
read or a retry takes two actors and one row each; a deadlock takes two actors
and two rows; a failure half way takes an order of two items; a confirmation on
an older quote takes two quotes; a poll that must not jump takes one more event
than its limit; a family with a wrong end takes three sessions. The pool's
limit (15 connections in the program) matters only in being reached: one
connection and three requests reach it in every way. A list that overtakes
or is overtaken takes one list under way beside two mode changes, which is what a last click at version 2 allows: a
conversation is taken over and given back (the proofs bound no version); one
conversation is enough for TLC, for each property is of one conversation and a page
shows one; answers that arrive when the page shows another conversation are in the
proofs, which are for any number. Prices of 2 and of 2000 millimes let "2 TND" have both of its readings, and
"2,0005 TND" be cut off, and "1 000 pièces" is a count of which the pattern finds 000; two rows and two edits let a fact change between the two
queries, and again after them. Two requests are in
progress at a time, but any number one after the other. `MaxInserts`,
`MaxEvents`, `MaxTime`, `MaxLogins`, `MaxSessions`, `MaxQuotes`, `MaxVersion`,
`MaxClaims`, `MaxRows`, `MaxEdits` stop inputs from outside, `MaxCrashes`,
`MaxDrops`, `MaxLosses` failures; none blocks a step of the program under way.
Symmetry (tabs with their calls) is used in the run `sessions` only, which has
no liveness.

Deadlock is checked except in `Sessions` and `EventStream`, where a
bounded clock and a quiet console may rightly stop.

Fairness. `Commerce`: PostgreSQL queues lock requests, so a request that can go
on again and again does (strong fairness of `Progress`), and the deadlock
detector runs (weak); aborts are never owed. `MessageOutbox`: beat starts
`dispatch_outbox` every two seconds and each task either goes on or dies, of
which there are finitely many. `Sessions`: each of a call's steps is taken by
browser or server, or its answer is lost, which counts as one. `EventStream`: the
generator polls every second, and EventSource tries again and is answered, with
a stream or with a refusal; that it is let in is not assumed, so `EventsArrive`
ends with the arrival or with `closed`. `DbSessions`: threads
and the loop's queue go on, the pool is no stricter than its thirty
seconds, and the loop is given up again and again (strong fairness).
`Conversations`: the server and the page go on with a call (weak), and
PostgreSQL gives the row's lock in turn (strong fairness of `Lock`); lists need
not arrive.
Liveness of drafts is a matter of connections and is checked in `DbSessions`,
where a draft waits for its provider and is resumed.

## 4. Disagreements between documents and code

* `key_reuse` — `docs/prd.md:27` promises that a repeated idempotency key has
  one effect. `confirm` looks the key up before any lock, and no index makes it
  unique: two overlapping confirmations of different orders both commit.
* `quote_expiry` — `docs/prd.md:25` says an expired quote fails. The expiry is
  compared before the variants' locks are waited for, `confirmed_at` is taken
  after.
* `committed_reply` — handlers refresh rows after the commit that ended the
  company setting. On a role the policies bind, which `docs/architecture.md:29`
  demands, the request is committed and answered 500; the tests, which run on
  SQLite, expect 200.

Seen while modelling, and stated in another form or not at all:

* ADR 004 says tasks are replay-safe. A worker that dies after the
  provider's acceptance leaves the message queued, and it is sent again with no
  request key. `DoubledOnlyByCrash` and `MessageFate` bound this: one more copy for
  each death, and none otherwise.
* The repository's `README.md:3` says AI cannot invent totals or tracking
  references. The check looks at amounts before TND or DT and at counts of
  pieces; `DraftIsGrounded` is about these. It also compares a price with the
  prices of all active variants, not of the product a sentence is about.
* `docs/prd.md:23` (AI-01) forbids unsupported stock in replies. `STOCK_CLAIM`
  (`ai_service.py:25`, compared at 60-62) takes the digits right before the noun:
  of "1 000 pièces", "1.000 articles" or "1,000 unités" it finds 000, which passes
  when any active variant has nothing left, and the text goes out as it is, for a
  customer to read one thousand. `Certain` therefore demands of such a count only
  that its last group is a fact, and `DraftIsGrounded`, which the run checks with
  "1 000 pièces" among the claims, promises no more. With `Says` in the place of
  `Certain` it is false. Prices are rewritten and not affected.
* A reconnection of the event stream that is refused is the last one: after the
  access cookie has expired, a broken connection leaves the inbox without news
  until it is opened again. `EventsArrive` says so by its `closed`.
* An event stamped before a page first connected and committed after it is
  never sent to that page, because the stream begins at the present of its clock
  (`api.py:749`) and looks for later stamps (`api.py:784`).
* `delivery.py:46` asks that request keys be replay-safe. The sandbox ignores the
  key of a cancellation, and a second key for the same reference revives a
  cancelled shipment. No handler calls it.

## 5. Proofs

Each proof module takes one component. Its theorems are of `Spec`, without
fairness, and for every value of the constants that satisfies the named `ASSUME`s
of the component: every number of orders, requests, workers, tabs, connections,
and every bound. The bounds named in section 3 are only assumed to be natural
numbers, so they limit TLC and not the theorems. The argument is the same
throughout: an invariant (`StateOK`, `TrailInv`, `StockInv`, `IInv`, `Inv`,
`TabInv`) that holds of `Init`, that each action keeps, and that implies the
property. It is stronger than the property, which is hardly ever inductive; what
it adds is said below.

**Orders** (`CommerceProofs`, `CommerceStockProofs`). Assumed: finitely many orders,
`None` is neither an order nor a key, stock and prices are natural numbers, carts
are sequences of at most `MaxLines` lines of 1..`MaxQuantity` units.

* `StateOK` adds to the types `QuotesOK` (an order with quotes exists), `RequestsOK` (the items a request has
done, and the one it wants, are items of its order, whose status is what was
checked when its row was locked) and `Exclusive` (a row is held by one request).
* `TrailInv` adds what is written of an order (`RowsOK`: an unwritten order has no
trail, the newest quote is the one the row's delivery fee is of, one audit row at most is of a
confirmation and an order before confirmation has none) and what a request read
under its locks (`SightsOK`: the quote or version it saw is still the newest, the items
it has done have the price their variants have now). `TrailTellsTheOrder`,
`ConfirmedOnce` and `ConfirmedOnLatestQuote` follow, and the action properties
`PriceHonoured` and `StaffSawIt`: `EditPrice` needs the lock a confirmation
holds, which is where the proof of `SightsOK` uses `Exclusive`.
* `StockInv` adds `CopyOK` to `StateOK`: under each locked variant, a session's copy is the
table's value plus (confirming) or minus (cancelling) the units of the items it
has done, whoever commits in the meantime. Since rows are exclusive, only one
request's copy of a variant differs from the table, and its commit makes the table
equal to the units of live orders again. Units are counted as the cardinality of
a set of triples (order, item, unit), so that adding an item is a disjoint union
(`LineUnits`, `MoreUnits`) and no sum over an order has to be computed by
recursion. `NoOversell` follows from the bound that the confirmation checked under the
lock; `CancelNeverInconsistent` because the units to give back are a subset of
those counted.
* `RequestsImplementLedger` is `Spec => ImplementsLedger`: `StepLedger` takes each
action to a step of the ledger or a stutter. `OrderLedger` counts the units an order
demands without saying which items were handled one by one; `DemandUnits`
says that when all items are done the two counts are one, so that a commit that
writes its copies moves what the ledger moves; that the units are there, the
ledger's guard, is the bound each copy was checked against.

**Messages** (`MessageOutboxProofs`). Assumed: `None` is no id, client ids and
external ids differ (they are of different tables). `Inv` adds that what a request
looked up is still so until it commits (`RequestsOK`, `IndexOK`: the unique index
lets one request at a time insert an id), that tasks work on unpublished rows, two tasks
never on one (`TasksOK`, `RowsLocked`), and that outbox rows and what they are of agree
(`OutboxOK`: unpublished exactly while queued, one row each). For the copies the
provider accepted the invariant needs an amount, since a crash may leave a copy
behind that nothing records: `Exposed` are the client ids whose message is queued, already
accepted and answered for by no task, and the extra copies together with
the exposed ids are no more than the crashes (`DoublesOK`). A further copy of an
exposed message moves it from one summand to the other; only a crash adds to the sum.
`OutboxImplementsFate` maps each step to one of `MessageFate`, whose rule for
copies is `CopiesOK`, the same amount for a single id.

**Refresh sessions** (`SessionsProofs`). `Inv` is `TypeOK`, `ChainOK` (a replaced session is
revoked, and its successor is the next one of its family) and `LocksOK` (a
session about to be rotated is live, its row locked by one refresh).
Then only the last session of a family can be live (`OneLive`), and no session has
two successors (`ChainsOnly`). `OneTabIsTrusted` has a hypothesis: all calls are of one
tab. Without it the property is false, and the property itself leaves out lost answers: two
tabs share the jar and race for one token, which the run `sessions`, of two tabs,
explores. The invariant then is `TabInv`: the interceptor has one refresh under
way at most, and while nothing was lost the jar's token is not rotated, except between a
rotation and its answer.

**Event stream** (`EventStreamProofs`). Assumed: a poll's limit is positive. `Inv` says that
the cursor is the stamp of the last event received, so that resuming by
Last-Event-ID and polling go on from one place, and of a batch that it is sorted,
comes after what was received, and has every row that its poll could see before one
of its rows (`BatchOK`); the last is what makes a limit harmless. A refusal changes none of this. `AllListed` (the enumeration of a
finite set omits nothing, by the pigeonhole principle) connects the sorted rows
to the set they were selected from. `MissedOnlyIfOvertaken`, of the events stamped since the page connected, is then
about rows committed after a poll.

**Database sessions** (`DbSessionsProofs`). Assumed: `None` is no request or company,
and a company's id is none of the two settings a connection may have
without one. `Inv` adds that between transactions a connection remembers at most that
it was used (`SettingOK`), and that every request that is waiting, idle or about
to re-read has no connection, any other at most one (`HolderOK`): each way out of a handler, by
answer, refusal, timeout of the pool or error, is an action that gives it back.

**Conversations** (`ConversationsProofs`), from `SetsAssumption` (`None` is no page
and no conversation). No property is inductive, because rows travel: into lists and answers, onto pages, and
back in a click. `IInv` adds that every such row is `KnownIn` the
trail (it is the row the trail has under its version), that the copy of a
request that has locked a row is the row in the table, that a row is locked by
one request, and that the trail `LeadsTo` the row. Then who passes the
comparison of versions has seen the row as it is (`SeenIsCurrent`), and what was
known stays known when a change is appended (`KnownGrows`). That the page offers
a takeover only of what it shows as the assistant's makes `AssignmentNotStolen`:
the server alone would let one agent take over from another at the right version.

**Drafts** (`DraftsProofs`), for any claims of digits and a position of the separator, and natural
prices and stocks. `NormalizedSays` is about the pure part: of each claim of a
normalised reply one of the facts it was checked against is `Certain`, that is,
what a customer reads, but for a count with a separator (section 4). The invariant
carries this over time (`GroundOK`): what a request has loaded or knows held since
it began, and so does the catalogue of now, whence `DraftsAreGrounded`; its row in
`ai_runs` is committed with the status it is answered with (`RecordedOK`), whence
`AnswersAreOnRecord`. `IndexOK` is about concurrent inserts: the SKU of an
uncommitted one is neither in the catalogue nor in another one, which is what
`TypeCorrect` needs for a SKU to be there once.

Only model-checked, because fairness and `ENABLED` are out of TLAPS's reach: the
liveness properties `RequestsFinish`, `QueuedIsSettled`, `CallsAnswered`,
`EventsArrive`, `Served` and `ButtonsComeBack`. The properties of the runs that
expect a violation are false, as section 4 says.

## 6. Not modelled

Read-only endpoints, company settings (one row, last write wins), the middleware
and the other pages change no shared state or do so in one step. The inbox's
message panel and composer are display: a draft that arrives when another
conversation is selected lands in that one's composer, which no document rules
out and a person reads before it is sent. The sandbox delivery provider has no
caller but its contract test. `seed_demo` is left out of the order book (see
`Commerce`). SQLite, on which
FOR UPDATE does nothing, is not modelled: the models are of PostgreSQL at READ
COMMITTED, and the mutants that drop a lock show what is lost without. Passwords,
token signatures, the webhook's signature and the text of
messages are abstracted to the identity of what they name.

## 7. Plan

All components with behaviour of their own are modelled, and what the passing
runs check is proved but for liveness. What is left:

1. `OrderLedger` and `MessageFate` on their own: the invariants a reader would
   take from them (what is reserved is what live orders demand; a status that is
   settled is never left), so that the refinements hand them to the code.
2. The hazards `PROJECT.json` lists without a property, where the code decides them.
3. `SandboxCarrier` (request keys against references), once a handler calls it.
