------------------------------ MODULE DbSessions ------------------------------
(***************************************************************************)
(* What every request shares: one event loop, a bounded pool of database   *)
(* connections (db.py), and on each connection the setting that the row    *)
(* policies of the first migration read (dependencies.py).                 *)
(*                                                                         *)
(* Dependencies and plain handlers run in threads, but go from one to the  *)
(* next through the loop; async handlers run on it, and when they wait for *)
(* a connection there, everybody waits.                                    *)
(***************************************************************************)
EXTENDS Integers, FiniteSets

CONSTANTS Requests, Connections, Companies,
          None                       \* no company, no request

ASSUME NoneAssumption == None \notin Companies \union Requests
\* The id of a company is a uuid, never one of the two other settings.
ASSUME CompaniesAssumption == {"never", "blank"} \intersect Companies = {}

VARIABLES
  enforced,   \* the runtime role is subject to row level security
  setting,    \* app.current_company_id of a connection outside transactions
  holder,     \* the request that has a connection checked out
  req,        \* the requests in progress
  loop        \* the request the event loop is stuck in

vars == <<enforced, setting, holder, req, loop>>

\* Plain handlers: "write" stands for those that commit and refresh a row of
\* their company, "login" and "me" read memberships with no company set.
\* Async: the AI draft, one poll of an event stream, the webhook.
Scoped   == {"write", "draft", "poll"}
Unscoped == {"login", "me", "hook"}
OnLoop   == {"poll", "hook"}

Idle == [kind |-> "none", pc |-> "idle", company |-> None, inTxn |-> None,
         saved |-> FALSE, answer |-> "none"]

Held(r)  == {c \in Connections : holder[c] = r}
Free     == Held(None)
LoopFree == loop = None
-----------------------------------------------------------------------------
(* The setting of a company lasts for one transaction. *)

AfterForSession(c, company) == company     \* mutant: set_config(..., false)

\* Once it was set, the setting of a connection reads as an empty string.
After(c, company) == IF setting[c] = "never" THEN "blank" ELSE setting[c]

ReleaseAtClose(r) ==               \* mutant: a commit keeps the connection
  /\ holder' = [c \in Connections |->
       IF c \in Held(r) /\ req[r].pc = "exit" THEN None ELSE holder[c]]
  /\ UNCHANGED setting

\* End of r's transaction: its connections go back to the pool.
Release(r) ==
  /\ holder' = [c \in Connections |-> IF c \in Held(r) THEN None ELSE holder[c]]
  /\ setting' = [c \in Connections |->
       IF c \in Held(r) /\ req[r].inTxn # None THEN After(c, req[r].inTxn)
                                               ELSE setting[c]]

\* What a query of a tenant table finds: the policy compares company_id with
\* the setting, null finds nothing, and '' cannot be cast to a uuid.
Finds(r, c) ==
  IF ~enforced \/ req[r].inTxn # None \/ setting[c] \in Companies THEN "rows"
  ELSE IF setting[c] = "never" THEN "nothing" ELSE "error"

\* A refresh of a row that is not found fails; a list of memberships is empty.
\* "own" is the answer the handler makes of what it read.
Reply(r, c) ==
  CASE Finds(r, c) = "rows"  -> "own"
    [] Finds(r, c) = "error" -> "500"
    [] OTHER -> IF req[r].kind \in Scoped THEN "500" ELSE "own"
-----------------------------------------------------------------------------
(* The course of a request. *)

Arrive(r, kind, company) ==
  /\ LoopFree /\ req[r].pc = "idle"
  /\ req' = [req EXCEPT ![r] =
       [Idle EXCEPT !.kind = kind, !.company = company, !.pc = "wait"]]
  /\ loop' = IF kind \in OnLoop THEN r ELSE None
  /\ UNCHANGED <<enforced, setting, holder>>

\* The first query of a session takes a connection.
Acquire(r) ==
  /\ req[r].pc = "wait" /\ req[r].kind # "hook"
  /\ \E c \in Free : holder' = [holder EXCEPT ![c] = r]
  /\ req' = [req EXCEPT ![r].pc = IF req[r].kind = "poll" THEN "sending"
                                  ELSE IF req[r].kind \in Scoped THEN "context"
                                  ELSE "body",
                        ![r].inTxn = IF req[r].kind = "poll" THEN req[r].company
                                     ELSE None]
  /\ loop' = IF loop = r THEN None ELSE loop
  /\ UNCHANGED <<enforced, setting>>

\* company_context; a user who is no member is answered 404.
Context(r) ==
  /\ LoopFree /\ req[r].pc = "context"
  /\ \E member \in BOOLEAN :
       req' = [req EXCEPT ![r].inTxn = req[r].company,
                          ![r].pc = IF member THEN "body" ELSE "exit",
                          ![r].answer = IF member THEN "none" ELSE "4xx"]
  /\ UNCHANGED <<enforced, setting, holder, loop>>

\* The handler: refused, or committed; what it answers with is read again.
Body(r) ==
  /\ LoopFree /\ req[r].pc = "body" /\ req[r].kind \in {"write", "login"}
  /\ \/ /\ req' = [req EXCEPT ![r].pc = "exit", ![r].answer = "4xx"]
        /\ UNCHANGED <<setting, holder>>
     \/ /\ Release(r)
        /\ req' = [req EXCEPT ![r].pc = "reread", ![r].saved = TRUE, ![r].inTxn = None]
  /\ UNCHANGED <<enforced, loop>>

Me(r) ==
  /\ LoopFree /\ req[r].pc = "body" /\ req[r].kind = "me"
  /\ \E c \in Held(r) :
       req' = [req EXCEPT ![r].pc = "exit", ![r].answer = Reply(r, c)]
  /\ UNCHANGED <<enforced, setting, holder, loop>>

\* The draft is refused, or keeps its transaction open while the provider answers.
Ask(r) ==
  /\ LoopFree /\ req[r].pc = "body" /\ req[r].kind = "draft"
  /\ \/ req' = [req EXCEPT ![r].pc = "exit", ![r].answer = "4xx"]
     \/ req' = [req EXCEPT ![r].pc = "provider"]
  /\ UNCHANGED <<enforced, setting, holder, loop>>

\* It commits and refreshes its run on the loop.
Resume(r) ==
  /\ LoopFree /\ req[r].pc = "provider"
  /\ Release(r)
  /\ req' = [req EXCEPT ![r].pc = "reread", ![r].saved = TRUE, ![r].inTxn = None]
  /\ loop' = r
  /\ UNCHANGED enforced

\* The refresh after a commit is a new transaction on some connection.
Reread(r) ==
  /\ req[r].pc = "reread"
  /\ \E c \in Free :
       /\ holder' = [holder EXCEPT ![c] = r]
       /\ req' = [req EXCEPT ![r].pc = "exit", ![r].answer = Reply(r, c)]
  /\ loop' = IF loop = r THEN None ELSE loop
  /\ UNCHANGED <<enforced, setting>>

\* Rows of a poll are sent with the connection still checked out.
Sent(r) ==
  /\ LoopFree /\ req[r].pc = "sending"
  /\ Release(r)
  /\ req' = [req EXCEPT ![r] = Idle]
  /\ UNCHANGED <<enforced, loop>>

\* The webhook inserts and commits without leaving the loop.
Store(r) ==
  /\ req[r].pc = "wait" /\ req[r].kind = "hook" /\ Free # {}
  /\ req' = [req EXCEPT ![r] = Idle]
  /\ loop' = None
  /\ UNCHANGED <<enforced, setting, holder>>

\* get_db closes the session, then the response is sent.
Exit(r) ==
  /\ LoopFree /\ req[r].pc = "exit"
  /\ Release(r)
  /\ req' = [req EXCEPT ![r] = Idle]
  /\ UNCHANGED <<enforced, loop>>

\* The pool gives up after thirty seconds.
Waited(r) == req[r].pc \in {"wait", "reread"} /\ Free = {}

TryAgain(r) == Waited(r) /\ UNCHANGED vars      \* mutant: an error is no answer

LoopLost(r) ==                     \* mutant: the failed wait stays on the loop
  /\ Waited(r)
  /\ req' = [req EXCEPT ![r].pc = "exit", ![r].answer = "500"]
  /\ UNCHANGED <<enforced, setting, holder, loop>>

PoolTimeout(r) ==
  /\ Waited(r)
  /\ req' = [req EXCEPT ![r].pc = "exit", ![r].answer = "500"]
  /\ loop' = IF loop = r THEN None ELSE loop
  /\ UNCHANGED <<enforced, setting, holder>>
-----------------------------------------------------------------------------
Init ==
  /\ enforced \in BOOLEAN
  /\ setting = [c \in Connections |-> "never"]
  /\ holder = [c \in Connections |-> None]
  /\ req = [r \in Requests |-> Idle]
  /\ loop = None

Serve(r) ==
  \/ Acquire(r) \/ Context(r) \/ Body(r) \/ Me(r) \/ Ask(r) \/ Resume(r)
  \/ Reread(r) \/ Sent(r) \/ Store(r) \/ Exit(r) \/ PoolTimeout(r)

Next == \E r \in Requests :
  \/ \E kind \in Scoped, company \in Companies : Arrive(r, kind, company)
  \/ \E kind \in Unscoped : Arrive(r, kind, None)
  \/ Serve(r)

Spec == Init /\ [][Next]_vars

\* Threads and loop go on; the loop is free again and again, so what waits
\* for it has its turn.
FairSpec == Spec /\ \A r \in Requests : SF_vars(Serve(r))
-----------------------------------------------------------------------------
(* Properties. *)

\* Every variable has its type; the loop is stuck only in a request that
\* waits for a connection.
TypeOK ==
  /\ enforced \in BOOLEAN
  /\ setting \in [Connections -> {"never", "blank"} \union Companies]
  /\ holder \in [Connections -> Requests \union {None}]
  /\ req \in [Requests -> [kind : Scoped \union Unscoped \union {"none"},
        pc : {"idle", "wait", "context", "body", "provider", "reread", "sending", "exit"},
        company : Companies \union {None}, inTxn : Companies \union {None},
        saved : BOOLEAN, answer : {"none", "own", "4xx", "500"}]]
  /\ loop \in {None} \union {r \in Requests : req[r].pc \in {"wait", "reread"}}

\* No query runs under the setting of a company its own transaction has not
\* set, whoever had the connection before and however that request ended.
NoForeignSetting ==
  \A r \in Requests : \A c \in Held(r) : setting[c] \notin Companies

\* A session uses one connection at a time, also across its commits, and who
\* waits for one, or is answered, keeps none: no way out loses a connection.
PoolSound ==
  /\ \A r \in Requests : Cardinality(Held(r)) <= 1
  /\ \A c \in Connections : holder[c] # None =>
       req[holder[c]].pc \notin {"idle", "wait", "reread"}

\* Everybody who waits for a connection, or for the loop, goes on in the end,
\* although a poll may block the loop that the holders of all connections need.
Served == \A r \in Requests : req[r].pc # "idle" ~> req[r].pc = "idle"

\* What is committed is answered by its handler, as the tests of add_quote and
\* confirm expect (200): never with a server error after the commit.
CommittedIsAnswered == \A r \in Requests : req[r].saved => req[r].answer # "500"
=============================================================================
