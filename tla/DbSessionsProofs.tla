--------------------------- MODULE DbSessionsProofs ---------------------------
(***************************************************************************)
(* Proofs about DbSessions, for every number of requests, connections and  *)
(* companies: the setting of a company never outlives its transaction, and *)
(* every way a request can end gives its connection back.                  *)
(***************************************************************************)
EXTENDS DbSessions, FiniteSetTheorems, TLAPS

Pc   == {"idle", "wait", "context", "body", "provider", "reread", "sending", "exit"}
Kind == Scoped \union Unscoped \union {"none"}
Some == Companies \union {None}
Request == [kind : Kind, pc : Pc, company : Some, inTxn : Some,
            saved : BOOLEAN, answer : {"none", "own", "4xx", "500"}]

Without == {"idle", "wait", "reread"}   \* where a request has no connection

\* Between transactions a connection remembers at most that it was used.
SettingOK == setting \in [Connections -> {"never", "blank"}]

\* The connections of a request, at most one, and none while it waits for one.
HolderOK ==
  /\ \A c \in Connections : holder[c] # None => req[holder[c]].pc \notin Without
  /\ \A c, d \in Connections : holder[c] # None /\ holder[c] = holder[d] => c = d

Inv == TypeOK /\ SettingOK /\ HolderOK
-----------------------------------------------------------------------------
LEMMA Typed ==
  ASSUME TypeOK
  PROVE  /\ enforced \in BOOLEAN /\ holder \in [Connections -> Requests \union {None}]
         /\ req \in [Requests -> Request]
         /\ loop = None \/ (loop \in Requests /\ req[loop].pc \in {"wait", "reread"})
BY DEF TypeOK, Request, Kind, Pc, Some

\* What one request does to itself, the others untouched: its new state has
\* its type, and the loop is free, or stuck where it was in another request,
\* or in this one, which waits.
LEMMA TypeStep ==
  ASSUME TypeOK, NEW r \in Requests, NEW x \in Request, req' = [req EXCEPT ![r] = x],
         UNCHANGED enforced, setting' \in [Connections -> {"never", "blank"}],
         holder' \in [Connections -> Requests \union {None}],
         \/ loop' = None
         \/ loop' = loop /\ loop # r
         \/ loop' \in {loop, r} /\ x.pc \in {"wait", "reread"}
  PROVE  TypeOK' /\ SettingOK'
<1>1. /\ req' \in [Requests -> Request] /\ req'[r] = x
      /\ \A q \in Requests \ {r} : req'[q] = req[q]
  BY Typed
<1>2. loop' = None \/ (loop' \in Requests /\ req'[loop'].pc \in {"wait", "reread"})
  BY <1>1, Typed
<1>3. setting' \in [Connections -> {"never", "blank"} \union Companies]
  OBVIOUS
<1>4. enforced' \in BOOLEAN
  BY Typed
<1>5. SettingOK'
  BY DEF SettingOK
<1> QED
  BY <1>1, <1>2, <1>3, <1>4, <1>5 DEF TypeOK, Request, Kind, Pc, Some

\* A request that keeps the connections it has, and needs none if it has none.
LEMMA Keeps ==
  ASSUME Inv, NEW r \in Requests, NEW x \in Request, req' = [req EXCEPT ![r] = x],
         UNCHANGED holder, req[r].pc \in Without \/ x.pc \notin Without
  PROVE  HolderOK'
<1>1. /\ req'[r] = x /\ \A q \in Requests \ {r} : req'[q] = req[q]
      /\ \A c \in Connections : holder[c] \in Requests \union {None}
  BY Typed DEF Inv
<1>2. ASSUME NEW c \in Connections, holder[c] # None PROVE req'[holder[c]].pc \notin Without
  <2>1. holder[c] \in Requests /\ req[holder[c]].pc \notin Without
    BY <1>1, <1>2 DEF Inv, HolderOK
  <2> QED
    BY <1>1, <2>1
<1> QED
  BY <1>2 DEF Inv, HolderOK

\* A request without a connection takes one that is free.
LEMMA Takes ==
  ASSUME Inv, NEW r \in Requests, NEW x \in Request, req' = [req EXCEPT ![r] = x],
         NEW k \in Free, holder' = [holder EXCEPT ![k] = r],
         req[r].pc \in Without, x.pc \notin Without
  PROVE  HolderOK' /\ holder' \in [Connections -> Requests \union {None}]
<1>1. /\ req'[r] = x /\ \A q \in Requests \ {r} : req'[q] = req[q]
      /\ k \in Connections /\ holder[k] = None /\ holder'[k] = r
      /\ \A c \in Connections \ {k} : holder'[c] = holder[c]
      /\ \A c \in Connections : holder[c] \in Requests \union {None}
  BY Typed DEF Inv, Free, Held
<1>2. \A c \in Connections : holder[c] # r
  BY NoneAssumption DEF Inv, HolderOK
<1>3. ASSUME NEW c \in Connections, holder'[c] # None PROVE req'[holder'[c]].pc \notin Without
  <2>1. CASE c = k
    BY <1>1, <2>1
  <2>2. CASE c # k
    BY <1>1, <1>2, <1>3, <2>2 DEF Inv, HolderOK
  <2> QED
    BY <2>1, <2>2
<1>4. ASSUME NEW c \in Connections, NEW d \in Connections,
             holder'[c] # None, holder'[c] = holder'[d]
      PROVE  c = d
  <2>1. CASE c = k
    BY <1>1, <1>2, <1>4, <2>1
  <2>2. CASE d = k
    BY <1>1, <1>2, <1>4, <2>2
  <2>3. CASE c # k /\ d # k
    BY <1>1, <1>4, <2>3 DEF Inv, HolderOK
  <2> QED
    BY <2>1, <2>2, <2>3
<1>5. holder' \in [Connections -> Requests \union {None}]
  BY Typed DEF Inv
<1> QED
  BY <1>3, <1>4, <1>5 DEF HolderOK

\* The end of a transaction leaves no company on the connection it releases.
LEMMA Released ==
  ASSUME Inv, NEW r \in Requests, NEW x \in Request, req' = [req EXCEPT ![r] = x], Release(r)
  PROVE  /\ HolderOK' /\ holder' \in [Connections -> Requests \union {None}]
         /\ setting' \in [Connections -> {"never", "blank"}]
<1>1. /\ req'[r] = x /\ \A q \in Requests \ {r} : req'[q] = req[q]
      /\ \A c \in Connections : holder[c] \in Requests \union {None}
      /\ \A c \in Connections : holder'[c] = IF holder[c] = r THEN None ELSE holder[c]
      /\ holder' = [c \in Connections |-> IF c \in Held(r) THEN None ELSE holder[c]]
  BY Typed DEF Inv, Release, Held
<1>2. holder' \in [Connections -> Requests \union {None}]
  BY <1>1
<1>3. ASSUME NEW c \in Connections, holder'[c] # None PROVE req'[holder'[c]].pc \notin Without
  <2>1. holder'[c] = holder[c] /\ holder[c] # r /\ holder[c] \in Requests
    BY <1>1, <1>3
  <2> QED
    BY <1>1, <1>3, <2>1 DEF Inv, HolderOK
<1>4. \A c, d \in Connections : holder'[c] # None /\ holder'[c] = holder'[d] => c = d
  BY <1>1 DEF Inv, HolderOK
<1>5. setting' \in [Connections -> {"never", "blank"}]
  <2>1. \A c \in Connections : setting[c] \in {"never", "blank"}
    BY DEF Inv, SettingOK
  <2>2. setting' = [c \in Connections |->
          IF c \in Held(r) /\ req[r].inTxn # None THEN After(c, req[r].inTxn) ELSE setting[c]]
    BY DEF Release
  <2> QED
    BY <2>1, <2>2 DEF After
<1> QED
  BY <1>2, <1>3, <1>4, <1>5 DEF HolderOK
-----------------------------------------------------------------------------
LEMMA InitInv == Init => Inv
<1> SUFFICES ASSUME Init PROVE Inv
  OBVIOUS
<1>1. Idle \in Request
  BY DEF Idle, Request, Kind, Pc, Some
<1>2. TypeOK
  BY <1>1 DEF Init, TypeOK, Request, Kind, Pc, Some
<1>3. SettingOK /\ HolderOK
  BY DEF Init, SettingOK, HolderOK
<1> QED
  BY <1>2, <1>3 DEF Inv

LEMMA ArriveInv ==
  ASSUME Inv, NEW r \in Requests, NEW kind \in Scoped \union Unscoped,
         NEW company \in Some, Arrive(r, kind, company)
  PROVE  Inv'
<1> DEFINE x == [Idle EXCEPT !.kind = kind, !.company = company, !.pc = "wait"]
<1>1. x \in Request /\ x.pc = "wait"
  BY DEF Idle, Request, Kind, Pc, Some
<1> HIDE DEF x
<1>2. /\ req' = [req EXCEPT ![r] = x] /\ req[r].pc = "idle"
      /\ UNCHANGED <<enforced, setting, holder>> /\ loop' \in {r, None}
  BY DEF Arrive, x
<1>3. HolderOK'
  BY <1>1, <1>2, Keeps DEF Without
<1>4. TypeOK' /\ SettingOK'
  <2>1. setting' \in [Connections -> {"never", "blank"}]
    BY <1>2 DEF Inv, SettingOK
  <2> QED
    BY <1>1, <1>2, <2>1, Typed, TypeStep DEF Inv
<1> QED
  BY <1>3, <1>4 DEF Inv

\* The steps that leave connections and settings alone.
LEMMA QuietInv ==
  ASSUME Inv, NEW r \in Requests, NEW x \in Request, req' = [req EXCEPT ![r] = x],
         UNCHANGED <<enforced, setting, holder>>,
         req[r].pc \in Without \/ x.pc \notin Without,
         loop' = None \/ (loop' = loop /\ loop # r)
  PROVE  Inv'
<1>1. HolderOK'
  BY Keeps
<1>2. setting' \in [Connections -> {"never", "blank"}]
  BY DEF Inv, SettingOK
<1>3. holder' \in [Connections -> Requests \union {None}]
  BY Typed DEF Inv
<1>4. TypeOK' /\ SettingOK'
  BY <1>2, <1>3, TypeStep DEF Inv
<1> QED
  BY <1>1, <1>4 DEF Inv

\* The steps that end a transaction.
LEMMA ReleaseInv ==
  ASSUME Inv, NEW r \in Requests, NEW x \in Request, req' = [req EXCEPT ![r] = x],
         Release(r), UNCHANGED enforced,
         loop' = None \/ (loop' = r /\ x.pc = "reread") \/ (loop' = loop /\ loop # r)
  PROVE  Inv'
<1>1. /\ HolderOK' /\ holder' \in [Connections -> Requests \union {None}]
      /\ setting' \in [Connections -> {"never", "blank"}]
  BY Released
<1>2. TypeOK' /\ SettingOK'
  BY <1>1, TypeStep DEF Inv
<1> QED
  BY <1>1, <1>2 DEF Inv

\* The steps that take a connection.
LEMMA TakeInv ==
  ASSUME Inv, NEW r \in Requests, NEW x \in Request, req' = [req EXCEPT ![r] = x],
         NEW k \in Free, holder' = [holder EXCEPT ![k] = r],
         UNCHANGED <<enforced, setting>>, req[r].pc \in Without, x.pc \notin Without,
         loop' = IF loop = r THEN None ELSE loop
  PROVE  Inv'
<1>1. HolderOK' /\ holder' \in [Connections -> Requests \union {None}]
  BY Takes
<1>2. setting' \in [Connections -> {"never", "blank"}]
  BY DEF Inv, SettingOK
<1>3. TypeOK' /\ SettingOK'
  BY <1>1, <1>2, TypeStep DEF Inv
<1> QED
  BY <1>1, <1>3 DEF Inv
-----------------------------------------------------------------------------
LEMMA AcquireInv ==
  ASSUME Inv, NEW r \in Requests, Acquire(r) PROVE Inv'
<1> DEFINE q == req[r]
           p == IF q.kind = "poll" THEN "sending"
                ELSE IF q.kind \in Scoped THEN "context" ELSE "body"
           t == IF q.kind = "poll" THEN q.company ELSE None
           x == [q EXCEPT !.pc = p, !.inTxn = t]
<1>1. q \in Request
  BY Typed DEF Inv
<1>2. p \in Pc \ Without /\ t \in Some
  BY <1>1 DEF Pc, Without, Some, Request
<1>3. req' = [req EXCEPT ![r] = x]
  BY Typed DEF Inv, Acquire
<1> HIDE DEF q, p, t
<1>4. x \in Request /\ x.pc = p
  BY <1>1, <1>2 DEF Request
<1> HIDE DEF x
<1>5. PICK k \in Free : holder' = [holder EXCEPT ![k] = r]
  BY DEF Acquire
<1>6. /\ UNCHANGED <<enforced, setting>> /\ req[r].pc \in Without
      /\ loop' = IF loop = r THEN None ELSE loop
  BY DEF Acquire, Without
<1> QED
  BY <1>2, <1>3, <1>4, <1>5, <1>6, TakeInv

LEMMA RereadInv ==
  ASSUME Inv, NEW r \in Requests, Reread(r) PROVE Inv'
<1>1. PICK k \in Free : /\ holder' = [holder EXCEPT ![k] = r]
                        /\ req' = [req EXCEPT ![r].pc = "exit", ![r].answer = Reply(r, k)]
  BY DEF Reread
<1> DEFINE q == req[r]  a == Reply(r, k)  x == [q EXCEPT !.pc = "exit", !.answer = a]
<1>2. q \in Request
  BY Typed DEF Inv
<1>3. a \in {"none", "own", "4xx", "500"}
  BY DEF Reply, Finds
<1>4. req' = [req EXCEPT ![r] = x]
  BY <1>1, Typed DEF Inv
<1> HIDE DEF q, a
<1>5. x \in Request /\ x.pc = "exit"
  BY <1>2, <1>3 DEF Request, Pc
<1> HIDE DEF x
<1>6. /\ UNCHANGED <<enforced, setting>> /\ req[r].pc \in Without
      /\ loop' = IF loop = r THEN None ELSE loop
  BY DEF Reread, Without
<1> QED
  BY <1>1, <1>4, <1>5, <1>6, TakeInv DEF Without

\* The handlers that go on, or are refused, inside their transaction.
LEMMA ContextInv ==
  ASSUME Inv, NEW r \in Requests, Context(r) PROVE Inv'
<1>1. PICK member \in BOOLEAN :
        req' = [req EXCEPT ![r].inTxn = req[r].company,
                           ![r].pc = IF member THEN "body" ELSE "exit",
                           ![r].answer = IF member THEN "none" ELSE "4xx"]
  BY DEF Context
<1> DEFINE q == req[r]
           p == IF member THEN "body" ELSE "exit"
           a == IF member THEN "none" ELSE "4xx"
           x == [q EXCEPT !.inTxn = q.company, !.pc = p, !.answer = a]
<1>2. q \in Request
  BY Typed DEF Inv
<1>3. p \in Pc \ Without /\ a \in {"none", "own", "4xx", "500"}
  BY DEF Pc, Without
<1>4. req' = [req EXCEPT ![r] = x]
  BY <1>1, Typed DEF Inv
<1> HIDE DEF q, a, p
<1>5. x \in Request /\ x.pc = p
  BY <1>2, <1>3 DEF Request
<1> HIDE DEF x
<1>6. UNCHANGED <<enforced, setting, holder, loop>> /\ loop = None
  BY DEF Context, LoopFree
<1> QED
  BY <1>3, <1>4, <1>5, <1>6, QuietInv

LEMMA MeInv ==
  ASSUME Inv, NEW r \in Requests, Me(r) PROVE Inv'
<1>1. PICK k \in Held(r) : req' = [req EXCEPT ![r].pc = "exit", ![r].answer = Reply(r, k)]
  BY DEF Me
<1> DEFINE q == req[r]  a == Reply(r, k)  x == [q EXCEPT !.pc = "exit", !.answer = a]
<1>2. q \in Request
  BY Typed DEF Inv
<1>3. a \in {"none", "own", "4xx", "500"}
  BY DEF Reply, Finds
<1>4. req' = [req EXCEPT ![r] = x]
  BY <1>1, Typed DEF Inv
<1> HIDE DEF q, a
<1>5. x \in Request /\ x.pc = "exit"
  BY <1>2, <1>3 DEF Request, Pc
<1> HIDE DEF x
<1>6. UNCHANGED <<enforced, setting, holder, loop>> /\ loop = None
  BY DEF Me, LoopFree
<1> QED
  BY <1>4, <1>5, <1>6, QuietInv DEF Without

LEMMA RefusedInv ==
  ASSUME Inv, NEW r \in Requests, req' = [req EXCEPT ![r].pc = "exit", ![r].answer = "4xx"],
         UNCHANGED <<enforced, setting, holder, loop>>, LoopFree
  PROVE  Inv'
<1> DEFINE q == req[r]  x == [q EXCEPT !.pc = "exit", !.answer = "4xx"]
<1>1. q \in Request
  BY Typed DEF Inv
<1>2. req' = [req EXCEPT ![r] = x]
  BY Typed DEF Inv
<1> HIDE DEF q
<1>3. x \in Request /\ x.pc = "exit"
  BY <1>1 DEF Request, Pc
<1> HIDE DEF x
<1> QED
  BY <1>2, <1>3, QuietInv DEF Without, LoopFree

\* The commit of a handler: its connection goes back, to be asked for again.
LEMMA CommittedInv ==
  ASSUME Inv, NEW r \in Requests, Release(r), UNCHANGED enforced,
         req' = [req EXCEPT ![r].pc = "reread", ![r].saved = TRUE, ![r].inTxn = None],
         loop = None, loop' \in {None, r}
  PROVE  Inv'
<1> DEFINE q == req[r]  x == [q EXCEPT !.pc = "reread", !.saved = TRUE, !.inTxn = None]
<1>1. q \in Request
  BY Typed DEF Inv
<1>2. req' = [req EXCEPT ![r] = x]
  BY Typed DEF Inv
<1> HIDE DEF q
<1>3. x \in Request /\ x.pc = "reread"
  BY <1>1 DEF Request, Pc, Some
<1> HIDE DEF x
<1> QED
  BY <1>2, <1>3, ReleaseInv

LEMMA BodyInv ==
  ASSUME Inv, NEW r \in Requests, Body(r) PROVE Inv'
<1>1. LoopFree /\ loop = None /\ UNCHANGED <<enforced, loop>>
  BY DEF Body, LoopFree
<1>2. CASE /\ req' = [req EXCEPT ![r].pc = "exit", ![r].answer = "4xx"]
           /\ UNCHANGED <<setting, holder>>
  BY <1>1, <1>2, RefusedInv
<1>3. CASE /\ Release(r)
           /\ req' = [req EXCEPT ![r].pc = "reread", ![r].saved = TRUE, ![r].inTxn = None]
  BY <1>1, <1>3, CommittedInv
<1> QED
  BY <1>2, <1>3 DEF Body

LEMMA AskInv ==
  ASSUME Inv, NEW r \in Requests, Ask(r) PROVE Inv'
<1>1. LoopFree /\ loop = None /\ UNCHANGED <<enforced, setting, holder, loop>>
  BY DEF Ask, LoopFree
<1>2. CASE req' = [req EXCEPT ![r].pc = "exit", ![r].answer = "4xx"]
  BY <1>1, <1>2, RefusedInv
<1>3. CASE req' = [req EXCEPT ![r].pc = "provider"]
  <2> DEFINE q == req[r]  x == [q EXCEPT !.pc = "provider"]
  <2>1. q \in Request
    BY Typed DEF Inv
  <2>2. req' = [req EXCEPT ![r] = x]
    BY <1>3, Typed DEF Inv
  <2> HIDE DEF q
  <2>3. x \in Request /\ x.pc = "provider"
    BY <2>1 DEF Request, Pc
  <2> HIDE DEF x
  <2> QED
    BY <1>1, <2>2, <2>3, QuietInv DEF Without
<1> QED
  BY <1>2, <1>3 DEF Ask

\* The steps that end a request, whatever held it up.
LEMMA EndInv ==
  ASSUME Inv, NEW r \in Requests, Sent(r) \/ Store(r) \/ Exit(r) PROVE Inv'
<1>1. Idle \in Request /\ Idle.pc = "idle"
  BY DEF Idle, Request, Kind, Pc, Some
<1>2. CASE Sent(r) \/ Exit(r)
  <2>1. req' = [req EXCEPT ![r] = Idle] /\ Release(r) /\ UNCHANGED enforced /\ loop' = None
    BY <1>2 DEF Sent, Exit, LoopFree
  <2> QED
    BY <1>1, <2>1, ReleaseInv
<1>3. CASE Store(r)
  <2>1. /\ req' = [req EXCEPT ![r] = Idle] /\ UNCHANGED <<enforced, setting, holder>>
        /\ loop' = None /\ req[r].pc \in Without
    BY <1>3 DEF Store, Without
  <2> QED
    BY <1>1, <2>1, QuietInv
<1> QED
  BY <1>2, <1>3

LEMMA PoolTimeoutInv ==
  ASSUME Inv, NEW r \in Requests, PoolTimeout(r) PROVE Inv'
<1> DEFINE q == req[r]  x == [q EXCEPT !.pc = "exit", !.answer = "500"]
<1>1. q \in Request
  BY Typed DEF Inv
<1>2. req' = [req EXCEPT ![r] = x]
  BY Typed DEF Inv, PoolTimeout
<1> HIDE DEF q
<1>3. x \in Request /\ x.pc = "exit"
  BY <1>1 DEF Request, Pc
<1> HIDE DEF x
<1>4. /\ UNCHANGED <<enforced, setting, holder>> /\ req[r].pc \in Without
      /\ loop' = IF loop = r THEN None ELSE loop
  BY DEF PoolTimeout, Waited, Without
<1> QED
  BY <1>2, <1>3, <1>4, QuietInv

LEMMA NextInv == Inv /\ [Next]_vars => Inv'
<1> SUFFICES ASSUME Inv, [Next]_vars PROVE Inv'
  OBVIOUS
<1>1. CASE UNCHANGED vars
  BY <1>1 DEF vars, Inv, TypeOK, SettingOK, HolderOK
<1>2. ASSUME NEW r \in Requests, NEW kind \in Scoped, NEW company \in Companies,
             Arrive(r, kind, company)
      PROVE  Inv'
  BY <1>2, ArriveInv DEF Some
<1>3. ASSUME NEW r \in Requests, NEW kind \in Unscoped, Arrive(r, kind, None)
      PROVE  Inv'
  BY <1>3, ArriveInv DEF Some
<1>4. ASSUME NEW r \in Requests, Serve(r) PROVE Inv'
  <2>1. CASE Resume(r)
    BY <2>1, CommittedInv DEF Resume, LoopFree
  <2> QED
    BY <1>4, <2>1, AcquireInv, ContextInv, BodyInv, MeInv, AskInv, RereadInv, EndInv,
       PoolTimeoutInv DEF Serve
<1> QED
  BY <1>1, <1>2, <1>3, <1>4 DEF Next

\* dependencies.py sets the company for the transaction only (set_config(...,
\* true)), so the types hold, and the event loop is stuck only in a request
\* that waits for a connection of the pool of db.py.
THEOREM TypeCorrect == Spec => []TypeOK
<1>1. Inv => TypeOK
  BY DEF Inv
<1> QED
  BY <1>1, InitInv, NextInv, PTL DEF Spec

\* Whoever used a connection before, with or without a company, and however
\* that request ended: the setting the row policies of the first migration
\* read is never that of a company its own transaction has not set.
THEOREM NoCompanyLeaks == Spec => []NoForeignSetting
<1>1. Inv => NoForeignSetting
  BY CompaniesAssumption DEF Inv, SettingOK, NoForeignSetting, Held
<1> QED
  BY <1>1, InitInv, NextInv, PTL DEF Spec

\* The session of get_db has one connection at a time, across its commits and
\* refreshes, and every way out (refused, committed, timed out, streamed)
\* gives it back to the pool.
THEOREM PoolIsSound == Spec => []PoolSound
<1>1. Inv => PoolSound
  <2> SUFFICES ASSUME Inv PROVE PoolSound
    OBVIOUS
  <2>1. ASSUME NEW r \in Requests PROVE Cardinality(Held(r)) <= 1
    <3>1. CASE Held(r) = {}
      BY <3>1, FS_EmptySet
    <3>2. CASE Held(r) # {}
      <4>1. PICK c \in Held(r) : TRUE
        BY <3>2
      <4>2. Held(r) = {c}
        BY <4>1, NoneAssumption DEF Inv, HolderOK, Held
      <4> QED
        BY <4>2, FS_Singleton
    <3> QED
      BY <3>1, <3>2
  <2> QED
    BY <2>1 DEF Inv, HolderOK, PoolSound, Without
<1> QED
  BY <1>1, InitInv, NextInv, PTL DEF Spec
=============================================================================
