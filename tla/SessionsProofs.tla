---------------------------- MODULE SessionsProofs ----------------------------
(***************************************************************************)
(* Proofs about Sessions, for every number of tabs, calls and logins: the  *)
(* sessions of a family form a chain in which one at most is live, and the *)
(* calls of a single tab never present a token that was rotated.           *)
(***************************************************************************)
EXTENDS Sessions, FiniteSetTheorems, TLAPS

Locked == {"rotating", "revoking"}   \* refreshes that hold the lock of a row

\* A session that was replaced is revoked, and what replaced it is the next
\* one of its family.
LinkOK(i) ==
  /\ sessions[i].next # 0 =>
       /\ sessions[i].revoked
       /\ sessions[i].next \in DOMAIN sessions /\ i < sessions[i].next
       /\ sessions[sessions[i].next].family = sessions[i].family
  /\ \A j \in DOMAIN sessions :
       i < j /\ sessions[i].family = sessions[j].family =>
         sessions[i].next # 0 /\ sessions[i].next <= j

ChainOK == \A i \in DOMAIN sessions : LinkOK(i)

\* The row locks: a session about to be rotated is live until it is, and no
\* two refreshes hold one row.
LockOK(c) ==
  /\ flight[c].pc \in Locked => flight[c].token \in DOMAIN sessions
  /\ flight[c].pc = "rotating" => ~sessions[flight[c].token].revoked
  /\ \A d \in Calls \ {c} :
       flight[c].pc \in Locked /\ flight[d].pc \in Locked => flight[c].token # flight[d].token

LocksOK == \A c \in Calls : LockOK(c)

Inv == TypeOK /\ ChainOK /\ LocksOK

\* The types of TypeOK, over a table of n sessions.
Row(n)    == [family : 1..n, expires : Nat, revoked : BOOLEAN, next : 0..n]
Jar(n)    == [refresh : 0..n, access : Nat]
Call      == [pc : {"idle", "sent", "401", "parked"}, access : Nat, again : BOOLEAN]
Flight(n) == [pc : {"idle", "sent", "rotating", "revoking", "renewed", "refused"},
              token : 0..n, snap : 0..n, fresh : 0..n, access : Nat]
Out(n)    == [pc : {"idle", "sent", "answered"}, token : 0..n]
-----------------------------------------------------------------------------
LEMMA Typed ==
  ASSUME TypeOK
  PROVE  /\ Len(sessions) \in Nat /\ DOMAIN sessions = 1..Len(sessions)
         /\ sessions \in Seq(Row(Len(sessions)))
         /\ \A i \in DOMAIN sessions : sessions[i] \in Row(Len(sessions))
         /\ jar \in Jar(Len(sessions)) /\ call \in [Calls -> Call]
         /\ flight \in [Calls -> Flight(Len(sessions))] /\ out \in [Tabs -> Out(Len(sessions))]
         /\ active \in BOOLEAN /\ now \in Nat /\ losses \in Nat
<1>1. sessions \in Seq(Row(Len(sessions)))
  BY DEF TypeOK, Row
<1>2. /\ Len(sessions) \in Nat /\ DOMAIN sessions = 1..Len(sessions)
      /\ \A i \in DOMAIN sessions : sessions[i] \in Row(Len(sessions))
  BY <1>1
<1> QED
  BY <1>1, <1>2 DEF TypeOK, Jar, Call, Flight, Out

\* A table that grew holds the types of the smaller one.
LEMMA Grown ==
  ASSUME TypeOK, NEW n \in Nat, Len(sessions) <= n
  PROVE  /\ sessions \in Seq(Row(n)) /\ jar \in Jar(n)
         /\ flight \in [Calls -> Flight(n)] /\ out \in [Tabs -> Out(n)]
<1>1. 0..Len(sessions) \subseteq 0..n /\ 1..Len(sessions) \subseteq 1..n
  BY Typed
<1>2. /\ Row(Len(sessions)) \subseteq Row(n) /\ Jar(Len(sessions)) \subseteq Jar(n)
      /\ Flight(Len(sessions)) \subseteq Flight(n) /\ Out(Len(sessions)) \subseteq Out(n)
  BY <1>1 DEF Row, Jar, Flight, Out
<1>3. sessions \in Seq(Row(n))
  BY <1>2, Typed
<1> QED
  BY <1>2, <1>3, Typed

LEMMA TypeStep ==
  ASSUME NEW n \in Nat, sessions' \in Seq(Row(n)), Len(sessions') = n, jar' \in Jar(n),
         call' \in [Calls -> Call], flight' \in [Calls -> Flight(n)], out' \in [Tabs -> Out(n)],
         active' \in BOOLEAN, now' \in Nat, losses' \in Nat
  PROVE  TypeOK'
BY DEF TypeOK, Row, Jar, Call, Flight, Out

\* Revoke marks rows and changes nothing else.
LEMMA Marked ==
  ASSUME TypeOK, NEW S, sessions' = Revoke(sessions, S)
  PROVE  /\ sessions' \in Seq(Row(Len(sessions))) /\ Len(sessions') = Len(sessions)
         /\ DOMAIN sessions' = DOMAIN sessions
         /\ \A i \in DOMAIN sessions :
              /\ sessions'[i].family = sessions[i].family /\ sessions'[i].next = sessions[i].next
              /\ sessions'[i].revoked <=> (sessions[i].revoked \/ i \in S)
<1> DEFINE n == Len(sessions)
           f(i) == IF i \in S THEN [sessions[i] EXCEPT !.revoked = TRUE] ELSE sessions[i]
<1>1. \A i \in DOMAIN sessions :
        /\ f(i) \in Row(n) /\ f(i).family = sessions[i].family /\ f(i).next = sessions[i].next
        /\ f(i).revoked <=> (sessions[i].revoked \/ i \in S)
  <2>1. ASSUME NEW i \in DOMAIN sessions
        PROVE  /\ f(i) \in Row(n) /\ f(i).family = sessions[i].family /\ f(i).next = sessions[i].next
               /\ f(i).revoked <=> (sessions[i].revoked \/ i \in S)
    <3>1. sessions[i] \in Row(n)
      BY Typed
    <3>2. CASE i \in S
      <4>1. f(i) = [sessions[i] EXCEPT !.revoked = TRUE]
        BY <3>2
      <4> HIDE DEF f, n
      <4> QED
        BY <3>1, <3>2, <4>1 DEF Row
    <3>3. CASE i \notin S
      BY <3>1, <3>3
    <3> QED
      BY <3>2, <3>3
  <2> QED
    BY <2>1
<1>2. sessions' = [i \in 1..n |-> f(i)] /\ n \in Nat /\ DOMAIN sessions = 1..n
  BY Typed DEF Revoke
<1> HIDE DEF f, n
<1>3. sessions' \in Seq(Row(n)) /\ Len(sessions') = n /\ DOMAIN sessions' = 1..n
  BY <1>1, <1>2
<1>4. \A i \in DOMAIN sessions : sessions'[i] = f(i)
  BY <1>2
<1> QED
  BY <1>1, <1>2, <1>3, <1>4 DEF n

LEMMA Appended ==
  ASSUME NEW S, NEW q \in Seq(S), NEW x \in S
  PROVE  /\ Append(q, x) \in Seq(S) /\ Len(q) \in Nat
         /\ Len(Append(q, x)) = Len(q) + 1
         /\ DOMAIN Append(q, x) = DOMAIN q \union {Len(q) + 1} /\ DOMAIN q = 1..Len(q)
         /\ Len(q) + 1 \notin DOMAIN q
         /\ \A i \in DOMAIN q : Append(q, x)[i] = q[i]
         /\ Append(q, x)[Len(q) + 1] = x
OBVIOUS

LEMMA MarkedChain ==
  ASSUME TypeOK, ChainOK, NEW S, sessions' = Revoke(sessions, S)
  PROVE  ChainOK'
<1>1. /\ DOMAIN sessions' = DOMAIN sessions
      /\ \A i \in DOMAIN sessions :
              /\ sessions'[i].family = sessions[i].family /\ sessions'[i].next = sessions[i].next
              /\ sessions'[i].revoked <=> (sessions[i].revoked \/ i \in S)
  BY Marked
<1>2. ASSUME NEW i \in DOMAIN sessions PROVE LinkOK(i)'
  BY <1>1 DEF ChainOK, LinkOK
<1> QED
  BY <1>1, <1>2 DEF ChainOK

\* Steps that move no lock: every row about to be rotated stays live.
LEMMA LocksStay ==
  ASSUME LocksOK, UNCHANGED flight, DOMAIN sessions \subseteq DOMAIN sessions',
         \A c \in Calls : flight[c].pc = "rotating" => ~sessions'[flight[c].token].revoked
  PROVE  LocksOK'
BY DEF LocksOK, LockOK

\* Steps that move the locks of one refresh.
LEMMA LocksMove ==
  ASSUME LocksOK, NEW c \in Calls, DOMAIN sessions \subseteq DOMAIN sessions',
         \A d \in Calls \ {c} :
           /\ flight'[d] = flight[d]
           /\ flight[d].pc = "rotating" => ~sessions'[flight[d].token].revoked,
         flight'[c].pc \in Locked =>
           /\ flight'[c].token \in DOMAIN sessions'
           /\ \A d \in Calls \ {c} : flight[d].pc \in Locked => flight[d].token # flight'[c].token,
         flight'[c].pc = "rotating" => ~sessions'[flight'[c].token].revoked
  PROVE  LocksOK'
<1>1. ASSUME NEW d \in Calls PROVE LockOK(d)'
  BY DEF LocksOK, LockOK
<1> QED
  BY <1>1 DEF LocksOK

LEMMA InitInv == Init => Inv
<1> SUFFICES ASSUME Init PROVE Inv
  OBVIOUS
<1>1. TypeOK
  BY DEF Init, TypeOK, NoCall, NoFlight, NoLogout
<1>2. ChainOK
  BY DEF Init, ChainOK
<1>3. LocksOK
  BY DEF Init, LocksOK, LockOK, Locked, NoFlight
<1> QED
  BY <1>1, <1>2, <1>3 DEF Inv
-----------------------------------------------------------------------------
(* Steps that write no session and move no lock. *)

LEMMA QuietStep ==
  ASSUME Inv, UNCHANGED sessions, jar' \in Jar(Len(sessions)), call' \in [Calls -> Call],
         out' \in [Tabs -> Out(Len(sessions))], active' \in BOOLEAN, now' \in Nat, losses' \in Nat,
         flight' \in [Calls -> Flight(Len(sessions))],
         UNCHANGED flight \/ \E c \in Calls : /\ flight'[c].pc \notin Locked
                                              /\ \A d \in Calls \ {c} : flight'[d] = flight[d]
  PROVE  Inv'
<1>1. TypeOK'
  BY Typed, TypeStep DEF Inv
<1>2. ChainOK'
  BY DEF Inv, ChainOK, LinkOK
<1>3. LocksOK'
  <2>1. CASE UNCHANGED flight
    BY <2>1 DEF Inv, LocksOK, LockOK
  <2>2. CASE ~UNCHANGED flight
    <3>1. PICK c \in Calls : /\ flight'[c].pc \notin Locked
                             /\ \A d \in Calls \ {c} : flight'[d] = flight[d]
      BY <2>2
    <3>2. \A d \in Calls : flight[d].pc = "rotating" => ~sessions'[flight[d].token].revoked
      BY DEF Inv, LocksOK, LockOK
    <3> QED
      BY <3>1, <3>2, LocksMove DEF Inv, Locked
  <2> QED
    BY <2>1, <2>2
<1> QED
  BY <1>1, <1>2, <1>3 DEF Inv

LEMMA CallInv ==
  ASSUME Inv, NEW c \in Calls, Ask(c) \/ Refuse(c) \/ Answer(c)
  PROVE  Inv'
<1>1. UNCHANGED <<sessions, active, jar, flight, out, now, losses>>
  BY DEF Ask, Refuse, Answer
<1>2. call' \in [Calls -> Call]
  <2>1. call \in [Calls -> Call] /\ jar.access \in Nat
    BY Typed DEF Inv, Jar
  <2>2. CASE Ask(c)
    <3> DEFINE x == [NoCall EXCEPT !.pc = "sent", !.access = jar.access]
    <3>1. x \in Call /\ call' = [call EXCEPT ![c] = x]
      BY <2>1, <2>2 DEF Ask, NoCall, Call
    <3> HIDE DEF x
    <3> QED
      BY <2>1, <3>1
  <2>3. CASE Refuse(c)
    BY <2>1, <2>3 DEF Refuse, Call
  <2>4. CASE Answer(c)
    <3>1. NoCall \in Call
      BY DEF NoCall, Call
    <3> QED
      BY <2>1, <2>4, <3>1 DEF Answer
  <2> QED
    BY <2>2, <2>3, <2>4
<1> QED
  BY <1>1, <1>2, Typed, QuietStep DEF Inv

LEMMA ParkInv ==
  ASSUME Inv, NEW c \in Calls, Park(c)
  PROVE  Inv'
<1>1. UNCHANGED <<sessions, active, jar, out, now, losses>>
  BY DEF Park
<1>2. call' \in [Calls -> Call]
  BY Typed DEF Park, Call, Inv
<1> DEFINE x == [NoFlight EXCEPT !.pc = "sent", !.token = jar.refresh]
<1>3. x \in Flight(Len(sessions)) /\ x.pc = "sent"
  <2>1. jar.refresh \in 0..Len(sessions) /\ 0 \in 0..Len(sessions)
    BY Typed DEF Jar, Inv
  <2> QED
    BY <2>1 DEF NoFlight, Flight
<1>4. flight' = flight \/ flight' = [flight EXCEPT ![c] = x]
  BY DEF Park
<1> HIDE DEF x
<1>5. /\ flight' \in [Calls -> Flight(Len(sessions))]
      /\ UNCHANGED flight \/ /\ flight'[c].pc \notin Locked
                             /\ \A d \in Calls \ {c} : flight'[d] = flight[d]
  BY <1>3, <1>4, Typed DEF Inv, Locked
<1> QED
  BY <1>1, <1>2, <1>5, Typed, QuietStep DEF Inv

\* The end of a refresh: nothing is held any more.
LEMMA FlightEnds ==
  ASSUME Inv, NEW c \in Calls, flight' = [flight EXCEPT ![c] = NoFlight]
  PROVE  /\ flight' \in [Calls -> Flight(Len(sessions))]
         /\ flight'[c].pc \notin Locked /\ \A d \in Calls \ {c} : flight'[d] = flight[d]
<1>1. NoFlight \in Flight(Len(sessions)) /\ NoFlight.pc \notin Locked
  BY Typed DEF NoFlight, Flight, Locked, Inv
<1> QED
  BY <1>1, Typed DEF Inv

LEMMA EndInv ==
  ASSUME Inv, NEW c \in Calls, Renewed(c) \/ NotRenewed(c) \/ Lose(c)
  PROVE  Inv'
<1>1. /\ flight' = [flight EXCEPT ![c] = NoFlight] /\ UNCHANGED <<sessions, active, out, now>>
      /\ losses' = losses \/ losses' = losses + 1
  BY DEF Renewed, NotRenewed, Lose, FailParked
<1>2. losses' \in Nat
  BY <1>1, Typed DEF Inv
<1>3. flight[c] \in Flight(Len(sessions)) /\ jar \in Jar(Len(sessions)) /\ call \in [Calls -> Call]
  BY Typed DEF Inv
<1>4. call' \in [Calls -> Call]
  <2>1. CASE Renewed(c)
    <3>1. flight[c].access \in Nat
      BY <1>3 DEF Flight
    <3>2. ASSUME NEW d \in Calls
          PROVE  [call[d] EXCEPT !.pc = "sent", !.access = flight[c].access, !.again = TRUE] \in Call
      <4>1. call[d] \in Call
        BY <1>3
      <4> QED
        BY <3>1, <4>1 DEF Call
    <3> QED
      BY <1>3, <2>1, <3>2 DEF Renewed
  <2>2. CASE ~Renewed(c)
    <3>1. NoCall \in Call
      BY DEF NoCall, Call
    <3> QED
      BY <1>3, <2>2, <3>1 DEF NotRenewed, Lose, FailParked
  <2> QED
    BY <2>1, <2>2
<1>5. jar' \in Jar(Len(sessions))
  <2>1. jar' = jar \/ jar' = [refresh |-> flight[c].fresh, access |-> flight[c].access]
    BY DEF Renewed, NotRenewed, Lose, FailParked
  <2>2. flight[c].fresh \in 0..Len(sessions) /\ flight[c].access \in Nat
    BY <1>3 DEF Flight
  <2> QED
    BY <1>3, <2>1, <2>2 DEF Jar
<1>6. /\ flight' \in [Calls -> Flight(Len(sessions))]
      /\ flight'[c].pc \notin Locked /\ \A d \in Calls \ {c} : flight'[d] = flight[d]
  BY <1>1, FlightEnds
<1> QED
  BY <1>1, <1>2, <1>4, <1>5, <1>6, Typed, QuietStep DEF Inv

LEMMA VictimInv ==
  ASSUME Inv, NEW c \in Calls, DeadlockVictim(c)
  PROVE  Inv'
<1>1. flight' = [flight EXCEPT ![c].pc = "refused"] /\ UNCHANGED <<sessions, active, jar, call, out, now, losses>>
  BY DEF DeadlockVictim
<1>2. /\ flight' \in [Calls -> Flight(Len(sessions))]
      /\ flight'[c].pc \notin Locked /\ \A d \in Calls \ {c} : flight'[d] = flight[d]
  BY <1>1, Typed DEF Inv, Flight, Locked
<1> QED
  BY <1>1, <1>2, Typed, QuietStep DEF Inv

LEMMA OtherInv ==
  ASSUME Inv, Deactivate \/ Tick \/ UNCHANGED vars \/ \E t \in Tabs : Logout(t) \/ LoggedOut(t)
  PROVE  Inv'
<1>1. UNCHANGED <<sessions, call, flight, losses>>
  BY DEF Deactivate, Tick, vars, Logout, LoggedOut
<1>2. active' \in BOOLEAN /\ now' \in Nat
  <2>1. active' = active \/ active' = FALSE
    BY DEF Deactivate, Tick, vars, Logout, LoggedOut
  <2>2. now' = now \/ now' = now + 1
    BY DEF Deactivate, Tick, vars, Logout, LoggedOut
  <2>3. active \in BOOLEAN /\ now \in Nat
    BY Typed DEF Inv
  <2>4. active' \in BOOLEAN
    BY <2>1, <2>3
  <2>5. now' \in Nat
    BY <2>2, <2>3
  <2> QED
    BY <2>4, <2>5
<1>3. jar' \in Jar(Len(sessions))
  <2>1. jar' = jar \/ jar' = [refresh |-> 0, access |-> 0]
    BY DEF Deactivate, Tick, vars, Logout, LoggedOut
  <2> QED
    BY <2>1, Typed DEF Inv, Jar
<1>4. out' \in [Tabs -> Out(Len(sessions))]
  <2>1. ASSUME NEW t \in Tabs, Logout(t) PROVE out' \in [Tabs -> Out(Len(sessions))]
    <3>1. [pc |-> "sent", token |-> jar.refresh] \in Out(Len(sessions))
      BY Typed DEF Inv, Jar, Out
    <3> QED
      BY <2>1, <3>1, Typed DEF Inv, Logout
  <2>2. ASSUME NEW t \in Tabs, LoggedOut(t) PROVE out' \in [Tabs -> Out(Len(sessions))]
    <3>1. NoLogout \in Out(Len(sessions))
      BY Typed DEF Inv, NoLogout, Out
    <3> QED
      BY <2>2, <3>1, Typed DEF Inv, LoggedOut
  <2> QED
    BY <2>1, <2>2, Typed DEF Inv, Deactivate, Tick, vars
<1> QED
  BY <1>1, <1>2, <1>3, <1>4, Typed, QuietStep DEF Inv
-----------------------------------------------------------------------------
(* Steps that write sessions. *)

\* Every session of the table is of a family that some login started.
LEMMA LoginInv ==
  ASSUME Inv, Login
  PROVE  Inv'
<1> DEFINE l == Len(sessions)  n == l + 1  x == NewRow(n)
<1>1. /\ sessions' = Append(sessions, x)
      /\ jar' = [refresh |-> n, access |-> now + AccessTTL]
      /\ UNCHANGED <<active, call, flight, out, now, losses>>
  BY DEF Login
<1>2. /\ l \in Nat /\ n \in Nat /\ DOMAIN sessions = 1..l /\ now \in Nat /\ sessions \in Seq(Row(n))
      /\ \A i \in DOMAIN sessions : sessions[i] \in Row(l)
      /\ flight \in [Calls -> Flight(n)] /\ out \in [Tabs -> Out(n)]
  BY Typed, Grown DEF Inv
<1>3. /\ x.family = n /\ x.next = 0 /\ ~x.revoked /\ x \in Row(n)
  BY <1>2, LifetimeAssumption DEF NewRow, Row
<1> HIDE DEF x
<1>4. /\ sessions' \in Seq(Row(n)) /\ Len(sessions') = n
      /\ DOMAIN sessions' = DOMAIN sessions \union {n} /\ n \notin DOMAIN sessions
      /\ \A i \in DOMAIN sessions : sessions'[i] = sessions[i]
      /\ sessions'[n] = x
  BY <1>1, <1>2, <1>3, Appended
<1>5. jar' \in Jar(n)
  BY <1>1, <1>2, LifetimeAssumption DEF Jar
<1>10. n = l + 1
  OBVIOUS
<1> HIDE DEF n, l
<1>11. flight' \in [Calls -> Flight(n)] /\ out' \in [Tabs -> Out(n)]
  BY <1>1, <1>2
<1>6. TypeOK'
  <2>2. call' \in [Calls -> Call] /\ active' \in BOOLEAN /\ now' \in Nat /\ losses' \in Nat
    BY <1>1, Typed DEF Inv
  <2> QED
    BY <1>2, <1>4, <1>5, <1>11, <2>2, TypeStep
<1>7. \A i \in DOMAIN sessions : sessions[i].family # n
  BY <1>2, <1>10 DEF Row
<1>8. ASSUME NEW i \in DOMAIN sessions' PROVE LinkOK(i)'
  <2>1. CASE i \in DOMAIN sessions
    BY <1>3, <1>4, <1>7, <2>1 DEF Inv, ChainOK, LinkOK
  <2>2. CASE i = n
    BY <1>2, <1>3, <1>4, <1>10, <2>2 DEF LinkOK
  <2> QED
    BY <1>4, <2>1, <2>2
<1>9. LocksOK'
  BY <1>1, <1>4, LocksStay DEF Inv, LocksOK, LockOK, Locked
<1> QED
  BY <1>6, <1>8, <1>9 DEF Inv, ChainOK

\* A step that only revokes rows, none of them about to be rotated, and may
\* end the locks of one refresh.
LEMMA RevokeStep ==
  ASSUME Inv, NEW S, sessions' = Revoke(sessions, S), NEW c \in Calls,
         UNCHANGED <<active, jar, call, now, losses>>,
         out' \in [Tabs -> Out(Len(sessions))], flight' \in [Calls -> Flight(Len(sessions))],
         flight'[c].pc \notin Locked, \A d \in Calls \ {c} : flight'[d] = flight[d],
         \A d \in Calls \ {c} : flight[d].pc = "rotating" => flight[d].token \notin S
  PROVE  Inv'
<1>1. TypeOK'
  BY Marked, Typed, TypeStep DEF Inv
<1>2. ChainOK'
  BY MarkedChain DEF Inv
<1>3. \A d \in Calls \ {c} : flight[d].pc = "rotating" => ~sessions'[flight[d].token].revoked
  BY Marked DEF Inv, LocksOK, LockOK, Locked
<1>4. LocksOK'
  BY <1>3, Marked, LocksMove DEF Inv, Locked
<1> QED
  BY <1>1, <1>2, <1>4 DEF Inv

LEMMA RefreshLockInv ==
  ASSUME Inv, NEW c \in Calls, RefreshLock(c)
  PROVE  Inv'
<1> DEFINE k == flight[c].token
<1>1. /\ flight[c].pc = "sent" /\ RowFree(c, k) /\ UNCHANGED <<active, jar, call, out, now, losses>>
      /\ \/ k = 0 /\ flight' = [flight EXCEPT ![c].pc = "refused"] /\ UNCHANGED sessions
         \/ /\ k # 0 /\ sessions[k].revoked /\ UNCHANGED sessions
            /\ flight' = [flight EXCEPT ![c].pc = "revoking", ![c].snap = Len(sessions)]
         \/ /\ k # 0 /\ flight' = [flight EXCEPT ![c].pc = "refused"]
            /\ sessions' = Revoke(sessions, {k})
         \/ /\ k # 0 /\ ~sessions[k].revoked /\ UNCHANGED sessions
            /\ flight' = [flight EXCEPT ![c].pc = "rotating"]
  BY DEF RefreshLock
<1>2. /\ flight \in [Calls -> Flight(Len(sessions))] /\ flight[c] \in Flight(Len(sessions))
      /\ k \in 0..Len(sessions) /\ Len(sessions) \in Nat /\ DOMAIN sessions = 1..Len(sessions)
  BY Typed DEF Inv, Flight
<1>3. \A d \in Calls \ {c} : flight[d].pc \in Locked => flight[d].token # k
  BY <1>1 DEF RowFree, RowLocks, Locked
<1> HIDE DEF k
<1>4. CASE flight' = [flight EXCEPT ![c].pc = "refused"]
  <2>1. /\ flight' \in [Calls -> Flight(Len(sessions))]
        /\ flight'[c].pc \notin Locked /\ \A d \in Calls \ {c} : flight'[d] = flight[d]
    BY <1>2, <1>4 DEF Flight, Locked
  <2>2. CASE UNCHANGED sessions
    BY <1>1, <2>1, <2>2, Typed, QuietStep DEF Inv
  <2>3. CASE sessions' = Revoke(sessions, {k})
    BY <1>1, <1>3, <2>1, <2>3, Typed, RevokeStep DEF Inv, Locked
  <2> QED
    BY <1>1, <1>4, <2>1, <2>2, <2>3 DEF Locked
<1>5. CASE \E pc \in Locked, snap \in 0..Len(sessions) :
             /\ flight' = [flight EXCEPT ![c].pc = pc, ![c].snap = snap]
             /\ k # 0 /\ UNCHANGED sessions /\ (pc = "rotating" => ~sessions[k].revoked)
  <2>1. PICK pc \in Locked, snap \in 0..Len(sessions) :
             /\ flight' = [flight EXCEPT ![c].pc = pc, ![c].snap = snap]
             /\ k # 0 /\ UNCHANGED sessions /\ (pc = "rotating" => ~sessions[k].revoked)
    BY <1>5
  <2>2. /\ flight' \in [Calls -> Flight(Len(sessions))]
        /\ flight'[c].pc = pc /\ flight'[c].token = k
        /\ \A d \in Calls \ {c} : flight'[d] = flight[d]
    BY <1>2, <2>1 DEF Flight, Locked, k
  <2>3. TypeOK'
    BY <1>1, <2>1, <2>2, Typed, TypeStep DEF Inv
  <2>4. ChainOK'
    BY <2>1 DEF Inv, ChainOK, LinkOK
  <2>5. \A d \in Calls : flight[d].pc = "rotating" => ~sessions'[flight[d].token].revoked
    BY <2>1 DEF Inv, LocksOK, LockOK
  <2>6. k \in DOMAIN sessions'
    BY <1>2, <2>1
  <2>7. LocksOK'
    BY <1>3, <2>1, <2>2, <2>5, <2>6, LocksMove DEF Inv
  <2> QED
    BY <2>3, <2>4, <2>7 DEF Inv
<1>6. [flight EXCEPT ![c].pc = "rotating"] = [flight EXCEPT ![c].pc = "rotating", ![c].snap = flight[c].snap]
  <2>1. [flight[c] EXCEPT !.pc = "rotating"] = [flight[c] EXCEPT !.pc = "rotating", !.snap = flight[c].snap]
    BY <1>2 DEF Flight
  <2> QED
    BY <1>2, <2>1
<1>7. flight[c].snap \in 0..Len(sessions) /\ Len(sessions) \in 0..Len(sessions)
  BY <1>2 DEF Flight
<1> QED
  BY <1>1, <1>4, <1>5, <1>6, <1>7 DEF Locked

LEMMA RotateInv ==
  ASSUME Inv, NEW c \in Calls, RotateCommit(c)
  PROVE  Inv'
<1> DEFINE k == flight[c].token  m == Len(sessions)  n == m + 1
           x == NewRow(sessions[k].family)
           old == [sessions EXCEPT ![k].revoked = TRUE, ![k].next = n]
<1>1. /\ flight[c].pc = "rotating" /\ sessions' = Append(old, x)
      /\ flight' = [flight EXCEPT ![c].pc = "renewed", ![c].fresh = n,
                                  ![c].access = now + AccessTTL]
      /\ UNCHANGED <<active, jar, call, out, now, losses>>
  BY DEF RotateCommit
<1>2. /\ m \in Nat /\ DOMAIN sessions = 1..m /\ now \in Nat /\ sessions \in Seq(Row(n))
      /\ \A i \in DOMAIN sessions : sessions[i] \in Row(m)
      /\ flight \in [Calls -> Flight(n)] /\ out \in [Tabs -> Out(n)] /\ jar \in Jar(n)
  BY Typed, Grown DEF Inv
<1>3. k \in DOMAIN sessions /\ ~sessions[k].revoked
  BY <1>1 DEF Inv, LocksOK, LockOK, Locked
<1>4. sessions[k].next = 0 /\ \A j \in DOMAIN sessions : sessions[j].family = sessions[k].family => j <= k
  <2>1. LinkOK(k)
    BY <1>3 DEF Inv, ChainOK
  <2> QED
    BY <1>2, <1>3, <2>1 DEF LinkOK
<1> DEFINE f == sessions[k].family
<1>5. f \in 1..m
  BY <1>2, <1>3 DEF Row
<1>6. x.family = f /\ x.next = 0 /\ ~x.revoked /\ x \in Row(n)
  BY <1>2, <1>5, LifetimeAssumption DEF NewRow, Row
<1>7. /\ old \in Seq(Row(n)) /\ Len(old) = m /\ DOMAIN old = DOMAIN sessions
      /\ old[k].family = f /\ old[k].next = n /\ old[k].revoked
      /\ \A i \in DOMAIN sessions \ {k} : old[i] = sessions[i]
  <2> DEFINE y == [sessions[k] EXCEPT !.revoked = TRUE, !.next = n]
  <2>1. y \in Row(n) /\ y.family = f /\ y.next = n /\ y.revoked
    <3>1. sessions[k] \in Row(n) /\ n \in 0..n
      BY <1>2, <1>3
    <3> HIDE DEF n
    <3> QED
      BY <3>1 DEF Row
  <2>2. old = [sessions EXCEPT ![k] = y]
    BY <1>2, <1>3
  <2> HIDE DEF y, old, n
  <2> QED
    BY <1>2, <1>3, <2>1, <2>2
<1>8. \A i \in DOMAIN sessions : old[i].family = sessions[i].family
  BY <1>7
<1> HIDE DEF x, old, f
<1>9. /\ sessions' \in Seq(Row(n)) /\ Len(sessions') = n
      /\ DOMAIN sessions' = DOMAIN sessions \union {n} /\ n \notin DOMAIN sessions
      /\ \A i \in DOMAIN sessions : sessions'[i] = old[i]
      /\ sessions'[n] = x
  BY <1>1, <1>2, <1>6, <1>7, Appended
<1>10. /\ flight' \in [Calls -> Flight(n)] /\ flight'[c].pc = "renewed"
       /\ \A d \in Calls \ {c} : flight'[d] = flight[d]
  <2> DEFINE y == [flight[c] EXCEPT !.pc = "renewed", !.fresh = n, !.access = now + AccessTTL]
  <2>1. flight[c] \in Flight(n) /\ n \in 0..n /\ now + AccessTTL \in Nat
    BY <1>2, LifetimeAssumption
  <2>2. y \in Flight(n) /\ y.pc = "renewed"
    BY <2>1 DEF Flight
  <2>3. flight' = [flight EXCEPT ![c] = y]
    BY <1>1
  <2> HIDE DEF y, n
  <2> QED
    BY <1>2, <2>2, <2>3
<1>11. TypeOK'
  BY <1>1, <1>2, <1>9, <1>10, Typed, TypeStep DEF Inv
<1>12. ASSUME NEW i \in DOMAIN sessions' PROVE LinkOK(i)'
  <2>1. CASE i = n
    BY <1>2, <1>6, <1>9, <2>1 DEF LinkOK
  <2>2. CASE i = k
    <3>1. /\ sessions'[k].next = n /\ sessions'[k].revoked /\ sessions'[k].family = f
          /\ sessions'[n].family = f
      BY <1>3, <1>6, <1>7, <1>9
    <3>2. k < n /\ n # 0 /\ n \in DOMAIN sessions'
      BY <1>2, <1>3, <1>9
    <3>3. \A j \in DOMAIN sessions' : k < j /\ sessions'[j].family = f => j = n
      BY <1>2, <1>3, <1>4, <1>8, <1>9 DEF f
    <3> QED
      BY <1>2, <2>2, <3>1, <3>2, <3>3 DEF LinkOK
  <2>3. CASE i \in DOMAIN sessions /\ i # k
    <3>1. LinkOK(i) /\ sessions'[i] = sessions[i]
      BY <1>7, <1>9, <2>3 DEF Inv, ChainOK
    <3>2. \A j \in DOMAIN sessions : sessions'[j].family = sessions[j].family
      BY <1>8, <1>9
    <3>3. \A j \in DOMAIN sessions' : i < j /\ sessions'[i].family = sessions'[j].family =>
            sessions'[i].next # 0 /\ sessions'[i].next <= j
      <4>1. ASSUME NEW j \in DOMAIN sessions, i < j, sessions'[i].family = sessions'[j].family
            PROVE  sessions'[i].next # 0 /\ sessions'[i].next <= j
        BY <2>3, <3>1, <3>2, <4>1 DEF LinkOK
      <4>2. ASSUME sessions'[i].family = f
            PROVE  sessions'[i].next # 0 /\ sessions'[i].next <= n
        <5>1. i < k /\ sessions[i].family = sessions[k].family
          BY <1>2, <1>3, <1>4, <2>3, <3>1, <4>2 DEF f
        <5>2. sessions[i].next # 0 /\ sessions[i].next <= k /\ sessions[i].next \in Nat
          <6>1. sessions[i].next \in Nat
            <7>1. sessions[i] \in Row(m)
              BY <1>2, <2>3
            <7> QED
              BY <1>2, <7>1 DEF Row
          <6>2. sessions[i].next # 0 /\ sessions[i].next <= k
            BY <1>3, <3>1, <5>1 DEF LinkOK
          <6> QED
            BY <6>1, <6>2
        <5> QED
          BY <1>2, <1>3, <3>1, <5>2
      <4> QED
        BY <1>6, <1>9, <4>1, <4>2
    <3> QED
      BY <1>9, <2>3, <3>1, <3>2, <3>3 DEF LinkOK
  <2> QED
    BY <1>9, <2>1, <2>2, <2>3
<1>13. \A d \in Calls \ {c} : flight[d].pc = "rotating" => ~sessions'[flight[d].token].revoked
  <2>1. ASSUME NEW d \in Calls \ {c}, flight[d].pc = "rotating"
        PROVE  ~sessions'[flight[d].token].revoked
    <3>1. flight[d].token \in DOMAIN sessions /\ ~sessions[flight[d].token].revoked /\ flight[d].token # k
      BY <1>1, <2>1 DEF Inv, LocksOK, LockOK, Locked
    <3> QED
      BY <1>7, <1>9, <3>1
  <2> QED
    BY <2>1
<1>14. LocksOK'
  BY <1>9, <1>10, <1>13, LocksMove DEF Inv, Locked
<1> QED
  BY <1>11, <1>12, <1>14 DEF Inv, ChainOK

LEMMA RevokeFamilyInv ==
  ASSUME Inv, NEW c \in Calls, RevokeFamily(c)
  PROVE  Inv'
<1>1. PICK S : /\ S \subseteq Family(sessions[flight[c].token].family)
               /\ sessions' = Revoke(sessions, S)
  BY DEF RevokeFamily
<1>2. /\ flight' = [flight EXCEPT ![c].pc = "refused"]
      /\ UNCHANGED <<active, jar, call, out, now, losses>>
      /\ \A d \in Calls : ~Blocks(d, c)
  BY DEF RevokeFamily
<1>3. /\ flight' \in [Calls -> Flight(Len(sessions))]
      /\ flight'[c].pc \notin Locked /\ \A d \in Calls \ {c} : flight'[d] = flight[d]
  BY <1>2, Typed DEF Inv, Flight, Locked
<1>4. \A d \in Calls \ {c} : flight[d].pc = "rotating" => flight[d].token \notin S
  BY <1>1, <1>2 DEF Blocks, RowLocks
<1> QED
  BY <1>1, <1>2, <1>3, <1>4, Typed, RevokeStep DEF Inv

LEMMA LogoutCommitInv ==
  ASSUME Inv, NEW t \in Tabs, LogoutCommit(t)
  PROVE  Inv'
<1> DEFINE k == out[t].token
<1>1. /\ k \in {i \in DOMAIN sessions : ~sessions[i].revoked} => \A c \in Calls : k \notin RowLocks(c)
      /\ sessions' = Revoke(sessions, {k})
      /\ out' = [out EXCEPT ![t].pc = "answered"]
      /\ UNCHANGED <<active, jar, call, flight, now, losses>>
  BY DEF LogoutCommit
<1>2. out' \in [Tabs -> Out(Len(sessions))]
  BY <1>1, Typed DEF Inv, Out
<1>3. TypeOK'
  BY <1>1, <1>2, Marked, Typed, TypeStep DEF Inv
<1>4. ChainOK'
  BY <1>1, MarkedChain DEF Inv
<1>5. ASSUME NEW d \in Calls, flight[d].pc = "rotating"
      PROVE  ~sessions'[flight[d].token].revoked
  <2>1. flight[d].token \in DOMAIN sessions /\ ~sessions[flight[d].token].revoked
    BY <1>5 DEF Inv, LocksOK, LockOK, Locked
  <2>2. flight[d].token # k
    BY <1>1, <1>5, <2>1 DEF RowLocks
  <2> HIDE DEF k
  <2>3. \A i \in DOMAIN sessions : sessions'[i].revoked <=> (sessions[i].revoked \/ i \in {k})
    BY <1>1, Marked DEF Inv
  <2> QED
    BY <2>1, <2>2, <2>3
<1>6. LocksOK'
  BY <1>1, <1>5, Marked, LocksStay DEF Inv
<1> QED
  BY <1>3, <1>4, <1>6 DEF Inv

LEMMA NextInv == Inv /\ [Next]_vars => Inv'
<1> SUFFICES ASSUME Inv, [Next]_vars PROVE Inv'
  OBVIOUS
<1>1. CASE Login
  BY <1>1, LoginInv
<1>2. ASSUME NEW t \in Tabs, LogoutCommit(t) PROVE Inv'
  BY <1>2, LogoutCommitInv
<1>3. CASE Deactivate \/ Tick \/ UNCHANGED vars \/ \E t \in Tabs : Logout(t) \/ LoggedOut(t)
  BY <1>3, OtherInv
<1>4. ASSUME NEW c \in Calls, Ask(c) \/ Refuse(c) \/ Answer(c) PROVE Inv'
  BY <1>4, CallInv
<1>5. ASSUME NEW c \in Calls, Park(c) PROVE Inv'
  BY <1>5, ParkInv
<1>6. ASSUME NEW c \in Calls, RefreshLock(c) PROVE Inv'
  BY <1>6, RefreshLockInv
<1>7. ASSUME NEW c \in Calls, RotateCommit(c) PROVE Inv'
  BY <1>7, RotateInv
<1>8. ASSUME NEW c \in Calls, RevokeFamily(c) PROVE Inv'
  BY <1>8, RevokeFamilyInv
<1>9. ASSUME NEW c \in Calls, DeadlockVictim(c) PROVE Inv'
  BY <1>9, VictimInv
<1>10. ASSUME NEW c \in Calls, Renewed(c) \/ NotRenewed(c) \/ Lose(c) PROVE Inv'
  BY <1>10, EndInv
<1> QED
  BY <1>1, <1>2, <1>3, <1>4, <1>5, <1>6, <1>7, <1>8, <1>9, <1>10 DEF Next, Handle

LEMMA Invariant == Spec => []Inv
BY InitInv, NextInv, PTL DEF Spec
-----------------------------------------------------------------------------
(* The properties. *)

\* Type correctness: the tokens that login, refresh and logout of api.py and
\* the interceptor pass around are those of stored sessions, or none.
THEOREM TypeCorrect == Spec => []TypeOK
<1>1. Inv => TypeOK
  BY DEF Inv
<1> QED
  BY <1>1, Invariant, PTL

\* However many refreshes race for a family under the row locks of refresh,
\* one of its sessions at most is usable.
THEOREM OneLive == Spec => []OneLivePerFamily
<1>1. ASSUME Inv, NEW f \in Families
      PROVE  Cardinality({i \in Family(f) : ~sessions[i].revoked}) <= 1
  <2> DEFINE live == {i \in Family(f) : ~sessions[i].revoked}
  <2>1. ASSUME NEW i \in live, NEW j \in live PROVE i = j
    <3>1. /\ i \in DOMAIN sessions /\ j \in DOMAIN sessions
          /\ sessions[i].family = sessions[j].family
          /\ sessions[i].next = 0 /\ sessions[j].next = 0
      BY <1>1 DEF Family, Inv, ChainOK, LinkOK
    <3>2. ~(i < j) /\ ~(j < i)
      BY <1>1, <3>1 DEF Inv, ChainOK, LinkOK
    <3> QED
      BY <1>1, <3>1, <3>2, Typed DEF Inv
  <2>2. CASE live = {}
    BY <2>2, FS_EmptySet
  <2>3. CASE live # {}
    <3>1. PICK i \in live : TRUE
      BY <2>3
    <3>2. live = {i}
      BY <2>1, <3>1
    <3> HIDE DEF live
    <3>3. Cardinality(live) = 1
      BY <3>2, FS_Singleton
    <3> QED
      BY <3>3 DEF live
  <2> QED
    BY <2>2, <2>3
<1>2. Inv => OneLivePerFamily
  BY <1>1 DEF OneLivePerFamily
<1> QED
  BY <1>2, Invariant, PTL

\* refresh replaces the newest session of a family only, by the next one: the
\* sessions of a family are one chain, however refreshes and logouts overlap.
THEOREM ChainsOnly == Spec => []RotationIsAChain
<1>1. ASSUME Inv, NEW f \in Families, NEW i \in Family(f)
      PROVE  LET later == {j \in Family(f) : j > i} IN
             IF later = {} THEN sessions[i].next = 0
             ELSE sessions[i].next \in later /\ \A j \in later : sessions[i].next <= j
  <2> DEFINE later == {j \in Family(f) : j > i}
  <2>1. /\ i \in DOMAIN sessions /\ sessions[i].family = f /\ LinkOK(i)
        /\ DOMAIN sessions = 1..Len(sessions) /\ Len(sessions) \in Nat
    BY <1>1, Typed DEF Family, Inv, ChainOK
  <2>2. \A j \in later : j \in DOMAIN sessions /\ sessions[j].family = f /\ i < j
    BY <2>1 DEF Family
  <2>3. sessions[i].next # 0 => sessions[i].next \in later
    BY <2>1 DEF LinkOK, Family
  <2>4. \A j \in later : sessions[i].next # 0 /\ sessions[i].next <= j
    BY <2>1, <2>2 DEF LinkOK
  <2> QED
    BY <2>3, <2>4
<1>2. Inv => RotationIsAChain
  BY <1>1 DEF RotationIsAChain
<1> QED
  BY <1>2, Invariant, PTL
-----------------------------------------------------------------------------
(* One tab. *)

OneTab == \A c, d \in Calls : TabOf[c] = TabOf[d]

Unused(i) == i # 0 => i \in DOMAIN sessions /\ sessions[i].next = 0

\* What the tokens in the browser are worth while no answer was lost: none was
\* rotated, but for that of the jar between rotation and its answer.
FreshOK ==
  /\ \A c \in Calls : flight[c].pc \in {"sent", "rotating", "revoking"} => Unused(flight[c].token)
  /\ \A c \in Calls : flight[c].pc = "renewed" => Unused(flight[c].fresh)
  /\ Unused(jar.refresh) \/ \E c \in Calls : flight[c].pc = "renewed"

OneFlight == \A c, d \in Calls : flight[c].pc # "idle" /\ flight[d].pc # "idle" => c = d

TabInv == Inv /\ OneTab /\ OneFlight /\ (losses = 0 => FreshOK)

\* A refresh that goes on, or is refused.
GoesOn(c) ==
  \/ flight'[c] = flight[c]
  \/ flight[c].pc \in {"sent", "rotating", "revoking"} /\ flight'[c].pc = "refused"
  \/ flight[c].pc = "sent" /\ flight'[c].pc \in Locked /\ flight'[c].token = flight[c].token

\* Steps that rotate nothing.
LEMMA FreshStep ==
  ASSUME TabInv, UNCHANGED losses, DOMAIN sessions \subseteq DOMAIN sessions',
         \A i \in DOMAIN sessions : sessions'[i].next = sessions[i].next,
         \A c \in Calls : GoesOn(c),
         UNCHANGED jar \/ Unused(jar.refresh)'
  PROVE  OneFlight' /\ (losses' = 0 => FreshOK')
<1>1. \A i : Unused(i) => Unused(i)'
  BY DEF Unused
<1>2. OneFlight'
  BY DEF TabInv, OneFlight, GoesOn, Locked
<1>3. ASSUME losses' = 0 PROVE FreshOK'
  <2>1. FreshOK
    BY <1>3 DEF TabInv
  <2>2. ASSUME NEW c \in Calls, flight'[c].pc \in {"sent", "rotating", "revoking"}
        PROVE  Unused(flight[c].token)'
    BY <1>1, <2>1, <2>2 DEF FreshOK, GoesOn, Locked
  <2>3. ASSUME NEW c \in Calls, flight'[c].pc = "renewed"
        PROVE  Unused(flight[c].fresh)'
    BY <1>1, <2>1, <2>3 DEF FreshOK, GoesOn, Locked
  <2>4. Unused(jar.refresh)' \/ \E c \in Calls : flight'[c].pc = "renewed"
    <3>1. CASE Unused(jar.refresh)'
      BY <3>1
    <3>2. CASE UNCHANGED jar /\ Unused(jar.refresh)
      BY <1>1, <3>2 DEF Unused
    <3>3. CASE \E c \in Calls : flight[c].pc = "renewed"
      BY <3>3 DEF GoesOn
    <3> QED
      BY <2>1, <3>1, <3>2, <3>3 DEF FreshOK
  <2> QED
    BY <2>2, <2>3, <2>4 DEF FreshOK
<1> QED
  BY <1>2, <1>3

LEMMA ParkFresh ==
  ASSUME TabInv, NEW c \in Calls, Park(c)
  PROVE  OneFlight' /\ (losses' = 0 => FreshOK')
<1>1. UNCHANGED <<sessions, jar, losses>>
  BY DEF Park
<1>2. CASE UNCHANGED flight
  BY <1>1, <1>2, FreshStep DEF GoesOn
<1>3. CASE ~UNCHANGED flight
  <2> DEFINE x == [NoFlight EXCEPT !.pc = "sent", !.token = jar.refresh]
  <2>1. flight' = [flight EXCEPT ![c] = x] /\ ~InFlight(TabOf[c])
    BY <1>3 DEF Park
  <2>2. \A d \in Calls : flight[d].pc = "idle"
    BY <2>1 DEF InFlight, TabInv, OneTab
  <2>3. x.pc = "sent" /\ x.token = jar.refresh
    BY DEF NoFlight
  <2> HIDE DEF x
  <2>4. flight'[c] = x /\ \A d \in Calls \ {c} : flight'[d].pc = "idle"
    BY <2>1, <2>2, Typed DEF TabInv, Inv
  <2>5. losses = 0 => Unused(jar.refresh)
    BY <2>2 DEF TabInv, FreshOK
  <2>6. losses' = 0 => Unused(jar.refresh)'
    BY <1>1, <2>5 DEF Unused
  <2>7. (losses' = 0 => \A d \in Calls : flight'[d].pc \in {"sent", "rotating", "revoking"} =>
                          Unused(flight[d].token)')
    BY <1>1, <2>3, <2>4, <2>5 DEF Unused
  <2> QED
    BY <2>3, <2>4, <2>6, <2>7 DEF OneFlight, FreshOK
<1> QED
  BY <1>2, <1>3

LEMMA RotateFresh ==
  ASSUME TabInv, NEW c \in Calls, RotateCommit(c)
  PROVE  OneFlight' /\ (losses' = 0 => FreshOK')
<1> DEFINE k == flight[c].token  n == Len(sessions) + 1
           x == NewRow(sessions[k].family)
           old == [sessions EXCEPT ![k].revoked = TRUE, ![k].next = n]
           y == [flight[c] EXCEPT !.pc = "renewed", !.fresh = n, !.access = now + AccessTTL]
<1>1. /\ flight[c].pc = "rotating" /\ sessions' = Append(old, x) /\ flight' = [flight EXCEPT ![c] = y]
      /\ UNCHANGED <<jar, losses>>
  BY DEF RotateCommit
<1>2. \A d \in Calls \ {c} : flight[d].pc = "idle"
  BY <1>1 DEF TabInv, OneFlight
<1>3. y.pc = "renewed" /\ y.fresh = n
  BY Typed DEF TabInv, Inv, Flight
<1>4. n \in DOMAIN sessions' /\ sessions'[n].next = 0
  <2>1. x.next = 0
    BY DEF NewRow
  <2>2. Len(old) = Len(sessions) /\ old \in Seq({old[i] : i \in DOMAIN old}) /\ n \in Nat
    <3>1. DOMAIN old = 1..Len(sessions) /\ Len(sessions) \in Nat
      BY Typed DEF TabInv, Inv
    <3> HIDE DEF old
    <3>2. old = [i \in 1..Len(sessions) |-> old[i]]
      BY <1>1, <3>1, Typed DEF TabInv, Inv, old
    <3> QED
      BY <3>1, <3>2
  <2> HIDE DEF old, x
  <2> QED
    BY <1>1, <2>1, <2>2
<1> HIDE DEF y, n
<1>5. flight'[c] = y /\ \A d \in Calls \ {c} : flight'[d].pc = "idle"
  BY <1>1, <1>2, Typed DEF TabInv, Inv
<1>6. Unused(flight[c].fresh)'
  BY <1>3, <1>4, <1>5 DEF Unused
<1>7. OneFlight'
  BY <1>5 DEF OneFlight
<1>8. FreshOK'
  BY <1>3, <1>5, <1>6 DEF FreshOK
<1> QED
  BY <1>7, <1>8

LEMMA EndFresh ==
  ASSUME TabInv, NEW c \in Calls, Renewed(c) \/ NotRenewed(c) \/ Lose(c)
  PROVE  OneFlight' /\ (losses' = 0 => FreshOK')
<1>1. /\ flight' = [flight EXCEPT ![c] = NoFlight] /\ UNCHANGED sessions
      /\ losses' = losses \/ Lose(c)
      /\ flight[c].pc # "idle"
  BY DEF Renewed, NotRenewed, Lose, FailParked
<1>2. \A d \in Calls : flight'[d].pc = "idle"
  BY <1>1, Typed DEF TabInv, OneFlight, NoFlight, Inv
<1>3. OneFlight'
  BY <1>2 DEF OneFlight
<1>4. ASSUME losses' = 0 PROVE Unused(jar.refresh)'
  <2>1. ~Lose(c) /\ losses = 0
    BY <1>1, <1>4, Typed DEF Lose, TabInv, Inv
  <2>2. FreshOK /\ \A d \in Calls \ {c} : flight[d].pc = "idle"
    BY <1>1, <2>1 DEF TabInv, OneFlight
  <2>3. CASE Renewed(c)
    BY <1>1, <2>2, <2>3 DEF Renewed, FreshOK, Unused
  <2>4. CASE NotRenewed(c)
    <3>1. jar' = jar /\ flight[c].pc = "refused"
      BY <2>4 DEF NotRenewed, FailParked
    <3>2. Unused(jar.refresh)
      BY <2>2, <3>1 DEF FreshOK
    <3> QED
      BY <1>1, <3>1, <3>2 DEF Unused
  <2> QED
    BY <2>1, <2>3, <2>4
<1> QED
  BY <1>2, <1>3, <1>4 DEF FreshOK

LEMMA LoginFresh ==
  ASSUME TabInv, Login
  PROVE  OneFlight' /\ (losses' = 0 => FreshOK')
<1> DEFINE n == Len(sessions) + 1  x == NewRow(n)
<1>1. /\ sessions' = Append(sessions, x) /\ jar'.refresh = n /\ x.next = 0
      /\ UNCHANGED <<flight, losses>>
  BY DEF Login, NewRow
<1> HIDE DEF x
<1>2. sessions \in Seq({sessions[i] : i \in DOMAIN sessions}) /\ n \in Nat
      /\ DOMAIN sessions = 1..Len(sessions) /\ Len(sessions) \in Nat
  BY Typed DEF TabInv, Inv
<1>3. /\ DOMAIN sessions \subseteq DOMAIN sessions' /\ n \in DOMAIN sessions'
      /\ \A i \in DOMAIN sessions : sessions'[i] = sessions[i]
      /\ sessions'[n] = x
  BY <1>1, <1>2
<1> HIDE DEF n
<1>4. Unused(jar.refresh)'
  BY <1>1, <1>3 DEF Unused
<1> QED
  BY <1>1, <1>3, <1>4, FreshStep DEF GoesOn

\* Revocations rotate nothing.
LEMMA RevokeFresh ==
  ASSUME TabInv, \/ \E c \in Calls : RefreshLock(c) \/ RevokeFamily(c) \/ DeadlockVictim(c)
                 \/ \E t \in Tabs : LogoutCommit(t)
  PROVE  OneFlight' /\ (losses' = 0 => FreshOK')
<1>1. UNCHANGED <<jar, losses>> /\ (UNCHANGED sessions \/ \E S : sessions' = Revoke(sessions, S))
  BY DEF RefreshLock, RevokeFamily, DeadlockVictim, LogoutCommit
<1>2. /\ DOMAIN sessions \subseteq DOMAIN sessions'
      /\ \A i \in DOMAIN sessions : sessions'[i].next = sessions[i].next
  BY <1>1, Marked DEF TabInv, Inv
<1>3. ASSUME NEW d \in Calls PROVE GoesOn(d)
  <2>1. ASSUME NEW c \in Calls, RefreshLock(c) PROVE GoesOn(d)
    <3>1. /\ flight[c].pc = "sent"
          /\ \/ flight' = [flight EXCEPT ![c].pc = "refused"]
             \/ flight' = [flight EXCEPT ![c].pc = "revoking", ![c].snap = Len(sessions)]
             \/ flight' = [flight EXCEPT ![c].pc = "rotating"]
      BY <2>1 DEF RefreshLock
    <3>2. CASE d = c
      BY <3>1, <3>2, Typed DEF GoesOn, Locked, TabInv, Inv, Flight
    <3>3. CASE d # c
      BY <3>1, <3>3, Typed DEF GoesOn, TabInv, Inv
    <3> QED
      BY <3>2, <3>3
  <2>2. ASSUME NEW c \in Calls, RevokeFamily(c) \/ DeadlockVictim(c) PROVE GoesOn(d)
    <3>1. flight[c].pc = "revoking" /\ flight' = [flight EXCEPT ![c].pc = "refused"]
      BY <2>2 DEF RevokeFamily, DeadlockVictim
    <3> QED
      BY <3>1, Typed DEF GoesOn, TabInv, Inv, Flight
  <2>3. ASSUME NEW t \in Tabs, LogoutCommit(t) PROVE GoesOn(d)
    BY <2>3 DEF LogoutCommit, GoesOn
  <2> QED
    BY <2>1, <2>2, <2>3
<1> QED
  BY <1>1, <1>2, <1>3, FreshStep

LEMMA QuietFresh ==
  ASSUME TabInv, UNCHANGED <<sessions, flight, losses>>, jar' = jar \/ jar'.refresh = 0
  PROVE  OneFlight' /\ (losses' = 0 => FreshOK')
<1>1. UNCHANGED jar \/ Unused(jar.refresh)'
  BY DEF Unused
<1> QED
  BY <1>1, FreshStep DEF GoesOn

LEMMA TabNext == TabInv /\ [Next]_vars => TabInv'
<1> SUFFICES ASSUME TabInv, [Next]_vars PROVE TabInv'
  OBVIOUS
<1> DEFINE Goal == OneFlight' /\ (losses' = 0 => FreshOK')
<1>1. ASSUME Login PROVE Goal
  BY <1>1, LoginFresh
<1>2. ASSUME NEW c \in Calls, Park(c) PROVE Goal
  BY <1>2, ParkFresh
<1>3. ASSUME NEW c \in Calls, RotateCommit(c) PROVE Goal
  BY <1>3, RotateFresh
<1>4. ASSUME NEW c \in Calls, Renewed(c) \/ NotRenewed(c) \/ Lose(c) PROVE Goal
  BY <1>4, EndFresh
<1>5. ASSUME NEW c \in Calls, RefreshLock(c) \/ RevokeFamily(c) \/ DeadlockVictim(c) PROVE Goal
  BY <1>5, RevokeFresh
<1>6. ASSUME NEW t \in Tabs, LogoutCommit(t) PROVE Goal
  BY <1>6, RevokeFresh
<1>7. ASSUME NEW c \in Calls, Ask(c) \/ Refuse(c) \/ Answer(c) PROVE Goal
  BY <1>7, QuietFresh DEF Ask, Refuse, Answer
<1>8. ASSUME NEW t \in Tabs, Logout(t) \/ LoggedOut(t) PROVE Goal
  <2>1. UNCHANGED <<sessions, flight, losses>> /\ (jar' = jar \/ jar'.refresh = 0)
    BY <1>8 DEF Logout, LoggedOut
  <2> QED
    BY <2>1, QuietFresh
<1>9. ASSUME Deactivate \/ Tick \/ UNCHANGED vars PROVE Goal
  <2>1. UNCHANGED <<sessions, flight, losses, jar>>
    BY <1>9 DEF Deactivate, Tick, vars
  <2> QED
    BY <2>1, QuietFresh
<1> HIDE DEF Goal
<1>10. Goal
  BY <1>1, <1>2, <1>3, <1>4, <1>5, <1>6, <1>7, <1>8, <1>9 DEF Next, Handle
<1>11. Inv' /\ OneTab'
  BY NextInv DEF TabInv, OneTab
<1> QED
  BY <1>10, <1>11 DEF TabInv, Goal

\* If all calls are of one tab and no answer was lost, refreshRequest of the
\* interceptor sees to it that refresh of api.py is never shown a token that
\* was rotated: no call of the user's own revokes the family.
THEOREM OneTabIsTrusted ==
  ASSUME \A c, d \in Calls : TabOf[c] = TabOf[d]
  PROVE  Spec => []NoFalseReuse
<1>1. Init => TabInv
  BY InitInv DEF TabInv, OneTab, OneFlight, FreshOK, Init, NoFlight, Unused
<1>2. TabInv => NoFalseReuse
  <2> SUFFICES ASSUME TabInv, NEW c \in Calls, flight[c].pc = "revoking", ~(losses > 0)
               PROVE  sessions[flight[c].token].next = 0
    BY DEF NoFalseReuse
  <2>1. losses = 0
    BY Typed DEF TabInv, Inv
  <2>2. flight[c].token \in DOMAIN sessions /\ DOMAIN sessions = 1..Len(sessions) /\ Len(sessions) \in Nat
    BY Typed DEF TabInv, Inv, LocksOK, LockOK, Locked
  <2> QED
    BY <2>1, <2>2 DEF TabInv, FreshOK, Unused
<1> QED
  BY <1>1, <1>2, TabNext, PTL DEF Spec
=============================================================================
