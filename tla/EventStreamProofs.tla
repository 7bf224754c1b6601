-------------------------- MODULE EventStreamProofs --------------------------
(***************************************************************************)
(* Proofs about EventStream, for every number of writers and every limit   *)
(* of a poll: the page receives events in order and once, and misses one   *)
(* only if another one overtook it.                                        *)
(***************************************************************************)
EXTENDS EventStream, FiniteSetTheorems, SequenceTheorems, TLAPS

\* Rows in the order of their stamps, none of them twice.
Ordered(s, stamps) ==
  \A i, j \in DOMAIN s : i < j => s[i] # s[j] /\ stamps[s[i]] <= stamps[s[j]]

\* A batch is sorted, comes after all that was received, and whatever its poll
\* could see before one of its rows is in it.
BatchOK ==
  /\ ~online => batch = <<>>
  /\ Ordered(batch, table)
  /\ \A i \in DOMAIN batch : cursor <= table[batch[i]] /\ batch[i] \notin Range(got)
  /\ \A i \in DOMAIN batch, e \in DOMAIN table :
       e < batch[i] /\ cursor < table[e] /\ table[e] < table[batch[i]] => e \in Range(batch)

\* The stream's cursor is the stamp of the last event received.
CursorOK == online => cursor = IF got = <<>> THEN start ELSE table[Last(got)]

ReceivedOK == Ordered(got, table)

\* MissedOnlyIfOvertaken, without the clock.
MissedOK ==
  \A e \in DOMAIN table : Waiting(e) =>
    IF online THEN e \in Range(batch) \/ table[e] > cursor
              ELSE got = <<>> \/ table[e] > table[Last(got)]

Inv == TypeOK /\ ReceivedOK /\ BatchOK /\ CursorOK /\ MissedOK
-----------------------------------------------------------------------------
LEMMA Nothing == \A S : <<>> \in Seq(S) /\ Len(<<>>) = 0 /\ DOMAIN <<>> = {}
  OBVIOUS

LEMMA SeqGrows ==
  ASSUME NEW S, NEW T, S \subseteq T, NEW s \in Seq(S)
  PROVE  s \in Seq(T)
  OBVIOUS

LEMMA Typed ==
  ASSUME TypeOK
  PROVE  /\ now \in Nat /\ cursor \in Nat /\ start \in Nat /\ drops \in Nat
         /\ cursor <= now /\ start <= now /\ online \in BOOLEAN /\ closed \in BOOLEAN
         /\ pending \in [Writers -> SUBSET (0..now)]
         /\ Len(table) \in Nat /\ DOMAIN table = 1..Len(table) /\ table \in Seq(0..now)
         /\ \A i \in DOMAIN table : table[i] \in Nat /\ table[i] <= now
         /\ Len(batch) \in Nat /\ DOMAIN batch = 1..Len(batch) /\ Len(batch) <= Limit
         /\ batch \in Seq(DOMAIN table) /\ \A i \in DOMAIN batch : batch[i] \in DOMAIN table
         /\ Len(got) \in Nat /\ DOMAIN got = 1..Len(got)
         /\ got \in Seq(DOMAIN table) /\ \A i \in DOMAIN got : got[i] \in DOMAIN table
<1>1. \A i \in DOMAIN table : table[i] \in 0..now
  BY DEF TypeOK
<1>2. now \in Nat /\ cursor \in 0..now /\ start \in 0..now
  BY DEF TypeOK
<1> QED
  BY <1>1, <1>2 DEF TypeOK

\* Nothing received is younger than the last event received.
LEMMA Latest ==
  ASSUME TypeOK, ReceivedOK, got # <<>>
  PROVE  /\ Last(got) \in DOMAIN table /\ Len(got) \in DOMAIN got /\ Last(got) = got[Len(got)]
         /\ \A k \in DOMAIN got : table[got[k]] <= table[Last(got)]
<1>1. Len(got) \in DOMAIN got /\ Last(got) = got[Len(got)]
  BY Typed, EmptySeq DEF Last
<1>2. ASSUME NEW k \in DOMAIN got PROVE table[got[k]] <= table[Last(got)]
  <2>1. k = Len(got) \/ k < Len(got)
    BY Typed
  <2>2. table[got[Len(got)]] \in Nat
    BY <1>1, Typed
  <2>3. CASE k < Len(got)
    BY <1>1, <1>2, <2>3 DEF ReceivedOK, Ordered
  <2> QED
    BY <1>1, <2>1, <2>2, <2>3
<1> QED
  BY <1>1, <1>2, Typed
-----------------------------------------------------------------------------
LEMMA InitInv == Init => Inv
<1> SUFFICES ASSUME Init PROVE Inv
  OBVIOUS
<1>1. TypeOK
  <2>1. /\ now = 0 /\ cursor = 0 /\ start = 0 /\ drops = 0 /\ online = FALSE /\ closed = FALSE
        /\ pending = [w \in Writers |-> {}]
        /\ table = <<>> /\ batch = <<>> /\ got = <<>>
    BY DEF Init
  <2>2. pending \in [Writers -> SUBSET (0..now)]
    BY <2>1
  <2>3. table \in Seq(0..now) /\ batch \in Seq(DOMAIN table) /\ got \in Seq(DOMAIN table)
    BY <2>1, Nothing
  <2>4. Len(batch) <= Limit
    BY <2>1, Nothing, LimitAssumption
  <2>5. now \in Nat /\ cursor \in 0..now /\ start \in 0..now /\ drops \in Nat
    BY <2>1
  <2>6. online \in BOOLEAN /\ closed \in BOOLEAN
    BY <2>1
  <2> QED
    BY <2>2, <2>3, <2>4, <2>5, <2>6 DEF TypeOK
<1>2. ReceivedOK /\ BatchOK /\ CursorOK /\ MissedOK
  BY DEF Init, ReceivedOK, BatchOK, CursorOK, MissedOK, Ordered
<1> QED
  BY <1>1, <1>2 DEF Inv

\* Steps of the clock, of transactions that are not committed, and refusals.
LEMMA QuietInv ==
  ASSUME Inv, UNCHANGED <<table, online, cursor, batch, got, start, drops>>,
         closed' \in BOOLEAN, now' \in Nat, now <= now',
         pending' \in [Writers -> SUBSET (0..now')]
  PROVE  Inv'
<1>1. /\ table' = table /\ online' = online /\ cursor' = cursor /\ batch' = batch
      /\ got' = got /\ start' = start /\ drops' = drops
  OBVIOUS
<1>2. 0..now \subseteq 0..now'
  BY Typed DEF Inv
<1>3. table \in Seq(0..now') /\ cursor \in 0..now' /\ start \in 0..now'
  BY <1>2, Typed DEF Inv, TypeOK
<1>4. TypeOK'
  BY <1>1, <1>3 DEF Inv, TypeOK
<1>5. ReceivedOK' /\ BatchOK' /\ CursorOK' /\ MissedOK'
  BY <1>1 DEF Inv, ReceivedOK, BatchOK, CursorOK, MissedOK, Ordered, Waiting, Overtaken
<1> QED
  BY <1>4, <1>5 DEF Inv

\* A commit adds a row that comes after the others in commit order: if it is
\* older than one received it was overtaken.
LEMMA CommitInv ==
  ASSUME Inv, NEW w \in Writers, Commit(w)
  PROVE  Inv'
<1>1. PICK stamp \in pending[w] : table' = Append(table, stamp)
  BY DEF Commit
<1> DEFINE n == Len(table) + 1
<1>2. stamp \in 0..now /\ now \in Nat /\ Len(table) \in Nat /\ n \in Nat
  BY Typed DEF Inv
<1>3. /\ table' \in Seq(0..now) /\ Len(table') = n /\ table'[n] = stamp
      /\ \A i \in DOMAIN table : table'[i] = table[i]
  BY <1>1, <1>2, Typed, AppendProperties DEF Inv
<1>4. /\ DOMAIN table' = 1..n /\ DOMAIN table = 1..Len(table)
      /\ DOMAIN table \subseteq DOMAIN table' /\ n \notin DOMAIN table
      /\ \A e \in DOMAIN table' : e \in DOMAIN table \/ e = n
      /\ \A i \in DOMAIN table : i < n
  <2>1. DOMAIN table' = 1..n
    BY <1>3
  <2>2. DOMAIN table = 1..Len(table)
    BY Typed DEF Inv
  <2> QED
    BY <1>2, <2>1, <2>2
<1>5. /\ now' = now /\ online' = online /\ closed' = closed /\ cursor' = cursor /\ batch' = batch
      /\ got' = got /\ start' = start /\ drops' = drops /\ pending' = [pending EXCEPT ![w] = {}]
  BY DEF Commit, server
<1> HIDE DEF n
<1>6. TypeOK'
  <2>1. batch \in Seq(DOMAIN table') /\ got \in Seq(DOMAIN table')
    <3>1. batch \in Seq(DOMAIN table) /\ got \in Seq(DOMAIN table)
      BY Typed DEF Inv
    <3> QED
      BY <1>4, <3>1, SeqGrows
  <2>2. pending' \in [Writers -> SUBSET (0..now)]
    BY <1>5, Typed DEF Inv
  <2> QED
    BY <1>3, <1>5, <2>1, <2>2 DEF Inv, TypeOK
<1>7. ReceivedOK'
  <2>1. \A k \in DOMAIN got : table'[got[k]] = table[got[k]]
    BY <1>3, Typed DEF Inv
  <2> QED
    BY <1>5, <2>1 DEF Inv, ReceivedOK, Ordered
<1>8. BatchOK'
  <2>1. ASSUME NEW i \in DOMAIN batch, NEW e \in DOMAIN table',
               e < batch[i], cursor < table'[e], table'[e] < table'[batch[i]]
        PROVE  e \in Range(batch)
    <3>1. batch[i] \in DOMAIN table /\ batch[i] < n
      BY <1>4, Typed DEF Inv
    <3>2. e \in DOMAIN table
      BY <1>2, <1>4, <2>1, <3>1
    <3>3. table'[e] = table[e] /\ table'[batch[i]] = table[batch[i]]
      BY <1>3, <3>1, <3>2
    <3> QED
      BY <2>1, <3>1, <3>2, <3>3 DEF Inv, BatchOK
  <2>2. \A i \in DOMAIN batch : table'[batch[i]] = table[batch[i]]
    BY <1>3, Typed DEF Inv
  <2> QED
    BY <1>5, <2>1, <2>2 DEF Inv, BatchOK, Ordered
<1>9. CursorOK'
  <2>1. got # <<>> => table'[Last(got)] = table[Last(got)]
    BY <1>3, Latest DEF Inv
  <2> QED
    BY <1>5, <2>1 DEF Inv, CursorOK
<1>10. MissedOK'
  <2> SUFFICES ASSUME NEW e \in DOMAIN table', Waiting(e)'
               PROVE  IF online THEN e \in Range(batch) \/ table'[e] > cursor
                                ELSE got = <<>> \/ table'[e] > table'[Last(got)]
    BY <1>5 DEF MissedOK
  <2>1. /\ table'[e] > start /\ e \notin Range(got)
        /\ \A k \in DOMAIN got : /\ table'[got[k]] # table'[e]
                                 /\ ~(table'[got[k]] > table'[e] /\ got[k] < e)
    BY <1>5 DEF Waiting, Overtaken
  <2>2. \A k \in DOMAIN got : got[k] \in DOMAIN table /\ table'[got[k]] = table[got[k]]
    BY <1>3, Typed DEF Inv
  <2>3. got # <<>> => Last(got) \in DOMAIN table /\ table'[Last(got)] = table[Last(got)]
    BY <1>3, Latest DEF Inv
  <2>4. CASE e \in DOMAIN table
    <3>1. table'[e] = table[e]
      BY <1>3, <2>4
    <3>2. Waiting(e)
      BY <2>1, <2>2, <2>4, <3>1 DEF Waiting, Overtaken
    <3> QED
      BY <2>3, <2>4, <3>1, <3>2 DEF Inv, MissedOK
  <2>5. CASE e = n
    <3>1. table'[e] = stamp /\ stamp \in Nat
      BY <1>2, <1>3, <2>5
    <3>2. ASSUME got # <<>> PROVE table'[e] > table'[Last(got)]
      <4>1. PICK k \in DOMAIN got : got[k] = Last(got)
        BY <3>2, Latest DEF Inv
      <4>2. got[k] < e /\ table'[got[k]] = table[got[k]] /\ table[got[k]] \in Nat
        BY <1>4, <2>2, <2>5, Typed DEF Inv
      <4> QED
        BY <2>1, <3>1, <4>1, <4>2
    <3>3. ASSUME online PROVE table'[e] > cursor
      BY <2>1, <2>3, <3>2, <3>3 DEF Inv, CursorOK
    <3> QED
      BY <3>2, <3>3
  <2> QED
    BY <1>4, <2>4, <2>5
<1> QED
  BY <1>6, <1>7, <1>8, <1>9, <1>10 DEF Inv
-----------------------------------------------------------------------------
(* stream_events *)

\* A connection resumes where the last one stopped.
LEMMA ConnectInv ==
  ASSUME Inv, Connect
  PROVE  Inv'
<1>1. /\ ~online /\ online' = TRUE /\ cursor' = From /\ batch' = <<>>
      /\ start' = IF got = <<>> THEN now ELSE start
      /\ closed' = closed
      /\ table' = table /\ pending' = pending /\ now' = now /\ got' = got /\ drops' = drops
  BY DEF Connect
<1>2. cursor' = IF got = <<>> THEN now ELSE table[Last(got)]
  BY <1>1 DEF From
<1>3. cursor' \in 0..now /\ start' \in 0..now
  BY <1>1, <1>2, Typed, Latest DEF Inv
<1>4. TypeOK'
  BY <1>1, <1>3, LimitAssumption DEF Inv, TypeOK
<1>5. ReceivedOK' /\ BatchOK' /\ CursorOK'
  BY <1>1, <1>2 DEF Inv, ReceivedOK, BatchOK, CursorOK, Ordered
<1>6. MissedOK'
  <2> SUFFICES ASSUME NEW e \in DOMAIN table, Waiting(e)' PROVE table[e] > cursor'
    BY <1>1 DEF MissedOK
  <2>1. CASE got = <<>>
    BY <1>1, <1>2, <2>1 DEF Waiting
  <2>2. CASE got # <<>>
    <3>1. Waiting(e)
      BY <1>1, <2>2 DEF Waiting, Overtaken
    <3> QED
      BY <1>1, <1>2, <2>2, <3>1 DEF Inv, MissedOK
  <2> QED
    BY <2>1, <2>2
<1> QED
  BY <1>4, <1>5, <1>6 DEF Inv

\* What is lost with a connection is asked for again by the next.
LEMMA DropInv ==
  ASSUME Inv, Drop
  PROVE  Inv'
<1>1. /\ online /\ online' = FALSE /\ batch' = <<>> /\ drops' = drops + 1
      /\ closed' = closed /\ table' = table /\ pending' = pending /\ now' = now /\ cursor' = cursor
      /\ got' = got /\ start' = start
  BY DEF Drop
<1>2. TypeOK'
  <2>1. batch' \in Seq(DOMAIN table) /\ Len(batch') <= Limit
    BY <1>1, Nothing, LimitAssumption
  <2>2. drops' \in Nat
    BY <1>1, Typed DEF Inv
  <2> QED
    BY <1>1, <2>1, <2>2 DEF Inv, TypeOK
<1>3. ReceivedOK' /\ BatchOK' /\ CursorOK'
  BY <1>1 DEF Inv, ReceivedOK, BatchOK, CursorOK, Ordered
<1>4. MissedOK'
  <2> SUFFICES ASSUME NEW e \in DOMAIN table, Waiting(e), got # <<>>
               PROVE  table[e] > table[Last(got)]
    BY <1>1 DEF MissedOK, Waiting, Overtaken
  <2>1. cursor = table[Last(got)] /\ Len(got) \in DOMAIN got /\ Last(got) = got[Len(got)]
    BY <1>1, Latest DEF Inv, CursorOK
  <2>2. e \in Range(batch) \/ table[e] > cursor
    BY <1>1 DEF Inv, MissedOK
  <2>3. ASSUME e \in Range(batch) PROVE table[e] >= cursor
    BY <2>3 DEF Inv, BatchOK, Range
  <2>4. table[e] # table[Last(got)]
    BY <2>1 DEF Waiting, Overtaken
  <2> QED
    BY <2>1, <2>2, <2>3, <2>4, Typed DEF Inv
<1> QED
  BY <1>2, <1>3, <1>4 DEF Inv

\* An ordering of a finite set has all of its elements.
LEMMA AllListed ==
  ASSUME NEW S, IsFiniteSet(S), NEW b \in SetToSeqs(S), NEW e \in S
  PROVE  \E i \in 1..Cardinality(S) : b[i] = e
<1> DEFINE N == Cardinality(S)  D == 1..N
<1>1. N \in Nat /\ IsFiniteSet(D) /\ Cardinality(D) = N
  BY FS_CardinalityType, FS_Interval
<1>2. b \in [D -> S] /\ \A i, j \in D : i # j => b[i] # b[j]
  BY DEF SetToSeqs
<1>3. IsFiniteSet(S \ {e}) /\ Cardinality(S \ {e}) = N - 1
  BY FS_RemoveElement
<1> HIDE DEF N, D
<1>4. SUFFICES ASSUME \A i \in D : b[i] # e PROVE FALSE
  BY DEF D, N
<1>5. b \in [D -> S \ {e}]
  BY <1>2, <1>4
<1>6. Cardinality(S \ {e}) < Cardinality(D)
  BY <1>1, <1>3
<1> QED
  BY <1>1, <1>2, <1>3, <1>5, <1>6, FS_PigeonHole

\* A poll returns rows after the cursor in the order of their stamps, and none
\* it leaves out is older than one it returns.
LEMMA PollRows ==
  ASSUME Inv, Poll
  PROVE  /\ batch' \in Seq(DOMAIN table) /\ Len(batch') <= Limit
         /\ \A i \in DOMAIN batch' : batch'[i] \in NewRows
         /\ Ordered(batch', table)
         /\ \A i \in DOMAIN batch', e \in NewRows :
              table[e] < table[batch'[i]] => e \in Range(batch')
<1>1. PICK b \in SetToSeqs(NewRows) :
        /\ \A i, j \in DOMAIN b : i < j => table[b[i]] <= table[b[j]]
        /\ batch' = FirstRows(b)
  BY DEF Poll
<1> DEFINE n == Cardinality(NewRows)  m == IF n < Limit THEN n ELSE Limit
<1>2. IsFiniteSet(NewRows) /\ n \in Nat /\ NewRows \subseteq DOMAIN table
  <2>1. IsFiniteSet(DOMAIN table)
    BY Typed, FS_Interval DEF Inv
  <2> QED
    BY <2>1, FS_Subset, FS_CardinalityType DEF NewRows
<1>3. /\ b \in [1..n -> NewRows] /\ \A i, j \in 1..n : i # j => b[i] # b[j]
      /\ b \in Seq(NewRows) /\ Len(b) = n
  BY <1>2 DEF SetToSeqs
<1>4. \A e \in NewRows : \E i \in 1..n : b[i] = e
  BY <1>2, AllListed
<1>5. m \in Nat /\ m <= n /\ m <= Limit /\ Limit \in Nat /\ (m = n \/ m = Limit)
  BY <1>2, LimitAssumption
<1>6. batch' = SubSeq(b, 1, m)
  BY <1>1, <1>3 DEF FirstRows
<1> HIDE DEF n, m
<1>7. /\ batch' \in Seq(NewRows) /\ Len(batch') = m
      /\ \A i \in 1..m : batch'[i] = b[i]
  <2>1. \A i \in 1..m : b[i] \in NewRows
    BY <1>2, <1>3, <1>5
  <2>2. /\ SubSeq(b, 1, m) \in Seq(NewRows)
        /\ Len(SubSeq(b, 1, m)) = IF 1 <= m THEN m - 1 + 1 ELSE 0
        /\ \A i \in 1..(m - 1 + 1) : SubSeq(b, 1, m)[i] = b[1 + i - 1]
    BY <1>5, <2>1, SubSeqProperties
  <2> QED
    BY <1>5, <1>6, <2>2
<1>8. DOMAIN batch' = 1..m /\ \A i \in 1..m : i \in 1..n /\ batch'[i] = b[i] /\ b[i] \in NewRows
  BY <1>2, <1>3, <1>5, <1>7
<1>9. batch' \in Seq(DOMAIN table) /\ Len(batch') <= Limit
  BY <1>2, <1>5, <1>7
<1>10. ASSUME NEW i \in 1..m, NEW j \in 1..m, i < j
       PROVE  batch'[i] # batch'[j] /\ table[batch'[i]] <= table[batch'[j]]
  BY <1>1, <1>3, <1>8, <1>10
<1>11. ASSUME NEW i \in 1..m, NEW e \in NewRows, table[e] < table[batch'[i]]
       PROVE  e \in Range(batch')
  <2>1. PICK j \in 1..n : b[j] = e
    BY <1>4
  <2>2. table[b[j]] < table[b[i]] /\ i \in 1..n /\ table[b[i]] \in Nat /\ table[b[j]] \in Nat
    BY <1>2, <1>8, <1>11, <2>1, Typed DEF Inv
  <2>3. ~(i < j) /\ i # j
    <3>1. i < j => table[b[i]] <= table[b[j]]
      BY <1>1, <1>3, <2>2
    <3> QED
      BY <2>2, <3>1
  <2>4. j \in 1..m
    BY <1>2, <1>5, <2>3
  <2> QED
    BY <1>8, <2>1, <2>4 DEF Range
<1> QED
  BY <1>8, <1>9, <1>10, <1>11 DEF Ordered

LEMMA PollInv ==
  ASSUME Inv, Poll
  PROVE  Inv'
<1>1. /\ online /\ batch = <<>>
      /\ table' = table /\ pending' = pending /\ now' = now /\ online' = online /\ closed' = closed
      /\ cursor' = cursor /\ got' = got /\ start' = start /\ drops' = drops
  BY DEF Poll
<1>2. TypeOK'
  BY <1>1, PollRows DEF Inv, TypeOK
<1>3. ReceivedOK' /\ CursorOK'
  BY <1>1 DEF Inv, ReceivedOK, CursorOK, Ordered
<1>4. \A i \in DOMAIN batch' :
        batch'[i] \in DOMAIN table /\ cursor < table[batch'[i]]
  BY PollRows DEF NewRows
<1>5. ASSUME NEW k \in DOMAIN got PROVE table[got[k]] <= cursor
  <2>1. got # <<>>
    BY <1>5, Nothing
  <2> QED
    BY <1>1, <1>5, <2>1, Latest DEF Inv, CursorOK
<1>6. BatchOK'
  <2>1. \A i \in DOMAIN batch' : cursor <= table[batch'[i]] /\ batch'[i] \notin Range(got)
    BY <1>4, <1>5, Typed DEF Inv, Range
  <2>2. Ordered(batch', table')
    BY <1>1, PollRows
  <2>3. \A i \in DOMAIN batch', e \in DOMAIN table :
          cursor < table[e] /\ table[e] < table[batch'[i]] => e \in Range(batch')
    BY PollRows DEF NewRows
  <2> QED
    BY <1>1, <2>1, <2>2, <2>3 DEF BatchOK
<1>7. MissedOK'
  <2> SUFFICES ASSUME NEW e \in DOMAIN table, Waiting(e) PROVE table[e] > cursor
    BY <1>1 DEF MissedOK, Waiting, Overtaken
  <2> QED
    BY <1>1, EmptySeq DEF Inv, MissedOK, Range
<1> QED
  BY <1>2, <1>3, <1>6, <1>7 DEF Inv

\* The oldest row of the batch becomes the last event received.
LEMMA YieldInv ==
  ASSUME Inv, Yield
  PROVE  Inv'
<1> DEFINE h == Head(batch)
<1>1. /\ online /\ batch # <<>> /\ got' = Append(got, h) /\ batch' = Tail(batch)
      /\ cursor' = Advance(h)
      /\ table' = table /\ pending' = pending /\ now' = now /\ online' = online /\ closed' = closed
      /\ start' = start /\ drops' = drops
  BY DEF Yield
<1>2. /\ Len(batch) \in Nat /\ Len(batch) > 0 /\ h = batch[1] /\ 1 \in DOMAIN batch
      /\ h \in DOMAIN table /\ table[h] \in Nat /\ table[h] <= now
  BY <1>1, Typed, EmptySeq DEF Inv
<1>3. /\ batch' \in Seq(DOMAIN table) /\ Len(batch') = Len(batch) - 1
      /\ DOMAIN batch' = 1..(Len(batch) - 1)
      /\ \A i \in DOMAIN batch' : i + 1 \in DOMAIN batch /\ 1 < i + 1 /\ batch'[i] = batch[i + 1]
  <2>1. batch \in Seq(DOMAIN table) /\ DOMAIN batch = 1..Len(batch)
    BY Typed DEF Inv
  <2>2. /\ batch' \in Seq(DOMAIN table) /\ Len(batch') = Len(batch) - 1
        /\ \A i \in 1..Len(batch') : batch'[i] = batch[i + 1]
    BY <1>1, <2>1, HeadTailProperties
  <2>3. DOMAIN batch' = 1..Len(batch')
    BY <2>2
  <2> QED
    BY <1>2, <2>1, <2>2, <2>3
<1>4. /\ got' \in Seq(DOMAIN table) /\ got' # <<>> /\ Len(got') = Len(got) + 1
      /\ DOMAIN got' = 1..(Len(got) + 1) /\ got'[Len(got) + 1] = h
      /\ \A i \in DOMAIN got : i \in DOMAIN got' /\ got'[i] = got[i]
      /\ \A i \in DOMAIN got' : i \in DOMAIN got \/ i = Len(got) + 1
  <2>1. got \in Seq(DOMAIN table) /\ DOMAIN got = 1..Len(got) /\ Len(got) \in Nat
    BY Typed DEF Inv
  <2> HIDE DEF h
  <2>2. /\ got' \in Seq(DOMAIN table) /\ got' # <<>> /\ Len(got') = Len(got) + 1
        /\ \A i \in 1..Len(got) : got'[i] = got[i]
        /\ got'[Len(got) + 1] = h
    BY <1>1, <1>2, <2>1, AppendProperties
  <2>3. DOMAIN got' = 1..Len(got')
    BY <2>2
  <2> QED
    BY <2>1, <2>2, <2>3
<1> HIDE DEF h
<1>5. cursor <= table[h] /\ h \notin Range(got) /\ cursor' = table[h]
  <2>1. cursor <= table[h] /\ h \notin Range(got)
    BY <1>2 DEF Inv, BatchOK
  <2> QED
    BY <1>1, <1>2, <2>1, Typed DEF Inv, Advance
<1>6. \A k \in DOMAIN got : table[got[k]] <= table[h]
  <2>1. ASSUME NEW k \in DOMAIN got PROVE table[got[k]] <= cursor
    <3>1. got # <<>>
      BY <2>1, Nothing
    <3> QED
      BY <1>1, <2>1, <3>1, Latest DEF Inv, CursorOK
  <2> QED
    BY <1>2, <1>5, <2>1, Typed DEF Inv
<1>7. \A i \in DOMAIN batch' : batch'[i] # h /\ table[h] <= table[batch'[i]]
  BY <1>2, <1>3 DEF Inv, BatchOK, Ordered
<1>8. Range(got') = Range(got) \union {h}
  <2>1. \A x : x \in Range(got') <=> \E i \in DOMAIN got' : got'[i] = x
    BY DEF Range
  <2>2. \A x : x \in Range(got) <=> \E i \in DOMAIN got : got[i] = x
    BY DEF Range
  <2>3. Len(got) + 1 \in DOMAIN got'
    BY <1>4, Typed DEF Inv
  <2> QED
    BY <1>4, <2>1, <2>2, <2>3
<1>9. \A e \in Range(batch) : e # h => e \in Range(batch')
  <2> SUFFICES ASSUME NEW i \in DOMAIN batch, batch[i] # h PROVE batch[i] \in Range(batch')
    BY DEF Range
  <2>1. i # 1 /\ i \in 1..Len(batch)
    BY <1>2, Typed DEF Inv
  <2>2. i - 1 \in DOMAIN batch' /\ (i - 1) + 1 = i
    BY <1>2, <1>3, <2>1
  <2>3. batch'[i - 1] = batch[i]
    BY <1>3, <2>2
  <2> QED
    BY <2>2, <2>3 DEF Range
<1>10. TypeOK'
  <2>1. Len(batch') <= Limit
    BY <1>2, <1>3, Typed, LimitAssumption DEF Inv
  <2>2. cursor' \in 0..now
    BY <1>2, <1>5, Typed DEF Inv
  <2> QED
    BY <1>1, <1>3, <1>4, <2>1, <2>2 DEF Inv, TypeOK
<1>11. ReceivedOK'
  <2> SUFFICES ASSUME NEW i \in DOMAIN got', NEW j \in DOMAIN got', i < j
               PROVE  got'[i] # got'[j] /\ table[got'[i]] <= table[got'[j]]
    BY <1>1 DEF ReceivedOK, Ordered
  <2>1. i \in DOMAIN got
    BY <1>4, Typed DEF Inv
  <2>2. CASE j \in DOMAIN got
    BY <1>4, <2>1, <2>2 DEF Inv, ReceivedOK, Ordered
  <2>3. CASE j = Len(got) + 1
    BY <1>4, <1>5, <1>6, <2>1, <2>3 DEF Range
  <2> QED
    BY <1>4, <2>2, <2>3
<1>12. CursorOK'
  <2>1. Last(got') = h
    BY <1>4 DEF Last
  <2> QED
    BY <1>1, <1>4, <1>5, <2>1 DEF CursorOK
<1>13. BatchOK'
  <2>1. \A i, j \in DOMAIN batch : i < j => batch[i] # batch[j] /\ table[batch[i]] <= table[batch[j]]
    BY DEF Inv, BatchOK, Ordered
  <2>2. ASSUME NEW i \in DOMAIN batch', NEW j \in DOMAIN batch', i < j
        PROVE  batch'[i] # batch'[j] /\ table[batch'[i]] <= table[batch'[j]]
    <3>1. i + 1 \in DOMAIN batch /\ j + 1 \in DOMAIN batch /\ i + 1 < j + 1
      BY <1>2, <1>3, <2>2
    <3> QED
      BY <1>3, <2>1, <3>1
  <2>3. ASSUME NEW i \in DOMAIN batch'
        PROVE  cursor' <= table[batch'[i]] /\ batch'[i] \notin Range(got')
    BY <1>3, <1>5, <1>7, <1>8 DEF Inv, BatchOK
  <2>4. ASSUME NEW i \in DOMAIN batch', NEW e \in DOMAIN table, e < batch'[i],
               cursor' < table[e], table[e] < table[batch'[i]]
        PROVE  e \in Range(batch')
    <3>1. cursor < table[e] /\ e # h
      BY <1>2, <1>5, <2>4, Typed DEF Inv
    <3>2. e \in Range(batch)
      BY <1>3, <2>4, <3>1 DEF Inv, BatchOK
    <3> QED
      BY <1>9, <3>1, <3>2
  <2> QED
    BY <1>1, <2>2, <2>3, <2>4 DEF BatchOK, Ordered
<1>14. MissedOK'
  <2> SUFFICES ASSUME NEW e \in DOMAIN table, Waiting(e)'
               PROVE  e \in Range(batch') \/ table[e] > table[h]
    BY <1>1, <1>5 DEF MissedOK
  <2>1. /\ table[e] > start /\ e \notin Range(got')
        /\ \A k \in DOMAIN got' : /\ table[got'[k]] # table[e]
                                  /\ ~(table[got'[k]] > table[e] /\ got'[k] < e)
    BY <1>1 DEF Waiting, Overtaken
  <2>2. e # h /\ table[h] # table[e] /\ ~(table[h] > table[e] /\ h < e)
    <3>1. Len(got) + 1 \in DOMAIN got'
      BY <1>4, Typed DEF Inv
    <3> QED
      BY <1>4, <1>8, <2>1, <3>1
  <2>3. Waiting(e)
    BY <1>4, <1>8, <2>1 DEF Waiting, Overtaken
  <2>4. e \in Range(batch) \/ table[e] > cursor
    BY <1>1, <2>3 DEF Inv, MissedOK
  <2>5. CASE e \in Range(batch)
    BY <1>9, <2>2, <2>5
  <2>6. CASE table[e] > cursor /\ ~(table[e] > table[h])
    <3>1. table[e] < table[h] /\ e < h /\ cursor < table[e]
      BY <1>2, <2>2, <2>6, Typed DEF Inv
    <3>2. e \in Range(batch)
      BY <1>2, <3>1 DEF Inv, BatchOK
    <3> QED
      BY <1>9, <2>2, <3>2
  <2> QED
    BY <2>4, <2>5, <2>6
<1> QED
  BY <1>10, <1>11, <1>12, <1>13, <1>14 DEF Inv
-----------------------------------------------------------------------------
LEMMA NextInv == Inv /\ [Next]_vars => Inv'
<1> SUFFICES ASSUME Inv, [Next]_vars PROVE Inv'
  OBVIOUS
<1>1. CASE UNCHANGED vars
  BY <1>1, QuietInv, Typed DEF vars, server, Inv
<1>2. ASSUME NEW w \in Writers, Emit(w) \/ Rollback(w) PROVE Inv'
  <2>1. UNCHANGED <<table, server, got, start, drops>> /\ now' = now
    BY <1>2 DEF Emit, Rollback
  <2>2. pending' \in [Writers -> SUBSET (0..now)]
    <3>1. pending' = [pending EXCEPT ![w] = {now}] \/ pending' = [pending EXCEPT ![w] = {}]
      BY <1>2 DEF Emit, Rollback
    <3>2. {now} \in SUBSET (0..now) /\ {} \in SUBSET (0..now)
      BY Typed DEF Inv
    <3> QED
      BY <3>1, <3>2, Typed DEF Inv
  <2> QED
    BY <2>1, <2>2, QuietInv, Typed DEF Inv, server
<1>3. CASE Tick
  <2>1. /\ UNCHANGED <<table, server, got, start, drops>> /\ pending' = pending
        /\ now' \in Nat /\ now <= now' /\ 0..now \subseteq 0..now'
    BY <1>3, Typed DEF Inv, Tick
  <2>2. pending' \in [Writers -> SUBSET (0..now')]
    BY <2>1, Typed DEF Inv
  <2> QED
    BY <2>1, <2>2, QuietInv, Typed DEF Inv, server
<1>4. CASE Refused
  BY <1>4, QuietInv, Typed DEF Refused, Inv
<1> QED
  BY <1>1, <1>2, <1>3, <1>4, CommitInv, ConnectInv, PollInv, YieldInv, DropInv
     DEF Next, Open, Stream

LEMMA Invariant == Spec => []Inv
  BY InitInv, NextInv, PTL DEF Spec

\* stream_events of api.py keeps to the rows that exist, and its polls to
\* their limit.
THEOREM TypeCorrect == Spec => []TypeOK
<1>1. Inv => TypeOK
  BY DEF Inv
<1> QED
  BY <1>1, Invariant, PTL

\* The page is shown no event twice and none before an older one, although
\* stream_events reads the table again after every batch and every
\* reconnection, while emit_event of events.py goes on writing.
THEOREM ReceivedInOrder == Spec => []InOrderOnce
<1>1. Inv => InOrderOnce
  <2> SUFFICES ASSUME Inv PROVE InOrderOnce
    OBVIOUS
  <2>1. ASSUME NEW i \in DOMAIN got, NEW j \in DOMAIN got, got[i] = got[j] PROVE i = j
    <3>1. i < j \/ i = j \/ j < i
      BY Typed DEF Inv
    <3> QED
      BY <2>1, <3>1 DEF Inv, ReceivedOK, Ordered
  <2> QED
    BY <2>1 DEF Inv, ReceivedOK, Ordered, InOrderOnce, IsInjective
<1> QED
  BY <1>1, Invariant, PTL

\* What stream_events skips of the events stamped since the page connected was
\* overtaken: committed after a younger event that the page received, or of the
\* same instant as one that it received.  Neither the limit of a poll nor a
\* broken connection skips an event.
THEOREM OnlyOvertakenMissed == Spec => []MissedOnlyIfOvertaken
<1>1. Inv => MissedOnlyIfOvertaken
  BY DEF Inv, MissedOK, MissedOnlyIfOvertaken, ToCome, From
<1> QED
  BY <1>1, Invariant, PTL
=============================================================================
