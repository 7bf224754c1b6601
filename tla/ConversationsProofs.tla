------------------------ MODULE ConversationsProofs ------------------------
(***************************************************************************)
(* Theorems about Conversations, for any pages, conversations, calls and   *)
(* lists under way.                                                        *)
(*                                                                         *)
(* Rows travel: into lists and answers, onto pages, back in a click.  The  *)
(* invariant says that every row on its way is one the table once had, and *)
(* that the row a request has locked is the one in the table.              *)
(***************************************************************************)
EXTENDS Conversations, TLAPS, SequenceTheorems

CallTypes ==
  [pc : {"idle", "sent", "locked", "refused", "committed", "answered"},
   page : Pages \union {None}, id : Ids \union {None}, seen : Rows,
   to : Modes, actor : Pages \union {None}, answer : Rows]
FetchTypes == [pc : {"idle", "served"}, page : Pages \union {None},
               items : [Ids -> Rows]]
Changes == [seen : Rows, row : Rows]

\* r has a version that trail t knows; beyond the first, it is the row which the
\* trail has under that version.
KnownIn(t, r) ==
  /\ r.version \in 1..Len(t) + 1
  /\ r.version > 1 => r = t[r.version - 1].row

CallOK(x, rows, trails) ==
  /\ x.pc # "idle" => x.id \in Ids
  /\ x.pc \in {"sent", "locked"} =>
       /\ x.actor \in Pages
       /\ x.to = Offered(x.seen.mode)
       /\ KnownIn(trails[x.id], x.seen)
  /\ x.pc = "locked" => x.answer = rows[x.id]
  /\ x.pc = "answered" => KnownIn(trails[x.id], x.answer)

CallsOK == \A k \in Calls : CallOK(call[k], row, trail)

Exclusive ==
  \A j, k \in Calls :
    /\ call[j].pc = "locked" /\ call[k].pc = "locked"
    /\ call[j].id = call[k].id
    => j = k

FetchesOK ==
  \A f \in Fetches :
    fetch[f].pc = "served" =>
      /\ fetch[f].page \in Pages
      /\ \A c \in Ids : KnownIn(trail[c], fetch[f].items[c])

ListedOK ==
  \A p \in Pages, c \in Ids :
    listed[p][c] = Blank \/ KnownIn(trail[c], listed[p][c])

SelectedOK ==
  \A p \in Pages :
    \/ selected[p] = Nothing
    \/ /\ selected[p].id \in Ids
       /\ KnownIn(trail[selected[p].id], selected[p].row)

\* The trail t of a conversation leads to its row r.
LeadsTo(t, r) ==
  /\ r.version = Len(t) + 1
  /\ \A n \in 1..Len(t) : t[n].row.version = n + 1
  /\ \A n \in 2..Len(t) : t[n].seen = t[n-1].row
  /\ Len(t) > 0 => t[1].seen.version = 1 /\ r = t[Len(t)].row
  /\ Len(t) = 0 => r.mode # "HUMAN_ACTIVE"

TrailOK == \A c \in Ids : LeadsTo(trail[c], row[c])

\* The inductive invariant.
IInv == /\ TypeOK /\ CallsOK /\ Exclusive /\ FetchesOK
        /\ ListedOK /\ SelectedOK /\ TrailOK
-----------------------------------------------------------------------------
LEMMA Constants ==
  /\ Blank \in Rows /\ NoCall \in CallTypes /\ Nothing.row = Blank
  /\ NoFetch \in FetchTypes
  /\ Nothing \in [id : Ids \union {None}, row : Rows]
BY DEF Blank, Rows, NoCall, CallTypes, Nothing, NoFetch, FetchTypes, Modes

\* What was known stays known when a change is appended.
LEMMA KnownGrows ==
  ASSUME NEW t \in Seq(Changes), NEW e \in Changes, NEW r \in Rows, KnownIn(t, r)
  PROVE  KnownIn(Append(t, e), r)
BY AppendProperties DEF KnownIn, Rows

\* The row in the table is known.
LEMMA CurrentKnown ==
  ASSUME NEW t \in Seq(Changes), NEW r \in Rows, LeadsTo(t, r)
  PROVE  KnownIn(t, r)
BY LenProperties DEF KnownIn, LeadsTo, Rows
-----------------------------------------------------------------------------
\* The calls are as they should be after one of them became x.
LEMMA CallUpdate ==
  ASSUME IInv, NEW k \in Calls, NEW x \in CallTypes, UNCHANGED server,
         call' = [call EXCEPT ![k] = x],
         CallOK(x, row, trail),
         x.pc = "locked" => \A j \in Calls \ {k} :
           ~(call[j].pc = "locked" /\ call[j].id = x.id)
  PROVE  call' \in [Calls -> CallTypes] /\ CallsOK' /\ Exclusive'
<1>1. call \in [Calls -> CallTypes]
  BY DEF IInv, TypeOK, CallTypes
<1>2. call' \in [Calls -> CallTypes] /\ call'[k] = x
      /\ \A j \in Calls \ {k} : call'[j] = call[j]
  BY <1>1
<1>3. CallsOK'
  BY <1>2 DEF IInv, CallsOK, server
<1>4. Exclusive'
  BY <1>2 DEF IInv, Exclusive
<1> QED
  BY <1>2, <1>3, <1>4

\* A step that only moves calls.
LEMMA CallStep ==
  ASSUME IInv, NEW k \in Calls, NEW x \in CallTypes,
         UNCHANGED <<server, fetch, screen>>,
         call' = [call EXCEPT ![k] = x],
         CallOK(x, row, trail),
         x.pc = "locked" => \A j \in Calls \ {k} :
           ~(call[j].pc = "locked" /\ call[j].id = x.id)
  PROVE  IInv'
<1>1. call' \in [Calls -> CallTypes] /\ CallsOK' /\ Exclusive'
  BY CallUpdate
<1>2. TypeOK'
  BY <1>1 DEF IInv, TypeOK, CallTypes, server, screen
<1>3. FetchesOK' /\ ListedOK' /\ SelectedOK' /\ TrailOK'
  BY DEF IInv, FetchesOK, ListedOK, SelectedOK, TrailOK, server, screen
<1> QED
  BY <1>1, <1>2, <1>3 DEF IInv

LEMMA LockStep ==
  ASSUME IInv, NEW k \in Calls, Lock(k)
  PROVE  IInv'
<1> DEFINE x == [call[k] EXCEPT !.pc = "locked", !.answer = row[call[k].id]]
<1>1. call[k] \in CallTypes /\ call[k].id \in Ids /\ CallOK(call[k], row, trail)
  BY DEF IInv, TypeOK, CallTypes, CallsOK, CallOK, Lock
<1>2. x \in CallTypes
  BY <1>1 DEF IInv, TypeOK, CallTypes
<1>3. CallOK(x, row, trail)
  BY <1>1 DEF CallOK, CallTypes, Lock
<1>4. call' = [call EXCEPT ![k] = x] /\ UNCHANGED <<server, fetch, screen>>
  BY DEF IInv, TypeOK, Lock
<1>5. \A j \in Calls \ {k} : ~(call[j].pc = "locked" /\ call[j].id = x.id)
  BY <1>1 DEF Lock, RowFree, CallTypes
<1> QED
  BY <1>2, <1>3, <1>4, <1>5, CallStep

LEMMA EndStep ==
  ASSUME IInv, NEW k \in Calls,
         Refuse(k) \/ Reread(k) \/ Abort(k) \/ Explain(k) \/ Lose(k) \/ Drop(k)
  PROVE  IInv'
<1>0. call[k] \in CallTypes /\ CallOK(call[k], row, trail) /\ NoCall \in CallTypes
  BY Constants DEF IInv, TypeOK, CallTypes, CallsOK
<1>1. CASE Refuse(k)
  <2> DEFINE x == Closing(k, "refused")
  <2>1. x \in CallTypes /\ CallOK(x, row, trail) /\ x.pc # "locked"
    BY <1>0, <1>1 DEF Closing, CallTypes, CallOK, Refuse, NoCall
  <2>2. call' = [call EXCEPT ![k] = x] /\ UNCHANGED <<server, fetch, screen>>
    BY <1>1 DEF Refuse
  <2> QED
    BY <2>1, <2>2, CallStep
<1>2. CASE Reread(k)
  <2> DEFINE x == [call[k] EXCEPT !.pc = "answered", !.answer = row[call[k].id]]
  <2>1. call[k].id \in Ids /\ row[call[k].id] \in Rows
    BY <1>0, <1>2 DEF IInv, TypeOK, Reread, CallOK
  <2>2. KnownIn(trail[call[k].id], row[call[k].id])
    BY <2>1, CurrentKnown DEF IInv, TypeOK, TrailOK, Changes
  <2>3. x \in CallTypes /\ CallOK(x, row, trail) /\ x.pc # "locked"
    BY <1>0, <2>1, <2>2 DEF CallTypes, CallOK
  <2>4. call' = [call EXCEPT ![k] = x] /\ UNCHANGED <<server, fetch, screen>>
    BY <1>2 DEF Reread, IInv, TypeOK
  <2> QED
    BY <2>3, <2>4, CallStep
<1>3. CASE Abort(k) \/ Explain(k) \/ Drop(k)
  <2>1. call' = [call EXCEPT ![k] = NoCall] /\ UNCHANGED <<server, fetch, screen>>
    BY <1>3 DEF Abort, Explain, Drop, ButtonsOn
  <2>2. CallOK(NoCall, row, trail) /\ NoCall.pc # "locked"
    BY DEF CallOK, NoCall
  <2> QED
    BY <1>0, <2>1, <2>2, CallStep
<1>4. CASE Lose(k)
  <2> DEFINE x == [call[k] EXCEPT !.page = None]
  <2>1. x \in CallTypes /\ CallOK(x, row, trail)
    BY <1>0 DEF CallTypes, CallOK
  <2>2. call' = [call EXCEPT ![k] = x] /\ UNCHANGED <<server, fetch, screen>>
    BY <1>4 DEF Lose, IInv, TypeOK
  <2>3. x.pc = call[k].pc /\ x.id = call[k].id
    BY <1>0 DEF CallTypes
  <2>4. x.pc = "locked" => \A j \in Calls \ {k} :
          ~(call[j].pc = "locked" /\ call[j].id = x.id)
    BY <2>3 DEF IInv, Exclusive
  <2> QED
    BY <2>1, <2>2, <2>4, CallStep
<1> QED
  BY <1>1, <1>2, <1>3, <1>4

LEMMA ClickStep ==
  ASSUME IInv, NEW k \in Calls, NEW p \in Pages, Click(k, p)
  PROVE  IInv'
<1> DEFINE s == selected[p]
           x == [NoCall EXCEPT !.pc = "sent", !.page = p, !.id = s.id, !.seen = s.row,
                               !.to = Offered(s.row.mode), !.actor = p]
<1>1. s \in [id : Ids \union {None}, row : Rows] /\ s.id \in Ids
      /\ KnownIn(trail[s.id], s.row)
  BY DEF IInv, TypeOK, SelectedOK, Click
<1>2. x \in CallTypes /\ CallOK(x, row, trail) /\ x.pc # "locked"
  BY <1>1 DEF CallTypes, CallOK, NoCall, Blank, Rows, Modes, Offered
<1>3. call' = [call EXCEPT ![k] = x] /\ UNCHANGED <<server, fetch, screen>>
  BY DEF Click
<1> QED
  BY <1>2, <1>3, CallStep
-----------------------------------------------------------------------------
(* The step that changes the table. *)

\* Who passes the comparison of versions saw the row as it is.
LEMMA SeenIsCurrent ==
  ASSUME IInv, NEW k \in Calls, call[k].pc = "locked", Expected(k)
  PROVE  /\ call[k].id \in Ids /\ call[k] \in CallTypes
         /\ row[call[k].id] \in Rows /\ trail[call[k].id] \in Seq(Changes)
         /\ call[k].answer = row[call[k].id]
         /\ call[k].actor \in Pages
         /\ call[k].to = Offered(call[k].seen.mode)
         /\ Len(trail[call[k].id]) > 0 => call[k].seen = row[call[k].id]
         /\ call[k].seen.version = Len(trail[call[k].id]) + 1
<1> DEFINE c == call[k].id
           t == trail[c]
<1>1. CallOK(call[k], row, trail) /\ call[k] \in CallTypes
  BY DEF IInv, CallsOK, TypeOK, CallTypes
<1>2. c \in Ids /\ row[c] \in Rows /\ t \in Seq(Changes) /\ LeadsTo(t, row[c])
  BY <1>1 DEF CallOK, IInv, TypeOK, TrailOK, Changes
<1>3. call[k].answer = row[c] /\ call[k].actor \in Pages
      /\ call[k].to = Offered(call[k].seen.mode) /\ KnownIn(t, call[k].seen)
  BY <1>1 DEF CallOK
<1>4. call[k].seen.version = Len(t) + 1
  BY <1>2, <1>3 DEF LeadsTo, Expected
<1>5. Len(t) \in Nat
  BY <1>2, LenProperties
<1>6. Len(t) > 0 => call[k].seen = row[c]
  BY <1>2, <1>3, <1>4, <1>5 DEF LeadsTo, KnownIn
<1> QED
  BY <1>1, <1>2, <1>3, <1>4, <1>6

\* The trail with the change appended leads to the new row.
LEMMA ChangeLeads ==
  ASSUME NEW t \in Seq(Changes), NEW r \in Rows, LeadsTo(t, r),
         NEW s \in Rows, s.version = Len(t) + 1, Len(t) > 0 => s = r,
         NEW n \in Rows, n.version = Len(t) + 2
  PROVE  LeadsTo(Append(t, [seen |-> s, row |-> n]), n)
<1> DEFINE e == [seen |-> s, row |-> n]
           u == Append(t, e)
<1>1. e \in Changes /\ Len(t) \in Nat
  BY LenProperties DEF Changes
<1>2. Len(u) = Len(t) + 1 /\ u[Len(t) + 1] = e /\ \A i \in 1..Len(t) : u[i] = t[i]
  BY <1>1, AppendProperties
<1> HIDE DEF u
<1>3. \A i \in 1..Len(u) : u[i].row.version = i + 1
  BY <1>1, <1>2 DEF LeadsTo
<1>4. \A i \in 2..Len(u) : u[i].seen = u[i-1].row
  <2> SUFFICES ASSUME NEW i \in 2..Len(u) PROVE u[i].seen = u[i-1].row
    OBVIOUS
  <2>1. CASE i = Len(t) + 1
    BY <2>1, <1>1, <1>2 DEF LeadsTo
  <2>2. CASE i \in 2..Len(t)
    <3>1. u[i] = t[i] /\ u[i-1] = t[i-1]
      BY <2>2, <1>1, <1>2
    <3> QED
      BY <3>1, <2>2 DEF LeadsTo
  <2> QED
    BY <2>1, <2>2, <1>1, <1>2
<1>5. u[1].seen.version = 1
  BY <1>1, <1>2 DEF LeadsTo
<1> QED
  BY <1>1, <1>2, <1>3, <1>4, <1>5 DEF LeadsTo, u

LEMMA ChangeStep ==
  ASSUME IInv, NEW k \in Calls, Change(k)
  PROVE  IInv'
<1> DEFINE c == call[k].id
           e == [seen |-> call[k].seen, row |-> NewRow(k)]
           x == Closing(k, "committed")
<1>1. /\ c \in Ids /\ call[k] \in CallTypes /\ row[c] \in Rows
      /\ trail[c] \in Seq(Changes) /\ call[k].answer = row[c]
      /\ call[k].actor \in Pages
      /\ Len(trail[c]) > 0 => call[k].seen = row[c]
      /\ call[k].seen.version = Len(trail[c]) + 1
      /\ row[c].version = Len(trail[c]) + 1 /\ Len(trail[c]) \in Nat
  BY SeenIsCurrent, LenProperties DEF Change, IInv, TrailOK, LeadsTo
<1>2. NewRow(k) \in Rows /\ NewRow(k).version = Len(trail[c]) + 2
      /\ (NewRow(k).assigned # None <=> NewRow(k).mode = "HUMAN_ACTIVE")
  BY <1>1, SetsAssumption DEF NewRow, Rows, CallTypes, Modes
<1>3. call[k].seen \in Rows /\ e \in Changes
  BY <1>1, <1>2 DEF CallTypes, Changes
<1>4. /\ row' = [row EXCEPT ![c] = NewRow(k)]
      /\ trail' = [trail EXCEPT ![c] = Append(@, e)]
      /\ call' = [call EXCEPT ![k] = x]
      /\ UNCHANGED <<fetch, screen>>
  BY DEF Change
<1>5. row \in [Ids -> Rows] /\ trail \in [Ids -> Seq(Changes)]
      /\ call \in [Calls -> CallTypes]
  BY DEF IInv, TypeOK, Changes, CallTypes
<1>6. Append(trail[c], e) \in Seq(Changes)
  BY <1>1, <1>3, AppendProperties
<1>7. x \in CallTypes /\ x.pc = "committed" /\ x.id = c
  BY <1>1 DEF Closing, CallTypes, NoCall, Blank, Rows, Modes
<1> HIDE DEF c, e, x
<1>8. row' \in [Ids -> Rows] /\ trail' \in [Ids -> Seq(Changes)]
      /\ call' \in [Calls -> CallTypes]
  BY <1>2, <1>4, <1>5, <1>6, <1>7
<1>9. /\ row'[c] = NewRow(k) /\ trail'[c] = Append(trail[c], e)
      /\ \A d \in Ids \ {c} : row'[d] = row[d] /\ trail'[d] = trail[d]
      /\ call'[k] = x /\ \A j \in Calls \ {k} : call'[j] = call[j]
  BY <1>1, <1>4, <1>5
<1>10. TypeOK'
  <2>1. \A d \in Ids : row'[d].assigned # None <=> row'[d].mode = "HUMAN_ACTIVE"
    BY <1>2, <1>9 DEF IInv, TypeOK
  <2> QED
    BY <2>1, <1>4, <1>8 DEF IInv, TypeOK, CallTypes, Changes, screen
<1>11. \A d \in Ids, r \in Rows : KnownIn(trail[d], r) => KnownIn(trail'[d], r)
  BY <1>1, <1>3, <1>5, <1>9, KnownGrows
<1>12. CallsOK'
  <2> SUFFICES ASSUME NEW j \in Calls PROVE CallOK(call'[j], row', trail')
    BY DEF CallsOK
  <2>1. CASE j = k
    BY <2>1, <1>1, <1>7, <1>9 DEF CallOK
  <2>2. CASE j # k
    <3>1. call'[j] = call[j] /\ call[j] \in CallTypes /\ CallOK(call[j], row, trail)
      BY <2>2, <1>5, <1>9 DEF IInv, CallsOK
    <3>2. call[j].pc = "locked" => call[j].id # c
      BY <2>2 DEF IInv, Exclusive, Change, c
    <3>3. call[j].seen \in Rows /\ call[j].answer \in Rows
      BY <3>1 DEF CallTypes
    <3>4. call[j].pc = "locked" => row'[call[j].id] = row[call[j].id]
      BY <3>1, <3>2, <1>9 DEF CallOK
    <3> QED
      BY <3>1, <3>3, <3>4, <1>11 DEF CallOK
  <2> QED
    BY <2>1, <2>2
<1>13. Exclusive'
  BY <1>7, <1>9 DEF IInv, Exclusive
<1>14. FetchesOK'
  <2>1. \A f \in Fetches, d \in Ids : fetch[f].items[d] \in Rows
    BY DEF IInv, TypeOK
  <2> QED
    BY <2>1, <1>4, <1>11 DEF IInv, FetchesOK
<1>15. ListedOK'
  <2>1. \A p \in Pages, d \in Ids : listed[p][d] \in Rows
    BY DEF IInv, TypeOK
  <2> QED
    BY <2>1, <1>4, <1>11 DEF IInv, ListedOK, screen
<1>16. SelectedOK'
  <2>1. \A p \in Pages : selected[p].row \in Rows
    BY DEF IInv, TypeOK
  <2> QED
    BY <2>1, <1>4, <1>11 DEF IInv, SelectedOK, screen
<1>17. TrailOK'
  <2>1. LeadsTo(trail'[c], row'[c])
    BY <1>1, <1>2, <1>3, <1>9, ChangeLeads DEF IInv, TrailOK, e
  <2> QED
    BY <2>1, <1>9 DEF IInv, TrailOK
<1> QED
  BY <1>10, <1>12, <1>13, <1>14, <1>15, <1>16, <1>17 DEF IInv
-----------------------------------------------------------------------------
(* The steps of the page. *)

LEMMA FetchStep ==
  ASSUME IInv, NEW f \in Fetches,
         Fail(f) \/ \E p \in Pages : Serve(f, p)
  PROVE  IInv'
<1>1. PICK x \in FetchTypes :
        /\ fetch' = [fetch EXCEPT ![f] = x]
        /\ x.pc = "served" =>
             x.page \in Pages /\ \A c \in Ids : KnownIn(trail[c], x.items[c])
  <2>1. CASE Fail(f)
    BY <2>1, Constants DEF Fail, NoFetch
  <2>2. ASSUME NEW p \in Pages, Serve(f, p)
        PROVE  \E x \in FetchTypes :
                 /\ fetch' = [fetch EXCEPT ![f] = x]
                 /\ x.pc = "served" =>
                      x.page \in Pages /\ \A c \in Ids : KnownIn(trail[c], x.items[c])
    <3> DEFINE x == [pc |-> "served", page |-> p, items |-> row]
    <3>1. x \in FetchTypes
      BY DEF IInv, TypeOK, FetchTypes
    <3>2. \A c \in Ids : KnownIn(trail[c], x.items[c])
      BY CurrentKnown DEF IInv, TypeOK, TrailOK, Changes
    <3> QED
      BY <2>2, <3>1, <3>2 DEF Serve
  <2> QED
    BY <2>1, <2>2
<1>2. UNCHANGED <<server, call, screen>>
  BY DEF Fail, Serve
<1>3. fetch \in [Fetches -> FetchTypes]
  BY DEF IInv, TypeOK, FetchTypes
<1>4. fetch' \in [Fetches -> FetchTypes] /\ fetch'[f] = x
      /\ \A g \in Fetches \ {f} : fetch'[g] = fetch[g]
  BY <1>1, <1>3
<1>5. TypeOK'
  BY <1>2, <1>4 DEF IInv, TypeOK, FetchTypes, server, screen
<1>6. FetchesOK'
  BY <1>1, <1>2, <1>4 DEF IInv, FetchesOK, server
<1>7. CallsOK' /\ Exclusive' /\ ListedOK' /\ SelectedOK' /\ TrailOK'
  BY <1>2 DEF IInv, CallsOK, Exclusive, ListedOK, SelectedOK, TrailOK, server, screen
<1> QED
  BY <1>5, <1>6, <1>7 DEF IInv

\* What a page may show of conversations and of the one selected.
ListOK(items) == \A c \in Ids : items[c] = Blank \/ KnownIn(trail[c], items[c])

SelectionOK(s) == s = Nothing \/ (s.id \in Ids /\ KnownIn(trail[s.id], s.row))

SelectionTypes == [id : Ids \union {None}, row : Rows]

LEMMA ScreenUpdate ==
  ASSUME IInv, NEW p \in Pages, UNCHANGED server,
         NEW items \in [Ids -> Rows], ListOK(items),
         NEW s \in SelectionTypes, SelectionOK(s),
         listed' = [listed EXCEPT ![p] = items],
         selected' = [selected EXCEPT ![p] = s]
  PROVE  /\ listed' \in [Pages -> [Ids -> Rows]]
         /\ selected' \in [Pages -> SelectionTypes]
         /\ ListedOK' /\ SelectedOK'
<1>1. listed \in [Pages -> [Ids -> Rows]] /\ selected \in [Pages -> SelectionTypes]
  BY DEF IInv, TypeOK, SelectionTypes
<1>2. /\ listed' \in [Pages -> [Ids -> Rows]] /\ listed'[p] = items
      /\ \A q \in Pages \ {p} : listed'[q] = listed[q]
  BY <1>1
<1>3. /\ selected' \in [Pages -> SelectionTypes] /\ selected'[p] = s
      /\ \A q \in Pages \ {p} : selected'[q] = selected[q]
  BY <1>1
<1>4. ListedOK'
  BY <1>2 DEF IInv, ListedOK, ListOK, server
<1>5. SelectedOK'
  BY <1>3 DEF IInv, SelectedOK, SelectionOK, server
<1> QED
  BY <1>2, <1>3, <1>4, <1>5

LEMMA ShowStep ==
  ASSUME IInv, NEW f \in Fetches, Show(f)
  PROVE  IInv'
<1> DEFINE p == fetch[f].page
           items == fetch[f].items
<1>1. fetch \in [Fetches -> FetchTypes] /\ fetch[f].pc = "served"
  BY DEF IInv, TypeOK, FetchTypes, Show
<1>2. p \in Pages /\ \A c \in Ids : KnownIn(trail[c], items[c])
  BY <1>1 DEF IInv, FetchesOK
<1>3. items \in [Ids -> Rows]
  BY <1>1 DEF FetchTypes
<1>4. PICK c \in IF selected[p] # Nothing THEN {selected[p].id} ELSE Ids \union {None} :
        selected' = [selected EXCEPT ![p] =
                       IF c = None THEN Nothing ELSE [id |-> c, row |-> items[c]]]
  BY DEF Show
<1> DEFINE s == IF c = None THEN Nothing ELSE [id |-> c, row |-> items[c]]
<1>5. c \in Ids \union {None}
  BY <1>2, <1>4 DEF IInv, TypeOK
<1>6. s \in SelectionTypes /\ SelectionOK(s)
  BY <1>2, <1>3, <1>5, Constants DEF SelectionTypes, SelectionOK
<1>7. /\ listed' = [listed EXCEPT ![p] = items] /\ UNCHANGED <<server, call>>
      /\ fetch' = [fetch EXCEPT ![f] = NoFetch]
  BY DEF Show
<1>8. ListOK(items)
  BY <1>2 DEF ListOK
<1>9. /\ listed' \in [Pages -> [Ids -> Rows]] /\ selected' \in [Pages -> SelectionTypes]
      /\ ListedOK' /\ SelectedOK'
  <2> HIDE DEF p, items, s
  <2> QED
    BY <1>2, <1>3, <1>4, <1>6, <1>7, <1>8, ScreenUpdate DEF s
<1>10. /\ fetch' \in [Fetches -> FetchTypes] /\ fetch'[f].pc = "idle"
       /\ \A g \in Fetches \ {f} : fetch'[g] = fetch[g]
  BY <1>1, <1>7, Constants DEF NoFetch
<1>11. TypeOK'
  BY <1>7, <1>9, <1>10 DEF IInv, TypeOK, FetchTypes, SelectionTypes, server
<1>12. FetchesOK'
  BY <1>7, <1>10 DEF IInv, FetchesOK, server
<1>13. CallsOK' /\ Exclusive' /\ TrailOK'
  BY <1>7 DEF IInv, CallsOK, Exclusive, TrailOK, server
<1> QED
  BY <1>9, <1>11, <1>12, <1>13 DEF IInv

LEMMA SelectStep ==
  ASSUME IInv, NEW p \in Pages, NEW c \in Ids, Select(p, c)
  PROVE  IInv'
<1> DEFINE s == [id |-> c, row |-> listed[p][c]]
<1>1. listed[p] \in [Ids -> Rows] /\ ListOK(listed[p])
  BY DEF IInv, TypeOK, ListedOK, ListOK
<1>2. s \in SelectionTypes /\ SelectionOK(s)
  BY <1>1 DEF SelectionTypes, SelectionOK, ListOK, Select
<1>3. /\ listed' = [listed EXCEPT ![p] = listed[p]]
      /\ selected' = [selected EXCEPT ![p] = s]
      /\ UNCHANGED <<server, call, fetch>>
  BY DEF Select, IInv, TypeOK
<1>4. /\ listed' \in [Pages -> [Ids -> Rows]] /\ selected' \in [Pages -> SelectionTypes]
      /\ ListedOK' /\ SelectedOK'
  <2> HIDE DEF s
  <2> QED
    BY <1>1, <1>2, <1>3, ScreenUpdate
<1>5. TypeOK'
  BY <1>3, <1>4 DEF IInv, TypeOK, SelectionTypes, server
<1>6. FetchesOK' /\ CallsOK' /\ Exclusive' /\ TrailOK'
  BY <1>3 DEF IInv, FetchesOK, CallsOK, Exclusive, TrailOK, server
<1> QED
  BY <1>4, <1>5, <1>6 DEF IInv

LEMMA FinishStep ==
  ASSUME IInv, NEW k \in Calls, Finish(k)
  PROVE  IInv'
<1> DEFINE p == call[k].page
           c == call[k].id
           a == call[k].answer
           items == [listed[p] EXCEPT ![c] = IF @ = Blank THEN Blank ELSE a]
           s == [id |-> c, row |-> a]
<1>1. call[k] \in CallTypes /\ CallOK(call[k], row, trail) /\ p \in Pages
  BY DEF IInv, TypeOK, CallTypes, CallsOK, Finish
<1>2. c \in Ids /\ a \in Rows /\ KnownIn(trail[c], a)
  BY <1>1 DEF CallTypes, CallOK, Finish
<1>3. listed[p] \in [Ids -> Rows] /\ ListOK(listed[p])
  BY <1>1 DEF IInv, TypeOK, ListedOK, ListOK
<1>4. items \in [Ids -> Rows] /\ ListOK(items)
  BY <1>2, <1>3, Constants DEF ListOK
<1>5. s \in SelectionTypes /\ SelectionOK(s)
  BY <1>2 DEF SelectionTypes, SelectionOK
<1>6. /\ listed' = [listed EXCEPT ![p] = items]
      /\ selected' = [selected EXCEPT ![p] = s]
      /\ call' = [call EXCEPT ![k] = NoCall] /\ UNCHANGED <<server, fetch>>
  BY <1>1 DEF Finish, Shown, IInv, TypeOK
<1>7. /\ listed' \in [Pages -> [Ids -> Rows]] /\ selected' \in [Pages -> SelectionTypes]
      /\ ListedOK' /\ SelectedOK'
  <2> HIDE DEF p, items, s
  <2> QED
    BY <1>1, <1>4, <1>5, <1>6, ScreenUpdate
<1>8. CallOK(NoCall, row, trail) /\ NoCall.pc # "locked"
  BY DEF CallOK, NoCall
<1>9. call' \in [Calls -> CallTypes] /\ CallsOK' /\ Exclusive'
  BY <1>6, <1>8, Constants, CallUpdate
<1>10. TypeOK'
  BY <1>6, <1>7, <1>9 DEF IInv, TypeOK, CallTypes, SelectionTypes, server
<1>11. FetchesOK' /\ TrailOK'
  BY <1>6 DEF IInv, FetchesOK, TrailOK, server
<1> QED
  BY <1>7, <1>9, <1>10, <1>11 DEF IInv

LEMMA ReopenStep ==
  ASSUME IInv, NEW p \in Pages, Reopen(p)
  PROVE  IInv'
<1> DEFINE items == [c \in Ids |-> Blank]
<1>1. items \in [Ids -> Rows] /\ ListOK(items)
      /\ Nothing \in SelectionTypes /\ SelectionOK(Nothing)
  BY Constants DEF ListOK, SelectionTypes, SelectionOK
<1>2. /\ listed' = [listed EXCEPT ![p] = items]
      /\ selected' = [selected EXCEPT ![p] = Nothing]
      /\ UNCHANGED server
  BY DEF Reopen
<1>3. /\ listed' \in [Pages -> [Ids -> Rows]] /\ selected' \in [Pages -> SelectionTypes]
      /\ ListedOK' /\ SelectedOK'
  <2> HIDE DEF items
  <2> QED
    BY <1>1, <1>2, ScreenUpdate
<1>4. \A k \in Calls :
        /\ call[k] \in CallTypes /\ call'[k] \in CallTypes
        /\ call'[k].pc = call[k].pc /\ call'[k].id = call[k].id
        /\ call'[k].seen = call[k].seen /\ call'[k].to = call[k].to
        /\ call'[k].actor = call[k].actor /\ call'[k].answer = call[k].answer
  <2> SUFFICES ASSUME NEW k \in Calls
               PROVE  /\ call[k] \in CallTypes /\ call'[k] \in CallTypes
                      /\ call'[k].pc = call[k].pc /\ call'[k].id = call[k].id
                      /\ call'[k].seen = call[k].seen /\ call'[k].to = call[k].to
                      /\ call'[k].actor = call[k].actor
                      /\ call'[k].answer = call[k].answer
    OBVIOUS
  <2>1. call[k] \in CallTypes
    BY DEF IInv, TypeOK, CallTypes
  <2>2. call'[k] = IF call[k].page = p THEN [call[k] EXCEPT !.page = None] ELSE call[k]
    BY DEF Reopen
  <2> QED
    BY <2>1, <2>2 DEF CallTypes
<1>5. call' \in [Calls -> CallTypes]
  <2>1. call' = [k \in Calls |-> call'[k]]
    BY DEF Reopen
  <2> QED
    BY <1>4, <2>1
<1>6. CallsOK' /\ Exclusive'
  BY <1>2, <1>4 DEF IInv, CallsOK, CallOK, Exclusive, server
<1>7. fetch' \in [Fetches -> FetchTypes]
      /\ \A f \in Fetches : fetch'[f] = fetch[f] \/ fetch'[f] = NoFetch
  BY Constants DEF IInv, TypeOK, FetchTypes, Reopen
<1>8. FetchesOK'
  BY <1>2, <1>7 DEF IInv, FetchesOK, NoFetch, server
<1>9. TypeOK'
  BY <1>2, <1>3, <1>5, <1>7
     DEF IInv, TypeOK, CallTypes, FetchTypes, SelectionTypes, server
<1>10. TrailOK'
  BY <1>2 DEF IInv, TrailOK, server
<1> QED
  BY <1>3, <1>6, <1>8, <1>9, <1>10 DEF IInv
-----------------------------------------------------------------------------
LEMMA InitOK == Init => IInv
<1> SUFFICES ASSUME Init PROVE IInv
  OBVIOUS
<1>1. \A c \in Ids : /\ row[c] \in Rows /\ row[c].version = 1 /\ row[c].assigned = None
                     /\ row[c].mode # "HUMAN_ACTIVE" /\ trail[c] = <<>>
  <2> SUFFICES ASSUME NEW c \in Ids
               PROVE  /\ row[c] \in Rows /\ row[c].version = 1 /\ row[c].assigned = None
                      /\ row[c].mode # "HUMAN_ACTIVE" /\ trail[c] = <<>>
    OBVIOUS
  <2>1. PICK m \in {"AI_ACTIVE", "AI_PAUSED"} :
          row[c] = [Blank EXCEPT !.mode = m, !.version = 1]
    BY DEF Init
  <2>2. row[c] = [mode |-> m, assigned |-> None, version |-> 1]
    BY <2>1 DEF Blank
  <2> QED
    BY <2>2 DEF Init, Rows, Modes
<1>2. row \in [Ids -> Rows] /\ trail \in [Ids -> Seq(Changes)]
  BY <1>1 DEF Init
<1>3. TypeOK
  BY <1>1, <1>2, Constants DEF Init, TypeOK, CallTypes, FetchTypes, Changes
<1>4. CallsOK /\ Exclusive /\ FetchesOK /\ ListedOK /\ SelectedOK
  BY DEF Init, CallsOK, CallOK, NoCall, Exclusive, FetchesOK, NoFetch, ListedOK, SelectedOK
<1>5. TrailOK
  BY <1>1 DEF TrailOK, LeadsTo
<1> QED
  BY <1>3, <1>4, <1>5 DEF IInv

LEMMA NextOK == IInv /\ [Next]_vars => IInv'
<1> SUFFICES ASSUME IInv, [Next]_vars PROVE IInv'
  OBVIOUS
<1>1. ASSUME NEW k \in Calls,
             \/ Lock(k) \/ Handle(k) \/ Abort(k) \/ Lose(k)
             \/ \E p \in Pages : Click(k, p)
      PROVE  IInv'
  BY <1>1, LockStep, EndStep, ChangeStep, FinishStep, ClickStep DEF Handle
<1>2. ASSUME NEW f \in Fetches, Show(f) \/ Fail(f) \/ \E p \in Pages : Serve(f, p)
      PROVE  IInv'
  BY <1>2, ShowStep, FetchStep
<1>3. ASSUME NEW p \in Pages, Reopen(p) \/ \E c \in Ids : Select(p, c)
      PROVE  IInv'
  BY <1>3, ReopenStep, SelectStep
<1>4. CASE UNCHANGED vars
  BY <1>4 DEF vars, IInv, TypeOK, CallsOK, Exclusive, FetchesOK, ListedOK,
              SelectedOK, TrailOK, server, screen
<1> QED
  BY <1>1, <1>2, <1>3, <1>4 DEF Next

LEMMA Always == Spec => []IInv
BY InitOK, NextOK, PTL DEF Spec
-----------------------------------------------------------------------------
\* Every variable has its type, and an agent is assigned exactly to the
\* conversations an agent has taken over (_change_mode).
THEOREM TypeCorrect == Spec => []TypeOK
<1>1. IInv => TypeOK
  BY DEF IInv
<1> QED
  BY <1>1, Always, PTL

\* Nobody undoes what they did not see: the row a mode change was asked for on
\* is the row the change before it left (expected_version under the lock).
THEOREM NothingUndoneUnseen == Spec => []NothingUnseen
<1>1. IInv => NothingUnseen
  <2> SUFFICES ASSUME IInv, NEW c \in Ids
               PROVE LET t == trail[c] IN
                 /\ \A n \in DOMAIN t : t[n].row.version = n + 1
                 /\ \A n \in DOMAIN t \ {1} : t[n].seen = t[n-1].row
                 /\ t # <<>> => t[1].seen.version = 1 /\ row[c] = t[Len(t)].row
    BY DEF NothingUnseen
  <2>1. trail[c] \in Seq(Changes) /\ LeadsTo(trail[c], row[c])
    BY DEF IInv, TypeOK, TrailOK, Changes
  <2>2. /\ DOMAIN trail[c] = 1..Len(trail[c]) /\ Len(trail[c]) \in Nat
        /\ trail[c] # <<>> => Len(trail[c]) > 0
    BY <2>1, LenProperties, EmptySeq
  <2> QED
    BY <2>1, <2>2 DEF LeadsTo
<1> QED
  BY <1>1, Always, PTL

\* What a page shows as changed is on the audit trail, however the answers that
\* told it were ordered (load, refreshFromEvent, changeMode).
THEOREM PagesShowAudited == Spec => []ShownIsAudited
<1>1. IInv => ShownIsAudited
  <2> SUFFICES ASSUME IInv, NEW p \in Pages, selected[p] # Nothing,
                      selected[p].row.version > 1
               PROVE  LET s == selected[p] IN
                      /\ s.row.version - 1 \in DOMAIN trail[s.id]
                      /\ s.row = trail[s.id][s.row.version - 1].row
    BY DEF ShownIsAudited, Believed
  <2>1. /\ selected[p].id \in Ids
        /\ KnownIn(trail[selected[p].id], selected[p].row)
    BY DEF IInv, SelectedOK
  <2>2. trail[selected[p].id] \in Seq(Changes)
    BY <2>1 DEF IInv, TypeOK, Changes
  <2> QED
    BY <2>1, <2>2, LenProperties DEF KnownIn
<1> QED
  BY <1>1, Always, PTL

\* No agent takes a conversation out of another one's hands (changeMode offers
\* a takeover of what it shows as the assistant's; _change_mode checks that it
\* still is).
THEOREM NoTakeoverFromAgents == Spec => AssignmentNotStolen
<1> DEFINE Kept == \A c \in Ids : row[c].assigned # None =>
                     row'[c].assigned \in {row[c].assigned, None}
<1>1. IInv /\ [Next]_vars => [Kept]_vars
  <2> SUFFICES ASSUME IInv, Next PROVE Kept
    BY DEF vars
  <2>1. ASSUME NEW k \in Calls, Change(k)
        PROVE  Kept
    <3> DEFINE d == call[k].id
    <3>1. /\ d \in Ids /\ row[d] \in Rows /\ call[k].to = Offered(call[k].seen.mode)
          /\ Len(trail[d]) > 0 => call[k].seen = row[d]
          /\ trail[d] \in Seq(Changes)
      BY <2>1, SeenIsCurrent DEF Change
    <3>2. row \in [Ids -> Rows] /\ row' = [row EXCEPT ![d] = NewRow(k)]
      BY <2>1 DEF IInv, TypeOK, Change
    <3>3. row[d].assigned # None => row[d].mode = "HUMAN_ACTIVE"
      BY <3>1 DEF IInv, TypeOK
    <3>4. row[d].assigned # None => Len(trail[d]) > 0
      BY <3>1, <3>3, LenProperties DEF IInv, TrailOK, LeadsTo
    <3>5. row[d].assigned # None => NewRow(k).assigned = None
      BY <3>1, <3>3, <3>4 DEF NewRow, Offered
    <3> QED
      BY <3>1, <3>2, <3>5
  <2>2. CASE UNCHANGED row
    BY <2>2
  <2>3. UNCHANGED row \/ \E k \in Calls : Change(k)
    BY DEF Next, Handle, Lock, Refuse, Reread, Finish, Explain, Drop, Abort, Lose, Click,
           Show, Fail, Serve, Reopen, Select, server
  <2> QED
    BY <2>1, <2>2, <2>3
<1> QED
  BY <1>1, Always, PTL DEF Spec, AssignmentNotStolen
=============================================================================
