---------------------------- MODULE Conversations ----------------------------
(***************************************************************************)
(* Who answers a conversation, the assistant or an agent: takeover and     *)
(* return_to_ai of api.py behind the inbox of conversations-page, several  *)
(* pages on one server.                                                    *)
(*                                                                         *)
(* A page acts on the row it shows.  What it shows comes from answers that *)
(* were computed earlier and arrive in any order, or never.                *)
(***************************************************************************)
EXTENDS Integers, Sequences, FiniteSets

CONSTANTS Pages,            \* an open inbox each, of a staff member each
          Ids,              \* conversations
          Calls, Fetches,   \* POSTs of a mode change, GETs of the list
          None,
          MaxVersion        \* bound of the model: no click from this version

ASSUME SetsAssumption == None \notin Pages \union Ids
ASSUME BoundsAssumption == MaxVersion \in Nat

VARIABLES
  row,        \* the conversations table
  trail,      \* for each mode change: the author's view, and the row after it,
              \* as audit_logs and realtime_events have it
  call,       \* the mode changes under way
  fetch,      \* the lists under way
  listed,     \* of each page: the signals conversations
  selected    \* and selected

server == <<row, trail>>
screen == <<listed, selected>>
vars   == <<server, call, fetch, screen>>

Modes  == {"AI_ACTIVE", "HUMAN_ACTIVE", "AI_PAUSED"}
Rows   == [mode : Modes, assigned : Pages \union {None}, version : Nat]
Blank  == [mode |-> "AI_ACTIVE", assigned |-> None, version |-> 0]

NoCall  == [pc |-> "idle", page |-> None, id |-> None, seen |-> Blank,
            to |-> "AI_ACTIVE", actor |-> None, answer |-> Blank]
NoFetch == [pc |-> "idle", page |-> None, items |-> [c \in Ids |-> Blank]]
Nothing == [id |-> None, row |-> Blank]
-----------------------------------------------------------------------------
(* _change_mode: the row is locked from the SELECT to the commit. *)

RowNotLocked(k) == TRUE              \* mutant: read without FOR UPDATE
VersionIgnored(k) == TRUE            \* mutant: expected_version is not compared

RowFree(k) ==
  \A j \in Calls \ {k} : ~(call[j].pc = "locked" /\ call[j].id = call[k].id)

Lock(k) ==
  /\ call[k].pc = "sent" /\ RowFree(k)
  /\ call' = [call EXCEPT ![k].pc = "locked", ![k].answer = row[call[k].id]]
  /\ UNCHANGED <<server, fetch, screen>>

\* What is left of a call once its transaction is over.
Closing(k, pc) == [NoCall EXCEPT !.pc = pc, !.page = call[k].page, !.id = call[k].id]

Expected(k) == call[k].answer.version = call[k].seen.version

Refuse(k) ==
  /\ call[k].pc = "locked" /\ ~Expected(k)
  /\ call' = [call EXCEPT ![k] = Closing(k, "refused")]
  /\ UNCHANGED <<server, fetch, screen>>

NewRowKeepsAgent(k) ==               \* mutant: whoever calls is assigned
  [mode |-> call[k].to, assigned |-> call[k].actor,
   version |-> call[k].answer.version + 1]

NewRow(k) ==
  [mode |-> call[k].to,
   assigned |-> IF call[k].to = "HUMAN_ACTIVE" THEN call[k].actor ELSE None,
   version |-> call[k].answer.version + 1]

\* Row, audit row and event commit together.
Change(k) ==
  LET c == call[k].id IN
  /\ call[k].pc = "locked" /\ Expected(k)
  /\ row' = [row EXCEPT ![c] = NewRow(k)]
  /\ trail' = [trail EXCEPT ![c] =
                 Append(@, [seen |-> call[k].seen, row |-> NewRow(k)])]
  /\ call' = [call EXCEPT ![k] = Closing(k, "committed")]
  /\ UNCHANGED <<fetch, screen>>

\* db.refresh after the commit: the answer may show a later change already.
Reread(k) ==
  /\ call[k].pc = "committed"
  /\ call' = [call EXCEPT ![k].pc = "answered", ![k].answer = row[call[k].id]]
  /\ UNCHANGED <<server, fetch, screen>>

\* The API process dies before the commit; the page sees an error.
Abort(k) ==
  /\ call[k].pc \in {"sent", "locked"}
  /\ call' = [call EXCEPT ![k] = NoCall]
  /\ UNCHANGED <<server, fetch, screen>>
-----------------------------------------------------------------------------
(* The page: load and refreshFromEvent *)

\* The constructor and the button load the list, an event refreshes it: the
\* GET is served at some instant, from one statement and so one snapshot
\* (list_conversations), and answered later.
Serve(f, p) ==
  /\ fetch[f].pc = "idle"
  /\ fetch' = [fetch EXCEPT ![f] = [pc |-> "served", page |-> p, items |-> row]]
  /\ UNCHANGED <<server, call, screen>>

\* The list is taken as it is, however old, and so is the selected row in it.
\* If nothing is selected a load selects the first of the list, here any one;
\* an event selects nothing.
Show(f) ==
  LET p == fetch[f].page  items == fetch[f].items IN
  /\ fetch[f].pc = "served"
  /\ fetch' = [fetch EXCEPT ![f] = NoFetch]
  /\ listed' = [listed EXCEPT ![p] = items]
  /\ \E c \in IF selected[p] # Nothing THEN {selected[p].id}
              ELSE Ids \union {None} :
       selected' = [selected EXCEPT ![p] =
                      IF c = None THEN Nothing ELSE [id |-> c, row |-> items[c]]]
  /\ UNCHANGED <<server, call>>

\* selectConversation
Select(p, c) ==
  /\ listed[p][c] # Blank
  /\ selected' = [selected EXCEPT ![p] = [id |-> c, row |-> listed[p][c]]]
  /\ UNCHANGED <<server, call, fetch, listed>>
-----------------------------------------------------------------------------
(* The page: changeMode *)

\* The buttons are off while a change is under way.
Changing(p) == \E k \in Calls : call[k].page = p

Offered(mode) == IF mode = "HUMAN_ACTIVE" THEN "AI_ACTIVE" ELSE "HUMAN_ACTIVE"

Click(k, p) ==
  LET s == selected[p] IN
  /\ call[k].pc = "idle" /\ ~Changing(p)
  /\ s # Nothing /\ s.row.version < MaxVersion
  /\ call' = [call EXCEPT ![k] =
       [NoCall EXCEPT !.pc = "sent", !.page = p, !.id = s.id, !.seen = s.row,
                      !.to = Offered(s.row.mode), !.actor = p]]
  /\ UNCHANGED <<server, fetch, screen>>

\* mutant: the page takes over the mode and keeps the rest of its row
ShownOptimistic(k) ==
  [selected[call[k].page].row EXCEPT !.mode = call[k].answer.mode]

Shown(k) == call[k].answer

\* The answer goes into the list, and what it is about becomes selected,
\* whatever the page had selected meanwhile.
Finish(k) ==
  LET p == call[k].page  c == call[k].id IN
  /\ call[k].pc = "answered" /\ p # None
  /\ call' = [call EXCEPT ![k] = NoCall]
  /\ listed' = [listed EXCEPT ![p][c] = IF @ = Blank THEN Blank ELSE Shown(k)]
  /\ selected' = [selected EXCEPT ![p] = [id |-> c, row |-> Shown(k)]]
  /\ UNCHANGED <<server, fetch>>

ButtonsOff(k) == call[k]             \* mutant: changing is not reset on an error
ButtonsOn(k)  == NoCall

\* 409: the page shows an error and keeps its row.
Explain(k) ==
  /\ call[k].pc = "refused" /\ call[k].page # None
  /\ call' = [call EXCEPT ![k] = ButtonsOn(k)]
  /\ UNCHANGED <<server, fetch, screen>>

\* The connection breaks: the page sees an error, the server goes on.
Lose(k) ==
  /\ call[k].page # None
  /\ call' = [call EXCEPT ![k].page = None]
  /\ UNCHANGED <<server, fetch, screen>>

\* An answer nobody waits for.
Drop(k) ==
  /\ call[k].pc \in {"answered", "refused"} /\ call[k].page = None
  /\ call' = [call EXCEPT ![k] = NoCall]
  /\ UNCHANGED <<server, fetch, screen>>

\* A list that fails; load shows an error, refreshFromEvent nothing.
Fail(f) ==
  /\ fetch[f].pc # "idle"
  /\ fetch' = [fetch EXCEPT ![f] = NoFetch]
  /\ UNCHANGED <<server, call, screen>>

\* The page is left and opened again: takeUntilDestroyed drops its answers.
Reopen(p) ==
  /\ listed' = [listed EXCEPT ![p] = [c \in Ids |-> Blank]]
  /\ selected' = [selected EXCEPT ![p] = Nothing]
  /\ call' = [k \in Calls |->
                IF call[k].page = p THEN [call[k] EXCEPT !.page = None] ELSE call[k]]
  /\ fetch' = [f \in Fetches |-> IF fetch[f].page = p THEN NoFetch ELSE fetch[f]]
  /\ UNCHANGED server
-----------------------------------------------------------------------------
Init ==
  /\ row \in [Ids -> {[Blank EXCEPT !.mode = m, !.version = 1] :
                        m \in {"AI_ACTIVE", "AI_PAUSED"}}]
  /\ trail = [c \in Ids |-> <<>>]
  /\ call = [k \in Calls |-> NoCall]
  /\ fetch = [f \in Fetches |-> NoFetch]
  /\ listed = [p \in Pages |-> [c \in Ids |-> Blank]]
  /\ selected = [p \in Pages |-> Nothing]

Handle(k) == Refuse(k) \/ Change(k) \/ Reread(k) \/ Finish(k) \/ Explain(k) \/ Drop(k)

Next ==
  \/ \E k \in Calls : \/ Lock(k) \/ Handle(k) \/ Abort(k) \/ Lose(k)
                      \/ \E p \in Pages : Click(k, p)
  \/ \E f \in Fetches : Show(f) \/ Fail(f) \/ \E p \in Pages : Serve(f, p)
  \/ \E p \in Pages : Reopen(p) \/ \E c \in Ids : Select(p, c)

Spec == Init /\ [][Next]_vars

\* A call that was sent is handled, and a row lock is given in turn.
FairSpec == Spec /\ \A k \in Calls : WF_vars(Handle(k)) /\ SF_vars(Lock(k))
-----------------------------------------------------------------------------
(* Properties. *)

\* Every variable has its type, and an agent is assigned exactly to the
\* conversations an agent has taken over.
TypeOK ==
  /\ row \in [Ids -> Rows]
  /\ \A c \in Ids : row[c].assigned # None <=> row[c].mode = "HUMAN_ACTIVE"
  /\ trail \in [Ids -> Seq([seen : Rows, row : Rows])]
  /\ call \in [Calls ->
       [pc : {"idle", "sent", "locked", "refused", "committed", "answered"},
        page : Pages \union {None}, id : Ids \union {None}, seen : Rows,
        to : Modes, actor : Pages \union {None}, answer : Rows]]
  /\ fetch \in [Fetches -> [pc : {"idle", "served"},
                            page : Pages \union {None}, items : [Ids -> Rows]]]
  /\ listed \in [Pages -> [Ids -> Rows]]
  /\ selected \in [Pages -> [id : Ids \union {None}, row : Rows]]

\* Nobody undoes what they did not see: each mode change was asked for by a
\* page that showed the row exactly as the change before had left it, however
\* late its list was and however long it waited for the row (PRD MSG-02).
NothingUnseen ==
  \A c \in Ids : LET t == trail[c] IN
    /\ \A n \in DOMAIN t : t[n].row.version = n + 1
    /\ \A n \in DOMAIN t \ {1} : t[n].seen = t[n-1].row
    /\ t # <<>> => t[1].seen.version = 1 /\ row[c] = t[Len(t)].row

\* The row page p believes in, if it shows one.
Believed(p) == IF selected[p] = Nothing THEN {} ELSE {selected[p]}

\* What a page shows as changed is on the audit trail, mode, agent and version
\* together: an agent who writes under "taken over" writes after the takeover
\* was audited (PRD MSG-02), although the answers that told the page may have
\* come in any order.
ShownIsAudited ==
  \A p \in Pages : \A s \in Believed(p) :
    s.row.version > 1 => /\ s.row.version - 1 \in DOMAIN trail[s.id]
                         /\ s.row = trail[s.id][s.row.version - 1].row

\* No agent takes a conversation out of another one's hands: it goes back to
\* the assistant first, two takeovers that race have one winner.
AssignmentNotStolen ==
  [][\A c \in Ids : row[c].assigned # None =>
        row'[c].assigned \in {row[c].assigned, None}]_vars

\* The buttons of a page come back, whether its change was made, refused,
\* aborted or its answer lost.
ButtonsComeBack == \A p \in Pages : Changing(p) ~> ~Changing(p)
=============================================================================
