------------------------------- MODULE Sessions -------------------------------
(***************************************************************************)
(* Refresh sessions: login, refresh and logout of api.py as concurrent     *)
(* transactions, and the browser they serve: a cookie jar shared by its    *)
(* tabs, and in each tab the interceptor of api-error.interceptor.ts.      *)
(*                                                                         *)
(* A session row stands for its refresh token: the client knows the token, *)
(* the table only its hash.  The 401 answers raise HTTPException, so the   *)
(* cookies they mean to delete stay: FastAPI drops the injected response.  *)
(***************************************************************************)
EXTENDS Integers, Sequences, FiniteSets

CONSTANTS Tabs, Calls,               \* API calls of the pages
          TabOf,                     \* the tab that makes each call
          AccessTTL, RefreshTTL,     \* lifetimes, in ticks
          MaxTime, MaxLosses, MaxLogins,    \* bounds of the model:
          MaxSessions                \* at which no new request starts

ASSUME TabsAssumption == TabOf \in [Calls -> Tabs]
ASSUME LifetimeAssumption == AccessTTL \in Nat \ {0} /\ RefreshTTL \in Nat \ {0}
ASSUME BoundsAssumption == MaxTime \in Nat /\ MaxSessions \in Nat
                         /\ MaxLosses \in Nat /\ MaxLogins \in Nat

VARIABLES
  sessions,   \* the auth_sessions table, in commit order
  active,     \* users.active
  jar,        \* the refresh token and the expiry of the access token held
  call,       \* the API calls in progress
  flight,     \* the refresh request a call started
  out,        \* the logout request of each tab
  now, losses

vars == <<sessions, active, jar, call, flight, out, now, losses>>

NoCall   == [pc |-> "idle", access |-> 0, again |-> FALSE]
NoFlight == [pc |-> "idle", token |-> 0, snap |-> 0, fresh |-> 0, access |-> 0]
NoLogout == [pc |-> "idle", token |-> 0]

Family(f) == {i \in DOMAIN sessions : sessions[i].family = f}
Families  == {sessions[i].family : i \in DOMAIN sessions}
Revoke(table, S) ==
  [i \in DOMAIN table |-> IF i \in S THEN [table[i] EXCEPT !.revoked = TRUE]
                                     ELSE table[i]]
-----------------------------------------------------------------------------
(* login *)

NewRowExpired(family) ==           \* mutant: the lifetime is subtracted
  [family |-> family, expires |-> now - RefreshTTL, revoked |-> FALSE, next |-> 0]
NewRowNewFamily(family) ==         \* mutant: refresh does not pass family_id on
  [family |-> Len(sessions) + 1, expires |-> now + RefreshTTL, revoked |-> FALSE,
   next |-> 0]

\* _new_session
NewRow(family) ==
  [family |-> family, expires |-> now + RefreshTTL, revoked |-> FALSE, next |-> 0]

Login ==
  /\ active /\ Cardinality(Families) < MaxLogins
  /\ sessions' = Append(sessions, NewRow(Len(sessions) + 1))
  /\ jar' = [refresh |-> Len(sessions) + 1, access |-> now + AccessTTL]
  /\ UNCHANGED <<active, call, flight, out, now, losses>>
-----------------------------------------------------------------------------
(* A call of the API, and the interceptor around it. *)

Ask(c) ==
  /\ call[c].pc = "idle" /\ Len(sessions) < MaxSessions
  /\ call' = [call EXCEPT ![c] = [NoCall EXCEPT !.pc = "sent", !.access = jar.access]]
  /\ UNCHANGED <<sessions, active, jar, flight, out, now, losses>>

Refused(c) == ~(active /\ call[c].access > now)

\* current_user refuses the access token.
Refuse(c) ==
  /\ call[c].pc = "sent" /\ Refused(c) /\ ~call[c].again
  /\ call' = [call EXCEPT ![c].pc = "401"]
  /\ UNCHANGED <<sessions, active, jar, flight, out, now, losses>>

\* The call is served, or it was sent again already: no second refresh.
Answer(c) ==
  /\ call[c].pc = "sent" /\ (call[c].again \/ ~Refused(c))
  /\ call' = [call EXCEPT ![c] = NoCall]
  /\ UNCHANGED <<sessions, active, jar, flight, out, now, losses>>

InFlightNever(t) == FALSE          \* mutant: refreshRequest is not shared

\* refreshRequest of tab t is set.
InFlight(t) == \E d \in Calls : TabOf[d] = t /\ flight[d].pc # "idle"

\* The first 401 of a tab starts a refresh, the others wait for it.
Park(c) ==
  /\ call[c].pc = "401"
  /\ call' = [call EXCEPT ![c].pc = "parked"]
  /\ flight' = IF InFlight(TabOf[c]) THEN flight
               ELSE [flight EXCEPT ![c] =
                       [NoFlight EXCEPT !.pc = "sent", !.token = jar.refresh]]
  /\ UNCHANGED <<sessions, active, jar, out, now, losses>>
-----------------------------------------------------------------------------
(* refresh *)

RowLocks(c) == IF flight[c].pc \in {"rotating", "revoking"} THEN {flight[c].token} ELSE {}

RowNotLocked(c, i) == TRUE         \* mutant: the session is read without FOR UPDATE

RowFree(c, i) == \A d \in Calls \ {c} : i \notin RowLocks(d)

\* The checks of refresh, made under the row lock.
RefreshLock(c) ==
  LET k == flight[c].token IN
  /\ flight[c].pc = "sent"
  /\ RowFree(c, k)
  /\ IF k = 0
     THEN /\ flight' = [flight EXCEPT ![c].pc = "refused"]
          /\ UNCHANGED sessions
     ELSE IF sessions[k].revoked
     THEN /\ flight' = [flight EXCEPT ![c].pc = "revoking", ![c].snap = Len(sessions)]
          /\ UNCHANGED sessions
     ELSE IF sessions[k].expires <= now \/ ~active
     THEN /\ flight' = [flight EXCEPT ![c].pc = "refused"]
          /\ sessions' = Revoke(sessions, {k})
     ELSE /\ flight' = [flight EXCEPT ![c].pc = "rotating"]
          /\ UNCHANGED sessions
  /\ UNCHANGED <<active, jar, call, out, now, losses>>

RotateCommit(c) ==
  LET k == flight[c].token  n == Len(sessions) + 1 IN
  /\ flight[c].pc = "rotating"
  /\ sessions' = Append([sessions EXCEPT ![k].revoked = TRUE, ![k].next = n],
                        NewRow(sessions[k].family))
  /\ flight' = [flight EXCEPT ![c].pc = "renewed", ![c].fresh = n,
                              ![c].access = now + AccessTTL]
  /\ UNCHANGED <<active, jar, call, out, now, losses>>

\* The update of the family waits for rows others hold, and covers the rows
\* committed when the statement began, somewhere between lock and now.
Blocks(d, c) ==
  d # c /\ \E i \in RowLocks(d) : i \in Family(sessions[flight[c].token].family)

RevokeFamily(c) ==
  /\ flight[c].pc = "revoking"
  /\ \A d \in Calls : ~Blocks(d, c)
  /\ \E n \in flight[c].snap..Len(sessions) :
       sessions' = Revoke(sessions,
                          Family(sessions[flight[c].token].family) \intersect (1..n))
  /\ flight' = [flight EXCEPT ![c].pc = "refused"]
  /\ UNCHANGED <<active, jar, call, out, now, losses>>

\* Two updates of one family wait for each other's row: one is cancelled.
DeadlockVictim(c) ==
  /\ flight[c].pc = "revoking"
  /\ \E d \in Calls : flight[d].pc = "revoking" /\ Blocks(d, c) /\ Blocks(c, d)
  /\ flight' = [flight EXCEPT ![c].pc = "refused"]
  /\ UNCHANGED <<sessions, active, jar, call, out, now, losses>>

ParkedAlone(c) == {c}              \* mutant: only the first call hears of the end

\* Calls of the tab that wait for the refresh c started.
Parked(c) == {d \in Calls : TabOf[d] = TabOf[c] /\ call[d].pc = "parked"}

\* The new cookies arrive and the parked calls are sent again with them.
Renewed(c) ==
  /\ flight[c].pc = "renewed"
  /\ jar' = [refresh |-> flight[c].fresh, access |-> flight[c].access]
  /\ call' = [d \in Calls |-> IF d \in Parked(c)
                THEN [call[d] EXCEPT !.pc = "sent", !.access = flight[c].access,
                                     !.again = TRUE]
                ELSE call[d]]
  /\ flight' = [flight EXCEPT ![c] = NoFlight]
  /\ UNCHANGED <<sessions, active, out, now, losses>>

\* The refresh failed: every parked call fails and the user is sent to log in.
FailParked(c) ==
  /\ call' = [d \in Calls |-> IF d \in Parked(c) THEN NoCall ELSE call[d]]
  /\ flight' = [flight EXCEPT ![c] = NoFlight]
  /\ UNCHANGED <<sessions, active, jar, out, now>>

NotRenewed(c) == flight[c].pc = "refused" /\ FailParked(c) /\ UNCHANGED losses

\* The connection is lost before or after the server has done its part.
Lose(c) ==
  /\ flight[c].pc \notin {"idle", "refused"} /\ losses < MaxLosses
  /\ losses' = losses + 1
  /\ FailParked(c)
-----------------------------------------------------------------------------
(* logout *)

Logout(t) ==
  /\ out[t].pc = "idle" /\ Len(sessions) < MaxSessions
  /\ out' = [out EXCEPT ![t] = [pc |-> "sent", token |-> jar.refresh]]
  /\ UNCHANGED <<sessions, active, jar, call, flight, now, losses>>

\* The session is read without a lock, but to revoke it again changes nothing.
LogoutCommit(t) ==
  LET k == out[t].token IN
  /\ out[t].pc = "sent"
  /\ k \in {i \in DOMAIN sessions : ~sessions[i].revoked} =>
       \A c \in Calls : k \notin RowLocks(c)
  /\ sessions' = Revoke(sessions, {k})
  /\ out' = [out EXCEPT ![t].pc = "answered"]
  /\ UNCHANGED <<active, jar, call, flight, now, losses>>

LoggedOut(t) ==
  /\ out[t].pc = "answered"
  /\ jar' = [refresh |-> 0, access |-> 0]
  /\ out' = [out EXCEPT ![t] = NoLogout]
  /\ UNCHANGED <<sessions, active, call, flight, now, losses>>
-----------------------------------------------------------------------------
(* Outside this code: users.active is changed by hand, and time passes. *)

Deactivate ==
  /\ active /\ active' = FALSE
  /\ UNCHANGED <<sessions, jar, call, flight, out, now, losses>>

Tick ==
  /\ now < MaxTime /\ now' = now + 1
  /\ UNCHANGED <<sessions, active, jar, call, flight, out, losses>>
-----------------------------------------------------------------------------
Init ==
  /\ sessions = <<>> /\ active = TRUE
  /\ jar = [refresh |-> 0, access |-> 0]
  /\ call = [c \in Calls |-> NoCall]
  /\ flight = [c \in Calls |-> NoFlight]
  /\ out = [t \in Tabs |-> NoLogout]
  /\ now = 0 /\ losses = 0

\* What follows once a call is made.
Handle(c) ==
  \/ Refuse(c) \/ Answer(c) \/ Park(c)
  \/ RefreshLock(c) \/ RotateCommit(c) \/ RevokeFamily(c) \/ DeadlockVictim(c)
  \/ Renewed(c) \/ NotRenewed(c)

Next ==
  \/ Login
  \/ \E t \in Tabs : Logout(t) \/ LogoutCommit(t) \/ LoggedOut(t)
  \/ \E c \in Calls : Ask(c) \/ Handle(c) \/ Lose(c)
  \/ Deactivate \/ Tick

Spec == Init /\ [][Next]_vars

\* Servers and browsers carry on with what was started.
FairSpec == Spec /\ \A c \in Calls : WF_vars(Handle(c))
-----------------------------------------------------------------------------
(* Properties. *)

\* Every variable has its type.
TypeOK ==
  /\ sessions \in Seq([family : 1..Len(sessions), expires : Nat, revoked : BOOLEAN,
                       next : 0..Len(sessions)])
  /\ active \in BOOLEAN
  /\ jar \in [refresh : 0..Len(sessions), access : Nat]
  /\ call \in [Calls -> [pc : {"idle", "sent", "401", "parked"},
                         access : Nat, again : BOOLEAN]]
  /\ flight \in [Calls -> [pc : {"idle", "sent", "rotating", "revoking", "renewed",
                                 "refused"},
                           token : 0..Len(sessions), snap : 0..Len(sessions),
                           fresh : 0..Len(sessions), access : Nat]]
  /\ out \in [Tabs -> [pc : {"idle", "sent", "answered"}, token : 0..Len(sessions)]]
  /\ now \in Nat /\ losses \in Nat

\* A family has one usable token at most, however many tabs rotate it at once,
\* and none that was replaced.
OneLivePerFamily ==
  \A f \in Families :
    Cardinality({i \in Family(f) : ~sessions[i].revoked}) <= 1

\* Rotation is a chain: each session replaces at most one, of its own family,
\* and all but the newest of a family have been replaced.
RotationIsAChain ==
  \A f \in Families : \A i \in Family(f) :
    LET later == {j \in Family(f) : j > i} IN
    IF later = {} THEN sessions[i].next = 0
    ELSE sessions[i].next \in later /\ \A j \in later : sessions[i].next <= j

\* One tab whose answers arrive never presents a token that was rotated: its
\* parallel calls, stale 401s and retries share one refresh, so reuse detection
\* does not sign the user out.
NoFalseReuse ==
  \A c \in Calls : flight[c].pc = "revoking" =>
    losses > 0 \/ sessions[flight[c].token].next = 0

\* A call is answered in the end, also when it waits for another's refresh.
CallsAnswered == \A c \in Calls : call[c].pc # "idle" ~> call[c].pc = "idle"
=============================================================================
