----------------------------- MODULE MessageFate -----------------------------
(***************************************************************************)
(* What becomes of a message that staff write, seen from the customer and  *)
(* the console, with no requests, outbox rows, workers or locks: it is     *)
(* stored once, leaves while it is queued, and its fate is then sealed.    *)
(***************************************************************************)
EXTENDS Integers

CONSTANT ClientIds

VARIABLES fate,     \* of each client id's message
          copies,   \* how many the customer was sent
          deaths    \* of workers
delivery == <<fate, copies, deaths>>

Init ==
  /\ fate = [c \in ClientIds |-> "none"]
  /\ copies = [c \in ClientIds |-> 0]
  /\ deaths = 0

Become(c, to) == fate' = [fate EXCEPT ![c] = to]

Store(c) ==
  /\ fate[c] = "none"
  /\ Become(c, "draft") \/ Become(c, "queued")
  /\ UNCHANGED <<copies, deaths>>

\* A copy leaves a queued message only: the first, or one more for a death.
Leave(c) ==
  /\ fate[c] = "queued" /\ copies[c] <= deaths
  /\ copies' = [copies EXCEPT ![c] = @ + 1]
  /\ UNCHANGED <<fate, deaths>>

\* "sent" takes a copy that left; "unknown" and "failed" may hide one.
Settle(c) ==
  /\ fate[c] = "queued"
  /\ \/ copies[c] > 0 /\ Become(c, "sent")
     \/ Become(c, "unknown")
     \/ Become(c, "failed")
  /\ UNCHANGED <<copies, deaths>>

Die == deaths' = deaths + 1 /\ UNCHANGED <<fate, copies>>

Next == Die \/ \E c \in ClientIds : Store(c) \/ Leave(c) \/ Settle(c)

Spec == Init /\ [][Next]_delivery
=============================================================================
