---------------------------- MODULE OrderLedger ----------------------------
(***************************************************************************)
(* What orders and stock promise to whoever uses them, with no requests,   *)
(* locks or copies: an order reserves all of its units in one step, only   *)
(* when all are there, and gives all of them back in one step.             *)
(***************************************************************************)
EXTENDS Integers, Sequences, FiniteSets

CONSTANTS Orders, Variants, OnHand, MaxQuantity

VARIABLES status, lines, reserved
ledger == <<status, lines, reserved>>

Live == {"CONFIRMED", "PREPARING", "READY_FOR_DELIVERY"}

Init ==
  /\ status = [o \in Orders |-> "ABSENT"]
  /\ lines = [o \in Orders |-> <<>>]
  /\ reserved = [v \in Variants |-> 0]

\* How many units of variant v order o asks for.
Demand(o, v) ==
  Cardinality({u \in (DOMAIN lines[o]) \X (1..MaxQuantity) :
                 lines[o][u[1]].variant = v /\ u[2] <= lines[o][u[1]].quantity})

Move(o, to) == status' = [status EXCEPT ![o] = to]

\* Lines are written once, with the order.
Place(o) ==
  /\ status[o] = "ABSENT"
  /\ Move(o, "DRAFT")
  /\ lines'[o] # <<>>
  /\ \A p \in Orders \ {o} : lines'[p] = lines[p]
  /\ UNCHANGED reserved

Offer(o) ==
  /\ status[o] \in {"DRAFT", "WAITING_CONFIRMATION"}
  /\ Move(o, "WAITING_CONFIRMATION")
  /\ UNCHANGED <<lines, reserved>>

Reserve(o) ==
  /\ status[o] = "WAITING_CONFIRMATION"
  /\ \A v \in Variants : reserved[v] + Demand(o, v) <= OnHand[v]
  /\ reserved' = [v \in Variants |-> reserved[v] + Demand(o, v)]
  /\ Move(o, "CONFIRMED")
  /\ UNCHANGED lines

Advance(o) ==
  /\ \/ status[o] = "CONFIRMED" /\ Move(o, "PREPARING")
     \/ status[o] = "PREPARING" /\ Move(o, "READY_FOR_DELIVERY")
  /\ UNCHANGED <<lines, reserved>>

Release(o) ==
  /\ status[o] \in Live
  /\ reserved' = [v \in Variants |-> reserved[v] - Demand(o, v)]
  /\ Move(o, "CANCELLED")
  /\ UNCHANGED lines

Withdraw(o) ==
  /\ status[o] \in {"DRAFT", "WAITING_CONFIRMATION"}
  /\ Move(o, "CANCELLED")
  /\ UNCHANGED <<lines, reserved>>

Next == \E o \in Orders :
  Place(o) \/ Offer(o) \/ Reserve(o) \/ Advance(o) \/ Release(o) \/ Withdraw(o)

Spec == Init /\ [][Next]_ledger
=============================================================================
