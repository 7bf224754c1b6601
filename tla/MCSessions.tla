------------------------------ MODULE MCSessions ------------------------------
(* Small instances of Sessions for TLC. *)
EXTENDS Sessions, TLC

CONSTANTS t1, t2, c1, c2

MCOneTab  == [c \in Calls |-> t1]
MCTwoTabs == (c1 :> t1) @@ (c2 :> t2)
\* Two tabs with a call each change places together.
MCSwap == {(t1 :> t2) @@ (t2 :> t1) @@ (c1 :> c2) @@ (c2 :> c1)}
=============================================================================
