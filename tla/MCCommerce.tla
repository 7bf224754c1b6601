----------------------------- MODULE MCCommerce -----------------------------
(* Small instances of Commerce for TLC. *)
EXTENDS Commerce, TLC

CONSTANTS v1, v2

Line(v, q) == [variant |-> v, quantity |-> q]

\* A basket over two variants, and one that names a variant twice: orders that
\* compete, line by line.
MCTwoCarts == {<<Line(v1, 1), Line(v2, 1)>>, <<Line(v1, 1), Line(v1, 1)>>}
MCOneLine == {<<Line(v1, 1)>>}

\* Not enough of v1 for two orders that both want two, enough of v2.
MCOnHand == v1 :> 2 @@ v2 :> 1
MCOnHandOne == v1 :> 1
MCOnHandTwo == v1 :> 2
=============================================================================
