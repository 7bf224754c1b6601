------------------------------ MODULE MCDrafts ------------------------------
(* A small instance of Drafts for TLC. *)
EXTENDS Drafts

Claim(k, d, p) == [kind |-> k, digits |-> d, point |-> p]

\* "2 TND" (two millimes or two dinars), "2,0005 TND", "3 TND", one in stock,
\* seven in stock, "1 000 pièces".
MCClaims == {Claim("price", 2, NoPoint), Claim("price", 20005, 4),
             Claim("price", 3, NoPoint),
             Claim("stock", 1, NoPoint), Claim("stock", 7, NoPoint),
             Claim("stock", 1000, 3)}
=============================================================================
