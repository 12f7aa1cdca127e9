----------------------------- MODULE MCHoldings -----------------------------
(* Values of the constants of Holdings for TLC. *)
EXTENDS Holdings, TLC

CONSTANTS b1, b2, e1, e2, p1, p2, r1, r2, r3

MCBooks == {b1, b2}
MCEditions == {e1, e2}
\* two printings of one book, and a book that was never printed
MCBookOf == e1 :> b1 @@ e2 :> b1
MCPlaces == {p1, p2}
MCRequests == {r1, r2, r3}
MCSymmetry == Permutations(MCRequests) \cup Permutations(MCPlaces) \cup Permutations(MCEditions)
=============================================================================
