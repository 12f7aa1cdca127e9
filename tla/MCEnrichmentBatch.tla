------------------------- MODULE MCEnrichmentBatch -------------------------
(* Values of the constants of EnrichmentBatch for TLC. *)
EXTENDS EnrichmentBatch

CONSTANTS b1, b2, b3

MCBooks == {b1, b2, b3}
\* three books, each once
MCBookIDs == <<b1, b2, b3>>
\* two books, for the runs that look for a shortest counterexample
MCTwoBookIDs == <<b1, b2>>
=============================================================================
