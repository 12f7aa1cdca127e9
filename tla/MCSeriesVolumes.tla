-------------------------- MODULE MCSeriesVolumes --------------------------
(* Values of the constants of SeriesVolumes for TLC. *)
EXTENDS SeriesVolumes

CONSTANTS nightly, reader, own, x, y

MCRunners == {nightly, reader}
MCNightly == {nightly}
MCBooks   == {own, x, y}
MCOwned   == {own}
\* volume 2 may be implied by a total of two, listed by the provider, or both
MCListed  == {2}
MCDescriptions == {{}, {"title"}, {"id"}}
MCTotals  == {NoTotal, 1, 2}
=============================================================================
