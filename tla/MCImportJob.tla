---------------------------- MODULE MCImportJob ----------------------------
(* Values of the constants of ImportJob for TLC. *)
EXTENDS ImportJob, TLC

CONSTANTS j1, j2, i1, i2, none

MCJobs  == {j1, j2}
MCISBNs == {i1, i2}
Line(isbn, titled, shelved) == [isbn |-> isbn, titled |-> titled, shelved |-> shelved]

\* two imports that bring the same two ISBNs in opposite order, one of them
\* twice; another library holds i2 already; j1 counts duplicates, j2 only
\* updates from them
MCCsv ==
    j1 :> <<Line(i1, TRUE, FALSE), Line(i2, TRUE, FALSE), Line(i2, TRUE, FALSE)>>
    @@ j2 :> <<Line(i2, TRUE, TRUE), Line(i1, TRUE, FALSE)>>
MCElsewhere == {i2}
MCOptions ==
    j1 :> [increment |-> TRUE, update |-> FALSE, metadata |-> TRUE, covers |-> FALSE]
    @@ j2 :> [increment |-> FALSE, update |-> TRUE, metadata |-> FALSE, covers |-> TRUE]

\* one import with a row of every sort, for the run with lost statements
OneJob == {j1}
OneCsv ==
    j1 :> <<Line(i1, TRUE, FALSE), Line(i2, TRUE, TRUE), Line(none, FALSE, FALSE),
            Line(i1, TRUE, FALSE), Line(none, TRUE, FALSE)>>
OneOptions ==
    j1 :> [increment |-> FALSE, update |-> FALSE, metadata |-> TRUE, covers |-> TRUE]
=============================================================================
