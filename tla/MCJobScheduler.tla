--------------------------- MODULE MCJobScheduler ---------------------------
(* Values of the constants of JobScheduler for TLC. *)
EXTENDS JobScheduler

CONSTANTS p1

prune == 1
sync  == 2

\* history_prune is on by default, series_sync is not
MCKinds       == {prune, sync}
MCDefaultOn   == {prune}
MCDefaultCron == [k \in MCKinds |-> IF k = prune THEN 1 ELSE 2]
MCCrons       == {1, 2}
MCPresses     == {p1}
=============================================================================
