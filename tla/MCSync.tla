------------------------------- MODULE MCSync -------------------------------
(* Values of the constants of Sync for TLC. *)
EXTENDS Sync, TLC

CONSTANTS phone, tablet, emma, persuasion, five, null

MCDevices == {phone, tablet}
MCRatings == {five}
\* a second book makes a second page of changes
OneBook  == {emma}
TwoBooks == {emma, persuasion}
MCSymmetry == Permutations(MCDevices)
=============================================================================
