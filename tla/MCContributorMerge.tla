------------------------- MODULE MCContributorMerge -------------------------
(* Values of the constants of ContributorMerge for TLC. *)
EXTENDS ContributorMerge, TLC

CONSTANTS montgomery, ramontgomery, initials, cave, alice, bob, emma

MCPeople == {montgomery, ramontgomery, initials}
MCBooks == {cave}
MCAdmins == {alice, bob}
MCEditors == {emma}
MCSymmetry == Permutations(MCPeople) \cup Permutations(MCAdmins)
=============================================================================
