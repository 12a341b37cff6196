------------------------------ MODULE MCArena ------------------------------
(***************************************************************************)
(* Two players, three places that are shown, five places fakes begin with. *)
(***************************************************************************)
EXTENDS Arena

CONSTANTS p1, p2

ThePlayers == {p1, p2}
(* A bound: one thing goes wrong at a time.                                *)
OneAtATime == Cardinality(spoilt) <= 1

Symmetry   == Permutations(ThePlayers)
=============================================================================
