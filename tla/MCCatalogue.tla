------------------------------ MODULE MCCatalogue ------------------------------
(* One event, two calls at a time.                                             *)
EXTENDS Catalogue, TLC
CONSTANTS ball, r1, r2
MCEvents == {ball}
MCRequests == {r1, r2}
MCSymmetry == Permutations(MCRequests)
=============================================================================
