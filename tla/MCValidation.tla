----------------------------- MODULE MCValidation -----------------------------
(* Two users; two calls at a time, so that every pair of handlers interleaves; *)
(* one or two requests.  One user with two ids, as many as calls at a time,    *)
(* suffices for the bound on a user's requests.                                *)
EXTENDS Validation, TLC
CONSTANTS ann, bob, nobody, r1, r2
MCUsers == {ann, bob}
MCOneUser == {ann}
MCRequests == {r1, r2}
MCSymmetry == Permutations(MCUsers) \cup Permutations(MCRequests)
=============================================================================
