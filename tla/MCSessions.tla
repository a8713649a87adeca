------------------------------ MODULE MCSessions ------------------------------
(* Two users and two tokens: racing logins, an account deleted and made anew, *)
(* force_logout beside the session of somebody else; three tokens for the     *)
(* forced logout that a refresh survives.                                     *)
EXTENDS Sessions, TLC
CONSTANTS ann, bob, nobody, r1, r2
MCUsers == {ann, bob}
MCRequests == {r1, r2}
MCSymmetry == Permutations(MCUsers) \cup Permutations(MCRequests)
=============================================================================
