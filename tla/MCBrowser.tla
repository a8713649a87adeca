------------------------------- MODULE MCBrowser -------------------------------
(* Two tabs of one browser and three refresh tokens: two logins and a renewal, *)
(* or one login and two renewals, with two requests under way.                 *)
EXTENDS Browser, TLC
CONSTANTS left, right, ann, none
MCSymmetry == Permutations({left,right})
MCTabs == {left, right}
=============================================================================
