------------------------------ MODULE MCDiscovery -----------------------------
(* Three users, of whom the visitor's app polls and another's, and three events: *)
(* one of them not public, one soon over, one out of the smaller radius and not  *)
(* yet paid for; graphs in which the two neighbours differ in how much they are  *)
(* like the visitor and in what they bring.  Pages of no, one and two events.    *)
EXTENDS Discovery
CONSTANTS ann, bob, eve, e1, e2, e3, s1, s2
MCUsers == {ann, bob, eve}
MCRank == ann :> 1 @@ bob :> 2 @@ eve :> 3
MCApps == {ann, bob}
MCEvents == {e1, e2, e3}
MCDist == e1 :> 1 @@ e2 :> 1 @@ e3 :> 2
MCStart == e1 :> 1 @@ e2 :> 0 @@ e3 :> 1
MCName == e1 :> 1 @@ e2 :> 2 @@ e3 :> 2
MCPublic == {e1, e3}
MCRadii == {1, 2}
MCSizes == {0, 1, 2}
MCGraphs == {{<<ann, e1>>, <<bob, e1>>, <<bob, e2>>, <<eve, e1>>, <<eve, e2>>, <<eve, e3>>},
             {<<ann, e2>>, <<bob, e2>>, <<bob, e1>>, <<bob, e3>>, <<eve, e2>>, <<eve, e3>>}}
MCUnpaid == {e3}
MCSlots == {s1, s2}
MCSymmetry == Permutations(MCSlots)
=============================================================================
