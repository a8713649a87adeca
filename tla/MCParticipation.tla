---------------------------- MODULE MCParticipation ----------------------------
(* Two users, one of them the organizer, and one event, two calls at a time.  *)
EXTENDS Participation, TLC
CONSTANTS ann, bob, party, r1, r2
MCUsers == {ann, bob}
MCEvents == {party}
MCRequests == {r1, r2}
MCAdmins == {}
MCOwner == [e \in MCEvents |-> ann]
MCSymmetry == Permutations(MCRequests)
=============================================================================
