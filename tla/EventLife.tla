------------------------------- MODULE EventLife -------------------------------
(***************************************************************************)
(* The promise of the event catalogue to its clients: an event is drafted  *)
(* once, is listed only when money came in for it, stays listed until it   *)
(* is closed, never returns, and at all times ends no earlier than it      *)
(* starts.  Documents, nodes, calls and failures do not appear.            *)
(***************************************************************************)
EXTENDS Naturals

CONSTANTS Events, Times,
          MaxCharges   \* bound: charges counted per event

VARIABLES stage,   \* where the event is in its life
          span,    \* its start and end
          money    \* the charges made for it
lifeVars == <<stage, span, money>>

Stages == {"none", "draft", "listed", "closed"}
NoSpan == [start |-> 0, end |-> 0]
Schedule == {s \in [start : Times, end : Times] : s.start <= s.end}

Init ==
    /\ stage = [e \in Events |-> "none"]
    /\ span = [e \in Events |-> NoSpan]
    /\ money = [e \in Events |-> 0]

Move(e, from, to) == stage[e] \in from /\ stage' = [stage EXCEPT ![e] = to]

Draft(e) ==
    /\ Move(e, {"none"}, "draft")
    /\ \E s \in Schedule : span' = [span EXCEPT ![e] = s]
    /\ UNCHANGED money

Reschedule(e) ==
    /\ stage[e] \in {"draft", "listed"}
    /\ \E s \in Schedule : span' = [span EXCEPT ![e] = s]
    /\ UNCHANGED <<stage, money>>

\* Money may come in at any stage: the card is charged before the event is read.
Charge(e) ==
    /\ money[e] < MaxCharges
    /\ money' = [money EXCEPT ![e] = @ + 1]
    /\ UNCHANGED <<stage, span>>

List(e) ==
    /\ money[e] > 0
    /\ Move(e, {"draft"}, "listed")
    /\ UNCHANGED <<span, money>>

Close(e) ==
    /\ Move(e, {"draft", "listed"}, "closed")
    /\ span' = [span EXCEPT ![e] = NoSpan]
    /\ UNCHANGED money

Next == \E e \in Events :
    Draft(e) \/ Reschedule(e) \/ Charge(e) \/ List(e) \/ Close(e)

Spec == Init /\ [][Next]_lifeVars
=============================================================================
