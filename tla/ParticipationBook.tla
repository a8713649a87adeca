--------------------------- MODULE ParticipationBook ---------------------------
(***************************************************************************)
(* What the participation end points promise, with the recommendation      *)
(* graph and the steps of the handlers hidden.  A call is settled in one   *)
(* atomic step, and its verdict tells the caller whether that step, and no *)
(* other call's, changed the roster:                                       *)
(*   204  the call changed the roster or withdrew the event,               *)
(*   409  the event is listed and the call had nothing to change,          *)
(*   404  there was no such event for this caller.                         *)
(* A settled call may still be answered 500, and a call that is not        *)
(* settled may fail: a 500 leaves the caller not knowing.                  *)
(***************************************************************************)
CONSTANTS Users, Events, Requests,
          MayDelete(_, _)     \* MayDelete(u, e): u owns e or is an administrator

VARIABLES listed,             \* the events that exist
          roster,             \* who takes part in each event
          call                \* what each caller is waiting for
bookVars == <<listed, roster, call>>

NoCall == [stage |-> "idle"]

Init ==
    /\ listed = Events
    /\ roster = [e \in Events |-> {}]
    /\ call = [r \in Requests |-> NoCall]

Ask(r, op, u, e) ==
    /\ call[r] = NoCall
    /\ call' = [call EXCEPT ![r] = [stage |-> "open", op |-> op, user |-> u, event |-> e]]
    /\ UNCHANGED <<listed, roster>>

\* What the call wants the roster of its event to be.
Wanted(c) ==
    CASE c.op = "join"   -> roster[c.event] \cup {c.user}
      [] c.op = "leave"  -> roster[c.event] \ {c.user}
      [] c.op = "delete" -> {}

Settled(c, v) == [stage |-> "settled", op |-> c.op, user |-> c.user,
                  event |-> c.event, verdict |-> v]

SettleParticipation(r) ==
    LET c == call[r] IN
    /\ c.stage = "open"
    /\ c.op \in {"join", "leave"}
    /\ roster' = IF c.event \in listed
                 THEN [roster EXCEPT ![c.event] = Wanted(c)] ELSE roster
    /\ call' = [call EXCEPT ![r] =
                  Settled(c, IF c.event \notin listed THEN 404
                             ELSE IF roster' # roster THEN 204 ELSE 409)]
    /\ UNCHANGED listed

SettleDelete(r) ==
    LET c == call[r] IN
    /\ c.stage = "open"
    /\ c.op = "delete"
    /\ listed' = IF MayDelete(c.user, c.event) THEN listed \ {c.event} ELSE listed
    /\ roster' = IF listed' # listed THEN [roster EXCEPT ![c.event] = {}] ELSE roster
    /\ call' = [call EXCEPT ![r] = Settled(c, IF listed' # listed THEN 204 ELSE 404)]

\* The answer is the verdict of the settled call, or the caller learns nothing.
Answered(a) == [stage |-> "answered", answer |-> a]

Answer(r) ==
    /\ call[r].stage = "settled"
    /\ call' = [call EXCEPT ![r] = Answered(call[r].verdict)]
    /\ UNCHANGED <<listed, roster>>

\* 500, or a connection that the server dropped: any number of calls at once.
Unknown == {500, 0}
Lose ==
    \E R \in SUBSET Requests, a \in Unknown :
      /\ \A r \in R : call[r].stage \in {"open", "settled"}
      /\ call' = [r \in Requests |-> IF r \in R THEN Answered(a) ELSE call[r]]
      /\ UNCHANGED <<listed, roster>>

Forget(r) ==
    /\ call[r].stage = "answered"
    /\ call' = [call EXCEPT ![r] = NoCall]
    /\ UNCHANGED <<listed, roster>>

\* The deletion of an account takes its user off a roster.
Withdraw(u, e) ==
    /\ roster' = [roster EXCEPT ![e] = @ \ {u}]
    /\ UNCHANGED <<listed, call>>

Next ==
    \/ \E r \in Requests : \/ SettleParticipation(r) \/ SettleDelete(r)
                           \/ Answer(r) \/ Forget(r)
                           \/ \E op \in {"join", "leave", "delete"}, u \in Users, e \in Events :
                                Ask(r, op, u, e)
    \/ \E u \in Users, e \in Events : Withdraw(u, e)
    \/ Lose

Spec == Init /\ [][Next]_bookVars
=============================================================================
