------------------------------ MODULE AccessTokens ------------------------------
(***************************************************************************)
(* What the rest of the backend relies on: an access token is accepted     *)
(* from the moment it is issued until its expiry claim plus the clock      *)
(* tolerance, by the process that issued it, and by no later one.  No key  *)
(* appears here: signing keys come and go behind this promise.             *)
(***************************************************************************)
EXTENDS Naturals

CONSTANTS TTL,         \* expiresIn of a token
          Tolerance,   \* clockTolerance of the verification
          MaxTime      \* bound: the clock of a finite check

VARIABLES now, issued,
          honoured,    \* the tokens of the running process
          verdict      \* the last verification and what it answered
tokenVars == <<now, issued, honoured, verdict>>

NoVerdict == [ok |-> FALSE]

Init == now = 0 /\ issued = {} /\ honoured = {} /\ verdict = NoVerdict

Tick == now < MaxTime /\ now' = now + 1 /\ UNCHANGED <<issued, honoured, verdict>>

\* What a token carries besides its expiry claim is of no concern here.
Issue == \E t \in issued' :
           /\ t.exp = now + TTL
           /\ issued' = issued \cup {t}
           /\ honoured' = honoured \cup {t}
           /\ UNCHANGED <<now, verdict>>

Verify == \E t \in issued :
            /\ verdict' = [token |-> t, ok |-> t \in honoured /\ now < t.exp + Tolerance]
            /\ UNCHANGED <<now, issued, honoured>>

\* A client drops a token.
Discard == \E t \in issued :
             /\ issued' = issued \ {t}
             /\ honoured' = honoured \ {t}
             /\ UNCHANGED <<now, verdict>>

Restart == honoured' = {} /\ UNCHANGED <<now, issued, verdict>>

Next == Tick \/ Issue \/ Verify \/ Discard \/ Restart
Spec == Init /\ [][Next]_tokenVars
=============================================================================
