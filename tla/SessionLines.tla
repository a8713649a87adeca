------------------------------ MODULE SessionLines ------------------------------
(***************************************************************************)
(* What a chain of refresh tokens promises.  A login begins a line; from   *)
(* then on the line is one token, or one renewal that has taken that token *)
(* and not yet put the next one in its place, or it is over, for good.     *)
(* Only a renewal that presented the fingerprint handed out with the taken *)
(* token ever continues the line.  No store, step or account appears here. *)
(***************************************************************************)
CONSTANTS Users,
          Tokens        \* the identifiers of refresh tokens, each with its fingerprint

VARIABLES used,         \* the tokens handed out so far
          held,         \* the tokens, each with its user, that can continue a line
          taken         \* what a renewal in progress has taken and presented
lineVars == <<used, held, taken>>

\* A line is named by the token it began with.
Lines == Tokens

Init ==
    /\ used = {}
    /\ held = [l \in Lines |-> {}]
    /\ taken = [l \in Lines |-> {}]

HandOut(t) == t \notin used /\ used' = used \cup {t}

Begin(l, u) ==
    /\ HandOut(l)
    /\ held' = [held EXCEPT ![l] = {[token |-> l, user |-> u]}]
    /\ UNCHANGED taken

Take(l, p) ==
    \E h \in held[l] :
      /\ held' = [held EXCEPT ![l] = {}]
      /\ taken' = [taken EXCEPT ![l] =
                     {[token |-> h.token, user |-> h.user, print |-> p]}]
      /\ UNCHANGED used

Renew(l, next) ==
    \E c \in taken[l] :
      /\ c.print = c.token
      /\ HandOut(next)
      /\ held' = [held EXCEPT ![l] = {[token |-> next, user |-> c.user]}]
      /\ taken' = [taken EXCEPT ![l] = {}]

\* Revoked: the token is gone.
Revoke(l) ==
    /\ held' = [held EXCEPT ![l] = {}]
    /\ UNCHANGED <<used, taken>>

\* Renewals that were refused, failed or died with the process.
Abandon(L) ==
    /\ taken' = [l \in Lines |-> IF l \in L THEN {} ELSE taken[l]]
    /\ UNCHANGED <<used, held>>

\* All the tokens of a user, and of no other.
Expel(u) ==
    /\ held' = [l \in Lines |-> {h \in held[l] : h.user # u}]
    /\ UNCHANGED <<used, taken>>

Next ==
    \/ \E l \in Lines : \/ \E u \in Users : Begin(l, u)
                        \/ \E p \in Tokens : Take(l, p)
                        \/ \E t \in Tokens : Renew(l, t)
                        \/ Revoke(l)
    \/ \E L \in SUBSET Lines : Abandon(L)
    \/ \E u \in Users : Expel(u)

Spec == Init /\ [][Next]_lineVars
=============================================================================
