-------------------------------- MODULE KeyRing --------------------------------
(***************************************************************************)
(* PasetoService (backend/src/auth/paseto.service.ts): the ring of signing *)
(* keys of access tokens, kept in the memory of one process.               *)
(*                                                                         *)
(* createToken signs with the newest key if that key has not reached its   *)
(* expires time, and otherwise generates a key, which takes an await during*)
(* which other requests run.  A key is for signing during half a rotation  *)
(* interval and is deleted by a weak timeout after a whole one.  The       *)
(* interval timer calls addNewKey without its receiver: the callback fails *)
(* on this.keys once the key is generated, nobody handles the rejection,   *)
(* and Node 16 ends the process; a new process starts with an empty ring.  *)
(***************************************************************************)
EXTENDS Naturals, FiniteSets

CONSTANTS Requests,
          Half,        \* half of pasetoKeyRotationInterval
          TTL,         \* expiresIn: '15m'
          Tolerance,   \* clockTolerance: '1m'
          Lag,         \* longest time between the check of a key and its use
          MaxTime,     \* bound: the clock
          MaxRestarts, \* bound: the times a process ends
          MaxTokens    \* bound: the tokens in the hands of clients

\* 3.5 days against 15 minutes, one minute and the microtasks before the signature.
ASSUME TimingAssumption ==
    /\ Half \in Nat /\ TTL \in Nat \ {0} /\ Tolerance \in Nat /\ Lag \in Nat
    /\ TTL + Tolerance + Lag <= Half
    /\ MaxTime \in Nat /\ MaxRestarts \in Nat /\ MaxTokens \in Nat

\* However many calls of createToken are in progress, there are finitely many, and one may be.
ASSUME RequestsAssumption == IsFiniteSet(Requests) /\ Requests # {}

VARIABLES now,
          up,          \* a process is running
          ring,        \* this.keys
          made,        \* history: how many keys were ever made; they are 1..made
          born,        \* history: how many of them are of earlier processes
          boots,       \* how many processes have been started
          rotateAt,    \* when the interval timer is due
          endedBy,     \* history: what ended the last process
          req,         \* the createToken calls in progress
          issued,      \* the tokens signed and not dropped
          verdict      \* the last verifyToken
vars == <<now, up, ring, made, born, boots, rotateAt, endedBy, req, issued, verdict>>

Interval == Half + Half
Key == [kid : Nat \ {0}, expires : Nat]
Token == [kid : Nat \ {0}, exp : Nat]
Idle == [pc |-> "idle"]
Generating == [pc |-> "generating"]
Signing(k) == [pc |-> "signing", key |-> k, at |-> now]
SigningCall == [pc : {"signing"}, key : Key, at : Nat]
NoVerdict == [ok |-> FALSE]

TypeOK ==
    /\ now \in Nat /\ up \in BOOLEAN
    /\ ring \subseteq Key
    /\ made \in Nat /\ born \in Nat /\ boots \in Nat
    /\ rotateAt \in Nat
    /\ endedBy \in {"none", "crash", "rotation"}
    /\ req \in [Requests -> {Idle, Generating} \cup SigningCall]
    /\ issued \subseteq Token

Init ==
    /\ now = 0 /\ up = FALSE
    /\ ring = {} /\ made = 0 /\ born = 0 /\ boots = 0
    /\ rotateAt = 0 /\ endedBy = "none"
    /\ req = [r \in Requests |-> Idle]
    /\ issued = {} /\ verdict = NoVerdict

-----------------------------------------------------------------------------
\* Mutation: the key takes the number of the one before it.
NewKeyUncounted == [kid |-> made, expires |-> now + Half]

\* addNewKey, once the key is generated.
NewKey == [kid |-> made + 1, expires |-> now + Half]
AddNewKey ==
    /\ ring' = ring \cup {NewKey}
    /\ made' = made + 1

\* onModuleInit: the first key is in the ring before any request is served.
Boot ==
    /\ ~up
    /\ up' = TRUE
    /\ AddNewKey
    /\ born' = made
    /\ boots' = boots + 1
    /\ rotateAt' = now + Interval
    /\ UNCHANGED <<now, endedBy, req, issued, verdict>>

\* The ring and the calls in progress are lost with the process.
ProcessEnds(cause) ==
    /\ up /\ boots <= MaxRestarts
    /\ up' = FALSE
    /\ ring' = {}
    /\ req' = [r \in Requests |-> Idle]
    /\ endedBy' = cause
    /\ UNCHANGED <<now, made, born, boots, rotateAt, issued, verdict>>

Crash == ProcessEnds("crash")

\* setInterval(this.addNewKey, ...): `this` is the timer, which has no keys.
RotationTick == now >= rotateAt /\ ProcessEnds("rotation")

\* Mutation: the timeout deletes the key when it may no longer sign.
ExpireKeyEarly(k) ==
    /\ now >= k.expires
    /\ ring' = ring \ {k}
    /\ UNCHANGED <<now, up, made, born, boots, rotateAt, endedBy, req, issued, verdict>>

\* The weak timeout of a key; it never fires early, and may fire late.
ExpireKey(k) ==
    /\ now >= k.expires + Half
    /\ ring' = ring \ {k}
    /\ UNCHANGED <<now, up, made, born, boots, rotateAt, endedBy, req, issued, verdict>>

-----------------------------------------------------------------------------
\* The reduce of getNewestKey: the latest expires, the first inserted of equals.
IsNewest(k) ==
    \A j \in ring :
      \/ j.expires < k.expires
      \/ j.expires = k.expires /\ k.kid <= j.kid
FreshKeys == {k \in ring : k.expires > now}

\* Mutation: every token gets a key of its own.
CreateTokenAlways(r) ==
    /\ up /\ req[r] = Idle
    /\ req' = [req EXCEPT ![r] = Generating]
    /\ UNCHANGED <<now, up, ring, made, born, boots, rotateAt, endedBy, issued, verdict>>

CreateToken(r) ==
    /\ up /\ req[r] = Idle
    /\ \/ \E k \in FreshKeys : IsNewest(k) /\ req' = [req EXCEPT ![r] = Signing(k)]
       \/ FreshKeys = {} /\ req' = [req EXCEPT ![r] = Generating]
    /\ UNCHANGED <<now, up, ring, made, born, boots, rotateAt, endedBy, issued, verdict>>

KeyGenerated(r) ==
    /\ req[r] = Generating
    /\ AddNewKey
    /\ req' = [req EXCEPT ![r] = Signing(NewKey)]
    /\ UNCHANGED <<now, up, born, boots, rotateAt, endedBy, issued, verdict>>

\* paseto.sign reads the clock for the expiry claim.
Sign(r) ==
    /\ req[r].pc = "signing"
    /\ Cardinality(issued) < MaxTokens
    /\ issued' = issued \cup {[kid |-> req[r].key.kid, exp |-> now + TTL]}
    /\ req' = [req EXCEPT ![r] = Idle]
    /\ UNCHANGED <<now, up, ring, made, born, boots, rotateAt, endedBy, verdict>>

\* getKeyByKid throws for a kid that is not in the ring.
KnownKey(t) == \E k \in ring : k.kid = t.kid
\* Mutation: the verification lost its clockTolerance.
VerifyStrict(t) ==
    /\ up
    /\ verdict' = [token |-> t, ok |-> KnownKey(t) /\ now < t.exp]
    /\ UNCHANGED <<now, up, ring, made, born, boots, rotateAt, endedBy, req, issued>>

Verify(t) ==
    /\ up
    /\ verdict' = [token |-> t, ok |-> KnownKey(t) /\ now < t.exp + Tolerance]
    /\ UNCHANGED <<now, up, ring, made, born, boots, rotateAt, endedBy, req, issued>>

Discard(t) ==
    /\ issued' = issued \ {t}
    /\ UNCHANGED <<now, up, ring, made, born, boots, rotateAt, endedBy, req, verdict>>

Tick ==
    /\ now < MaxTime
    /\ \A r \in Requests : req[r].pc = "signing" => now < req[r].at + Lag
    /\ now' = now + 1
    /\ UNCHANGED <<up, ring, made, born, boots, rotateAt, endedBy, req, issued, verdict>>

Next ==
    \/ Boot \/ Crash \/ RotationTick \/ Tick
    \/ \E k \in ring : ExpireKey(k)
    \/ \E r \in Requests : CreateToken(r) \/ KeyGenerated(r) \/ Sign(r)
    \/ \E t \in issued : Verify(t) \/ Discard(t)

\* The event loop runs what is due; the container is started again.
Fairness == WF_vars(Boot) /\ WF_vars(Tick) /\ WF_vars(RotationTick)
Spec == Init /\ [][Next]_vars
FairSpec == Spec /\ Fairness

-----------------------------------------------------------------------------
(* Properties.                                                               *)

OfThisProcess(t) == up /\ t.kid > born
StillValid(t) == now < t.exp + Tolerance

\* No key is deleted under a token: as long as a token that this process signed
\* is within its expiry and the tolerance, its key is in the ring, although the
\* key may have been checked before an await and used after it, and although it
\* signs until the end of its half interval.
KeyOutlivesTokens == \A t \in issued : OfThisProcess(t) /\ StillValid(t) => KnownKey(t)

\* However many requests find the newest key expired at the same time, the keys
\* they add are no more than the requests: a fresh key stops the next ones.
FreshKeysBounded ==
    Cardinality(FreshKeys) <= Cardinality(Requests)

\* The ring is invisible: it is the promise of AccessTokens.
Tokens == INSTANCE AccessTokens WITH
            honoured <- {t \in issued : OfThisProcess(t)}
TokensSpec == Tokens!Spec

\* What KeyOutlivesTokens rests on: a token expires soon enough after its key
\* stopped signing; a call that is about to sign holds a key that is still in the
\* ring and was fresh when it was picked, at most Lag ago; keys and calls are of
\* the running process, and numbered in the order they were made.
TokenCovered(t) ==
    \E k \in ring : k.kid = t.kid /\ t.exp <= k.expires + Lag + TTL
SigningSupported(c) ==
    c.pc = "signing" => /\ c.key \in ring
                        /\ c.at <= c.key.expires
                        /\ c.at <= now /\ now <= c.at + Lag
Inductive ==
    /\ born <= made
    /\ \A k \in ring : k.kid \in born + 1 .. made
    /\ \A t \in issued : t.kid <= made
    /\ \A t \in issued : OfThisProcess(t) /\ StillValid(t) => TokenCovered(t)
    /\ \A r \in Requests : SigningSupported(req[r])
    /\ ~up => ring = {} /\ \A r \in Requests : req[r] = Idle

\* What FreshKeysBounded rests on: a call generates only when no key was fresh, and
\* adds one.
Generators == {r \in Requests : req[r] = Generating}
Allowance ==
    /\ IsFiniteSet(ring)
    /\ Cardinality(FreshKeys) + Cardinality(Generators) <= Cardinality(Requests)

\* The unit test of the service ("should set up interval for adding new keys",
\* paseto.service.spec.ts) takes the timer to add a key each time it fires.
RotationAddsKey == [][RotationTick => made' = made + 1]_vars
=============================================================================
