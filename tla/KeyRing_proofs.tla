----------------------------- MODULE KeyRing_proofs -----------------------------
(***************************************************************************)
(* KeyRing for every rotation interval, token life, clock tolerance and    *)
(* delay that satisfy TimingAssumption, and for any number of requests.    *)
(***************************************************************************)
EXTENDS KeyRing, FiniteSetTheorems, TLAPS

LEMMA CallShape ==
    ASSUME NEW c \in {Idle, Generating} \cup SigningCall
    PROVE  /\ c.pc = "signing" => c \in SigningCall
           /\ c \in SigningCall => /\ c.pc = "signing" /\ c # Idle /\ c # Generating
                                   /\ c.key \in Key /\ c.at \in Nat
                                   /\ c.key.kid \in Nat \ {0} /\ c.key.expires \in Nat
           /\ Idle.pc # "signing" /\ Generating.pc # "signing" /\ Idle # Generating
<1>1. Idle.pc = "idle" /\ Generating.pc = "generating"
  BY DEF Idle, Generating
<1>2. ASSUME c \in SigningCall
      PROVE  /\ c.pc = "signing" /\ c.key \in Key /\ c.at \in Nat
             /\ c.key.kid \in Nat \ {0} /\ c.key.expires \in Nat
  BY <1>2 DEF SigningCall, Key
<1> QED
  BY <1>1, <1>2

LEMMA SigningType ==
    ASSUME TypeOK, NEW k \in Key
    PROVE  /\ Signing(k) \in SigningCall
           /\ Signing(k).pc = "signing" /\ Signing(k).key = k /\ Signing(k).at = now
  BY DEF Signing, SigningCall, TypeOK

LEMMA NewKeyType ==
    ASSUME TypeOK
    PROVE  /\ NewKey \in Key
           /\ NewKey.kid = made + 1 /\ NewKey.expires = now + Half
  BY TimingAssumption DEF NewKey, Key, TypeOK

LEMMA TypeInit == Init => TypeOK
<1> SUFFICES ASSUME Init PROVE TypeOK
  OBVIOUS
<1>1. req \in [Requests -> {Idle, Generating} \cup SigningCall]
  BY DEF Init
<1>2. now = 0 /\ made = 0 /\ born = 0 /\ boots = 0 /\ rotateAt = 0
  BY DEF Init
<1>3. up \in BOOLEAN /\ ring = {} /\ issued = {} /\ endedBy = "none"
  BY DEF Init
<1> QED
  BY <1>1, <1>2, <1>3 DEF TypeOK

LEMMA TypeStep == TypeOK /\ [Next]_vars => TypeOK'
<1> SUFFICES ASSUME TypeOK, [Next]_vars PROVE TypeOK'
  OBVIOUS
<1> USE TimingAssumption
<1>1. CASE Boot
  BY <1>1, NewKeyType DEF TypeOK, Boot, AddNewKey, Interval
<1>2. ASSUME NEW cause \in {"crash", "rotation"}, ProcessEnds(cause)
      PROVE  TypeOK'
  BY <1>2 DEF TypeOK, ProcessEnds
<1>3. CASE Tick
  BY <1>3 DEF TypeOK, Tick
<1>4. ASSUME NEW k \in ring, ExpireKey(k)
      PROVE  TypeOK'
  BY <1>4 DEF TypeOK, ExpireKey
<1>5. ASSUME NEW r \in Requests, CreateToken(r)
      PROVE  TypeOK'
  <2>1. CASE \E k \in FreshKeys : IsNewest(k) /\ req' = [req EXCEPT ![r] = Signing(k)]
    BY <1>5, <2>1, SigningType DEF TypeOK, CreateToken, FreshKeys
  <2>2. CASE req' = [req EXCEPT ![r] = Generating]
    BY <1>5, <2>2 DEF TypeOK, CreateToken
  <2> QED
    BY <1>5, <2>1, <2>2 DEF CreateToken
<1>6. ASSUME NEW r \in Requests, KeyGenerated(r)
      PROVE  TypeOK'
  BY <1>6, NewKeyType, SigningType DEF TypeOK, KeyGenerated, AddNewKey
<1>7. ASSUME NEW r \in Requests, Sign(r)
      PROVE  TypeOK'
  <2>1. req[r].key.kid \in Nat \ {0}
    BY <1>7, CallShape DEF Sign, TypeOK
  <2>2. [kid |-> req[r].key.kid, exp |-> now + TTL] \in Token
    BY <2>1 DEF Token, TypeOK
  <2> QED
    BY <1>7, <2>2 DEF TypeOK, Sign
<1>8. ASSUME NEW t \in issued, Verify(t) \/ Discard(t)
      PROVE  TypeOK'
  BY <1>8 DEF TypeOK, Verify, Discard
<1>9. CASE UNCHANGED vars
  BY <1>9 DEF TypeOK, vars
<1> QED
  BY <1>1, <1>2, <1>3, <1>4, <1>5, <1>6, <1>7, <1>8, <1>9 DEF Next, Crash, RotationTick

\* Type correctness of the ring, the calls and the tokens in every execution.
THEOREM TypeCorrect == Spec => []TypeOK
  BY TypeInit, TypeStep, PTL DEF Spec

-----------------------------------------------------------------------------
LEMMA IndInit == Init => Inductive
  BY CallShape DEF Init, Inductive, SigningSupported

LEMMA IndStep == TypeOK /\ TypeOK' /\ Inductive /\ [Next]_vars => Inductive'
<1> SUFFICES ASSUME TypeOK, TypeOK', Inductive, [Next]_vars PROVE Inductive'
  OBVIOUS
<1> USE TimingAssumption
<1>0. /\ Idle.pc # "signing" /\ Generating.pc # "signing"
      /\ \A t \in issued : t.kid \in Nat \ {0} /\ t.exp \in Nat
      /\ \A k \in ring : k.kid \in Nat \ {0} /\ k.expires \in Nat
  BY DEF TypeOK, Token, Key, Idle, Generating
<1>1. CASE Boot
  <2>1. ring' = {NewKey} /\ NewKey.kid = made + 1
    BY <1>1, NewKeyType DEF Boot, AddNewKey, Inductive
  <2>2. \A r \in Requests : req'[r] = Idle
    BY <1>1 DEF Boot, Inductive
  <2> QED
    BY <1>0, <1>1, <2>1, <2>2 DEF Boot, AddNewKey, Inductive, TypeOK, OfThisProcess,
       SigningSupported
<1>2. ASSUME NEW cause \in {"crash", "rotation"}, ProcessEnds(cause)
      PROVE  Inductive'
  BY <1>0, <1>2 DEF ProcessEnds, Inductive, OfThisProcess, SigningSupported
<1>3. CASE Tick
  <2>1. ASSUME NEW r \in Requests PROVE SigningSupported(req[r])'
    <3>1. req[r].pc = "signing" => req[r].at \in Nat /\ now < req[r].at + Lag
      BY <1>3, CallShape DEF Tick, TypeOK
    <3> QED
      BY <1>3, <3>1 DEF Tick, Inductive, SigningSupported, TypeOK
  <2> QED
    BY <1>0, <1>3, <2>1 DEF Tick, Inductive, TypeOK, OfThisProcess, StillValid, TokenCovered
<1>4. ASSUME NEW k \in ring, ExpireKey(k)
      PROVE  Inductive'
  <2>1. ASSUME NEW t \in issued, OfThisProcess(t), StillValid(t)
        PROVE  TokenCovered(t)'
    <3>1. PICK j \in ring : j.kid = t.kid /\ t.exp <= j.expires + Lag + TTL
      BY <2>1 DEF Inductive, TokenCovered
    <3>2. j # k
      BY <1>0, <1>4, <2>1, <3>1 DEF ExpireKey, StillValid, TypeOK
    <3> QED
      BY <1>4, <3>1, <3>2 DEF ExpireKey, TokenCovered
  <2>2. ASSUME NEW r \in Requests, req[r].pc = "signing"
        PROVE  req[r].key \in ring'
    <3>1. /\ req[r].key \in ring /\ req[r].at \in Nat /\ req[r].key.expires \in Nat
          /\ req[r].at <= req[r].key.expires /\ now <= req[r].at + Lag
      BY <2>2, CallShape DEF Inductive, SigningSupported, TypeOK
    <3>2. req[r].key # k
      BY <1>4, <3>1 DEF ExpireKey, TypeOK
    <3> QED
      BY <1>4, <3>1, <3>2 DEF ExpireKey
  <2> QED
    BY <1>0, <1>4, <2>1, <2>2 DEF ExpireKey, Inductive, OfThisProcess, StillValid,
       SigningSupported
<1>5. ASSUME NEW r \in Requests, CreateToken(r)
      PROVE  Inductive'
  <2>1. CASE \E k \in FreshKeys : IsNewest(k) /\ req' = [req EXCEPT ![r] = Signing(k)]
    <3>1. PICK k \in ring : k.expires > now /\ req' = [req EXCEPT ![r] = Signing(k)]
      BY <2>1 DEF FreshKeys
    <3>2. k \in Key
      BY DEF TypeOK
    <3>3. SigningSupported(req[r])'
      BY <1>0, <1>5, <3>1, <3>2, SigningType DEF SigningSupported, CreateToken, TypeOK
    <3>4. \A q \in Requests \ {r} : SigningSupported(req[q])'
      BY <1>5, <3>1 DEF SigningSupported, CreateToken, TypeOK, Inductive
    <3> QED
      BY <1>5, <3>3, <3>4 DEF CreateToken, Inductive, OfThisProcess, StillValid, TokenCovered
  <2>2. CASE req' = [req EXCEPT ![r] = Generating]
    <3>1. \A q \in Requests : SigningSupported(req[q])'
      BY <1>0, <1>5, <2>2 DEF SigningSupported, CreateToken, TypeOK, Inductive
    <3> QED
      BY <1>5, <3>1 DEF CreateToken, Inductive, OfThisProcess, StillValid, TokenCovered
  <2> QED
    BY <1>5, <2>1, <2>2 DEF CreateToken
<1>6. ASSUME NEW r \in Requests, KeyGenerated(r)
      PROVE  Inductive'
  <2>1. /\ NewKey \in Key /\ NewKey.kid = made + 1 /\ NewKey.expires = now + Half
        /\ ring' = ring \cup {NewKey} /\ made' = made + 1
    BY <1>6, NewKeyType DEF KeyGenerated, AddNewKey
  <2>2. SigningSupported(req[r])'
    BY <1>0, <1>6, <2>1, SigningType DEF SigningSupported, KeyGenerated, TypeOK
  <2>3. \A q \in Requests \ {r} : SigningSupported(req[q])'
    BY <1>6, <2>1 DEF SigningSupported, KeyGenerated, TypeOK, Inductive
  <2>4. up
    BY <1>6, CallShape DEF KeyGenerated, Inductive
  <2> QED
    BY <1>0, <1>6, <2>1, <2>2, <2>3, <2>4 DEF KeyGenerated, Inductive, TypeOK,
       OfThisProcess, StillValid, TokenCovered
<1>7. ASSUME NEW r \in Requests, Sign(r)
      PROVE  Inductive'
  <2> DEFINE k == req[r].key
             new == [kid |-> k.kid, exp |-> now + TTL]
  <2>1. /\ k \in ring /\ k.kid \in Nat /\ k.expires \in Nat /\ req[r].at \in Nat
        /\ req[r].at <= k.expires /\ now <= req[r].at + Lag
    BY <1>7, CallShape DEF Sign, Inductive, SigningSupported, TypeOK
  <2>2. \E j \in ring : j.kid = new.kid /\ new.exp <= j.expires + Lag + TTL
    <3>1. now + TTL <= k.expires + Lag + TTL
      BY <2>1 DEF TypeOK
    <3>2. new.kid = k.kid /\ new.exp = now + TTL
      OBVIOUS
    <3> QED
      BY <2>1, <3>1, <3>2
  <2>3. \A t \in issued' : t \in issued \/ t = new
    BY <1>7 DEF Sign
  <2>4. \A q \in Requests : SigningSupported(req[q])'
    BY <1>0, <1>7 DEF SigningSupported, Sign, TypeOK, Inductive
  <2>5. new.kid <= made
    BY <2>1 DEF Inductive, TypeOK
  <2>6. UNCHANGED <<now, up, ring, made, born>>
    BY <1>7 DEF Sign
  <2>7. ~up => ring = {} /\ \A q \in Requests : req'[q] = Idle
    BY <1>7 DEF Sign, Inductive, TypeOK
  <2> HIDE DEF k, new
  <2>8. \A t \in issued' : t.kid <= made
    BY <2>3, <2>5 DEF Inductive
  <2>9. \A t \in issued' : OfThisProcess(t) /\ StillValid(t) => TokenCovered(t)
    BY <2>2, <2>3 DEF Inductive, TokenCovered
  <2>10. \A t \in issued' : OfThisProcess(t)' /\ StillValid(t)' => TokenCovered(t)'
    BY <2>6, <2>9 DEF OfThisProcess, StillValid, TokenCovered
  <2>11. born' <= made' /\ \A j \in ring' : j.kid \in born' + 1 .. made'
    BY <2>6 DEF Inductive
  <2> QED
    BY <2>4, <2>6, <2>7, <2>8, <2>10, <2>11 DEF Inductive
<1>8. ASSUME NEW t \in issued, Verify(t) \/ Discard(t)
      PROVE  Inductive'
  BY <1>8 DEF Verify, Discard, Inductive, OfThisProcess, StillValid, TokenCovered,
     SigningSupported
<1>9. CASE UNCHANGED vars
  BY <1>9 DEF vars, Inductive, OfThisProcess, StillValid, TokenCovered, SigningSupported
<1> QED
  BY <1>1, <1>2, <1>3, <1>4, <1>5, <1>6, <1>7, <1>8, <1>9 DEF Next, Crash, RotationTick

LEMMA InductiveCorrect == Spec => [](TypeOK /\ Inductive)
<1>1. Init => TypeOK /\ Inductive
  BY TypeInit, IndInit
<1>2. TypeOK /\ Inductive /\ [Next]_vars => TypeOK' /\ Inductive'
  BY TypeStep, IndStep
<1> QED
  BY <1>1, <1>2, PTL DEF Spec

LEMMA CoveredIsKnown == Inductive => KeyOutlivesTokens
  BY DEF Inductive, KeyOutlivesTokens, TokenCovered, KnownKey

\* The ring never deletes a key under a token it signed, for every rotation
\* interval, token life, tolerance and delay that satisfy TimingAssumption.
THEOREM KeyOutlivesTokensCorrect == Spec => []KeyOutlivesTokens
  BY InductiveCorrect, CoveredIsKnown, PTL

-----------------------------------------------------------------------------
(* The number of fresh keys.                                                 *)

LEMMA Counts ==
    ASSUME Allowance
    PROVE  /\ IsFiniteSet(FreshKeys) /\ IsFiniteSet(Generators)
           /\ Cardinality(FreshKeys) \in Nat /\ Cardinality(Generators) \in Nat
           /\ Cardinality(Requests) \in Nat /\ Cardinality(Requests) >= 1
<1>1. IsFiniteSet(FreshKeys) /\ IsFiniteSet(Generators)
  BY RequestsAssumption, FS_Subset DEF Allowance, FreshKeys, Generators
<1>2. Cardinality(Requests) \in Nat /\ Cardinality(Requests) # 0
  BY RequestsAssumption, FS_CardinalityType, FS_EmptySet
<1> QED
  BY <1>1, <1>2, FS_CardinalityType

\* Keys lose their freshness, and calls end.
LEMMA FewerKeysAndCalls ==
    ASSUME Allowance, IsFiniteSet(ring'), FreshKeys' \subseteq FreshKeys,
           Generators' \subseteq Generators
    PROVE  Allowance'
<1>1. /\ Cardinality(FreshKeys') \in Nat /\ Cardinality(FreshKeys') <= Cardinality(FreshKeys)
      /\ Cardinality(Generators') \in Nat /\ Cardinality(Generators') <= Cardinality(Generators)
  BY Counts, FS_Subset, FS_CardinalityType
<1>2. PICK x, y, z, f, g : /\ x = Cardinality(FreshKeys') /\ y = Cardinality(Generators')
                           /\ z = Cardinality(Requests)
                           /\ f = Cardinality(FreshKeys) /\ g = Cardinality(Generators)
  OBVIOUS
<1>3. /\ x \in Nat /\ y \in Nat /\ z \in Nat /\ f \in Nat /\ g \in Nat
      /\ x <= f /\ y <= g /\ f + g <= z
  BY <1>1, <1>2, Counts DEF Allowance
<1>4. x + y <= z
  BY <1>3
<1> QED
  BY <1>2, <1>4 DEF Allowance

LEMMA AllowanceInit == Init => Allowance
<1> SUFFICES ASSUME Init PROVE Allowance
  OBVIOUS
<1>1. FreshKeys = {} /\ ring = {}
  BY DEF Init, FreshKeys
<1>2. Generators = {}
  BY DEF Init, Generators, Idle, Generating
<1>3. Cardinality(Requests) \in Nat
  BY RequestsAssumption, FS_CardinalityType
<1> QED
  BY <1>1, <1>2, <1>3, FS_EmptySet DEF Allowance

LEMMA AllowanceStep ==
    TypeOK /\ Inductive /\ Allowance /\ [Next]_vars => Allowance'
<1> SUFFICES ASSUME TypeOK, Inductive, Allowance, [Next]_vars PROVE Allowance'
  OBVIOUS
<1>0. /\ IsFiniteSet(ring) /\ Idle # Generating
      /\ now \in Nat /\ \A k \in ring : k.expires \in Nat
  BY DEF Allowance, Idle, Generating, TypeOK, Key
<1>1. CASE Boot
  <2>1. ring' = {NewKey} /\ \A r \in Requests : req'[r] = Idle
    BY <1>1 DEF Boot, AddNewKey, Inductive
  <2>2. Generators' = {} /\ FreshKeys' \subseteq {NewKey}
    BY <1>0, <2>1 DEF Generators, FreshKeys, Generating
  <2>3. IsFiniteSet(ring')
    BY <2>1, FS_Singleton
  <2>4. IsFiniteSet({NewKey}) /\ Cardinality({NewKey}) = 1
    BY FS_Singleton
  <2>5. Cardinality(FreshKeys') \in Nat /\ Cardinality(FreshKeys') <= 1
    BY <2>2, <2>4, FS_Subset, FS_CardinalityType
  <2>6. Cardinality(Generators') = 0
    BY <2>2, FS_EmptySet
  <2> QED
    BY <2>3, <2>5, <2>6, Counts DEF Allowance
<1>2. ASSUME NEW cause \in {"crash", "rotation"}, ProcessEnds(cause)
      PROVE  Allowance'
  <2>1. ring' = {} /\ \A r \in Requests : req'[r] = Idle
    BY <1>2 DEF ProcessEnds
  <2>2. Generators' = {} /\ FreshKeys' = {}
    BY <1>0, <2>1 DEF Generators, FreshKeys, Generating
  <2> QED
    BY <2>1, <2>2, FS_EmptySet, FewerKeysAndCalls
<1>3. CASE Tick
  <2>1. ring' = ring /\ req' = req /\ now' = now + 1
    BY <1>3 DEF Tick
  <2>2. FreshKeys' \subseteq FreshKeys /\ Generators' = Generators
    BY <1>0, <2>1 DEF FreshKeys, Generators, Generating
  <2> QED
    BY <1>0, <2>1, <2>2, FewerKeysAndCalls
<1>4. ASSUME NEW k \in ring, ExpireKey(k)
      PROVE  Allowance'
  <2>1. ring' = ring \ {k} /\ req' = req /\ now' = now
    BY <1>4 DEF ExpireKey
  <2>2. FreshKeys' \subseteq FreshKeys /\ Generators' = Generators
    BY <2>1 DEF FreshKeys, Generators, Generating
  <2>3. IsFiniteSet(ring')
    BY <1>0, <2>1, FS_RemoveElement
  <2> QED
    BY <2>2, <2>3, FewerKeysAndCalls
<1>5. ASSUME NEW r \in Requests, CreateToken(r)
      PROVE  Allowance'
  <2>1. ring' = ring /\ now' = now /\ FreshKeys' = FreshKeys
    BY <1>5 DEF CreateToken, FreshKeys
  <2>2. CASE \E k \in FreshKeys : IsNewest(k) /\ req' = [req EXCEPT ![r] = Signing(k)]
    <3>1. PICK k : req' = [req EXCEPT ![r] = Signing(k)]
      BY <2>2
    <3>2. Signing(k) # Generating
      <4>1. Signing(k).pc = "signing" /\ Generating.pc = "generating"
        BY DEF Signing, Generating
      <4> QED
        BY <4>1
    <3>3. Generators' \subseteq Generators
      BY <3>1, <3>2 DEF Generators, Generating, TypeOK
    <3> QED
      BY <1>0, <2>1, <3>3, FewerKeysAndCalls
  <2>3. CASE FreshKeys = {}
    <3>1. IsFiniteSet(Requests) /\ Generators' \subseteq Requests
      BY RequestsAssumption DEF Generators
    <3>2. /\ Cardinality(Generators') \in Nat
          /\ Cardinality(Generators') <= Cardinality(Requests)
      BY <3>1, FS_Subset, FS_CardinalityType
    <3>3. Cardinality(FreshKeys') = 0
      BY <2>1, <2>3, FS_EmptySet
    <3> QED
      BY <1>0, <2>1, <3>2, <3>3, Counts DEF Allowance
  <2> QED
    BY <1>5, <2>2, <2>3 DEF CreateToken
<1>6. ASSUME NEW r \in Requests, KeyGenerated(r)
      PROVE  Allowance'
  <2>1. /\ ring' = ring \cup {NewKey} /\ now' = now /\ r \in Generators
        /\ req' = [req EXCEPT ![r] = Signing(NewKey)]
    BY <1>6 DEF KeyGenerated, AddNewKey, Generators
  <2>2. Signing(NewKey) # Generating
    <3>1. Signing(NewKey).pc = "signing" /\ Generating.pc = "generating"
      BY DEF Signing, Generating
    <3> QED
      BY <3>1
  <2>3. Generators' = Generators \ {r}
    BY <2>1, <2>2 DEF Generators, Generating, TypeOK
  <2>4. FreshKeys' \subseteq FreshKeys \cup {NewKey}
    BY <2>1 DEF FreshKeys
  <2>5. IsFiniteSet(ring')
    BY <1>0, <2>1, FS_AddElement
  <2>6. Cardinality(Generators') = Cardinality(Generators) - 1
    BY <2>1, <2>3, Counts, FS_RemoveElement
  <2>7. /\ IsFiniteSet(FreshKeys \cup {NewKey})
        /\ Cardinality(FreshKeys \cup {NewKey}) <= Cardinality(FreshKeys) + 1
    <3>1. PICK F, k, c : F = FreshKeys /\ k = NewKey /\ c = Cardinality(FreshKeys)
      OBVIOUS
    <3>2. IsFiniteSet(F) /\ c \in Nat /\ c = Cardinality(F)
      BY <3>1, Counts
    <3>3. /\ IsFiniteSet(F \cup {k})
          /\ Cardinality(F \cup {k}) = IF k \in F THEN c ELSE c + 1
      BY <3>2, FS_AddElement
    <3>4. Cardinality(F \cup {k}) <= c + 1
      BY <3>2, <3>3
    <3> QED
      BY <3>1, <3>3, <3>4
  <2>8. /\ Cardinality(FreshKeys') \in Nat
        /\ Cardinality(FreshKeys') <= Cardinality(FreshKeys \cup {NewKey})
        /\ Cardinality(FreshKeys \cup {NewKey}) \in Nat
    <3>1. PICK big : big = FreshKeys \cup {NewKey}
      OBVIOUS
    <3>2. IsFiniteSet(big) /\ FreshKeys' \subseteq big
      BY <2>4, <2>7, <3>1
    <3>3. IsFiniteSet(FreshKeys') /\ Cardinality(FreshKeys') <= Cardinality(big)
      BY <3>2, FS_Subset
    <3> QED
      BY <3>1, <3>2, <3>3, FS_CardinalityType
  <2>9. Cardinality(FreshKeys') + Cardinality(Generators') <= Cardinality(Requests)
    BY <2>6, <2>7, <2>8, Counts DEF Allowance
  <2> QED
    BY <2>5, <2>9 DEF Allowance
<1>7. ASSUME NEW r \in Requests, Sign(r)
      PROVE  Allowance'
  <2>1. ring' = ring /\ now' = now /\ req' = [req EXCEPT ![r] = Idle]
    BY <1>7 DEF Sign
  <2>2. FreshKeys' = FreshKeys /\ Generators' \subseteq Generators
    BY <1>0, <2>1 DEF FreshKeys, Generators, Generating, TypeOK
  <2> QED
    BY <1>0, <2>1, <2>2, FewerKeysAndCalls
<1>8. ASSUME UNCHANGED <<now, ring, req>>
      PROVE  Allowance'
  <2>1. FreshKeys' = FreshKeys /\ Generators' = Generators
    BY <1>8 DEF FreshKeys, Generators, Generating
  <2> QED
    BY <1>0, <1>8, <2>1, FewerKeysAndCalls
<1>9. CASE UNCHANGED vars
  BY <1>8, <1>9 DEF vars
<1>10. ASSUME NEW t \in issued, Verify(t) \/ Discard(t)
       PROVE  Allowance'
  BY <1>8, <1>10 DEF Verify, Discard
<1> QED
  BY <1>1, <1>2, <1>3, <1>4, <1>5, <1>6, <1>7, <1>9, <1>10 DEF Next, Crash, RotationTick

\* The keys that are fresh at once are never more than the calls of createToken there
\* can be, for any finite number of them and any rotation interval: the calls that
\* found the newest key expired add one each, and a fresh key stops the next ones
\* (PasetoService.createToken, getNewestKey, addNewKey).
THEOREM FreshKeysBoundedCorrect == Spec => []FreshKeysBounded
<1>1. Allowance => FreshKeysBounded
  <2> SUFFICES ASSUME Allowance PROVE FreshKeysBounded
    OBVIOUS
  <2> QED
    BY Counts DEF Allowance, FreshKeysBounded
<1>2. Spec => []Allowance
  BY AllowanceInit, AllowanceStep, InductiveCorrect, PTL DEF Spec
<1> QED
  BY <1>1, <1>2, PTL

-----------------------------------------------------------------------------
LEMMA TokensInit == Init => Tokens!Init
  BY DEF Init, Tokens!Init, NoVerdict, Tokens!NoVerdict

LEMMA TokensStep ==
    TypeOK /\ Inductive /\ Inductive' /\ [Next]_vars => [Tokens!Next]_(Tokens!tokenVars)
<1> SUFFICES ASSUME TypeOK, Inductive, Inductive', [Next]_vars
             PROVE  Tokens!Next \/ UNCHANGED Tokens!tokenVars
  BY DEF Tokens!tokenVars
<1>0. \A t \in issued : t.kid \in Nat \ {0} /\ t.exp \in Nat
  BY DEF TypeOK, Token
<1>1. CASE Boot
  <2>1. /\ {t \in issued : OfThisProcess(t)} = {}
        /\ {t \in issued' : OfThisProcess(t)'} = {}
    BY <1>0, <1>1 DEF Boot, OfThisProcess, Inductive, TypeOK
  <2> QED
    BY <1>1, <2>1 DEF Boot, Tokens!tokenVars
<1>2. ASSUME NEW cause \in {"crash", "rotation"}, ProcessEnds(cause)
      PROVE  Tokens!Restart
  BY <1>2 DEF ProcessEnds, Tokens!Restart, OfThisProcess
<1>3. CASE Tick
  BY <1>3 DEF Tick, Tokens!Next, Tokens!Tick, OfThisProcess
<1>4. ASSUME NEW k \in ring, ExpireKey(k)
      PROVE  UNCHANGED Tokens!tokenVars
  BY <1>4 DEF ExpireKey, Tokens!tokenVars, OfThisProcess
<1>5. ASSUME NEW r \in Requests, CreateToken(r) \/ KeyGenerated(r)
      PROVE  UNCHANGED Tokens!tokenVars
  BY <1>5 DEF CreateToken, KeyGenerated, Tokens!tokenVars, OfThisProcess
<1>6. ASSUME NEW r \in Requests, Sign(r)
      PROVE  Tokens!Issue
  <2> DEFINE new == [kid |-> req[r].key.kid, exp |-> now + TTL]
  <2>1. /\ req[r].key \in ring /\ req[r] # Idle
        /\ req[r].key.kid \in Nat \ {0}
    BY <1>6, CallShape DEF Sign, Inductive, SigningSupported, TypeOK
  <2>2. up /\ req[r].key.kid > born
    BY <2>1 DEF Inductive, TypeOK
  <2>3. issued' = issued \cup {new} /\ UNCHANGED <<now, up, born, verdict>>
    BY <1>6 DEF Sign
  <2>4. {t \in issued' : OfThisProcess(t)'} = {t \in issued : OfThisProcess(t)} \cup {new}
    BY <2>2, <2>3 DEF OfThisProcess
  <2>5. new \in issued' /\ new.exp = now + TTL
    BY <2>3
  <2> QED
    BY <2>3, <2>4, <2>5 DEF Tokens!Issue
<1>7. ASSUME NEW t \in issued, Verify(t)
      PROVE  Tokens!Verify
  <2>1. KnownKey(t) /\ now < t.exp + Tolerance
          <=> t \in {u \in issued : OfThisProcess(u)} /\ now < t.exp + Tolerance
    <3>1. KnownKey(t) => OfThisProcess(t)
      BY <1>0, <1>7 DEF KnownKey, Inductive, OfThisProcess, TypeOK, Verify
    <3>2. OfThisProcess(t) /\ now < t.exp + Tolerance => KnownKey(t)
      BY CoveredIsKnown DEF KeyOutlivesTokens, StillValid
    <3> QED
      BY <3>1, <3>2
  <2>2. /\ verdict' = [token |-> t, ok |-> t \in {u \in issued : OfThisProcess(u)}
                                            /\ now < t.exp + Tolerance]
        /\ UNCHANGED <<now, up, born, issued>>
    BY <1>7, <2>1 DEF Verify
  <2>3. {u \in issued' : OfThisProcess(u)'} = {u \in issued : OfThisProcess(u)}
    BY <2>2 DEF OfThisProcess
  <2> QED
    BY <2>2, <2>3 DEF Tokens!Verify
<1>8. ASSUME NEW t \in issued, Discard(t)
      PROVE  Tokens!Discard
  BY <1>8 DEF Discard, Tokens!Discard, OfThisProcess
<1>9. CASE UNCHANGED vars
  BY <1>9 DEF vars, Tokens!tokenVars, OfThisProcess
<1> QED
  BY <1>1, <1>2, <1>3, <1>4, <1>5, <1>6, <1>7, <1>8, <1>9
     DEF Next, Crash, RotationTick, Tokens!Next

\* The ring implements the promise of AccessTokens: a token is accepted by the
\* process that signed it until its expiry plus the tolerance, and by no other.
THEOREM TokensRefined == Spec => TokensSpec
<1>1. TypeOK /\ Inductive /\ Inductive' /\ [Next]_vars => [Tokens!Next]_(Tokens!tokenVars)
  BY TokensStep
<1> QED
  BY <1>1, TokensInit, InductiveCorrect, PTL DEF TokensSpec, Tokens!Spec, Spec
=============================================================================
