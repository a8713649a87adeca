----------------------------- MODULE Sessions_proofs -----------------------------
(***************************************************************************)
(* Sessions for any users, any finite number of requests and any bounds.   *)
(***************************************************************************)
EXTENDS Sessions, TLAPS, FiniteSetTheorems

LEMMA CallShape ==
    ASSUME NEW c \in {Idle} \cup Call \cup Answered
    PROVE  /\ c = Idle \/ c.pc = "done" \/ c \in Call
           /\ c.pc \in Steps => c \in Call
           /\ c \in Call => /\ c.pc \in Steps /\ c.op \in Ops
                            /\ c.user \in Users \cup {Nobody}
                            /\ c.token \in {None} \cup Tokens
                            /\ c.print \in {None} \cup Tokens
                            /\ c.line \in {None} \cup Tokens
<1>1. Idle.pc = "idle" /\ "idle" \notin Steps /\ "done" \notin Steps
  BY DEF Idle, Steps
<1>2. c \in Answered => c.pc = "done"
  BY DEF Answered
<1>3. c \in Call => /\ c.pc \in Steps /\ c.op \in Ops
                    /\ c.user \in Users \cup {Nobody}
                    /\ c.token \in {None} \cup Tokens
                    /\ c.print \in {None} \cup Tokens
                    /\ c.line \in {None} \cup Tokens
  BY DEF Call
<1> QED
  BY <1>1, <1>2, <1>3

LEMMA DoneType ==
    ASSUME NEW status \in Statuses, NEW ended \in SUBSET Tokens
    PROVE  Done(status, ended) \in Answered /\ Done(status, ended).pc = "done"
  BY DEF Done, Answered

LEMMA AnswerType ==
    ASSUME TypeOK, NEW r \in Requests, NEW status \in Statuses, Answer(r, status)
    PROVE  /\ req' \in [Requests -> {Idle} \cup Call \cup Answered]
           /\ req'[r].pc = "done"
           /\ \A q \in Requests \ {r} : req'[q] = req[q]
  BY DoneType DEF Answer, TypeOK

LEMMA GotoType ==
    ASSUME TypeOK, NEW r \in Requests, NEW step \in Steps, req[r].pc \in Steps, Goto(r, step)
    PROVE  /\ req' \in [Requests -> {Idle} \cup Call \cup Answered]
           /\ req'[r].pc = step
           /\ req'[r].op = req[r].op /\ req'[r].user = req[r].user
           /\ req'[r].token = req[r].token /\ req'[r].print = req[r].print
           /\ req'[r].line = req[r].line
           /\ \A q \in Requests \ {r} : req'[q] = req[q]
<1>1. req[r] \in {Idle} \cup Call \cup Answered
  BY DEF TypeOK
<1>2. req[r] \in Call
  BY <1>1, CallShape
<1>3. req' = [req EXCEPT ![r] = [req[r] EXCEPT !.pc = step]]
  BY DEF Goto, TypeOK
<1>4. [req[r] EXCEPT !.pc = step] \in Call
  BY <1>2 DEF Call
<1> QED
  BY <1>2, <1>3, <1>4 DEF TypeOK, Call

LEMMA ReceiveType ==
    ASSUME TypeOK, NEW r \in Requests, NEW c \in Call, Receive(r, c)
    PROVE  /\ req' \in [Requests -> {Idle} \cup Call \cup Answered]
           /\ req'[r] = c
           /\ \A q \in Requests \ {r} : req'[q] = req[q]
  BY DEF Receive, TypeOK

\* The call that took the token of d.
LEMMA TakenType ==
    ASSUME TypeOK, NEW r \in Requests, req[r].pc \in Steps, NEW d \in docs,
           req' = [req EXCEPT ![r].pc = "populate", ![r].user = d.user, ![r].line = d.line]
    PROVE  /\ req' \in [Requests -> {Idle} \cup Call \cup Answered]
           /\ req'[r].pc = "populate"
           /\ req'[r].op = req[r].op /\ req'[r].user = d.user
           /\ req'[r].token = req[r].token /\ req'[r].print = req[r].print
           /\ req'[r].line = d.line
           /\ \A q \in Requests \ {r} : req'[q] = req[q]
<1>1. req[r] \in Call
  BY CallShape DEF TypeOK
<1>2. d.user \in Users /\ d.line \in Tokens
  BY DEF TypeOK, Doc
<1> DEFINE next == [req[r] EXCEPT !.pc = "populate", !.user = d.user, !.line = d.line]
<1>3. req' = [req EXCEPT ![r] = next]
  BY DEF TypeOK
<1>4. next \in Call
  BY <1>1, <1>2 DEF Call, Steps
<1>5. /\ next.pc = "populate" /\ next.op = req[r].op /\ next.user = d.user
      /\ next.token = req[r].token /\ next.print = req[r].print /\ next.line = d.line
  BY <1>1 DEF Call
<1> HIDE DEF next
<1>6. next \in {Idle} \cup Call \cup Answered
  BY <1>4
<1>7. req' \in [Requests -> {Idle} \cup Call \cup Answered]
  BY <1>3, <1>6 DEF TypeOK
<1>8. req'[r] = next /\ \A q \in Requests \ {r} : req'[q] = req[q]
  BY <1>3 DEF TypeOK
<1> QED
  BY <1>5, <1>7, <1>8

\* The call that stored the next token of the line l.
LEMMA MintedType ==
    ASSUME TypeOK, NEW r \in Requests, req[r].pc \in Steps, NEW l \in Tokens,
           req' = [req EXCEPT ![r].pc = "sign", ![r].line = l]
    PROVE  /\ req' \in [Requests -> {Idle} \cup Call \cup Answered]
           /\ req'[r].pc = "sign" /\ req'[r].user = req[r].user
           /\ \A q \in Requests \ {r} : req'[q] = req[q]
<1>1. req[r] \in Call
  BY CallShape DEF TypeOK
<1> DEFINE next == [req[r] EXCEPT !.pc = "sign", !.line = l]
<1>2. req' = [req EXCEPT ![r] = next]
  BY DEF TypeOK
<1>3. next \in Call
  BY <1>1 DEF Call, Steps
<1>4. next.pc = "sign" /\ next.user = req[r].user
  BY <1>1 DEF Call
<1> HIDE DEF next
<1> QED
  BY <1>2, <1>3, <1>4 DEF TypeOK

LEMMA TypeInit == Init => TypeOK
  BY ConstantsAssumption DEF Init, TypeOK

LEMMA HandedOutType == TypeOK => minted \in Nat /\ HandedOut \subseteq Tokens
  BY ConstantsAssumption DEF TypeOK, HandedOut, Tokens

LEMMA TypeStep == TypeOK /\ CallsSupported /\ [Next]_vars => TypeOK'
<1> SUFFICES ASSUME TypeOK, CallsSupported, [Next]_vars PROVE TypeOK'
  OBVIOUS
<1> DEFINE ReqType == req \in [Requests -> {Idle} \cup Call \cup Answered]
<1>1. ASSUME NEW r \in Requests, NEW u \in Users, Login(r, u) \/ ForceLogout(r, u)
      PROVE  TypeOK'
  <2>1. CASE Login(r, u)
    <3> DEFINE c == [pc |-> "find", op |-> "login", user |-> u, token |-> None,
                     print |-> None, line |-> None]
    <3>1. c \in Call
      BY DEF Call, Steps, Ops
    <3>2. ReqType' /\ UNCHANGED <<accounts, nodes, docs, minted, deletions>>
      BY <2>1, <3>1, ReceiveType DEF Login, Receive
    <3> QED
      BY <3>2 DEF TypeOK
  <2>2. CASE ForceLogout(r, u)
    <3> DEFINE c == [pc |-> "expel", op |-> "force", user |-> u, token |-> None,
                     print |-> None, line |-> None]
    <3>1. c \in Call
      BY DEF Call, Steps, Ops
    <3>2. ReqType' /\ UNCHANGED <<accounts, nodes, docs, minted, deletions>>
      BY <2>2, <3>1, ReceiveType DEF ForceLogout, Receive
    <3> QED
      BY <3>2 DEF TypeOK
  <2> QED
    BY <1>1, <2>1, <2>2
<1>2. ASSUME NEW r \in Requests, NEW op \in {"refresh", "revoke"},
             NEW t \in HandedOut, NEW p \in HandedOut, Present(r, op, t, p)
      PROVE  TypeOK'
  <2> DEFINE c == [pc |-> "take", op |-> op, user |-> Nobody, token |-> t, print |-> p,
                   line |-> None]
  <2>1. t \in Tokens /\ p \in Tokens
    BY HandedOutType
  <2>2. c \in Call
    BY <2>1 DEF Call, Steps, Ops
  <2>3. ReqType' /\ UNCHANGED <<accounts, nodes, docs, minted, deletions>>
    BY <1>2, <2>2, ReceiveType DEF Present, Receive
  <2> QED
    BY <2>3 DEF TypeOK
<1>3. ASSUME NEW r \in Requests, Reject(r) \/ StoreFails(r)
      PROVE  TypeOK'
  <2>1. ReqType'
    BY <1>3, AnswerType DEF Reject, StoreFails, Statuses
  <2> QED
    BY <1>3, <2>1 DEF Reject, StoreFails, TypeOK
<1>4. ASSUME NEW r \in Requests, Handle(r)
      PROVE  TypeOK'
  <2> USE DEF At
  <2>0. req[r] \in {Idle} \cup Call \cup Answered
    BY DEF TypeOK
  <2>1. CASE FindUser(r)
    <3>1. ReqType'
      BY <2>1, GotoType DEF FindUser, Steps
    <3> QED
      BY <2>1, <3>1 DEF FindUser, TypeOK
  <2>2. CASE CreateUser(r)
    <3>1. ReqType'
      BY <2>2, GotoType, AnswerType DEF CreateUser, Steps, Statuses
    <3> QED
      <4>1. req[r].user \in Users
        BY <2>2 DEF CreateUser, CallsSupported, Supported
      <4> QED
        BY <2>2, <3>1, <4>1 DEF CreateUser, TypeOK
  <2>3. CASE CreateNode(r)
    <3>1. ReqType'
      BY <2>3, GotoType DEF CreateNode, Steps
    <3>2. req[r].user \in Users
      BY <2>3 DEF CreateNode, CallsSupported, Supported
    <3> QED
      BY <2>3, <3>1, <3>2 DEF CreateNode, TypeOK
  <2>4. CASE Take(r)
    <3>1. req[r].pc \in Steps
      BY <2>4 DEF Take, Steps
    <3>2. CASE Answer(r, 401)
      <4>1. ReqType'
        BY <3>2, AnswerType DEF Statuses
      <4>2. docs' \subseteq docs /\ UNCHANGED <<accounts, nodes, minted, deletions>>
        BY <2>4 DEF Take
      <4> QED
        BY <4>1, <4>2 DEF TypeOK
    <3>3. ASSUME NEW d \in docs, docs' = docs \ {d},
                 req' = [req EXCEPT ![r].pc = "populate", ![r].user = d.user,
                                    ![r].line = d.line]
          PROVE  TypeOK'
      <4>1. ReqType'
        BY <3>1, <3>3, TakenType
      <4> QED
        BY <2>4, <3>3, <4>1 DEF Take, TypeOK
    <3> QED
      BY <2>4, <3>2, <3>3 DEF Take
  <2>5. CASE Populate(r)
    <3>1. ReqType'
      BY <2>5, GotoType, AnswerType DEF Populate, Steps, Statuses
    <3> QED
      BY <2>5, <3>1 DEF Populate, TypeOK
  <2>6. CASE Mint(r)
    <3> DEFINE l == IF req[r].op = "login" THEN minted + 1 ELSE req[r].line
               d == [id |-> minted + 1, user |-> req[r].user, line |-> l]
    <3>1. minted + 1 \in Tokens /\ minted + 1 \in 0..MaxTokens
      BY <2>6, ConstantsAssumption, HandedOutType DEF Mint, Tokens
    <3>2. req[r].user \in Users /\ l \in Tokens
      BY <2>6, <3>1, HandedOutType DEF Mint, CallsSupported, Supported
    <3>3. req' = [req EXCEPT ![r].pc = "sign", ![r].line = l] /\ docs' = docs \cup {d}
      BY <2>6 DEF Mint
    <3>4. d \in Doc
      BY <3>1, <3>2 DEF Doc
    <3> HIDE DEF l, d
    <3>5. ReqType'
      BY <2>6, <3>2, <3>3, MintedType DEF Mint, Steps
    <3> QED
      BY <2>6, <3>1, <3>3, <3>4, <3>5 DEF Mint, TypeOK
  <2>7. CASE Sign(r)
    <3>1. ReqType'
      BY <2>7, AnswerType DEF Sign, Statuses
    <3> QED
      BY <2>7, <3>1 DEF Sign, TypeOK
  <2>8. CASE DeleteTokensOfUser(r)
    <3>1. SessionsOf(req[r].user) \subseteq Tokens
      BY HandedOutType DEF SessionsOf, TypeOK, Doc, Renewing, CallsSupported, Supported
    <3>2. Done(204, SessionsOf(req[r].user)) \in Answered
      BY <3>1, DoneType DEF Statuses
    <3> QED
      BY <2>8, <3>2 DEF DeleteTokensOfUser, TypeOK
  <2> QED
    BY <1>4, <2>1, <2>2, <2>3, <2>4, <2>5, <2>6, <2>7, <2>8 DEF Handle
<1>5. ASSUME NEW r \in Requests, Forget(r)
      PROVE  TypeOK'
  BY <1>5 DEF Forget, TypeOK
<1>6. CASE Crash
  <2>1. Done(0, {}) \in Answered
    BY DoneType DEF Statuses
  <2> QED
    BY <1>6, <2>1 DEF Crash, TypeOK
<1>7. ASSUME NEW u \in Users, DeleteAccount(u)
      PROVE  TypeOK'
  BY <1>7, ConstantsAssumption DEF DeleteAccount, TypeOK
<1>8. CASE UNCHANGED vars
  BY <1>8 DEF TypeOK, vars
<1> QED
  BY <1>1, <1>2, <1>3, <1>4, <1>5, <1>6, <1>7, <1>8 DEF Next

-----------------------------------------------------------------------------
(* What the calls in progress know.                                          *)

LEMMA IdleRests == Idle.pc = "idle"
  BY DEF Idle

\* A call that does not step keeps what it knows: tokens stay handed out.
LEMMA SupportedFrame ==
    ASSUME TypeOK, TypeOK', minted <= minted', CallsSupported, NEW r \in Requests,
           \A q \in Requests \ {r} : req'[q] = req[q],
           Supported(req[r])'
    PROVE  CallsSupported'
<1>1. HandedOut \subseteq HandedOut'
  BY HandedOutType DEF HandedOut, TypeOK
<1>2. ASSUME NEW q \in Requests \ {r}
      PROVE  Supported(req[q])'
  BY <1>1, <1>2 DEF CallsSupported, Supported
<1> QED
  BY <1>2 DEF CallsSupported

LEMMA CallsInit == Init => CallsSupported
  BY IdleRests DEF Init, CallsSupported, Supported

LEMMA CallsStep ==
    TypeOK /\ TypeOK' /\ CallsSupported /\ DocsHandedOut /\ [Next]_vars => CallsSupported'
<1> SUFFICES ASSUME TypeOK, TypeOK', CallsSupported, DocsHandedOut, [Next]_vars
             PROVE  CallsSupported'
  OBVIOUS
<1>0. minted \in Nat /\ minted' \in Nat
  BY ConstantsAssumption DEF TypeOK
<1>1. ASSUME NEW r \in Requests, NEW u \in Users, Login(r, u) \/ ForceLogout(r, u)
      PROVE  CallsSupported'
  <2>1. /\ req'[r].pc \in {"find", "expel"} /\ req'[r].user = u
        /\ req'[r].pc = "find" => req'[r].op = "login"
        /\ \A q \in Requests \ {r} : req'[q] = req[q]
        /\ minted' = minted
    BY <1>1 DEF Login, ForceLogout, Receive, TypeOK
  <2>2. Supported(req[r])'
    BY <2>1 DEF Supported
  <2> QED
    BY <1>0, <2>1, <2>2, SupportedFrame
<1>2. ASSUME NEW r \in Requests, NEW op \in {"refresh", "revoke"},
             NEW t \in HandedOut, NEW p \in HandedOut, Present(r, op, t, p)
      PROVE  CallsSupported'
  <2>1. /\ req'[r].pc = "take" /\ req'[r].op = op /\ req'[r].token = t /\ req'[r].print = p
        /\ \A q \in Requests \ {r} : req'[q] = req[q]
        /\ minted' = minted
    BY <1>2 DEF Present, Receive, TypeOK
  <2>2. Supported(req[r])'
    BY <2>1 DEF Supported, HandedOut
  <2> QED
    BY <1>0, <2>1, <2>2, SupportedFrame
<1>3. ASSUME NEW r \in Requests, NEW status \in Statuses, Answer(r, status), minted' = minted
      PROVE  CallsSupported'
  <2>1. Supported(req[r])'
    BY <1>3, AnswerType DEF Supported
  <2> QED
    BY <1>0, <1>3, <2>1, AnswerType, SupportedFrame
<1>4. ASSUME NEW r \in Requests, Handle(r)
      PROVE  CallsSupported'
  <2> USE DEF At
  <2>0. Supported(req[r])
    BY DEF CallsSupported
  <2>1. CASE FindUser(r)
    <3>1. \E step \in {"mint", "create"} : Goto(r, step) /\ req[r].pc = "find" /\ minted' = minted
      BY <2>1 DEF FindUser
    <3>2. PICK step \in {"mint", "create"} :
            Goto(r, step) /\ req[r].pc = "find" /\ minted' = minted
      BY <3>1
    <3>3. Supported(req[r])'
      BY <2>0, <3>2, GotoType DEF Supported, Steps
    <3> QED
      BY <1>0, <3>2, <3>3, GotoType, SupportedFrame DEF Steps
  <2>2. CASE CreateUser(r)
    <3>1. CASE Goto(r, "node")
      <4>1. Supported(req[r])'
        BY <2>0, <2>2, <3>1, GotoType DEF CreateUser, Supported, Steps
      <4> QED
        BY <1>0, <2>2, <3>1, <4>1, GotoType, SupportedFrame DEF CreateUser, Steps
    <3> QED
      BY <1>3, <2>2, <3>1 DEF CreateUser, Statuses
  <2>3. CASE CreateNode(r)
    <3>1. Supported(req[r])'
      BY <2>0, <2>3, GotoType DEF CreateNode, Supported, Steps
    <3> QED
      BY <1>0, <2>3, <3>1, GotoType, SupportedFrame DEF CreateNode, Steps
  <2>4. CASE Take(r)
    <3>0. minted' = minted /\ req[r].pc = "take"
      BY <2>4 DEF Take
    <3>1. ASSUME NEW d \in docs,
                 req' = [req EXCEPT ![r].pc = "populate", ![r].user = d.user,
                                    ![r].line = d.line]
          PROVE  CallsSupported'
      <4>1. d.user \in Users /\ d.line \in HandedOut
        BY <1>0 DEF TypeOK, Doc, DocsHandedOut, HandedOut, Tokens
      <4>2. Supported(req[r])'
        BY <2>0, <3>0, <3>1, <4>1, TakenType DEF Supported, Steps, HandedOut
      <4>3. \A q \in Requests \ {r} : req'[q] = req[q]
        BY <3>0, <3>1, TakenType DEF Steps
      <4> QED
        BY <1>0, <3>0, <4>2, <4>3, SupportedFrame
    <3>2. CASE Answer(r, 401)
      BY <1>3, <3>0, <3>2 DEF Statuses
    <3> QED
      BY <2>4, <3>1, <3>2 DEF Take
  <2>5. CASE Populate(r)
    <3>0. minted' = minted /\ req[r].pc = "populate"
      BY <2>5 DEF Populate
    <3>1. CASE Goto(r, "mint") /\ req[r].print = req[r].token /\ req[r].op # "revoke"
      <4>1. Supported(req[r])'
        BY <2>0, <3>0, <3>1, GotoType DEF Supported, Steps, HandedOut
      <4> QED
        BY <1>0, <3>0, <3>1, <4>1, GotoType, SupportedFrame DEF Steps
    <3> QED
      BY <1>3, <2>5, <3>0, <3>1 DEF Populate, Statuses
  <2>6. CASE Mint(r)
    <3>1. PICK l \in Tokens :
            req' = [req EXCEPT ![r].pc = "sign", ![r].line = l] /\ req[r].pc = "mint"
      <4>1. minted + 1 \in Tokens
        BY <1>0, <2>6, ConstantsAssumption DEF Mint, Tokens
      <4>2. req[r].op # "login" => req[r].line \in Tokens
        BY <2>0, <2>6, HandedOutType DEF Mint, Supported
      <4> QED
        BY <2>6, <4>1, <4>2 DEF Mint
    <3>2. req'[r].pc = "sign" /\ req'[r].user = req[r].user
          /\ \A q \in Requests \ {r} : req'[q] = req[q]
      BY <3>1, MintedType DEF Steps
    <3>3. Supported(req[r])'
      BY <2>0, <3>1, <3>2 DEF Supported
    <3>4. minted <= minted'
      BY <1>0, <2>6 DEF Mint
    <3> QED
      BY <3>2, <3>3, <3>4, SupportedFrame
  <2>7. CASE Sign(r)
    BY <1>3, <2>7 DEF Sign, Statuses
  <2>8. CASE DeleteTokensOfUser(r)
    <3>1. /\ req'[r].pc = "done" /\ minted' = minted
          /\ \A q \in Requests \ {r} : req'[q] = req[q]
      BY <2>8 DEF DeleteTokensOfUser, TypeOK, Done
    <3>2. Supported(req[r])'
      BY <3>1 DEF Supported
    <3> QED
      BY <1>0, <3>1, <3>2, SupportedFrame
  <2> QED
    BY <1>4, <2>1, <2>2, <2>3, <2>4, <2>5, <2>6, <2>7, <2>8 DEF Handle
<1>5. ASSUME NEW r \in Requests, Forget(r)
      PROVE  CallsSupported'
  <2>1. /\ req'[r] = Idle /\ minted' = minted
        /\ \A q \in Requests \ {r} : req'[q] = req[q]
    BY <1>5 DEF Forget, TypeOK
  <2>2. Supported(req[r])'
    BY <2>1, IdleRests DEF Supported
  <2> QED
    BY <1>0, <2>1, <2>2, SupportedFrame
<1>6. CASE Crash
  <2>1. minted' = minted
    BY <1>6 DEF Crash
  <2>2. ASSUME NEW r \in Requests
        PROVE  req'[r].pc = "done" \/ req'[r] = req[r]
    BY <1>6 DEF Crash, Done
  <2> QED
    BY <2>1, <2>2 DEF CallsSupported, Supported, HandedOut
<1>7. ASSUME NEW u \in Users, DeleteAccount(u)
      PROVE  CallsSupported'
  BY <1>7 DEF DeleteAccount, CallsSupported, Supported, HandedOut
<1>8. CASE UNCHANGED vars
  BY <1>8 DEF vars, CallsSupported, Supported, HandedOut
<1> QED
  BY <1>1, <1>2, <1>3, <1>4, <1>5, <1>6, <1>7, <1>8 DEF Next, Reject, StoreFails, Statuses

-----------------------------------------------------------------------------
(* A session is continued once.                                              *)

SameRenewal(c, d) == /\ c.token = d.token /\ c.print = d.print
                     /\ c.user = d.user /\ c.line = d.line

\* The step starts no renewal and changes none.
KeepsRenewals ==
    \A q \in Requests : Renewing(q)' => Renewing(q) /\ SameRenewal(req'[q], req[q])

Takes(r, d) ==
    /\ At(r, "take") /\ d.id = req[r].token
    /\ docs' = docs \ {d} /\ UNCHANGED minted
    /\ req' = [req EXCEPT ![r].pc = "populate", ![r].user = d.user, ![r].line = d.line]

LEMMA RenewalFrame ==
    ASSUME NEW r \in Requests, \A q \in Requests \ {r} : req'[q] = req[q],
           ~Renewing(r)' \/ (Renewing(r) /\ SameRenewal(req'[r], req[r]))
    PROVE  KeepsRenewals
  BY DEF KeepsRenewals, Renewing, SameRenewal

\* What the steps of the program do to renewals and stored tokens.
LEMMA RenewalCases ==
    ASSUME TypeOK, CallsSupported, [Next]_vars
    PROVE  \/ KeepsRenewals /\ UNCHANGED <<docs, minted>>
           \/ \E r \in Requests, d \in docs : Takes(r, d)
           \/ \E r \in Requests : Mint(r)
           \/ \E r \in Requests : DeleteTokensOfUser(r)
<1> DEFINE Quiet == KeepsRenewals /\ UNCHANGED <<docs, minted>>
<1>1. ASSUME NEW r \in Requests, NEW u \in Users, Login(r, u) \/ ForceLogout(r, u)
      PROVE  Quiet
  <2>1. /\ req'[r].pc \in {"find", "expel"} /\ UNCHANGED <<docs, minted>>
        /\ \A q \in Requests \ {r} : req'[q] = req[q]
    BY <1>1 DEF Login, ForceLogout, Receive, TypeOK
  <2> QED
    BY <2>1, RenewalFrame DEF Renewing
<1>2. ASSUME NEW r \in Requests, NEW op \in {"refresh", "revoke"},
             NEW t \in HandedOut, NEW p \in HandedOut, Present(r, op, t, p)
      PROVE  Quiet
  <2>1. /\ req'[r].pc = "take" /\ UNCHANGED <<docs, minted>>
        /\ \A q \in Requests \ {r} : req'[q] = req[q]
    BY <1>2 DEF Present, Receive, TypeOK
  <2> QED
    BY <2>1, RenewalFrame DEF Renewing
<1>3. ASSUME NEW r \in Requests, NEW status \in Statuses, Answer(r, status),
             UNCHANGED <<docs, minted>>
      PROVE  Quiet
  BY <1>3, AnswerType, RenewalFrame DEF Renewing
<1>4. ASSUME NEW r \in Requests, Handle(r)
      PROVE  Quiet \/ (\E d \in docs : Takes(r, d)) \/ Mint(r) \/ DeleteTokensOfUser(r)
  <2> USE DEF At
  <2>0. Supported(req[r])
    BY DEF CallsSupported
  <2>1. ASSUME NEW step \in Steps, Goto(r, step), req[r].pc \in {"find", "create", "node"},
               UNCHANGED <<docs, minted>>
        PROVE  Quiet
    <3>1. req'[r].op = "login" /\ \A q \in Requests \ {r} : req'[q] = req[q]
      BY <2>0, <2>1, GotoType DEF Supported, Steps
    <3> QED
      BY <2>1, <3>1, RenewalFrame DEF Renewing
  <2>2. CASE FindUser(r)
    BY <2>1, <2>2 DEF FindUser, Steps
  <2>3. CASE CreateUser(r)
    BY <1>3, <2>1, <2>3 DEF CreateUser, Steps, Statuses
  <2>4. CASE CreateNode(r)
    BY <2>1, <2>4 DEF CreateNode, Steps
  <2>5. CASE Take(r)
    <3>1. CASE Answer(r, 401) /\ UNCHANGED docs
      <4>1. minted' = minted
        BY <2>5 DEF Take
      <4>2. 401 \in Statuses
        BY DEF Statuses
      <4> QED
        BY <1>3, <3>1, <4>1, <4>2
    <3>2. ASSUME NEW d \in docs, d.id = req[r].token, docs' = docs \ {d},
                 req' = [req EXCEPT ![r].pc = "populate", ![r].user = d.user,
                                    ![r].line = d.line]
          PROVE  Takes(r, d)
      BY <2>5, <3>2 DEF Take, Takes
    <3> QED
      BY <2>5, <3>1, <3>2 DEF Take
  <2>6. CASE Populate(r)
    <3>1. CASE Goto(r, "mint")
      <4>1. /\ Renewing(r)' => Renewing(r)
            /\ SameRenewal(req'[r], req[r])
            /\ \A q \in Requests \ {r} : req'[q] = req[q]
        BY <2>6, <3>1, GotoType DEF Populate, Steps, Renewing, SameRenewal
      <4> QED
        BY <2>6, <4>1, RenewalFrame DEF Populate
    <3> QED
      BY <1>3, <2>6, <3>1 DEF Populate, Statuses
  <2>7. CASE Sign(r)
    BY <1>3, <2>7 DEF Sign, Statuses
  <2> QED
    BY <1>4, <2>2, <2>3, <2>4, <2>5, <2>6, <2>7 DEF Handle
<1>5. ASSUME NEW r \in Requests, Forget(r)
      PROVE  Quiet
  <2>1. /\ req'[r] = Idle /\ UNCHANGED <<docs, minted>>
        /\ \A q \in Requests \ {r} : req'[q] = req[q]
    BY <1>5 DEF Forget, TypeOK
  <2> QED
    BY <2>1, IdleRests, RenewalFrame DEF Renewing
<1>6. ASSUME Crash
      PROVE  Quiet
  <2>1. ASSUME NEW q \in Requests
        PROVE  req'[q].pc = "done" \/ req'[q] = req[q]
    BY <1>6 DEF Crash, Done
  <2> QED
    BY <1>6, <2>1 DEF Crash, KeepsRenewals, Renewing, SameRenewal
<1>7. ASSUME NEW u \in Users, DeleteAccount(u)
      PROVE  Quiet
  BY <1>7 DEF DeleteAccount, KeepsRenewals, Renewing, SameRenewal
<1>8. ASSUME UNCHANGED vars
      PROVE  Quiet
  BY <1>8 DEF vars, KeepsRenewals, Renewing, SameRenewal
<1> HIDE DEF Quiet
<1>9. \/ Quiet \/ \E r \in Requests, d \in docs : Takes(r, d)
      \/ \E r \in Requests : Mint(r) \/ DeleteTokensOfUser(r)
  <2>1. ASSUME NEW r \in Requests, Reject(r) \/ StoreFails(r) PROVE Quiet
    BY <1>3, <2>1 DEF Reject, StoreFails, Statuses
  <2>2. ASSUME NEW r \in Requests, NEW op \in {"refresh", "revoke"},
               \E t, p \in HandedOut : Present(r, op, t, p)
        PROVE  Quiet
    BY <1>2, <2>2
  <2> QED
    BY <1>1, <1>4, <1>5, <1>6, <1>7, <1>8, <2>1, <2>2 DEF Next
<1> QED
  BY <1>9 DEF Quiet

LEMMA LinesFrame ==
    ASSUME TypeOK, DocsHandedOut, LineNeverForks, KeepsRenewals,
           docs' \subseteq docs, minted' = minted
    PROVE  DocsHandedOut' /\ LineNeverForks'
  BY DEF DocsHandedOut, LineNeverForks, KeepsRenewals, SameRenewal

LEMMA LinesInit == Init => DocsHandedOut /\ LineNeverForks
  BY IdleRests DEF Init, DocsHandedOut, LineNeverForks, Renewing

LEMMA TakeStep ==
    ASSUME TypeOK, CallsSupported, DocsHandedOut, LineNeverForks,
           NEW r \in Requests, NEW d \in docs, Takes(r, d)
    PROVE  DocsHandedOut' /\ LineNeverForks'
<1>1. /\ req'[r].pc = "populate" /\ req'[r].op = req[r].op /\ req'[r].line = d.line
      /\ \A q \in Requests \ {r} : req'[q] = req[q]
  BY TakenType DEF Takes, At, Steps
<1>2. DocsHandedOut'
  BY DEF Takes, DocsHandedOut
<1>3. \A e \in docs' : e \in docs /\ e.line # d.line
  BY DEF Takes, LineNeverForks
<1>4. \A q \in Requests \ {r} : (Renewing(q)' <=> Renewing(q)) /\ req'[q].line = req[q].line
  BY <1>1 DEF Renewing
<1>5. \A q \in Requests \ {r} : Renewing(q)' => req'[q].line # d.line
  BY <1>4 DEF LineNeverForks
<1> QED
  BY <1>1, <1>2, <1>3, <1>4, <1>5 DEF LineNeverForks

LEMMA MintStep ==
    ASSUME TypeOK, CallsSupported, DocsHandedOut, LineNeverForks,
           NEW r \in Requests, Mint(r)
    PROVE  DocsHandedOut' /\ LineNeverForks' /\ KeepsRenewals
<1> DEFINE l == IF req[r].op = "login" THEN minted + 1 ELSE req[r].line
           new == [id |-> minted + 1, user |-> req[r].user, line |-> l]
<1>0. /\ minted \in Nat /\ minted' = minted + 1 /\ docs' = docs \cup {new}
      /\ req[r].pc = "mint" /\ new.id = minted + 1 /\ new.line = l
  BY ConstantsAssumption DEF Mint, At, TypeOK
<1>1. Supported(req[r])
  BY DEF CallsSupported
<1>2. l \in Tokens /\ l <= minted + 1
  BY <1>0, <1>1, ConstantsAssumption, HandedOutType DEF Mint, Supported, HandedOut, Tokens
<1>3. req'[r].pc = "sign" /\ \A q \in Requests \ {r} : req'[q] = req[q]
  BY <1>0, <1>2, MintedType DEF Mint, Steps
<1>4. KeepsRenewals
  BY <1>3, RenewalFrame DEF Renewing
<1>5. \A d \in docs : d.id \in Nat /\ d.line \in Nat /\ d.id <= minted /\ d.line <= minted
  BY DEF TypeOK, Doc, Tokens, DocsHandedOut
<1> HIDE DEF new
<1>6. DocsHandedOut'
  BY <1>0, <1>2, <1>5 DEF DocsHandedOut
<1>7. \A d \in docs : d.line # l
  <2>1. CASE req[r].op = "login"
    BY <1>0, <1>5, <2>1
  <2>2. CASE req[r].op = "refresh"
    BY <1>0, <2>2 DEF LineNeverForks, Renewing
  <2> QED
    BY <1>0, <1>1, <2>1, <2>2 DEF Supported
<1>8. \A q \in Requests : Renewing(q)' => req'[q].line # l
  <2>1. \A q \in Requests : Renewing(q)' => q # r /\ Renewing(q) /\ req'[q].line = req[q].line
    BY <1>3, <1>4 DEF KeepsRenewals, SameRenewal, Renewing
  <2>2. CASE req[r].op = "login"
    <3>1. \A q \in Requests : Renewing(q) => req[q].line \in 1..minted
      BY DEF CallsSupported, Supported, Renewing, HandedOut
    <3> QED
      BY <1>0, <2>1, <2>2, <3>1
  <2>3. CASE req[r].op = "refresh"
    BY <1>0, <2>1, <2>3 DEF LineNeverForks, Renewing
  <2> QED
    BY <1>0, <1>1, <2>2, <2>3 DEF Supported
<1> HIDE DEF l
<1>9. LineNeverForks'
  BY <1>0, <1>4, <1>7, <1>8 DEF LineNeverForks, KeepsRenewals, SameRenewal
<1> QED
  BY <1>4, <1>6, <1>9

LEMMA ExpelStep ==
    ASSUME TypeOK, NEW r \in Requests, DeleteTokensOfUser(r)
    PROVE  /\ KeepsRenewals /\ docs' \subseteq docs /\ minted' = minted
           /\ \A q \in Requests : Renewing(q) <=> Renewing(q)'
<1>1. /\ req'[r].pc = "done" /\ \A q \in Requests \ {r} : req'[q] = req[q]
  BY DEF DeleteTokensOfUser, TypeOK, Done
<1> QED
  BY <1>1, RenewalFrame DEF DeleteTokensOfUser, Renewing, At

LEMMA LinesStep ==
    ASSUME TypeOK, CallsSupported, DocsHandedOut, LineNeverForks, [Next]_vars
    PROVE  DocsHandedOut' /\ LineNeverForks'
<1>1. CASE KeepsRenewals /\ UNCHANGED <<docs, minted>>
  BY <1>1, LinesFrame
<1>2. ASSUME NEW r \in Requests, DeleteTokensOfUser(r)
      PROVE  DocsHandedOut' /\ LineNeverForks'
  BY <1>2, ExpelStep, LinesFrame
<1> QED
  BY <1>1, <1>2, TakeStep, MintStep, RenewalCases

-----------------------------------------------------------------------------
(* A signup makes one node.                                                  *)

LEMMA MakingFinite ==
    ASSUME NEW u \in Users
    PROVE  IsFiniteSet(Making(u)) /\ Cardinality(Making(u)) \in Nat
  BY ConstantsAssumption, FS_Subset, FS_CardinalityType DEF Making

LEMMA NodesFrame ==
    ASSUME TypeOK, NodesAccounted, UNCHANGED <<accounts, nodes, deletions>>,
           \A q \in Requests : req'[q].pc = "node" => req'[q] = req[q]
    PROVE  NodesAccounted'
<1> SUFFICES ASSUME NEW u \in Users
             PROVE  nodes'[u] + Cardinality(Making(u)')
                      <= deletions'[u] + (IF u \in accounts' THEN 1 ELSE 0)
  BY DEF NodesAccounted
<1>1. Making(u)' \subseteq Making(u)
  BY DEF Making, At
<1>2. IsFiniteSet(Making(u)) /\ Cardinality(Making(u)) \in Nat
  BY MakingFinite
<1>3. Cardinality(Making(u)') <= Cardinality(Making(u)) /\ Cardinality(Making(u)') \in Nat
  BY <1>1, <1>2, FS_Subset, FS_CardinalityType
<1>4. nodes[u] + Cardinality(Making(u)) <= deletions[u] + (IF u \in accounts THEN 1 ELSE 0)
  BY DEF NodesAccounted
<1>5. nodes[u] \in Nat /\ deletions[u] \in Nat
  BY ConstantsAssumption DEF TypeOK
<1> QED
  BY <1>2, <1>3, <1>4, <1>5

LEMMA NodesInit == Init => NodesAccounted
<1> SUFFICES ASSUME Init, NEW u \in Users
             PROVE  nodes[u] + Cardinality(Making(u))
                      <= deletions[u] + (IF u \in accounts THEN 1 ELSE 0)
  BY DEF NodesAccounted
<1>1. Making(u) = {}
  BY IdleRests DEF Init, Making, At
<1>2. Cardinality(Making(u)) = 0
  BY <1>1, FS_EmptySet
<1> QED
  BY <1>2 DEF Init

LEMMA CreateUserStep ==
    ASSUME TypeOK, CallsSupported, NodesAccounted, NEW r \in Requests, CreateUser(r)
    PROVE  NodesAccounted'
<1>1. CASE req[r].user \in accounts
  <2>1. \A q \in Requests : req'[q].pc = "node" => req'[q] = req[q]
    BY <1>1, AnswerType DEF CreateUser, Statuses
  <2> QED
    BY <1>1, <2>1, NodesFrame DEF CreateUser
<1>2. CASE req[r].user \notin accounts
  <2>1. /\ req'[r].user = req[r].user /\ \A q \in Requests \ {r} : req'[q] = req[q]
    BY <1>2, GotoType DEF CreateUser, At, Steps
  <2> SUFFICES ASSUME NEW u \in Users
               PROVE  nodes'[u] + Cardinality(Making(u)')
                        <= deletions'[u] + (IF u \in accounts' THEN 1 ELSE 0)
    BY DEF NodesAccounted
  <2>2. /\ IsFiniteSet(Making(u)) /\ Cardinality(Making(u)) \in Nat
        /\ nodes[u] \in Nat /\ deletions[u] \in Nat
    BY MakingFinite, ConstantsAssumption DEF TypeOK
  <2>3. nodes[u] + Cardinality(Making(u)) <= deletions[u] + (IF u \in accounts THEN 1 ELSE 0)
    BY DEF NodesAccounted
  <2>4. CASE u = req[r].user
    <3>1. Making(u)' \subseteq Making(u) \cup {r}
      BY <2>1 DEF Making, At
    <3>2. /\ IsFiniteSet(Making(u) \cup {r})
          /\ Cardinality(Making(u) \cup {r}) <= Cardinality(Making(u)) + 1
      <4>1. /\ IsFiniteSet(Making(u) \cup {r})
            /\ \/ Cardinality(Making(u) \cup {r}) = Cardinality(Making(u))
               \/ Cardinality(Making(u) \cup {r}) = Cardinality(Making(u)) + 1
        BY <2>2, FS_AddElement, Zenon
      <4> QED
        BY <2>2, <4>1
    <3>3. /\ Cardinality(Making(u)') \in Nat
          /\ Cardinality(Making(u)') <= Cardinality(Making(u) \cup {r})
      BY <3>1, <3>2, FS_Subset, FS_CardinalityType
    <3>4. Cardinality(Making(u) \cup {r}) \in Nat
      BY <3>2, FS_CardinalityType
    <3> QED
      BY <1>2, <2>2, <2>3, <2>4, <3>2, <3>3, <3>4 DEF CreateUser
  <2>5. CASE u # req[r].user
    <3>1. Making(u)' \subseteq Making(u)
      BY <2>1, <2>5 DEF Making, At
    <3>2. Cardinality(Making(u)') <= Cardinality(Making(u)) /\ Cardinality(Making(u)') \in Nat
      BY <2>2, <3>1, FS_Subset, FS_CardinalityType
    <3>3. u \in accounts' <=> u \in accounts
      BY <2>5 DEF CreateUser
    <3> QED
      BY <2>2, <2>3, <3>2, <3>3 DEF CreateUser
  <2> QED
    BY <2>4, <2>5
<1> QED
  BY <1>1, <1>2

LEMMA CreateNodeStep ==
    ASSUME TypeOK, CallsSupported, NodesAccounted, NEW r \in Requests, CreateNode(r)
    PROVE  NodesAccounted'
<1>1. /\ req[r].pc = "node" /\ req'[r].pc = "mint"
      /\ \A q \in Requests \ {r} : req'[q] = req[q]
  BY GotoType DEF CreateNode, At, Steps
<1> SUFFICES ASSUME NEW u \in Users
             PROVE  nodes'[u] + Cardinality(Making(u)')
                      <= deletions'[u] + (IF u \in accounts' THEN 1 ELSE 0)
  BY DEF NodesAccounted
<1>2. /\ IsFiniteSet(Making(u)) /\ Cardinality(Making(u)) \in Nat
      /\ nodes[u] \in Nat /\ deletions[u] \in Nat
  BY MakingFinite, ConstantsAssumption DEF TypeOK
<1>3. nodes[u] + Cardinality(Making(u)) <= deletions[u] + (IF u \in accounts THEN 1 ELSE 0)
  BY DEF NodesAccounted
<1>4. CASE u = req[r].user
  <2>1. r \in Making(u) /\ Making(u)' = Making(u) \ {r}
    BY <1>1, <1>4 DEF Making, At
  <2>2. Cardinality(Making(u)') = Cardinality(Making(u)) - 1
    BY <1>2, <2>1, FS_RemoveElement
  <2>3. nodes'[u] = nodes[u] + 1
    BY <1>4 DEF CreateNode, TypeOK
  <2> QED
    BY <1>2, <1>3, <2>2, <2>3 DEF CreateNode
<1>5. CASE u # req[r].user
  <2>1. Making(u)' = Making(u)
    BY <1>1, <1>5 DEF Making, At
  <2>2. nodes'[u] = nodes[u]
    BY <1>5 DEF CreateNode, TypeOK
  <2> QED
    BY <1>3, <2>1, <2>2 DEF CreateNode
<1> QED
  BY <1>4, <1>5

LEMMA NodesStep ==
    ASSUME TypeOK, CallsSupported, NodesAccounted, [Next]_vars
    PROVE  NodesAccounted'
<1>1. ASSUME UNCHANGED <<accounts, nodes, deletions>>, NEW r \in Requests,
             req'[r].pc # "node", \A q \in Requests \ {r} : req'[q] = req[q]
      PROVE  NodesAccounted'
  BY <1>1, NodesFrame
<1>2. ASSUME NEW r \in Requests, NEW u \in Users, Login(r, u) \/ ForceLogout(r, u)
      PROVE  NodesAccounted'
  <2>1. /\ req'[r].pc \in {"find", "expel"} /\ UNCHANGED <<accounts, nodes, deletions>>
        /\ \A q \in Requests \ {r} : req'[q] = req[q]
    BY <1>2 DEF Login, ForceLogout, Receive, TypeOK
  <2> QED
    BY <1>1, <2>1
<1>3. ASSUME NEW r \in Requests, NEW op \in {"refresh", "revoke"},
             \E t, p \in HandedOut : Present(r, op, t, p)
      PROVE  NodesAccounted'
  <2>1. /\ req'[r].pc = "take" /\ UNCHANGED <<accounts, nodes, deletions>>
        /\ \A q \in Requests \ {r} : req'[q] = req[q]
    BY <1>3 DEF Present, Receive, TypeOK
  <2> QED
    BY <1>1, <2>1
<1>4. ASSUME NEW r \in Requests, NEW status \in Statuses, Answer(r, status),
             UNCHANGED <<accounts, nodes, deletions>>
      PROVE  NodesAccounted'
  BY <1>1, <1>4, AnswerType
<1>5. ASSUME NEW r \in Requests, Handle(r)
      PROVE  NodesAccounted'
  <2> USE DEF At
  <2>1. ASSUME NEW step \in Steps \ {"node"}, Goto(r, step), req[r].pc \in Steps,
               UNCHANGED <<accounts, nodes, deletions>>
        PROVE  NodesAccounted'
    BY <1>1, <2>1, GotoType
  <2>2. CASE FindUser(r)
    BY <2>1, <2>2 DEF FindUser, Steps
  <2>3. CASE Take(r)
    <3>1. UNCHANGED <<accounts, nodes, deletions>> /\ req[r].pc \in Steps
      BY <2>3 DEF Take, Steps
    <3>3. 401 \in Statuses
      BY DEF Statuses
    <3>2. ASSUME NEW d \in docs,
                 req' = [req EXCEPT ![r].pc = "populate", ![r].user = d.user,
                                    ![r].line = d.line]
          PROVE  NodesAccounted'
      BY <1>1, <3>1, <3>2, TakenType
    <3> QED
      BY <1>4, <2>3, <3>1, <3>2, <3>3 DEF Take
  <2>4. CASE Populate(r)
    BY <1>4, <2>1, <2>4 DEF Populate, Steps, Statuses
  <2>5. CASE Mint(r)
    <3>1. req'[r].pc = "sign" /\ \A q \in Requests \ {r} : req'[q] = req[q]
      <4>1. minted + 1 \in Tokens
        BY <2>5, ConstantsAssumption DEF Mint, Tokens, TypeOK
      <4>2. req[r].op # "login" => req[r].line \in Tokens
        BY <2>5, HandedOutType DEF Mint, CallsSupported, Supported
      <4>3. PICK l \in Tokens : req' = [req EXCEPT ![r].pc = "sign", ![r].line = l]
        BY <2>5, <4>1, <4>2 DEF Mint
      <4> QED
        BY <2>5, <4>3, MintedType DEF Mint, Steps
    <3> QED
      BY <1>1, <2>5, <3>1 DEF Mint
  <2>6. CASE Sign(r)
    BY <1>4, <2>6 DEF Sign, Statuses
  <2>7. CASE DeleteTokensOfUser(r)
    <3>1. /\ req'[r].pc = "done" /\ UNCHANGED <<accounts, nodes, deletions>>
          /\ \A q \in Requests \ {r} : req'[q] = req[q]
      BY <2>7 DEF DeleteTokensOfUser, TypeOK, Done
    <3> QED
      BY <1>1, <3>1
  <2> QED
    BY <1>5, <2>2, <2>3, <2>4, <2>5, <2>6, <2>7, CreateUserStep, CreateNodeStep DEF Handle
<1>6. ASSUME NEW r \in Requests, Forget(r)
      PROVE  NodesAccounted'
  <2>1. /\ req'[r] = Idle /\ UNCHANGED <<accounts, nodes, deletions>>
        /\ \A q \in Requests \ {r} : req'[q] = req[q]
    BY <1>6 DEF Forget, TypeOK
  <2> QED
    BY <1>1, <2>1, IdleRests
<1>7. CASE Crash
  <2>1. \A q \in Requests : req'[q].pc = "node" => req'[q] = req[q]
    BY <1>7 DEF Crash, Done
  <2> QED
    BY <1>7, <2>1, NodesFrame DEF Crash
<1>8. ASSUME NEW u \in Users, DeleteAccount(u)
      PROVE  NodesAccounted'
  <2> SUFFICES ASSUME NEW v \in Users
               PROVE  nodes'[v] + Cardinality(Making(v)')
                        <= deletions'[v] + (IF v \in accounts' THEN 1 ELSE 0)
    BY DEF NodesAccounted
  <2>1. Making(v)' = Making(v) /\ nodes' = nodes
    BY <1>8 DEF DeleteAccount, Making, At
  <2>2. /\ Cardinality(Making(v)) \in Nat /\ nodes[v] \in Nat /\ deletions[v] \in Nat
        /\ nodes[v] + Cardinality(Making(v)) <= deletions[v] + (IF v \in accounts THEN 1 ELSE 0)
    BY MakingFinite, ConstantsAssumption DEF TypeOK, NodesAccounted
  <2>3. deletions'[v] + (IF v \in accounts' THEN 1 ELSE 0)
          = deletions[v] + (IF v \in accounts THEN 1 ELSE 0)
    BY <1>8, <2>2 DEF DeleteAccount, TypeOK
  <2> QED
    BY <2>1, <2>2, <2>3
<1>9. CASE UNCHANGED vars
  BY <1>9, NodesFrame DEF vars
<1> QED
  <2>1. ASSUME NEW r \in Requests, Reject(r) \/ StoreFails(r) PROVE NodesAccounted'
    BY <1>4, <2>1 DEF Reject, StoreFails, Statuses
  <2> QED
    BY <1>2, <1>3, <1>5, <1>6, <1>7, <1>8, <1>9, <2>1 DEF Next

-----------------------------------------------------------------------------
(* The theorems.                                                             *)

LEMMA InductiveCorrect == Spec => [](TypeOK /\ Inductive)
<1>1. Init => TypeOK /\ Inductive
  BY TypeInit, CallsInit, LinesInit, NodesInit DEF Inductive
<1>2. TypeOK /\ Inductive /\ [Next]_vars => TypeOK' /\ Inductive'
  BY TypeStep, CallsStep, LinesStep, NodesStep DEF Inductive
<1> QED
  BY <1>1, <1>2, PTL DEF Spec

\* Type correctness of the accounts, the tokens and the calls in every execution.
THEOREM TypeCorrect == Spec => []TypeOK
  BY InductiveCorrect, PTL

\* However many logins, refreshes and revocations race, on any number of sessions
\* and users, no session is ever continued twice.
THEOREM LineNeverForksCorrect == Spec => []LineNeverForks
<1>1. Inductive => LineNeverForks
  BY DEF Inductive
<1> QED
  BY <1>1, InductiveCorrect, PTL

\* However many first logins of a user race, each signup makes at most one node.
THEOREM OneNodePerSignupCorrect == Spec => []OneNodePerSignup
<1>1. TypeOK /\ Inductive => OneNodePerSignup
  <2> SUFFICES ASSUME TypeOK, Inductive, NEW u \in Users
               PROVE  nodes[u] <= 1 + deletions[u]
    BY DEF OneNodePerSignup
  <2>1. /\ Cardinality(Making(u)) \in Nat /\ nodes[u] \in Nat /\ deletions[u] \in Nat
        /\ nodes[u] + Cardinality(Making(u)) <= deletions[u] + (IF u \in accounts THEN 1 ELSE 0)
    BY MakingFinite, ConstantsAssumption DEF TypeOK, Inductive, NodesAccounted
  <2> QED
    BY <2>1
<1> QED
  BY <1>1, InductiveCorrect, PTL

-----------------------------------------------------------------------------
(* The handlers implement SessionLines.                                      *)

Taken(c) == [token |-> c.token, user |-> c.user, print |-> c.print]

LEMMA HeldStep ==
    ASSUME TypeOK, LineNeverForks, NEW d \in docs
    PROVE  HeldOn(d.line) = {[token |-> d.id, user |-> d.user]}
  BY DEF HeldOn, LineNeverForks

LEMMA TakenOne ==
    ASSUME LineNeverForks, NEW r \in Requests, Renewing(r)
    PROVE  TakenOn(req[r].line) = {Taken(req[r])}
  BY DEF TakenOn, LineNeverForks, Taken

LEMMA TakenNone ==
    ASSUME NEW l, \A q \in Requests : Renewing(q) => req[q].line # l
    PROVE  TakenOn(l) = {}
  BY DEF TakenOn

\* A step that only ends renewals, or does nothing to them.
LEMMA QuietRefines ==
    ASSUME TypeOK, LineNeverForks, LineNeverForks', KeepsRenewals, UNCHANGED <<docs, minted>>
    PROVE  Lines!Next
<1> DEFINE L == {l \in Tokens : \A q \in Requests : Renewing(q)' => req'[q].line # l}
<1>1. ASSUME NEW l \in Tokens
      PROVE  TakenOn(l)' = IF l \in L THEN {} ELSE TakenOn(l)
  <2>1. CASE l \in L
    BY <2>1 DEF TakenOn
  <2>2. CASE l \notin L
    <3>1. PICK q \in Requests : Renewing(q)' /\ req'[q].line = l
      BY <2>2
    <3>2. Renewing(q) /\ req[q].line = l /\ Taken(req[q])' = Taken(req[q])
      BY <3>1 DEF KeepsRenewals, SameRenewal, Taken
    <3>3. TakenOn(l) = {Taken(req[q])}
      BY <3>2, TakenOne
    <3>4. TakenOn(l)' = {Taken(req[q])'}
      BY <3>1 DEF TakenOn, LineNeverForks, Taken
    <3> QED
      BY <2>2, <3>2, <3>3, <3>4
  <2> QED
    BY <2>1, <2>2
<1>2. [l \in Tokens |-> TakenOn(l)]' =
        [l \in Tokens |-> IF l \in L THEN {} ELSE [m \in Tokens |-> TakenOn(m)][l]]
  BY <1>1
<1>3. [l \in Tokens |-> HeldOn(l)]' = [l \in Tokens |-> HeldOn(l)]
  BY DEF HeldOn
<1>4. L \in SUBSET Tokens
  OBVIOUS
<1> HIDE DEF L
<1>5. Lines!Abandon(L)
  BY <1>2, <1>3 DEF Lines!Abandon, Lines!Lines
<1> QED
  BY <1>4, <1>5 DEF Lines!Next, Lines!Lines

LEMMA TakeRefines ==
    ASSUME TypeOK, CallsSupported, DocsHandedOut, LineNeverForks, LineNeverForks',
           NEW r \in Requests, NEW d \in docs, Takes(r, d)
    PROVE  Lines!Next
<1> DEFINE l == d.line
           h == [token |-> d.id, user |-> d.user]
<1>0. /\ req'[r].pc = "populate" /\ req'[r].op = req[r].op
      /\ req'[r].user = d.user /\ req'[r].line = l
      /\ req'[r].token = d.id /\ req'[r].print = req[r].print
      /\ \A q \in Requests \ {r} : req'[q] = req[q]
  BY TakenType DEF Takes, At, Steps
<1>1. l \in Tokens /\ req[r].op \in {"refresh", "revoke"} /\ req[r].print \in Tokens
  BY HandedOutType DEF TypeOK, Doc, CallsSupported, Supported, Takes, At
<1>2. HeldOn(l) = {h}
  BY HeldStep
<1>3. [m \in Tokens |-> HeldOn(m)]' = [[m \in Tokens |-> HeldOn(m)] EXCEPT ![l] = {}]
  <2>1. HeldOn(l)' = {}
    BY DEF HeldOn, Takes, LineNeverForks
  <2>2. ASSUME NEW m \in Tokens, m # l PROVE HeldOn(m)' = HeldOn(m)
    BY <2>2 DEF HeldOn, Takes
  <2> HIDE DEF l
  <2> QED
    BY <1>1, <2>1, <2>2
<1>4. \A q \in Requests \ {r} : Renewing(q)' <=> Renewing(q)
  BY <1>0 DEF Renewing
<1>5. CASE req[r].op = "refresh"
  <2>1. Renewing(r)' /\ ~Renewing(r)
    BY <1>0, <1>5 DEF Renewing, Takes, At
  <2>2. TakenOn(l)' = {[token |-> h.token, user |-> h.user, print |-> req[r].print]}
    BY <1>0, <2>1 DEF TakenOn, LineNeverForks
  <2>3. ASSUME NEW m \in Tokens, m # l PROVE TakenOn(m)' = TakenOn(m)
    <3>1. \A q \in Requests : (Renewing(q) /\ req[q].line = m)' <=> Renewing(q) /\ req[q].line = m
      BY <1>0, <1>4, <2>1, <2>3
    <3>2. \A q \in Requests : Renewing(q) => q # r
      BY <2>1
    <3> QED
      BY <1>0, <3>1, <3>2 DEF TakenOn
  <2> HIDE DEF l
  <2>4. [m \in Tokens |-> TakenOn(m)]' =
          [[m \in Tokens |-> TakenOn(m)] EXCEPT
             ![l] = {[token |-> h.token, user |-> h.user, print |-> req[r].print]}]
    BY <1>1, <2>2, <2>3
  <2>5. h \in [m \in Tokens |-> HeldOn(m)][l]
    BY <1>1, <1>2
  <2>6. minted' = minted
    BY DEF Takes
  <2> HIDE DEF h
  <2>7. Lines!Take(l, req[r].print)
    BY <1>3, <2>4, <2>5, <2>6 DEF Lines!Take
  <2> QED
    BY <1>1, <2>7 DEF Lines!Next, Lines!Lines
<1>6. CASE req[r].op = "revoke"
  <2>1. ~Renewing(r)' /\ ~Renewing(r)
    BY <1>0, <1>6 DEF Renewing, Takes, At
  <2>2. ASSUME NEW m \in Tokens PROVE TakenOn(m)' = TakenOn(m)
    BY <1>0, <1>4, <2>1 DEF TakenOn
  <2>3. minted' = minted
    BY DEF Takes
  <2> HIDE DEF l
  <2>4. Lines!Revoke(l)
    BY <1>3, <2>2, <2>3 DEF Lines!Revoke
  <2> QED
    BY <1>1, <2>4 DEF Lines!Next, Lines!Lines
<1> QED
  BY <1>1, <1>5, <1>6

LEMMA MintRefines ==
    ASSUME TypeOK, CallsSupported, DocsHandedOut, LineNeverForks, LineNeverForks',
           NEW r \in Requests, Mint(r)
    PROVE  Lines!Next
<1>0. minted \in Nat /\ minted' = minted + 1 /\ req[r].pc = "mint"
  BY ConstantsAssumption DEF Mint, At, TypeOK
<1>1. Supported(req[r]) /\ req[r].user \in Users
  BY <1>0 DEF CallsSupported, Supported
\* The next token, the line, what was taken and the user, as they are before the step.
<1>2. PICK t \in Tokens, l \in Tokens :
        t = minted + 1 /\ l = IF req[r].op = "login" THEN minted + 1 ELSE req[r].line
  BY <1>0, <1>1, ConstantsAssumption, HandedOutType DEF Mint, Supported, Tokens
<1>3. PICK u \in Users : u = req[r].user
  BY <1>1
<1>4. PICK new : new = [id |-> t, user |-> u, line |-> l]
  OBVIOUS
<1>5. PICK h : h = [token |-> t, user |-> u]
  OBVIOUS
<1>6. docs' = docs \cup {new} /\ new.id = t /\ new.user = u /\ new.line = l
  BY <1>2, <1>3, <1>4 DEF Mint
<1>7. req'[r].pc = "sign" /\ \A q \in Requests \ {r} : req'[q] = req[q]
  BY <1>0, <1>2, MintedType DEF Mint, Steps
<1>8. t \notin 1..minted /\ 1..minted' = (1..minted) \cup {t}
  BY <1>0, <1>2
<1>9. [m \in Tokens |-> HeldOn(m)]' = [[m \in Tokens |-> HeldOn(m)] EXCEPT ![l] = {h}]
  <2>1. \A d \in docs : d.line # l
    <3>1. \A d \in docs : d.id \in Nat /\ d.id <= minted
      BY DEF TypeOK, Doc, Tokens, DocsHandedOut
    <3>2. \A d \in docs : d # new
      BY <1>0, <1>2, <1>6, <3>1
    <3> QED
      BY <1>6, <3>2 DEF LineNeverForks
  <2>2. HeldOn(l)' = {h}
    BY <1>5, <1>6, <2>1 DEF HeldOn
  <2>3. ASSUME NEW m \in Tokens, m # l PROVE HeldOn(m)' = HeldOn(m)
    BY <1>6, <2>3 DEF HeldOn
  <2> QED
    BY <1>2, <2>2, <2>3
<1>10. ~Renewing(r)' /\ \A q \in Requests \ {r} : Renewing(q)' <=> Renewing(q)
  BY <1>7 DEF Renewing
<1>11. CASE req[r].op = "login"
  <2>1. ~Renewing(r)
    BY <1>11 DEF Renewing
  <2>2. ASSUME NEW m \in Tokens PROVE TakenOn(m)' = TakenOn(m)
    BY <1>7, <1>10, <2>1 DEF TakenOn
  <2>3. l = t
    BY <1>2, <1>11
  <2>4. Lines!Begin(t, u)
    BY <1>5, <1>8, <1>9, <2>2, <2>3 DEF Lines!Begin, Lines!HandOut
  <2> QED
    BY <1>2, <1>3, <2>4 DEF Lines!Next, Lines!Lines
<1>12. CASE req[r].op = "refresh"
  <2>1. Renewing(r) /\ req[r].line = l /\ req[r].print = req[r].token
    BY <1>0, <1>1, <1>2, <1>12 DEF Renewing, Supported
  <2>2. PICK c : c = Taken(req[r])
    OBVIOUS
  <2>3. TakenOn(l) = {c} /\ c.print = c.token /\ c.user = u
    BY <1>3, <2>1, <2>2, TakenOne DEF Taken
  <2>4. TakenOn(l)' = {}
    <3>1. \A q \in Requests : Renewing(q)' => req'[q].line # l
      BY <1>7, <1>10, <2>1 DEF LineNeverForks
    <3> QED
      BY <3>1 DEF TakenOn
  <2>5. ASSUME NEW m \in Tokens, m # l PROVE TakenOn(m)' = TakenOn(m)
    <3>1. \A q \in Requests : (Renewing(q) /\ req[q].line = m)' <=> Renewing(q) /\ req[q].line = m
      BY <1>7, <1>10, <2>1, <2>5
    <3>2. \A q \in Requests : Renewing(q)' => req'[q] = req[q]
      BY <1>7, <1>10
    <3> QED
      BY <3>1, <3>2 DEF TakenOn
  <2>6. [m \in Tokens |-> TakenOn(m)]' = [[m \in Tokens |-> TakenOn(m)] EXCEPT ![l] = {}]
    BY <1>2, <2>4, <2>5
  <2>7. c \in [m \in Tokens |-> TakenOn(m)][l]
    BY <1>2, <2>3
  <2>8. h = [token |-> t, user |-> c.user]
    BY <1>5, <2>3
  <2>9. Lines!Renew(l, t)
    BY <1>8, <1>9, <2>3, <2>6, <2>7, <2>8 DEF Lines!Renew, Lines!HandOut
  <2> QED
    BY <1>2, <2>9 DEF Lines!Next, Lines!Lines
<1> QED
  BY <1>0, <1>1, <1>11, <1>12 DEF Supported

LEMMA ExpelRefines ==
    ASSUME TypeOK, CallsSupported, NEW r \in Requests, DeleteTokensOfUser(r)
    PROVE  Lines!Next
<1> DEFINE u == req[r].user
<1>1. u \in Users
  BY DEF DeleteTokensOfUser, At, CallsSupported, Supported
<1>2. ASSUME NEW l \in Tokens
      PROVE  HeldOn(l)' = {h \in [m \in Tokens |-> HeldOn(m)][l] : h.user # u}
  <2>1. HeldOn(l)' = {h \in HeldOn(l) : h.user # u}
    BY DEF DeleteTokensOfUser, HeldOn
  <2> QED
    BY <2>1
<1>3. ASSUME NEW l \in Tokens
      PROVE  TakenOn(l)' = TakenOn(l)
  <2>1. \A q \in Requests \ {r} : req'[q] = req[q]
    BY DEF DeleteTokensOfUser, TypeOK
  <2>2. ~Renewing(r) /\ ~Renewing(r)'
    BY DEF DeleteTokensOfUser, TypeOK, Done, Renewing, At
  <2> QED
    BY <2>1, <2>2 DEF TakenOn, Renewing
<1>4. minted' = minted
  BY DEF DeleteTokensOfUser
<1> HIDE DEF u
<1>5. Lines!Expel(u)
  BY <1>2, <1>3, <1>4 DEF Lines!Expel, Lines!Lines
<1> QED
  BY <1>1, <1>5 DEF Lines!Next, Lines!Lines

LEMMA LinesRefineInit == Init => Lines!Init
<1> SUFFICES ASSUME Init PROVE Lines!Init
  OBVIOUS
<1>1. 1..minted = {} /\ \A l \in Tokens : HeldOn(l) = {}
  BY DEF Init, HeldOn
<1>2. \A l \in Tokens : TakenOn(l) = {}
  BY IdleRests, TakenNone DEF Init, Renewing
<1> QED
  BY <1>1, <1>2 DEF Lines!Init, Lines!Lines

\* A session is one token, or one renewal that took it, until it is over, and
\* only a renewal with the fingerprint of the token it took continues it.
THEOREM LinesRefined == Spec => LinesSpec
<1>1. /\ TypeOK /\ Inductive /\ TypeOK' /\ Inductive' /\ [Next]_vars
      => [Lines!Next]_(Lines!lineVars)
  BY RenewalCases, QuietRefines, TakeRefines, MintRefines, ExpelRefines DEF Inductive
<1> QED
  BY <1>1, LinesRefineInit, InductiveCorrect, PTL DEF LinesSpec, Lines!Spec, Spec
=============================================================================
