------------------------------- MODULE Sessions -------------------------------
(***************************************************************************)
(* AuthService, the refresh-token strategy and AuthController (backend/src/*)
(* auth), with UserService.findAndUpdateOrCreate, which a login calls.     *)
(*                                                                         *)
(* A login or a refresh stores a refresh token together with the           *)
(* fingerprint that goes to the browser as a cookie.  A refresh and a      *)
(* revocation first delete the presented token, then read its user, and    *)
(* only then compare the fingerprint: what is presented is spent whatever  *)
(* comes after.  Every await lets other requests run; the process may die  *)
(* at each, and what was deleted or stored until then stays so.            *)
(***************************************************************************)
EXTENDS Naturals, FiniteSets

CONSTANTS Users, Requests,
          Nobody,       \* the user of a call that has not yet found its token
          MaxTokens,    \* bound: the refresh tokens stored in a behaviour
          MaxDeletions  \* bound: the deletions of one account

ASSUME ConstantsAssumption ==
    /\ Nobody \notin Users
    /\ IsFiniteSet(Requests)
    /\ MaxTokens \in Nat /\ MaxDeletions \in Nat

VARIABLES accounts,   \* ids of the documents of the users collection
          nodes,      \* how many User nodes of the graph carry each id
          docs,       \* the refreshtokens collection
          minted,     \* how many tokens were generated: they are 1..minted
          req,        \* the handlers in progress
          deletions   \* history: how often each account was deleted
vars == <<accounts, nodes, docs, minted, req, deletions>>

Tokens == 1..MaxTokens
None == 0
\* A fingerprint is generated with its token and bears the token's number.  The
\* line is a history: the first token of the chain of renewals it belongs to.
Doc == [id : Tokens, user : Users, line : Tokens]
Ops == {"login", "refresh", "revoke", "force"}
Steps == {"find", "create", "node", "take", "populate", "mint", "sign", "expel"}
Statuses == {200, 204, 302, 401, 500, 0}   \* 0: the process died, no answer was sent
Idle == [pc |-> "idle"]
Answered == [pc : {"done"}, status : Statuses,
             ended : SUBSET Tokens]  \* history: the sessions force_logout was to end
Call == [pc : Steps, op : Ops, user : Users \cup {Nobody}, token : {None} \cup Tokens,
         print : {None} \cup Tokens, line : {None} \cup Tokens]

TypeOK ==
    /\ accounts \subseteq Users
    /\ nodes \in [Users -> Nat]
    /\ docs \subseteq Doc
    /\ minted \in 0..MaxTokens
    /\ req \in [Requests -> {Idle} \cup Call \cup Answered]
    /\ deletions \in [Users -> 0..MaxDeletions]

Init ==
    /\ accounts = {} /\ nodes = [u \in Users |-> 0]
    /\ docs = {} /\ minted = 0
    /\ req = [r \in Requests |-> Idle]
    /\ deletions = [u \in Users |-> 0]

Done(status, ended) == [pc |-> "done", status |-> status, ended |-> ended]
Active(r) == req[r].pc \notin {"idle", "done"}
At(r, step) == req[r].pc = step
Goto(r, step) == req' = [req EXCEPT ![r].pc = step]
Answer(r, status) == req' = [req EXCEPT ![r] = Done(status, {})]

-----------------------------------------------------------------------------
(* Requests.                                                                 *)

Receive(r, c) ==
    /\ req[r] = Idle
    /\ req' = [req EXCEPT ![r] = c]
    /\ UNCHANGED <<accounts, nodes, docs, minted, deletions>>

\* The identity provider redirects the browser of u to authorization_code.
Login(r, u) ==
    Receive(r, [pc |-> "find", op |-> "login", user |-> u, token |-> None,
                print |-> None, line |-> None])

\* refresh_token and revoke take any pair of a token and a cookie handed out ...
Present(r, op, t, p) ==
    Receive(r, [pc |-> "take", op |-> op, user |-> Nobody, token |-> t, print |-> p,
                line |-> None])

\* ... and refuse a request that lacks the cookie or the token.
Reject(r) ==
    /\ req[r] = Idle
    /\ Answer(r, 401)
    /\ UNCHANGED <<accounts, nodes, docs, minted, deletions>>

\* force_logout, with an access token of u, whose account may be gone.
ForceLogout(r, u) ==
    /\ u \in accounts \/ deletions[u] > 0
    /\ Receive(r, [pc |-> "expel", op |-> "force", user |-> u, token |-> None,
                   print |-> None, line |-> None])

-----------------------------------------------------------------------------
(* findAndUpdateOrCreate.                                                    *)

FindUser(r) ==
    /\ At(r, "find")
    /\ Goto(r, IF req[r].user \in accounts THEN "mint" ELSE "create")
    /\ UNCHANGED <<accounts, nodes, docs, minted, deletions>>

\* Mutation: the user is upserted, so that two first logins both go on.
UpsertUser(r) ==
    /\ At(r, "create")
    /\ Goto(r, "node")
    /\ accounts' = accounts \cup {req[r].user}
    /\ UNCHANGED <<nodes, docs, minted, deletions>>

\* create is refused for an _id that another login has stored in the meantime.
CreateUser(r) ==
    /\ At(r, "create")
    /\ IF req[r].user \in accounts THEN Answer(r, 500) ELSE Goto(r, "node")
    /\ accounts' = accounts \cup {req[r].user}
    /\ UNCHANGED <<nodes, docs, minted, deletions>>

CreateNode(r) ==
    /\ At(r, "node")
    /\ nodes' = [nodes EXCEPT ![req[r].user] = @ + 1]
    /\ Goto(r, "mint")
    /\ UNCHANGED <<accounts, docs, minted, deletions>>

-----------------------------------------------------------------------------
(* checkAndDeleteRefreshToken.                                               *)

\* Mutation: the token is read here and deleted when the next one is stored.
TakeWithoutDeleting(r) ==
    /\ At(r, "take")
    /\ \/ \E d \in docs :
            /\ d.id = req[r].token
            /\ req' = [req EXCEPT ![r].pc = "populate", ![r].user = d.user,
                                  ![r].line = d.line]
       \/ (\A d \in docs : d.id # req[r].token) /\ Answer(r, 401)
    /\ UNCHANGED <<accounts, nodes, docs, minted, deletions>>

\* findByIdAndDelete.
Take(r) ==
    /\ At(r, "take")
    /\ \/ \E d \in docs :
            /\ d.id = req[r].token
            /\ docs' = docs \ {d}
            /\ req' = [req EXCEPT ![r].pc = "populate", ![r].user = d.user,
                                  ![r].line = d.line]
       \/ /\ \A d \in docs : d.id # req[r].token
          /\ Answer(r, 401)
          /\ UNCHANGED docs
    /\ UNCHANGED <<accounts, nodes, minted, deletions>>

\* populate('user') is a second query; the mapper throws on a user that is gone.
Populate(r) ==
    /\ At(r, "populate")
    /\ IF req[r].print # req[r].token THEN Answer(r, 401)
       ELSE IF req[r].user \notin accounts THEN Answer(r, 500)
       ELSE IF req[r].op = "revoke" THEN Answer(r, 204)
       ELSE Goto(r, "mint")
    /\ UNCHANGED <<accounts, nodes, docs, minted, deletions>>

-----------------------------------------------------------------------------
(* authenticateUser, forceLogout.                                            *)

Mint(r) ==
    /\ At(r, "mint")
    /\ minted < MaxTokens
    /\ minted' = minted + 1
    /\ LET l == IF req[r].op = "login" THEN minted + 1 ELSE req[r].line IN
       /\ docs' = docs \cup {[id |-> minted + 1, user |-> req[r].user, line |-> l]}
       /\ req' = [req EXCEPT ![r].pc = "sign", ![r].line = l]
    /\ UNCHANGED <<accounts, nodes, deletions>>

\* Mutation: the refresh end point lost its @HttpCode(OK).
SignCreated(r) ==
    /\ At(r, "sign")
    /\ Answer(r, IF req[r].op = "login" THEN 302 ELSE 201)
    /\ UNCHANGED <<accounts, nodes, docs, minted, deletions>>

\* createToken, then the redirect of a login or the body of a refresh.
Sign(r) ==
    /\ At(r, "sign")
    /\ Answer(r, IF req[r].op = "login" THEN 302 ELSE 200)
    /\ UNCHANGED <<accounts, nodes, docs, minted, deletions>>

\* A refresh that has taken its token and not stored the next one.
Renewing(r) == req[r].pc \in {"populate", "mint"} /\ req[r].op = "refresh"
SessionsOf(u) == {d.line : d \in {e \in docs : e.user = u}}
                 \cup {req[r].line : r \in {q \in Requests : Renewing(q) /\ req[q].user = u}}

\* Mutation: the filter of deleteMany is empty.
DeleteAllTokens(r) ==
    /\ At(r, "expel")
    /\ docs' = {}
    /\ req' = [req EXCEPT ![r] = Done(204, SessionsOf(req[r].user))]
    /\ UNCHANGED <<accounts, nodes, minted, deletions>>

\* deleteMany({ user }).
DeleteTokensOfUser(r) ==
    /\ At(r, "expel")
    /\ docs' = {d \in docs : d.user # req[r].user}
    /\ req' = [req EXCEPT ![r] = Done(204, SessionsOf(req[r].user))]
    /\ UNCHANGED <<accounts, nodes, minted, deletions>>

-----------------------------------------------------------------------------
(* Failures, and what runs beside the handlers.                              *)

StoreFails(r) ==
    /\ Active(r) /\ Answer(r, 500)
    /\ UNCHANGED <<accounts, nodes, docs, minted, deletions>>

\* The handlers in progress are never finished nor answered.
Crash ==
    /\ \E r \in Requests : Active(r)
    /\ req' = [r \in Requests |->
                 IF Active(r) THEN Done(0, {}) ELSE req[r]]
    /\ UNCHANGED <<accounts, nodes, docs, minted, deletions>>

Forget(r) ==
    /\ At(r, "done")
    /\ req' = [req EXCEPT ![r] = Idle]
    /\ UNCHANGED <<accounts, nodes, docs, minted, deletions>>

\* UserService.deleteUser removes the user and leaves its refresh tokens.
DeleteAccount(u) ==
    /\ u \in accounts /\ deletions[u] < MaxDeletions
    /\ accounts' = accounts \ {u}
    /\ deletions' = [deletions EXCEPT ![u] = @ + 1]
    /\ UNCHANGED <<nodes, docs, minted, req>>

HandedOut == 1..minted
Handle(r) ==
    \/ FindUser(r) \/ CreateUser(r) \/ CreateNode(r)
    \/ Take(r) \/ Populate(r)
    \/ Mint(r) \/ Sign(r) \/ DeleteTokensOfUser(r)

Next ==
    \/ \E r \in Requests, u \in Users : Login(r, u) \/ ForceLogout(r, u)
    \/ \E r \in Requests, op \in {"refresh", "revoke"}, t, p \in HandedOut :
         Present(r, op, t, p)
    \/ \E r \in Requests : Reject(r) \/ Handle(r) \/ StoreFails(r) \/ Forget(r)
    \/ Crash
    \/ \E u \in Users : DeleteAccount(u)

Spec == Init /\ [][Next]_vars

-----------------------------------------------------------------------------
(* Properties.                                                               *)

\* However many refreshes, revocations and logins race, a session is never
\* continued twice: it has at most one stored token or one refresh that has taken
\* the last token and not yet stored the next, never two of these.
LineNeverForks ==
    /\ \A d, e \in docs : d.line = e.line => d = e
    /\ \A r, q \in Requests :
         Renewing(r) /\ Renewing(q) /\ req[r].line = req[q].line => r = q
    /\ \A r \in Requests, d \in docs : Renewing(r) => req[r].line # d.line

\* First logins of the same user that race make one account and one User node:
\* a second node takes a deletion of the account in between.
OneNodePerSignup == \A u \in Users : nodes[u] <= 1 + deletions[u]

\* The collection and the handlers implement the promise of SessionLines.
HeldOn(l) == {[token |-> d.id, user |-> d.user] : d \in {e \in docs : e.line = l}}
TakenOn(l) == {[token |-> req[r].token, user |-> req[r].user, print |-> req[r].print]
               : r \in {q \in Requests : Renewing(q) /\ req[q].line = l}}
Lines == INSTANCE SessionLines WITH
           used <- 1..minted,
           held <- [l \in Tokens |-> HeldOn(l)],
           taken <- [l \in Tokens |-> TakenOn(l)]
LinesSpec == Lines!Spec

\* What the refinement rests on: tokens and lines in use were handed out, a call
\* past the comparison presented the fingerprint of its token, and a session has
\* one continuation; each signup makes at most one node.
DocsHandedOut ==
    /\ \A d \in docs : d.id <= minted /\ d.line <= minted
    /\ \A d, e \in docs : d.id = e.id => d = e
Supported(c) ==
    /\ c.pc \in {"find", "create", "node"} => c.op = "login"
    /\ c.pc \in {"find", "create", "node", "mint", "sign", "expel"} => c.user \in Users
    /\ c.pc = "take" => /\ c.op \in {"refresh", "revoke"}
                       /\ c.token \in HandedOut /\ c.print \in HandedOut
    /\ c.pc = "populate" => c.op \in {"refresh", "revoke"}
    /\ c.pc = "mint" => c.op = "login" \/ (c.op = "refresh" /\ c.print = c.token)
    /\ c.pc \in {"populate", "mint"} /\ c.op = "refresh"
         => /\ c.line \in HandedOut /\ c.token \in HandedOut
            /\ c.print \in HandedOut /\ c.user \in Users
CallsSupported == \A r \in Requests : Supported(req[r])
Making(u) == {r \in Requests : At(r, "node") /\ req[r].user = u}
NodesAccounted ==
    \A u \in Users :
      nodes[u] + Cardinality(Making(u)) <= deletions[u] + (IF u \in accounts THEN 1 ELSE 0)
Inductive == DocsHandedOut /\ CallsSupported /\ LineNeverForks /\ NodesAccounted

\* The contract (docs/contracts/v1/auth.yaml) says force_logout invalidates all of
\* a user's refresh tokens: no session that the user had when it answered goes on.
ForceLogoutIsFinal ==
    \A r \in Requests, d \in docs : At(r, "done") => d.line \notin req[r].ended
=============================================================================
