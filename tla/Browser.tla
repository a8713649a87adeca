-------------------------------- MODULE Browser --------------------------------
(***************************************************************************)
(* The sign-in of one browser: its tabs share the stored refresh token     *)
(* (localStorage) and the fingerprint cookie; each tab keeps its access    *)
(* token, its refresh timer and its user in memory.  AuthService,          *)
(* UserService, the RefreshGuard and the LoginGuard of the frontend run    *)
(* against the refresh-token end points, of which this module uses no more *)
(* than the promise of SessionLines, and the two steps of a handler that   *)
(* Sessions has: taking the token, and comparing, revoking or renewing.    *)
(* An access token is named by the refresh token minted with it.           *)
(***************************************************************************)
EXTENDS Integers, FiniteSets

CONSTANTS Tabs, User,
          MaxTokens,         \* bound: refresh tokens ever minted
          MaxCalls,          \* bound: requests under way at a time
          None

Tokens == 1..MaxTokens

ASSUME ConstantsAssumption ==
    /\ MaxTokens \in Nat /\ MaxCalls \in Nat \ {0}
    /\ None \notin Tokens \cup Tabs

VARIABLES used, held, taken, \* the server: see SessionLines
          cookie,            \* the token whose fingerprint the cookie holds
          stored,            \* localStorage: refreshToken
          url,               \* the last address with tokens in the browser's history
          tab, calls,        \* the pages, and their requests under way
          tidy, ended        \* history: see TokensMatchCookie and LogoutIsFinal
server == <<used, held, taken>>
vars == <<used, held, taken, cookie, stored, url, tab, calls, tidy, ended>>

Server == INSTANCE SessionLines WITH Users <- {User}

\* page: "loading" (before the RefreshGuard), "guard" (it awaits the refresh),
\*   "open", or "hung" (it awaits a user that never comes);
\* login: the fragment the LoginGuard will find; access: the token in memory;
\* timer: the refresh timer is armed; waiting: calls of setTokens that await the
\*   user before they arm it.
Closed == [page |-> "closed", login |-> None, access |-> None, timer |-> FALSE,
           waiting |-> 0]
Loading(k) == [page |-> "loading", login |-> k, access |-> None, timer |-> FALSE,
               waiting |-> 0]
Tab == [page : {"closed", "loading", "guard", "open", "hung"},
        login : Tokens \cup {None}, access : Tokens \cup {None},
        timer : BOOLEAN, waiting : 0..MaxCalls]

\* A request; tab = None once nobody waits for its answer.
Call == [tab : Tabs \cup {None}, op : {"refresh", "revoke"},
         token : Tokens \cup {None}, print : Tokens \cup {None},
         line : Tokens \cup {None}, stage : {"sent", "taken", "granted", "refused"},
         next : Tokens \cup {None}]

TypeOK ==
    /\ used \subseteq Tokens
    /\ held \in [Tokens -> SUBSET [token : Tokens, user : {User}]]
    /\ taken \in [Tokens -> SUBSET [token : Tokens, user : {User}, print : Tokens]]
    /\ cookie \in Tokens \cup {None} /\ stored \in Tokens \cup {None}
    /\ url \in Tokens \cup {None} /\ ended \subseteq used
    /\ tab \in [Tabs -> Tab] /\ calls \subseteq Call /\ tidy \in BOOLEAN

Init ==
    /\ Server!Init
    /\ cookie = None /\ stored = None /\ url = None
    /\ tab = [t \in Tabs |-> Closed] /\ calls = {} /\ tidy = TRUE /\ ended = {}

-----------------------------------------------------------------------------
(* What a tab does with tokens.                                              *)

\* The access token carries the hash of the fingerprint it was made with.
Accepted(k, c) == c # None /\ k = c

\* setTokens: the old timer is cleared, the user is asked for.  A user that the
\* server refuses never comes: updateUser has no error handler.
SetTokens(T, k, c) ==
    [T EXCEPT !.access = k, !.timer = FALSE, !.waiting = IF Accepted(k, c) THEN @ + 1 ELSE @,
              !.page = IF @ = "guard" /\ ~Accepted(k, c) THEN "hung" ELSE @]

\* The RefreshGuard lets the navigation go on, and the LoginGuard takes the tokens
\* of the fragment.
LoginGuard(t, T) ==
    IF T.login = None
    THEN /\ tab' = [tab EXCEPT ![t] = [T EXCEPT !.page = "open"]]
         /\ UNCHANGED stored
    ELSE /\ tab' = [tab EXCEPT ![t] = SetTokens([T EXCEPT !.page = "open", !.login = None],
                                                T.login, cookie)]
         /\ stored' = T.login

Send(t, op) ==
    calls' = calls \cup {[tab |-> t, op |-> op, token |-> stored, print |-> cookie,
                          line |-> None, stage |-> "sent", next |-> None]}
MayCall == Cardinality(calls) < MaxCalls

\* What nobody hears of is forgotten: the answer to a page that is left, and the
\* refusal of a logout, which has no error handler.
Heard(c) == IF c.stage = "refused" THEN c.tab # None /\ c.op = "refresh"
            ELSE c.stage = "granted" => c.tab # None

\* The requests of a page that is left go on without it.
Leave(t) ==
    calls' = {c \in {IF d.tab = t THEN [d EXCEPT !.tab = None] ELSE d : d \in calls} : Heard(c)}

-----------------------------------------------------------------------------
(* The user.                                                                 *)

\* A page is opened by its address, or by the address a past login landed on.
Open(t) ==
    /\ tab[t].page = "closed"
    /\ \E k \in {url, None} :
         /\ tab' = [tab EXCEPT ![t] = Loading(k)]
         /\ tidy' = (tidy /\ k = None /\ \A s \in Tabs : tab[s].page = "closed")
    /\ UNCHANGED <<server, cookie, stored, url, calls, ended>>

Reload(t) ==
    /\ tab[t].page \notin {"closed", "loading"}
    /\ tab' = [tab EXCEPT ![t] = Loading(tab[t].login)]
    /\ Leave(t)
    /\ UNCHANGED <<server, cookie, stored, url, tidy, ended>>

Close(t) ==
    /\ tab[t].page # "closed"
    /\ tab' = [tab EXCEPT ![t] = Closed]
    /\ tidy' = (tidy /\ tab[t].login = None)
    /\ Leave(t)
    /\ UNCHANGED <<server, cookie, stored, url, ended>>

\* authorization_code: a session begins, the cookie is set, and the browser is
\* redirected to the address with the tokens.
Login(t) ==
    /\ tab[t].page = "open"
    /\ \E l \in Tokens :
         /\ l = Cardinality(used) + 1
         /\ Server!Begin(l, User)
         /\ cookie' = l /\ url' = l
         /\ tab' = [tab EXCEPT ![t] = Loading(l)]
    /\ Leave(t)
    /\ UNCHANGED <<stored, tidy, ended>>

Logout(t) ==
    /\ tab[t].page = "open" /\ stored # None /\ MayCall
    /\ Send(t, "revoke")
    /\ UNCHANGED <<server, cookie, stored, url, tab, tidy, ended>>

-----------------------------------------------------------------------------
(* The page.                                                                 *)

RefreshGuard(t) ==
    /\ tab[t].page = "loading"
    /\ IF stored = None
       THEN LoginGuard(t, tab[t]) /\ UNCHANGED calls
       ELSE /\ MayCall /\ Send(t, "refresh")
            /\ tab' = [tab EXCEPT ![t].page = "guard"]
            /\ UNCHANGED stored
    /\ UNCHANGED <<server, cookie, url, tidy, ended>>

\* Mutation: an interval instead of a timeout.
TimerRepeats(t) ==
    /\ tab[t].timer
    /\ IF stored = None THEN UNCHANGED calls ELSE MayCall /\ Send(t, "refresh")
    /\ UNCHANGED <<server, cookie, stored, url, tab, tidy, ended>>

TimerFires(t) ==
    /\ tab[t].timer
    /\ tab' = [tab EXCEPT ![t].timer = FALSE]
    /\ IF stored = None THEN UNCHANGED calls ELSE MayCall /\ Send(t, "refresh")
    /\ UNCHANGED <<server, cookie, stored, url, tidy, ended>>

\* GET /user/:id comes back: the timer is armed, the page goes on.
UserArrives(t) ==
    /\ tab[t].waiting > 0
    /\ LET T == [tab[t] EXCEPT !.waiting = @ - 1, !.timer = TRUE] IN
       IF T.page = "guard" THEN LoginGuard(t, T)
       ELSE tab' = [tab EXCEPT ![t] = T] /\ UNCHANGED stored
    /\ UNCHANGED <<server, cookie, url, calls, tidy, ended>>

\* It fails: the promise is never resolved.
UserFails(t) ==
    /\ tab[t].waiting > 0
    /\ tab' = [tab EXCEPT ![t].waiting = @ - 1,
                          ![t].page = IF @ = "guard" THEN "hung" ELSE @]
    /\ UNCHANGED <<server, cookie, stored, url, calls, tidy, ended>>

-----------------------------------------------------------------------------
(* The server.                                                               *)

Step(c, d) == calls' = (calls \ {c}) \cup {x \in {d} : Heard(x)}

Passes(c) == c.print = c.token
NotHeld(c) == c.print = None \/ \A l \in Tokens : \A h \in held[l] : h.token # c.token

\* checkAndDeleteRefreshToken deletes the token that is presented with a cookie.
Take(c) ==
    /\ c.stage = "sent" /\ c.op = "refresh"
    /\ \/ \E l \in Tokens : \E h \in held[l] :
            /\ c.print # None /\ h.token = c.token
            /\ Server!Take(l, c.print)
            /\ Step(c, [c EXCEPT !.stage = "taken", !.line = l])
       \/ NotHeld(c) /\ Step(c, [c EXCEPT !.stage = "refused"]) /\ UNCHANGED server
    /\ UNCHANGED <<cookie, stored, url, tab, tidy, ended>>

\* Mutation: a revocation compares the token and leaves it.
RevokeNothing(c) ==
    /\ c.stage = "sent" /\ c.op = "revoke"
    /\ \/ \E l \in Tokens : \E h \in held[l] :
            /\ c.print # None /\ h.token = c.token
            /\ UNCHANGED server
            /\ \/ Passes(c) /\ Step(c, [c EXCEPT !.stage = "granted", !.line = l])
               \/ Step(c, [c EXCEPT !.stage = "refused"])
       \/ NotHeld(c) /\ Step(c, [c EXCEPT !.stage = "refused"]) /\ UNCHANGED server
    /\ UNCHANGED <<cookie, stored, url, tab, tidy, ended>>

\* A revocation has nothing left to do then but to compare, which may fail.
Revoke(c) ==
    /\ c.stage = "sent" /\ c.op = "revoke"
    /\ \/ \E l \in Tokens : \E h \in held[l] :
            /\ c.print # None /\ h.token = c.token
            /\ Server!Revoke(l)
            /\ \/ Passes(c) /\ Step(c, [c EXCEPT !.stage = "granted", !.line = l])
               \/ Step(c, [c EXCEPT !.stage = "refused"])
       \/ NotHeld(c) /\ Step(c, [c EXCEPT !.stage = "refused"]) /\ UNCHANGED server
    /\ UNCHANGED <<cookie, stored, url, tab, tidy, ended>>

\* A refresh compares the fingerprint, and stores the next token.
Renew(c) ==
    /\ c.stage = "taken" /\ Passes(c)
    /\ \E n \in Tokens :
         /\ n = Cardinality(used) + 1
         /\ Server!Renew(c.line, n)
         /\ Step(c, [c EXCEPT !.stage = "granted", !.next = n])
    /\ UNCHANGED <<cookie, stored, url, tab, tidy, ended>>

\* The fingerprint is another's, the account is deleted (the token is spent all the
\* same), or a store fails.
Refuse(c) ==
    /\ c.stage = "taken"
    /\ Server!Abandon({c.line})
    /\ Step(c, [c EXCEPT !.stage = "refused"])
    /\ UNCHANGED <<cookie, stored, url, tab, tidy, ended>>

-----------------------------------------------------------------------------
(* The answers.                                                              *)

\* Mutation: the request goes without credentials, so that the cookie is not set.
RefreshedWithoutCookie(c) ==
    /\ c.op = "refresh" /\ c.stage = "granted" /\ c.tab # None
    /\ cookie' = cookie /\ stored' = c.next
    /\ tab' = [tab EXCEPT ![c.tab] = SetTokens(@, c.next, c.next)]
    /\ calls' = calls \ {c}
    /\ UNCHANGED <<server, url, tidy, ended>>

\* The answer of a refresh sets the cookie and hands both tokens to setTokens.
Refreshed(c) ==
    /\ c.op = "refresh" /\ c.stage = "granted" /\ c.tab # None
    /\ cookie' = c.next /\ stored' = c.next
    /\ tab' = [tab EXCEPT ![c.tab] = SetTokens(@, c.next, c.next)]
    /\ calls' = calls \ {c}
    /\ UNCHANGED <<server, url, tidy, ended>>

\* Mutation: a refused refresh is not caught in the RefreshGuard.
RefreshRefusedUncaught(c) ==
    /\ c.op = "refresh" /\ c.tab # None /\ c.stage = "refused"
    /\ UNCHANGED <<tab, stored>>
    /\ calls' = calls \ {c}
    /\ UNCHANGED <<server, cookie, url, tidy, ended>>

\* The promise is rejected: the RefreshGuard catches it, the timer does not, and
\* nothing of the session is cleared.
RefreshRefused(c) ==
    /\ c.op = "refresh" /\ c.tab # None /\ c.stage = "refused"
    /\ IF tab[c.tab].page = "guard" THEN LoginGuard(c.tab, tab[c.tab])
       ELSE UNCHANGED <<tab, stored>>
    /\ calls' = calls \ {c}
    /\ UNCHANGED <<server, cookie, url, tidy, ended>>

\* Mutation: the empty text is stored.
LoggedOutEmpty(c) ==
    /\ c.op = "revoke" /\ c.stage = "granted" /\ c.tab # None
    /\ stored' = 0 /\ cookie' \in {cookie, None}
    /\ tab' = [tab EXCEPT ![c.tab].access = None]
    /\ ended' = ended \cup {c.line}
    /\ calls' = calls \ {c}
    /\ UNCHANGED <<server, url, tidy>>

\* 204: clearRefreshToken, no access token.  The timer stays.  Whether
\* clearCookie, without the path of the cookie, clears it is the deployment's.
LoggedOut(c) ==
    /\ c.op = "revoke" /\ c.stage = "granted" /\ c.tab # None
    /\ stored' = None /\ cookie' \in {cookie, None}
    /\ tab' = [tab EXCEPT ![c.tab].access = None]
    /\ ended' = ended \cup {c.line}
    /\ calls' = calls \ {c}
    /\ UNCHANGED <<server, url, tidy>>

\* The connection breaks: the page hears of an error, the server may go on.
Disconnected(c) ==
    /\ c.tab # None /\ c.stage # "refused" /\ c.op = "refresh"
    /\ \E lost \in SUBSET {[c EXCEPT !.tab = None]} :
         /\ lost = {} => c.stage = "sent"
         /\ Cardinality(calls \cup lost) <= MaxCalls
         /\ calls' = (calls \ {c}) \cup {[c EXCEPT !.stage = "refused"]}
                     \cup {x \in lost : Heard(x)}
    /\ UNCHANGED <<server, cookie, stored, url, tab, tidy, ended>>

-----------------------------------------------------------------------------
Page(t) == RefreshGuard(t) \/ TimerFires(t) \/ UserArrives(t) \/ UserFails(t)
Visitor(t) == Open(t) \/ Reload(t) \/ Close(t) \/ Login(t) \/ Logout(t)
Serve(c) == Take(c) \/ Renew(c) \/ Revoke(c) \/ Refuse(c)
Reply(c) == Refreshed(c) \/ RefreshRefused(c) \/ LoggedOut(c)

Next == \/ \E t \in Tabs : Page(t) \/ Visitor(t)
        \/ \E c \in calls : Serve(c) \/ Reply(c) \/ Disconnected(c)

Spec == Init /\ [][Next]_vars

-----------------------------------------------------------------------------
(* Properties.                                                               *)

Refreshing(t) == {c \in calls : c.tab = t /\ c.op = "refresh"}

\* A tab never renews its tokens in two ways at once: it has one armed timer, or
\* one refresh under way, or one setTokens that will arm the timer when the user
\* is there; else two timers would spend each other's refresh tokens.
OneRenewal ==
    \A t \in Tabs :
      tab[t].waiting + (IF tab[t].timer THEN 1 ELSE 0)
      + Cardinality(Refreshing(t)) <= 1

\* As long as one tab is used at a time, and every login is let finish and its
\* address not opened again, a stored refresh token that can still be used, and the
\* access token of the page, are those the cookie belongs to (or a login is about to
\* replace them): the browser does not end its own session by presenting a token
\* with another's fingerprint, nor are its requests refused while the token is valid.
Live(k) == \E l \in Tokens : \E h \in held[l] : h.token = k
LoggingIn == \E t \in Tabs : tab[t].login # None /\ tab[t].login = cookie
TokensMatchCookie ==
    tidy => /\ Live(stored) => cookie = stored \/ LoggingIn
            /\ \A t \in Tabs : tab[t].access \in {None, cookie} \/ LoggingIn

\* Once a page has seen its logout confirmed, that session is over although other
\* tabs refresh beside it: no token of it is stored at the server or being renewed,
\* and no answer that would put one back is under way.
LogoutIsFinal ==
    \A l \in ended : /\ held[l] = {} /\ taken[l] = {}
                     /\ \A c \in calls : c.line = l => c.next = None

\* A page behind the RefreshGuard is never left to wait for nothing: the refresh is
\* under way, or the user it was refreshed for; it hangs for good only when that
\* user does not come.
GuardIsAnswered ==
    \A t \in Tabs :
      tab[t].page = "guard" => tab[t].waiting > 0 \/ Refreshing(t) # {}

-----------------------------------------------------------------------------
(* What the properties rest on.                                              *)

\* The ways a tab renews exclude each other; a page that begins has none, and a page
\* that is open has taken the login it came with.
RenewsOneWay(t) ==
    /\ tab[t].waiting <= 1 /\ (tab[t].timer => tab[t].waiting = 0)
    /\ \A c, d \in Refreshing(t) : c = d
    /\ Refreshing(t) # {} => tab[t].waiting = 0 /\ ~tab[t].timer
    /\ tab[t].page = "guard" => ~tab[t].timer
    /\ tab[t].page \in {"closed", "open"} => tab[t].login = None
    /\ tab[t].page \in {"closed", "loading"} =>
         /\ tab[t].waiting = 0 /\ ~tab[t].timer /\ tab[t].access = None
         /\ \A c \in calls : c.tab # t

\* Whatever anyone holds or remembers was handed out, and a line is never held and
\* taken at once.
Known == used \cup {None}
HandedOut ==
    /\ stored \in Known /\ url \in Known /\ \A t \in Tabs : tab[t].login \in Known
    /\ \A c \in calls : {c.token, c.line, c.next} \subseteq Known
    /\ \A l \in Tokens : /\ held[l] # {} \/ taken[l] # {} => l \in used
                         /\ held[l] = {} \/ taken[l] = {}
                         /\ \A h \in held[l] : h.token \in used

\* A token on its way to a page is the one its line holds, and nobody else has it.
Secret(c) ==
    /\ c.op = "refresh" /\ c.stage \in {"granted", "refused"} /\ c.line # None
    /\ taken[c.line] = {} /\ \A h \in held[c.line] : h.token = c.next
    /\ c.next \notin {stored, url} /\ \A t \in Tabs : tab[t].login # c.next
    /\ \A d \in calls : d.token # c.next /\ (d # c => d.next # c.next)

\* A line is over, for good, from the moment its revocation is granted.
Over(l) == held[l] = {} /\ taken[l] = {} /\ \A c \in calls : c.line = l => c.next = None
Confirmed(c) == c.op = "revoke" /\ c.stage = "granted"

CallsSound ==
    /\ \A c \in calls : /\ c.stage \in {"taken", "granted"} => c.line # None
                        /\ c.stage = "taken" => c.op = "refresh"
                        /\ c.next # None => Secret(c)
                        /\ Confirmed(c) => Over(c.line)
    /\ LogoutIsFinal

\* A tidy browser has one page; while that one brings a login, the stored token is not
\* the one of the login, so that no request of the page is granted.
OnePage(t) ==
    /\ tab[t].page # "closed" => \A s \in Tabs \ {t} : tab[s].page = "closed"
    /\ tab[t].login # None =>
         /\ tab[t].login = cookie /\ stored # cookie
         /\ \A c \in calls : c.tab = t =>
              c.op = "refresh" /\ c.print # c.token /\ c.stage # "granted"

Inductive ==
    /\ \A t \in Tabs : RenewsOneWay(t) /\ (tidy => OnePage(t))
    /\ HandedOut /\ CallsSound
    /\ GuardIsAnswered /\ TokensMatchCookie
=============================================================================
