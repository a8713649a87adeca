---------------------------- MODULE Browser_proofs ----------------------------
(***************************************************************************)
(* Proofs about Browser: its type invariant, and that its properties hold  *)
(* for any number of tabs, tokens and requests under way.  Each step is    *)
(* looked at three times, as the parts of Inductive are: what it does to   *)
(* the ways a tab renews, to the lines of tokens, and to a tidy browser.   *)
(***************************************************************************)
EXTENDS Browser, FiniteSetTheorems, TLAPS

Opt == Tokens \cup {None}

\* None is neither a token nor a tab.
LEMMA NoneApart == None \notin Tokens /\ None \notin Tabs
  BY ConstantsAssumption

-----------------------------------------------------------------------------
(* Records.                                                                  *)

LEMMA TabFields ==
    ASSUME NEW T \in Tab
    PROVE  /\ T.page \in {"closed", "loading", "guard", "open", "hung"}
           /\ T.login \in Opt /\ T.access \in Opt
           /\ T.timer \in BOOLEAN /\ T.waiting \in 0..MaxCalls
  BY DEF Tab, Opt

LEMMA ClosedFields ==
    /\ Closed.page = "closed" /\ Closed.login = None /\ Closed.access = None
    /\ ~Closed.timer /\ Closed.waiting = 0
  BY DEF Closed

\* Pages that begin.
LEMMA LoadingFields ==
    ASSUME NEW k \in Opt
    PROVE  /\ Loading(k) \in Tab /\ Loading(k).page = "loading" /\ Loading(k).login = k
           /\ Loading(k).access = None /\ ~Loading(k).timer /\ Loading(k).waiting = 0
<1>1. 0 \in 0..MaxCalls
  BY ConstantsAssumption
<1> QED
  BY <1>1 DEF Loading, Tab, Opt

LEMMA SetTokensFields ==
    ASSUME NEW T \in Tab, NEW k \in Opt, NEW c, NEW S, S = SetTokens(T, k, c)
    PROVE  /\ S.access = k /\ ~S.timer /\ S.login = T.login
           /\ S.waiting = (IF Accepted(k, c) THEN T.waiting + 1 ELSE T.waiting)
           /\ S.page = (IF T.page = "guard" /\ ~Accepted(k, c) THEN "hung" ELSE T.page)
           /\ T.waiting = 0 => S \in Tab
<1>1. PICK w, p : /\ w = (IF Accepted(k, c) THEN T.waiting + 1 ELSE T.waiting)
                  /\ p = (IF T.page = "guard" /\ ~Accepted(k, c) THEN "hung" ELSE T.page)
                  /\ S = [T EXCEPT !.access = k, !.timer = FALSE, !.waiting = w, !.page = p]
  BY DEF SetTokens
<1>2. S = [page |-> p, login |-> T.login, access |-> k, timer |-> FALSE, waiting |-> w]
  BY <1>1 DEF Tab
<1>3. p \in {"closed", "loading", "guard", "open", "hung"}
  BY <1>1, TabFields
<1>4. T.waiting = 0 => w \in 0..MaxCalls
  BY <1>1, ConstantsAssumption
<1>5. T.login \in Opt
  BY TabFields
<1>6. T.waiting = 0 => S \in Tab
  BY <1>2, <1>3, <1>4, <1>5 DEF Tab, Opt
<1> QED
  BY <1>1, <1>2, <1>6

\* The LoginGuard opens the page, and takes the login if there is one.
LEMMA LoginGuardTab ==
    ASSUME TypeOK, NEW t \in Tabs, NEW T \in Tab, T.waiting = 0, LoginGuard(t, T)
    PROVE  /\ tab' \in [Tabs -> Tab] /\ \A s \in Tabs \ {t} : tab'[s] = tab[s]
           /\ tab'[t].page = "open" /\ tab'[t].login = None
           /\ tab'[t].waiting \in {0, 1}
           /\ T.login = None => /\ tab'[t].timer = T.timer /\ tab'[t].waiting = 0
                                /\ tab'[t].access = T.access /\ stored' = stored
           /\ T.login # None => /\ ~tab'[t].timer /\ tab'[t].access = T.login
                                /\ stored' = T.login
<1>1. CASE T.login = None
  <2> DEFINE S == [T EXCEPT !.page = "open"]
  <2>1. /\ S \in Tab /\ S.page = "open" /\ S.login = None /\ S.waiting = 0
        /\ S.timer = T.timer /\ S.access = T.access
    BY <1>1 DEF Tab
  <2>2. tab' = [tab EXCEPT ![t] = S] /\ stored' = stored
    BY <1>1 DEF LoginGuard
  <2> HIDE DEF S
  <2> QED
    BY <1>1, <2>1, <2>2 DEF TypeOK
<1>2. CASE T.login # None
  <2>1. PICK U : U = [T EXCEPT !.page = "open", !.login = None]
    OBVIOUS
  <2>2. U = [page |-> "open", login |-> None, access |-> T.access, timer |-> T.timer,
             waiting |-> 0]
    BY <2>1 DEF Tab
  <2>3. /\ U \in Tab /\ T.login \in Opt
        /\ U.page = "open" /\ U.login = None /\ U.waiting = 0
    BY <2>2, TabFields, ConstantsAssumption DEF Tab, Opt
  <2>4. PICK k, c, S : k = T.login /\ c = cookie /\ S = SetTokens(U, k, c)
    OBVIOUS
  <2>5. tab' = [tab EXCEPT ![t] = S] /\ stored' = T.login
    BY <1>2, <2>1, <2>4 DEF LoginGuard
  <2>6. U \in Tab /\ k \in Opt
    BY <2>3, <2>4
  <2>7. S.access = k /\ ~S.timer /\ S.login = U.login
    BY <2>4, <2>6, SetTokensFields
  <2>8. /\ S.waiting = (IF Accepted(k, c) THEN U.waiting + 1 ELSE U.waiting)
        /\ U.waiting = 0 => S \in Tab
    BY <2>4, <2>6, SetTokensFields
  <2>9. S.page = (IF U.page = "guard" /\ ~Accepted(k, c) THEN "hung" ELSE U.page)
    BY <2>4, <2>6, SetTokensFields
  <2>10. /\ S.access = T.login /\ ~S.timer /\ S.login = None /\ S.page = "open"
         /\ S.waiting \in {0, 1} /\ S \in Tab
    BY <2>3, <2>4, <2>7, <2>8, <2>9
  <2> QED
    BY <1>2, <2>3, <2>4, <2>5, <2>10 DEF TypeOK
<1> QED
  BY <1>1, <1>2

LEMMA CallFields ==
    ASSUME NEW c \in Call
    PROVE  /\ c.tab \in Tabs \cup {None} /\ c.op \in {"refresh", "revoke"}
           /\ c.token \in Opt /\ c.print \in Opt /\ c.line \in Opt /\ c.next \in Opt
           /\ c.stage \in {"sent", "taken", "granted", "refused"}
  BY DEF Call, Opt

\* What becomes of a request.
LEMMA CallUpdates ==
    ASSUME NEW c \in Call, NEW l \in Opt, NEW n \in Opt,
           NEW g \in {"sent", "taken", "granted", "refused"}
    PROVE  /\ [c EXCEPT !.tab = None] \in Call /\ [c EXCEPT !.stage = g] \in Call
           /\ [c EXCEPT !.stage = g, !.line = l] \in Call
           /\ [c EXCEPT !.stage = g, !.next = n] \in Call
<1>1. [c EXCEPT !.tab = None] \in Call
  BY DEF Call, Opt
<1>2. [c EXCEPT !.stage = g] \in Call
  BY DEF Call, Opt
<1>3. [c EXCEPT !.stage = g, !.line = l] \in Call
  BY DEF Call, Opt
<1>4. [c EXCEPT !.stage = g, !.next = n] \in Call
  BY DEF Call, Opt
<1> QED
  BY <1>1, <1>2, <1>3, <1>4

LEMMA LeaveCalls ==
    ASSUME NEW t, Leave(t), NEW x \in calls'
    PROVE  \E y \in calls : \/ x = [y EXCEPT !.tab = None] /\ y.tab = t
                            \/ x = y /\ y.tab # t
  BY DEF Leave

LEMMA LeaveType ==
    ASSUME TypeOK, NEW t, Leave(t)
    PROVE  calls' \subseteq Call
<1> SUFFICES ASSUME NEW x \in calls' PROVE x \in Call
  OBVIOUS
<1>1. PICK y \in calls : x = [y EXCEPT !.tab = None] \/ x = y
  BY LeaveCalls
<1>2. y \in Call
  BY DEF TypeOK
<1> QED
  BY <1>1, <1>2, NoneApart DEF Call

-----------------------------------------------------------------------------
(* Type correctness.                                                         *)

LEMMA TypeInit == Init => TypeOK
<1> SUFFICES ASSUME Init PROVE TypeOK
  OBVIOUS
<1>1. Closed \in Tab
  BY ConstantsAssumption DEF Closed, Tab
<1> QED
  BY <1>1 DEF Init, TypeOK, Server!Init, Server!Lines

\* A tab that is set to a page of the type, or a request of the type.
LEMMA SetTab ==
    ASSUME TypeOK, NEW t \in Tabs, NEW T \in Tab, tab' = [tab EXCEPT ![t] = T]
    PROVE  tab' \in [Tabs -> Tab] /\ tab'[t] = T /\ \A s \in Tabs \ {t} : tab'[s] = tab[s]
  BY DEF TypeOK

LEMMA TwoFields ==
    ASSUME TypeOK, NEW t \in Tabs, tab[t] \in Tab, NEW w, NEW p
    PROVE  [tab EXCEPT ![t].waiting = w, ![t].page = p]
             = [tab EXCEPT ![t] = [tab[t] EXCEPT !.waiting = w, !.page = p]]
  BY DEF TypeOK, Tab

LEMMA SendType ==
    ASSUME TypeOK, NEW t \in Tabs, NEW op \in {"refresh", "revoke"}, Send(t, op)
    PROVE  calls' \subseteq Call
  BY DEF TypeOK, Send, Call

LEMMA StepType ==
    ASSUME TypeOK, NEW c, NEW d \in Call, Step(c, d)
    PROVE  calls' \subseteq Call
  BY DEF TypeOK, Step

\* The steps of the server keep its types.
LEMMA ServerType ==
    ASSUME TypeOK, NEW l \in Tokens, NEW n \in Tokens, NEW p \in Tokens, NEW L,
           \/ Server!Begin(n, User) \/ Server!Take(l, p) \/ Server!Renew(l, n)
           \/ Server!Revoke(l) \/ Server!Abandon(L)
    PROVE  /\ used' \subseteq Tokens /\ used \subseteq used'
           /\ held' \in [Tokens -> SUBSET [token : Tokens, user : {User}]]
           /\ taken' \in [Tokens -> SUBSET [token : Tokens, user : {User}, print : Tokens]]
<1>1. CASE Server!Begin(n, User)
  BY <1>1 DEF TypeOK, Server!Begin, Server!HandOut
<1>2. CASE Server!Take(l, p)
  BY <1>2 DEF TypeOK, Server!Take
<1>3. CASE Server!Renew(l, n)
  BY <1>3 DEF TypeOK, Server!Renew, Server!HandOut
<1>4. CASE Server!Revoke(l)
  BY <1>4 DEF TypeOK, Server!Revoke
<1>5. CASE Server!Abandon(L)
  BY <1>5 DEF TypeOK, Server!Abandon, Server!Lines
<1> QED
  BY <1>1, <1>2, <1>3, <1>4, <1>5

LEMMA GuardType ==
    ASSUME TypeOK, NEW t \in Tabs, NEW T \in Tab, T.waiting = 0, LoginGuard(t, T)
    PROVE  tab' \in [Tabs -> Tab] /\ stored' \in Opt
<1>1. T.login \in Opt /\ stored \in Opt
  BY TabFields DEF TypeOK, Opt
<1> QED
  BY <1>1, LoginGuardTab

LEMMA TypeStep == TypeOK /\ Inductive /\ [Next]_vars => TypeOK'
<1> SUFFICES ASSUME TypeOK, Inductive, [Next]_vars PROVE TypeOK'
  OBVIOUS
<1>0. /\ \A t \in Tabs : RenewsOneWay(t) /\ tab[t] \in Tab
      /\ \A c \in calls : c \in Call
  BY DEF Inductive, TypeOK
<1>1. ASSUME NEW t \in Tabs, Open(t)
      PROVE  TypeOK'
  <2>1. PICK k \in {url, None} : tab' = [tab EXCEPT ![t] = Loading(k)]
    BY <1>1 DEF Open
  <2>2. Loading(k) \in Tab
    BY LoadingFields DEF TypeOK, Opt
  <2>3. tab' \in [Tabs -> Tab]
    BY <2>1, <2>2, SetTab
  <2>4. tidy' \in BOOLEAN
    BY <1>1 DEF Open
  <2> QED
    BY <1>1, <2>3, <2>4 DEF Open, TypeOK, server
<1>2. ASSUME NEW t \in Tabs, Reload(t)
      PROVE  TypeOK'
  <2>1. Loading(tab[t].login) \in Tab
    BY <1>0, LoadingFields, TabFields
  <2>2. tab' \in [Tabs -> Tab]
    BY <1>2, <2>1, SetTab DEF Reload
  <2>3. calls' \subseteq Call
    BY <1>2, LeaveType DEF Reload
  <2> QED
    BY <1>2, <2>2, <2>3 DEF Reload, TypeOK, server
<1>3. ASSUME NEW t \in Tabs, Close(t)
      PROVE  TypeOK'
  <2>1. Closed \in Tab
    BY ConstantsAssumption DEF Closed, Tab
  <2>2. tab' \in [Tabs -> Tab]
    BY <1>3, <2>1, SetTab DEF Close
  <2>3. calls' \subseteq Call /\ tidy' \in BOOLEAN
    BY <1>3, LeaveType DEF Close
  <2> QED
    BY <1>3, <2>2, <2>3 DEF Close, TypeOK, server
<1>4. ASSUME NEW t \in Tabs, Login(t)
      PROVE  TypeOK'
  <2>1. PICK l \in Tokens : /\ Server!Begin(l, User) /\ cookie' = l /\ url' = l
                            /\ tab' = [tab EXCEPT ![t] = Loading(l)]
    BY <1>4 DEF Login
  <2>2. Loading(l) \in Tab
    BY LoadingFields DEF Opt
  <2>3. tab' \in [Tabs -> Tab]
    BY <2>1, <2>2, SetTab
  <2>4. calls' \subseteq Call
    BY <1>4, LeaveType DEF Login
  <2> QED
    BY <1>4, <2>1, <2>3, <2>4, ServerType DEF Login, TypeOK
<1>5. ASSUME NEW t \in Tabs, Logout(t)
      PROVE  TypeOK'
  BY <1>5, SendType DEF Logout, TypeOK, server
<1>6. ASSUME NEW t \in Tabs, RefreshGuard(t)
      PROVE  TypeOK'
  <2>1. CASE stored = None
    <3>1. tab[t].waiting = 0 /\ LoginGuard(t, tab[t])
      BY <1>0, <1>6, <2>1 DEF RefreshGuard, RenewsOneWay
    <3>2. tab' \in [Tabs -> Tab] /\ stored' \in Opt
      BY <1>0, <3>1, GuardType
    <3> QED
      BY <1>6, <2>1, <3>2 DEF RefreshGuard, TypeOK, server, Opt
  <2>2. CASE stored # None
    <3>1. calls' \subseteq Call
      BY <1>6, <2>2, SendType DEF RefreshGuard
    <3>2. tab' \in [Tabs -> Tab]
      BY <1>6, <2>2 DEF RefreshGuard, TypeOK, Tab
    <3> QED
      BY <1>6, <2>2, <3>1, <3>2 DEF RefreshGuard, TypeOK, server
  <2> QED
    BY <2>1, <2>2
<1>7. ASSUME NEW t \in Tabs, TimerFires(t)
      PROVE  TypeOK'
  <2>1. calls' \subseteq Call
    BY <1>7, SendType DEF TimerFires, TypeOK
  <2>2. tab' \in [Tabs -> Tab]
    BY <1>7 DEF TimerFires, TypeOK, Tab
  <2> QED
    BY <1>7, <2>1, <2>2 DEF TimerFires, TypeOK, server
<1>8. ASSUME NEW t \in Tabs, UserArrives(t)
      PROVE  TypeOK'
  <2>1. PICK T : T = [tab[t] EXCEPT !.waiting = @ - 1, !.timer = TRUE]
    OBVIOUS
  <2>2. tab[t].waiting = 1
    BY <1>0, <1>8, TabFields DEF UserArrives, RenewsOneWay
  <2>3. T \in Tab /\ T.waiting = 0
    <3>1. PICK w : w = tab[t].waiting - 1 /\ T = [tab[t] EXCEPT !.waiting = w, !.timer = TRUE]
      BY <2>1
    <3>2. w = 0 /\ w \in 0..MaxCalls
      BY <2>2, <3>1, ConstantsAssumption
    <3>3. tab[t] \in Tab
      BY <1>0
    <3> QED
      BY <3>1, <3>2, <3>3 DEF Tab
  <2>4. \/ LoginGuard(t, T)
        \/ tab' = [tab EXCEPT ![t] = T] /\ UNCHANGED stored
    BY <1>8, <2>1 DEF UserArrives
  <2>5. tab' \in [Tabs -> Tab] /\ stored' \in Opt
    BY <2>3, <2>4, GuardType, SetTab DEF TypeOK, Opt
  <2> QED
    BY <1>8, <2>5 DEF UserArrives, TypeOK, server, Opt
<1>9. ASSUME NEW t \in Tabs, UserFails(t)
      PROVE  TypeOK'
  <2>1. PICK w, p : /\ w = tab[t].waiting - 1
                    /\ p = (IF tab[t].page = "guard" THEN "hung" ELSE tab[t].page)
                    /\ tab' = [tab EXCEPT ![t].waiting = w, ![t].page = p]
    BY <1>9 DEF UserFails
  <2>2. tab[t].waiting = 1
    BY <1>0, <1>9, TabFields DEF UserFails, RenewsOneWay
  <2>3. w \in 0..MaxCalls /\ p \in {"closed", "loading", "guard", "open", "hung"}
    BY <1>0, <2>1, <2>2, TabFields, ConstantsAssumption
  <2>4. tab' \in [Tabs -> Tab]
    <3>1. PICK T : T = [tab[t] EXCEPT !.waiting = w, !.page = p]
      OBVIOUS
    <3>2. T \in Tab
      BY <1>0, <2>3, <3>1 DEF Tab
    <3>3. tab' = [tab EXCEPT ![t] = T]
      BY <1>0, <2>1, <3>1, TwoFields
    <3> QED
      BY <3>2, <3>3, SetTab
  <2> QED
    BY <1>9, <2>4 DEF UserFails, TypeOK, server
<1>10. ASSUME NEW c \in calls, Take(c) \/ Renew(c) \/ Revoke(c) \/ Refuse(c)
       PROVE  TypeOK'
  <2>1. c \in Call /\ c.print \in Opt /\ c.line \in Opt
    BY <1>0, CallFields
  <2>2. /\ used' \subseteq Tokens /\ used \subseteq used'
        /\ held' \in [Tokens -> SUBSET [token : Tokens, user : {User}]]
        /\ taken' \in [Tokens -> SUBSET [token : Tokens, user : {User}, print : Tokens]]
    <3>1. CASE UNCHANGED server
      BY <3>1 DEF TypeOK, server
    <3>2. CASE \E l \in Tokens : Server!Revoke(l)
      BY <3>2, ServerType
    <3>3. CASE Take(c)
      <4>1. \/ UNCHANGED server
            \/ \E l \in Tokens : c.print # None /\ Server!Take(l, c.print)
        BY <1>10, <3>3 DEF Take
      <4> QED
        BY <2>1, <3>1, <4>1, ServerType DEF Opt
    <3>4. CASE Renew(c)
      <4>1. c.line \in Tokens /\ \E n \in Tokens : Server!Renew(c.line, n)
        BY <1>0, <2>1, <3>4, NoneApart DEF Renew, Inductive, CallsSound, Opt
      <4> QED
        BY <4>1, ServerType
    <3>5. CASE Revoke(c)
      BY <3>1, <3>2, <3>5 DEF Revoke
    <3>6. CASE Refuse(c)
      <4>1. Server!Abandon({c.line})
        BY <3>6 DEF Refuse
      <4> QED
        BY <4>1 DEF TypeOK, Server!Abandon, Server!Lines
    <3> QED
      BY <1>10, <3>3, <3>4, <3>5, <3>6
  <2>3. calls' \subseteq Call
    <3>1. CASE Take(c)
      BY <2>1, <3>1, CallUpdates, StepType DEF Take, Opt
    <3>2. CASE Renew(c)
      BY <2>1, <3>2, CallUpdates, StepType DEF Renew, Opt
    <3>3. CASE Revoke(c)
      BY <2>1, <3>3, CallUpdates, StepType DEF Revoke, Opt
    <3>4. CASE Refuse(c)
      BY <2>1, <3>4, CallUpdates, StepType DEF Refuse, Opt
    <3> QED
      BY <1>10, <3>1, <3>2, <3>3, <3>4
  <2>4. UNCHANGED <<cookie, stored, url, tab, tidy, ended>>
    BY <1>10 DEF Take, Renew, Revoke, Refuse
  <2> QED
    BY <2>2, <2>3, <2>4 DEF TypeOK
<1>11. ASSUME NEW c \in calls, Refreshed(c)
       PROVE  TypeOK'
  <2>1. c \in Call /\ c.tab \in Tabs /\ c.next \in Opt
    BY <1>0, <1>11, CallFields DEF Refreshed
  <2>2. PICK S : /\ S = SetTokens(tab[c.tab], c.next, c.next)
                 /\ tab' = [tab EXCEPT ![c.tab] = S]
    BY <1>11 DEF Refreshed
  <2>3. tab[c.tab].waiting = 0
    BY <1>0, <1>11, <2>1 DEF Refreshed, RenewsOneWay, Refreshing
  <2>4. S \in Tab
    BY <1>0, <2>1, <2>2, <2>3, SetTokensFields
  <2>5. tab' \in [Tabs -> Tab]
    BY <2>1, <2>2, <2>4, SetTab
  <2> QED
    BY <1>11, <2>1, <2>5 DEF Refreshed, TypeOK, server, Opt
<1>12. ASSUME NEW c \in calls, RefreshRefused(c)
       PROVE  TypeOK'
  <2>1. c \in Call /\ c.tab \in Tabs
    BY <1>0, <1>12, CallFields DEF RefreshRefused
  <2>2. tab[c.tab].waiting = 0
    BY <1>0, <1>12, <2>1 DEF RefreshRefused, RenewsOneWay, Refreshing
  <2>3. LoginGuard(c.tab, tab[c.tab]) \/ UNCHANGED <<tab, stored>>
    BY <1>12 DEF RefreshRefused
  <2>4. tab' \in [Tabs -> Tab] /\ stored' \in Opt
    BY <1>0, <2>1, <2>2, <2>3, GuardType DEF TypeOK, Opt
  <2> QED
    BY <1>12, <2>4 DEF RefreshRefused, TypeOK, server, Opt
<1>13. ASSUME NEW c \in calls, LoggedOut(c)
       PROVE  TypeOK'
  <2>1. c \in Call /\ c.tab \in Tabs /\ c.line \in Opt
    BY <1>0, <1>13, CallFields DEF LoggedOut
  <2>2. c.line \in used
    BY <1>13, <2>1 DEF LoggedOut, Inductive, CallsSound, HandedOut, Known
  <2>3. tab' \in [Tabs -> Tab]
    BY <1>13, <2>1 DEF LoggedOut, TypeOK, Tab
  <2> QED
    BY <1>13, <2>2, <2>3 DEF LoggedOut, TypeOK, server
<1>14. ASSUME NEW c \in calls, Disconnected(c)
       PROVE  TypeOK'
  <2>1. c \in Call
    BY <1>0
  <2>2. /\ \A x \in calls' : x \in calls \/ x = [c EXCEPT !.stage = "refused"]
                                          \/ x = [c EXCEPT !.tab = None]
        /\ UNCHANGED <<server, cookie, stored, url, tab, tidy, ended>>
    BY <1>14 DEF Disconnected
  <2>3. calls' \subseteq Call
    BY <1>0, <2>1, <2>2, CallUpdates DEF Opt
  <2> QED
    BY <2>2, <2>3 DEF TypeOK, server
<1>15. CASE UNCHANGED vars
  BY <1>15 DEF TypeOK, vars
<1> QED
  BY <1>1, <1>2, <1>3, <1>4, <1>5, <1>6, <1>7, <1>8, <1>9, <1>10, <1>11, <1>12, <1>13,
     <1>14, <1>15 DEF Next, Page, Visitor, Serve, Reply

-----------------------------------------------------------------------------
(* The ways a tab renews.                                                    *)

WaysSound(t) ==
    /\ RenewsOneWay(t)
    /\ tab[t].page = "guard" => tab[t].waiting > 0 \/ Refreshing(t) # {}

SameRequests(s) ==
    /\ Refreshing(s)' = Refreshing(s)
    /\ \A x \in calls' : x.tab = s => \E y \in calls : y.tab = s

\* A tab with the requests it had.
LEMMA SameTab ==
    ASSUME NEW s \in Tabs, WaysSound(s), tab'[s] = tab[s], SameRequests(s)
    PROVE  WaysSound(s)'
  BY DEF WaysSound, RenewsOneWay, SameRequests

LEMMA LeaveOthers ==
    ASSUME TypeOK, NEW t \in Tabs, NEW s \in Tabs \ {t}, Leave(t)
    PROVE  SameRequests(s)
<1>1. ASSUME NEW x \in calls', x.tab = s
      PROVE  x \in calls
  <2>1. PICK y \in calls : \/ x = [y EXCEPT !.tab = None] /\ y.tab = t
                           \/ x = y /\ y.tab # t
    BY LeaveCalls
  <2>2. y \in Call
    BY DEF TypeOK
  <2>3. [y EXCEPT !.tab = None].tab = None
    BY <2>2 DEF Call
  <2> QED
    BY <1>1, <2>1, <2>3, NoneApart
<1>2. ASSUME NEW y \in Refreshing(s)
      PROVE  y \in calls'
  <2>1. y \in calls /\ y.tab = s /\ y.op = "refresh"
    BY DEF Refreshing
  <2>2. Heard(y)
    BY <2>1, NoneApart DEF Heard
  <2> QED
    BY <2>1, <2>2 DEF Leave
<1> QED
  BY <1>1, <1>2 DEF SameRequests, Refreshing

LEMMA LeftAlone ==
    ASSUME TypeOK, NEW t \in Tabs, Leave(t), NEW x \in calls'
    PROVE  x.tab # t
<1>1. PICK y \in calls : \/ x = [y EXCEPT !.tab = None] /\ y.tab = t
                         \/ x = y /\ y.tab # t
  BY LeaveCalls
<1>2. y \in Call
  BY DEF TypeOK
<1> QED
  BY <1>1, <1>2, NoneApart DEF Call

LEMMA SendOthers ==
    ASSUME NEW t \in Tabs, NEW s \in Tabs, NEW op, Send(t, op), s # t \/ op # "refresh"
    PROVE  /\ Refreshing(s)' = Refreshing(s)
           /\ s # t => SameRequests(s)
  BY DEF Send, Refreshing, SameRequests

LEMMA SendRefresh ==
    ASSUME NEW t \in Tabs, Send(t, "refresh")
    PROVE  /\ Refreshing(t)' # {}
           /\ Refreshing(t) = {} => \A x, z \in Refreshing(t)' : x = z
<1>1. PICK new : new.tab = t /\ new.op = "refresh" /\ calls' = calls \cup {new}
  BY DEF Send
<1> QED
  BY <1>1 DEF Refreshing

\* A request that is one step further is still the only refresh of its tab.
LEMMA SwapCall ==
    ASSUME NEW c \in calls, NEW d, d.tab = c.tab, d.op = c.op,
           \A x \in calls' : x \in calls \ {c} \/ x = d \/ x.tab = None,
           calls \ {c} \subseteq calls',
           c.tab # None /\ c.op = "refresh" => d \in calls',
           UNCHANGED tab, NEW s \in Tabs, WaysSound(s)
    PROVE  WaysSound(s)'
<1>1. ASSUME NEW x \in calls', x.tab = s
      PROVE  x \in calls \ {c} \/ x = d
  BY <1>1, NoneApart
<1>2. \A x \in Refreshing(s)' : x \in Refreshing(s) \ {c} \/ (x = d /\ c \in Refreshing(s))
  BY <1>1 DEF Refreshing
<1>3. \A x, z \in Refreshing(s)' : x = z
  BY <1>2 DEF WaysSound, RenewsOneWay
<1>4. Refreshing(s)' # {} <=> Refreshing(s) # {}
  <2>1. Refreshing(s)' # {} => Refreshing(s) # {}
    BY <1>2
  <2>2. ASSUME NEW y \in Refreshing(s)
        PROVE  Refreshing(s)' # {}
    <3>1. y \in calls /\ y.tab = s /\ y.op = "refresh" /\ s # None
      BY NoneApart DEF Refreshing
    <3>2. CASE y = c
      <4>1. d \in calls' /\ d.tab = s /\ d.op = "refresh"
        BY <3>1, <3>2
      <4> QED
        BY <4>1 DEF Refreshing
    <3>3. CASE y # c
      BY <3>1, <3>3 DEF Refreshing
    <3> QED
      BY <3>2, <3>3
  <2> QED
    BY <2>1, <2>2
<1>5. (\A y \in calls : y.tab # s) => \A x \in calls' : x.tab # s
  BY <1>1
<1> QED
  BY <1>3, <1>4, <1>5 DEF WaysSound, RenewsOneWay

\* An answer is the end of a request.
LEMMA ReplyCalls ==
    ASSUME NEW c \in calls, calls' = calls \ {c}, NEW s \in Tabs, WaysSound(s)
    PROVE  /\ c.tab # s \/ c.op # "refresh" => SameRequests(s)
           /\ c.tab = s /\ c.op = "refresh" => Refreshing(s)' = {}
           /\ \A x, z \in Refreshing(s)' : x = z
  BY DEF SameRequests, Refreshing, WaysSound, RenewsOneWay

\* A page that begins.
LEMMA NewPage ==
    ASSUME NEW t \in Tabs, tab'[t].page \in {"closed", "loading"},
           tab'[t].waiting = 0, ~tab'[t].timer, tab'[t].access = None,
           tab'[t].page = "closed" => tab'[t].login = None,
           \A x \in calls' : x.tab # t
    PROVE  WaysSound(t)'
<1>1. Refreshing(t)' = {}
  BY DEF Refreshing
<1> QED
  BY <1>1 DEF WaysSound, RenewsOneWay

LEMMA WaysStep ==
    ASSUME TypeOK, TypeOK', Inductive, [Next]_vars, \A t \in Tabs : WaysSound(t),
           NEW s \in Tabs
    PROVE  WaysSound(s)'
<1>0. /\ \A t \in Tabs : tab[t] \in Tab
      /\ \A c \in calls : c \in Call
      /\ calls' = calls => SameRequests(s)
  BY DEF TypeOK, SameRequests, Refreshing
<1>1. ASSUME NEW t \in Tabs, Open(t)
      PROVE  WaysSound(s)'
  <2>1. PICK k \in {url, None} : tab' = [tab EXCEPT ![t] = Loading(k)]
    BY <1>1 DEF Open
  <2>2. k \in Opt
    BY DEF TypeOK, Opt
  <2>3. tab'[t] = Loading(k) /\ \A q \in Tabs \ {t} : tab'[q] = tab[q]
    BY <2>1 DEF TypeOK
  <2>4. calls' = calls /\ \A x \in calls : x.tab # t
    BY <1>1 DEF Open, WaysSound, RenewsOneWay
  <2>5. CASE s = t
    BY <2>2, <2>3, <2>4, <2>5, LoadingFields, NewPage
  <2>6. CASE s # t
    BY <1>0, <2>3, <2>4, <2>6, SameTab
  <2> QED
    BY <2>5, <2>6
<1>2. ASSUME NEW t \in Tabs, Reload(t) \/ Close(t) \/ Login(t)
      PROVE  WaysSound(s)'
  <2>1. Leave(t)
    BY <1>2 DEF Reload, Close, Login
  <2>2. PICK T : /\ T = Closed \/ \E k \in Opt : T = Loading(k)
                 /\ tab' = [tab EXCEPT ![t] = T]
    <3>1. CASE Reload(t)
      BY <1>0, <3>1, TabFields DEF Reload
    <3>2. CASE Close(t)
      BY <3>2 DEF Close
    <3>3. CASE Login(t)
      BY <3>3 DEF Login, Opt
    <3> QED
      BY <1>2, <3>1, <3>2, <3>3
  <2>3. tab'[t] = T /\ \A q \in Tabs \ {t} : tab'[q] = tab[q]
    BY <2>2 DEF TypeOK
  <2>4. /\ T.page \in {"closed", "loading"} /\ T.waiting = 0 /\ ~T.timer /\ T.access = None
        /\ T.page = "closed" => T.login = None
    BY <2>2, ClosedFields, LoadingFields
  <2>5. CASE s = t
    BY <2>1, <2>3, <2>4, <2>5, LeftAlone, NewPage
  <2>6. CASE s # t
    BY <2>1, <2>3, <2>6, LeaveOthers, SameTab
  <2> QED
    BY <2>5, <2>6
<1>3. ASSUME NEW t \in Tabs, Logout(t)
      PROVE  WaysSound(s)'
  <2>1. Send(t, "revoke") /\ tab' = tab /\ tab[t].page = "open"
    BY <1>3 DEF Logout
  <2>2. Refreshing(s)' = Refreshing(s) /\ (s # t => SameRequests(s))
    BY <2>1, SendOthers
  <2>3. CASE s = t
    BY <2>1, <2>2, <2>3 DEF WaysSound, RenewsOneWay
  <2>4. CASE s # t
    BY <2>1, <2>2, <2>4, SameTab
  <2> QED
    BY <2>3, <2>4
<1>4. ASSUME NEW t \in Tabs, NEW T \in Tab, T.waiting = 0, LoginGuard(t, T),
             Refreshing(t)' = {},
             s # t => SameRequests(s)
      PROVE  WaysSound(s)'
  <2>1. /\ \A q \in Tabs \ {t} : tab'[q] = tab[q]
        /\ tab'[t].page = "open" /\ tab'[t].login = None /\ tab'[t].waiting \in {0, 1}
        /\ tab'[t].timer => tab'[t].waiting = 0
    BY <1>4, LoginGuardTab
  <2>2. CASE s = t
    BY <1>4, <2>1, <2>2 DEF WaysSound, RenewsOneWay
  <2>3. CASE s # t
    BY <1>4, <2>1, <2>3, SameTab
  <2> QED
    BY <2>2, <2>3
<1>5. ASSUME NEW t \in Tabs, RefreshGuard(t)
      PROVE  WaysSound(s)'
  <2>1. /\ tab[t].page = "loading" /\ tab[t].waiting = 0 /\ ~tab[t].timer
        /\ Refreshing(t) = {}
    BY <1>5 DEF RefreshGuard, WaysSound, RenewsOneWay, Refreshing
  <2>2. CASE stored = None
    <3>1. LoginGuard(t, tab[t]) /\ calls' = calls
      BY <1>5, <2>2 DEF RefreshGuard
    <3>2. Refreshing(t)' = {}
      BY <2>1, <3>1 DEF Refreshing
    <3> QED
      BY <1>0, <1>4, <2>1, <3>1, <3>2
  <2>3. CASE stored # None
    <3>1. Send(t, "refresh") /\ tab' = [tab EXCEPT ![t].page = "guard"]
      BY <1>5, <2>3 DEF RefreshGuard
    <3>2. /\ tab'[t].page = "guard" /\ tab'[t].waiting = 0 /\ ~tab'[t].timer
          /\ \A q \in Tabs \ {t} : tab'[q] = tab[q]
      BY <2>1, <3>1 DEF TypeOK, Tab
    <3>3. CASE s = t
      BY <2>1, <3>1, <3>2, <3>3, SendRefresh DEF WaysSound, RenewsOneWay
    <3>4. CASE s # t
      BY <3>1, <3>2, <3>4, SendOthers, SameTab
    <3> QED
      BY <3>3, <3>4
  <2> QED
    BY <2>2, <2>3
<1>6. ASSUME NEW t \in Tabs, TimerFires(t)
      PROVE  WaysSound(s)'
  <2>1. /\ tab[t].waiting = 0 /\ Refreshing(t) = {}
        /\ tab[t].page \notin {"closed", "loading", "guard"}
    BY <1>6 DEF TimerFires, WaysSound, RenewsOneWay
  <2>2. /\ tab'[t].page = tab[t].page /\ tab'[t].waiting = 0 /\ ~tab'[t].timer
        /\ tab'[t].login = tab[t].login /\ \A q \in Tabs \ {t} : tab'[q] = tab[q]
    BY <1>6, <2>1 DEF TimerFires, TypeOK, Tab
  <2>3. calls' = calls \/ Send(t, "refresh")
    BY <1>6 DEF TimerFires
  <2>4. CASE s = t
    <3>1. \A x, z \in Refreshing(t)' : x = z
      BY <2>1, <2>3, SendRefresh DEF Refreshing
    <3> QED
      BY <2>1, <2>2, <2>4, <3>1 DEF WaysSound, RenewsOneWay
  <2>5. CASE s # t
    BY <1>0, <2>2, <2>3, <2>5, SendOthers, SameTab
  <2> QED
    BY <2>4, <2>5
<1>7. ASSUME NEW t \in Tabs, UserArrives(t)
      PROVE  WaysSound(s)'
  <2>1. PICK T : T = [tab[t] EXCEPT !.waiting = @ - 1, !.timer = TRUE]
    OBVIOUS
  <2>2. /\ tab[t].waiting = 1 /\ Refreshing(t) = {}
        /\ tab[t].page \notin {"closed", "loading"}
    BY <1>0, <1>7, TabFields DEF UserArrives, WaysSound, RenewsOneWay
  <2>3. T \in Tab /\ T.waiting = 0 /\ T.page = tab[t].page /\ T.login = tab[t].login
    <3>1. PICK w : w = tab[t].waiting - 1 /\ T = [tab[t] EXCEPT !.waiting = w, !.timer = TRUE]
      BY <2>1
    <3>2. w = 0 /\ w \in 0..MaxCalls
      BY <2>2, <3>1, ConstantsAssumption
    <3>3. tab[t] \in Tab
      BY <1>0
    <3> QED
      BY <3>1, <3>2, <3>3 DEF Tab
  <2>4. calls' = calls /\ Refreshing(t)' = {}
    BY <1>7, <2>2 DEF UserArrives, Refreshing
  <2>5. CASE LoginGuard(t, T)
    BY <1>0, <1>4, <2>3, <2>4, <2>5
  <2>6. CASE ~LoginGuard(t, T)
    <3>1. T.page # "guard" /\ tab' = [tab EXCEPT ![t] = T]
      BY <1>7, <2>1, <2>6 DEF UserArrives
    <3>2. tab'[t] = T /\ \A q \in Tabs \ {t} : tab'[q] = tab[q]
      BY <2>3, <3>1, SetTab
    <3>3. CASE s = t
      BY <2>2, <2>3, <2>4, <3>1, <3>2, <3>3 DEF WaysSound, RenewsOneWay
    <3>4. CASE s # t
      BY <1>0, <2>4, <3>2, <3>4, SameTab
    <3> QED
      BY <3>3, <3>4
  <2> QED
    BY <2>5, <2>6
<1>8. ASSUME NEW t \in Tabs, UserFails(t)
      PROVE  WaysSound(s)'
  <2>1. PICK w, p : /\ w = tab[t].waiting - 1
                    /\ p = (IF tab[t].page = "guard" THEN "hung" ELSE tab[t].page)
                    /\ tab' = [tab EXCEPT ![t].waiting = w, ![t].page = p]
    BY <1>8 DEF UserFails
  <2>2. /\ tab[t].waiting = 1 /\ Refreshing(t) = {} /\ ~tab[t].timer
        /\ tab[t].page \notin {"closed", "loading"}
    BY <1>0, <1>8, TabFields DEF UserFails, WaysSound, RenewsOneWay
  <2>3. tab' = [tab EXCEPT ![t] = [tab[t] EXCEPT !.waiting = w, !.page = p]]
    BY <1>0, <2>1, TwoFields
  <2>4. /\ tab'[t].waiting = w /\ tab'[t].page = p /\ tab'[t].timer = tab[t].timer
        /\ tab'[t].login = tab[t].login /\ \A q \in Tabs \ {t} : tab'[q] = tab[q]
    BY <1>0, <2>3 DEF TypeOK, Tab
  <2>5. calls' = calls /\ Refreshing(t)' = {}
    BY <1>8, <2>2 DEF UserFails, Refreshing
  <2>6. CASE s = t
    BY <2>1, <2>2, <2>4, <2>5, <2>6 DEF WaysSound, RenewsOneWay
  <2>7. CASE s # t
    BY <1>0, <2>4, <2>5, <2>7, SameTab
  <2> QED
    BY <2>6, <2>7
<1>9. ASSUME NEW c \in calls, NEW d, d.tab = c.tab, d.op = c.op, Step(c, d), UNCHANGED tab,
             c.op = "refresh" /\ c.tab # None => Heard(d)
      PROVE  WaysSound(s)'
  <2>1. /\ \A x \in calls' : x \in calls \ {c} \/ x = d
        /\ calls \ {c} \subseteq calls'
        /\ c.tab # None /\ c.op = "refresh" => d \in calls'
    BY <1>9 DEF Step
  <2> QED
    BY <1>9, <2>1, SwapCall
<1>10. ASSUME NEW c \in calls, Take(c) \/ Renew(c) \/ Revoke(c) \/ Refuse(c) \/ Disconnected(c)
       PROVE  WaysSound(s)'
  <2>1. c \in Call
    BY <1>0
  <2>2. CASE Disconnected(c)
    <3>1. PICK d : d = [c EXCEPT !.stage = "refused"]
      OBVIOUS
    <3>2. PICK e : e = [c EXCEPT !.tab = None]
      OBVIOUS
    <3>3. d.tab = c.tab /\ d.op = c.op /\ e.tab = None
      BY <2>1, <3>1, <3>2 DEF Call
    <3>4. /\ \A x \in calls' : x \in calls \ {c} \/ x = d \/ x = e
          /\ (calls \ {c}) \cup {d} \subseteq calls' /\ UNCHANGED tab
      BY <2>2, <3>1, <3>2 DEF Disconnected
    <3> QED
      BY <3>3, <3>4, SwapCall
  <2>3. CASE ~Disconnected(c)
    <3>1. PICK d : /\ Step(c, d)
                   /\ \/ \E l \in Tokens : d = [c EXCEPT !.stage = "taken", !.line = l]
                      \/ \E n \in Tokens : d = [c EXCEPT !.stage = "granted", !.next = n]
                      \/ d = [c EXCEPT !.stage = "refused"]
                      \/ /\ \E l \in Tokens : d = [c EXCEPT !.stage = "granted", !.line = l]
                         /\ c.op = "revoke"
      BY <1>10, <2>3 DEF Take, Renew, Revoke, Refuse
    <3>2. /\ d.tab = c.tab /\ d.op = c.op
          /\ c.tab # None /\ c.op = "refresh" => Heard(d)
      BY <2>1, <3>1 DEF Call, Heard
    <3>3. UNCHANGED tab
      BY <1>10, <2>3 DEF Take, Renew, Revoke, Refuse
    <3> QED
      BY <1>9, <3>1, <3>2, <3>3
  <2> QED
    BY <2>2, <2>3
<1>11. ASSUME NEW c \in calls, Refreshed(c)
       PROVE  WaysSound(s)'
  <2>1. /\ c \in Call /\ c.tab \in Tabs /\ c.next \in Opt /\ c.op = "refresh"
        /\ calls' = calls \ {c}
    BY <1>0, <1>11, CallFields DEF Refreshed
  <2>2. PICK t, S : /\ t \in Tabs /\ t = c.tab /\ S = SetTokens(tab[t], c.next, c.next)
                    /\ tab' = [tab EXCEPT ![t] = S]
    BY <1>11, <2>1 DEF Refreshed
  <2>3. /\ Refreshing(t) # {} /\ tab[t].waiting = 0
        /\ tab[t].page \notin {"closed", "loading"}
    BY <2>1, <2>2 DEF WaysSound, RenewsOneWay, Refreshing
  <2>4. Refreshing(t)' = {} /\ (s # t => SameRequests(s))
    BY <2>1, <2>2, ReplyCalls
  <2>5. PICK k : k = c.next
    OBVIOUS
  <2>6. tab[t] \in Tab /\ k \in Opt /\ S = SetTokens(tab[t], k, k)
    BY <1>0, <2>1, <2>2, <2>5
  <2>7. /\ ~S.timer /\ S.login = tab[t].login
        /\ S.waiting = (IF Accepted(k, k) THEN tab[t].waiting + 1 ELSE tab[t].waiting)
        /\ S.page = (IF tab[t].page = "guard" /\ ~Accepted(k, k) THEN "hung" ELSE tab[t].page)
        /\ S \in Tab
    BY <2>3, <2>6, SetTokensFields
  <2>8. tab'[t] = S /\ \A q \in Tabs \ {t} : tab'[q] = tab[q]
    BY <2>2, <2>7, SetTab
  <2>9. CASE s = t
    BY <2>3, <2>4, <2>7, <2>8, <2>9 DEF WaysSound, RenewsOneWay
  <2>10. CASE s # t
    BY <2>4, <2>8, <2>10, SameTab
  <2> QED
    BY <2>9, <2>10
<1>12. ASSUME NEW c \in calls, RefreshRefused(c)
       PROVE  WaysSound(s)'
  <2>1. PICK t \in Tabs : /\ t = c.tab /\ c.op = "refresh" /\ calls' = calls \ {c}
                          /\ IF tab[t].page = "guard" THEN LoginGuard(t, tab[t])
                             ELSE UNCHANGED <<tab, stored>>
    BY <1>0, <1>12, CallFields DEF RefreshRefused
  <2>2. tab[t].waiting = 0 /\ ~tab[t].timer /\ tab[t].page \notin {"closed", "loading"}
    BY <2>1 DEF WaysSound, RenewsOneWay, Refreshing
  <2>3. Refreshing(t)' = {} /\ (s # t => SameRequests(s))
    BY <2>1, ReplyCalls
  <2>4. CASE tab[t].page = "guard"
    BY <1>0, <1>4, <2>1, <2>2, <2>3, <2>4
  <2>5. CASE tab[t].page # "guard" /\ s = t
    BY <2>1, <2>2, <2>3, <2>5 DEF WaysSound, RenewsOneWay
  <2>6. CASE tab[t].page # "guard" /\ s # t
    BY <2>1, <2>3, <2>6, SameTab
  <2> QED
    BY <2>4, <2>5, <2>6
<1>13. ASSUME NEW c \in calls, LoggedOut(c)
       PROVE  WaysSound(s)'
  <2>1. PICK t \in Tabs : /\ t = c.tab /\ c.op = "revoke" /\ calls' = calls \ {c}
                          /\ tab' = [tab EXCEPT ![t].access = None]
    BY <1>0, <1>13, CallFields DEF LoggedOut
  <2>2. /\ tab'[t].waiting = tab[t].waiting /\ tab'[t].timer = tab[t].timer
        /\ tab'[t].page = tab[t].page /\ tab'[t].login = tab[t].login
        /\ \A q \in Tabs \ {t} : tab'[q] = tab[q]
    BY <2>1 DEF TypeOK, Tab
  <2>3. SameRequests(s)
    BY <2>1, ReplyCalls
  <2>4. CASE s = t
    BY <2>1, <2>2, <2>3, <2>4 DEF WaysSound, RenewsOneWay, SameRequests
  <2>5. CASE s # t
    BY <2>2, <2>3, <2>5, SameTab
  <2> QED
    BY <2>4, <2>5
<1>14. CASE UNCHANGED vars
  BY <1>0, <1>14, SameTab DEF vars
<1> QED
  BY <1>1, <1>2, <1>3, <1>5, <1>6, <1>7, <1>8, <1>10, <1>11, <1>12, <1>13, <1>14
     DEF Next, Page, Visitor, Serve, Reply

-----------------------------------------------------------------------------
(* The lines of tokens.                                                      *)

\* x is what a step left of the request y: at most its page or its hope is gone.
Origin(x, y) ==
    /\ x.op = y.op /\ x.token = y.token /\ x.print = y.print /\ x.line = y.line
    /\ x.next = y.next /\ x.stage \in {y.stage, "refused"} /\ x.tab \in {y.tab, None}

\* Or a step made it a request that brings no token and ends no line.
Fresh(x) ==
    /\ x.next = None /\ ~Confirmed(x) /\ x.line \in Known
    /\ x.stage \in {"taken", "granted"} => x.line # None
    /\ x.stage = "taken" => x.op = "refresh"
Kept(x) == Fresh(x) \/ \E y \in calls : Origin(x, y)

\* No request learns a token that is on its way, nor is it on its way twice.
TokensKept == \A x \in calls' : x.token = stored \/ \E y \in calls : x.token = y.token
OneWay == \A x, z \in calls' : x.next = z.next /\ x.next # None => x = z
Hidden(n) == n \notin {stored, url} /\ \A t \in Tabs : tab[t].login # n

\* A line only loses, or was free to change.
Free(l) == /\ held[l] # {} \/ taken[l] # {} \/ l \notin used
           /\ \A c \in calls : c.line = l => c.next = None
LineKept(l) == (held'[l] \subseteq held[l] /\ taken'[l] \subseteq taken[l]) \/ Free(l)

LEMMA CallsHanded ==
    ASSUME HandedOut, used \subseteq used', NEW x \in calls', Kept(x), TokensKept
    PROVE  {x.token, x.line, x.next} \subseteq Known'
<1>1. x.token \in Known
  BY DEF HandedOut, TokensKept
<1>2. x.line \in Known /\ x.next \in Known
  BY DEF HandedOut, Kept, Fresh, Origin, Known
<1> QED
  BY <1>1, <1>2 DEF Known

LEMMA OverKept ==
    ASSUME NEW l \in used, Over(l), LineKept(l),
           \A x \in calls' : x.line = l => Kept(x) \/ x.next = None
    PROVE  Over(l)'
<1>1. held'[l] = {} /\ taken'[l] = {}
  BY DEF Over, LineKept, Free
<1>2. ASSUME NEW x \in calls', x.line = l
      PROVE  x.next = None
  BY <1>2 DEF Kept, Fresh, Origin, Over
<1> QED
  BY <1>1, <1>2 DEF Over

LEMMA SecretKept ==
    ASSUME NEW x \in calls', NEW y \in calls, Origin(x, y), y.next # None, Secret(y),
           HandedOut, LineKept(y.line), TokensKept, OneWay, Hidden(x.next)'
    PROVE  Secret(x)'
<1>1. /\ y.op = "refresh" /\ y.stage \in {"granted", "refused"} /\ y.line # None
      /\ taken[y.line] = {} /\ \A h \in held[y.line] : h.token = y.next
      /\ y.next # stored /\ \A z \in calls : z.token # y.next
  BY DEF Secret
<1>2. x.op = "refresh" /\ x.stage \in {"granted", "refused"} /\ x.line = y.line /\ x.next = y.next
  BY <1>1 DEF Origin
<1>3. ~Free(y.line)
  BY <1>1 DEF Free
<1>4. taken'[x.line] = {} /\ \A h \in held'[x.line] : h.token = x.next
  BY <1>1, <1>2, <1>3 DEF LineKept
<1>5. \A d \in calls' : d.token # x.next
  BY <1>1, <1>2 DEF TokensKept
<1>6. \A d \in calls' : d # x => d.next # x.next
  BY <1>2 DEF OneWay
<1>7. x.next \notin {stored', url'} /\ \A t \in Tabs : tab'[t].login # x.next
  BY DEF Hidden
<1> QED
  BY <1>1, <1>2, <1>4, <1>5, <1>6, <1>7 DEF Secret

CallSound(x) ==
    /\ x.stage \in {"taken", "granted"} => x.line # None
    /\ x.stage = "taken" => x.op = "refresh"
    /\ x.next # None => Secret(x)
    /\ Confirmed(x) => Over(x.line)

\* What a step has to show: that a request it does not keep as it was, because it brings
\* a token or ends a line now, is sound.
LEMMA LinesKept ==
    ASSUME TypeOK, TypeOK', Inductive, used \subseteq used', TokensKept, OneWay,
           \A x \in calls' :
             Kept(x) \/ (CallSound(x)' /\ (Over(x.line) => x.next = None)),
           \A l \in Tokens : LineKept(l),
           \A x \in calls' : Kept(x) /\ x.next # None => Hidden(x.next)',
           \A l \in ended' : l \in ended \/ \E c \in calls : Confirmed(c) /\ c.line = l
    PROVE  CallsSound'
<1>0. HandedOut /\ CallsSound /\ LogoutIsFinal /\ \A c \in calls : c \in Call
  BY DEF Inductive, CallsSound, TypeOK
<1>1. ASSUME NEW y \in calls, y.line # None
      PROVE  y.line \in used /\ y.line \in Tokens /\ LineKept(y.line)
  BY <1>0, <1>1 DEF HandedOut, Known, TypeOK
<1>2. ASSUME NEW l \in used, Over(l)
      PROVE  Over(l)'
  BY <1>2, OverKept DEF TypeOK
<1>3. ASSUME NEW x \in calls', Kept(x), x.next # None
      PROVE  Secret(x)'
  <2>1. PICK y \in calls : Origin(x, y)
    BY <1>3 DEF Kept, Fresh
  <2>2. y.next # None /\ Secret(y) /\ y.line # None
    BY <1>0, <1>3, <2>1 DEF CallsSound, Origin, Secret
  <2> QED
    BY <1>0, <1>1, <1>3, <2>1, <2>2, SecretKept
<1>4. ASSUME NEW x \in calls', Kept(x)
      PROVE  /\ x.stage \in {"taken", "granted"} => x.line # None
             /\ x.stage = "taken" => x.op = "refresh"
             /\ Confirmed(x) => Over(x.line)'
  <2>1. CASE Fresh(x)
    BY <2>1 DEF Fresh
  <2>2. ASSUME NEW y \in calls, Origin(x, y)
        PROVE  /\ x.stage \in {"taken", "granted"} => x.line # None
               /\ x.stage = "taken" => x.op = "refresh"
               /\ Confirmed(x) => Over(x.line)'
    <3>1. x.stage \in {"taken", "granted"} => y.stage = x.stage
      BY <2>2 DEF Origin
    <3>2. x.line = y.line /\ x.op = y.op
      BY <2>2 DEF Origin
    <3>3. Confirmed(x) => Confirmed(y) /\ y.line # None
      BY <1>0, <3>1, <3>2 DEF Confirmed, CallsSound
    <3>4. Confirmed(x) => Over(y.line) /\ y.line \in used
      BY <1>0, <1>1, <3>3 DEF CallsSound
    <3> QED
      BY <1>0, <1>2, <3>1, <3>2, <3>4 DEF CallsSound
  <2> QED
    BY <1>4, <2>1, <2>2 DEF Kept
<1>5. ASSUME NEW l \in ended'
      PROVE  Over(l)'
  <2>1. CASE l \in ended
    BY <1>0, <1>2, <2>1 DEF LogoutIsFinal, Over, TypeOK
  <2>2. ASSUME NEW c \in calls, Confirmed(c), c.line = l
        PROVE  Over(l)'
    BY <1>0, <1>1, <1>2, <2>2 DEF CallsSound, Confirmed
  <2> QED
    BY <2>1, <2>2
<1>6. LogoutIsFinal'
  BY <1>5 DEF LogoutIsFinal, Over
<1> QED
  BY <1>3, <1>4, <1>6 DEF CallsSound, CallSound

\* What the browser remembers after a step, it remembered before.
Recalled(k) == k = None \/ k \in {stored, url} \/ \E t \in Tabs : k = tab[t].login

\* What becomes of the requests as a whole.
CallsKept == TokensKept /\ OneWay /\ \A x \in calls' : Kept(x)

LEMMA Itself ==
    ASSUME Inductive, TypeOK, NEW y \in calls
    PROVE  Kept(y) /\ (y.next # None => Secret(y)) /\ y \in Call
<1>1. Origin(y, y)
  BY DEF Origin
<1> QED
  BY <1>1 DEF Kept, Inductive, CallsSound, TypeOK

LEMMA FewerCalls ==
    ASSUME TypeOK, Inductive, calls' \subseteq calls
    PROVE  CallsKept
<1>1. TokensKept
  BY DEF TokensKept
<1>2. OneWay
  BY Itself DEF OneWay, Secret
<1> QED
  BY <1>1, <1>2, Itself DEF CallsKept

LEMMA LeaveKeeps ==
    ASSUME TypeOK, Inductive, NEW t \in Tabs, Leave(t)
    PROVE  CallsKept
<1>1. ASSUME NEW x \in calls'
      PROVE  \E y \in calls : Origin(x, y)
  <2>1. PICK y \in calls : x = [y EXCEPT !.tab = None] \/ x = y
    BY LeaveCalls
  <2>2. y \in Call
    BY DEF TypeOK
  <2> QED
    BY <2>1, <2>2 DEF Origin, Call
<1>2. TokensKept
  BY <1>1 DEF TokensKept, Origin
<1>3. ASSUME NEW x \in calls', NEW z \in calls', x.next = z.next, x.next # None
      PROVE  x = z
  <2>1. PICK y \in calls : \/ x = [y EXCEPT !.tab = None] /\ y.tab = t
                           \/ x = y /\ y.tab # t
    BY LeaveCalls
  <2>2. PICK w \in calls : \/ z = [w EXCEPT !.tab = None] /\ w.tab = t
                           \/ z = w /\ w.tab # t
    BY LeaveCalls
  <2>3. y \in Call /\ w \in Call
    BY DEF TypeOK
  <2>4. x.next = y.next /\ z.next = w.next
    BY <2>1, <2>2, <2>3 DEF Call
  <2>5. y = w
    BY <1>3, <2>4, Itself DEF Secret
  <2> QED
    BY <2>1, <2>2, <2>5
<1> QED
  BY <1>1, <1>2, <1>3 DEF CallsKept, OneWay, Kept

LEMMA SendKeeps ==
    ASSUME TypeOK, Inductive, NEW t, NEW op, Send(t, op)
    PROVE  CallsKept
<1>1. PICK new : /\ new.token = stored /\ new.next = None /\ new.line = None
                 /\ new.stage = "sent" /\ calls' = calls \cup {new}
  BY DEF Send
<1>2. Kept(new)
  BY <1>1 DEF Kept, Fresh, Confirmed, Known
<1>3. TokensKept
  BY <1>1 DEF TokensKept
<1>4. OneWay
  BY <1>1, Itself DEF OneWay, Secret
<1> QED
  BY <1>1, <1>2, <1>3, <1>4, Itself DEF CallsKept

\* A request one step further, which brings no token or a new one.
LEMMA StepKeeps ==
    ASSUME TypeOK, Inductive, NEW c \in calls, NEW d, d.token = c.token,
           \A x \in calls' : x \in calls \/ x = d,
           d.next = None \/ d.next \notin Known
    PROVE  TokensKept /\ OneWay /\ \A x \in calls' : Kept(x) \/ x = d
<1>1. \A x \in calls : x.next \in Known
  BY DEF Inductive, HandedOut
<1>2. OneWay
  BY <1>1, Itself DEF OneWay, Secret
<1> QED
  BY <1>2, Itself DEF TokensKept

\* A step that leaves the server alone.
LEMMA QuietLines ==
    ASSUME TypeOK, TypeOK', Inductive, UNCHANGED server, ended' = ended, CallsKept,
           Recalled(stored'), Recalled(url'), \A t \in Tabs : Recalled(tab'[t].login)
    PROVE  HandedOut' /\ CallsSound'
<1>1. \A k : Recalled(k) => k \in Known
  BY DEF Inductive, HandedOut, Recalled, Known
<1>2. HandedOut'
  BY <1>1, CallsHanded DEF Inductive, HandedOut, CallsKept, server, Known
<1>3. ASSUME NEW x \in calls', x.next # None
      PROVE  Hidden(x.next)'
  <2>1. PICK y \in calls : Origin(x, y)
    BY <1>3 DEF CallsKept, Kept, Fresh
  <2>2. Secret(y) /\ x.next = y.next
    BY <1>3, <2>1, Itself DEF Origin
  <2>3. ~Recalled(x.next)
    BY <1>3, <2>2 DEF Secret, Recalled
  <2> QED
    BY <2>3 DEF Hidden
<1>4. \A l \in Tokens : LineKept(l)
  BY DEF LineKept, server
<1> QED
  BY <1>2, <1>3, <1>4, LinesKept DEF CallsKept, server

\* The LoginGuard stores what the page brought.
LEMMA GuardRecalls ==
    ASSUME TypeOK, NEW t \in Tabs, NEW T \in Tab, T.waiting = 0, T.login = tab[t].login,
           LoginGuard(t, T)
    PROVE  Recalled(stored') /\ \A s \in Tabs : Recalled(tab'[s].login)
  BY LoginGuardTab DEF Recalled

LEMMA LinesStep ==
    ASSUME TypeOK, TypeOK', Inductive, [Next]_vars
    PROVE  HandedOut' /\ CallsSound'
<1>0. /\ \A t \in Tabs : tab[t] \in Tab /\ RenewsOneWay(t) /\ Recalled(tab[t].login)
      /\ \A c \in calls : c \in Call
      /\ HandedOut /\ Recalled(stored) /\ Recalled(url) /\ Recalled(None)
  BY DEF TypeOK, Inductive, Recalled
<1>1. ASSUME NEW t \in Tabs, Open(t)
      PROVE  HandedOut' /\ CallsSound'
  <2>1. PICK k \in {url, None} : tab' = [tab EXCEPT ![t] = Loading(k)]
    BY <1>1 DEF Open
  <2>2. tab'[t].login = k /\ \A q \in Tabs \ {t} : tab'[q] = tab[q]
    BY <2>1, LoadingFields DEF TypeOK, Opt
  <2>3. Recalled(k)
    BY <1>0
  <2>4. CallsKept /\ UNCHANGED <<server, stored, url, ended>>
    BY <1>1, FewerCalls DEF Open
  <2> QED
    BY <1>0, <2>2, <2>3, <2>4, QuietLines
<1>2. ASSUME NEW t \in Tabs, Reload(t) \/ Close(t)
      PROVE  HandedOut' /\ CallsSound'
  <2>1. Leave(t) /\ UNCHANGED <<server, stored, url, ended>>
    BY <1>2 DEF Reload, Close
  <2>2. PICK T : /\ T.login = tab[t].login \/ T.login = None
                 /\ tab' = [tab EXCEPT ![t] = T]
    <3>1. CASE Reload(t)
      <4>1. tab[t].login \in Opt
        BY <1>0, TabFields
      <4> QED
        BY <3>1, <4>1, LoadingFields DEF Reload
    <3>2. CASE Close(t)
      BY <3>2, ClosedFields DEF Close
    <3> QED
      BY <1>2, <3>1, <3>2
  <2>3. \A q \in Tabs : Recalled(tab'[q].login)
    BY <1>0, <2>2 DEF TypeOK
  <2> QED
    BY <1>0, <2>1, <2>3, LeaveKeeps, QuietLines
<1>3. ASSUME NEW t \in Tabs, Login(t)
      PROVE  HandedOut' /\ CallsSound'
  <2>1. PICK l \in Tokens : /\ Server!Begin(l, User) /\ url' = l
                            /\ tab' = [tab EXCEPT ![t] = Loading(l)]
    BY <1>3 DEF Login
  <2>2. l \notin used /\ used' = used \cup {l} /\ l # None
    BY <2>1, NoneApart DEF Server!Begin, Server!HandOut
  <2>3. /\ held' = [held EXCEPT ![l] = {[token |-> l, user |-> User]}] /\ taken' = taken
        /\ stored' = stored /\ ended' = ended /\ CallsKept
    BY <1>3, <2>1, LeaveKeeps DEF Login, Server!Begin
  <2>4. tab'[t].login = l /\ \A q \in Tabs \ {t} : tab'[q] = tab[q]
    BY <2>1, LoadingFields DEF TypeOK, Opt
  <2>5. HandedOut'
    <3>1. /\ stored' \in Known' /\ url' \in Known'
          /\ \A s \in Tabs : tab'[s].login \in Known'
      BY <1>0, <2>1, <2>2, <2>3, <2>4 DEF HandedOut, Known
    <3>2. \A c \in calls' : {c.token, c.line, c.next} \subseteq Known'
      BY <1>0, <2>2, <2>3, CallsHanded DEF CallsKept
    <3>3. ASSUME NEW m \in Tokens
          PROVE  /\ held'[m] # {} \/ taken'[m] # {} => m \in used'
                 /\ held'[m] = {} \/ taken'[m] = {}
                 /\ \A h \in held'[m] : h.token \in used'
      <4>1. CASE m = l
        BY <1>0, <2>2, <2>3, <4>1 DEF HandedOut, TypeOK
      <4>2. CASE m # l
        BY <1>0, <2>2, <2>3, <4>2 DEF HandedOut, TypeOK
      <4> QED
        BY <4>1, <4>2
    <3> QED
      BY <3>1, <3>2, <3>3 DEF HandedOut
  <2>6. ASSUME NEW x \in calls', x.next # None
        PROVE  Hidden(x.next)'
    <3>1. PICK y \in calls : Origin(x, y)
      BY <2>3, <2>6 DEF CallsKept, Kept, Fresh
    <3>2. Secret(y) /\ x.next = y.next /\ x.next \in Known
      BY <1>0, <2>6, <3>1, Itself DEF Origin, HandedOut
    <3>3. x.next # l
      BY <2>2, <2>6, <3>2 DEF Known
    <3> QED
      BY <2>1, <2>3, <2>4, <3>2, <3>3 DEF Hidden, Secret
  <2>7. ASSUME NEW m \in Tokens
        PROVE  LineKept(m)
    <3>1. CASE m = l
      <4>1. \A c \in calls : c.line # l
        BY <1>0, <2>2 DEF HandedOut, Known
      <4> QED
        BY <2>2, <3>1, <4>1 DEF LineKept, Free
    <3>2. CASE m # l
      BY <2>3, <3>2 DEF LineKept, TypeOK
    <3> QED
      BY <3>1, <3>2
  <2> QED
    BY <2>2, <2>3, <2>5, <2>6, <2>7, LinesKept DEF CallsKept
<1>4. ASSUME NEW t \in Tabs, Logout(t) \/ TimerFires(t) \/ UserFails(t)
      PROVE  HandedOut' /\ CallsSound'
  <2>1. /\ calls' = calls \/ \E op : Send(t, op)
        /\ UNCHANGED <<server, stored, url, ended>>
    BY <1>4 DEF Logout, TimerFires, UserFails
  <2>2. CallsKept
    BY <2>1, FewerCalls, SendKeeps
  <2>3. \A q \in Tabs : tab'[q].login = tab[q].login
    <3>1. CASE Logout(t)
      BY <3>1 DEF Logout
    <3>2. CASE TimerFires(t)
      BY <3>2 DEF TimerFires, TypeOK, Tab
    <3>3. CASE UserFails(t)
      <4>1. PICK w, p : tab' = [tab EXCEPT ![t].waiting = w, ![t].page = p]
        BY <3>3 DEF UserFails
      <4>2. tab' = [tab EXCEPT ![t] = [tab[t] EXCEPT !.waiting = w, !.page = p]]
        BY <1>0, <4>1, TwoFields
      <4> QED
        BY <1>0, <4>2 DEF TypeOK, Tab
    <3> QED
      BY <1>4, <3>1, <3>2, <3>3
  <2> QED
    BY <1>0, <2>1, <2>2, <2>3, QuietLines
<1>5. ASSUME NEW t \in Tabs, RefreshGuard(t)
      PROVE  HandedOut' /\ CallsSound'
  <2>1. UNCHANGED <<server, url, ended>> /\ tab[t].waiting = 0
    BY <1>0, <1>5 DEF RefreshGuard, RenewsOneWay
  <2>2. CASE stored = None
    <3>1. LoginGuard(t, tab[t]) /\ calls' = calls
      BY <1>5, <2>2 DEF RefreshGuard
    <3>2. Recalled(stored') /\ \A s \in Tabs : Recalled(tab'[s].login)
      BY <1>0, <2>1, <3>1, GuardRecalls
    <3> QED
      BY <1>0, <2>1, <3>1, <3>2, FewerCalls, QuietLines
  <2>3. CASE stored # None
    <3>1. /\ Send(t, "refresh") /\ tab' = [tab EXCEPT ![t].page = "guard"]
          /\ stored' = stored
      BY <1>5, <2>3 DEF RefreshGuard
    <3>2. \A q \in Tabs : tab'[q].login = tab[q].login
      BY <3>1 DEF TypeOK, Tab
    <3> QED
      BY <1>0, <2>1, <3>1, <3>2, SendKeeps, QuietLines
  <2> QED
    BY <2>2, <2>3
<1>6. ASSUME NEW t \in Tabs, UserArrives(t)
      PROVE  HandedOut' /\ CallsSound'
  <2>1. PICK T : /\ T = [tab[t] EXCEPT !.waiting = @ - 1, !.timer = TRUE]
                 /\ \/ LoginGuard(t, T)
                    \/ tab' = [tab EXCEPT ![t] = T] /\ stored' = stored
    BY <1>6 DEF UserArrives
  <2>2. T \in Tab /\ T.waiting = 0 /\ T.login = tab[t].login
    <3>1. PICK w : w = tab[t].waiting - 1 /\ T = [tab[t] EXCEPT !.waiting = w, !.timer = TRUE]
      BY <2>1
    <3>2. w = 0 /\ w \in 0..MaxCalls
      BY <1>0, <1>6, <3>1, TabFields, ConstantsAssumption DEF UserArrives, RenewsOneWay
    <3>3. tab[t] \in Tab
      BY <1>0
    <3> QED
      BY <3>1, <3>2, <3>3 DEF Tab
  <2>3. Recalled(stored') /\ \A s \in Tabs : Recalled(tab'[s].login)
    <3>1. CASE LoginGuard(t, T)
      BY <2>2, <3>1, GuardRecalls
    <3>2. CASE tab' = [tab EXCEPT ![t] = T] /\ stored' = stored
      BY <1>0, <2>2, <3>2 DEF TypeOK
    <3> QED
      BY <2>1, <3>1, <3>2
  <2>4. calls' = calls /\ UNCHANGED <<server, url, ended>>
    BY <1>6 DEF UserArrives
  <2> QED
    BY <1>0, <2>3, <2>4, FewerCalls, QuietLines
<1>7. ASSUME NEW c \in calls, c.next = None, NEW d, d.token = c.token, d.next = None,
             Kept(d), Step(c, d)
      PROVE  CallsKept
  <2>1. \A x \in calls' : x \in calls \/ x = d
    BY <1>7 DEF Step
  <2> QED
    BY <1>7, <2>1, StepKeeps DEF CallsKept
<1>8. ASSUME NEW c \in calls, c.next = None, Step(c, [c EXCEPT !.stage = "refused"])
      PROVE  CallsKept
  <2>1. PICK d : d = [c EXCEPT !.stage = "refused"]
    OBVIOUS
  <2>2. c \in Call
    BY <1>0
  <2>3. d.next = None /\ d.token = c.token /\ Origin(d, c)
    BY <1>8, <2>1, <2>2 DEF Origin, Call
  <2> QED
    BY <1>7, <1>8, <2>1, <2>3 DEF Kept
<1>9. ASSUME NEW c \in calls, c.stage \in {"sent", "taken"}
      PROVE  c.next = None
  BY <1>9, Itself DEF Secret
<1>10. ASSUME NEW c \in calls, c.stage = "sent", UNCHANGED <<server, stored, url, tab, ended>>,
              Step(c, [c EXCEPT !.stage = "refused"])
       PROVE  HandedOut' /\ CallsSound'
  BY <1>0, <1>8, <1>9, <1>10, QuietLines
<1>11. ASSUME NEW c \in calls, NEW l \in Tokens, NEW h \in held[l], h.token = c.token
       PROVE  l \in used /\ taken[l] = {} /\ \A y \in calls : y.line = l => y.next = None
  <2>1. l \in used /\ taken[l] = {}
    BY <1>0, <1>11 DEF HandedOut
  <2>2. ASSUME NEW y \in calls, y.line = l, y.next # None
        PROVE  FALSE
    BY <1>11, <2>2, Itself DEF Secret
  <2> QED
    BY <2>1, <2>2
<1>12. ASSUME NEW c \in calls, Take(c)
       PROVE  HandedOut' /\ CallsSound'
  <2>1. c.stage = "sent" /\ UNCHANGED <<cookie, stored, url, tab, tidy, ended>> /\ c.next = None
    BY <1>9, <1>12 DEF Take
  <2>2. ASSUME NEW l \in Tokens, NEW h \in held[l], h.token = c.token,
               Server!Take(l, c.print), Step(c, [c EXCEPT !.stage = "taken", !.line = l])
        PROVE  HandedOut' /\ CallsSound'
    <3>1. l \in used /\ taken[l] = {} /\ \A y \in calls : y.line = l => y.next = None
      BY <1>11, <2>2
    <3>2. PICK d : d = [c EXCEPT !.stage = "taken", !.line = l]
      OBVIOUS
    <3>3. /\ d.next = None /\ d.token = c.token /\ d.line = l /\ d.stage = "taken"
          /\ d.op = "refresh"
      BY <1>0, <1>12, <2>1, <3>2 DEF Call, Take
    <3>4. Kept(d)
      BY <3>1, <3>3, NoneApart DEF Kept, Fresh, Confirmed, Known
    <3>5. CallsKept
      BY <1>7, <2>1, <2>2, <3>2, <3>3, <3>4
    <3>6. PICK e : /\ held' = [held EXCEPT ![l] = {}]
                   /\ taken' = [taken EXCEPT ![l] = e]
                   /\ used' = used
      BY <2>2 DEF Server!Take
    <3>7. \A m \in Tokens : LineKept(m)
      BY <2>2, <3>1, <3>6 DEF LineKept, Free, TypeOK
    <3>8. HandedOut'
      <4>1. \A x \in calls' : {x.token, x.line, x.next} \subseteq Known'
        BY <1>0, <3>5, <3>6, CallsHanded DEF CallsKept
      <4>2. ASSUME NEW m \in Tokens
            PROVE  /\ held'[m] # {} \/ taken'[m] # {} => m \in used'
                   /\ held'[m] = {} \/ taken'[m] = {}
                   /\ \A x \in held'[m] : x.token \in used'
        BY <1>0, <3>1, <3>6 DEF HandedOut, TypeOK
      <4> QED
        BY <1>0, <2>1, <3>6, <4>1, <4>2 DEF HandedOut, Known
    <3>9. \A x \in calls' : x.next # None => Hidden(x.next)'
      <4>1. ASSUME NEW x \in calls', x.next # None
            PROVE  x \in calls
        BY <2>2, <3>2, <3>3, <4>1 DEF Step
      <4> QED
        BY <2>1, <4>1, Itself DEF Hidden, Secret
    <3> QED
      BY <2>1, <3>5, <3>6, <3>7, <3>8, <3>9, LinesKept DEF CallsKept
  <2> QED
    BY <1>10, <1>12, <2>1, <2>2 DEF Take
<1>13. ASSUME NEW c \in calls, Revoke(c)
       PROVE  HandedOut' /\ CallsSound'
  <2>1. /\ c.stage = "sent" /\ UNCHANGED <<cookie, stored, url, tab, tidy, ended>>
        /\ c.next = None /\ c.op = "revoke"
    BY <1>9, <1>13 DEF Revoke
  <2>2. ASSUME NEW l \in Tokens, NEW h \in held[l], h.token = c.token, Server!Revoke(l),
               NEW d, Step(c, d),
               \/ d = [c EXCEPT !.stage = "granted", !.line = l]
               \/ d = [c EXCEPT !.stage = "refused"]
        PROVE  HandedOut' /\ CallsSound'
    <3>1. l \in used /\ taken[l] = {} /\ \A y \in calls : y.line = l => y.next = None
      BY <1>11, <2>2
    <3>2. /\ d.next = None /\ d.token = c.token /\ d.line \in {l, c.line}
          /\ d.line = l \/ (d.stage = "refused" /\ Origin(d, c))
          /\ d.stage # "taken"
      BY <1>0, <2>1, <2>2 DEF Call, Origin
    <3>3. held' = [held EXCEPT ![l] = {}] /\ taken' = taken /\ used' = used
      BY <2>2 DEF Server!Revoke
    <3>4. \A x \in calls' : x \in calls \/ x = d
      BY <2>2 DEF Step
    <3>5. TokensKept /\ OneWay /\ \A x \in calls' : Kept(x) \/ x = d
      BY <3>2, <3>4, StepKeeps
    <3>6. Over(l)'
      BY <3>1, <3>2, <3>3, <3>4 DEF Over, TypeOK
    <3>7. Kept(d) \/ (CallSound(d)' /\ (Over(d.line) => d.next = None))
      <4>1. CASE d.line = l
        BY <3>2, <3>6, <4>1, NoneApart DEF CallSound
      <4>2. CASE d.line # l
        BY <3>2, <4>2 DEF Kept
      <4> QED
        BY <4>1, <4>2
    <3>8. \A m \in Tokens : LineKept(m)
      BY <3>3 DEF LineKept, TypeOK
    <3>9. HandedOut'
      <4>1. \A x \in calls' : {x.token, x.line, x.next} \subseteq Known'
        BY <1>0, <3>1, <3>2, <3>3, <3>4 DEF HandedOut, Known
      <4>2. ASSUME NEW m \in Tokens
            PROVE  /\ held'[m] # {} \/ taken'[m] # {} => m \in used'
                   /\ held'[m] = {} \/ taken'[m] = {}
                   /\ \A x \in held'[m] : x.token \in used'
        BY <1>0, <3>1, <3>3 DEF HandedOut, TypeOK
      <4> QED
        BY <1>0, <2>1, <3>3, <4>1, <4>2 DEF HandedOut, Known
    <3>10. \A x \in calls' : x.next # None => Hidden(x.next)'
      BY <2>1, <3>2, <3>4, Itself DEF Hidden, Secret
    <3> QED
      BY <2>1, <3>3, <3>5, <3>7, <3>8, <3>9, <3>10, LinesKept
  <2> QED
    BY <1>10, <1>13, <2>1, <2>2 DEF Revoke
<1>14. ASSUME NEW c \in calls, Renew(c)
       PROVE  HandedOut' /\ CallsSound'
  <2>1. /\ c.stage = "taken" /\ UNCHANGED <<cookie, stored, url, tab, tidy, ended>>
        /\ c.next = None
    BY <1>9, <1>14 DEF Renew
  <2>2. PICK n \in Tokens : /\ Server!Renew(c.line, n)
                            /\ Step(c, [c EXCEPT !.stage = "granted", !.next = n])
    BY <1>14 DEF Renew
  <2>3. PICK l : l = c.line
    OBVIOUS
  <2>4. l \in Tokens /\ l # None
    BY <1>0, <2>1, <2>3, CallFields DEF Inductive, CallsSound, Opt
  <2>5. PICK u : /\ taken[l] # {} /\ n \notin used /\ used' = used \cup {n}
                 /\ held' = [held EXCEPT ![l] = {[token |-> n, user |-> u]}]
                 /\ taken' = [taken EXCEPT ![l] = {}]
    BY <2>2, <2>3 DEF Server!Renew, Server!HandOut
  <2>6. n # None /\ n \notin Known /\ l \in used
    BY <1>0, <2>4, <2>5, NoneApart DEF Known, HandedOut
  <2>7. PICK d : d = [c EXCEPT !.stage = "granted", !.next = n]
    OBVIOUS
  <2>8. /\ d.next = n /\ d.token = c.token /\ d.line = l /\ d.stage = "granted" /\ d.op = c.op
    BY <1>0, <2>3, <2>7 DEF Call
  <2>9. \A x \in calls' : x \in calls \/ x = d
    BY <2>2, <2>7 DEF Step
  <2>10. TokensKept /\ OneWay /\ \A x \in calls' : Kept(x) \/ x = d
    BY <2>6, <2>8, <2>9, StepKeeps
  <2>11. \A y \in calls : y.line = l => y.next = None
    BY <2>5, Itself DEF Secret
  <2>12. c.op = "refresh"
    BY <2>1 DEF Inductive, CallsSound
  <2>13. Secret(d)'
    <3>1. taken'[l] = {} /\ \A h \in held'[l] : h.token = n
      BY <2>4, <2>5 DEF TypeOK
    <3>2. n \notin {stored', url'} /\ \A t \in Tabs : tab'[t].login # n
      BY <1>0, <2>1, <2>6 DEF HandedOut
    <3>3. \A x \in calls' : x.token # n
      BY <1>0, <2>6, <2>10 DEF TokensKept, HandedOut
    <3>4. \A x \in calls' : x # d => x.next # n
      BY <1>0, <2>6, <2>9 DEF HandedOut
    <3> QED
      BY <2>4, <2>8, <2>12, <3>1, <3>2, <3>3, <3>4 DEF Secret
  <2>14. CallSound(d)' /\ ~Over(d.line)
    BY <2>4, <2>5, <2>8, <2>12, <2>13 DEF CallSound, Confirmed, Over
  <2>15. \A m \in Tokens : LineKept(m)
    BY <2>5, <2>11 DEF LineKept, Free, TypeOK
  <2>16. HandedOut'
    <3>1. \A x \in calls' : {x.token, x.line, x.next} \subseteq Known'
      BY <1>0, <2>5, <2>6, <2>8, <2>9 DEF HandedOut, Known
    <3>2. ASSUME NEW m \in Tokens
          PROVE  /\ held'[m] # {} \/ taken'[m] # {} => m \in used'
                 /\ held'[m] = {} \/ taken'[m] = {}
                 /\ \A x \in held'[m] : x.token \in used'
      <4>1. CASE m = l
        BY <2>5, <2>6, <4>1 DEF TypeOK
      <4>2. CASE m # l
        BY <1>0, <2>5, <4>2 DEF HandedOut, TypeOK
      <4> QED
        BY <4>1, <4>2
    <3> QED
      BY <1>0, <2>1, <2>5, <3>1, <3>2 DEF HandedOut, Known
  <2>17. ASSUME NEW x \in calls', Kept(x), x.next # None
         PROVE  Hidden(x.next)'
    <3>1. PICK y \in calls : x.next = y.next
      BY <2>17 DEF Kept, Fresh, Origin
    <3> QED
      BY <2>1, <2>17, <3>1, Itself DEF Hidden, Secret
  <2> QED
    BY <2>1, <2>5, <2>10, <2>14, <2>15, <2>16, <2>17, LinesKept
<1>15. ASSUME NEW c \in calls, Refuse(c)
       PROVE  HandedOut' /\ CallsSound'
  <2>1. /\ c.stage = "taken" /\ UNCHANGED <<cookie, stored, url, tab, tidy, ended>>
        /\ Step(c, [c EXCEPT !.stage = "refused"]) /\ CallsKept
    BY <1>8, <1>9, <1>15 DEF Refuse
  <2>2. /\ used' = used /\ held' = held
        /\ \A l \in Tokens : taken'[l] = {} \/ taken'[l] = taken[l]
    BY <1>15 DEF Refuse, Server!Abandon, Server!Lines
  <2>3. \A m \in Tokens : LineKept(m)
    BY <2>2 DEF LineKept
  <2>4. HandedOut'
    <3>1. \A x \in calls' : {x.token, x.line, x.next} \subseteq Known'
      BY <1>0, <2>1, <2>2, CallsHanded DEF CallsKept
    <3>2. ASSUME NEW m \in Tokens
          PROVE  /\ held'[m] # {} \/ taken'[m] # {} => m \in used'
                 /\ held'[m] = {} \/ taken'[m] = {}
                 /\ \A x \in held'[m] : x.token \in used'
      BY <1>0, <2>2 DEF HandedOut
    <3> QED
      BY <1>0, <2>1, <2>2, <3>1, <3>2 DEF HandedOut, Known
  <2>5. \A x \in calls' : x.next # None => Hidden(x.next)'
    <3>1. ASSUME NEW x \in calls', x.next # None
          PROVE  \E y \in calls : x.next = y.next
      BY <2>1, <3>1 DEF CallsKept, Kept, Fresh, Origin
    <3> QED
      BY <2>1, <3>1, Itself DEF Hidden, Secret
  <2> QED
    BY <2>1, <2>2, <2>3, <2>4, <2>5, LinesKept DEF CallsKept
<1>16. ASSUME NEW c \in calls, Refreshed(c)
       PROVE  HandedOut' /\ CallsSound'
  <2>1. /\ c \in Call /\ c.tab \in Tabs /\ c.next \in Opt /\ c.next \in Known
        /\ calls' = calls \ {c} /\ stored' = c.next /\ UNCHANGED <<server, url, ended>>
    BY <1>0, <1>16, CallFields DEF Refreshed, HandedOut
  <2>2. \A q \in Tabs : tab'[q].login = tab[q].login
    <3>1. PICK t, k, S : /\ t \in Tabs /\ t = c.tab /\ k = c.next /\ S = SetTokens(tab[t], k, k)
                         /\ tab' = [tab EXCEPT ![t] = S]
      BY <1>16, <2>1 DEF Refreshed
    <3>2. S.login = tab[t].login
      BY <1>0, <2>1, <3>1, SetTokensFields
    <3> QED
      BY <3>1, <3>2 DEF TypeOK
  <2>3. CallsKept
    BY <2>1, FewerCalls
  <2>4. HandedOut'
    <3>1. \A x \in calls' : {x.token, x.line, x.next} \subseteq Known'
      BY <1>0, <2>1 DEF HandedOut, Known, server
    <3> QED
      BY <1>0, <2>1, <2>2, <3>1 DEF HandedOut, Known, server
  <2>5. \A x \in calls' : x.next # None => Hidden(x.next)'
    BY <2>1, <2>2, Itself DEF Hidden, Secret
  <2>6. \A m \in Tokens : LineKept(m)
    BY <2>1 DEF LineKept, server
  <2> QED
    BY <2>1, <2>3, <2>4, <2>5, <2>6, LinesKept DEF CallsKept, server
<1>17. ASSUME NEW c \in calls, RefreshRefused(c)
       PROVE  HandedOut' /\ CallsSound'
  <2>1. PICK t \in Tabs : /\ t = c.tab /\ c.op = "refresh" /\ calls' = calls \ {c}
                          /\ LoginGuard(t, tab[t]) \/ UNCHANGED <<tab, stored>>
                          /\ UNCHANGED <<server, url, ended>>
    BY <1>0, <1>17, CallFields DEF RefreshRefused
  <2>2. tab[t].waiting = 0
    BY <1>0, <2>1 DEF RenewsOneWay, Refreshing
  <2>3. Recalled(stored') /\ \A s \in Tabs : Recalled(tab'[s].login)
    <3>1. CASE LoginGuard(t, tab[t])
      BY <1>0, <2>2, <3>1, GuardRecalls
    <3>2. CASE UNCHANGED <<tab, stored>>
      BY <1>0, <3>2
    <3> QED
      BY <2>1, <3>1, <3>2
  <2> QED
    BY <1>0, <2>1, <2>3, FewerCalls, QuietLines
<1>18. ASSUME NEW c \in calls, LoggedOut(c)
       PROVE  HandedOut' /\ CallsSound'
  <2>1. /\ c.tab \in Tabs /\ calls' = calls \ {c} /\ stored' = None /\ Confirmed(c)
        /\ ended' = ended \cup {c.line} /\ UNCHANGED <<server, url>>
    BY <1>0, <1>18, CallFields DEF LoggedOut, Confirmed
  <2>2. \A q \in Tabs : tab'[q].login = tab[q].login
    BY <1>18, <2>1 DEF LoggedOut, TypeOK, Tab
  <2>3. CallsKept
    BY <2>1, FewerCalls
  <2>4. HandedOut'
    <3>1. \A x \in calls' : {x.token, x.line, x.next} \subseteq Known'
      BY <1>0, <2>1 DEF HandedOut, Known, server
    <3> QED
      BY <1>0, <2>1, <2>2, <3>1 DEF HandedOut, Known, server
  <2>5. \A x \in calls' : x.next # None => Hidden(x.next)'
    BY <2>1, <2>2, Itself DEF Hidden, Secret
  <2>6. \A m \in Tokens : LineKept(m)
    BY <2>1 DEF LineKept, server
  <2> QED
    BY <2>1, <2>3, <2>4, <2>5, <2>6, LinesKept DEF CallsKept, server
<1>19. ASSUME NEW c \in calls, Disconnected(c)
       PROVE  HandedOut' /\ CallsSound'
  <2>1. PICK d, e : d = [c EXCEPT !.stage = "refused"] /\ e = [c EXCEPT !.tab = None]
    OBVIOUS
  <2>2. /\ Origin(d, c) /\ Origin(e, c)
        /\ e.stage = c.stage /\ e.tab = None
    BY <1>0, <2>1 DEF Origin, Call
  <2>3. /\ \A x \in calls' : x \in calls \ {c} \/ x = d \/ (x = e /\ Heard(e))
        /\ UNCHANGED <<server, stored, url, tab, ended>> /\ c.stage # "refused"
    BY <1>19, <2>1 DEF Disconnected
  <2>4. \A x \in calls' : Kept(x) /\ \E y \in calls : x.token = y.token /\ x.next = y.next
    BY <2>2, <2>3, Itself DEF Kept, Origin
  <2>5. TokensKept
    BY <2>4 DEF TokensKept
  <2>6. OneWay
    <3>1. CASE c.next = None
      <4>1. \A x \in calls' : x.next # None => x \in calls
        BY <2>2, <2>3, <3>1 DEF Origin
      <4> QED
        BY <4>1, Itself DEF OneWay, Secret
    <3>2. CASE c.next # None
      <4>1. c.stage = "granted"
        BY <2>3, <3>2, Itself DEF Secret
      <4>2. ~Heard(e)
        BY <2>2, <4>1 DEF Heard
      <4>3. \A x \in calls' : (x \in calls /\ x # c) \/ x = d
        BY <2>3, <4>2
      <4>4. \A x \in calls : x # c => x.next # d.next
        BY <2>2, <3>2, Itself DEF Secret, Origin
      <4> QED
        BY <4>3, <4>4, Itself DEF OneWay, Secret
    <3> QED
      BY <3>1, <3>2
  <2> QED
    BY <1>0, <2>3, <2>4, <2>5, <2>6, QuietLines DEF CallsKept
<1>20. CASE UNCHANGED vars
  BY <1>0, <1>20, FewerCalls, QuietLines DEF vars, server
<1>21. ASSUME NEW t \in Tabs, Page(t) \/ Visitor(t)
       PROVE  HandedOut' /\ CallsSound'
  BY <1>1, <1>2, <1>3, <1>4, <1>5, <1>6, <1>21 DEF Page, Visitor
<1>22. ASSUME NEW c \in calls, Serve(c) \/ Reply(c) \/ Disconnected(c)
       PROVE  HandedOut' /\ CallsSound'
  BY <1>12, <1>13, <1>14, <1>15, <1>16, <1>17, <1>18, <1>19, <1>22 DEF Serve, Reply
<1> QED
  BY <1>20, <1>21, <1>22 DEF Next

-----------------------------------------------------------------------------
(* The tidy browser.                                                         *)

Denied(c) == c.op = "refresh" /\ c.print # c.token /\ c.stage # "granted"
Tidy == tidy /\ TokensMatchCookie /\ \A t \in Tabs : OnePage(t)

LEMMA OnlyPage ==
    ASSUME Inductive, Tidy, NEW t \in Tabs, tab[t].page # "closed", NEW s \in Tabs \ {t}
    PROVE  tab[s].page = "closed" /\ tab[s].login = None /\ tab[s].access = None
  BY DEF Inductive, Tidy, OnePage, RenewsOneWay

\* A step of the one page, or beside it, that touches neither cookie nor storage.
LEMMA QuietTidy ==
    ASSUME Tidy, tidy', UNCHANGED <<cookie, stored>>,
           \A t \in Tabs : /\ tab'[t].page = "closed" <=> tab[t].page = "closed"
                           /\ tab'[t].login = tab[t].login
                           /\ tab'[t].access \in {tab[t].access, None}
                           /\ tab[t].login # None =>
                                \A x \in calls' : x.tab = t => Denied(x),
           Live(stored)' => Live(stored)
    PROVE  Tidy'
<1>1. LoggingIn => LoggingIn'
  BY DEF LoggingIn
<1>2. TokensMatchCookie'
  BY <1>1 DEF Tidy, TokensMatchCookie
<1>3. ASSUME NEW t \in Tabs
      PROVE  OnePage(t)'
  BY DEF Tidy, OnePage, Denied
<1> QED
  BY <1>2, <1>3 DEF Tidy

\* A step after which the one page has no login to take.
LEMMA PageTidy ==
    ASSUME Inductive, Tidy, tidy', NEW t \in Tabs,
           \A s \in Tabs \ {t} : tab'[s] = tab[s] /\ tab[s].page = "closed",
           tab'[t].login = None, tab'[t].access \in {None, cookie'},
           Live(stored)' => cookie' = stored'
    PROVE  Tidy'
<1>1. \A s \in Tabs \ {t} : tab[s].login = None /\ tab[s].access = None
  BY DEF Inductive, RenewsOneWay
<1>2. TokensMatchCookie'
  BY <1>1 DEF TokensMatchCookie
<1>3. ASSUME NEW s \in Tabs
      PROVE  OnePage(s)'
  <2>1. CASE s = t
    BY <2>1 DEF OnePage
  <2>2. CASE s # t
    BY <1>1, <2>2 DEF OnePage
  <2> QED
    BY <2>1, <2>2
<1> QED
  BY <1>2, <1>3 DEF Tidy

LEMMA GuardTidy ==
    ASSUME TypeOK, Inductive, Tidy, tidy', NEW t \in Tabs, tab[t].page # "closed",
           NEW T \in Tab, T.waiting = 0, T.login = tab[t].login, T.access = tab[t].access,
           LoginGuard(t, T), UNCHANGED <<cookie, server>>, calls' \subseteq calls
    PROVE  Tidy'
<1>1. \A s \in Tabs \ {t} : tab'[s] = tab[s] /\ tab[s].page = "closed"
  BY LoginGuardTab, OnlyPage
<1>2. tab'[t].login = None /\ tab'[t].page = "open"
  BY LoginGuardTab
<1>3. CASE T.login = None
  <2>1. tab'[t].access = tab[t].access /\ stored' = stored
    BY <1>3, LoginGuardTab
  <2>2. Live(stored)' => Live(stored)
    BY <2>1 DEF Live, server
  <2>3. \A x \in calls' : x \in calls
    OBVIOUS
  <2>4. ASSUME NEW s \in Tabs
        PROVE  /\ tab'[s].page = "closed" <=> tab[s].page = "closed"
               /\ tab'[s].login = tab[s].login
               /\ tab'[s].access \in {tab[s].access, None}
               /\ tab[s].login # None => \A x \in calls' : x.tab = s => Denied(x)
    BY <1>1, <1>2, <1>3, <2>1, <2>3 DEF Tidy, OnePage, Denied
  <2> QED
    BY <2>1, <2>2, <2>4, QuietTidy
<1>4. CASE T.login # None
  <2>1. tab'[t].access = T.login /\ stored' = T.login /\ T.login = cookie
    BY <1>4, LoginGuardTab DEF Tidy, OnePage
  <2> QED
    BY <1>1, <1>2, <2>1, PageTidy
<1> QED
  BY <1>3, <1>4

\* A page that brings a login sends nothing that is granted.
LEMMA SendTidy ==
    ASSUME Tidy, NEW t \in Tabs, NEW op, Send(t, op),
           tab[t].login # None => op = "refresh",
           NEW s \in Tabs, tab[s].login # None, NEW x \in calls', x.tab = s
    PROVE  Denied(x)
<1>1. CASE x \in calls
  BY <1>1 DEF Tidy, OnePage, Denied
<1>2. CASE x \notin calls
  <2>1. /\ x.tab = t /\ x.op = op /\ x.token = stored /\ x.print = cookie
        /\ x.stage = "sent"
    BY <1>2 DEF Send
  <2>2. s = t /\ tab[t].login = cookie /\ stored # cookie
    BY <2>1 DEF Tidy, OnePage
  <2> QED
    BY <2>1, <2>2 DEF Denied
<1> QED
  BY <1>1, <1>2

LEMMA TidyStep ==
    ASSUME TypeOK, TypeOK', Inductive, [Next]_vars, Tidy, tidy'
    PROVE  Tidy'
<1>0. /\ \A t \in Tabs : tab[t] \in Tab /\ RenewsOneWay(t) /\ OnePage(t)
      /\ \A c \in calls : c \in Call
      /\ HandedOut /\ tidy
  BY DEF TypeOK, Inductive, Tidy
<1>1. ASSUME NEW t \in Tabs, NEW x \in calls, x.tab = t, tab[t].login # None
      PROVE  Denied(x)
  BY <1>0, <1>1 DEF OnePage, Denied
<1>2. ASSUME UNCHANGED server, stored' \in {stored, None}
      PROVE  Live(stored)' => stored' = stored /\ Live(stored)
  BY <1>2, NoneApart DEF Live, server, TypeOK
<1>3. ASSUME NEW t \in Tabs, Open(t)
      PROVE  Tidy'
  <2>1. /\ tab' = [tab EXCEPT ![t] = Loading(None)]
        /\ \A q \in Tabs : tab[q].page = "closed"
        /\ UNCHANGED <<server, cookie, stored>>
    BY <1>3 DEF Open
  <2>2. /\ tab'[t].login = None /\ tab'[t].access = None
        /\ \A q \in Tabs \ {t} : tab'[q] = tab[q]
    BY <2>1, LoadingFields DEF TypeOK, Opt
  <2>3. \A q \in Tabs : tab[q].login = None
    BY <1>0, <2>1 DEF RenewsOneWay
  <2>4. Live(stored)' => cookie' = stored'
    BY <1>2, <2>1, <2>3 DEF Tidy, TokensMatchCookie, LoggingIn
  <2> QED
    BY <2>1, <2>2, <2>4, PageTidy
<1>4. ASSUME NEW t \in Tabs, Reload(t)
      PROVE  Tidy'
  <2>1. /\ tab[t].page # "closed" /\ tab' = [tab EXCEPT ![t] = Loading(tab[t].login)]
        /\ Leave(t) /\ UNCHANGED <<server, cookie, stored>>
    BY <1>4 DEF Reload
  <2>2. tab[t].login \in Opt
    BY <1>0, TabFields
  <2>3. /\ tab'[t].login = tab[t].login /\ tab'[t].access = None /\ tab'[t].page = "loading"
        /\ \A q \in Tabs \ {t} : tab'[q] = tab[q]
    BY <2>1, <2>2, LoadingFields DEF TypeOK
  <2>4. ASSUME NEW q \in Tabs
        PROVE  /\ tab'[q].page = "closed" <=> tab[q].page = "closed"
               /\ tab'[q].login = tab[q].login
               /\ tab'[q].access \in {tab[q].access, None}
               /\ tab[q].login # None => \A x \in calls' : x.tab = q => Denied(x)
    <3>1. CASE q = t
      BY <2>1, <2>3, <3>1, LeftAlone
    <3>2. CASE q # t
      BY <2>1, <2>3, <3>2, OnlyPage
    <3> QED
      BY <3>1, <3>2
  <2>5. Live(stored)' => Live(stored)
    BY <1>2, <2>1
  <2> QED
    BY <2>1, <2>4, <2>5, QuietTidy
<1>5. ASSUME NEW t \in Tabs, Close(t)
      PROVE  Tidy'
  <2>1. /\ tab[t].page # "closed" /\ tab[t].login = None /\ tab' = [tab EXCEPT ![t] = Closed]
        /\ UNCHANGED <<server, cookie, stored>>
    BY <1>5 DEF Close
  <2>2. \A q \in Tabs \ {t} : tab'[q] = tab[q] /\ tab[q].page = "closed" /\ tab[q].login = None
    BY <2>1, OnlyPage DEF TypeOK
  <2>3. tab'[t].login = None /\ tab'[t].access = None
    BY <2>1, ClosedFields DEF TypeOK
  <2>4. Live(stored)' => cookie' = stored'
    BY <1>2, <2>1, <2>2 DEF Tidy, TokensMatchCookie, LoggingIn
  <2> QED
    BY <2>2, <2>3, <2>4, PageTidy
<1>6. ASSUME NEW t \in Tabs, Login(t)
      PROVE  Tidy'
  <2>1. PICK l \in Tokens : /\ Server!Begin(l, User) /\ cookie' = l
                            /\ tab' = [tab EXCEPT ![t] = Loading(l)]
    BY <1>6 DEF Login
  <2>2. /\ l \notin used /\ l # None /\ stored' = stored /\ tab[t].page = "open" /\ Leave(t)
    BY <1>6, <2>1, NoneApart DEF Login, Server!Begin, Server!HandOut
  <2>3. \A q \in Tabs \ {t} : tab'[q] = tab[q] /\ tab[q].page = "closed" /\ tab[q].login = None
    BY <2>1, <2>2, OnlyPage DEF TypeOK
  <2>4. tab'[t].login = l
    BY <2>1, LoadingFields DEF TypeOK, Opt
  <2>5. LoggingIn'
    BY <2>1, <2>2, <2>4 DEF LoggingIn
  <2>6. stored' # cookie'
    BY <1>0, <2>1, <2>2 DEF HandedOut, Known
  <2>7. ASSUME NEW q \in Tabs
        PROVE  OnePage(q)'
    <3>1. CASE q = t
      BY <2>1, <2>2, <2>3, <2>4, <2>6, <3>1, LeftAlone DEF OnePage
    <3>2. CASE q # t
      BY <2>3, <3>2 DEF OnePage
    <3> QED
      BY <3>1, <3>2
  <2> QED
    BY <2>5, <2>7 DEF Tidy, TokensMatchCookie
<1>7. ASSUME NEW t \in Tabs,
             \/ Logout(t) \/ TimerFires(t) \/ UserFails(t)
             \/ RefreshGuard(t) /\ stored # None
      PROVE  Tidy'
  <2>1. UNCHANGED <<server, cookie, stored>>
    BY <1>7 DEF Logout, TimerFires, UserFails, RefreshGuard
  <2>2. \A q \in Tabs : /\ tab'[q].page = "closed" <=> tab[q].page = "closed"
                        /\ tab'[q].login = tab[q].login /\ tab'[q].access = tab[q].access
    <3>1. CASE Logout(t)
      BY <3>1 DEF Logout
    <3>2. CASE TimerFires(t)
      BY <3>2 DEF TimerFires, TypeOK, Tab
    <3>3. CASE UserFails(t)
      <4>1. PICK w, p : /\ p = (IF tab[t].page = "guard" THEN "hung" ELSE tab[t].page)
                        /\ tab' = [tab EXCEPT ![t].waiting = w, ![t].page = p]
        BY <3>3 DEF UserFails
      <4>2. tab' = [tab EXCEPT ![t] = [tab[t] EXCEPT !.waiting = w, !.page = p]]
        BY <1>0, <4>1, TwoFields
      <4> QED
        BY <1>0, <4>1, <4>2 DEF TypeOK, Tab
    <3>4. CASE RefreshGuard(t) /\ stored # None
      <4>1. tab' = [tab EXCEPT ![t].page = "guard"] /\ tab[t].page = "loading"
        BY <3>4 DEF RefreshGuard
      <4> QED
        BY <4>1 DEF TypeOK, Tab
    <3> QED
      BY <1>7, <3>1, <3>2, <3>3, <3>4
  <2>3. \/ calls' = calls
        \/ \E op : Send(t, op) /\ (tab[t].login # None => op = "refresh")
    <3>1. CASE Logout(t)
      BY <1>0, <3>1 DEF Logout, RenewsOneWay
    <3>2. CASE ~Logout(t)
      BY <1>7, <3>2 DEF TimerFires, UserFails, RefreshGuard
    <3> QED
      BY <3>1, <3>2
  <2>4. ASSUME NEW q \in Tabs, tab[q].login # None, NEW x \in calls', x.tab = q
        PROVE  Denied(x)
    BY <1>1, <2>3, <2>4, SendTidy
  <2>5. Live(stored)' => Live(stored)
    BY <1>2, <2>1
  <2> QED
    BY <2>1, <2>2, <2>4, <2>5, QuietTidy
<1>8. ASSUME NEW t \in Tabs, RefreshGuard(t), stored = None
      PROVE  Tidy'
  <2>1. /\ LoginGuard(t, tab[t]) /\ calls' = calls /\ UNCHANGED <<cookie, server>>
        /\ tab[t].page = "loading"
    BY <1>8 DEF RefreshGuard
  <2>2. tab[t].waiting = 0
    BY <1>0, <2>1 DEF RenewsOneWay
  <2> QED
    BY <1>0, <2>1, <2>2, GuardTidy
<1>9. ASSUME NEW t \in Tabs, UserArrives(t)
      PROVE  Tidy'
  <2>1. PICK T : /\ T = [tab[t] EXCEPT !.waiting = @ - 1, !.timer = TRUE]
                 /\ \/ LoginGuard(t, T)
                    \/ tab' = [tab EXCEPT ![t] = T] /\ stored' = stored
    BY <1>9 DEF UserArrives
  <2>2. /\ T \in Tab /\ T.waiting = 0 /\ T.login = tab[t].login /\ T.access = tab[t].access
        /\ T.page = tab[t].page
    <3>1. PICK w : w = tab[t].waiting - 1 /\ T = [tab[t] EXCEPT !.waiting = w, !.timer = TRUE]
      BY <2>1
    <3>2. w = 0 /\ w \in 0..MaxCalls
      BY <1>0, <1>9, <3>1, TabFields, ConstantsAssumption DEF UserArrives, RenewsOneWay
    <3>3. tab[t] \in Tab
      BY <1>0
    <3> QED
      BY <3>1, <3>2, <3>3 DEF Tab
  <2>3. tab[t].page # "closed" /\ calls' = calls /\ UNCHANGED <<cookie, server>>
    BY <1>0, <1>9, TabFields DEF UserArrives, RenewsOneWay
  <2>4. CASE LoginGuard(t, T)
    BY <2>2, <2>3, <2>4, GuardTidy
  <2>5. CASE tab' = [tab EXCEPT ![t] = T] /\ stored' = stored
    <3>1. \A q \in Tabs : /\ tab'[q].page = "closed" <=> tab[q].page = "closed"
                          /\ tab'[q].login = tab[q].login /\ tab'[q].access = tab[q].access
      BY <1>0, <2>2, <2>5 DEF TypeOK
    <3>2. Live(stored)' => Live(stored)
      BY <1>2, <2>3, <2>5
    <3> QED
      BY <1>1, <2>3, <2>5, <3>1, <3>2, QuietTidy
  <2> QED
    BY <2>1, <2>4, <2>5
<1>10. ASSUME NEW c \in calls, Take(c) \/ Renew(c) \/ Revoke(c) \/ Refuse(c) \/ Disconnected(c)
       PROVE  Tidy'
  <2>1. UNCHANGED <<cookie, stored, tab>>
    BY <1>10 DEF Take, Renew, Revoke, Refuse, Disconnected
  <2>2. ASSUME NEW q \in Tabs, tab[q].login # None, NEW x \in calls', x.tab = q
        PROVE  Denied(x)
    <3>1. CASE x \in calls
      BY <1>1, <2>2, <3>1
    <3>2. CASE x \notin calls
      <4>1. \/ \E l \in Tokens : x = [c EXCEPT !.stage = "taken", !.line = l]
            \/ /\ Passes(c)
               /\ \E n \in Tokens : x = [c EXCEPT !.stage = "granted", !.next = n]
            \/ x = [c EXCEPT !.stage = "refused"]
            \/ /\ c.op = "revoke"
               /\ \E l \in Tokens : x = [c EXCEPT !.stage = "granted", !.line = l]
            \/ x = [c EXCEPT !.tab = None]
        BY <1>10, <3>2 DEF Take, Renew, Revoke, Refuse, Disconnected, Step
      <4>2. c \in Call /\ q # None
        BY <1>0, NoneApart
      <4>3. c.tab = q
        BY <2>2, <4>1, <4>2 DEF Call
      <4>4. Denied(c)
        BY <1>1, <2>2, <4>3
      <4> QED
        BY <2>2, <4>1, <4>2, <4>4 DEF Denied, Passes, Call
    <3> QED
      BY <3>1, <3>2
  <2>3. Live(stored)' => Live(stored)
    <3>1. ASSUME NEW l \in Tokens, NEW h \in held'[l], h.token = stored
          PROVE  h \in held[l]
      <4>1. CASE UNCHANGED server
        BY <3>1, <4>1 DEF server
      <4>2. CASE \E m \in Tokens : Server!Revoke(m) \/ Server!Take(m, c.print)
        BY <3>1, <4>2 DEF Server!Revoke, Server!Take, TypeOK
      <4>3. CASE Renew(c)
        <5>1. PICK n, e, m :
                /\ n \in Tokens /\ n \notin used
                /\ held' = [held EXCEPT ![m] = {[token |-> n, user |-> e]}]
          BY <4>3 DEF Renew, Server!Renew, Server!HandOut
        <5>2. n # stored
          BY <1>0, <5>1, NoneApart DEF HandedOut, Known
        <5> QED
          BY <3>1, <5>1, <5>2 DEF TypeOK
      <4>4. CASE Refuse(c)
        BY <3>1, <4>4 DEF Refuse, Server!Abandon
      <4> QED
        BY <1>10, <4>1, <4>2, <4>3, <4>4 DEF Take, Revoke, Disconnected
    <3> QED
      BY <2>1, <3>1 DEF Live
  <2> QED
    BY <2>1, <2>2, <2>3, QuietTidy
<1>11. ASSUME NEW c \in calls, Refreshed(c)
       PROVE  Tidy'
  <2>1. /\ c.tab \in Tabs /\ c.next \in Opt /\ ~Denied(c)
        /\ cookie' = c.next /\ stored' = c.next
    BY <1>0, <1>11, CallFields DEF Refreshed, Denied
  <2>2. PICK t, k, S : /\ t \in Tabs /\ t = c.tab /\ k = c.next /\ S = SetTokens(tab[t], k, k)
                       /\ tab' = [tab EXCEPT ![t] = S]
    BY <1>11, <2>1 DEF Refreshed
  <2>3. tab[t].login = None /\ tab[t].page # "closed"
    BY <1>0, <1>1, <2>1, <2>2 DEF RenewsOneWay
  <2>4. S.login = tab[t].login /\ S.access = k
    BY <1>0, <2>1, <2>2, SetTokensFields
  <2>5. /\ tab'[t] = S
        /\ \A s \in Tabs \ {t} : tab'[s] = tab[s] /\ tab[s].page = "closed"
    BY <2>2, <2>3, OnlyPage DEF TypeOK
  <2> QED
    BY <2>1, <2>2, <2>3, <2>4, <2>5, PageTidy
<1>12. ASSUME NEW c \in calls, RefreshRefused(c)
       PROVE  Tidy'
  <2>1. PICK t \in Tabs : /\ t = c.tab /\ c.op = "refresh" /\ calls' = calls \ {c}
                          /\ LoginGuard(t, tab[t]) \/ UNCHANGED <<tab, stored>>
                          /\ UNCHANGED <<server, cookie>>
    BY <1>0, <1>12, CallFields DEF RefreshRefused
  <2>2. tab[t].waiting = 0 /\ tab[t].page # "closed"
    BY <1>0, <2>1 DEF RenewsOneWay, Refreshing
  <2>3. CASE LoginGuard(t, tab[t])
    BY <1>0, <2>1, <2>2, <2>3, GuardTidy
  <2>4. CASE UNCHANGED <<tab, stored>>
    <3>1. Live(stored)' => Live(stored)
      BY <1>2, <2>1, <2>4
    <3>2. calls' \subseteq calls
      BY <2>1
    <3> QED
      BY <1>1, <2>1, <2>4, <3>1, <3>2, QuietTidy
  <2> QED
    BY <2>1, <2>3, <2>4
<1>13. ASSUME NEW c \in calls, LoggedOut(c)
       PROVE  Tidy'
  <2>1. PICK t \in Tabs : /\ t = c.tab /\ ~Denied(c) /\ stored' = None
                          /\ tab' = [tab EXCEPT ![t].access = None] /\ UNCHANGED server
    BY <1>0, <1>13, CallFields DEF LoggedOut, Denied
  <2>2. tab[t].login = None /\ tab[t].page # "closed"
    BY <1>0, <1>1, <2>1 DEF RenewsOneWay
  <2>3. tab'[t].login = None /\ tab'[t].access = None
    BY <2>1, <2>2 DEF TypeOK, Tab
  <2>4. \A s \in Tabs \ {t} : tab'[s] = tab[s] /\ tab[s].page = "closed"
    BY <2>1, <2>2, OnlyPage DEF TypeOK
  <2>5. ~Live(stored)'
    BY <2>1, NoneApart DEF Live, TypeOK
  <2> QED
    BY <2>3, <2>4, <2>5, PageTidy
<1>14. CASE UNCHANGED vars
  <2>1. Live(stored)' => Live(stored)
    BY <1>14 DEF Live, vars
  <2> QED
    BY <1>1, <1>14, <2>1, QuietTidy DEF vars
<1>15. ASSUME NEW t \in Tabs, Page(t) \/ Visitor(t)
       PROVE  Tidy'
  BY <1>3, <1>4, <1>5, <1>6, <1>7, <1>8, <1>9, <1>15 DEF Page, Visitor
<1>16. ASSUME NEW c \in calls, Serve(c) \/ Reply(c) \/ Disconnected(c)
       PROVE  Tidy'
  BY <1>10, <1>11, <1>12, <1>13, <1>16 DEF Serve, Reply
<1> QED
  BY <1>14, <1>15, <1>16 DEF Next

-----------------------------------------------------------------------------
(* The inductive invariant, and what follows from it.                        *)

LEMMA IndInit == Init => Inductive
<1> SUFFICES ASSUME Init PROVE Inductive
  OBVIOUS
<1>1. /\ \A t \in Tabs : tab[t] = Closed
      /\ calls = {} /\ used = {} /\ ended = {} /\ stored = None /\ url = None
      /\ \A l \in Tokens : held[l] = {} /\ taken[l] = {}
  BY DEF Init, Server!Init, Server!Lines
<1>2. ASSUME NEW t \in Tabs
      PROVE  RenewsOneWay(t) /\ OnePage(t)
  BY <1>1, ClosedFields DEF RenewsOneWay, OnePage, Refreshing
<1>3. HandedOut
  BY <1>1, ClosedFields DEF HandedOut, Known
<1>4. CallsSound
  BY <1>1 DEF CallsSound, LogoutIsFinal
<1>5. GuardIsAnswered
  BY <1>1, ClosedFields DEF GuardIsAnswered
<1>6. TokensMatchCookie
  BY <1>1, ClosedFields, NoneApart DEF TokensMatchCookie, Live
<1> QED
  BY <1>2, <1>3, <1>4, <1>5, <1>6 DEF Inductive

LEMMA IndStep == TypeOK /\ TypeOK' /\ Inductive /\ [Next]_vars => Inductive'
<1> SUFFICES ASSUME TypeOK, TypeOK', Inductive, [Next]_vars PROVE Inductive'
  OBVIOUS
<1>1. \A t \in Tabs : WaysSound(t)
  BY DEF Inductive, WaysSound, GuardIsAnswered
<1>2. \A t \in Tabs : WaysSound(t)'
  BY <1>1, WaysStep
<1>3. HandedOut' /\ CallsSound'
  BY LinesStep
<1>4. tidy' => tidy
  <2>1. ASSUME NEW t \in Tabs, Page(t) \/ Visitor(t)
        PROVE  tidy' => tidy
    BY <2>1 DEF Page, RefreshGuard, TimerFires, UserArrives, UserFails,
                Visitor, Open, Reload, Close, Login, Logout
  <2>2. ASSUME NEW c \in calls, Serve(c) \/ Reply(c) \/ Disconnected(c)
        PROVE  tidy' => tidy
    BY <2>2 DEF Serve, Take, Renew, Revoke, Refuse, Reply, Refreshed, RefreshRefused,
                LoggedOut, Disconnected
  <2> QED
    BY <2>1, <2>2 DEF Next, vars
<1>5. tidy' => Tidy'
  <2>1. tidy => Tidy
    BY DEF Inductive, Tidy
  <2> QED
    BY <1>4, <2>1, TidyStep
<1>6. TokensMatchCookie' /\ \A t \in Tabs : tidy' => OnePage(t)'
  BY <1>5 DEF Tidy, TokensMatchCookie
<1>7. GuardIsAnswered' /\ \A t \in Tabs : RenewsOneWay(t)'
  BY <1>2 DEF WaysSound, GuardIsAnswered
<1> QED
  BY <1>3, <1>6, <1>7 DEF Inductive

LEMMA InductiveCorrect == Spec => [](TypeOK /\ Inductive)
<1>1. Init => TypeOK /\ Inductive
  BY TypeInit, IndInit
<1>2. TypeOK /\ Inductive /\ [Next]_vars => (TypeOK /\ Inductive)'
  BY TypeStep, IndStep
<1> QED
  BY <1>1, <1>2, PTL DEF Spec

\* Cookie, storage, pages and requests keep their types: in particular no page ever
\* awaits more users than it has requests for.
THEOREM TypeCorrect == Spec => []TypeOK
<1>1. TypeOK /\ Inductive => TypeOK
  OBVIOUS
<1> QED
  BY <1>1, InductiveCorrect, PTL

\* A tab never renews its tokens in two ways at once, whatever answers are lost and
\* however logins, timers and reloads interleave (UserService.setTokens).
THEOREM OneRenewalCorrect == Spec => []OneRenewal
<1>1. TypeOK /\ Inductive => OneRenewal
  <2> SUFFICES ASSUME TypeOK, Inductive, NEW t \in Tabs
               PROVE  tab[t].waiting + (IF tab[t].timer THEN 1 ELSE 0)
                      + Cardinality(Refreshing(t)) <= 1
    BY DEF OneRenewal
  <2>1. RenewsOneWay(t) /\ tab[t].waiting \in Nat
    BY TabFields DEF Inductive, TypeOK
  <2>2. CASE Refreshing(t) = {}
    <3>1. Cardinality(Refreshing(t)) = 0
      BY <2>2, FS_EmptySet
    <3> QED
      BY <2>1, <3>1 DEF RenewsOneWay
  <2>3. CASE Refreshing(t) # {}
    <3>1. PICK c : Refreshing(t) = {c}
      BY <2>1, <2>3 DEF RenewsOneWay
    <3>2. Cardinality(Refreshing(t)) = 1
      BY <3>1, FS_Singleton
    <3> QED
      BY <2>1, <2>3, <3>2 DEF RenewsOneWay
  <2> QED
    BY <2>2, <2>3
<1> QED
  BY <1>1, InductiveCorrect, PTL

\* As long as the browser is used tidily, a stored token that still works belongs to
\* the cookie that goes with it.
THEOREM TokensMatchCookieCorrect == Spec => []TokensMatchCookie
<1>1. TypeOK /\ Inductive => TokensMatchCookie
  BY DEF Inductive
<1> QED
  BY <1>1, InductiveCorrect, PTL

\* A session whose logout a page has seen confirmed is over, whatever the other tabs
\* had under way.
THEOREM LogoutIsFinalCorrect == Spec => []LogoutIsFinal
<1>1. TypeOK /\ Inductive => LogoutIsFinal
  BY DEF Inductive, CallsSound
<1> QED
  BY <1>1, InductiveCorrect, PTL

\* A page behind the RefreshGuard is never left to wait for nothing.
THEOREM GuardIsAnsweredCorrect == Spec => []GuardIsAnswered
<1>1. TypeOK /\ Inductive => GuardIsAnswered
  BY DEF Inductive
<1> QED
  BY <1>1, InductiveCorrect, PTL
=============================================================================
