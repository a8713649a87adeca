------------------------------- MODULE Discovery -------------------------------
(***************************************************************************)
(* How a visitor finds events: the query of EventService, the query of     *)
(* RecommendationService (which asks the graph for the events of similar   *)
(* users and then the documents for those of them that are paid for and to *)
(* come), the overview page that shows the one or the other, and the       *)
(* notices a device is pushed whenever the poll of anyone's app finds a    *)
(* recommendation.                                                         *)
(* The requests and the visitor's clicks interleave with what others do to *)
(* the documents and the graph.  Names, places and dates do not change     *)
(* here: an event is known by its distance, its start and its name's rank. *)
(***************************************************************************)
EXTENDS Naturals, FiniteSets, SequencesExt

CONSTANTS Users, Visitor, Rank,        \* Rank: the order of the ids of the users
          Apps,                        \* bound: the users whose app may poll
          Events, Dist, Start, Name, Public,
          Radii, DefaultRadius,
          Graphs,                      \* the participations there may be at first
          Unpaid,                      \* the events that are not paid for at first
          Sizes,                       \* of the pages that are asked for
          Slots,                       \* bound: the requests under way at a time
          MaxChanges, MaxClicks, MaxPolls, MaxTime   \* bounds

ASSUME ConstantsAssumption ==
    /\ IsFiniteSet(Users) /\ IsFiniteSet(Events) /\ IsFiniteSet(Slots)
    /\ Visitor \in Users /\ Apps \subseteq Users
    /\ Public \subseteq Events /\ DefaultRadius \in Radii
    /\ Radii \subseteq Nat /\ Sizes \subseteq Nat /\ Dist \in [Events -> Nat]
    /\ Start \in [Events -> Nat] /\ Name \in [Events -> Nat]
    /\ Rank \in [Users -> Nat] /\ \A u, v \in Users : Rank[u] = Rank[v] => u = v
    /\ \A g \in Graphs : g \subseteq Users \X Events
    /\ MaxChanges \in Nat /\ MaxClicks \in Nat /\ MaxPolls \in Nat /\ MaxTime \in Nat

VARIABLES now, stored, paid,           \* the documents; a deleted one stays in paid
          edges,                       \* the participations in the graph
          page,                        \* the overview page
          calls,                       \* the requests of the page and of everyone's polls
          subs,                        \* in NotificationService.subscriptions: the entries of
                                       \* the visitor's device
          inbox,                       \* the notices that device was pushed
          changes, clicks, polls,      \* bounds
          calm, entered, causes        \* history: see the properties
world == <<now, stored, paid, edges, changes>>
vars == <<world, page, calls, subs, inbox, clicks, polls, calm, entered, causes>>

DefaultTake == 50
Lists == SeqOf(Events, Cardinality(Events))
Idle == [kind |-> "idle"]
\* joined: history: the events its user joined since the request was made.
Call == [kind : {"events", "recommendation", "poll", "notify"}, user : Users, radius : Radii,
         step : {"position", "sent", "ids", "answered"}, ids : Lists, answer : Lists,
         joined : SUBSET Events]
Page == [recommendation : BOOLEAN, radius : Radii, events : Lists, joined : SUBSET Events]

TypeOK ==
    /\ now \in 0..MaxTime /\ stored \subseteq Events /\ paid \subseteq Events
    /\ edges \subseteq Users \X Events
    /\ page \in Page /\ calls \in [Slots -> {Idle} \cup Call]
    /\ subs \in Nat /\ inbox \in Nat /\ entered \in Nat /\ causes \in 0..MaxPolls
    /\ changes \in 0..MaxChanges /\ clicks \in 0..MaxClicks /\ polls \in 0..MaxPolls
    /\ calm \in BOOLEAN

NewPage == [recommendation |-> FALSE, radius |-> DefaultRadius, events |-> <<>>,
            joined |-> {}]
NewCall(kind, u) == [kind |-> kind, user |-> u, radius |-> DefaultRadius, step |-> "position",
                     ids |-> <<>>, answer |-> <<>>, joined |-> {}]

Init ==
    /\ now = 0 /\ stored = Events /\ paid = Events \ Unpaid /\ edges \in Graphs
    /\ page = NewPage /\ calls = [s \in Slots |-> Idle]
    /\ subs = 0 /\ inbox = 0 /\ changes = 0 /\ clicks = 0 /\ polls = 0
    /\ calm = TRUE /\ entered = 0 /\ causes = 0

-----------------------------------------------------------------------------
(* The queries.                                                              *)

\* The orders of a set that put no element before one that precedes it.
Orders(S, Precedes(_, _)) ==
    {s \in SetToSeqs(S) : \A i, j \in 1..Len(s) : i < j => ~Precedes(s[j], s[i])}

\* What a list holds of a set, in the order of the list: the one list of it.
Before(list, e, f) == \E i, j \in 1..Len(list) : i < j /\ list[i] = e /\ list[j] = f
Kept(list, S) == Orders(ToSet(list) \cap S, LAMBDA e, f : Before(list, e, f))

\* Mutation: the name is left out of the sort.
PrecedesByStart(e, f, near) ==
    \/ near /\ Dist[e] < Dist[f]
    \/ (near => Dist[e] = Dist[f]) /\ Start[e] < Start[f]

\* The sort is by distance, if a place is given, then start, then name; what agrees
\* in all of them comes in any order, which need not be that of the last query.
Precedes(e, f, near) ==
    \/ near /\ Dist[e] < Dist[f]
    \/ /\ near => Dist[e] = Dist[f]
       /\ Start[e] < Start[f] \/ (Start[e] = Start[f] /\ Name[e] < Name[f])

\* $skip, then $limit.
Paged(s, skip, take) == SubSeq(s, skip + 1, IF skip + take < Len(s) THEN skip + take ELSE Len(s))

Matching(radius, from) == {e \in stored \cap paid : Start[e] >= from /\ Dist[e] <= radius}
Found(near, radius, from) ==
    IF near THEN Matching(radius, from) ELSE {e \in stored \cap paid : Start[e] >= from}

Sorted(S, near) == Orders(S, LAMBDA e, f : Precedes(e, f, near))
Listings(near, radius, from) == Sorted(Found(near, radius, from), near)
EventsQuery(near, radius, from, skip, take) ==
    {Paged(s, skip, take) : s \in Listings(near, radius, from)}

\* The Cypher query.  A neighbour shares an event with the user; the more alike of two
\* is the one with the larger quotient of shared events and events of either.
Joined(u) == {e \in Events : <<u, e>> \in edges}
Neighbours(u) == {v \in Users \ {u} : Joined(u) \cap Joined(v) # {}}
Shared(u, v) == Cardinality(Joined(u) \cap Joined(v))
Either(u, v) == Cardinality(Joined(u) \cup Joined(v))

\* Mutation: the least alike come first.
CloserAscending(u, v, w) ==
    \/ Shared(u, v) * Either(u, w) < Shared(u, w) * Either(u, v)
    \/ Shared(u, v) * Either(u, w) = Shared(u, w) * Either(u, v) /\ Rank[v] < Rank[w]

Closer(u, v, w) ==
    \/ Shared(u, v) * Either(u, w) > Shared(u, w) * Either(u, v)
    \/ Shared(u, v) * Either(u, w) = Shared(u, w) * Either(u, v) /\ Rank[v] < Rank[w]

\* The neighbours' events the user has not joined, the closest neighbour's first, each
\* where it occurs first, those of one neighbour in any order.
Possible(u) == (UNION {Joined(v) : v \in Neighbours(u)}) \ Joined(u)
First(u, e) == CHOOSE v \in Neighbours(u) :
                 /\ e \in Joined(v)
                 /\ \A w \in Neighbours(u) : e \in Joined(w) => w = v \/ Closer(u, v, w)
Recommended(u) ==
    Orders(Possible(u), LAMBDA e, f : /\ First(u, e) # First(u, f)
                                      /\ Closer(u, First(u, e), First(u, f)))

\* The aggregation cuts its page by distance; sortEvents brings it into the order of ids.
RecommendationQuery(ids, radius, skip, take) ==
    LET found == {e \in ToSet(ids) : e \in Matching(radius, now)} IN
    UNION {Kept(ids, ToSet(Paged(s, skip, take))) :
             s \in Orders(found, LAMBDA e, f : Dist[e] < Dist[f])}

-----------------------------------------------------------------------------
(* What others do.  Participation and Catalogue have the steps of these.     *)

Change ==
    /\ changes < MaxChanges /\ changes' = changes + 1
    /\ UNCHANGED <<subs, inbox, clicks, polls, calm, entered, causes>>

Join(u, e) ==
    /\ Change /\ e \in stored /\ <<u, e>> \notin edges /\ edges' = edges \cup {<<u, e>>}
    /\ page' = IF u = Visitor THEN [page EXCEPT !.joined = @ \cup {e}] ELSE page
    /\ calls' = [s \in Slots |-> IF calls[s] # Idle /\ calls[s].user = u
                                 THEN [calls[s] EXCEPT !.joined = @ \cup {e}] ELSE calls[s]]
    /\ UNCHANGED <<now, stored, paid>>

Quit(u, e) ==
    /\ Change /\ <<u, e>> \in edges /\ edges' = edges \ {<<u, e>>}
    /\ UNCHANGED <<now, stored, paid, page, calls>>

Pay(e) ==
    /\ Change /\ e \in stored \ paid /\ paid' = paid \cup {e}
    /\ UNCHANGED <<now, stored, edges, page, calls>>

\* The document goes first, the node with its edges later (Unlink).
Delete(e) ==
    /\ Change /\ e \in stored /\ stored' = stored \ {e}
    /\ UNCHANGED <<now, paid, edges, page, calls>>

Unlink(e) ==
    /\ e \notin stored /\ e \in {x[2] : x \in edges}
    /\ edges' = {x \in edges : x[2] # e}
    /\ UNCHANGED <<now, stored, paid, changes, page, calls, subs, inbox, clicks, polls,
                   calm, entered, causes>>

Tick ==
    /\ Change /\ now < MaxTime /\ now' = now + 1
    /\ UNCHANGED <<stored, paid, edges, page, calls>>

-----------------------------------------------------------------------------
(* The visitor.                                                              *)

OfPage(c) == c.kind \in {"events", "recommendation"}

\* getEvents and getRecommendation empty the list and wait for a position.  An answer
\* to an earlier click may still come: calm says that none can.
Ask(P) ==
    /\ clicks < MaxClicks /\ clicks' = clicks + 1
    /\ \E s \in Slots :
         /\ calls[s] = Idle
         /\ calls' = [calls EXCEPT ![s] =
                        NewCall(IF P.recommendation THEN "recommendation" ELSE "events", Visitor)]
    /\ page' = [P EXCEPT !.events = <<>>, !.joined = {}]
    /\ calm' = (calm /\ \A s \in Slots : ~OfPage(calls[s]))
    /\ UNCHANGED <<world, subs, inbox, polls, entered, causes>>

GetEvents == page.recommendation /\ Ask([page EXCEPT !.recommendation = FALSE])
GetRecommendation == ~page.recommendation /\ Ask([page EXCEPT !.recommendation = TRUE])

\* Mutation: the slider's kilometres are taken for metres.
RadiusInKilometres(r) == r # page.radius /\ Ask([page EXCEPT !.radius = 1000 * r])

RadiusChanged(r) == r # page.radius /\ Ask([page EXCEPT !.radius = r])

\* The app is loaded (again): the answers it waited for are not heard of, what it had
\* asked to be pushed still is; its device is entered once more, the overview asks for
\* the events.
Unheard(c) == c # Idle /\ c.user = Visitor /\ c.kind # "notify"
Load ==
    /\ clicks < MaxClicks /\ clicks' = clicks + 1
    /\ page' = NewPage /\ calm' = TRUE
    /\ \E s \in Slots :
         /\ calls[s] = Idle \/ Unheard(calls[s])
         /\ calls' = [x \in Slots |-> IF x = s THEN NewCall("events", Visitor)
                                      ELSE IF Unheard(calls[x]) THEN Idle ELSE calls[x]]
    /\ \E n \in {0, 1} : subs' = subs + n /\ entered' = entered + n   \* 0: not enabled, refused
    /\ UNCHANGED <<world, inbox, polls, causes>>

\* Every ten seconds, the app of whoever has it open.
Poll(u) ==
    /\ polls < MaxPolls /\ polls' = polls + 1
    /\ \E s \in Slots : calls[s] = Idle /\ calls' = [calls EXCEPT ![s] = NewCall("poll", u)]
    /\ UNCHANGED <<world, page, subs, inbox, clicks, calm, entered, causes>>

\* The position is known; the radius is read only now.
Locate(s) ==
    /\ calls[s] # Idle /\ calls[s].step = "position"
    /\ LET c == calls[s] IN
       /\ calls' = [calls EXCEPT
            ![s].step = "sent",
            ![s].radius = IF c.kind = "poll" THEN DefaultRadius ELSE page.radius]
       /\ page' = IF c.kind = "recommendation" THEN [page EXCEPT !.events = <<>>] ELSE page
    /\ UNCHANGED <<world, subs, inbox, clicks, polls, calm, entered, causes>>

-----------------------------------------------------------------------------
(* The server.                                                               *)

Sent(s) == calls[s] # Idle /\ calls[s].step = "sent"

FindEvents(s) ==
    /\ Sent(s) /\ calls[s].kind = "events"
    /\ \E a \in EventsQuery(TRUE, calls[s].radius, now, 0, DefaultTake) :
         calls' = [calls EXCEPT ![s].step = "answered", ![s].answer = a]
    /\ UNCHANGED <<world, page, subs, inbox, clicks, polls, calm, entered, causes>>

ReadGraph(s) ==
    /\ Sent(s) /\ calls[s].kind \in {"recommendation", "poll"}
    /\ \E ids \in Recommended(calls[s].user) :
         calls' = [calls EXCEPT ![s].step = "ids", ![s].ids = ids]
    /\ UNCHANGED <<world, page, subs, inbox, clicks, polls, calm, entered, causes>>

\* The documents are read after the graph.
FindRecommended(s) ==
    /\ calls[s] # Idle /\ calls[s].step = "ids"
    /\ \E a \in RecommendationQuery(calls[s].ids, calls[s].radius, 0, DefaultTake) :
         calls' = [calls EXCEPT ![s].step = "answered", ![s].answer = a, ![s].ids = <<>>]
    /\ UNCHANGED <<world, page, subs, inbox, clicks, polls, calm, entered, causes>>

\* Whoever asks for it, a notice goes to every entry of the list; the push service may
\* fail for one.
Push(s) ==
    /\ Sent(s) /\ calls[s].kind = "notify"
    /\ calls' = [calls EXCEPT ![s] = Idle]
    /\ \E n \in 0..subs : inbox' = inbox + n
    /\ UNCHANGED <<world, page, subs, clicks, polls, calm, entered, causes>>

\* Neither page nor poll has an error handler; another user may close the app.
Fail(s) ==
    /\ calls[s] # Idle /\ calls' = [calls EXCEPT ![s] = Idle]
    /\ UNCHANGED <<world, page, subs, inbox, clicks, polls, calm, entered, causes>>

\* The subscriptions are kept in memory only.
Restart ==
    /\ subs' = 0
    /\ calls' = [s \in Slots |-> IF calls[s] # Idle /\ calls[s].step \in {"sent", "ids"} THEN Idle
                                 ELSE calls[s]]
    /\ UNCHANGED <<world, page, inbox, clicks, polls, calm, entered, causes>>

-----------------------------------------------------------------------------
(* The answers.                                                              *)

\* Mutation: the flag public is not looked at.
EntitiesAll(answer) == {answer}

\* The mapper of the browser makes nothing of an event that is not public.
Entities(answer) == Kept(answer, Public)

\* The list is the answer's, whatever mode and radius the page is in by now.
Show(s) ==
    /\ OfPage(calls[s]) /\ calls[s].step = "answered"
    /\ \E list \in Entities(calls[s].answer) :
         page' = [page EXCEPT !.events = list, !.joined = calls[s].joined]
    /\ calls' = [calls EXCEPT ![s] = Idle]
    /\ UNCHANGED <<world, subs, inbox, clicks, polls, calm, entered, causes>>

Notice(u) == [NewCall("notify", u) EXCEPT !.step = "sent"]

\* Mutation: the app has notices pushed for an empty recommendation as well.
PollAnsweredAlways(s) ==
    LET some == <<>> \notin Entities(calls[s].answer) IN
    /\ calls[s].kind = "poll" /\ calls[s].step = "answered"
    /\ calls' = [calls EXCEPT ![s] = Notice(calls[s].user)]
    /\ causes' = IF some THEN causes + 1 ELSE causes
    /\ UNCHANGED <<world, page, subs, inbox, clicks, polls, calm, entered>>

PollAnswered(s) ==
    LET some == <<>> \notin Entities(calls[s].answer) IN
    /\ calls[s].kind = "poll" /\ calls[s].step = "answered"
    /\ calls' = [calls EXCEPT ![s] = IF some THEN Notice(calls[s].user) ELSE Idle]
    /\ causes' = IF some THEN causes + 1 ELSE causes
    /\ UNCHANGED <<world, page, subs, inbox, clicks, polls, calm, entered>>

-----------------------------------------------------------------------------
Others == \/ Tick \/ \E e \in Events : Pay(e) \/ Delete(e) \/ Unlink(e)
          \/ \E u \in Users, e \in Events : Join(u, e) \/ Quit(u, e)
App == \/ GetEvents \/ GetRecommendation \/ Load
       \/ (\E r \in Radii : RadiusChanged(r)) \/ \E u \in Apps : Poll(u)
Serve(s) == Locate(s) \/ FindEvents(s) \/ ReadGraph(s) \/ FindRecommended(s) \/ Push(s) \/ Fail(s)

Next == Others \/ App \/ Restart \/ \E s \in Slots : Serve(s) \/ Show(s) \/ PollAnswered(s)

Spec == Init /\ [][Next]_vars

-----------------------------------------------------------------------------
(* Properties.                                                               *)

\* A visitor who asks for one page and then for the next (getEventsQueryDto with take
\* and skip), of whatever sizes and from wherever on, is shown no event twice, although
\* each request has a clock of its own and events may start or be deleted between them;
\* of those that follow the first page at most as many are passed over as are gone, and
\* if none is, the two pages are one page of both sizes.  Of two events the nearer, or
\* the earlier if no place is given, comes first.  Two events that agree in the whole
\* sort key may change places between the requests, and an event that is paid for
\* between them moves the others on.
Differ(e, f, near) == (near /\ Dist[e] # Dist[f]) \/ Start[e] # Start[f] \/ Name[e] # Name[f]
AllDiffer(S, near) == \A e, f \in S : e # f => Differ(e, f, near)
Ahead(list, near) ==
    \A i, j \in 1..Len(list) : i < j =>
      IF near THEN Dist[list[i]] <= Dist[list[j]] ELSE Start[list[i]] <= Start[list[j]]
Tile(S, T, near) ==
    \A p \in Sorted(S, near), q \in Sorted(T, near), skip, a, b \in Sizes :
      LET first == Paged(p, skip, a)
          second == Paged(q, skip + a, b)
      IN
      /\ Ahead(first, near)
      /\ AllDiffer(S, near) =>
           /\ ToSet(first) \cap ToSet(second) = {}
           /\ \A i \in 1..Len(p) :
                skip + a + Cardinality(S \ T) < i /\ i <= skip + a + b /\ p[i] \in T =>
                  p[i] \in ToSet(second)
           /\ T = S => first \o second = Paged(p, skip, a + b)
Tiling ==
    {<<S, near, \A T \in SUBSET S : Tile(S, T, near)>> : S \in SUBSET Events, near \in BOOLEAN}
PagesTile ==
    \A near \in BOOLEAN, radius \in Radii : <<Found(near, radius, now), near, TRUE>> \in Tiling

\* Whatever the graph, an event is recommended before another only if some neighbour
\* that has it is at least as much like the user as all that have the other.
AsLike(u, v, w) == Shared(u, v) * Either(u, w) >= Shared(u, w) * Either(u, v)
Having(u, e) == {v \in Neighbours(u) : e \in Joined(v)}
RecommendedByLikeness ==
    \A u \in Users : \A ids \in Recommended(u) : \A i, j \in 1..Len(ids) :
      i < j => \E v \in Having(u, ids[i]) : \A w \in Having(u, ids[j]) : AsLike(u, v, w)

\* Of a visitor who waits for each answer, the overview shows, in either mode, events
\* that are public, were paid for and lie in the radius the slider shows; and in the
\* mode of recommendations none that the visitor had joined when they were asked for.
ShownAsAsked ==
    calm => \A e \in ToSet(page.events) :
      /\ e \in Public \cap paid /\ Dist[e] <= page.radius
      /\ page.recommendation /\ <<Visitor, e>> \in edges => e \in page.joined

\* Each poll that found something, by whoever's app, has a device pushed one notice at
\* most for every time it was entered, over restarts of the server that forget the
\* entries, devices entered again, and polls and pushes that overlap: what an app asks
\* to be pushed is neither pushed twice nor without a cause.
NoticesCaused == inbox <= entered * causes

-----------------------------------------------------------------------------
(* What the properties rest on.                                              *)

\* What a request has found: events that were paid for, in the radius it was made
\* with, and recommendations of nothing its user had joined before it was made.
AnswerSound(c) ==
    /\ c.step = "position" => c.answer = <<>>
    /\ OfPage(c) => c.user = Visitor
    /\ \A e \in ToSet(c.answer) : e \in paid /\ Dist[e] <= c.radius
    /\ \A e \in ToSet(c.ids) : <<c.user, e>> \in edges => e \in c.joined
    /\ c.kind # "events" =>
         \A e \in ToSet(c.answer) : <<c.user, e>> \in edges => e \in c.joined

\* While the visitor waits for each answer there is one request of the page at most, and
\* the page is as it was when it was made.
AskedOnce(s) ==
    OfPage(calls[s]) =>
      /\ calls[s].kind = "recommendation" <=> page.recommendation
      /\ calls[s].step # "position" => calls[s].radius = page.radius
      /\ \A x \in Slots \ {s} : ~OfPage(calls[x])

\* Every poll causes one request for a notice at most, and goes when it does; those under
\* way are causes that have not yet been pushed.
OfKind(kind) == {s \in Slots : calls[s].kind = kind}
PollsCounted ==
    LET pending == Cardinality(OfKind("notify")) IN
    /\ causes + Cardinality(OfKind("poll")) <= polls
    /\ pending <= causes /\ subs <= entered
    /\ inbox + entered * pending <= entered * causes

Inductive ==
    /\ TypeOK
    /\ \A s \in Slots : /\ calls[s] # Idle => AnswerSound(calls[s])
                        /\ calm => AskedOnce(s)
    /\ PollsCounted /\ NoticesCaused /\ ShownAsAsked
=============================================================================
