# A TLA+ model of dance_with_me

dance_with_me is a web application for dance events: an Angular front end
(`src/frontend`), a NestJS back end (`src/backend`) and the stores and services the
back end talks to: MongoDB (documents), Neo4j (the recommendation graph), Meilisearch
(search), S3 (pictures), Stripe (payments), Nominatim (addresses) and a mail server.
The specifications model the logic of both ends at the grain of their awaits: one
action per step between two awaits of a handler, or between a request of the browser and
its answer. JavaScript runs such a step without interruption, and every other handler or
callback may run between two of them.

## Inventory

| component | state | operations | what is hard | what makes it correct |
|---|---|---|---|---|
| participation (`event.service.ts`, `event.controller.ts`) | `participants` of the event documents; `PARTICIPATES` edges | join, leave, delete an event, purge a deleted user | two stores without a transaction; the answer is computed two awaits after the document was read; failures and crashes between the writes | the answer is the verdict of the call's own atomic write; the graph follows the document once a call runs alone; a deleted event stays deleted |
| access-token keys (`paseto.service.ts`) | a map of keys in the memory of the process | boot, rotation timer, createToken, verifyToken, expiry timeouts | a key picked before an await and used after it; timers; several keys generated at once; restart | a valid token of the running process is accepted, no other is |
| sessions and login (`auth.service.ts`, `auth.controller.ts`, strategies) | the `refreshtokens` and `users` collections, User nodes | login, refresh, revoke, force_logout | racing uses of one token; tokens deleted before the checks; crash between deletion and storage; check-then-create of accounts | a session has one continuation; only the matching fingerprint continues it; an ended one stays ended; one account per user |
| organiser validation (`validation.service.ts`) | the `validations` collection, pictures in S3, the role of a user | create, decide, delete, list | transactions that cover nothing; check-then-act; two admins; account deletion in between | an accepted request has its picture; an approved one has made an organiser |
| accounts (`user.service.ts`) | the `users` collection | sign up, deleteUser | a deletion that spans three services; racing logins | nothing a deleted user had keeps acting |
| event catalogue (`event.service.ts`, mappers, schema) | event documents, Event nodes, search index | createEvent, updateEvent, queries | three stores; PATCH that reads before it writes | start not after end; every listed event is paid |
| payment (`payment.service.ts`, `email.service.ts`) | Stripe charges, `paid` | createPayment | a charge before the event is looked up; retries | one charge, one invoice per paid event |
| images (`image.service.ts`) | the bucket, S3 objects of five sizes | upload, get | five puts one after the other; a failure or a restart in between | the picture an event points to is there in all sizes |
| event query (`event.service.ts`) | none | getEventsQueryDto | a sort key that need not tell events apart; skip and take; a clock per request | pages that follow each other share no event and pass over no more than are gone |
| recommendations (`recommendation.service.ts`) | none | getRecommendation | a long Cypher query, then an aggregation over documents that have changed meanwhile | the events of the more similar users first; none unpaid or over |
| notifications (`notification.service.ts`, `app.component.ts`) | the push subscriptions, in the memory of the process | subscribe, push to all; the app polls the recommendations every ten seconds | one list for all users, to which anyone's poll pushes; restarts, repeated subscriptions, overlapping polls | a device gets no more notices per entry than polls found something |
| browser session (`frontend/.../auth.service.ts`, guards) | stored refresh token and cookie of the browser; access token, timer and user of each tab | setTokens, refresh, logout, the guards' navigation | two tabs and one refresh token; a timer armed after an await; late and lost answers | one renewal at a time; a confirmed logout is final; the tokens match the cookie; a guard gets its answer |
| organiser pages (create, edit and payment pages) | forms, spinners, the requests they began | submit | a chain of two requests that outlives its page; forms filled long ago; fields that are submitted without being left; Stripe, awaited while the form is shown | no form that sent something waits for ever; an event keeps to one day |
| visitor pages (overview, map, detail, search) | mode, radius, list | choose a mode, a radius | answers that come in another order than the questions | the list is what was asked for |
| administration and user pages | lists, forms | - | - | presentation |
| data generator (`src/generator`) | - | - | - | a script for test installations |

The components meet in the stores. A login (`Sessions`) creates the account that
participations (`Participation`) and validation requests (`Validation`) name; the
access token it answers is signed by `KeyRing`; `deleteUser` passes through
`Validation`, the account and `Participation`, and leaves the refresh tokens alone.
`Browser` uses of the refresh-token end points what `SessionLines` promises and `Sessions`
is shown to keep. The pages of `Studio` end in the handlers whose awaits `Catalogue` has,
and what those store and what `Participation` writes to the graph is what `Discovery` reads.

## What is modelled

**Participation** models `createParticipation`, `deleteParticipation`, `deleteEvent`
and `deleteUsersFromFutureEvents`. `req` holds one record per handler in progress;
`MongoJoin`, `MongoLeave` and `MongoDelete` are the first awaited write of a handler,
which stores what `findByIdAndUpdate` handed back (the document *before* the update)
in `found` and `was`; `GraphJoin`, `GraphLeave` and `GraphDelete` are the write to
Neo4j and the answer computed after it. The Cypher queries are modelled by what they
match: `CREATE` adds an edge per matched pair, so that a user with two User nodes (the
account was deleted and made again) gets two. `StoreFails` is a refused write (500),
`Crash` the end of the process. **ParticipationBook** is the promise: every call is
settled in one atomic step, whose verdict is the answer.

**KeyRing** models `PasetoService`. Time is a counter; keys are numbered in the order
they are made. `CreateToken` is the synchronous part before the await of a key
(`getNewestKey`), `KeyGenerated` the continuation of `addNewKey`, `Sign` the signature;
`Lag` bounds the time between the check of a key and the signature with it.
`ExpireKey` is the weak timeout of a key, `RotationTick` the interval timer.
**AccessTokens** is the promise, in which no key appears.

**Sessions** models `AuthService`, `RefreshTokenStrategy`, `AuthController` and
`UserService.findAndUpdateOrCreate`. A refresh token and its fingerprint are two random
strings generated together; both are the number of the token. A handler's steps are
`find`, `create`, `node` (sign-up), `take`, `populate` (the deletion of the presented
token and the second query for its user), `mint` and `sign` (`authenticateUser`), and
`expel` (`forceLogout`). Clients present any pair of a token and a fingerprint that were
handed out. `line` is a history variable: the first token of the chain of renewals.
`deleteMany` is one step: its documents are deleted one by one, but a token stored
meanwhile is either deleted or not, as if it came before or after. **SessionLines** is
the promise: a line is one token or one renewal, or it is over.

**Validation** models `ValidationService`, the controller, and `deleteUser`. The
services start transactions but hand no query the session, so that a commit commits
nothing and an abort undoes nothing; the model has no transaction. `Users` are the
accounts that hold a request, `roles[u] = "gone"` an account without a document. An
approval of a request without a user updates the user whose `_id` is undefined, which
the driver sends as null: no document. The role of an administrator is outside the
model: administrators are those who call `Update` and `Delete`.

**Catalogue** models `createEvent`, `updateEvent`, `deleteEvent` and `markEventAsPaid` of
`EventService`, the end points of `EventController` before them, and `PaymentService` with
the invoice of `EmailService`. Of a document it keeps the dates (`span`) and the flag
(`paid`); the other fields are written in the same operations and decide nothing. A
creation passes `locate` (Nominatim), `store`, `node` and, for a public event, `index`;
a PATCH of one date passes `fill` (the document is read and its other date taken over,
checked and written back with the new one) and `write`; a payment passes `charge`,
`mark`, `payer` and `mail`; a deletion `remove` and `unlink`. `Findable` are the ids a
client can name: those it was answered and those of the search index. `booted` is the
time at which the process loaded the classes of the DTOs, where the decorator
`@MinDate(new Date())` was evaluated. `Charge` has the answers of Stripe that the code
distinguishes, with one that it cannot: an error after the card was charged.
**EventLife** is the promise: an event is drafted once, listed only when money came in,
closed for good, and never ends before it starts.

**Browser** models `AuthService`, `UserService` and `TokenStorageService` of the front end,
the `RefreshGuard` and the `LoginGuard`. A session line is a token of `SessionLines`,
INSTANCEd for one user; `Take`, `Renew`, `Revoke` and `Refuse` are the steps of a request
at the server that this promise allows. `cookie` is the token the fingerprint in the cookie
was made with, `stored` the refresh token in `localStorage`, `url` the last address a login
redirected to; `tab` holds what each page has in memory. `SetTokens` is the synchronous
part of `setTokens` and `UserArrives` its continuation, after the user was fetched; a user
that the server refuses never comes, because `updateUser` has no error handler, and leaves
the page `"hung"`. The answer to a page that was left is dropped with its cookie, which is
the loss that matters: the server has renewed and the browser has not. `tidy` and `ended`
are history.

**Studio** models the create, edit and payment pages with `ImageService` of both ends.
`page` is what each tab shows, `sub` what was submitted: a submission goes through
`upload`, `put` (the loop over the five sizes), `write` and its answers, and goes on when
its page is left. `PatchDates` is what the edit form makes of its three date fields: the values and
the set of touched fields are chosen independently, since Angular marks a field as touched
when it is left, and Enter submits the form without leaving it. `blurred` (history) says
that every changed date field had been left. `Updated` is what the PATCH makes of a date
that was not sent. `StripeArrives` is the continuation of the await in `ngOnInit` of the
payment page, a step of its own after the form is shown, which may never come. An answered
creation shows the payment page, and one that is open already is shown for the new event
without being made again, which is why `MakeMethod` reads the event of the route only after
Stripe answered; when the page is gone by then, that is the event it was shown for last
(`Detach`).

**Discovery** models `getEventsQueryDto`, `RecommendationService`, the overview page, the
poll of the app and `NotificationService`. The queries are operators: `Orders` is a sort
(every order a sort may return), `Paged` is `$skip` and `$limit`, `Recommended` the Cypher
query and `RecommendationQuery` the aggregation that follows it, with its cut by distance
and the sort of its result. `ReadGraph` and `FindRecommended` are the two awaits of a
recommendation. Documents and graph change between them in single steps, since
`Participation` and `Catalogue` have the steps of those handlers, except for a deletion,
which leaves the graph for a while (`Unlink`). A request carries its user. The overview is
the visitor's, but the app of anyone in `Apps` polls, and what its poll finds is asked to be
pushed: `Push` serves the entries of the one list of `NotificationService.subscriptions`,
whoever asks. `subs` counts those of the visitor's device, `inbox` its notices, and
`entered` (history) how often it was entered. `Load` drops the answers the visitor's app
waits for, not the pushes it has asked for.

## Runs

| run | configuration | shows |
|---|---|---|
| `participation` | 2 users, 1 event, 2 calls | `BookSpec`: the answers are those of an atomic roster; `RepairedWhenAlone`: a call that runs alone and is answered 204 or 409 leaves both stores in agreement, whatever came before; `DeletedForGood` |
| `key_ring` | 2 calls, half interval 3, token life, tolerance and lag 1, 1 restart | `KeyOutlivesTokens`, `FreshKeysBounded`, `TokensSpec` |
| `key_ring_rotation` | the same, fair | finding: the rotation adds no key |
| `sessions` | 2 users, 2 calls, 2 tokens, 1 deletion of an account | `LineNeverForks`, `OneNodePerSignup`, `LinesSpec` |
| `sessions_force_logout` | 2 users, 2 calls, 3 tokens | finding: a refresh in flight survives force_logout |
| `validation` | 2 users, 2 calls, 2 requests | `AcceptedHasImage`, `ApprovedIsOrganiser` |
| `validation_pending` | 1 user, 2 calls | finding: two pending requests of one user |
| `participation_node` | 2 users, 1 event, 2 calls | finding: a deletion answered 404 removes the node of the event |
| `catalogue` | 1 event, 2 calls, dates and clock 0..2, 2 charges | `LifeSpec`; `ListedWhenAnswered`: a payment answered 204 took the money and listed the event; `InvoicesCovered`; `DeletedLeavesNothing`: after a deletion answered 204 the event is in neither store |
| `browser` | 2 tabs, 3 tokens, 2 requests | `OneRenewal`: a tab never renews its tokens in two ways at once; `TokensMatchCookie`: one tab at a time does not end its own session; `LogoutIsFinal`, over refreshes beside it; `GuardIsAnswered` |
| `studio` | 1 tab, 2 submissions, an earlier event, 2 days | `EventPicturesComplete`; `SingleDay`: an event keeps to one day through every combination of touched and changed fields in which each changed date field had been left; `SubmitEnds`: no form that sent something waits for ever |
| `discovery` | 3 users, 2 of them with apps that poll, 3 events, 2 requests, 1 change, 2 clicks, 2 polls, pages of 0 to 2 | `PagesTile`: two pages of any sizes that follow each other, asked for at two moments, share no event and pass over no more than are gone; `RecommendedByLikeness`; `ShownAsAsked`: a visitor who waits for each answer sees what was asked for; `NoticesCaused`: per entry of a device, no more notices than polls that found something |

Bounds. Every race in this code is between two handlers that share a document, or
between a handler and a failure, so that two calls at a time are enough to meet it;
an identifier is reused when its answer was received, so that behaviours are not
limited to two calls. `MaxNodes` and `MaxEdges` are 2: one more than a user or a pair
should have. In `key_ring` the half interval satisfies `TimingAssumption` with equality,
the tightest case (in the code it is 3.5 days against 16 minutes), and the clock runs
through the deletion of the first key and the expiry of its successor. Three dates in
`catalogue` give a start, an end and one that crosses them; calls on different events
share no document, so that one event meets every race (`OneCreation`, which is about two
events, is proved). Two charges are a payment and its repetition. In `browser` three
tokens are two logins and a renewal, or a login and two renewals, and two requests are a
refresh with another refresh, a logout, or the remains of one whose page was reloaded. In
`studio` one tab suffices: pages share nothing but the server, and a form filled before an
edit, or an answer that meets another page, arises in one tab that leaves a page and comes
back; the second tab would only repeat the first. In `discovery` every sort has a pair
that agrees in its first key and one that differs, one neighbour is more like the visitor
than the other in either graph, and one change suffices to fall between two awaits. Two
polls of two users overlap with each other and with the pushes they cause. `PagesTile` is
evaluated for every set `S` that a first request may find and every `T` within it that is
left for the second; pages of 0, 1 and 2 at every skip among these numbers end before,
across and after the end of three events. `studio` has 1.4 and `discovery` 0.5 million
states, which TLC visits in one to three minutes.

Fairness. `key_ring_rotation`: the event loop runs a timer that is due, the clock advances,
and the container is restarted (`restart: always` in the compose files). `studio`: a request
under way is served or fails (`Serve`), and its answer is delivered to the callback that
waits for it (`Reply`), each weakly fair for each submission: HTTP requests end, if only by
the breaking of the connection, and the browser's event loop runs the callbacks that are
due. Nothing is assumed of the visitor or of `StripeArrives`: a payment submitted before
Stripe is there sends nothing, waits for no answer, and is left out of `SubmitEnds`. All
other properties are safety properties of the specification without fairness. Deadlock is
checked in every run: the system may always go on, if only by a failure or a restart.

## Findings

* `key_ring_rotation`: `setInterval(this.addNewKey, ...)` (`paseto.service.ts:21`) passes
  the method without its receiver. When it fires, a key is generated and the callback fails
  on `this.keys`; nothing handles the rejection, and Node ends the process. The unit test
  "should set up interval for adding new keys" mocks the timer.
* `sessions_force_logout`: the contract says force_logout invalidates all of a user's
  refresh tokens; a refresh between the deletion of its token and the storage of the next
  is missed, and its session goes on.
* `validation_pending`: the contract answers 409 to a user who has a pending request; two
  calls that both pass the check are both answered 201.
* `participation_node`: `deleteEvent` runs `DETACH DELETE` before it looks at what
  `findOneAndDelete` returned (`event.service.ts:224`). An organiser who asks for the
  deletion of somebody else's event is answered 404, as the unit test
  (`event.service.spec.ts:419`) expects, and the event stays without its node.

What else the models contain, and no run states:

* Two admins who both read a request as pending decide on it one after the other, both
  answered 200, where `organizer.yaml` has 409 (`Validation!Update`).
* The card is charged before the event is looked up (`payment.service.ts:45`): for an event
  that is gone by then the answer is 500 and the money stays charged (`Catalogue`).
* Of two PATCHes of one date each, both answered 200, one can be undone by the date the
  other had filled in; the search index keeps what a deletion removed (`Catalogue`).
* With two tabs, a refresh of one leaves the other with an access token that no longer
  matches the cookie, until its own timer fires; opening a login's address again from the
  history does the same (`Browser`; `TokensMatchCookie` is limited by `tidy`).
* The answer of a creation replaces the page the visitor has gone on to (`Studio!Written`).
* Enter in a changed date field of the edit form that has not been left sends the other
  dates only: who touches the start, types another day and presses Enter moves the start
  to it and leaves the end (`edit-event-page.component.ts:188-197`,
  `create-event-page.component.html:2` and `345`; `Studio`, `SingleDay` is limited by
  `blurred`).
* A payment submitted before `loadStripe` resolves sets the spinner and sends nothing
  (`payment.component.ts:105-107`); nothing stops the spinner when Stripe arrives
  (`Studio!StripeArrives`).
* A device that was entered twice gets every notice twice, and any user's poll that finds
  something sends it one (`notification.service.ts:51-63`; `entered` in `NoticesCaused`).
* An event that is paid for between two page requests moves the others on, so that the
  second page repeats one of the first (`Discovery`; `PagesTile` has the second request
  find no event that the first did not).
* `deleteUser` leaves the refresh tokens of the account, which serve a later account of the
  same id (`Sessions`); a validation request stored after it has listed the requests of the
  user stays without one (`Validation`).
* The overview shows whichever answer came last, not the one asked for last, and a
  recommendation is cut to a page by distance before it is sorted by likeness (`Discovery`).

## Proofs

TLC checks the small instances above; the TLA+ proof system proves, for every value of
the constants that satisfies the named assumptions:

* `Participation_proofs`: `TypeCorrect`, `RepairedCorrect`, `DeletedCorrect` and
  `BookRefined`. The invariant is `Inductive`: beside the two properties it says that a
  call which is still alone really has no other call beside it, that after its first write
  the document says what the call asked for, and that a deletion that found its document
  is past the removal. `RepairedWhenAlone` alone is not inductive: before the second
  write nothing would relate the call to the document.
* `KeyRing_proofs`: `TypeCorrect`, `KeyOutlivesTokensCorrect` and `TokensRefined`, from
  `TimingAssumption`: token life, tolerance and lag together fit into half an interval.
  `KeyOutlivesTokens` is strengthened to "a valid token of this process has a key in the
  ring that stops signing at most `Lag + TTL` before the token expires", and a call that
  is about to sign holds a key of the ring that was fresh at most `Lag` ago.
  `FreshKeysBoundedCorrect` counts (`Allowance`): fresh keys and calls that generate one
  are together at most the calls there can be, since a call generates only when it saw no
  fresh key and adds one.
* `Sessions_proofs`: `TypeCorrect`, `LineNeverForksCorrect`, `OneNodePerSignupCorrect` and
  `LinesRefined`, for any users, any finite number of calls and any bounds. `Inductive`
  adds what a call knows at each step (a refresh past the comparison presented the
  fingerprint of its token, and what it carries was handed out), that no two stored
  tokens have one identifier, and that nodes made plus nodes about to be made are at most
  the accounts that were ever created. Almost every step only ends renewals
  (`KeepsRenewals`); taking and storing a token are the two that need an argument.
* `Catalogue_proofs`: `TypeCorrect`, `ListedWhenAnsweredCorrect`, `InvoicesCoveredCorrect`,
  `DeletedLeavesNothingCorrect` and `LifeRefined`, for any events, any finite number of
  calls and any bounds. `Inductive` says that stored dates are in order and a listed event
  was charged for (`DocumentsSound`); what each call knows at each of its steps, such as
  that a deletion names an event whose creation is over (`CallsSupported`); that no two
  creations carry one id (`OneCreation`), which is what keeps a node from being written
  after its deletion; and that invoices sent plus payments between charge and invoice are
  at most the charges (`ChargesCover`). Each group of steps has a lemma per part of it.

* `Validation_proofs`: `TypeCorrect`, `AcceptedHasImageCorrect` and
  `ApprovedIsOrganiserCorrect`, for any users and any number of requests and handlers. Since
  no transaction binds the writes, `Inductive` says at which step of a handler which of them
  is done (`HandlerSound`): an answer 201 comes after the picture, a picture is removed only
  after its document, and an approval knows its owner (`OwnerKnown`) from before the write
  of the role.
* `Browser_proofs`: `TypeCorrect`, `OneRenewalCorrect`, `TokensMatchCookieCorrect`,
  `LogoutIsFinalCorrect` and `GuardIsAnsweredCorrect`. `RenewsOneWay` is the life of a tab:
  timer, request and unheard answer exclude each other. `LogoutIsFinal` needs `Secret`, that
  a token on its way to a page is known to nobody else: else what a refresh was granted
  before the logout could be presented after it. `TokensMatchCookie` needs `OnePage`.
  `CallsSound` lacked, before the proof, that only a refresh is ever at the stage `"taken"`.
* `Studio_proofs`: `TypeCorrect`, `EventPicturesCompleteCorrect` and `SingleDayCorrect`, for
  any tabs, submissions, sizes, days and times. `PictureSoFar` is the loop invariant of the
  upload; it survives other uploads because a picture is named by its submission.
  `DatesSent` is `SingleDay` on its way from a form to the server: one date alone is of the
  day the form was filled with if every changed field had been left, since then the day
  was not changed. The proof asked for a
  part of `Shown` that was missing: what waits at Stripe is a payment.
* `Discovery_proofs`: `TypeCorrect`, `PagesTileCorrect`, `RecommendedByLikenessCorrect`,
  `ShownAsAskedCorrect` and `NoticesCausedCorrect`. The two about queries hold in every
  state of the right types. A set has one list that is sorted by an order in which any two
  elements differ (`OneSortedList`: at the least place where two lists differ each holds
  what the other has further on), so that two pages of one moment come out of one list. For
  two moments, the place of an event in a sorted list is the number of those before it
  (`PlaceInOrder`): it moves forward by as many as are gone (`PlacesMove`), never back. The
  quotients
  order the neighbours (`AsLikeTransitive`, `CloserOrders`) and a finite set has a greatest
  element (`GreatestElement`), so that `First` is defined and the closest neighbour decides.
  `ShownAsAsked` is strengthened by what each request has found (`AnswerSound`) and by
  `AskedOnce`: while the visitor waits one request of the page is under way, made in the
  mode and the radius the page is in. `NoticesCaused` rests on `PollsCounted`: a poll that
  found something is one notice to come for each entry of the device, so that
  `inbox + entered * pending` never exceeds `entered * causes`, with `pending` the pushes
  asked for; a new entry adds as many notices to come as it adds to the bound
  (`NoticesToCome`).

The proofs of `Discovery` need induction over numbers where a list or a set may be of any
size. The induction theorems of the library take an operator and cannot be used here; the
least element of a set of numbers (`LeastNumber`, from the well-foundedness of `<`) does
the same by the least counterexample. Queries are sets of lists, without a recursive
definition: what a sort may return is every list of the set in which nothing precedes
what stands before it.

All invariants of the passing runs and all their refinements are proved. The assumptions
on constants are in the modules that declare them (`ConstantsAssumption`,
`TimingAssumption`, `RequestsAssumption`): bounds are numbers, a value that stands for
nothing is none of the others, and sets whose elements are counted are finite.
`TimingAssumption` alone says something of the program: with the constants of
`paseto.service.ts` it is 16 minutes against 3.5 days.

Left to TLC: `SubmitEnds`, which needs fairness, out of the proof system's reach, and the
four findings, which the code violates.

## Plan

1. (done) `Participation`, `KeyRing`, `Sessions`, `Validation` with their abstract
   specifications and the proofs of the first three; `Catalogue` with `EventLife` and its
   proofs.
2. (done) The browser and what it meets: `Browser` over the promise of `Sessions`; `Studio`
   with the pictures; `Discovery` with the queries, the recommendations and the notices.
3. (done) The proofs of `Validation`, `Browser`, `Studio` and `Discovery`, and
   `FreshKeysBounded`.
4. What a proof could still say: that the line a browser holds is one line of `SessionLines`
   (a refinement from `Browser`); that `EventsQuery` and `RecommendationQuery` omit nothing
   that matches and fits the page.
5. `Accounts`: sign-up, deleteUser and the purge over one state, composed with
   `Participation` and `Sessions`: what a deleted user leaves behind.

## Not modelled

* A write to a store whose answer is lost, except where a step says so: elsewhere a failed
  call is a refused write, and a crash is the write that is done and not answered.
* Pages that MongoDB refuses: a `take` of 0 or a negative `skip` ends in a 500 and reads
  nothing (`Sizes` are the limits of the list, not of the request). `recommendation.yaml`
  documents a default of 100 for `skip` where the code has 0.
* A second User node of a user in `Discovery`; `Participation` has it. Calls of
  `/notification` other than those of the app after a poll that found something.
* Places and addresses (an event has a distance in `Discovery`), names, descriptions and
  prices; the bytes of a picture and its resizing.
* The map, the detail page and the search box, the administration and user pages: they
  show answers, and send what `Validation`, `Participation` and `Sessions` receive.
* The closing of a tab in `Studio`, which drops submissions that are not yet answered, as
  the breaking of a connection does.
* Logging, the request validation pipes beyond the conditions the handlers rely on, Angular
  templates, build and deployment files, the data generator.
* Denied requests (missing access token, missing role) change no state: the models start
  behind the guards, except for the checks of the refresh-token strategy and, in `Browser`,
  the comparison of an access token with the cookie.
