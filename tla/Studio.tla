-------------------------------- MODULE Studio --------------------------------
(***************************************************************************)
(* The organiser's side: the pages that create, edit and pay for an event, *)
(* in the tabs of one organiser, and what they send: the picture, which    *)
(* ImageService stores in five sizes one after the other, then the event   *)
(* with the picture's id; and the payment.  A submission outlives the page *)
(* it came from: no subscription is ended when a page is left.  The        *)
(* handlers on events are single steps here; Catalogue has their awaits,   *)
(* and the charge and the listing of a payment.                            *)
(***************************************************************************)
EXTENDS Integers, Sequences

CONSTANTS Tabs,
          MaxSubmits,        \* bound: forms submitted
          Days,              \* of the calendar, from 0
          Hours,             \* the pairs of a start and an end time that are entered
          None

Submits == 1..MaxSubmits     \* each may make one picture and one event, named by it
Events == 0..MaxSubmits      \* 0 is an event of earlier days, if there is one
Times == {0, 1}              \* of a day
At(d, t) == 2 * d + t
Day(m) == m \div 2
Moments == {At(d, t) : d \in Days, t \in Times}

ASSUME ConstantsAssumption ==
    /\ MaxSubmits \in Nat /\ Days \subseteq Nat /\ 0 \in Days
    /\ Hours \subseteq Times \X Times
    /\ None \notin Moments \cup Events

VARIABLES bucket,            \* the bucket exists
          objects,           \* the pairs of a size and a picture that are stored
          events,            \* the event documents
          page, sub,         \* the pages, and the submissions under way
          count, fresh       \* bound; history: see SingleDay
vars == <<bucket, objects, events, page, sub, count, fresh>>

\* The keys of ImageSizeEnum, in the order of the loop over them.
Sizes == <<"thumbnail", "small", "medium", "large", "original">>

\* start, end: what the edit form was filled with.
Away == [kind |-> "away", event |-> None, loading |-> FALSE, stripe |-> FALSE,
         start |-> None, end |-> None]
Page == [kind : {"away", "create", "edit", "pay"}, event : Events \cup {None},
         loading : BOOLEAN, stripe : BOOLEAN,
         start : Moments \cup {None}, end : Moments \cup {None}]

\* live: the page it came from is still there.  step: "upload", "put" (in the loop
\* of uploadImage), "method" (at Stripe) and "write" are requests under way,
\* "uploaded", "written" and "failed" their answers.  from: the dates the
\* edit form was filled with.  blurred: history: see SingleDay.
Idle == [step |-> "idle"]
Sub == [step : {"upload", "put", "uploaded", "method", "write", "written", "failed"},
        tab : Tabs, live : BOOLEAN, kind : {"create", "edit", "pay"},
        event : Events, image : Submits \cup {None}, next : 1..(Len(Sizes) + 1),
        start : Moments \cup {None}, end : Moments \cup {None}, from : Moments \X Moments,
        blurred : BOOLEAN]

NoEvent == [stored |-> FALSE, image |-> None, start |-> 0, end |-> 0]
Event == [stored : BOOLEAN, image : Submits \cup {None}, start : Moments, end : Moments]

TypeOK ==
    /\ bucket \in BOOLEAN /\ fresh \in BOOLEAN /\ count \in 0..MaxSubmits
    /\ objects \subseteq {Sizes[i] : i \in 1..Len(Sizes)} \X Submits
    /\ events \in [Events -> Event]
    /\ page \in [Tabs -> Page]
    /\ sub \in [Submits -> {Idle} \cup Sub]

Earlier == {[e \in Events |-> IF e = 0 THEN x ELSE NoEvent] :
              x \in {NoEvent, [NoEvent EXCEPT !.stored = TRUE, !.end = 1]}}

\* onApplicationBootstrap finds or creates the bucket, or fails and goes on.
Init ==
    /\ bucket \in BOOLEAN /\ objects = {} /\ events \in Earlier
    /\ page = [t \in Tabs |-> Away] /\ sub = [n \in Submits |-> Idle]
    /\ count = 0 /\ fresh = TRUE

-----------------------------------------------------------------------------
(* The pages.                                                                *)

\* The component of a tab is replaced: what it sent goes on without it, what is at
\* Stripe with the event the page was shown for last (see MakeMethod).
Detach(s) ==
    [s EXCEPT !.live = FALSE,
              !.event = IF s.live /\ s.step = "method" THEN page[s.tab].event ELSE @]
Show(t, P, subs) ==
    /\ page' = [page EXCEPT ![t] = P]
    /\ sub' = [n \in Submits |->
                 IF subs[n] # Idle /\ subs[n].tab = t THEN Detach(subs[n]) ELSE subs[n]]

\* Stripe is not there yet.
Payment(e) == [Away EXCEPT !.kind = "pay", !.event = e]

Leave(t) ==
    /\ page[t].kind # "away" /\ Show(t, Away, sub)
    /\ UNCHANGED <<bucket, objects, events, count, fresh>>

OpenCreate(t) ==
    /\ page[t].kind = "away" /\ Show(t, [Away EXCEPT !.kind = "create"], sub)
    /\ UNCHANGED <<bucket, objects, events, count, fresh>>

\* The form is filled once, with the event as it is now.
OpenEdit(t, e) ==
    /\ page[t].kind = "away" /\ events[e].stored
    /\ Show(t, [Away EXCEPT !.kind = "edit", !.event = e, !.start = events[e].start,
                            !.end = events[e].end], sub)
    /\ UNCHANGED <<bucket, objects, events, count, fresh>>

OpenPayment(t, e) ==
    /\ page[t].kind = "away" /\ events[e].stored /\ Show(t, Payment(e), sub)
    /\ UNCHANGED <<bucket, objects, events, count, fresh>>

\* loadStripe resolves, while the form is shown.  It may also come back with null, be
\* rejected, or never come back, all of which leave the page as it is.
StripeArrives(t) ==
    /\ page[t].kind = "pay" /\ ~page[t].stripe
    /\ page' = [page EXCEPT ![t].stripe = TRUE]
    /\ UNCHANGED <<bucket, objects, events, sub, count, fresh>>

\* A valid form is submitted, again if the visitor likes: loading does not stop it.
Begin(t, s) ==
    /\ count < MaxSubmits /\ count' = count + 1
    /\ page' = [page EXCEPT ![t].loading = TRUE]
    /\ sub' = [sub EXCEPT ![count + 1] = s]
    /\ UNCHANGED <<bucket, objects, events, fresh>>

Submission(t, kind, step, e, start, end, from, blurred) ==
    [step |-> step, tab |-> t, live |-> TRUE, kind |-> kind, event |-> e, image |-> None,
     next |-> 1, start |-> start, end |-> end, from |-> from, blurred |-> blurred]

\* Both forms have one day, and refuse a start time after the end time.
SubmitCreate(t) ==
    /\ page[t].kind = "create"
    /\ \E d \in Days, h \in Hours, step \in {"upload", "write"} :
         /\ h[1] <= h[2]
         /\ Begin(t, Submission(t, "create", step, count + 1, At(d, h[1]), At(d, h[2]),
                               <<0, 0>>, TRUE))

\* Mutation: the end is sent only when its own field was touched.
PatchDatesApart(d, a, b, touched) ==
    <<IF touched \cap {"date", "start"} # {} THEN At(d, a) ELSE None,
      IF "end" \in touched THEN At(d, b) ELSE None>>

\* The edit form sends the dates of which a field was touched.
PatchDates(d, a, b, touched) ==
    <<IF touched \cap {"date", "start"} # {} THEN At(d, a) ELSE None,
      IF touched \cap {"date", "end"} # {} THEN At(d, b) ELSE None>>

\* A field is touched when it is left, changed or not; the one that is being typed in
\* when Enter submits the form need not be.
SubmitEdit(t) ==
    LET was == <<page[t].start, page[t].end>> IN
    /\ page[t].kind = "edit"
    /\ \E touched \in SUBSET {"date", "start", "end"}, d \in Days, h \in Hours,
          step \in {"upload", "write"} :
         LET dates == PatchDates(d, h[1], h[2], touched)
             blurred == /\ "date" \in touched \/ d = Day(was[1])
                        /\ "start" \in touched \/ h[1] = was[1] % 2
                        /\ "end" \in touched \/ h[2] = was[2] % 2
         IN
         /\ h[1] <= h[2]
         /\ Begin(t, Submission(t, "edit", step, page[t].event, dates[1], dates[2], was, blurred))

\* Without Stripe nothing is sent, and the spinner turns.
SubmitPayment(t) ==
    /\ page[t].kind = "pay"
    /\ IF page[t].stripe
       THEN Begin(t, Submission(t, "pay", "method", page[t].event, None, None,
                               <<0, 0>>, TRUE))
       ELSE /\ page' = [page EXCEPT ![t].loading = TRUE]
            /\ UNCHANGED <<bucket, objects, events, sub, count, fresh>>

-----------------------------------------------------------------------------
(* The server.                                                               *)

Doing(n, step) == sub[n].step = step
Become(n, step) == sub' = [sub EXCEPT ![n].step = step]

\* Multer lets pictures pass; uploadImage makes a name, and reads the picture.
Receive(n) ==
    /\ Doing(n, "upload")
    /\ sub' = [sub EXCEPT ![n].step = "put", ![n].image = n]
    /\ UNCHANGED <<bucket, objects, events, page, count, fresh>>

\* Mutation: the puts are not awaited.
PutUnawaited(n) ==
    /\ Doing(n, "put") /\ bucket
    /\ objects' = objects \cup {<<Sizes[sub[n].next], n>>}
    /\ sub' = [sub EXCEPT ![n].next = @ + 1, ![n].step = "uploaded"]
    /\ UNCHANGED <<bucket, events, page, count, fresh>>

\* One round of the loop; the answer after the last.
Put(n) ==
    /\ Doing(n, "put") /\ bucket
    /\ objects' = objects \cup {<<Sizes[sub[n].next], n>>}
    /\ sub' = [sub EXCEPT ![n].next = @ + 1,
                          ![n].step = IF sub[n].next = Len(Sizes) THEN "uploaded" ELSE @]
    /\ UNCHANGED <<bucket, events, page, count, fresh>>

\* The file is no picture or too large, the bucket is missing, or a put fails.
UploadFails(n) ==
    /\ Doing(n, "upload") \/ Doing(n, "put")
    /\ Become(n, "failed")
    /\ UNCHANGED <<bucket, objects, events, page, count, fresh>>

\* POST /event: the dates are in order, or it is refused (WriteFails).  After the
\* document, the graph may fail, or the answer be lost.
WriteCreate(n) ==
    /\ Doing(n, "write") /\ sub[n].kind = "create" /\ sub[n].start < sub[n].end
    /\ events' = [events EXCEPT ![n] = [stored |-> TRUE, image |-> sub[n].image,
                                       start |-> sub[n].start, end |-> sub[n].end]]
    /\ \E step \in {"written", "failed"} : Become(n, step)
    /\ UNCHANGED <<bucket, objects, page, count, fresh>>

\* PATCH /event/:id: a date that is not sent is the document's.
Updated(s, was) ==
    [was EXCEPT !.image = IF s.image = None THEN @ ELSE s.image,
                !.start = IF s.start = None THEN @ ELSE s.start,
                !.end = IF s.end = None THEN @ ELSE s.end]

WritePatch(n) ==
    LET s == sub[n]
        was == events[s.event]
        next == Updated(s, was)
    IN
    /\ s.step = "write" /\ s.kind = "edit" /\ was.stored
    /\ <<s.start, s.end>> = <<None, None>> \/ next.start <= next.end
    /\ events' = [events EXCEPT ![s.event] = next]
    /\ fresh' = (fresh /\ s.blurred /\ s.from = <<was.start, was.end>>)
    /\ \E step \in {"written", "failed"} : Become(n, step)
    /\ UNCHANGED <<bucket, objects, page, count>>

\* Mutation: the id is read from the page the tab shows by now.
MakeMethodFromTab(n) ==
    /\ Doing(n, "method")
    /\ \/ sub' = [sub EXCEPT ![n].step = "write", ![n].event = page[sub[n].tab].event]
       \/ Become(n, "failed")
    /\ UNCHANGED <<bucket, objects, events, page, count, fresh>>

\* createPaymentMethod resolves, with a method or with an error; the event is then
\* read from the route, which has moved on if the page is shown for another event.
MakeMethod(n) ==
    /\ Doing(n, "method")
    /\ \/ sub' = [sub EXCEPT ![n].step = "write",
                             ![n].event = IF sub[n].live THEN page[sub[n].tab].event ELSE @]
       \/ Become(n, "failed")
    /\ UNCHANGED <<bucket, objects, events, page, count, fresh>>

WritePayment(n) ==
    /\ Doing(n, "write") /\ sub[n].kind = "pay" /\ Become(n, "written")
    /\ UNCHANGED <<bucket, objects, events, page, count, fresh>>

\* It is refused, the event is gone, a store fails, the connection breaks.
WriteFails(n) ==
    /\ Doing(n, "write") /\ Become(n, "failed")
    /\ UNCHANGED <<bucket, objects, events, page, count, fresh>>

Delete(e) ==
    /\ events[e].stored /\ events' = [events EXCEPT ![e] = NoEvent]
    /\ UNCHANGED <<bucket, objects, page, sub, count, fresh>>

\* The requests break off; the bucket is looked for again.
Crash ==
    /\ sub' = [n \in Submits |-> IF sub[n].step \in {"upload", "put", "write"}
                                THEN [sub[n] EXCEPT !.step = "failed"] ELSE sub[n]]
    /\ bucket' \in {bucket, TRUE}
    /\ UNCHANGED <<objects, events, page, count, fresh>>

-----------------------------------------------------------------------------
(* The answers.                                                              *)

\* The event is written with the id of the picture, though the page be left.
Uploaded(n) ==
    /\ Doing(n, "uploaded") /\ Become(n, "write")
    /\ UNCHANGED <<bucket, objects, events, page, count, fresh>>

\* The tab goes on to the payment of a new event, from whatever page it has come to;
\* a payment page it is on already is shown for the new event.
Written(n) ==
    LET s == sub[n]
        t == s.tab
        subs == [sub EXCEPT ![n] = Idle]
    IN
    /\ s.step = "written"
    /\ IF s.kind = "create" /\ page[t].kind = "pay"
       THEN page' = [page EXCEPT ![t].event = n] /\ sub' = subs
       ELSE Show(t, IF s.kind = "create" THEN Payment(n) ELSE Away, subs)
    /\ UNCHANGED <<bucket, objects, events, count, fresh>>

\* Mutation: the spinner of a failed upload is left to turn.
FailedUploadUnseen(n) ==
    LET s == sub[n] IN
    /\ s.step = "failed"
    /\ page' = IF s.live /\ (s.kind = "pay" \/ s.image = None)
               THEN [page EXCEPT ![s.tab].loading = FALSE] ELSE page
    /\ sub' = [sub EXCEPT ![n] = Idle]
    /\ UNCHANGED <<bucket, objects, events, count, fresh>>

\* The spinner stops, and the page shows an error.
Failed(n) ==
    /\ Doing(n, "failed")
    /\ page' = IF sub[n].live THEN [page EXCEPT ![sub[n].tab].loading = FALSE] ELSE page
    /\ sub' = [sub EXCEPT ![n] = Idle]
    /\ UNCHANGED <<bucket, objects, events, count, fresh>>

-----------------------------------------------------------------------------
Visitor(t) == \/ Leave(t) \/ OpenCreate(t) \/ SubmitCreate(t) \/ SubmitEdit(t)
              \/ SubmitPayment(t) \/ StripeArrives(t)
              \/ \E e \in Events : OpenEdit(t, e) \/ OpenPayment(t, e)
Serve(n) == \/ Receive(n) \/ Put(n) \/ UploadFails(n) \/ MakeMethod(n) \/ WriteCreate(n)
            \/ WritePatch(n) \/ WritePayment(n) \/ WriteFails(n)
Reply(n) == Uploaded(n) \/ Written(n) \/ Failed(n)

Next == \/ Crash
        \/ \E t \in Tabs : Visitor(t)
        \/ \E n \in Submits : Serve(n) \/ Reply(n)
        \/ \E e \in Events : Delete(e)

Spec == Init /\ [][Next]_vars
FairSpec == Spec /\ \A n \in Submits : WF_vars(Serve(n)) /\ WF_vars(Reply(n))

-----------------------------------------------------------------------------
(* Properties.                                                               *)

\* The picture of a stored event is there in every size, although an upload may break
\* off half-way, be given up with its page, or overlap another: the id of a picture
\* reaches an event only from the answer that follows the last put.
EventPicturesComplete ==
    \A e \in Events :
      events[e].stored /\ events[e].image # None =>
        \A i \in 1..Len(Sizes) : <<Sizes[i], events[e].image>> \in objects

\* The forms make events of a single day, and keep them so through every edit that
\* was made on a form filled with the dates still stored and submitted after each date
\* field that was changed had been left, whichever others were touched or left as they
\* were: the date of one end never changes without the other's.  A changed field that
\* is submitted with Enter, and so is not touched, does break the day; fresh says that
\* no such edit and no stale one was stored.
SingleDay ==
    fresh => \A e \in Events : events[e].stored => Day(events[e].start) = Day(events[e].end)

\* A form that waits for an answer comes to an end of it, over upload, event and
\* crashes of the server: the spinner stops, or the page is replaced.  A payment form
\* waits for one only if it was submitted with Stripe there: what was submitted before
\* sent nothing, and its spinner may turn for ever, though Stripe arrives.
Waits(t) == \E n \in Submits : sub[n] # Idle /\ sub[n].live /\ sub[n].tab = t
SubmitEnds ==
    \A t \in Tabs : (page[t].loading /\ (page[t].kind = "pay" => Waits(t))) ~> ~page[t].loading
-----------------------------------------------------------------------------
(* What the properties rest on.                                              *)

\* A page that edits an event or pays for it has one; an edit was filled with its dates.
Filled(P) ==
    /\ P.kind \in {"edit", "pay"} => P.event \in Events
    /\ P.kind = "edit" => P.start \in Moments /\ P.end \in Moments

\* A submission that is alive shows on its tab; what is at Stripe is a payment.
Shown(s) ==
    /\ s.live => page[s.tab].kind = s.kind
    /\ s.step = "method" => s.kind = "pay"

\* What is stored of the picture of a submission: the sizes before the next one, and
\* all of them once the submission has left the upload.
PictureSoFar(n, s) ==
    /\ s.image \in {None, n}
    /\ s.step = "upload" => s.next = 1
    /\ s.step = "put" => s.image = n /\ s.next <= Len(Sizes)
    /\ \A i \in 1..(s.next - 1) : <<Sizes[i], n>> \in objects
    /\ s.image # None => s.step \in {"put", "failed"} \/ s.next = Len(Sizes) + 1

\* The dates that are sent: a new event is of one day; two dates of an edit are of one
\* day, and one alone is of the day the form was filled with, if no changed field was
\* left out.
DatesSent(s) ==
    /\ s.kind = "create" =>
         s.start \in Moments /\ s.end \in Moments /\ Day(s.start) = Day(s.end)
    /\ s.kind = "edit" =>
         /\ s.start # None /\ s.end # None => Day(s.start) = Day(s.end)
         /\ s.blurred /\ s.start # None /\ s.end = None => Day(s.start) = Day(s.from[1])
         /\ s.blurred /\ s.start = None /\ s.end # None => Day(s.end) = Day(s.from[1])

Inductive ==
    /\ TypeOK
    /\ \A t \in Tabs : Filled(page[t])
    /\ \A n \in Submits : sub[n] # Idle =>
         Shown(sub[n]) /\ PictureSoFar(n, sub[n]) /\ DatesSent(sub[n])
    /\ EventPicturesComplete /\ SingleDay
=============================================================================
