---------------------------- MODULE Studio_proofs ----------------------------
(***************************************************************************)
(* Proofs about Studio: its type invariant, and that its properties hold   *)
(* for any number of tabs, forms and days.  Every step is looked at twice: *)
(* what it does to the forms, that is the pages and the submissions, and   *)
(* what it does to the stores.                                             *)
(***************************************************************************)
EXTENDS Studio, TLAPS

\* The two halves of Inductive.
Forms ==
    /\ page \in [Tabs -> Page] /\ sub \in [Submits -> {Idle} \cup Sub]
    /\ \A t \in Tabs : Filled(page[t])
    /\ \A n \in Submits : sub[n] # Idle =>
         Shown(sub[n]) /\ PictureSoFar(n, sub[n]) /\ DatesSent(sub[n])

Stores ==
    /\ bucket \in BOOLEAN /\ fresh \in BOOLEAN /\ count \in 0..MaxSubmits
    /\ objects \subseteq {Sizes[i] : i \in 1..Len(Sizes)} \X Submits
    /\ events \in [Events -> Event]
    /\ EventPicturesComplete /\ SingleDay

LEMMA Halves == Inductive <=> Forms /\ Stores
  BY DEF Inductive, Forms, Stores, TypeOK

-----------------------------------------------------------------------------
(* Constants.                                                                *)

LEMMA NoneApart == None \notin Moments /\ None \notin Events /\ None \notin Submits
  BY ConstantsAssumption DEF Events, Submits

LEMMA SubmitsAreEvents ==
    /\ \A n \in Submits : n \in Events
    /\ MaxSubmits \in Nat /\ Submits = 1..MaxSubmits
  BY ConstantsAssumption DEF Events, Submits

LEMMA FiveSizes ==
    /\ Len(Sizes) = 5
    /\ \A i \in 1..Len(Sizes) : Sizes[i] \in {Sizes[j] : j \in 1..Len(Sizes)}
  BY DEF Sizes

LEMMA MomentOfDay ==
    ASSUME NEW d \in Days, NEW h \in Times
    PROVE  At(d, h) \in Moments /\ Day(At(d, h)) = d
<1>1. d \in Nat /\ h \in {0, 1}
  BY ConstantsAssumption DEF Times
<1>2. (2 * d + h) \div 2 = d
  BY <1>1
<1> QED
  BY <1>2 DEF At, Day, Moments

LEMMA FirstMoments == 0 \in Moments /\ 1 \in Moments /\ Day(0) = Day(1)
<1>1. 0 \in Days /\ 0 \in Times /\ 1 \in Times
  BY ConstantsAssumption DEF Times
<1>2. At(0, 0) = 0 /\ At(0, 1) = 1
  BY DEF At
<1> QED
  BY <1>1, <1>2, MomentOfDay

LEMMA MomentsAreNumbers == \A m \in Moments : m \in Int
<1> SUFFICES ASSUME NEW m \in Moments
             PROVE  m \in Int
  OBVIOUS
<1>1. PICK d \in Days, h \in Times : m = At(d, h)
  BY DEF Moments
<1> QED
  BY <1>1, ConstantsAssumption DEF At, Times

-----------------------------------------------------------------------------
(* Records.                                                                  *)

LEMMA SubFields ==
    ASSUME NEW s \in Sub
    PROVE  /\ s.step \in {"upload", "put", "uploaded", "method", "write", "written",
                          "failed"}
           /\ s.tab \in Tabs /\ s.live \in BOOLEAN /\ s.kind \in {"create", "edit", "pay"}
           /\ s.event \in Events /\ s.image \in Submits \cup {None}
           /\ s.next \in 1..(Len(Sizes) + 1)
           /\ s.start \in Moments \cup {None} /\ s.end \in Moments \cup {None}
           /\ s.from \in Moments \X Moments /\ s.blurred \in BOOLEAN
           /\ s # Idle
<1>1. s.step # "idle"
  BY DEF Sub
<1>2. Idle.step = "idle"
  BY DEF Idle
<1>3. s # Idle
  BY <1>1, <1>2
<1> QED
  BY <1>3 DEF Sub

LEMMA DoingSub ==
    ASSUME Forms, NEW n \in Submits, sub[n].step # "idle"
    PROVE  sub[n] \in Sub /\ sub[n] # Idle
<1>1. Idle.step = "idle"
  BY DEF Idle
<1> QED
  BY <1>1 DEF Forms

LEMMA PageFields ==
    ASSUME NEW P \in Page
    PROVE  /\ P.kind \in {"away", "create", "edit", "pay"} /\ P.event \in Events \cup {None}
           /\ P.loading \in BOOLEAN /\ P.stripe \in BOOLEAN
           /\ P.start \in Moments \cup {None} /\ P.end \in Moments \cup {None}
  BY DEF Page

LEMMA AwayPage == Away \in Page /\ Away.kind = "away" /\ Filled(Away)
<1>1. Away.kind = "away"
  BY DEF Away
<1>2. Filled(Away)
  BY <1>1 DEF Filled
<1>3. Away \in Page
  BY DEF Away, Page
<1> QED
  BY <1>1, <1>2, <1>3

LEMMA CreatePage ==
    ASSUME NEW P, P = [Away EXCEPT !.kind = "create"]
    PROVE  P \in Page /\ P.kind = "create" /\ Filled(P)
<1>1. P.kind = "create"
  BY DEF Away
<1>2. Filled(P)
  BY <1>1 DEF Filled
<1>3. P \in Page
  BY DEF Away, Page
<1> QED
  BY <1>1, <1>2, <1>3

LEMMA EditMade ==
    ASSUME NEW e \in Events \cup {None},
           NEW a \in Moments \cup {None}, NEW b \in Moments \cup {None}, NEW P,
           P = [kind |-> "edit", event |-> e, loading |-> FALSE, stripe |-> FALSE,
                start |-> a, end |-> b]
    PROVE  P \in Page
  BY DEF Page

LEMMA EditPage ==
    ASSUME NEW e \in Events, NEW a \in Moments, NEW b \in Moments, NEW P,
           P = [Away EXCEPT !.kind = "edit", !.event = e, !.start = a, !.end = b]
    PROVE  P \in Page /\ P.kind = "edit" /\ Filled(P)
<1>1. P = [kind |-> "edit", event |-> e, loading |-> FALSE, stripe |-> FALSE,
           start |-> a, end |-> b]
  BY DEF Away
<1>2. Filled(P)
  BY <1>1 DEF Filled
<1>3. P \in Page
  <2>1. /\ e \in Events \cup {None} /\ a \in Moments \cup {None} /\ b \in Moments \cup {None}
    OBVIOUS
  <2> QED
    BY <1>1, <2>1, EditMade
<1> QED
  BY <1>1, <1>2, <1>3

LEMMA PaymentPage ==
    ASSUME NEW e \in Events, NEW P, P = Payment(e)
    PROVE  P \in Page /\ P.kind = "pay" /\ Filled(P)
<1>1. P = [kind |-> "pay", event |-> e, loading |-> FALSE, stripe |-> FALSE,
           start |-> None, end |-> None]
  BY DEF Away, Payment
<1>2. Filled(P)
  BY <1>1 DEF Filled
<1>3. P \in Page
  BY <1>1 DEF Page
<1> QED
  BY <1>1, <1>2, <1>3

\* A page whose spinner is set, that gets Stripe, or that is shown for another event.
LEMMA PageSpinner ==
    ASSUME NEW P \in Page, Filled(P), NEW b \in BOOLEAN, NEW Q, Q = [P EXCEPT !.loading = b]
    PROVE  Q \in Page /\ Q.kind = P.kind /\ Filled(Q)
<1>1. /\ Q.kind = P.kind /\ Q.event = P.event /\ Q.loading = b /\ Q.stripe = P.stripe
      /\ Q.start = P.start /\ Q.end = P.end
  BY DEF Page
<1>2. Filled(Q)
  BY <1>1 DEF Filled
<1>3. Q \in Page
  BY DEF Page
<1> QED
  BY <1>1, <1>2, <1>3

LEMMA PageStripe ==
    ASSUME NEW P \in Page, Filled(P), NEW Q, Q = [P EXCEPT !.stripe = TRUE]
    PROVE  Q \in Page /\ Q.kind = P.kind /\ Filled(Q)
<1>1. /\ Q.kind = P.kind /\ Q.event = P.event /\ Q.loading = P.loading /\ Q.stripe = TRUE
      /\ Q.start = P.start /\ Q.end = P.end
  BY DEF Page
<1>2. Filled(Q)
  BY <1>1 DEF Filled
<1>3. Q \in Page
  BY DEF Page
<1> QED
  BY <1>1, <1>2, <1>3

LEMMA PageMoves ==
    ASSUME NEW P \in Page, Filled(P), NEW e \in Events, NEW Q, Q = [P EXCEPT !.event = e]
    PROVE  Q \in Page /\ Q.kind = P.kind /\ Filled(Q)
<1>1. /\ Q.kind = P.kind /\ Q.event = e /\ Q.loading = P.loading /\ Q.stripe = P.stripe
      /\ Q.start = P.start /\ Q.end = P.end
  BY DEF Page
<1>2. Filled(Q)
  BY <1>1 DEF Filled
<1>3. Q \in Page
  BY DEF Page
<1> QED
  BY <1>1, <1>2, <1>3

-----------------------------------------------------------------------------
(* What the submissions keep.                                                *)

\* s2 sends what s sends, and is alive only if s is.
Sends(s, s2) ==
    /\ s2.tab = s.tab /\ (s2.live => s.live) /\ s2.kind = s.kind
    /\ s2.start = s.start /\ s2.end = s.end /\ s2.from = s.from /\ s2.blurred = s.blurred

LEMMA SentDates ==
    ASSUME NEW s, NEW s2, Sends(s, s2), DatesSent(s)
    PROVE  DatesSent(s2)
  BY DEF Sends, DatesSent

LEMMA Detached ==
    ASSUME NEW s \in Sub, NEW s2, s2 = Detach(s),
           s.live /\ s.step = "method" => page[s.tab].event \in Events
    PROVE  /\ s2 \in Sub /\ ~s2.live /\ Sends(s, s2)
           /\ s2.step = s.step /\ s2.image = s.image /\ s2.next = s.next
<1>1. PICK e : e = IF s.live /\ s.step = "method" THEN page[s.tab].event ELSE s.event
  OBVIOUS
<1>2. e \in Events
  BY <1>1, SubFields
<1>3. s2 = [s EXCEPT !.live = FALSE, !.event = e]
  BY <1>1 DEF Detach
<1>4. s2 \in Sub
  BY <1>2, <1>3 DEF Sub
<1> QED
  BY <1>3, <1>4 DEF Sub, Sends

LEMMA SamePicture ==
    ASSUME NEW n \in Submits, NEW s, NEW s2, PictureSoFar(n, s), objects \subseteq objects',
           s2.step = s.step, s2.image = s.image, s2.next = s.next
    PROVE  PictureSoFar(n, s2)'
  BY DEF PictureSoFar

\* Forms that a step leaves alone, while objects are only added.
LEMMA QuietForms ==
    ASSUME Forms, page' = page, sub' = sub, objects \subseteq objects'
    PROVE  Forms'
<1>1. \A n \in Submits : sub[n] # Idle =>
        Shown(sub[n])' /\ PictureSoFar(n, sub[n])' /\ DatesSent(sub[n])'
  <2> SUFFICES ASSUME NEW n \in Submits, sub[n] # Idle
               PROVE  Shown(sub[n])' /\ PictureSoFar(n, sub[n])' /\ DatesSent(sub[n])'
    OBVIOUS
  <2>1. Shown(sub[n]) /\ PictureSoFar(n, sub[n]) /\ DatesSent(sub[n])
    BY DEF Forms
  <2>2. PictureSoFar(n, sub[n])'
    BY <2>1 DEF PictureSoFar
  <2> QED
    BY <2>1, <2>2 DEF Shown, DatesSent
<1> QED
  BY <1>1 DEF Forms, Filled, Shown, DatesSent

LEMMA QuietStores ==
    ASSUME Stores, UNCHANGED <<bucket, objects, events, count, fresh>>
    PROVE  Stores'
  BY DEF Stores, EventPicturesComplete, SingleDay

\* A page is replaced; the submissions are as before, but for those that end.
LEMMA PageShown ==
    ASSUME Forms, NEW t \in Tabs, NEW P \in Page, Filled(P),
           NEW subs \in [Submits -> {Idle} \cup Sub], \A n \in Submits : subs[n] \in {Idle, sub[n]},
           Show(t, P, subs), objects' = objects
    PROVE  Forms'
<1>1. /\ page' \in [Tabs -> Page] /\ page'[t] = P /\ \A x \in Tabs \ {t} : page'[x] = page[x]
  BY DEF Show, Forms
<1>2. ASSUME NEW n \in Submits
      PROVE  /\ sub'[n] \in {Idle} \cup Sub
             /\ sub'[n] # Idle => /\ Shown(sub[n])' /\ PictureSoFar(n, sub[n])'
                                  /\ DatesSent(sub[n])'
  <2>1. sub'[n] = IF subs[n] # Idle /\ subs[n].tab = t THEN Detach(subs[n]) ELSE subs[n]
    BY DEF Show
  <2>2. CASE subs[n] = Idle
    BY <2>1, <2>2
  <2>3. CASE subs[n] # Idle
    <3>1. subs[n] = sub[n] /\ sub[n] \in Sub
      BY <2>3 DEF Forms
    <3>2. Shown(sub[n]) /\ PictureSoFar(n, sub[n]) /\ DatesSent(sub[n])
      BY <2>3, <3>1 DEF Forms
    <3>3. CASE sub[n].tab = t
      <4>1. sub'[n] = Detach(sub[n])
        BY <2>1, <2>3, <3>1, <3>3
      <4>2. PICK s3 : s3 = Detach(sub[n])
        OBVIOUS
      <4>3. /\ s3 \in Sub /\ ~s3.live /\ Sends(sub[n], s3)
            /\ s3.step = sub[n].step /\ s3.image = sub[n].image /\ s3.next = sub[n].next
        <5>1. sub[n].live /\ sub[n].step = "method" => page[sub[n].tab].event \in Events
          BY <3>2, <3>3 DEF Shown, Forms, Filled
        <5> QED
          BY <3>1, <4>2, <5>1, Detached
      <4>4. DatesSent(s3)
        BY <3>2, <4>3, SentDates
      <4>5. PictureSoFar(n, s3)'
        BY <3>2, <4>3 DEF PictureSoFar
      <4>6. Shown(s3)'
        BY <3>2, <4>3 DEF Shown, Sends
      <4> QED
        BY <4>1, <4>2, <4>3, <4>4, <4>5, <4>6 DEF Shown, PictureSoFar
    <3>4. CASE sub[n].tab # t
      <4>1. sub'[n] = sub[n]
        BY <2>1, <3>1, <3>4
      <4>2. sub[n].tab \in Tabs \ {t}
        BY <3>1, <3>4, SubFields
      <4>3. page'[sub[n].tab] = page[sub[n].tab]
        BY <1>1, <4>2
      <4> QED
        BY <3>1, <3>2, <4>1, <4>3 DEF Shown, PictureSoFar
    <3> QED
      BY <3>3, <3>4
  <2> QED
    BY <2>2, <2>3
<1>3. sub' \in [Submits -> {Idle} \cup Sub]
  <2>1. sub' = [n \in Submits |-> sub'[n]]
    BY DEF Show
  <2> QED
    BY <1>2, <2>1
<1>4. \A x \in Tabs : Filled(page'[x])
  <2>1. \A x \in Tabs : Filled(page[x])
    BY DEF Forms
  <2> QED
    BY <1>1, <2>1
<1> QED
  BY <1>1, <1>2, <1>3, <1>4 DEF Forms, Filled, DatesSent

\* One submission goes on, or begins, or ends; the kinds of the pages stay.
LEMMA SubmissionGoesOn ==
    ASSUME Forms, NEW n \in Submits, NEW S \in {Idle} \cup Sub,
           sub' = [sub EXCEPT ![n] = S],
           S # Idle => Shown(S) /\ PictureSoFar(n, S)' /\ DatesSent(S),
           objects \subseteq objects', page' \in [Tabs -> Page],
           \A t \in Tabs : page'[t].kind = page[t].kind /\ Filled(page'[t])
    PROVE  Forms'
<1>1. /\ sub' \in [Submits -> {Idle} \cup Sub] /\ sub'[n] = S
      /\ \A m \in Submits \ {n} : sub'[m] = sub[m]
  BY DEF Forms
<1>2. ASSUME NEW m \in Submits, sub'[m] # Idle
      PROVE  Shown(sub[m])' /\ PictureSoFar(m, sub[m])' /\ DatesSent(sub[m])'
  <2>1. PICK s : s = sub'[m]
    OBVIOUS
  <2>2. s \in Sub
    BY <1>1, <1>2, <2>1
  <2>3. s.tab \in Tabs
    BY <2>2, SubFields
  <2>4. Shown(s) /\ PictureSoFar(m, s)' /\ DatesSent(s)
    <3>1. CASE m = n
      BY <1>1, <1>2, <2>1, <3>1
    <3>2. CASE m # n
      <4>1. s = sub[m]
        BY <1>1, <2>1, <3>2
      <4>2. Shown(s) /\ PictureSoFar(m, s) /\ DatesSent(s)
        BY <1>2, <2>1, <4>1 DEF Forms
      <4> QED
        BY <4>2 DEF PictureSoFar
    <3> QED
      BY <3>1, <3>2
  <2>5. Shown(s)'
    BY <2>3, <2>4 DEF Shown
  <2> QED
    BY <2>1, <2>4, <2>5 DEF Shown, PictureSoFar
<1> QED
  BY <1>1, <1>2 DEF Forms, Filled, DatesSent

-----------------------------------------------------------------------------
(* The forms: what the visitor does.                                         *)

LEMMA SubsKept ==
    ASSUME Forms
    PROVE  /\ sub \in [Submits -> {Idle} \cup Sub]
           /\ \A n \in Submits : sub[n] \in {Idle, sub[n]}
  BY DEF Forms

LEMMA PagesOpened ==
    ASSUME Forms, Stores, NEW t \in Tabs,
           \/ Leave(t)
           \/ OpenCreate(t)
           \/ \E e \in Events : OpenEdit(t, e) \/ OpenPayment(t, e)
    PROVE  Forms' /\ Stores'
<1>1. ASSUME NEW P \in Page, Filled(P), Show(t, P, sub),
             UNCHANGED <<bucket, objects, events, count, fresh>>
      PROVE  Forms' /\ Stores'
  BY <1>1, SubsKept, PageShown, QuietStores
<1>2. CASE Leave(t)
  BY <1>1, <1>2, AwayPage DEF Leave
<1>3. CASE OpenCreate(t)
  <2>1. PICK P : P = [Away EXCEPT !.kind = "create"]
    OBVIOUS
  <2> QED
    BY <1>1, <1>3, <2>1, CreatePage DEF OpenCreate
<1>4. ASSUME NEW e \in Events, OpenEdit(t, e)
      PROVE  Forms' /\ Stores'
  <2>1. events[e].start \in Moments /\ events[e].end \in Moments
    BY DEF Stores, Event
  <2>2. PICK P : P = [Away EXCEPT !.kind = "edit", !.event = e, !.start = events[e].start,
                                  !.end = events[e].end]
    OBVIOUS
  <2>3. P \in Page /\ Filled(P)
    BY <2>1, <2>2, EditPage
  <2> QED
    BY <1>1, <1>4, <2>2, <2>3 DEF OpenEdit
<1>5. ASSUME NEW e \in Events, OpenPayment(t, e)
      PROVE  Forms' /\ Stores'
  <2>1. PICK P : P = Payment(e)
    OBVIOUS
  <2> QED
    BY <1>1, <1>5, <2>1, PaymentPage DEF OpenPayment
<1> QED
  BY <1>2, <1>3, <1>4, <1>5

\* A page whose spinner turns, or stops.
LEMMA SpinnerPages ==
    ASSUME Forms, NEW t \in Tabs, NEW b \in BOOLEAN, page' = [page EXCEPT ![t].loading = b]
    PROVE  /\ page' \in [Tabs -> Page]
           /\ \A x \in Tabs : page'[x].kind = page[x].kind /\ Filled(page'[x])
<1>1. page[t] \in Page /\ Filled(page[t]) /\ \A x \in Tabs : Filled(page[x])
  BY DEF Forms
<1>2. PICK Q : Q = [page[t] EXCEPT !.loading = b]
  OBVIOUS
<1>3. Q \in Page /\ Q.kind = page[t].kind /\ Filled(Q)
  BY <1>1, <1>2, PageSpinner
<1>4. page' = [page EXCEPT ![t] = Q]
  BY <1>2
<1>5. \A x \in Tabs : page'[x] = IF x = t THEN Q ELSE page[x]
  BY <1>4 DEF Forms
<1>6. page' \in [Tabs -> Page]
  BY <1>3, <1>4 DEF Forms
<1> QED
  BY <1>1, <1>3, <1>5, <1>6

\* The submissions go on as they are while a spinner turns.
LEMMA SpinnersTurn ==
    ASSUME Forms, sub' = sub, objects' = objects, page' \in [Tabs -> Page],
           \A x \in Tabs : page'[x].kind = page[x].kind /\ Filled(page'[x])
    PROVE  Forms'
<1>1. ASSUME NEW n \in Submits, sub[n] # Idle
      PROVE  Shown(sub[n])' /\ PictureSoFar(n, sub[n])' /\ DatesSent(sub[n])'
  <2>1. sub[n].tab \in Tabs
    BY <1>1, SubFields DEF Forms
  <2>2. Shown(sub[n]) /\ PictureSoFar(n, sub[n]) /\ DatesSent(sub[n])
    BY <1>1 DEF Forms
  <2> QED
    BY <2>1, <2>2 DEF Shown, PictureSoFar, DatesSent
<1> QED
  BY <1>1 DEF Forms, Filled, Shown, PictureSoFar, DatesSent

LEMMA StripeCame ==
    ASSUME Forms, Stores, NEW t \in Tabs, StripeArrives(t)
    PROVE  Forms' /\ Stores'
<1>1. page[t] \in Page /\ Filled(page[t]) /\ \A x \in Tabs : Filled(page[x])
  BY DEF Forms
<1>2. PICK Q : Q = [page[t] EXCEPT !.stripe = TRUE]
  OBVIOUS
<1>3. Q \in Page /\ Q.kind = page[t].kind /\ Filled(Q)
  BY <1>1, <1>2, PageStripe
<1>4. page' = [page EXCEPT ![t] = Q]
  BY <1>2 DEF StripeArrives
<1>5. \A x \in Tabs : page'[x] = IF x = t THEN Q ELSE page[x]
  BY <1>4 DEF Forms
<1>6. page' \in [Tabs -> Page]
  BY <1>3, <1>4 DEF Forms
<1>7. UNCHANGED <<bucket, objects, events, sub, count, fresh>>
  BY DEF StripeArrives
<1>8. Forms'
  BY <1>1, <1>3, <1>5, <1>6, <1>7, SpinnersTurn
<1> QED
  BY <1>7, <1>8, QuietStores

\* A new submission has no picture, and is one of the page that is shown.
LEMMA Begun ==
    ASSUME Forms, Stores, NEW t \in Tabs, NEW kind \in {"create", "edit", "pay"},
           NEW step \in {"upload", "method", "write"}, NEW e \in Events,
           NEW a \in Moments \cup {None}, NEW b \in Moments \cup {None},
           NEW from \in Moments \X Moments, NEW blurred \in BOOLEAN, NEW S,
           S = Submission(t, kind, step, e, a, b, from, blurred),
           page[t].kind = kind, step = "method" => kind = "pay", DatesSent(S), Begin(t, S)
    PROVE  Forms' /\ Stores'
<1>1. S = [step |-> step, tab |-> t, live |-> TRUE, kind |-> kind, event |-> e, image |-> None,
           next |-> 1, start |-> a, end |-> b, from |-> from, blurred |-> blurred]
  BY DEF Submission
<1>2. S \in Sub
  <2>1. 1 \in 1..(Len(Sizes) + 1) /\ None \in Submits \cup {None}
    BY FiveSizes
  <2>2. /\ step \in {"upload", "put", "uploaded", "method", "write", "written",
                     "failed"}
        /\ TRUE \in BOOLEAN
    OBVIOUS
  <2> QED
    BY <1>1, <2>1, <2>2, SMT DEF Sub
<1>3. Shown(S)
  BY <1>1 DEF Shown
<1>4. PICK n : n = count + 1
  OBVIOUS
<1>5. n \in Submits /\ count' \in 0..MaxSubmits
  BY <1>4, SubmitsAreEvents DEF Begin, Stores
<1>6. objects' = objects /\ page' = [page EXCEPT ![t].loading = TRUE]
      /\ sub' = [sub EXCEPT ![n] = S]
  BY <1>4 DEF Begin
<1>7. PictureSoFar(n, S)'
  <2>1. S.image = None /\ S.next = 1 /\ S.step # "put" /\ 1..(S.next - 1) = {}
    BY <1>1
  <2> QED
    BY <2>1 DEF PictureSoFar
<1>8. Forms'
  BY <1>2, <1>3, <1>5, <1>6, <1>7, SpinnerPages, SubmissionGoesOn
<1>9. Stores'
  BY <1>5 DEF Begin, Stores, EventPicturesComplete, SingleDay
<1> QED
  BY <1>8, <1>9

LEMMA CreateSubmitted ==
    ASSUME Forms, Stores, NEW t \in Tabs, SubmitCreate(t)
    PROVE  Forms' /\ Stores'
<1>1. PICK d \in Days, h \in Hours, step \in {"upload", "write"} :
        Begin(t, Submission(t, "create", step, count + 1, At(d, h[1]), At(d, h[2]),
                            <<0, 0>>, TRUE))
  BY DEF SubmitCreate
<1>2. h[1] \in Times /\ h[2] \in Times
  BY ConstantsAssumption
<1>3. PICK a, b : a = At(d, h[1]) /\ b = At(d, h[2])
  OBVIOUS
<1>4. a \in Moments /\ b \in Moments /\ Day(a) = Day(b)
  BY <1>2, <1>3, MomentOfDay
<1>5. PICK e, S : e = count + 1 /\ S = Submission(t, "create", step, e, a, b, <<0, 0>>, TRUE)
  OBVIOUS
<1>6. e \in Events
  BY <1>1, <1>5, SubmitsAreEvents DEF Begin, Stores
<1>7. S.kind = "create" /\ S.start = a /\ S.end = b
  BY <1>5 DEF Submission
<1>8. DatesSent(S)
  BY <1>4, <1>7 DEF DatesSent
<1>9. Begin(t, S) /\ page[t].kind = "create"
  BY <1>1, <1>3, <1>5 DEF SubmitCreate
<1>10. <<0, 0>> \in Moments \X Moments
  BY FirstMoments
<1> QED
  BY <1>4, <1>5, <1>6, <1>8, <1>9, <1>10, Begun

LEMMA EditSubmitted ==
    ASSUME Forms, Stores, NEW t \in Tabs, SubmitEdit(t)
    PROVE  Forms' /\ Stores'
<1>1. PICK was : was = <<page[t].start, page[t].end>>
  OBVIOUS
<1>2. page[t].kind = "edit"
  BY DEF SubmitEdit
<1>3. /\ page[t].event \in Events /\ was \in Moments \X Moments
      /\ was[1] = page[t].start
  BY <1>1, <1>2 DEF Forms, Filled
<1>4. PICK touched \in SUBSET {"date", "start", "end"}, d \in Days, h \in Hours,
           step \in {"upload", "write"}, blurred \in BOOLEAN :
        /\ blurred => "date" \in touched \/ d = Day(was[1])
        /\ Begin(t, Submission(t, "edit", step, page[t].event,
                              PatchDates(d, h[1], h[2], touched)[1],
                              PatchDates(d, h[1], h[2], touched)[2], was, blurred))
  BY <1>1, ZenonT(40) DEF SubmitEdit
<1>5. h[1] \in Times /\ h[2] \in Times
  BY ConstantsAssumption
<1>6. PICK a, b : a = At(d, h[1]) /\ b = At(d, h[2])
  OBVIOUS
<1>7. a \in Moments /\ b \in Moments /\ Day(a) = d /\ Day(b) = d
  BY <1>5, <1>6, MomentOfDay
<1>8. PICK x, y : /\ x = IF touched \cap {"date", "start"} # {} THEN a ELSE None
                  /\ y = IF touched \cap {"date", "end"} # {} THEN b ELSE None
  OBVIOUS
<1>9. PatchDates(d, h[1], h[2], touched) = <<x, y>>
  BY <1>6, <1>8 DEF PatchDates
<1>10. PICK S, e : e = page[t].event /\ S = Submission(t, "edit", step, e, x, y, was, blurred)
  OBVIOUS
<1>11. Begin(t, S)
  BY <1>4, <1>9, <1>10
<1>12. S.kind = "edit" /\ S.start = x /\ S.end = y /\ S.from = was /\ S.blurred = blurred
  BY <1>10 DEF Submission
<1>13. DatesSent(S)
  <2>1. x \in {a, None} /\ y \in {b, None}
    BY <1>8
  <2>2. x # None /\ y # None => Day(x) = Day(y)
    BY <1>7, <2>1
  <2>3. (x = None \/ y = None) => "date" \notin touched
    BY <1>7, <1>8, NoneApart
  <2>4. blurred /\ (x = None \/ y = None) => d = Day(was[1])
    BY <1>4, <2>3
  <2>5. blurred /\ x # None /\ y = None => Day(x) = Day(was[1])
    BY <1>7, <2>1, <2>4
  <2>6. blurred /\ x = None /\ y # None => Day(y) = Day(was[1])
    BY <1>7, <2>1, <2>4
  <2> QED
    BY <1>12, <2>2, <2>5, <2>6 DEF DatesSent
<1>14. e \in Events /\ x \in Moments \cup {None} /\ y \in Moments \cup {None}
  BY <1>3, <1>7, <1>8, <1>10
<1>15. "edit" \in {"create", "edit", "pay"} /\ step # "method"
  BY <1>4
<1> QED
  BY <1>2, <1>3, <1>4, <1>10, <1>11, <1>13, <1>14, <1>15, Begun

LEMMA PaymentSubmitted ==
    ASSUME Forms, Stores, NEW t \in Tabs, SubmitPayment(t)
    PROVE  Forms' /\ Stores'
<1>1. CASE page[t].stripe
  <2>1. PICK S : S = Submission(t, "pay", "method", page[t].event, None, None,
                               <<0, 0>>, TRUE)
    OBVIOUS
  <2>2. Begin(t, S) /\ page[t].kind = "pay"
    BY <1>1, <2>1 DEF SubmitPayment
  <2>3. page[t].event \in Events
    BY <2>2 DEF Forms, Filled
  <2>4. S.kind = "pay"
    BY <2>1 DEF Submission
  <2>5. DatesSent(S)
    BY <2>4 DEF DatesSent
  <2>6. <<0, 0>> \in Moments \X Moments
    BY FirstMoments
  <2> QED
    BY <2>1, <2>2, <2>3, <2>5, <2>6, Begun
<1>2. CASE ~page[t].stripe
  <2>1. /\ page' = [page EXCEPT ![t].loading = TRUE]
        /\ UNCHANGED <<bucket, objects, events, sub, count, fresh>>
    BY <1>2 DEF SubmitPayment
  <2>2. /\ page' \in [Tabs -> Page]
        /\ \A x \in Tabs : page'[x].kind = page[x].kind /\ Filled(page'[x])
    BY <2>1, SpinnerPages
  <2>3. Forms'
    BY <2>1, <2>2, SpinnersTurn
  <2> QED
    BY <2>1, <2>3, QuietStores
<1> QED
  BY <1>1, <1>2

-----------------------------------------------------------------------------
(* The forms: what the server does, and the answers.                         *)

\* The pages stay, and with them the kinds that SubmissionGoesOn asks for.
LEMMA PagesStay ==
    ASSUME Forms, page' = page
    PROVE  /\ page' \in [Tabs -> Page]
           /\ \A t \in Tabs : page'[t].kind = page[t].kind /\ Filled(page'[t])
  BY DEF Forms

\* A submission whose picture is stored, or that has none, takes a step.
LEMMA StepTaken ==
    ASSUME Forms, NEW n \in Submits, sub[n] # Idle,
           NEW step \in {"uploaded", "write", "written", "failed"},
           Become(n, step), page' = page, objects' = objects,
           step # "failed" => sub[n].step \notin {"put", "failed"}
    PROVE  Forms'
<1>1. sub[n] \in Sub /\ Shown(sub[n]) /\ PictureSoFar(n, sub[n]) /\ DatesSent(sub[n])
  BY DEF Forms
<1>2. PICK S : S = [sub[n] EXCEPT !.step = step]
  OBVIOUS
<1>3. S \in Sub
  BY <1>1, <1>2 DEF Sub
<1>4. /\ S.step = step /\ S.image = sub[n].image /\ S.next = sub[n].next
      /\ S.live = sub[n].live /\ S.tab = sub[n].tab /\ S.kind = sub[n].kind
      /\ Sends(sub[n], S)
  BY <1>1, <1>2 DEF Sub, Sends
<1>5. DatesSent(S)
  BY <1>1, <1>4, SentDates
<1>6. Shown(S)
  BY <1>1, <1>4 DEF Shown
<1>7. PictureSoFar(n, S)'
  BY <1>1, <1>4 DEF PictureSoFar
<1>8. sub' = [sub EXCEPT ![n] = S]
  BY <1>2 DEF Become
<1> QED
  BY <1>3, <1>5, <1>6, <1>7, <1>8, PagesStay, SubmissionGoesOn

LEMMA ReceiveForms ==
    ASSUME Forms, NEW n \in Submits, Receive(n)
    PROVE  Forms'
<1>1. sub[n] \in Sub /\ sub[n] # Idle /\ sub[n].step = "upload"
  BY DoingSub DEF Receive, Doing
<1>2. Shown(sub[n]) /\ PictureSoFar(n, sub[n]) /\ DatesSent(sub[n])
  BY <1>1 DEF Forms
<1>3. PICK S : S = [sub[n] EXCEPT !.step = "put", !.image = n]
  OBVIOUS
<1>4. S \in Sub
  BY <1>1, <1>3 DEF Sub
<1>5. /\ S.step = "put" /\ S.image = n /\ S.next = sub[n].next
      /\ S.live = sub[n].live /\ S.tab = sub[n].tab /\ S.kind = sub[n].kind
      /\ Sends(sub[n], S)
  BY <1>1, <1>3 DEF Sub, Sends
<1>6. DatesSent(S) /\ Shown(S)
  BY <1>2, <1>5, SentDates DEF Shown
<1>7. objects' = objects /\ page' = page /\ sub' = [sub EXCEPT ![n] = S]
  BY <1>3 DEF Receive
<1>8. PictureSoFar(n, S)'
  BY <1>1, <1>2, <1>5, <1>7, FiveSizes DEF PictureSoFar
<1> QED
  BY <1>4, <1>6, <1>7, <1>8, PagesStay, SubmissionGoesOn

LEMMA PutForms ==
    ASSUME Forms, NEW n \in Submits, Put(n)
    PROVE  Forms'
<1>1. sub[n] \in Sub /\ sub[n] # Idle /\ sub[n].step = "put"
  BY DoingSub DEF Put, Doing
<1>2. Shown(sub[n]) /\ PictureSoFar(n, sub[n]) /\ DatesSent(sub[n])
  BY <1>1 DEF Forms
<1>3. sub[n].image = n /\ sub[n].next \in 1..Len(Sizes) /\ Len(Sizes) = 5
  BY <1>1, <1>2, SubFields, FiveSizes DEF PictureSoFar
<1>4. PICK x, st : /\ x = sub[n].next + 1
                   /\ st = IF sub[n].next = Len(Sizes) THEN "uploaded" ELSE "put"
  OBVIOUS
<1>5. PICK S : S = [sub[n] EXCEPT !.next = x, !.step = st]
  OBVIOUS
<1>6. S \in Sub
  <2>1. x \in 1..(Len(Sizes) + 1) /\ st \in {"put", "uploaded"}
    BY <1>3, <1>4
  <2> QED
    BY <1>1, <1>5, <2>1 DEF Sub
<1>7. /\ S.step = st /\ S.image = n /\ S.next = x
      /\ S.live = sub[n].live /\ S.tab = sub[n].tab /\ S.kind = sub[n].kind
      /\ Sends(sub[n], S)
  BY <1>1, <1>3, <1>5 DEF Sub, Sends
<1>8. DatesSent(S) /\ Shown(S)
  <2>1. st # "method"
    BY <1>4
  <2> QED
    BY <1>2, <1>7, <2>1, SentDates DEF Shown
<1>9. /\ objects' = objects \cup {<<Sizes[sub[n].next], n>>} /\ page' = page
      /\ sub' = [sub EXCEPT ![n] = S]
  BY <1>1, <1>4, <1>5 DEF Put
<1>10. PictureSoFar(n, S)'
  <2>1. \A i \in 1..(x - 1) : <<Sizes[i], n>> \in objects'
    <3> SUFFICES ASSUME NEW i \in 1..(x - 1)
                 PROVE  <<Sizes[i], n>> \in objects'
      OBVIOUS
    <3>1. i \in 1..(sub[n].next - 1) \/ i = sub[n].next
      BY <1>3, <1>4
    <3> QED
      BY <1>2, <1>9, <3>1 DEF PictureSoFar
  <2>2. st = "put" => x <= Len(Sizes)
    BY <1>3, <1>4
  <2>3. st # "put" => x = Len(Sizes) + 1
    BY <1>3, <1>4
  <2>4. st \in {"put", "uploaded"}
    BY <1>4
  <2> QED
    BY <1>7, <2>1, <2>2, <2>3, <2>4 DEF PictureSoFar
<1> QED
  BY <1>6, <1>8, <1>9, <1>10, PagesStay, SubmissionGoesOn

\* A payment page that is still shown has an event.
LEMMA MakeMethodForms ==
    ASSUME Forms, NEW n \in Submits, MakeMethod(n)
    PROVE  Forms'
<1>1. sub[n] \in Sub /\ sub[n] # Idle /\ sub[n].step = "method"
  BY DoingSub DEF MakeMethod, Doing
<1>2. Shown(sub[n]) /\ PictureSoFar(n, sub[n]) /\ DatesSent(sub[n])
  BY <1>1 DEF Forms
<1>3. page' = page /\ objects' = objects
  BY DEF MakeMethod
<1>4. CASE Become(n, "failed")
  BY <1>1, <1>3, <1>4, StepTaken
<1>5. ASSUME NEW e, e = (IF sub[n].live THEN page[sub[n].tab].event ELSE sub[n].event),
             NEW S, S = [sub[n] EXCEPT !.step = "write", !.event = e],
             sub' = [sub EXCEPT ![n] = S]
      PROVE  Forms'
  <2>1. e \in Events
    <3>1. sub[n].tab \in Tabs /\ sub[n].event \in Events
      BY <1>1, SubFields
    <3>2. sub[n].live => page[sub[n].tab].event \in Events
      BY <1>1, <1>2, <3>1 DEF Forms, Filled, Shown
    <3> QED
      BY <1>5, <3>1, <3>2
  <2>2. S \in Sub
    BY <1>1, <1>5, <2>1 DEF Sub
  <2>3. /\ S.step = "write" /\ S.image = sub[n].image /\ S.next = sub[n].next
        /\ S.live = sub[n].live /\ S.tab = sub[n].tab /\ S.kind = sub[n].kind
        /\ Sends(sub[n], S)
    BY <1>1, <1>5 DEF Sub, Sends
  <2>4. DatesSent(S) /\ Shown(S)
    BY <1>2, <2>3, SentDates DEF Shown
  <2>5. PictureSoFar(n, S)'
    BY <1>1, <1>2, <1>3, <2>3 DEF PictureSoFar
  <2> QED
    BY <1>3, <1>5, <2>2, <2>4, <2>5, PagesStay, SubmissionGoesOn
<1> QED
  BY <1>4, <1>5 DEF MakeMethod

LEMMA ServeForms ==
    ASSUME Forms, NEW n \in Submits, Serve(n)
    PROVE  Forms'
<1>1. ASSUME NEW step \in {"written", "failed"}, Doing(n, "write"), Become(n, step),
             page' = page, objects' = objects
      PROVE  Forms'
  BY <1>1, DoingSub, StepTaken DEF Doing
<1>2. CASE UploadFails(n)
  <2>1. sub[n] # Idle
    BY <1>2, DoingSub DEF UploadFails, Doing
  <2> QED
    BY <1>2, <2>1, StepTaken DEF UploadFails
<1>3. CASE WriteCreate(n)
  BY <1>1, <1>3 DEF WriteCreate
<1>4. CASE WritePatch(n)
  BY <1>1, <1>4 DEF WritePatch, Doing
<1>5. CASE WritePayment(n)
  BY <1>1, <1>5 DEF WritePayment
<1>6. CASE WriteFails(n)
  BY <1>1, <1>6 DEF WriteFails
<1> QED
  BY <1>2, <1>3, <1>4, <1>5, <1>6, ReceiveForms, PutForms, MakeMethodForms DEF Serve

\* A submission that is answered.
LEMMA SubmissionEnds ==
    ASSUME Forms, NEW n \in Submits, sub' = [sub EXCEPT ![n] = Idle], objects' = objects,
           page' \in [Tabs -> Page],
           \A t \in Tabs : page'[t].kind = page[t].kind /\ Filled(page'[t])
    PROVE  Forms'
  BY SubmissionGoesOn

LEMMA WrittenForms ==
    ASSUME Forms, NEW n \in Submits, Written(n)
    PROVE  Forms'
<1>1. sub[n] \in Sub /\ objects' = objects
  BY DoingSub DEF Written
<1>2. PICK t : t = sub[n].tab
  OBVIOUS
<1>3. t \in Tabs
  BY <1>1, <1>2, SubFields
<1>4. PICK subs : subs = [sub EXCEPT ![n] = Idle]
  OBVIOUS
<1>5. CASE sub[n].kind = "create" /\ page[t].kind = "pay"
  <2>1. page' = [page EXCEPT ![t].event = n] /\ sub' = subs
    BY <1>2, <1>4, <1>5 DEF Written
  <2>2. PICK Q : Q = [page[t] EXCEPT !.event = n]
    OBVIOUS
  <2>3. page[t] \in Page /\ \A x \in Tabs : Filled(page[x])
    BY <1>3 DEF Forms
  <2>4. Q \in Page /\ Q.kind = page[t].kind /\ Filled(Q)
    BY <1>3, <2>2, <2>3, SubmitsAreEvents, PageMoves
  <2>5. page' = [page EXCEPT ![t] = Q]
    BY <2>1, <2>2
  <2>6. \A x \in Tabs : page'[x] = IF x = t THEN Q ELSE page[x]
    BY <2>5 DEF Forms
  <2>7. page' \in [Tabs -> Page]
    BY <2>4, <2>5 DEF Forms
  <2> QED
    BY <1>1, <1>4, <2>1, <2>3, <2>4, <2>6, <2>7, SubmissionEnds
<1>6. CASE ~(sub[n].kind = "create" /\ page[t].kind = "pay")
  <2>1. PICK P : P = (IF sub[n].kind = "create" THEN Payment(n) ELSE Away) /\ Show(t, P, subs)
    BY <1>2, <1>4, <1>6 DEF Written
  <2>2. P \in Page /\ Filled(P)
    BY <2>1, AwayPage, PaymentPage, SubmitsAreEvents
  <2>3. /\ subs \in [Submits -> {Idle} \cup Sub]
        /\ \A m \in Submits : subs[m] \in {Idle, sub[m]}
    BY <1>4 DEF Forms
  <2> QED
    BY <1>1, <1>3, <2>1, <2>2, <2>3, PageShown
<1> QED
  BY <1>5, <1>6

LEMMA ReplyForms ==
    ASSUME Forms, NEW n \in Submits, Reply(n)
    PROVE  Forms'
<1>1. CASE Uploaded(n)
  <2>1. sub[n] # Idle /\ sub[n].step = "uploaded"
    BY <1>1, DoingSub DEF Uploaded, Doing
  <2> QED
    BY <1>1, <2>1, StepTaken DEF Uploaded
<1>2. CASE Failed(n)
  <2>1. sub[n].tab \in Tabs
    BY <1>2, DoingSub, SubFields DEF Failed, Doing
  <2>2. /\ page' \in [Tabs -> Page]
        /\ \A t \in Tabs : page'[t].kind = page[t].kind /\ Filled(page'[t])
    <3>1. CASE sub[n].live
      <4>1. page' = [page EXCEPT ![sub[n].tab].loading = FALSE]
        BY <1>2, <3>1 DEF Failed
      <4> QED
        BY <2>1, <4>1, SpinnerPages
    <3>2. CASE ~sub[n].live
      BY <1>2, <3>2, PagesStay DEF Failed
    <3> QED
      BY <3>1, <3>2
  <2> QED
    BY <1>2, <2>2, SubmissionEnds DEF Failed
<1> QED
  BY <1>1, <1>2, WrittenForms DEF Reply

LEMMA CrashForms ==
    ASSUME Forms, Crash
    PROVE  Forms'
<1>1. page' = page /\ objects' = objects
  BY DEF Crash
<1>2. ASSUME NEW n \in Submits
      PROVE  /\ sub'[n] \in {Idle} \cup Sub
             /\ sub'[n] # Idle => Shown(sub[n])' /\ PictureSoFar(n, sub[n])' /\ DatesSent(sub[n])'
  <2>1. sub'[n] = IF sub[n].step \in {"upload", "put", "write"}
                  THEN [sub[n] EXCEPT !.step = "failed"] ELSE sub[n]
    BY DEF Crash
  <2>2. CASE sub[n].step \in {"upload", "put", "write"}
    <3>1. sub[n] \in Sub /\ sub[n] # Idle
      BY <2>2, DoingSub
    <3>2. Shown(sub[n]) /\ PictureSoFar(n, sub[n]) /\ DatesSent(sub[n])
      BY <3>1 DEF Forms
    <3>3. PICK S : S = [sub[n] EXCEPT !.step = "failed"]
      OBVIOUS
    <3>4. S \in Sub
      BY <3>1, <3>3 DEF Sub
    <3>5. /\ S.step = "failed" /\ S.image = sub[n].image /\ S.next = sub[n].next
          /\ S.live = sub[n].live /\ S.tab = sub[n].tab /\ S.kind = sub[n].kind
          /\ Sends(sub[n], S)
      BY <3>1, <3>3 DEF Sub, Sends
    <3>6. DatesSent(S)
      BY <3>2, <3>5, SentDates
    <3>7. Shown(S)
      BY <3>2, <3>5 DEF Shown
    <3>8. PictureSoFar(n, S)'
      BY <1>1, <3>2, <3>5 DEF PictureSoFar
    <3>9. sub'[n] = S
      BY <2>1, <2>2, <3>3
    <3> QED
      BY <1>1, <3>4, <3>6, <3>7, <3>8, <3>9 DEF Shown, PictureSoFar, DatesSent
  <2>3. CASE sub[n].step \notin {"upload", "put", "write"}
    <3>1. sub'[n] = sub[n]
      BY <2>1, <2>3
    <3>2. sub[n] # Idle => Shown(sub[n]) /\ PictureSoFar(n, sub[n]) /\ DatesSent(sub[n])
      BY DEF Forms
    <3> QED
      BY <1>1, <3>1, <3>2 DEF Forms, Shown, PictureSoFar, DatesSent
  <2> QED
    BY <2>2, <2>3
<1>3. sub' \in [Submits -> {Idle} \cup Sub]
  <2>1. sub' = [n \in Submits |-> sub'[n]]
    BY DEF Crash
  <2> QED
    BY <1>2, <2>1
<1> QED
  BY <1>1, <1>2, <1>3 DEF Forms, Filled

-----------------------------------------------------------------------------
(* The stores.                                                               *)

\* Objects are only added, so the pictures of the events that stay are complete.
LEMMA ObjectsAdded ==
    ASSUME Stores, UNCHANGED <<bucket, events, count, fresh>>, objects \subseteq objects',
           objects' \subseteq {Sizes[i] : i \in 1..Len(Sizes)} \X Submits
    PROVE  Stores'
  BY DEF Stores, EventPicturesComplete, SingleDay

\* One event is written.
LEMMA EventWritten ==
    ASSUME Stores, NEW e \in Events, NEW E \in Event, events' = [events EXCEPT ![e] = E],
           UNCHANGED <<bucket, objects, count>>, fresh' \in BOOLEAN, fresh' => fresh,
           E.stored /\ E.image # None => \A i \in 1..Len(Sizes) : <<Sizes[i], E.image>> \in objects,
           fresh' /\ E.stored => Day(E.start) = Day(E.end)
    PROVE  Stores'
<1>1. events' \in [Events -> Event] /\ \A x \in Events : events'[x] = IF x = e THEN E ELSE events[x]
  BY DEF Stores
<1>2. EventPicturesComplete'
  BY <1>1 DEF Stores, EventPicturesComplete
<1>3. SingleDay'
  BY <1>1 DEF Stores, SingleDay
<1> QED
  BY <1>1, <1>2, <1>3 DEF Stores

LEMMA EventFields ==
    ASSUME NEW E \in Event
    PROVE  /\ E.stored \in BOOLEAN /\ E.image \in Submits \cup {None}
           /\ E.start \in Moments /\ E.end \in Moments
  BY DEF Event

LEMMA EventMade ==
    ASSUME NEW b \in BOOLEAN, NEW p \in Submits \cup {None}, NEW x \in Moments, NEW y \in Moments,
           NEW E, E = [stored |-> b, image |-> p, start |-> x, end |-> y]
    PROVE  E \in Event
  BY DEF Event

\* The picture a submission brings to the event is stored in every size.
LEMMA PictureBrought ==
    ASSUME Forms, NEW n \in Submits, sub[n].step = "write", sub[n].image # None
    PROVE  /\ sub[n].image \in Submits
           /\ \A i \in 1..Len(Sizes) : <<Sizes[i], sub[n].image>> \in objects
<1>1. sub[n] \in Sub /\ sub[n] # Idle
  BY DoingSub
<1>2. PictureSoFar(n, sub[n])
  BY <1>1 DEF Forms
<1>3. sub[n].image = n /\ sub[n].next - 1 = Len(Sizes)
  BY <1>2, FiveSizes DEF PictureSoFar
<1> QED
  BY <1>2, <1>3 DEF PictureSoFar

LEMMA PutStores ==
    ASSUME Forms, Stores, NEW n \in Submits, Put(n)
    PROVE  Stores'
<1>1. sub[n] \in Sub /\ sub[n] # Idle /\ sub[n].step = "put"
  BY DoingSub DEF Put, Doing
<1>2. PictureSoFar(n, sub[n])
  BY <1>1 DEF Forms
<1>3. sub[n].next \in 1..Len(Sizes)
  BY <1>1, <1>2, SubFields, FiveSizes DEF PictureSoFar
<1>4. <<Sizes[sub[n].next], n>> \in {Sizes[i] : i \in 1..Len(Sizes)} \X Submits
  BY <1>3, FiveSizes
<1>5. objects' = objects \cup {<<Sizes[sub[n].next], n>>}
      /\ UNCHANGED <<bucket, events, count, fresh>>
  BY DEF Put
<1>6. objects' \subseteq {Sizes[i] : i \in 1..Len(Sizes)} \X Submits
  BY <1>4, <1>5 DEF Stores
<1> QED
  BY <1>5, <1>6, ObjectsAdded

LEMMA CreateStores ==
    ASSUME Forms, Stores, NEW n \in Submits, WriteCreate(n)
    PROVE  Stores'
<1>1. /\ sub[n].step = "write" /\ sub[n].kind = "create" /\ sub[n] \in Sub /\ sub[n] # Idle
  BY DoingSub DEF WriteCreate, Doing
<1>2. DatesSent(sub[n])
  BY <1>1 DEF Forms
<1>3. /\ sub[n].start \in Moments /\ sub[n].end \in Moments
      /\ Day(sub[n].start) = Day(sub[n].end)
  BY <1>1, <1>2 DEF DatesSent
<1>4. PICK E : E = [stored |-> TRUE, image |-> sub[n].image,
                    start |-> sub[n].start, end |-> sub[n].end]
  OBVIOUS
<1>5. sub[n].image \in Submits \cup {None}
  BY <1>1, SubFields
<1>6. E \in Event
  BY <1>3, <1>4, <1>5, EventMade
<1>7. /\ E.image = sub[n].image /\ E.start = sub[n].start /\ E.end = sub[n].end
  BY <1>4
<1>8. E.image # None => \A i \in 1..Len(Sizes) : <<Sizes[i], E.image>> \in objects
  BY <1>1, <1>7, PictureBrought
<1>9. events' = [events EXCEPT ![n] = E] /\ UNCHANGED <<bucket, objects, count, fresh>>
  BY <1>4 DEF WriteCreate
<1>10. n \in Events /\ fresh \in BOOLEAN
  BY SubmitsAreEvents DEF Stores
<1> QED
  BY <1>3, <1>6, <1>7, <1>8, <1>9, <1>10, EventWritten

\* A PATCH that was made on the dates still stored keeps both ends on one day.
LEMMA PatchStores ==
    ASSUME Forms, Stores, NEW n \in Submits, WritePatch(n)
    PROVE  Stores'
<1>1. PICK s, was, next : /\ s = sub[n] /\ was = events[s.event]
                          /\ next = Updated(s, was)
  OBVIOUS
<1>2. /\ s.step = "write" /\ s.kind = "edit" /\ was.stored
      /\ events' = [events EXCEPT ![s.event] = next]
      /\ fresh' = (fresh /\ s.blurred /\ s.from = <<was.start, was.end>>)
      /\ UNCHANGED <<bucket, objects, count>>
  BY <1>1 DEF WritePatch
<1>3. s \in Sub /\ s # Idle /\ s.event \in Events
  BY <1>1, <1>2, DoingSub, SubFields
<1>4. DatesSent(s)
  BY <1>1, <1>3 DEF Forms
<1>5. was \in Event
  BY <1>1, <1>3 DEF Stores
<1>6. PICK p, x, y : /\ p = IF s.image = None THEN was.image ELSE s.image
                     /\ x = IF s.start = None THEN was.start ELSE s.start
                     /\ y = IF s.end = None THEN was.end ELSE s.end
                     /\ next = [was EXCEPT !.image = p, !.start = x, !.end = y]
  BY <1>1 DEF Updated
<1>7. next = [stored |-> was.stored, image |-> p, start |-> x, end |-> y]
  BY <1>5, <1>6 DEF Event
<1>8. p \in Submits \cup {None} /\ x \in Moments /\ y \in Moments
  BY <1>3, <1>5, <1>6, SubFields, EventFields
<1>9. next \in Event
  BY <1>5, <1>7, <1>8, EventMade, EventFields
<1>10. next.image = p /\ next.start = x /\ next.end = y
  BY <1>7
<1>11. p # None => \A i \in 1..Len(Sizes) : <<Sizes[i], p>> \in objects
  <2>1. CASE s.image = None
    BY <1>1, <1>2, <1>3, <1>6, <2>1 DEF Stores, EventPicturesComplete
  <2>2. CASE s.image # None
    BY <1>1, <1>2, <1>6, <2>2, PictureBrought
  <2> QED
    BY <2>1, <2>2
<1>12. fresh' => Day(x) = Day(y)
  <2> SUFFICES ASSUME fresh'
               PROVE  Day(x) = Day(y)
    OBVIOUS
  <2>1. fresh /\ s.blurred /\ s.from[1] = was.start
    <3>1. fresh /\ s.blurred /\ s.from = <<was.start, was.end>>
      BY <1>2, Zenon
    <3> QED
      BY <3>1
  <2>2. Day(was.start) = Day(was.end)
    BY <1>1, <1>2, <1>3, <2>1 DEF Stores, SingleDay
  <2> QED
    BY <1>2, <1>4, <1>6, <2>1, <2>2 DEF DatesSent
<1>13. fresh' \in BOOLEAN /\ (fresh' => fresh)
  BY <1>2 DEF Stores
<1> QED
  BY <1>2, <1>3, <1>9, <1>10, <1>11, <1>12, <1>13, EventWritten

LEMMA ServeStores ==
    ASSUME Forms, Stores, NEW n \in Submits, Serve(n)
    PROVE  Stores'
<1>1. ASSUME UNCHANGED <<bucket, objects, events, count, fresh>>
      PROVE  Stores'
  BY <1>1, QuietStores
<1>2. CASE Receive(n)
  BY <1>1, <1>2 DEF Receive
<1>3. CASE UploadFails(n)
  BY <1>1, <1>3 DEF UploadFails
<1>4. CASE MakeMethod(n)
  BY <1>1, <1>4 DEF MakeMethod
<1>5. CASE WritePayment(n)
  BY <1>1, <1>5 DEF WritePayment
<1>6. CASE WriteFails(n)
  BY <1>1, <1>6 DEF WriteFails
<1> QED
  BY <1>2, <1>3, <1>4, <1>5, <1>6, PutStores, CreateStores, PatchStores DEF Serve

LEMMA ReplyStores ==
    ASSUME Stores, NEW n \in Submits, Reply(n)
    PROVE  Stores'
  BY QuietStores DEF Reply, Uploaded, Written, Failed

LEMMA DeleteStep ==
    ASSUME Forms, Stores, NEW e \in Events, Delete(e)
    PROVE  Forms' /\ Stores'
<1>1. NoEvent \in Event /\ ~NoEvent.stored
  BY FirstMoments DEF NoEvent, Event
<1>2. events' = [events EXCEPT ![e] = NoEvent] /\ UNCHANGED <<bucket, objects, count, fresh>>
  BY DEF Delete
<1>3. fresh \in BOOLEAN
  BY DEF Stores
<1>4. Stores'
  BY <1>1, <1>2, <1>3, EventWritten
<1>5. Forms'
  BY QuietForms DEF Delete
<1> QED
  BY <1>4, <1>5

LEMMA CrashStores ==
    ASSUME Stores, Crash
    PROVE  Stores'
  BY DEF Crash, Stores, EventPicturesComplete, SingleDay

-----------------------------------------------------------------------------
LEMMA Initially ==
    ASSUME Init
    PROVE  Inductive
<1>1. /\ page = [t \in Tabs |-> Away] /\ sub = [n \in Submits |-> Idle] /\ objects = {}
      /\ bucket \in BOOLEAN /\ count = 0 /\ fresh = TRUE /\ events \in Earlier
  BY DEF Init
<1>2. Forms
  BY <1>1, AwayPage DEF Forms
<1>3. PICK x \in {NoEvent, [NoEvent EXCEPT !.stored = TRUE, !.end = 1]} :
        events = [e \in Events |-> IF e = 0 THEN x ELSE NoEvent]
  BY <1>1 DEF Earlier
<1>4. /\ NoEvent \in Event /\ ~NoEvent.stored
      /\ x \in Event /\ x.image = None /\ Day(x.start) = Day(x.end)
  <2>1. x = NoEvent \/ x = [stored |-> TRUE, image |-> None, start |-> 0, end |-> 1]
    BY <1>3 DEF NoEvent
  <2>2. NoEvent \in Event /\ ~NoEvent.stored
    BY FirstMoments DEF NoEvent, Event
  <2>3. x.image = None /\ x.start = 0 /\ x.end \in {0, 1}
    BY <2>1 DEF NoEvent
  <2>4. x \in Event
    BY <2>1, <2>2, FirstMoments, EventMade
  <2> QED
    BY <2>2, <2>3, <2>4, FirstMoments
<1>5. events \in [Events -> Event]
  BY <1>3, <1>4
<1>6. EventPicturesComplete /\ SingleDay
  BY <1>3, <1>4 DEF EventPicturesComplete, SingleDay
<1>7. 0 \in 0..MaxSubmits
  BY ConstantsAssumption
<1> QED
  BY <1>1, <1>2, <1>5, <1>6, <1>7, Halves DEF Stores

LEMMA Steps ==
    ASSUME Inductive, [Next]_vars
    PROVE  Inductive'
<1>1. Forms /\ Stores
  BY Halves
<1>2. ASSUME NEW t \in Tabs, Visitor(t)
      PROVE  Forms' /\ Stores'
  BY <1>1, <1>2, PagesOpened, CreateSubmitted, EditSubmitted, PaymentSubmitted, StripeCame
     DEF Visitor
<1>3. ASSUME NEW n \in Submits, Serve(n) \/ Reply(n)
      PROVE  Forms' /\ Stores'
  BY <1>1, <1>3, ServeForms, ServeStores, ReplyForms, ReplyStores
<1>4. ASSUME Crash
      PROVE  Forms' /\ Stores'
  BY <1>1, <1>4, CrashForms, CrashStores
<1>5. ASSUME UNCHANGED vars
      PROVE  Forms' /\ Stores'
  BY <1>1, <1>5, QuietForms, QuietStores DEF vars
<1>6. Forms' /\ Stores'
  BY <1>1, <1>2, <1>3, <1>4, <1>5, DeleteStep DEF Next
<1> QED
  BY <1>6, Halves DEF Inductive, Forms, Stores, TypeOK

LEMMA InductiveCorrect == Spec => []Inductive
<1>1. Init => Inductive
  BY Initially
<1>2. Inductive /\ [Next]_vars => Inductive'
  BY Steps
<1> QED
  BY <1>1, <1>2, PTL DEF Spec

\* The pages, submissions, stores and bounds keep their types (Studio.TypeOK).
THEOREM TypeCorrect == Spec => []TypeOK
<1>1. Inductive => TypeOK
  BY DEF Inductive
<1> QED
  BY <1>1, InductiveCorrect, PTL

\* A stored event that names a picture finds it in all five sizes, however uploads
\* fail, overlap or outlive their pages (ImageService.uploadImage and the two pages).
THEOREM EventPicturesCompleteCorrect == Spec => []EventPicturesComplete
<1>1. Inductive => EventPicturesComplete
  BY DEF Inductive
<1> QED
  BY <1>1, InductiveCorrect, PTL

\* The events of the create form are of one day, and stay so through every edit of a
\* form that was filled with the dates still stored and whose changed date fields had
\* been left, for any calendar and any times that are entered (onSubmit of the two
\* pages, EventService.updateEvent).
THEOREM SingleDayCorrect == Spec => []SingleDay
<1>1. Inductive => SingleDay
  BY DEF Inductive
<1> QED
  BY <1>1, InductiveCorrect, PTL
=============================================================================
