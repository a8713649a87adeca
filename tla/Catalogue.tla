------------------------------- MODULE Catalogue -------------------------------
(***************************************************************************)
(* The life of an event: createEvent, updateEvent, deleteEvent and         *)
(* markEventAsPaid of EventService (backend/src/event/event.service.ts),   *)
(* the end points of EventController that call them, and the payment       *)
(* (backend/src/payment/payment.service.ts) that lists an event.           *)
(*                                                                         *)
(* One action is one step of a handler between two of its awaits.  Of a    *)
(* document the model keeps its dates and the flag paid; name, place,      *)
(* price and picture are written with them and read by no step.            *)
(* Nominatim, Stripe and the mail server are modelled by the answers the   *)
(* handlers distinguish.                                                   *)
(***************************************************************************)
EXTENDS Naturals, FiniteSets

CONSTANTS Events, Requests,
          NoEvent,      \* no id: the event of a creation is not stored yet
          MaxTime,      \* bound: the clock and the dates of a finite check
          MaxCharges    \* bound: charges counted per event

ASSUME CatalogueAssumption ==
    /\ IsFiniteSet(Requests)
    /\ NoEvent \notin Events
    /\ MaxTime \in Nat
    /\ MaxCharges \in Nat \ {0}

VARIABLES now,
          booted,    \* when the process loaded the classes of the DTOs
          stored,    \* the ids of the documents of the events collection
          span,      \* their startDateTime and endDateTime
          paid,      \* those whose flag is set
          made,      \* history: every id a document was ever stored under
          known,     \* the ids a client was answered
          nodes,     \* the Event nodes of the graph
          index,     \* the entries of the search index
          charged,   \* history: the successful charges for each event
          mailed,    \* history: the invoices sent for each event
          req        \* the handlers in progress
docVars == <<stored, span, paid, made>>
moneyVars == <<charged, mailed>>
clockVars == <<now, booted>>
vars == <<clockVars, docVars, known, nodes, index, moneyVars, req>>

Times == 0..MaxTime
Span == [start : Times, end : Times]
NoSpan == [start |-> 0, end |-> 0]
Dates == {"start", "end"}
Ops == {"create", "patch", "pay", "delete"}
Steps == {"locate", "store", "node", "index", "fill", "write",
          "charge", "mark", "payer", "mail", "remove", "unlink"}
Statuses == {200, 201, 204, 400, 402, 404, 500, 0}   \* 0: no answer was sent

Idle == [pc |-> "idle"]
Call == [pc : Steps, op : Ops, event : Events \cup {NoEvent},
         named : SUBSET Dates,   \* the dates a PATCH carries
         span : Span,            \* the dates to be written
         flag : BOOLEAN,         \* create: public; delete: the filter fits, or did
         took : BOOLEAN]         \* history: this payment's charge succeeded
Answered == [pc : {"done"}, op : Ops, event : Events \cup {NoEvent},
             took : BOOLEAN, status : Statuses]

TypeOK ==
    /\ now \in Times /\ booted \in Times
    /\ made \subseteq Events /\ stored \subseteq made /\ paid \subseteq stored
    /\ span \in [Events -> Span]
    /\ known \subseteq Events /\ nodes \subseteq Events /\ index \subseteq Events
    /\ charged \in [Events -> 0..MaxCharges]
    /\ mailed \in [Events -> Nat]
    /\ req \in [Requests -> {Idle} \cup Call \cup Answered]

Init ==
    /\ now = 0 /\ booted = 0
    /\ stored = {} /\ paid = {} /\ made = {}
    /\ span = [e \in Events |-> NoSpan]
    /\ known = {} /\ nodes = {} /\ index = {}
    /\ charged = [e \in Events |-> 0]
    /\ mailed = [e \in Events |-> 0]
    /\ req = [r \in Requests |-> Idle]

At(r, pc) == req[r].pc = pc
GoOn(r, pc) == req' = [req EXCEPT ![r].pc = pc]
Done(c, s) == [pc |-> "done", op |-> c.op, event |-> c.event, took |-> c.took, status |-> s]
Answer(r, s) == req' = [req EXCEPT ![r] = Done(@, s)]

NewCall(op, e, first) ==
    [pc |-> first, op |-> op, event |-> e, named |-> {}, span |-> NoSpan,
     flag |-> FALSE, took |-> FALSE]

\* An id reaches a client in the answer to the creation or through the search.
Findable == known \cup index

-----------------------------------------------------------------------------
(* POST /event                                                               *)

\* @MinDate(new Date()) is evaluated when the class is loaded, not per request.
ReceiveCreate(r) ==
    /\ req[r] = Idle
    /\ \E s \in Span, public \in BOOLEAN :
         /\ booted <= s.start /\ s.start < s.end
         /\ req' = [req EXCEPT ![r] =
              [NewCall("create", NoEvent, "locate")
                 EXCEPT !.span = s, !.flag = public]]
    /\ UNCHANGED <<clockVars, docVars, known, nodes, index, moneyVars>>

\* The address of the place, or the place of the address, or neither is given
\* (400), is found (404), is answered (500).
Locate(r) ==
    /\ At(r, "locate")
    /\ GoOn(r, "store") \/ \E s \in {400, 404, 500} : Answer(r, s)
    /\ UNCHANGED <<clockVars, docVars, known, nodes, index, moneyVars>>

\* Mutation: the id is answered while the node is still being written.
StoreEventUnawaited(r) ==
    /\ At(r, "store")
    /\ \E e \in Events \ made :
         /\ made' = made \cup {e}
         /\ stored' = stored \cup {e}
         /\ span' = [span EXCEPT ![e] = req[r].span]
         /\ known' = known \cup {e}
         /\ req' = [req EXCEPT ![r].pc = "node", ![r].event = e]
    /\ UNCHANGED <<clockVars, paid, nodes, index, moneyVars>>

\* The schema's default leaves a new event unpaid.
StoreEvent(r) ==
    /\ At(r, "store")
    /\ \E e \in Events \ made :
         /\ made' = made \cup {e}
         /\ stored' = stored \cup {e}
         /\ span' = [span EXCEPT ![e] = req[r].span]
         /\ req' = [req EXCEPT ![r].pc = "node", ![r].event = e]
    /\ UNCHANGED <<clockVars, paid, known, nodes, index, moneyVars>>

Created(r) ==
    /\ Answer(r, 201)
    /\ known' = known \cup {req[r].event}

CreateNode(r) ==
    /\ At(r, "node")
    /\ nodes' = nodes \cup {req[r].event}
    /\ IF req[r].flag THEN GoOn(r, "index") /\ UNCHANGED known
                      ELSE Created(r)
    /\ UNCHANGED <<clockVars, docVars, index, moneyVars>>

\* A failure of the search index is logged and forgotten.
IndexEvent(r) ==
    /\ At(r, "index")
    /\ index' \in {index, index \cup {req[r].event}}
    /\ Created(r)
    /\ UNCHANGED <<clockVars, docVars, nodes, moneyVars>>

-----------------------------------------------------------------------------
(* PATCH /event/:id                                                          *)

\* The dates a call names and, for the rest, those of the document.
Updated(c, doc) == [start |-> IF "start" \in c.named THEN c.span.start ELSE doc.start,
                    end |-> IF "end" \in c.named THEN c.span.end ELSE doc.end]

\* What updateEvent does with the dates once both or neither are known.
CheckDates(c) ==
    IF c.named = Dates /\ (c.span.start > c.span.end \/ c.span.start <= now)
    THEN Done(c, 400)
    ELSE [c EXCEPT !.pc = "write"]

\* A lone date is paired with the other one of the document; so is none of them.
ReceivePatch(r) ==
    /\ req[r] = Idle
    /\ \E e \in Findable, named \in SUBSET Dates, s \in Span :
         /\ IF "start" \in named THEN booted <= s.start ELSE s.start = 0
         /\ IF "end" \in named THEN booted <= s.end ELSE s.end = 0
         /\ LET c == [NewCall("patch", e, "fill") EXCEPT !.named = named, !.span = s]
            IN  req' = [req EXCEPT ![r] =
                          IF named \in {{}, Dates} THEN CheckDates(c) ELSE c]
    /\ UNCHANGED <<clockVars, docVars, known, nodes, index, moneyVars>>

\* Mutation: the other date serves the check only and is not written with it.
FillDatesForCheck(r) ==
    LET c == req[r]
        checked == CheckDates([c EXCEPT !.named = Dates, !.span = Updated(c, span[c.event])])
    IN
    /\ At(r, "fill")
    /\ IF c.event \notin stored THEN Answer(r, 404)
       ELSE req' = [req EXCEPT ![r] = IF checked.pc = "done" THEN checked
                                      ELSE [c EXCEPT !.pc = "write"]]
    /\ UNCHANGED <<clockVars, docVars, known, nodes, index, moneyVars>>

\* getEventById, which the check and the update of the other date follow.
FillDates(r) ==
    LET c == req[r] IN
    /\ At(r, "fill")
    /\ IF c.event \notin stored
       THEN Answer(r, 404)
       ELSE req' = [req EXCEPT ![r] = CheckDates(
                      [c EXCEPT !.named = Dates, !.span = Updated(c, span[c.event])])]
    /\ UNCHANGED <<clockVars, docVars, known, nodes, index, moneyVars>>

\* Mutation: the update replaces the document, whose flag is back at its default.
WriteUpdateReplacing(r) ==
    LET c == req[r] IN
    /\ At(r, "write")
    /\ Answer(r, IF c.event \in stored THEN 200 ELSE 404)
    /\ paid' = paid \ {c.event}
    /\ span' = IF c.event \in stored THEN [span EXCEPT ![c.event] = Updated(c, @)] ELSE span
    /\ UNCHANGED <<clockVars, stored, made, known, nodes, index, moneyVars>>

\* findByIdAndUpdate sets the fields the call has, in one operation on the store.
WriteUpdate(r) ==
    LET c == req[r] IN
    /\ At(r, "write")
    /\ IF c.event \notin stored
       THEN Answer(r, 404) /\ UNCHANGED span
       ELSE /\ Answer(r, 200)
            /\ span' = [span EXCEPT ![c.event] = Updated(c, @)]
    /\ UNCHANGED <<clockVars, stored, paid, made, known, nodes, index, moneyVars>>

-----------------------------------------------------------------------------
(* POST /payment                                                             *)

ReceivePayment(r) ==
    /\ req[r] = Idle
    /\ \E e \in Findable : req' = [req EXCEPT ![r] = NewCall("pay", e, "charge")]
    /\ UNCHANGED <<clockVars, docVars, known, nodes, index, moneyVars>>

\* Mutation: the status of the intent is not looked at.
ChargeUnchecked(r) ==
    LET e == req[r].event IN
    /\ At(r, "charge")
    /\ \/ Answer(r, 402) /\ UNCHANGED charged
       \/ GoOn(r, "mark") /\ charged' \in {charged, [charged EXCEPT ![e] = @ + 1]}
    /\ UNCHANGED <<clockVars, docVars, known, nodes, index, mailed>>

\* The answer of Stripe: a card error (402), an intent that needs more, another
\* error or no answer in time (500), the last with or without a charge.
Charge(r) ==
    LET e == req[r].event IN
    /\ At(r, "charge")
    /\ \/ (\E s \in {402, 500} : Answer(r, s)) /\ UNCHANGED charged
       \/ /\ charged[e] < MaxCharges
          /\ charged' = [charged EXCEPT ![e] = @ + 1]
          /\ \/ req' = [req EXCEPT ![r].pc = "mark", ![r].took = TRUE]
             \/ req' = [req EXCEPT ![r] = Done([@ EXCEPT !.took = TRUE], 500)]
    /\ UNCHANGED <<clockVars, docVars, known, nodes, index, mailed>>

\* Mutation: the update inserts the document it does not find (upsert).
MarkUpsert(r) ==
    LET e == req[r].event IN
    /\ At(r, "mark")
    /\ GoOn(r, "payer")
    /\ paid' = paid \cup {e}
    /\ UNCHANGED <<clockVars, stored, span, made, known, nodes, index, moneyVars>>

\* markEventAsPaid; what it throws ends in the catch of the payment.
Mark(r) ==
    LET e == req[r].event IN
    /\ At(r, "mark")
    /\ IF e \in stored THEN GoOn(r, "payer") ELSE Answer(r, 500)
    /\ paid' = paid \cup ({e} \cap stored)
    /\ UNCHANGED <<clockVars, stored, span, made, known, nodes, index, moneyVars>>

\* getUser finds the organiser, whose account may be gone.
FindPayer(r) ==
    /\ At(r, "payer")
    /\ GoOn(r, "mail") \/ Answer(r, 500)
    /\ UNCHANGED <<clockVars, docVars, known, nodes, index, moneyVars>>

\* sendInvoice logs a failure of the mail server and returns.
SendInvoice(r) ==
    LET e == req[r].event IN
    /\ At(r, "mail")
    /\ Answer(r, 204)
    /\ mailed' \in {mailed, [mailed EXCEPT ![e] = @ + 1]}
    /\ UNCHANGED <<clockVars, docVars, known, nodes, index, charged>>

-----------------------------------------------------------------------------
(* DELETE /event/:id                                                         *)

\* flag: the filter fits, the caller being the organiser or an administrator.
ReceiveDelete(r) ==
    /\ req[r] = Idle
    /\ \E e \in Findable, fits \in BOOLEAN :
         req' = [req EXCEPT ![r] = [NewCall("delete", e, "remove") EXCEPT !.flag = fits]]
    /\ UNCHANGED <<clockVars, docVars, known, nodes, index, moneyVars>>

\* findOneAndDelete; from here on flag says whether it found the document.
Remove(r) ==
    LET e == req[r].event
        found == req[r].flag /\ e \in stored
    IN
    /\ At(r, "remove")
    /\ req' = [req EXCEPT ![r].pc = "unlink", ![r].flag = found]
    /\ IF found
       THEN /\ stored' = stored \ {e}
            /\ paid' = paid \ {e}
            /\ span' = [span EXCEPT ![e] = NoSpan]
       ELSE UNCHANGED <<stored, paid, span>>
    /\ UNCHANGED <<clockVars, made, known, nodes, index, moneyVars>>

\* DETACH DELETE runs whatever was found.  The search index is not told.
Unlink(r) ==
    /\ At(r, "unlink")
    /\ nodes' = nodes \ {req[r].event}
    /\ Answer(r, IF req[r].flag THEN 204 ELSE 404)
    /\ UNCHANGED <<clockVars, docVars, known, index, moneyVars>>

-----------------------------------------------------------------------------
(* The surroundings                                                          *)

\* A store refuses the operation of the step: the handlers answer 500.
StoreFails(r) ==
    /\ req[r].pc \in {"store", "node", "fill", "write", "mark", "payer", "remove", "unlink"}
    /\ Answer(r, 500)
    /\ UNCHANGED <<clockVars, docVars, known, nodes, index, moneyVars>>

Forget(r) ==
    /\ At(r, "done")
    /\ req' = [req EXCEPT ![r] = Idle]
    /\ UNCHANGED <<clockVars, docVars, known, nodes, index, moneyVars>>

Tick ==
    /\ now < MaxTime
    /\ now' = now + 1
    /\ UNCHANGED <<booted, docVars, known, nodes, index, moneyVars, req>>

\* The process dies and is started again: what was in progress gets no answer.
Crash ==
    /\ req' = [r \in Requests |->
                 IF req[r].pc \in Steps THEN Done(req[r], 0) ELSE req[r]]
    /\ booted' = now
    /\ UNCHANGED <<now, docVars, known, nodes, index, moneyVars>>

Step(r) ==
    \/ ReceiveCreate(r) \/ Locate(r) \/ StoreEvent(r) \/ CreateNode(r) \/ IndexEvent(r)
    \/ ReceivePatch(r) \/ FillDates(r) \/ WriteUpdate(r)
    \/ ReceivePayment(r) \/ Charge(r) \/ Mark(r) \/ FindPayer(r) \/ SendInvoice(r)
    \/ ReceiveDelete(r) \/ Remove(r) \/ Unlink(r)
    \/ StoreFails(r) \/ Forget(r)

Next == Tick \/ Crash \/ \E r \in Requests : Step(r)

Spec == Init /\ [][Next]_vars

-----------------------------------------------------------------------------
(* Properties                                                                *)

AnsweredAs(r, op, s) == At(r, "done") /\ req[r].op = op /\ req[r].status = s

\* A payment answered 204 took the money and listed the event, which is paid
\* until it is deleted: no PATCH, creation or failure in between unlists it.
ListedWhenAnswered ==
    \A r \in Requests : AnsweredAs(r, "pay", 204) =>
        req[r].took /\ (req[r].event \in paid \/ req[r].event \notin stored)

\* Every invoice is covered by a charge of its own for the same event, however
\* often the payment is repeated, fails half-way or races with a deletion.
InvoicesCovered == \A e \in Events : mailed[e] <= charged[e]

\* A deletion answered 204 leaves neither document nor node, and nothing brings
\* them back, the creation of the event included: whoever can name an event
\* learned its id after the creation had written both stores.
DeletedLeavesNothing ==
    \A r \in Requests : AnsweredAs(r, "delete", 204) =>
        req[r].event \notin stored \cup nodes

\* What these rest on.  The documents: in order, and charged for when paid.
DocumentsSound ==
    /\ \A e \in stored : span[e].start <= span[e].end
    /\ \A e \in Events \ stored : span[e] = NoSpan
    /\ \A e \in paid : charged[e] > 0
    /\ Findable \subseteq made

\* What a call knows at each of its steps.
Kept(e) == e \in paid \/ e \notin stored
Supported(c) ==
    /\ c.pc \in {"locate", "store"} => c.span.start < c.span.end
    /\ c.pc \in Steps \ {"locate", "store"} => c.event \in made
    /\ c.pc = "node" => c.event \notin Findable
    /\ c.pc = "fill" => c.named \notin {{}, Dates}
    /\ c.pc = "write" => \/ c.named = {}
                        \/ (c.named = Dates /\ c.span.start <= c.span.end)
    /\ c.pc = "charge" => c.op = "pay"
    /\ c.pc \in {"mark", "payer", "mail"} =>
         c.op = "pay" /\ c.took /\ charged[c.event] > 0
    /\ c.pc \in {"payer", "mail"} => Kept(c.event)
    /\ c.pc = "done" /\ c.op = "pay" /\ c.status = 204 =>
         c.event \in made /\ c.took /\ Kept(c.event)
    /\ c.pc \in {"remove", "unlink"} => c.op = "delete" /\ c.event \in Findable
    /\ c.pc = "unlink" /\ c.flag => c.event \notin stored
    /\ c.pc = "done" /\ c.op = "delete" /\ c.status = 204 =>
         c.event \in Findable /\ c.event \notin stored \cup nodes
CallsSupported == \A r \in Requests : Supported(req[r])

\* A document is written by one creation, whose id no other creation carries.
Creating(r) == req[r].pc \in {"node", "index"}
OneCreation == \A r, q \in Requests :
    r # q /\ Creating(r) /\ Creating(q) => req[r].event # req[q].event

\* The payments between their charge and their invoice.
Unbilled(e) == {r \in Requests : req[r].pc \in {"mark", "payer", "mail"} /\ req[r].event = e}
ChargesCover == \A e \in Events : mailed[e] + Cardinality(Unbilled(e)) <= charged[e]

Inductive == DocumentsSound /\ CallsSupported /\ OneCreation /\ ChargesCover

\* The catalogue keeps the promise of EventLife: dates never cross, an event is
\* listed for money only, and stays so until it is closed for good.
stage == [e \in Events |-> IF e \notin made THEN "none"
                           ELSE IF e \notin stored THEN "closed"
                           ELSE IF e \in paid THEN "listed" ELSE "draft"]
Life == INSTANCE EventLife WITH money <- charged
LifeSpec == Life!Spec
=============================================================================
