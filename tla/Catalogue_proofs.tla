---------------------------- MODULE Catalogue_proofs ----------------------------
(***************************************************************************)
(* Catalogue for any events, any finite number of requests and any bounds. *)
(***************************************************************************)
EXTENDS Catalogue, TLAPS, FiniteSetTheorems

AnyCall == {Idle} \cup Call \cup Answered

LEMMA CallShape ==
    ASSUME NEW c \in AnyCall
    PROVE  /\ c = Idle \/ c \in Call \/ c \in Answered
           /\ c.pc \in Steps <=> c \in Call
           /\ c.pc = "idle" <=> c = Idle
           /\ c.pc = "done" <=> c \in Answered
           /\ c \in Call => /\ c.op \in Ops /\ c.event \in Events \cup {NoEvent}
                            /\ c.named \in SUBSET Dates /\ c.span \in Span
                            /\ c.flag \in BOOLEAN /\ c.took \in BOOLEAN
           /\ c \in Answered => /\ c.op \in Ops /\ c.event \in Events \cup {NoEvent}
                                /\ c.took \in BOOLEAN /\ c.status \in Statuses
<1>1. Idle.pc = "idle" /\ "idle" \notin Steps /\ "done" \notin Steps
  BY DEF Idle, Steps
<1>2. c \in Answered => /\ c.pc = "done" /\ c.op \in Ops /\ c.event \in Events \cup {NoEvent}
                        /\ c.took \in BOOLEAN /\ c.status \in Statuses
  BY DEF Answered
<1>3. c \in Call => /\ c.pc \in Steps
                    /\ c.op \in Ops /\ c.event \in Events \cup {NoEvent}
                    /\ c.named \in SUBSET Dates /\ c.span \in Span
                    /\ c.flag \in BOOLEAN /\ c.took \in BOOLEAN
  BY DEF Call
<1>4. c = Idle \/ c \in Call \/ c \in Answered
  BY DEF AnyCall
<1> QED
  BY <1>1, <1>2, <1>3, <1>4

LEMMA DoneShape ==
    ASSUME NEW c \in Call, NEW s \in Statuses
    PROVE  /\ Done(c, s) \in Answered
           /\ Done(c, s).pc = "done" /\ Done(c, s).op = c.op /\ Done(c, s).event = c.event
           /\ Done(c, s).took = c.took /\ Done(c, s).status = s
<1>1. c.op \in Ops /\ c.event \in Events \cup {NoEvent} /\ c.took \in BOOLEAN
  BY DEF Call
<1> QED
  BY <1>1 DEF Done, Answered

\* The calls after a step of r that leaves the call c of r behind.
LEMMA NextCall ==
    ASSUME TypeOK, NEW r \in Requests, NEW c, req' = [req EXCEPT ![r] = c]
    PROVE  /\ req'[r] = c
           /\ \A q \in Requests \ {r} : req'[q] = req[q]
           /\ c \in AnyCall => req' \in [Requests -> AnyCall]
  BY DEF TypeOK, AnyCall

LEMMA AnswerShape ==
    ASSUME TypeOK, NEW r \in Requests, req[r].pc \in Steps, NEW s \in Statuses, Answer(r, s)
    PROVE  /\ req' \in [Requests -> AnyCall]
           /\ req'[r] = Done(req[r], s)
           /\ \A q \in Requests \ {r} : req'[q] = req[q]
           /\ req'[r].pc = "done" /\ req'[r].op = req[r].op /\ req'[r].event = req[r].event
           /\ req'[r].took = req[r].took /\ req'[r].status = s
<1>1. req[r] \in Call
  BY CallShape DEF TypeOK, AnyCall
<1> DEFINE c == Done(req[r], s)
<1>2. req' = [req EXCEPT ![r] = c]
  BY DEF Answer
<1>3. /\ c \in Answered /\ c.pc = "done" /\ c.op = req[r].op /\ c.event = req[r].event
      /\ c.took = req[r].took /\ c.status = s
  BY <1>1, DoneShape
<1> HIDE DEF c
<1>4. /\ req'[r] = c /\ req' \in [Requests -> AnyCall]
      /\ \A q \in Requests \ {r} : req'[q] = req[q]
  BY <1>2, <1>3, NextCall DEF AnyCall
<1> QED
  BY <1>3, <1>4 DEF c

LEMMA GoOnShape ==
    ASSUME TypeOK, NEW r \in Requests, req[r].pc \in Steps, NEW pc \in Steps, GoOn(r, pc)
    PROVE  /\ req' \in [Requests -> AnyCall]
           /\ req'[r] \in Call /\ req'[r].pc = pc
           /\ req'[r].op = req[r].op /\ req'[r].event = req[r].event
           /\ req'[r].named = req[r].named /\ req'[r].span = req[r].span
           /\ req'[r].flag = req[r].flag /\ req'[r].took = req[r].took
           /\ \A q \in Requests \ {r} : req'[q] = req[q]
<1>1. req[r] \in Call
  BY CallShape DEF TypeOK, AnyCall
<1> DEFINE c == [req[r] EXCEPT !.pc = pc]
<1>2. req' = [req EXCEPT ![r] = c]
  BY DEF GoOn, TypeOK
<1>3. c \in Call
  BY <1>1 DEF Call
<1>4. /\ c.pc = pc /\ c.op = req[r].op /\ c.event = req[r].event
      /\ c.named = req[r].named /\ c.span = req[r].span
      /\ c.flag = req[r].flag /\ c.took = req[r].took
  BY <1>1 DEF Call
<1> HIDE DEF c
<1> QED
  BY <1>2, <1>3, <1>4, NextCall DEF AnyCall

LEMMA NewCallShape ==
    ASSUME NEW op \in Ops, NEW e \in Events \cup {NoEvent}, NEW pc \in Steps
    PROVE  /\ NewCall(op, e, pc) \in Call
           /\ NewCall(op, e, pc).pc = pc /\ NewCall(op, e, pc).op = op
           /\ NewCall(op, e, pc).event = e /\ NewCall(op, e, pc).named = {}
  BY CatalogueAssumption DEF NewCall, Call, NoSpan, Span, Times

\* What CheckDates makes of a call that has both dates, or neither.
LEMMA CheckShape ==
    ASSUME NEW c \in Call, TypeOK
    PROVE  /\ CheckDates(c) \in AnyCall
           /\ CheckDates(c).op = c.op /\ CheckDates(c).event = c.event
           /\ \/ CheckDates(c).pc = "done" /\ CheckDates(c).status = 400
              \/ /\ CheckDates(c).pc = "write"
                 /\ CheckDates(c).named = c.named /\ CheckDates(c).span = c.span
                 /\ c.named = Dates => c.span.start <= c.span.end
<1>1. CASE c.named = Dates /\ (c.span.start > c.span.end \/ c.span.start <= now)
  <2>1. CheckDates(c) = Done(c, 400)
    BY <1>1 DEF CheckDates
  <2> QED
    BY <2>1, DoneShape DEF Statuses, AnyCall
<1>2. CASE ~(c.named = Dates /\ (c.span.start > c.span.end \/ c.span.start <= now))
  <2>1. CheckDates(c) = [c EXCEPT !.pc = "write"]
    BY <1>2 DEF CheckDates
  <2>2. /\ [c EXCEPT !.pc = "write"] \in Call
        /\ [c EXCEPT !.pc = "write"].pc = "write"
        /\ [c EXCEPT !.pc = "write"].op = c.op
        /\ [c EXCEPT !.pc = "write"].event = c.event
        /\ [c EXCEPT !.pc = "write"].named = c.named
        /\ [c EXCEPT !.pc = "write"].span = c.span
    BY DEF Call, Steps
  <2>3. c.span.start \in Nat /\ c.span.end \in Nat
    BY CatalogueAssumption DEF Call, Span, Times
  <2> QED
    BY <1>2, <2>1, <2>2, <2>3 DEF AnyCall
<1> QED
  BY <1>1, <1>2

LEMMA UpdatedShape ==
    ASSUME NEW c \in Call, NEW doc \in Span
    PROVE  /\ Updated(c, doc) \in Span
           /\ c.named = {} => Updated(c, doc) = doc
           /\ c.named = Dates => Updated(c, doc) = c.span
<1>1. c.span \in Span
  BY DEF Call
<1> QED
  BY <1>1 DEF Updated, Span, Dates

LEMMA MadeEvents == TypeOK => made \subseteq Events /\ Findable \subseteq Events
  BY DEF TypeOK, Findable

-----------------------------------------------------------------------------
(* What a step of one call leaves of the others.                             *)

\* The facts calls rely on only ever grow: ids, charges, and what is gone.
Monotone ==
    /\ made \subseteq made' /\ Findable \subseteq Findable'
    /\ stored' \cap made \subseteq stored
    /\ paid \cap stored' \subseteq paid'
    /\ nodes' \cap Findable \subseteq nodes
    /\ \A e \in made : charged[e] \in Nat /\ charged'[e] \in Nat /\ charged[e] <= charged'[e]

LEMMA CallKept ==
    ASSUME TypeOK, DocumentsSound, NEW c \in AnyCall, Supported(c), Monotone,
           c.pc = "node" => c.event \notin Findable'
    PROVE  Supported(c)'
<1>1. \A e \in made : Kept(e) => Kept(e)'
  BY DEF Kept, Monotone, TypeOK
<1>2. c.pc \in {"payer", "mail", "mark", "unlink", "remove"} => c.event \in made
  BY DEF Supported, Steps
<1>3. Findable \subseteq made
  BY DEF DocumentsSound
<1>4. /\ c.pc \in {"locate", "store"} => c.span.start < c.span.end
      /\ c.pc \in Steps \ {"locate", "store"} => c.event \in made'
      /\ c.pc = "node" => c.event \notin Findable'
      /\ c.pc = "fill" => c.named \notin {{}, Dates}
      /\ c.pc = "charge" => c.op = "pay"
      /\ c.pc = "write" => \/ c.named = {}
                          \/ (c.named = Dates /\ c.span.start <= c.span.end)
  BY DEF Supported, Monotone
<1>5. c.pc \in {"mark", "payer", "mail"} => c.op = "pay" /\ c.took /\ charged'[c.event] > 0
  <2> SUFFICES ASSUME c.pc \in {"mark", "payer", "mail"}
               PROVE  c.op = "pay" /\ c.took /\ charged'[c.event] > 0
    OBVIOUS
  <2>1. c.op = "pay" /\ c.took /\ charged[c.event] > 0
    BY DEF Supported
  <2> QED
    BY <1>2, <2>1 DEF Monotone
<1>6. /\ c.pc \in {"payer", "mail"} => Kept(c.event)'
      /\ c.pc = "done" /\ c.op = "pay" /\ c.status = 204 =>
           c.event \in made' /\ c.took /\ Kept(c.event)'
  BY <1>1, <1>2 DEF Supported, Monotone
<1>7. /\ c.pc \in {"remove", "unlink"} => c.op = "delete" /\ c.event \in Findable'
      /\ c.pc = "unlink" /\ c.flag => c.event \notin stored'
      /\ c.pc = "done" /\ c.op = "delete" /\ c.status = 204 =>
           c.event \in Findable' /\ c.event \notin stored' \cup nodes'
  BY <1>2, <1>3 DEF Supported, Monotone
<1> QED
  BY <1>4, <1>5, <1>6, <1>7 DEF Supported

LEMMA CallsKept ==
    ASSUME TypeOK, DocumentsSound, CallsSupported, Monotone, NEW r \in Requests,
           \A q \in Requests \ {r} : /\ req'[q] = req[q]
                                     /\ At(q, "node") => req[q].event \notin Findable',
           NEW c, req'[r] = c, Supported(c)'
    PROVE  CallsSupported'
<1> SUFFICES ASSUME NEW q \in Requests PROVE Supported(req[q])'
  BY DEF CallsSupported
<1>1. CASE q = r
  BY <1>1 DEF Supported
<1>2. CASE q # r
  <2>1. PICK d : d = req[q]
    OBVIOUS
  <2>2. d \in AnyCall /\ Supported(d) /\ (d.pc = "node" => d.event \notin Findable')
    BY <1>2, <2>1 DEF TypeOK, AnyCall, CallsSupported, At
  <2>3. Supported(d)'
    BY <2>2, CallKept
  <2> QED
    BY <1>2, <2>1, <2>3 DEF Supported
<1> QED
  BY <1>1, <1>2

\* No step but StoreEvent begins a creation.
LEMMA CreationsKept ==
    ASSUME OneCreation, NEW r \in Requests,
           \A q \in Requests \ {r} : req'[q] = req[q],
           Creating(r)' => Creating(r) /\ req'[r].event = req[r].event
    PROVE  OneCreation'
  BY DEF OneCreation, Creating

LEMMA UnbilledFinite ==
    \A e : IsFiniteSet(Unbilled(e)) /\ Cardinality(Unbilled(e)) \in Nat
  BY CatalogueAssumption, FS_Subset, FS_CardinalityType DEF Unbilled

LEMMA ChargesKept ==
    ASSUME TypeOK, ChargesCover, UNCHANGED moneyVars,
           \A e \in Events : Unbilled(e)' \subseteq Unbilled(e)
    PROVE  ChargesCover'
<1> SUFFICES ASSUME NEW e \in Events
             PROVE  mailed'[e] + Cardinality(Unbilled(e)') <= charged'[e]
  BY DEF ChargesCover
<1>1. PICK S : S = Unbilled(e)'
  OBVIOUS
<1>2. Cardinality(S) \in Nat /\ Cardinality(S) <= Cardinality(Unbilled(e))
  BY <1>1, UnbilledFinite, FS_Subset, FS_CardinalityType
<1> QED
  BY <1>1, <1>2, UnbilledFinite DEF ChargesCover, TypeOK, moneyVars

\* A step of r after which r is unbilled only if it was so before.
LEMMA UnbilledKept ==
    ASSUME NEW r \in Requests,
           \A q \in Requests \ {r} : req'[q] = req[q],
           req'[r].pc \in {"mark", "payer", "mail"} =>
             req[r].pc \in {"mark", "payer", "mail"} /\ req'[r].event = req[r].event
    PROVE  \A e \in Events : Unbilled(e)' \subseteq Unbilled(e)
  BY DEF Unbilled

\* A step that leaves the stores, the graph and the money alone.
LEMMA Framed ==
    ASSUME TypeOK, Inductive, NEW r \in Requests,
           UNCHANGED <<clockVars, docVars, known, nodes, index, moneyVars>>,
           req' \in [Requests -> AnyCall],
           \A q \in Requests \ {r} : req'[q] = req[q],
           NEW c, req'[r] = c, Supported(c),
           c.pc \in {"node", "index"} => Creating(r) /\ c.event = req[r].event,
           c.pc \in {"mark", "payer", "mail"} =>
             req[r].pc \in {"mark", "payer", "mail"} /\ c.event = req[r].event
    PROVE  TypeOK' /\ Inductive'
<1>1. TypeOK'
  BY DEF TypeOK, AnyCall, clockVars, docVars, moneyVars
<1>2. DocumentsSound'
  BY DEF Inductive, DocumentsSound, Findable, docVars, moneyVars
<1>3. Findable' = Findable
  BY DEF Findable
<1>4. Supported(c)'
  BY <1>3 DEF Supported, Kept, docVars, moneyVars
<1>5. CallsSupported'
  <2>1. Monotone
    BY <1>3 DEF Monotone, TypeOK, docVars, moneyVars
  <2>2. \A q \in Requests \ {r} : At(q, "node") => req[q].event \notin Findable'
    BY <1>3 DEF Inductive, CallsSupported, Supported, At
  <2> QED
    BY <1>4, <2>1, <2>2, CallsKept DEF Inductive
<1>6. OneCreation'
  BY CreationsKept DEF Inductive, Creating
<1>7. ChargesCover'
  BY ChargesKept, UnbilledKept DEF Inductive
<1> QED
  BY <1>1, <1>2, <1>5, <1>6, <1>7 DEF Inductive

-----------------------------------------------------------------------------
(* The steps that change nothing but the call.                               *)

LEMMA AnswerKept ==
    ASSUME TypeOK, Inductive, NEW r \in Requests, req[r].pc \in Steps,
           NEW s \in Statuses, Answer(r, s), s = 204 => req[r].op \notin {"pay", "delete"},
           UNCHANGED <<clockVars, docVars, known, nodes, index, moneyVars>>
    PROVE  TypeOK' /\ Inductive'
<1>1. PICK c : c = req'[r]
  OBVIOUS
<1>2. /\ req' \in [Requests -> AnyCall]
      /\ \A q \in Requests \ {r} : req'[q] = req[q]
      /\ c.pc = "done" /\ c.op = req[r].op /\ c.status = s
  BY <1>1, AnswerShape
<1>3. Supported(c)
  BY <1>2 DEF Supported, Steps
<1> QED
  BY <1>1, <1>2, <1>3, Framed

LEMMA CheckKept ==
    ASSUME TypeOK, Inductive, NEW r \in Requests, NEW c \in Call,
           req' = [req EXCEPT ![r] = CheckDates(c)],
           c.event \in made, c.named = {} \/ c.named = Dates,
           UNCHANGED <<clockVars, docVars, known, nodes, index, moneyVars>>
    PROVE  TypeOK' /\ Inductive'
<1>1. PICK d : d = CheckDates(c)
  OBVIOUS
<1>2. /\ d \in AnyCall /\ d.event \in made
      /\ \/ d.pc = "done" /\ d.status = 400
         \/ /\ d.pc = "write"
            /\ d.named = c.named /\ d.span = c.span
            /\ c.named = Dates => c.span.start <= c.span.end
  BY <1>1, CheckShape
<1>3. /\ req'[r] = d /\ req' \in [Requests -> AnyCall]
      /\ \A q \in Requests \ {r} : req'[q] = req[q]
  BY <1>1, <1>2, NextCall
<1>4. Supported(d)
  BY <1>2 DEF Supported, Steps
<1> QED
  BY <1>2, <1>3, <1>4, Framed

LEMMA ReceiveKept ==
    ASSUME TypeOK, Inductive, NEW r \in Requests, NEW c \in Call,
           req' = [req EXCEPT ![r] = c], Supported(c),
           c.pc \in {"locate", "fill", "charge", "remove"},
           UNCHANGED <<clockVars, docVars, known, nodes, index, moneyVars>>
    PROVE  TypeOK' /\ Inductive'
<1>1. /\ req'[r] = c /\ req' \in [Requests -> AnyCall]
      /\ \A q \in Requests \ {r} : req'[q] = req[q]
  BY NextCall DEF AnyCall
<1> QED
  BY <1>1, Framed

LEMMA ReceiveCreateKept ==
    ASSUME TypeOK, Inductive, NEW r \in Requests, ReceiveCreate(r)
    PROVE  TypeOK' /\ Inductive'
<1>1. PICK s \in Span, public \in BOOLEAN :
        /\ s.start < s.end
        /\ req' = [req EXCEPT ![r] = [NewCall("create", NoEvent, "locate")
                                        EXCEPT !.span = s, !.flag = public]]
        /\ UNCHANGED <<clockVars, docVars, known, nodes, index, moneyVars>>
  BY DEF ReceiveCreate
<1>2. PICK c : c = [NewCall("create", NoEvent, "locate") EXCEPT !.span = s, !.flag = public]
  OBVIOUS
<1>3. c \in Call /\ c.pc = "locate" /\ c.span = s
  BY <1>2 DEF NewCall, Call, Steps, Ops
<1>4. Supported(c)
  BY <1>1, <1>3 DEF Supported, Steps
<1> QED
  BY <1>1, <1>2, <1>3, <1>4, ReceiveKept

LEMMA ReceivePatchKept ==
    ASSUME TypeOK, Inductive, NEW r \in Requests, ReceivePatch(r)
    PROVE  TypeOK' /\ Inductive'
<1>1. PICK e \in Findable, named \in SUBSET Dates, s \in Span :
        /\ LET c == [NewCall("patch", e, "fill") EXCEPT !.named = named, !.span = s]
           IN  req' = [req EXCEPT ![r] = IF named \in {{}, Dates} THEN CheckDates(c) ELSE c]
        /\ UNCHANGED <<clockVars, docVars, known, nodes, index, moneyVars>>
  BY DEF ReceivePatch
<1>2. PICK c : c = [NewCall("patch", e, "fill") EXCEPT !.named = named, !.span = s]
  OBVIOUS
<1>3. e \in Events /\ e \in made
  BY MadeEvents DEF Inductive, DocumentsSound
<1>4. c \in Call /\ c.pc = "fill" /\ c.op = "patch" /\ c.event = e /\ c.named = named
  BY <1>2, <1>3 DEF NewCall, Call, Steps, Ops
<1>5. CASE named \in {{}, Dates}
  BY <1>1, <1>2, <1>3, <1>4, <1>5, CheckKept
<1>6. CASE named \notin {{}, Dates}
  <2>1. Supported(c)
    BY <1>3, <1>4, <1>6 DEF Supported, Steps
  <2> QED
    BY <1>1, <1>2, <1>4, <1>6, <2>1, ReceiveKept
<1> QED
  BY <1>5, <1>6

LEMMA ReceivePaymentKept ==
    ASSUME TypeOK, Inductive, NEW r \in Requests, ReceivePayment(r)
    PROVE  TypeOK' /\ Inductive'
<1>1. PICK e \in Findable :
        /\ req' = [req EXCEPT ![r] = NewCall("pay", e, "charge")]
        /\ UNCHANGED <<clockVars, docVars, known, nodes, index, moneyVars>>
  BY DEF ReceivePayment
<1>2. e \in Events /\ e \in made
  BY MadeEvents DEF Inductive, DocumentsSound
<1>3. PICK c : c = NewCall("pay", e, "charge")
  OBVIOUS
<1>4. c \in Call /\ c.pc = "charge" /\ c.op = "pay" /\ c.event = e
  BY <1>2, <1>3, NewCallShape DEF Steps, Ops
<1>5. Supported(c)
  BY <1>2, <1>4 DEF Supported, Steps
<1> QED
  BY <1>1, <1>3, <1>4, <1>5, ReceiveKept

LEMMA ReceiveDeleteKept ==
    ASSUME TypeOK, Inductive, NEW r \in Requests, ReceiveDelete(r)
    PROVE  TypeOK' /\ Inductive'
<1>1. PICK e \in Findable, fits \in BOOLEAN :
        /\ req' = [req EXCEPT ![r] = [NewCall("delete", e, "remove") EXCEPT !.flag = fits]]
        /\ UNCHANGED <<clockVars, docVars, known, nodes, index, moneyVars>>
  BY DEF ReceiveDelete
<1>2. e \in Events /\ e \in made
  BY MadeEvents DEF Inductive, DocumentsSound
<1>3. PICK c : c = [NewCall("delete", e, "remove") EXCEPT !.flag = fits]
  OBVIOUS
<1>4. NewCall("delete", e, "remove") \in Call
  BY <1>2, NewCallShape DEF Steps, Ops
<1>5. c \in Call /\ c.pc = "remove" /\ c.op = "delete" /\ c.event = e
  BY <1>2, <1>3, <1>4, NewCallShape DEF Call, Steps, Ops
<1>6. Supported(c)
  BY <1>2, <1>5 DEF Supported, Steps
<1> QED
  BY <1>1, <1>3, <1>5, <1>6, ReceiveKept

LEMMA LocateKept ==
    ASSUME TypeOK, Inductive, NEW r \in Requests, Locate(r)
    PROVE  TypeOK' /\ Inductive'
<1>1. /\ req[r].pc = "locate" /\ req[r].pc \in Steps
      /\ UNCHANGED <<clockVars, docVars, known, nodes, index, moneyVars>>
  BY DEF Locate, At, Steps
<1>2. ASSUME NEW s \in {400, 404, 500}, Answer(r, s) PROVE TypeOK' /\ Inductive'
  BY <1>1, <1>2, AnswerKept DEF Statuses
<1>3. CASE GoOn(r, "store")
  <2>1. PICK c : c = req'[r]
    OBVIOUS
  <2>2. /\ req' \in [Requests -> AnyCall] /\ c.pc = "store" /\ c.span = req[r].span
        /\ \A q \in Requests \ {r} : req'[q] = req[q]
    BY <1>1, <1>3, <2>1, GoOnShape DEF Steps
  <2>3. Supported(c)
    BY <1>1, <2>2 DEF Supported, Steps, Inductive, CallsSupported
  <2> QED
    BY <1>1, <2>1, <2>2, <2>3, Framed
<1> QED
  BY <1>2, <1>3 DEF Locate

LEMMA FillDatesKept ==
    ASSUME TypeOK, Inductive, NEW r \in Requests, FillDates(r)
    PROVE  TypeOK' /\ Inductive'
<1>1. /\ req[r].pc = "fill" /\ req[r].pc \in Steps
      /\ UNCHANGED <<clockVars, docVars, known, nodes, index, moneyVars>>
  BY DEF FillDates, At, Steps
<1>2. CASE req[r].event \notin stored
  BY <1>1, <1>2, AnswerKept DEF FillDates, Statuses
<1>3. CASE req[r].event \in stored
  <2>1. req[r] \in Call /\ req[r].event \in Events
    BY <1>1, <1>3, CallShape DEF TypeOK, AnyCall
  <2> DEFINE doc == span[req[r].event]
  <2>2. doc \in Span
    BY <2>1 DEF TypeOK
  <2>3. Updated(req[r], doc) \in Span
    BY <2>1, <2>2, UpdatedShape
  <2>4. PICK c : c = [req[r] EXCEPT !.named = Dates, !.span = Updated(req[r], doc)]
    OBVIOUS
  <2>5. c \in Call /\ c.named = Dates /\ c.event = req[r].event /\ c.op = req[r].op
    BY <2>1, <2>3, <2>4 DEF Call
  <2>6. req' = [req EXCEPT ![r] = CheckDates(c)]
    BY <1>3, <2>4 DEF FillDates
  <2>7. req[r].event \in made
    BY <1>1, <1>3 DEF TypeOK
  <2> QED
    BY <1>1, <2>5, <2>6, <2>7, CheckKept
<1> QED
  BY <1>2, <1>3

LEMMA FindPayerKept ==
    ASSUME TypeOK, Inductive, NEW r \in Requests, FindPayer(r)
    PROVE  TypeOK' /\ Inductive'
<1>1. /\ req[r].pc = "payer" /\ req[r].pc \in Steps
      /\ UNCHANGED <<clockVars, docVars, known, nodes, index, moneyVars>>
  BY DEF FindPayer, At, Steps
<1>2. CASE Answer(r, 500)
  BY <1>1, <1>2, AnswerKept DEF Statuses
<1>3. CASE GoOn(r, "mail")
  <2>1. PICK c : c = req'[r]
    OBVIOUS
  <2>2. /\ req' \in [Requests -> AnyCall] /\ c.pc = "mail" /\ c.op = req[r].op
        /\ c.event = req[r].event /\ c.took = req[r].took
        /\ \A q \in Requests \ {r} : req'[q] = req[q]
    BY <1>1, <1>3, <2>1, GoOnShape DEF Steps
  <2>3. Supported(c)
    BY <1>1, <2>2 DEF Supported, Steps, Inductive, CallsSupported
  <2> QED
    BY <1>1, <2>1, <2>2, <2>3, Framed
<1> QED
  BY <1>2, <1>3 DEF FindPayer

LEMMA StoreFailsKept ==
    ASSUME TypeOK, Inductive, NEW r \in Requests, StoreFails(r)
    PROVE  TypeOK' /\ Inductive'
  BY AnswerKept DEF StoreFails, Statuses, Steps

LEMMA ForgetKept ==
    ASSUME TypeOK, Inductive, NEW r \in Requests, Forget(r)
    PROVE  TypeOK' /\ Inductive'
<1>1. /\ req'[r] = Idle /\ req' \in [Requests -> AnyCall]
      /\ \A q \in Requests \ {r} : req'[q] = req[q]
      /\ UNCHANGED <<clockVars, docVars, known, nodes, index, moneyVars>>
  BY NextCall DEF Forget, AnyCall
<1>2. Idle.pc = "idle"
  BY DEF Idle
<1>3. Supported(Idle)
  BY <1>2 DEF Supported, Steps
<1> QED
  BY <1>1, <1>2, <1>3, Framed

-----------------------------------------------------------------------------
(* The steps that change the stores.                                         *)

\* The step of r as the four parts of the invariant see it.
LEMMA Assembled ==
    ASSUME TypeOK, Inductive, NEW r \in Requests, TypeOK', DocumentsSound', Monotone,
           \A q \in Requests \ {r} : /\ req'[q] = req[q]
                                     /\ At(q, "node") => req[q].event \notin Findable',
           NEW c, req'[r] = c, Supported(c)',
           c.pc \in {"node", "index"} => Creating(r) /\ c.event = req[r].event,
           ChargesCover'
    PROVE  TypeOK' /\ Inductive'
<1>1. CallsSupported'
  BY CallsKept DEF Inductive
<1>2. OneCreation'
  BY CreationsKept DEF Inductive, Creating
<1> QED
  BY <1>1, <1>2 DEF Inductive

LEMMA StoreEventKept ==
    ASSUME TypeOK, Inductive, NEW r \in Requests, StoreEvent(r)
    PROVE  TypeOK' /\ Inductive'
<1>1. PICK e \in Events \ made :
        /\ made' = made \cup {e}
        /\ stored' = stored \cup {e}
        /\ span' = [span EXCEPT ![e] = req[r].span]
        /\ req' = [req EXCEPT ![r].pc = "node", ![r].event = e]
        /\ UNCHANGED <<clockVars, paid, known, nodes, index, moneyVars>>
  BY DEF StoreEvent
<1>2. req[r].pc = "store" /\ req[r] \in Call
  BY CallShape DEF StoreEvent, At, TypeOK, AnyCall, Steps
<1>3. req[r].span \in Span /\ req[r].span.start < req[r].span.end
  BY <1>2, CallShape DEF Inductive, CallsSupported, Supported, AnyCall
<1>4. PICK c : c = [req[r] EXCEPT !.pc = "node", !.event = e]
  OBVIOUS
<1>5. c \in Call /\ c.pc = "node" /\ c.event = e
  BY <1>2, <1>4 DEF Call, Steps
<1>6. /\ req'[r] = c /\ req' \in [Requests -> AnyCall]
      /\ \A q \in Requests \ {r} : req'[q] = req[q]
  <2>1. req' = [req EXCEPT ![r] = c]
    BY <1>1, <1>4 DEF TypeOK
  <2> QED
    BY <1>5, <2>1, NextCall DEF AnyCall
<1>7. TypeOK'
  BY <1>1, <1>3, <1>6 DEF TypeOK, AnyCall, clockVars, moneyVars
<1>8. Findable' = Findable /\ Findable \subseteq made
  BY <1>1 DEF Findable, Inductive, DocumentsSound
<1>9. DocumentsSound'
  <2>1. \A x \in Events : span'[x] = IF x = e THEN req[r].span ELSE span[x]
    BY <1>1 DEF TypeOK
  <2>2. req[r].span.start <= req[r].span.end
    BY <1>3, CatalogueAssumption DEF Span, Times
  <2> QED
    BY <1>1, <1>8, <2>1, <2>2 DEF Inductive, DocumentsSound, TypeOK, moneyVars
<1>10. Monotone
  BY <1>1, <1>8 DEF Monotone, TypeOK, moneyVars
<1>11. \A q \in Requests \ {r} : Creating(q) => req[q].event \in made
  BY DEF Creating, Inductive, CallsSupported, Supported, Steps
<1>12. CallsSupported'
  <2>1. Supported(c)'
    BY <1>1, <1>5, <1>8 DEF Supported, Steps
  <2>2. \A q \in Requests \ {r} : At(q, "node") => req[q].event \notin Findable'
    BY <1>8 DEF Inductive, CallsSupported, Supported, At
  <2> QED
    BY <1>6, <1>10, <2>1, <2>2, CallsKept DEF Inductive
<1>13. OneCreation'
  BY <1>1, <1>5, <1>6, <1>11 DEF OneCreation, Creating, Inductive
<1>14. ChargesCover'
  BY <1>1, <1>5, <1>6, ChargesKept, UnbilledKept DEF Inductive
<1> QED
  BY <1>7, <1>9, <1>12, <1>13, <1>14 DEF Inductive

\* The answer to a creation, which makes its event findable.
LEMMA CreatedKept ==
    ASSUME TypeOK, Inductive, NEW r \in Requests, Creating(r), Created(r),
           index' \in {index, index \cup {req[r].event}},
           nodes' \in {nodes, nodes \cup {req[r].event}},
           nodes' = nodes \/ At(r, "node"),
           UNCHANGED <<clockVars, docVars, moneyVars>>
    PROVE  TypeOK' /\ Inductive'
<1>1. req[r].event \in made /\ req[r].event \in Events /\ req[r].pc \in Steps
  BY DEF Creating, Inductive, CallsSupported, Supported, Steps, TypeOK
<1>2. PICK c : c = req'[r]
  OBVIOUS
<1>3. /\ req' \in [Requests -> AnyCall] /\ c.pc = "done" /\ c.status = 201
      /\ \A q \in Requests \ {r} : req'[q] = req[q]
      /\ known' = known \cup {req[r].event}
  BY <1>1, <1>2, AnswerShape DEF Created, Statuses
<1>4. TypeOK'
  BY <1>1, <1>3 DEF TypeOK, AnyCall, clockVars, docVars, moneyVars
<1>5. Findable' = Findable \cup {req[r].event}
  BY <1>3 DEF Findable
<1>6. DocumentsSound'
  BY <1>1, <1>5 DEF Inductive, DocumentsSound, docVars, moneyVars
<1>7. Monotone
  <2>1. nodes' \cap Findable \subseteq nodes
    BY DEF At, Inductive, CallsSupported, Supported
  <2> QED
    BY <1>5, <2>1 DEF Monotone, TypeOK, docVars, moneyVars
<1>8. \A q \in Requests \ {r} : At(q, "node") => req[q].event \notin Findable'
  <2> SUFFICES ASSUME NEW q \in Requests \ {r}, At(q, "node")
               PROVE  req[q].event \notin Findable'
    OBVIOUS
  <2>1. req[q].event \notin Findable
    BY DEF Inductive, CallsSupported, Supported, At
  <2>2. req[q].event # req[r].event
    BY DEF Inductive, OneCreation, Creating, At
  <2> QED
    BY <1>5, <2>1, <2>2
<1>9. Supported(c)'
  BY <1>3 DEF Supported, Steps
<1>10. ChargesCover'
  BY <1>2, <1>3, ChargesKept, UnbilledKept DEF Inductive
<1> QED
  BY <1>2, <1>3, <1>4, <1>6, <1>7, <1>8, <1>9, <1>10, Assembled

LEMMA CreateNodeKept ==
    ASSUME TypeOK, Inductive, NEW r \in Requests, CreateNode(r)
    PROVE  TypeOK' /\ Inductive'
<1>1. /\ req[r].pc = "node" /\ req[r].pc \in Steps
      /\ nodes' = nodes \cup {req[r].event}
      /\ UNCHANGED <<clockVars, docVars, index, moneyVars>>
  BY DEF CreateNode, At, Steps
<1>2. CASE Created(r)
  BY <1>1, <1>2, CreatedKept DEF Creating, At
<1>3. CASE GoOn(r, "index") /\ UNCHANGED known
  <2>1. PICK c : c = req'[r]
    OBVIOUS
  <2>2. /\ req' \in [Requests -> AnyCall] /\ c.pc = "index" /\ c.event = req[r].event
        /\ \A q \in Requests \ {r} : req'[q] = req[q]
    BY <1>1, <1>3, <2>1, GoOnShape DEF Steps
  <2>3. req[r].event \in made /\ req[r].event \in Events /\ req[r].event \notin Findable
    BY <1>1 DEF Inductive, CallsSupported, Supported, Steps, TypeOK
  <2>4. TypeOK'
    BY <1>1, <1>3, <2>2, <2>3 DEF TypeOK, AnyCall, clockVars, docVars, moneyVars
  <2>5. Findable' = Findable
    BY <1>1, <1>3 DEF Findable
  <2>6. DocumentsSound'
    BY <1>1, <2>5 DEF Inductive, DocumentsSound, docVars, moneyVars
  <2>7. Monotone
    BY <1>1, <2>3, <2>5 DEF Monotone, TypeOK, docVars, moneyVars
  <2>8. \A q \in Requests \ {r} : At(q, "node") => req[q].event \notin Findable'
    BY <2>5 DEF Inductive, CallsSupported, Supported, At
  <2>9. Supported(c)'
    BY <1>1, <2>2, <2>3 DEF Supported, Steps, docVars
  <2>10. ChargesCover'
    BY <1>1, <2>1, <2>2, ChargesKept, UnbilledKept DEF Inductive
  <2> QED
    BY <1>1, <2>1, <2>2, <2>4, <2>6, <2>7, <2>8, <2>9, <2>10, Assembled DEF Creating
<1> QED
  BY <1>2, <1>3 DEF CreateNode

LEMMA IndexEventKept ==
    ASSUME TypeOK, Inductive, NEW r \in Requests, IndexEvent(r)
    PROVE  TypeOK' /\ Inductive'
  BY CreatedKept DEF IndexEvent, Creating, At

\* A call past its creation stands for a stored id, and so do all nodes.
LEMMA Underway ==
    ASSUME TypeOK, Inductive, NEW r \in Requests, req[r].pc \in Steps \ {"locate", "store"}
    PROVE  /\ req[r] \in Call /\ req[r].pc \in Steps
           /\ req[r].event \in made /\ req[r].event \in Events
<1>1. req[r] \in AnyCall /\ Supported(req[r])
  BY DEF TypeOK, AnyCall, Inductive, CallsSupported
<1> QED
  BY <1>1, CallShape DEF Supported, TypeOK

\* Findable ids stay as they are: no other call at its node is overtaken.
LEMMA NodesAhead ==
    ASSUME Inductive, Findable' = Findable
    PROVE  \A q \in Requests : At(q, "node") => req[q].event \notin Findable'
  BY DEF Inductive, CallsSupported, Supported, At

LEMMA WriteUpdateKept ==
    ASSUME TypeOK, Inductive, NEW r \in Requests, WriteUpdate(r)
    PROVE  TypeOK' /\ Inductive'
<1>1. /\ req[r].pc = "write" /\ req[r].pc \in Steps \ {"locate", "store"}
      /\ UNCHANGED <<clockVars, stored, paid, made, known, nodes, index, moneyVars>>
  BY DEF WriteUpdate, At, Steps
<1>2. CASE req[r].event \notin stored
  BY <1>1, <1>2, AnswerKept DEF WriteUpdate, Statuses, docVars
<1>3. CASE req[r].event \in stored
  <2> DEFINE e == req[r].event
  <2>1. req[r] \in Call /\ req[r].pc \in Steps /\ e \in Events /\ e \in made
    BY <1>1, Underway
  <2>2. Answer(r, 200) /\ span' = [span EXCEPT ![e] = Updated(req[r], span[e])]
    BY <1>3, <2>1 DEF WriteUpdate, TypeOK
  <2>3. PICK c : c = req'[r]
    OBVIOUS
  <2>4. /\ req' \in [Requests -> AnyCall] /\ c.pc = "done" /\ c.status = 200
        /\ \A q \in Requests \ {r} : req'[q] = req[q]
    BY <2>1, <2>2, <2>3, AnswerShape DEF Statuses
  <2>5. /\ Updated(req[r], span[e]) \in Span
        /\ Updated(req[r], span[e]).start <= Updated(req[r], span[e]).end
    <3>1. span[e] \in Span /\ span[e].start <= span[e].end
      BY <1>3, <2>1 DEF TypeOK, Inductive, DocumentsSound
    <3>2. req[r].named = {} \/ (req[r].named = Dates /\ req[r].span.start <= req[r].span.end)
      BY <1>1 DEF Inductive, CallsSupported, Supported
    <3> QED
      BY <2>1, <3>1, <3>2, UpdatedShape
  <2>6. TypeOK'
    BY <1>1, <2>2, <2>4, <2>5 DEF TypeOK, AnyCall, clockVars, moneyVars
  <2>7. Findable' = Findable
    BY <1>1 DEF Findable
  <2>8. DocumentsSound'
    <3>1. \A x \in Events : span'[x] = IF x = e THEN Updated(req[r], span[e]) ELSE span[x]
      BY <2>2 DEF TypeOK
    <3> HIDE DEF e
    <3> QED
      BY <1>1, <1>3, <2>5, <2>7, <3>1 DEF Inductive, DocumentsSound, TypeOK, moneyVars, e
  <2>9. Monotone
    BY <1>1, <2>7 DEF Monotone, TypeOK, moneyVars
  <2>10. Supported(c)'
    BY <2>4 DEF Supported, Steps
  <2>11. ChargesCover'
    BY <1>1, <2>3, <2>4, ChargesKept, UnbilledKept DEF Inductive
  <2> QED
    BY <2>3, <2>4, <2>6, <2>7, <2>8, <2>9, <2>10, <2>11, NodesAhead, Assembled
<1> QED
  BY <1>2, <1>3

LEMMA ChargeKept ==
    ASSUME TypeOK, Inductive, NEW r \in Requests, Charge(r)
    PROVE  TypeOK' /\ Inductive'
<1> DEFINE e == req[r].event
<1>1. /\ req[r].pc = "charge" /\ req[r].pc \in Steps \ {"locate", "store"}
      /\ UNCHANGED <<clockVars, docVars, known, nodes, index, mailed>>
  BY DEF Charge, At, Steps
<1>2. req[r] \in Call /\ req[r].pc \in Steps /\ e \in Events /\ e \in made
  BY <1>1, Underway
<1>3. CASE (\E s \in {402, 500} : Answer(r, s)) /\ UNCHANGED charged
  BY <1>1, <1>2, <1>3, AnswerKept DEF Statuses, moneyVars
<1>4. ASSUME charged[e] < MaxCharges, charged' = [charged EXCEPT ![e] = @ + 1],
             \/ req' = [req EXCEPT ![r].pc = "mark", ![r].took = TRUE]
             \/ req' = [req EXCEPT ![r] = Done([req[r] EXCEPT !.took = TRUE], 500)]
      PROVE  TypeOK' /\ Inductive'
  <2>1. /\ charged[e] \in 0..MaxCharges /\ charged' \in [Events -> 0..MaxCharges]
        /\ charged'[e] = charged[e] + 1
        /\ \A x \in Events : charged[x] \in Nat /\ charged'[x] \in Nat
                           /\ charged[x] <= charged'[x]
    BY <1>2, <1>4, CatalogueAssumption DEF TypeOK
  <2>2. PICK c : c = req'[r]
    OBVIOUS
  <2>3. [req[r] EXCEPT !.pc = "mark", !.took = TRUE] \in Call
    BY <1>2 DEF Call, Steps
  <2>4. [req[r] EXCEPT !.took = TRUE] \in Call
    BY <1>2 DEF Call
  <2>5. /\ req' \in [Requests -> AnyCall] /\ c.event = e
        /\ \/ c.pc = "mark" /\ c.op = req[r].op /\ c.took
           \/ c.pc = "done" /\ c.status = 500
        /\ \A q \in Requests \ {r} : req'[q] = req[q]
    <3>1. CASE req' = [req EXCEPT ![r].pc = "mark", ![r].took = TRUE]
      <4>1. PICK d : d = [req[r] EXCEPT !.pc = "mark", !.took = TRUE]
        OBVIOUS
      <4>2. req' = [req EXCEPT ![r] = d]
        BY <3>1, <4>1 DEF TypeOK
      <4>3. d \in Call /\ d.pc = "mark" /\ d.op = req[r].op /\ d.took /\ d.event = e
        BY <1>2, <2>3, <4>1 DEF Call
      <4>4. d \in AnyCall
        BY <4>3 DEF AnyCall
      <4>5. /\ req'[r] = d /\ req' \in [Requests -> AnyCall]
            /\ \A q \in Requests \ {r} : req'[q] = req[q]
        BY <4>2, <4>4 DEF TypeOK, AnyCall
      <4> QED
        BY <2>2, <4>3, <4>5
    <3>2. CASE req' = [req EXCEPT ![r] = Done([req[r] EXCEPT !.took = TRUE], 500)]
      <4>1. PICK d : d = [req[r] EXCEPT !.took = TRUE]
        OBVIOUS
      <4>2. d \in Call /\ d.event = e
        BY <1>2, <2>4, <4>1 DEF Call
      <4>3. Done(d, 500) \in Answered /\ Done(d, 500).pc = "done"
            /\ Done(d, 500).status = 500 /\ Done(d, 500).event = e
        BY <4>2, DoneShape DEF Statuses
      <4>4. PICK x : x = Done(d, 500)
        OBVIOUS
      <4>5. req' = [req EXCEPT ![r] = x]
        BY <3>2, <4>1, <4>4
      <4>6. x \in AnyCall /\ x.pc = "done" /\ x.status = 500 /\ x.event = e
        BY <4>3, <4>4 DEF AnyCall
      <4>7. /\ req'[r] = x /\ req' \in [Requests -> AnyCall]
            /\ \A q \in Requests \ {r} : req'[q] = req[q]
        BY <4>5, <4>6 DEF TypeOK, AnyCall
      <4> QED
        BY <2>2, <4>6, <4>7
    <3> QED
      BY <1>4, <3>1, <3>2
  <2>6. TypeOK'
    BY <1>1, <2>1, <2>5 DEF TypeOK, AnyCall, clockVars, docVars
  <2>7. Findable' = Findable
    BY <1>1 DEF Findable
  <2>8. DocumentsSound'
    <3>1. \A x \in paid : charged'[x] > 0
      BY <2>1 DEF Inductive, DocumentsSound, TypeOK
    <3> QED
      BY <1>1, <2>7, <3>1 DEF Inductive, DocumentsSound, docVars
  <2>9. Monotone
    BY <1>1, <2>1, <2>7 DEF Monotone, TypeOK, docVars
  <2>10. Supported(c)'
    <3>1. req[r].op = "pay"
      BY <1>1 DEF Inductive, CallsSupported, Supported
    <3>2. charged'[e] > 0
      BY <2>1
    <3> HIDE DEF e
    <3> QED
      BY <1>1, <1>2, <2>5, <3>1, <3>2 DEF Supported, Steps, docVars
  <2>11. ChargesCover'
    <3> SUFFICES ASSUME NEW x \in Events
                 PROVE  mailed'[x] + Cardinality(Unbilled(x)') <= charged'[x]
      BY DEF ChargesCover
    <3>1. PICK S : S = Unbilled(x)'
      OBVIOUS
    <3>2. mailed[x] \in Nat /\ mailed'[x] = mailed[x] /\ charged[x] \in Nat
          /\ mailed[x] + Cardinality(Unbilled(x)) <= charged[x]
      BY <1>1, <2>1 DEF TypeOK, Inductive, ChargesCover
    <3>3. IsFiniteSet(Unbilled(x)) /\ Cardinality(Unbilled(x)) \in Nat
      BY UnbilledFinite
    <3>4. CASE x = e
      <4>1. S \subseteq Unbilled(x) \cup {r}
        BY <2>5, <3>1 DEF Unbilled
      <4>2. PICK U : U = Unbilled(x)
        OBVIOUS
      <4>3. IsFiniteSet(U) /\ Cardinality(U) \in Nat
        BY <3>3, <4>2
      <4>4. IsFiniteSet(U \cup {r}) /\ Cardinality(U \cup {r}) <= Cardinality(U) + 1
        BY <4>3, FS_AddElement
      <4>5. Cardinality(U \cup {r}) \in Nat
        BY <4>4, FS_CardinalityType
      <4>6. S \subseteq U \cup {r}
        BY <4>1, <4>2
      <4>7. Cardinality(S) \in Nat /\ Cardinality(S) <= Cardinality(U \cup {r})
        BY <4>4, <4>6, FS_Subset, FS_CardinalityType
      <4>8. Cardinality(S) <= Cardinality(Unbilled(x)) + 1
        BY <4>2, <4>3, <4>4, <4>5, <4>7
      <4> QED
        BY <2>1, <3>1, <3>2, <3>3, <3>4, <4>7, <4>8
    <3>5. CASE x # e
      <4>1. S \subseteq Unbilled(x)
        BY <2>2, <2>5, <3>1, <3>5 DEF Unbilled
      <4>2. Cardinality(S) \in Nat /\ Cardinality(S) <= Cardinality(Unbilled(x))
        BY <3>3, <4>1, FS_Subset, FS_CardinalityType
      <4>3. charged'[x] \in Nat /\ charged[x] <= charged'[x]
        BY <2>1
      <4> QED
        BY <3>1, <3>2, <3>3, <4>2, <4>3
    <3> QED
      BY <3>4, <3>5
  <2>12. c.pc \notin {"node", "index"}
    BY <2>5
  <2> QED
    BY <2>2, <2>5, <2>6, <2>7, <2>8, <2>9, <2>10, <2>11, <2>12, NodesAhead, Assembled
<1> QED
  BY <1>3, <1>4 DEF Charge

LEMMA MarkKept ==
    ASSUME TypeOK, Inductive, NEW r \in Requests, Mark(r)
    PROVE  TypeOK' /\ Inductive'
<1> DEFINE e == req[r].event
<1>1. /\ req[r].pc = "mark" /\ req[r].pc \in Steps \ {"locate", "store"}
      /\ paid' = paid \cup ({e} \cap stored)
      /\ UNCHANGED <<clockVars, stored, span, made, known, nodes, index, moneyVars>>
  BY DEF Mark, At, Steps
<1>2. req[r] \in Call /\ req[r].pc \in Steps /\ e \in Events /\ e \in made
  BY <1>1, Underway
<1>3. CASE e \notin stored
  <2>1. paid' = paid
    BY <1>1, <1>3
  <2> QED
    BY <1>1, <1>2, <1>3, <2>1, AnswerKept DEF Mark, Statuses, docVars
<1>4. CASE e \in stored
  <2>1. PICK c : c = req'[r]
    OBVIOUS
  <2>2. /\ req' \in [Requests -> AnyCall] /\ c.pc = "payer" /\ c.op = req[r].op
        /\ c.event = e /\ c.took = req[r].took
        /\ \A q \in Requests \ {r} : req'[q] = req[q]
    BY <1>2, <1>4, <2>1, GoOnShape DEF Mark, Steps
  <2>3. req[r].op = "pay" /\ req[r].took /\ charged[e] > 0
    BY <1>1 DEF Inductive, CallsSupported, Supported
  <2>4. TypeOK'
    BY <1>1, <2>2 DEF TypeOK, AnyCall, clockVars, moneyVars
  <2>5. Findable' = Findable
    BY <1>1 DEF Findable
  <2>6. DocumentsSound'
    BY <1>1, <2>3, <2>5 DEF Inductive, DocumentsSound, moneyVars
  <2>7. Monotone
    BY <1>1, <2>5 DEF Monotone, TypeOK, moneyVars
  <2>8. Supported(c)'
    <3>1. e \in paid' /\ charged'[e] > 0
      BY <1>1, <1>4, <2>3 DEF moneyVars
    <3> HIDE DEF e
    <3> QED
      BY <1>1, <1>2, <2>2, <2>3, <3>1 DEF Supported, Kept, Steps
  <2>9. ChargesCover'
    BY <1>1, <2>1, <2>2, ChargesKept, UnbilledKept DEF Inductive
  <2>10. c.pc \notin {"node", "index"}
    BY <2>2
  <2> QED
    BY <2>1, <2>2, <2>4, <2>5, <2>6, <2>7, <2>8, <2>9, <2>10, NodesAhead, Assembled
<1> QED
  BY <1>3, <1>4

LEMMA SendInvoiceKept ==
    ASSUME TypeOK, Inductive, NEW r \in Requests, SendInvoice(r)
    PROVE  TypeOK' /\ Inductive'
<1> DEFINE e == req[r].event
<1>1. /\ req[r].pc = "mail" /\ req[r].pc \in Steps \ {"locate", "store"}
      /\ Answer(r, 204)
      /\ mailed' \in {mailed, [mailed EXCEPT ![e] = @ + 1]}
      /\ UNCHANGED <<clockVars, docVars, known, nodes, index, charged>>
  BY DEF SendInvoice, At, Steps
<1>2. req[r] \in Call /\ req[r].pc \in Steps /\ e \in Events /\ e \in made
  BY <1>1, Underway
<1>3. PICK c : c = req'[r]
  OBVIOUS
<1>4. /\ req' \in [Requests -> AnyCall] /\ c.pc = "done" /\ c.op = req[r].op
      /\ c.event = e /\ c.took = req[r].took /\ c.status = 204
      /\ \A q \in Requests \ {r} : req'[q] = req[q]
  BY <1>1, <1>2, <1>3, AnswerShape DEF Statuses
<1>5. /\ mailed' \in [Events -> Nat]
      /\ \A x \in Events : /\ mailed[x] \in Nat /\ mailed'[x] \in Nat
                         /\ mailed'[x] <= mailed[x] + (IF x = e THEN 1 ELSE 0)
  BY <1>1, <1>2 DEF TypeOK
<1>6. TypeOK'
  BY <1>1, <1>4, <1>5 DEF TypeOK, AnyCall, clockVars, docVars
<1>7. Findable' = Findable
  BY <1>1 DEF Findable
<1>8. DocumentsSound'
  BY <1>1, <1>7 DEF Inductive, DocumentsSound, docVars
<1>9. Monotone
  BY <1>1, <1>7 DEF Monotone, TypeOK, docVars
<1>10. Supported(c)'
  <2>1. req[r].op = "pay" /\ req[r].took /\ Kept(e)
    BY <1>1 DEF Inductive, CallsSupported, Supported
  <2>2. (e \in paid' \/ e \notin stored') /\ e \in made'
    BY <1>1, <1>2, <2>1 DEF Kept, docVars
  <2> HIDE DEF e
  <2> QED
    BY <1>4, <2>1, <2>2 DEF Supported, Kept, Steps
<1>11. ChargesCover'
  <2> SUFFICES ASSUME NEW x \in Events
               PROVE  mailed'[x] + Cardinality(Unbilled(x)') <= charged'[x]
    BY DEF ChargesCover
  <2>1. PICK S : S = Unbilled(x)'
    OBVIOUS
  <2>2. PICK U : U = Unbilled(x)
    OBVIOUS
  <2>3. IsFiniteSet(U) /\ Cardinality(U) \in Nat
    BY <2>2, UnbilledFinite
  <2>4. mailed[x] + Cardinality(U) <= charged[x] /\ charged[x] \in Nat /\ charged' = charged
    BY <1>1, <2>2, CatalogueAssumption DEF Inductive, ChargesCover, TypeOK
  <2>5. S \subseteq U \ {r} /\ (x = e => r \in U)
    BY <1>1, <1>3, <1>4, <2>1, <2>2 DEF Unbilled
  <2>6. IsFiniteSet(U \ {r})
        /\ Cardinality(U \ {r}) = IF r \in U THEN Cardinality(U) - 1 ELSE Cardinality(U)
    BY <2>3, FS_RemoveElement
  <2>7. Cardinality(S) \in Nat /\ Cardinality(S) <= Cardinality(U \ {r})
    BY <2>5, <2>6, FS_Subset, FS_CardinalityType
  <2>8. mailed[x] \in Nat /\ mailed'[x] \in Nat
        /\ mailed'[x] <= mailed[x] + (IF x = e THEN 1 ELSE 0)
    BY <1>5
  <2> HIDE DEF e
  <2>9. CASE x = e
    <3>1. mailed'[x] <= mailed[x] + 1 /\ Cardinality(S) <= Cardinality(U) - 1
      BY <2>3, <2>5, <2>6, <2>7, <2>8, <2>9
    <3> QED
      BY <2>1, <2>3, <2>4, <2>7, <2>8, <3>1
  <2>10. CASE x # e
    <3>1. mailed'[x] <= mailed[x] /\ Cardinality(S) <= Cardinality(U)
      BY <2>3, <2>5, <2>6, <2>7, <2>8, <2>10
    <3> QED
      BY <2>1, <2>3, <2>4, <2>7, <2>8, <3>1
  <2> QED
    BY <2>9, <2>10
<1>12. c.pc \notin {"node", "index"}
  BY <1>4
<1> QED
  BY <1>3, <1>4, <1>6, <1>7, <1>8, <1>9, <1>10, <1>11, <1>12, NodesAhead, Assembled

LEMMA RemoveKept ==
    ASSUME TypeOK, Inductive, NEW r \in Requests, Remove(r)
    PROVE  TypeOK' /\ Inductive'
<1> DEFINE e == req[r].event
           found == req[r].flag /\ e \in stored
<1>1. /\ req[r].pc = "remove" /\ req[r].pc \in Steps \ {"locate", "store"}
      /\ req' = [req EXCEPT ![r].pc = "unlink", ![r].flag = found]
      /\ \/ /\ found /\ stored' = stored \ {e} /\ paid' = paid \ {e}
            /\ span' = [span EXCEPT ![e] = NoSpan]
         \/ ~found /\ UNCHANGED <<stored, paid, span>>
      /\ UNCHANGED <<clockVars, made, known, nodes, index, moneyVars>>
  BY DEF Remove, At, Steps
<1>2. /\ req[r] \in Call /\ req[r].pc \in Steps /\ e \in Events /\ e \in made
      /\ req[r].op = "delete" /\ e \in Findable
  BY <1>1, Underway DEF Inductive, CallsSupported, Supported
<1>3. found \in BOOLEAN
  BY <1>2 DEF Call
<1>4. PICK c : c = [req[r] EXCEPT !.pc = "unlink", !.flag = found]
  OBVIOUS
<1>5. /\ c \in Call /\ c.pc = "unlink" /\ c.op = "delete" /\ c.event = e
      /\ c.flag = found
  <2> HIDE DEF found
  <2> QED
    BY <1>2, <1>3, <1>4 DEF Call, Steps
<1>6. /\ req'[r] = c /\ req' \in [Requests -> AnyCall]
      /\ \A q \in Requests \ {r} : req'[q] = req[q]
  <2>1. req' = [req EXCEPT ![r] = c]
    BY <1>1, <1>4 DEF TypeOK
  <2> QED
    BY <1>5, <2>1 DEF TypeOK, AnyCall
<1>7. NoSpan \in Span
  BY CatalogueAssumption DEF NoSpan, Span, Times
<1>8. TypeOK'
  BY <1>1, <1>6, <1>7 DEF TypeOK, AnyCall, clockVars, moneyVars
<1>9. Findable' = Findable
  BY <1>1 DEF Findable
<1>10. DocumentsSound'
  <2>1. \A x \in Events : span'[x] = IF found /\ x = e THEN NoSpan ELSE span[x]
    BY <1>1 DEF TypeOK
  <2>2. \A x \in Events : x \in stored' <=> x \in stored /\ ~(found /\ x = e)
    BY <1>1
  <2>3. paid' \subseteq paid /\ stored \subseteq Events
    BY <1>1 DEF TypeOK
  <2>4. stored' \subseteq stored
    BY <1>1
  <2> HIDE DEF found, e
  <2> QED
    BY <1>1, <1>9, <2>1, <2>2, <2>3, <2>4 DEF Inductive, DocumentsSound, moneyVars
<1>11. Monotone
  <2>1. paid \cap stored' \subseteq paid' /\ stored' \subseteq stored
    BY <1>1
  <2> QED
    BY <1>1, <1>9, <2>1 DEF Monotone, TypeOK, moneyVars
<1>12. Supported(c)'
  <2>1. found => e \notin stored'
    BY <1>1
  <2>2. e \in made' /\ e \in Findable'
    BY <1>1, <1>2, <1>9
  <2> HIDE DEF found, e
  <2> QED
    BY <1>5, <2>1, <2>2 DEF Supported, Steps
<1>13. ChargesCover'
  BY <1>1, <1>5, <1>6, ChargesKept, UnbilledKept DEF Inductive
<1>14. c.pc \notin {"node", "index"}
  BY <1>5
<1> QED
  BY <1>6, <1>8, <1>9, <1>10, <1>11, <1>12, <1>13, <1>14, NodesAhead, Assembled

LEMMA UnlinkKept ==
    ASSUME TypeOK, Inductive, NEW r \in Requests, Unlink(r)
    PROVE  TypeOK' /\ Inductive'
<1> DEFINE e == req[r].event
           s == IF req[r].flag THEN 204 ELSE 404
<1>1. /\ req[r].pc = "unlink" /\ req[r].pc \in Steps \ {"locate", "store"}
      /\ nodes' = nodes \ {e} /\ Answer(r, s)
      /\ UNCHANGED <<clockVars, docVars, known, index, moneyVars>>
  BY DEF Unlink, At, Steps
<1>2. /\ req[r] \in Call /\ req[r].pc \in Steps /\ e \in Events /\ e \in made
      /\ req[r].op = "delete" /\ e \in Findable /\ (req[r].flag => e \notin stored)
  BY <1>1, Underway DEF Inductive, CallsSupported, Supported
<1>3. s \in Statuses
  BY DEF Statuses
<1>4. PICK c : c = req'[r]
  OBVIOUS
<1>5. /\ req' \in [Requests -> AnyCall]
      /\ c.pc = "done" /\ c.op = "delete" /\ c.event = e /\ c.status = s
      /\ \A q \in Requests \ {r} : req'[q] = req[q]
  <2> HIDE DEF s
  <2> QED
    BY <1>1, <1>2, <1>3, <1>4, AnswerShape
<1>6. TypeOK'
  BY <1>1, <1>5 DEF TypeOK, AnyCall, clockVars, docVars, moneyVars
<1>7. Findable' = Findable
  BY <1>1 DEF Findable
<1>8. DocumentsSound'
  BY <1>1, <1>7 DEF Inductive, DocumentsSound, docVars, moneyVars
<1>9. Monotone
  BY <1>1, <1>7 DEF Monotone, TypeOK, docVars, moneyVars
<1>10. Supported(c)'
  <2>1. s = 204 => e \notin stored' /\ e \notin nodes'
    BY <1>1, <1>2 DEF docVars
  <2>2. e \in made' /\ e \in Findable'
    BY <1>1, <1>2, <1>7 DEF docVars
  <2> HIDE DEF s, e
  <2> QED
    BY <1>5, <2>1, <2>2 DEF Supported, Steps
<1>11. ChargesCover'
  BY <1>1, <1>4, <1>5, ChargesKept, UnbilledKept DEF Inductive
<1>12. c.pc \notin {"node", "index"}
  BY <1>5
<1> QED
  BY <1>4, <1>5, <1>6, <1>7, <1>8, <1>9, <1>10, <1>11, <1>12, NodesAhead, Assembled

-----------------------------------------------------------------------------
(* The surroundings, and the whole.                                          *)

LEMMA TickKept == TypeOK /\ Inductive /\ Tick => TypeOK' /\ Inductive'
<1> SUFFICES ASSUME TypeOK, Inductive, Tick PROVE TypeOK' /\ Inductive'
  OBVIOUS
<1>1. now' \in Times
  BY CatalogueAssumption DEF Tick, TypeOK, Times
<1>2. TypeOK'
  BY <1>1 DEF Tick, TypeOK, docVars, moneyVars
<1>3. DocumentsSound' /\ CallsSupported'
  BY DEF Tick, Inductive, DocumentsSound, CallsSupported, Supported, Kept, Findable,
         docVars, moneyVars
<1>4. OneCreation' /\ ChargesCover'
  BY DEF Tick, Inductive, OneCreation, Creating, ChargesCover, Unbilled, moneyVars
<1> QED
  BY <1>2, <1>3, <1>4 DEF Inductive

LEMMA CrashKept == TypeOK /\ Inductive /\ Crash => TypeOK' /\ Inductive'
<1> SUFFICES ASSUME TypeOK, Inductive, Crash PROVE TypeOK' /\ Inductive'
  OBVIOUS
<1>1. /\ req' = [r \in Requests |-> IF req[r].pc \in Steps THEN Done(req[r], 0) ELSE req[r]]
      /\ booted' = now
      /\ UNCHANGED <<now, docVars, known, nodes, index, moneyVars>>
  BY DEF Crash
<1>2. \A r \in Requests :
        /\ req'[r] \in AnyCall /\ req'[r].pc \notin Steps
        /\ \/ req'[r] = req[r]
           \/ req'[r].pc = "done" /\ req'[r].status = 0
  <2> SUFFICES ASSUME NEW r \in Requests
               PROVE  /\ req'[r] \in AnyCall /\ req'[r].pc \notin Steps
                      /\ \/ req'[r] = req[r]
                         \/ req'[r].pc = "done" /\ req'[r].status = 0
    OBVIOUS
  <2>1. req[r] \in AnyCall
    BY DEF TypeOK, AnyCall
  <2>2. CASE req[r].pc \in Steps
    <3>1. req[r] \in Call /\ req'[r] = Done(req[r], 0)
      BY <1>1, <2>1, <2>2, CallShape
    <3> QED
      BY <3>1, DoneShape DEF AnyCall, Statuses, Steps
  <2>3. CASE req[r].pc \notin Steps
    BY <1>1, <2>1, <2>3
  <2> QED
    BY <2>2, <2>3
<1>3. req' \in [Requests -> AnyCall]
  BY <1>1, <1>2
<1>4. TypeOK'
  BY <1>1, <1>3 DEF TypeOK, AnyCall, docVars, moneyVars
<1>5. DocumentsSound'
  BY <1>1 DEF Inductive, DocumentsSound, Findable, docVars, moneyVars
<1>6. CallsSupported'
  <2> SUFFICES ASSUME NEW r \in Requests PROVE Supported(req[r])'
    BY DEF CallsSupported
  <2>1. PICK c : c = req'[r]
    OBVIOUS
  <2>2. Supported(c)'
    <3>1. CASE req'[r] = req[r]
      <4>1. c = req[r] /\ Supported(c)
        BY <2>1, <3>1 DEF Inductive, CallsSupported
      <4> QED
        BY <1>1, <4>1 DEF Supported, Kept, Findable, docVars, moneyVars
    <3>2. CASE req'[r].pc = "done" /\ req'[r].status = 0
      BY <2>1, <3>2 DEF Supported, Steps
    <3> QED
      BY <1>2, <3>1, <3>2
  <2> QED
    BY <2>1, <2>2 DEF Supported
<1>7. OneCreation'
  BY <1>2 DEF OneCreation, Creating, Steps
<1>8. ChargesCover'
  <2>1. \A e \in Events : Unbilled(e)' \subseteq Unbilled(e)
    BY <1>2 DEF Unbilled, Steps
  <2> QED
    BY <1>1, <2>1, ChargesKept DEF Inductive
<1> QED
  BY <1>4, <1>5, <1>6, <1>7, <1>8 DEF Inductive

LEMMA StepKept ==
    ASSUME TypeOK, Inductive, NEW r \in Requests, Step(r)
    PROVE  TypeOK' /\ Inductive'
<1>1. CASE ReceiveCreate(r) \/ Locate(r) \/ StoreEvent(r) \/ CreateNode(r) \/ IndexEvent(r)
  BY <1>1, ReceiveCreateKept, LocateKept, StoreEventKept, CreateNodeKept, IndexEventKept
<1>2. CASE ReceivePatch(r) \/ FillDates(r) \/ WriteUpdate(r)
  BY <1>2, ReceivePatchKept, FillDatesKept, WriteUpdateKept
<1>3. CASE ReceivePayment(r) \/ Charge(r) \/ Mark(r) \/ FindPayer(r) \/ SendInvoice(r)
  BY <1>3, ReceivePaymentKept, ChargeKept, MarkKept, FindPayerKept, SendInvoiceKept
<1>4. CASE ReceiveDelete(r) \/ Remove(r) \/ Unlink(r)
  BY <1>4, ReceiveDeleteKept, RemoveKept, UnlinkKept
<1>5. CASE StoreFails(r) \/ Forget(r)
  BY <1>5, StoreFailsKept, ForgetKept
<1> QED
  BY <1>1, <1>2, <1>3, <1>4, <1>5 DEF Step

LEMMA InitKept == Init => TypeOK /\ Inductive
<1> SUFFICES ASSUME Init PROVE TypeOK /\ Inductive
  OBVIOUS
<1>1. \A r \in Requests : req[r] = Idle /\ req[r].pc = "idle"
  BY DEF Init, Idle
<1>2. TypeOK
  BY CatalogueAssumption DEF Init, TypeOK, NoSpan, Span, Times
<1>3. DocumentsSound
  BY DEF Init, DocumentsSound, Findable
<1>4. CallsSupported /\ OneCreation
  BY <1>1 DEF CallsSupported, Supported, OneCreation, Creating, Steps
<1>5. ChargesCover
  <2> SUFFICES ASSUME NEW e \in Events
               PROVE  mailed[e] + Cardinality(Unbilled(e)) <= charged[e]
    BY DEF ChargesCover
  <2>1. Unbilled(e) = {}
    BY <1>1 DEF Unbilled
  <2> QED
    BY <2>1, FS_EmptySet DEF Init
<1> QED
  BY <1>2, <1>3, <1>4, <1>5 DEF Inductive

LEMMA NextKept == TypeOK /\ Inductive /\ [Next]_vars => TypeOK' /\ Inductive'
<1> SUFFICES ASSUME TypeOK, Inductive, [Next]_vars PROVE TypeOK' /\ Inductive'
  OBVIOUS
<1>1. CASE Next
  BY <1>1, TickKept, CrashKept, StepKept DEF Next
<1>2. CASE UNCHANGED vars
  <2>1. TypeOK'
    BY <1>2 DEF TypeOK, vars, clockVars, docVars, moneyVars
  <2>2. DocumentsSound' /\ CallsSupported'
    BY <1>2 DEF Inductive, DocumentsSound, CallsSupported, Supported, Kept, Findable,
                vars, docVars, moneyVars
  <2>3. OneCreation' /\ ChargesCover'
    BY <1>2 DEF Inductive, OneCreation, Creating, ChargesCover, Unbilled, vars, moneyVars
  <2> QED
    BY <2>1, <2>2, <2>3 DEF Inductive
<1> QED
  BY <1>1, <1>2

LEMMA InvariantCorrect == Spec => [](TypeOK /\ Inductive)
<1>1. Init => TypeOK /\ Inductive
  BY InitKept
<1>2. TypeOK /\ Inductive /\ [Next]_vars => (TypeOK /\ Inductive)'
  BY NextKept
<1> QED
  BY <1>1, <1>2, PTL DEF Spec

-----------------------------------------------------------------------------
(* The theorems.                                                             *)

\* Stores, clocks, money and calls keep their types, and no document is paid
\* without being stored, nor stored under an id that was never made.
THEOREM TypeCorrect == Spec => []TypeOK
  BY InvariantCorrect, PTL

\* A payment answered 204 took the money and listed its event, whatever PATCH,
\* deletion, failure or restart ran beside it (PaymentService.createPayment).
THEOREM ListedWhenAnsweredCorrect == Spec => []ListedWhenAnswered
<1>1. Inductive => ListedWhenAnswered
  BY DEF Inductive, CallsSupported, Supported, Kept, ListedWhenAnswered, AnsweredAs, At
<1> QED
  BY <1>1, InvariantCorrect, PTL

\* No event has more invoices than charges (EmailService.sendInvoice).
THEOREM InvoicesCoveredCorrect == Spec => []InvoicesCovered
<1>1. TypeOK /\ Inductive => InvoicesCovered
  <2> SUFFICES ASSUME TypeOK, Inductive, NEW e \in Events PROVE mailed[e] <= charged[e]
    BY DEF InvoicesCovered
  <2>1. Cardinality(Unbilled(e)) \in Nat
    BY UnbilledFinite
  <2>2. mailed[e] + Cardinality(Unbilled(e)) <= charged[e]
    BY DEF Inductive, ChargesCover
  <2>3. mailed[e] \in Nat /\ charged[e] \in Nat
    BY CatalogueAssumption DEF TypeOK
  <2> QED
    BY <2>1, <2>2, <2>3
<1> QED
  BY <1>1, InvariantCorrect, PTL

\* After a deletion answered 204 the event is in neither store, for good
\* (EventService.deleteEvent, createEvent).
THEOREM DeletedLeavesNothingCorrect == Spec => []DeletedLeavesNothing
<1>1. Inductive => DeletedLeavesNothing
  BY DEF Inductive, CallsSupported, Supported, DeletedLeavesNothing, AnsweredAs, At
<1> QED
  BY <1>1, InvariantCorrect, PTL

\* The step of the catalogue that the life of the event does not see.
LEMMA LifeUnchanged ==
    ASSUME UNCHANGED <<docVars, charged>>
    PROVE  UNCHANGED Life!lifeVars
  BY DEF docVars, Life!lifeVars, stage

\* A function that differs from another one at one place.
LEMMA ChangedAt ==
    ASSUME NEW S, NEW f, NEW g, NEW x \in S, NEW v,
           f = [y \in S |-> f[y]], g = [y \in S |-> g[y]],
           \A y \in S : g[y] = IF y = x THEN v ELSE f[y]
    PROVE  g = [f EXCEPT ![x] = v]
  OBVIOUS

LEMMA StageDomain ==
    stage = [e \in Events |-> stage[e]] /\ stage' = [e \in Events |-> stage'[e]]
  BY DEF stage

LEMMA StoreEventLife ==
    ASSUME TypeOK, Inductive, NEW r \in Requests, StoreEvent(r)
    PROVE  Life!Next
<1>1. PICK e \in Events \ made :
        /\ made' = made \cup {e} /\ stored' = stored \cup {e}
        /\ span' = [span EXCEPT ![e] = req[r].span]
        /\ UNCHANGED <<paid, charged>>
  BY DEF StoreEvent, moneyVars
<1>2. req[r].pc = "store" /\ req[r] \in AnyCall
  BY DEF StoreEvent, At, TypeOK, AnyCall
<1>3. req[r].span \in Life!Schedule
  <2>1. req[r].span \in Span /\ req[r].span.start < req[r].span.end
    BY <1>2, CallShape DEF Inductive, CallsSupported, Supported, Steps
  <2> QED
    BY <2>1, CatalogueAssumption DEF Life!Schedule, Span, Times
<1>4. e \notin stored /\ e \notin paid
  BY DEF TypeOK
<1>5. stage[e] = "none" /\ stage'[e] = "draft"
  BY <1>1, <1>4 DEF stage
<1>6. stage' = [stage EXCEPT ![e] = "draft"]
  <2>1. \A x \in Events : stage'[x] = IF x = e THEN "draft" ELSE stage[x]
    BY <1>1, <1>5 DEF stage
  <2> QED
    BY <2>1, StageDomain, ChangedAt
<1>7. Life!Draft(e)
  BY <1>1, <1>3, <1>5, <1>6 DEF Life!Draft, Life!Move
<1> QED
  BY <1>7 DEF Life!Next

LEMMA WriteUpdateLife ==
    ASSUME TypeOK, Inductive, NEW r \in Requests, WriteUpdate(r)
    PROVE  [Life!Next]_Life!lifeVars
<1> DEFINE e == req[r].event
<1>1. /\ req[r].pc = "write" /\ req[r].pc \in Steps \ {"locate", "store"}
      /\ UNCHANGED <<stored, paid, made, charged>>
  BY DEF WriteUpdate, At, Steps, moneyVars
<1>2. CASE e \notin stored
  BY <1>1, <1>2, LifeUnchanged DEF WriteUpdate, docVars
<1>3. CASE e \in stored
  <2>1. req[r] \in Call /\ e \in Events /\ e \in made
    BY <1>1, Underway
  <2>2. span' = [span EXCEPT ![e] = Updated(req[r], span[e])]
    BY <1>3, <2>1 DEF WriteUpdate, TypeOK
  <2>3. span[e] \in Span /\ span[e].start <= span[e].end
    BY <1>3, <2>1 DEF TypeOK, Inductive, DocumentsSound
  <2>4. req[r].named = {} \/ (req[r].named = Dates /\ req[r].span.start <= req[r].span.end)
    BY <1>1 DEF Inductive, CallsSupported, Supported
  <2>5. Updated(req[r], span[e]) \in Life!Schedule
    <3>1. /\ Updated(req[r], span[e]) \in Span
          /\ Updated(req[r], span[e]).start <= Updated(req[r], span[e]).end
      BY <2>1, <2>3, <2>4, UpdatedShape
    <3> QED
      BY <3>1 DEF Life!Schedule, Span
  <2>6. stage[e] \in {"draft", "listed"} /\ stage' = stage
    BY <1>1, <1>3, <2>1 DEF stage
  <2>7. Life!Reschedule(e)
    BY <1>1, <2>2, <2>5, <2>6 DEF Life!Reschedule
  <2> QED
    BY <2>1, <2>7 DEF Life!Next
<1> QED
  BY <1>2, <1>3

LEMMA ChargeLife ==
    ASSUME TypeOK, Inductive, NEW r \in Requests, Charge(r)
    PROVE  [Life!Next]_Life!lifeVars
<1> DEFINE e == req[r].event
<1>1. /\ req[r].pc \in Steps \ {"locate", "store"} /\ UNCHANGED docVars
      /\ \/ UNCHANGED charged
         \/ charged[e] < MaxCharges /\ charged' = [charged EXCEPT ![e] = @ + 1]
  BY DEF Charge, At, Steps
<1>2. CASE UNCHANGED charged
  BY <1>1, <1>2, LifeUnchanged
<1>3. CASE charged[e] < MaxCharges /\ charged' = [charged EXCEPT ![e] = @ + 1]
  <2>1. e \in Events
    BY <1>1, Underway
  <2>2. stage' = stage /\ span' = span
    BY <1>1 DEF stage, docVars
  <2>3. Life!Charge(e)
    BY <1>3, <2>2 DEF Life!Charge
  <2> QED
    BY <2>1, <2>3 DEF Life!Next
<1> QED
  BY <1>1, <1>2, <1>3

LEMMA MarkLife ==
    ASSUME TypeOK, Inductive, NEW r \in Requests, Mark(r)
    PROVE  [Life!Next]_Life!lifeVars
<1> DEFINE e == req[r].event
<1>1. /\ req[r].pc = "mark" /\ req[r].pc \in Steps \ {"locate", "store"}
      /\ paid' = paid \cup ({e} \cap stored)
      /\ UNCHANGED <<stored, span, made, charged>>
  BY DEF Mark, At, Steps, moneyVars
<1>2. CASE e \notin stored \/ e \in paid
  <2>1. paid' = paid
    BY <1>1, <1>2
  <2> QED
    BY <1>1, <2>1, LifeUnchanged DEF docVars
<1>3. CASE e \in stored /\ e \notin paid
  <2>1. e \in Events /\ e \in made /\ charged[e] > 0
    BY <1>1, Underway DEF Inductive, CallsSupported, Supported
  <2>2. stage[e] = "draft" /\ stage'[e] = "listed"
    <3> HIDE DEF e
    <3> QED
      BY <1>1, <1>3, <2>1 DEF stage
  <2>3. stage' = [stage EXCEPT ![e] = "listed"]
    <3>1. PICK x \in Events : x = e
      BY <2>1
    <3>2. stage'[x] = "listed"
      BY <2>2, <3>1
    <3>3. stage' = [stage EXCEPT ![x] = "listed"]
      <4>1. paid' = paid \cup {x} /\ stored' = stored /\ made' = made
        BY <1>1, <1>3, <3>1
      <4>2. \A y \in Events : stage'[y] = IF y = x THEN "listed" ELSE stage[y]
        BY <4>1, <3>2 DEF stage
      <4> QED
        BY <4>2, StageDomain, ChangedAt
    <3> QED
      BY <3>1, <3>3
  <2>4. Life!List(e)
    BY <1>1, <2>1, <2>2, <2>3 DEF Life!List, Life!Move
  <2> QED
    BY <2>1, <2>4 DEF Life!Next
<1> QED
  BY <1>2, <1>3

LEMMA RemoveLife ==
    ASSUME TypeOK, Inductive, NEW r \in Requests, Remove(r)
    PROVE  [Life!Next]_Life!lifeVars
<1> DEFINE e == req[r].event
<1>1. /\ req[r].pc \in Steps \ {"locate", "store"}
      /\ \/ /\ e \in stored /\ stored' = stored \ {e} /\ paid' = paid \ {e}
            /\ span' = [span EXCEPT ![e] = NoSpan]
         \/ UNCHANGED <<stored, paid, span>>
      /\ UNCHANGED <<made, charged>>
  BY DEF Remove, At, Steps, moneyVars
<1>2. CASE UNCHANGED <<stored, paid, span>>
  BY <1>1, <1>2, LifeUnchanged DEF docVars
<1>3. ASSUME e \in stored, stored' = stored \ {e}, paid' = paid \ {e},
             span' = [span EXCEPT ![e] = NoSpan]
      PROVE  Life!Next
  <2>1. e \in Events /\ e \in made
    BY <1>1, Underway
  <2>2. PICK x \in Events : x = e
    BY <2>1
  <2>3. stage[x] \in {"draft", "listed"} /\ stage'[x] = "closed"
    BY <1>1, <1>3, <2>1, <2>2 DEF stage
  <2>4. stage' = [stage EXCEPT ![x] = "closed"]
    <3>1. paid' = paid \ {x} /\ stored' = stored \ {x} /\ made' = made
      BY <1>1, <1>3, <2>2
    <3>2. \A y \in Events : stage'[y] = IF y = x THEN "closed" ELSE stage[y]
      BY <3>1, <2>3 DEF stage
    <3> QED
      BY <3>2, StageDomain, ChangedAt
  <2>5. span' = [span EXCEPT ![x] = Life!NoSpan]
    BY <1>3, <2>2 DEF NoSpan, Life!NoSpan
  <2>6. Life!Close(x)
    BY <1>1, <2>3, <2>4, <2>5 DEF Life!Close, Life!Move
  <2> QED
    BY <2>6 DEF Life!Next
<1> QED
  BY <1>1, <1>2, <1>3

LEMMA StepLife ==
    ASSUME TypeOK, Inductive, NEW r \in Requests, Step(r)
    PROVE  [Life!Next]_Life!lifeVars
<1>1. CASE StoreEvent(r) \/ WriteUpdate(r) \/ Charge(r) \/ Mark(r) \/ Remove(r)
  BY <1>1, StoreEventLife, WriteUpdateLife, ChargeLife, MarkLife, RemoveLife
<1>2. CASE ReceiveCreate(r) \/ Locate(r) \/ CreateNode(r) \/ IndexEvent(r)
  BY <1>2, LifeUnchanged
     DEF ReceiveCreate, Locate, CreateNode, IndexEvent, moneyVars
<1>3. CASE ReceivePatch(r) \/ FillDates(r) \/ ReceivePayment(r) \/ FindPayer(r) \/ SendInvoice(r)
  BY <1>3, LifeUnchanged
     DEF ReceivePatch, FillDates, ReceivePayment, FindPayer, SendInvoice, moneyVars
<1>4. CASE ReceiveDelete(r) \/ Unlink(r) \/ StoreFails(r) \/ Forget(r)
  BY <1>4, LifeUnchanged DEF ReceiveDelete, Unlink, StoreFails, Forget, moneyVars
<1> QED
  BY <1>1, <1>2, <1>3, <1>4 DEF Step

LEMMA NextLife == TypeOK /\ Inductive /\ [Next]_vars => [Life!Next]_Life!lifeVars
<1> SUFFICES ASSUME TypeOK, Inductive, [Next]_vars PROVE [Life!Next]_Life!lifeVars
  OBVIOUS
<1>1. CASE Tick \/ Crash \/ UNCHANGED vars
  BY <1>1, LifeUnchanged DEF Tick, Crash, vars, moneyVars
<1>2. ASSUME NEW r \in Requests, Step(r) PROVE [Life!Next]_Life!lifeVars
  BY <1>2, StepLife
<1> QED
  BY <1>1, <1>2 DEF Next

\* The catalogue implements the life of an event: its dates never cross, it is
\* listed for money only, stays listed until it is deleted, and never returns.
THEOREM LifeRefined == Spec => LifeSpec
<1>1. Init => Life!Init
  BY DEF Init, Life!Init, stage, NoSpan, Life!NoSpan
<1>2. TypeOK /\ Inductive /\ [Next]_vars => [Life!Next]_Life!lifeVars
  BY NextLife
<1> QED
  BY <1>1, <1>2, InvariantCorrect, PTL DEF Spec, LifeSpec, Life!Spec

=============================================================================
