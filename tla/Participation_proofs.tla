-------------------------- MODULE Participation_proofs --------------------------
(***************************************************************************)
(* Participation for every set of users, events and concurrent calls:      *)
(* type correctness, the two safety invariants, and the refinement of the  *)
(* book that hides the graph and the steps of the handlers.                *)
(***************************************************************************)
EXTENDS Participation, TLAPS

\* The fields of a handler in progress have their types, and the two updates a
\* step makes to it leave them so.
LEMMA CallType ==
    ASSUME NEW c \in Call
    PROVE  /\ c.pc \in {"mongo", "graph", "done"}
           /\ c.op \in Ops
           /\ c.user \in Users
           /\ c.event \in Events
           /\ c.found \in BOOLEAN
           /\ c.was \in BOOLEAN
           /\ c.status \in Statuses
           /\ c.solo \in BOOLEAN
           /\ c # Idle
           /\ [c EXCEPT !.solo = FALSE] \in Call
           /\ [c EXCEPT !.pc = "done"] \in Call
<1>1. c.pc # "idle"
  BY DEF Call
<1>2. c # Idle
  BY <1>1 DEF Idle
<1>3. [c EXCEPT !.solo = FALSE] \in Call
  BY DEF Call
<1>4. [c EXCEPT !.pc = "done"] \in Call
  BY DEF Call
<1>5. /\ c.pc \in {"mongo", "graph", "done"}
      /\ c.op \in Ops
      /\ c.user \in Users
      /\ c.event \in Events
      /\ c.status \in Statuses
  BY DEF Call
<1>6. c.found \in BOOLEAN /\ c.was \in BOOLEAN /\ c.solo \in BOOLEAN
  BY DEF Call
<1> QED
  BY <1>2, <1>3, <1>4, <1>5, <1>6

LEMMA CallUpdates ==
    ASSUME NEW c \in Call
    PROVE  /\ \A f, w \in BOOLEAN :
                [c EXCEPT !.pc = "graph", !.found = f, !.was = w] \in Call
           /\ \A s \in Statuses :
                [c EXCEPT !.pc = "done", !.status = s] \in Call
  BY Zenon DEF Call

\* The two shapes of a request are told apart by its program counter.
LEMMA RequestShape ==
    ASSUME NEW c \in {Idle} \cup Call
    PROVE  /\ c.pc = "idle" => c = Idle
           /\ c.pc # "idle" => c \in Call
           /\ c # Idle => c \in Call
           /\ Overlapped(c) \in {Idle} \cup Call
           /\ Overlapped(c).pc = c.pc
<1>1. CASE c = Idle
  BY <1>1 DEF Overlapped, Idle
<1>2. CASE c \in Call
  <2>1. c # Idle /\ c.pc # "idle"
    BY <1>2, CallType
  <2>2. Overlapped(c) = [c EXCEPT !.solo = FALSE]
    BY <2>1 DEF Overlapped
  <2>3. [c EXCEPT !.solo = FALSE].pc = c.pc
    BY <1>2 DEF Call
  <2> QED
    BY <1>2, <2>1, <2>2, <2>3, CallType
<1> QED
  BY <1>1, <1>2

LEMMA TypeInit == Init => TypeOK
  BY ConstantsAssumption DEF Init, TypeOK

LEMMA AtMostType ==
    ASSUME NEW n \in Nat
    PROVE  AtMost(n) \in 0..MaxEdges /\ (n > 0 => AtMost(n) > 0)
  BY ConstantsAssumption DEF AtMost

LEMMA TypeStep == TypeOK /\ [Next]_vars => TypeOK'
<1> SUFFICES ASSUME TypeOK, [Next]_vars PROVE TypeOK'
  OBVIOUS
<1> USE ConstantsAssumption
<1>1. ASSUME NEW r \in Requests, NEW op \in Ops, NEW u \in Users, NEW e \in Events,
             Receive(r, op, u, e)
      PROVE  TypeOK'
  <2>1. \A q \in Requests : Overlapped(req[q]) \in {Idle} \cup Call
    BY RequestShape DEF TypeOK
  <2>2. [pc |-> "mongo", op |-> op, user |-> u, event |-> e,
         found |-> FALSE, was |-> FALSE, status |-> 0,
         solo |-> \A p \in Requests \ {r} : ~Active(p)] \in Call
    BY DEF Call, Statuses
  <2> QED
    BY <1>1, <2>1, <2>2 DEF TypeOK, Receive
<1>2. ASSUME NEW r \in Requests, Handle(r)
      PROVE  TypeOK'
  <2>0. req[r] \in Call
    BY <1>2, RequestShape DEF TypeOK, Handle, MongoJoin, MongoLeave, MongoDelete,
       GraphJoin, GraphLeave, GraphDelete, Idle
  <2>1. ASSUME NEW found \in BOOLEAN, MongoReturns(r, found)
        PROVE  req' \in [Requests -> {Idle} \cup Call]
    <3> DEFINE was == req[r].user \in participants[req[r].event]
               returned == [req[r] EXCEPT !.pc = "graph", !.found = found, !.was = was]
    <3>1. was \in BOOLEAN
      OBVIOUS
    <3> HIDE DEF was
    <3>2. returned \in Call
      BY <2>0, <3>1, CallUpdates
    <3>3. req' = [req EXCEPT ![r] = returned]
      BY <2>1 DEF MongoReturns, was
    <3> QED
      BY <3>2, <3>3 DEF TypeOK
  <2>2. ASSUME NEW status \in Statuses, Answer(r, status)
        PROVE  req' \in [Requests -> {Idle} \cup Call]
    BY <2>0, <2>2, CallUpdates DEF TypeOK, Answer
  <2>3. req[r].user \in Users /\ req[r].event \in Events
    BY <2>0, CallType
  <2>4. CASE MongoJoin(r)
    <3>1. participants' \in [Events -> SUBSET Users]
      BY <2>3, <2>4 DEF TypeOK, MongoJoin
    <3>2. (req[r].event \in stored) \in BOOLEAN
      OBVIOUS
    <3>3. req' \in [Requests -> {Idle} \cup Call]
      BY <2>1, <2>4, <3>2 DEF MongoJoin
    <3> QED
      BY <2>4, <3>1, <3>3 DEF TypeOK, MongoJoin
  <2>5. CASE MongoLeave(r)
    <3>1. participants' \in [Events -> SUBSET Users]
      BY <2>3, <2>5 DEF TypeOK, MongoLeave
    <3>2. (req[r].event \in stored) \in BOOLEAN
      OBVIOUS
    <3>3. req' \in [Requests -> {Idle} \cup Call]
      BY <2>1, <2>5, <3>2 DEF MongoLeave
    <3> QED
      BY <2>5, <3>1, <3>3 DEF TypeOK, MongoLeave
  <2>6. CASE MongoDelete(r)
    <3>1. (req[r].event \in stored /\ MayDelete(req[r].user, req[r].event)) \in BOOLEAN
      BY DEF MayDelete
    <3>2. req' \in [Requests -> {Idle} \cup Call]
      BY <2>1, <2>6, <3>1 DEF MongoDelete
    <3>3. participants' \in [Events -> SUBSET Users]
      BY <2>3, <2>6 DEF TypeOK, MongoDelete
    <3>4. stored' \subseteq Events
      BY <2>6 DEF TypeOK, MongoDelete
    <3> QED
      BY <2>6, <3>2, <3>3, <3>4 DEF TypeOK, MongoDelete
  <2>7. CASE GraphJoin(r)
    <3>1. edges' \in [Users -> [Events -> 0..MaxEdges]]
      <4>1. edges[req[r].user][req[r].event] + graphUsers[req[r].user] \in Nat
        BY <2>3 DEF TypeOK
      <4> QED
        BY <2>3, <2>7, <4>1, AtMostType DEF TypeOK, GraphJoin
    <3>2. req' \in [Requests -> {Idle} \cup Call]
      BY <2>2, <2>7 DEF GraphJoin, Statuses
    <3> QED
      BY <2>7, <3>1, <3>2 DEF TypeOK, GraphJoin
  <2>8. CASE GraphLeave(r)
    <3>2. req' \in [Requests -> {Idle} \cup Call]
      BY <2>2, <2>8 DEF GraphLeave, Statuses
    <3> QED
      BY <2>3, <2>8, <3>2 DEF TypeOK, GraphLeave
  <2>9. CASE GraphDelete(r)
    <3>2. req' \in [Requests -> {Idle} \cup Call]
      BY <2>2, <2>9 DEF GraphDelete, Statuses
    <3>3. edges' \in [Users -> [Events -> 0..MaxEdges]]
      BY <2>3, <2>9 DEF TypeOK, GraphDelete
    <3> QED
      BY <2>3, <2>9, <3>2, <3>3 DEF TypeOK, GraphDelete
  <2> QED
    BY <1>2, <2>4, <2>5, <2>6, <2>7, <2>8, <2>9 DEF Handle
<1>3. ASSUME NEW r \in Requests, StoreFails(r)
      PROVE  TypeOK'
  <2>1. req[r] \in Call
    BY <1>3, RequestShape DEF TypeOK, StoreFails, Active, Idle
  <2>2. PICK s \in Statuses : Answer(r, s)
    BY <1>3 DEF StoreFails, Statuses
  <2>3. req' \in [Requests -> {Idle} \cup Call]
    BY <2>1, <2>2, CallUpdates DEF TypeOK, Answer
  <2> QED
    BY <1>3, <2>3 DEF TypeOK, StoreFails
<1>4. ASSUME NEW r \in Requests, Forget(r)
      PROVE  TypeOK'
  BY <1>4 DEF TypeOK, Forget
<1>5. CASE Crash
  <2>1. PICK s \in Statuses :
           req' = [r \in Requests |->
                     IF Active(r) THEN [req[r] EXCEPT !.pc = "done", !.status = s]
                     ELSE req[r]]
    BY <1>5 DEF Crash, Statuses
  <2>2. ASSUME NEW r \in Requests, Active(r)
        PROVE  [req[r] EXCEPT !.pc = "done", !.status = s] \in Call
    <3>1. req[r] \in Call
      BY <2>2, RequestShape DEF TypeOK, Active
    <3> QED
      BY <3>1, CallUpdates
  <2>3. req' \in [Requests -> {Idle} \cup Call]
    BY <2>1, <2>2 DEF TypeOK
  <2> QED
    BY <1>5, <2>3 DEF TypeOK, Crash
<1>6. ASSUME NEW u \in Users, NEW e \in Events, PurgeDocument(u, e)
      PROVE  TypeOK'
  BY <1>6, RequestShape DEF TypeOK, PurgeDocument
<1>7. ASSUME NEW u \in Users, UserNodeCreated(u)
      PROVE  TypeOK'
  BY <1>7, RequestShape DEF TypeOK, UserNodeCreated
<1>8. CASE UNCHANGED vars
  BY <1>8 DEF vars, TypeOK
<1> QED
  BY <1>1, <1>2, <1>3, <1>4, <1>5, <1>6, <1>7, <1>8 DEF Next

\* Type correctness: every store and every handler keeps its shape in every
\* execution, for any number of users, events and concurrent calls.
THEOREM TypeCorrect == Spec => []TypeOK
  BY TypeInit, TypeStep, PTL DEF Spec

-----------------------------------------------------------------------------
(* The inductive invariant.                                                  *)

LEMMA IndInit == Init => Inductive
  BY DEF Init, Inductive, UnlistedIsEmpty, CallsSupported, RepairedWhenAlone,
         DeletedForGood

\* A handler that takes a step is not beside a solo call.
LEMMA OthersNotSolo ==
    ASSUME CallsSupported, NEW r \in Requests, Active(r),
           NEW q \in Requests \ {r}, req[q] # Idle
    PROVE  ~req[q].solo
  BY DEF CallsSupported, SoloIsAlone

\* What Overlapped takes from a call, and what it leaves.
LEMMA OverlappedFields ==
    ASSUME NEW c \in {Idle} \cup Call, Overlapped(c) # Idle
    PROVE  LET d == Overlapped(c) IN
           /\ c # Idle /\ c \in Call
           /\ d.solo = FALSE
           /\ d.pc = c.pc /\ d.op = c.op /\ d.event = c.event /\ d.found = c.found
<1>1. c # Idle /\ c \in Call
  BY DEF Overlapped
<1>2. Overlapped(c) = [c EXCEPT !.solo = FALSE]
  BY <1>1 DEF Overlapped
<1> QED
  BY <1>1, <1>2 DEF Call

\* A step that lets the calls be overlapped, and grows nothing that a finished
\* deletion emptied, keeps the invariant.
LEMMA OverlapStep ==
    ASSUME TypeOK, Inductive,
           \A q \in Requests :
             \/ req'[q] = Overlapped(req[q])
             \/ req'[q].pc = "mongo" /\ SoloIsAlone(q)',
           UNCHANGED <<stored, graphEvents, edges, gone>>,
           \A e \in Events : participants'[e] \subseteq participants[e]
    PROVE  Inductive'
<1>1. UnlistedIsEmpty' /\ DeletedForGood'
  BY DEF Inductive, UnlistedIsEmpty, DeletedForGood, TypeOK
<1>2. ASSUME NEW q \in Requests, req'[q] # Idle
      PROVE  SoloIsAlone(q)' /\ FirstWriteDone(req[q])' /\ Repaired(req[q])'
  <2>1. CASE req'[q].pc = "mongo" /\ SoloIsAlone(q)'
    BY <2>1 DEF FirstWriteDone, Repaired
  <2>2. CASE req'[q] = Overlapped(req[q])
    <3>1. req[q] \in {Idle} \cup Call /\ req'[q] = Overlapped(req[q])
      BY <2>2 DEF TypeOK
    <3>2. /\ req[q] # Idle
          /\ req'[q].solo = FALSE
          /\ req'[q].pc = req[q].pc /\ req'[q].op = req[q].op
          /\ req'[q].event = req[q].event /\ req'[q].found = req[q].found
      BY <1>2, <3>1, OverlappedFields
    <3>3. FirstWriteDone(req[q])
      BY <3>2 DEF Inductive, CallsSupported
    <3> QED
      BY <3>2, <3>3 DEF SoloIsAlone, FirstWriteDone, Repaired
  <2> QED
    BY <2>1, <2>2
<1> QED
  BY <1>1, <1>2 DEF Inductive, CallsSupported, RepairedWhenAlone

\* The step of one handler: the other calls are untouched and not solo, so that
\* only what the step says of its own call and of the stores is left to prove.
LEMMA HandlerStep ==
    ASSUME Inductive, NEW r \in Requests, Active(r), req[r] # Idle,
           \A q \in Requests \ {r} : req'[q] = req[q],
           stored' \subseteq stored,
           UnlistedIsEmpty', DeletedForGood',
           req'[r].solo = req[r].solo,
           FirstWriteDone(req[r])', Repaired(req[r])'
    PROVE  Inductive'
<1>1. ASSUME NEW q \in Requests, req'[q] # Idle
      PROVE  SoloIsAlone(q)' /\ FirstWriteDone(req[q])' /\ Repaired(req[q])'
  <2>1. CASE q = r
    <3>1. SoloIsAlone(r)
      BY DEF Inductive, CallsSupported
    <3>2. \A p \in Requests \ {r} : Active(p)' <=> Active(p)
      BY DEF Active
    <3>3. SoloIsAlone(r)'
      BY <3>1, <3>2 DEF SoloIsAlone
    <3> QED
      BY <2>1, <3>3
  <2>2. CASE q # r
    <3>1. req'[q] = req[q] /\ req[q] # Idle
      BY <1>1, <2>2
    <3>2. ~req[q].solo
      BY <2>2, <3>1, OthersNotSolo DEF Inductive
    <3>3. FirstWriteDone(req[q])
      BY <3>1 DEF Inductive, CallsSupported
    <3> QED
      BY <3>1, <3>2, <3>3 DEF SoloIsAlone, FirstWriteDone, Repaired
  <2> QED
    BY <2>1, <2>2
<1> QED
  BY <1>1 DEF Inductive, CallsSupported, RepairedWhenAlone

\* The three facts a step of a handler needs about its own call.
LEMMA HandlerCall ==
    ASSUME TypeOK, NEW r \in Requests, Active(r)
    PROVE  /\ req[r] \in Call /\ req[r] # Idle
           /\ req[r].user \in Users /\ req[r].event \in Events
           /\ req[r].found \in BOOLEAN /\ req[r].was \in BOOLEAN
           /\ r \in DOMAIN req
<1>1. req[r] \in Call
  BY RequestShape DEF TypeOK, Active
<1> QED
  BY <1>1, CallType DEF TypeOK

\* What the two updates of a call leave of it.
LEMMA UpdatedFields ==
    ASSUME TypeOK, NEW r \in Requests, req[r] \in Call
    PROVE  /\ \A found \in BOOLEAN : MongoReturns(r, found) =>
                /\ \A q \in Requests \ {r} : req'[q] = req[q]
                /\ req'[r].pc = "graph" /\ req'[r].op = req[r].op
                /\ req'[r].user = req[r].user /\ req'[r].event = req[r].event
                /\ req'[r].found = found /\ req'[r].solo = req[r].solo
                /\ req'[r].was = (req[r].user \in participants[req[r].event])
           /\ \A status \in Statuses : Answer(r, status) =>
                /\ \A q \in Requests \ {r} : req'[q] = req[q]
                /\ req'[r].pc = "done" /\ req'[r].op = req[r].op
                /\ req'[r].user = req[r].user /\ req'[r].event = req[r].event
                /\ req'[r].status = status /\ req'[r].solo = req[r].solo
<1>1. req \in [Requests -> {Idle} \cup Call]
  BY DEF TypeOK
<1>2. ASSUME NEW found \in BOOLEAN, MongoReturns(r, found)
      PROVE  /\ \A q \in Requests \ {r} : req'[q] = req[q]
             /\ req'[r].pc = "graph" /\ req'[r].op = req[r].op
             /\ req'[r].user = req[r].user /\ req'[r].event = req[r].event
             /\ req'[r].found = found /\ req'[r].solo = req[r].solo
             /\ req'[r].was = (req[r].user \in participants[req[r].event])
  <2> DEFINE was == req[r].user \in participants[req[r].event]
             returned == [req[r] EXCEPT !.pc = "graph", !.found = found, !.was = was]
  <2> HIDE DEF was
  <2>1. req' = [req EXCEPT ![r] = returned]
    BY <1>2 DEF MongoReturns, was
  <2>2. req'[r] = returned /\ \A q \in Requests \ {r} : req'[q] = req[q]
    BY <1>1, <2>1
  <2>3. /\ req'[r].pc = "graph" /\ req'[r].op = req[r].op
        /\ req'[r].user = req[r].user /\ req'[r].event = req[r].event
        /\ req'[r].found = found /\ req'[r].solo = req[r].solo
        /\ req'[r].was = was
    BY <2>2 DEF Call
  <2> QED
    BY <2>2, <2>3 DEF was
<1>3. ASSUME NEW status \in Statuses, Answer(r, status)
      PROVE  /\ \A q \in Requests \ {r} : req'[q] = req[q]
             /\ req'[r].pc = "done" /\ req'[r].op = req[r].op
             /\ req'[r].user = req[r].user /\ req'[r].event = req[r].event
             /\ req'[r].status = status /\ req'[r].solo = req[r].solo
  <2>1. req'[r] = [req[r] EXCEPT !.pc = "done", !.status = status]
        /\ \A q \in Requests \ {r} : req'[q] = req[q]
    BY <1>1, <1>3 DEF Answer
  <2> QED
    BY <2>1 DEF Call
<1> QED
  BY <1>2, <1>3

LEMMA MongoStep ==
    ASSUME TypeOK, TypeOK', Inductive, NEW r \in Requests,
           MongoJoin(r) \/ MongoLeave(r) \/ MongoDelete(r)
    PROVE  Inductive'
<1>0. Active(r)
  BY DEF Active, MongoJoin, MongoLeave, MongoDelete
<1>1. /\ req[r] \in Call /\ req[r] # Idle
      /\ req[r].user \in Users /\ req[r].event \in Events
  BY <1>0, HandlerCall
<1>2. CASE MongoJoin(r)
  <2>1. MongoReturns(r, req[r].event \in stored) /\ (req[r].event \in stored) \in BOOLEAN
    BY <1>2 DEF MongoJoin
  <2>2. /\ \A q \in Requests \ {r} : req'[q] = req[q]
        /\ req'[r].pc = "graph" /\ req'[r].op = "join"
        /\ req'[r].user = req[r].user /\ req'[r].event = req[r].event
        /\ req'[r].solo = req[r].solo
        /\ req'[r].found = (req[r].event \in stored)
    BY <1>1, <1>2, <2>1, UpdatedFields DEF MongoJoin
  <2>3. UnlistedIsEmpty' /\ DeletedForGood'
    BY <1>1, <1>2 DEF Inductive, UnlistedIsEmpty, DeletedForGood, MongoJoin, TypeOK
  <2>4. FirstWriteDone(req[r])' /\ Repaired(req[r])'
    BY <1>1, <1>2, <2>2 DEF FirstWriteDone, Repaired, MongoJoin, TypeOK
  <2> QED
    BY <1>0, <1>1, <1>2, <2>2, <2>3, <2>4, HandlerStep DEF MongoJoin
<1>3. CASE MongoLeave(r)
  <2>1. MongoReturns(r, req[r].event \in stored) /\ (req[r].event \in stored) \in BOOLEAN
    BY <1>3 DEF MongoLeave
  <2>2. /\ \A q \in Requests \ {r} : req'[q] = req[q]
        /\ req'[r].pc = "graph" /\ req'[r].op = "leave"
        /\ req'[r].user = req[r].user /\ req'[r].event = req[r].event
        /\ req'[r].solo = req[r].solo
    BY <1>1, <1>3, <2>1, UpdatedFields DEF MongoLeave
  <2>3. UnlistedIsEmpty' /\ DeletedForGood'
    BY <1>1, <1>3 DEF Inductive, UnlistedIsEmpty, DeletedForGood, MongoLeave, TypeOK
  <2>4. FirstWriteDone(req[r])' /\ Repaired(req[r])'
    BY <1>1, <1>3, <2>2 DEF FirstWriteDone, Repaired, MongoLeave, TypeOK
  <2> QED
    BY <1>0, <1>1, <1>3, <2>2, <2>3, <2>4, HandlerStep DEF MongoLeave
<1>4. CASE MongoDelete(r)
  <2> DEFINE found == req[r].event \in stored /\ MayDelete(req[r].user, req[r].event)
  <2>1. MongoReturns(r, found) /\ found \in BOOLEAN
    BY <1>4 DEF MongoDelete, MayDelete
  <2>2. /\ \A q \in Requests \ {r} : req'[q] = req[q]
        /\ req'[r].pc = "graph" /\ req'[r].op = "delete"
        /\ req'[r].user = req[r].user /\ req'[r].event = req[r].event
        /\ req'[r].solo = req[r].solo
        /\ req'[r].found = found
    BY <1>1, <1>4, <2>1, UpdatedFields DEF MongoDelete
  <2>3. UnlistedIsEmpty' /\ DeletedForGood'
    BY <1>1, <1>4 DEF Inductive, UnlistedIsEmpty, DeletedForGood, MongoDelete, TypeOK
  <2>4. FirstWriteDone(req[r])' /\ Repaired(req[r])'
    BY <1>1, <1>4, <2>2 DEF FirstWriteDone, Repaired, MongoDelete, TypeOK
  <2>5. stored' \subseteq stored
    BY <1>4 DEF MongoDelete
  <2> QED
    BY <1>0, <1>1, <2>2, <2>3, <2>4, <2>5, HandlerStep
<1> QED
  BY <1>2, <1>3, <1>4

LEMMA GraphStep ==
    ASSUME TypeOK, TypeOK', Inductive, NEW r \in Requests,
           GraphJoin(r) \/ GraphLeave(r) \/ GraphDelete(r)
    PROVE  Inductive'
<1>0. Active(r) /\ req[r].pc = "graph"
  BY DEF Active, GraphJoin, GraphLeave, GraphDelete
<1>1. /\ req[r] \in Call /\ req[r] # Idle
      /\ req[r].user \in Users /\ req[r].event \in Events
  BY <1>0, HandlerCall
<1>5. FirstWriteDone(req[r])
  BY <1>1 DEF Inductive, CallsSupported
<1>2. CASE GraphJoin(r)
  <2> DEFINE status == IF ~req[r].found THEN 404 ELSE IF req[r].was THEN 409 ELSE 204
  <2>1. Answer(r, status) /\ status \in Statuses
    BY <1>2 DEF GraphJoin, Statuses
  <2>2. /\ \A q \in Requests \ {r} : req'[q] = req[q]
        /\ req'[r].pc = "done" /\ req'[r].op = "join"
        /\ req'[r].user = req[r].user /\ req'[r].event = req[r].event
        /\ req'[r].solo = req[r].solo /\ req'[r].status = status
    BY <1>1, <1>2, <2>1, UpdatedFields DEF GraphJoin
  <2>3. UnlistedIsEmpty' /\ DeletedForGood'
    BY <1>1, <1>2 DEF Inductive, UnlistedIsEmpty, DeletedForGood, GraphJoin, TypeOK
  <2>4. Repaired(req[r])'
    <3>1. SUFFICES ASSUME req[r].found, req[r].solo, req[r].event \in graphEvents,
                          graphUsers[req[r].user] > 0
                   PROVE  /\ req[r].user \in participants[req[r].event]
                          /\ edges'[req[r].user][req[r].event] > 0
      BY <1>1, <1>2, <2>2 DEF Repaired, GraphJoin
    <3>2. req[r].user \in participants[req[r].event]
      BY <1>2, <1>5, <3>1 DEF FirstWriteDone, GraphJoin
    <3>3. /\ edges[req[r].user][req[r].event] + graphUsers[req[r].user] \in Nat
          /\ edges[req[r].user][req[r].event] + graphUsers[req[r].user] > 0
      BY <1>1, <3>1, ConstantsAssumption DEF TypeOK
    <3>4. edges'[req[r].user][req[r].event]
            = AtMost(edges[req[r].user][req[r].event] + graphUsers[req[r].user])
      BY <1>1, <1>2, <3>1 DEF GraphJoin, TypeOK
    <3> QED
      BY <3>2, <3>3, <3>4, AtMostType
  <2>5. FirstWriteDone(req[r])'
    BY <2>2 DEF FirstWriteDone
  <2>6. stored' \subseteq stored
    BY <1>2 DEF GraphJoin
  <2> QED
    BY <1>0, <1>1, <2>2, <2>3, <2>4, <2>5, <2>6, HandlerStep
<1>3. CASE GraphLeave(r)
  <2> DEFINE status == IF ~req[r].found THEN 404 ELSE IF ~req[r].was THEN 409 ELSE 204
  <2>1. Answer(r, status) /\ status \in Statuses
    BY <1>3 DEF GraphLeave, Statuses
  <2>2. /\ \A q \in Requests \ {r} : req'[q] = req[q]
        /\ req'[r].pc = "done" /\ req'[r].op = "leave"
        /\ req'[r].user = req[r].user /\ req'[r].event = req[r].event
        /\ req'[r].solo = req[r].solo
    BY <1>1, <1>3, <2>1, UpdatedFields DEF GraphLeave
  <2>3. UnlistedIsEmpty' /\ DeletedForGood'
    BY <1>1, <1>3 DEF Inductive, UnlistedIsEmpty, DeletedForGood, GraphLeave, TypeOK
  <2>4. Repaired(req[r])'
    BY <1>1, <1>3, <1>5, <2>2 DEF Repaired, FirstWriteDone, GraphLeave, TypeOK
  <2>5. FirstWriteDone(req[r])'
    BY <2>2 DEF FirstWriteDone
  <2>6. stored' \subseteq stored
    BY <1>3 DEF GraphLeave
  <2> QED
    BY <1>0, <1>1, <2>2, <2>3, <2>4, <2>5, <2>6, HandlerStep
<1>4. CASE GraphDelete(r)
  <2> DEFINE status == IF req[r].found THEN 204 ELSE 404
  <2>1. Answer(r, status) /\ status \in Statuses
    BY <1>4 DEF GraphDelete, Statuses
  <2>2. /\ \A q \in Requests \ {r} : req'[q] = req[q]
        /\ req'[r].pc = "done" /\ req'[r].op = "delete"
        /\ req'[r].user = req[r].user /\ req'[r].event = req[r].event
        /\ req'[r].solo = req[r].solo
    BY <1>1, <1>4, <2>1, UpdatedFields DEF GraphDelete
  <2>3. UnlistedIsEmpty' /\ stored' \subseteq stored
    BY <1>4 DEF Inductive, UnlistedIsEmpty, GraphDelete
  <2>4. DeletedForGood'
    <3>1. req[r].found => req[r].event \notin stored
      BY <1>4, <1>5 DEF FirstWriteDone, GraphDelete
    <3>2. /\ gone' \subseteq gone \cup {req[r].event}
          /\ ~req[r].found => gone' = gone
      BY <1>4 DEF GraphDelete
    <3>3. \A u \in Users, e \in Events :
            edges'[u][e] = IF e = req[r].event THEN 0 ELSE edges[u][e]
      BY <1>1, <1>4 DEF GraphDelete, TypeOK
    <3>4. graphEvents' = graphEvents \ {req[r].event} /\ UNCHANGED <<stored, participants>>
      BY <1>4 DEF GraphDelete
    <3> QED
      BY <1>1, <3>1, <3>2, <3>3, <3>4 DEF Inductive, DeletedForGood, UnlistedIsEmpty, TypeOK
  <2>5. FirstWriteDone(req[r])' /\ Repaired(req[r])'
    BY <2>2 DEF FirstWriteDone, Repaired
  <2> QED
    BY <1>0, <1>1, <2>2, <2>3, <2>4, <2>5, HandlerStep
<1> QED
  BY <1>2, <1>3, <1>4

LEMMA IndStep == TypeOK /\ TypeOK' /\ Inductive /\ [Next]_vars => Inductive'
<1> SUFFICES ASSUME TypeOK, TypeOK', Inductive, [Next]_vars PROVE Inductive'
  OBVIOUS
<1>1. ASSUME NEW r \in Requests, NEW op \in Ops, NEW u \in Users, NEW e \in Events,
             Receive(r, op, u, e)
      PROVE  Inductive'
  <2>1. \A q \in Requests \ {r} : req'[q] = Overlapped(req[q])
    BY <1>1 DEF Receive
  <2>2. /\ req'[r].pc = "mongo"
        /\ req'[r].solo = (\A p \in Requests \ {r} : ~Active(p))
    BY <1>1 DEF Receive
  <2>3. \A q \in Requests \ {r} : Active(q)' <=> Active(q)
    BY <2>1, RequestShape DEF Active, TypeOK
  <2>4. SoloIsAlone(r)'
    BY <2>2, <2>3 DEF SoloIsAlone
  <2>5. \A q \in Requests : \/ req'[q] = Overlapped(req[q])
                            \/ req'[q].pc = "mongo" /\ SoloIsAlone(q)'
    BY <2>1, <2>2, <2>4
  <2>6. UNCHANGED <<stored, graphEvents, edges, gone, participants>>
    BY <1>1 DEF Receive
  <2> QED
    BY <2>5, <2>6, OverlapStep
<1>2. ASSUME NEW r \in Requests, Handle(r)
      PROVE  Inductive'
  BY <1>2, MongoStep, GraphStep DEF Handle
<1>3. ASSUME NEW r \in Requests, StoreFails(r)
      PROVE  Inductive'
  <2>1. Active(r) /\ req[r] \in Call /\ req[r] # Idle
    BY <1>3, HandlerCall DEF StoreFails
  <2>2. Answer(r, 500) /\ 500 \in Statuses
    BY <1>3 DEF StoreFails, Statuses
  <2>3. /\ \A q \in Requests \ {r} : req'[q] = req[q]
        /\ req'[r].pc = "done" /\ req'[r].solo = req[r].solo /\ req'[r].status = 500
    BY <2>1, <2>2, UpdatedFields
  <2>4. UnlistedIsEmpty' /\ DeletedForGood' /\ stored' \subseteq stored
    BY <1>3 DEF StoreFails, Inductive, UnlistedIsEmpty, DeletedForGood
  <2>5. FirstWriteDone(req[r])' /\ Repaired(req[r])'
    BY <2>3 DEF FirstWriteDone, Repaired
  <2> QED
    BY <2>1, <2>3, <2>4, <2>5, HandlerStep
<1>4. ASSUME NEW r \in Requests, Forget(r)
      PROVE  Inductive'
  <2>1. /\ \A q \in Requests \ {r} : req'[q] = req[q]
        /\ req'[r] = Idle
        /\ ~Active(r)'
    BY <1>4 DEF Forget, TypeOK, Active, Idle
  <2>2. \A q \in Requests : Active(q)' => Active(q)
    BY <2>1 DEF Active
  <2> QED
    BY <1>4, <2>1, <2>2 DEF Forget, Inductive, UnlistedIsEmpty, DeletedForGood,
       CallsSupported, SoloIsAlone, FirstWriteDone, RepairedWhenAlone, Repaired
<1>5. CASE Crash
  <2>1. UnlistedIsEmpty' /\ DeletedForGood'
    BY <1>5 DEF Crash, Inductive, UnlistedIsEmpty, DeletedForGood
  <2>2. ASSUME NEW q \in Requests, req'[q] # Idle
        PROVE  SoloIsAlone(q)' /\ FirstWriteDone(req[q])' /\ Repaired(req[q])'
    <3>1. \A p \in Requests :
            /\ Active(p) => req'[p].pc = "done" /\ req'[p].status = 0
            /\ ~Active(p) => req'[p] = req[p]
      BY <1>5, HandlerCall DEF Crash, Call
    <3>2. \A p \in Requests : ~Active(p)'
      BY <3>1 DEF Active
    <3>3. CASE Active(q)
      BY <3>1, <3>2, <3>3 DEF SoloIsAlone, FirstWriteDone, Repaired
    <3>4. CASE ~Active(q)
      BY <1>5, <2>2, <3>1, <3>2, <3>4 DEF Crash, SoloIsAlone, FirstWriteDone,
         Repaired, Active, Inductive, RepairedWhenAlone
    <3> QED
      BY <3>3, <3>4
  <2> QED
    BY <2>1, <2>2 DEF Inductive, CallsSupported, RepairedWhenAlone
<1>6. ASSUME NEW u \in Users, NEW e \in Events, PurgeDocument(u, e)
      PROVE  Inductive'
  <2>1. \A q \in Requests : req'[q] = Overlapped(req[q])
    BY <1>6 DEF PurgeDocument
  <2>2. \A f \in Events : participants'[f] \subseteq participants[f]
    BY <1>6 DEF PurgeDocument, TypeOK
  <2>3. UNCHANGED <<stored, graphEvents, edges, gone>>
    BY <1>6 DEF PurgeDocument
  <2> QED
    BY <2>1, <2>2, <2>3, OverlapStep
<1>7. ASSUME NEW u \in Users, UserNodeCreated(u)
      PROVE  Inductive'
  <2>1. \A q \in Requests : req'[q] = Overlapped(req[q])
    BY <1>7 DEF UserNodeCreated
  <2>2. UNCHANGED <<stored, participants, graphEvents, edges, gone>>
    BY <1>7 DEF UserNodeCreated
  <2> QED
    BY <2>1, <2>2, OverlapStep
<1>8. CASE UNCHANGED vars
  BY <1>8 DEF vars, Inductive, UnlistedIsEmpty, DeletedForGood, CallsSupported,
     SoloIsAlone, Active, FirstWriteDone, RepairedWhenAlone, Repaired
<1> QED
  BY <1>1, <1>2, <1>3, <1>4, <1>5, <1>6, <1>7, <1>8 DEF Next

LEMMA InductiveCorrect == Spec => [](TypeOK /\ Inductive)
<1>1. Init => TypeOK /\ Inductive
  BY TypeInit, IndInit
<1>2. TypeOK /\ Inductive /\ [Next]_vars => TypeOK' /\ Inductive'
  BY TypeStep, IndStep
<1> QED
  BY <1>1, <1>2, PTL DEF Spec

\* A participation call that ran alone leaves document and graph in agreement on
\* its pair, whatever earlier races, refused writes and crashes left behind.
THEOREM RepairedCorrect == Spec => []RepairedWhenAlone
<1>1. TypeOK /\ Inductive => RepairedWhenAlone
  BY DEF Inductive
<1> QED
  BY <1>1, InductiveCorrect, PTL

\* An event whose deletion was answered 204 never comes back to either store.
THEOREM DeletedCorrect == Spec => []DeletedForGood
<1>1. TypeOK /\ Inductive => DeletedForGood
  BY DEF Inductive
<1> QED
  BY <1>1, InductiveCorrect, PTL

-----------------------------------------------------------------------------
(* The refinement of the book.                                               *)

LEMMA BookInit == Init => Book!Init
  BY DEF Init, Book!Init, BookCall, Idle, Book!NoCall

\* What the book sees of a call depends neither on solo nor, at the end, on more
\* than the status.
LEMMA BookOverlapped ==
    ASSUME NEW c \in {Idle} \cup Call
    PROVE  BookCall(Overlapped(c)) = BookCall(c)
<1>1. CASE c = Idle
  BY <1>1 DEF Overlapped
<1>2. CASE c \in Call
  <2>1. Overlapped(c) = [c EXCEPT !.solo = FALSE]
    BY <1>2, CallType DEF Overlapped
  <2>2. /\ Overlapped(c).pc = c.pc /\ Overlapped(c).op = c.op
        /\ Overlapped(c).user = c.user /\ Overlapped(c).event = c.event
        /\ Overlapped(c).found = c.found /\ Overlapped(c).was = c.was
        /\ Overlapped(c).status = c.status
    BY <1>2, <2>1 DEF Call
  <2> QED
    BY <2>2 DEF BookCall
<1> QED
  BY <1>1, <1>2

\* The calls of the book are those of the handlers; one step moves one of them.
LEMMA BookMove ==
    ASSUME NEW r \in Requests, \A q \in Requests \ {r} : req'[q] = req[q]
    PROVE  [q \in Requests |-> BookCall(req'[q])]
             = [[q \in Requests |-> BookCall(req[q])] EXCEPT ![r] = BookCall(req'[r])]
  OBVIOUS

LEMMA BookStep == TypeOK /\ TypeOK' /\ Inductive /\ [Next]_vars => [Book!Next]_(Book!bookVars)
<1> SUFFICES ASSUME TypeOK, TypeOK', Inductive, [Next]_vars
             PROVE  Book!Next \/ UNCHANGED Book!bookVars
  BY DEF Book!bookVars
<1> DEFINE calls == [q \in Requests |-> BookCall(req[q])]
<1>1. ASSUME NEW r \in Requests, NEW op \in Ops, NEW u \in Users, NEW e \in Events,
             Receive(r, op, u, e)
      PROVE  Book!Ask(r, op, u, e)
  <2>1. \A q \in Requests \ {r} : BookCall(req'[q]) = BookCall(req[q])
    BY <1>1, BookOverlapped DEF Receive, TypeOK
  <2>2. BookCall(req'[r]) = [stage |-> "open", op |-> op, user |-> u, event |-> e]
    BY <1>1 DEF Receive, BookCall
  <2>3. calls[r] = [stage |-> "idle"]
    BY <1>1 DEF Receive, BookCall, Idle
  <2>4. calls' = [calls EXCEPT ![r] = [stage |-> "open", op |-> op, user |-> u, event |-> e]]
    BY <2>1, <2>2
  <2> QED
    BY <1>1, <2>3, <2>4 DEF Receive, Book!Ask, Book!NoCall
<1>2. ASSUME NEW r \in Requests, MongoJoin(r)
      PROVE  Book!SettleParticipation(r)
  <2> DEFINE u == req[r].user
             e == req[r].event
             open == [stage |-> "open", op |-> "join", user |-> u, event |-> e]
             verdict == IF e \notin stored THEN 404
                        ELSE IF participants' # participants THEN 204 ELSE 409
  <2>1. /\ Active(r) /\ req[r] \in Call /\ u \in Users /\ e \in Events
        /\ req[r].pc = "mongo" /\ req[r].op = "join"
    BY <1>2, HandlerCall DEF MongoJoin, Active
  <2>2. calls[r] = open
    BY <2>1 DEF BookCall
  <2>3. MongoReturns(r, e \in stored) /\ (e \in stored) \in BOOLEAN
    BY <1>2 DEF MongoJoin
  <2>4. /\ \A q \in Requests \ {r} : req'[q] = req[q]
        /\ req'[r].pc = "graph" /\ req'[r].op = "join"
        /\ req'[r].user = u /\ req'[r].event = e
        /\ req'[r].found = (e \in stored)
        /\ req'[r].was = (u \in participants[e])
    BY <2>1, <2>3, UpdatedFields
  <2>5. participants' = IF e \in stored THEN [participants EXCEPT ![e] = @ \cup {u}]
                        ELSE participants
    BY <1>2 DEF MongoJoin
  <2>6. e \in stored => (participants' # participants <=> u \notin participants[e])
    BY <2>1, <2>5 DEF TypeOK
  <2>7. BookCall(req'[r]) = [stage |-> "settled", op |-> "join", user |-> u,
                            event |-> e, verdict |-> verdict]
    <3>1. BookCall(req'[r]) = [stage |-> "settled", op |-> "join", user |-> u, event |-> e,
             verdict |-> IF ~req'[r].found THEN 404 ELSE IF req'[r].was THEN 409 ELSE 204]
      BY <2>4 DEF BookCall
    <3>2. req'[r].found <=> e \in stored
      BY <2>4
    <3>3. e \in stored => (participants' # participants <=> ~(req'[r].was))
      BY <2>4, <2>6
    <3>4. verdict = IF ~req'[r].found THEN 404 ELSE IF req'[r].was THEN 409 ELSE 204
      BY <3>2, <3>3
    <3> QED
      BY <3>1, <3>4
  <2>8. calls' = [calls EXCEPT ![r] = BookCall(req'[r])]
    BY <2>4, BookMove
  <2>9. stored' = stored
    BY <1>2 DEF MongoJoin
  <2> HIDE DEF calls, verdict
  <2>10. /\ calls' = [calls EXCEPT ![r] = Book!Settled(open, verdict)]
         /\ Book!Wanted(open) = participants[e] \cup {u}
    BY <2>7, <2>8 DEF Book!Settled, Book!Wanted
  <2>11. /\ calls[r].stage = "open" /\ calls[r].op \in {"join", "leave"}
         /\ calls[r].event = e
    BY <2>2
  <2> HIDE DEF open, e
  <2>12. /\ participants' = IF calls[r].event \in stored
                            THEN [participants EXCEPT ![calls[r].event] = Book!Wanted(calls[r])]
                            ELSE participants
         /\ calls' = [calls EXCEPT ![r] = Book!Settled(calls[r],
                        IF calls[r].event \notin stored THEN 404
                        ELSE IF participants' # participants THEN 204 ELSE 409)]
    BY <2>2, <2>5, <2>10, <2>11 DEF verdict
  <2> QED
    BY <2>9, <2>11, <2>12 DEF Book!SettleParticipation, calls
<1>3. ASSUME NEW r \in Requests, MongoLeave(r)
      PROVE  Book!SettleParticipation(r)
  <2> DEFINE u == req[r].user
             e == req[r].event
             open == [stage |-> "open", op |-> "leave", user |-> u, event |-> e]
             verdict == IF e \notin stored THEN 404
                        ELSE IF participants' # participants THEN 204 ELSE 409
  <2>1. /\ Active(r) /\ req[r] \in Call /\ u \in Users /\ e \in Events
        /\ req[r].pc = "mongo" /\ req[r].op = "leave"
    BY <1>3, HandlerCall DEF MongoLeave, Active
  <2>2. calls[r] = open
    BY <2>1 DEF BookCall
  <2>3. MongoReturns(r, e \in stored) /\ (e \in stored) \in BOOLEAN
    BY <1>3 DEF MongoLeave
  <2>4. /\ \A q \in Requests \ {r} : req'[q] = req[q]
        /\ req'[r].pc = "graph" /\ req'[r].op = "leave"
        /\ req'[r].user = u /\ req'[r].event = e
        /\ req'[r].found = (e \in stored)
        /\ req'[r].was = (u \in participants[e])
    BY <2>1, <2>3, UpdatedFields
  <2>5. participants' = IF e \in stored THEN [participants EXCEPT ![e] = @ \ {u}]
                        ELSE participants
    <3>1. e \notin stored => participants[e] = {}
      BY <2>1 DEF Inductive, UnlistedIsEmpty
    <3>2. e \notin stored => [participants EXCEPT ![e] = participants[e] \ {u}] = participants
      BY <2>1, <3>1 DEF TypeOK
    <3>3. participants' = [participants EXCEPT ![e] = participants[e] \ {u}]
      BY <1>3 DEF MongoLeave
    <3> QED
      BY <3>2, <3>3
  <2>6. e \in stored => (participants' # participants <=> u \in participants[e])
    BY <2>1, <2>5 DEF TypeOK
  <2>7. BookCall(req'[r]) = [stage |-> "settled", op |-> "leave", user |-> u,
                            event |-> e, verdict |-> verdict]
    <3>1. BookCall(req'[r]) = [stage |-> "settled", op |-> "leave", user |-> u, event |-> e,
             verdict |-> IF ~req'[r].found THEN 404 ELSE IF ~req'[r].was THEN 409 ELSE 204]
      BY <2>4 DEF BookCall
    <3>2. req'[r].found <=> e \in stored
      BY <2>4
    <3>3. e \in stored => (participants' # participants <=> ~(~req'[r].was))
      BY <2>4, <2>6
    <3>4. verdict = IF ~req'[r].found THEN 404 ELSE IF ~req'[r].was THEN 409 ELSE 204
      BY <3>2, <3>3
    <3> QED
      BY <3>1, <3>4
  <2>8. calls' = [calls EXCEPT ![r] = BookCall(req'[r])]
    BY <2>4, BookMove
  <2>9. stored' = stored
    BY <1>3 DEF MongoLeave
  <2> HIDE DEF calls, verdict
  <2>10. /\ calls' = [calls EXCEPT ![r] = Book!Settled(open, verdict)]
         /\ Book!Wanted(open) = participants[e] \ {u}
    BY <2>7, <2>8 DEF Book!Settled, Book!Wanted
  <2>11. /\ calls[r].stage = "open" /\ calls[r].op \in {"join", "leave"}
         /\ calls[r].event = e
    BY <2>2
  <2> HIDE DEF open, e
  <2>12. /\ participants' = IF calls[r].event \in stored
                            THEN [participants EXCEPT ![calls[r].event] = Book!Wanted(calls[r])]
                            ELSE participants
         /\ calls' = [calls EXCEPT ![r] = Book!Settled(calls[r],
                        IF calls[r].event \notin stored THEN 404
                        ELSE IF participants' # participants THEN 204 ELSE 409)]
    BY <2>2, <2>5, <2>10, <2>11 DEF verdict
  <2> QED
    BY <2>9, <2>11, <2>12 DEF Book!SettleParticipation, calls
<1>4. ASSUME NEW r \in Requests, MongoDelete(r)
      PROVE  Book!SettleDelete(r)
  <2> DEFINE u == req[r].user
             e == req[r].event
             open == [stage |-> "open", op |-> "delete", user |-> u, event |-> e]
             found == e \in stored /\ MayDelete(u, e)
  <2>1. /\ Active(r) /\ req[r] \in Call /\ u \in Users /\ e \in Events
        /\ req[r].pc = "mongo" /\ req[r].op = "delete"
    BY <1>4, HandlerCall DEF MongoDelete, Active
  <2>2. calls[r] = open
    BY <2>1 DEF BookCall
  <2>3. MongoReturns(r, found) /\ found \in BOOLEAN
    BY <1>4 DEF MongoDelete, MayDelete
  <2>4. /\ \A q \in Requests \ {r} : req'[q] = req[q]
        /\ req'[r].pc = "graph" /\ req'[r].op = "delete"
        /\ req'[r].user = u /\ req'[r].event = e
        /\ req'[r].found = found
    BY <2>1, <2>3, UpdatedFields
  <2>5. /\ stored' = IF MayDelete(u, e) THEN stored \ {e} ELSE stored
        /\ stored' # stored <=> found
        /\ participants' = IF found THEN [participants EXCEPT ![e] = {}] ELSE participants
    BY <1>4 DEF MongoDelete
  <2>6. BookCall(req'[r]) = [stage |-> "settled", op |-> "delete", user |-> u, event |-> e,
                            verdict |-> IF found THEN 204 ELSE 404]
    <3>1. BookCall(req'[r]) = [stage |-> "settled", op |-> "delete", user |-> u, event |-> e,
                              verdict |-> IF req'[r].found THEN 204 ELSE 404]
      BY <2>4 DEF BookCall
    <3> QED
      BY <2>4, <3>1
  <2>7. calls' = [calls EXCEPT ![r] = BookCall(req'[r])]
    BY <2>4, BookMove
  <2> HIDE DEF calls, found
  <2>8. calls' = [calls EXCEPT ![r] = Book!Settled(open, IF found THEN 204 ELSE 404)]
    BY <2>6, <2>7 DEF Book!Settled
  <2>9. /\ calls[r].stage = "open" /\ calls[r].op = "delete"
        /\ calls[r].user = u /\ calls[r].event = e
    BY <2>2
  <2> HIDE DEF open, e, u
  <2>10. /\ stored' = IF MayDelete(calls[r].user, calls[r].event)
                      THEN stored \ {calls[r].event} ELSE stored
         /\ participants' = IF stored' # stored
                            THEN [participants EXCEPT ![calls[r].event] = {}] ELSE participants
         /\ calls' = [calls EXCEPT ![r] = Book!Settled(calls[r],
                        IF stored' # stored THEN 204 ELSE 404)]
    BY <2>2, <2>5, <2>8, <2>9
  <2> QED
    BY <2>9, <2>10 DEF Book!SettleDelete, calls
<1>5. ASSUME NEW r \in Requests, GraphJoin(r) \/ GraphLeave(r) \/ GraphDelete(r)
      PROVE  Book!Answer(r)
  <2> DEFINE c == req[r]
             verdict == IF ~c.found THEN 404
                        ELSE IF (c.op = "join" /\ c.was) \/ (c.op = "leave" /\ ~c.was)
                        THEN 409 ELSE 204
  <2>1. Active(r) /\ c \in Call /\ c.pc = "graph"
    BY <1>5, HandlerCall DEF GraphJoin, GraphLeave, GraphDelete, Active
  <2>2. verdict \in Statuses
    BY DEF Statuses
  <2>3. Answer(r, verdict) /\ UNCHANGED <<stored, participants>>
    BY <1>5 DEF GraphJoin, GraphLeave, GraphDelete
  <2>4. /\ \A q \in Requests \ {r} : req'[q] = req[q]
        /\ req'[r].pc = "done" /\ req'[r].status = verdict
    BY <2>1, <2>2, <2>3, UpdatedFields
  <2>5. calls[r].stage = "settled" /\ calls[r].verdict = verdict
    BY <2>1 DEF BookCall
  <2>6. BookCall(req'[r]) = [stage |-> "answered", answer |-> verdict]
    BY <2>4 DEF BookCall
  <2>7. calls' = [calls EXCEPT ![r] = BookCall(req'[r])]
    BY <2>4, BookMove
  <2> HIDE DEF calls, verdict
  <2>8. calls' = [calls EXCEPT ![r] = Book!Answered(calls[r].verdict)]
    BY <2>5, <2>6, <2>7 DEF Book!Answered
  <2> QED
    BY <2>3, <2>5, <2>8 DEF Book!Answer, calls
<1>6. ASSUME NEW r \in Requests, StoreFails(r)
      PROVE  Book!Lose
  <2>1. Active(r) /\ req[r] \in Call /\ Answer(r, 500) /\ 500 \in Statuses
    BY <1>6, HandlerCall DEF StoreFails, Statuses
  <2>2. /\ \A q \in Requests \ {r} : req'[q] = req[q]
        /\ req'[r].pc = "done" /\ req'[r].status = 500
    BY <2>1, UpdatedFields
  <2>3. BookCall(req'[r]) = [stage |-> "answered", answer |-> 500]
    BY <2>2 DEF BookCall
  <2>4. calls[r].stage \in {"open", "settled"}
    BY <2>1 DEF Active, BookCall
  <2>5. calls' = [q \in Requests |-> IF q \in {r} THEN Book!Answered(500) ELSE calls[q]]
    BY <2>2, <2>3 DEF Book!Answered
  <2>6. UNCHANGED <<stored, participants>>
    BY <1>6 DEF StoreFails
  <2> HIDE DEF calls
  <2>7. 500 \in Book!Unknown
    BY DEF Book!Unknown
  <2>8. {r} \in SUBSET Requests
    OBVIOUS
  <2>9. \A q \in {r} : calls[q].stage \in {"open", "settled"}
    BY <2>4
  <2> QED
    BY <2>5, <2>6, <2>7, <2>8, <2>9 DEF Book!Lose, calls
<1>7. ASSUME Crash
      PROVE  Book!Lose
  <2> DEFINE dead == {q \in Requests : Active(q)}
  <2>1. \A q \in dead : BookCall(req'[q]) = [stage |-> "answered", answer |-> 0]
    <3> SUFFICES ASSUME NEW q \in dead
                 PROVE  BookCall(req'[q]) = [stage |-> "answered", answer |-> 0]
      OBVIOUS
    <3>1. req[q] \in Call /\ req'[q] = [req[q] EXCEPT !.pc = "done", !.status = 0]
      BY <1>7, HandlerCall DEF Crash
    <3>2. req'[q].pc = "done" /\ req'[q].status = 0
      BY <3>1 DEF Call
    <3> QED
      BY <3>2 DEF BookCall
  <2>2. \A q \in Requests \ dead : req'[q] = req[q]
    BY <1>7 DEF Crash
  <2>3. \A q \in dead : calls[q].stage \in {"open", "settled"}
    BY DEF Active, BookCall
  <2>4. calls' = [q \in Requests |-> IF q \in dead THEN Book!Answered(0) ELSE calls[q]]
    BY <2>1, <2>2 DEF Book!Answered
  <2>5. UNCHANGED <<stored, participants>>
    BY <1>7 DEF Crash
  <2> HIDE DEF calls
  <2>6. dead \in SUBSET Requests /\ 0 \in Book!Unknown
    BY DEF Book!Unknown
  <2> HIDE DEF dead
  <2> QED
    BY <2>3, <2>4, <2>5, <2>6 DEF Book!Lose, calls
<1>8. ASSUME NEW r \in Requests, Forget(r)
      PROVE  Book!Forget(r)
  <2>1. /\ \A q \in Requests \ {r} : req'[q] = req[q]
        /\ req'[r] = Idle /\ req[r].pc = "done"
        /\ UNCHANGED <<stored, participants>>
    BY <1>8 DEF Forget, TypeOK
  <2>2. calls[r].stage = "answered" /\ BookCall(req'[r]) = [stage |-> "idle"]
    BY <2>1 DEF BookCall, Idle
  <2>3. calls' = [calls EXCEPT ![r] = BookCall(req'[r])]
    BY <2>1, BookMove
  <2> HIDE DEF calls
  <2>4. calls' = [calls EXCEPT ![r] = Book!NoCall]
    BY <2>2, <2>3 DEF Book!NoCall
  <2> QED
    BY <2>1, <2>2, <2>4 DEF Book!Forget, calls
<1>9. ASSUME NEW u \in Users, NEW e \in Events, PurgeDocument(u, e)
      PROVE  Book!Withdraw(u, e)
  <2>1. calls' = calls
    BY <1>9, BookOverlapped DEF PurgeDocument, TypeOK
  <2> QED
    BY <1>9, <2>1 DEF PurgeDocument, Book!Withdraw
<1>10. ASSUME NEW u \in Users, UserNodeCreated(u)
       PROVE  UNCHANGED Book!bookVars
  <2>1. calls' = calls
    BY <1>10, BookOverlapped DEF UserNodeCreated, TypeOK
  <2> QED
    BY <1>10, <2>1 DEF UserNodeCreated, Book!bookVars
<1>11. CASE UNCHANGED vars
  BY <1>11 DEF vars, Book!bookVars, BookCall
<1> QED
  BY <1>1, <1>2, <1>3, <1>4, <1>5, <1>6, <1>7, <1>8, <1>9, <1>10, <1>11
     DEF Next, Handle, Book!Next, Ops

\* Callers cannot tell the service from the book: every verdict is the effect of
\* one atomic step on the roster, and the graph never alters it.
THEOREM BookRefined == Spec => BookSpec
<1>1. TypeOK /\ TypeOK' /\ Inductive /\ [Next]_vars => [Book!Next]_(Book!bookVars)
  BY BookStep
<1> QED
  BY <1>1, BookInit, InductiveCorrect, PTL DEF BookSpec, Book!Spec, Spec
=============================================================================
