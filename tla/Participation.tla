----------------------------- MODULE Participation -----------------------------
(***************************************************************************)
(* EventService.createParticipation, deleteParticipation, deleteEvent and  *)
(* deleteUsersFromFutureEvents (backend/src/event/event.service.ts) with   *)
(* the end points of EventController that call them.                       *)
(*                                                                         *)
(* Every handler writes two stores that share no transaction: first the    *)
(* event document in MongoDB, then the recommendation graph in Neo4j.  The *)
(* await between the two lets every other handler run.  The update of the  *)
(* document returns the document as it was BEFORE the update, and the      *)
(* answer is computed from it after both writes.                           *)
(*                                                                         *)
(* Neo4j is modelled from the queries the code sends: MATCH finds the nodes*)
(* that exist (a user may have no node, or several after signing up again),*)
(* CREATE adds one relationship per matched pair, even when there is one.  *)
(***************************************************************************)
EXTENDS Naturals

CONSTANTS Users, Events, Requests,
          Admins,      \* the users whose role is ADMIN
          Owner,       \* organizerId of each event
          Future,      \* the events that have not started
          MaxNodes,    \* bound: User nodes one user id can have
          MaxEdges     \* bound: PARTICIPATES relationships counted per pair

ASSUME ConstantsAssumption ==
    /\ Admins \subseteq Users
    /\ Owner \in [Events -> Users]
    /\ Future \subseteq Events
    /\ MaxNodes \in Nat
    /\ MaxEdges \in Nat \ {0}

VARIABLES stored,        \* ids of the documents of the events collection
          participants,  \* their participants field ({} for a deleted event)
          graphEvents,   \* the Event nodes
          graphUsers,    \* how many User nodes carry each user id
          edges,         \* how many PARTICIPATES relationships per pair
          req,           \* the handlers in progress
          gone           \* history: the events whose deletion was answered 204
vars == <<stored, participants, graphEvents, graphUsers, edges, req, gone>>

Ops == {"join", "leave", "delete"}
Statuses == {204, 404, 409, 500, 0}   \* 0: the process died, no answer was sent

Idle == [pc |-> "idle"]
Call == [pc : {"mongo", "graph", "done"}, op : Ops, user : Users, event : Events,
         found : BOOLEAN,    \* the update found the document (result != null)
         was : BOOLEAN,      \* the user was a participant of that old document
         status : Statuses,
         solo : BOOLEAN]     \* history: nothing else ran since the call came in

TypeOK ==
    /\ stored \subseteq Events
    /\ participants \in [Events -> SUBSET Users]
    /\ graphEvents \subseteq Events
    /\ graphUsers \in [Users -> 0..MaxNodes]
    /\ edges \in [Users -> [Events -> 0..MaxEdges]]
    /\ req \in [Requests -> {Idle} \cup Call]
    /\ gone \subseteq Events

\* createEvent has stored every event with no participants and made its node;
\* a user whose node could not be written at sign-up has none.
Init ==
    /\ stored = Events
    /\ participants = [e \in Events |-> {}]
    /\ graphEvents = Events
    /\ graphUsers \in [Users -> {0, 1} \cap 0..MaxNodes]
    /\ edges = [u \in Users |-> [e \in Events |-> 0]]
    /\ req = [r \in Requests |-> Idle]
    /\ gone = {}

Active(r) == req[r].pc \in {"mongo", "graph"}

\* The calls as they stand once some other handler has run beside them.
Overlapped(c) == IF c = Idle THEN c ELSE [c EXCEPT !.solo = FALSE]

Receive(r, op, u, e) ==
    /\ req[r] = Idle
    /\ req' = [q \in Requests |->
                 IF q = r
                 THEN [pc |-> "mongo", op |-> op, user |-> u, event |-> e,
                       found |-> FALSE, was |-> FALSE, status |-> 0,
                       solo |-> \A p \in Requests \ {r} : ~Active(p)]
                 ELSE Overlapped(req[q])]
    /\ UNCHANGED <<stored, participants, graphEvents, graphUsers, edges, gone>>

-----------------------------------------------------------------------------
(* The write to MongoDB.                                                     *)

\* Mutation: findByIdAndUpdate asked for the new document ({ new: true }).
MongoReturnsNew(r, found) ==
    req' = [req EXCEPT ![r] = [@ EXCEPT
              !.pc = "graph", !.found = found,
              !.was = req[r].user \in participants'[req[r].event]]]

\* findByIdAndUpdate hands back the old document: found and was are read there.
MongoReturns(r, found) ==
    req' = [req EXCEPT ![r] = [@ EXCEPT
              !.pc = "graph", !.found = found,
              !.was = req[r].user \in participants[req[r].event]]]

MongoJoin(r) ==
    LET c == req[r] IN
    /\ c.pc = "mongo" /\ c.op = "join"
    /\ participants' = IF c.event \in stored
                       THEN [participants EXCEPT ![c.event] = @ \cup {c.user}]
                       ELSE participants
    /\ MongoReturns(r, c.event \in stored)
    /\ UNCHANGED <<stored, graphEvents, graphUsers, edges, gone>>

MongoLeave(r) ==
    LET c == req[r] IN
    /\ c.pc = "mongo" /\ c.op = "leave"
    /\ participants' = [participants EXCEPT ![c.event] = @ \ {c.user}]
    /\ MongoReturns(r, c.event \in stored)
    /\ UNCHANGED <<stored, graphEvents, graphUsers, edges, gone>>

\* The filter of an administrator names the event only.
MayDelete(u, e) == u \in Admins \/ Owner[e] = u

MongoDelete(r) ==
    LET c == req[r]
        found == c.event \in stored /\ MayDelete(c.user, c.event) IN
    /\ c.pc = "mongo" /\ c.op = "delete"
    /\ stored' = IF found THEN stored \ {c.event} ELSE stored
    /\ participants' = IF found THEN [participants EXCEPT ![c.event] = {}]
                       ELSE participants
    /\ MongoReturns(r, found)
    /\ UNCHANGED <<graphEvents, graphUsers, edges, gone>>

-----------------------------------------------------------------------------
(* The write to Neo4j, and the answer.                                       *)

\* Mutation: the participation end point lost its @HttpCode(NO_CONTENT).
AnswerCreated(r, status) ==
    req' = [req EXCEPT ![r] = [@ EXCEPT !.pc = "done",
              !.status = IF status = 204 THEN 201 ELSE status]]

Answer(r, status) ==
    req' = [req EXCEPT ![r] = [@ EXCEPT !.pc = "done", !.status = status]]

AtMost(n) == IF n > MaxEdges THEN MaxEdges ELSE n

\* Mutation: the relationship is only created for a user who was not a participant.
GraphJoinOnce(r) ==
    LET c == req[r] IN
    /\ c.pc = "graph" /\ c.op = "join"
    /\ edges' = IF c.event \in graphEvents /\ ~c.was
                THEN [edges EXCEPT ![c.user][c.event] = AtMost(@ + graphUsers[c.user])]
                ELSE edges
    /\ Answer(r, IF ~c.found THEN 404 ELSE IF c.was THEN 409 ELSE 204)
    /\ UNCHANGED <<stored, participants, graphEvents, graphUsers, gone>>

\* Mutation: the query MERGEs the Event node instead of matching it.
GraphJoinMerge(r) ==
    LET c == req[r] IN
    /\ c.pc = "graph" /\ c.op = "join"
    /\ graphEvents' = graphEvents \cup {c.event}
    /\ edges' = [edges EXCEPT ![c.user][c.event] = AtMost(@ + graphUsers[c.user])]
    /\ Answer(r, IF ~c.found THEN 404 ELSE IF c.was THEN 409 ELSE 204)
    /\ UNCHANGED <<stored, participants, graphUsers, gone>>

\* The relationship is created whether or not the document was found or already
\* held the user.
GraphJoin(r) ==
    LET c == req[r] IN
    /\ c.pc = "graph" /\ c.op = "join"
    /\ edges' = IF c.event \in graphEvents
                THEN [edges EXCEPT ![c.user][c.event] = AtMost(@ + graphUsers[c.user])]
                ELSE edges
    /\ Answer(r, IF ~c.found THEN 404 ELSE IF c.was THEN 409 ELSE 204)
    /\ UNCHANGED <<stored, participants, graphEvents, graphUsers, gone>>

GraphLeave(r) ==
    LET c == req[r] IN
    /\ c.pc = "graph" /\ c.op = "leave"
    /\ edges' = [edges EXCEPT ![c.user][c.event] = 0]
    /\ Answer(r, IF ~c.found THEN 404 ELSE IF ~c.was THEN 409 ELSE 204)
    /\ UNCHANGED <<stored, participants, graphEvents, graphUsers, gone>>

\* DETACH DELETE runs even when the filter matched no document.
GraphDelete(r) ==
    LET c == req[r] IN
    /\ c.pc = "graph" /\ c.op = "delete"
    /\ graphEvents' = graphEvents \ {c.event}
    /\ edges' = [u \in Users |-> [edges[u] EXCEPT ![c.event] = 0]]
    /\ gone' = IF c.found THEN gone \cup {c.event} ELSE gone
    /\ Answer(r, IF c.found THEN 204 ELSE 404)
    /\ UNCHANGED <<stored, participants, graphUsers>>

-----------------------------------------------------------------------------
(* Failures, and what runs beside the handlers.                              *)

\* A write is refused: the catch block answers 500, what was written stays.
StoreFails(r) ==
    /\ Active(r)
    /\ Answer(r, 500)
    /\ UNCHANGED <<stored, participants, graphEvents, graphUsers, edges, gone>>

\* The process dies: the handlers in progress are never finished nor answered.
Crash ==
    /\ \E r \in Requests : Active(r)
    /\ req' = [r \in Requests |->
                 IF Active(r) THEN [req[r] EXCEPT !.pc = "done", !.status = 0]
                 ELSE req[r]]
    /\ UNCHANGED <<stored, participants, graphEvents, graphUsers, edges, gone>>

\* The client is done with an answer; the identifier may serve another call.
Forget(r) ==
    /\ req[r].pc = "done"
    /\ req' = [req EXCEPT ![r] = Idle]
    /\ UNCHANGED <<stored, participants, graphEvents, graphUsers, edges, gone>>

\* deleteUsersFromFutureEvents, called by UserService.deleteUser: updateMany
\* pulls the user from the future events, one document after the other.
PurgeDocument(u, e) ==
    /\ e \in stored \cap Future
    /\ u \in participants[e]
    /\ participants' = [participants EXCEPT ![e] = @ \ {u}]
    /\ req' = [r \in Requests |-> Overlapped(req[r])]
    /\ UNCHANGED <<stored, graphEvents, graphUsers, edges, gone>>

\* UserService.findAndUpdateOrCreate makes one more User node for an id.
UserNodeCreated(u) ==
    /\ graphUsers[u] < MaxNodes
    /\ graphUsers' = [graphUsers EXCEPT ![u] = @ + 1]
    /\ req' = [r \in Requests |-> Overlapped(req[r])]
    /\ UNCHANGED <<stored, participants, graphEvents, edges, gone>>

Handle(r) == \/ MongoJoin(r) \/ MongoLeave(r) \/ MongoDelete(r)
             \/ GraphJoin(r) \/ GraphLeave(r) \/ GraphDelete(r)

Next ==
    \/ \E r \in Requests, op \in Ops, u \in Users, e \in Events : Receive(r, op, u, e)
    \/ \E r \in Requests : Handle(r) \/ StoreFails(r) \/ Forget(r)
    \/ Crash
    \/ \E u \in Users, e \in Events : PurgeDocument(u, e)
    \/ \E u \in Users : UserNodeCreated(u)

Spec == Init /\ [][Next]_vars

-----------------------------------------------------------------------------
(* Properties.                                                               *)

\* A participation call that runs alone, and is answered 204 or 409, leaves the
\* document and the graph in agreement about its user and event, whatever races,
\* failures and crashes left behind before it: the unconditional graph write of
\* createParticipation and deleteParticipation repairs the pair.
Repaired(c) ==
    (/\ c.pc = "done"
     /\ c.solo
     /\ c.op \in {"join", "leave"}
     /\ c.status \in {204, 409}
     /\ c.event \in graphEvents
     /\ graphUsers[c.user] > 0)
    => (c.user \in participants[c.event] <=> edges[c.user][c.event] > 0)
RepairedWhenAlone == \A r \in Requests : req[r] # Idle => Repaired(req[r])

\* Once deleteEvent has answered 204 nothing brings the event back, in either
\* store: not a participation call that was between its two writes.
DeletedForGood ==
    \A e \in gone : /\ e \notin stored
                    /\ participants[e] = {}
                    /\ e \notin graphEvents
                    /\ \A u \in Users : edges[u][e] = 0

\* What the tests say of a deletion, that it is filtered by organizerId, holds
\* for the document only: the node goes with any organiser's request, and the
\* event that stays is lost to the graph.
StoredHasNode == stored \subseteq graphEvents

\* What the two invariants rest on: a deleted document has no participants; a
\* call that is still solo has no other call in progress beside it, and after
\* its first write the document says what the call asked for; a deletion that
\* found its document is past the removal.
UnlistedIsEmpty == \A e \in Events \ stored : participants[e] = {}
SoloIsAlone(r) == req[r].solo => \A q \in Requests \ {r} : ~Active(q)
FirstWriteDone(c) ==
    c.pc = "graph" =>
      /\ c.op = "delete" /\ c.found => c.event \notin stored
      /\ c.op = "join" /\ c.found /\ c.solo => c.user \in participants[c.event]
      /\ c.op = "leave" /\ c.solo => c.user \notin participants[c.event]
CallsSupported ==
    \A r \in Requests : req[r] # Idle => SoloIsAlone(r) /\ FirstWriteDone(req[r])
Inductive == UnlistedIsEmpty /\ CallsSupported /\ RepairedWhenAlone /\ DeletedForGood

\* Seen by its callers, the service is the atomic book: the verdict is settled
\* by the write to MongoDB, and neither the graph nor another handler alters it.
BookCall(c) ==
    IF c.pc = "idle" THEN [stage |-> "idle"]
    ELSE IF c.pc = "mongo"
    THEN [stage |-> "open", op |-> c.op, user |-> c.user, event |-> c.event]
    ELSE IF c.pc = "graph"
    THEN [stage |-> "settled", op |-> c.op, user |-> c.user, event |-> c.event,
          verdict |-> IF ~c.found THEN 404
                      ELSE IF (c.op = "join" /\ c.was) \/ (c.op = "leave" /\ ~c.was)
                      THEN 409 ELSE 204]
    ELSE [stage |-> "answered", answer |-> c.status]

Book == INSTANCE ParticipationBook WITH
          listed <- stored, roster <- participants,
          call <- [r \in Requests |-> BookCall(req[r])]
BookSpec == Book!Spec
=============================================================================
