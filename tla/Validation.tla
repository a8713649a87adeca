------------------------------- MODULE Validation -------------------------------
(***************************************************************************)
(* ValidationService and ValidationController (backend/src/validation): the*)
(* requests of users for the role of an organiser, each a document in      *)
(* MongoDB with a picture in S3, and the role in the user document that an *)
(* approval changes; with UserService.deleteUser, which removes a user's   *)
(* requests one by one before the user.                                    *)
(*                                                                         *)
(* The services open transactions but no query is given the session, so    *)
(* that a commit commits nothing and an abort undoes nothing: every write  *)
(* stands by itself, and every await between two lets other handlers run.  *)
(***************************************************************************)
EXTENDS Naturals, FiniteSets

CONSTANTS Users, Requests,
          Nobody,        \* the user of a request whose account is gone
          MaxIds         \* bound: the validation requests made in a behaviour

ASSUME ConstantsAssumption == Nobody \notin Users /\ MaxIds \in Nat

VARIABLES docs,       \* the validations collection
          images,     \* the keys of the pictures in S3
          roles,      \* the role in each user document, "gone" without a document
          made,       \* how many ids were generated: they are 1..made
          req,        \* the handlers in progress
          accepted,   \* history: the requests whose creation was answered 201
          departed    \* history: the users whose account was ever deleted
vars == <<docs, images, roles, made, req, accepted, departed>>

Ids == 1..MaxIds
Decisions == {"approved", "rejected"}
States == {"pending"} \cup Decisions
Doc == [id : Ids, user : Users, status : States]
Ops == {"create", "update", "delete", "deleteUser"}
Steps == {"exists", "insert", "put", "read", "owner", "role", "status", "reread",
          "remove", "unput", "list", "next", "account", "purge"}
Idle == [pc |-> "idle"]
Answered == [pc : {"done"}, answer : {200, 201, 204, 404, 409, 500, 0}]
Call == [pc : Steps, op : Ops, user : Users \cup {Nobody}, id : {0} \cup Ids,
         status : States,
         found : BOOLEAN,      \* what the last write handed back was not null
         left : SUBSET Ids]    \* deleteUser: the listed requests still to delete

TypeOK ==
    /\ docs \subseteq Doc
    /\ images \subseteq Ids
    /\ roles \in [Users -> {"gone", "user", "organiser"}]
    /\ made \in 0..MaxIds
    /\ req \in [Requests -> {Idle} \cup Answered \cup Call]
    /\ accepted \subseteq Ids
    /\ departed \subseteq Users

Init ==
    /\ docs = {} /\ images = {} /\ made = 0
    /\ roles = [u \in Users |-> "user"]
    /\ req = [r \in Requests |-> Idle]
    /\ accepted = {} /\ departed = {}

At(r, step) == req[r].pc = step
Active(r) == req[r].pc \notin {"idle", "done"}
Done(answer) == [pc |-> "done", answer |-> answer]
Answer(r, answer) == req' = [req EXCEPT ![r] = Done(answer)]
Goto(r, step) == req' = [req EXCEPT ![r].pc = step]
Stored(i) == \E d \in docs : d.id = i

-----------------------------------------------------------------------------
(* Requests that pass the guards of the controllers.                         *)

Receive(r, op, pc, u, i, status) ==
    /\ req[r] = Idle
    /\ req' = [req EXCEPT ![r] = [pc |-> pc, op |-> op, user |-> u, id |-> i,
                                  status |-> status, found |-> FALSE, left |-> {}]]
    /\ UNCHANGED <<docs, images, roles, made, accepted, departed>>

\* The role USER is read from the access token, which outlives a change of the
\* role and the account.
Create(r, u) == Receive(r, "create", "exists", u, 0, "pending")
Update(r, i, status) == Receive(r, "update", "read", Nobody, i, status)
Delete(r, i) == Receive(r, "delete", "remove", Nobody, i, "pending")
DeleteUser(r, u) == Receive(r, "deleteUser", "list", u, 0, "pending")

-----------------------------------------------------------------------------
(* createValidation.                                                         *)

CheckExists(r) ==
    /\ At(r, "exists")
    /\ IF \E d \in docs : d.user = req[r].user THEN Answer(r, 409) ELSE Goto(r, "insert")
    /\ UNCHANGED <<docs, images, roles, made, accepted, departed>>

\* Mutation: the document is created without its initial status.
InsertNoStatus(r) ==
    /\ At(r, "insert") /\ made < MaxIds
    /\ made' = made + 1
    /\ docs' = docs \cup {[id |-> made', user |-> req[r].user, status |-> "none"]}
    /\ req' = [req EXCEPT ![r].pc = "put", ![r].id = made']
    /\ UNCHANGED <<images, roles, accepted, departed>>

\* Mutation: the answer does not wait for the picture.
InsertUnawaited(r) ==
    /\ At(r, "insert") /\ made < MaxIds
    /\ made' = made + 1
    /\ docs' = docs \cup {[id |-> made', user |-> req[r].user, status |-> "pending"]}
    /\ accepted' = accepted \cup {made'}
    /\ Answer(r, 201)
    /\ UNCHANGED <<images, roles, departed>>

Insert(r) ==
    /\ At(r, "insert") /\ made < MaxIds
    /\ made' = made + 1
    /\ docs' = docs \cup {[id |-> made', user |-> req[r].user, status |-> "pending"]}
    /\ req' = [req EXCEPT ![r].pc = "put", ![r].id = made']
    /\ UNCHANGED <<images, roles, accepted, departed>>

PutImage(r) ==
    /\ At(r, "put")
    /\ images' = images \cup {req[r].id}
    /\ accepted' = accepted \cup {req[r].id}
    /\ Answer(r, 201)
    /\ UNCHANGED <<docs, roles, made, departed>>

-----------------------------------------------------------------------------
(* updateValidation.                                                         *)

\* A request that was answered may only be set back to pending.
Read(r) ==
    /\ At(r, "read")
    /\ \/ ~Stored(req[r].id) /\ Answer(r, 404)
       \/ \E d \in docs :
            /\ d.id = req[r].id
            /\ IF req[r].status # "pending" /\ d.status \in Decisions
               THEN Answer(r, 409)
               ELSE req' = [req EXCEPT ![r].pc = "owner", ![r].user = d.user]
    /\ UNCHANGED <<docs, images, roles, made, accepted, departed>>

\* Mutation: the role is upgraded for the status rejected.
PopulateOwnerSwapped(r) ==
    /\ At(r, "owner")
    /\ req' = [req EXCEPT
                 ![r].pc = IF req[r].status = "rejected" THEN "role" ELSE "status",
                 ![r].user = IF roles[@] = "gone" THEN Nobody ELSE @]
    /\ UNCHANGED <<docs, images, roles, made, accepted, departed>>

\* populate('user') is a query of its own; a user that is gone has no id.
PopulateOwner(r) ==
    /\ At(r, "owner")
    /\ req' = [req EXCEPT
                 ![r].pc = IF req[r].status = "approved" THEN "role" ELSE "status",
                 ![r].user = IF roles[@] = "gone" THEN Nobody ELSE @]
    /\ UNCHANGED <<docs, images, roles, made, accepted, departed>>

UpgradeRole(r) ==
    /\ At(r, "role")
    /\ roles' = [u \in Users |-> IF u = req[r].user /\ roles[u] # "gone"
                                 THEN "organiser" ELSE roles[u]]
    /\ Goto(r, "status")
    /\ UNCHANGED <<docs, images, made, accepted, departed>>

UpdateStatus(r) ==
    /\ At(r, "status")
    /\ docs' = {[d EXCEPT !.status = IF d.id = req[r].id THEN req[r].status ELSE @]
                : d \in docs}
    /\ req' = [req EXCEPT ![r].pc = "reread", ![r].found = Stored(req[r].id)]
    /\ UNCHANGED <<images, roles, made, accepted, departed>>

\* populate('user') of the updated document, which changes nothing but may fail.
AnswerUpdate(r) ==
    /\ At(r, "reread")
    /\ Answer(r, IF req[r].found THEN 200 ELSE 404)
    /\ UNCHANGED <<docs, images, roles, made, accepted, departed>>

-----------------------------------------------------------------------------
(* deleteValidation, and deleteUser, which calls it for each listed request. *)

Remove(r) ==
    /\ At(r, "remove")
    /\ docs' = {d \in docs : d.id # req[r].id}
    /\ req' = [req EXCEPT ![r].pc = "unput", ![r].found = Stored(req[r].id)]
    /\ UNCHANGED <<images, roles, made, accepted, departed>>

DeleteImage(r) ==
    /\ At(r, "unput")
    /\ images' = images \ {req[r].id}
    /\ IF req[r].op = "deleteUser" THEN Goto(r, "next")
       ELSE Answer(r, IF req[r].found THEN 204 ELSE 404)
    /\ UNCHANGED <<docs, roles, made, accepted, departed>>

List(r) ==
    /\ At(r, "list")
    /\ req' = [req EXCEPT ![r].pc = "next",
                 ![r].left = {d.id : d \in {e \in docs : e.user = req[r].user}}]
    /\ UNCHANGED <<docs, images, roles, made, accepted, departed>>

NextListed(r) ==
    /\ At(r, "next")
    /\ \/ req[r].left = {} /\ Goto(r, "account")
       \/ \E i \in req[r].left :
            req' = [req EXCEPT ![r].pc = "remove", ![r].id = i, ![r].left = @ \ {i}]
    /\ UNCHANGED <<docs, images, roles, made, accepted, departed>>

DeleteAccount(r) ==
    /\ At(r, "account")
    /\ LET u == req[r].user IN
       /\ roles' = [roles EXCEPT ![u] = "gone"]
       /\ req' = [req EXCEPT ![r].pc = "purge", ![r].found = roles[u] # "gone"]
       /\ departed' = IF roles[u] # "gone" THEN departed \cup {u} ELSE departed
    /\ UNCHANGED <<docs, images, made, accepted>>

\* deleteUsersFromFutureEvents; what it does to events is in Participation.
Purge(r) ==
    /\ At(r, "purge")
    /\ Answer(r, IF req[r].found THEN 204 ELSE 404)
    /\ UNCHANGED <<docs, images, roles, made, accepted, departed>>

-----------------------------------------------------------------------------
(* Failures, and what runs beside the handlers.                              *)

\* A store refuses a call: 500, and what was written stays.
StoreFails(r) ==
    /\ Active(r)
    /\ Answer(r, 500)
    /\ UNCHANGED <<docs, images, roles, made, accepted, departed>>

\* The handlers in progress are never finished nor answered.
Crash ==
    /\ \E r \in Requests : Active(r)
    /\ req' = [r \in Requests |-> IF Active(r) THEN Done(0) ELSE req[r]]
    /\ UNCHANGED <<docs, images, roles, made, accepted, departed>>

Forget(r) ==
    /\ At(r, "done")
    /\ req' = [req EXCEPT ![r] = Idle]
    /\ UNCHANGED <<docs, images, roles, made, accepted, departed>>

\* findAndUpdateOrCreate stores the user again, with the role USER.
Signup(u) ==
    /\ roles[u] = "gone"
    /\ roles' = [roles EXCEPT ![u] = "user"]
    /\ UNCHANGED <<docs, images, made, req, accepted, departed>>

Handle(r) ==
    \/ CheckExists(r) \/ Insert(r) \/ PutImage(r)
    \/ Read(r) \/ PopulateOwner(r) \/ UpgradeRole(r) \/ UpdateStatus(r) \/ AnswerUpdate(r)
    \/ Remove(r) \/ DeleteImage(r)
    \/ List(r) \/ NextListed(r) \/ DeleteAccount(r) \/ Purge(r)

Next ==
    \/ \E r \in Requests :
         \/ \E u \in Users : Create(r, u) \/ DeleteUser(r, u)
         \/ \E i \in 1..made : Delete(r, i) \/ \E status \in States : Update(r, i, status)
         \/ Handle(r) \/ StoreFails(r) \/ Forget(r)
    \/ Crash
    \/ \E u \in Users : Signup(u)

Spec == Init /\ [][Next]_vars

-----------------------------------------------------------------------------
(* Properties.                                                               *)

\* A stored request that was answered 201 has its picture, whatever fails, and
\* although creation and deletion touch the document and the picture in two
\* steps that other handlers see between.
AcceptedHasImage ==
    \A d \in docs : d.id \in accepted => d.id \in images

\* A request that says approved has made its user an organiser: with no working
\* transaction, the order of the two writes is all that ensures it.  A user who
\* deleted the account starts again as a user, and is not meant.
ApprovedIsOrganiser ==
    \A d \in docs :
      d.status = "approved" /\ d.user \notin departed => roles[d.user] = "organiser"

\* What an approval rests on: until the status is written, the user it read is the
\* owner of the request and, once the role is written, an organiser.
OwnerKnown(c) ==
    c.pc \in {"owner", "role", "status"} =>
      \A d \in docs :
        d.id = c.id /\ d.user \notin departed =>
          /\ c.pc \in {"owner", "role"} => c.user = d.user
          /\ c.pc = "status" /\ c.status = "approved" => roles[d.user] = "organiser"

\* What a handler in progress knows: its ids were generated, it has a user where it
\* uses one, and it deletes a picture only after the document.
HandlerSound(c) ==
    c.pc \in Steps =>
      /\ c.id \in 0..made /\ c.left \subseteq 1..made
      /\ c.pc \in {"exists", "insert", "owner", "list", "next", "account"} => c.user \in Users
      /\ c.pc \in {"remove", "unput"} /\ c.op = "deleteUser" => c.user \in Users
      /\ c.pc = "put" => c.id # 0
      /\ c.pc = "unput" => ~Stored(c.id)
      /\ OwnerKnown(c)

\* What both rest on: an id belongs to one document and was generated, who has no
\* account has left, and the handlers in progress are sound.
StoresSound ==
    /\ \A d, e \in docs : d.id = e.id => d = e
    /\ \A d \in docs : d.id <= made
    /\ \A i \in accepted : i <= made
    /\ \A u \in Users : roles[u] = "gone" => u \in departed
    /\ AcceptedHasImage
    /\ ApprovedIsOrganiser
Inductive == StoresSound /\ \A r \in Requests : HandlerSound(req[r])

\* The contract answers 409 to a user who already has a pending request
\* (docs/contracts/v1/organizer.yaml): so no user ever has two.
OnePendingPerUser ==
    \A d, e \in docs :
      d.user = e.user /\ d.status = "pending" /\ e.status = "pending" => d = e
=============================================================================
