---------------------------- MODULE Validation_proofs ----------------------------
(***************************************************************************)
(* Validation for every set of users, any number of calls and of requests  *)
(* made: type correctness, the picture of an accepted request, and the     *)
(* role of the owner of an approved one.                                   *)
(***************************************************************************)
EXTENDS Validation, TLAPS

stores == <<docs, images, roles, made, accepted, departed>>

\* The three shapes of a request are told apart by the program counter.
LEMMA RequestShape ==
    ASSUME NEW c \in {Idle} \cup Answered \cup Call
    PROVE  /\ c.pc \in Steps => c \in Call
           /\ c.pc \notin {"idle", "done"} => c \in Call
           /\ c = Idle => c.pc = "idle"
           /\ c \notin Call => c.pc \notin Steps
<1>1. CASE c = Idle
  <2>1. c.pc = "idle"
    BY <1>1 DEF Idle
  <2>2. c \notin Call
    BY <2>1 DEF Call, Steps
  <2> QED
    BY <1>1, <2>1, <2>2 DEF Steps
<1>2. CASE c \in Answered
  <2>1. c.pc = "done"
    BY <1>2 DEF Answered
  <2> QED
    BY <2>1 DEF Steps, Idle
<1>3. CASE c \in Call
  <2>1. c.pc \in Steps
    BY <1>3 DEF Call
  <2> QED
    BY <1>3, <2>1 DEF Steps, Idle
<1> QED
  BY <1>1, <1>2, <1>3

LEMMA CallFields ==
    ASSUME NEW c \in Call
    PROVE  /\ c.pc \in Steps /\ c.op \in Ops /\ c.user \in Users \cup {Nobody}
           /\ c.id \in {0} \cup Ids /\ c.status \in States /\ c.found \in BOOLEAN
           /\ c.left \subseteq Ids
  BY DEF Call

\* What the handlers make of a call, with its program counter.
LEMMA CallUpdates ==
    ASSUME NEW c \in Call, NEW s \in Steps
    PROVE  /\ [c EXCEPT !.pc = s] \in Call
           /\ \A i \in Ids : [c EXCEPT !.pc = s, !.id = i] \in Call
           /\ \A u \in Users \cup {Nobody} : [c EXCEPT !.pc = s, !.user = u] \in Call
           /\ \A f \in BOOLEAN : [c EXCEPT !.pc = s, !.found = f] \in Call
           /\ \A L \in SUBSET Ids : [c EXCEPT !.pc = s, !.left = L] \in Call
           /\ \A i \in Ids, L \in SUBSET Ids :
                [c EXCEPT !.pc = s, !.id = i, !.left = L] \in Call
<1>1. [c EXCEPT !.pc = s] \in Call
  BY Zenon DEF Call
<1>2. ASSUME NEW i \in Ids
      PROVE  [c EXCEPT !.pc = s, !.id = i] \in Call
  BY DEF Call
<1>3. ASSUME NEW u \in Users \cup {Nobody}
      PROVE  [c EXCEPT !.pc = s, !.user = u] \in Call
  BY Zenon DEF Call
<1>4. ASSUME NEW f \in BOOLEAN
      PROVE  [c EXCEPT !.pc = s, !.found = f] \in Call
  BY Zenon DEF Call
<1>5. ASSUME NEW L \in SUBSET Ids
      PROVE  [c EXCEPT !.pc = s, !.left = L] \in Call
  BY Zenon DEF Call
<1>6. ASSUME NEW i \in Ids, NEW L \in SUBSET Ids
      PROVE  [c EXCEPT !.pc = s, !.id = i, !.left = L] \in Call
  BY DEF Call
<1> QED
  BY <1>1, <1>2, <1>3, <1>4, <1>5, <1>6

LEMMA TwoFields ==
    ASSUME TypeOK, NEW r \in Requests, req[r] \in Call, NEW s, NEW i, NEW L
    PROVE  /\ [req EXCEPT ![r].pc = s, ![r].id = i]
                = [req EXCEPT ![r] = [req[r] EXCEPT !.pc = s, !.id = i]]
           /\ [req EXCEPT ![r].pc = s, ![r].id = i, ![r].left = L]
                = [req EXCEPT ![r] = [req[r] EXCEPT !.pc = s, !.id = i, !.left = L]]
  BY DEF TypeOK, Call

LEMMA TypeInit == Init => TypeOK
  BY ConstantsAssumption DEF Init, TypeOK, Ids

\* A handler that takes a step is a call in progress.
LEMMA HandlerCall ==
    ASSUME TypeOK, NEW r \in Requests, req[r].pc \in Steps
    PROVE  req[r] \in Call /\ r \in DOMAIN req
  BY RequestShape DEF TypeOK

LEMMA AnswerType ==
    ASSUME TypeOK, NEW r \in Requests,
           NEW a \in {200, 201, 204, 404, 409, 500, 0}, Answer(r, a)
    PROVE  req' \in [Requests -> {Idle} \cup Answered \cup Call]
<1>1. Done(a) \in Answered
  BY DEF Done, Answered
<1> QED
  BY <1>1 DEF Answer, TypeOK

\* A call of a handler in progress is replaced by another.
LEMMA MoveType ==
    ASSUME TypeOK, NEW r \in Requests, NEW c \in Call, req' = [req EXCEPT ![r] = c]
    PROVE  req' \in [Requests -> {Idle} \cup Answered \cup Call]
  BY DEF TypeOK

LEMMA TypeStep == TypeOK /\ Inductive /\ [Next]_vars => TypeOK'
<1> SUFFICES ASSUME TypeOK, Inductive, [Next]_vars PROVE TypeOK'
  OBVIOUS
<1> DEFINE Reqs == [Requests -> {Idle} \cup Answered \cup Call]
<1> USE ConstantsAssumption
<1>0. \A r \in Requests : HandlerSound(req[r])
  BY DEF Inductive
<1>1. ASSUME NEW r \in Requests, NEW op \in Ops, NEW s \in Steps,
             NEW u \in Users \cup {Nobody}, NEW i \in {0} \cup Ids, NEW status \in States,
             Receive(r, op, s, u, i, status)
      PROVE  TypeOK'
  <2>1. [pc |-> s, op |-> op, user |-> u, id |-> i, status |-> status,
         found |-> FALSE, left |-> {}] \in Call
    BY DEF Call
  <2>2. req' \in Reqs
    BY <1>1, <2>1, MoveType DEF Receive
  <2> QED
    BY <1>1, <2>2 DEF TypeOK, Receive
<1>2. ASSUME NEW r \in Requests, CheckExists(r)
      PROVE  TypeOK'
  <2>1. req[r] \in Call
    BY <1>2, HandlerCall DEF CheckExists, At, Steps
  <2>2. req' \in Reqs
    <3>1. CASE Answer(r, 409)
      BY <3>1, AnswerType
    <3>2. CASE Goto(r, "insert")
      <4>1. [req[r] EXCEPT !.pc = "insert"] \in Call
        BY <2>1, CallUpdates DEF Steps
      <4> QED
        BY <3>2, <4>1, MoveType DEF Goto
    <3> QED
      BY <1>2, <3>1, <3>2 DEF CheckExists
  <2> QED
    BY <1>2, <2>2 DEF TypeOK, CheckExists
<1>3. ASSUME NEW r \in Requests, Insert(r)
      PROVE  TypeOK'
  <2>1. req[r] \in Call /\ req[r].user \in Users
    BY <1>0, <1>3, HandlerCall DEF Insert, At, Steps, HandlerSound
  <2>2. made' \in Ids /\ made' \in 0..MaxIds
    BY <1>3 DEF Insert, TypeOK, Ids
  <2>3. [id |-> made', user |-> req[r].user, status |-> "pending"] \in Doc
    BY <2>1, <2>2 DEF Doc, States
  <2>4. PICK i \in Ids : i = made' /\ req' = [req EXCEPT ![r].pc = "put", ![r].id = i]
    BY <1>3, <2>2 DEF Insert
  <2>5. req' \in Reqs
    <3>1. [req[r] EXCEPT !.pc = "put", !.id = i] \in Call
      BY <2>1, CallUpdates DEF Steps
    <3>2. req' = [req EXCEPT ![r] = [req[r] EXCEPT !.pc = "put", !.id = i]]
      BY <2>1, <2>4, TwoFields, Zenon
    <3> HIDE DEF Reqs
    <3>3. PICK c \in Call : req' = [req EXCEPT ![r] = c]
      BY <3>1, <3>2, Zenon
    <3> QED
      BY <3>3, MoveType DEF Reqs
  <2> QED
    BY <1>3, <2>2, <2>3, <2>5 DEF TypeOK, Insert
<1>4. ASSUME NEW r \in Requests, PutImage(r)
      PROVE  TypeOK'
  <2>1. req[r] \in Call /\ req[r].id # 0
    BY <1>0, <1>4, HandlerCall DEF PutImage, At, Steps, HandlerSound
  <2>2. req[r].id \in Ids
    BY <2>1, CallFields
  <2>3. req' \in Reqs
    BY <1>4, AnswerType DEF PutImage
  <2> QED
    BY <1>4, <2>2, <2>3 DEF TypeOK, PutImage
<1>5. ASSUME NEW r \in Requests, Read(r)
      PROVE  TypeOK'
  <2>1. req[r] \in Call
    BY <1>5, HandlerCall DEF Read, At, Steps
  <2>2. req' \in Reqs
    <3>1. CASE Answer(r, 404) \/ Answer(r, 409)
      BY <3>1, AnswerType
    <3>2. ASSUME NEW d \in docs,
                 req' = [req EXCEPT ![r].pc = "owner", ![r].user = d.user]
          PROVE  req' \in Reqs
      <4>1. d.user \in Users
        BY DEF TypeOK, Doc
      <4>2. [req[r] EXCEPT !.pc = "owner", !.user = d.user] \in Call
        BY <2>1, <4>1, CallUpdates DEF Steps
      <4> QED
        BY <3>2, <4>2, MoveType
    <3> QED
      BY <1>5, <3>1, <3>2 DEF Read
  <2> QED
    BY <1>5, <2>2 DEF TypeOK, Read
<1>6. ASSUME NEW r \in Requests, PopulateOwner(r)
      PROVE  TypeOK'
  <2>1. req[r] \in Call
    BY <1>6, HandlerCall DEF PopulateOwner, At, Steps
  <2>2. PICK s \in Steps, u \in Users \cup {Nobody} :
          req' = [req EXCEPT ![r].pc = s, ![r].user = u]
    <3>1. req[r].user \in Users \cup {Nobody}
      BY <2>1, CallFields
    <3> QED
      BY <1>6, <3>1 DEF PopulateOwner, Steps, TypeOK
  <2>3. [req[r] EXCEPT !.pc = s, !.user = u] \in Call
    BY <2>1, CallUpdates
  <2>4. req' \in Reqs
    <3>1. PICK c : c = [req[r] EXCEPT !.pc = s, !.user = u]
      OBVIOUS
    <3>2. c \in Call
      BY <2>3, <3>1
    <3>3. req' = [req EXCEPT ![r] = c]
      BY <2>2, <3>1
    <3> QED
      BY <3>2, <3>3, MoveType
  <2> QED
    BY <1>6, <2>4 DEF TypeOK, PopulateOwner
<1>7. ASSUME NEW r \in Requests, UpgradeRole(r)
      PROVE  TypeOK'
  <2>1. req[r] \in Call
    BY <1>7, HandlerCall DEF UpgradeRole, At, Steps
  <2>2. [req[r] EXCEPT !.pc = "status"] \in Call
    BY <2>1, CallUpdates DEF Steps
  <2>3. req' \in Reqs
    BY <1>7, <2>2, MoveType DEF UpgradeRole, Goto
  <2>4. roles' \in [Users -> {"gone", "user", "organiser"}]
    BY <1>7 DEF UpgradeRole, TypeOK
  <2> QED
    BY <1>7, <2>3, <2>4 DEF TypeOK, UpgradeRole
<1>8. ASSUME NEW r \in Requests, UpdateStatus(r)
      PROVE  TypeOK'
  <2>1. req[r] \in Call /\ req[r].status \in States
    BY <1>8, HandlerCall, CallFields DEF UpdateStatus, At, Steps
  <2>2. PICK f \in BOOLEAN : req' = [req EXCEPT ![r].pc = "reread", ![r].found = f]
    BY <1>8 DEF UpdateStatus, Stored
  <2>3. [req[r] EXCEPT !.pc = "reread", !.found = f] \in Call
    BY <2>1, CallUpdates DEF Steps
  <2>4. req' \in Reqs
    <3>1. PICK c : c = [req[r] EXCEPT !.pc = "reread", !.found = f]
      OBVIOUS
    <3>2. c \in Call
      BY <2>3, <3>1
    <3>3. req' = [req EXCEPT ![r] = c]
      BY <2>2, <3>1
    <3> QED
      BY <3>2, <3>3, MoveType
  <2>5. ASSUME NEW d \in docs, NEW s \in States
        PROVE  [d EXCEPT !.status = s] \in Doc
    BY DEF TypeOK, Doc
  <2>6. docs' \subseteq Doc
    <3>1. ASSUME NEW d \in docs
          PROVE  (IF d.id = req[r].id THEN req[r].status ELSE d.status) \in States
      BY <2>1 DEF TypeOK, Doc
    <3> QED
      BY <1>8, <2>5, <3>1 DEF UpdateStatus
  <2> QED
    BY <1>8, <2>4, <2>6 DEF TypeOK, UpdateStatus
<1>9. ASSUME NEW r \in Requests, AnswerUpdate(r)
      PROVE  TypeOK'
  <2>1. req' \in Reqs
    BY <1>9, AnswerType DEF AnswerUpdate
  <2> QED
    BY <1>9, <2>1 DEF TypeOK, AnswerUpdate
<1>10. ASSUME NEW r \in Requests, Remove(r)
       PROVE  TypeOK'
  <2>1. req[r] \in Call
    BY <1>10, HandlerCall DEF Remove, At, Steps
  <2>2. PICK f \in BOOLEAN : req' = [req EXCEPT ![r].pc = "unput", ![r].found = f]
    BY <1>10 DEF Remove, Stored
  <2>3. [req[r] EXCEPT !.pc = "unput", !.found = f] \in Call
    BY <2>1, CallUpdates DEF Steps
  <2>4. req' \in Reqs
    <3>1. PICK c : c = [req[r] EXCEPT !.pc = "unput", !.found = f]
      OBVIOUS
    <3>2. c \in Call
      BY <2>3, <3>1
    <3>3. req' = [req EXCEPT ![r] = c]
      BY <2>2, <3>1
    <3> QED
      BY <3>2, <3>3, MoveType
  <2> QED
    BY <1>10, <2>4 DEF TypeOK, Remove
<1>11. ASSUME NEW r \in Requests, DeleteImage(r)
       PROVE  TypeOK'
  <2>1. req[r] \in Call
    BY <1>11, HandlerCall DEF DeleteImage, At, Steps
  <2>2. [req[r] EXCEPT !.pc = "next"] \in Call
    BY <2>1, CallUpdates DEF Steps
  <2>3. req' \in Reqs
    BY <1>11, <2>2, MoveType, AnswerType DEF DeleteImage, Goto
  <2> QED
    BY <1>11, <2>3 DEF TypeOK, DeleteImage
<1>12. ASSUME NEW r \in Requests, List(r)
       PROVE  TypeOK'
  <2>1. req[r] \in Call
    BY <1>12, HandlerCall DEF List, At, Steps
  <2>2. {d.id : d \in {e \in docs : e.user = req[r].user}} \in SUBSET Ids
    BY DEF TypeOK, Doc
  <2>3. [req[r] EXCEPT !.pc = "next",
                       !.left = {d.id : d \in {e \in docs : e.user = req[r].user}}] \in Call
    BY <2>1, <2>2, CallUpdates DEF Steps
  <2>4. req' \in Reqs
    BY <1>12, <2>3, MoveType DEF List
  <2> QED
    BY <1>12, <2>4 DEF TypeOK, List
<1>13. ASSUME NEW r \in Requests, NextListed(r)
       PROVE  TypeOK'
  <2>1. req[r] \in Call /\ req[r].left \subseteq Ids
    BY <1>13, HandlerCall, CallFields DEF NextListed, At, Steps
  <2>2. [req[r] EXCEPT !.pc = "account"] \in Call
    BY <2>1, CallUpdates DEF Steps
  <2>3. ASSUME NEW i \in req[r].left,
               req' = [req EXCEPT ![r].pc = "remove", ![r].id = i, ![r].left = @ \ {i}]
        PROVE  req' \in Reqs
    <3>1. PICK L \in SUBSET Ids : L = req[r].left \ {i}
      BY <2>1
    <3>2. req' = [req EXCEPT ![r].pc = "remove", ![r].id = i, ![r].left = L]
      BY <2>3, <3>1
    <3>3. [req[r] EXCEPT !.pc = "remove", !.id = i, !.left = L] \in Call
      BY <2>1, CallUpdates DEF Steps
    <3>4. req' = [req EXCEPT ![r] = [req[r] EXCEPT !.pc = "remove", !.id = i, !.left = L]]
      BY <2>1, <3>2, TwoFields, Zenon
    <3> HIDE DEF Reqs
    <3>5. PICK c \in Call : req' = [req EXCEPT ![r] = c]
      BY <3>3, <3>4, Zenon
    <3> QED
      BY <3>5, MoveType DEF Reqs
  <2>4. req' \in Reqs
    BY <1>13, <2>2, <2>3, MoveType DEF NextListed, Goto
  <2> QED
    BY <1>13, <2>4 DEF TypeOK, NextListed
<1>14. ASSUME NEW r \in Requests, DeleteAccount(r)
       PROVE  TypeOK'
  <2>1. req[r] \in Call /\ req[r].user \in Users
    BY <1>0, <1>14, HandlerCall DEF DeleteAccount, At, Steps, HandlerSound
  <2>2. PICK f \in BOOLEAN : req' = [req EXCEPT ![r].pc = "purge", ![r].found = f]
    BY <1>14 DEF DeleteAccount
  <2>3. [req[r] EXCEPT !.pc = "purge", !.found = f] \in Call
    BY <2>1, CallUpdates DEF Steps
  <2>4. req' \in Reqs
    <3>1. PICK c : c = [req[r] EXCEPT !.pc = "purge", !.found = f]
      OBVIOUS
    <3>2. c \in Call
      BY <2>3, <3>1
    <3>3. req' = [req EXCEPT ![r] = c]
      BY <2>2, <3>1
    <3> QED
      BY <3>2, <3>3, MoveType
  <2>5. roles' \in [Users -> {"gone", "user", "organiser"}] /\ departed' \subseteq Users
    BY <1>14, <2>1 DEF DeleteAccount, TypeOK
  <2> QED
    BY <1>14, <2>4, <2>5 DEF TypeOK, DeleteAccount
<1>15. ASSUME NEW r \in Requests, Purge(r)
       PROVE  TypeOK'
  <2>1. req' \in Reqs
    BY <1>15, AnswerType DEF Purge
  <2> QED
    BY <1>15, <2>1 DEF TypeOK, Purge
<1>16. ASSUME NEW r \in Requests, StoreFails(r)
       PROVE  TypeOK'
  <2>1. req' \in Reqs
    BY <1>16, AnswerType DEF StoreFails
  <2> QED
    BY <1>16, <2>1 DEF TypeOK, StoreFails
<1>17. CASE Crash
  <2>1. Done(0) \in Answered
    BY DEF Done, Answered
  <2>2. req' \in Reqs
    BY <1>17, <2>1 DEF Crash, TypeOK
  <2> QED
    BY <1>17, <2>2 DEF TypeOK, Crash
<1>18. ASSUME NEW r \in Requests, Forget(r)
       PROVE  TypeOK'
  BY <1>18 DEF TypeOK, Forget
<1>19. ASSUME NEW u \in Users, Signup(u)
       PROVE  TypeOK'
  BY <1>19 DEF TypeOK, Signup
<1>20. CASE UNCHANGED vars
  BY <1>20 DEF TypeOK, vars
<1>21. ASSUME NEW r \in Requests, Handle(r)
       PROVE  TypeOK'
  BY <1>2, <1>3, <1>4, <1>5, <1>6, <1>7, <1>8, <1>9, <1>10, <1>11, <1>12, <1>13, <1>14,
     <1>15, <1>21 DEF Handle
<1>22. ASSUME NEW r \in Requests, NEW u \in Users, Create(r, u) \/ DeleteUser(r, u)
       PROVE  TypeOK'
  BY <1>1, <1>22 DEF Create, DeleteUser, Ops, Steps, States
<1>23. ASSUME NEW r \in Requests, NEW i \in 1..made, NEW status \in States,
              Delete(r, i) \/ Update(r, i, status)
       PROVE  TypeOK'
  <2>1. i \in {0} \cup Ids
    BY DEF TypeOK, Ids
  <2> QED
    BY <1>1, <1>23, <2>1 DEF Delete, Update, Ops, Steps, States
<1>24. "pending" \in States
  BY DEF States
<1> QED
  BY <1>16, <1>17, <1>18, <1>19, <1>20, <1>21, <1>22, <1>23, <1>24 DEF Next

-----------------------------------------------------------------------------
(* The inductive invariant.                                                  *)

LEMMA IndInit == Init => Inductive
<1> SUFFICES ASSUME Init PROVE Inductive
  OBVIOUS
<1>1. \A r \in Requests : req[r].pc = "idle"
  BY DEF Init, Idle
<1>2. \A r \in Requests : HandlerSound(req[r])
  BY <1>1 DEF HandlerSound, Steps
<1> QED
  BY <1>2 DEF Init, Inductive, StoresSound, AcceptedHasImage, ApprovedIsOrganiser

\* What no step takes back: ids stay generated, a document keeps its id and its user,
\* and only who leaves loses the role of an organiser.
Steady ==
    /\ made' \in Nat /\ made <= made'
    /\ \A d \in docs' : d.id > made \/ \E e \in docs : e.id = d.id /\ e.user = d.user
    /\ departed \subseteq departed'
    /\ \A u \in Users : roles[u] = "organiser" /\ u \notin departed' => roles'[u] = "organiser"

\* A handler that does not move stays sound.
LEMMA Undisturbed ==
    ASSUME TypeOK, TypeOK', Steady, NEW q \in Requests, HandlerSound(req[q]), req'[q] = req[q]
    PROVE  HandlerSound(req[q])'
<1> SUFFICES ASSUME req[q].pc \in Steps
             PROVE  HandlerSound(req[q])'
  BY DEF HandlerSound
<1> DEFINE c == req[q]
<1>1. c \in Call /\ c.id \in 0..made /\ c.left \subseteq 1..made /\ made \in Nat
  BY HandlerCall DEF HandlerSound, TypeOK
<1>2. \A d \in docs : d.id \in Nat /\ d.user \in Users
  BY DEF TypeOK, Doc, Ids
<1>3. \A d \in docs' : d.id \in Nat /\ d.user \in Users
  BY DEF TypeOK, Doc, Ids
<1> HIDE DEF c
<1>4. c.id \in 0..made' /\ c.left \subseteq 1..made'
  BY <1>1 DEF Steady
<1>5. ASSUME NEW d \in docs', d.id = c.id
      PROVE  \E e \in docs : e.id = c.id /\ e.user = d.user
  BY <1>1, <1>3, <1>5 DEF Steady
<1>6. HandlerSound(c)
  BY DEF c
<1>7. c.pc = "unput" => ~\E d \in docs' : d.id = c.id
  BY <1>5, <1>6 DEF HandlerSound, Stored, Steps
<1>8. ASSUME c.pc \in {"owner", "role", "status"}, NEW d \in docs', d.id = c.id,
             d.user \notin departed'
      PROVE  /\ c.pc \in {"owner", "role"} => c.user = d.user
             /\ c.pc = "status" /\ c.status = "approved" => roles'[d.user] = "organiser"
  <2>1. PICK e \in docs : e.id = c.id /\ e.user = d.user
    BY <1>5, <1>8
  <2>2. e.user \in Users /\ e.user \notin departed
    BY <1>2, <1>8, <2>1 DEF Steady
  <2>3. /\ c.pc \in {"owner", "role"} => c.user = d.user
        /\ c.pc = "status" /\ c.status = "approved" => roles[d.user] = "organiser"
    BY <1>6, <1>8, <2>1, <2>2 DEF HandlerSound, OwnerKnown, Steps
  <2> QED
    BY <1>8, <2>1, <2>2, <2>3 DEF Steady
<1>9. req'[q] = c
  BY DEF c
<1> QED
  BY <1>4, <1>6, <1>7, <1>8, <1>9 DEF HandlerSound, OwnerKnown, Stored

\* So a step of one handler has to show its own call sound, and the stores.
LEMMA HandlerStep ==
    ASSUME TypeOK, TypeOK', Inductive, Steady, NEW r \in Requests,
           \A q \in Requests \ {r} : req'[q] = req[q],
           HandlerSound(req[r])', StoresSound'
    PROVE  Inductive'
<1>1. ASSUME NEW q \in Requests PROVE HandlerSound(req[q])'
  <2>1. CASE q = r
    BY <2>1
  <2>2. CASE q # r
    <3>1. req'[q] = req[q] /\ HandlerSound(req[q])
      BY <2>2 DEF Inductive
    <3> QED
      BY <3>1, Undisturbed
  <2> QED
    BY <2>1, <2>2
<1> QED
  BY <1>1 DEF Inductive

\* A step that leaves the stores alone.
LEMMA QuietStep ==
    ASSUME TypeOK, TypeOK', Inductive, UNCHANGED stores, NEW r \in Requests,
           \A q \in Requests \ {r} : req'[q] = req[q],
           HandlerSound(req[r])'
    PROVE  Inductive'
<1>1. Steady
  BY DEF Steady, stores, TypeOK
<1>2. StoresSound'
  BY DEF stores, StoresSound, AcceptedHasImage, ApprovedIsOrganiser, Inductive
<1> QED
  BY <1>1, <1>2, HandlerStep

\* A call that is over claims nothing.
LEMMA Answering ==
    ASSUME TypeOK, NEW r \in Requests, NEW a, Answer(r, a)
    PROVE  /\ \A q \in Requests \ {r} : req'[q] = req[q]
           /\ HandlerSound(req[r])'
<1>1. /\ \A q \in Requests \ {r} : req'[q] = req[q]
      /\ req'[r] = Done(a)
  BY DEF Answer, TypeOK
<1>2. req'[r].pc = "done"
  BY <1>1 DEF Done
<1> QED
  BY <1>1, <1>2 DEF HandlerSound, Steps

\* What a moved call keeps.
LEMMA Moved ==
    ASSUME TypeOK, NEW r \in Requests, req[r] \in Call, NEW s
    PROVE  /\ Goto(r, s) =>
                /\ \A q \in Requests \ {r} : req'[q] = req[q]
                /\ req'[r].pc = s /\ req'[r].op = req[r].op /\ req'[r].user = req[r].user
                /\ req'[r].id = req[r].id /\ req'[r].status = req[r].status
                /\ req'[r].left = req[r].left
           /\ \A f : req' = [req EXCEPT ![r].pc = s, ![r].found = f] =>
                /\ \A q \in Requests \ {r} : req'[q] = req[q]
                /\ req'[r].pc = s /\ req'[r].op = req[r].op /\ req'[r].user = req[r].user
                /\ req'[r].id = req[r].id /\ req'[r].status = req[r].status
                /\ req'[r].left = req[r].left
           /\ \A u : req' = [req EXCEPT ![r].pc = s, ![r].user = u] =>
                /\ \A q \in Requests \ {r} : req'[q] = req[q]
                /\ req'[r].pc = s /\ req'[r].op = req[r].op /\ req'[r].user = u
                /\ req'[r].id = req[r].id /\ req'[r].status = req[r].status
                /\ req'[r].left = req[r].left
           /\ \A L : req' = [req EXCEPT ![r].pc = s, ![r].left = L] =>
                /\ \A q \in Requests \ {r} : req'[q] = req[q]
                /\ req'[r].pc = s /\ req'[r].op = req[r].op /\ req'[r].user = req[r].user
                /\ req'[r].id = req[r].id /\ req'[r].status = req[r].status
                /\ req'[r].left = L
           /\ \A i : req' = [req EXCEPT ![r].pc = s, ![r].id = i] =>
                /\ \A q \in Requests \ {r} : req'[q] = req[q]
                /\ req'[r].pc = s /\ req'[r].op = req[r].op /\ req'[r].user = req[r].user
                /\ req'[r].id = i /\ req'[r].status = req[r].status
                /\ req'[r].left = req[r].left
           /\ \A i, L : req' = [req EXCEPT ![r].pc = s, ![r].id = i, ![r].left = L] =>
                /\ \A q \in Requests \ {r} : req'[q] = req[q]
                /\ req'[r].pc = s /\ req'[r].op = req[r].op /\ req'[r].user = req[r].user
                /\ req'[r].id = i /\ req'[r].status = req[r].status
                /\ req'[r].left = L
<1>1. ASSUME req' = [req EXCEPT ![r].pc = s]
      PROVE  /\ \A q \in Requests \ {r} : req'[q] = req[q]
             /\ req'[r].pc = s /\ req'[r].op = req[r].op /\ req'[r].user = req[r].user
             /\ req'[r].id = req[r].id /\ req'[r].status = req[r].status
             /\ req'[r].left = req[r].left
  BY <1>1 DEF TypeOK, Call
<1>2. ASSUME NEW f, req' = [req EXCEPT ![r].pc = s, ![r].found = f]
      PROVE  /\ \A q \in Requests \ {r} : req'[q] = req[q]
             /\ req'[r].pc = s /\ req'[r].op = req[r].op /\ req'[r].user = req[r].user
             /\ req'[r].id = req[r].id /\ req'[r].status = req[r].status
             /\ req'[r].left = req[r].left
  BY <1>2 DEF TypeOK, Call
<1>3. ASSUME NEW u, req' = [req EXCEPT ![r].pc = s, ![r].user = u]
      PROVE  /\ \A q \in Requests \ {r} : req'[q] = req[q]
             /\ req'[r].pc = s /\ req'[r].op = req[r].op /\ req'[r].user = u
             /\ req'[r].id = req[r].id /\ req'[r].status = req[r].status
             /\ req'[r].left = req[r].left
  BY <1>3 DEF TypeOK, Call
<1>4. ASSUME NEW L, req' = [req EXCEPT ![r].pc = s, ![r].left = L]
      PROVE  /\ \A q \in Requests \ {r} : req'[q] = req[q]
             /\ req'[r].pc = s /\ req'[r].op = req[r].op /\ req'[r].user = req[r].user
             /\ req'[r].id = req[r].id /\ req'[r].status = req[r].status
             /\ req'[r].left = L
  BY <1>4 DEF TypeOK, Call
<1>5. ASSUME NEW i, req' = [req EXCEPT ![r].pc = s, ![r].id = i]
      PROVE  /\ \A q \in Requests \ {r} : req'[q] = req[q]
             /\ req'[r].pc = s /\ req'[r].op = req[r].op /\ req'[r].user = req[r].user
             /\ req'[r].id = i /\ req'[r].status = req[r].status
             /\ req'[r].left = req[r].left
  BY <1>5 DEF TypeOK, Call
<1>6. ASSUME NEW i, NEW L, req' = [req EXCEPT ![r].pc = s, ![r].id = i, ![r].left = L]
      PROVE  /\ \A q \in Requests \ {r} : req'[q] = req[q]
             /\ req'[r].pc = s /\ req'[r].op = req[r].op /\ req'[r].user = req[r].user
             /\ req'[r].id = i /\ req'[r].status = req[r].status
             /\ req'[r].left = L
  BY <1>6 DEF TypeOK, Call
<1> QED
  BY <1>1, <1>2, <1>3, <1>4, <1>5, <1>6 DEF Goto

LEMMA IndStep == TypeOK /\ TypeOK' /\ Inductive /\ [Next]_vars => Inductive'
<1> SUFFICES ASSUME TypeOK, TypeOK', Inductive, [Next]_vars PROVE Inductive'
  OBVIOUS
<1>0. /\ \A q \in Requests : HandlerSound(req[q])
      /\ StoresSound
      /\ made \in Nat
      /\ \A d \in docs : d.id \in Nat \ {0} /\ d.user \in Users
  BY ConstantsAssumption DEF Inductive, TypeOK, Doc, Ids
<1>1. ASSUME NEW r \in Requests, NEW op, NEW s, NEW u \in Users \cup {Nobody},
             NEW i \in 0..made, NEW status, Receive(r, op, s, u, i, status),
             \/ s \in {"exists", "list"} /\ u \in Users
             \/ s = "read"
             \/ s = "remove" /\ op # "deleteUser"
      PROVE  Inductive'
  <2>1. /\ \A q \in Requests \ {r} : req'[q] = req[q]
        /\ req'[r] = [pc |-> s, op |-> op, user |-> u, id |-> i, status |-> status,
                      found |-> FALSE, left |-> {}]
        /\ UNCHANGED stores
    BY <1>1 DEF Receive, TypeOK, stores
  <2>2. /\ req'[r].pc = s /\ req'[r].user = u /\ req'[r].id = i /\ req'[r].left = {}
        /\ req'[r].op = op
    BY <2>1
  <2>3. HandlerSound(req[r])'
    BY <1>1, <2>1, <2>2 DEF HandlerSound, OwnerKnown, stores
  <2> QED
    BY <2>1, <2>3, QuietStep
<1>2. ASSUME NEW r \in Requests, CheckExists(r)
      PROVE  Inductive'
  <2>1. req[r] \in Call /\ HandlerSound(req[r]) /\ req[r].pc = "exists" /\ UNCHANGED stores
    BY <1>0, <1>2, HandlerCall DEF CheckExists, At, Steps, stores
  <2>2. CASE Answer(r, 409)
    BY <2>1, <2>2, Answering, QuietStep
  <2>3. CASE Goto(r, "insert")
    <3>1. HandlerSound(req[r])'
      <4>1. req'[r].pc = "insert" /\ req'[r].id = req[r].id /\ req'[r].left = req[r].left
            /\ req'[r].user = req[r].user
        BY <2>1, <2>3, Moved
      <4>2. /\ made' = made /\ req[r].id \in 0..made /\ req[r].left \subseteq 1..made
            /\ req[r].user \in Users
        BY <2>1 DEF HandlerSound, Steps, stores
      <4> QED
        BY <4>1, <4>2 DEF HandlerSound, OwnerKnown
    <3> QED
      BY <2>1, <2>3, <3>1, Moved, QuietStep
  <2> QED
    BY <1>2, <2>2, <2>3 DEF CheckExists
<1>3. ASSUME NEW r \in Requests, Insert(r)
      PROVE  Inductive'
  <2>1. /\ req[r] \in Call /\ HandlerSound(req[r]) /\ req[r].pc = "insert"
        /\ req[r].user \in Users
    BY <1>0, <1>3, HandlerCall DEF Insert, At, Steps, HandlerSound
  <2>2. PICK n, new : /\ n = made + 1 /\ made' = n
                      /\ new = [id |-> n, user |-> req[r].user, status |-> "pending"]
                      /\ docs' = docs \cup {new}
                      /\ req' = [req EXCEPT ![r].pc = "put", ![r].id = n]
                      /\ UNCHANGED <<images, roles, accepted, departed>>
    BY <1>3 DEF Insert
  <2>3. new.id = n /\ new.user = req[r].user /\ new.status = "pending" /\ n \in Nat
    BY <1>0, <2>2
  <2>4. Steady
    BY <1>0, <2>2, <2>3 DEF Steady
  <2>5. StoresSound'
    <3>1. \A d, e \in docs' : d.id = e.id => d = e
      BY <1>0, <2>2, <2>3 DEF StoresSound
    <3>2. \A d \in docs' : d.id <= made'
      BY <1>0, <2>2, <2>3 DEF StoresSound
    <3>3. \A j \in accepted : j <= made /\ j \in Nat
      BY <1>0 DEF StoresSound, TypeOK, Ids
    <3>4. AcceptedHasImage'
      BY <1>0, <2>2, <2>3, <3>3 DEF StoresSound, AcceptedHasImage
    <3>5. ApprovedIsOrganiser'
      BY <1>0, <2>2, <2>3 DEF StoresSound, ApprovedIsOrganiser
    <3> QED
      BY <1>0, <2>2, <2>3, <3>1, <3>2, <3>3, <3>4, <3>5 DEF StoresSound
  <2>6. HandlerSound(req[r])'
    <3>1. req'[r].pc = "put" /\ req'[r].id = n /\ req'[r].left = req[r].left
      BY <2>1, <2>2 DEF TypeOK, Call
    <3>2. req[r].left \subseteq 1..made
      BY <2>1 DEF HandlerSound, Steps
    <3> QED
      <4>1. n \in 0..made' /\ n # 0 /\ req[r].left \subseteq 1..made'
        BY <1>0, <2>2, <2>3, <3>2
      <4> QED
        BY <3>1, <4>1 DEF HandlerSound, OwnerKnown
  <2>7. \A q \in Requests \ {r} : req'[q] = req[q]
    BY <2>1, <2>2, Moved
  <2> QED
    BY <2>4, <2>5, <2>6, <2>7, HandlerStep
<1>4. ASSUME NEW r \in Requests, PutImage(r)
      PROVE  Inductive'
  <2>1. HandlerSound(req[r]) /\ req[r].pc = "put"
    BY <1>0, <1>4 DEF PutImage, At
  <2>2. Steady
    BY <1>0, <1>4 DEF Steady, PutImage
  <2>3. req[r].id <= made
    BY <2>1 DEF HandlerSound, Steps
  <2>4. StoresSound'
    BY <1>0, <1>4, <2>3 DEF PutImage, StoresSound, AcceptedHasImage, ApprovedIsOrganiser
  <2> QED
    BY <1>4, <2>2, <2>4, Answering, HandlerStep DEF PutImage
<1>5. ASSUME NEW r \in Requests, Read(r)
      PROVE  Inductive'
  <2>1. req[r] \in Call /\ HandlerSound(req[r]) /\ req[r].pc = "read" /\ UNCHANGED stores
    BY <1>0, <1>5, HandlerCall DEF Read, At, Steps, stores
  <2>2. ASSUME NEW a, Answer(r, a)
        PROVE  Inductive'
    BY <2>1, <2>2, Answering, QuietStep
  <2>3. ASSUME NEW d \in docs, d.id = req[r].id,
               req' = [req EXCEPT ![r].pc = "owner", ![r].user = d.user]
        PROVE  Inductive'
    <3>1. /\ req'[r].pc = "owner" /\ req'[r].user = d.user /\ req'[r].id = req[r].id
          /\ req'[r].left = req[r].left /\ \A q \in Requests \ {r} : req'[q] = req[q]
      BY <2>1, <2>3 DEF TypeOK, Call
    <3>2. \A e \in docs : e.id = req[r].id => e = d
      BY <1>0, <2>3 DEF StoresSound
    <3>3. HandlerSound(req[r])'
      BY <1>0, <2>1, <2>3, <3>1, <3>2 DEF HandlerSound, OwnerKnown, stores, Steps
    <3> QED
      BY <2>1, <3>1, <3>3, QuietStep
  <2> QED
    BY <1>5, <2>2, <2>3 DEF Read
<1>6. ASSUME NEW r \in Requests, PopulateOwner(r)
      PROVE  Inductive'
  <2>1. req[r] \in Call /\ HandlerSound(req[r]) /\ req[r].pc = "owner" /\ UNCHANGED stores
    BY <1>0, <1>6, HandlerCall DEF PopulateOwner, At, Steps, stores
  <2>2. PICK s, u : /\ s = (IF req[r].status = "approved" THEN "role" ELSE "status")
                    /\ u = (IF roles[req[r].user] = "gone" THEN Nobody ELSE req[r].user)
                    /\ req' = [req EXCEPT ![r].pc = s, ![r].user = u]
    BY <1>6 DEF PopulateOwner
  <2>3. /\ req'[r].pc = s /\ req'[r].user = u /\ req'[r].id = req[r].id
        /\ req'[r].left = req[r].left /\ req'[r].status = req[r].status
        /\ \A q \in Requests \ {r} : req'[q] = req[q]
    BY <2>1, <2>2 DEF TypeOK, Call
  <2>4. ASSUME NEW d \in docs, d.id = req[r].id, d.user \notin departed
        PROVE  u = d.user
    <3>1. req[r].user = d.user
      BY <2>1, <2>4 DEF HandlerSound, OwnerKnown, Steps
    <3>2. roles[d.user] # "gone"
      BY <1>0, <2>4 DEF StoresSound
    <3> QED
      BY <2>2, <3>1, <3>2
  <2>5. OwnerKnown(req[r])'
    BY <2>1, <2>2, <2>3, <2>4 DEF OwnerKnown, stores
  <2>6. HandlerSound(req[r])'
    <3>1. made' = made /\ req[r].id \in 0..made /\ req[r].left \subseteq 1..made
      BY <2>1 DEF HandlerSound, Steps, stores
    <3>2. s \in {"role", "status"}
      BY <2>2
    <3> QED
      BY <2>3, <2>5, <3>1, <3>2 DEF HandlerSound
  <2> QED
    BY <2>1, <2>3, <2>6, QuietStep
<1>7. ASSUME NEW r \in Requests, UpgradeRole(r)
      PROVE  Inductive'
  <2>1. req[r] \in Call /\ HandlerSound(req[r]) /\ req[r].pc = "role"
    BY <1>0, <1>7, HandlerCall DEF UpgradeRole, At, Steps
  <2>2. /\ \A u \in Users : roles'[u] = IF u = req[r].user /\ roles[u] # "gone"
                                       THEN "organiser" ELSE roles[u]
        /\ UNCHANGED <<docs, images, made, accepted, departed>>
    BY <1>7 DEF UpgradeRole
  <2>3. Steady
    BY <1>0, <2>2 DEF Steady
  <2>4. StoresSound'
    BY <1>0, <2>2 DEF StoresSound, AcceptedHasImage, ApprovedIsOrganiser
  <2>5. /\ req'[r].pc = "status" /\ req'[r].id = req[r].id /\ req'[r].left = req[r].left
        /\ \A q \in Requests \ {r} : req'[q] = req[q]
    BY <1>7, <2>1, Moved DEF UpgradeRole
  <2>6. ASSUME NEW d \in docs, d.id = req[r].id, d.user \notin departed
        PROVE  roles'[d.user] = "organiser"
    <3>1. req[r].user = d.user
      BY <2>1, <2>6 DEF HandlerSound, OwnerKnown, Steps
    <3>2. roles[d.user] # "gone" /\ d.user \in Users
      BY <1>0, <2>6 DEF StoresSound
    <3> QED
      BY <2>2, <3>1, <3>2
  <2>7. HandlerSound(req[r])'
    BY <2>1, <2>2, <2>5, <2>6 DEF HandlerSound, OwnerKnown, Steps
  <2> QED
    BY <2>3, <2>4, <2>5, <2>7, HandlerStep
<1>8. ASSUME NEW r \in Requests, UpdateStatus(r)
      PROVE  Inductive'
  <2> DEFINE put(d) == [d EXCEPT !.status = IF d.id = req[r].id THEN req[r].status ELSE @]
  <2>1. req[r] \in Call /\ HandlerSound(req[r]) /\ req[r].pc = "status"
    BY <1>0, <1>8, HandlerCall DEF UpdateStatus, At, Steps
  <2>2. /\ docs' = {put(d) : d \in docs}
        /\ UNCHANGED <<images, roles, made, accepted, departed>>
    BY <1>8 DEF UpdateStatus
  <2>3. ASSUME NEW d \in docs
        PROVE  /\ put(d).id = d.id /\ put(d).user = d.user
               /\ put(d).status = IF d.id = req[r].id THEN req[r].status ELSE d.status
    BY DEF TypeOK, Doc
  <2> HIDE DEF put
  <2>4. Steady
    BY <1>0, <2>2, <2>3 DEF Steady
  <2>5. StoresSound'
    <3>1. \A d, e \in docs' : d.id = e.id => d = e
      BY <1>0, <2>2, <2>3 DEF StoresSound
    <3>2. (\A d \in docs' : d.id <= made') /\ AcceptedHasImage'
      BY <1>0, <2>2, <2>3 DEF StoresSound, AcceptedHasImage
    <3>3. ApprovedIsOrganiser'
      <4> SUFFICES ASSUME NEW d \in docs, put(d).status = "approved",
                          put(d).user \notin departed
                   PROVE  roles[put(d).user] = "organiser"
        BY <2>2 DEF ApprovedIsOrganiser
      <4>1. CASE d.id = req[r].id
        BY <2>1, <2>3, <4>1 DEF HandlerSound, OwnerKnown, Steps
      <4>2. CASE d.id # req[r].id
        BY <1>0, <2>3, <4>2 DEF StoresSound, ApprovedIsOrganiser
      <4> QED
        BY <4>1, <4>2
    <3> QED
      BY <1>0, <2>2, <3>1, <3>2, <3>3 DEF StoresSound
  <2>6. PICK f : req' = [req EXCEPT ![r].pc = "reread", ![r].found = f]
    BY <1>8 DEF UpdateStatus
  <2>7. /\ req'[r].pc = "reread" /\ req'[r].id = req[r].id /\ req'[r].left = req[r].left
        /\ \A q \in Requests \ {r} : req'[q] = req[q]
    BY <2>1, <2>6, Moved
  <2>8. HandlerSound(req[r])'
    BY <2>1, <2>2, <2>7 DEF HandlerSound, OwnerKnown, Steps
  <2> QED
    BY <2>4, <2>5, <2>7, <2>8, HandlerStep
<1>9. ASSUME NEW r \in Requests, AnswerUpdate(r) \/ Purge(r) \/ StoreFails(r)
      PROVE  Inductive'
  <2>1. UNCHANGED stores /\ \E a : Answer(r, a)
    BY <1>9 DEF AnswerUpdate, Purge, StoreFails, stores
  <2> QED
    BY <2>1, Answering, QuietStep
<1>10. ASSUME NEW r \in Requests, Remove(r)
       PROVE  Inductive'
  <2>1. req[r] \in Call /\ HandlerSound(req[r]) /\ req[r].pc = "remove"
    BY <1>0, <1>10, HandlerCall DEF Remove, At, Steps
  <2>2. /\ docs' = {d \in docs : d.id # req[r].id}
        /\ UNCHANGED <<images, roles, made, accepted, departed>>
    BY <1>10 DEF Remove
  <2>3. Steady
    BY <1>0, <2>2 DEF Steady
  <2>4. StoresSound'
    BY <1>0, <2>2 DEF StoresSound, AcceptedHasImage, ApprovedIsOrganiser
  <2>5. PICK f : req' = [req EXCEPT ![r].pc = "unput", ![r].found = f]
    BY <1>10 DEF Remove
  <2>6. /\ req'[r].pc = "unput" /\ req'[r].id = req[r].id /\ req'[r].left = req[r].left
        /\ req'[r].op = req[r].op /\ req'[r].user = req[r].user
        /\ \A q \in Requests \ {r} : req'[q] = req[q]
    BY <2>1, <2>5, Moved
  <2>7. HandlerSound(req[r])'
    BY <2>1, <2>2, <2>6 DEF HandlerSound, OwnerKnown, Stored, Steps
  <2> QED
    BY <2>3, <2>4, <2>6, <2>7, HandlerStep
<1>11. ASSUME NEW r \in Requests, DeleteImage(r)
       PROVE  Inductive'
  <2>1. req[r] \in Call /\ HandlerSound(req[r]) /\ req[r].pc = "unput"
    BY <1>0, <1>11, HandlerCall DEF DeleteImage, At, Steps
  <2>2. /\ images' = images \ {req[r].id}
        /\ UNCHANGED <<docs, roles, made, accepted, departed>>
    BY <1>11 DEF DeleteImage
  <2>3. Steady
    BY <1>0, <2>2 DEF Steady
  <2>4. ~Stored(req[r].id)
    BY <2>1 DEF HandlerSound, Steps
  <2>5. StoresSound'
    BY <1>0, <2>2, <2>4 DEF StoresSound, AcceptedHasImage, ApprovedIsOrganiser, Stored
  <2>6. (\A q \in Requests \ {r} : req'[q] = req[q]) /\ HandlerSound(req[r])'
    <3>1. CASE req[r].op = "deleteUser"
      <4>1. /\ req'[r].pc = "next" /\ req'[r].id = req[r].id /\ req'[r].left = req[r].left
            /\ req'[r].op = req[r].op /\ req'[r].user = req[r].user
            /\ \A q \in Requests \ {r} : req'[q] = req[q]
        BY <1>11, <2>1, <3>1, Moved DEF DeleteImage
      <4> QED
        BY <2>1, <2>2, <3>1, <4>1 DEF HandlerSound, OwnerKnown, Steps
    <3>2. CASE req[r].op # "deleteUser"
      BY <1>11, <3>2, Answering DEF DeleteImage
    <3> QED
      BY <3>1, <3>2
  <2> QED
    BY <2>3, <2>5, <2>6, HandlerStep
<1>12. ASSUME NEW r \in Requests, List(r)
       PROVE  Inductive'
  <2>1. req[r] \in Call /\ HandlerSound(req[r]) /\ req[r].pc = "list" /\ UNCHANGED stores
    BY <1>0, <1>12, HandlerCall DEF List, At, Steps, stores
  <2>2. PICK L : /\ L = {d.id : d \in {e \in docs : e.user = req[r].user}}
                 /\ req' = [req EXCEPT ![r].pc = "next", ![r].left = L]
    BY <1>12 DEF List
  <2>3. L \subseteq 1..made
    BY <1>0, <2>2 DEF StoresSound
  <2>4. /\ req'[r].pc = "next" /\ req'[r].id = req[r].id /\ req'[r].left = L
        /\ req'[r].op = req[r].op /\ req'[r].user = req[r].user
        /\ \A q \in Requests \ {r} : req'[q] = req[q]
    BY <2>1, <2>2 DEF TypeOK, Call
  <2>5. HandlerSound(req[r])'
    BY <2>1, <2>3, <2>4 DEF HandlerSound, OwnerKnown, stores, Steps
  <2> QED
    BY <2>1, <2>4, <2>5, QuietStep
<1>13. ASSUME NEW r \in Requests, NextListed(r)
       PROVE  Inductive'
  <2>1. req[r] \in Call /\ HandlerSound(req[r]) /\ req[r].pc = "next" /\ UNCHANGED stores
    BY <1>0, <1>13, HandlerCall DEF NextListed, At, Steps, stores
  <2>2. req[r].id \in 0..made /\ req[r].left \subseteq 1..made /\ req[r].user \in Users
    BY <2>1 DEF HandlerSound, Steps
  <2>3. CASE Goto(r, "account")
    <3>1. /\ req'[r].pc = "account" /\ req'[r].id = req[r].id /\ req'[r].left = req[r].left
          /\ req'[r].user = req[r].user /\ \A q \in Requests \ {r} : req'[q] = req[q]
      BY <2>1, <2>3, Moved
    <3>2. HandlerSound(req[r])'
      BY <2>1, <2>2, <3>1 DEF HandlerSound, OwnerKnown, stores
    <3> QED
      BY <2>1, <3>1, <3>2, QuietStep
  <2>4. ASSUME NEW i \in req[r].left,
               req' = [req EXCEPT ![r].pc = "remove", ![r].id = i, ![r].left = @ \ {i}]
        PROVE  Inductive'
    <3>1. PICK L : /\ L = req[r].left \ {i}
                   /\ req' = [req EXCEPT ![r].pc = "remove", ![r].id = i, ![r].left = L]
      BY <2>4
    <3>2. /\ req'[r].pc = "remove" /\ req'[r].id = i /\ req'[r].left = L
          /\ req'[r].user = req[r].user /\ \A q \in Requests \ {r} : req'[q] = req[q]
      BY <2>1, <3>1 DEF TypeOK, Call
    <3>3. HandlerSound(req[r])'
      <4>1. i \in 0..made /\ L \subseteq 1..made /\ made' = made
        BY <1>0, <2>1, <2>2, <3>1 DEF stores
      <4> QED
        BY <2>2, <3>2, <4>1 DEF HandlerSound, OwnerKnown
    <3> QED
      BY <2>1, <3>2, <3>3, QuietStep
  <2> QED
    BY <1>13, <2>3, <2>4 DEF NextListed
<1>14. ASSUME NEW r \in Requests, DeleteAccount(r)
       PROVE  Inductive'
  <2>1. /\ req[r] \in Call /\ HandlerSound(req[r]) /\ req[r].pc = "account"
        /\ req[r].user \in Users
    BY <1>0, <1>14, HandlerCall DEF DeleteAccount, At, Steps, HandlerSound
  <2>2. PICK u \in Users :
          /\ roles' = [roles EXCEPT ![u] = "gone"]
          /\ departed' = IF roles[u] # "gone" THEN departed \cup {u} ELSE departed
          /\ UNCHANGED <<docs, images, made, accepted>>
    BY <1>14, <2>1 DEF DeleteAccount
  <2>3. u \in departed' /\ departed \subseteq departed'
    BY <1>0, <2>2 DEF StoresSound
  <2>4. \A v \in Users : v \notin departed' => roles'[v] = roles[v]
    BY <2>2, <2>3 DEF TypeOK
  <2>5. Steady
    BY <1>0, <2>2, <2>3, <2>4 DEF Steady
  <2>6. StoresSound'
    BY <1>0, <2>2, <2>3, <2>4 DEF StoresSound, AcceptedHasImage, ApprovedIsOrganiser
  <2>7. PICK f : req' = [req EXCEPT ![r].pc = "purge", ![r].found = f]
    BY <1>14 DEF DeleteAccount
  <2>8. /\ req'[r].pc = "purge" /\ req'[r].id = req[r].id /\ req'[r].left = req[r].left
        /\ \A q \in Requests \ {r} : req'[q] = req[q]
    BY <2>1, <2>7, Moved
  <2>9. HandlerSound(req[r])'
    BY <2>1, <2>2, <2>8 DEF HandlerSound, OwnerKnown, Steps
  <2> QED
    BY <2>5, <2>6, <2>8, <2>9, HandlerStep
<1>15. CASE Crash
  <2>1. UNCHANGED stores
    BY <1>15 DEF Crash, stores
  <2>2. Steady /\ StoresSound'
    BY <1>0, <2>1 DEF Steady, StoresSound, AcceptedHasImage, ApprovedIsOrganiser, stores
  <2>3. ASSUME NEW q \in Requests PROVE HandlerSound(req[q])'
    <3>1. CASE Active(q)
      <4>1. req'[q].pc = "done"
        BY <1>15, <3>1 DEF Crash, Done
      <4> QED
        BY <4>1 DEF HandlerSound, Steps
    <3>2. CASE ~Active(q)
      BY <1>0, <1>15, <2>2, <3>2, Undisturbed DEF Crash
    <3> QED
      BY <3>1, <3>2
  <2> QED
    BY <2>2, <2>3 DEF Inductive
<1>16. ASSUME NEW r \in Requests, Forget(r)
       PROVE  Inductive'
  <2>1. /\ UNCHANGED stores /\ req'[r] = Idle /\ \A q \in Requests \ {r} : req'[q] = req[q]
    BY <1>16 DEF Forget, stores, TypeOK
  <2>2. req'[r].pc = "idle"
    BY <2>1 DEF Idle
  <2>3. HandlerSound(req[r])'
    BY <2>2 DEF HandlerSound, Steps
  <2> QED
    BY <2>1, <2>3, QuietStep
<1>17. ASSUME NEW u \in Users, Signup(u)
       PROVE  Inductive'
  <2>1. /\ roles' = [roles EXCEPT ![u] = "user"] /\ roles[u] = "gone"
        /\ UNCHANGED <<docs, images, made, req, accepted, departed>>
    BY <1>17 DEF Signup
  <2>2. Steady
    BY <1>0, <2>1 DEF Steady, TypeOK
  <2>3. StoresSound'
    BY <1>0, <2>1 DEF StoresSound, AcceptedHasImage, ApprovedIsOrganiser, TypeOK
  <2>4. \A q \in Requests : HandlerSound(req[q])'
    BY <1>0, <2>1, <2>2, Undisturbed
  <2> QED
    BY <2>3, <2>4 DEF Inductive
<1>18. CASE UNCHANGED vars
  <2>1. Steady /\ StoresSound' /\ req' = req
    BY <1>0, <1>18 DEF vars, Steady, StoresSound, AcceptedHasImage, ApprovedIsOrganiser
  <2> QED
    BY <1>0, <2>1, Undisturbed DEF Inductive
<1>19. ASSUME NEW r \in Requests, Handle(r)
       PROVE  Inductive'
  BY <1>2, <1>3, <1>4, <1>5, <1>6, <1>7, <1>8, <1>9, <1>10, <1>11, <1>12, <1>13, <1>14,
     <1>19 DEF Handle
<1>20. ASSUME NEW r \in Requests, NEW u \in Users, Create(r, u) \/ DeleteUser(r, u)
       PROVE  Inductive'
  BY <1>0, <1>1, <1>20 DEF Create, DeleteUser
<1>21. ASSUME NEW r \in Requests, NEW i \in 1..made, NEW status \in States,
              Delete(r, i) \/ Update(r, i, status)
       PROVE  Inductive'
  <2>1. i \in 0..made
    BY <1>0
  <2> QED
    BY <1>1, <1>21, <2>1 DEF Delete, Update
<1> QED
  BY <1>9, <1>15, <1>16, <1>17, <1>18, <1>19, <1>20, <1>21 DEF Next, States

LEMMA InductiveCorrect == Spec => [](TypeOK /\ Inductive)
<1>1. Init => TypeOK /\ Inductive
  BY TypeInit, IndInit
<1>2. TypeOK /\ Inductive /\ [Next]_vars => TypeOK' /\ Inductive'
  BY TypeStep, IndStep
<1> QED
  BY <1>1, <1>2, PTL DEF Spec

\* Type correctness of the documents, the pictures, the roles and the calls.
THEOREM TypeCorrect == Spec => []TypeOK
  BY InductiveCorrect, PTL

\* A stored request that was answered 201 has its picture, for any number of
\* creations and deletions that run beside each other and fail half-way.
THEOREM AcceptedHasImageCorrect == Spec => []AcceptedHasImage
<1>1. Inductive => AcceptedHasImage
  BY DEF Inductive, StoresSound
<1> QED
  BY <1>1, InductiveCorrect, PTL

\* A request that says approved has made its user an organiser, although nothing
\* holds the role and the status together but the order in which they are written.
THEOREM ApprovedIsOrganiserCorrect == Spec => []ApprovedIsOrganiser
<1>1. Inductive => ApprovedIsOrganiser
  BY DEF Inductive, StoresSound
<1> QED
  BY <1>1, InductiveCorrect, PTL
=============================================================================
