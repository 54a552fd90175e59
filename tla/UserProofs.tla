------------------------------ MODULE UserProofs ------------------------------
(***************************************************************************)
(* What holds of users, roles, passwords and sessions for all values of    *)
(* the constants of Application: an Admin remains, tokens and codes are    *)
(* used once, sessions end and go on as they should, and users are what    *)
(* the answers say.                                                        *)
(*                                                                         *)
(* One lemma goes through the actions of Identity: it says which of them   *)
(* write a variable, lead to a place or answer with success.  Each         *)
(* invariant then needs the few actions that can disturb it.               *)
(***************************************************************************)
EXTENDS Application, FiniteSetTheorems, TLAPS

\* A step of the application is a step of the part or leaves its variables alone.
LEMMA UserStep ==
  ASSUME [Next]_vars
  PROVE  Users!Next \/ UNCHANGED userVars
BY DEF Next, vars, userVars

-----------------------------------------------------------------------------
(* The order of requests.                                                  *)

\* The requests that were answered.
Answered == {r \in UserRequest : userReply[r] # 0}

\* Where a request may be between its first and its last step.
Places ==
  [login |-> {"issue"}, refresh |-> {"revoke", "findUser", "issue"},
   deviceRefresh |-> {"revoke", "findUser", "issue"},
   resetPassword |-> {"consume", "setPassword", "revokeAll"},
   changePassword |-> {"setPassword", "revokeAll"},
   create |-> {"insert", "written", "deleteRoles", "insertRoles"},
   update |-> {"count", "write"}, reactivate |-> {"write"},
   setRoles |-> {"count", "deleteRoles", "insertRoles"},
   setPermissions |-> {"deletePermissions", "insertPermissions"}]

\* r is at a place of its operation.
PlaceInv(r) ==
  userPc[r] \in {"unsent", "start", "done"}
    \/ (UserOp[r] \in DOMAIN Places /\ userPc[r] \in Places[UserOp[r]])

\* r was answered after all that it knows to be answered, and is at a place of its operation.
ProgressInv(r) ==
  /\ PlaceInv(r)
  /\ userPc[r] # "done" => userReply[r] = 0
  /\ userPc[r] \notin {"unsent", "start"} => before[r] \subseteq Answered /\ r \notin before[r]

\* The order of all requests.
OrderInv ==
  /\ DOMAIN userPc = UserRequest /\ DOMAIN userReply = UserRequest /\ DOMAIN before = UserRequest
  /\ DOMAIN sent = UserRequest
  /\ \A r \in UserRequest : ProgressInv(r)

\* r alone makes a step: it has begun before or begins now, and may be answered.
Moves(r) ==
  /\ userPc[r] \notin {"unsent", "done"} /\ userPc'[r] \notin {"unsent", "start"}
  /\ userPc'[r] # "done" => userReply'[r] = userReply[r]
  /\ before'[r] = IF userPc[r] = "start" THEN Answered ELSE before[r]
  /\ \A q \in UserRequest \ {r} :
       /\ userPc'[q] = userPc[q] /\ userReply'[q] = userReply[q] /\ before'[q] = before[q]
       /\ sent'[q] = sent[q]
  /\ userPc[r] # "start" => sent'[r] = sent[r]
  /\ DOMAIN userPc' = UserRequest /\ DOMAIN userReply' = UserRequest /\ DOMAIN before' = UserRequest
  /\ DOMAIN sent' = UserRequest

\* Which steps write a variable.
Writes(r) ==
  /\ tokens' # tokens => Users!IssueTokens(r)
  /\ revoked' # revoked => Users!RevokeToken(r) \/ Users!Logout(r) \/ Users!RevokeAllForUser(r)
  /\ consumed' # consumed => Users!ConsumeCode(r)
  /\ users' # users => Users!InsertUser(r)
  /\ active' # active => Users!InsertUser(r) \/ Users!WriteUser(r)
  /\ userRoles' # userRoles => Users!InsertRoles(r)
  /\ roles' # roles => Users!CreateRole(r) \/ Users!DeleteRole(r)
  /\ rolePermissions' # rolePermissions => Users!DeleteRole(r) \/ Users!InsertPermissions(r)
  /\ snapshot' # snapshot => Users!DeleteRoles(r) \/ Users!DeletePermissions(r)
  /\ device' # device => UserOp[r] = "deviceRefresh" /\ userPc'[r] = "done"

\* Which step begins a request.
Starts(r) ==
  userPc[r] = "start" =>
    /\ UserOp[r] \in Users!Refresher => Users!FindToken(r)
    /\ UserOp[r] = "resetPassword" => Users!FindCode(r)
    /\ UserOp[r] = "create" => Users!CreateUser(r)

\* Which steps lead to a place.
Arrives(r) ==
  /\ userPc'[r] = "revoke"            => Users!FindToken(r)
  /\ userPc'[r] = "findUser"          => Users!RevokeToken(r)
  /\ userPc'[r] = "issue"             => Users!Login(r) \/ Users!FindUser(r)
  /\ userPc'[r] = "consume"           => Users!FindCode(r)
  /\ userPc'[r] = "setPassword"       => Users!ConsumeCode(r) \/ Users!ChangePassword(r)
  /\ userPc'[r] = "revokeAll"         => Users!UpdatePasswordHash(r)
  /\ userPc'[r] = "insert"            => Users!CreateUser(r)
  /\ userPc'[r] = "written"           => Users!InsertUser(r)
  /\ userPc'[r] = "count"             => Users!UpdateUser(r) \/ Users!SetUserRoles(r)
  /\ userPc'[r] = "write"             => Users!UpdateUser(r) \/ Users!CountAdmins(r)
  /\ userPc'[r] = "deleteRoles"       => Users!InsertUser(r) \/ Users!SetUserRoles(r) \/ Users!CountAdmins(r)
  /\ userPc'[r] = "insertRoles"       => Users!DeleteRoles(r)
  /\ userPc'[r] = "deletePermissions" => Users!SetRolePermissions(r)
  /\ userPc'[r] = "insertPermissions" => Users!DeletePermissions(r)

\* Which step answers with success.
Succeeds(r) ==
  userPc'[r] = "done" /\ Users!Succeeded(r)' =>
    /\ UserOp[r] \in Users!Refresher => Users!IssueTokens(r)
    /\ UserOp[r] \in {"changePassword", "resetPassword"} => Users!RevokeAllForUser(r)
    /\ UserOp[r] = "update" => Users!WriteUser(r)
    /\ UserOp[r] = "setRoles" => Users!InsertRoles(r)
    /\ UserOp[r] = "create" => Users!InsertRoles(r) \/ Users!CreatedWithoutRoles(r)
    /\ UserOp[r] = "setPermissions" => Users!InsertPermissions(r)

\* No answer to a refusal is a success.
LEMMA RefusalIsTold ==
  ASSUME NEW c \in {"users", "roles"}, NEW op,
         NEW e \in Users!AccessErrors \union {"23505", "23503"}
  PROVE  Users!Answer(c, op, e) \notin {0, 200, 201}
<1>1. \A x \in Users!Service[c] : x.status \in {404, 409}
  BY DEF Users!Service, Users!UsersRules, Users!RolesRules, Users!MapAccessError, Users!Rules
<1>2. Users!Filter(e) \notin {0, 200, 201}
  BY DEF Users!Filter, Users!AccessErrors
<1> QED
  BY <1>1, <1>2 DEF Users!Answer

\* Every step of a request moves it alone, between places of its operation.
LEMMA StepMoves ==
  ASSUME OrderInv, NEW r \in UserRequest, Users!Step(r) \/ Users!Fail(r)
  PROVE  Moves(r) /\ PlaceInv(r)' /\ Writes(r) /\ Starts(r) /\ Arrives(r) /\ Succeeds(r)
<1> USE DEF Moves, PlaceInv, Writes, Starts, Arrives, Succeeds, Users!Succeeded, Users!At, Users!Begins,
    Users!Passes, Users!Refuse,
    Users!Finish, Users!Store, Users!Goto, Users!accessVars, Users!tokenVars, Users!localVars, Places,
    Users!Refresher
<1>0. /\ DOMAIN userPc = UserRequest /\ DOMAIN userReply = UserRequest /\ DOMAIN before = UserRequest
      /\ DOMAIN sent = UserRequest /\ PlaceInv(r) /\ Users!Answered = Answered
  BY DEF OrderInv, ProgressInv, Answered, Users!Answered
<1>told. ASSUME NEW e \in Users!AccessErrors \union {"23505", "23503"}, Users!Told(r, e)
      PROVE  /\ userPc' = [userPc EXCEPT ![r] = "done"] /\ ~Users!Succeeded(r)'
             /\ userReply' = [userReply EXCEPT ![r] = userReply'[r]]
             /\ device' # device => UserOp[r] = "deviceRefresh"
             /\ UNCHANGED <<users, active, password, roles, userRoles, rolePermissions, tokens, revoked,
                            codes, consumed>>
  BY <1>0, <1>told, RefusalIsTold DEF Users!Told
<1>1. CASE Users!Login(r)
  BY <1>0, <1>1 DEF Users!Login
<1>2. CASE Users!FindToken(r)
  BY <1>0, <1>2 DEF Users!FindToken
<1>3. CASE Users!RevokeToken(r)
  BY <1>0, <1>3 DEF Users!RevokeToken
<1>4. CASE Users!FindUser(r)
  BY <1>0, <1>4 DEF Users!FindUser
<1>5. CASE Users!IssueTokens(r)
  BY <1>0, <1>5 DEF Users!IssueTokens
<1>6. CASE Users!Logout(r)
  BY <1>0, <1>6 DEF Users!Logout
<1>7. CASE Users!ForgotPassword(r)
  BY <1>0, <1>7 DEF Users!ForgotPassword
<1>8. CASE Users!FindCode(r)
  BY <1>0, <1>8 DEF Users!FindCode
<1>9. CASE Users!ConsumeCode(r)
  BY <1>0, <1>9 DEF Users!ConsumeCode
<1>10. CASE Users!ChangePassword(r)
  BY <1>0, <1>10 DEF Users!ChangePassword
<1>11. CASE Users!UpdatePasswordHash(r)
  BY <1>0, <1>11 DEF Users!UpdatePasswordHash
<1>12. CASE Users!RevokeAllForUser(r)
  BY <1>0, <1>12 DEF Users!RevokeAllForUser
<1>13. CASE Users!CreateUser(r)
  BY <1>0, <1>told, <1>13 DEF Users!CreateUser, Users!AccessErrors
<1>14. CASE Users!InsertUser(r)
  BY <1>0, <1>told, <1>14 DEF Users!InsertUser, Users!AccessErrors
<1>15. CASE Users!UpdateUser(r)
  BY <1>0, <1>told, <1>15 DEF Users!UpdateUser, Users!AccessErrors
<1>16. CASE Users!SetUserRoles(r)
  BY <1>0, <1>told, <1>16 DEF Users!SetUserRoles, Users!AccessErrors
<1>17. CASE Users!CountAdmins(r)
  BY <1>0, <1>told, <1>17 DEF Users!CountAdmins, Users!AccessErrors
<1>18. CASE Users!WriteUser(r)
  BY <1>0, <1>18 DEF Users!WriteUser
<1>19. CASE Users!DeleteRoles(r)
  BY <1>0, <1>19 DEF Users!DeleteRoles
<1>20. CASE Users!InsertRoles(r)
  BY <1>0, <1>told, <1>20 DEF Users!InsertRoles, Users!AccessErrors
<1>21. CASE Users!CreatedWithoutRoles(r)
  BY <1>0, <1>21 DEF Users!CreatedWithoutRoles
<1>22. CASE Users!ResetUserPassword(r)
  BY <1>0, <1>22 DEF Users!ResetUserPassword
<1>23. CASE Users!CreateRole(r)
  BY <1>0, <1>told, <1>23 DEF Users!CreateRole, Users!AccessErrors
<1>24. CASE Users!UpdateRole(r)
  BY <1>0, <1>24, RefusalIsTold DEF Users!UpdateRole, Users!Told, Users!AccessErrors
<1>25. CASE Users!SetRolePermissions(r)
  BY <1>0, <1>told, <1>25 DEF Users!SetRolePermissions, Users!AccessErrors
<1>26. CASE Users!DeletePermissions(r)
  BY <1>0, <1>26 DEF Users!DeletePermissions
<1>27. CASE Users!InsertPermissions(r)
  BY <1>0, <1>told, <1>27 DEF Users!InsertPermissions, Users!AccessErrors
<1>28. CASE Users!DeleteRole(r)
  BY <1>0, <1>told, <1>28 DEF Users!DeleteRole, Users!AccessErrors
<1>29. CASE Users!Fail(r)
  BY <1>0, <1>29 DEF Users!Fail
<1> QED
  BY <1>1, <1>2, <1>3, <1>4, <1>5, <1>6, <1>7, <1>8, <1>9, <1>10, <1>11, <1>12, <1>13, <1>14, <1>15,
    <1>16, <1>17, <1>18, <1>19, <1>20, <1>21, <1>22, <1>23, <1>24, <1>25, <1>26, <1>27, <1>28, <1>29 DEF Users!Step

\* What the move of r leaves alone: who was answered stays so, with the same answer.
LEMMA AnswersStay ==
  ASSUME OrderInv, NEW r \in UserRequest, Moves(r)
  PROVE  /\ r \notin Answered /\ Answered \subseteq Answered' /\ Answered' \subseteq Answered \union {r}
         /\ \A q \in Answered : userReply'[q] = userReply[q] /\ before'[q] = before[q] /\ sent'[q] = sent[q]
                                /\ userPc[q] = "done" /\ before[q] \subseteq Answered
         /\ \A q \in UserRequest : before'[q] # before[q] => q = r /\ before'[q] = Answered
<1>1. r \notin Answered
  BY DEF OrderInv, ProgressInv, Moves, Answered
<1> QED
  BY <1>1 DEF OrderInv, ProgressInv, Moves, Answered

\* Every step of a request keeps the invariant.
LEMMA OrderStep ==
  ASSUME OrderInv, NEW r \in UserRequest, Moves(r), PlaceInv(r)'
  PROVE  OrderInv'
<1>1. r \notin Answered /\ Answered \subseteq Answered'
  BY AnswersStay
<1>2. ProgressInv(r)'
  BY <1>1 DEF OrderInv, ProgressInv, Moves
<1>3. ASSUME NEW q \in UserRequest, q # r  PROVE ProgressInv(q)'
  <2>1. PlaceInv(q)'
    BY <1>3 DEF OrderInv, ProgressInv, Moves, PlaceInv
  <2> QED
    BY <1>1, <1>3, <2>1 DEF OrderInv, ProgressInv, Moves
<1> QED
  BY <1>2, <1>3 DEF OrderInv, Moves

\* The order of requests, at the beginning and after each step.
LEMMA OrderInvariant == Spec => []OrderInv
<1>1. Init => OrderInv
  <2> SUFFICES ASSUME Init  PROVE OrderInv
    OBVIOUS
  <2>1. PICK w : Users!Begin(w)
    BY DEF Init, Users!Init
  <2>2. /\ userPc = [r \in UserRequest |-> IF r \in w THEN "start" ELSE "unsent"]
        /\ userReply = [r \in UserRequest |-> 0] /\ DOMAIN before = UserRequest /\ DOMAIN sent = UserRequest
    BY <2>1 DEF Users!Begin
  <2> QED
    BY <2>2 DEF OrderInv, ProgressInv, PlaceInv
<1>2. ASSUME OrderInv, [Next]_vars  PROVE OrderInv'
  <2>1. CASE UNCHANGED userVars
    BY <1>2, <2>1 DEF OrderInv, ProgressInv, PlaceInv, Answered, userVars
  <2>2. CASE Users!Next
    <3>1. PICK r \in UserRequest : Users!Step(r) \/ Users!Fail(r)
      BY <2>2 DEF Users!Next
    <3> QED
      BY <1>2, <3>1, StepMoves, OrderStep
  <2> QED
    BY <1>2, <2>1, <2>2, UserStep
<1> QED
  BY <1>1, <1>2, PTL DEF Spec

\* A success stays, and only the request that moves adds one, with its last step.
LEMMA DoneStep ==
  ASSUME OrderInv, NEW r \in UserRequest, Moves(r), NEW CONSTANT ops
  PROVE  /\ \A q \in Users!Done(ops) : q \in Users!Done(ops)' /\ q # r /\ q \in Answered
         /\ \A q \in Users!Done(ops)' :
              q \in Users!Done(ops) \/ (q = r /\ userPc'[r] = "done" /\ Users!Succeeded(r)')
<1>1. r \notin Answered /\ userReply[r] = 0
  BY AnswersStay DEF Answered
<1>2. \A q \in Users!Done(ops) : q \in UserRequest /\ q \in Answered /\ q # r
  BY <1>1 DEF Users!Done, Users!Succeeded, Answered
<1> QED
  BY <1>1, <1>2 DEF Users!Done, Users!Succeeded, Moves

\* Requests that overlap have always overlapped.
LEMMA OverlapStays ==
  ASSUME OrderInv, NEW r \in UserRequest, Moves(r), NEW p, NEW q, Users!Overlap(p, q)
  PROVE  Users!Overlap(p, q)'
BY DEF OrderInv, Users!Overlap, Users!Begun, Moves

\* A request overlaps with those that are under way when it moves.
LEMMA OverlapBegins ==
  ASSUME OrderInv, NEW r \in UserRequest, Moves(r), NEW q \in UserRequest, q # r,
         userPc[q] \notin {"unsent", "start"}, q \notin Answered
  PROVE  Users!Overlap(r, q)' /\ Users!Overlap(q, r)'
<1>1. r \notin before'[q]
  BY AnswersStay DEF OrderInv, ProgressInv, Moves
<1>2. q \notin before'[r]
  BY DEF OrderInv, ProgressInv, Moves
<1>3. {r, q} \subseteq Users!Begun'
  BY DEF Users!Begun, Moves
<1> QED
  BY <1>1, <1>2, <1>3 DEF Users!Overlap

-----------------------------------------------------------------------------
(* The rows of users.                                                      *)

\* A request that changes a user has found or stored the row; who has no row has no roles.
RowsInv ==
  /\ active \subseteq users /\ users \subseteq User
  /\ userRoles = [u \in User |-> userRoles[u]]
  /\ \A u \in User \ users : userRoles[u] = {}
  /\ \A r \in UserRequest :
       userPc[r] \in {"count", "write", "written", "deleteRoles", "insertRoles"} => UserOn[r] \in users

\* The row is there, at the beginning and after each step.
LEMMA RowsInvariant == Spec => []RowsInv
<1>1. Init => RowsInv
  <2> SUFFICES ASSUME Init  PROVE RowsInv
    OBVIOUS
  <2>1. PICK w : Users!Begin(w)
    BY DEF Init, Users!Init
  <2> QED
    BY <2>1, ApplicationAssumption DEF Users!Begin, RowsInv, Users!IdentityAssumption
<1>2. ASSUME OrderInv, RowsInv, [Next]_vars  PROVE RowsInv'
  <2>1. CASE UNCHANGED userVars
    BY <1>2, <2>1 DEF RowsInv, userVars
  <2>2. CASE Users!Next
    <3>1. PICK r \in UserRequest : Users!Step(r) \/ Users!Fail(r)
      BY <2>2 DEF Users!Next
    <3>2. Moves(r) /\ Writes(r) /\ Arrives(r) /\ UserOn[r] \in User
      BY <1>2, <3>1, StepMoves, ApplicationAssumption DEF Users!IdentityAssumption
    <3>3. users \subseteq users' /\ users' \subseteq users \union {UserOn[r]}
      BY <3>2 DEF Writes, Users!InsertUser, Users!Told, Users!Refuse, Users!accessVars
    <3>4. active' \subseteq users'
      <4>1. CASE Users!InsertUser(r)
        BY <1>2, <4>1 DEF RowsInv, Users!InsertUser, Users!Told, Users!Refuse, Users!accessVars
      <4>2. CASE Users!WriteUser(r)
        BY <1>2, <3>3, <4>2 DEF RowsInv, Users!WriteUser, Users!At
      <4> QED
        BY <1>2, <3>2, <3>3, <4>1, <4>2 DEF Writes, RowsInv
    <3>5. CASE userRoles' = userRoles
      <4>1. UserOn[r] \in users' \/ userPc'[r] \notin {"count", "write", "written", "deleteRoles", "insertRoles"}
        <5>1. CASE userPc[r] \in {"count", "write", "written", "deleteRoles", "insertRoles"}
          BY <1>2, <3>3, <5>1 DEF RowsInv
        <5>2. CASE Users!UpdateUser(r) \/ Users!SetUserRoles(r)
          BY <1>2, <3>3, <5>2 DEF Users!UpdateUser, Users!SetUserRoles, Users!Told, Users!Refuse,
            Users!Finish,
            OrderInv
        <5>3. CASE Users!InsertUser(r)
          BY <1>2, <3>3, <5>3 DEF Users!InsertUser, Users!Told, Users!Refuse, Users!Finish, OrderInv
        <5>4. CASE Users!CountAdmins(r) \/ Users!DeleteRoles(r)
          BY <5>1, <5>4 DEF Users!CountAdmins, Users!DeleteRoles
        <5> QED
          BY <3>2, <5>1, <5>2, <5>3, <5>4 DEF Arrives
      <4>2. ASSUME NEW q \in UserRequest, q # r,
                   userPc'[q] \in {"count", "write", "written", "deleteRoles", "insertRoles"}
            PROVE  UserOn[q] \in users'
        BY <1>2, <3>2, <3>3, <4>2 DEF RowsInv, Moves
      <4> QED
        BY <1>2, <3>2, <3>3, <3>4, <3>5, <4>1, <4>2 DEF RowsInv
    <3>6. CASE Users!InsertRoles(r)
      <4>1. UserOn[r] \in users /\ userPc[r] = "insertRoles" /\ users' = users
        BY <1>2, <3>6 DEF RowsInv, Users!InsertRoles, Users!Told, Users!Refuse, Users!accessVars
      <4>2. /\ userRoles' = [u \in User |-> userRoles'[u]]
            /\ \A u \in User \ {UserOn[r]} : userRoles'[u] = userRoles[u]
        BY <1>2, <3>6 DEF RowsInv, Users!InsertRoles, Users!Told, Users!Refuse, Users!accessVars
      <4>3. ASSUME NEW q \in UserRequest,
                   userPc'[q] \in {"count", "write", "written", "deleteRoles", "insertRoles"}
            PROVE  UserOn[q] \in users'
        BY <1>2, <3>2, <4>1, <4>3 DEF RowsInv, Moves
      <4> QED
        BY <1>2, <3>4, <4>1, <4>2, <4>3 DEF RowsInv
    <3> QED
      BY <3>2, <3>5, <3>6 DEF Writes
  <2> QED
    BY <1>2, <2>1, <2>2, UserStep
<1> QED
  BY <1>1, <1>2, OrderInvariant, PTL DEF Spec

-----------------------------------------------------------------------------
(* An Admin remains.                                                       *)

\* The operations that may take an Admin away.
Removing == {"update", "setRoles", "create"}

\* Two requests that overlapped have both changed an admin.
TwoMet     == \E p, q \in Users!Done(Removing) : Users!Overlap(p, q)
HasMet(r)  == \E q \in Users!Done(Removing) : Users!Overlap(r, q)

\* r has passed its checks and is about to take a user the access or the role of an Admin.
MayRemove(r) ==
  /\ userPc[r] \in {"insert", "write", "deleteRoles", "insertRoles"} /\ UserOp[r] \in Removing
  /\ ~(UserOp[r] = "setRoles" /\ "Admin" \in NewRoles[r])

\* An Admin besides the user of r is active.
AnotherAdmin(r) == \E u \in Users!ActiveAdmins : u # UserOn[r]

(***************************************************************************)
(* A request that may take an Admin away leaves another one, unless one    *)
(* that overlaps with it has taken that one.                               *)
(***************************************************************************)
AdminInv ==
  /\ TwoMet \/ Users!ActiveAdmins # {}
  /\ \A r \in UserRequest : MayRemove(r) => TwoMet \/ HasMet(r) \/ AnotherAdmin(r)

\* An Admin is lost by the last step of a request that may remove its user, and of no other.
LEMMA AdminLoss ==
  ASSUME OrderInv, RowsInv, AdminInv, NEW r \in UserRequest, Users!Step(r) \/ Users!Fail(r),
         NEW u \in Users!ActiveAdmins, u \notin Users!ActiveAdmins'
  PROVE  u = UserOn[r] /\ r \in Users!Done(Removing)' /\ MayRemove(r)
<1> USE DEF Users!ActiveAdmins, Users!IsAdmin
<1>0. DOMAIN userReply = UserRequest /\ DOMAIN userRoles = User
      /\ UserOn[r] \in User /\ UserOn \in [UserRequest -> User] /\ PlaceInv(r)
  BY ApplicationAssumption DEF OrderInv, ProgressInv, RowsInv, Users!IdentityAssumption
<1>1. CASE Users!InsertUser(r)
  BY <1>1, StepMoves DEF Users!InsertUser, Users!Told, Users!Refuse, Users!accessVars
<1>2. CASE Users!WriteUser(r)
  BY <1>0, <1>2 DEF Users!WriteUser, Users!At, Users!Finish, Users!Done, Users!Succeeded, MayRemove, Removing
<1>3. CASE Users!InsertRoles(r)
  <2>1. /\ userPc[r] = "insertRoles" /\ UserOp[r] \in {"create", "setRoles"}
    BY <1>0, <1>3 DEF Users!InsertRoles, PlaceInv, Places
  <2>2. /\ active' = active /\ userRoles' # userRoles
    BY <1>3 DEF Users!InsertRoles, Users!Told, Users!Refuse, Users!accessVars
  <2>3. /\ userRoles' = [userRoles EXCEPT ![UserOn[r]] = (userRoles[UserOn[r]] \ snapshot[r]) \union NewRoles[r]]
        /\ userReply' = [userReply EXCEPT ![r] = IF UserOp[r] = "create" THEN 201 ELSE 200]
    BY <1>3, <2>2 DEF Users!InsertRoles, Users!Told, Users!Refuse, Users!Finish, Users!accessVars
  <2>4. u = UserOn[r] /\ "Admin" \notin NewRoles[r]
    BY <1>0, <2>2, <2>3
  <2> QED
    BY <1>0, <2>1, <2>3, <2>4 DEF Users!Done, Users!Succeeded, MayRemove, Removing
<1>4. CASE active' = active /\ userRoles' = userRoles
  BY <1>4
<1> QED
  BY <1>1, <1>2, <1>3, <1>4, StepMoves DEF Writes

\* The operator that Identity takes from FiniteSets is the one the theorems of this module are about.
LEMMA OneElement == ASSUME NEW S, NEW a, S = {a}  PROVE Users!Cardinality(S) <= 1
<1>1. Users!Cardinality(S) = Cardinality(S)
  BY DEF Users!Cardinality, Cardinality
<1> QED
  BY <1>1, FS_Singleton

\* A request that passes its checks leaves an Admin besides the user it is about.
LEMMA ChecksLeaveAnAdmin ==
  ASSUME OrderInv, RowsInv, AdminInv, NEW r \in UserRequest, Users!Step(r) \/ Users!Fail(r),
         ~MayRemove(r), MayRemove(r)', Users!ActiveAdmins # {}
  PROVE  \E u \in Users!ActiveAdmins : u # UserOn[r]
<1> USE DEF Users!ActiveAdmins, Users!IsAdmin
<1>1. PICK a : a \in Users!ActiveAdmins
  OBVIOUS
<1>2. CASE Users!CreateUser(r)
  <2>1. UserOn[r] \notin users
    BY <1>2, StepMoves DEF Users!CreateUser, Users!Told, Users!Refuse, Users!Finish, MayRemove, OrderInv
  <2> QED
    BY <1>1, <2>1 DEF RowsInv
<1>3. CASE Users!UpdateUser(r)
  <2>1. ~Users!IsAdmin(UserOn[r])
    BY <1>3, StepMoves DEF Users!UpdateUser, Users!Told, Users!Refuse, Users!Finish, Users!Passes,
      Users!Goto, MayRemove,
      OrderInv, Removing, Users!At
  <2> QED
    BY <1>1, <2>1
<1>4. CASE Users!SetUserRoles(r)
  <2>1. ~Users!IsAdmin(UserOn[r])
    BY <1>4, StepMoves DEF Users!SetUserRoles, Users!Told, Users!Refuse, Users!Finish, Users!Passes,
      Users!Goto, MayRemove,
      OrderInv, Users!At
  <2> QED
    BY <1>1, <2>1
<1>5. CASE Users!CountAdmins(r)
  <2>1. ~(Users!Cardinality(Users!ActiveAdmins) <= 1)
    BY <1>5, StepMoves DEF Users!CountAdmins, Users!LastAdmin, Users!Told, Users!Refuse, Users!Finish,
      MayRemove, OrderInv
  <2>3. Users!ActiveAdmins # {a}
    BY <2>1, OneElement
  <2> QED
    BY <1>1, <2>3
<1>6. CASE Users!InsertUser(r) \/ Users!DeleteRoles(r)
  BY <1>6 DEF Users!InsertUser, Users!DeleteRoles, Users!At, MayRemove, Removing
<1> QED
  BY <1>2, <1>3, <1>4, <1>5, <1>6, StepMoves DEF Arrives, MayRemove

\* Whoever is Admin besides the user of r, or was taken away by a request that overlaps with r.
LEMMA AnotherStays ==
  ASSUME OrderInv, RowsInv, AdminInv, NEW r \in UserRequest, Users!Step(r) \/ Users!Fail(r),
         NEW q \in UserRequest, q # r, MayRemove(q), AnotherAdmin(q)
  PROVE  AnotherAdmin(q)' \/ HasMet(q)'
<1>1. PICK u \in Users!ActiveAdmins : u # UserOn[q]
  BY DEF AnotherAdmin
<1>2. CASE u \in Users!ActiveAdmins'
  BY <1>1, <1>2 DEF AnotherAdmin
<1>3. CASE u \notin Users!ActiveAdmins'
  <2>1. r \in Users!Done(Removing)'
    BY <1>3, AdminLoss
  <2>2. userPc[q] \notin {"unsent", "start"} /\ q \notin Answered
    BY DEF OrderInv, ProgressInv, MayRemove, Answered
  <2>3. Moves(r)
    BY StepMoves
  <2>4. Users!Overlap(q, r)'
    BY <2>2, <2>3, OverlapBegins
  <2> QED
    BY <2>1, <2>4 DEF HasMet
<1> QED
  BY <1>2, <1>3

\* Every step of a request keeps an Admin.
LEMMA AdminStep ==
  ASSUME OrderInv, RowsInv, AdminInv, NEW r \in UserRequest, Users!Step(r) \/ Users!Fail(r)
  PROVE  AdminInv'
<1>1. Moves(r) /\ Writes(r)
  BY StepMoves
<1>2. /\ TwoMet => TwoMet'
      /\ \A q \in UserRequest : HasMet(q) => HasMet(q)'
  BY <1>1, DoneStep, OverlapStays DEF TwoMet, HasMet
<1>4. TwoMet' \/ Users!ActiveAdmins' # {}
  <2>1. PICK u : TwoMet \/ u \in Users!ActiveAdmins
    BY DEF AdminInv
  <2>2. CASE TwoMet \/ u \in Users!ActiveAdmins'
    BY <1>2, <2>2
  <2>3. CASE ~TwoMet /\ u \notin Users!ActiveAdmins'
    <3>1. u = UserOn[r] /\ r \in Users!Done(Removing)' /\ MayRemove(r)
      BY <2>1, <2>3, AdminLoss
    <3>2. CASE AnotherAdmin(r)
      <4>1. PICK a \in Users!ActiveAdmins : a # UserOn[r]
        BY <3>2 DEF AnotherAdmin
      <4> QED
        BY <4>1, AdminLoss
    <3>3. CASE HasMet(r)
      <4>1. PICK q \in Users!Done(Removing) : Users!Overlap(r, q)
        BY <3>3 DEF HasMet
      <4>2. q \in Users!Done(Removing)' /\ Users!Overlap(r, q)'
        BY <1>1, <4>1, DoneStep, OverlapStays
      <4> QED
        BY <3>1, <4>2 DEF TwoMet
    <3> QED
      BY <2>3, <3>1, <3>2, <3>3 DEF AdminInv
  <2> QED
    BY <2>1, <2>2, <2>3
<1>5. ASSUME NEW q \in UserRequest, MayRemove(q)'  PROVE TwoMet' \/ HasMet(q)' \/ AnotherAdmin(q)'
  <2>1. CASE q # r
    <3>1. MayRemove(q)
      BY <1>1, <1>5, <2>1 DEF Moves, MayRemove
    <3> QED
      BY <1>2, <2>1, <3>1, AnotherStays DEF AdminInv
  <2>2. CASE q = r
    <3>1. r \notin Users!Done(Removing)'
      BY <1>1, <1>5, <2>2, DoneStep DEF MayRemove
    <3>2. Users!ActiveAdmins \subseteq Users!ActiveAdmins'
      BY <3>1, AdminLoss
    <3>3. TwoMet \/ HasMet(r) \/ AnotherAdmin(r)
      <4>1. CASE MayRemove(r)
        BY <4>1 DEF AdminInv
      <4>2. CASE ~MayRemove(r) /\ ~TwoMet
        BY <1>5, <2>2, <4>2, ChecksLeaveAnAdmin DEF AdminInv, AnotherAdmin
      <4> QED
        BY <4>1, <4>2
    <3> QED
      BY <1>2, <2>2, <3>2, <3>3 DEF AnotherAdmin
  <2> QED
    BY <2>1, <2>2
<1> QED
  BY <1>4, <1>5 DEF AdminInv

(***************************************************************************)
(* Whatever the staff do to each other, an active Admin remains, unless    *)
(* two requests overlap that have each taken one away, for any number of   *)
(* users, roles and requests (access.service.ts assertNotLastAdmin).       *)
(***************************************************************************)
THEOREM OneAdminRemains == Spec => []AnAdminRemains
<1>1. Init => AdminInv
  <2> SUFFICES ASSUME Init  PROVE AdminInv
    OBVIOUS
  <2>1. PICK w : Users!Begin(w)
    BY DEF Init, Users!Init
  <2>2. PICK u \in Staff : "Admin" \in InitialRoles[u]
    BY ApplicationAssumption DEF Users!IdentityAssumption
  <2>3. u \in Users!ActiveAdmins
    BY <2>1, <2>2, ApplicationAssumption DEF Users!IdentityAssumption, Users!Begin, Users!ActiveAdmins,
      Users!IsAdmin
  <2>4. \A r \in UserRequest : ~MayRemove(r)
    BY <2>1 DEF Users!Begin, MayRemove
  <2> QED
    BY <2>3, <2>4 DEF AdminInv
<1>2. ASSUME OrderInv, RowsInv, AdminInv, [Next]_vars  PROVE AdminInv'
  <2>1. CASE UNCHANGED userVars
    <3>1. /\ TwoMet' = TwoMet /\ Users!ActiveAdmins' = Users!ActiveAdmins
          /\ \A r \in UserRequest : MayRemove(r)' = MayRemove(r) /\ HasMet(r)' = HasMet(r)
      BY <2>1 DEF userVars, TwoMet, HasMet, MayRemove, Users!Done, Users!Succeeded, Users!Overlap,
        Users!Begun,
        Users!ActiveAdmins, Users!IsAdmin
    <3> QED
      BY <1>2, <3>1 DEF AdminInv, AnotherAdmin
  <2>2. CASE Users!Next
    BY <1>2, <2>2, AdminStep DEF Users!Next
  <2> QED
    BY <1>2, <2>1, <2>2, UserStep
<1>3. AdminInv => AnAdminRemains
  BY DEF AdminInv, AnAdminRemains, Users!AnAdminRemains, TwoMet, Removing
<1> QED
  BY <1>1, <1>2, <1>3, OrderInvariant, RowsInvariant, PTL DEF Spec

-----------------------------------------------------------------------------
(* A token or a code is used once.                                         *)

\* The operations that use a token or a code up.
Using == {"refresh", "deviceRefresh", "resetPassword"}

\* What r presents is used up once it has passed its check.
SpentInv(r) ==
  /\ UserOp[r] \in Users!Refresher /\ (userPc[r] \in {"findUser", "issue"} \/ Users!Succeeded(r)) =>
       sent[r] \in revoked
  /\ UserOp[r] = "resetPassword" /\ (userPc[r] \in {"setPassword", "revokeAll"} \/ Users!Succeeded(r)) =>
       Credential[r] \in consumed

\* r has found that no request answered before it had used what it presents.
FreshInv(r) ==
  userPc[r] \notin {"unsent", "start"} /\ (userPc[r] = "done" => Users!Succeeded(r)) =>
    \A q \in Users!Done(Using) \intersect before[r] :
      /\ {UserOp[r], UserOp[q]} \subseteq Users!Refresher => sent[q] # sent[r]
      /\ {UserOp[r], UserOp[q]} \subseteq {"resetPassword"} => Credential[q] # Credential[r]

\* Tokens and codes of all requests.
UsedInv == \A r \in UserRequest : SpentInv(r) /\ FreshInv(r)

\* Every step of a request keeps the invariant.
LEMMA UsedStep ==
  ASSUME OrderInv, UsedInv, NEW r \in UserRequest, Users!Step(r) \/ Users!Fail(r)
  PROVE  UsedInv'
<1>1. Moves(r) /\ Writes(r) /\ Starts(r) /\ Arrives(r) /\ Succeeds(r) /\ PlaceInv(r) /\ userReply[r] = 0
  BY StepMoves DEF OrderInv, ProgressInv, Moves
<1>2. revoked \subseteq revoked'
  BY <1>1 DEF Writes, Users!RevokeToken, Users!Logout, Users!RevokeAllForUser
<1>3. consumed \subseteq consumed'
  BY <1>1 DEF Writes, Users!ConsumeCode
<1>4. ASSUME NEW q \in UserRequest, q # r  PROVE SpentInv(q)'
  BY <1>1, <1>2, <1>3, <1>4 DEF UsedInv, SpentInv, Moves, Users!Succeeded
<1>5. SpentInv(r)'
  <2>1. ASSUME UserOp[r] \in Users!Refresher,
               userPc'[r] \in {"findUser", "issue"} \/ (userPc'[r] = "done" /\ Users!Succeeded(r)')
        PROVE  sent'[r] \in revoked'
    <3>1. CASE Users!RevokeToken(r)
      BY <3>1 DEF Users!RevokeToken, Users!localVars
    <3>2. CASE Users!FindUser(r) \/ Users!IssueTokens(r)
      BY <1>1, <1>2, <2>1, <3>2 DEF Users!FindUser, Users!IssueTokens, Users!At, UsedInv, SpentInv, Moves
    <3>3. ~Users!Login(r)
      BY <2>1 DEF Users!Login, Users!At, Users!Refresher
    <3> QED
      BY <1>1, <2>1, <3>1, <3>2, <3>3 DEF Arrives, Succeeds
  <2>2. ASSUME UserOp[r] = "resetPassword",
               userPc'[r] \in {"setPassword", "revokeAll"} \/ (userPc'[r] = "done" /\ Users!Succeeded(r)')
        PROVE  Credential[r] \in consumed'
    <3>1. CASE Users!ConsumeCode(r)
      BY <3>1 DEF Users!ConsumeCode
    <3>2. CASE Users!UpdatePasswordHash(r) \/ Users!RevokeAllForUser(r)
      BY <1>3, <2>2, <3>2 DEF Users!UpdatePasswordHash, Users!RevokeAllForUser, UsedInv, SpentInv
    <3>3. ~Users!ChangePassword(r)
      BY <2>2 DEF Users!ChangePassword, Users!At
    <3> QED
      BY <1>1, <2>2, <3>1, <3>2, <3>3 DEF Arrives, Succeeds
  <2>3. Users!Succeeded(r)' => userPc'[r] = "done"
    BY <1>1 DEF Moves, Users!Succeeded
  <2> QED
    BY <2>1, <2>2, <2>3 DEF SpentInv
<1>6. /\ \A q \in Answered : sent'[q] = sent[q]
      /\ \A q \in UserRequest : userPc[q] \notin {"unsent", "start"} => before[q] \subseteq Answered
  BY <1>1, AnswersStay DEF OrderInv, ProgressInv
<1>7. \A q \in Users!Done(Using)' : q \in Answered => q \in Users!Done(Using)
  BY <1>1, AnswersStay, DoneStep
<1>8. ASSUME NEW q \in UserRequest, q # r  PROVE FreshInv(q)'
  BY <1>1, <1>6, <1>7, <1>8 DEF UsedInv, FreshInv, Moves, Users!Succeeded
<1>9. FreshInv(r)'
  <2>1. CASE userPc[r] # "start"
    BY <1>1, <1>6, <1>7, <2>1 DEF UsedInv, FreshInv, Moves
  <2>2. CASE Users!FindToken(r)
    <3>1. UserOp[r] \in Users!Refresher /\ UserOp[r] # "resetPassword"
      BY <2>2 DEF Users!FindToken, Users!At, Users!Refresher
    <3>2. sent'[r] = Users!Presented(r)
      BY <2>2 DEF Users!FindToken, OrderInv
    <3>3. Users!Presented(r) \in revoked => userPc'[r] = "done" /\ ~Users!Succeeded(r)'
      BY <2>2 DEF Users!FindToken, Users!Refuse, Users!Finish, Users!Succeeded, OrderInv
    <3>4. \A q \in Users!Done(Using) : UserOp[q] \in Users!Refresher => sent[q] \in revoked
      BY DEF UsedInv, SpentInv, Users!Done
    <3> QED
      BY <1>1, <1>6, <1>7, <3>1, <3>2, <3>3, <3>4 DEF FreshInv, Moves
  <2>3. CASE Users!FindCode(r)
    <3>1. UserOp[r] = "resetPassword" /\ UserOp[r] \notin Users!Refresher
      BY <2>3 DEF Users!FindCode, Users!At, Users!Refresher
    <3>2. Credential[r] \in consumed => userPc'[r] = "done" /\ ~Users!Succeeded(r)'
      BY <2>3 DEF Users!FindCode, Users!IsLatestCode, Users!Refuse, Users!Finish, Users!Succeeded, OrderInv
    <3>3. \A q \in Users!Done(Using) : UserOp[q] = "resetPassword" => Credential[q] \in consumed
      BY DEF UsedInv, SpentInv, Users!Done
    <3> QED
      BY <1>1, <1>6, <1>7, <3>1, <3>2, <3>3 DEF FreshInv, Moves
  <2>4. CASE UserOp[r] \notin Using
    BY <2>4 DEF FreshInv, Using, Users!Refresher
  <2> QED
    BY <1>1, <2>1, <2>2, <2>3, <2>4 DEF Starts, Using, Users!Refresher
<1> QED
  BY <1>4, <1>5, <1>8, <1>9 DEF UsedInv

(***************************************************************************)
(* A refresh token or a one-time code gets nothing for a request that      *)
(* begins when another one has been answered with a session or a password  *)
(* for it, for any number of users and requests (auth.service.ts refresh,  *)
(* resetPassword).                                                         *)
(***************************************************************************)
THEOREM TokensAndCodesAreUsedOnce == Spec => []NothingIsUsedTwice
<1>1. Init => UsedInv
  <2> SUFFICES ASSUME Init  PROVE UsedInv
    OBVIOUS
  <2>1. PICK w : Users!Begin(w)
    BY DEF Init, Users!Init
  <2>2. \A r \in UserRequest : userPc[r] \in {"unsent", "start"} /\ userReply[r] = 0
    BY <2>1 DEF Users!Begin
  <2> QED
    BY <2>2 DEF UsedInv, SpentInv, FreshInv, Users!Succeeded
<1>2. ASSUME OrderInv, UsedInv, [Next]_vars  PROVE UsedInv'
  <2>1. CASE UNCHANGED userVars
    <3>1. Users!Done(Using)' = Users!Done(Using) /\ \A r : Users!Succeeded(r)' = Users!Succeeded(r)
      BY <2>1 DEF userVars, Users!Done, Users!Succeeded
    <3> QED
      BY <1>2, <2>1, <3>1 DEF UsedInv, SpentInv, FreshInv, userVars
  <2>2. CASE Users!Next
    BY <1>2, <2>2, UsedStep DEF Users!Next
  <2> QED
    BY <1>2, <2>1, <2>2, UserStep
<1>3. ASSUME OrderInv, UsedInv  PROVE NothingIsUsedTwice
  <2>1. ASSUME NEW q \in Users!Done(Using), NEW r \in Users!Done(Using), r \in before[q],
               UserOp[r] = "resetPassword" <=> UserOp[q] = "resetPassword"
        PROVE  IF UserOp[r] = "resetPassword" THEN Credential[r] # Credential[q] ELSE sent[r] # sent[q]
    <3>1. /\ q \in UserRequest /\ userReply[q] # 0 /\ Users!Succeeded(q)
          /\ UserOp[q] \in Using /\ UserOp[r] \in Using
      BY DEF Users!Done, Users!Succeeded
    <3>2. userPc[q] = "done"
      BY <1>3, <3>1 DEF OrderInv, ProgressInv
    <3> QED
      BY <1>3, <2>1, <3>1, <3>2 DEF UsedInv, FreshInv, Using, Users!Refresher
  <2> QED
    BY <2>1 DEF NothingIsUsedTwice, Users!NothingIsUsedTwice, Using
<1> QED
  BY <1>1, <1>2, <1>3, OrderInvariant, PTL DEF Spec

-----------------------------------------------------------------------------
(* Sessions end.                                                           *)

\* A token is the first one or that of an answered request, and a request presents one of them.
TokensInv ==
  /\ \A t \in tokens : t.id = FirstToken \/ (t.id \in UserRequest /\ userPc[t.id] = "done")
  /\ \A s, t \in tokens : s.id = t.id => s = t
  /\ \A r \in UserRequest :
       UserOp[r] \in Users!Refresher /\ userPc[r] \in {"revoke", "findUser", "issue"} => sent[r] \in Users!Issued

\* The user who gets a token from r.
Subject(r) == IF UserOp[r] = "login" THEN UserOn[r] ELSE Users!UserOf(sent[r])

\* The token that r issues.
NewToken(r) == [id |-> r, user |-> Subject(r), parent |-> sent[r]]

\* A token is found by its id.
LEMMA UserOfToken ==
  ASSUME NEW t \in tokens, \A s \in tokens : s.id = t.id => s = t
  PROVE  Users!UserOf(t.id) = t.user
<1>1. (CHOOSE s \in tokens : s.id = t.id) = t
  OBVIOUS
<1> QED
  BY <1>1 DEF Users!UserOf

\* Tokens are only added, by the last step of the request whose id they have.
LEMMA TokensStep ==
  ASSUME OrderInv, TokensInv, NEW r \in UserRequest, Users!Step(r) \/ Users!Fail(r)
  PROVE  /\ TokensInv'
         /\ tokens' = tokens \/ (tokens' = tokens \union {NewToken(r)} /\ userPc[r] = "issue")
         /\ \A id \in Users!Issued : Users!UserOf(id)' = Users!UserOf(id)
<1>1. Moves(r) /\ Writes(r) /\ Arrives(r)
  BY StepMoves
<1>2. tokens' = tokens \/ (tokens' = tokens \union {NewToken(r)} /\ userPc[r] = "issue" /\ userPc'[r] = "done")
  BY <1>1 DEF Writes, Users!IssueTokens, Users!At, Users!Finish, NewToken, Subject, OrderInv
<1>3. NewToken(r).id = r /\ r # FirstToken
  BY ApplicationAssumption DEF NewToken, Users!IdentityAssumption
<1>4. \A t \in tokens : t.id # r
  BY <1>1, <1>3 DEF TokensInv, Moves
<1>5. \A t \in tokens' : t.id = FirstToken \/ (t.id \in UserRequest /\ userPc'[t.id] = "done")
  BY <1>1, <1>2, <1>3, <1>4 DEF TokensInv, Moves
<1>6. \A s, t \in tokens' : s.id = t.id => s = t
  BY <1>2, <1>3, <1>4 DEF TokensInv
<1>7. ASSUME NEW id \in Users!Issued  PROVE Users!UserOf(id)' = Users!UserOf(id)
  <2>1. PICK t \in tokens : t.id = id
    BY DEF Users!Issued
  <2>2. t \in tokens'
    BY <1>2
  <2>3. Users!UserOf(t.id) = t.user
    BY UserOfToken DEF TokensInv
  <2>4. (CHOOSE s \in tokens' : s.id = t.id) = t
    BY <1>6, <2>2
  <2> QED
    BY <2>1, <2>3, <2>4 DEF Users!UserOf
<1>8. Users!Issued \subseteq Users!Issued'
  BY <1>2 DEF Users!Issued
<1>9. ASSUME NEW q \in UserRequest, UserOp[q] \in Users!Refresher,
             userPc'[q] \in {"revoke", "findUser", "issue"}
      PROVE  sent'[q] \in Users!Issued'
  <2>1. CASE q # r
    BY <1>1, <1>8, <1>9, <2>1 DEF TokensInv, Moves
  <2>2. CASE Users!FindToken(r) /\ q = r
    BY <1>8, <2>2 DEF Users!FindToken, OrderInv
  <2>3. CASE (Users!RevokeToken(r) \/ Users!FindUser(r)) /\ q = r
    BY <1>1, <1>8, <1>9, <2>3 DEF Users!RevokeToken, Users!FindUser, Users!At, TokensInv, Moves
  <2>4. q = r => ~Users!Login(r)
    BY <1>9 DEF Users!Login, Users!At, Users!Refresher
  <2> QED
    BY <1>1, <1>9, <2>1, <2>2, <2>3, <2>4 DEF Arrives
<1> QED
  BY <1>2, <1>5, <1>6, <1>7, <1>9 DEF TokensInv

\* What is known of tokens, at the beginning and after each step.
LEMMA TokensInvariant == Spec => []TokensInv
<1>1. Init => TokensInv
  <2> SUFFICES ASSUME Init  PROVE TokensInv
    OBVIOUS
  <2>1. PICK w : Users!Begin(w)
    BY DEF Init, Users!Init
  <2> QED
    BY <2>1 DEF Users!Begin, TokensInv
<1>2. ASSUME OrderInv, TokensInv, [Next]_vars  PROVE TokensInv'
  <2>1. CASE UNCHANGED userVars
    BY <1>2, <2>1 DEF TokensInv, userVars, Users!Issued
  <2>2. CASE Users!Next
    BY <1>2, <2>2, TokensStep DEF Users!Next
  <2> QED
    BY <1>2, <2>1, <2>2, UserStep
<1> QED
  BY <1>1, <1>2, OrderInvariant, PTL DEF Spec

\* The user of a deactivation is inactive until one of them is reactivated, and who got through
\* the checks after its answer is another user.
SessionsInv ==
  /\ OldSessionsEnd
  /\ Users!Done({"reactivate"}) = {} =>
       /\ \A q \in Users!Done({"update"}) : UserOn[q] \in users \ active
       /\ \A r \in UserRequest : \A q \in Users!Done({"update"}) \intersect before[r] :
            userPc[r] = "issue" => Subject(r) # UserOn[q]

\* Every step of a request keeps the invariant.
LEMMA SessionsStep ==
  ASSUME OrderInv, RowsInv, TokensInv, SessionsInv,
         NEW r \in UserRequest, Users!Step(r) \/ Users!Fail(r)
  PROVE  SessionsInv'
<1>1. Moves(r) /\ Writes(r) /\ Arrives(r) /\ Succeeds(r) /\ PlaceInv(r)
  BY StepMoves DEF OrderInv, ProgressInv
<1>2. /\ tokens' = tokens \/ (tokens' = tokens \union {NewToken(r)} /\ userPc[r] = "issue")
      /\ \A id \in Users!Issued : Users!UserOf(id)' = Users!UserOf(id)
  BY TokensStep
<1>3. NewToken(r).id = r /\ NewToken(r).user = Subject(r) /\ r # FirstToken
  BY ApplicationAssumption DEF NewToken, Users!IdentityAssumption
<1>4. revoked \subseteq revoked'
  BY <1>1 DEF Writes, Users!RevokeToken, Users!Logout, Users!RevokeAllForUser
<1>5. /\ r \notin Answered
      /\ \A q \in Answered : before'[q] = before[q] /\ before[q] \subseteq Answered
      /\ \A q \in UserRequest : userPc[q] \notin {"unsent", "start"} => before[q] \subseteq Answered
  BY <1>1, AnswersStay DEF OrderInv, ProgressInv
<1>6. Users!SessionsEndWithPassword'
  <2>1. ASSUME NEW c \in Users!Done({"changePassword", "resetPassword"})', NEW t \in tokens',
               t.user = UserOn[c], t.id \in before'[c] \union {FirstToken}
        PROVE  t.id \in revoked'
    <3>1. CASE c \in Users!Done({"changePassword", "resetPassword"})
      <4>1. c \in Answered
        BY <1>1, <3>1, DoneStep
      <4>2. t \in tokens /\ t.id \in before[c] \union {FirstToken}
        BY <1>2, <1>3, <1>5, <2>1, <4>1
      <4> QED
        BY <1>4, <2>1, <3>1, <4>2 DEF SessionsInv, OldSessionsEnd, Users!SessionsEndWithPassword
    <3>2. CASE c = r /\ userPc'[r] = "done" /\ Users!Succeeded(r)'
      <4>1. Users!RevokeAllForUser(r)
        BY <1>1, <2>1, <3>2 DEF Succeeds, Users!Done
      <4>2. revoked' = revoked \union {s.id : s \in {s \in tokens : s.user = UserOn[r]}} /\ tokens' = tokens
        BY <4>1 DEF Users!RevokeAllForUser
      <4> QED
        BY <2>1, <3>2, <4>2
    <3> QED
      BY <1>1, <2>1, <3>1, <3>2, DoneStep
  <2> QED
    BY <2>1 DEF Users!SessionsEndWithPassword
<1>7. Users!Done({"reactivate"})' = {} => Users!Done({"reactivate"}) = {}
  BY <1>1, DoneStep
<1>8. ASSUME Users!Done({"reactivate"})' = {}, NEW q \in Users!Done({"update"})'
      PROVE  UserOn[q] \in users' \ active'
  <2>1. CASE q \in Users!Done({"update"})
    <3>1. UserOn[q] \in users \ active
      BY <1>7, <1>8, <2>1 DEF SessionsInv
    <3>2. CASE Users!InsertUser(r)
      BY <3>1, <3>2 DEF Users!InsertUser, Users!Told, Users!Refuse, Users!accessVars
    <3>3. CASE Users!WriteUser(r)
      <4>1. UserOp[r] # "reactivate"
        BY <1>8, <3>3 DEF Users!WriteUser, Users!Finish, Users!Done, Users!Succeeded, OrderInv
      <4> QED
        BY <3>1, <3>3, <4>1 DEF Users!WriteUser, Users!At
    <3> QED
      BY <1>1, <3>1, <3>2, <3>3 DEF Writes
  <2>2. CASE q = r /\ userPc'[r] = "done" /\ Users!Succeeded(r)'
    <3>1. Users!WriteUser(r) /\ UserOp[r] = "update"
      BY <1>1, <1>8, <2>2 DEF Succeeds, Users!Done
    <3> QED
      BY <2>2, <3>1 DEF Users!WriteUser, Users!At, RowsInv
  <2> QED
    BY <1>1, <1>8, <2>1, <2>2, DoneStep
<1>9. \A q \in Users!Done({"update"})' : q \in Answered => q \in Users!Done({"update"})
  BY <1>1, <1>5, DoneStep
<1>10. ASSUME Users!Done({"reactivate"})' = {}, NEW p \in UserRequest, userPc'[p] = "issue",
              NEW q \in Users!Done({"update"})' \intersect before'[p]
       PROVE  Subject(p)' # UserOn[q]
  <2>1. CASE p # r
    <3>1. userPc[p] = "issue" /\ before'[p] = before[p] /\ sent'[p] = sent[p] /\ PlaceInv(p)
      BY <1>1, <1>10, <2>1 DEF Moves, OrderInv, ProgressInv
    <3>2. q \in Users!Done({"update"}) \intersect before[p]
      BY <1>5, <1>9, <1>10, <3>1
    <3>3. UserOp[p] # "login" => sent[p] \in Users!Issued
      BY <3>1 DEF TokensInv, PlaceInv, Places, Users!Refresher
    <3>4. Subject(p)' = Subject(p)
      BY <1>2, <3>1, <3>3 DEF Subject
    <3> QED
      BY <1>7, <1>10, <3>1, <3>2, <3>4 DEF SessionsInv
  <2>2. CASE p = r
    <3>1. q \in Users!Done({"update"})
      BY <1>1, <1>5, <1>9, <1>10, <2>2 DEF Moves
    <3>2. UserOn[q] \notin active
      BY <1>7, <1>10, <3>1 DEF SessionsInv
    <3>3. CASE Users!Login(r)
      BY <1>10, <2>2, <3>2, <3>3 DEF Users!Login, Users!At, Users!Refuse, Users!Finish, Subject, OrderInv
    <3>4. CASE Users!FindUser(r)
      <4>1. /\ UserOp[r] # "login" /\ userPc[r] = "findUser" /\ UserOp[r] \in Users!Refresher
            /\ Users!UserOf(sent[r]) \in active
        BY <1>10, <2>2, <3>4 DEF Users!FindUser, Users!At, Users!Refuse, Users!Finish, OrderInv,
          Users!Refresher
      <4>2. sent'[r] = sent[r] /\ sent[r] \in Users!Issued
        BY <1>1, <4>1 DEF TokensInv, Moves
      <4> QED
        BY <1>2, <2>2, <3>2, <4>1, <4>2 DEF Subject
    <3> QED
      BY <1>1, <1>10, <2>2, <3>3, <3>4 DEF Arrives
  <2> QED
    BY <2>1, <2>2
<1>11. Users!DeactivatedGetsNoSession'
  <2>1. ASSUME NEW q \in Users!Done({"update"})', NEW t \in tokens', t.user = UserOn[q], t.id \in UserRequest,
               Users!Done({"reactivate"})' = {}, q \in before'[t.id]
        PROVE  FALSE
    <3>1. CASE t \in tokens
      <4>1. userPc[t.id] = "done" /\ t.id # r
        BY <1>1, <2>1, <3>1, ApplicationAssumption DEF TokensInv, Moves, Users!IdentityAssumption
      <4>2. before'[t.id] = before[t.id] /\ q \in Users!Done({"update"})
        BY <1>1, <1>5, <1>9, <2>1, <4>1 DEF Moves
      <4> QED
        BY <1>7, <2>1, <3>1, <4>2 DEF SessionsInv, OldSessionsEnd, Users!DeactivatedGetsNoSession
    <3>2. CASE t = NewToken(r) /\ userPc[r] = "issue"
      <4>1. before'[r] = before[r] /\ q \in Users!Done({"update"})
        BY <1>1, <1>3, <1>5, <1>9, <2>1, <3>2 DEF Moves
      <4> QED
        BY <1>3, <1>7, <2>1, <3>2, <4>1 DEF SessionsInv
    <3> QED
      BY <1>2, <2>1, <3>1, <3>2
  <2> QED
    BY <2>1 DEF Users!DeactivatedGetsNoSession
<1> QED
  BY <1>6, <1>8, <1>10, <1>11 DEF SessionsInv, OldSessionsEnd

(***************************************************************************)
(* No session from before a new password or a deactivation goes on after   *)
(* it, for any number of users and requests (auth.service.ts               *)
(* changePassword, resetPassword, refresh).                                *)
(***************************************************************************)
THEOREM NewPasswordEndsSessions == Spec => []OldSessionsEnd
<1>1. Init => SessionsInv
  <2> SUFFICES ASSUME Init  PROVE SessionsInv
    OBVIOUS
  <2>1. PICK w : Users!Begin(w)
    BY DEF Init, Users!Init
  <2>2. \A ops : Users!Done(ops) = {}
    BY <2>1 DEF Users!Begin, Users!Done, Users!Succeeded
  <2> QED
    BY <2>2 DEF SessionsInv, OldSessionsEnd, Users!SessionsEndWithPassword, Users!DeactivatedGetsNoSession
<1>2. ASSUME OrderInv, RowsInv, TokensInv, SessionsInv, [Next]_vars  PROVE SessionsInv'
  <2>1. CASE UNCHANGED userVars
    <3>1. /\ \A ops : Users!Done(ops)' = Users!Done(ops)
          /\ \A r : Subject(r)' = Subject(r)
          /\ UNCHANGED <<users, active, tokens, revoked, before, userPc>>
      BY <2>1 DEF userVars, Users!Done, Users!Succeeded, Subject, Users!UserOf
    <3> QED
      BY <1>2, <3>1 DEF SessionsInv, OldSessionsEnd, Users!SessionsEndWithPassword,
        Users!DeactivatedGetsNoSession
  <2>2. CASE Users!Next
    BY <1>2, <2>2, SessionsStep DEF Users!Next
  <2> QED
    BY <1>2, <2>1, <2>2, UserStep
<1>3. SessionsInv => OldSessionsEnd
  BY DEF SessionsInv
<1> QED
  BY <1>1, <1>2, <1>3, OrderInvariant, RowsInvariant, TokensInvariant, PTL DEF Spec

-----------------------------------------------------------------------------
(* The client stays logged in.                                             *)

\* r renews the session of the device.
DeviceRefresh(r) == UserOp[r] = "deviceRefresh"

\* The tokens that a refresh of the device has revoked and has not replaced yet.
Renewing(r) == r \in Users!DeviceRefreshes /\ userPc[r] \in {"findUser", "issue"}
Renewed     == {sent[r] : r \in {q \in UserRequest : Renewing(q)}}

\* The tokens whose session somebody has ended.
EndedTokens == {id \in Users!Token : Users!SessionEnded(id)}

\* A user was deactivated by a request that the others of S do not know to be answered.
LeftOut(u, S) == \E q \in Users!Done({"update"}) : UserOn[q] = u /\ q \notin S

\* Who has a token, or is about to get one, is active or was deactivated since its request began.
OwnersInv ==
  /\ \A t \in tokens :
       \/ t.user \in active
       \/ \E q \in Users!Done({"update"}) : UserOn[q] = t.user /\ Users!After(q, t.id)
  /\ \A r \in UserRequest : userPc[r] = "issue" => Subject(r) \in active \/ LeftOut(Subject(r), before[r])

\* The token of the device is of use, or its session was ended, or it is just being replaced.
TokenOfUse == device \in revoked => device \in EndedTokens \union Renewed

\* r took the token from the device: it got no answer, or its token had been used or its session ended.
Took(r) ==
  /\ r \in Users!DeviceRefreshes /\ userReply[r] # 0
  /\ \A q \in Users!DeviceRefreshes : r \notin before[q]
  /\ \/ userReply[r] = Users!Lost
     \/ userReply[r] = 401 /\ sent[r] \in EndedTokens
     \/ userReply[r] = 401 /\ \E q \in Users!DeviceRefreshes : sent[q] = sent[r] /\ Users!Overlap(q, r)

(***************************************************************************)
(* ClientStaysLoggedIn with what it rests on: the device has a token that  *)
(* was issued, which is revoked by nobody else than those the property     *)
(* names, and the users of all tokens are active or were deactivated.      *)
(***************************************************************************)
DeviceInv ==
  /\ revoked \subseteq Users!Issued /\ OwnersInv
  /\ \A r \in UserRequest : userPc[r] \in {"unsent", "start"} => before[r] = {}
  /\ device = NoToken \/ device \in Users!Issued
  /\ TokenOfUse
  /\ device = NoToken => \E r \in UserRequest : Took(r)

\* The steps of the refresh of a device.
LEMMA DeviceSteps ==
  ASSUME NEW r \in UserRequest, DeviceRefresh(r), PlaceInv(r), Users!Step(r) \/ Users!Fail(r)
  PROVE  \/ Users!FindToken(r) \/ Users!RevokeToken(r) \/ Users!FindUser(r) \/ Users!IssueTokens(r)
         \/ Users!Fail(r)
<1> USE DEF DeviceRefresh, PlaceInv, Places, Users!At
<1>1. ~(\/ Users!Login(r) \/ Users!Logout(r) \/ Users!ForgotPassword(r) \/ Users!FindCode(r)
        \/ Users!ConsumeCode(r) \/ Users!ChangePassword(r) \/ Users!UpdatePasswordHash(r)
        \/ Users!RevokeAllForUser(r))
  BY DEF Users!Login, Users!Logout, Users!ForgotPassword, Users!FindCode, Users!ConsumeCode,
    Users!ChangePassword,
    Users!UpdatePasswordHash, Users!RevokeAllForUser
<1>2. ~(\/ Users!CreateUser(r) \/ Users!InsertUser(r) \/ Users!UpdateUser(r) \/ Users!SetUserRoles(r)
        \/ Users!CountAdmins(r) \/ Users!WriteUser(r) \/ Users!DeleteRoles(r) \/ Users!InsertRoles(r)
        \/ Users!CreatedWithoutRoles(r) \/ Users!ResetUserPassword(r))
  BY DEF Users!CreateUser, Users!InsertUser, Users!UpdateUser, Users!SetUserRoles, Users!CountAdmins,
    Users!WriteUser, Users!DeleteRoles, Users!InsertRoles, Users!CreatedWithoutRoles, Users!ResetUserPassword
<1>3. ~(\/ Users!CreateRole(r) \/ Users!UpdateRole(r) \/ Users!SetRolePermissions(r) \/ Users!DeletePermissions(r)
        \/ Users!InsertPermissions(r) \/ Users!DeleteRole(r))
  BY DEF Users!CreateRole, Users!UpdateRole, Users!SetRolePermissions, Users!DeletePermissions,
    Users!InsertPermissions, Users!DeleteRole
<1> QED
  BY <1>1, <1>2, <1>3 DEF Users!Step

\* Only tokens that were issued are revoked.
LEMMA RevokedAreIssued ==
  ASSUME OrderInv, TokensInv, NEW r \in UserRequest, Users!Step(r) \/ Users!Fail(r),
         revoked \subseteq Users!Issued
  PROVE  revoked' \subseteq Users!Issued'
<1>1. Users!Issued \subseteq Users!Issued'
  BY TokensStep DEF Users!Issued
<1>2. CASE Users!RevokeToken(r)
  BY <1>1, <1>2 DEF Users!RevokeToken, Users!At, TokensInv
<1>3. CASE Users!Logout(r)
  BY <1>1, <1>3 DEF Users!Logout
<1>4. CASE Users!RevokeAllForUser(r)
  BY <1>1, <1>4 DEF Users!RevokeAllForUser, Users!Issued
<1> QED
  BY <1>1, <1>2, <1>3, <1>4, StepMoves DEF Writes

\* Who answered a deactivation stays, and what had begun before it did.
LEMMA AfterStays ==
  ASSUME OrderInv, TokensInv, NEW r \in UserRequest, Moves(r), NEW t \in tokens, NEW q, Users!After(q, t.id)
  PROVE  Users!After(q, t.id)'
<1>1. t.id # FirstToken => t.id \in UserRequest /\ t.id # r
  BY DEF TokensInv, Moves
<1> QED
  BY <1>1 DEF Users!After, Moves

\* Tokens are the first one and those with the names of requests.
LEMMA IssuedTokens ==
  ASSUME TokensInv
  PROVE  Users!Issued \subseteq Users!Token /\ NoToken \notin Users!Issued
BY ApplicationAssumption DEF TokensInv, Users!Issued, Users!IdentityAssumption, Users!Token

\* A session that was ended stays ended.
LEMMA EndedStays ==
  ASSUME OrderInv, TokensInv, NEW r \in UserRequest, Users!Step(r) \/ Users!Fail(r)
  PROVE  EndedTokens \subseteq EndedTokens'
<1> SUFFICES ASSUME NEW id \in Users!Token, Users!SessionEnded(id)  PROVE Users!SessionEnded(id)'
  BY DEF EndedTokens
<1>1. Moves(r) /\ Arrives(r) /\ tokens \subseteq tokens'
  BY StepMoves, TokensStep
<1>2. CASE \E q \in Users!Done({"logout"}) : Credential[q] = id
  BY <1>1, <1>2, DoneStep DEF Users!SessionEnded
<1>3. CASE \E q \in Users!Done({"changePassword", "resetPassword", "update"}), t \in tokens :
             t.id = id /\ t.user = UserOn[q] /\ Users!After(q, id)
  <2>1. PICK q \in Users!Done({"changePassword", "resetPassword", "update"}), t \in tokens :
               t.id = id /\ t.user = UserOn[q] /\ Users!After(q, id)
    BY <1>3
  <2>2. q \in Users!Done({"changePassword", "resetPassword", "update"})' /\ t \in tokens'
    BY <1>1, <2>1, DoneStep
  <2>3. Users!After(q, id)'
    BY <1>1, <2>1, AfterStays
  <2> QED
    BY <2>1, <2>2, <2>3 DEF Users!SessionEnded
<1>4. CASE \E q \in Users!Begun : UserOp[q] = "refresh" /\ sent[q] = id /\ userPc[q] # "revoke"
  <2>1. PICK q \in Users!Begun : UserOp[q] = "refresh" /\ sent[q] = id /\ userPc[q] # "revoke"
    BY <1>4
  <2>2. q \in UserRequest /\ userPc[q] \notin {"unsent", "start"}
    BY <2>1 DEF Users!Begun
  <2>3. sent'[q] = sent[q] /\ userPc'[q] \notin {"unsent", "start"}
    BY <1>1, <2>2 DEF Moves
  <2>4. userPc'[q] # "revoke"
    BY <1>1, <2>1, <2>2 DEF Moves, Arrives, Users!FindToken, Users!At
  <2>5. q \in Users!Begun'
    BY <2>2, <2>3 DEF Users!Begun
  <2> QED
    BY <2>1, <2>3, <2>4, <2>5 DEF Users!SessionEnded
<1> QED
  BY <1>2, <1>3, <1>4 DEF Users!SessionEnded

\* Nobody gets a token who is not active or was deactivated since.
LEMMA OwnersStep ==
  ASSUME OrderInv, RowsInv, TokensInv, OwnersInv, NEW r \in UserRequest, Users!Step(r) \/ Users!Fail(r)
  PROVE  OwnersInv'
<1>1. Moves(r) /\ Writes(r) /\ Arrives(r)
  BY StepMoves
<1>2. /\ tokens' = tokens \/ (tokens' = tokens \union {NewToken(r)} /\ userPc[r] = "issue")
      /\ \A id \in Users!Issued : Users!UserOf(id)' = Users!UserOf(id)
  BY TokensStep
<1>3. /\ r \notin Answered
      /\ \A q \in UserRequest : userPc[q] \notin {"unsent", "start"} => before[q] \subseteq Answered /\ r \notin before[q]
  BY <1>1, AnswersStay DEF OrderInv, ProgressInv
<1>4. \A q \in Users!Done({"update"}) : q \in Users!Done({"update"})'
  BY <1>1, DoneStep
<1>5. ASSUME NEW u \in active, u \notin active'
      PROVE  UserOn[r] = u /\ r \in Users!Done({"update"})' /\ userPc'[r] = "done"
  <2>1. ~Users!InsertUser(r)
    BY <1>5 DEF Users!InsertUser, Users!Told, Users!Refuse, Users!accessVars
  <2>2. Users!WriteUser(r)
    BY <1>1, <1>5, <2>1 DEF Writes
  <2> QED
    BY <1>5, <2>2 DEF Users!WriteUser, Users!At, Users!Finish, Users!Done, Users!Succeeded, OrderInv
<1>6. ASSUME NEW t \in tokens
      PROVE  t.user \in active' \/ \E q \in Users!Done({"update"})' : UserOn[q] = t.user /\ Users!After(q, t.id)'
  <2>1. CASE t.user \in active
    <3>1. Users!After(r, t.id)'
      <4>1. t.id # FirstToken => t.id \in UserRequest /\ userPc[t.id] = "done" /\ t.id # r
        BY <1>1 DEF TokensInv, Moves
      <4> QED
        BY <1>1, <1>3, <4>1 DEF Users!After, Moves
    <3> QED
      BY <1>5, <2>1, <3>1
  <2>2. CASE \E q \in Users!Done({"update"}) : UserOn[q] = t.user /\ Users!After(q, t.id)
    BY <1>1, <1>4, <2>2, AfterStays
  <2> QED
    BY <2>1, <2>2 DEF OwnersInv
<1>7. ASSUME tokens' = tokens \union {NewToken(r)}, userPc[r] = "issue"
      PROVE  \A t \in tokens' :
               t.user \in active' \/ \E q \in Users!Done({"update"})' : UserOn[q] = t.user /\ Users!After(q, t.id)'
  <2>1. NewToken(r).user = Subject(r) /\ NewToken(r).id = r
    BY DEF NewToken
  <2>2. before'[r] = before[r] /\ (tokens' # tokens => active' = active)
    BY <1>1, <1>7 DEF Moves, Writes, Users!IssueTokens, Users!accessVars
  <2>3. Subject(r) \in active \/ LeftOut(Subject(r), before[r])
    BY <1>7 DEF OwnersInv
  <2>4. NewToken(r) \in tokens \/ Subject(r) \in active' \/ LeftOut(Subject(r), before[r])
    BY <1>7, <2>2, <2>3
  <2>5. ASSUME NEW q \in Users!Done({"update"}), UserOn[q] = Subject(r), q \notin before[r]
        PROVE  q \in Users!Done({"update"})' /\ UserOn[q] = Subject(r) /\ Users!After(q, r)'
    <3>1. q \in Users!Done({"update"})'
      BY <1>4, <2>5
    <3>2. q \notin before'[r]
      BY <2>2, <2>5
    <3> QED
      BY <2>1, <2>5, <3>1, <3>2 DEF Users!After
  <2>6. \/ Subject(r) \in active'
        \/ \E q \in Users!Done({"update"})' : UserOn[q] = Subject(r) /\ Users!After(q, r)'
    <3>1. CASE NewToken(r) \in tokens
      <4>1. PICK t \in tokens : t.user = Subject(r) /\ t.id = r
        BY <2>1, <3>1
      <4> QED
        BY <1>6, <4>1
    <3> QED
      BY <2>1, <2>3, <2>4, <2>5, <3>1 DEF LeftOut
  <2>7. ASSUME NEW t \in tokens'
        PROVE  \/ t.user \in active'
               \/ \E q \in Users!Done({"update"})' : UserOn[q] = t.user /\ Users!After(q, t.id)'
    <3>1. t \in tokens \/ t = NewToken(r)
      BY <1>7, <2>7
    <3>2. CASE t \in tokens
      BY <1>6, <3>2
    <3>3. CASE t = NewToken(r)
      <4>1. t.user = Subject(r) /\ t.id = r
        BY <2>1, <3>3
      <4> QED
        BY <2>6, <4>1
    <3> QED
      BY <3>1, <3>2, <3>3
  <2> QED
    BY <2>7
<1>8. \A t \in tokens' :
        t.user \in active' \/ \E q \in Users!Done({"update"})' : UserOn[q] = t.user /\ Users!After(q, t.id)'
  BY <1>2, <1>6, <1>7
<1>9. ASSUME NEW p \in UserRequest, userPc'[p] = "issue"
      PROVE  Subject(p)' \in active' \/ LeftOut(Subject(p), before[p])'
  <2>1. CASE p # r
    <3>1. userPc[p] = "issue" /\ before'[p] = before[p] /\ sent'[p] = sent[p] /\ PlaceInv(p)
      BY <1>1, <1>9, <2>1 DEF Moves, OrderInv, ProgressInv
    <3>2. UserOp[p] # "login" => sent[p] \in Users!Issued
      BY <3>1 DEF TokensInv, PlaceInv, Places, Users!Refresher
    <3>3. Subject(p)' = Subject(p)
      BY <1>2, <3>1, <3>2 DEF Subject
    <3>4. CASE Subject(p) \in active
      BY <1>3, <1>5, <3>1, <3>3, <3>4 DEF LeftOut
    <3>5. CASE LeftOut(Subject(p), before[p])
      BY <1>4, <3>1, <3>3, <3>5 DEF LeftOut
    <3> QED
      BY <3>1, <3>4, <3>5 DEF OwnersInv
  <2>2. CASE p = r
    <3>1. CASE Users!Login(r)
      BY <1>9, <2>2, <3>1 DEF Users!Login, Users!At, Users!Passes, Users!Refuse, Users!Finish, Subject, OrderInv,
        Users!accessVars
    <3>2. CASE Users!FindUser(r)
      <4>1. /\ UserOp[r] # "login" /\ userPc[r] = "findUser" /\ UserOp[r] \in Users!Refresher
            /\ Users!UserOf(sent[r]) \in active /\ active' = active
        BY <1>9, <2>2, <3>2 DEF Users!FindUser, Users!At, Users!Passes, Users!Refuse, Users!Finish, OrderInv,
          Users!Refresher, Users!accessVars
      <4>2. sent'[r] = sent[r] /\ sent[r] \in Users!Issued
        BY <1>1, <4>1 DEF TokensInv, Moves
      <4> QED
        BY <1>2, <2>2, <4>1, <4>2 DEF Subject
    <3> QED
      BY <1>1, <1>9, <2>2, <3>1, <3>2 DEF Arrives
  <2> QED
    BY <2>1, <2>2
<1> QED
  BY <1>8, <1>9 DEF OwnersInv

\* As long as the device has no token, it sends no refresh, and the reason stays.
LEMMA TookStays ==
  ASSUME OrderInv, TokensInv, NEW r \in UserRequest, Users!Step(r) \/ Users!Fail(r), device = NoToken,
         NEW x \in UserRequest, Took(x)
  PROVE  Took(x)'
<1>1. Moves(r) /\ Starts(r)
  BY StepMoves
<1>2. x \in Answered /\ x # r
  BY <1>1, AnswersStay DEF Took, Answered
<1>3. userReply'[x] = userReply[x] /\ sent'[x] = sent[x]
  BY <1>1, <1>2 DEF Moves
<1>4. ASSUME NEW q \in Users!DeviceRefreshes  PROVE x \notin before'[q]
  <2>1. NoToken \notin Users!Issued
    BY IssuedTokens
  <2>2. ~(q = r /\ userPc[r] = "start")
    BY <1>1, <2>1 DEF Starts, Users!DeviceRefreshes, Users!Refresher, Users!FindToken, Users!Presented
  <2>3. before'[q] = before[q]
    BY <1>1, <2>2 DEF Moves, Users!DeviceRefreshes
  <2> QED
    BY <2>3 DEF Took
<1>5. sent[x] \in EndedTokens => sent'[x] \in EndedTokens'
  BY <1>3, EndedStays
<1>6. ASSUME NEW q \in Users!DeviceRefreshes, sent[q] = sent[x], Users!Overlap(q, x)
      PROVE  sent'[q] = sent'[x] /\ Users!Overlap(q, x)'
  <2>1. q \in UserRequest /\ userPc[q] # "start"
    BY <1>6 DEF Users!Overlap, Users!Begun
  <2>2. sent'[q] = sent[q]
    BY <1>1, <2>1 DEF Moves
  <2> QED
    BY <1>1, <1>3, <1>6, <2>2, OverlapStays
<1> QED
  BY <1>3, <1>4, <1>5, <1>6 DEF Took, Users!DeviceRefreshes

\* Another request than a refresh of the device revokes its token only by ending the session.
LEMMA OthersKeep ==
  ASSUME OrderInv, TokensInv, DeviceInv, NEW r \in UserRequest, Users!Step(r) \/ Users!Fail(r),
         ~DeviceRefresh(r)
  PROVE  device' = device /\ TokenOfUse'
<1>1. Moves(r) /\ Writes(r)
  BY StepMoves
<1>2. device' = device
  BY <1>1 DEF Writes, DeviceRefresh
<1>3. Renewed \subseteq Renewed'
  <2>1. \A q \in UserRequest : Renewing(q) => Renewing(q)' /\ sent'[q] = sent[q]
    BY <1>1 DEF Renewing, Moves, DeviceRefresh, Users!DeviceRefreshes
  <2> QED
    BY <2>1 DEF Renewed
<1>4. EndedTokens \subseteq EndedTokens'
  BY EndedStays
<1>5. ASSUME device \in revoked', device \notin revoked  PROVE device \in EndedTokens'
  <2> SUFFICES Users!SessionEnded(device)'
    <3>1. device \in Users!Token \/ device = NoToken
      BY IssuedTokens DEF DeviceInv
    <3>2. revoked' \subseteq Users!Issued' /\ TokensInv'
      BY RevokedAreIssued, TokensStep DEF DeviceInv
    <3>3. device' \in Users!Token
      BY <1>2, <1>5, <3>2, IssuedTokens DEF TokensInv, Users!Issued, Users!Token
    <3> QED
      BY <1>2, <3>3 DEF EndedTokens
  <2>1. CASE Users!RevokeToken(r)
    <3>1. UserOp[r] = "refresh" /\ userPc[r] = "revoke" /\ sent[r] = device /\ userPc'[r] = "findUser"
      BY <1>5, <2>1 DEF Users!RevokeToken, Users!At, Users!Refresher, Users!Goto, DeviceRefresh, OrderInv
    <3>2. sent'[r] = device /\ r \in Users!Begun'
      BY <1>1, <3>1 DEF Moves, Users!Begun
    <3> QED
      BY <1>2, <3>1, <3>2 DEF Users!SessionEnded
  <2>2. CASE Users!Logout(r)
    <3>1. Credential[r] = device /\ r \in Users!Done({"logout"})'
      BY <1>5, <2>2 DEF Users!Logout, Users!At, Users!Finish, Users!Done, Users!Succeeded, OrderInv
    <3> QED
      BY <1>2, <3>1 DEF Users!SessionEnded
  <2>3. CASE Users!RevokeAllForUser(r)
    <3>1. PICK t \in tokens : t.id = device /\ t.user = UserOn[r]
      BY <1>5, <2>3 DEF Users!RevokeAllForUser
    <3>2. userPc[r] = "revokeAll" /\ tokens' = tokens
          /\ userReply' = [userReply EXCEPT ![r] = 200]
      BY <2>3 DEF Users!RevokeAllForUser, Users!Finish
    <3>3. UserOp[r] \in {"changePassword", "resetPassword"}
      BY <3>2 DEF OrderInv, ProgressInv, PlaceInv, Places
    <3>4. r \in Users!Done({"changePassword", "resetPassword", "update"})'
      BY <3>2, <3>3 DEF Users!Done, Users!Succeeded, OrderInv
    <3>5. Users!After(r, device)'
      <4>1. device # FirstToken => device \in UserRequest /\ userPc[device] = "done" /\ device # r
        BY <3>1, <3>2 DEF TokensInv
      <4>2. \A q \in UserRequest : userPc[q] = "done" => r \notin before[q]
        BY <1>1, AnswersStay DEF OrderInv, ProgressInv
      <4> QED
        BY <1>1, <1>2, <4>1, <4>2 DEF Users!After, Moves
    <3> QED
      BY <1>2, <3>1, <3>2, <3>4, <3>5 DEF Users!SessionEnded
  <2> QED
    BY <1>1, <1>5, <2>1, <2>2, <2>3 DEF Writes
<1> QED
  BY <1>2, <1>3, <1>4, <1>5 DEF DeviceInv, TokenOfUse

\* A refresh that is refused or gets no answer takes the token from the device, and has a reason.
LEMMA RefusedRefresh ==
  ASSUME OrderInv, TokensInv, DeviceInv, NEW r \in UserRequest, Users!Step(r) \/ Users!Fail(r),
         DeviceRefresh(r), NEW told \in {401, 500}, Users!Finish(r, told), revoked' = revoked,
         told = 401 =>
           \/ sent'[r] \in EndedTokens
           \/ \E q \in UserRequest \ {r} : Renewing(q) /\ sent[q] = sent'[r]
  PROVE  device' = NoToken /\ TokenOfUse' /\ Took(r)'
<1>1. Moves(r)
  BY StepMoves
<1>2. device' = NoToken /\ userReply'[r] = told
  BY DEF Users!Finish, Users!Store, DeviceRefresh, OrderInv
<1>3. NoToken \notin revoked
  BY IssuedTokens DEF DeviceInv
<1>4. TokenOfUse'
  BY <1>2, <1>3 DEF TokenOfUse
<1>5. r \notin Answered /\ \A q \in UserRequest : userPc[q] \notin {"unsent", "start"} => r \notin before[q]
  BY <1>1, AnswersStay DEF OrderInv, ProgressInv
<1>6. sent'[r] \in EndedTokens => sent'[r] \in EndedTokens'
  BY EndedStays
<1>7. ASSUME NEW q \in UserRequest \ {r}, Renewing(q), sent[q] = sent'[r]
      PROVE  q \in Users!DeviceRefreshes /\ sent'[q] = sent'[r] /\ Users!Overlap(q, r)'
  <2>1. userPc[q] \notin {"unsent", "start"} /\ q \notin Answered
    BY <1>7 DEF Renewing, OrderInv, ProgressInv, Answered
  <2> QED
    BY <1>1, <1>7, <2>1, OverlapBegins DEF Renewing, Moves
<1>8. ASSUME NEW q \in Users!DeviceRefreshes  PROVE r \notin before'[q]
  <2>1. q \in UserRequest /\ r \notin before[q]
    BY <1>5 DEF Users!DeviceRefreshes, DeviceInv
  <2> QED
    BY <1>1, <1>5, <2>1 DEF Moves
<1> QED
  BY <1>2, <1>4, <1>6, <1>7, <1>8 DEF Took, DeviceRefresh, Users!DeviceRefreshes, Users!Lost

\* A refresh of the device replaces its token, or takes it away for a reason.
LEMMA RefreshKeeps ==
  ASSUME OrderInv, TokensInv, DeviceInv, NEW r \in UserRequest, Users!Step(r) \/ Users!Fail(r),
         DeviceRefresh(r)
  PROVE  /\ device' = NoToken \/ device' \in Users!Issued'
         /\ TokenOfUse'
         /\ device' = NoToken => device = NoToken \/ Took(r)'
<1>1. Moves(r) /\ Writes(r) /\ PlaceInv(r)
  BY StepMoves DEF OrderInv, ProgressInv
<1>2. Users!Issued \subseteq Users!Issued' /\ EndedTokens \subseteq EndedTokens'
  BY TokensStep, EndedStays DEF Users!Issued
<1>3. \A q \in UserRequest \ {r} : Renewing(q) => Renewing(q)' /\ sent'[q] = sent[q]
  BY <1>1 DEF Renewing, Moves
<1>4. CASE Users!FindToken(r)
  <2>1. userPc[r] = "start" /\ sent'[r] = device /\ device \in Users!Issued
    BY <1>4 DEF Users!FindToken, Users!At, Users!Presented, DeviceRefresh, OrderInv
  <2>2. CASE device \notin revoked
    <3>1. UNCHANGED <<revoked, device>>
      BY <1>4, <2>2, <2>1 DEF Users!FindToken, Users!Passes, Users!tokenVars, Users!Presented, DeviceRefresh
    <3> QED
      BY <1>2, <2>1, <2>2, <3>1 DEF TokenOfUse
  <2>3. CASE device \in revoked
    <3>1. Users!Finish(r, 401) /\ revoked' = revoked
      BY <1>4, <2>3 DEF Users!FindToken, Users!Refuse, Users!Presented, DeviceRefresh
    <3>2. ~Renewing(r)
      BY <2>1 DEF Renewing
    <3>3. \/ sent'[r] \in EndedTokens
          \/ \E q \in UserRequest \ {r} : Renewing(q) /\ sent[q] = sent'[r]
      BY <2>1, <2>3, <3>2 DEF DeviceInv, TokenOfUse, Renewed
    <3> QED
      BY <3>1, <3>3, RefusedRefresh
  <2> QED
    BY <2>2, <2>3
<1>5. CASE Users!RevokeToken(r)
  <2>1. /\ device' = device /\ revoked' = revoked \union {sent[r]} /\ sent'[r] = sent[r]
        /\ userPc[r] = "revoke" /\ userPc'[r] = "findUser"
    BY <1>1, <1>5 DEF Users!RevokeToken, Users!At, Users!Goto, OrderInv, Moves
  <2>2. ~Renewing(r) /\ Renewing(r)'
    BY <2>1 DEF Renewing, DeviceRefresh, Users!DeviceRefreshes
  <2>3. Renewed \subseteq Renewed' /\ sent[r] \in Renewed'
    BY <1>3, <2>1, <2>2 DEF Renewed
  <2> QED
    BY <1>2, <2>1, <2>3 DEF DeviceInv, TokenOfUse
<1>6. CASE Users!FindUser(r)
  <2>1. /\ userPc[r] = "findUser" /\ sent'[r] = sent[r] /\ sent[r] \in Users!Issued /\ revoked' = revoked
    BY <1>1, <1>6 DEF Users!FindUser, Users!At, Users!Passes, Users!Refuse, Users!tokenVars, Moves, TokensInv
  <2>2. CASE Users!UserOf(sent[r]) \in active
    <3>1. device' = device /\ userPc'[r] = "issue"
      BY <1>6, <2>2 DEF Users!FindUser, Users!Passes, Users!Goto, Users!tokenVars, OrderInv
    <3>2. Renewing(r)'
      BY <3>1 DEF Renewing, DeviceRefresh, Users!DeviceRefreshes
    <3>3. Renewed \subseteq Renewed'
      BY <1>3, <2>1, <3>2 DEF Renewed
    <3> QED
      BY <1>2, <2>1, <3>1, <3>3 DEF DeviceInv, TokenOfUse
  <2>3. CASE Users!UserOf(sent[r]) \notin active
    <3>1. Users!Finish(r, 401)
      BY <1>6, <2>3 DEF Users!FindUser, Users!Refuse
    <3>2. PICK t \in tokens : t.id = sent[r]
      BY <2>1 DEF Users!Issued
    <3>3. t.user \notin active
      BY <2>3, <3>2, UserOfToken DEF TokensInv
    <3>4. PICK q \in Users!Done({"update"}) : UserOn[q] = t.user /\ Users!After(q, t.id)
      BY <3>3 DEF DeviceInv, OwnersInv
    <3>5. q \in Users!Done({"changePassword", "resetPassword", "update"})
      BY <3>4 DEF Users!Done
    <3>6. Users!SessionEnded(t.id)
      BY <3>4, <3>5 DEF Users!SessionEnded
    <3>7. sent'[r] \in EndedTokens
      BY <2>1, <3>2, <3>6, IssuedTokens DEF EndedTokens
    <3> QED
      BY <2>1, <3>1, <3>7, RefusedRefresh
  <2> QED
    BY <2>2, <2>3
<1>7. CASE Users!IssueTokens(r)
  <2>1. tokens' = tokens \union {NewToken(r)} /\ revoked' = revoked /\ NewToken(r).id = r
    BY <1>7 DEF Users!IssueTokens, NewToken, Subject
  <2>2. PICK told \in {200, 500} : Users!Finish(r, told)
    BY <1>7 DEF Users!IssueTokens, Users!Lost
  <2>3. CASE told = 200
    <3>1. device' = r
      BY <2>2, <2>3 DEF Users!Finish, Users!Store, DeviceRefresh
    <3>2. r \notin Users!Issued /\ r \in Users!Issued'
      BY <1>1, <2>1, ApplicationAssumption DEF TokensInv, Users!Issued, Moves, Users!IdentityAssumption
    <3> QED
      BY <2>1, <3>1, <3>2, IssuedTokens, ApplicationAssumption DEF TokenOfUse, DeviceInv, Users!IdentityAssumption,
         Users!Token
  <2>4. CASE told = 500
    BY <2>1, <2>2, <2>4, RefusedRefresh
  <2> QED
    BY <2>3, <2>4
<1>8. CASE Users!Fail(r)
  <2>1. Users!Finish(r, 500) /\ revoked' = revoked
    BY <1>8 DEF Users!Fail, Users!Refuse
  <2> QED
    BY <2>1, RefusedRefresh
<1> QED
  BY <1>1, <1>4, <1>5, <1>6, <1>7, <1>8, DeviceSteps

(***************************************************************************)
(* The client that stores the newest token stays logged in, for any number *)
(* of users and requests and however its refreshes overlap: the token it   *)
(* keeps can be refreshed unless somebody else has ended the session or a  *)
(* refresh with it is on the way, and it keeps none only if its last       *)
(* refresh got no answer, came after such an end, or overlapped with       *)
(* another one of the device (api_client.dart, auth.service.ts refresh).    *)
(***************************************************************************)
THEOREM NewestTokenStaysGood == Spec => []ClientStaysLoggedIn
<1>1. Init => DeviceInv
  <2> SUFFICES ASSUME Init  PROVE DeviceInv
    OBVIOUS
  <2>1. PICK w : Users!Begin(w)
    BY DEF Init, Users!Init
  <2>2. /\ device = FirstToken /\ revoked = {} /\ active = Staff /\ Owner \in Staff /\ NoToken # FirstToken
        /\ tokens = {[id |-> FirstToken, user |-> Owner, parent |-> NoToken]}
        /\ \A r \in UserRequest : userPc[r] \in {"start", "unsent"} /\ before[r] = {}
    BY <2>1, ApplicationAssumption DEF Users!Begin, Users!IdentityAssumption, Users!Token
  <2> QED
    BY <2>2 DEF DeviceInv, OwnersInv, TokenOfUse, Users!Issued
<1>2. ASSUME OrderInv, RowsInv, TokensInv, DeviceInv, [Next]_vars  PROVE DeviceInv'
  <2>1. CASE UNCHANGED userVars
    <3>1. /\ UNCHANGED <<device, tokens, active, revoked, sent, before, userPc, userReply>>
          /\ \A ops : Users!Done(ops)' = Users!Done(ops)
          /\ \A q, id : Users!After(q, id)' = Users!After(q, id)
          /\ \A q, r : Users!Overlap(q, r)' = Users!Overlap(q, r)
          /\ Users!Issued' = Users!Issued /\ Users!Begun' = Users!Begun
          /\ \A r : Subject(r)' = Subject(r)
      BY <2>1 DEF userVars, Users!Done, Users!Succeeded, Users!After, Users!Overlap, Users!Begun, Users!Issued,
        Subject, Users!UserOf
    <3>2. EndedTokens' = EndedTokens /\ Renewed' = Renewed
      BY <3>1 DEF EndedTokens, Users!SessionEnded, Renewed, Renewing
    <3>3. OwnersInv'
      BY <1>2, <3>1 DEF DeviceInv, OwnersInv, LeftOut
    <3>4. \A r : Took(r)' = Took(r)
      BY <3>1, <3>2 DEF Took
    <3> QED
      BY <1>2, <3>1, <3>2, <3>3, <3>4 DEF DeviceInv, TokenOfUse
  <2>2. CASE Users!Next
    <3>1. PICK r \in UserRequest : Users!Step(r) \/ Users!Fail(r)
      BY <2>2 DEF Users!Next
    <3>2. revoked' \subseteq Users!Issued' /\ OwnersInv'
      BY <1>2, <3>1, RevokedAreIssued, OwnersStep DEF DeviceInv
    <3>3. \A q \in UserRequest : userPc'[q] \in {"unsent", "start"} => before'[q] = {}
      BY <1>2, <3>1, StepMoves DEF DeviceInv, Moves
    <3>4. Users!Issued \subseteq Users!Issued'
      BY <1>2, <3>1, TokensStep DEF Users!Issued
    <3>5. /\ device' = NoToken \/ device' \in Users!Issued'
          /\ TokenOfUse'
          /\ device' = NoToken => device = NoToken \/ Took(r)'
      <4>1. CASE DeviceRefresh(r)
        BY <1>2, <3>1, <4>1, RefreshKeeps
      <4>2. CASE ~DeviceRefresh(r)
        BY <1>2, <3>1, <3>4, <4>2, OthersKeep DEF DeviceInv
      <4> QED
        BY <4>1, <4>2
    <3>6. device' = NoToken => \E x \in UserRequest : Took(x)'
      <4>1. CASE device = NoToken
        <5>1. PICK x \in UserRequest : Took(x)
          BY <1>2, <4>1 DEF DeviceInv
        <5>2. Took(x)'
          BY <1>2, <3>1, <4>1, <5>1, TookStays
        <5> QED
          BY <5>2
      <4> QED
        BY <3>5, <4>1
    <3> QED
      BY <3>2, <3>3, <3>5, <3>6 DEF DeviceInv
  <2> QED
    BY <1>2, <2>1, <2>2, UserStep
<1>3. TokensInv /\ DeviceInv => ClientStaysLoggedIn
  <2> SUFFICES ASSUME TokensInv, DeviceInv  PROVE Users!ClientStaysLoggedIn
    BY DEF ClientStaysLoggedIn
  <2>1. ASSUME device # NoToken
        PROVE  \/ Users!Refreshable(device) \/ Users!SessionEnded(device)
               \/ \E r \in Users!DeviceRefreshes : sent[r] = device /\ userPc[r] \in {"findUser", "issue"}
    <3>1. PICK t \in tokens : t.id = device
      BY <2>1 DEF DeviceInv, Users!Issued
    <3>2. CASE device \in revoked
      BY <3>2 DEF DeviceInv, TokenOfUse, EndedTokens, Renewed, Renewing
    <3>3. CASE device \notin revoked /\ t.user \in active
      BY <3>1, <3>3 DEF Users!Refreshable
    <3>4. CASE t.user \notin active
      <4>1. PICK q \in Users!Done({"update"}) : UserOn[q] = t.user /\ Users!After(q, t.id)
        BY <3>4 DEF DeviceInv, OwnersInv
      <4>2. q \in Users!Done({"changePassword", "resetPassword", "update"})
        BY <4>1 DEF Users!Done
      <4> QED
        BY <3>1, <4>1, <4>2 DEF Users!SessionEnded
    <3> QED
      BY <3>2, <3>3, <3>4
  <2>2. ASSUME device = NoToken
        PROVE  \E r \in Users!DeviceRefreshes \intersect Users!Answered :
                 /\ \A q \in Users!DeviceRefreshes : r \notin before[q]
                 /\ \/ userReply[r] = Users!Lost
                    \/ userReply[r] = 401 /\ Users!SessionEnded(sent[r])
                    \/ userReply[r] = 401
                         /\ \E q \in Users!DeviceRefreshes : sent[q] = sent[r] /\ Users!Overlap(q, r)
    <3>1. PICK r \in UserRequest : Took(r)
      BY <2>2 DEF DeviceInv
    <3>2. r \in Users!DeviceRefreshes \intersect Users!Answered
      BY <3>1 DEF Took, Users!Answered
    <3>3. sent[r] \in EndedTokens => Users!SessionEnded(sent[r])
      BY DEF EndedTokens
    <3> QED
      BY <3>1, <3>2, <3>3 DEF Took
  <2> QED
    BY <2>1, <2>2 DEF Users!ClientStaysLoggedIn
<1> QED
  BY <1>1, <1>2, <1>3, OrderInvariant, RowsInvariant, TokensInvariant, PTL DEF Spec

-----------------------------------------------------------------------------
(* Users are as told.                                                      *)

\* Who has set the roles of u.
SettersOf(u) == {r \in Users!Done({"setRoles", "create"}) : UserOn[r] = u}

\* Another request has set the roles of the same user since r began.
SetMeanwhile(r) == \E s \in SettersOf(UserOn[r]) \ {r} : s \notin before[r]

(***************************************************************************)
(* A user has the roles that a request has set, sees or is about to leave, *)
(* unless another one has set them meanwhile.                              *)
(***************************************************************************)
RolesInv ==
  /\ DOMAIN snapshot = UserRequest
  /\ \A u \in User : \A q \in SettersOf(u) : SetMeanwhile(q) \/ userRoles[u] = NewRoles[q]
  /\ \A r \in UserRequest :
       userPc[r] = "insertRoles" => SetMeanwhile(r) \/ userRoles[UserOn[r]] = snapshot[r]
  /\ \A r \in UserRequest :
       userPc[r] = "written" => NewRoles[r] = {} /\ (SetMeanwhile(r) \/ userRoles[UserOn[r]] = {})

\* What happens meanwhile stays, and a request that sets roles now does so meanwhile.
LEMMA SetMeanwhileStep ==
  ASSUME OrderInv, NEW r \in UserRequest, Moves(r), NEW q \in UserRequest, userPc[q] \notin {"unsent", "start"}
  PROVE  /\ SetMeanwhile(q) => SetMeanwhile(q)'
         /\ q # r /\ r \in Users!Done({"setRoles", "create"})' /\ UserOn[q] = UserOn[r] => SetMeanwhile(q)'
<1>1. before'[q] = before[q] /\ before[q] \subseteq Answered /\ r \notin Answered
  BY AnswersStay DEF OrderInv, ProgressInv, Moves
<1>2. SettersOf(UserOn[q]) \subseteq SettersOf(UserOn[q])'
  BY DoneStep DEF SettersOf
<1>3. r \in Users!Done({"setRoles", "create"})' /\ UserOn[q] = UserOn[r] => r \in SettersOf(UserOn[q])'
  BY DEF SettersOf
<1> QED
  BY <1>1, <1>2, <1>3 DEF SetMeanwhile

\* What InsertRoles writes if it is not refused.
LEMMA InsertRolesWrites ==
  ASSUME OrderInv, RowsInv, NEW r \in UserRequest, Users!InsertRoles(r), Users!Succeeded(r)'
  PROVE  userRoles' = [userRoles EXCEPT ![UserOn[r]] = (userRoles[UserOn[r]] \ snapshot[r]) \union NewRoles[r]]
<1> DEFINE left == userRoles[UserOn[r]] \ snapshot[r]
<1>1. ~Users!Told(r, "23505") /\ ~Users!Told(r, "23503")
  BY RefusalIsTold DEF Users!Told, Users!Refuse, Users!Finish, Users!Succeeded, OrderInv
<1> QED
  BY <1>1 DEF Users!InsertRoles

\* Every step of a request keeps the invariant.
LEMMA RolesStep ==
  ASSUME OrderInv, RowsInv, RolesInv, NEW r \in UserRequest, Users!Step(r) \/ Users!Fail(r)
  PROVE  RolesInv'
<1> DEFINE setters == {"setRoles", "create"}
<1>1. Moves(r) /\ Writes(r) /\ Arrives(r) /\ Succeeds(r) /\ PlaceInv(r) /\ UserOn[r] \in User
  BY StepMoves, ApplicationAssumption DEF OrderInv, ProgressInv, Users!IdentityAssumption
<1>2. DOMAIN snapshot' = UserRequest /\ \A q \in UserRequest \ {r} : snapshot'[q] = snapshot[q]
  BY <1>1 DEF RolesInv, Writes, Users!DeleteRoles, Users!DeletePermissions
<1>3. ASSUME NEW u \in User, NEW q \in SettersOf(u)', q # r
      PROVE  q \in SettersOf(u) /\ userPc[q] = "done" /\ q \in UserRequest
  <2>1. q \in Users!Done(setters)' /\ UserOn[q] = u
    BY <1>3 DEF SettersOf
  <2>2. q \in Users!Done(setters) /\ q \in Answered
    BY <1>1, <1>3, <2>1, DoneStep
  <2> QED
    BY <1>1, <2>1, <2>2, AnswersStay DEF SettersOf, Answered
<1>4. CASE Users!InsertRoles(r) /\ Users!Succeeded(r)'
  <2>1. /\ userPc[r] = "insertRoles" /\ userPc'[r] = "done"
        /\ userRoles' = [userRoles EXCEPT ![UserOn[r]] = (userRoles[UserOn[r]] \ snapshot[r]) \union NewRoles[r]]
    BY <1>1, <1>4, InsertRolesWrites DEF Users!InsertRoles, Moves, Users!Succeeded, OrderInv, ProgressInv
  <2>2. r \in Users!Done(setters)'
    BY <1>1, <1>4, <2>1 DEF PlaceInv, Places, Users!Done
  <2>3. ASSUME NEW u \in User, NEW q \in SettersOf(u)'
        PROVE  SetMeanwhile(q)' \/ userRoles'[u] = NewRoles[q]
    <3>1. CASE q = r
      <4>1. u = UserOn[r]
        BY <2>3, <3>1 DEF SettersOf
      <4>2. SetMeanwhile(r) => SetMeanwhile(r)'
        BY <1>1, <2>1, SetMeanwhileStep
      <4>3. SetMeanwhile(r) \/ userRoles[u] = snapshot[r]
        BY <2>1, <4>1 DEF RolesInv
      <4> QED
        BY <2>1, <3>1, <4>1, <4>2, <4>3 DEF RowsInv
    <3>2. CASE q # r
      <4>1. q \in SettersOf(u) /\ userPc[q] = "done" /\ q \in UserRequest
        BY <1>3, <2>3, <3>2
      <4>2. SetMeanwhile(q) => SetMeanwhile(q)'
        BY <1>1, <4>1, SetMeanwhileStep
      <4>3. UserOn[q] = UserOn[r] => SetMeanwhile(q)'
        BY <1>1, <2>2, <3>2, <4>1, SetMeanwhileStep
      <4>4. u # UserOn[r] => userRoles'[u] = userRoles[u]
        BY <2>1 DEF RowsInv
      <4> QED
        BY <4>1, <4>2, <4>3, <4>4 DEF RolesInv, SettersOf
    <3> QED
      BY <3>1, <3>2
  <2>4. ASSUME NEW q \in UserRequest, userPc'[q] \in {"insertRoles", "written"}
        PROVE  /\ SetMeanwhile(q)' \/ (~SetMeanwhile(q) /\ userRoles'[UserOn[q]] = userRoles[UserOn[q]])
               /\ userPc[q] = userPc'[q] /\ snapshot'[q] = snapshot[q]
    <3>1. q # r /\ userPc[q] = userPc'[q] /\ snapshot'[q] = snapshot[q]
      BY <1>1, <1>2, <2>1, <2>4 DEF Moves
    <3>2. SetMeanwhile(q) => SetMeanwhile(q)'
      BY <1>1, <2>4, <3>1, SetMeanwhileStep
    <3>3. UserOn[q] = UserOn[r] => SetMeanwhile(q)'
      BY <1>1, <2>2, <2>4, <3>1, SetMeanwhileStep
    <3>4. UserOn[q] # UserOn[r] => userRoles'[UserOn[q]] = userRoles[UserOn[q]]
      BY <2>1, ApplicationAssumption DEF RowsInv, Users!IdentityAssumption
    <3> QED
      BY <3>1, <3>2, <3>3, <3>4
  <2> QED
    BY <1>2, <2>3, <2>4 DEF RolesInv
<1>5. CASE ~(Users!InsertRoles(r) /\ Users!Succeeded(r)')
  <2>1. userRoles' = userRoles
    <3>1. CASE Users!InsertRoles(r)
      <4>1. userRoles' # userRoles => Users!Succeeded(r)'
        BY <1>1, <3>1 DEF Users!InsertRoles, Users!Told, Users!Refuse, Users!Finish, Users!Succeeded,
          OrderInv, Users!accessVars
      <4> QED
        BY <1>5, <3>1, <4>1
    <3> QED
      BY <1>1, <3>1 DEF Writes
  <2>2. ASSUME NEW u \in User, NEW q \in SettersOf(u)'
        PROVE  SetMeanwhile(q)' \/ userRoles'[u] = NewRoles[q]
    <3>1. CASE q # r
      <4>1. q \in SettersOf(u) /\ userPc[q] = "done" /\ q \in UserRequest
        BY <1>3, <2>2, <3>1
      <4>2. SetMeanwhile(q) => SetMeanwhile(q)'
        BY <1>1, <4>1, SetMeanwhileStep
      <4> QED
        BY <2>1, <4>1, <4>2 DEF RolesInv
    <3>2. CASE q = r
      <4>1. UserOn[r] = u /\ UserOp[r] \in setters /\ Users!Succeeded(r)' /\ userPc'[r] = "done"
        BY <1>1, <2>2, <3>2 DEF SettersOf, Users!Done, Users!Succeeded, Moves, OrderInv, ProgressInv
      <4>2. Users!CreatedWithoutRoles(r)
        BY <1>1, <1>5, <4>1 DEF Succeeds
      <4>3. userPc[r] = "written"
        BY <4>2 DEF Users!CreatedWithoutRoles
      <4>4. NewRoles[r] = {} /\ (SetMeanwhile(r) \/ userRoles[u] = {})
        BY <4>1, <4>3 DEF RolesInv
      <4>5. SetMeanwhile(r) => SetMeanwhile(r)'
        BY <1>1, <4>3, SetMeanwhileStep
      <4> QED
        BY <2>1, <3>2, <4>4, <4>5
    <3> QED
      BY <3>1, <3>2
  <2>3. ASSUME NEW q \in UserRequest, userPc'[q] = "insertRoles"
        PROVE  SetMeanwhile(q)' \/ userRoles'[UserOn[q]] = snapshot'[q]
    <3>1. CASE q # r
      <4>1. userPc[q] = "insertRoles" /\ snapshot'[q] = snapshot[q]
        BY <1>1, <1>2, <2>3, <3>1 DEF Moves
      <4>2. SetMeanwhile(q) => SetMeanwhile(q)'
        BY <1>1, <4>1, SetMeanwhileStep
      <4> QED
        BY <2>1, <4>1, <4>2 DEF RolesInv
    <3>2. CASE q = r
      BY <1>1, <2>1, <2>3, <3>2 DEF Arrives, Users!DeleteRoles, RolesInv
    <3> QED
      BY <3>1, <3>2
  <2>4. ASSUME NEW q \in UserRequest, userPc'[q] = "written"
        PROVE  NewRoles[q] = {} /\ (SetMeanwhile(q)' \/ userRoles'[UserOn[q]] = {})
    <3>1. CASE q # r
      <4>1. userPc[q] = "written"
        BY <1>1, <2>4, <3>1 DEF Moves
      <4>2. SetMeanwhile(q) => SetMeanwhile(q)'
        BY <1>1, <4>1, SetMeanwhileStep
      <4> QED
        BY <2>1, <4>1, <4>2 DEF RolesInv
    <3>2. CASE q = r
      <4>1. NewRoles[r] = {} /\ UserOn[r] \notin users
        BY <1>1, <2>4, <3>2 DEF Arrives, Users!InsertUser, Users!Told, Users!Refuse, Users!Finish,
          Users!Goto, OrderInv
      <4> QED
        BY <1>1, <2>1, <3>2, <4>1 DEF RowsInv
    <3> QED
      BY <3>1, <3>2
  <2> QED
    BY <1>2, <2>2, <2>3, <2>4 DEF RolesInv
<1> QED
  BY <1>4, <1>5

\* q creates the user of r too, or sets its roles or deletes a role at the same time.
Hinders(q, r) ==
  \/ UserOp[q] = "create" /\ UserOn[q] = UserOn[r] /\ q \in Users!Begun
  \/ UserOp[q] = "setRoles" /\ UserOn[q] = UserOn[r] /\ Users!Overlap(r, q)
  \/ UserOp[q] = "deleteRole" /\ Users!Overlap(r, q)

\* Another request may keep the creation r from succeeding.
Hindered(r) == \E q \in UserRequest \ {r} : Hinders(q, r)

\* A new user was stored by a creation, which has found its roles: they are there unless deleted meanwhile.
RefusedInv ==
  /\ Users!RefusedUserIsNotThere
  /\ \A u \in users \ Staff : \E q \in UserRequest :
       UserOp[q] = "create" /\ UserOn[q] = u /\ userPc[q] \notin {"unsent", "start", "insert"}
  /\ \A r \in UserRequest :
       UserOp[r] = "create" /\ userPc[r] \in {"insert", "written", "deleteRoles", "insertRoles"} =>
         NewRoles[r] \subseteq roles \/ Hindered(r)

\* The steps of the creation of a user.
LEMMA CreateSteps ==
  ASSUME NEW r \in UserRequest, UserOp[r] = "create", PlaceInv(r), Users!Step(r) \/ Users!Fail(r)
  PROVE  \/ Users!CreateUser(r) \/ Users!InsertUser(r) \/ Users!DeleteRoles(r) \/ Users!InsertRoles(r)
         \/ Users!CreatedWithoutRoles(r) \/ Users!Fail(r)
<1> USE DEF PlaceInv, Places, Users!At
<1>1. ~(\/ Users!Login(r) \/ Users!FindToken(r) \/ Users!RevokeToken(r) \/ Users!FindUser(r) \/ Users!IssueTokens(r)
        \/ Users!Logout(r) \/ Users!ForgotPassword(r) \/ Users!FindCode(r) \/ Users!ConsumeCode(r)
        \/ Users!ChangePassword(r) \/ Users!UpdatePasswordHash(r) \/ Users!RevokeAllForUser(r))
  BY DEF Users!Login, Users!FindToken, Users!RevokeToken, Users!FindUser, Users!IssueTokens, Users!Logout,
    Users!ForgotPassword, Users!FindCode, Users!ConsumeCode, Users!ChangePassword,
    Users!UpdatePasswordHash, Users!RevokeAllForUser, Users!Refresher
<1>2. ~(\/ Users!UpdateUser(r) \/ Users!SetUserRoles(r) \/ Users!CountAdmins(r) \/ Users!WriteUser(r)
        \/ Users!ResetUserPassword(r) \/ Users!CreateRole(r) \/ Users!UpdateRole(r) \/ Users!SetRolePermissions(r)
        \/ Users!DeletePermissions(r) \/ Users!InsertPermissions(r) \/ Users!DeleteRole(r))
  BY DEF Users!UpdateUser, Users!SetUserRoles, Users!CountAdmins, Users!WriteUser, Users!ResetUserPassword,
    Users!CreateRole, Users!UpdateRole, Users!SetRolePermissions, Users!DeletePermissions,
    Users!InsertPermissions, Users!DeleteRole
<1> QED
  BY <1>1, <1>2 DEF Users!Step

\* Who hinders a request goes on to do so.
LEMMA HinderedStays ==
  ASSUME OrderInv, NEW r \in UserRequest, Moves(r), NEW p \in UserRequest, Hindered(p)
  PROVE  Hindered(p)'
<1>1. PICK q \in UserRequest \ {p} : Hinders(q, p)
  BY DEF Hindered
<1>2. Users!Overlap(p, q) => Users!Overlap(p, q)'
  BY OverlapStays
<1>3. Users!Begun \subseteq Users!Begun'
  BY DEF Users!Begun, Moves
<1> QED
  BY <1>1, <1>2, <1>3 DEF Hindered, Hinders

\* A creation that is refused is hindered, if its user is there.
LEMMA RefusedIsHindered ==
  ASSUME OrderInv, RowsInv, RolesInv, RefusedInv, NEW r \in UserRequest, Users!Step(r) \/ Users!Fail(r),
         UserOp[r] = "create", userReply'[r] \in {404, 409}, UserOn[r] \in users' \ Staff
  PROVE  Hindered(r)'
<1>1. Moves(r) /\ Writes(r) /\ PlaceInv(r) /\ userReply[r] = 0 /\ r \notin Answered
  BY StepMoves, AnswersStay DEF OrderInv, ProgressInv, Moves
<1>2. ASSUME UserOn[r] \in users, userPc[r] \in {"start", "insert"}  PROVE Hindered(r)'
  <2>1. PICK q \in UserRequest : /\ UserOp[q] = "create" /\ UserOn[q] = UserOn[r]
                                 /\ userPc[q] \notin {"unsent", "start", "insert"}
    BY <1>2 DEF RefusedInv
  <2>2. q # r /\ q \in Users!Begun'
    BY <1>1, <1>2, <2>1 DEF Users!Begun, Moves
  <2> QED
    BY <2>1, <2>2 DEF Hindered, Hinders
<1>3. CASE Users!CreateUser(r)
  BY <1>2, <1>3 DEF Users!CreateUser, Users!At, Users!Told, Users!Refuse, Users!Passes, Users!accessVars
<1>4. CASE Users!InsertUser(r)
  <2>1. UserOn[r] \in users
    BY <1>1, <1>4 DEF Users!InsertUser, Users!Goto
  <2> QED
    BY <1>2, <1>4, <2>1 DEF Users!InsertUser, Users!At
<1>5. CASE Users!InsertRoles(r)
  <2>1. userPc[r] = "insertRoles" /\ UNCHANGED roles
    BY <1>5 DEF Users!InsertRoles, Users!Told, Users!Refuse, Users!accessVars
  <2>2. userRoles[UserOn[r]] # snapshot[r] \/ ~(NewRoles[r] \subseteq roles)
    BY <1>1, <1>5 DEF Users!InsertRoles, Users!RolesExist, Users!Finish, OrderInv
  <2>3. CASE ~(NewRoles[r] \subseteq roles)
    BY <1>1, <2>1, <2>3, HinderedStays DEF RefusedInv
  <2>4. CASE SetMeanwhile(r)
    <3>1. PICK s \in SettersOf(UserOn[r]) \ {r} : s \notin before[r]
      BY <2>4 DEF SetMeanwhile
    <3>2. /\ s \in UserRequest /\ UserOp[s] \in {"setRoles", "create"} /\ UserOn[s] = UserOn[r] /\ s \in Answered
      BY <3>1 DEF SettersOf, Users!Done, Users!Succeeded, Answered
    <3>3. r \notin before[s] /\ {r, s} \subseteq Users!Begun
      BY <1>1, <2>1, <3>2, AnswersStay DEF Users!Begun
    <3>4. Users!Overlap(r, s)
      BY <3>1, <3>3 DEF Users!Overlap
    <3>5. Hindered(r)
      BY <3>1, <3>2, <3>3, <3>4 DEF Hindered, Hinders
    <3> QED
      BY <1>1, <3>5, HinderedStays
  <2> QED
    BY <2>1, <2>2, <2>3, <2>4 DEF RolesInv
<1>6. ~Users!DeleteRoles(r)
  BY <1>1 DEF Users!DeleteRoles, Users!Passes, Users!Goto
<1>7. ~Users!CreatedWithoutRoles(r) /\ ~Users!Fail(r)
  BY <1>1 DEF Users!CreatedWithoutRoles, Users!Fail, Users!Refuse, Users!Finish, OrderInv
<1> QED
  BY <1>1, <1>3, <1>4, <1>5, <1>6, <1>7, CreateSteps

\* Every step of a request keeps the invariant.
LEMMA RefusedStep ==
  ASSUME OrderInv, RowsInv, RolesInv, RefusedInv, NEW r \in UserRequest, Users!Step(r) \/ Users!Fail(r)
  PROVE  RefusedInv'
<1>1. Moves(r) /\ Writes(r) /\ Arrives(r) /\ PlaceInv(r)
  BY StepMoves DEF OrderInv, ProgressInv
<1>2. \/ users' = users
      \/ /\ users' = users \union {UserOn[r]}
         /\ UserOp[r] = "create" /\ userPc[r] = "insert" /\ userPc'[r] # "insert"
  BY <1>1 DEF Writes, Users!InsertUser, Users!At, Users!Told, Users!Refuse, Users!accessVars, Users!Goto,
    OrderInv
<1>3. ASSUME NEW p \in UserRequest, UserOp[p] = "create", userReply'[p] \in {404, 409}, UserOn[p] \in users' \ Staff
      PROVE  Hindered(p)'
  <2>1. CASE p = r
    BY <1>3, <2>1, RefusedIsHindered
  <2>2. CASE p # r /\ UserOn[p] \in users
    <3>1. userReply[p] \in {404, 409}
      BY <1>1, <1>3, <2>2 DEF Moves
    <3>2. Hindered(p)
      BY <1>3, <2>2, <3>1 DEF RefusedInv, Users!RefusedUserIsNotThere, Hindered, Hinders
    <3> QED
      BY <1>1, <3>2, HinderedStays
  <2>3. CASE p # r /\ UserOn[p] \notin users
    <3>1. UserOp[r] = "create" /\ UserOn[r] = UserOn[p] /\ r \in Users!Begun'
      BY <1>1, <1>2, <1>3, <2>3 DEF Users!Begun, Moves
    <3> QED
      BY <2>3, <3>1 DEF Hindered, Hinders
  <2> QED
    BY <2>1, <2>2, <2>3
<1>4. ASSUME NEW u \in users' \ Staff
      PROVE  \E q \in UserRequest :
               UserOp[q] = "create" /\ UserOn[q] = u /\ userPc'[q] \notin {"unsent", "start", "insert"}
  <2>1. CASE u \in users
    <3>1. PICK q \in UserRequest : /\ UserOp[q] = "create" /\ UserOn[q] = u
                                   /\ userPc[q] \notin {"unsent", "start", "insert"}
      BY <1>4, <2>1 DEF RefusedInv
    <3>2. userPc'[q] \notin {"unsent", "start", "insert"}
      BY <1>1, <3>1 DEF Moves, Arrives, Users!CreateUser, Users!At
    <3> QED
      BY <3>1, <3>2
  <2>2. CASE u \notin users
    BY <1>1, <1>2, <1>4, <2>2 DEF Moves
  <2> QED
    BY <2>1, <2>2
<1>5. ASSUME NEW p \in UserRequest, UserOp[p] = "create",
             userPc'[p] \in {"insert", "written", "deleteRoles", "insertRoles"}
      PROVE  NewRoles[p] \subseteq roles' \/ Hindered(p)'
  <2>1. CASE Users!CreateUser(r) /\ p = r
    BY <1>5, <2>1 DEF Users!CreateUser, Users!RolesExist, Users!Told, Users!Refuse, Users!Finish,
      Users!Passes,
      Users!accessVars, OrderInv
  <2>2. CASE userPc[p] \in {"insert", "written", "deleteRoles", "insertRoles"}
    <3>1. Hindered(p) => Hindered(p)'
      BY <1>1, HinderedStays
    <3>2. CASE Users!DeleteRole(r)
      <4>1. UserOp[r] = "deleteRole" /\ p # r
        BY <1>5, <3>2 DEF Users!DeleteRole, Users!At
      <4>2. userPc[p] \notin {"unsent", "start"} /\ p \notin Answered
        BY <2>2 DEF OrderInv, ProgressInv, Answered
      <4>3. Users!Overlap(p, r)'
        BY <1>1, <4>1, <4>2, OverlapBegins
      <4> QED
        BY <4>1, <4>3 DEF Hindered, Hinders
    <3>3. CASE ~Users!DeleteRole(r)
      <4>1. roles \subseteq roles'
        BY <1>1, <3>3 DEF Writes, Users!CreateRole, Users!Told, Users!Refuse, Users!accessVars
      <4> QED
        BY <1>5, <2>2, <3>1, <4>1 DEF RefusedInv
    <3> QED
      BY <3>2, <3>3
  <2>3. CASE userPc[p] \notin {"insert", "written", "deleteRoles", "insertRoles"}
    <3>1. p = r
      BY <1>1, <1>5, <2>3 DEF Moves
    <3>2. userPc[r] = "start"
      BY <1>1, <1>5, <2>3, <3>1 DEF Moves, PlaceInv, Places
    <3>3. Users!CreateUser(r)
      BY <1>5, <3>1, <3>2, StepMoves DEF Starts
    <3> QED
      BY <2>1, <3>1, <3>3
  <2> QED
    BY <2>2, <2>3
<1>6. Users!RefusedUserIsNotThere'
  BY <1>3 DEF Users!RefusedUserIsNotThere, Hindered, Hinders
<1> QED
  BY <1>4, <1>5, <1>6 DEF RefusedInv

\* Who has set the permissions of x, and whether x was deleted.
PermittersOf(x) == {r \in Users!Done({"setPermissions"}) : NewRoles[r] = {x}}
Deleted(x)      == \E r \in Users!Done({"deleteRole"}) : NewRoles[r] = {x}

\* The role of r was deleted, or another request has set its permissions since r began.
PermittedMeanwhile(r) ==
  \E x \in NewRoles[r] : Deleted(x) \/ \E s \in PermittersOf(x) \ {r} : s \notin before[r]

(***************************************************************************)
(* A role has the permissions that a request has set or sees, unless       *)
(* another one has set them meanwhile; nobody is on the way to set those   *)
(* of Admin.                                                               *)
(***************************************************************************)
PermissionsInv ==
  /\ DOMAIN snapshot = UserRequest /\ DOMAIN rolePermissions = UserRole
  /\ rolePermissions["Admin"] = InitialPermissions["Admin"]
  /\ \A q \in Users!Done({"setPermissions"}) :
       PermittedMeanwhile(q) \/ rolePermissions[Users!RoleOf(q)] = NewPermissions[q]
  /\ \A r \in UserRequest :
       /\ userPc[r] = "insertPermissions" => PermittedMeanwhile(r) \/ rolePermissions[Users!RoleOf(r)] = snapshot[r]
       /\ userPc[r] \in {"deletePermissions", "insertPermissions"} => NewRoles[r] # {"Admin"}

\* A request on a role is about one role.
LEMMA OneRole ==
  ASSUME NEW r \in UserRequest, UserOp[r] \in {"createRole", "updateRole", "deleteRole", "setPermissions"}
  PROVE  NewRoles[r] = {Users!RoleOf(r)} /\ Users!RoleOf(r) \in UserRole
<1>1. PICK x \in UserRole : NewRoles[r] = {x}
  BY ApplicationAssumption DEF Users!IdentityAssumption
<1>2. (CHOOSE y \in {x} : TRUE) = x
  OBVIOUS
<1> QED
  BY <1>1, <1>2 DEF Users!RoleOf

\* What happens meanwhile stays.
LEMMA PermittedMeanwhileStays ==
  ASSUME OrderInv, NEW r \in UserRequest, Moves(r), NEW q \in UserRequest, userPc[q] \notin {"unsent", "start"},
         PermittedMeanwhile(q)
  PROVE  PermittedMeanwhile(q)'
<1>1. before'[q] = before[q]
  BY DEF Moves
<1>2. \A x : PermittersOf(x) \subseteq PermittersOf(x)' /\ (Deleted(x) => Deleted(x)')
  BY DoneStep DEF PermittersOf, Deleted
<1> QED
  BY <1>1, <1>2 DEF PermittedMeanwhile

\* A request that sets the permissions of a role now, or deletes it, does so meanwhile.
LEMMA PermittedMeanwhileBegins ==
  ASSUME OrderInv, NEW r \in UserRequest, Moves(r), NEW q \in UserRequest, userPc[q] \notin {"unsent", "start"},
         q # r, r \in Users!Done({"setPermissions"})' \/ r \in Users!Done({"deleteRole"})',
         NEW x, NewRoles[r] = {x}, NewRoles[q] = {x}
  PROVE  PermittedMeanwhile(q)'
<1>1. r \notin before'[q]
  BY AnswersStay DEF OrderInv, ProgressInv, Moves
<1>2. CASE r \in Users!Done({"setPermissions"})'
  <2>1. r \in PermittersOf(x)'
    BY <1>2 DEF PermittersOf
  <2> QED
    BY <1>1, <2>1 DEF PermittedMeanwhile
<1>3. CASE r \in Users!Done({"deleteRole"})'
  <2>1. Deleted(x)'
    BY <1>3 DEF Deleted
  <2> QED
    BY <2>1 DEF PermittedMeanwhile
<1> QED
  BY <1>2, <1>3

\* What a request that sets the permissions of a role or deletes it does to them.
LEMMA PermissionsWritten ==
  ASSUME OrderInv, PermissionsInv, NEW r \in UserRequest, Users!Step(r) \/ Users!Fail(r),
         rolePermissions' # rolePermissions
  PROVE  /\ UserOp[r] \in {"setPermissions", "deleteRole"} /\ NewRoles[r] # {"Admin"}
         /\ r \in Users!Done({UserOp[r]})'
         /\ DOMAIN rolePermissions' = UserRole
         /\ \A x \in UserRole \ {Users!RoleOf(r)} : rolePermissions'[x] = rolePermissions[x]
<1>1. Writes(r) /\ PlaceInv(r)
  BY StepMoves DEF OrderInv, ProgressInv
<1>2. CASE Users!DeleteRole(r)
  <2>1. UserOp[r] = "deleteRole" /\ NewRoles[r] \intersect SystemRole = {} /\ "Admin" \in SystemRole
    BY <1>2, ApplicationAssumption DEF Users!DeleteRole, Users!At, Users!Told, Users!Refuse, Users!accessVars,
      Users!IdentityAssumption
  <2>2. rolePermissions' = [rolePermissions EXCEPT ![Users!RoleOf(r)] = {}] /\ Users!Finish(r, 200)
    BY <1>2 DEF Users!DeleteRole, Users!Told, Users!Refuse, Users!accessVars
  <2> QED
    BY <2>1, <2>2 DEF PermissionsInv, OrderInv, Users!Finish, Users!Done, Users!Succeeded
<1>3. CASE Users!InsertPermissions(r)
  <2>1. UserOp[r] = "setPermissions" /\ NewRoles[r] # {"Admin"}
    BY <1>1, <1>3 DEF Users!InsertPermissions, PlaceInv, Places, PermissionsInv
  <2>2. /\ rolePermissions' = [rolePermissions EXCEPT ![Users!RoleOf(r)] =
                                 (rolePermissions[Users!RoleOf(r)] \ snapshot[r]) \union NewPermissions[r]]
        /\ Users!Finish(r, 200)
    BY <1>3 DEF Users!InsertPermissions, Users!Told, Users!Refuse, Users!accessVars
  <2> QED
    BY <2>1, <2>2 DEF PermissionsInv, OrderInv, Users!Finish, Users!Done, Users!Succeeded
<1> QED
  BY <1>1, <1>2, <1>3 DEF Writes

\* Every step of a request keeps the invariant.
LEMMA PermissionsStep ==
  ASSUME OrderInv, PermissionsInv, NEW r \in UserRequest, Users!Step(r) \/ Users!Fail(r)
  PROVE  PermissionsInv'
<1> DEFINE written(q) ==
             \/ PermittedMeanwhile(q)'
             \/ ~PermittedMeanwhile(q) /\ rolePermissions'[Users!RoleOf(q)] = rolePermissions[Users!RoleOf(q)]
<1>1. Moves(r) /\ Writes(r) /\ Arrives(r) /\ Succeeds(r) /\ PlaceInv(r)
  BY StepMoves DEF OrderInv, ProgressInv
<1>2. DOMAIN snapshot' = UserRequest /\ \A q \in UserRequest \ {r} : snapshot'[q] = snapshot[q]
  BY <1>1 DEF PermissionsInv, Writes, Users!DeleteRoles, Users!DeletePermissions
<1>3. DOMAIN rolePermissions' = UserRole /\ rolePermissions'["Admin"] = InitialPermissions["Admin"]
  <2>1. CASE rolePermissions' = rolePermissions
    BY <2>1 DEF PermissionsInv
  <2>2. CASE rolePermissions' # rolePermissions
    <3>1. Users!RoleOf(r) # "Admin" /\ "Admin" \in UserRole
      BY <2>2, PermissionsWritten, OneRole, ApplicationAssumption DEF Users!IdentityAssumption
    <3> QED
      BY <2>2, <3>1, PermissionsWritten DEF PermissionsInv
  <2> QED
    BY <2>1, <2>2
<1>4. ASSUME NEW q \in UserRequest, q # r, userPc[q] \notin {"unsent", "start"}, UserOp[q] = "setPermissions"
      PROVE  written(q)
  <2>1. PermittedMeanwhile(q) => PermittedMeanwhile(q)'
    BY <1>1, <1>4, PermittedMeanwhileStays
  <2>2. CASE rolePermissions' = rolePermissions
    BY <2>1, <2>2
  <2>3. CASE rolePermissions' # rolePermissions
    <3>1. /\ UserOp[r] \in {"setPermissions", "deleteRole"} /\ r \in Users!Done({UserOp[r]})'
          /\ \A x \in UserRole \ {Users!RoleOf(r)} : rolePermissions'[x] = rolePermissions[x]
      BY <2>3, PermissionsWritten
    <3>2. NewRoles[r] = {Users!RoleOf(r)}
      BY <3>1, OneRole
    <3>3. NewRoles[q] = {Users!RoleOf(q)} /\ Users!RoleOf(q) \in UserRole
      BY <1>4, OneRole
    <3>4. Users!RoleOf(q) = Users!RoleOf(r) => PermittedMeanwhile(q)'
      BY <1>1, <1>4, <3>1, <3>2, <3>3, PermittedMeanwhileBegins
    <3> QED
      BY <2>1, <3>1, <3>3, <3>4
  <2> QED
    BY <2>2, <2>3
<1>5. ASSUME NEW q \in Users!Done({"setPermissions"})'
      PROVE  PermittedMeanwhile(q)' \/ rolePermissions'[Users!RoleOf(q)] = NewPermissions[q]
  <2>1. q \in UserRequest /\ UserOp[q] = "setPermissions"
    BY <1>5 DEF Users!Done
  <2>2. CASE q \in Users!Done({"setPermissions"})
    <3>1. q # r /\ userPc[q] = "done"
      BY <1>1, <2>2, DoneStep, AnswersStay
    <3>2. written(q)
      BY <1>4, <2>1, <3>1
    <3> QED
      BY <2>2, <3>2 DEF PermissionsInv
  <2>3. CASE q = r /\ userPc'[r] = "done" /\ Users!Succeeded(r)'
    <3>1. Users!InsertPermissions(r)
      BY <1>1, <2>1, <2>3 DEF Succeeds
    <3>2. ~Users!Told(r, "23505") /\ ~Users!Told(r, "23503")
      BY <2>3, RefusalIsTold DEF Users!Told, Users!Refuse, Users!Finish, Users!Succeeded, OrderInv
    <3>3. /\ userPc[r] = "insertPermissions"
          /\ rolePermissions' = [rolePermissions EXCEPT ![Users!RoleOf(r)] =
                                   (rolePermissions[Users!RoleOf(r)] \ snapshot[r]) \union NewPermissions[r]]
      BY <3>1, <3>2 DEF Users!InsertPermissions
    <3>4. PermittedMeanwhile(r) => PermittedMeanwhile(r)'
      BY <1>1, <3>3, PermittedMeanwhileStays
    <3>5. Users!RoleOf(r) \in UserRole
      BY <2>1, <2>3, OneRole
    <3> QED
      BY <2>3, <3>3, <3>4, <3>5 DEF PermissionsInv
  <2> QED
    BY <1>1, <1>5, <2>2, <2>3, DoneStep
<1>6. ASSUME NEW q \in UserRequest, userPc'[q] = "insertPermissions"
      PROVE  PermittedMeanwhile(q)' \/ rolePermissions'[Users!RoleOf(q)] = snapshot'[q]
  <2>1. CASE q # r
    <3>1. userPc[q] = "insertPermissions" /\ snapshot'[q] = snapshot[q]
      BY <1>1, <1>2, <1>6, <2>1 DEF Moves
    <3>2. UserOp[q] = "setPermissions"
      BY <3>1 DEF OrderInv, ProgressInv, PlaceInv, Places
    <3>3. written(q)
      BY <1>4, <2>1, <3>1, <3>2
    <3> QED
      BY <3>1, <3>3 DEF PermissionsInv
  <2>2. CASE q = r
    BY <1>1, <1>6, <2>2 DEF Arrives, Users!DeletePermissions, Users!Passes, Users!accessVars, PermissionsInv
  <2> QED
    BY <2>1, <2>2
<1>7. ASSUME NEW q \in UserRequest, userPc'[q] \in {"deletePermissions", "insertPermissions"}
      PROVE  NewRoles[q] # {"Admin"}
  <2>1. CASE q # r
    BY <1>1, <1>7, <2>1 DEF Moves, PermissionsInv
  <2>2. CASE q = r /\ Users!SetRolePermissions(r)
    BY <1>7, <2>2 DEF Users!SetRolePermissions, Users!Told, Users!Refuse, Users!Finish, OrderInv
  <2>3. CASE q = r /\ Users!DeletePermissions(r)
    BY <2>3 DEF Users!DeletePermissions, PermissionsInv
  <2> QED
    BY <1>1, <1>7, <2>1, <2>2, <2>3 DEF Arrives
<1> QED
  BY <1>2, <1>3, <1>5, <1>6, <1>7 DEF PermissionsInv

(***************************************************************************)
(* A user has the roles that were set last and a role the permissions, and *)
(* who could not be created is not there, unless requests overlap, for any *)
(* number of users, roles and requests (access.service.ts createUser,      *)
(* setUserRoles, setRolePermissions).                                      *)
(***************************************************************************)
THEOREM AnswersTellOfUsers == Spec => []UsersAreAsTold
<1> DEFINE Inv == RolesInv /\ RefusedInv /\ PermissionsInv
<1>1. Init => Inv
  <2> SUFFICES ASSUME Init  PROVE Inv
    OBVIOUS
  <2>1. PICK w : Users!Begin(w)
    BY DEF Init, Users!Init
  <2>2. \A ops : Users!Done(ops) = {}
    BY <2>1 DEF Users!Begin, Users!Done, Users!Succeeded
  <2>3. /\ \A r \in UserRequest : userPc[r] \in {"start", "unsent"} /\ userReply[r] = 0
        /\ users = Staff /\ DOMAIN snapshot = UserRequest
    BY <2>1 DEF Users!Begin
  <2>4. DOMAIN rolePermissions = UserRole /\ rolePermissions["Admin"] = InitialPermissions["Admin"]
    BY <2>1, ApplicationAssumption DEF Users!Begin, Users!IdentityAssumption
  <2>5. RolesInv
    BY <2>2, <2>3 DEF RolesInv, SettersOf
  <2>6. RefusedInv
    BY <2>3 DEF RefusedInv, Users!RefusedUserIsNotThere
  <2>7. PermissionsInv
    BY <2>2, <2>3, <2>4 DEF PermissionsInv
  <2> QED
    BY <2>5, <2>6, <2>7
<1>2. ASSUME OrderInv, RowsInv, Inv, [Next]_vars  PROVE Inv'
  <2>1. CASE UNCHANGED userVars
    <3>1. /\ \A ops : Users!Done(ops)' = Users!Done(ops)
          /\ \A r, q : Users!Overlap(r, q)' = Users!Overlap(r, q)
          /\ Users!Begun' = Users!Begun
          /\ UNCHANGED <<users, roles, userRoles, rolePermissions, snapshot, before, userPc, userReply>>
      BY <2>1 DEF userVars, Users!Done, Users!Succeeded, Users!Overlap, Users!Begun
    <3>2. RolesInv'
      BY <1>2, <3>1 DEF RolesInv, SettersOf, SetMeanwhile
    <3>3. RefusedInv'
      BY <1>2, <3>1 DEF RefusedInv, Users!RefusedUserIsNotThere, Hindered, Hinders
    <3>4. PermissionsInv'
      BY <1>2, <3>1 DEF PermissionsInv, PermittedMeanwhile, PermittersOf, Deleted
    <3> QED
      BY <3>2, <3>3, <3>4
  <2>2. CASE Users!Next
    BY <1>2, <2>2, RolesStep, RefusedStep, PermissionsStep DEF Users!Next
  <2> QED
    BY <1>2, <2>1, <2>2, UserStep
<1>3. ASSUME Inv  PROVE UsersAreAsTold
  <2>1. Users!RolesAreThoseSetLast
    BY <1>3 DEF RolesInv, Users!RolesAreThoseSetLast, SettersOf, SetMeanwhile
  <2>2. ASSUME NEW x \in roles, NEW q \in PermittersOf(x)
        PROVE  \/ rolePermissions[x] = NewPermissions[q]
               \/ \E r \in PermittersOf(x) \ {q} : r \notin before[q]
               \/ Deleted(x)
    <3>1. /\ q \in Users!Done({"setPermissions"}) /\ q \in UserRequest /\ UserOp[q] = "setPermissions"
          /\ NewRoles[q] = {x}
      BY <2>2 DEF PermittersOf, Users!Done
    <3>2. Users!RoleOf(q) = x
      BY <3>1, OneRole
    <3> QED
      BY <1>3, <3>1, <3>2 DEF PermissionsInv, PermittedMeanwhile
  <2>3. Users!PermissionsAreThoseSetLast
    BY <1>3, <2>2 DEF PermissionsInv, Users!PermissionsAreThoseSetLast, PermittersOf, Deleted
  <2> QED
    BY <1>3, <2>1, <2>3 DEF RefusedInv, UsersAreAsTold, Users!UsersAreAsTold
<1> QED
  BY <1>1, <1>2, <1>3, OrderInvariant, RowsInvariant, PTL DEF Spec

-----------------------------------------------------------------------------
(* Types.                                                                  *)

Replies == {0, 200, 201, 400, 401, 404, 409, 500}

\* The users, their passwords and their roles; only finitely many users are ever active.
AccountTypes ==
  /\ password \in [User -> UserRequest \union {"initial"}]
  /\ roles \subseteq UserRole /\ userRoles \in [User -> SUBSET UserRole]
  /\ rolePermissions \in [UserRole -> SUBSET Permission]
  /\ IsFiniteSet(active)

\* The tokens and codes.
SessionTypes ==
  /\ tokens \subseteq [id : Users!Token, user : User, parent : Users!Token \union {NoToken}]
  /\ revoked \subseteq Users!Token /\ device \in Users!Token \union {NoToken}
  /\ codes \in [User -> Seq(UserRequest)] /\ consumed \subseteq UserRequest
  /\ sent \in [UserRequest -> Users!Token \union {NoToken}]
  /\ \A r \in UserRequest : userPc[r] = "consume" => Credential[r] \in UserRequest

\* What a request has been told, has read and was preceded by.
RequestTypes ==
  /\ userReply \in [UserRequest -> Replies] /\ counted \in [UserRequest -> Nat]
  /\ snapshot \in [UserRequest -> (SUBSET UserRole) \union (SUBSET Permission)]
  /\ before \in [UserRequest -> SUBSET UserRequest]

\* Whatever it is told of is one of the answers there are.
LEMMA AnswerTypes ==
  ASSUME NEW c \in {"users", "roles"}, NEW op, NEW e
  PROVE  Users!Answer(c, op, e) \in Replies
<1>1. \A x \in Users!Service[c] : x.status \in {404, 409}
  BY DEF Users!Service, Users!UsersRules, Users!RolesRules, Users!MapAccessError, Users!Rules
<1>2. Users!Filter(e) \in {200, 400, 409, 500}
  BY DEF Users!Filter
<1> QED
  BY <1>1, <1>2 DEF Users!Answer, Replies

\* Which steps write the other variables, and what a request may be told.
Assigns(r) ==
  /\ userReply' = userReply \/ \E told \in Replies : userReply' = [userReply EXCEPT ![r] = told]
  /\ password' # password => Users!UpdatePasswordHash(r) \/ Users!ResetUserPassword(r)
  /\ codes' # codes => Users!ForgotPassword(r)
  /\ sent' # sent => Users!FindToken(r)
  /\ counted' # counted => Users!CountAdmins(r)
  /\ before' = before \/ before' = [before EXCEPT ![r] = Users!Answered]
  /\ device' \in {device, r, NoToken}

\* A request that gets a token is answered, unless the answer is lost.
LEMMA IssueAnswers ==
  ASSUME NEW r, Users!IssueTokens(r)
  PROVE  /\ Users!Finish(r, 200) \/ Users!Finish(r, 500)
         /\ UNCHANGED <<password, codes, sent, counted, before>>
BY DEF Users!IssueTokens, Users!Lost, Users!accessVars, Users!localVars

\* Every step assigns them so.
LEMMA StepAssigns ==
  ASSUME NEW r \in UserRequest, Users!Step(r) \/ Users!Fail(r)
  PROVE  Assigns(r)
<1> USE DEF Assigns, Users!Begins, Users!Passes, Users!Refuse, Users!Finish, Users!Store, Users!Goto,
    Users!accessVars, Users!tokenVars, Users!localVars, Users!Lost
<1>0. 200 \in Replies /\ 201 \in Replies /\ 400 \in Replies /\ 401 \in Replies /\ 500 \in Replies
  BY DEF Replies
<1>told. ASSUME NEW e, Users!Told(r, e)
      PROVE  /\ \E told \in Replies : userReply' = [userReply EXCEPT ![r] = told]
             /\ device' \in {device, r, NoToken} /\ UNCHANGED <<password, codes>>
  BY <1>told, AnswerTypes DEF Users!Told
<1>1. CASE Users!Login(r)
  BY <1>0, <1>1 DEF Users!Login
<1>2. CASE Users!FindToken(r)
  BY <1>0, <1>2 DEF Users!FindToken
<1>3. CASE Users!RevokeToken(r)
  BY <1>0, <1>3 DEF Users!RevokeToken
<1>4. CASE Users!FindUser(r)
  BY <1>0, <1>4 DEF Users!FindUser
<1>5. CASE Users!IssueTokens(r)
  <2>1. /\ userReply' = [userReply EXCEPT ![r] = 200] \/ userReply' = [userReply EXCEPT ![r] = 500]
        /\ device' \in {device, r, NoToken}
    BY <1>5, IssueAnswers
  <2>2. UNCHANGED <<password, codes, sent, counted, before>>
    BY <1>5, IssueAnswers
  <2> QED
    BY <1>0, <2>1, <2>2
<1>6. CASE Users!Logout(r)
  BY <1>0, <1>6 DEF Users!Logout
<1>7. CASE Users!ForgotPassword(r)
  BY <1>0, <1>7 DEF Users!ForgotPassword
<1>8. CASE Users!FindCode(r)
  BY <1>0, <1>8 DEF Users!FindCode
<1>9. CASE Users!ConsumeCode(r)
  BY <1>0, <1>9 DEF Users!ConsumeCode
<1>10. CASE Users!ChangePassword(r)
  BY <1>0, <1>10 DEF Users!ChangePassword
<1>11. CASE Users!UpdatePasswordHash(r)
  BY <1>0, <1>11 DEF Users!UpdatePasswordHash
<1>12. CASE Users!RevokeAllForUser(r)
  BY <1>0, <1>12 DEF Users!RevokeAllForUser
<1>13. CASE Users!CreateUser(r)
  BY <1>0, <1>told, <1>13 DEF Users!CreateUser
<1>14. CASE Users!InsertUser(r)
  BY <1>0, <1>told, <1>14 DEF Users!InsertUser
<1>15. CASE Users!UpdateUser(r)
  BY <1>0, <1>told, <1>15 DEF Users!UpdateUser
<1>16. CASE Users!SetUserRoles(r)
  BY <1>0, <1>told, <1>16 DEF Users!SetUserRoles
<1>17. CASE Users!CountAdmins(r)
  BY <1>0, <1>told, <1>17 DEF Users!CountAdmins
<1>18. CASE Users!WriteUser(r)
  BY <1>0, <1>18 DEF Users!WriteUser
<1>19. CASE Users!DeleteRoles(r)
  BY <1>0, <1>19 DEF Users!DeleteRoles
<1>20. CASE Users!InsertRoles(r)
  BY <1>0, <1>told, <1>20 DEF Users!InsertRoles
<1>21. CASE Users!CreatedWithoutRoles(r)
  <2>1. /\ userReply' = [userReply EXCEPT ![r] = 201] /\ device' \in {device, r, NoToken}
        /\ UNCHANGED <<password, codes, sent, counted, before>>
    BY <1>21 DEF Users!CreatedWithoutRoles
  <2> QED
    BY <1>0, <2>1
<1>22. CASE Users!ResetUserPassword(r)
  <2> DEFINE told == IF UserOn[r] \in users THEN 200 ELSE Users!Answer("users", "resetPassword", "AccessNotFound")
  <2>1. Users!Answer("users", "resetPassword", "AccessNotFound") \in Replies
    BY AnswerTypes
  <2>2. told \in Replies
    BY <1>0, <2>1
  <2>3. /\ userReply' = [userReply EXCEPT ![r] = told] /\ device' \in {device, r, NoToken}
        /\ before' = [before EXCEPT ![r] = Users!Answered] /\ UNCHANGED <<codes, sent, counted>>
    BY <1>22 DEF Users!ResetUserPassword
  <2> HIDE DEF told
  <2> QED
    BY <1>22, <2>2, <2>3
<1>23. CASE Users!CreateRole(r)
  BY <1>0, <1>told, <1>23 DEF Users!CreateRole
<1>24. CASE Users!UpdateRole(r)
  BY <1>0, <1>told, <1>24 DEF Users!UpdateRole
<1>25. CASE Users!SetRolePermissions(r)
  BY <1>0, <1>told, <1>25 DEF Users!SetRolePermissions
<1>26. CASE Users!DeletePermissions(r)
  BY <1>0, <1>26 DEF Users!DeletePermissions
<1>27. CASE Users!InsertPermissions(r)
  BY <1>0, <1>told, <1>27 DEF Users!InsertPermissions
<1>28. CASE Users!DeleteRole(r)
  BY <1>0, <1>told, <1>28 DEF Users!DeleteRole
<1>29. CASE Users!Fail(r)
  <2>1. /\ userReply' = [userReply EXCEPT ![r] = 500] /\ device' \in {device, r, NoToken}
        /\ UNCHANGED <<password, codes, sent, counted, before>>
    BY <1>29 DEF Users!Fail
  <2> QED
    BY <1>0, <2>1
<1> QED
  BY <1>1, <1>2, <1>3, <1>4, <1>5, <1>6, <1>7, <1>8, <1>9, <1>10, <1>11, <1>12, <1>13, <1>14, <1>15, <1>16,
    <1>17, <1>18, <1>19, <1>20, <1>21, <1>22, <1>23, <1>24, <1>25, <1>26, <1>27, <1>28, <1>29 DEF Users!Step

\* The types of the users and their roles stay.
LEMMA AccountStep ==
  ASSUME OrderInv, RowsInv, AccountTypes, RequestTypes, NEW r \in UserRequest, Users!Step(r) \/ Users!Fail(r)
  PROVE  AccountTypes'
<1>1. Writes(r) /\ Assigns(r) /\ UserOn[r] \in User /\ NewRoles[r] \subseteq UserRole /\ NewPermissions[r] \subseteq Permission
  BY StepMoves, StepAssigns, ApplicationAssumption DEF Users!IdentityAssumption
<1>2. password' \in [User -> UserRequest \union {"initial"}]
  <2>1. password' = password \/ password' = [password EXCEPT ![UserOn[r]] = r]
    BY <1>1 DEF Assigns, Users!UpdatePasswordHash, Users!ResetUserPassword
  <2> QED
    BY <1>1, <2>1 DEF AccountTypes
<1>3. roles' \subseteq UserRole
  BY <1>1 DEF AccountTypes, Writes, Users!CreateRole, Users!DeleteRole, Users!Told, Users!Refuse, Users!accessVars
<1>4. userRoles' \in [User -> SUBSET UserRole]
  <2>1. CASE Users!InsertRoles(r)
    <3>1. userRoles' = userRoles \/ \E S \in SUBSET UserRole : userRoles' = [userRoles EXCEPT ![UserOn[r]] = S]
      <4>1. (userRoles[UserOn[r]] \ snapshot[r]) \union NewRoles[r] \in SUBSET UserRole
        BY <1>1 DEF AccountTypes
      <4> QED
        BY <2>1, <4>1 DEF Users!InsertRoles, Users!Told, Users!Refuse, Users!accessVars
    <3> QED
      BY <3>1 DEF AccountTypes
  <2> QED
    BY <1>1, <2>1 DEF Writes, AccountTypes
<1>5. rolePermissions' \in [UserRole -> SUBSET Permission]
  <2> DEFINE x == Users!RoleOf(r)
  <2>1. CASE Users!InsertPermissions(r)
    <3>1. x \in UserRole
      BY <2>1, OneRole DEF OrderInv, ProgressInv, PlaceInv, Places, Users!InsertPermissions
    <3>2. (rolePermissions[x] \ snapshot[r]) \union NewPermissions[r] \in SUBSET Permission
      BY <1>1, <3>1 DEF AccountTypes
    <3>3. rolePermissions' = rolePermissions
            \/ rolePermissions' = [rolePermissions EXCEPT ![x] = (rolePermissions[x] \ snapshot[r]) \union NewPermissions[r]]
      BY <2>1 DEF Users!InsertPermissions, Users!Told, Users!Refuse, Users!accessVars
    <3> QED
      BY <3>2, <3>3 DEF AccountTypes
  <2>2. CASE Users!DeleteRole(r)
    <3>1. rolePermissions' = rolePermissions \/ rolePermissions' = [rolePermissions EXCEPT ![x] = {}]
      BY <2>2 DEF Users!DeleteRole, Users!Told, Users!Refuse, Users!accessVars
    <3> QED
      BY <3>1 DEF AccountTypes
  <2> QED
    BY <1>1, <2>1, <2>2 DEF Writes, AccountTypes
<1>6. IsFiniteSet(active')
  <2>1. IsFiniteSet(active \union {UserOn[r]})
    BY FS_AddElement DEF AccountTypes
  <2>2. active' \subseteq active \union {UserOn[r]}
    BY <1>1 DEF Writes, Users!InsertUser, Users!WriteUser, Users!Told, Users!Refuse, Users!accessVars
  <2> QED
    BY <2>1, <2>2, FS_Subset
<1> QED
  BY <1>2, <1>3, <1>4, <1>5, <1>6 DEF AccountTypes

\* The types of tokens and codes stay.
LEMMA SessionTypesStep ==
  ASSUME OrderInv, TokensInv, SessionTypes, RequestTypes, NEW r \in UserRequest, Users!Step(r) \/ Users!Fail(r)
  PROVE  SessionTypes'
<1>1. Moves(r) /\ Writes(r) /\ Arrives(r) /\ Assigns(r) /\ UserOn[r] \in User /\ r \in Users!Token
  BY StepMoves, StepAssigns, ApplicationAssumption DEF Users!IdentityAssumption, Users!Token
<1>2. Users!Issued \subseteq Users!Token
  BY DEF SessionTypes, Users!Issued
<1>3. tokens' \subseteq [id : Users!Token, user : User, parent : Users!Token \union {NoToken}]
  <2>1. tokens' = tokens \/ (tokens' = tokens \union {NewToken(r)} /\ userPc[r] = "issue")
    BY TokensStep
  <2>2. CASE userPc[r] = "issue"
    <3>1. UserOp[r] = "login" \/ sent[r] \in Users!Issued
      BY <2>2 DEF TokensInv, OrderInv, ProgressInv, PlaceInv, Places, Users!Refresher
    <3>2. ASSUME NEW id \in Users!Issued  PROVE Users!UserOf(id) \in User
      <4>1. PICK t \in tokens : t.id = id
        BY DEF Users!Issued
      <4>2. Users!UserOf(t.id) = t.user
        BY UserOfToken DEF TokensInv
      <4> QED
        BY <4>1, <4>2 DEF SessionTypes
    <3>3. Subject(r) \in User
      BY <1>1, <3>1, <3>2 DEF Subject
    <3>4. sent[r] \in Users!Token \union {NoToken}
      BY DEF SessionTypes
    <3> QED
      BY <1>1, <2>1, <3>3, <3>4 DEF NewToken, SessionTypes
  <2> QED
    BY <2>1, <2>2 DEF SessionTypes
<1>4. revoked' \subseteq Users!Token
  <2>1. CASE Users!RevokeToken(r)
    BY <1>2, <2>1 DEF Users!RevokeToken, Users!At, TokensInv, SessionTypes
  <2>2. CASE Users!Logout(r)
    BY <1>2, <2>2 DEF Users!Logout, SessionTypes
  <2>3. CASE Users!RevokeAllForUser(r)
    BY <1>2, <2>3 DEF Users!RevokeAllForUser, SessionTypes, Users!Issued
  <2> QED
    BY <1>1, <2>1, <2>2, <2>3 DEF Writes, SessionTypes
<1>5. device' \in Users!Token \union {NoToken}
  BY <1>1 DEF Assigns, SessionTypes
<1>6. codes' \in [User -> Seq(UserRequest)]
  <2>1. codes' = codes \/ codes' = [codes EXCEPT ![UserOn[r]] = Append(codes[UserOn[r]], r)]
    BY <1>1 DEF Assigns, Users!ForgotPassword
  <2>2. Append(codes[UserOn[r]], r) \in Seq(UserRequest)
    BY <1>1 DEF SessionTypes
  <2> QED
    BY <2>1, <2>2 DEF SessionTypes
<1>7. consumed' \subseteq UserRequest
  BY <1>1 DEF Writes, Users!ConsumeCode, Users!At, SessionTypes
<1>8. sent' \in [UserRequest -> Users!Token \union {NoToken}]
  <2>1. sent' = sent \/ \E id \in Users!Issued : sent' = [sent EXCEPT ![r] = id]
    BY <1>1 DEF Assigns, Users!FindToken
  <2> QED
    BY <1>2, <2>1 DEF SessionTypes
<1>9. ASSUME NEW q \in UserRequest, userPc'[q] = "consume"  PROVE Credential[q] \in UserRequest
  <2>1. CASE q # r
    BY <1>1, <1>9, <2>1 DEF Moves, SessionTypes
  <2>2. CASE q = r
    BY <1>1, <1>9, <2>2 DEF Arrives, Users!FindCode, Users!Answered
  <2> QED
    BY <2>1, <2>2
<1> QED
  BY <1>3, <1>4, <1>5, <1>6, <1>7, <1>8, <1>9 DEF SessionTypes

\* The types of what is kept for a request stay.
LEMMA RequestTypesStep ==
  ASSUME OrderInv, AccountTypes, RequestTypes, NEW r \in UserRequest, Users!Step(r) \/ Users!Fail(r)
  PROVE  RequestTypes'
<1>1. Writes(r) /\ Assigns(r) /\ UserOn[r] \in User
  BY StepMoves, StepAssigns, ApplicationAssumption DEF Users!IdentityAssumption
<1>2. userReply' \in [UserRequest -> Replies]
  BY <1>1 DEF Assigns, RequestTypes
<1>3. counted' \in [UserRequest -> Nat]
  <2>1. Users!Cardinality(Users!ActiveAdmins) \in Nat
    <3>1. IsFiniteSet(Users!ActiveAdmins)
      BY FS_Subset DEF AccountTypes, Users!ActiveAdmins
    <3>2. Cardinality(Users!ActiveAdmins) \in Nat
      BY <3>1, FS_CardinalityType
    <3> QED
      BY <3>2 DEF Users!Cardinality, Cardinality
  <2>2. counted' = counted \/ counted' = [counted EXCEPT ![r] = Users!Cardinality(Users!ActiveAdmins)]
    BY <1>1 DEF Assigns, Users!CountAdmins
  <2> QED
    BY <2>1, <2>2 DEF RequestTypes
<1>4. snapshot' \in [UserRequest -> (SUBSET UserRole) \union (SUBSET Permission)]
  <2>1. CASE Users!DeleteRoles(r)
    <3>1. userRoles[UserOn[r]] \in (SUBSET UserRole) \union (SUBSET Permission)
      BY <1>1 DEF AccountTypes
    <3> QED
      BY <2>1, <3>1 DEF Users!DeleteRoles, RequestTypes
  <2>2. CASE Users!DeletePermissions(r)
    <3>1. Users!RoleOf(r) \in UserRole
      BY <2>2, OneRole DEF OrderInv, ProgressInv, PlaceInv, Places, Users!DeletePermissions
    <3>2. rolePermissions[Users!RoleOf(r)] \in (SUBSET UserRole) \union (SUBSET Permission)
      BY <3>1 DEF AccountTypes
    <3> QED
      BY <2>2, <3>2 DEF Users!DeletePermissions, RequestTypes
  <2> QED
    BY <1>1, <2>1, <2>2 DEF Writes, RequestTypes
<1>5. before' \in [UserRequest -> SUBSET UserRequest]
  BY <1>1 DEF Assigns, RequestTypes, Users!Answered
<1> QED
  BY <1>2, <1>3, <1>4, <1>5 DEF RequestTypes

\* The variables of users have their types, at the beginning and after each step.
LEMMA UserTypes == Spec => []Users!TypeOK
<1> DEFINE Types == AccountTypes /\ SessionTypes /\ RequestTypes
<1>1. Init => Types
  <2> SUFFICES ASSUME Init  PROVE Types
    OBVIOUS
  <2>1. PICK w : Users!Begin(w)
    BY DEF Init, Users!Init
  <2>2. Users!IdentityAssumption
    BY ApplicationAssumption
  <2>3. AccountTypes
    <3>1. IsFiniteSet(Staff)
      BY <2>2 DEF Users!IdentityAssumption, Users!IsFiniteSet, IsFiniteSet
    <3>2. roles = DOMAIN InitialPermissions /\ roles \subseteq UserRole
      BY <2>1, <2>2 DEF Users!Begin, Users!IdentityAssumption
    <3>3. rolePermissions \in [UserRole -> SUBSET Permission]
      BY <2>1, <2>2, <3>2 DEF Users!Begin, Users!IdentityAssumption
    <3>4. userRoles \in [User -> SUBSET UserRole]
      BY <2>1, <2>2 DEF Users!Begin, Users!IdentityAssumption
    <3> QED
      BY <2>1, <3>1, <3>2, <3>3, <3>4 DEF Users!Begin, AccountTypes
  <2>4. SessionTypes
    <3>1. Owner \in User /\ FirstToken \in Users!Token
      BY <2>2 DEF Users!IdentityAssumption, Users!Token
    <3> QED
      BY <2>1, <3>1 DEF Users!Begin, SessionTypes
  <2>5. RequestTypes
    BY <2>1 DEF Users!Begin, RequestTypes, Replies
  <2> QED
    BY <2>3, <2>4, <2>5
<1>2. ASSUME OrderInv, RowsInv, TokensInv, Types, [Next]_vars  PROVE Types'
  <2>1. CASE UNCHANGED userVars
    BY <1>2, <2>1 DEF userVars, AccountTypes, SessionTypes, RequestTypes
  <2>2. CASE Users!Next
    <3>1. PICK r \in UserRequest : Users!Step(r) \/ Users!Fail(r)
      BY <2>2 DEF Users!Next
    <3> QED
      BY <1>2, <3>1, AccountStep, SessionTypesStep, RequestTypesStep
  <2> QED
    BY <1>2, <2>1, <2>2, UserStep
<1>3. RowsInv /\ Types => Users!TypeOK
  BY DEF RowsInv, AccountTypes, SessionTypes, RequestTypes, Replies, Users!TypeOK
<1> HIDE DEF Types
<1> QED
  BY <1>1, <1>2, <1>3, OrderInvariant, RowsInvariant, TokensInvariant, PTL DEF Spec
=============================================================================
