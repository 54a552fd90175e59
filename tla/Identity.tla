-------------------------------- MODULE Identity --------------------------------
(***************************************************************************)
(* Users, roles, passwords and sessions of one tenant: AuthService and     *)
(* AccessService with their repositories, and the API client that keeps a  *)
(* refresh token on a device.                                              *)
(*                                                                         *)
(* Requests run at the same time.  Each statement commits by itself, save  *)
(* setUserRoles and setRolePermissionsByCodes; a request decides with what *)
(* it has read before.  A password is "initial" or the request that set    *)
(* it; a token or a code is the request that created it.                   *)
(***************************************************************************)
EXTENDS Services, Naturals, Sequences, FiniteSets

CONSTANTS
  User, Staff,        \* all users, and those there at the beginning
  Role, SystemRole, Permission,
  InitialRoles,       \* the roles of Staff
  InitialPermissions, \* the permissions of the roles there at the beginning
  FirstToken,         \* the refresh token of a device, and whose it is
  Owner,
  Request,
  Workloads,          \* which requests run at the same time
  Op, By, On,         \* operation, acting user and subject of each request
  NewRoles,           \* roles that it sets, or the one role it is about
  NewPermissions,     \* permissions that it sets
  Password,           \* password that its sender knows
  Credential,         \* refresh token or code that it presents
  NoToken

Token == Request \union {FirstToken}

IdentityAssumption ==
  /\ Staff \subseteq User /\ Owner \in Staff /\ SystemRole \subseteq Role /\ "Admin" \in SystemRole
  /\ InitialRoles \in [Staff -> SUBSET Role] /\ \E u \in Staff : "Admin" \in InitialRoles[u]
  /\ IsFiniteSet(Staff) /\ \A x \in DOMAIN InitialPermissions : InitialPermissions[x] \subseteq Permission
  /\ Workloads \subseteq SUBSET Request
  /\ By \in [Request -> User] /\ On \in [Request -> User] /\ NewRoles \in [Request -> SUBSET Role]
  /\ NewPermissions \in [Request -> SUBSET Permission]
  /\ SystemRole \subseteq DOMAIN InitialPermissions /\ DOMAIN InitialPermissions \subseteq Role
  /\ Password \in [Request -> Request \union {"initial"}]
  /\ Credential \in [Request -> Token \union {NoToken}]
  /\ \A r \in Request :
       Op[r] \in {"createRole", "updateRole", "deleteRole", "setPermissions"} => \E x \in Role : NewRoles[r] = {x}
  /\ FirstToken \notin Request /\ NoToken \notin Token

VARIABLES
  users, active,      \* rows of users, and those with is_active
  password,
  roles,              \* roles of the tenant
  userRoles, rolePermissions,
  tokens,             \* refresh tokens: [id, user, parent], parent being the one it replaces
  revoked,
  codes,              \* one-time codes of each user, in the order of created_at
  consumed,
  device,             \* the refresh token stored on the device, NoToken after a log-out
  pc, reply,
  sent,               \* the credential a request has presented
  counted,            \* what a request has counted
  snapshot,           \* the rows its DELETE sees
  before              \* the requests that were answered before it began

accessVars == <<users, active, password, roles, userRoles, rolePermissions>>
tokenVars  == <<tokens, revoked, codes, consumed, device>>
localVars  == <<sent, counted, snapshot, before>>
vars       == <<accessVars, tokenVars, pc, reply, localVars>>

\* At the beginning, the requests of w are about to come.
Begin(w) ==
  /\ users = Staff /\ active = Staff
  /\ password = [u \in User |-> "initial"]
  /\ roles = DOMAIN InitialPermissions
  /\ rolePermissions = [x \in Role |-> IF x \in roles THEN InitialPermissions[x] ELSE {}]
  /\ userRoles = [u \in User |-> IF u \in Staff THEN InitialRoles[u] ELSE {}]
  /\ tokens = {[id |-> FirstToken, user |-> Owner, parent |-> NoToken]} /\ revoked = {}
  /\ codes = [u \in User |-> <<>>] /\ consumed = {}
  /\ device = FirstToken
  /\ pc = [r \in Request |-> IF r \in w THEN "start" ELSE "unsent"]
  /\ reply = [r \in Request |-> 0]
  /\ sent = [r \in Request |-> NoToken]
  /\ counted = [r \in Request |-> 0]
  /\ snapshot = [r \in Request |-> {}]
  /\ before = [r \in Request |-> {}]

Init == \E w \in Workloads : Begin(w)

Answered == {r \in Request : reply[r] # 0}
Succeeded(r) == reply[r] \in {200, 201}
At(r, ops, l) == Op[r] \in ops /\ pc[r] = l

Goto(r, l) == pc' = [pc EXCEPT ![r] = l] /\ UNCHANGED reply

\* What the API client does with the answer to its refresh: it stores the new token, or it
\* clears its storage and the user has to log in again.
\* Variant: the new token is not stored.
Store_KeepsOld(r, status) ==
  device' = IF Op[r] = "deviceRefresh" /\ status # 200 THEN NoToken ELSE device

Store(r, status) ==
  device' = IF Op[r] # "deviceRefresh" THEN device ELSE IF status = 200 THEN r ELSE NoToken

Finish(r, status) ==
  /\ pc' = [pc EXCEPT ![r] = "done"]
  /\ reply' = [reply EXCEPT ![r] = status]
  /\ Store(r, status)

Refuse(r, status) ==
  /\ Finish(r, status)
  /\ UNCHANGED <<accessVars, tokens, revoked, codes, consumed>>

Begins(r) == before' = [before EXCEPT ![r] = Answered]

\* A read on which nothing but the way of the request depends.
Passes(r, l) == Goto(r, l) /\ UNCHANGED <<accessVars, tokenVars>>

-----------------------------------------------------------------------------
(* AuthService.                                                            *)

\* findByEmail and the comparison of the password; touchLastLogin changes nothing else.
Login(r) ==
  /\ At(r, {"login"}, "start") /\ Begins(r)
  /\ IF On[r] \in active /\ password[On[r]] = Password[r] THEN Passes(r, "issue") ELSE Refuse(r, 401)
  /\ UNCHANGED <<sent, counted, snapshot>>

Refresher == {"refresh", "deviceRefresh"}

\* A client presents a token that it was given, the device the one in its storage.
Presented(r) == IF Op[r] = "deviceRefresh" THEN device ELSE Credential[r]
Issued       == {t.id : t \in tokens}
UserOf(id)   == (CHOOSE t \in tokens : t.id = id).user

FindToken(r) ==
  /\ At(r, Refresher, "start") /\ Presented(r) \in Issued /\ Begins(r)
  /\ sent' = [sent EXCEPT ![r] = Presented(r)]
  /\ IF Presented(r) \notin revoked THEN Passes(r, "revoke") ELSE Refuse(r, 401)
  /\ UNCHANGED <<counted, snapshot>>

\* Variant: the presented token is not revoked.
RevokeToken_Forgotten(r) ==
  /\ At(r, Refresher, "revoke")
  /\ Passes(r, "findUser")
  /\ UNCHANGED localVars

RevokeToken(r) ==
  /\ At(r, Refresher, "revoke")
  /\ revoked' = revoked \union {sent[r]}
  /\ Goto(r, "findUser")
  /\ UNCHANGED <<accessVars, tokens, codes, consumed, device, localVars>>

FindUser(r) ==
  /\ At(r, Refresher, "findUser")
  /\ IF UserOf(sent[r]) \in active THEN Passes(r, "issue") ELSE Refuse(r, 401)
  /\ UNCHANGED localVars

\* A failure of the server, and all that a client knows that gets no answer.
Lost == 500

\* issueTokens: the roles are read, then the refresh token is inserted.  The answer may be lost.
IssueTokens(r) ==
  LET user == IF Op[r] = "login" THEN On[r] ELSE UserOf(sent[r])
  IN  /\ At(r, Refresher \union {"login"}, "issue")
      /\ tokens' = tokens \union {[id |-> r, user |-> user, parent |-> sent[r]]}
      /\ \E status \in {200, Lost} : Finish(r, status)
      /\ UNCHANGED <<accessVars, revoked, codes, consumed, localVars>>

Logout(r) ==
  /\ At(r, {"logout"}, "start") /\ Begins(r) /\ Credential[r] \in Issued
  /\ revoked' = revoked \union {Credential[r]}
  /\ Finish(r, 200)
  /\ UNCHANGED <<accessVars, tokens, codes, consumed, sent, counted, snapshot>>

\* The answer is the same whether the user exists or not.
ForgotPassword(r) ==
  /\ At(r, {"forgotPassword"}, "start") /\ Begins(r)
  /\ codes' = IF On[r] \in users THEN [codes EXCEPT ![On[r]] = Append(@, r)] ELSE codes
  /\ Finish(r, 200)
  /\ UNCHANGED <<accessVars, tokens, revoked, consumed, sent, counted, snapshot>>

\* findLatestActive: only the newest code that is not consumed is compared.
IsLatestCode(u, c) ==
  \E i \in DOMAIN codes[u] :
    /\ codes[u][i] = c /\ c \notin consumed
    /\ \A j \in DOMAIN codes[u] : j > i => codes[u][j] \in consumed

FindCode(r) ==
  /\ At(r, {"resetPassword"}, "start") /\ Credential[r] \in Answered /\ Begins(r)
  /\ IF IsLatestCode(On[r], Credential[r]) THEN Passes(r, "consume") ELSE Refuse(r, 400)
  /\ UNCHANGED <<sent, counted, snapshot>>

ConsumeCode(r) ==
  /\ At(r, {"resetPassword"}, "consume")
  /\ consumed' = consumed \union {Credential[r]}
  /\ Goto(r, "setPassword")
  /\ UNCHANGED <<accessVars, tokens, revoked, codes, device, localVars>>

ChangePassword(r) ==
  /\ At(r, {"changePassword"}, "start") /\ Begins(r)
  /\ IF password[On[r]] = Password[r] THEN Passes(r, "setPassword") ELSE Refuse(r, 401)
  /\ UNCHANGED <<sent, counted, snapshot>>

UpdatePasswordHash(r) ==
  /\ pc[r] = "setPassword"
  /\ password' = [password EXCEPT ![On[r]] = r]
  /\ Goto(r, "revokeAll")
  /\ UNCHANGED <<users, active, roles, userRoles, rolePermissions, tokenVars, localVars>>

\* Variant: the other sessions go on.
RevokeAllForUser_Forgotten(r) ==
  /\ pc[r] = "revokeAll"
  /\ Refuse(r, 200)
  /\ UNCHANGED localVars

RevokeAllForUser(r) ==
  /\ pc[r] = "revokeAll"
  /\ revoked' = revoked \union {t.id : t \in {t \in tokens : t.user = On[r]}}
  /\ Finish(r, 200)
  /\ UNCHANGED <<accessVars, tokens, codes, consumed, localVars>>

-----------------------------------------------------------------------------
(* AccessService.                                                          *)

RolesOp == [createRole |-> "create", updateRole |-> "update", deleteRole |-> "remove",
            setPermissions |-> "setPermissions"]

Told(r, result) ==
  Refuse(r, IF Op[r] \in DOMAIN RolesOp THEN Answer("roles", RolesOp[Op[r]], result)
            ELSE Answer("users", IF Op[r] = "reactivate" THEN "update" ELSE Op[r], result))

RolesExist(r) == NewRoles[r] \subseteq roles

\* Variant: the selected roles are not looked up.
CreateUser_AnyRoles(r) ==
  /\ At(r, {"create"}, "start") /\ Begins(r)
  /\ IF On[r] \in users THEN Told(r, "DuplicateEmail") ELSE Passes(r, "insert")
  /\ UNCHANGED <<sent, counted, snapshot>>

CreateUser(r) ==
  /\ At(r, {"create"}, "start") /\ Begins(r)
  /\ IF On[r] \in users THEN Told(r, "DuplicateEmail")
     ELSE IF ~RolesExist(r) THEN Told(r, "AccessNotFound") ELSE Passes(r, "insert")
  /\ UNCHANGED <<sent, counted, snapshot>>

\* The row commits before its roles are set.
InsertUser(r) ==
  /\ At(r, {"create"}, "insert")
  /\ IF On[r] \in users THEN Told(r, "23505")
     ELSE /\ users' = users \union {On[r]} /\ active' = active \union {On[r]}
          /\ Goto(r, IF NewRoles[r] = {} THEN "written" ELSE "deleteRoles")
          /\ UNCHANGED <<password, roles, userRoles, rolePermissions, tokenVars>>
  /\ UNCHANGED localVars

IsAdmin(u)   == "Admin" \in userRoles[u]
ActiveAdmins == {u \in active : IsAdmin(u)}

\* updateUser: reactivation is never refused.
UpdateUser(r) ==
  /\ At(r, {"update", "reactivate"}, "start") /\ Begins(r)
  /\ IF On[r] \notin users THEN Told(r, "AccessNotFound")
     ELSE IF Op[r] = "update" /\ On[r] = By[r] THEN Told(r, "SelfModification")
     ELSE Passes(r, IF Op[r] = "update" /\ IsAdmin(On[r]) THEN "count" ELSE "write")
  /\ UNCHANGED <<sent, counted, snapshot>>

SetUserRoles(r) ==
  /\ At(r, {"setRoles"}, "start") /\ Begins(r)
  /\ IF On[r] \notin users \/ ~RolesExist(r) THEN Told(r, "AccessNotFound")
     ELSE IF ~IsAdmin(On[r]) \/ "Admin" \in NewRoles[r] THEN Passes(r, "deleteRoles")
     ELSE IF On[r] = By[r] THEN Told(r, "SelfModification") ELSE Passes(r, "count")
  /\ UNCHANGED <<sent, counted, snapshot>>

\* Variant: an admin too many is let go.
LastAdmin_OffByOne(n) == n < 1

LastAdmin(n) == n <= 1

CountAdmins(r) ==
  LET n == Cardinality(ActiveAdmins)
  IN  /\ pc[r] = "count"
      /\ counted' = [counted EXCEPT ![r] = n]
      /\ IF LastAdmin(n) THEN Told(r, "LastAdmin")
         ELSE Passes(r, IF Op[r] = "update" THEN "write" ELSE "deleteRoles")
      /\ UNCHANGED <<sent, snapshot, before>>

WriteUser(r) ==
  /\ At(r, {"update", "reactivate"}, "write")
  /\ active' = IF Op[r] = "update" THEN active \ {On[r]} ELSE active \union {On[r]}
  /\ Finish(r, 200)
  /\ UNCHANGED <<users, password, roles, userRoles, rolePermissions, tokens, revoked, codes, consumed,
                 localVars>>

\* The transaction of setUserRoles: its DELETE removes the rows it sees when it begins ...
DeleteRoles(r) ==
  /\ pc[r] = "deleteRoles"
  /\ snapshot' = [snapshot EXCEPT ![r] = userRoles[On[r]]]
  /\ Passes(r, "insertRoles")
  /\ UNCHANGED <<sent, counted, before>>

\* ... and the rows that another transaction has inserted since then stay: the primary key
\* refuses one that is there, the foreign key one whose role is gone.
InsertRoles(r) ==
  LET left == userRoles[On[r]] \ snapshot[r]
  IN  /\ pc[r] = "insertRoles"
      /\ IF left \intersect NewRoles[r] # {} THEN Told(r, "23505")
         ELSE IF ~RolesExist(r) THEN Told(r, "23503")
         ELSE /\ userRoles' = [userRoles EXCEPT ![On[r]] = left \union NewRoles[r]]
              /\ Finish(r, IF Op[r] = "create" THEN 201 ELSE 200)
              /\ UNCHANGED <<users, active, password, roles, rolePermissions, tokens, revoked, codes,
                             consumed>>
      /\ UNCHANGED localVars

CreatedWithoutRoles(r) == pc[r] = "written" /\ Refuse(r, 201) /\ UNCHANGED localVars

\* An admin gives a user another password; sessions go on.
ResetUserPassword(r) ==
  /\ At(r, {"resetUserPassword"}, "start") /\ Begins(r)
  /\ password' = IF On[r] \in users THEN [password EXCEPT ![On[r]] = r] ELSE password
  /\ Finish(r, IF On[r] \in users THEN 200 ELSE Answer("users", "resetPassword", "AccessNotFound"))
  /\ UNCHANGED <<users, active, roles, userRoles, rolePermissions, tokens, revoked, codes, consumed,
                 sent, counted, snapshot>>

\* The name of a role is unique.
CreateRole(r) ==
  /\ At(r, {"createRole"}, "start") /\ Begins(r)
  /\ IF RolesExist(r) THEN Told(r, "23505")
     ELSE /\ roles' = roles \union NewRoles[r]
          /\ Finish(r, 201)
          /\ UNCHANGED <<users, active, password, userRoles, rolePermissions, tokens, revoked, codes,
                         consumed>>
  /\ UNCHANGED <<sent, counted, snapshot>>

\* Roles go by their ids here, so another name changes nothing; it may be taken.
UpdateRole(r) ==
  /\ At(r, {"updateRole"}, "start") /\ Begins(r)
  /\ IF ~RolesExist(r) THEN Told(r, "AccessNotFound")
     ELSE IF NewRoles[r] \subseteq SystemRole THEN Told(r, "SystemRole")
     ELSE \E result \in {"ok", "23505"} : Told(r, result)
  /\ UNCHANGED <<sent, counted, snapshot>>

SetRolePermissions(r) ==
  /\ At(r, {"setPermissions"}, "start") /\ Begins(r)
  /\ IF ~RolesExist(r) THEN Told(r, "AccessNotFound")
     ELSE IF NewRoles[r] = {"Admin"} THEN Told(r, "AdminRoleLocked")
     ELSE Passes(r, "deletePermissions")
  /\ UNCHANGED <<sent, counted, snapshot>>

RoleOf(r) == CHOOSE x \in NewRoles[r] : TRUE

\* setRolePermissionsByCodes is a transaction like that of setUserRoles.
DeletePermissions(r) ==
  /\ pc[r] = "deletePermissions"
  /\ snapshot' = [snapshot EXCEPT ![r] = rolePermissions[RoleOf(r)]]
  /\ Passes(r, "insertPermissions")
  /\ UNCHANGED <<sent, counted, before>>

InsertPermissions(r) ==
  LET left == rolePermissions[RoleOf(r)] \ snapshot[r]
  IN  /\ pc[r] = "insertPermissions"
      /\ IF left \intersect NewPermissions[r] # {} THEN Told(r, "23505")
         ELSE IF ~RolesExist(r) /\ NewPermissions[r] # {} THEN Told(r, "23503")
         ELSE /\ rolePermissions' = [rolePermissions EXCEPT ![RoleOf(r)] = left \union NewPermissions[r]]
              /\ Finish(r, 200)
              /\ UNCHANGED <<users, active, password, roles, userRoles, tokens, revoked, codes, consumed>>
      /\ UNCHANGED localVars

\* user_roles keeps a role that somebody has; its permissions go with it.
DeleteRole(r) ==
  /\ At(r, {"deleteRole"}, "start") /\ Begins(r)
  /\ IF ~RolesExist(r) THEN Told(r, "AccessNotFound")
     ELSE IF NewRoles[r] \intersect SystemRole # {} THEN Told(r, "SystemRole")
     ELSE IF \E u \in User : userRoles[u] \intersect NewRoles[r] # {} THEN Told(r, "23503")
     ELSE /\ roles' = roles \ NewRoles[r]
          /\ rolePermissions' = [rolePermissions EXCEPT ![RoleOf(r)] = {}]
          /\ Finish(r, 200)
          /\ UNCHANGED <<users, active, password, userRoles, tokens, revoked, codes, consumed>>
  /\ UNCHANGED <<sent, counted, snapshot>>

\* A statement fails or times out, or the server is restarted.
Fail(r) == pc[r] \notin {"unsent", "start", "done"} /\ Refuse(r, 500) /\ UNCHANGED localVars

Step(r) ==
  \/ Login(r) \/ FindToken(r) \/ RevokeToken(r) \/ FindUser(r) \/ IssueTokens(r) \/ Logout(r)
  \/ ForgotPassword(r) \/ FindCode(r) \/ ConsumeCode(r) \/ ChangePassword(r)
  \/ UpdatePasswordHash(r) \/ RevokeAllForUser(r) \/ CreateUser(r) \/ InsertUser(r)
  \/ UpdateUser(r) \/ SetUserRoles(r) \/ CountAdmins(r) \/ WriteUser(r) \/ DeleteRoles(r)
  \/ InsertRoles(r) \/ CreatedWithoutRoles(r) \/ ResetUserPassword(r) \/ CreateRole(r)
  \/ UpdateRole(r) \/ SetRolePermissions(r) \/ DeletePermissions(r) \/ InsertPermissions(r)
  \/ DeleteRole(r)

Next == \E r \in Request : Step(r) \/ Fail(r)

Spec == Init /\ [][Next]_vars

-----------------------------------------------------------------------------
(* Properties.  Two requests overlap if neither was answered when the      *)
(* other began.                                                            *)

TypeOK ==
  /\ users \subseteq User /\ active \subseteq users
  /\ password \in [User -> Request \union {"initial"}]
  /\ roles \subseteq Role
  /\ userRoles \in [User -> SUBSET Role] /\ rolePermissions \in [Role -> SUBSET Permission]
  /\ tokens \subseteq [id : Token, user : User, parent : Token \union {NoToken}]
  /\ revoked \subseteq Token
  /\ codes \in [User -> Seq(Request)] /\ consumed \subseteq Request
  /\ device \in Token \union {NoToken}
  /\ reply \in [Request -> {0, 200, 201, 400, 401, 404, 409, 500}]
  /\ sent \in [Request -> Token \union {NoToken}]
  /\ counted \in [Request -> Nat]
  /\ snapshot \in [Request -> (SUBSET Role) \union (SUBSET Permission)]
  /\ before \in [Request -> SUBSET Request]

Begun == {r \in Request : pc[r] \notin {"unsent", "start"}}

Overlap(r, q) == {r, q} \subseteq Begun /\ r # q /\ r \notin before[q] /\ q \notin before[r]

Done(ops) == {r \in Request : Op[r] \in ops /\ Succeeded(r)}

(***************************************************************************)
(* "Cannot deactivate the last active Admin", "Cannot remove the Admin     *)
(* role from the last active Admin": there is always one, unless two       *)
(* requests that overlap count the same admins and each take one away.     *)
(* One of them may be the creation of a user that another request has made *)
(* Admin meanwhile: it replaces the roles without a count.                 *)
(***************************************************************************)
AnAdminRemains ==
  ActiveAdmins = {} => \E r, q \in Done({"update", "setRoles", "create"}) : Overlap(r, q)

(***************************************************************************)
(* "The presented token is single-use", and so is a one-time code: it gets *)
(* nothing for a request that begins when another one has been answered    *)
(* with a new session or a new password for it.  (Requests that overlap    *)
(* may both find it unused.)                                               *)
(***************************************************************************)
NothingIsUsedTwice ==
  \A r, q \in Done({"refresh", "deviceRefresh", "resetPassword"}) :
    /\ r \in before[q]
    /\ Op[r] = "resetPassword" <=> Op[q] = "resetPassword"
    => IF Op[r] = "resetPassword" THEN Credential[r] # Credential[q] ELSE sent[r] # sent[q]

(***************************************************************************)
(* A new password ends the sessions of the user: of the tokens issued by   *)
(* requests that were answered before the change began, none can be used   *)
(* once it is answered.  (A refresh that overlaps with the change may      *)
(* still get a token that lives on.)                                       *)
(***************************************************************************)
SessionsEndWithPassword ==
  \A c \in Done({"changePassword", "resetPassword"}), t \in tokens :
    t.user = On[c] /\ t.id \in before[c] \union {FirstToken} => t.id \in revoked

(***************************************************************************)
(* Nobody gets a session from a request that begins after the answer to    *)
(* the deactivation: a refresh token outlives it, but is of no use.        *)
(***************************************************************************)
DeactivatedGetsNoSession ==
  \A q \in Done({"update"}), t \in tokens :
    t.user = On[q] /\ t.id \in Request /\ Done({"reactivate"}) = {} => q \notin before[t.id]

RolesAreThoseSetLast ==
  LET setters(u) == {r \in Done({"setRoles", "create"}) : On[r] = u}
  IN  \A u \in User : \A q \in setters(u) :
        (\A r \in setters(u) \ {q} : r \in before[q]) => userRoles[u] = NewRoles[q]

RefusedUserIsNotThere ==
  \A r \in Request :
    /\ Op[r] = "create" /\ reply[r] \in {404, 409} /\ On[r] \in users \ Staff
    => \E q \in Request \ {r} :
         \/ Op[q] = "create" /\ On[q] = On[r] /\ q \in Begun
         \/ Op[q] = "setRoles" /\ On[q] = On[r] /\ Overlap(r, q)
         \/ Op[q] = "deleteRole" /\ Overlap(r, q)

PermissionsAreThoseSetLast ==
  LET setters(x) == {r \in Done({"setPermissions"}) : NewRoles[r] = {x}}
  IN  /\ \A x \in roles : \A q \in setters(x) :
           \/ rolePermissions[x] = NewPermissions[q]
           \/ \E r \in setters(x) \ {q} : r \notin before[q]
           \/ \E r \in Done({"deleteRole"}) : NewRoles[r] = {x}
      /\ rolePermissions["Admin"] = InitialPermissions["Admin"]

(***************************************************************************)
(* A user is what the answers say.  It has the roles that were set last,   *)
(* unless two requests that overlap each delete the rows they see and      *)
(* insert their own; and one that could not be created does not exist and  *)
(* can be created by a second attempt, unless a role disappears between    *)
(* the two writes, another request gives the new user one of its roles, or *)
(* the request dies there: then the email is taken.  A role has the        *)
(* permissions that were set last, unless it was deleted and created       *)
(* again, Admin what it always had.                                        *)
(* access.service.ts createUser, setUserRoles, setRolePermissions.         *)
(***************************************************************************)
UsersAreAsTold ==
  RolesAreThoseSetLast /\ RefusedUserIsNotThere /\ PermissionsAreThoseSetLast

DeviceRefreshes == {r \in Request : Op[r] = "deviceRefresh"}

\* q was not answered yet when the request that issued the token began.
After(q, id) == id = FirstToken \/ q \notin before[id]

\* Somebody has ended the session: logged out with its token, set another password, deactivated its
\* user, or presented the token from elsewhere.
SessionEnded(id) ==
  \/ \E q \in Done({"logout"}) : Credential[q] = id
  \/ \E q \in Done({"changePassword", "resetPassword", "update"}), t \in tokens :
       t.id = id /\ t.user = On[q] /\ After(q, id)
  \/ \E q \in Begun : Op[q] = "refresh" /\ sent[q] = id /\ pc[q] # "revoke"

Refreshable(id) == id \notin revoked /\ \E t \in tokens : t.id = id /\ t.user \in active

(***************************************************************************)
(* The client that stores the newest token stays logged in.  The token it  *)
(* keeps can be refreshed, however its refreshes overlap, unless the       *)
(* session was ended by somebody else or a refresh with this very token is *)
(* on the way.  And it keeps none only because of the last refresh it has  *)
(* sent or one that overlaps with it: that got no answer from the server   *)
(* (the client takes this for a log-out), or was refused because somebody  *)
(* has ended its session or another refresh of the device was sent with    *)
(* the same token before this one was answered.                            *)
(* api_client.dart _tryRefresh, auth.service.ts refresh.                   *)
(***************************************************************************)
ClientStaysLoggedIn ==
  /\ device # NoToken =>
       \/ Refreshable(device) \/ SessionEnded(device)
       \/ \E r \in DeviceRefreshes : sent[r] = device /\ pc[r] \in {"findUser", "issue"}
  /\ device = NoToken => \E r \in DeviceRefreshes \intersect Answered :
       /\ \A q \in DeviceRefreshes : r \notin before[q]
       /\ \/ reply[r] = Lost
          \/ reply[r] = 401 /\ SessionEnded(sent[r])
          \/ reply[r] = 401 /\ \E q \in DeviceRefreshes : sent[q] = sent[r] /\ Overlap(q, r)
=============================================================================
