---------------------------- MODULE TenantLifecycle ----------------------------
(***************************************************************************)
(* How a company gets its schema: sign-ups (TenantProvisioningService),    *)
(* the migration runner, which a sign-up calls and which also runs from    *)
(* the command line over all tenants, and the pooled connections on which  *)
(* all requests work.                                                      *)
(*                                                                         *)
(* Every statement outside a transaction commits by itself.  pg_dump reads *)
(* a snapshot of tenant_template; psql replays it statement by statement,  *)
(* so others see the new schema grow.  Seeding is one step.                *)
(***************************************************************************)
EXTENDS Routes, FiniteSets

CONSTANTS
  Signup, Runner, ApiRequest,   \* processes: HTTP sign-ups, CLI runs, other requests
  Workloads,                    \* which of them run at the same time
  Code,                         \* company codes
  CodeOf,                       \* the code each sign-up asks for
  FromTenantHost,               \* sign-ups sent to the subdomain of an active tenant
  Connection,                   \* the pool
  Template, Nobody, NoConn

Process == Signup \union Runner \union ApiRequest
Schema  == Code \union {Template}

LifecycleAssumption ==
  /\ Signup \intersect Runner = {} /\ (Signup \union Runner) \intersect ApiRequest = {}
  /\ Workloads \subseteq SUBSET Process /\ IsFiniteSet(Code)
  /\ CodeOf \in [Signup -> Code] /\ FromTenantHost \subseteq Signup
  /\ Template \notin Code /\ NoConn \notin Connection

VARIABLES
  tenants,      \* status of the row of public.tenants of each code
  stage,        \* how much of each schema exists
  hasTable,     \* schemas with a table schema_migrations
  recorded,     \* its rows: "baseline" (all genesis files at once) and names of migrations
  ran,          \* the scripts that have taken effect, in order
  admin,        \* the first user of each tenant: "none", "user", "admin"
  stamp,        \* app.current_user_id of each connection: Nobody or whose request set it
  conn, host,   \* the connection a process works on, and the one its interceptor holds
  pc,
  todo,         \* the schemas a process has still to migrate
  at,           \* which migration it is at
  dumped,       \* whether the dump of a sign-up has a table schema_migrations
  reply         \* the HTTP status of a finished request

dbVars   == <<tenants, stage, hasTable, recorded, ran, admin>>
poolVars == <<stamp, conn, host>>
vars     == <<dbVars, poolVars, pc, todo, at, dumped, reply>>

\* At the beginning, the requests of w are about to come.
Begin(w) ==
  /\ tenants = [c \in Code |-> "absent"]
  /\ stage = [s \in Schema |-> IF s = Template THEN "complete" ELSE "absent"]
  /\ hasTable \in {{}, {Template}}     \* has the runner seen tenant_template before?
  /\ recorded = [s \in Schema |-> IF s \in hasTable THEN {"baseline"} \union Range(Migration) ELSE {}]
  /\ ran = [s \in Schema |-> IF s \in hasTable THEN Migration ELSE <<>>]
  /\ admin = [c \in Code |-> "none"]
  /\ stamp = [k \in Connection |-> Nobody]
  /\ conn = [p \in Process |-> NoConn] /\ host = conn
  /\ pc = [p \in Process |-> IF p \in w THEN "start" ELSE "done"]
  /\ todo = [p \in Process |-> IF p \in Signup THEN <<CodeOf[p]>> ELSE <<>>]
  /\ at = [p \in Process |-> 1]
  /\ dumped = [p \in Signup |-> FALSE]
  /\ reply = [p \in Process |-> 0]

Init == \E w \in Workloads : Begin(w)

Goto(p, l) == pc' = [pc EXCEPT ![p] = l]

-----------------------------------------------------------------------------
(* The pool.                                                               *)

InUse == {conn[p] : p \in Process} \union {host[p] : p \in Process}
Free  == Connection \ InUse

\* A pool.query needs a connection for the time of one statement.
CanQuery == Free # {}

\* Variant: the error path forgets client.release().
Finish_KeepsConnection(p, l, status) ==
  /\ Goto(p, l)
  /\ reply' = [reply EXCEPT ![p] = status]
  /\ UNCHANGED <<conn, host, stamp>>

Finish(p, l, status) ==
  /\ Goto(p, l)
  /\ reply' = [reply EXCEPT ![p] = status]
  /\ conn' = [conn EXCEPT ![p] = NoConn] /\ host' = [host EXCEPT ![p] = NoConn]
  /\ UNCHANGED stamp

\* TenantConnectionInterceptor stamps the user of the request on the connection it takes.
Intercept(p) ==
  /\ p \in ApiRequest /\ pc[p] = "start"
  /\ \E k \in Free : conn' = [conn EXCEPT ![p] = k] /\ stamp' = [stamp EXCEPT ![k] = p]
  /\ Goto(p, "serving")
  /\ UNCHANGED <<dbVars, host, todo, at, dumped, reply>>

Respond(p) ==
  /\ p \in ApiRequest /\ pc[p] = "serving"
  /\ Finish(p, "done", 200)
  /\ UNCHANGED <<dbVars, todo, at, dumped>>

-----------------------------------------------------------------------------
(* MigrationRunnerService.                                                 *)

\* What a sign-up does inside of try.
Trying == {"dump", "clone", "seed", "migrate", "baseline", "record", "next", "apply"}

\* An error ends a sign-up with status 500, after catch has logged it, and a command line altogether.
Throw(p) ==
  /\ IF p \in Signup /\ pc[p] \in Trying
     THEN Goto(p, "logFailure") /\ conn' = [conn EXCEPT ![p] = NoConn] /\ UNCHANGED <<host, stamp, reply>>
     ELSE Finish(p, "failed", 500)
  /\ UNCHANGED <<dbVars, todo, at, dumped>>

\* The template first, then every registered tenant (in any order).
ListTargetSchemas(p) ==
  /\ p \in Runner /\ pc[p] = "start"
  /\ todo' = [todo EXCEPT ![p] = <<Template>> \o SetToSeq({c \in Code : tenants[c] # "absent"})]
  /\ Goto(p, "migrate")
  /\ UNCHANGED <<dbVars, poolVars, at, dumped, reply>>

Target(p)  == Head(todo[p])
Current(p) == Migration[at[p]]

\* CREATE TABLE IF NOT EXISTS; the client is released when migrateSchema ends.
EnsureMigrationsTable(p) ==
  /\ pc[p] = "migrate" /\ stage[Target(p)] # "absent"
  /\ IF p \in Signup THEN \E k \in Free : conn' = [conn EXCEPT ![p] = k] ELSE UNCHANGED conn
  /\ hasTable' = hasTable \union {Target(p)}
  /\ Goto(p, "baseline")
  /\ UNCHANGED <<tenants, stage, recorded, ran, admin, stamp, host, todo, at, dumped, reply>>

NoSchema(p) == pc[p] = "migrate" /\ stage[Target(p)] = "absent" /\ Throw(p)

BaselineNeeded(s) == recorded[s] = {}

(***************************************************************************)
(* A schema that has a table products counts as cloned: the genesis files  *)
(* are recorded in one transaction without being run.  In any other schema *)
(* they are run, and fail: they name tenant_template, where everything     *)
(* they create exists.                                                     *)
(***************************************************************************)
BaselineIfNeeded(p) ==
  LET s == Target(p)
  IN  /\ pc[p] = "baseline"
      /\ BaselineNeeded(s) => stage[s] \in {"products", "complete"}
      /\ Goto(p, IF BaselineNeeded(s) THEN "record" ELSE "next")
      /\ UNCHANGED <<dbVars, poolVars, todo, at, dumped, reply>>

BaselineFails(p) ==
  /\ pc[p] = "baseline" /\ BaselineNeeded(Target(p)) /\ stage[Target(p)] = "created"
  /\ Throw(p)

RecordBaseline(p) ==
  /\ pc[p] = "record" /\ "baseline" \notin recorded[Target(p)]
  /\ recorded' = [recorded EXCEPT ![Target(p)] = @ \union {"baseline"}]
  /\ Goto(p, "next")
  /\ UNCHANGED <<tenants, stage, hasTable, ran, admin, poolVars, todo, at, dumped, reply>>

AlreadyRecorded(p) == pc[p] = "record" /\ "baseline" \in recorded[Target(p)] /\ Throw(p)

\* Is the next file recorded?
NextMigration(p) ==
  /\ pc[p] = "next" /\ at[p] <= Len(Migration)
  /\ IF Current(p) \in recorded[Target(p)]
     THEN at' = [at EXCEPT ![p] = @ + 1] /\ UNCHANGED pc
     ELSE Goto(p, "apply") /\ UNCHANGED at
  /\ UNCHANGED <<dbVars, poolVars, todo, dumped, reply>>

\* Variant: the file is not recorded in the transaction that runs it.
ApplyMigration_Unrecorded(p) ==
  /\ pc[p] = "apply" /\ stage[Target(p)] = "complete"
  /\ ran' = [ran EXCEPT ![Target(p)] = Append(@, Current(p))]
  /\ recorded' = [recorded EXCEPT ![Target(p)] = @ \union {Current(p)}]
  /\ at' = [at EXCEPT ![p] = @ + 1]
  /\ Goto(p, "next")
  /\ UNCHANGED <<tenants, stage, hasTable, admin, poolVars, todo, dumped, reply>>

\* One transaction: the file, and the row whose primary key only one transaction can insert.
ApplyMigration(p) ==
  /\ pc[p] = "apply" /\ stage[Target(p)] = "complete"
  /\ Current(p) \notin recorded[Target(p)]
  /\ ran' = [ran EXCEPT ![Target(p)] = Append(@, Current(p))]
  /\ recorded' = [recorded EXCEPT ![Target(p)] = @ \union {Current(p)}]
  /\ at' = [at EXCEPT ![p] = @ + 1]
  /\ Goto(p, "next")
  /\ UNCHANGED <<tenants, stage, hasTable, admin, poolVars, todo, dumped, reply>>

\* Another process has recorded it meanwhile, or a table it needs is not there yet.
MigrationFails(p) ==
  /\ pc[p] = "apply"
  /\ stage[Target(p)] # "complete" \/ Current(p) \in recorded[Target(p)]
  /\ Throw(p)

MigrateDone(p) ==
  /\ pc[p] = "next" /\ at[p] > Len(Migration)
  /\ todo' = [todo EXCEPT ![p] = Tail(@)]
  /\ at' = [at EXCEPT ![p] = 1]
  /\ conn' = [conn EXCEPT ![p] = NoConn]
  /\ Goto(p, IF p \in Signup THEN "logClone" ELSE IF Len(todo[p]) = 1 THEN "done" ELSE "migrate")
  /\ UNCHANGED <<dbVars, stamp, host, dumped, reply>>

-----------------------------------------------------------------------------
(* TenantProvisioningService.signup.                                       *)

\* Sign-up is public: the interceptor stamps an empty user, if the host names a tenant.
Arrive(p) ==
  /\ p \in Signup /\ pc[p] = "start"
  /\ IF p \in FromTenantHost
     THEN \E k \in Free : host' = [host EXCEPT ![p] = k] /\ stamp' = [stamp EXCEPT ![k] = Nobody]
     ELSE UNCHANGED <<host, stamp>>
  /\ Goto(p, "check")
  /\ UNCHANGED <<dbVars, conn, todo, at, dumped, reply>>

CheckCode(p) ==
  /\ pc[p] = "check" /\ CanQuery
  /\ IF tenants[CodeOf[p]] = "absent"
     THEN Goto(p, "register") /\ UNCHANGED <<poolVars, reply>>
     ELSE Finish(p, "refused", 409)
  /\ UNCHANGED <<dbVars, todo, at, dumped>>

\* Variant: the row is inserted with the status that requests look for.
Register_Active(p) ==
  /\ pc[p] = "register" /\ CanQuery
  /\ IF tenants[CodeOf[p]] = "absent"
     THEN /\ tenants' = [tenants EXCEPT ![CodeOf[p]] = "active"]
          /\ Goto(p, "dump") /\ UNCHANGED <<poolVars, reply>>
     ELSE UNCHANGED tenants /\ Finish(p, "refused", 409)
  /\ UNCHANGED <<stage, hasTable, recorded, ran, admin, todo, at, dumped>>

\* fn_register_tenant: the company code is unique, the loser of a race gets 23505.
Register(p) ==
  /\ pc[p] = "register" /\ CanQuery
  /\ IF tenants[CodeOf[p]] = "absent"
     THEN /\ tenants' = [tenants EXCEPT ![CodeOf[p]] = "provisioning"]
          /\ Goto(p, "dump") /\ UNCHANGED <<poolVars, reply>>
     ELSE UNCHANGED tenants /\ Finish(p, "refused", 409)
  /\ UNCHANGED <<stage, hasTable, recorded, ran, admin, todo, at, dumped>>

Dump(p) ==
  /\ pc[p] = "dump"
  /\ dumped' = [dumped EXCEPT ![p] = Template \in hasTable]
  /\ Goto(p, "clone")
  /\ UNCHANGED <<dbVars, poolVars, todo, at, reply>>

\* psql creates the schema, the tables in the order of their names (products before roles and
\* schema_migrations), and the constraints at the end.
Clone(p) ==
  LET c == CodeOf[p]
      grow(from, to) == stage[c] = from /\ stage' = [stage EXCEPT ![c] = to]
  IN  /\ pc[p] = "clone"
      /\ \/ grow("absent", "created") /\ UNCHANGED <<hasTable, pc>>
         \/ grow("created", "products") /\ UNCHANGED <<hasTable, pc>>
         \/ /\ ~(dumped[p] /\ c \in hasTable)
            /\ grow("products", "complete")
            /\ hasTable' = IF dumped[p] THEN hasTable \union {c} ELSE hasTable
            /\ Goto(p, "seed")
      /\ UNCHANGED <<tenants, recorded, ran, admin, poolVars, todo, at, dumped, reply>>

\* A runner has created schema_migrations meanwhile: the CREATE TABLE of the dump fails.
CloneFails(p) ==
  /\ pc[p] = "clone" /\ stage[CodeOf[p]] = "products" /\ dumped[p] /\ CodeOf[p] \in hasTable
  /\ Throw(p)

SeedSchema(p) ==
  /\ pc[p] = "seed"
  /\ ran' = [ran EXCEPT ![CodeOf[p]] = Append(@, "seed")]
  /\ Goto(p, "migrate")
  /\ UNCHANGED <<tenants, stage, hasTable, recorded, admin, poolVars, todo, at, dumped, reply>>

\* logProvisioningStep, of the error or of the success of the clone.
LogFailure(p) ==
  /\ pc[p] = "logFailure" /\ CanQuery
  /\ Finish(p, "failed", 500)
  /\ UNCHANGED <<dbVars, todo, at, dumped>>

LogClone(p) ==
  /\ pc[p] = "logClone" /\ CanQuery
  /\ Goto(p, "connect")
  /\ UNCHANGED <<dbVars, poolVars, todo, at, dumped, reply>>

\* createAdminAndLogin takes a connection of the pool and sets its search_path.
Connect(p) ==
  /\ pc[p] = "connect"
  /\ \E k \in Free : conn' = [conn EXCEPT ![p] = k]
  /\ Goto(p, "insertUser")
  /\ UNCHANGED <<dbVars, stamp, host, todo, at, dumped, reply>>

\* The audit trigger of users inserts the user the connection is stamped with as changed_by,
\* and that has to be a user of the new schema.
InsertUser(p) ==
  /\ pc[p] = "insertUser" /\ stamp[conn[p]] = Nobody
  /\ admin' = [admin EXCEPT ![CodeOf[p]] = "user"]
  /\ Goto(p, "assignRole")
  /\ UNCHANGED <<tenants, stage, hasTable, recorded, ran, poolVars, todo, at, dumped, reply>>

ForeignUser(p) ==
  /\ pc[p] = "insertUser" /\ stamp[conn[p]] # Nobody
  /\ Finish(p, "failed", 409)
  /\ UNCHANGED <<dbVars, todo, at, dumped>>

AssignRole(p) ==
  /\ pc[p] = "assignRole" /\ "seed" \in Range(ran[CodeOf[p]])
  /\ admin' = [admin EXCEPT ![CodeOf[p]] = "admin"]
  /\ Goto(p, "issueTokens")
  /\ UNCHANGED <<tenants, stage, hasTable, recorded, ran, poolVars, todo, at, dumped, reply>>

IssueTokens(p) ==
  /\ pc[p] = "issueTokens"
  /\ conn' = [conn EXCEPT ![p] = NoConn]
  /\ Goto(p, "activate")
  /\ UNCHANGED <<dbVars, stamp, host, todo, at, dumped, reply>>

Activate(p) ==
  /\ pc[p] = "activate" /\ CanQuery
  /\ tenants' = [tenants EXCEPT ![CodeOf[p]] = "active"]
  /\ Goto(p, "logActivation")
  /\ UNCHANGED <<stage, hasTable, recorded, ran, admin, poolVars, todo, at, dumped, reply>>

LogActivation(p) ==
  /\ pc[p] = "logActivation" /\ CanQuery
  /\ Finish(p, "done", 201)
  /\ UNCHANGED <<dbVars, todo, at, dumped>>

\* A process exits with an error, a statement fails or times out, the server is restarted.
Fail(p) == pc[p] \notin {"start", "done", "refused", "failed"} /\ p \notin ApiRequest /\ Throw(p)

Migrate(p) ==
  \/ EnsureMigrationsTable(p) \/ NoSchema(p) \/ BaselineIfNeeded(p) \/ BaselineFails(p)
  \/ RecordBaseline(p) \/ AlreadyRecorded(p) \/ NextMigration(p) \/ ApplyMigration(p)
  \/ MigrationFails(p) \/ MigrateDone(p)

Provision(p) ==
  \/ Arrive(p) \/ CheckCode(p) \/ Register(p) \/ Dump(p) \/ Clone(p) \/ CloneFails(p)
  \/ SeedSchema(p) \/ LogFailure(p) \/ LogClone(p) \/ Connect(p) \/ InsertUser(p) \/ ForeignUser(p)
  \/ AssignRole(p) \/ IssueTokens(p) \/ Activate(p) \/ LogActivation(p)

Step(p) == Migrate(p) \/ Provision(p) \/ ListTargetSchemas(p) \/ Intercept(p) \/ Respond(p)

Next == \E p \in Process : Step(p) \/ Fail(p)

Spec == Init /\ [][Next]_vars

\* The pool hands a free connection to whoever has waited longest.
Fairness == \A p \in Process : SF_vars(Step(p))

FairSpec == Spec /\ Fairness

-----------------------------------------------------------------------------
(* Properties.                                                             *)

Script == {"seed"} \union Range(Migration)

TypeOK ==
  /\ tenants \in [Code -> {"absent", "provisioning", "active"}]
  /\ stage \in [Schema -> {"absent", "created", "products", "complete"}]
  /\ hasTable \subseteq Schema
  /\ recorded \in [Schema -> SUBSET ({"baseline"} \union Range(Migration))]
  /\ ran \in [Schema -> Seq(Script)]
  /\ admin \in [Code -> {"none", "user", "admin"}]
  /\ stamp \in [Connection -> ApiRequest \union {Nobody}]
  /\ conn \in [Process -> Connection \union {NoConn}]
  /\ host \in [Process -> Connection \union {NoConn}]
  /\ todo \in [Process -> Seq(Schema)]
  /\ at \in [Process -> 1..(Len(Migration) + 1)]
  /\ dumped \in [Signup -> BOOLEAN]
  /\ reply \in [Process -> {0, 200, 201, 409, 500}]

(***************************************************************************)
(* A tenant that requests can reach (the middleware looks for status       *)
(* 'active') has its whole schema, the seed and every migration, and an    *)
(* Admin, whatever another sign-up or a migration run does at the same     *)
(* time and wherever a step fails.                                         *)
(***************************************************************************)
ActiveTenantIsComplete ==
  \A c \in Code : tenants[c] = "active" =>
    /\ stage[c] = "complete"
    /\ Range(ran[c]) = Script
    /\ admin[c] = "admin"

(***************************************************************************)
(* A migration has run exactly once in a schema if schema_migrations says  *)
(* so, and never otherwise, although a sign-up and a migration run work on *)
(* the same schema and each only looks before its transaction begins.      *)
(***************************************************************************)
RecordedIsWhatRan ==
  \A s \in Schema :
    /\ recorded[s] \ {"baseline"} = Range(ran[s]) \ {"seed"}
    /\ IsInjective(ran[s])

AdminReachesEveryRoute(access) == \A route \in AllRoutes : Permitted(route, access.grants["Admin"])

ViewersNeverWrite(access) ==
  \A route \in AllRoutes : route.writes /\ Permitted(route, access.grants["Viewer"]) => route.needs = {}

AuditLogIsForAdmins(access) == {r \in Role : AuditView \subseteq access.grants[r]} = {"Admin"}

(***************************************************************************)
(* In an active tenant, whatever the order in which its scripts have run:  *)
(* Admin may use every route (no script forgets to create or to grant a    *)
(* permission a route asks for), a Viewer changes nothing but the own      *)
(* account, and only Admin sees the audit log.  The last holds only if the *)
(* seed ran first: a migration run that gets to the new schema before it   *)
(* makes the seed grant that permission to Manager and Viewer too.         *)
(***************************************************************************)
RolesKeepTheirLimits ==
  \A c \in Code : tenants[c] = "active" =>
    LET access == AccessAfter(ran[c])
    IN  /\ AdminReachesEveryRoute(access)
        /\ ViewersNeverWrite(access)
        /\ Head(ran[c]) = "seed" => AuditLogIsForAdmins(access)

Ended(p) == pc[p] \in {"done", "refused", "failed"}

\* A sign-up that waits for a connection of the pool beside the one its interceptor may hold.
Waits(p) ==
  p \in Signup /\ pc[p] \in {"check", "register", "migrate", "logFailure", "logClone", "connect", "activate",
                           "logActivation"}

\* All of the pool is held by such sign-ups, which neither time out nor let go of what they hold.
Starved == \A k \in Connection : \E p \in FromTenantHost : host[p] = k /\ Waits(p)

(***************************************************************************)
(* Every sign-up, migration run and request ends, and with it the use of   *)
(* its connections, with one exception: sign-ups that came to the host of  *)
(* a tenant hold a connection each while they wait for another one, and as *)
(* many of them as the pool has connections stop everything.  Nothing else *)
(* does, in particular no error path that keeps a connection.              *)
(* tenant-connection.interceptor.ts, kysely.service.ts (no timeout).       *)
(***************************************************************************)
ProcessesEnd == <>(\A p \in Process : Ended(p)) \/ <>[]Starved

(***************************************************************************)
(* "Session-scoped and re-applied every request, so a pooled connection    *)
(* never carries a previous user".  Refuted: a sign-up sets the            *)
(* search_path of its connection and nothing else.                         *)
(***************************************************************************)
NeverCarriesPreviousUser ==
  \A p \in Signup : pc[p] = "insertUser" => stamp[conn[p]] = Nobody
=============================================================================
