----------------------------- MODULE TenantProofs -----------------------------
(***************************************************************************)
(* What holds of tenants in Application for all values of its constants:   *)
(* schema_migrations lists what has run, an active tenant is complete, and *)
(* its roles keep their limits, however many sign-ups and migration runs   *)
(* overlap and wherever they fail.                                         *)
(***************************************************************************)
EXTENDS Application, Sums

Migration == Tenants!Migration
Scripts   == Tenants!Script
RangeOf(f) == Tenants!Range(f)

-----------------------------------------------------------------------------
(* Scripts and sequences of them.                                          *)

\* The names of the migrations differ from each other, from the seed and from the baseline.
LEMMA MigrationNames ==
  /\ Len(Migration) = 6 /\ DOMAIN Migration = 1..6 /\ Migration \in Seq(Scripts)
  /\ RangeOf(Migration) = {Migration[i] : i \in 1..6}
  /\ Tenants!IsInjective(Migration)
  /\ "seed" \notin RangeOf(Migration) /\ "baseline" \notin RangeOf(Migration)
  /\ Scripts = {"seed"} \union RangeOf(Migration)
<1>1. Len(Migration) = 6 /\ DOMAIN Migration = 1..6
  BY DEF Migration, Tenants!Migration
<1>2. RangeOf(Migration) = {Migration[i] : i \in 1..6}
  BY <1>1 DEF RangeOf, Tenants!Range
<1>3. Scripts = {"seed"} \union RangeOf(Migration)
  BY DEF Scripts, Tenants!Script, RangeOf, Migration
<1>4. /\ Migration[1] = "001_company_profile" /\ Migration[2] = "002_dead_stock_view"
      /\ Migration[3] = "003_inventory" /\ Migration[4] = "004_purchase_approve"
      /\ Migration[5] = "005_sales_approve" /\ Migration[6] = "006_audit_log"
  BY DEF Migration, Tenants!Migration
<1>5. 1..6 = {1, 2, 3, 4, 5, 6}
  OBVIOUS
<1>6. "seed" \notin RangeOf(Migration) /\ "baseline" \notin RangeOf(Migration)
  BY <1>2, <1>4, <1>5
<1>7. Tenants!IsInjective(Migration)
  BY <1>1, <1>4, <1>5 DEF Tenants!IsInjective
<1>8. Migration \in Seq(Scripts)
  <2>1. \A i \in 1..6 : Migration[i] \in Scripts
    BY <1>2, <1>3
  <2>2. Migration = [i \in 1..6 |-> Migration[i]]
    BY <1>1, <1>4, <1>5 DEF Migration, Tenants!Migration
  <2> QED
    BY <1>1, <2>1, <2>2
<1> QED
  BY <1>1, <1>2, <1>3, <1>6, <1>7, <1>8

\* A script that has run is one script more.
LEMMA RangeAppend ==
  ASSUME NEW s \in Seq(Scripts), NEW e \in Scripts
  PROVE  Append(s, e) \in Seq(Scripts) /\ RangeOf(Append(s, e)) = RangeOf(s) \union {e}
<1> DEFINE t == Append(s, e)
<1>1. /\ t \in Seq(Scripts) /\ DOMAIN s = 1..Len(s) /\ DOMAIN t = 1..(Len(s) + 1) /\ Len(s) \in Nat
      /\ t[Len(s) + 1] = e /\ \A i \in 1..Len(s) : t[i] = s[i]
  OBVIOUS
<1> HIDE DEF t
<1>2. ASSUME NEW x  PROVE x \in RangeOf(t) <=> x \in RangeOf(s) \union {e}
  BY <1>1 DEF RangeOf, Tenants!Range
<1> QED
  BY <1>1, <1>2 DEF t

\* A script that had not run before makes none run twice.
LEMMA InjectiveAppend ==
  ASSUME NEW s \in Seq(Scripts), NEW e \in Scripts, Tenants!IsInjective(s), e \notin RangeOf(s)
  PROVE  Tenants!IsInjective(Append(s, e))
<1> DEFINE t == Append(s, e)
<1>1. /\ DOMAIN s = 1..Len(s) /\ DOMAIN t = 1..(Len(s) + 1) /\ Len(s) \in Nat
      /\ t[Len(s) + 1] = e /\ \A i \in 1..Len(s) : t[i] = s[i]
  OBVIOUS
<1>2. \A i \in 1..Len(s) : s[i] # e
  BY <1>1 DEF RangeOf, Tenants!Range
<1> HIDE DEF t
<1>3. Tenants!IsInjective(t)
  BY <1>1, <1>2 DEF Tenants!IsInjective
<1> QED
  BY <1>3 DEF t

\* The list of the tenants is a list of schemas, in whatever order.
LEMMA ListOfSchemas ==
  ASSUME NEW S \in SUBSET Code
  PROVE  LET list == <<Template>> \o Tenants!SetToSeq(S)
         IN  list \in Seq(Tenants!Schema) /\ list # <<>>
<1>1. IsFiniteSet(S)
  <2>1. Tenants!IsFiniteSet(Code)
    BY ApplicationAssumption DEF Tenants!LifecycleAssumption
  <2>2. IsFiniteSet(Code)
    BY <2>1 DEF Tenants!IsFiniteSet, IsFiniteSet
  <2> QED
    BY <2>2, FS_Subset
<1>2. Cardinality(S) \in Nat /\ ExistsBijection(1..Cardinality(S), S)
  BY <1>1, FS_CardinalityType
<1>3. Tenants!Cardinality(S) = Cardinality(S)
  BY DEF Tenants!Cardinality, Cardinality
<1>4. \E f \in [1..Cardinality(S) -> S] : Tenants!IsInjective(f)
  BY <1>2 DEF ExistsBijection, Bijection, Injection, IsInjective, Tenants!IsInjective
<1>5. Tenants!SetToSeq(S) \in [1..Cardinality(S) -> S]
  BY <1>3, <1>4 DEF Tenants!SetToSeq
<1>6. Tenants!SetToSeq(S) \in Seq(Tenants!Schema) /\ <<Template>> \in Seq(Tenants!Schema)
  BY <1>2, <1>5 DEF Tenants!Schema
<1> QED
  BY <1>6

-----------------------------------------------------------------------------
(* The invariant.                                                          *)

Process == Tenants!Process
Schema  == Tenants!Schema
Target(p) == Head(todo[p])

\* The steps of a sign-up that has the company code, from its registration to its activation.
Migrating == {"migrate", "baseline", "record", "next", "apply"}
Finishing == {"logClone", "connect", "insertUser", "assignRole", "issueTokens", "activate"}
Ahead     == {"dump", "clone", "seed"} \union Migrating \union Finishing

Seeded(c) == "seed" \in RangeOf(ran[c])

\* A sign-up that has registered its company finds what its steps so far have made.
StageInv(p) ==
  LET c == CodeOf[p]
  IN  /\ tenantPc[p] \in Ahead => tenants[c] = "provisioning"
      /\ tenantPc[p] \in {"dump", "clone", "seed"} => ~Seeded(c)
      /\ tenantPc[p] \in Migrating \union Finishing => Seeded(c)
      /\ tenantPc[p] \in {"seed"} \union Migrating \union Finishing => stage[c] = "complete"
      /\ tenantPc[p] \in Finishing => RangeOf(Migration) \subseteq RangeOf(ran[c])
      /\ tenantPc[p] \in {"issueTokens", "activate"} => admin[c] = "admin"
      /\ tenantPc[p] \in {"start", "check", "register", "dump", "clone", "seed"} \union Migrating
           => todo[p] = <<c>>

\* Whoever migrates a schema has found or made a record of the files before the next one.
MigrationInv(p) ==
  /\ todo[p] \in Seq(Schema)
  /\ tenantPc[p] \in Migrating => todo[p] # <<>>
  /\ migration[p] \in 1..7
  /\ tenantPc[p] \notin {"next", "apply", "logFailure", "failed"} => migration[p] = 1
  /\ tenantPc[p] = "apply" => migration[p] <= 6
  /\ tenantPc[p] \in {"next", "apply"} =>
       \A i \in 1..(migration[p] - 1) : Migration[i] \in recorded[Target(p)]
  /\ p \notin Signup => tenantPc[p] \in {"start", "serving", "done", "failed"} \union Migrating

\* Every company code is with one sign-up only.
OneHolder ==
  \A p, q \in Signup :
    tenantPc[p] \in Ahead /\ tenantPc[q] \in Ahead /\ CodeOf[p] = CodeOf[q] => p = q

\* A company that nobody has registered is not seeded; one that is active is complete.
CodeInv(c) ==
  /\ Seeded(c) => tenants[c] # "absent"
  /\ tenants[c] = "active" =>
       stage[c] = "complete" /\ RangeOf(ran[c]) = Scripts /\ admin[c] = "admin"

TypeInv ==
  /\ DOMAIN tenants = Code /\ DOMAIN admin = Code /\ DOMAIN stage = Schema
  /\ DOMAIN recorded = Schema /\ ran \in [Schema -> Seq(Scripts)]
  /\ tenantPc = [p \in Process |-> tenantPc[p]]
  /\ DOMAIN todo = Process /\ DOMAIN migration = Process

(***************************************************************************)
(* RecordedIsWhatRan and ActiveTenantIsComplete with what they rest on: a  *)
(* company code belongs to one sign-up from registration to activation,    *)
(* whose steps only add to its schema, and a migration runs only where it  *)
(* is not recorded.                                                        *)
(***************************************************************************)
TenantInv ==
  /\ TypeInv /\ RecordedIsWhatRan /\ OneHolder
  /\ \A c \in Code : CodeInv(c)
  /\ \A p \in Signup : StageInv(p)
  /\ \A p \in Process : MigrationInv(p)

-----------------------------------------------------------------------------
(* Steps.                                                                  *)

\* What a sign-up has made of company c does not change.
Same(c) ==
  /\ tenants'[c] = tenants[c] /\ stage'[c] = stage[c] /\ admin'[c] = admin[c]
  /\ Seeded(c)' <=> Seeded(c)

\* p may change the company of its own, if it holds the code or takes it while it is absent.
MayTake(p, c) == p \in Signup /\ c = CodeOf[p] /\ (tenantPc[p] \in Ahead \/ tenants[c] = "absent")

\* p goes to l; scripts are only added, and only a company of its own changes otherwise.
Acts(p, l) ==
  /\ tenantPc' = [tenantPc EXCEPT ![p] = l]
  /\ DOMAIN todo' = Process /\ DOMAIN migration' = Process
  /\ \A q \in Process \ {p} : todo'[q] = todo[q] /\ migration'[q] = migration[q]
  /\ DOMAIN tenants' = Code /\ DOMAIN admin' = Code /\ DOMAIN stage' = Schema
  /\ DOMAIN recorded' = Schema /\ ran' \in [Schema -> Seq(Scripts)]
  /\ \A s \in Schema : recorded[s] \subseteq recorded'[s] /\ RangeOf(ran[s]) \subseteq RangeOf(ran'[s])
  /\ \A c \in Code : Same(c) \/ MayTake(p, c)
  /\ p \in Signup /\ l \in Ahead => MayTake(p, CodeOf[p])

\* The sets of processes and codes.
LEMMA Sets ==
  /\ Signup \subseteq Process /\ Code \subseteq Schema
  /\ \A p \in Signup : CodeOf[p] \in Code
BY ApplicationAssumption DEF Process, Tenants!Process, Schema, Tenants!Schema, Tenants!LifecycleAssumption

\* Nobody else has the code that p holds or takes.
LEMMA OwnCode ==
  ASSUME TenantInv, NEW p \in Process, NEW q \in Signup, q # p, tenantPc[q] \in Ahead
  PROVE  ~MayTake(p, CodeOf[q])
<1> SUFFICES ASSUME MayTake(p, CodeOf[q])  PROVE FALSE
  OBVIOUS
<1>1. tenants[CodeOf[q]] = "provisioning"
  BY DEF TenantInv, StageInv
<1>2. p \in Signup /\ CodeOf[q] = CodeOf[p] /\ tenantPc[p] \in Ahead
  BY <1>1 DEF MayTake
<1> QED
  BY <1>2 DEF TenantInv, OneHolder

\* A step keeps the invariant if it does for its process, the companies it changes and the records.
LEMMA StepKeeps ==
  ASSUME TenantInv, NEW p \in Process, NEW l, Acts(p, l), RecordedIsWhatRan',
         p \in Signup => StageInv(p)', MigrationInv(p)',
         \A c \in Code : Same(c) \/ CodeInv(c)'
  PROVE  TenantInv'
<1>1. /\ TypeInv /\ OneHolder /\ \A c \in Code : CodeInv(c)
      /\ \A q \in Signup : StageInv(q)
      /\ \A q \in Process : MigrationInv(q)
  BY DEF TenantInv
<1>2. TypeInv'
  BY <1>1 DEF TypeInv, Acts
<1>3. \A q \in Process \ {p} : tenantPc'[q] = tenantPc[q]
  BY <1>1 DEF TypeInv, Acts
<1>4. tenantPc'[p] = l
  BY <1>1 DEF TypeInv, Acts
<1>5. OneHolder'
  <2> SUFFICES ASSUME NEW q \in Signup, NEW t \in Signup, q # t,
                      tenantPc'[q] \in Ahead, tenantPc'[t] \in Ahead, CodeOf[q] = CodeOf[t]
               PROVE  FALSE
    BY DEF OneHolder
  <2>1. q # p => tenantPc[q] \in Ahead /\ ~MayTake(p, CodeOf[q])
    BY <1>3, Sets, OwnCode
  <2>2. t # p => tenantPc[t] \in Ahead /\ ~MayTake(p, CodeOf[t])
    BY <1>3, Sets, OwnCode
  <2>3. p \in Signup /\ l \in Ahead => MayTake(p, CodeOf[p])
    BY DEF Acts
  <2> QED
    BY <1>1, <1>4, <2>1, <2>2, <2>3 DEF OneHolder
<1>6. ASSUME NEW q \in Signup, q # p  PROVE StageInv(q)'
  <2> DEFINE c == CodeOf[q]
  <2>1. c \in Code /\ c \in Schema /\ q \in Process
    BY Sets
  <2>2. tenantPc'[q] = tenantPc[q] /\ todo'[q] = todo[q]
    BY <1>3, <1>6, <2>1 DEF Acts
  <2>3. tenantPc[q] \in Ahead => Same(c)
    BY <1>6, <2>1, OwnCode DEF Acts
  <2>4. RangeOf(ran[c]) \subseteq RangeOf(ran'[c])
    BY <2>1 DEF Acts
  <2>5. StageInv(q)
    BY <1>1
  <2>6. CASE tenantPc[q] \in Ahead
    <3>1. /\ tenants'[c] = tenants[c] /\ stage'[c] = stage[c] /\ admin'[c] = admin[c]
          /\ Seeded(c)' <=> Seeded(c)
      BY <2>3, <2>6 DEF Same
    <3>2. RangeOf(Migration) \subseteq RangeOf(ran[c]) => RangeOf(Migration) \subseteq RangeOf(ran'[c])
      BY <2>4
    <3> HIDE DEF c
    <3> QED
      BY Zenon, <2>2, <2>5, <3>1, <3>2 DEF StageInv, c
  <2>7. CASE tenantPc[q] \notin Ahead
    BY <2>2, <2>5, <2>7 DEF StageInv, Ahead, Migrating, Finishing
  <2> QED
    BY <2>6, <2>7
<1>7. ASSUME NEW q \in Process, q # p  PROVE MigrationInv(q)'
  <2>1. tenantPc'[q] = tenantPc[q] /\ todo'[q] = todo[q] /\ migration'[q] = migration[q]
    BY <1>3, <1>7 DEF Acts
  <2>2. MigrationInv(q)
    BY <1>1
  <2>3. tenantPc[q] \in Migrating => recorded[Target(q)] \subseteq recorded'[Target(q)]
    <3>1. tenantPc[q] \in Migrating => Target(q) \in Schema
      BY <2>2 DEF MigrationInv, Target
    <3> QED
      BY <3>1 DEF Acts
  <2> QED
    BY <2>1, <2>2, <2>3 DEF MigrationInv, Target, Migrating
<1>8. ASSUME NEW c \in Code  PROVE CodeInv(c)'
  <2>1. CASE Same(c)
    <3>1. c \in Schema /\ CodeInv(c)
      BY <1>1, Sets
    <3>2. RangeOf(ran[c]) \subseteq RangeOf(ran'[c])
      BY <3>1 DEF Acts
    <3>3. RangeOf(ran'[c]) \subseteq Scripts
      BY <3>1 DEF Acts, RangeOf, Tenants!Range
    <3> QED
      BY <2>1, <3>1, <3>2, <3>3 DEF CodeInv, Same
  <2> QED
    BY <2>1
<1> QED
  BY <1>2, <1>5, <1>6, <1>7, <1>8 DEF TenantInv

-----------------------------------------------------------------------------
(* Steps that change no schema, company or record.                         *)

\* Only a sign-up is anywhere but where a migration run or a request can be.
LEMMA IsSignup ==
  ASSUME TenantInv, NEW p \in Process,
         tenantPc[p] \notin {"start", "serving", "done", "failed"} \union Migrating
  PROVE  p \in Signup
BY DEF TenantInv, MigrationInv

\* Such a step keeps the invariant if it does for its process.
LEMMA QuietStep ==
  ASSUME TenantInv, NEW p \in Process, NEW l,
         UNCHANGED <<tenants, stage, recorded, ran, admin>>,
         tenantPc' = [tenantPc EXCEPT ![p] = l],
         todo' = todo \/ (\E v : todo' = [todo EXCEPT ![p] = v]),
         migration' = migration \/ (\E v : migration' = [migration EXCEPT ![p] = v]),
         p \in Signup /\ l \in Ahead => tenantPc[p] \in Ahead,
         p \in Signup => StageInv(p)', MigrationInv(p)'
  PROVE  TenantInv'
<1>1. TypeInv /\ RecordedIsWhatRan
  BY DEF TenantInv
<1>2. /\ DOMAIN todo' = Process /\ DOMAIN migration' = Process
      /\ \A q \in Process \ {p} : todo'[q] = todo[q] /\ migration'[q] = migration[q]
  BY <1>1 DEF TypeInv
<1>3. \A c \in Code : Same(c)
  BY DEF Same, Seeded
<1>4. p \in Signup /\ l \in Ahead => MayTake(p, CodeOf[p])
  BY DEF MayTake
<1>5. /\ DOMAIN tenants' = Code /\ DOMAIN admin' = Code /\ DOMAIN stage' = Schema
      /\ DOMAIN recorded' = Schema /\ ran' \in [Schema -> Seq(Scripts)]
  BY <1>1 DEF TypeInv
<1>6. Acts(p, l)
  BY <1>2, <1>3, <1>4, <1>5 DEF Acts
<1>7. RecordedIsWhatRan'
  BY <1>1 DEF RecordedIsWhatRan, Tenants!RecordedIsWhatRan
<1> QED
  BY <1>3, <1>6, <1>7, StepKeeps

\* Neither does a process lose anything the invariant needs when it ends, or has to log its end.
LEMMA StopStep ==
  ASSUME TenantInv, NEW p \in Process,
         NEW l \in {"logFailure", "logActivation", "done", "refused", "failed"},
         UNCHANGED <<tenants, stage, recorded, ran, admin, todo, migration>>,
         tenantPc' = [tenantPc EXCEPT ![p] = l],
         p \notin Signup => l \in {"done", "failed"},
         l \notin {"logFailure", "failed"} => migration[p] = 1
  PROVE  TenantInv'
<1>1. TypeInv /\ MigrationInv(p)
  BY DEF TenantInv
<1>2. tenantPc'[p] = l
  BY <1>1 DEF TypeInv
<1>3. p \in Signup => StageInv(p)'
  BY <1>2 DEF StageInv, Ahead, Migrating, Finishing
<1>4. MigrationInv(p)'
  BY <1>1, <1>2 DEF MigrationInv, Migrating
<1>5. l \notin Ahead
  BY DEF Ahead, Migrating, Finishing
<1> QED
  BY <1>3, <1>4, <1>5, QuietStep

\* An error ends a sign-up or a migration run wherever it is.
LEMMA ThrowStep ==
  ASSUME TenantInv, NEW p \in Process, Tenants!Throw(p)
  PROVE  TenantInv'
<1>1. UNCHANGED <<tenants, stage, recorded, ran, admin, todo, migration>>
  BY DEF Tenants!Throw, Tenants!dbVars
<1>2. CASE p \in Signup /\ tenantPc[p] \in Tenants!Trying
  <2>1. tenantPc' = [tenantPc EXCEPT ![p] = "logFailure"]
    BY <1>2 DEF Tenants!Throw, Tenants!Goto
  <2> QED
    BY <1>1, <1>2, <2>1, StopStep
<1>3. CASE ~(p \in Signup /\ tenantPc[p] \in Tenants!Trying)
  <2>1. tenantPc' = [tenantPc EXCEPT ![p] = "failed"]
    BY <1>3 DEF Tenants!Throw, Tenants!Finish, Tenants!Goto
  <2> QED
    BY <1>1, <2>1, StopStep
<1> QED
  BY <1>2, <1>3

\* A sign-up ends with a refusal, or for want of the right user on its connection.
LEMMA RefusedSignup ==
  ASSUME TenantInv, NEW p \in Process, NEW answer, NEW l \in {"refused", "failed"},
         Tenants!Finish(p, l, answer), UNCHANGED <<tenants, stage, recorded, ran, admin, todo, migration>>,
         tenantPc[p] \in {"check", "register", "insertUser"}
  PROVE  TenantInv'
<1>1. tenantPc' = [tenantPc EXCEPT ![p] = l]
  BY DEF Tenants!Finish, Tenants!Goto
<1>2. p \in Signup
  BY IsSignup DEF Migrating
<1>3. migration[p] = 1
  BY DEF TenantInv, MigrationInv
<1> QED
  BY <1>1, <1>2, <1>3, StopStep

\* Requests of users change nothing of tenants.
LEMMA RequestSteps ==
  ASSUME TenantInv, NEW p \in Process, Tenants!Intercept(p) \/ Tenants!Respond(p)
  PROVE  TenantInv'
<1>1. TypeInv /\ MigrationInv(p)
  BY DEF TenantInv
<1>2. p \notin Signup
  BY ApplicationAssumption DEF Tenants!LifecycleAssumption, Tenants!Intercept, Tenants!Respond
<1>3. CASE Tenants!Respond(p)
  <2>1. /\ UNCHANGED <<tenants, stage, recorded, ran, admin, todo, migration>>
        /\ tenantPc' = [tenantPc EXCEPT ![p] = "done"] /\ tenantPc[p] = "serving"
    BY <1>3 DEF Tenants!Respond, Tenants!Finish, Tenants!Goto, Tenants!dbVars
  <2>2. migration[p] = 1
    BY <1>1, <2>1 DEF MigrationInv
  <2> QED
    BY <2>1, <2>2, StopStep
<1>4. CASE Tenants!Intercept(p)
  <2>1. /\ UNCHANGED <<tenants, stage, recorded, ran, admin, todo, migration>>
        /\ tenantPc' = [tenantPc EXCEPT ![p] = "serving"] /\ tenantPc[p] = "start"
    BY <1>4 DEF Tenants!Intercept, Tenants!Goto, Tenants!dbVars
  <2>2. tenantPc'[p] = "serving"
    BY <1>1, <2>1 DEF TypeInv
  <2>3. MigrationInv(p)'
    BY <1>1, <2>1, <2>2 DEF MigrationInv, Migrating
  <2> QED
    BY <1>2, <2>1, <2>3, QuietStep
<1> QED
  BY <1>3, <1>4

-----------------------------------------------------------------------------
(* The steps of the migration runner.                                      *)

\* The runner lists the schemas to migrate, the template first.
LEMMA ListStep ==
  ASSUME TenantInv, NEW p \in Process, Tenants!ListTargetSchemas(p)
  PROVE  TenantInv'
<1> DEFINE list == <<Template>> \o Tenants!SetToSeq({c \in Code : tenants[c] # "absent"})
<1>1. TypeInv /\ MigrationInv(p)
  BY DEF TenantInv
<1>2. /\ UNCHANGED <<tenants, stage, recorded, ran, admin, migration>> /\ todo' = [todo EXCEPT ![p] = list]
      /\ tenantPc' = [tenantPc EXCEPT ![p] = "migrate"] /\ tenantPc[p] = "start" /\ p \in Runner
  BY DEF Tenants!ListTargetSchemas, Tenants!Goto, Tenants!dbVars
<1>3. p \notin Signup
  BY <1>2, ApplicationAssumption DEF Tenants!LifecycleAssumption
<1>4. list \in Seq(Schema) /\ list # <<>>
  BY ListOfSchemas DEF Schema
<1> HIDE DEF list
<1>5. tenantPc'[p] = "migrate" /\ todo'[p] = list /\ migration'[p] = 1
  BY <1>1, <1>2 DEF TypeInv, MigrationInv
<1>6. MigrationInv(p)'
  BY <1>3, <1>4, <1>5 DEF MigrationInv, Migrating
<1> QED
  BY <1>2, <1>3, <1>6, QuietStep

\* On its way through a schema the runner goes on without having changed it.
LEMMA OnwardStep ==
  ASSUME TenantInv, NEW p \in Process, NEW l \in Migrating, tenantPc[p] \in Migrating,
         UNCHANGED <<tenants, stage, recorded, ran, admin, todo>>,
         tenantPc' = [tenantPc EXCEPT ![p] = l],
         migration' = migration \/ (\E v : migration' = [migration EXCEPT ![p] = v]),
         migration'[p] \in 1..7,
         l \notin {"next", "apply"} => migration'[p] = 1,
         l = "apply" => migration'[p] <= 6,
         \A i \in 1..(migration'[p] - 1) : Migration[i] \in recorded[Target(p)]
  PROVE  TenantInv'
<1>1. TypeInv /\ MigrationInv(p)
  BY DEF TenantInv
<1>2. tenantPc'[p] = l
  BY <1>1 DEF TypeInv
<1>3. p \in Signup => StageInv(p)
  BY DEF TenantInv
<1>4. tenantPc[p] \in Migrating /\ l \in Migrating /\ l \in Ahead /\ tenantPc[p] \in Ahead
  BY DEF Ahead
<1>5. l \notin Finishing /\ tenantPc[p] \notin Finishing
      /\ l \notin {"dump", "clone", "seed"} \union {"issueTokens", "activate"}
  BY DEF Migrating, Finishing
<1>6. p \in Signup => StageInv(p)'
  BY <1>2, <1>3, <1>4, <1>5 DEF StageInv, Seeded
<1>7. MigrationInv(p)'
  <2>1. Target(p)' = Target(p) /\ Migration' = Migration
    BY DEF Target, Migration
  <2>2. \A i \in 1..(migration'[p] - 1) : Migration'[i] \in recorded'[Target(p)']
    BY <2>1
  <2> QED
    BY <1>1, <1>2, <1>4, <2>2 DEF MigrationInv, Migrating
<1> QED
  BY <1>4, <1>6, <1>7, QuietStep

\* The table schema_migrations is there, and the runner looks for what it says.
LEMMA EnsureStep ==
  ASSUME TenantInv, NEW p \in Process,
         Tenants!EnsureMigrationsTable(p) \/ Tenants!BaselineIfNeeded(p)
  PROVE  TenantInv'
<1>1. TypeInv /\ MigrationInv(p)
  BY DEF TenantInv
<1>2. \E l \in {"baseline", "record", "next"} : tenantPc' = [tenantPc EXCEPT ![p] = l]
  BY DEF Tenants!EnsureMigrationsTable, Tenants!BaselineIfNeeded, Tenants!Goto
<1>3. PICK l \in {"baseline", "record", "next"} : tenantPc' = [tenantPc EXCEPT ![p] = l]
  BY <1>2
<1>4. /\ UNCHANGED <<tenants, stage, recorded, ran, admin, todo, migration>>
      /\ tenantPc[p] \in {"migrate", "baseline"}
  BY DEF Tenants!EnsureMigrationsTable, Tenants!BaselineIfNeeded, Tenants!dbVars
<1>5. migration'[p] = 1
  BY <1>1, <1>4 DEF MigrationInv
<1>6. l \in Migrating /\ tenantPc[p] \in Migrating /\ l # "apply"
  BY <1>4 DEF Migrating
<1>7. \A i \in 1..(migration'[p] - 1) : Migration[i] \in recorded[Target(p)]
  BY <1>5
<1>8. migration' = migration /\ UNCHANGED <<tenants, stage, recorded, ran, admin, todo>>
  BY <1>4
<1>9. migration'[p] \in 1..7
  BY <1>5
<1> QED
  BY <1>3, <1>5, <1>6, <1>7, <1>8, <1>9, OnwardStep

\* A file that is recorded is passed over, one that is not is next to run.
LEMMA NextMigrationStep ==
  ASSUME TenantInv, NEW p \in Process, Tenants!NextMigration(p)
  PROVE  TenantInv'
<1>1. TypeInv /\ MigrationInv(p)
  BY DEF TenantInv
<1>2. /\ UNCHANGED <<tenants, stage, recorded, ran, admin, todo>>
      /\ tenantPc[p] = "next" /\ migration[p] <= 6
  BY MigrationNames DEF Tenants!NextMigration, Tenants!dbVars, Migration
<1>3. "next" \in Migrating /\ "apply" \in Migrating
  BY DEF Migrating
<1>4. \A i \in 1..(migration[p] - 1) : Migration[i] \in recorded[Target(p)]
  BY <1>1, <1>2 DEF MigrationInv
<1>5. migration[p] \in 1..7
  BY <1>1 DEF MigrationInv
<1>6. CASE Tenants!Current(p) \in recorded[Tenants!Target(p)]
  <2>1. tenantPc' = tenantPc /\ migration' = [migration EXCEPT ![p] = @ + 1]
    BY <1>6 DEF Tenants!NextMigration
  <2>2. migration'[p] = migration[p] + 1
    BY <1>1, <2>1 DEF TypeInv
  <2>5. tenantPc' = [tenantPc EXCEPT ![p] = "next"]
    BY <1>1, <1>2, <2>1 DEF TypeInv
  <2>3. Migration[migration[p]] \in recorded[Target(p)]
    BY <1>6 DEF Tenants!Current, Tenants!Target, Target, Migration
  <2>4. \A i \in 1..(migration'[p] - 1) : Migration[i] \in recorded[Target(p)]
    BY <1>4, <1>5, <2>2, <2>3
  <2> QED
    <3>1. \E v : migration' = [migration EXCEPT ![p] = v]
      BY <2>1
    <3>2. migration'[p] \in 1..7
      BY <1>2, <1>5, <2>2
    <3> QED
      BY <1>2, <1>3, <2>4, <2>5, <3>1, <3>2, OnwardStep
<1>7. CASE Tenants!Current(p) \notin recorded[Tenants!Target(p)]
  <2>1. tenantPc' = [tenantPc EXCEPT ![p] = "apply"] /\ migration' = migration
    BY <1>7 DEF Tenants!NextMigration, Tenants!Goto
  <2> QED
    BY <1>2, <1>3, <1>4, <1>5, <2>1, OnwardStep
<1> QED
  BY <1>6, <1>7

\* The schema is migrated: a sign-up goes on to its first user, the runner to the next schema.
LEMMA MigrateDoneStep ==
  ASSUME TenantInv, NEW p \in Process, Tenants!MigrateDone(p)
  PROVE  TenantInv'
<1> DEFINE l == IF p \in Signup THEN "logClone" ELSE IF Len(todo[p]) = 1 THEN "done" ELSE "migrate"
           c == CodeOf[p]
<1>1. TypeInv /\ MigrationInv(p) /\ RecordedIsWhatRan
  BY DEF TenantInv
<1>2. /\ UNCHANGED <<tenants, stage, recorded, ran, admin>>
      /\ todo' = [todo EXCEPT ![p] = Tail(@)] /\ migration' = [migration EXCEPT ![p] = 1]
      /\ tenantPc' = [tenantPc EXCEPT ![p] = l] /\ tenantPc[p] = "next" /\ migration[p] > Len(Migration)
  BY DEF Tenants!MigrateDone, Tenants!Goto, Tenants!dbVars, Migration
<1>3. tenantPc'[p] = l /\ todo'[p] = Tail(todo[p]) /\ migration'[p] = 1
  BY <1>1, <1>2 DEF TypeInv
<1>4. todo[p] \in Seq(Schema) /\ todo[p] # <<>>
  BY <1>1, <1>2 DEF MigrationInv, Migrating
<1>5. Tail(todo[p]) \in Seq(Schema) /\ (Len(todo[p]) # 1 => Tail(todo[p]) # <<>>)
  <2> DEFINE s == todo[p]
             t == Tail(s)
  <2>1. s \in Seq(Schema) /\ s # <<>>
    BY <1>4
  <2> HIDE DEF s
  <2>2. t \in Seq(Schema) /\ Len(s) \in Nat \ {0} /\ Len(t) = Len(s) - 1
    BY <2>1
  <2> HIDE DEF t
  <2>3. t = <<>> => Len(t) = 0
    OBVIOUS
  <2> QED
    BY <2>2, <2>3 DEF s, t
<1>6. p \in Signup => l = "logClone"
  OBVIOUS
<1>7. p \notin Signup => (l = "done" \/ (l = "migrate" /\ Len(todo[p]) # 1))
  OBVIOUS
<1> HIDE DEF l
<1>8. MigrationInv(p)'
  BY <1>3, <1>5, <1>6, <1>7 DEF MigrationInv, Migrating
<1>9. ASSUME p \in Signup  PROVE StageInv(p)'
  <2>1. StageInv(p) /\ "next" \in Migrating /\ "next" \in Ahead
    BY <1>9 DEF TenantInv, Migrating, Ahead
  <2>2. tenants[c] = "provisioning" /\ Seeded(c) /\ stage[c] = "complete" /\ todo[p] = <<c>>
    BY <1>2, <2>1 DEF StageInv
  <2>3. Target(p) = c /\ c \in Schema
    BY <1>9, <2>2, Sets DEF Target
  <2>4. migration[p] = 7
    BY <1>1, <1>2, MigrationNames DEF MigrationInv
  <2>5. \A i \in 1..6 : Migration[i] \in recorded[c]
    BY <1>1, <1>2, <2>3, <2>4 DEF MigrationInv
  <2>6. RangeOf(Migration) \subseteq recorded[c]
    BY <2>5, MigrationNames
  <2>7. recorded[c] \ {"baseline"} = RangeOf(ran[c]) \ {"seed"}
    BY <1>1, <2>3 DEF RecordedIsWhatRan, Tenants!RecordedIsWhatRan, RangeOf, Schema
  <2>8. RangeOf(Migration) \subseteq RangeOf(ran[c])
    BY <2>6, <2>7, MigrationNames
  <2>9. tenantPc'[p] = "logClone"
    BY <1>3, <1>6, <1>9
  <2>10. Seeded(c)' /\ tenants'[c] = "provisioning" /\ stage'[c] = "complete"
         /\ RangeOf(Migration) \subseteq RangeOf(ran'[c])
    BY <1>2, <2>2, <2>8 DEF Seeded
  <2> HIDE DEF c
  <2> QED
    BY <2>9, <2>10 DEF StageInv, Migrating, c
<1>10. p \in Signup /\ l \in Ahead => tenantPc[p] \in Ahead
  BY <1>2 DEF Ahead, Migrating
<1> QED
  BY <1>2, <1>8, <1>9, <1>10, QuietStep

\* What is the same for every step that changes a record or a company: who works, and where.
LEMMA ActsFrom ==
  ASSUME TenantInv, NEW p \in Process, NEW l,
         tenantPc' = [tenantPc EXCEPT ![p] = l],
         UNCHANGED todo,
         migration' = migration \/ (\E v : migration' = [migration EXCEPT ![p] = v]),
         DOMAIN tenants' = Code, DOMAIN admin' = Code, DOMAIN stage' = Schema,
         DOMAIN recorded' = Schema, ran' \in [Schema -> Seq(Scripts)],
         \A s \in Schema : recorded[s] \subseteq recorded'[s],
         \A s \in Schema : RangeOf(ran[s]) \subseteq RangeOf(ran'[s]),
         \A c \in Code : Same(c) \/ MayTake(p, c),
         p \in Signup /\ l \in Ahead => MayTake(p, CodeOf[p])
  PROVE  Acts(p, l) /\ tenantPc'[p] = l
<1>1. TypeInv
  BY DEF TenantInv
<1>2. /\ DOMAIN todo' = Process /\ DOMAIN migration' = Process
      /\ \A q \in Process \ {p} : todo'[q] = todo[q] /\ migration'[q] = migration[q]
  BY <1>1 DEF TypeInv
<1> QED
  BY <1>1, <1>2 DEF Acts, TypeInv

\* The schema that a migration works on; if a sign-up migrates, it is its own.
LEMMA TargetIsSchema ==
  ASSUME TenantInv, NEW p \in Process, tenantPc[p] \in Migrating
  PROVE  /\ Target(p) \in Schema /\ Target(p) = Tenants!Target(p)
         /\ p \in Signup => Target(p) = CodeOf[p]
<1>1. MigrationInv(p) /\ (p \in Signup => StageInv(p))
  BY DEF TenantInv
<1>2. Target(p) \in Schema
  BY <1>1 DEF MigrationInv, Target
<1>3. p \in Signup => Target(p) = CodeOf[p]
  BY <1>1 DEF StageInv, Target
<1> QED
  BY <1>2, <1>3 DEF Target, Tenants!Target

\* The genesis files of a schema are recorded without being run.
LEMMA RecordBaselineStep ==
  ASSUME TenantInv, NEW p \in Process, Tenants!RecordBaseline(p)
  PROVE  TenantInv'
<1> DEFINE s == Target(p)
<1>1. TypeInv /\ MigrationInv(p) /\ RecordedIsWhatRan
  BY DEF TenantInv
<1>2. tenantPc[p] = "record" /\ "record" \in Migrating /\ "next" \in Migrating /\ Migrating \subseteq Ahead
  BY DEF Tenants!RecordBaseline, Migrating, Ahead
<1>3. s \in Schema /\ s = Tenants!Target(p)
  BY <1>2, TargetIsSchema
<1> HIDE DEF s
<1>4. /\ UNCHANGED <<tenants, stage, ran, admin, todo, migration>>
      /\ tenantPc' = [tenantPc EXCEPT ![p] = "next"]
      /\ recorded' = [recorded EXCEPT ![s] = @ \union {"baseline"}]
  BY <1>3 DEF Tenants!RecordBaseline, Tenants!Goto
<1>5. DOMAIN recorded' = Schema /\ \A t \in Schema : recorded[t] \subseteq recorded'[t]
  BY <1>1, <1>4 DEF TypeInv
<1>6. \A c \in Code : Same(c)
  BY <1>4 DEF Same, Seeded
<1>7. p \in Signup => MayTake(p, CodeOf[p])
  BY <1>2 DEF MayTake
<1>8. Acts(p, "next") /\ tenantPc'[p] = "next"
  BY <1>1, <1>4, <1>5, <1>6, <1>7, ActsFrom DEF TypeInv
<1>9. RecordedIsWhatRan'
  <2> SUFFICES ASSUME NEW t \in Schema
               PROVE  recorded'[t] \ {"baseline"} = RangeOf(ran[t]) \ {"seed"} /\ Tenants!IsInjective(ran[t])
    BY <1>4 DEF RecordedIsWhatRan, Tenants!RecordedIsWhatRan, RangeOf, Schema
  <2>1. recorded[t] \ {"baseline"} = RangeOf(ran[t]) \ {"seed"} /\ Tenants!IsInjective(ran[t])
    BY <1>1 DEF RecordedIsWhatRan, Tenants!RecordedIsWhatRan, RangeOf, Schema
  <2>2. recorded'[t] \ {"baseline"} = recorded[t] \ {"baseline"}
    BY <1>1, <1>3, <1>4 DEF TypeInv
  <2> QED
    BY <2>1, <2>2
<1>10. p \in Signup => StageInv(p)'
  <2>1. p \in Signup => StageInv(p)
    BY DEF TenantInv
  <2> QED
    BY <1>2, <1>4, <1>8, <2>1 DEF StageInv, Seeded, Finishing
<1>11. MigrationInv(p)'
  <2>1. migration[p] = 1
    BY <1>1, <1>2 DEF MigrationInv
  <2>2. \A i \in 1..(migration'[p] - 1) : Migration'[i] \in recorded'[Target(p)']
    BY <1>4, <2>1
  <2> QED
    BY <1>1, <1>2, <1>4, <1>8, <2>1, <2>2 DEF MigrationInv
<1> QED
  BY <1>6, <1>8, <1>9, <1>10, <1>11, StepKeeps

\* A migration and its record are one transaction, and the record is a primary key.
LEMMA ApplyMigrationStep ==
  ASSUME TenantInv, NEW p \in Process, Tenants!ApplyMigration(p)
  PROVE  TenantInv'
<1> DEFINE s == Target(p)
           e == Migration[migration[p]]
<1>1. TypeInv /\ MigrationInv(p) /\ RecordedIsWhatRan
  BY DEF TenantInv
<1>2. tenantPc[p] = "apply" /\ "apply" \in Migrating /\ "next" \in Migrating /\ Migrating \subseteq Ahead
  BY DEF Tenants!ApplyMigration, Migrating, Ahead
<1>3. s \in Schema /\ s = Tenants!Target(p) /\ (p \in Signup => s = CodeOf[p])
  BY <1>2, TargetIsSchema
<1>4. migration[p] \in 1..6
  BY <1>1, <1>2 DEF MigrationInv
<1>5. e = Tenants!Current(p) /\ e \in RangeOf(Migration) /\ e \in Scripts /\ e # "seed" /\ e # "baseline"
  BY <1>4, MigrationNames DEF Tenants!Current, Migration
<1> HIDE DEF s, e
<1>6. /\ UNCHANGED <<tenants, stage, admin, todo>> /\ stage[s] = "complete" /\ e \notin recorded[s]
      /\ tenantPc' = [tenantPc EXCEPT ![p] = "next"]
      /\ migration' = [migration EXCEPT ![p] = @ + 1]
      /\ ran' = [ran EXCEPT ![s] = Append(@, e)]
      /\ recorded' = [recorded EXCEPT ![s] = @ \union {e}]
  BY <1>3, <1>5 DEF Tenants!ApplyMigration, Tenants!Goto
<1>7. ran[s] \in Seq(Scripts) /\ ran \in [Schema -> Seq(Scripts)]
  BY <1>1, <1>3 DEF TypeInv
<1>8. Append(ran[s], e) \in Seq(Scripts) /\ RangeOf(Append(ran[s], e)) = RangeOf(ran[s]) \union {e}
  BY <1>5, <1>7, RangeAppend
<1>9. /\ ran' \in [Schema -> Seq(Scripts)]
      /\ \A t \in Schema : RangeOf(ran'[t]) = IF t = s THEN RangeOf(ran[t]) \union {e} ELSE RangeOf(ran[t])
  BY <1>3, <1>6, <1>7, <1>8
<1>10. /\ DOMAIN recorded' = Schema
       /\ \A t \in Schema : recorded'[t] = IF t = s THEN recorded[t] \union {e} ELSE recorded[t]
  BY <1>1, <1>3, <1>6 DEF TypeInv
<1>11. \A t \in Schema : RangeOf(ran[t]) \subseteq RangeOf(ran'[t])
  BY <1>9
<1>12. \A t \in Schema : recorded[t] \subseteq recorded'[t]
  BY <1>10
<1>13. ASSUME NEW c \in Code  PROVE Same(c)
  <2>1. c \in Schema
    BY Sets
  <2>2. Seeded(c)' <=> Seeded(c)
    BY <1>5, <1>9, <2>1 DEF Seeded
  <2> QED
    BY <1>6, <2>2 DEF Same
<1>14. p \in Signup => MayTake(p, CodeOf[p])
  BY <1>2 DEF MayTake
<1>15. \E v : migration' = [migration EXCEPT ![p] = v]
  BY <1>6
<1>16. Acts(p, "next") /\ tenantPc'[p] = "next"
  BY <1>1, <1>6, <1>9, <1>10, <1>11, <1>12, <1>13, <1>14, <1>15, ActsFrom DEF TypeInv
<1>17. RecordedIsWhatRan'
  <2> SUFFICES ASSUME NEW t \in Schema
               PROVE  recorded'[t] \ {"baseline"} = RangeOf(ran'[t]) \ {"seed"} /\ Tenants!IsInjective(ran'[t])
    BY DEF RecordedIsWhatRan, Tenants!RecordedIsWhatRan, RangeOf, Schema
  <2>1. \A u \in Schema : recorded[u] \ {"baseline"} = RangeOf(ran[u]) \ {"seed"} /\ Tenants!IsInjective(ran[u])
    BY <1>1 DEF RecordedIsWhatRan, Tenants!RecordedIsWhatRan, RangeOf, Schema
  <2>2. recorded'[t] \ {"baseline"} = RangeOf(ran'[t]) \ {"seed"}
    BY <1>5, <1>9, <1>10, <2>1
  <2>3. e \notin RangeOf(ran[s])
    BY <1>3, <1>5, <1>6, <2>1
  <2>4. Tenants!IsInjective(Append(ran[s], e))
    BY <1>3, <1>5, <1>7, <2>1, <2>3, InjectiveAppend
  <2>5. Tenants!IsInjective(ran'[t])
    BY <1>3, <1>6, <1>7, <2>1, <2>4
  <2> QED
    BY <2>2, <2>5
<1>18. p \in Signup => StageInv(p)'
  <2>1. p \in Signup => StageInv(p) /\ Same(CodeOf[p])
    BY <1>13, Sets DEF TenantInv
  <2> QED
    BY <1>2, <1>6, <1>16, <2>1 DEF StageInv, Same, Finishing
<1>19. MigrationInv(p)'
  <2>1. migration'[p] = migration[p] + 1
    BY <1>1, <1>6 DEF TypeInv
  <2>2. \A i \in 1..(migration[p] - 1) : Migration[i] \in recorded[s]
    BY <1>1, <1>2 DEF MigrationInv, s
  <2>3. \A i \in 1..(migration'[p] - 1) : Migration[i] \in recorded'[s]
    BY <1>3, <1>4, <1>10, <2>1, <2>2 DEF e
  <2>4. Target(p)' = s /\ Migration' = Migration
    BY <1>6 DEF Target, Migration, s
  <2>5. \A i \in 1..(migration'[p] - 1) : Migration'[i] \in recorded'[Target(p)']
    BY <2>3, <2>4
  <2> QED
    BY <1>1, <1>2, <1>4, <1>6, <1>16, <2>1, <2>5 DEF MigrationInv
<1> QED
  BY <1>13, <1>16, <1>17, <1>18, <1>19, StepKeeps

\* Every step of a migration keeps the invariant.
LEMMA MigrateSteps ==
  ASSUME TenantInv, NEW p \in Process, Tenants!Migrate(p)
  PROVE  TenantInv'
<1>1. Tenants!NoSchema(p) \/ Tenants!BaselineFails(p) \/ Tenants!AlreadyRecorded(p) \/ Tenants!MigrationFails(p)
        => Tenants!Throw(p)
  BY DEF Tenants!NoSchema, Tenants!BaselineFails, Tenants!AlreadyRecorded, Tenants!MigrationFails
<1> QED
  BY <1>1, ThrowStep, EnsureStep, NextMigrationStep, MigrateDoneStep, RecordBaselineStep, ApplyMigrationStep
     DEF Tenants!Migrate

-----------------------------------------------------------------------------
(* The steps of a sign-up.                                                 *)

\* Steps of a sign-up that go on without having changed a company.
LEMMA SignupGoesOn ==
  ASSUME TenantInv, NEW p \in Process, p \in Signup, NEW l,
         l \notin {"record", "baseline", "next", "apply", "failed"}, l = "migrate" => todo[p] # <<>>,
         UNCHANGED <<tenants, stage, recorded, ran, admin, todo, migration>>,
         tenantPc' = [tenantPc EXCEPT ![p] = l],
         l \in Ahead => tenantPc[p] \in Ahead, migration[p] = 1, StageInv(p)'
  PROVE  TenantInv'
<1>1. TypeInv /\ MigrationInv(p)
  BY DEF TenantInv
<1>2. tenantPc'[p] = l
  BY <1>1 DEF TypeInv
<1>3. MigrationInv(p)'
  BY <1>1, <1>2 DEF MigrationInv, Migrating
<1> QED
  BY <1>3, QuietStep

\* A sign-up that changes its company, and no other.
LEMMA CompanyStep ==
  ASSUME TenantInv, NEW p \in Process, p \in Signup, NEW l,
         l \notin {"record", "baseline", "next", "apply", "failed"}, l = "migrate" => todo[p] # <<>>,
         UNCHANGED <<recorded, todo, migration>>,
         tenantPc' = [tenantPc EXCEPT ![p] = l], migration[p] = 1,
         MayTake(p, CodeOf[p]),
         DOMAIN tenants' = Code, DOMAIN admin' = Code, DOMAIN stage' = Schema,
         ran' \in [Schema -> Seq(Scripts)], \A s \in Schema : RangeOf(ran[s]) \subseteq RangeOf(ran'[s]),
         \A d \in Code \ {CodeOf[p]} : Same(d),
         RecordedIsWhatRan', CodeInv(CodeOf[p])', StageInv(p)'
  PROVE  TenantInv'
<1>1. TypeInv /\ MigrationInv(p)
  BY DEF TenantInv
<1>2. /\ \A d \in Code : Same(d) \/ MayTake(p, d)
      /\ \A d \in Code : Same(d) \/ CodeInv(d)'
  <2>1. ASSUME NEW d \in Code  PROVE (Same(d) \/ MayTake(p, d)) /\ (Same(d) \/ CodeInv(d)')
    <3>1. CASE d = CodeOf[p]
      BY <3>1
    <3>2. CASE d # CodeOf[p]
      BY <3>2
    <3> QED
      BY <3>1, <3>2
  <2> QED
    BY <2>1
<1>3. DOMAIN recorded' = Schema /\ \A s \in Schema : recorded[s] \subseteq recorded'[s]
  BY <1>1 DEF TypeInv
<1>4. migration' = migration
  OBVIOUS
<1>5. Acts(p, l) /\ tenantPc'[p] = l
  BY <1>2, <1>3, <1>4, ActsFrom
<1>6. MigrationInv(p)'
  BY <1>1, <1>5 DEF MigrationInv, Migrating
<1> QED
  BY <1>2, <1>5, <1>6, StepKeeps

\* Where a sign-up is, it has found what its steps so far have made.
LEMMA SignupAt ==
  ASSUME TenantInv, NEW p \in Process,
         tenantPc[p] \in {"check", "register", "dump", "clone", "seed"} \union Finishing
  PROVE  /\ p \in Signup /\ CodeOf[p] \in Code /\ CodeOf[p] \in Schema /\ migration[p] = 1
         /\ StageInv(p) /\ CodeInv(CodeOf[p]) /\ TypeInv /\ RecordedIsWhatRan
<1>1. p \in Signup
  BY IsSignup DEF Migrating, Finishing
<1>2. MigrationInv(p) /\ StageInv(p) /\ TypeInv /\ RecordedIsWhatRan
  BY <1>1 DEF TenantInv
<1>3. migration[p] = 1
  BY <1>2 DEF MigrationInv, Finishing
<1>4. CodeOf[p] \in Code /\ CodeOf[p] \in Schema
  BY <1>1, Sets
<1> QED
  BY <1>1, <1>2, <1>3, <1>4 DEF TenantInv

\* A sign-up arrives, and finds its code free.
LEMMA ArriveSteps ==
  ASSUME TenantInv, NEW p \in Process, Tenants!Arrive(p) \/ Tenants!CheckCode(p)
  PROVE  TenantInv'
<1>1. CASE Tenants!Arrive(p)
  <2>1. /\ UNCHANGED <<tenants, stage, recorded, ran, admin, todo, migration>> /\ p \in Signup
        /\ tenantPc' = [tenantPc EXCEPT ![p] = "check"] /\ tenantPc[p] = "start"
    BY <1>1 DEF Tenants!Arrive, Tenants!Goto, Tenants!dbVars
  <2>2. TypeInv /\ MigrationInv(p) /\ StageInv(p)
    BY <2>1 DEF TenantInv
  <2>3. migration[p] = 1 /\ tenantPc'[p] = "check"
    BY <2>1, <2>2 DEF TypeInv, MigrationInv
  <2>4. "check" \notin Ahead
    BY DEF Ahead, Migrating, Finishing
  <2>5. StageInv(p)'
    BY <2>1, <2>2, <2>3 DEF StageInv, Ahead, Migrating, Finishing
  <2> QED
    BY <2>1, <2>3, <2>4, <2>5, SignupGoesOn
<1>2. CASE Tenants!CheckCode(p) /\ tenants[CodeOf[p]] = "absent"
  <2>1. /\ UNCHANGED <<tenants, stage, recorded, ran, admin, todo, migration>>
        /\ tenantPc' = [tenantPc EXCEPT ![p] = "register"] /\ tenantPc[p] = "check"
    BY <1>2 DEF Tenants!CheckCode, Tenants!Goto, Tenants!dbVars
  <2>2. p \in Signup /\ migration[p] = 1 /\ StageInv(p) /\ TypeInv
    BY <2>1, SignupAt
  <2>3. tenantPc'[p] = "register"
    BY <2>1, <2>2 DEF TypeInv
  <2>4. "register" \notin Ahead
    BY DEF Ahead, Migrating, Finishing
  <2>5. StageInv(p)'
    BY <2>1, <2>2, <2>3 DEF StageInv, Ahead, Migrating, Finishing
  <2> QED
    BY <2>1, <2>2, <2>4, <2>5, SignupGoesOn
<1>3. CASE Tenants!CheckCode(p) /\ tenants[CodeOf[p]] # "absent"
  <2>1. /\ UNCHANGED <<tenants, stage, recorded, ran, admin, todo, migration>>
        /\ Tenants!Finish(p, "refused", 409) /\ tenantPc[p] = "check"
    BY <1>3 DEF Tenants!CheckCode, Tenants!dbVars
  <2> QED
    BY <2>1, RefusedSignup
<1> QED
  BY <1>1, <1>2, <1>3

\* One sign-up registers the company; the others are refused.
LEMMA RegisterStep ==
  ASSUME TenantInv, NEW p \in Process, Tenants!Register(p)
  PROVE  TenantInv'
<1> DEFINE c == CodeOf[p]
<1>1. UNCHANGED <<stage, recorded, ran, admin, todo, migration>> /\ tenantPc[p] = "register"
  BY DEF Tenants!Register
<1>2. p \in Signup /\ c \in Code /\ migration[p] = 1 /\ StageInv(p) /\ CodeInv(c) /\ TypeInv /\ RecordedIsWhatRan
  BY <1>1, SignupAt
<1>3. CASE tenants[c] = "absent"
  <2>1. tenantPc' = [tenantPc EXCEPT ![p] = "dump"] /\ tenants' = [tenants EXCEPT ![c] = "provisioning"]
    BY <1>3 DEF Tenants!Register, Tenants!Goto
  <2>2. /\ DOMAIN tenants' = Code /\ DOMAIN admin' = Code /\ DOMAIN stage' = Schema
        /\ ran' \in [Schema -> Seq(Scripts)] /\ tenantPc'[p] = "dump" /\ tenants'[c] = "provisioning"
    BY <1>1, <1>2, <2>1 DEF TypeInv
  <2>3. \A d \in Code \ {c} : Same(d)
    BY <1>1, <1>2, <2>1 DEF TypeInv, Same, Seeded
  <2>4. MayTake(p, c)
    BY <1>2, <1>3 DEF MayTake
  <2>5. RecordedIsWhatRan'
    BY <1>1, <1>2 DEF RecordedIsWhatRan, Tenants!RecordedIsWhatRan
  <2>6. ~Seeded(c) /\ ~Seeded(c)' /\ todo'[p] = <<c>>
    BY <1>1, <1>2, <1>3 DEF CodeInv, Seeded, StageInv
  <2> HIDE DEF c
  <2>7. CodeInv(c)'
    BY <2>2, <2>6 DEF CodeInv
  <2>8. StageInv(p)'
    BY <2>2, <2>6 DEF StageInv, Ahead, Migrating, Finishing, c
  <2>9. \A s \in Schema : RangeOf(ran[s]) \subseteq RangeOf(ran'[s])
    BY <1>1
  <2> QED
    BY <1>1, <1>2, <2>1, <2>2, <2>3, <2>4, <2>5, <2>7, <2>8, <2>9, CompanyStep DEF c
<1>4. CASE tenants[c] # "absent"
  <2>1. tenants' = tenants /\ Tenants!Finish(p, "refused", 409)
    BY <1>4 DEF Tenants!Register
  <2> QED
    BY <1>1, <2>1, RefusedSignup
<1> QED
  BY <1>3, <1>4

\* Between registration and activation a sign-up changes its schema or its user.
LEMMA ProvisioningStep ==
  ASSUME TenantInv, NEW p \in Process,
         tenantPc[p] \in {"dump", "clone", "seed"} \union Finishing, NEW l,
         l \notin {"record", "baseline", "next", "apply", "failed"},
         l = "migrate" => todo[p] # <<>>,
         UNCHANGED <<tenants, recorded, todo, migration>>,
         tenantPc' = [tenantPc EXCEPT ![p] = l],
         DOMAIN admin' = Code, DOMAIN stage' = Schema,
         ran' \in [Schema -> Seq(Scripts)], \A s \in Schema : RangeOf(ran[s]) \subseteq RangeOf(ran'[s]),
         \A d \in Code \ {CodeOf[p]} :
           stage'[d] = stage[d] /\ admin'[d] = admin[d] /\ (Seeded(d)' <=> Seeded(d)),
         RecordedIsWhatRan', StageInv(p)'
  PROVE  TenantInv'
<1> DEFINE c == CodeOf[p]
<1>1. p \in Signup /\ c \in Code /\ migration[p] = 1 /\ StageInv(p) /\ TypeInv
  BY SignupAt
<1>2. tenantPc[p] \in Ahead
  BY DEF Ahead
<1>3. tenants[c] = "provisioning" /\ tenants'[c] = "provisioning"
  BY <1>1, <1>2 DEF StageInv
<1>4. MayTake(p, c)
  BY <1>1, <1>2 DEF MayTake
<1>5. \A d \in Code \ {c} : Same(d)
  BY DEF Same
<1>6. CodeInv(c)'
  BY <1>3 DEF CodeInv
<1>7. DOMAIN tenants' = Code
  BY <1>1 DEF TypeInv
<1> QED
  BY <1>1, <1>4, <1>5, <1>6, <1>7, CompanyStep

\* The dump is taken; the clone is logged; a connection is taken and given back.
LEMMA WaitingSteps ==
  ASSUME TenantInv, NEW p \in Process,
         Tenants!Dump(p) \/ Tenants!LogClone(p) \/ Tenants!Connect(p) \/ Tenants!IssueTokens(p)
  PROVE  TenantInv'
<1>1. /\ UNCHANGED <<tenants, stage, recorded, ran, admin, todo, migration>>
      /\ \/ tenantPc[p] = "dump" /\ tenantPc' = [tenantPc EXCEPT ![p] = "clone"]
         \/ tenantPc[p] = "logClone" /\ tenantPc' = [tenantPc EXCEPT ![p] = "connect"]
         \/ tenantPc[p] = "connect" /\ tenantPc' = [tenantPc EXCEPT ![p] = "insertUser"]
         \/ tenantPc[p] = "issueTokens" /\ tenantPc' = [tenantPc EXCEPT ![p] = "activate"]
  BY DEF Tenants!Dump, Tenants!LogClone, Tenants!Connect, Tenants!IssueTokens, Tenants!Goto, Tenants!dbVars
<1>2. tenantPc[p] \in {"dump"} \union Finishing /\ tenantPc[p] \in Ahead
  BY <1>1 DEF Finishing, Ahead
<1>3. p \in Signup /\ migration[p] = 1 /\ StageInv(p) /\ TypeInv
  BY <1>2, SignupAt
<1>4. PICK l \in {"clone", "connect", "insertUser", "activate"} :
        /\ tenantPc' = [tenantPc EXCEPT ![p] = l]
        /\ l = "clone" => tenantPc[p] = "dump"
        /\ l = "connect" => tenantPc[p] = "logClone"
        /\ l = "insertUser" => tenantPc[p] = "connect"
        /\ l = "activate" => tenantPc[p] = "issueTokens"
  BY <1>1
<1>5. tenantPc'[p] = l
  BY <1>3, <1>4 DEF TypeInv
<1>6. StageInv(p)'
  BY <1>1, <1>3, <1>4, <1>5 DEF StageInv, Seeded, Ahead, Migrating, Finishing
<1> QED
  BY <1>1, <1>2, <1>3, <1>4, <1>6, SignupGoesOn

\* psql makes the schema grow.
LEMMA CloneStep ==
  ASSUME TenantInv, NEW p \in Process, Tenants!Clone(p)
  PROVE  TenantInv'
<1> DEFINE c == CodeOf[p]
<1>1. /\ UNCHANGED <<tenants, recorded, ran, admin, todo, migration>> /\ tenantPc[p] = "clone"
      /\ \/ tenantPc' = tenantPc /\ \E v : stage' = [stage EXCEPT ![c] = v]
         \/ tenantPc' = [tenantPc EXCEPT ![p] = "seed"] /\ stage' = [stage EXCEPT ![c] = "complete"]
  BY DEF Tenants!Clone, Tenants!Goto
<1>2. p \in Signup /\ c \in Code /\ c \in Schema /\ StageInv(p) /\ TypeInv /\ RecordedIsWhatRan
  BY <1>1, SignupAt
<1>3. PICK l \in {"clone", "seed"} :
        /\ tenantPc' = [tenantPc EXCEPT ![p] = l]
        /\ \E v : stage' = [stage EXCEPT ![c] = v]
        /\ l = "seed" => stage' = [stage EXCEPT ![c] = "complete"]
  <2>1. CASE tenantPc' = tenantPc /\ \E v : stage' = [stage EXCEPT ![c] = v]
    <3>1. tenantPc' = [tenantPc EXCEPT ![p] = "clone"]
      BY <1>1, <1>2, <2>1 DEF TypeInv
    <3> QED
      BY <2>1, <3>1
  <2>2. CASE tenantPc' = [tenantPc EXCEPT ![p] = "seed"] /\ stage' = [stage EXCEPT ![c] = "complete"]
    BY <2>2
  <2> QED
    BY <1>1, <2>1, <2>2
<1>4. tenantPc'[p] = l /\ DOMAIN stage' = Schema /\ (l = "seed" => stage'[c] = "complete")
      /\ \A d \in Code \ {c} : stage'[d] = stage[d]
  BY <1>2, <1>3 DEF TypeInv
<1>5. DOMAIN admin' = Code /\ ran' \in [Schema -> Seq(Scripts)]
  BY <1>1, <1>2 DEF TypeInv
<1>6. RecordedIsWhatRan'
  BY <1>1, <1>2 DEF RecordedIsWhatRan, Tenants!RecordedIsWhatRan
<1>7. /\ \A s \in Schema : RangeOf(ran[s]) \subseteq RangeOf(ran'[s])
      /\ \A d \in Code : Seeded(d)' <=> Seeded(d)
  BY <1>1 DEF Seeded
<1>8. StageInv(p)'
  <2>1. tenants[c] = "provisioning" /\ ~Seeded(c) /\ todo[p] = <<c>>
    BY <1>1, <1>2 DEF StageInv, Ahead
  <2>2. tenants'[c] = "provisioning" /\ ~Seeded(c)' /\ todo'[p] = <<c>>
    BY <1>1, <1>2, <1>7, <2>1
  <2> HIDE DEF c
  <2> QED
    BY <1>4, <2>2 DEF StageInv, Migrating, Finishing, c
<1>9. \A d \in Code \ {c} : stage'[d] = stage[d] /\ admin'[d] = admin[d] /\ (Seeded(d)' <=> Seeded(d))
  BY <1>1, <1>4, <1>7
<1> QED
  BY <1>1, <1>3, <1>4, <1>5, <1>6, <1>7, <1>8, <1>9, ProvisioningStep

\* The seed runs once in every schema: only the sign-up that has its company code runs it.
LEMMA SeedStep ==
  ASSUME TenantInv, NEW p \in Process, Tenants!SeedSchema(p)
  PROVE  TenantInv'
<1> DEFINE c == CodeOf[p]
<1>1. /\ UNCHANGED <<tenants, stage, recorded, admin, todo, migration>> /\ tenantPc[p] = "seed"
      /\ tenantPc' = [tenantPc EXCEPT ![p] = "migrate"]
      /\ ran' = [ran EXCEPT ![c] = Append(@, "seed")]
  BY DEF Tenants!SeedSchema, Tenants!Goto
<1>2. p \in Signup /\ c \in Code /\ c \in Schema /\ StageInv(p) /\ TypeInv /\ RecordedIsWhatRan
  BY <1>1, SignupAt
<1>3. tenants[c] = "provisioning" /\ ~Seeded(c) /\ stage[c] = "complete" /\ todo[p] = <<c>>
  BY <1>1, <1>2 DEF StageInv, Ahead
<1> HIDE DEF c
<1>4. ran \in [Schema -> Seq(Scripts)] /\ ran[c] \in Seq(Scripts) /\ "seed" \in Scripts
  BY <1>2, MigrationNames DEF TypeInv
<1>5. /\ Append(ran[c], "seed") \in Seq(Scripts)
      /\ RangeOf(Append(ran[c], "seed")) = RangeOf(ran[c]) \union {"seed"}
  BY <1>4, RangeAppend
<1>6. Tenants!IsInjective(ran[c]) /\ \A u \in Schema :
        recorded[u] \ {"baseline"} = RangeOf(ran[u]) \ {"seed"} /\ Tenants!IsInjective(ran[u])
  BY <1>2 DEF RecordedIsWhatRan, Tenants!RecordedIsWhatRan, RangeOf, Schema
<1>7. Tenants!IsInjective(Append(ran[c], "seed"))
  BY <1>3, <1>4, <1>6, InjectiveAppend DEF Seeded
<1>8. /\ ran' \in [Schema -> Seq(Scripts)]
      /\ \A t \in Schema : RangeOf(ran'[t]) = IF t = c THEN RangeOf(ran[t]) \union {"seed"} ELSE RangeOf(ran[t])
      /\ \A t \in Schema : Tenants!IsInjective(ran'[t])
  <2>1. ran' \in [Schema -> Seq(Scripts)]
    BY <1>1, <1>2, <1>4, <1>5
  <2>2. \A t \in Schema : ran'[t] = IF t = c THEN Append(ran[c], "seed") ELSE ran[t]
    BY <1>1, <1>2, <1>4
  <2> QED
    BY <1>5, <1>6, <1>7, <2>1, <2>2
<1>9. RecordedIsWhatRan'
  <2> SUFFICES ASSUME NEW t \in Schema
               PROVE  recorded'[t] \ {"baseline"} = RangeOf(ran'[t]) \ {"seed"} /\ Tenants!IsInjective(ran'[t])
    BY DEF RecordedIsWhatRan, Tenants!RecordedIsWhatRan, RangeOf, Schema
  <2> QED
    BY <1>1, <1>6, <1>8
<1>10. tenantPc'[p] = "migrate" /\ DOMAIN stage' = Schema /\ DOMAIN admin' = Code
  BY <1>1, <1>2 DEF TypeInv
<1>11. \A s \in Schema : RangeOf(ran[s]) \subseteq RangeOf(ran'[s])
  BY <1>8
<1>12. \A d \in Code \ {c} : stage'[d] = stage[d] /\ admin'[d] = admin[d] /\ (Seeded(d)' <=> Seeded(d))
  <2>1. ASSUME NEW d \in Code \ {c}  PROVE Seeded(d)' <=> Seeded(d)
    BY <1>8, Sets DEF Seeded
  <2> QED
    BY <1>1, <2>1
<1>13. StageInv(p)'
  <2>1. tenants'[c] = "provisioning" /\ Seeded(c)' /\ stage'[c] = "complete" /\ todo'[p] = <<c>>
    BY <1>1, <1>2, <1>3, <1>8 DEF Seeded
  <2> QED
    BY <1>10, <2>1 DEF StageInv, Migrating, Finishing, c
<1>14. todo[p] # <<>>
  BY <1>3
<1> QED
  BY <1>1, <1>8, <1>9, <1>10, <1>11, <1>12, <1>13, <1>14, ProvisioningStep DEF c

\* The first user is inserted and becomes Admin.
LEMMA UserSteps ==
  ASSUME TenantInv, NEW p \in Process, Tenants!InsertUser(p) \/ Tenants!AssignRole(p)
  PROVE  TenantInv'
<1> DEFINE c == CodeOf[p]
<1>1. /\ UNCHANGED <<tenants, stage, recorded, ran, todo, migration>>
      /\ \/ /\ tenantPc[p] = "insertUser" /\ tenantPc' = [tenantPc EXCEPT ![p] = "assignRole"]
            /\ admin' = [admin EXCEPT ![c] = "user"]
         \/ /\ tenantPc[p] = "assignRole" /\ tenantPc' = [tenantPc EXCEPT ![p] = "issueTokens"]
            /\ admin' = [admin EXCEPT ![c] = "admin"]
  BY DEF Tenants!InsertUser, Tenants!AssignRole, Tenants!Goto
<1>2. tenantPc[p] \in {"insertUser", "assignRole"} /\ tenantPc[p] \in Finishing /\ tenantPc[p] \in Ahead
  BY <1>1 DEF Finishing, Ahead
<1>3. p \in Signup /\ c \in Code /\ c \in Schema /\ StageInv(p) /\ TypeInv /\ RecordedIsWhatRan
  BY <1>2, SignupAt
<1>4. PICK l \in {"assignRole", "issueTokens"} :
        /\ tenantPc' = [tenantPc EXCEPT ![p] = l]
        /\ \E v : admin' = [admin EXCEPT ![c] = v]
        /\ l = "issueTokens" => admin' = [admin EXCEPT ![c] = "admin"]
  BY <1>1
<1>5. tenantPc'[p] = l /\ DOMAIN admin' = Code /\ (l = "issueTokens" => admin'[c] = "admin")
      /\ \A d \in Code \ {c} : admin'[d] = admin[d]
  BY <1>3, <1>4 DEF TypeInv
<1>6. DOMAIN stage' = Schema /\ ran' \in [Schema -> Seq(Scripts)]
  BY <1>1, <1>3 DEF TypeInv
<1>7. RecordedIsWhatRan'
  BY <1>1, <1>3 DEF RecordedIsWhatRan, Tenants!RecordedIsWhatRan
<1>8. /\ \A s \in Schema : RangeOf(ran[s]) \subseteq RangeOf(ran'[s])
      /\ \A d \in Code : Seeded(d)' <=> Seeded(d)
  BY <1>1 DEF Seeded
<1>9. StageInv(p)'
  <2>1. /\ tenants[c] = "provisioning" /\ Seeded(c) /\ stage[c] = "complete"
        /\ RangeOf(Migration) \subseteq RangeOf(ran[c])
    BY <1>2, <1>3 DEF StageInv
  <2>2. /\ tenants'[c] = "provisioning" /\ Seeded(c)' /\ stage'[c] = "complete"
        /\ RangeOf(Migration) \subseteq RangeOf(ran'[c])
    BY <1>1, <1>3, <1>8, <2>1
  <2> HIDE DEF c
  <2> QED
    BY <1>5, <2>2 DEF StageInv, Migrating, c
<1>10. \A d \in Code \ {c} : stage'[d] = stage[d] /\ admin'[d] = admin[d] /\ (Seeded(d)' <=> Seeded(d))
  BY <1>1, <1>5, <1>8
<1> QED
  BY <1>1, <1>2, <1>4, <1>5, <1>6, <1>7, <1>8, <1>9, <1>10, ProvisioningStep

\* A company becomes active when everything is there.
LEMMA ActivateStep ==
  ASSUME TenantInv, NEW p \in Process, Tenants!Activate(p)
  PROVE  TenantInv'
<1> DEFINE c == CodeOf[p]
<1>1. /\ UNCHANGED <<stage, recorded, ran, admin, todo, migration>> /\ tenantPc[p] = "activate"
      /\ tenantPc' = [tenantPc EXCEPT ![p] = "logActivation"] /\ tenants' = [tenants EXCEPT ![c] = "active"]
  BY DEF Tenants!Activate, Tenants!Goto
<1>2. tenantPc[p] \in Finishing /\ tenantPc[p] \in Ahead
  BY <1>1 DEF Finishing, Ahead
<1>3. p \in Signup /\ c \in Code /\ c \in Schema /\ migration[p] = 1 /\ StageInv(p) /\ TypeInv /\ RecordedIsWhatRan
  BY <1>2, SignupAt
<1>4. /\ DOMAIN tenants' = Code /\ DOMAIN admin' = Code /\ DOMAIN stage' = Schema
      /\ ran' \in [Schema -> Seq(Scripts)] /\ tenantPc'[p] = "logActivation" /\ tenants'[c] = "active"
  BY <1>1, <1>3 DEF TypeInv
<1>5. \A d \in Code \ {c} : Same(d)
  BY <1>1, <1>3 DEF TypeInv, Same, Seeded
<1>6. MayTake(p, c)
  BY <1>2, <1>3 DEF MayTake
<1>7. RecordedIsWhatRan'
  BY <1>1, <1>3 DEF RecordedIsWhatRan, Tenants!RecordedIsWhatRan
<1>8. StageInv(p)'
  BY <1>4 DEF StageInv, Ahead, Migrating, Finishing
<1>9. CodeInv(c)'
  <2>1. /\ Seeded(c) /\ stage[c] = "complete" /\ RangeOf(Migration) \subseteq RangeOf(ran[c])
        /\ admin[c] = "admin"
    BY <1>1, <1>2, <1>3 DEF StageInv
  <2>2. ran[c] \in Seq(Scripts)
    BY <1>3 DEF TypeInv
  <2>3. RangeOf(ran[c]) \subseteq Scripts
    BY <2>2 DEF RangeOf, Tenants!Range
  <2>4. RangeOf(ran[c]) = Scripts
    BY <2>1, <2>3, MigrationNames DEF Seeded
  <2>5. RangeOf(ran'[c]) = Scripts' /\ stage'[c] = "complete" /\ admin'[c] = "admin"
    BY <1>1, <2>1, <2>4 DEF Scripts
  <2> HIDE DEF c
  <2> QED
    BY <1>4, <2>5 DEF CodeInv
<1>10. \A s \in Schema : RangeOf(ran[s]) \subseteq RangeOf(ran'[s])
  BY <1>1
<1> QED
  BY <1>1, <1>3, <1>4, <1>5, <1>6, <1>7, <1>8, <1>9, <1>10, CompanyStep

\* Every step of a sign-up keeps the invariant.
LEMMA ProvisionSteps ==
  ASSUME TenantInv, NEW p \in Process, Tenants!Provision(p)
  PROVE  TenantInv'
<1>1. CASE Tenants!ForeignUser(p)
  <2>1. /\ UNCHANGED <<tenants, stage, recorded, ran, admin, todo, migration>>
        /\ tenantPc[p] = "insertUser" /\ Tenants!Finish(p, "failed", 409)
    BY <1>1 DEF Tenants!ForeignUser, Tenants!dbVars
  <2> QED
    BY <2>1, RefusedSignup
<1>2. Tenants!CloneFails(p) => Tenants!Throw(p)
  BY DEF Tenants!CloneFails
<1>3. CASE Tenants!LogFailure(p) \/ Tenants!LogActivation(p)
  <2>1. UNCHANGED <<tenants, stage, recorded, ran, admin, todo, migration>>
    BY <1>3 DEF Tenants!LogFailure, Tenants!LogActivation, Tenants!dbVars
  <2>2. PICK l \in {"failed", "done"} :
          /\ tenantPc' = [tenantPc EXCEPT ![p] = l]
          /\ l = "done" => tenantPc[p] = "logActivation"
    BY <1>3 DEF Tenants!LogFailure, Tenants!LogActivation, Tenants!Finish, Tenants!Goto
  <2>3. l = "done" => migration[p] = 1
    BY <2>2 DEF TenantInv, MigrationInv
  <2> QED
    BY <2>1, <2>2, <2>3, StopStep
<1> QED
  BY <1>1, <1>2, <1>3, ThrowStep, ArriveSteps, RegisterStep, WaitingSteps, CloneStep, SeedStep, UserSteps, ActivateStep
     DEF Tenants!Provision

-----------------------------------------------------------------------------
(* The theorems.                                                           *)

\* At the beginning nothing has run, or in the template all migrations.
LEMMA TenantsBegin ==
  ASSUME Init
  PROVE  TenantInv
<1>1. PICK w : Tenants!Begin(w)
  BY DEF Init, Tenants!Init
<1>2. TypeInv
  <2>1. hasTable \in {{}, {Template}} /\ \A s \in Schema : ran[s] \in Seq(Scripts)
    BY <1>1, MigrationNames DEF Tenants!Begin, Schema, Migration
  <2> QED
    BY <1>1, <2>1 DEF Tenants!Begin, TypeInv, Schema, Process
<1>3. RecordedIsWhatRan
  <2> SUFFICES ASSUME NEW s \in Schema
               PROVE  recorded[s] \ {"baseline"} = RangeOf(ran[s]) \ {"seed"} /\ Tenants!IsInjective(ran[s])
    BY DEF RecordedIsWhatRan, Tenants!RecordedIsWhatRan, RangeOf, Schema
  <2>1. CASE s \in hasTable
    <3>1. recorded[s] = {"baseline"} \union RangeOf(Migration) /\ ran[s] = Migration
      BY <1>1, <2>1 DEF Tenants!Begin, RangeOf, Migration, Schema
    <3> QED
      BY <3>1, MigrationNames
  <2>2. CASE s \notin hasTable
    <3>1. recorded[s] = {} /\ ran[s] = <<>>
      BY <1>1, <2>2 DEF Tenants!Begin, Schema
    <3>2. DOMAIN <<>> = {}
      OBVIOUS
    <3> QED
      BY <3>1, <3>2 DEF RangeOf, Tenants!Range, Tenants!IsInjective
  <2> QED
    BY <2>1, <2>2
<1>4. \A p \in Process : tenantPc[p] \in {"start", "done"} /\ migration[p] = 1
  BY <1>1 DEF Tenants!Begin, Process
<1>5. OneHolder
  BY <1>4, Sets DEF OneHolder, Ahead, Migrating, Finishing
<1>6. ASSUME NEW c \in Code  PROVE CodeInv(c)
  <2>1. tenants[c] = "absent" /\ c \notin hasTable /\ c \in Schema
    BY <1>1, Sets, ApplicationAssumption DEF Tenants!Begin, Tenants!LifecycleAssumption
  <2>2. ran[c] = <<>>
    BY <1>1, <2>1 DEF Tenants!Begin, Schema
  <2>3. ~Seeded(c)
    BY <2>2 DEF Seeded, RangeOf, Tenants!Range
  <2> QED
    BY <2>1, <2>3 DEF CodeInv
<1>7. ASSUME NEW p \in Signup  PROVE StageInv(p)
  <2>1. tenantPc[p] \in {"start", "done"} /\ todo[p] = <<CodeOf[p]>>
    BY <1>1, <1>4, Sets DEF Tenants!Begin, Process
  <2> QED
    BY <2>1 DEF StageInv, Ahead, Migrating, Finishing
<1>8. ASSUME NEW p \in Process  PROVE MigrationInv(p)
  <2>1. todo[p] = IF p \in Signup THEN <<CodeOf[p]>> ELSE <<>>
    BY <1>1 DEF Tenants!Begin, Process
  <2>2. todo[p] \in Seq(Schema)
    BY <2>1, Sets
  <2> QED
    BY <1>4, <2>2 DEF MigrationInv, Migrating
<1> QED
  BY <1>2, <1>3, <1>5, <1>6, <1>7, <1>8 DEF TenantInv

\* What the invariant says holds at the beginning and after each step.
LEMMA TenantInvariant == Spec => []TenantInv
<1>1. Init => TenantInv
  BY TenantsBegin
<1>2. ASSUME TenantInv, [Next]_vars  PROVE TenantInv'
  <2>1. CASE UNCHANGED tenantVars
    <3>1. UNCHANGED <<tenants, stage, recorded, ran, admin, tenantPc, todo, migration>>
      BY <2>1 DEF tenantVars
    <3> QED
      BY <1>2, <3>1
      DEF TenantInv, TypeInv, RecordedIsWhatRan, Tenants!RecordedIsWhatRan, OneHolder, CodeInv, StageInv,
          MigrationInv, Seeded, Target
  <2>2. CASE Tenants!Next
    <3>1. PICK p \in Process : Tenants!Step(p) \/ Tenants!Fail(p)
      BY <2>2 DEF Tenants!Next, Process
    <3>2. Tenants!Fail(p) => Tenants!Throw(p)
      BY DEF Tenants!Fail
    <3> QED
      BY <1>2, <3>1, <3>2, ThrowStep, MigrateSteps, ProvisionSteps, ListStep, RequestSteps DEF Tenants!Step
  <2> QED
    BY <1>2, <2>1, <2>2 DEF Next, vars, tenantVars
<1> QED
  BY <1>1, <1>2, PTL DEF Spec

(***************************************************************************)
(* In every schema, the migrations that schema_migrations lists are those  *)
(* that have run, each of them once, although sign-ups and runs of         *)
(* migrateAll look before their transactions begin (MigrationRunner-       *)
(* Service.migrateSchema).                                                 *)
(***************************************************************************)
THEOREM RecordsAreTrue == Spec => []RecordedIsWhatRan
<1>1. TenantInv => RecordedIsWhatRan
  BY DEF TenantInv
<1> QED
  BY <1>1, TenantInvariant, PTL

(***************************************************************************)
(* A tenant with status 'active' has the whole schema, the seed, every     *)
(* migration and an Admin, wherever sign-ups and migration runs overlap or *)
(* fail (TenantProvisioningService.signup).                                *)
(***************************************************************************)
THEOREM ActiveTenantsAreComplete == Spec => []ActiveTenantIsComplete
<1>1. TenantInv => ActiveTenantIsComplete
  BY DEF TenantInv, CodeInv, ActiveTenantIsComplete, Tenants!ActiveTenantIsComplete, RangeOf, Scripts
<1> QED
  BY <1>1, TenantInvariant, PTL

-----------------------------------------------------------------------------
(* The tables of access after a sequence of scripts.                       *)

\* The recursive function behind the fold of the model.
RunIteration(s, iter) ==
  iter = [t \in SUBSET (DOMAIN s) |->
            IF t = {} THEN Tenants!NoAccess
            ELSE Tenants!Run(iter[t \ {Tenants!Max(t)}], s[Tenants!Max(t)])]

\* The fold is a value of such a function.
LEMMA AccessByIteration ==
  ASSUME NEW s
  PROVE  Tenants!AccessAfter(s) = (CHOOSE iter : RunIteration(s, iter))[DOMAIN s]
BY DEF Tenants!AccessAfter, Tenants!FoldLeft, Tenants!MapThenFoldSet, RunIteration

\* A set of places has a last one.
LEMMA Last ==
  ASSUME NEW n \in Nat, NEW t \in SUBSET (1..n), t # {}
  PROVE  Tenants!Max(t) \in t /\ \A x \in t : x <= Tenants!Max(t)
<1> DEFINE T == {n - x : x \in t}
<1>1. T \in SUBSET Nat /\ T # {}
  <2>1. \A x \in t : x \in 1..n
    OBVIOUS
  <2>2. \A x \in 1..n : n - x \in Nat
    OBVIOUS
  <2>3. \A y \in T : y \in Nat
    BY <2>1, <2>2
  <2>4. PICK x : x \in t
    OBVIOUS
  <2>5. n - x \in T
    BY <2>4
  <2> HIDE DEF T
  <2> QED
    BY <2>3, <2>5
<1> HIDE DEF T
<1>2. PICK k \in T : \A j \in T : k <= j
  BY <1>1, LeastNumber
<1>3. PICK y \in t : k = n - y
  BY <1>2 DEF T
<1>4. ASSUME NEW x \in t  PROVE y >= x
  <2>1. n - x \in T /\ x \in Int /\ y \in Int
    BY DEF T
  <2>2. n - y <= n - x
    BY <1>2, <1>3, <2>1
  <2> QED
    BY <2>1, <2>2
<1>5. Tenants!Max(t) \in t /\ \A x \in t : Tenants!Max(t) >= x
  BY <1>3, <1>4 DEF Tenants!Max
<1>6. \A x \in t : x \in Int
  OBVIOUS
<1> QED
  BY <1>5, <1>6

\* Such a function exists.
LEMMA RunIterationExists ==
  ASSUME NEW s \in Seq(Scripts)
  PROVE  \E iter : RunIteration(s, iter)
<1> DEFINE S == 1..Len(s)
           Body(g, t) == IF t = {} THEN Tenants!NoAccess
                         ELSE Tenants!Run(g[t \ {Tenants!Max(t)}], s[Tenants!Max(t)])
           Q == {n \in Nat : \E g : \A t \in UpTo(S, n) : g[t] = Body(g, t)}
<1>1. Len(s) \in Nat /\ DOMAIN s = S /\ IsFiniteSet(S)
  BY FS_Interval
<1>2. \A t \in SUBSET S : IsFiniteSet(t) /\ Cardinality(t) \in Nat
  BY <1>1, FS_Subset, FS_CardinalityType
<1>3. 0 \in Q
  <2> DEFINE g == [t \in UpTo(S, 0) |-> Tenants!NoAccess]
  <2>1. \A t \in UpTo(S, 0) : t = {}
    BY <1>2, FS_EmptySet DEF UpTo
  <2>2. \A t \in UpTo(S, 0) : g[t] = Body(g, t)
    BY <2>1
  <2> HIDE DEF g, Body
  <2> QED
    BY <2>2
<1>4. ASSUME NEW n \in Nat, n \in Q  PROVE n + 1 \in Q
  <2>1. PICK g : \A t \in UpTo(S, n) : g[t] = Body(g, t)
    BY <1>4
  <2> DEFINE h == [t \in UpTo(S, n + 1) |-> Body(g, t)]
  <2>2. ASSUME NEW t \in UpTo(S, n + 1)  PROVE h[t] = Body(h, t)
    <3>1. CASE t = {}
      BY <3>1
    <3>2. CASE t # {}
      <4> DEFINE x == Tenants!Max(t)
                 r == t \ {x}
      <4>1. t \in SUBSET S /\ Cardinality(t) <= n + 1
        BY DEF UpTo
      <4>2. x \in t
        BY <1>1, <3>2, <4>1, Last
      <4>3. Cardinality(r) = Cardinality(t) - 1 /\ Cardinality(t) \in Nat
        BY <1>2, <4>1, <4>2, FS_RemoveElement
      <4>4. r \in UpTo(S, n) /\ r \in UpTo(S, n + 1)
        <5>1. Cardinality(r) <= n /\ Cardinality(r) <= n + 1
          BY <4>1, <4>3
        <5> QED
          BY <4>1, <5>1 DEF UpTo
      <4>5. h[r] = Body(g, r) /\ g[r] = Body(g, r)
        BY <4>4, <2>1
      <4>6. h[t] = Tenants!Run(g[r], s[x]) /\ Body(h, t) = Tenants!Run(h[r], s[x])
        BY <3>2
      <4> QED
        BY <4>5, <4>6
    <3> QED
      BY <3>1, <3>2
  <2> HIDE DEF h, Body
  <2>3. \E k : \A t \in UpTo(S, n + 1) : k[t] = Body(k, t)
    BY <2>2
  <2> QED
    BY <2>3
<1> HIDE DEF Q
<1>5. Nat \subseteq Q
  BY <1>3, <1>4, NatSetInduction
<1>6. Cardinality(S) \in Q
  BY <1>1, <1>5, FS_CardinalityType
<1>7. UpTo(S, Cardinality(S)) = SUBSET S
  BY <1>1, FS_Subset DEF UpTo
<1>8. PICK g : \A t \in SUBSET S : g[t] = Body(g, t)
  BY <1>6, <1>7 DEF Q
<1> DEFINE iter == [t \in SUBSET S |-> g[t]]
<1>9. \A t \in SUBSET S : iter[t] = Body(iter, t)
  <2> SUFFICES ASSUME NEW t \in SUBSET S  PROVE g[t] = Body(iter, t)
    BY DEF Body
  <2>1. t \ {Tenants!Max(t)} \in SUBSET S
    OBVIOUS
  <2>2. iter[t \ {Tenants!Max(t)}] = g[t \ {Tenants!Max(t)}]
    BY <2>1
  <2> HIDE DEF iter
  <2> QED
    BY <1>8, <2>2
<1>10. iter = [t \in SUBSET S |-> iter[t]]
  OBVIOUS
<1> HIDE DEF iter
<1>11. RunIteration(s, iter)
  BY <1>1, <1>9, <1>10 DEF RunIteration
<1> QED
  BY <1>11

\* One script at a time: acc[k] is what the tables hold after k of them.
LEMMA AccessSteps ==
  ASSUME NEW s \in Seq(Scripts)
  PROVE  \E acc : /\ acc[0] = Tenants!NoAccess
                  /\ \A k \in 1..Len(s) : acc[k] = Tenants!Run(acc[k - 1], s[k])
                  /\ Tenants!AccessAfter(s) = acc[Len(s)]
<1> DEFINE n == Len(s)
           iter == CHOOSE i : RunIteration(s, i)
           acc == [k \in 0..n |-> iter[1..k]]
<1>1. n \in Nat /\ DOMAIN s = 1..n
  OBVIOUS
<1>2. RunIteration(s, iter)
  BY RunIterationExists
<1>3. Tenants!AccessAfter(s) = iter[1..n]
  BY <1>1, AccessByIteration
<1> HIDE DEF iter, n
<1>4. acc[0] = Tenants!NoAccess
  <2>1. 1..0 = {} /\ {} \in SUBSET (1..n)
    OBVIOUS
  <2>2. iter[{}] = Tenants!NoAccess
    BY <1>1, <1>2, <2>1 DEF RunIteration
  <2> QED
    BY <1>1, <2>1, <2>2
<1>5. ASSUME NEW k \in 1..n  PROVE acc[k] = Tenants!Run(acc[k - 1], s[k])
  <2>1. k \in 0..n /\ k - 1 \in 0..n /\ k \in Nat /\ 1..k \in SUBSET (1..n) /\ 1..k # {} /\ k \in 1..k
    BY <1>1
  <2>2. Tenants!Max(1..k) \in 1..k /\ \A x \in 1..k : x <= Tenants!Max(1..k)
    <3>1. 1..k \in SUBSET (1..k)
      OBVIOUS
    <3> QED
      BY <2>1, <3>1, Last
  <2>3. Tenants!Max(1..k) = k
    BY <2>1, <2>2
  <2>4. (1..k) \ {k} = 1..(k - 1)
    BY <2>1
  <2>5. iter[1..k] = Tenants!Run(iter[1..(k - 1)], s[k])
    BY <1>1, <1>2, <2>1, <2>3, <2>4 DEF RunIteration
  <2> QED
    BY <2>1, <2>5
<1>6. acc[n] = iter[1..n]
  BY <1>1
<1> HIDE DEF acc
<1>7. acc[0] = Tenants!NoAccess /\ (\A k \in 1..n : acc[k] = Tenants!Run(acc[k - 1], s[k]))
      /\ Tenants!AccessAfter(s) = acc[n]
  BY <1>3, <1>4, <1>5, <1>6
<1> QED
  BY <1>7 DEF n

-----------------------------------------------------------------------------
(* What scripts grant.                                                     *)

\* The three tables of a schema.
Tables(a) ==
  /\ a = [perms |-> a.perms, roles |-> a.roles, grants |-> a.grants]
  /\ a.grants = [r \in Tenants!Role |-> a.grants[r]]

ViewerReads(a)   == \A p \in a.grants["Viewer"] : p.action \in Tenants!ReadOnly
AdminHasAll(a)   == a.roles = Tenants!Role /\ a.perms \subseteq a.grants["Admin"]
NoAudit(perms)   == \A p \in perms : p.module # "audit_logs"
AuditIsAdmins(a) == \A r \in Tenants!Role \ {"Admin"} : NoAudit(a.grants[r])

\* The permissions that a script creates.
CompanyPerms   == Tenants!Perm({"company_profile"}, {"view", "edit"})
InventoryPerms == Tenants!Perm({"blocked_stock", "reserved_stock"}, Tenants!Crud)
                    \union Tenants!Perm({"inventory"}, {"view", "create", "export", "print"})
PurchasePerms  == Tenants!Perm({"goods_received_notes", "purchase_invoices"}, {"approve"})
SalesPerms     == Tenants!Perm({"delivery_challans", "sales_invoices"}, {"approve"})

\* Permissions are only added.
LEMMA InsertKeeps ==
  ASSUME NEW a, Tables(a), NEW perms
  PROVE  LET b == Tenants!Insert(a, perms)
         IN  /\ Tables(b) /\ b.perms = a.perms \union perms /\ b.roles = a.roles
             /\ b.grants = a.grants
<1> DEFINE b == Tenants!Insert(a, perms)
<1>1. b = [perms |-> a.perms \union perms, roles |-> a.roles, grants |-> a.grants]
  BY DEF Tables, Tenants!Insert
<1> QED
  BY <1>1 DEF Tables

\* A grant adds to the roles it names what it names, if it is there.
LEMMA GrantKeeps ==
  ASSUME NEW a, Tables(a), NEW roles0, NEW perms
  PROVE  LET b == Tenants!Grant(a, roles0, perms)
         IN  /\ Tables(b) /\ b.perms = a.perms /\ b.roles = a.roles
             /\ a.grants["Admin"] \subseteq b.grants["Admin"]
             /\ "Admin" \in roles0 /\ a.roles = Tenants!Role =>
                  perms \intersect a.perms \subseteq b.grants["Admin"]
             /\ ViewerReads(a)
                  /\ ("Viewer" \notin roles0 \/ \A p \in perms : p.action \in Tenants!ReadOnly)
                  => ViewerReads(b)
             /\ AuditIsAdmins(a) /\ ((\A r \in roles0 : r = "Admin") \/ NoAudit(perms \intersect a.perms))
                  => AuditIsAdmins(b)
<1> DEFINE b == Tenants!Grant(a, roles0, perms)
           g == [r \in Tenants!Role |->
                   IF r \in roles0 \intersect a.roles THEN a.grants[r] \union (perms \intersect a.perms)
                   ELSE a.grants[r]]
<1>1. b = [perms |-> a.perms, roles |-> a.roles, grants |-> g]
  <2>1. b = [a EXCEPT !.grants = g]
    BY DEF Tenants!Grant
  <2> HIDE DEF b, g
  <2> QED
    BY <2>1 DEF Tables
<1>2. Tables(b) /\ b.perms = a.perms /\ b.roles = a.roles /\ b.grants = g
  BY <1>1 DEF Tables
<1>3. "Admin" \in Tenants!Role /\ "Viewer" \in Tenants!Role
  BY DEF Tenants!Role
<1>4. ASSUME NEW r \in Tenants!Role
      PROVE  /\ a.grants[r] \subseteq b.grants[r]
             /\ \A p \in b.grants[r] : p \in a.grants[r] \/ (r \in roles0 /\ p \in perms \intersect a.perms)
             /\ r \in roles0 /\ r \in a.roles => perms \intersect a.perms \subseteq b.grants[r]
  BY <1>2
<1> HIDE DEF b, g
<1>5. ASSUME ViewerReads(a), "Viewer" \notin roles0 \/ \A p \in perms : p.action \in Tenants!ReadOnly
      PROVE  ViewerReads(b)
  BY <1>3, <1>4, <1>5 DEF ViewerReads
<1>6. ASSUME AuditIsAdmins(a), (\A r \in roles0 : r = "Admin") \/ NoAudit(perms \intersect a.perms)
      PROVE  AuditIsAdmins(b)
  BY <1>4, <1>6 DEF AuditIsAdmins, NoAudit
<1> QED
  BY <1>2, <1>3, <1>4, <1>5, <1>6 DEF b

(***************************************************************************)
(* What a script leaves of the limits of roles: a Viewer is granted what   *)
(* only reads, Admin everything once the roles are there, and nobody else  *)
(* the audit log, unless the seed runs when its permission is there.       *)
(***************************************************************************)
Keeps(a, b, script, adds) ==
  /\ Tables(b) /\ a.perms \union adds \subseteq b.perms
  /\ ViewerReads(a) => ViewerReads(b)
  /\ script = "seed" \/ AdminHasAll(a) => AdminHasAll(b)
  /\ AuditIsAdmins(a) /\ (script = "seed" => NoAudit(a.perms)) => AuditIsAdmins(b)

\* The audit permission is for Admin.
LEMMA GrantAuditKeeps ==
  ASSUME NEW a, Tables(a)
  PROVE  LET b == Tenants!GrantAudit(a)
         IN  /\ Tables(b) /\ b.perms = a.perms \union Tenants!AuditView /\ b.roles = a.roles
             /\ ViewerReads(a) => ViewerReads(b)
             /\ AdminHasAll(a) => AdminHasAll(b)
             /\ AuditIsAdmins(a) => AuditIsAdmins(b)
<1> DEFINE RA == {"Admin"}
           i == Tenants!Insert(a, Tenants!AuditView)
           b == Tenants!Grant(i, RA, Tenants!AuditView)
<1>1. Tenants!GrantAudit(a) = b
  BY DEF Tenants!GrantAudit
<1>2. /\ Tables(i) /\ i.perms = a.perms \union Tenants!AuditView /\ i.roles = a.roles
      /\ i.grants = a.grants
  BY InsertKeeps
<1>6. "Viewer" \notin RA /\ "Admin" \in RA /\ \A r \in RA : r = "Admin"
  OBVIOUS
<1> HIDE DEF i, RA
<1>3. /\ Tables(b) /\ b.perms = i.perms /\ b.roles = i.roles
      /\ i.grants["Admin"] \subseteq b.grants["Admin"]
      /\ i.roles = Tenants!Role => Tenants!AuditView \intersect i.perms \subseteq b.grants["Admin"]
      /\ ViewerReads(i) => ViewerReads(b)
      /\ AuditIsAdmins(i) => AuditIsAdmins(b)
  <2> DEFINE view == Tenants!AuditView
  <2>1. Tables(i)
    BY <1>2
  <2> HIDE DEF view
  <2>2. /\ Tables(b) /\ b.perms = i.perms /\ b.roles = i.roles
        /\ i.grants["Admin"] \subseteq b.grants["Admin"]
        /\ "Admin" \in RA /\ i.roles = Tenants!Role => view \intersect i.perms \subseteq b.grants["Admin"]
        /\ ViewerReads(i) /\ ("Viewer" \notin RA \/ \A p \in view : p.action \in Tenants!ReadOnly)
             => ViewerReads(b)
        /\ AuditIsAdmins(i) /\ ((\A r \in RA : r = "Admin") \/ NoAudit(view \intersect i.perms))
             => AuditIsAdmins(b)
    BY <2>1, GrantKeeps DEF view
  <2> QED
    BY <1>6, <2>2 DEF view
<1> HIDE DEF b
<1>4. (ViewerReads(a) <=> ViewerReads(i)) /\ (AuditIsAdmins(a) <=> AuditIsAdmins(i))
  BY <1>2 DEF ViewerReads, AuditIsAdmins
<1>5. AdminHasAll(a) => AdminHasAll(b)
  BY <1>2, <1>3 DEF AdminHasAll
<1> QED
  BY <1>1, <1>2, <1>3, <1>4, <1>5

\* 006_audit_log.
LEMMA AuditScript ==
  ASSUME NEW a, Tables(a)
  PROVE  Keeps(a, Tenants!GrantAudit(a), "006_audit_log", Tenants!AuditView)
BY GrantAuditKeeps DEF Keeps

\* 001_company_profile.
LEMMA CompanyScript ==
  ASSUME NEW a, Tables(a)
  PROVE  Keeps(a, Tenants!AddCompanyProfile(a), "001_company_profile", CompanyPerms)
<1> DEFINE new == CompanyPerms
           i == Tenants!Insert(a, new)
           R1 == {"Admin", "Manager"}
           R2 == {"WarehouseManager", "SalesPerson", "Viewer"}
           P2 == Tenants!Reading(new)
           b == Tenants!Grant(i, R1, new)
           c == Tenants!Grant(b, R2, P2)
<1>1. Tenants!AddCompanyProfile(a) = c
  BY DEF Tenants!AddCompanyProfile, CompanyPerms
<1>2. NoAudit(new)
  BY DEF NoAudit, CompanyPerms, Tenants!Perm
<1>3. /\ \A p \in P2 : p.action \in Tenants!ReadOnly /\ p \in new
      /\ "Viewer" \notin R1 /\ "Admin" \in R1
  BY DEF Tenants!Reading
<1>4. NoAudit(new \intersect i.perms) /\ NoAudit(P2 \intersect b.perms)
  BY <1>2, <1>3 DEF NoAudit
<1>5. Tables(i) /\ i.perms = a.perms \union new /\ i.roles = a.roles /\ i.grants = a.grants
  BY InsertKeeps
<1> HIDE DEF i, new, R1, R2, P2
<1>6. /\ Tables(b) /\ b.perms = i.perms /\ b.roles = i.roles
      /\ i.grants["Admin"] \subseteq b.grants["Admin"]
      /\ i.roles = Tenants!Role => new \intersect i.perms \subseteq b.grants["Admin"]
      /\ ViewerReads(i) => ViewerReads(b)
      /\ AuditIsAdmins(i) => AuditIsAdmins(b)
  BY <1>3, <1>4, <1>5, GrantKeeps
<1> HIDE DEF b
<1>7. /\ Tables(c) /\ c.perms = b.perms /\ c.roles = b.roles
      /\ b.grants["Admin"] \subseteq c.grants["Admin"]
      /\ ViewerReads(b) => ViewerReads(c)
      /\ AuditIsAdmins(b) => AuditIsAdmins(c)
  BY <1>3, <1>4, <1>6, GrantKeeps
<1> HIDE DEF c
<1>8. (ViewerReads(a) <=> ViewerReads(i)) /\ (AuditIsAdmins(a) <=> AuditIsAdmins(i))
  BY <1>5 DEF ViewerReads, AuditIsAdmins
<1>9. AdminHasAll(a) => AdminHasAll(c)
  BY <1>5, <1>6, <1>7 DEF AdminHasAll
<1>10. a.perms \union new \subseteq c.perms
  BY <1>5, <1>6, <1>7
<1> QED
  BY <1>1, <1>6, <1>7, <1>8, <1>9, <1>10 DEF Keeps, new

\* 003_inventory.
LEMMA InventoryScript ==
  ASSUME NEW a, Tables(a)
  PROVE  Keeps(a, Tenants!AddInventory(a), "003_inventory", InventoryPerms)
<1> DEFINE new == InventoryPerms
           i == Tenants!Insert(a, new)
           R1 == {"Admin", "WarehouseManager"}
           R2 == {"Manager"}
           P2 == Tenants!Without(new, "delete")
           R3 == {"SalesPerson", "Viewer"}
           P3 == Tenants!Reading(new)
           b == Tenants!Grant(i, R1, new)
           c == Tenants!Grant(b, R2, P2)
           d == Tenants!Grant(c, R3, P3)
<1>1. Tenants!AddInventory(a) = d
  BY DEF Tenants!AddInventory, InventoryPerms
<1>2. NoAudit(new)
  BY DEF NoAudit, InventoryPerms, Tenants!Perm
<1>3. /\ \A p \in P3 : p.action \in Tenants!ReadOnly /\ p \in new
      /\ \A p \in P2 : p \in new
      /\ "Viewer" \notin R1 /\ "Viewer" \notin R2 /\ "Admin" \in R1
  BY DEF Tenants!Reading, Tenants!Without
<1>4. NoAudit(new \intersect i.perms) /\ NoAudit(P2 \intersect b.perms) /\ NoAudit(P3 \intersect c.perms)
  BY <1>2, <1>3 DEF NoAudit
<1>5. Tables(i) /\ i.perms = a.perms \union new /\ i.roles = a.roles /\ i.grants = a.grants
  BY InsertKeeps
<1> HIDE DEF i, new, R1, R2, P2, R3, P3
<1>6. /\ Tables(b) /\ b.perms = i.perms /\ b.roles = i.roles
      /\ i.grants["Admin"] \subseteq b.grants["Admin"]
      /\ i.roles = Tenants!Role => new \intersect i.perms \subseteq b.grants["Admin"]
      /\ ViewerReads(i) => ViewerReads(b)
      /\ AuditIsAdmins(i) => AuditIsAdmins(b)
  BY <1>3, <1>4, <1>5, GrantKeeps
<1> HIDE DEF b
<1>7. /\ Tables(c) /\ c.perms = b.perms /\ c.roles = b.roles
      /\ b.grants["Admin"] \subseteq c.grants["Admin"]
      /\ ViewerReads(b) => ViewerReads(c)
      /\ AuditIsAdmins(b) => AuditIsAdmins(c)
  BY <1>3, <1>4, <1>6, GrantKeeps
<1> HIDE DEF c
<1>8. /\ Tables(d) /\ d.perms = c.perms /\ d.roles = c.roles
      /\ c.grants["Admin"] \subseteq d.grants["Admin"]
      /\ ViewerReads(c) => ViewerReads(d)
      /\ AuditIsAdmins(c) => AuditIsAdmins(d)
  BY <1>3, <1>4, <1>7, GrantKeeps
<1> HIDE DEF d
<1>9. (ViewerReads(a) <=> ViewerReads(i)) /\ (AuditIsAdmins(a) <=> AuditIsAdmins(i))
  BY <1>5 DEF ViewerReads, AuditIsAdmins
<1>10. AdminHasAll(a) => AdminHasAll(d)
  BY <1>5, <1>6, <1>7, <1>8 DEF AdminHasAll
<1>11. a.perms \union new \subseteq d.perms
  BY <1>5, <1>6, <1>7, <1>8
<1> QED
  BY <1>1, <1>6, <1>7, <1>8, <1>9, <1>10, <1>11 DEF Keeps, new

\* Permissions that are granted to Admin and to others, but not to a Viewer.
LEMMA ApproveScript ==
  ASSUME NEW a, Tables(a), NEW new, NoAudit(new), NEW to, "Viewer" \notin to, "Admin" \in to,
         NEW script, script # "seed"
  PROVE  Keeps(a, Tenants!Grant(Tenants!Insert(a, new), to, new), script, new)
<1> DEFINE i == Tenants!Insert(a, new)
           b == Tenants!Grant(i, to, new)
<1>1. Tables(i) /\ i.perms = a.perms \union new /\ i.roles = a.roles /\ i.grants = a.grants
  BY InsertKeeps
<1>2. NoAudit(new \intersect i.perms)
  BY DEF NoAudit
<1> HIDE DEF i
<1>3. /\ Tables(b) /\ b.perms = i.perms /\ b.roles = i.roles
      /\ i.grants["Admin"] \subseteq b.grants["Admin"]
      /\ i.roles = Tenants!Role => new \intersect i.perms \subseteq b.grants["Admin"]
      /\ ViewerReads(i) => ViewerReads(b)
      /\ AuditIsAdmins(i) => AuditIsAdmins(b)
  BY <1>1, <1>2, GrantKeeps
<1> HIDE DEF b
<1>4. (ViewerReads(a) <=> ViewerReads(i)) /\ (AuditIsAdmins(a) <=> AuditIsAdmins(i))
  BY <1>1 DEF ViewerReads, AuditIsAdmins
<1>5. AdminHasAll(a) => AdminHasAll(b)
  BY <1>1, <1>3 DEF AdminHasAll
<1>6. a.perms \union new \subseteq b.perms
  BY <1>1, <1>3
<1> QED
  BY <1>3, <1>4, <1>5, <1>6 DEF Keeps, b, i

\* The seed.
LEMMA SeedScript ==
  ASSUME NEW a, Tables(a)
  PROVE  Keeps(a, Tenants!SeedRolesPermissions(a), "seed", Tenants!SeedPerms \union Tenants!AuditView)
<1> DEFINE i == Tenants!Insert(a, Tenants!SeedPerms)
           j == [i EXCEPT !.roles = Tenants!Role]
           RA == {"Admin"}
           RM == {"Manager"}
           RW == {"WarehouseManager"}
           RS == {"SalesPerson"}
           RV == {"Viewer"}
           PM == Tenants!Without(j.perms, "delete")
           b == Tenants!Grant(j, RA, j.perms)
           c == Tenants!Grant(b, RM, PM)
           PW == Tenants!OfModules(c.perms, Tenants!SharedModules)
                   \union Tenants!Reading(Tenants!OfModules(c.perms,
                                            Tenants!SalesModules \union {"users", "roles"}))
           d == Tenants!Grant(c, RW, PW)
           PS == Tenants!OfModules(d.perms, Tenants!SalesModules) \union Tenants!Reading(d.perms)
           e == Tenants!Grant(d, RS, PS)
           PV == Tenants!Reading(e.perms)
           f == Tenants!Grant(e, RV, PV)
           g == Tenants!GrantAudit(f)
<1>1. Tenants!SeedRolesPermissions(a) = g
  BY DEF Tenants!SeedRolesPermissions
<1>2. \A p \in Tenants!SeedPerms : p.module # "audit_logs"
  BY DEF Tenants!SeedPerms, Tenants!Perm, Tenants!SeedModules, Tenants!SharedModules,
         Tenants!SalesModules, Tenants!Approvable
<1>3. \A p \in PV : p.action \in Tenants!ReadOnly
  BY DEF Tenants!Reading
<1>4. /\ "Viewer" \notin RA /\ "Viewer" \notin RM /\ "Viewer" \notin RW /\ "Viewer" \notin RS
      /\ "Admin" \in RA /\ \A r \in RA : r = "Admin"
  OBVIOUS
<1>5. Tables(i) /\ i.perms = a.perms \union Tenants!SeedPerms /\ i.grants = a.grants
  BY InsertKeeps
<1> HIDE DEF i
<1>6. Tables(j) /\ j.perms = i.perms /\ j.roles = Tenants!Role /\ j.grants = i.grants
  <2>1. i = [perms |-> i.perms, roles |-> i.roles, grants |-> i.grants]
    BY <1>5 DEF Tables
  <2>2. j = [i EXCEPT !.roles = Tenants!Role]
    OBVIOUS
  <2> HIDE DEF j
  <2>3. j = [perms |-> i.perms, roles |-> Tenants!Role, grants |-> i.grants]
    BY <2>1, <2>2
  <2> QED
    BY <1>5, <2>3 DEF Tables
<1> HIDE DEF j
<1>7. NoAudit(a.perms) => NoAudit(j.perms)
  BY <1>2, <1>5, <1>6 DEF NoAudit
<1>8. \A ps : NoAudit(j.perms) => NoAudit(ps \intersect j.perms)
  BY DEF NoAudit
<1> HIDE DEF PM, PW, PS, PV, RA, RM, RW, RS, RV
<1>9. /\ Tables(b) /\ b.perms = j.perms /\ b.roles = Tenants!Role
      /\ j.perms \subseteq b.grants["Admin"]
      /\ ViewerReads(j) => ViewerReads(b)
      /\ AuditIsAdmins(j) => AuditIsAdmins(b)
  <2> DEFINE all == j.perms
  <2>1. Tables(j) /\ all \intersect j.perms = j.perms
    BY <1>6
  <2> HIDE DEF all
  <2>2. /\ Tables(b) /\ b.perms = j.perms /\ b.roles = j.roles
        /\ "Admin" \in RA /\ j.roles = Tenants!Role => all \intersect j.perms \subseteq b.grants["Admin"]
        /\ ViewerReads(j) /\ ("Viewer" \notin RA \/ \A p \in all : p.action \in Tenants!ReadOnly)
             => ViewerReads(b)
        /\ AuditIsAdmins(j) /\ ((\A r \in RA : r = "Admin") \/ NoAudit(all \intersect j.perms))
             => AuditIsAdmins(b)
    BY <2>1, GrantKeeps DEF all
  <2> HIDE DEF b
  <2> QED
    BY <1>4, <1>6, <2>1, <2>2
<1> HIDE DEF b
<1>10. /\ Tables(c) /\ c.perms = j.perms /\ c.roles = Tenants!Role
       /\ b.grants["Admin"] \subseteq c.grants["Admin"]
       /\ ViewerReads(b) => ViewerReads(c)
       /\ AuditIsAdmins(b) /\ NoAudit(j.perms) => AuditIsAdmins(c)
  BY <1>4, <1>8, <1>9, GrantKeeps
<1> HIDE DEF c
<1>11. /\ Tables(d) /\ d.perms = j.perms /\ d.roles = Tenants!Role
       /\ c.grants["Admin"] \subseteq d.grants["Admin"]
       /\ ViewerReads(c) => ViewerReads(d)
       /\ AuditIsAdmins(c) /\ NoAudit(j.perms) => AuditIsAdmins(d)
  BY <1>4, <1>8, <1>10, GrantKeeps
<1> HIDE DEF d
<1>12. /\ Tables(e) /\ e.perms = j.perms /\ e.roles = Tenants!Role
       /\ d.grants["Admin"] \subseteq e.grants["Admin"]
       /\ ViewerReads(d) => ViewerReads(e)
       /\ AuditIsAdmins(d) /\ NoAudit(j.perms) => AuditIsAdmins(e)
  BY <1>4, <1>8, <1>11, GrantKeeps
<1> HIDE DEF e
<1>13. /\ Tables(f) /\ f.perms = j.perms /\ f.roles = Tenants!Role
       /\ e.grants["Admin"] \subseteq f.grants["Admin"]
       /\ ViewerReads(e) => ViewerReads(f)
       /\ AuditIsAdmins(e) /\ NoAudit(j.perms) => AuditIsAdmins(f)
  BY <1>3, <1>8, <1>12, GrantKeeps
<1> HIDE DEF f
<1>14. AdminHasAll(f)
  BY <1>9, <1>10, <1>11, <1>12, <1>13 DEF AdminHasAll
<1>15. /\ Tables(g) /\ g.perms = f.perms \union Tenants!AuditView
       /\ ViewerReads(f) => ViewerReads(g)
       /\ AdminHasAll(g)
       /\ AuditIsAdmins(f) => AuditIsAdmins(g)
  BY <1>13, <1>14, GrantAuditKeeps
<1> HIDE DEF g
<1>16. (ViewerReads(a) <=> ViewerReads(j)) /\ (AuditIsAdmins(a) <=> AuditIsAdmins(j))
  BY <1>5, <1>6 DEF ViewerReads, AuditIsAdmins
<1>17. a.perms \union (Tenants!SeedPerms \union Tenants!AuditView) \subseteq g.perms
  BY <1>5, <1>6, <1>13, <1>15
<1> QED
  BY <1>1, <1>7, <1>9, <1>10, <1>11, <1>12, <1>13, <1>15, <1>16, <1>17 DEF Keeps

\* What each script adds.
Adds(script) ==
  CASE script = "seed"                 -> Tenants!SeedPerms \union Tenants!AuditView
    [] script = "001_company_profile"  -> CompanyPerms
    [] script = "002_dead_stock_view"  -> {}
    [] script = "003_inventory"        -> InventoryPerms
    [] script = "004_purchase_approve" -> PurchasePerms
    [] script = "005_sales_approve"    -> SalesPerms
    [] script = "006_audit_log"        -> Tenants!AuditView

\* The scripts by name.
LEMMA ScriptNames ==
  Scripts = {"seed", "001_company_profile", "002_dead_stock_view", "003_inventory",
             "004_purchase_approve", "005_sales_approve", "006_audit_log"}
<1>1. /\ Migration[1] = "001_company_profile" /\ Migration[2] = "002_dead_stock_view"
      /\ Migration[3] = "003_inventory" /\ Migration[4] = "004_purchase_approve"
      /\ Migration[5] = "005_sales_approve" /\ Migration[6] = "006_audit_log"
  BY DEF Migration, Tenants!Migration
<1>2. 1..6 = {1, 2, 3, 4, 5, 6}
  OBVIOUS
<1>3. RangeOf(Migration) = {Migration[1], Migration[2], Migration[3], Migration[4], Migration[5], Migration[6]}
  BY <1>2, MigrationNames
<1> QED
  BY <1>1, <1>3, MigrationNames

\* Every script keeps the limits.
LEMMA RunKeeps ==
  ASSUME NEW a, Tables(a), NEW script \in Scripts
  PROVE  Keeps(a, Tenants!Run(a, script), script, Adds(script))
<1>1. CASE script = "seed"
  <2>1. Tenants!Run(a, script) = Tenants!SeedRolesPermissions(a)
        /\ Adds(script) = Tenants!SeedPerms \union Tenants!AuditView
    BY <1>1 DEF Tenants!Run, Adds
  <2> QED
    BY <1>1, <2>1, SeedScript
<1>2. CASE script = "001_company_profile"
  <2>1. Tenants!Run(a, script) = Tenants!AddCompanyProfile(a) /\ Adds(script) = CompanyPerms
    BY <1>2 DEF Tenants!Run, Adds
  <2> QED
    BY <1>2, <2>1, CompanyScript
<1>3. CASE script = "002_dead_stock_view"
  <2>1. Tenants!Run(a, script) = a /\ Adds(script) = {}
    BY <1>3 DEF Tenants!Run, Adds, Tenants!FixDeadStockView
  <2> QED
    BY <1>3, <2>1 DEF Keeps
<1>4. CASE script = "003_inventory"
  <2>1. Tenants!Run(a, script) = Tenants!AddInventory(a) /\ Adds(script) = InventoryPerms
    BY <1>4 DEF Tenants!Run, Adds
  <2> QED
    BY <1>4, <2>1, InventoryScript
<1>5. CASE script = "004_purchase_approve"
  <2> DEFINE to == {"Admin", "Manager", "WarehouseManager"}
  <2>1. Tenants!Run(a, script) = Tenants!Grant(Tenants!Insert(a, PurchasePerms), to, PurchasePerms)
        /\ Adds(script) = PurchasePerms
    BY <1>5 DEF Tenants!Run, Adds, Tenants!AddPurchaseApprove, PurchasePerms
  <2>2. NoAudit(PurchasePerms) /\ "Viewer" \notin to /\ "Admin" \in to
    BY DEF NoAudit, PurchasePerms, Tenants!Perm
  <2> HIDE DEF to
  <2> QED
    BY <1>5, <2>1, <2>2, ApproveScript
<1>6. CASE script = "005_sales_approve"
  <2> DEFINE to == {"Admin", "Manager", "SalesPerson"}
  <2>1. Tenants!Run(a, script) = Tenants!Grant(Tenants!Insert(a, SalesPerms), to, SalesPerms)
        /\ Adds(script) = SalesPerms
    BY <1>6 DEF Tenants!Run, Adds, Tenants!AddSalesApprove, SalesPerms
  <2>2. NoAudit(SalesPerms) /\ "Viewer" \notin to /\ "Admin" \in to
    BY DEF NoAudit, SalesPerms, Tenants!Perm
  <2> HIDE DEF to
  <2> QED
    BY <1>6, <2>1, <2>2, ApproveScript
<1>7. CASE script = "006_audit_log"
  <2>1. Tenants!Run(a, script) = Tenants!GrantAudit(a) /\ Adds(script) = Tenants!AuditView
    BY <1>7 DEF Tenants!Run, Adds
  <2> QED
    BY <1>7, <2>1, AuditScript
<1> QED
  BY <1>1, <1>2, <1>3, <1>4, <1>5, <1>6, <1>7, ScriptNames

\* What holds of the tables after any sequence of scripts.
LEMMA LimitsKept ==
  ASSUME NEW s \in Seq(Scripts)
  PROVE  LET a == Tenants!AccessAfter(s)
         IN  /\ Tables(a) /\ ViewerReads(a)
             /\ \A script \in RangeOf(s) : Adds(script) \subseteq a.perms
             /\ "seed" \in RangeOf(s) => AdminHasAll(a)
             /\ s # <<>> /\ Head(s) = "seed" /\ Tenants!IsInjective(s) => AuditIsAdmins(a)
<1>1. PICK acc : /\ acc[0] = Tenants!NoAccess
                 /\ \A k \in 1..Len(s) : acc[k] = Tenants!Run(acc[k - 1], s[k])
                 /\ Tenants!AccessAfter(s) = acc[Len(s)]
  BY AccessSteps
<1> DEFINE n == Len(s)
           SeedFirst == n > 0 /\ s[1] = "seed" /\ \A i \in 2..n : s[i] # "seed"
           Good(k) ==
             /\ Tables(acc[k]) /\ ViewerReads(acc[k])
             /\ \A i \in 1..k : Adds(s[i]) \subseteq acc[k].perms
             /\ (\E i \in 1..k : s[i] = "seed") => AdminHasAll(acc[k])
             /\ SeedFirst => AuditIsAdmins(acc[k]) /\ (k = 0 => acc[k].perms = {})
           Q == {k \in Nat : k <= n => Good(k)}
<1>2. n \in Nat /\ DOMAIN s = 1..n /\ \A i \in 1..n : s[i] \in Scripts
  OBVIOUS
<1>3. 0 \in Q
  <2>1. /\ Tables(Tenants!NoAccess) /\ ViewerReads(Tenants!NoAccess) /\ AuditIsAdmins(Tenants!NoAccess)
        /\ Tenants!NoAccess.perms = {}
    BY DEF Tables, ViewerReads, AuditIsAdmins, NoAudit, Tenants!NoAccess, Tenants!Role
  <2>2. 1..0 = {}
    OBVIOUS
  <2> QED
    BY <1>1, <2>1, <2>2
<1>4. ASSUME NEW k \in Nat, k \in Q  PROVE k + 1 \in Q
  <2> SUFFICES ASSUME k + 1 <= n  PROVE Good(k + 1)
    OBVIOUS
  <2>1. Good(k) /\ k + 1 \in 1..n
    BY <1>2, <1>4
  <2> DEFINE a == acc[k]
             b == acc[k + 1]
             e == s[k + 1]
  <2>2. b = Tenants!Run(a, e) /\ e \in Scripts
    <3>1. (k + 1) - 1 = k
      OBVIOUS
    <3> QED
      BY <1>1, <1>2, <2>1, <3>1
  <2>3. Keeps(a, b, e, Adds(e))
    <3> HIDE DEF a, b, e
    <3>1. Tables(a)
      BY <2>1 DEF a
    <3> QED
      BY <2>2, <3>1, RunKeeps
  <2>4. 1..(k + 1) = (1..k) \union {k + 1}
    OBVIOUS
  <2>5. \A i \in 1..k : Adds(s[i]) \subseteq a.perms
    BY <2>1
  <2>6. \A i \in 1..(k + 1) : Adds(s[i]) \subseteq b.perms
    BY <2>3, <2>4, <2>5 DEF Keeps
  <2>7. (\E i \in 1..(k + 1) : s[i] = "seed") => AdminHasAll(b)
    BY <2>1, <2>3, <2>4 DEF Keeps
  <2>8. SeedFirst => AuditIsAdmins(b)
    <3> HAVE SeedFirst
    <3>1. e = "seed" => k = 0
      BY <1>2, <2>1
    <3>2. e = "seed" => NoAudit(a.perms)
      BY <2>1, <3>1 DEF NoAudit
    <3> QED
      BY <2>1, <2>3, <3>2 DEF Keeps
  <2> QED
    BY <2>1, <2>3, <2>6, <2>7, <2>8 DEF Keeps
<1> HIDE DEF Q
<1>5. n \in Q
  BY <1>2, <1>3, <1>4, NatSetInduction
<1>6. Good(n)
  BY <1>2, <1>5 DEF Q
<1>7. RangeOf(s) = {s[i] : i \in 1..n}
  BY <1>2 DEF RangeOf, Tenants!Range
<1>8. s # <<>> /\ Head(s) = "seed" /\ Tenants!IsInjective(s) => SeedFirst
  <2> HAVE s # <<>> /\ Head(s) = "seed" /\ Tenants!IsInjective(s)
  <2>1. n > 0 /\ s[1] = "seed"
    OBVIOUS
  <2>2. \A i, j \in 1..n : s[i] = s[j] => i = j
    BY <1>2 DEF Tenants!IsInjective
  <2>3. \A i \in 2..n : i \in 1..n /\ 1 \in 1..n /\ i # 1
    BY <1>2
  <2> QED
    BY <2>1, <2>2, <2>3
<1> QED
  BY <1>1, <1>6, <1>7, <1>8

-----------------------------------------------------------------------------
(* The routes.                                                             *)

\* What the scripts of a complete schema create together.
Created == (Tenants!SeedPerms \union Tenants!AuditView) \union (CompanyPerms \union InventoryPerms)

Exists(m, action) == [module |-> m, action |-> action] \in Created

\* Routes that ask for what exists and, if they write, for more than reading.
Fine(routes) ==
  \A route \in routes :
    /\ route.needs \subseteq Created
    /\ route.writes => route.needs = {} \/ \E p \in route.needs : p.action \notin Tenants!ReadOnly

\* Routes of two kinds.
LEMMA FineUnion ==
  ASSUME NEW R1, NEW R2, Fine(R1), Fine(R2)
  PROVE  Fine(R1 \union R2)
BY DEF Fine

\* One permission.
LEMMA OnePermission ==
  ASSUME NEW m, NEW action, Exists(m, action)
  PROVE  /\ Tenants!Perm({m}, {action}) \subseteq Created
         /\ \E p \in Tenants!Perm({m}, {action}) : p.action = action
<1>1. \A p \in Tenants!Perm({m}, {action}) : p = [module |-> m, action |-> action]
  BY DEF Tenants!Perm
<1>2. [module |-> m, action |-> action] \in Tenants!Perm({m}, {action})
  BY DEF Tenants!Perm
<1> QED
  BY <1>1, <1>2 DEF Exists

\* Routes that read.
LEMMA FineReads ==
  ASSUME NEW c, NEW ops, NEW m, Exists(m, "view")
  PROVE  Fine(Tenants!Reads(c, ops, m))
<1>1. Tenants!Perm({m}, {"view"}) \subseteq Created
  BY OnePermission
<1> QED
  BY <1>1 DEF Fine, Tenants!Reads, Tenants!Route

\* A route that writes.
LEMMA FineWrites ==
  ASSUME NEW c, NEW op, NEW m, NEW action, Exists(m, action), action \notin Tenants!ReadOnly
  PROVE  Fine(Tenants!Writes(c, op, m, action))
<1> DEFINE P == Tenants!Perm({m}, {action})
<1>1. P \subseteq Created /\ \E p \in P : p.action \notin Tenants!ReadOnly
  BY OnePermission
<1>2. \A route \in Tenants!Writes(c, op, m, action) : route.needs = P
  BY DEF Tenants!Writes, Tenants!Route
<1> HIDE DEF P
<1> QED
  BY <1>1, <1>2 DEF Fine

\* Several that write.
LEMMA FineWritesAll ==
  ASSUME NEW c, NEW ops, NEW m, NEW action, Exists(m, action), action \notin Tenants!ReadOnly
  PROVE  Fine(UNION {Tenants!Writes(c, op, m, action) : op \in ops})
<1>1. \A op \in ops : Fine(Tenants!Writes(c, op, m, action))
  BY FineWrites
<1> QED
  BY <1>1 DEF Fine

\* Actions that do more than read.
LEMMA WritingActions ==
  /\ "create" \notin Tenants!ReadOnly /\ "edit" \notin Tenants!ReadOnly
  /\ "delete" \notin Tenants!ReadOnly /\ "approve" \notin Tenants!ReadOnly
BY DEF Tenants!ReadOnly

\* The permissions of the seed.
LEMMA SeedCreates ==
  /\ \A m \in Tenants!SeedModules :
       Exists(m, "view") /\ Exists(m, "create") /\ Exists(m, "edit") /\ Exists(m, "delete")
  /\ \A m \in Tenants!Approvable : Exists(m, "approve")
<1>1. ASSUME NEW m \in Tenants!SeedModules, NEW action \in Tenants!Crud  PROVE Exists(m, action)
  BY DEF Exists, Created, Tenants!SeedPerms, Tenants!Perm
<1>2. ASSUME NEW m \in Tenants!Approvable  PROVE Exists(m, "approve")
  BY DEF Exists, Created, Tenants!SeedPerms, Tenants!Perm
<1>3. "view" \in Tenants!Crud /\ "create" \in Tenants!Crud /\ "edit" \in Tenants!Crud
      /\ "delete" \in Tenants!Crud
  BY DEF Tenants!Crud
<1> QED
  BY <1>1, <1>2, <1>3

\* Master data.
LEMMA FineMasterData ==
  ASSUME NEW c, c \in Tenants!SeedModules
  PROVE  Fine(Tenants!MasterDataRoutes(c))
<1>1. Exists(c, "view") /\ Exists(c, "create") /\ Exists(c, "edit") /\ Exists(c, "delete")
  BY SeedCreates
<1>2. Fine(Tenants!ListAndGet(c, c))
  BY <1>1, FineReads DEF Tenants!ListAndGet
<1>3. Fine(Tenants!Writes(c, "create", c, "create"))
  BY <1>1, FineWrites, WritingActions
<1>4. Fine(Tenants!Writes(c, "update", c, "edit"))
  BY <1>1, FineWrites, WritingActions
<1>5. Fine(Tenants!Writes(c, "remove", c, "delete"))
  BY <1>1, FineWrites, WritingActions
<1> QED
  BY <1>2, <1>3, <1>4, <1>5 DEF Fine, Tenants!MasterDataRoutes

\* Parts of a product.
LEMMA FineProductPart ==
  ASSUME NEW c, NEW ops
  PROVE  Fine(Tenants!ProductPart(c, ops))
<1>1. Exists("products", "view") /\ Exists("products", "edit")
  BY SeedCreates DEF Tenants!SeedModules, Tenants!SharedModules
<1>2. Fine(Tenants!Reads(c, {"list"}, "products"))
  BY <1>1, FineReads
<1>3. Fine(UNION {Tenants!Writes(c, op, "products", "edit") : op \in ops})
  BY <1>1, FineWritesAll, WritingActions
<1> QED
  BY <1>2, <1>3, FineUnion DEF Tenants!ProductPart

\* Documents.
LEMMA FineDocument ==
  ASSUME NEW c, NEW post, NEW delete, c \in Tenants!SeedModules, c \in Tenants!Approvable
  PROVE  Fine(Tenants!DocumentRoutes(c, post, delete))
<1>1. /\ Exists(c, "view") /\ Exists(c, "create") /\ Exists(c, "edit") /\ Exists(c, "delete")
      /\ Exists(c, "approve")
  BY SeedCreates
<1>2. Fine(Tenants!ListAndGet(c, c))
  BY <1>1, FineReads DEF Tenants!ListAndGet
<1>3. Fine(Tenants!Writes(c, "create", c, "create"))
  BY <1>1, FineWrites, WritingActions
<1>4. Fine(Tenants!Writes(c, post, c, "approve"))
  BY <1>1, FineWrites, WritingActions
<1>5. Fine(Tenants!Writes(c, delete, c, "delete"))
  BY <1>1, FineWrites, WritingActions
<1> QED
  BY <1>2, <1>3, <1>4, <1>5 DEF Fine, Tenants!DocumentRoutes

\* Stock set aside.
LEMMA FineHold ==
  ASSUME NEW c, Exists(c, "view"), Exists(c, "create"), Exists(c, "edit")
  PROVE  Fine(Tenants!HoldRoutes(c))
<1>1. Fine(Tenants!ListAndGet(c, c))
  BY FineReads DEF Tenants!ListAndGet
<1>2. Fine(Tenants!Writes(c, "create", c, "create"))
  BY FineWrites, WritingActions
<1>3. Fine(Tenants!Writes(c, "release", c, "edit"))
  BY FineWrites, WritingActions
<1> QED
  BY <1>1, <1>2, <1>3 DEF Fine, Tenants!HoldRoutes

\* Payments.
LEMMA FinePayment ==
  ASSUME NEW c, c \in Tenants!SeedModules
  PROVE  Fine(Tenants!PaymentRoutes(c))
<1>1. Exists(c, "view") /\ Exists(c, "create")
  BY SeedCreates
<1>2. Fine(Tenants!ListAndGet(c, c))
  BY <1>1, FineReads DEF Tenants!ListAndGet
<1>3. Fine(Tenants!Writes(c, "create", c, "create"))
  BY <1>1, FineWrites, WritingActions
<1> QED
  BY <1>2, <1>3, FineUnion DEF Tenants!PaymentRoutes
\* The controllers of master data.
LEMMA MasterDataControllers ==
  /\ Fine(Tenants!BranchesController)
  /\ Fine(Tenants!BrandsController)
  /\ Fine(Tenants!CategoriesController)
  /\ Fine(Tenants!CustomersController)
  /\ Fine(Tenants!EmployeesController)
  /\ Fine(Tenants!GstRatesController)
  /\ Fine(Tenants!HsnCodesController)
  /\ Fine(Tenants!LocationsController)
  /\ Fine(Tenants!RacksController)
  /\ Fine(Tenants!SubCategoriesController)
  /\ Fine(Tenants!SuppliersController)
  /\ Fine(Tenants!TaxesController)
  /\ Fine(Tenants!TransportersController)
  /\ Fine(Tenants!UnitsController)
  /\ Fine(Tenants!WarehousesController)
  /\ Fine(Tenants!ProductsController)
<1>1. Fine(Tenants!BranchesController)
  <2>1. "branches" \in Tenants!SeedModules
    BY DEF Tenants!SeedModules, Tenants!SharedModules, Tenants!SalesModules
  <2> QED
    BY <2>1, FineMasterData DEF Tenants!BranchesController
<1>2. Fine(Tenants!BrandsController)
  <2>1. "brands" \in Tenants!SeedModules
    BY DEF Tenants!SeedModules, Tenants!SharedModules, Tenants!SalesModules
  <2> QED
    BY <2>1, FineMasterData DEF Tenants!BrandsController
<1>3. Fine(Tenants!CategoriesController)
  <2>1. "categories" \in Tenants!SeedModules
    BY DEF Tenants!SeedModules, Tenants!SharedModules, Tenants!SalesModules
  <2> QED
    BY <2>1, FineMasterData DEF Tenants!CategoriesController
<1>4. Fine(Tenants!CustomersController)
  <2>1. "customers" \in Tenants!SeedModules
    BY DEF Tenants!SeedModules, Tenants!SharedModules, Tenants!SalesModules
  <2> QED
    BY <2>1, FineMasterData DEF Tenants!CustomersController
<1>5. Fine(Tenants!EmployeesController)
  <2>1. "employees" \in Tenants!SeedModules
    BY DEF Tenants!SeedModules, Tenants!SharedModules, Tenants!SalesModules
  <2> QED
    BY <2>1, FineMasterData DEF Tenants!EmployeesController
<1>6. Fine(Tenants!GstRatesController)
  <2>1. "gst_rates" \in Tenants!SeedModules
    BY DEF Tenants!SeedModules, Tenants!SharedModules, Tenants!SalesModules
  <2> QED
    BY <2>1, FineMasterData DEF Tenants!GstRatesController
<1>7. Fine(Tenants!HsnCodesController)
  <2>1. "hsn_codes" \in Tenants!SeedModules
    BY DEF Tenants!SeedModules, Tenants!SharedModules, Tenants!SalesModules
  <2> QED
    BY <2>1, FineMasterData DEF Tenants!HsnCodesController
<1>8. Fine(Tenants!LocationsController)
  <2>1. "locations" \in Tenants!SeedModules
    BY DEF Tenants!SeedModules, Tenants!SharedModules, Tenants!SalesModules
  <2> QED
    BY <2>1, FineMasterData DEF Tenants!LocationsController
<1>9. Fine(Tenants!RacksController)
  <2>1. "racks" \in Tenants!SeedModules
    BY DEF Tenants!SeedModules, Tenants!SharedModules, Tenants!SalesModules
  <2> QED
    BY <2>1, FineMasterData DEF Tenants!RacksController
<1>10. Fine(Tenants!SubCategoriesController)
  <2>1. "sub_categories" \in Tenants!SeedModules
    BY DEF Tenants!SeedModules, Tenants!SharedModules, Tenants!SalesModules
  <2> QED
    BY <2>1, FineMasterData DEF Tenants!SubCategoriesController
<1>11. Fine(Tenants!SuppliersController)
  <2>1. "suppliers" \in Tenants!SeedModules
    BY DEF Tenants!SeedModules, Tenants!SharedModules, Tenants!SalesModules
  <2> QED
    BY <2>1, FineMasterData DEF Tenants!SuppliersController
<1>12. Fine(Tenants!TaxesController)
  <2>1. "taxes" \in Tenants!SeedModules
    BY DEF Tenants!SeedModules, Tenants!SharedModules, Tenants!SalesModules
  <2> QED
    BY <2>1, FineMasterData DEF Tenants!TaxesController
<1>13. Fine(Tenants!TransportersController)
  <2>1. "transporters" \in Tenants!SeedModules
    BY DEF Tenants!SeedModules, Tenants!SharedModules, Tenants!SalesModules
  <2> QED
    BY <2>1, FineMasterData DEF Tenants!TransportersController
<1>14. Fine(Tenants!UnitsController)
  <2>1. "units" \in Tenants!SeedModules
    BY DEF Tenants!SeedModules, Tenants!SharedModules, Tenants!SalesModules
  <2> QED
    BY <2>1, FineMasterData DEF Tenants!UnitsController
<1>15. Fine(Tenants!WarehousesController)
  <2>1. "warehouses" \in Tenants!SeedModules
    BY DEF Tenants!SeedModules, Tenants!SharedModules, Tenants!SalesModules
  <2> QED
    BY <2>1, FineMasterData DEF Tenants!WarehousesController
<1>16. Fine(Tenants!ProductsController)
  <2> DEFINE ops == {"search", "findByBarcode"}
  <2>1. "products" \in Tenants!SeedModules
    BY DEF Tenants!SeedModules, Tenants!SharedModules
  <2>2. Tenants!ProductsController =
          Tenants!MasterDataRoutes("products") \union Tenants!Reads("products", ops, "products")
    BY DEF Tenants!ProductsController
  <2> HIDE DEF ops
  <2>3. Fine(Tenants!MasterDataRoutes("products")) /\ Fine(Tenants!Reads("products", ops, "products"))
    BY <2>1, FineMasterData, FineReads, SeedCreates
  <2> QED
    BY <2>2, <2>3, FineUnion
<1> QED
  BY <1>1, <1>2, <1>3, <1>4, <1>5, <1>6, <1>7, <1>8, <1>9, <1>10, <1>11, <1>12, <1>13, <1>14, <1>15, <1>16

\* The controllers of the parts of a product.
LEMMA ProductPartControllers ==
  /\ Fine(Tenants!ProductBarcodesController)
  /\ Fine(Tenants!ProductBatchesController)
  /\ Fine(Tenants!ProductImagesController)
  /\ Fine(Tenants!ProductUnitsController)
  /\ Fine(Tenants!ProductPriceHistoryController)
<1>1. Fine(Tenants!ProductBarcodesController)
  BY FineProductPart DEF Tenants!ProductBarcodesController
<1>2. Fine(Tenants!ProductBatchesController)
  BY FineProductPart DEF Tenants!ProductBatchesController
<1>3. Fine(Tenants!ProductImagesController)
  BY FineProductPart DEF Tenants!ProductImagesController
<1>4. Fine(Tenants!ProductUnitsController)
  BY FineProductPart DEF Tenants!ProductUnitsController
<1>5. Fine(Tenants!ProductPriceHistoryController)
  BY FineProductPart DEF Tenants!ProductPriceHistoryController
<1> QED
  BY <1>1, <1>2, <1>3, <1>4, <1>5

\* The controllers of documents.
LEMMA DocumentControllers ==
  /\ Fine(Tenants!StockTransfersController)
  /\ Fine(Tenants!StockAdjustmentsController)
  /\ Fine(Tenants!PhysicalVerificationsController)
  /\ Fine(Tenants!DamagedStockController)
  /\ Fine(Tenants!StockReturnsController)
  /\ Fine(Tenants!GoodsReceivedNotesController)
  /\ Fine(Tenants!PurchaseInvoicesController)
  /\ Fine(Tenants!PurchaseReturnsController)
  /\ Fine(Tenants!DeliveryChallansController)
  /\ Fine(Tenants!SalesInvoicesController)
  /\ Fine(Tenants!SalesReturnsController)
  /\ Fine(Tenants!PurchaseOrdersController)
  /\ Fine(Tenants!SalesOrdersController)
<1>1. Fine(Tenants!StockTransfersController)
  <2>1. "stock_transfers" \in Tenants!SeedModules /\ "stock_transfers" \in Tenants!Approvable
    BY DEF Tenants!SeedModules, Tenants!SharedModules, Tenants!SalesModules, Tenants!Approvable
  <2> QED
    BY <2>1, FineDocument DEF Tenants!StockTransfersController
<1>2. Fine(Tenants!StockAdjustmentsController)
  <2>1. "stock_adjustments" \in Tenants!SeedModules /\ "stock_adjustments" \in Tenants!Approvable
    BY DEF Tenants!SeedModules, Tenants!SharedModules, Tenants!SalesModules, Tenants!Approvable
  <2> QED
    BY <2>1, FineDocument DEF Tenants!StockAdjustmentsController
<1>3. Fine(Tenants!PhysicalVerificationsController)
  <2>1. "physical_verifications" \in Tenants!SeedModules /\ "physical_verifications" \in Tenants!Approvable
    BY DEF Tenants!SeedModules, Tenants!SharedModules, Tenants!SalesModules, Tenants!Approvable
  <2> QED
    BY <2>1, FineDocument DEF Tenants!PhysicalVerificationsController
<1>4. Fine(Tenants!DamagedStockController)
  <2>1. "damaged_stock" \in Tenants!SeedModules /\ "damaged_stock" \in Tenants!Approvable
    BY DEF Tenants!SeedModules, Tenants!SharedModules, Tenants!SalesModules, Tenants!Approvable
  <2> QED
    BY <2>1, FineDocument DEF Tenants!DamagedStockController
<1>5. Fine(Tenants!StockReturnsController)
  <2>1. "stock_returns" \in Tenants!SeedModules /\ "stock_returns" \in Tenants!Approvable
    BY DEF Tenants!SeedModules, Tenants!SharedModules, Tenants!SalesModules, Tenants!Approvable
  <2> QED
    BY <2>1, FineDocument DEF Tenants!StockReturnsController
<1>6. Fine(Tenants!GoodsReceivedNotesController)
  <2>1. "goods_received_notes" \in Tenants!SeedModules /\ "goods_received_notes" \in Tenants!Approvable
    BY DEF Tenants!SeedModules, Tenants!SharedModules, Tenants!SalesModules, Tenants!Approvable
  <2> QED
    BY <2>1, FineDocument DEF Tenants!GoodsReceivedNotesController
<1>7. Fine(Tenants!PurchaseInvoicesController)
  <2>1. "purchase_invoices" \in Tenants!SeedModules /\ "purchase_invoices" \in Tenants!Approvable
    BY DEF Tenants!SeedModules, Tenants!SharedModules, Tenants!SalesModules, Tenants!Approvable
  <2> QED
    BY <2>1, FineDocument DEF Tenants!PurchaseInvoicesController
<1>8. Fine(Tenants!PurchaseReturnsController)
  <2>1. "purchase_returns" \in Tenants!SeedModules /\ "purchase_returns" \in Tenants!Approvable
    BY DEF Tenants!SeedModules, Tenants!SharedModules, Tenants!SalesModules, Tenants!Approvable
  <2> QED
    BY <2>1, FineDocument DEF Tenants!PurchaseReturnsController
<1>9. Fine(Tenants!DeliveryChallansController)
  <2>1. "delivery_challans" \in Tenants!SeedModules /\ "delivery_challans" \in Tenants!Approvable
    BY DEF Tenants!SeedModules, Tenants!SharedModules, Tenants!SalesModules, Tenants!Approvable
  <2> QED
    BY <2>1, FineDocument DEF Tenants!DeliveryChallansController
<1>10. Fine(Tenants!SalesInvoicesController)
  <2>1. "sales_invoices" \in Tenants!SeedModules /\ "sales_invoices" \in Tenants!Approvable
    BY DEF Tenants!SeedModules, Tenants!SharedModules, Tenants!SalesModules, Tenants!Approvable
  <2> QED
    BY <2>1, FineDocument DEF Tenants!SalesInvoicesController
<1>11. Fine(Tenants!SalesReturnsController)
  <2>1. "sales_returns" \in Tenants!SeedModules /\ "sales_returns" \in Tenants!Approvable
    BY DEF Tenants!SeedModules, Tenants!SharedModules, Tenants!SalesModules, Tenants!Approvable
  <2> QED
    BY <2>1, FineDocument DEF Tenants!SalesReturnsController
<1>12. Fine(Tenants!PurchaseOrdersController)
  <2>1. "purchase_orders" \in Tenants!SeedModules /\ "purchase_orders" \in Tenants!Approvable
    BY DEF Tenants!SeedModules, Tenants!SharedModules, Tenants!SalesModules, Tenants!Approvable
  <2>2. Fine(Tenants!DocumentRoutes("purchase_orders", "approve", "delete"))
    BY <2>1, FineDocument
  <2>3. Exists("purchase_orders", "edit")
    BY <2>1, SeedCreates
  <2>4. Fine(Tenants!Writes("purchase_orders", "cancel", "purchase_orders", "edit"))
    BY <2>3, FineWrites, WritingActions
  <2> QED
    BY <2>2, <2>4, FineUnion DEF Tenants!PurchaseOrdersController
<1>13. Fine(Tenants!SalesOrdersController)
  <2>1. "sales_orders" \in Tenants!SeedModules /\ "sales_orders" \in Tenants!Approvable
    BY DEF Tenants!SeedModules, Tenants!SharedModules, Tenants!SalesModules, Tenants!Approvable
  <2>2. Fine(Tenants!DocumentRoutes("sales_orders", "approve", "delete"))
    BY <2>1, FineDocument
  <2>3. Exists("sales_orders", "edit")
    BY <2>1, SeedCreates
  <2>4. Fine(Tenants!Writes("sales_orders", "cancel", "sales_orders", "edit"))
    BY <2>3, FineWrites, WritingActions
  <2> QED
    BY <2>2, <2>4, FineUnion DEF Tenants!SalesOrdersController
<1> QED
  BY <1>1, <1>2, <1>3, <1>4, <1>5, <1>6, <1>7, <1>8, <1>9, <1>10, <1>11, <1>12, <1>13

\* Quotations.
LEMMA QuotationsControllerFine == Fine(Tenants!QuotationsController)
<1> DEFINE ops == {"send", "accept", "reject"}
           R1 == Tenants!ListAndGet("quotations", "quotations")
           R2 == Tenants!Writes("quotations", "create", "quotations", "create")
           R3 == Tenants!Writes("quotations", "convertToSalesOrder", "sales_orders", "create")
           R4 == Tenants!Writes("quotations", "delete", "quotations", "delete")
           R5 == UNION {Tenants!Writes("quotations", op, "quotations", "edit") : op \in ops}
<1>1. "quotations" \in Tenants!SeedModules /\ "sales_orders" \in Tenants!SeedModules
  BY DEF Tenants!SeedModules, Tenants!SalesModules
<1>2. /\ Exists("quotations", "view") /\ Exists("quotations", "create") /\ Exists("quotations", "edit")
      /\ Exists("quotations", "delete") /\ Exists("sales_orders", "create")
  BY <1>1, SeedCreates
<1>3. Tenants!QuotationsController = R1 \union R2 \union R3 \union R4 \union R5
  BY DEF Tenants!QuotationsController
<1> HIDE DEF ops
<1>4. Fine(R1)
  BY <1>2, FineReads DEF Tenants!ListAndGet
<1>5. Fine(R2)
  BY <1>2, FineWrites, WritingActions
<1>6. Fine(R3)
  BY <1>2, FineWrites, WritingActions
<1>7. Fine(R4)
  BY <1>2, FineWrites, WritingActions
<1>8. Fine(R5)
  BY <1>2, FineWritesAll, WritingActions
<1> HIDE DEF R1, R2, R3, R4, R5
<1> QED
  BY <1>3, <1>4, <1>5, <1>6, <1>7, <1>8 DEF Fine

\* The permissions of inventory and of the company's profile, which migrations create.
LEMMA MigrationsCreate ==
  /\ Exists("blocked_stock", "view") /\ Exists("blocked_stock", "create") /\ Exists("blocked_stock", "edit")
  /\ Exists("reserved_stock", "view") /\ Exists("reserved_stock", "create") /\ Exists("reserved_stock", "edit")
  /\ Exists("inventory", "view") /\ Exists("inventory", "create")
  /\ Exists("company_profile", "view") /\ Exists("company_profile", "edit")
  /\ Exists("audit_logs", "view")
<1>1. \A m \in {"blocked_stock", "reserved_stock"} : \A action \in Tenants!Crud : Exists(m, action)
  BY DEF Exists, Created, InventoryPerms, Tenants!Perm
<1>2. "view" \in Tenants!Crud /\ "create" \in Tenants!Crud /\ "edit" \in Tenants!Crud
  BY DEF Tenants!Crud
<1>3. Exists("inventory", "view") /\ Exists("inventory", "create")
  BY DEF Exists, Created, InventoryPerms, Tenants!Perm
<1>4. Exists("company_profile", "view") /\ Exists("company_profile", "edit")
  BY DEF Exists, Created, CompanyPerms, Tenants!Perm
<1>5. Exists("audit_logs", "view")
  BY DEF Exists, Created, Tenants!AuditView, Tenants!Perm
<1> QED
  BY <1>1, <1>2, <1>3, <1>4, <1>5

\* Stock set aside, opening stock and payments.
LEMMA StockControllers ==
  /\ Fine(Tenants!BlockedStockController)
  /\ Fine(Tenants!ReservedStockController)
  /\ Fine(Tenants!OpeningStockController)
  /\ Fine(Tenants!StockViewsController)
  /\ Fine(Tenants!SupplierPaymentsController)
  /\ Fine(Tenants!CustomerPaymentsController)
<1>1. "supplier_payments" \in Tenants!SeedModules /\ "customer_payments" \in Tenants!SeedModules
  BY DEF Tenants!SeedModules, Tenants!SharedModules, Tenants!SalesModules
<1>2. Fine(Tenants!BlockedStockController)
  BY MigrationsCreate, FineHold DEF Tenants!BlockedStockController
<1>3. Fine(Tenants!ReservedStockController)
  BY MigrationsCreate, FineHold DEF Tenants!ReservedStockController
<1>4. Fine(Tenants!OpeningStockController)
  BY MigrationsCreate, FineWrites, WritingActions DEF Tenants!OpeningStockController
<1>5. Fine(Tenants!StockViewsController)
  BY MigrationsCreate, FineReads DEF Tenants!StockViewsController
<1>6. Fine(Tenants!SupplierPaymentsController)
  BY <1>1, FinePayment DEF Tenants!SupplierPaymentsController
<1>7. Fine(Tenants!CustomerPaymentsController)
  BY <1>1, FinePayment DEF Tenants!CustomerPaymentsController
<1> QED
  BY <1>2, <1>3, <1>4, <1>5, <1>6, <1>7

\* What only reads.
LEMMA ReadingControllers ==
  /\ Fine(Tenants!OutstandingPayablesController)
  /\ Fine(Tenants!OutstandingReceivablesController)
  /\ Fine(Tenants!DashboardController)
  /\ Fine(Tenants!ReportsController)
  /\ Fine(Tenants!PermissionsController)
  /\ Fine(Tenants!AuditController)
<1>1. /\ "purchase_invoices" \in Tenants!SeedModules /\ "sales_invoices" \in Tenants!SeedModules
      /\ "dashboard" \in Tenants!SeedModules /\ "reports" \in Tenants!SeedModules
      /\ "roles" \in Tenants!SeedModules
  BY DEF Tenants!SeedModules, Tenants!SharedModules, Tenants!SalesModules
<1>2. /\ Exists("purchase_invoices", "view") /\ Exists("sales_invoices", "view")
      /\ Exists("dashboard", "view") /\ Exists("reports", "view") /\ Exists("roles", "view")
      /\ Exists("audit_logs", "view")
  BY <1>1, SeedCreates, MigrationsCreate
<1>3. Fine(Tenants!OutstandingPayablesController)
  BY <1>2, FineReads DEF Tenants!OutstandingPayablesController
<1>4. Fine(Tenants!OutstandingReceivablesController)
  BY <1>2, FineReads DEF Tenants!OutstandingReceivablesController
<1>5. Fine(Tenants!DashboardController)
  BY <1>2, FineReads DEF Tenants!DashboardController
<1>6. Fine(Tenants!ReportsController)
  BY <1>2, FineReads DEF Tenants!ReportsController
<1>7. Fine(Tenants!PermissionsController)
  BY <1>2, FineReads DEF Tenants!PermissionsController
<1>8. Fine(Tenants!AuditController)
  BY <1>2, FineReads DEF Tenants!AuditController
<1> QED
  BY <1>3, <1>4, <1>5, <1>6, <1>7, <1>8

\* Users, roles and the company.
LEMMA StaffControllers ==
  /\ Fine(Tenants!UsersController)
  /\ Fine(Tenants!RolesController)
  /\ Fine(Tenants!CompanyController)
<1>1. "users" \in Tenants!SeedModules /\ "roles" \in Tenants!SeedModules
  BY DEF Tenants!SeedModules
<1>2. /\ Exists("users", "view") /\ Exists("users", "create") /\ Exists("users", "edit")
      /\ Exists("roles", "view") /\ Exists("roles", "create") /\ Exists("roles", "edit")
      /\ Exists("roles", "delete")
  BY <1>1, SeedCreates
<1>3. Fine(Tenants!UsersController)
  <2> DEFINE ops == {"update", "setRoles", "resetPassword"}
             one == {"list"}
             R1 == Tenants!Reads("users", one, "users")
             R2 == Tenants!Writes("users", "create", "users", "create")
             R3 == UNION {Tenants!Writes("users", op, "users", "edit") : op \in ops}
  <2>1. Tenants!UsersController = R1 \union R2 \union R3
    BY DEF Tenants!UsersController
  <2> HIDE DEF ops, one
  <2>2. Fine(R1) /\ Fine(R2) /\ Fine(R3)
    BY <1>2, FineReads, FineWrites, FineWritesAll, WritingActions
  <2> HIDE DEF R1, R2, R3
  <2> QED
    BY <2>1, <2>2 DEF Fine
<1>4. Fine(Tenants!RolesController)
  <2> DEFINE ops == {"update", "setPermissions"}
             two == {"list", "getPermissions"}
             R1 == Tenants!Reads("roles", two, "roles")
             R2 == Tenants!Writes("roles", "create", "roles", "create")
             R3 == Tenants!Writes("roles", "remove", "roles", "delete")
             R4 == UNION {Tenants!Writes("roles", op, "roles", "edit") : op \in ops}
  <2>1. Tenants!RolesController = R1 \union R2 \union R3 \union R4
    BY DEF Tenants!RolesController
  <2> HIDE DEF ops, two
  <2>2. Fine(R1) /\ Fine(R2)
    BY <1>2, FineReads, FineWrites, WritingActions
  <2>3. Fine(R3) /\ Fine(R4)
    BY <1>2, FineWrites, FineWritesAll, WritingActions
  <2> HIDE DEF R1, R2, R3, R4
  <2> QED
    BY <2>1, <2>2, <2>3 DEF Fine
<1>5. Fine(Tenants!CompanyController)
  <2> DEFINE one == {"getProfile"}
             R1 == Tenants!Reads("company", one, "company_profile")
             R2 == Tenants!Writes("company", "updateProfile", "company_profile", "edit")
  <2>1. Tenants!CompanyController = R1 \union R2
    BY DEF Tenants!CompanyController
  <2> HIDE DEF one
  <2>2. Fine(R1) /\ Fine(R2)
    BY MigrationsCreate, FineReads, FineWrites, WritingActions
  <2> HIDE DEF R1, R2
  <2> QED
    BY <2>1, <2>2 DEF Fine
<1> QED
  BY <1>3, <1>4, <1>5

\* Routes that ask for no permission.
LEMMA OpenControllers ==
  /\ Fine(Tenants!AuthController)
  /\ Fine(Tenants!SignupController)
  /\ Fine(Tenants!TenantInfoController)
  /\ Fine(Tenants!HealthController)
<1>1. \A c, ops : Fine(Tenants!Public(c, ops))
  BY DEF Fine, Tenants!Public
<1>2. Fine(Tenants!SignupController) /\ Fine(Tenants!TenantInfoController) /\ Fine(Tenants!HealthController)
  BY <1>1 DEF Tenants!SignupController, Tenants!TenantInfoController, Tenants!HealthController
<1>3. Fine(Tenants!AuthController)
  <2> DEFINE own == {"changePassword", "getProfile", "updateProfile"}
             ops == {"login", "refresh", "logout", "forgotPassword", "resetPassword"}
             R1 == Tenants!Public("auth", ops)
             R2 == {Tenants!Route("auth", op, op # "getProfile", {}) : op \in own}
  <2>1. Tenants!AuthController = R1 \union R2
    BY DEF Tenants!AuthController
  <2> HIDE DEF own, ops
  <2>2. Fine(R2)
    BY DEF Fine, Tenants!Route
  <2>3. Fine(R1)
    BY <1>1
  <2> HIDE DEF R1, R2
  <2> QED
    BY <2>1, <2>2, <2>3, FineUnion
<1> QED
  BY <1>2, <1>3

\* Every route of the program.
LEMMA RoutesFine == Fine(Tenants!AllRoutes)
BY MasterDataControllers, ProductPartControllers, DocumentControllers, QuotationsControllerFine,
   StockControllers, ReadingControllers, StaffControllers, OpenControllers
DEF Tenants!AllRoutes, Fine

-----------------------------------------------------------------------------
(* The theorem.                                                            *)

\* What the scripts of a complete schema create is there.
LEMMA CreatedIsThere ==
  ASSUME NEW s, RangeOf(s) = Scripts, NEW perms, \A script \in RangeOf(s) : Adds(script) \subseteq perms
  PROVE  Created \subseteq perms
<1>1. /\ Adds("seed") = Tenants!SeedPerms \union Tenants!AuditView
      /\ Adds("001_company_profile") = CompanyPerms /\ Adds("003_inventory") = InventoryPerms
  BY DEF Adds
<1>2. "seed" \in Scripts /\ "001_company_profile" \in Scripts /\ "003_inventory" \in Scripts
  BY ScriptNames
<1> QED
  BY <1>1, <1>2 DEF Created

(***************************************************************************)
(* In an active tenant Admin may use every route, a Viewer changes nothing *)
(* but the own account and, if the seed ran first, only Admin sees the     *)
(* audit log: whatever order sign-ups and migration runs left the scripts  *)
(* in (seed.sql, migrations/tenant_changes, @RequirePermissions).          *)
(***************************************************************************)
THEOREM RolesStayWithinLimits == Spec => []RolesKeepTheirLimits
<1>1. TenantInv => RolesKeepTheirLimits
  <2> SUFFICES ASSUME TenantInv, NEW code \in Code, tenants[code] = "active"
               PROVE  LET access == Tenants!AccessAfter(ran[code])
                      IN  /\ Tenants!AdminReachesEveryRoute(access)
                          /\ Tenants!ViewersNeverWrite(access)
                          /\ Head(ran[code]) = "seed" => Tenants!AuditLogIsForAdmins(access)
    BY DEF RolesKeepTheirLimits, Tenants!RolesKeepTheirLimits
  <2> DEFINE s == ran[code]
             access == Tenants!AccessAfter(s)
  <2>1. code \in Schema /\ s \in Seq(Scripts)
    BY Sets DEF TenantInv, TypeInv
  <2>2. RangeOf(s) = Scripts
    BY DEF TenantInv, CodeInv
  <2>3. Tenants!IsInjective(s)
    BY <2>1 DEF TenantInv, RecordedIsWhatRan, Tenants!RecordedIsWhatRan, Schema
  <2>4. "seed" \in RangeOf(s) /\ s # <<>>
    <3> HIDE DEF s
    <3>1. "seed" \in RangeOf(s)
      BY <2>2, ScriptNames
    <3>2. PICK i \in DOMAIN s : s[i] = "seed"
      BY <3>1 DEF RangeOf, Tenants!Range
    <3>3. DOMAIN s = 1..Len(s) /\ Len(s) \in Nat
      BY <2>1
    <3>4. Len(s) # 0
      BY <3>2, <3>3
    <3> QED
      BY <3>1, <3>4
  <2>5. /\ Tables(access) /\ ViewerReads(access) /\ AdminHasAll(access)
        /\ \A script \in RangeOf(s) : Adds(script) \subseteq access.perms
        /\ Head(s) = "seed" => AuditIsAdmins(access)
    BY <2>1, <2>3, <2>4, LimitsKept
  <2> HIDE DEF s, access
  <2>6. Created \subseteq access.perms /\ Created \subseteq access.grants["Admin"]
    BY <2>2, <2>5, CreatedIsThere DEF AdminHasAll
  <2>7. Tenants!AdminReachesEveryRoute(access)
    BY <2>6, RoutesFine DEF Tenants!AdminReachesEveryRoute, Tenants!Permitted, Fine
  <2>8. Tenants!ViewersNeverWrite(access)
    BY <2>5, RoutesFine DEF Tenants!ViewersNeverWrite, Tenants!Permitted, Fine, ViewerReads
  <2>9. ASSUME Head(s) = "seed"  PROVE Tenants!AuditLogIsForAdmins(access)
    <3> DEFINE p == [module |-> "audit_logs", action |-> "view"]
    <3>1. p \in Tenants!AuditView /\ p.module = "audit_logs"
      BY DEF Tenants!AuditView, Tenants!Perm
    <3>2. Tenants!AuditView \subseteq access.grants["Admin"]
      BY <2>6 DEF Created
    <3> HIDE DEF p
    <3>3. \A r \in Tenants!Role \ {"Admin"} : p \notin access.grants[r]
      BY <2>5, <2>9, <3>1 DEF AuditIsAdmins, NoAudit
    <3>4. "Admin" \in Tenants!Role
      BY DEF Tenants!Role
    <3> QED
      BY <3>1, <3>2, <3>3, <3>4 DEF Tenants!AuditLogIsForAdmins
  <2> QED
    BY <2>7, <2>8, <2>9 DEF s, access
<1> QED
  BY <1>1, TenantInvariant, PTL

-----------------------------------------------------------------------------
(* Types.                                                                  *)

\* What a process holds of the pool, and what it was told.
PoolTypes ==
  /\ stamp \in [Connection -> ApiRequest \union {Nobody}]
  /\ conn \in [Process -> Connection \union {NoConn}] /\ host \in [Process -> Connection \union {NoConn}]
  /\ tenantReply \in [Process -> {0, 200, 201, 409, 500}]

\* The tables of the template, the tenants and the migrations.
TableTypes ==
  /\ tenants \in [Code -> {"absent", "provisioning", "active"}]
  /\ stage \in [Schema -> {"absent", "created", "products", "complete"}]
  /\ hasTable \subseteq Schema
  /\ recorded \in [Schema -> SUBSET ({"baseline"} \union RangeOf(Migration))]
  /\ admin \in [Code -> {"none", "user", "admin"}]
  /\ dumped \in [Signup -> BOOLEAN]

\* The other variables have their types by TenantInv, if they are functions.
ListTypes == todo = [p \in Process |-> todo[p]] /\ migration = [p \in Process |-> migration[p]]

\* TypeOK by its parts.
LEMMA TenantTypeParts ==
  ASSUME TenantInv
  PROVE  Tenants!TypeOK <=> PoolTypes /\ TableTypes /\ ListTypes
<1>1. /\ ran \in [Schema -> Seq(Scripts)] /\ DOMAIN todo = Process /\ DOMAIN migration = Process
      /\ \A p \in Process : todo[p] \in Seq(Schema) /\ migration[p] \in 1..7
  BY DEF TenantInv, TypeInv, MigrationInv
<1>2. Tenants!Script = Scripts /\ Len(Migration) + 1 = 7
  BY MigrationNames DEF Scripts
<1>3. ListTypes <=> /\ todo \in [Process -> Seq(Schema)]
                    /\ migration \in [Process -> 1..(Len(Migration) + 1)]
  BY <1>1, <1>2 DEF ListTypes
<1>4. Tenants!Range(Tenants!Migration) = RangeOf(Migration) /\ Len(Tenants!Migration) = Len(Migration)
  BY DEF RangeOf, Migration
<1> HIDE DEF ListTypes
<1> QED
  BY <1>1, <1>2, <1>3, <1>4, Zenon DEF Tenants!TypeOK, PoolTypes, TableTypes, Process, Schema

\* A process that ends gives back what it holds.
LEMMA FinishTypes ==
  ASSUME PoolTypes, NEW p, NEW l, NEW told \in {200, 201, 409, 500}, Tenants!Finish(p, l, told)
  PROVE  PoolTypes'
<1>1. /\ tenantReply' = [tenantReply EXCEPT ![p] = told] /\ stamp' = stamp
      /\ conn' = [conn EXCEPT ![p] = NoConn] /\ host' = [host EXCEPT ![p] = NoConn]
  BY DEF Tenants!Finish
<1> DEFINE Replies == {0, 200, 201, 409, 500}
<1>2. tenantReply' \in [Process -> Replies]
  <2>1. tenantReply \in [Process -> Replies] /\ told \in Replies
    BY DEF PoolTypes
  <2> HIDE DEF Replies
  <2> QED
    BY <1>1, <2>1
<1>3. conn' \in [Process -> Connection \union {NoConn}] /\ host' \in [Process -> Connection \union {NoConn}]
  BY <1>1 DEF PoolTypes
<1> QED
  BY <1>1, <1>2, <1>3 DEF PoolTypes

\* So does one that throws an error, and it changes nothing else.
LEMMA ThrowTypes ==
  ASSUME PoolTypes, TableTypes, ListTypes, NEW p, Tenants!Throw(p)
  PROVE  PoolTypes' /\ TableTypes' /\ ListTypes'
<1>1. PoolTypes'
  <2>1. \/ Tenants!Finish(p, "failed", 500)
        \/ conn' = [conn EXCEPT ![p] = NoConn] /\ UNCHANGED <<host, stamp, tenantReply>>
    BY DEF Tenants!Throw
  <2> QED
    BY <2>1, FinishTypes DEF PoolTypes
<1> QED
  BY <1>1 DEF Tenants!Throw, Tenants!dbVars, TableTypes, ListTypes

\* Free connections are connections.
LEMMA FreeConnections == Tenants!Free \subseteq Connection
BY DEF Tenants!Free

\* The steps of a migration run keep the types.
LEMMA MigrateTypes ==
  ASSUME TenantInv, PoolTypes, TableTypes, ListTypes, NEW p \in Process, Tenants!Migrate(p)
  PROVE  PoolTypes' /\ TableTypes' /\ ListTypes'
<1> DEFINE t == Tenants!Target(p)
           S == {"baseline"} \union RangeOf(Migration)
<1>1. /\ tenantPc[p] \in Migrating => t \in Schema
      /\ tenantPc[p] = "apply" => Tenants!Current(p) \in S
  <2>1. MigrationInv(p)
    BY DEF TenantInv
  <2>2. tenantPc[p] \in Migrating => todo[p] \in Seq(Schema) /\ todo[p] # <<>> /\ t = Head(todo[p])
    BY <2>1 DEF MigrationInv, Tenants!Target
  <2>3. tenantPc[p] = "apply" => migration[p] \in 1..6
    BY <2>1 DEF MigrationInv
  <2>4. \A i \in 1..6 : Tenants!Migration[i] \in S
    BY MigrationNames DEF Migration
  <2> QED
    BY <2>2, <2>3, <2>4 DEF Tenants!Current
<1> HIDE DEF t, S
<1>2. CASE Tenants!EnsureMigrationsTable(p)
  <2>1. /\ t \in Schema /\ hasTable' = hasTable \union {t}
        /\ conn' = conn \/ \E k \in Connection : conn' = [conn EXCEPT ![p] = k]
        /\ UNCHANGED <<tenants, stage, recorded, admin, stamp, host, todo, migration, dumped, tenantReply>>
    BY <1>1, <1>2, FreeConnections DEF Tenants!EnsureMigrationsTable, Migrating, t
  <2> QED
    BY <2>1 DEF PoolTypes, TableTypes, ListTypes
<1>3. CASE Tenants!BaselineIfNeeded(p)
  BY <1>3 DEF Tenants!BaselineIfNeeded, Tenants!dbVars, Tenants!poolVars, PoolTypes, TableTypes, ListTypes
<1>4. CASE Tenants!RecordBaseline(p) \/ Tenants!ApplyMigration(p)
  <2>1. /\ t \in Schema /\ \E x \in S : recorded' = [recorded EXCEPT ![t] = @ \union {x}]
        /\ migration' = migration \/ \E v : migration' = [migration EXCEPT ![p] = v]
        /\ UNCHANGED <<tenants, stage, hasTable, admin, stamp, conn, host, todo, dumped, tenantReply>>
    BY <1>1, <1>4 DEF Tenants!RecordBaseline, Tenants!ApplyMigration, Tenants!poolVars, Migrating, t, S
  <2>2. PoolTypes' /\ ListTypes'
    BY <2>1 DEF PoolTypes, ListTypes
  <2>3. recorded \in [Schema -> SUBSET S]
    BY DEF TableTypes, S
  <2>4. recorded' \in [Schema -> SUBSET S]
    BY <2>1, <2>3
  <2>5. TableTypes'
    BY <2>1, <2>4 DEF TableTypes, S
  <2> QED
    BY <2>2, <2>5
<1>5. CASE Tenants!NextMigration(p)
  <2>1. /\ migration' = migration \/ \E v : migration' = [migration EXCEPT ![p] = v]
        /\ UNCHANGED <<tenants, stage, hasTable, recorded, admin, stamp, conn, host, todo, dumped, tenantReply>>
    BY <1>5 DEF Tenants!NextMigration, Tenants!dbVars, Tenants!poolVars
  <2> QED
    BY <2>1 DEF PoolTypes, TableTypes, ListTypes
<1>6. CASE Tenants!MigrateDone(p)
  <2>1. /\ \E v : migration' = [migration EXCEPT ![p] = v]
        /\ \E v : todo' = [todo EXCEPT ![p] = v]
        /\ conn' = [conn EXCEPT ![p] = NoConn]
        /\ UNCHANGED <<tenants, stage, hasTable, recorded, admin, stamp, host, dumped, tenantReply>>
    BY <1>6 DEF Tenants!MigrateDone, Tenants!dbVars
  <2>2. PoolTypes'
    BY <2>1 DEF PoolTypes
  <2>3. TableTypes'
    BY <2>1 DEF TableTypes
  <2>4. ListTypes'
    BY <2>1 DEF ListTypes
  <2> QED
    BY <2>2, <2>3, <2>4
<1>7. CASE Tenants!Throw(p)
  BY <1>7, ThrowTypes
<1> QED
  BY <1>2, <1>3, <1>4, <1>5, <1>6, <1>7 DEF Tenants!Migrate, Tenants!NoSchema, Tenants!BaselineFails,
    Tenants!AlreadyRecorded, Tenants!MigrationFails

\* The steps of a sign-up keep the types.
LEMMA ProvisionTypes ==
  ASSUME TenantInv, PoolTypes, TableTypes, ListTypes, NEW p \in Process, Tenants!Provision(p)
  PROVE  PoolTypes' /\ TableTypes' /\ ListTypes'
<1> USE DEF Tenants!dbVars, Tenants!poolVars
<1>1. ASSUME UNCHANGED <<conn, host, stamp, tenantReply>>  PROVE PoolTypes'
  BY <1>1 DEF PoolTypes
<1>2. ASSUME UNCHANGED <<tenants, stage, hasTable, recorded, admin, dumped>>  PROVE TableTypes'
  BY <1>2 DEF TableTypes
<1>3. ASSUME UNCHANGED <<todo, migration>>  PROVE ListTypes'
  BY <1>3 DEF ListTypes
<1>4. CASE Tenants!Arrive(p)
  <2>1. /\ \/ UNCHANGED <<host, stamp>>
           \/ \E k \in Connection : host' = [host EXCEPT ![p] = k] /\ stamp' = [stamp EXCEPT ![k] = Nobody]
        /\ UNCHANGED <<conn, tenantReply>>
    BY <1>4, FreeConnections DEF Tenants!Arrive
  <2>2. PoolTypes'
    BY <2>1 DEF PoolTypes
  <2> QED
    BY <1>2, <1>3, <1>4, <2>2 DEF Tenants!Arrive
<1>5. CASE Tenants!CheckCode(p) \/ Tenants!Register(p)
  <2>1. \/ UNCHANGED <<conn, host, stamp, tenantReply>>
        \/ Tenants!Finish(p, "refused", 409)
    BY <1>5 DEF Tenants!CheckCode, Tenants!Register
  <2>2. PoolTypes'
    BY <1>1, <2>1, FinishTypes
  <2>3. /\ tenants' = tenants \/ \E c : tenants' = [tenants EXCEPT ![c] = "provisioning"]
        /\ UNCHANGED <<stage, hasTable, recorded, admin, dumped, todo, migration>>
    BY <1>5 DEF Tenants!CheckCode, Tenants!Register
  <2>4. TableTypes'
    BY <2>3 DEF TableTypes
  <2> QED
    BY <1>3, <2>2, <2>3, <2>4
<1>6. CASE Tenants!Dump(p)
  <2> DEFINE b == Template \in hasTable
  <2>1. /\ dumped' = [dumped EXCEPT ![p] = b] /\ b \in BOOLEAN
        /\ UNCHANGED <<tenants, stage, hasTable, recorded, admin>>
    BY <1>6 DEF Tenants!Dump
  <2> HIDE DEF b
  <2>2. TableTypes'
    BY <2>1 DEF TableTypes
  <2> QED
    BY <1>1, <1>3, <1>6, <2>2 DEF Tenants!Dump
<1>7. CASE Tenants!Clone(p)
  <2>1. CodeOf[p] \in Schema
    <3>1. tenantPc[p] = "clone"
      BY <1>7 DEF Tenants!Clone
    <3> QED
      BY <3>1, IsSignup, Sets DEF Migrating
  <2>2. /\ \E x \in {"created", "products", "complete"} : stage' = [stage EXCEPT ![CodeOf[p]] = x]
        /\ hasTable' \subseteq hasTable \union {CodeOf[p]}
        /\ UNCHANGED <<tenants, recorded, admin, dumped>>
    BY <1>7 DEF Tenants!Clone
  <2>3. TableTypes'
    BY <2>1, <2>2 DEF TableTypes
  <2> QED
    BY <1>1, <1>3, <1>7, <2>3 DEF Tenants!Clone
<1>8. CASE Tenants!SeedSchema(p)
  BY <1>1, <1>2, <1>3, <1>8 DEF Tenants!SeedSchema
<1>9. CASE Tenants!Connect(p)
  <2>1. /\ \E k \in Connection : conn' = [conn EXCEPT ![p] = k]
        /\ UNCHANGED <<host, stamp, tenantReply>>
    BY <1>9, FreeConnections DEF Tenants!Connect
  <2>2. PoolTypes'
    BY <2>1 DEF PoolTypes
  <2> QED
    BY <1>2, <1>3, <1>9, <2>2 DEF Tenants!Connect
<1>10. CASE Tenants!InsertUser(p) \/ Tenants!AssignRole(p)
  <2>1. /\ \E x \in {"user", "admin"} : \E c : admin' = [admin EXCEPT ![c] = x]
        /\ UNCHANGED <<tenants, stage, hasTable, recorded, dumped, conn, host, stamp, tenantReply, todo, migration>>
    BY <1>10 DEF Tenants!InsertUser, Tenants!AssignRole
  <2>2. TableTypes'
    BY <2>1 DEF TableTypes
  <2> QED
    BY <1>1, <1>3, <2>1, <2>2
<1>11. CASE Tenants!IssueTokens(p)
  <2>1. PoolTypes'
    BY <1>11 DEF Tenants!IssueTokens, PoolTypes
  <2> QED
    BY <1>2, <1>3, <1>11, <2>1 DEF Tenants!IssueTokens
<1>12. CASE Tenants!Activate(p)
  <2>1. TableTypes'
    BY <1>12 DEF Tenants!Activate, TableTypes
  <2> QED
    BY <1>1, <1>3, <1>12, <2>1 DEF Tenants!Activate
<1>13. CASE Tenants!ForeignUser(p) \/ Tenants!LogFailure(p) \/ Tenants!LogActivation(p)
  <2> USE DEF Tenants!ForeignUser, Tenants!LogFailure, Tenants!LogActivation
  <2>1. PoolTypes'
    BY <1>13, FinishTypes
  <2> QED
    BY <1>2, <1>3, <1>13, <2>1
<1>14. CASE Tenants!CloneFails(p)
  BY <1>14, ThrowTypes DEF Tenants!CloneFails
<1>15. CASE Tenants!LogClone(p)
  BY <1>1, <1>2, <1>3, <1>15 DEF Tenants!LogClone
<1> QED
  BY <1>4, <1>5, <1>6, <1>7, <1>8, <1>9, <1>10, <1>11, <1>12, <1>13, <1>14, <1>15 DEF Tenants!Provision

\* The other steps keep the types.
LEMMA OtherTypes ==
  ASSUME PoolTypes, TableTypes, ListTypes, NEW p \in Process,
         Tenants!ListTargetSchemas(p) \/ Tenants!Intercept(p) \/ Tenants!Respond(p) \/ Tenants!Fail(p)
  PROVE  PoolTypes' /\ TableTypes' /\ ListTypes'
<1> USE DEF Tenants!dbVars, Tenants!poolVars
<1>1. CASE Tenants!ListTargetSchemas(p)
  <2>1. /\ \E v : todo' = [todo EXCEPT ![p] = v]
        /\ UNCHANGED <<tenants, stage, hasTable, recorded, admin, dumped, conn, host, stamp, tenantReply, migration>>
    BY <1>1 DEF Tenants!ListTargetSchemas
  <2>2. PoolTypes'
    BY <2>1 DEF PoolTypes
  <2>3. TableTypes'
    BY <2>1 DEF TableTypes
  <2>4. ListTypes'
    BY <2>1 DEF ListTypes
  <2> QED
    BY <2>2, <2>3, <2>4
<1>2. CASE Tenants!Intercept(p)
  <2>1. /\ p \in ApiRequest
        /\ \E k \in Connection : conn' = [conn EXCEPT ![p] = k] /\ stamp' = [stamp EXCEPT ![k] = p]
        /\ UNCHANGED <<tenants, stage, hasTable, recorded, admin, dumped, host, tenantReply, todo, migration>>
    BY <1>2, FreeConnections DEF Tenants!Intercept
  <2>2. PoolTypes'
    BY <2>1 DEF PoolTypes
  <2> QED
    BY <2>1, <2>2 DEF TableTypes, ListTypes
<1>3. CASE Tenants!Respond(p)
  <2>1. PoolTypes'
    BY <1>3, FinishTypes DEF Tenants!Respond
  <2> QED
    BY <1>3, <2>1 DEF Tenants!Respond, TableTypes, ListTypes
<1>4. CASE Tenants!Fail(p)
  BY <1>4, ThrowTypes DEF Tenants!Fail
<1> QED
  BY <1>1, <1>2, <1>3, <1>4

\* The variables of tenants have their types, at the beginning and after each step.
LEMMA TenantTypes == Spec => []Tenants!TypeOK
<1> DEFINE Types == PoolTypes /\ TableTypes /\ ListTypes
<1>1. Init => Types
  <2> SUFFICES ASSUME Init  PROVE Types
    OBVIOUS
  <2>1. PICK w : Tenants!Begin(w)
    BY DEF Init, Tenants!Init
  <2>2. PoolTypes
    BY <2>1 DEF Tenants!Begin, PoolTypes, Process
  <2>3. hasTable \in {{}, {Template}} /\ hasTable \subseteq Schema
    BY <2>1 DEF Tenants!Begin, Schema, Tenants!Schema
  <2>4. recorded \in [Schema -> SUBSET ({"baseline"} \union RangeOf(Migration))]
    BY <2>1 DEF Tenants!Begin, Schema, Migration, RangeOf
  <2>5. TableTypes
    BY <2>1, <2>3, <2>4 DEF Tenants!Begin, TableTypes, Schema
  <2>6. ListTypes
    BY <2>1 DEF Tenants!Begin, ListTypes, Process
  <2> QED
    BY <2>2, <2>5, <2>6
<1>2. ASSUME TenantInv, Types, [Next]_vars  PROVE Types'
  <2>1. CASE UNCHANGED tenantVars
    BY <1>2, <2>1 DEF tenantVars, PoolTypes, TableTypes, ListTypes
  <2>2. CASE Tenants!Next
    <3>1. PICK p \in Process : Tenants!Step(p) \/ Tenants!Fail(p)
      BY <2>2 DEF Tenants!Next, Process
    <3> QED
      BY <1>2, <3>1, MigrateTypes, ProvisionTypes, OtherTypes DEF Tenants!Step
  <2> QED
    BY <1>2, <2>1, <2>2 DEF Next, vars, tenantVars
<1>3. TenantInv /\ Types => Tenants!TypeOK
  BY TenantTypeParts
<1> HIDE DEF Types
<1> QED
  BY <1>1, <1>2, <1>3, TenantInvariant, PTL DEF Spec
=============================================================================
