-------------------------- MODULE Deployment_proofs --------------------------
(***************************************************************************)
(* The safety properties of Deployment, for any replicas, fixtures,        *)
(* versions and bounds on what operators do.  The invariant says what each *)
(* open transaction still knows of the database: the one that has run      *)
(* scripts read the revision that is committed; the fixtures a start has   *)
(* not found it will insert; and rows about to be inserted are missing.    *)
(***************************************************************************)
EXTENDS Deployment, TLAPS

Steps == {"down", "migrating", "organizations", "memberships", "flush", "commit",
          "serving"}

Migrated == {"organizations", "memberships", "flush", "commit", "serving"}

\* An alembic transaction: what it read is still there if it ran a script.
MigrationSound(r) ==
    /\ tx[r] \in Migrations
    /\ tx[r].read < HEAD /\ tx[r].read <= tx[r].revision /\ tx[r].read <= db.revision
    /\ tx[r].read < tx[r].revision =>
         /\ db.revision = tx[r].read
         /\ \A q \in Replicas \ {r} :
              pc[q] = "migrating" => tx[q].revision = tx[q].read

OrganizationsFound(r) == FIXTURE_ORGANIZATIONS \subseteq db.organizations \union tx[r].organizations

MembersFound(r) ==
    \A i \in Identities :
        db.memberships[i] # NULL \/ i \in removed \/ i \in tx[r].memberships

SeedingSound(r) ==
    /\ tx[r] \in Seedings
    /\ OrganizationsFound(r)
    /\ pc[r] \in {"flush", "commit"} => MembersFound(r)
    /\ pc[r] = "commit" =>
         /\ \A i \in tx[r].memberships : db.memberships[i] = NULL
         /\ \A q \in Replicas \ {r} : pc[q] = "commit" =>
              tx[q].memberships \intersect tx[r].memberships = {}

ReplicaSound(r) ==
    /\ pc[r] = "migrating" => MigrationSound(r)
    /\ pc[r] \in {"memberships", "flush", "commit"} => SeedingSound(r)

DInv ==
    /\ TypeOK
    /\ SchemaMatchesRevision
    /\ ServesSeeded
    /\ (\E r \in Replicas : pc[r] \in Migrated) => db.revision = HEAD
    /\ \A r \in Replicas : ReplicaSound(r)

----------------------------------------------------------------------------
(* The scripts.                                                            *)

LEMMA Chain ==
    /\ HEAD = 6
    /\ CHAIN[1] = initial_schema /\ CHAIN[2] = memberships /\ CHAIN[3] = versions_org_id
    /\ CHAIN[4] = status_enum /\ CHAIN[5] = tool_approvals /\ CHAIN[6] = version_rows_immutable
BY DEF CHAIN, HEAD

\* Each script creates objects of its own, and its downgrade drops them.
LEMMA Scripts ==
    /\ \A k \in 1 .. HEAD : CHAIN[k].creates # {} /\ CHAIN[k].drops = CHAIN[k].creates
    /\ \A j, k \in 1 .. HEAD : j # k => CHAIN[j].creates \intersect CHAIN[k].creates = {}
    /\ \A k \in 1 .. HEAD :
         "skill_versions.organization_id" \in CHAIN[k].creates <=> CHAIN[k].updates # {}
<1>1. \A k \in 1 .. 6 : k \in {1, 2, 3, 4, 5, 6}
  OBVIOUS
<1>2. \A k \in 1 .. 6 : CHAIN[k].creates # {} /\ CHAIN[k].drops = CHAIN[k].creates
  BY <1>1, Chain DEF initial_schema, memberships, versions_org_id, status_enum,
     tool_approvals, version_rows_immutable, Tables
<1>3. \A j, k \in 1 .. 6 : j # k => CHAIN[j].creates \intersect CHAIN[k].creates = {}
  BY <1>1, Chain DEF initial_schema, memberships, versions_org_id, status_enum,
     tool_approvals, version_rows_immutable, Tables
<1>4. \A k \in 1 .. 6 :
         "skill_versions.organization_id" \in CHAIN[k].creates <=> CHAIN[k].updates # {}
  BY <1>1, Chain DEF initial_schema, memberships, versions_org_id, status_enum,
     tool_approvals, version_rows_immutable, Tables
<1> QED
  BY <1>2, <1>3, <1>4, Chain

\* Upgrading what revision m has to revision n gives what n has.
LEMMA SchemaUpgraded ==
    ASSUME NEW m \in 0 .. HEAD, NEW n \in 0 .. HEAD, m <= n
    PROVE  SchemaAt(m) \union UNION {script.creates : script \in {CHAIN[k] : k \in m + 1 .. n}}
              = SchemaAt(n)
<1>1. \A k : k \in 1 .. n <=> (k \in 1 .. m \/ k \in m + 1 .. n)
  BY Chain
<1> QED
  BY <1>1 DEF SchemaAt

\* Downgrading drops exactly what the scripts in between created.
LEMMA SchemaDowngraded ==
    ASSUME NEW m \in 0 .. HEAD, NEW n \in 0 .. HEAD, n <= m
    PROVE  SchemaAt(m) \ UNION {CHAIN[k].drops : k \in n + 1 .. m} = SchemaAt(n)
<1>1. \A k : k \in 1 .. m <=> (k \in 1 .. n \/ k \in n + 1 .. m)
  BY Chain
<1>2. \A k \in 1 .. m : k \in 1 .. HEAD
  BY Chain
<1>3. \A k \in n + 1 .. m : CHAIN[k].drops = CHAIN[k].creates
  BY <1>1, <1>2, Scripts
<1>4. \A j \in 1 .. n, k \in n + 1 .. m : CHAIN[j].creates \intersect CHAIN[k].creates = {}
  <2>1. \A j \in 1 .. n, k \in n + 1 .. m : j # k
    BY Chain
  <2> QED
    BY <1>1, <1>2, <2>1, Scripts
<1> QED
  BY <1>1, <1>3, <1>4 DEF SchemaAt

LEMMA SchemaType == \A n \in 0 .. HEAD : SchemaAt(n) \subseteq Objects
BY Chain DEF SchemaAt, Objects

\* A script that ran before does not run again.
LEMMA RunsOnce ==
    ASSUME NEW m \in 0 .. HEAD, NEW n \in 1 .. HEAD, n <= m
    PROVE  CHAIN[n].creates \intersect SchemaAt(m) # {}
<1>1. n \in 1 .. m
  BY Chain
<1>2. CHAIN[n].creates \subseteq SchemaAt(m)
  BY <1>1 DEF SchemaAt
<1> QED
  BY <1>2, Scripts

----------------------------------------------------------------------------
(* The steps of one replica that commit nothing.                           *)

LEMMA MigrationType ==
    ASSUME NEW open \in Migrations
    PROVE  open.read \in 0 .. HEAD /\ open.revision \in 0 .. HEAD
           /\ open.read \in Nat /\ open.revision \in Nat
BY Chain DEF Migrations

LEMMA MoveKeeps ==
    ASSUME DInv, NEW r \in Replicas, NEW step \in Steps \ {"serving"},
           NEW open \in Migrations \union Seedings \union {NULL},
           pc' = [pc EXCEPT ![r] = step], tx' = [tx EXCEPT ![r] = open],
           db' = db, removed' = removed, left' \in [stops : Nat, downgrades : Nat, edits : Nat],
           ReplicaSound(r)', step \in Migrated => db.revision = HEAD
    PROVE  DInv'
<1>1. /\ pc'[r] = step /\ tx'[r] = open
      /\ \A q \in Replicas \ {r} : pc'[q] = pc[q] /\ tx'[q] = tx[q]
  BY DEF DInv, TypeOK
<1>2. TypeOK'
  BY DEF DInv, TypeOK, Steps
<1>3. SchemaMatchesRevision' /\ ServesSeeded'
  <2>1. \A q \in Replicas : pc'[q] = "serving" => pc[q] = "serving"
    BY <1>1
  <2> QED
    BY <2>1 DEF DInv, SchemaMatchesRevision, ServesSeeded
<1>4. ((\E q \in Replicas : pc[q] \in Migrated) => db.revision = HEAD)'
  BY <1>1 DEF DInv
<1>5. ASSUME NEW q \in Replicas \ {r} PROVE ReplicaSound(q)'
  <2>1. ReplicaSound(q) /\ pc'[q] = pc[q] /\ tx'[q] = tx[q]
    BY <1>1 DEF DInv
  <2>2. ASSUME pc'[q] = "migrating" PROVE MigrationSound(q)'
    <3>1. MigrationSound(q)
      BY <2>1, <2>2 DEF ReplicaSound
    <3>2. ASSUME tx[q].read < tx[q].revision, pc'[r] = "migrating"
          PROVE  tx'[r].revision = tx'[r].read
      <4>1. MigrationSound(r)'
        BY <3>2 DEF ReplicaSound
      <4>2. ~(tx'[r].read < tx'[r].revision)
        <5>1. tx'[r].read < tx'[r].revision => tx'[q].revision = tx'[q].read
          BY <2>2, <4>1 DEF MigrationSound
        <5>2. tx[q].revision # tx[q].read
          BY <3>1, <3>2, MigrationType DEF MigrationSound
        <5> QED
          BY <2>1, <5>1, <5>2
      <4>3. tx'[r].read <= tx'[r].revision /\ tx'[r].read \in Nat /\ tx'[r].revision \in Nat
        BY <4>1, MigrationType DEF MigrationSound
      <4> QED
        BY <4>2, <4>3
    <3>3. ASSUME tx[q].read < tx[q].revision
          PROVE  \A o \in Replicas \ {q} : pc'[o] = "migrating" => tx'[o].revision = tx'[o].read
      BY <1>1, <3>1, <3>2, <3>3 DEF MigrationSound
    <3> QED
      BY <2>1, <3>1, <3>3 DEF MigrationSound
  <2>3. ASSUME pc'[q] \in {"memberships", "flush", "commit"} PROVE SeedingSound(q)'
    <3>1. SeedingSound(q)
      BY <2>1, <2>3 DEF ReplicaSound
    <3>2. OrganizationsFound(q)' /\ (pc[q] \in {"flush", "commit"} => MembersFound(q)')
      BY <2>1, <3>1 DEF SeedingSound, OrganizationsFound, MembersFound
    <3>3. ASSUME pc[q] = "commit", pc'[r] = "commit"
          PROVE  tx'[r].memberships \intersect tx'[q].memberships = {}
      BY <2>1, <3>3 DEF ReplicaSound, SeedingSound
    <3>4. ASSUME pc[q] = "commit"
          PROVE  \A o \in Replicas \ {q} : pc'[o] = "commit" =>
                    tx'[o].memberships \intersect tx'[q].memberships = {}
      BY <1>1, <2>1, <3>1, <3>3, <3>4 DEF SeedingSound
    <3> QED
      BY <2>1, <3>1, <3>2, <3>4 DEF SeedingSound
  <2> QED
    BY <2>2, <2>3 DEF ReplicaSound
<1> QED
  BY <1>2, <1>3, <1>4, <1>5 DEF DInv

LEMMA RestKeeps ==
    ASSUME DInv, NEW r \in Replicas, pc' = [pc EXCEPT ![r] = "down"],
           tx' = [tx EXCEPT ![r] = NULL], db' = db, removed' = removed,
           left' \in [stops : Nat, downgrades : Nat, edits : Nat]
    PROVE  DInv'
<1>1. pc'[r] = "down"
  BY DEF DInv, TypeOK
<1>2. ReplicaSound(r)'
  BY <1>1 DEF ReplicaSound
<1> QED
  BY <1>2, MoveKeeps DEF Steps, Migrated

LEMMA DieKeeps ==
    ASSUME DInv, NEW r \in Replicas, Die(r)
    PROVE  DInv'
BY RestKeeps DEF Die, At, DInv, TypeOK

LEMMA StopKeeps ==
    ASSUME DInv, NEW r \in Replicas, Stop(r)
    PROVE  DInv'
<1>1. left' \in [stops : Nat, downgrades : Nat, edits : Nat]
  BY DEF Stop, DInv, TypeOK
<1> QED
  BY <1>1, RestKeeps DEF Stop

LEMMA StartKeeps ==
    ASSUME DInv, NEW r \in Replicas, Start(r)
    PROVE  DInv'
<1> DEFINE open == [read |-> db.revision, revision |-> db.revision]
<1>1. db' = db /\ removed' = removed /\ left' \in [stops : Nat, downgrades : Nat, edits : Nat]
  BY DEF Start, At, DInv, TypeOK
<1>2. db.revision \in 0 .. HEAD
  BY DEF DInv, TypeOK, Databases
<1>3. CASE db.revision = HEAD
  <2>1. At(r, "organizations", NULL)
    BY <1>3 DEF Start
  <2>2. pc'[r] = "organizations"
    BY <2>1 DEF At, DInv, TypeOK
  <2>3. ReplicaSound(r)'
    BY <2>2 DEF ReplicaSound
  <2> QED
    BY <1>1, <1>3, <2>1, <2>3, MoveKeeps DEF At, Steps
<1>4. CASE db.revision # HEAD
  <2>1. At(r, "migrating", open)
    BY <1>4 DEF Start
  <2>2. pc'[r] = "migrating" /\ tx'[r] = open
    BY <2>1 DEF At, DInv, TypeOK
  <2>3. open \in Migrations
    BY <1>2 DEF Migrations
  <2>4. MigrationSound(r)'
    BY <1>1, <1>2, <1>4, <2>2, <2>3, Chain DEF MigrationSound
  <2>5. ReplicaSound(r)'
    BY <2>2, <2>4 DEF ReplicaSound
  <2> QED
    BY <1>1, <2>1, <2>3, <2>5, MoveKeeps DEF At, Steps, Migrated
<1> QED
  BY <1>3, <1>4

LEMMA RunRevisionKeeps ==
    ASSUME DInv, NEW r \in Replicas, RunRevision(r)
    PROVE  DInv'
<1> DEFINE n    == tx[r].revision + 1
           open == [tx[r] EXCEPT !.revision = n]
<1>1. MigrationSound(r) /\ SchemaMatchesRevision /\ db.revision \in 0 .. HEAD
      /\ pc[r] = "migrating" /\ n <= HEAD
  BY DEF RunRevision, DInv, ReplicaSound, TypeOK, Databases
<1>2. /\ tx[r].read \in 0 .. HEAD /\ tx[r].revision \in 0 .. HEAD
      /\ tx[r].read <= tx[r].revision /\ tx[r].read <= db.revision
  BY <1>1, MigrationType DEF MigrationSound
<1>3. CASE Die(r)
  BY <1>3, DieKeeps
<1>4. ASSUME Applies(CHAIN[n], SchemaSeen(tx[r])), At(r, "migrating", open), db' = db
      PROVE  DInv'
  <2>1. pc'[r] = "migrating" /\ tx'[r] = open
        /\ \A q \in Replicas \ {r} : pc'[q] = pc[q] /\ tx'[q] = tx[q]
    BY <1>4 DEF At, DInv, TypeOK
  <2>2. /\ open \in Migrations /\ open.read = tx[r].read /\ open.revision = n
    BY <1>1, <1>2, Chain DEF MigrationSound, Migrations
  <2>3. db.revision = tx[r].read
    <3>1. CASE tx[r].read < tx[r].revision
      BY <1>1, <3>1 DEF MigrationSound
    <3>2. CASE tx[r].read = tx[r].revision
      <4>1. CHAIN[n].creates \intersect SchemaAt(db.revision) = {}
        BY <1>1, <1>4 DEF Applies, SchemaSeen, SchemaMatchesRevision
      <4>2. n \in 1 .. HEAD
        BY <1>1, <1>2, Chain
      <4>3. ~(n <= db.revision)
        BY <1>1, <4>1, <4>2, RunsOnce
      <4> QED
        BY <1>1, <1>2, <3>2, <4>3, Chain
    <3> QED
      BY <1>2, <3>1, <3>2, Chain
  <2>4. ASSUME NEW q \in Replicas \ {r}, pc[q] = "migrating"
        PROVE  tx[q].revision = tx[q].read
    <3>1. MigrationSound(q) /\ ScriptsOf(tx[q]) = {}
      BY <2>4 DEF RunRevision, DInv, ReplicaSound
    <3>2. tx[q].read \in 0 .. HEAD /\ tx[q].revision \in 0 .. HEAD /\ tx[q].read <= tx[q].revision
      BY <3>1, MigrationType DEF MigrationSound
    <3>3. \A k \in tx[q].read + 1 .. tx[q].revision : CHAIN[k] \in ScriptsOf(tx[q])
      BY DEF ScriptsOf
    <3>4. tx[q].read < tx[q].revision => tx[q].revision \in tx[q].read + 1 .. tx[q].revision
      BY <3>2, Chain
    <3> QED
      BY <3>1, <3>2, <3>3, <3>4, Chain
  <2>5. MigrationSound(r)'
    BY <1>1, <1>2, <1>4, <2>1, <2>2, <2>3, <2>4, Chain DEF MigrationSound
  <2>6. ReplicaSound(r)'
    BY <2>1, <2>5 DEF ReplicaSound
  <2>7. left' \in [stops : Nat, downgrades : Nat, edits : Nat]
    BY <1>4 DEF At, DInv, TypeOK
  <2> HIDE DEF open
  <2> QED
    BY <1>4, <2>2, <2>6, <2>7, MoveKeeps DEF At, Steps, Migrated
<1> QED
  BY <1>3, <1>4 DEF RunRevision

LEMMA SelectOrganizationsKeeps ==
    ASSUME DInv, NEW r \in Replicas, SelectOrganizations(r)
    PROVE  DInv'
<1> DEFINE open == [organizations |-> FIXTURE_ORGANIZATIONS \ db.organizations,
                    memberships |-> {}]
<1>1. At(r, "memberships", open) /\ db' = db /\ pc[r] = "organizations"
  BY DEF SelectOrganizations
<1>2. pc'[r] = "memberships" /\ tx'[r] = open
      /\ left' \in [stops : Nat, downgrades : Nat, edits : Nat]
  BY <1>1 DEF At, DInv, TypeOK
<1>3. open \in Seedings
  BY DEF Seedings
<1>4. SeedingSound(r)'
  BY <1>1, <1>2, <1>3 DEF SeedingSound, OrganizationsFound
<1>5. ReplicaSound(r)'
  BY <1>2, <1>4 DEF ReplicaSound
<1>6. db.revision = HEAD
  BY <1>1 DEF DInv, Migrated
<1> QED
  BY <1>1, <1>2, <1>3, <1>5, <1>6, MoveKeeps DEF At, Steps

LEMMA SelectMembershipsKeeps ==
    ASSUME DInv, NEW r \in Replicas, SelectMemberships(r)
    PROVE  DInv'
<1> DEFINE open == [tx[r] EXCEPT !.memberships = {i \in Identities : db.memberships[i] = NULL}]
<1>1. At(r, "flush", open) /\ db' = db /\ pc[r] = "memberships"
  BY DEF SelectMemberships
<1>2. pc'[r] = "flush" /\ tx'[r] = open
      /\ left' \in [stops : Nat, downgrades : Nat, edits : Nat]
  BY <1>1 DEF At, DInv, TypeOK
<1>3. tx[r] \in Seedings /\ OrganizationsFound(r)
  BY <1>1 DEF DInv, ReplicaSound, SeedingSound
<1>4. /\ open \in Seedings /\ open.organizations = tx[r].organizations
      /\ open.memberships = {i \in Identities : db.memberships[i] = NULL}
  BY <1>3 DEF Seedings
<1> HIDE DEF open
<1>5. SeedingSound(r)'
  BY <1>1, <1>2, <1>3, <1>4 DEF SeedingSound, OrganizationsFound, MembersFound
<1>6. ReplicaSound(r)'
  BY <1>2, <1>5 DEF ReplicaSound
<1>7. db.revision = HEAD
  BY <1>1 DEF DInv, Migrated
<1> QED
  BY <1>1, <1>2, <1>4, <1>6, <1>7, MoveKeeps DEF At, Steps

LEMMA InsertFixturesKeeps ==
    ASSUME DInv, NEW r \in Replicas, InsertFixtures(r)
    PROVE  DInv'
<1>1. CASE Die(r)
  BY <1>1, DieKeeps
<1>2. ASSUME At(r, "commit", tx[r]), db' = db, \A i \in tx[r].memberships : db.memberships[i] = NULL
      PROVE  DInv'
  <2>1. /\ pc'[r] = "commit" /\ tx' = tx /\ removed' = removed
        /\ left' \in [stops : Nat, downgrades : Nat, edits : Nat]
        /\ \A q \in Replicas \ {r} : pc'[q] = pc[q]
    BY <1>2 DEF At, DInv, TypeOK
  <2>2. pc[r] = "flush" /\ SeedingSound(r)
    BY DEF InsertFixtures, DInv, ReplicaSound
  <2>3. \A q \in Replicas \ {r} : pc[q] = "commit" =>
           tx[q].memberships \intersect tx[r].memberships = {}
    BY DEF InsertFixtures
  <2>4. SeedingSound(r)'
    BY <1>2, <2>1, <2>2, <2>3 DEF SeedingSound, OrganizationsFound, MembersFound
  <2>5. ReplicaSound(r)'
    BY <2>1, <2>4 DEF ReplicaSound
  <2>6. db.revision = HEAD /\ tx[r] \in Seedings
    BY <2>2 DEF DInv, Migrated, SeedingSound
  <2> QED
    BY <1>2, <2>1, <2>5, <2>6, MoveKeeps DEF At, Steps
<1> QED
  BY <1>1, <1>2 DEF InsertFixtures

----------------------------------------------------------------------------
(* The steps that commit.                                                  *)

LEMMA OwnedType ==
    ASSUME NEW row \in VersionRows
    PROVE  /\ Owned(row) \in VersionRows
           /\ Owned(row).organization_id = Owned(row).skill_organization
BY NullAssumption DEF Owned, VersionRows

LEMMA CommitMigrationsKeeps ==
    ASSUME DInv, NEW r \in Replicas, CommitMigrations(r)
    PROVE  DInv'
<1>1. /\ pc[r] = "migrating" /\ MigrationSound(r) /\ tx[r].revision = HEAD
      /\ db \in Databases /\ SchemaMatchesRevision
  BY DEF CommitMigrations, DInv, ReplicaSound, TypeOK
<1>2. /\ tx[r].read \in 0 .. HEAD /\ tx[r].read < HEAD /\ db.revision = tx[r].read
      /\ \A q \in Replicas \ {r} : pc[q] = "migrating" => tx[q].revision = tx[q].read
  BY <1>1, MigrationType, Chain DEF MigrationSound
<1>3. SchemaSeen(tx[r]) = SchemaAt(HEAD)
  <2>1. tx[r].read \in 0 .. HEAD /\ HEAD \in 0 .. HEAD /\ tx[r].read <= HEAD
    BY <1>2, Chain
  <2>2. db.schema = SchemaAt(tx[r].read)
    BY <1>1, <1>2 DEF SchemaMatchesRevision
  <2> QED
    BY <1>1, <2>1, <2>2, SchemaUpgraded DEF SchemaSeen, ScriptsOf
<1>4. /\ db'.schema = SchemaAt(HEAD) /\ db'.revision = HEAD
      /\ db'.organizations = db.organizations /\ db'.memberships = db.memberships
      /\ db'.versions = IF \A script \in ScriptsOf(tx[r]) : script.updates = {} THEN db.versions
                        ELSE [v \in Versions |-> Owned(db.versions[v])]
      /\ db' = [schema |-> db'.schema, revision |-> db'.revision,
                organizations |-> db'.organizations, memberships |-> db'.memberships,
                versions |-> db'.versions]
  BY <1>1, <1>3 DEF CommitMigrations, upgrade, Databases
<1>5. /\ pc'[r] = "organizations" /\ removed' = removed /\ left' = left
      /\ pc' = [pc EXCEPT ![r] = "organizations"] /\ tx' = [tx EXCEPT ![r] = NULL]
      /\ \A q \in Replicas \ {r} : pc'[q] = pc[q] /\ tx'[q] = tx[q]
  BY DEF CommitMigrations, At, DInv, TypeOK
<1>6. db'.versions \in [Versions -> VersionRows \union {NULL}]
  <2>1. db.versions \in [Versions -> VersionRows \union {NULL}]
    BY <1>1 DEF Databases
  <2>2. \A v \in Versions : Owned(db.versions[v]) \in VersionRows \union {NULL}
    BY <2>1, OwnedType DEF Owned
  <2> QED
    BY <1>4, <2>1, <2>2
<1>7. db' \in Databases
  <2>1. /\ db'.schema \in SUBSET Objects /\ db'.revision \in 0 .. HEAD
        /\ db'.organizations \in SUBSET FIXTURE_ORGANIZATIONS
        /\ db'.memberships \in [Identities -> Roles \union {NULL}]
    BY <1>1, <1>4, Chain DEF Databases, Objects
  <2> QED
    BY <1>4, <1>6, <2>1 DEF Databases
<1>8. TypeOK'
  BY <1>5, <1>7 DEF DInv, TypeOK
<1>9. SchemaMatchesRevision'
  <2>1. ASSUME NEW v \in Versions, db'.versions[v] # NULL
        PROVE  db'.versions[v].organization_id = db'.versions[v].skill_organization
    <3>1. CASE \A script \in ScriptsOf(tx[r]) : script.updates = {}
      <4>1. "skill_versions.organization_id" \in db.schema
        <5>1. \A k \in tx[r].read + 1 .. HEAD : CHAIN[k] \in ScriptsOf(tx[r])
          BY <1>1 DEF ScriptsOf
        <5>2. 3 \notin tx[r].read + 1 .. HEAD
          BY <3>1, <5>1, Chain DEF versions_org_id
        <5>3. 3 \in 1 .. tx[r].read
          BY <1>2, <5>2, Chain
        <5>4. "skill_versions.organization_id" \in CHAIN[3].creates
          BY Chain DEF versions_org_id
        <5>5. db.schema = SchemaAt(tx[r].read)
          BY <1>1, <1>2 DEF SchemaMatchesRevision
        <5> QED
          BY <5>3, <5>4, <5>5 DEF SchemaAt
      <4>2. db'.versions = db.versions
        BY <1>4, <3>1
      <4> QED
        BY <1>1, <2>1, <4>1, <4>2 DEF SchemaMatchesRevision
    <3>2. CASE ~(\A script \in ScriptsOf(tx[r]) : script.updates = {})
      <4>1. db'.versions[v] = Owned(db.versions[v])
        BY <1>4, <3>2
      <4>2. db.versions[v] \in VersionRows
        BY <1>1, <2>1, <4>1 DEF Owned, Databases
      <4> QED
        BY <4>1, <4>2, OwnedType
    <3> QED
      BY <3>1, <3>2
  <2> QED
    BY <1>4, <2>1 DEF SchemaMatchesRevision
<1>10. \A q \in Replicas : pc[q] \notin Migrated
  <2>1. db.revision # HEAD
    BY <1>2, Chain
  <2> QED
    BY <2>1 DEF DInv
<1>11. ServesSeeded'
  BY <1>5, <1>10 DEF ServesSeeded, Migrated
<1>12. ASSUME NEW q \in Replicas PROVE ReplicaSound(q)'
  <2>1. CASE q = r
    BY <1>5, <2>1 DEF ReplicaSound
  <2>2. CASE q # r /\ pc[q] = "migrating"
    <3>1. MigrationSound(q) /\ tx[q].revision = tx[q].read /\ tx'[q] = tx[q] /\ pc'[q] = pc[q]
      BY <1>2, <1>5, <2>2 DEF DInv, ReplicaSound
    <3>2. tx[q].read \in 0 .. HEAD
      BY <3>1, MigrationType DEF MigrationSound
    <3>3. MigrationSound(q)'
      BY <1>4, <3>1, <3>2, Chain DEF MigrationSound
    <3> QED
      BY <2>2, <3>1, <3>3 DEF ReplicaSound
  <2>3. CASE q # r /\ pc[q] # "migrating"
    BY <1>5, <1>10, <2>3 DEF ReplicaSound, Migrated
  <2> QED
    BY <2>1, <2>2, <2>3
<1> QED
  BY <1>4, <1>8, <1>9, <1>11, <1>12 DEF DInv

LEMMA CommitFixturesKeeps ==
    ASSUME DInv, NEW r \in Replicas, CommitFixtures(r)
    PROVE  DInv'
<1>1. /\ pc[r] = "commit" /\ SeedingSound(r) /\ db \in Databases /\ SchemaMatchesRevision
      /\ db.revision = HEAD
  BY DEF CommitFixtures, DInv, ReplicaSound, TypeOK, Migrated
<1>2. /\ tx[r].organizations \subseteq FIXTURE_ORGANIZATIONS
      /\ tx[r].memberships \subseteq Identities
  BY <1>1 DEF SeedingSound, Seedings
<1>3. /\ db'.schema = db.schema /\ db'.revision = db.revision /\ db'.versions = db.versions
      /\ db'.organizations = db.organizations \union tx[r].organizations
      /\ db'.memberships = [i \in Identities |->
            IF i \in tx[r].memberships THEN FIXTURE_MEMBERSHIPS[i] ELSE db.memberships[i]]
      /\ db' = [schema |-> db'.schema, revision |-> db'.revision,
                organizations |-> db'.organizations, memberships |-> db'.memberships,
                versions |-> db'.versions]
  BY <1>1 DEF CommitFixtures, Databases
<1>4. /\ pc' = [pc EXCEPT ![r] = "serving"] /\ tx' = [tx EXCEPT ![r] = NULL]
      /\ pc'[r] = "serving" /\ removed' = removed /\ left' = left
      /\ \A q \in Replicas \ {r} : pc'[q] = pc[q] /\ tx'[q] = tx[q]
  BY DEF CommitFixtures, At, DInv, TypeOK
<1>5. db' \in Databases
  <2>1. db'.memberships \in [Identities -> Roles \union {NULL}]
    BY <1>1, <1>3, FixtureAssumption DEF Databases
  <2> QED
    BY <1>1, <1>2, <1>3, <2>1 DEF Databases
<1>6. TypeOK'
  BY <1>4, <1>5 DEF DInv, TypeOK
<1>7. SchemaMatchesRevision'
  BY <1>1, <1>3 DEF SchemaMatchesRevision
<1>8. \A i \in Identities : /\ i \in tx[r].memberships => db'.memberships[i] # NULL
                            /\ i \notin tx[r].memberships => db'.memberships[i] = db.memberships[i]
  BY <1>3, FixtureAssumption, NullAssumption
<1>9. ServesSeeded'
  <2>1. FIXTURE_ORGANIZATIONS \subseteq db'.organizations
    BY <1>1, <1>3 DEF SeedingSound, OrganizationsFound
  <2>2. \A i \in Identities : db'.memberships[i] # NULL \/ i \in removed'
    BY <1>1, <1>4, <1>8 DEF SeedingSound, MembersFound
  <2> QED
    BY <1>1, <1>3, <2>1, <2>2 DEF ServesSeeded
<1>10. ASSUME NEW q \in Replicas PROVE ReplicaSound(q)'
  <2>1. CASE q = r
    BY <1>4, <2>1 DEF ReplicaSound
  <2>2. CASE q # r
    <3>1. ReplicaSound(q) /\ pc'[q] = pc[q] /\ tx'[q] = tx[q]
      BY <1>4, <2>2 DEF DInv
    <3>2. ASSUME pc[q] = "migrating" PROVE MigrationSound(q)'
      <4>1. \A o \in Replicas : pc'[o] = "migrating" => pc[o] = "migrating" /\ tx'[o] = tx[o]
        BY <1>4
      <4> QED
        BY <1>3, <3>1, <3>2, <4>1 DEF ReplicaSound, MigrationSound
    <3>3. ASSUME pc[q] \in {"memberships", "flush", "commit"} PROVE SeedingSound(q)'
      <4>1. SeedingSound(q)
        BY <3>1, <3>3 DEF ReplicaSound
      <4>2. OrganizationsFound(q)'
        BY <1>3, <3>1, <4>1 DEF SeedingSound, OrganizationsFound
      <4>3. pc[q] \in {"flush", "commit"} => MembersFound(q)'
        BY <1>4, <1>8, <3>1, <4>1 DEF SeedingSound, MembersFound
      <4>4. ASSUME pc[q] = "commit"
            PROVE  \A i \in tx[q].memberships : db'.memberships[i] = NULL
        <5>1. tx[q].memberships \intersect tx[r].memberships = {}
          BY <1>1, <2>2, <4>4 DEF SeedingSound
        <5>2. tx[q].memberships \subseteq Identities
          BY <4>1 DEF SeedingSound, Seedings
        <5> QED
          BY <1>8, <4>1, <4>4, <5>1, <5>2 DEF SeedingSound
      <4>5. \A o \in Replicas : pc'[o] = "commit" => pc[o] = "commit" /\ tx'[o] = tx[o]
        BY <1>4
      <4> QED
        BY <3>1, <4>1, <4>2, <4>3, <4>4, <4>5 DEF SeedingSound
    <3> QED
      BY <3>1, <3>2, <3>3 DEF ReplicaSound
  <2> QED
    BY <2>1, <2>2
<1> QED
  BY <1>1, <1>3, <1>6, <1>7, <1>9, <1>10 DEF DInv

LEMMA WriteVersionKeeps ==
    ASSUME DInv, NEW r \in Replicas, NEW v \in Versions, NEW o \in FIXTURE_ORGANIZATIONS,
           WriteVersion(r, v, o)
    PROVE  DInv'
<1> DEFINE row == [skill_organization |-> o, organization_id |-> o]
<1>1. db \in Databases /\ row \in VersionRows
  BY DEF DInv, TypeOK, VersionRows
<1>2. /\ db'.schema = db.schema /\ db'.revision = db.revision
      /\ db'.organizations = db.organizations /\ db'.memberships = db.memberships
      /\ db'.versions = [db.versions EXCEPT ![v] = row]
      /\ db' = [schema |-> db'.schema, revision |-> db'.revision,
                organizations |-> db'.organizations, memberships |-> db'.memberships,
                versions |-> db'.versions]
      /\ UNCHANGED <<pc, tx, removed, left>>
  BY <1>1 DEF WriteVersion, Databases
<1>3. db' \in Databases
  BY <1>1, <1>2 DEF Databases
<1>4. TypeOK'
  BY <1>2, <1>3 DEF DInv, TypeOK
<1>5. SchemaMatchesRevision'
  <2>1. db'.versions[v] = row /\ \A x \in Versions \ {v} : db'.versions[x] = db.versions[x]
    BY <1>1, <1>2 DEF Databases
  <2> QED
    BY <1>2, <2>1 DEF DInv, SchemaMatchesRevision
<1>6. ServesSeeded'
  BY <1>2 DEF DInv, ServesSeeded
<1>7. \A q \in Replicas : ReplicaSound(q)'
  BY <1>2 DEF DInv, ReplicaSound, MigrationSound, SeedingSound, OrganizationsFound, MembersFound
<1> QED
  BY <1>2, <1>4, <1>5, <1>6, <1>7 DEF DInv

LEMMA DowngradeKeeps ==
    ASSUME DInv, NEW n \in 0 .. HEAD, Downgrade(n)
    PROVE  DInv'
<1> DEFINE dropped == UNION {CHAIN[k].drops : k \in n + 1 .. db.revision}
<1>1. /\ db \in Databases /\ SchemaMatchesRevision /\ n < db.revision
      /\ \A q \in Replicas : pc[q] = "down"
  BY DEF Downgrade, DInv, TypeOK
<1>2. /\ db'.schema = db.schema \ dropped /\ db'.revision = n
      /\ db'.organizations = (IF "organizations" \in dropped THEN {} ELSE db.organizations)
      /\ db'.memberships = [i \in Identities |->
            IF "memberships" \in dropped THEN NULL ELSE db.memberships[i]]
      /\ db'.versions = [v \in Versions |->
            IF "skill_versions" \in dropped \/ db.versions[v] = NULL THEN NULL
            ELSE IF "skill_versions.organization_id" \in dropped
            THEN [db.versions[v] EXCEPT !.organization_id = NULL]
            ELSE db.versions[v]]
      /\ db' = [schema |-> db'.schema, revision |-> db'.revision,
                organizations |-> db'.organizations, memberships |-> db'.memberships,
                versions |-> db'.versions]
  BY DEF Downgrade, downgrade
<1>3. db'.schema = SchemaAt(n)
  <2>1. db.revision \in 0 .. HEAD /\ n <= db.revision
    BY <1>1, Chain DEF Databases
  <2> QED
    BY <1>1, <1>2, <2>1, SchemaDowngraded DEF SchemaMatchesRevision
<1> HIDE DEF dropped
<1>4. /\ pc' = pc /\ tx' = tx /\ removed' = removed
      /\ left' \in [stops : Nat, downgrades : Nat, edits : Nat]
  BY DEF Downgrade, DInv, TypeOK
<1>5. db' \in Databases
  <2>1. db'.schema \in SUBSET Objects
    BY <1>3, SchemaType
  <2>2. db'.organizations \in SUBSET FIXTURE_ORGANIZATIONS
        /\ db'.memberships \in [Identities -> Roles \union {NULL}]
    BY <1>1, <1>2 DEF Databases
  <2>3. db'.versions \in [Versions -> VersionRows \union {NULL}]
    BY <1>1, <1>2 DEF Databases, VersionRows
  <2> QED
    BY <1>2, <2>1, <2>2, <2>3 DEF Databases
<1>6. TypeOK'
  BY <1>4, <1>5 DEF DInv, TypeOK
<1>7. SchemaMatchesRevision'
  <2>1. ASSUME "skill_versions.organization_id" \in db'.schema, NEW v \in Versions,
               db'.versions[v] # NULL
        PROVE  db'.versions[v].organization_id = db'.versions[v].skill_organization
    <3>1. "skill_versions.organization_id" \in db.schema \ dropped
      BY <1>2, <2>1
    <3>2. db'.versions[v] = db.versions[v]
      BY <1>2, <2>1, <3>1
    <3> QED
      BY <1>1, <2>1, <3>1, <3>2 DEF SchemaMatchesRevision
  <2> QED
    BY <1>2, <1>3, <2>1 DEF SchemaMatchesRevision
<1>8. /\ \A q \in Replicas : ReplicaSound(q)'
      /\ ServesSeeded' /\ \A q \in Replicas : pc'[q] \notin Migrated
  BY <1>1, <1>4 DEF ReplicaSound, ServesSeeded, Migrated
<1> QED
  BY <1>6, <1>7, <1>8 DEF DInv

LEMMA EditMembershipKeeps ==
    ASSUME DInv, NEW i \in Identities, NEW role \in Roles \union {NULL},
           EditMembership(i, role)
    PROVE  DInv'
<1>1. db \in Databases
  BY DEF DInv, TypeOK
<1>2. /\ db'.schema = db.schema /\ db'.revision = db.revision
      /\ db'.organizations = db.organizations /\ db'.versions = db.versions
      /\ db'.memberships = [db.memberships EXCEPT ![i] = role]
      /\ db' = [schema |-> db'.schema, revision |-> db'.revision,
                organizations |-> db'.organizations, memberships |-> db'.memberships,
                versions |-> db'.versions]
      /\ pc' = pc /\ tx' = tx
      /\ removed' = (IF role = NULL THEN removed \union {i} ELSE removed)
      /\ left' \in [stops : Nat, downgrades : Nat, edits : Nat]
      /\ \A q \in Replicas : pc[q] = "commit" => i \notin tx[q].memberships
  BY <1>1 DEF EditMembership, Databases, DInv, TypeOK
<1>3. db' \in Databases /\ removed' \in SUBSET Identities
  BY <1>1, <1>2 DEF Databases, DInv, TypeOK
<1>4. TypeOK'
  BY <1>2, <1>3 DEF DInv, TypeOK
<1>5. SchemaMatchesRevision'
  BY <1>2 DEF DInv, SchemaMatchesRevision
<1>6. /\ db'.memberships[i] # NULL \/ i \in removed'
      /\ removed \subseteq removed'
      /\ \A j \in Identities \ {i} : db'.memberships[j] = db.memberships[j]
  BY <1>1, <1>2 DEF Databases
<1>7. ServesSeeded'
  BY <1>2, <1>6 DEF DInv, ServesSeeded
<1>8. ASSUME NEW q \in Replicas PROVE ReplicaSound(q)'
  <2>1. ReplicaSound(q)
    BY DEF DInv
  <2>2. pc[q] = "migrating" => MigrationSound(q)'
    BY <1>2, <2>1 DEF ReplicaSound, MigrationSound
  <2>3. ASSUME pc[q] \in {"memberships", "flush", "commit"} PROVE SeedingSound(q)'
    <3>1. SeedingSound(q)
      BY <2>1, <2>3 DEF ReplicaSound
    <3>2. MembersFound(q) => MembersFound(q)'
      BY <1>2, <1>6 DEF MembersFound
    <3>3. pc[q] = "commit" => \A j \in tx[q].memberships : db'.memberships[j] = NULL
      BY <1>2, <1>6, <3>1 DEF SeedingSound, Seedings
    <3> QED
      BY <1>2, <3>1, <3>2, <3>3 DEF SeedingSound, OrganizationsFound
  <2> QED
    BY <1>2, <2>2, <2>3 DEF ReplicaSound
<1> QED
  BY <1>2, <1>4, <1>5, <1>7, <1>8 DEF DInv

----------------------------------------------------------------------------
(* The invariant and the theorems.                                         *)

LEMMA InitDInv == Init => DInv
<1> SUFFICES ASSUME Init PROVE DInv
  OBVIOUS
<1>1. TypeOK
  BY BoundAssumption, Chain DEF Init, TypeOK, Databases
<1>2. SchemaMatchesRevision
  BY DEF Init, SchemaMatchesRevision, SchemaAt
<1>3. \A r \in Replicas : pc[r] = "down"
  BY DEF Init
<1> QED
  BY <1>1, <1>2, <1>3 DEF DInv, ServesSeeded, ReplicaSound, Migrated

LEMMA NextDInv == DInv /\ [Next]_vars => DInv'
<1> SUFFICES ASSUME DInv, [Next]_vars PROVE DInv'
  OBVIOUS
<1>1. CASE UNCHANGED vars
  <2>1. UNCHANGED <<db, pc, tx, removed, left>>
    BY <1>1 DEF vars
  <2> QED
    BY <2>1 DEF DInv, TypeOK, SchemaMatchesRevision, ServesSeeded, ReplicaSound,
       MigrationSound, SeedingSound, OrganizationsFound, MembersFound
<1>2. ASSUME NEW r \in Replicas, Start(r) \/ Run(r) PROVE DInv'
  BY <1>2, StartKeeps, RunRevisionKeeps, CommitMigrationsKeeps, SelectOrganizationsKeeps,
     SelectMembershipsKeeps, InsertFixturesKeeps, CommitFixturesKeeps DEF Run
<1>3. ASSUME NEW r \in Replicas, NEW v \in Versions, NEW o \in FIXTURE_ORGANIZATIONS,
             WriteVersion(r, v, o)
      PROVE  DInv'
  BY <1>3, WriteVersionKeeps
<1>4. CASE Operate
  BY <1>4, StopKeeps, DowngradeKeeps, EditMembershipKeeps DEF Operate
<1> QED
  BY <1>1, <1>2, <1>3, <1>4 DEF Next

LEMMA DeploymentHolds == Spec => []DInv
BY InitDInv, NextDInv, PTL DEF Spec

(* The database, the replicas and their transactions keep their types, for *)
(* any number of replicas, fixtures and operators' interventions.          *)
THEOREM DeploymentTypes == Spec => []TypeOK
<1>1. DInv => TypeOK
  BY DEF DInv
<1> QED
  BY <1>1, DeploymentHolds, PTL

(* alembic/: wherever starts race, replicas die and operators downgrade,   *)
(* what is committed is exactly the schema of the revision recorded with   *)
(* it, and every version carries the organization of its skill.            *)
THEOREM SchemaStaysWhole == Spec => []SchemaMatchesRevision
<1>1. DInv => SchemaMatchesRevision
  BY DEF DInv
<1> QED
  BY <1>1, DeploymentHolds, PTL

(* main.py's lifespan: a replica serves only over the newest schema, with  *)
(* every fixture in place that no administrator took out.                  *)
THEOREM ServesWhenSeeded == Spec => []ServesSeeded
<1>1. DInv => ServesSeeded
  BY DEF DInv
<1> QED
  BY <1>1, DeploymentHolds, PTL

LEMMA OnlyMissingInserted ==
    ASSUME DInv, [Next]_vars, NEW i \in Identities,
           db.memberships[i] # NULL, db'.memberships[i] # db.memberships[i]
    PROVE  left' # left
<1> DEFINE Left == [stops : Nat, downgrades : Nat, edits : Nat]
<1>1. left \in Left /\ db \in Databases
  BY DEF DInv, TypeOK
<1>2. CASE db' = db
  BY <1>2
<1>3. ASSUME NEW r \in Replicas, CommitMigrations(r) PROVE FALSE
  <2>1. db'.memberships = db.memberships
    BY <1>1, <1>3 DEF CommitMigrations, upgrade, Databases
  <2> QED
    BY <2>1
<1>4. ASSUME NEW r \in Replicas, CommitFixtures(r) PROVE FALSE
  <2>1. db'.memberships = [j \in Identities |->
           IF j \in tx[r].memberships THEN FIXTURE_MEMBERSHIPS[j] ELSE db.memberships[j]]
    BY <1>1, <1>4 DEF CommitFixtures, Databases
  <2>2. i \in tx[r].memberships
    BY <2>1
  <2>3. db.memberships[i] = NULL
    BY <1>4, <2>2 DEF CommitFixtures, DInv, ReplicaSound, SeedingSound
  <2> QED
    BY <2>3
<1>5. ASSUME NEW r \in Replicas, NEW v, NEW o, WriteVersion(r, v, o) PROVE FALSE
  <2>1. db'.memberships = db.memberships
    BY <1>1, <1>5 DEF WriteVersion, Databases
  <2> QED
    BY <2>1
<1>6. ASSUME NEW n, Downgrade(n) PROVE left' # left
  <2>1. left'.downgrades = left.downgrades - 1 /\ left.downgrades \in Nat
    BY <1>1, <1>6 DEF Downgrade
  <2> QED
    BY <2>1
<1>7. ASSUME NEW j, NEW role, EditMembership(j, role) PROVE left' # left
  <2>1. left'.edits = left.edits - 1 /\ left.edits \in Nat
    BY <1>1, <1>7 DEF EditMembership
  <2> QED
    BY <2>1
<1>8. \/ db' = db
      \/ \E r \in Replicas : CommitMigrations(r) \/ CommitFixtures(r)
      \/ \E r \in Replicas, v \in Versions, o \in FIXTURE_ORGANIZATIONS : WriteVersion(r, v, o)
      \/ \E n \in 0 .. HEAD : Downgrade(n)
      \/ \E j \in Identities, role \in Roles \union {NULL} : EditMembership(j, role)
  BY DEF Next, vars, Run, Operate, Start, RunRevision, SelectOrganizations,
     SelectMemberships, InsertFixtures, Stop, Die
<1> QED
  BY <1>2, <1>3, <1>4, <1>5, <1>6, <1>7, <1>8

(* main.py's seeding: however starts race each other and an administrator, *)
(* no start changes the role of a member who is there.                     *)
THEOREM SeedingAddsOnly == Spec => SeedingOnlyAdds
<1>1. DInv /\ [Next]_vars =>
        [\A i \in Identities :
           db.memberships[i] # NULL /\ db'.memberships[i] # db.memberships[i]
              => left' # left]_vars
  BY OnlyMissingInserted
<1> QED
  BY <1>1, DeploymentHolds, PTL DEF Spec, SeedingOnlyAdds
=============================================================================
