----------------------------- MODULE Deployment -----------------------------
(***************************************************************************)
(* Replicas of the container that start, stop and start again over one     *)
(* database: "alembic upgrade head && uvicorn app.main:app" (Dockerfile),  *)
(* so the migrations (alembic/) and then the seeding of the fixture        *)
(* organizations (app/main.py), while an operator downgrades the schema and*)
(* an administrator edits memberships.                                     *)
(*                                                                         *)
(* A step of a replica is a statement, or a migration script, that reads   *)
(* what others write, waits, fails, or commits.                            *)
(***************************************************************************)
EXTENDS Naturals, Sequences

CONSTANTS
    Replicas,
    FIXTURE_ORGANIZATIONS,
    FIXTURE_MEMBERSHIPS,   \* their members: the role of each identity
    Versions,              \* bound: the skill versions ever written
    MaxStops, MaxDowngrades, MaxEdits,  \* bounds: what operators do to it
    NULL                   \* no row, no transaction

Roles      == {"owner", "member"}
Identities == DOMAIN FIXTURE_MEMBERSHIPS

ASSUME FixtureAssumption ==
    /\ \A i \in Identities : i.organization_id \in FIXTURE_ORGANIZATIONS
    /\ FIXTURE_MEMBERSHIPS \in [Identities -> Roles]
ASSUME BoundAssumption ==
    MaxStops \in Nat /\ MaxDowngrades \in Nat /\ MaxEdits \in Nat

----------------------------------------------------------------------------
(* The migration scripts: what upgrade creates, needs, and updates row by  *)
(* row, and what downgrade drops.                                          *)
Tables == {"organizations", "skills", "skill_versions", "audit_logs"}

initial_schema ==
    [creates |-> Tables, needs |-> {}, updates |-> {}, drops |-> Tables]

memberships ==
    [creates |-> {"memberships"}, needs |-> {"organizations"}, updates |-> {},
     drops |-> {"memberships"}]

\* Definitions named X_<bug> are X with a plausible bug: each breaks a property.
versions_org_id_nofill ==
    [creates |-> {"skill_versions.organization_id"}, needs |-> {"skill_versions", "skills"},
     updates |-> {}, drops |-> {"skill_versions.organization_id"}]

versions_org_id ==
    [creates |-> {"skill_versions.organization_id"}, needs |-> {"skill_versions", "skills"},
     updates |-> {"skill_versions"}, drops |-> {"skill_versions.organization_id"}]

status_enum ==
    [creates |-> {"skillstatus"}, needs |-> {"skills"}, updates |-> {},
     drops |-> {"skillstatus"}]

tool_approvals ==
    [creates |-> {"tool_approvals"}, needs |-> {"organizations", "skills", "skill_versions"},
     updates |-> {}, drops |-> {"tool_approvals"}]

version_rows_immutable ==
    [creates |-> {"skill_versions_immutable"}, needs |-> {"skill_versions"},
     updates |-> {}, drops |-> {"skill_versions_immutable"}]

\* In the order of their down_revision.
CHAIN == << initial_schema, memberships, versions_org_id, status_enum,
            tool_approvals, version_rows_immutable >>

HEAD == Len(CHAIN)

SchemaAt(n) == UNION {CHAIN[k].creates : k \in 1 .. n}
Objects == SchemaAt(HEAD)

\* A row of skill_versions, with the organization of its skill.
VersionRows == [skill_organization : FIXTURE_ORGANIZATIONS,
                organization_id : FIXTURE_ORGANIZATIONS \union {NULL}]

Databases == [schema : SUBSET Objects, revision : 0 .. HEAD,
              organizations : SUBSET FIXTURE_ORGANIZATIONS,
              memberships : [Identities -> Roles \union {NULL}],
              versions : [Versions -> VersionRows \union {NULL}]]

\* A transaction of alembic (the revision it read, and the one its scripts
\* have reached), and one of the seeding (the rows to insert).
Migrations == [read : 0 .. HEAD, revision : 0 .. HEAD]
Seedings   == [organizations : SUBSET FIXTURE_ORGANIZATIONS, memberships : SUBSET Identities]

ASSUME NullAssumption ==
    /\ NULL \notin Roles /\ NULL \notin VersionRows /\ NULL \notin FIXTURE_ORGANIZATIONS
    /\ NULL \notin Databases /\ NULL \notin Migrations /\ NULL \notin Seedings

VARIABLES
    db,       \* what is committed
    pc,       \* where each replica is
    tx,       \* its open transaction
    removed,  \* the members an administrator took out
    left      \* what operators may still do

vars == <<db, pc, tx, removed, left>>

Init ==
    /\ db = [schema |-> {}, revision |-> 0, organizations |-> {},
             memberships |-> [i \in Identities |-> NULL],
             versions |-> [v \in Versions |-> NULL]]
    /\ pc = [r \in Replicas |-> "down"]
    /\ tx = [r \in Replicas |-> NULL]
    /\ removed = {}
    /\ left = [stops |-> MaxStops, downgrades |-> MaxDowngrades, edits |-> MaxEdits]

----------------------------------------------------------------------------
(* Helpers.                                                                *)
At(r, step, open) ==
    /\ pc' = [pc EXCEPT ![r] = step]
    /\ tx' = [tx EXCEPT ![r] = open]
    /\ UNCHANGED <<removed, left>>

\* Nothing catches an error of alembic or of the lifespan: the process exits
\* and its transaction rolls back.
Die(r) == At(r, "down", NULL) /\ UNCHANGED db

ScriptsOf(open) == {CHAIN[k] : k \in open.read + 1 .. open.revision}

\* What a migrating replica's transaction sees: its own objects, too.
SchemaSeen(open) == db.schema \union UNION {script.creates : script \in ScriptsOf(open)}

\* An object that exists or is missing fails its DDL statement; the trigger
\* fails an UPDATE of a version.
Applies(script, schema) ==
    /\ script.creates \intersect schema = {}
    /\ script.needs \subseteq schema
    /\ \/ script.updates = {}
       \/ "skill_versions_immutable" \notin schema
       \/ \A v \in Versions : db.versions[v] = NULL

Owned(row) == IF row = NULL THEN NULL ELSE [row EXCEPT !.organization_id = row.skill_organization]

upgrade_next(open) ==
    [db EXCEPT !.schema = SchemaSeen(open), !.revision = open.revision + 1]

upgrade(open) ==
    [db EXCEPT !.schema   = SchemaSeen(open),
               !.revision = open.revision,
               !.versions = IF \A script \in ScriptsOf(open) : script.updates = {} THEN @
                            ELSE [v \in Versions |-> Owned(@[v])]]

\* Dropped tables and columns take their data with them.
downgrade(n) ==
    LET dropped == UNION {CHAIN[k].drops : k \in n + 1 .. db.revision} IN
    [schema        |-> db.schema \ dropped,
     revision      |-> n,
     organizations |-> IF "organizations" \in dropped THEN {} ELSE db.organizations,
     memberships   |-> [i \in Identities |->
         IF "memberships" \in dropped THEN NULL ELSE db.memberships[i]],
     versions      |-> [v \in Versions |->
         IF "skill_versions" \in dropped \/ db.versions[v] = NULL THEN NULL
         ELSE IF "skill_versions.organization_id" \in dropped
         THEN [db.versions[v] EXCEPT !.organization_id = NULL]
         ELSE db.versions[v]]]

----------------------------------------------------------------------------
(* alembic upgrade head: one transaction for all the scripts.              *)

\* The revision is read once, before the first script.
Start(r) ==
    /\ pc[r] = "down"
    /\ IF db.revision = HEAD THEN At(r, "organizations", NULL)
       ELSE At(r, "migrating", [read |-> db.revision, revision |-> db.revision])
    /\ UNCHANGED db

RunRevision_autocommit(r) ==
    LET n == tx[r].revision + 1 IN
    /\ pc[r] = "migrating" /\ n <= HEAD
    /\ \/ /\ Applies(CHAIN[n], db.schema)
          /\ At(r, "migrating", [tx[r] EXCEPT !.revision = n])
          /\ db' = [db EXCEPT !.schema = @ \union CHAIN[n].creates]
       \/ ~Applies(CHAIN[n], db.schema) /\ Die(r)

(* A script.  The first one waits for the catalog rows another replica's   *)
(* migrations have written and not committed.                              *)
RunRevision(r) ==
    LET n == tx[r].revision + 1 IN
    /\ pc[r] = "migrating" /\ n <= HEAD
    /\ \A q \in Replicas \ {r} : pc[q] = "migrating" => ScriptsOf(tx[q]) = {}
    /\ \/ /\ Applies(CHAIN[n], SchemaSeen(tx[r]))
          /\ At(r, "migrating", [tx[r] EXCEPT !.revision = n])
          /\ UNCHANGED db
       \/ ~Applies(CHAIN[n], SchemaSeen(tx[r])) /\ Die(r)

CommitMigrations(r) ==
    /\ pc[r] = "migrating" /\ tx[r].revision = HEAD
    /\ db' = upgrade(tx[r])
    /\ At(r, "organizations", NULL)

----------------------------------------------------------------------------
(* seed_fixture_organizations: two SELECTs, then one flush and commit.     *)
SelectOrganizations(r) ==
    /\ pc[r] = "organizations"
    /\ At(r, "memberships",
          [organizations |-> FIXTURE_ORGANIZATIONS \ db.organizations, memberships |-> {}])
    /\ UNCHANGED db

SelectMemberships_neworgs(r) ==
    /\ pc[r] = "memberships"
    /\ At(r, "flush", [tx[r] EXCEPT !.memberships =
           {i \in Identities : i.organization_id \in tx[r].organizations}])
    /\ UNCHANGED db

SelectMemberships(r) ==
    /\ pc[r] = "memberships"
    /\ At(r, "flush", [tx[r] EXCEPT !.memberships =
           {i \in Identities : db.memberships[i] = NULL}])
    /\ UNCHANGED db

InsertFixtures_upsert(r) ==
    pc[r] = "flush" /\ At(r, "commit", tx[r]) /\ UNCHANGED db

(* The INSERTs wait for an uncommitted row with the same key and fail on a *)
(* committed one, or on a member whose organization is not there.          *)
InsertFixtures(r) ==
    LET open     == tx[r]
        conflict == \/ open.organizations \intersect db.organizations # {}
                    \/ \E i \in open.memberships :
                         \/ db.memberships[i] # NULL
                         \/ i.organization_id \notin db.organizations \union open.organizations
    IN
    /\ pc[r] = "flush"
    /\ \A q \in Replicas \ {r} : pc[q] = "commit" =>
          /\ tx[q].organizations \intersect open.organizations = {}
          /\ tx[q].memberships \intersect open.memberships = {}
    /\ \/ ~conflict /\ At(r, "commit", open) /\ UNCHANGED db
       \/ conflict /\ Die(r)

CommitFixtures(r) ==
    /\ pc[r] = "commit"
    /\ db' = [db EXCEPT
          !.organizations = @ \union tx[r].organizations,
          !.memberships   = [i \in Identities |->
              IF i \in tx[r].memberships THEN FIXTURE_MEMBERSHIPS[i] ELSE @[i]]]
    /\ At(r, "serving", NULL)

(* A request of a serving replica: a skill's organization writes a version.*)
WriteVersion(r, v, o) ==
    /\ pc[r] = "serving"
    /\ db.versions[v] = NULL /\ o \in db.organizations
    /\ db' = [db EXCEPT !.versions[v] = [skill_organization |-> o, organization_id |-> o]]
    /\ UNCHANGED <<pc, tx, removed, left>>

----------------------------------------------------------------------------
(* The operators.                                                          *)

\* A container is stopped, or dies: what it had not committed is gone.
Stop(r) ==
    /\ pc[r] # "down" /\ left.stops > 0
    /\ pc' = [pc EXCEPT ![r] = "down"]
    /\ tx' = [tx EXCEPT ![r] = NULL]
    /\ left' = [left EXCEPT !.stops = @ - 1]
    /\ UNCHANGED <<db, removed>>

\* alembic downgrade, with the service down.
Downgrade(n) ==
    /\ \A r \in Replicas : pc[r] = "down"
    /\ n < db.revision /\ left.downgrades > 0
    /\ db' = downgrade(n)
    /\ left' = [left EXCEPT !.downgrades = @ - 1]
    /\ UNCHANGED <<pc, tx, removed>>

\* An administrator gives a member a role, or takes the member out, in SQL
\* (which waits for an uncommitted row of that member, too).
EditMembership(i, role) ==
    /\ "memberships" \in db.schema /\ i.organization_id \in db.organizations
    /\ \A r \in Replicas : pc[r] = "commit" => i \notin tx[r].memberships
    /\ left.edits > 0 /\ db.memberships[i] # role
    /\ db' = [db EXCEPT !.memberships[i] = role]
    /\ removed' = IF role = NULL THEN removed \union {i} ELSE removed
    /\ left' = [left EXCEPT !.edits = @ - 1]
    /\ UNCHANGED <<pc, tx>>

Run(r) ==
    \/ RunRevision(r) \/ CommitMigrations(r)
    \/ SelectOrganizations(r) \/ SelectMemberships(r)
    \/ InsertFixtures(r) \/ CommitFixtures(r)

Operate ==
    \/ \E r \in Replicas : Stop(r)
    \/ \E n \in 0 .. HEAD : Downgrade(n)
    \/ \E i \in Identities, role \in Roles \union {NULL} : EditMembership(i, role)

Next ==
    \/ \E r \in Replicas : Start(r) \/ Run(r)
    \/ \E r \in Replicas, v \in Versions, o \in FIXTURE_ORGANIZATIONS : WriteVersion(r, v, o)
    \/ Operate

Spec == Init /\ [][Next]_vars

\* A process goes on, and PostgreSQL grants a lock whose holder is gone.  That a
\* replica that is down is started is the operator's promise, not the code's:
\* docker-compose.yml has no restart:.
FairSpec == Spec /\ \A r \in Replicas : WF_vars(Run(r)) /\ WF_vars(Start(r))
----------------------------------------------------------------------------
(* The database, the replicas and their transactions have their types.     *)
TypeOK ==
    /\ db \in Databases
    /\ pc \in [Replicas -> {"down", "migrating", "organizations", "memberships",
                            "flush", "commit", "serving"}]
    /\ tx \in [Replicas -> Migrations \union Seedings \union {NULL}]
    /\ removed \in SUBSET Identities
    /\ left \in [stops : Nat, downgrades : Nat, edits : Nat]

(* However starts, deaths and downgrades interleave, the committed schema  *)
(* is exactly what the scripts up to the recorded revision make, and every *)
(* version in it carries its ownership key (models.py): the organization of*)
(* its skill, also one written before the column was added or added again. *)
SchemaMatchesRevision ==
    /\ db.schema = SchemaAt(db.revision)
    /\ "skill_versions.organization_id" \in db.schema =>
         \A v \in Versions : db.versions[v] # NULL =>
            db.versions[v].organization_id = db.versions[v].skill_organization

(* Requests are only served over the schema the models describe, and with  *)
(* every fixture in place that no administrator took out.                  *)
ServesSeeded ==
    (\E r \in Replicas : pc[r] = "serving") =>
        /\ db.revision = HEAD
        /\ FIXTURE_ORGANIZATIONS \subseteq db.organizations
        /\ \A i \in Identities : db.memberships[i] # NULL \/ i \in removed

(* A start never changes the role of a member who is there: what an        *)
(* administrator set survives every later start.                           *)
SeedingOnlyAdds ==
    [][\A i \in Identities :
         db.memberships[i] # NULL /\ db'.memberships[i] # db.memberships[i]
            => left' # left]_vars

(* No start leaves anything behind that fails the next ones: replicas that *)
(* race, die or are stopped in the middle all serve in the end.            *)
EveryReplicaServes == \A r \in Replicas : <>[](pc[r] = "serving")
=============================================================================
