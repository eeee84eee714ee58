--------------------------- MODULE SkillRegistry ---------------------------
(***************************************************************************)
(* The lifecycle endpoints of app/routers/skills.py over PostgreSQL in its *)
(* default READ COMMITTED isolation.  A request owns one session and one   *)
(* transaction.  A handler reads the skill row ONCE into an ORM object,    *)
(* checks its guards on that object, and writes later: a step of a request *)
(* is one statement that reads, waits or becomes visible, and the other    *)
(* requests run between two steps.                                         *)
(*                                                                         *)
(* Requests are numbered in the order they arrive, and are the ids of the  *)
(* rows they create: a request creates at most one skill and at most one   *)
(* version, and its uuid is fresh.                                         *)
(***************************************************************************)
EXTENDS Naturals, Sequences, FiniteSets, TLC

CONSTANTS
    Requests,      \* bound: the HTTP requests that ever arrive
    Organizations,
    Memberships,   \* the memberships table: who may call, and their role there
    Fields,        \* of name, description, department, content, requested_tools
    Values,        \* of a field, after the payload's validation
    PoolSize,      \* connections of the engine's pool
    NULL           \* Python's None and SQL's NULL

SkillStatus == {"draft", "active", "disabled"}
Roles       == {"owner", "member"}
Actors      == [organization_id : Organizations, role : Roles]

ASSUME RequestsAssumption == Requests \subseteq Nat
ASSUME PoolAssumption == PoolSize \in Nat \ {0}
ASSUME MembershipsAssumption == Memberships \subseteq Actors

Definitions == [Fields -> Values]
Patches     == UNION {[S -> Values] : S \in SUBSET Fields}
Events      == {"skill.draft_created", "skill.draft_updated",
                "skill.version_created", "skill.activated",
                "skill.activation_replayed", "skill.disabled",
                "skill.disable_replayed"}

TRANSITIONS == [draft    |-> {"active", "disabled"},
                active   |-> {"disabled"},
                disabled |-> {}]

can_transition(source, target) == target \in TRANSITIONS[source]

\* The digest of a snapshot: a collision-free value of exactly these inputs.
compute_version_hash(org, s, n, definition) == <<org, s, n, definition>>
Hashes == Organizations \X Requests \X Nat \X Definitions

Skill ==
    [organization_id   : Organizations,
     status            : SkillStatus,
     active_version_id : Requests \union {NULL},
     working           : Definitions]

SkillVersion ==
    [organization_id : Organizations,
     skill_id        : Requests,
     version_number  : Nat \ {0},
     definition      : Definitions,
     version_hash    : Hashes]

AuditLog ==
    [id                  : Requests,
     organization_id     : Organizations,
     actor_role          : Roles,
     event               : Events,
     skill_id            : Requests,
     version_id          : Requests \union {NULL},
     version_hash        : Hashes \union {NULL},
     previous_status     : SkillStatus \union {NULL},
     previous_version_id : Requests \union {NULL},
     created_at          : Nat]   \* an instant of one clock; 0 until the INSERT

\* The columns an UPDATE sets: the attributes whose value really changed.
Writes == [status            : SkillStatus \union {NULL},
           active_version_id : Requests \union {NULL},
           working           : Patches]
NoWrites == [status |-> NULL, active_version_id |-> NULL,
             working |-> [f \in {} |-> NULL]]

----------------------------------------------------------------------------
VARIABLES
    skills,     \* committed rows of skills, by id
    versions,   \* committed rows of skill_versions, by id
    audit,      \* committed rows of audit_logs, in commit order
    pc,         \* where each request is in its handler
    tx,         \* the session of each request: what it read, what it will write
    reply,      \* the status code each request was answered with, if not lost
    committed   \* history variable: what each request committed; no step reads it

vars == <<skills, versions, audit, pc, tx, reply, committed>>

Sessions ==
    [op         : {"create", "update", "version", "activate", "disable"},
     actor      : Actors,
     skill_id   : Requests,
     version_id : Requests \union {NULL},     \* of the activation payload
     payload    : Definitions \union {NULL},  \* of the version payload
     skill      : Skill \union {NULL},        \* the row as it was loaded
     writes     : Writes,                     \* unflushed or uncommitted UPDATE
     version    : SkillVersion \union {NULL}, \* unflushed or uncommitted INSERT
     log        : Seq(AuditLog)]              \* uncommitted audit rows

\* What a transaction published, and how many audit rows there were before.
Effects ==
    [skill_id : Requests,
     writes   : Writes,
     version  : SkillVersion \union {NULL},
     log      : Seq(AuditLog),
     at       : Nat]

\* None is no id, no value of a column, no row, no session and no answer.
ASSUME NullAssumption ==
    /\ NULL \notin Requests /\ NULL \notin SkillStatus /\ NULL \notin Definitions
    /\ NULL \notin Skill /\ NULL \notin SkillVersion /\ NULL \notin Sessions
    /\ NULL \notin Effects
    /\ NULL \notin {200, 201, 403, 404, 409, 500}

Steps == {"idle", "number", "find", "insert", "log", "update", "commit",
          "respond", "done", "lost"}
Waiting  == {"idle", "done", "lost"}
InFlight == {r \in Requests : pc[r] \notin Waiting}

\* Definitions named X_<bug> are X with a plausible bug: each breaks a property.
\* A transaction holds a pooled connection until it commits.
Connected_answered == InFlight
Connected == {r \in InFlight : pc[r] # "respond"}
PoolFull  == ~(Cardinality(Connected) < PoolSize)

Init ==
    /\ skills   = [r \in Requests |-> NULL]
    /\ versions = [r \in Requests |-> NULL]
    /\ audit    = << >>
    /\ pc       = [r \in Requests |-> "idle"]
    /\ tx       = [r \in Requests |-> NULL]
    /\ reply    = [r \in Requests |-> NULL]
    /\ committed = [r \in Requests |-> NULL]

----------------------------------------------------------------------------
(* Helpers of the handlers.                                                *)

\* The next request checks a connection out of the pool.
Arrived(r) == pc[r] = "idle" /\ \A q \in Requests : q < r => pc[q] # "idle"
Admit(r)   == Arrived(r) /\ ~PoolFull

\* The ids a client can send: those it was told, and one that names nothing.
Ids(rows, r) == {x \in Requests : rows[x] # NULL} \union {r}

require_owner_anyone(a) == TRUE
require_owner(a) == a.role = "owner"

\* The tenant filter: another organization's row is not there.
Visible_everywhere(a, s) == skills[s] # NULL
Visible(a, s) ==
    skills[s] # NULL /\ skills[s].organization_id = a.organization_id

\* The committed versions of a skill.
HistoryOf(s) ==
    {v \in Requests : versions[v] # NULL /\ versions[v].skill_id = s}

Session(op, a, s) ==
    [op |-> op, actor |-> a, skill_id |-> s, version_id |-> NULL,
     payload |-> NULL, skill |-> skills[s], writes |-> NoWrites,
     version |-> NULL, log |-> << >>]

\* What the session is going to commit.
Prepared(t, w, v, log) ==
    [t EXCEPT !.writes = w, !.version = v, !.log = log]

\* The row record_audit adds to the session; its flush dates it.
record_audit(r, t, event, v, hash) ==
    [id |-> r, organization_id |-> t.actor.organization_id,
     actor_role |-> t.actor.role, event |-> event, skill_id |-> t.skill_id,
     version_id |-> v, version_hash |-> hash,
     previous_status |-> NULL, previous_version_id |-> NULL, created_at |-> 0]

\* The instants of the rows that exist, committed or in an open transaction.
Instants ==
    {0} \union {audit[i].created_at : i \in DOMAIN audit}
        \union UNION {{tx[q].log[i].created_at : i \in DOMAIN tx[q].log} : q \in InFlight}

\* The clock when a statement is sent: later than every row there is.
Latest_local(now) == now \in Instants
Latest(now) == now \in Instants /\ \A m \in Instants : m <= now

\* The rows of a log as their INSERTs are sent, one after the other.
Dated(log, now) == [i \in DOMAIN log |-> [log[i] EXCEPT !.created_at = now + i]]

\* An answer that leaves no transaction behind (also an HTTPException, which
\* closes the session and rolls back).
Answer(r, code) ==
    /\ pc'    = [pc EXCEPT ![r] = "done"]
    /\ tx'    = [tx EXCEPT ![r] = NULL]
    /\ reply' = [reply EXCEPT ![r] = code]
    /\ UNCHANGED <<skills, versions, audit, committed>>

Proceed(r, step, t) ==
    /\ pc' = [pc EXCEPT ![r] = step]
    /\ tx' = [tx EXCEPT ![r] = t]
    /\ UNCHANGED <<skills, versions, audit, reply, committed>>

\* The UPDATE of a flush merges its columns into the newest row.
Merge_clearing(row, w) ==
    [row EXCEPT !.status = IF w.status = NULL THEN @ ELSE w.status,
                !.active_version_id = w.active_version_id]
Merge_defaults(row, w) ==
    [row EXCEPT !.status = IF w.status = NULL THEN "draft" ELSE w.status,
                !.active_version_id =
                    IF w.active_version_id = NULL THEN @ ELSE w.active_version_id]
Merge(row, w) ==
    [row EXCEPT !.status = IF w.status = NULL THEN @ ELSE w.status,
                !.active_version_id =
                    IF w.active_version_id = NULL THEN @ ELSE w.active_version_id,
                !.working = [f \in Fields |-> IF f \in DOMAIN w.working
                                              THEN w.working[f] ELSE @[f]]]

HashOf(v) == IF v = NULL THEN NULL ELSE versions[v].version_hash

----------------------------------------------------------------------------
(* POST /skills.  The ids are fresh, so nothing waits for the transaction  *)
(* and nobody sees a part of it: it is one step.                           *)
CreateSkillDraft(r, a, d) ==
    LET t     == Session("create", a, r)
        entry == record_audit(r, t, "skill.draft_created", NULL, NULL)
    IN
    /\ Admit(r)
    /\ skills' = [skills EXCEPT ![r] =
           [organization_id |-> a.organization_id, status |-> "draft",
            active_version_id |-> NULL, working |-> d]]
    /\ \E now \in Instants :
        LET log == Dated(<<entry>>, now) IN
        /\ Latest(now)
        /\ audit' = audit \o log
        /\ committed' = [committed EXCEPT ![r] =
               [skill_id |-> r, version |-> NULL, log |-> log, at |-> Len(audit),
                writes |-> [status |-> "draft", active_version_id |-> NULL, working |-> d]]]
    /\ pc' = [pc EXCEPT ![r] = "respond"]
    /\ tx' = [tx EXCEPT ![r] = t]
    /\ UNCHANGED <<versions, reply>>

(* PATCH /skills/{skill_id}.  Only attributes whose value differs from the *)
(* loaded one reach the UPDATE; an empty body changes and audits nothing.  *)
UpdateSkillDraft(r, a, s, p) ==
    LET t       == Session("update", a, s)
        changed == {f \in DOMAIN p : p[f] # skills[s].working[f]}
    IN
    /\ Admit(r)
    /\ \/ ~Visible(a, s) /\ Answer(r, 404)
       \/ Visible(a, s) /\ skills[s].status # "draft" /\ Answer(r, 409)
       \/ /\ Visible(a, s) /\ skills[s].status = "draft"
          /\ DOMAIN p = {}
          /\ Answer(r, 200)
       \/ /\ Visible(a, s) /\ skills[s].status = "draft"
          /\ DOMAIN p # {}
          /\ Proceed(r, "log",
               Prepared(t, [NoWrites EXCEPT !.working = [f \in changed |-> p[f]]], NULL,
                        <<record_audit(r, t, "skill.draft_updated", NULL, NULL)>>))

(* POST /skills/{skill_id}/versions, up to its guard.                      *)
CreateSkillVersion_draft(r, a, s, d) ==
    /\ Admit(r)
    /\ Visible(a, s) /\ skills[s].status # "disabled"
    /\ Proceed(r, "number", [Session("version", a, s) EXCEPT !.payload = d])

CreateSkillVersion(r, a, s, d) ==
    /\ Admit(r)
    /\ \/ ~Visible(a, s) /\ Answer(r, 404)
       \/ Visible(a, s) /\ skills[s].status # "active" /\ Answer(r, 409)
       \/ /\ Visible(a, s) /\ skills[s].status = "active"
          /\ Proceed(r, "number", [Session("version", a, s) EXCEPT !.payload = d])

NewVersion_from0(t, n, d) ==
    [organization_id |-> t.skill.organization_id, skill_id |-> t.skill_id,
     version_number |-> n - 1, definition |-> d,
     version_hash |-> compute_version_hash(t.skill.organization_id, t.skill_id, n - 1, d)]

NewVersion_hashfirst(t, n, d) ==
    [NewVersion_from0(t, n, d) EXCEPT !.version_number = n]

NewVersion(t, n, d) ==
    [organization_id |-> t.skill.organization_id, skill_id |-> t.skill_id,
     version_number |-> n, definition |-> d,
     version_hash |-> compute_version_hash(t.skill.organization_id, t.skill_id, n, d)]

NumbersOf(s) == {versions[v].version_number : v \in HistoryOf(s)}

(* SELECT max(version_number), or 0, and the row built from its successor. *)
SelectMaxVersion(r) ==
    /\ pc[r] = "number"
    /\ LET t == tx[r] IN
       \E n \in NumbersOf(t.skill_id) \union {0} :
        LET v == NewVersion(t, n + 1, t.payload) IN
        /\ \A m \in NumbersOf(t.skill_id) : m <= n
        /\ Proceed(r, "insert", Prepared(t, NoWrites, v,
             <<record_audit(r, t, "skill.version_created", r, v.version_hash)>>))

SameNumber(v, w) ==
    v.skill_id = w.skill_id /\ v.version_number = w.version_number

\* The uncommitted row of q that an INSERT of r waits for.
HoldsNumber(q, r) ==
    /\ pc[q] \in {"log", "update", "commit"}
    /\ tx[q].version # NULL
    /\ SameNumber(tx[q].version, tx[r].version)

(* INSERT INTO skill_versions: waits for an uncommitted row with the same  *)
(* (skill_id, version_number); a committed one is an IntegrityError nobody *)
(* catches.                                                                *)
InsertVersion_unchecked(r) ==
    /\ pc[r] = "insert"
    /\ Proceed(r, "log", tx[r])

InsertVersion(r) ==
    /\ pc[r] = "insert"
    /\ \A q \in Requests \ {r} : ~HoldsNumber(q, r)
    /\ IF \E v \in Requests : versions[v] # NULL /\ SameNumber(versions[v], tx[r].version)
       THEN Answer(r, 500)
       ELSE Proceed(r, "log", tx[r])

\* The columns an activation sets, and its audit row.
Activate_status(v, status) == [NoWrites EXCEPT !.status = status]
Activate(v, status) == [NoWrites EXCEPT !.status = status, !.active_version_id = v]

Activation_late(r, t, v, hash) ==
    [record_audit(r, t, "skill.activated", v, hash) EXCEPT
        !.previous_status = "active", !.previous_version_id = v]

Activation(r, t, v, hash) ==
    [record_audit(r, t, "skill.activated", v, hash) EXCEPT
        !.previous_status = t.skill.status,
        !.previous_version_id = t.skill.active_version_id]

(* POST /skills/{skill_id}/activate: the replay, the terminal-state guard, *)
(* the snapshot of a draft, and the two cases that name a version.         *)
ActivateSkill(r, a, s, version_id) ==
    LET t == [Session("activate", a, s) EXCEPT !.version_id = version_id]
        status  == skills[s].status
        current == skills[s].active_version_id
        replay  == status = "active" /\ version_id \in {NULL, current}
        v1      == NewVersion(t, 1, skills[s].working)
    IN
    /\ Admit(r)
    /\ \/ ~require_owner(a) /\ Answer(r, 403)
       \/ require_owner(a) /\ ~Visible(a, s) /\ Answer(r, 404)
       \/ /\ require_owner(a) /\ Visible(a, s)
          /\ replay
          /\ Proceed(r, "log", Prepared(t, NoWrites, NULL,
               <<record_audit(r, t, "skill.activation_replayed", current, HashOf(current))>>))
       \/ /\ require_owner(a) /\ Visible(a, s)
          /\ status = "disabled"
          /\ Answer(r, 409)
       \/ /\ require_owner(a) /\ Visible(a, s)
          /\ status = "draft" /\ can_transition(status, "active")
          /\ version_id = NULL
          /\ Proceed(r, "insert", Prepared(t, Activate(r, "active"), v1,
               <<record_audit(r, t, "skill.version_created", r, v1.version_hash),
                 Activation(r, t, r, v1.version_hash)>>))
       \/ /\ require_owner(a) /\ Visible(a, s)
          /\ status \in {"draft", "active"} /\ ~replay
          /\ version_id # NULL
          /\ Proceed(r, "find", t)

(* _get_version_or_404 of an activation: a read of its own, later than the *)
(* read of the skill.                                                      *)
FindVersion_anyskill(r) ==
    LET t == tx[r]
        v == t.version_id
    IN
    /\ pc[r] = "find" /\ versions[v] # NULL
    /\ Proceed(r, "log", Prepared(t,
         Activate(v, IF t.skill.status = "active" THEN NULL ELSE "active"), NULL,
         <<Activation(r, t, v, HashOf(v))>>))

FindVersion(r) ==
    LET t == tx[r]
        v == t.version_id
    IN
    /\ pc[r] = "find"
    /\ \/ v \notin HistoryOf(t.skill_id) /\ Answer(r, 404)
       \/ /\ v \in HistoryOf(t.skill_id)
          /\ Proceed(r, "log", Prepared(t,
               Activate(v, IF t.skill.status = "active" THEN NULL ELSE "active"), NULL,
               <<Activation(r, t, v, HashOf(v))>>))

(* POST /skills/{skill_id}/disable.                                        *)
DisableSkill(r, a, s) ==
    LET t        == Session("disable", a, s)
        current  == skills[s].active_version_id
        disabled == record_audit(r, t, "skill.disabled", current, NULL)
    IN
    /\ Admit(r)
    /\ \/ ~require_owner(a) /\ Answer(r, 403)
       \/ require_owner(a) /\ ~Visible(a, s) /\ Answer(r, 404)
       \/ /\ require_owner(a) /\ Visible(a, s)
          /\ skills[s].status = "disabled"
          /\ Proceed(r, "log", Prepared(t, NoWrites, NULL,
               <<record_audit(r, t, "skill.disable_replayed", current, HashOf(current))>>))
       \/ /\ require_owner(a) /\ Visible(a, s)
          /\ can_transition(skills[s].status, "disabled")
          /\ Proceed(r, "log", Prepared(t, [NoWrites EXCEPT !.status = "disabled"], NULL,
               <<[disabled EXCEPT !.previous_status = skills[s].status]>>))

----------------------------------------------------------------------------
(* The flushes of record_audit date the audit rows.  The last one carries  *)
(* the UPDATE of the skill too, and sends it after the INSERT: mappers     *)
(* that depend on nothing of the flush go by class name, AuditLog before   *)
(* Skill.  The two rows of a first activation are dated in one step, for   *)
(* nothing is read or waited for between them.                             *)
LogAudit(r) ==
    LET t == tx[r] IN
    /\ pc[r] = "log"
    /\ \E now \in Instants :
          /\ Latest(now)
          /\ Proceed(r, IF t.writes = NoWrites THEN "commit" ELSE "update",
                     [t EXCEPT !.log = Dated(t.log, now)])

\* The row lock of q that an UPDATE of r waits for.
HoldsRow(q, r) ==
    /\ pc[q] = "commit"
    /\ tx[q].skill_id = tx[r].skill_id
    /\ tx[q].writes # NoWrites

(* The UPDATE of a flush waits for the row lock of an uncommitted UPDATE.  *)
UpdateSkill(r) ==
    /\ pc[r] = "update"
    /\ \A q \in Requests \ {r} : ~HoldsRow(q, r)
    /\ Proceed(r, "commit", tx[r])

(* COMMIT publishes the transaction.                                       *)
CommitTx(r) ==
    LET t == tx[r] IN
    /\ pc[r] = "commit"
    /\ skills'   = [skills EXCEPT ![t.skill_id] = Merge(@, t.writes)]
    /\ versions' = [versions EXCEPT ![r] = t.version]
    /\ audit'    = audit \o t.log
    /\ committed' = [committed EXCEPT ![r] =
           [skill_id |-> t.skill_id, writes |-> t.writes, version |-> t.version,
            log |-> t.log, at |-> Len(audit)]]
    /\ pc'       = [pc EXCEPT ![r] = "respond"]
    /\ UNCHANGED <<tx, reply>>

(* db.refresh, for which the session takes a connection again, and the     *)
(* response.                                                               *)
Respond(r) ==
    /\ pc[r] = "respond" /\ ~PoolFull
    /\ Answer(r, IF tx[r].op \in {"create", "version"} THEN 201 ELSE 200)

TimeOut_conflict(r) ==
    /\ Arrived(r) \/ pc[r] = "respond"
    /\ PoolFull
    /\ Answer(r, 409)

(* The wait for a connection of a full pool ends after 30 s, at the first  *)
(* statement or, once the transaction is committed, at db.refresh: an      *)
(* exception that nobody catches.                                          *)
TimeOut(r) ==
    /\ Arrived(r) \/ pc[r] = "respond"
    /\ PoolFull
    /\ Answer(r, 500)

(* The worker or its connection dies: the transaction rolls back, unless   *)
(* it was committed, and the client is never told which.                   *)
Lose_norollback(r) ==
    /\ r \in InFlight
    /\ pc' = [pc EXCEPT ![r] = "lost"]
    /\ tx' = [tx EXCEPT ![r] = NULL]
    /\ versions' = [versions EXCEPT ![r] = IF pc[r] = "commit" THEN tx[r].version ELSE @]
    /\ audit' = IF pc[r] = "commit" THEN audit \o tx[r].log ELSE audit
    /\ UNCHANGED <<skills, reply, committed>>

Lose(r) ==
    /\ r \in InFlight
    /\ pc' = [pc EXCEPT ![r] = "lost"]
    /\ tx' = [tx EXCEPT ![r] = NULL]
    /\ UNCHANGED <<skills, versions, audit, reply, committed>>

Terminating == (\A r \in Requests : pc[r] \in {"done", "lost"}) /\ UNCHANGED vars

Receive(r) ==
    \E a \in Memberships :
        \/ \E d \in Definitions : CreateSkillDraft(r, a, d)
        \/ \E s \in Ids(skills, r) :
             \/ \E p \in Patches : UpdateSkillDraft(r, a, s, p)
             \/ \E d \in Definitions : CreateSkillVersion(r, a, s, d)
             \/ \E v \in Ids(versions, r) \union {NULL} : ActivateSkill(r, a, s, v)
             \/ DisableSkill(r, a, s)

Serve(r) ==
    \/ SelectMaxVersion(r)
    \/ InsertVersion(r)
    \/ FindVersion(r)
    \/ LogAudit(r)
    \/ UpdateSkill(r)
    \/ CommitTx(r)
    \/ Respond(r)

Next ==
    \/ \E r \in Requests : Receive(r) \/ Serve(r) \/ TimeOut(r) \/ Lose(r)
    \/ Terminating

Spec == Init /\ [][Next]_vars

\* The event loop and the database serve every request they have accepted;
\* nothing makes requests arrive or fail.
FairSpec == Spec /\ \A r \in Requests : WF_vars(Serve(r))
----------------------------------------------------------------------------
(* Properties.                                                             *)

(* The committed rows, the sessions and the step of every request have the *)
(* types the tables, the ORM objects and the handlers give them.           *)
TypeOK ==
    /\ skills   \in [Requests -> Skill \union {NULL}]
    /\ versions \in [Requests -> SkillVersion \union {NULL}]
    /\ audit    \in Seq(AuditLog)
    /\ pc       \in [Requests -> Steps]
    /\ tx       \in [Requests -> Sessions \union {NULL}]
    /\ reply    \in [Requests -> {200, 201, 403, 404, 409, 500, NULL}]
    /\ committed \in [Requests -> Effects \union {NULL}]

(* max(version_number) + 1 is read in one statement and inserted in        *)
(* another: the versions of a skill are still numbered 1, 2, 3, ... with   *)
(* no number missing and none used twice.                                  *)
ContiguousHistory ==
    \A s \in Requests : \A v \in HistoryOf(s) :
        /\ \A u \in HistoryOf(s) : SameNumber(versions[u], versions[v]) => u = v
        /\ \A k \in 1 .. versions[v].version_number :
              \E u \in HistoryOf(s) : versions[u].version_number = k

(* A draft has no version, an active skill has an active one, and the      *)
(* active version is always a committed version of that very skill and of  *)
(* its organization (active_version_id is no foreign key).                 *)
LifecycleShape ==
    \A s \in Requests : skills[s] # NULL =>
        LET v == skills[s].active_version_id IN
        /\ skills[s].status = "draft"  => HistoryOf(s) = {}
        /\ skills[s].status = "active" => v # NULL
        /\ v # NULL => /\ v \in HistoryOf(s)
                       /\ versions[v].organization_id = skills[s].organization_id

\* The places of a skill's audit rows about these events.
TrailOf(s, events) ==
    {i \in DOMAIN audit : audit[i].skill_id = s /\ audit[i].event \in events}

\* get_skill_audit_trail: ORDER BY created_at.
Before(i, j)   == audit[i].created_at < audit[j].created_at
Last(trail, i) == i \in trail /\ \A j \in trail \ {i} : Before(j, i)

(* The skill.version_created rows of a skill's trail are its versions, by  *)
(* created_at in the order of their numbers, each with the hash of that    *)
(* very snapshot, and no version is missing: the trail alone authenticates *)
(* the history.                                                            *)
TrailNumbersVersions ==
    \A s \in Requests :
        LET trail == TrailOf(s, {"skill.version_created"}) IN
        /\ HistoryOf(s) = {audit[i].version_id : i \in trail}
        /\ \A i \in trail :
             LET v == versions[audit[i].version_id] IN
             /\ audit[i].version_hash =
                  compute_version_hash(v.organization_id, s, v.version_number, v.definition)
             /\ \A j \in trail : Before(i, j) <=>
                  v.version_number < versions[audit[j].version_id].version_number

(* "Complete audit trail": the last skill.activated row of the trail, as   *)
(* the endpoint orders it, names the version the skill runs.               *)
LastActivationRuns ==
    \A s \in Requests : skills[s] # NULL =>
        LET trail == TrailOf(s, {"skill.activated"})
            v     == skills[s].active_version_id
        IN  /\ trail = {} => v = NULL
            /\ \A i \in trail : Last(trail, i) => audit[i].version_id = v

\* The places of the audit rows a request left.
RowsOf(r) == {i \in DOMAIN audit : audit[i].id = r}

\* A request that committed nothing, lost or answered, left no row at all;
\* the rows of one that did are exactly those of its transaction.
EffectsArePublished ==
    \A r \in Requests :
        LET e == committed[r] IN
        /\ e = NULL => RowsOf(r) = {} /\ versions[r] = NULL /\ skills[r] = NULL
        /\ e # NULL =>
             /\ RowsOf(r) = e.at + 1 .. e.at + Len(e.log)
             /\ \A i \in DOMAIN e.log : audit[e.at + i] = e.log[i]
             /\ versions[r] = e.version
             /\ skills[r] # NULL <=> e.skill_id = r

\* The events a transaction recorded are the columns and the version it wrote.
EffectsAreTold ==
    \A r \in Requests : committed[r] # NULL =>
        LET e            == committed[r]
            told(event)  == {i \in DOMAIN e.log : e.log[i].event = event}
            made         == told("skill.version_created")
        IN
        /\ e.version # NULL <=> made # {}
        /\ \A i \in made : e.log[i].version_id = r
                         /\ e.log[i].version_hash = e.version.version_hash
        /\ {e.log[i].version_id : i \in told("skill.activated")}
             = {e.writes.active_version_id} \ {NULL}
        /\ e.writes.status = "disabled" <=> told("skill.disabled") # {}
        /\ DOMAIN e.writes.working # {} =>
             told("skill.draft_created") \union told("skill.draft_updated") # {}

\* The committed requests that wrote a column of s, and the last of such.
Wrote(s)       == {r \in Requests : committed[r] # NULL /\ committed[r].skill_id = s}
SetStatus(s)   == {r \in Wrote(s) : committed[r].writes.status # NULL}
SetActive(s)   == {r \in Wrote(s) : committed[r].writes.active_version_id # NULL}
SetField(s, f) == {r \in Wrote(s) : f \in DOMAIN committed[r].writes.working}
LastOf(set, r) == r \in set /\ \A q \in set : committed[q].at <= committed[r].at

\* Every column of a skill is as the last transaction that wrote it left it.
ColumnsAreLastWritten ==
    \A s \in Requests : skills[s] # NULL =>
        /\ SetActive(s) = {} => skills[s].active_version_id = NULL
        /\ \A r \in Requests :
             LET w == committed[r].writes IN
             /\ LastOf(SetStatus(s), r) => skills[s].status = w.status
             /\ LastOf(SetActive(s), r) => skills[s].active_version_id = w.active_version_id
             /\ \A f \in Fields :
                  LastOf(SetField(s, f), r) => skills[s].working[f] = w.working[f]

(* A request takes effect as a whole or not at all, whatever it was        *)
(* answered and wherever it was lost: its version, its audit rows and its  *)
(* columns of the skill are published together or not, no column is lost   *)
(* to an overlapping request that did not write it, and the audit rows say *)
(* what was written.                                                       *)
AllOrNothing == EffectsArePublished /\ EffectsAreTold /\ ColumnsAreLastWritten

(* What a client may conclude from its answer: 403, 404 and 409 say that   *)
(* nothing was committed, 201 that the new row was.  Only a 500, which a   *)
(* wait for a connection may cause after the commit, leaves it in doubt.   *)
AnswersAreTrue ==
    \A r \in Requests :
        /\ reply[r] \in {403, 404, 409} => committed[r] = NULL
        /\ reply[r] = 201 => /\ committed[r] # NULL
                             /\ skills[r] # NULL \/ versions[r] # NULL

(* Every version and audit row of a skill belongs to the skill's own       *)
(* organization, and no step changes a skill except the commit of a request*)
(* of that organization; one that sets its status or its active version is *)
(* an owner's.                                                             *)
OneTenantPerSkill ==
    /\ \A i \in DOMAIN audit :
          audit[i].organization_id = skills[audit[i].skill_id].organization_id
    /\ \A s \in Requests : \A v \in HistoryOf(s) :
          versions[v].organization_id = skills[s].organization_id

OnlyTenantsWrite ==
    [][\A s \in Requests : skills[s] # NULL /\ skills'[s] # skills[s] =>
         \E r \in Requests :
            /\ pc[r] = "commit" /\ pc'[r] = "respond"
            /\ tx[r].skill_id = s
            /\ tx[r].actor.organization_id = skills[s].organization_id
            /\ skills'[s].status # skills[s].status \/
                skills'[s].active_version_id # skills[s].active_version_id
                  => tx[r].actor.role = "owner"]_vars

(* Read without overlap, the trail of a skill is a chain: each lifecycle   *)
(* row names the status and the active version the row before it left, and *)
(* the last one tells the status of the skill's row.                       *)
StatusAfter == [event \in {"skill.draft_created", "skill.activated", "skill.disabled"} |->
    CASE event = "skill.draft_created" -> "draft"
      [] event = "skill.activated"     -> "active"
      [] event = "skill.disabled"      -> "disabled"]
TrailTellsRow ==
    \A s \in Requests : skills[s] # NULL =>
        LET trail == TrailOf(s, DOMAIN StatusAfter) IN
        /\ trail # {}
        /\ \A i \in trail :
             /\ Last(trail, i) => skills[s].status = StatusAfter[audit[i].event]
             /\ \A j \in trail :
                  Last({k \in trail : Before(k, i)}, j) =>
                    /\ audit[i].previous_status = StatusAfter[audit[j].event]
                    /\ audit[i].event = "skill.activated" =>
                         audit[i].previous_version_id = audit[j].version_id

(* lifecycle.py: "Terminal: a disabled skill can never come back."         *)
DisabledIsTerminal ==
    [][\A s \in Requests :
         skills[s] # NULL /\ skills[s].status = "disabled"
            => skills'[s].status = "disabled"]_vars

(* An activation is safe to send twice: its INSERT of a version is never   *)
(* refused with an IntegrityError.                                         *)
ActivationNeverCollides ==
    [][\A r \in Requests :
         pc[r] = "insert" /\ tx[r].op = "activate" => reply'[r] # 500]_vars

(* Every request the server accepts is sooner or later answered or lost,   *)
(* for good: row locks, index waits and the pool never leave a handler     *)
(* waiting forever.                                                        *)
EveryRequestEnds == \A r \in Requests : <>[](r \notin InFlight)

(* However requests overlap, a skill that comes back from disabled never   *)
(* was active: one with a version stays disabled.                          *)
OnceActiveStaysDisabled ==
    [][\A s \in Requests :
         skills[s] # NULL /\ skills[s].status = "disabled" /\ HistoryOf(s) # {}
            => skills'[s].status = "disabled"]_vars

(* What the handlers implement.  However requests overlap, the versions    *)
(* are an append-only numbered history and a pointer into it; when they do *)
(* not (PoolSize = 1), the rows follow the documented lifecycle.           *)
HistoryView == [v \in Requests |->
    IF versions[v] = NULL THEN NULL
    ELSE [skill |-> versions[v].skill_id, number |-> versions[v].version_number,
          definition |-> versions[v].definition]]

CurrentView == [s \in Requests |->
    IF skills[s] = NULL THEN NULL ELSE skills[s].active_version_id]

RegistryView == [s \in Requests |->
    IF skills[s] = NULL THEN NULL
    ELSE [status |-> skills[s].status, working |-> skills[s].working,
          active |-> skills[s].active_version_id]]

History == INSTANCE VersionHistory
    WITH Skills <- Requests, Versions <- Requests,
         history <- HistoryView, current <- CurrentView

\* None is no snapshot and no entry of the registry.
ASSUME ViewAssumption ==
    /\ NULL \notin History!Snapshots
    /\ NULL \notin [status : SkillStatus, working : Definitions,
                   active : Requests \union {NULL}]

Lifecycle == INSTANCE SkillLifecycle
    WITH Skills <- Requests, Versions <- Requests,
         history <- HistoryView, registry <- RegistryView

ImplementsHistory   == History!Spec
ImplementsLifecycle == Lifecycle!Spec
ImplementsOverlap   == Lifecycle!OverlapSpec
=============================================================================
