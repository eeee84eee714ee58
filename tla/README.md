# JARVIS AI COO skill registry: a TLA+ model

The repository is a multi-tenant FastAPI service over PostgreSQL.  An
organization's members write *skills*; its owners activate and disable them; an
active skill is only changed by adding an immutable, numbered, hashed *version*
and activating it; every step leaves an audit row.  This directory models the
service in TLA+, checks small instances with TLC and proves with TLAPS, for
every instance, every property the passing runs check except the two about
liveness.

## The system

| part | where | state | operations | what is hard | what makes it correct |
|---|---|---|---|---|---|
| skill lifecycle | `app/routers/skills.py`, `app/lifecycle.py` | rows of `skills`, `skill_versions` | create, PATCH, new version, activate, disable | handlers read a row once, check it, and write it statements later, while other requests commit | versions numbered 1, 2, 3...; the active version is one of the skill's own; disabled is terminal; an active skill is not edited |
| audit trail | `app/audit.py` | rows of `audit_logs` | one or two rows per state change or replay; read by page | rows are written by their own flush, read in `created_at` order | every change has its row, and the rows tell what runs |
| tenant isolation, roles | `app/dependencies.py`, `app/tenant.py`, `app/database.py` | `organizations`, `memberships`, a `ContextVar` | resolve a caller; filter every ORM SELECT; `require_owner` | no query names the organization | nobody sees or writes another organization's rows; only owners activate and disable |
| sessions, pool | `app/database.py` | a transaction per request, pooled connections | begin, flush, commit, rollback | locks of uncommitted rows, connections held while waiting, taken again after the commit | every request ends, as a whole or not at all |
| tool approvals | `approve_tool` | rows of `tool_approvals` | approve, replay | look up, then insert | one approval per version and tool, of a requested tool, by an owner |
| runtime selection | `get_active_skills_for_department` | none: three reads | list by department | the reads see different commits | only active skills, their active version, approved tools only |
| list endpoints | `list_skills`, `get_skill_audit_trail`, the runtime selection's pages | none: a count and a page | page by offset | rows commit in another order than they are listed in, and change while a client pages | what a walk may miss or show twice is bounded by what changed under it |
| detail endpoints | `get_skill`, `get_skill_versions` | none | one skill's rows | - | the tenant filter |
| bearer tokens | `app/tokens.py`, `app/routers/auth.py` | none: signed claims | issue, verify | expiry, another signing key, the role looked up later | no role in a token; it works as long as was told |
| rate limiter | `app/ratelimit.py` | a deque of instants per identity | check, retry_after | the window's edges | never more than the limit in a window |
| schema, migrations | `app/models.py`, `alembic/` | tables, constraints, the immutability trigger, `alembic_version` | upgrade, downgrade | every replica migrates when it starts; a death between two scripts | the schema is the recorded revision's |
| seeding | `app/main.py` | `organizations`, `memberships` | insert what is missing at startup | replicas that start together, an administrator's edits | the fixtures exist once; every replica serves |
| payload validation | `app/schemas.py` | none | strip, pattern and catalogue checks | - | text rules, unit tested |
| configuration, containers | `app/config.py`, `Dockerfile`, `docker-compose.yml` | settings, fixed for a process | start, restart | a restart with another key | see tokens and migrations |

Requests reach the handlers through the rate limiter and `get_tenant_context`;
a handler owns one session, so one transaction; handlers meet only in the
database: in rows they read, row locks, unique-index entries and the
connection pool.

## Modules

| module | what it is | proofs |
|---|---|---|
| `SkillRegistry` | the lifecycle handlers over the database | `SkillRegistry_proofs` (the numbering), `SkillRegistryEffects_proofs` (atomicity, answers, tenants, `VersionHistory`; `SkillLifecycle` under overlap), `SkillRegistryTrail_proofs` (the audit trail; `SkillLifecycle` without overlap), each extending the one before |
| `SkillLifecycle`, `VersionHistory` | what that promises: the documented state machine, and the append-only numbered history | |
| `ToolApprovals` | the approval endpoint and the runtime selection, composed with the registry through `SkillLifecycle` | `ToolApprovals_proofs` (the rows, the trail, the payloads; `ToolGrants`) |
| `ToolGrants` | what that promises of tools: granted once and for good, and offered as granted | |
| `RateLimiter` | the middleware's sliding window over a clock | `RateLimiter_proofs` |
| `Access` | a request's identity, membership and role; tokens; restarts with another key | `Access_proofs` |
| `Deployment` | replicas that migrate, seed, serve, die and start again over one database | `Deployment_proofs` |
| `Listing` | a client that walks the pages of a table that grows and changes | `Listing_proofs` |

Each has an `MC` module with its small instances.  The modules meet in the
database: `ToolApprovals` sees the registry through the steps that
`SkillRegistry` is shown to take; `SkillRegistry` and `ToolApprovals` assume of
`Access` a caller with a role that is fixed for the request, and of `Deployment`
the constraints of the schema at head, which is what `ServesSeeded` says of
every replica that serves; `Listing` assumes of the writers only that a row is
flushed, then committed or rolled back, and changes status along the lifecycle
or by the late activation that `disabled_returns` shows.

### How SkillRegistry corresponds to the code

The database runs in PostgreSQL's default READ COMMITTED isolation: a statement
sees the rows committed before it starts.  So a handler is a sequence of steps
and a step is a statement that reads something the other requests can change,
waits, or publishes.

| in the model | in the code |
|---|---|
| `skills`, `versions`, `audit` | committed rows |
| `tx[r]` | the session: the ORM object as it was loaded (`skill`), the columns changed on it (`writes`), the row to insert (`version`), the audit rows (`log`) |
| `pc[r]` | `idle` - not received; `number` - before `max(version_number)`; `find` - before `_get_version_or_404`; `insert` - before the INSERT of the version; `log` - before the INSERT of the audit rows; `update` - before the UPDATE of the skill row; `commit`; `respond` - committed, not answered; `done`; `lost` |
| `CreateSkillDraft`, `UpdateSkillDraft`, `CreateSkillVersion`, `ActivateSkill`, `DisableSkill` | the endpoint up to its first statement that is not its read of the skill: guards, error answers, what it prepares |
| `SelectMaxVersion`, `FindVersion` | the reads that come later |
| `InsertVersion` | the INSERT: waits for an uncommitted row of the same number, fails on a committed one (500: nothing catches the `IntegrityError`) |
| `LogAudit` | the flush of `record_audit`, which dates the audit rows (`created_at`) and sends their INSERT. The UPDATE of the skill is in the same flush and follows it: mappers that depend on nothing are flushed by class name, `AuditLog` before `Skill` |
| `UpdateSkill` | the UPDATE: waits for the row lock of an uncommitted one |
| `CommitTx` | `db.commit()`; the columns of the UPDATE are merged into the newest row, and only attributes whose value changed are columns of it (SQLAlchemy's unit of work): an activation of a skill loaded as active does not write `status` |
| `Connected`, `PoolFull` | a session takes a connection with its first statement, keeps it while it waits for locks, and gives it back when it commits |
| `Respond` | refresh, for which a connection is taken again, and response |
| `TimeOut` | the wait for a connection of a full pool, before the first statement or at the refresh, ends after 30 s: an exception nobody catches, so 500. At the refresh the transaction is committed already, and the client cannot tell |
| `Lose` | the worker or its connection dies at any point: nothing is committed, or all of it was, and the client is not answered |
| `committed` | nothing: a history variable that keeps what each transaction wrote, for `AllOrNothing` and `AnswersAreTrue`; no step reads it |

What is abstracted: ids are numbers - a request creates at most one skill and
one version and its uuids are fresh, so request `r`'s rows have id `r`; a client
sends ids it can know, or one that names nothing (`Ids`).  A definition is a
function from the fields a run needs to values after validation.  The version
hash is a collision-free value of exactly the inputs of `compute_version_hash`.
`Memberships` does not change: no endpoint changes it.  Names, texts,
`created_by` and the timestamps of skills and versions are left out.  `audit` is
in commit order, and each row keeps the `created_at` of its flush, by which
`get_skill_audit_trail` orders the trail (`Before`): a number above that of every
row there is.  That is one clock that never stands still; workers whose clocks
differ can only disorder the trail further.  `_get_version_or_404` with a draft
skill (skills.py:544) is in the model but can never find anything, since a draft
has no versions (`LifecycleShape`): the branch is dead code.

### How ToolApprovals corresponds to the code

| in the model | in the code |
|---|---|
| `RegistryCommits` | a commit of any lifecycle handler: a step of `SkillLifecycle`, or one of its late steps when `Overlap` is TRUE |
| `approvals`, `audit` | committed rows of `tool_approvals`, and of `audit_logs` about tools |
| `ApproveTool` | `approve_tool` up to its guards: role, version of that skill, requested tool |
| `LookUpApproval`, `InsertApproval`, `CommitApproval` | its SELECT, its INSERT (which waits for an uncommitted row with the same version and tool and fails with 500 on a committed one), its commit and what the client hears of it: 200, 500 when the refresh waits in vain for a connection, or nothing (`Vanish`) |
| `SelectSkills`, `LoadVersions`, `SelectApprovals` | the three SELECTs of `get_active_skills_for_department` (skills, `selectinload` of the versions, approvals) and its payload |
| `Lose` | the worker or its connection dies before the commit or the last read |

The composition is by the abstract module: `registry_overlap` checks that
whatever lifecycle requests overlap, every commit of `SkillRegistry` is such a
step (`ImplementsOverlap`), and `ToolApprovals` lets exactly these steps happen
between any two statements.  The four late steps of `SkillLifecycle` are what
stale reads add to the documented lifecycle.  One organization is modelled: the
tenant filter makes each organization a copy.  A definition is a department and
the tools requested; the page cut from the payload and the 422 for a blank
department are left out (the page is in `Listing`).  Of two overlapping approvals of one tool one may be
answered 500, although skills.py:411 calls a repeated approval "a safe,
idempotent no-op (200, state unchanged)"; the rows stay right either way.

### How RateLimiter corresponds to the code

`check` and `retry_after` run without an await in between, so a request is one
step: `Admit` is a `check` that answers True, `Refuse` one that answers False
together with the `retry_after` of the 429 answer.  Each of the two reads
`time.monotonic()` for itself: `Refuse` lets up to `Lag` ticks pass between the
readings.  `Tick` is the clock.  `events` is `_events`; `admitted` (every
instant a request was let through) and `told` (when the last refused client may
come back) only record.  The loop that pops the expired instants is stated by
what it leaves (`Expired`).  `int()` truncates where `\div` rounds down; the
two differ below zero only, where `max(1, ...)` makes both 1.

A key is what `identity_key` returns.  It is `org:user` from the two headers;
callers with a bearer token send neither and share the key of their address,
although config.py:61 speaks of a limit "per authenticated identity".  Which
requests share a key is no part of the model.  Nor is `RATE_LIMIT_PER_MINUTE`
= 0, which switches the limiter off.

### How Access corresponds to the code

| in the model | in the code |
|---|---|
| `HeaderIdentity`, `BearerIdentity` | `get_tenant_context` up to its first statement: the headers, or `verify_token`, which takes precedence and never falls back |
| `NonAsciiBearer` | a bearer token with a character outside ASCII: `encode("ascii")` (tokens.py:84) raises what nobody catches, a 500, unless a missing key has raised a `TokenError` before it |
| `SelectOrganization`, `SelectMembership` | its two `db.get`; the role is the row's, read once and kept |
| `Handle` | any endpoint, an owner's behind `require_owner` |
| `IssueAccessToken` | `POST /auth/token`: ttl 0 is falsy and becomes 3600 (`DefaultTtl`), a ttl over the maximum or negative is a 422, no signing key a 503 |
| `Tick` | `time.time()`, in ticks of which a second has `Resolution`; it never runs backwards |
| `ChangeMembership`, `DeleteOrganization` | an administrator's SQL (no endpoint does it); memberships go with their organization |
| `Restart` | the process stops, losing the requests at work, and starts with the key its environment has then |

A token is its claims, its expiry and the key that signed it, so one nobody
signed verifies under no key: base64, JSON and HMAC are abstracted to that.
`minted`, `expires_in`, `held` and `act` only record.  Three things the model
makes visible and no document rules out: a token can be exchanged for another
before it expires (auth.py:4, auth.py:39 and README.md:167 speak of a caller authenticated
by headers), so a member keeps access without headers as long as the membership
lasts; setting a key back revives its unexpired tokens; and a member who is
demoted while a request runs finishes it in the old role.

### How Deployment corresponds to the code

| in the model | in the code |
|---|---|
| `CHAIN` | the six scripts of `alembic/versions`, each by the objects it creates, those it needs, the table it backfills and what its `downgrade` drops |
| `Start` | the container's command: `alembic upgrade head && uvicorn` reads the revision |
| `RunRevision`, `CommitMigrations` | a script; the commit of all of them (env.py: one `begin_transaction` around `run_migrations`, and DDL is transactional in PostgreSQL) |
| `SelectOrganizations`, `SelectMemberships`, `InsertFixtures`, `CommitFixtures` | `seed_fixture_organizations`: the session has `autoflush=False`, so both SELECTs come before the INSERTs, which wait for another's uncommitted rows and fail on committed ones |
| `WriteVersion` | a request of a serving replica that leaves a row the migrations meet later |
| `Stop`, `Downgrade`, `EditMembership` | operators: a container stopped or dead at any point, `alembic downgrade` with the service down, an administrator's SQL |

A replica that fails a script or an INSERT exits (`Die`) and is started again.
So the seeding is not "idempotent" in the sense that a start always succeeds: of
two replicas that start together over an empty database one may die of an
`IntegrityError`; `EveryReplicaServes` shows that its next start works.  A
fixture member an administrator removed comes back with the next start
(`SeedingOnlyAdds` protects changed roles, not removals).  The trigger of 0006
refuses any UPDATE of a version, so the backfill of 0003 works only because a
downgrade below 0003 has dropped it.

### How Listing corresponds to the code

`Flush` gives a row its `created_at`, `Commit` makes it visible: rows appear in
another order than the one they are listed in.  `ChangeStatus` is the lifecycle
(`TRANSITIONS`) and the late activation of a draft that was disabled meanwhile
(skills.py:599; `OnceActiveStaysDisabled` says that it happens once), so that a
row can leave a filter and match it again.  `list_skills` and
`get_skill_audit_trail` send two statements, `SelectCount` and `SelectPage`;
`get_active_skills_for_department` cuts its page from one read (`CutPage`).
Rows with equal `created_at` are listed in any order (`Orders`), differently on
each page, as SQL allows; the properties speak of rows whose `created_at` no
other committed row has.  The client is external: it begins at offset 0 and stops at the
`X-Total-Count` of the last answer or at the first page that is not full.

## What the runs check

| run | instance | shows |
|---|---|---|
| `registry_race` | 5 requests, 2 connections | `ContiguousHistory`: max + 1 and the unique constraint number the versions without gap or repetition; `LifecycleShape`: the active version is one of the skill's own; `TrailNumbersVersions`: the trail by `created_at` tells the history; `AllOrNothing`: what a transaction wrote is published whole, told by its audit rows and not overwritten by one that wrote other columns, and one that was lost or refused left nothing; `ImplementsHistory`: the registry is a `VersionHistory` |
| `registry_serial` | 4 requests, 1 connection | `TypeOK`; `ImplementsLifecycle`: the handlers are the `SkillLifecycle` state machine; `AnswersAreTrue`: only a 500 or silence leaves a client in doubt; `TrailTellsRow`: the audit rows form a chain of statuses and versions; `LastActivationRuns`, `DisabledIsTerminal`, `ActivationNeverCollides`: what overlap breaks holds without it |
| `registry_overlap` | 4 requests, 2 connections, two organizations, a field that is edited | `OneTenantPerSkill`, `OnlyTenantsWrite`; `ImplementsOverlap`: a commit is a step of `SkillLifecycle` or a late one; `OnceActiveStaysDisabled`: only a skill without a version can come back from disabled; `EveryRequestEnds`, under fairness: no request waits forever for an index entry, a row or a connection |
| `tool_approvals` | 3 approvals or selections among two skills' lifecycles | `TypeOK`; `OneApproval`; `ApprovalTrail`: the audit rows of a version and tool are its approval and then replays; `ToolsAreGranted`: no tool at runtime that was not requested and approved for the served version; `ServesAllSelected`: the later reads lose no skill the first one found; `ImplementsGrants`: the two endpoints are a `ToolGrants`, an answer being what is granted at its last statement |
| `rate_limiter` | 2 identities | `TypeOK`; `NeverOverLimit`: no window, wherever it starts, sees more than the limit; `RefusedOnlyWhenFull`; `RetryAfterIsHonest`: the wait is neither too short nor over a second too long |
| `access` | 2 requests of 2 users, 2 keys | `TypeOK`; `ActsAreBacked`: what a request was let do, its membership row allowed at some moment while it ran; `TokenWorksAsTold`: a token works for `expires_in` seconds and not a second longer, unless the key changes |
| `deployment` | 2 replicas, under fairness | `TypeOK`; `SchemaMatchesRevision`: no script is half applied, or twice, and every version keeps its organization; `ServesSeeded`: requests meet the schema at head and the fixtures; `SeedingOnlyAdds`; `EveryReplicaServes` |
| `listing` | 3 rows, every endpoint, filter and stop rule | `TypeOK`; `NothingSkipped`: a walk that ends at a short page misses at most one row per row that ceased to match, one that ends at the total also one per row that came; `RepeatsArePushed`: it shows rows again at most once per row that came or came back; `PageKeepsPromise`: an unfiltered page is never shorter than its total leaves room for |
| `disabled_returns` | violated | a disabled skill comes back (only one that never was active: `OnceActiveStaysDisabled`) |
| `double_activation` | violated | a repeated activation meets the unique version number and is answered 500 |
| `trail_order` | violated | two switches overlap, and the trail by `created_at` ends with the one that lost |
| `runtime_department` | violated, without overlap | a skill is served to the department of its row, its active version has another |

`disabled_returns` and `double_activation` have one cause: guards are checked on
the row as it was loaded and nothing (no `SELECT ... FOR UPDATE`, no version
column) makes the write fail when the row has changed.  The same stale guards
let an active row be edited (skills.py:291) and a disabled skill gain a version
(skills.py:345); these are the late steps of `SkillLifecycle`, and
`ImplementsOverlap` shows that there is no fifth.  What saves the history all
the same is the unique constraint on `(skill_id, version_number)`, and that is
what `registry_race` and the proofs show.

`trail_order` is another matter.  `record_audit` dates its row and sends its
INSERT before the UPDATE of the same flush waits for the skill's row lock.  So
the switch that is logged second can commit first; the one that waited commits
last and its version runs, while the trail, read by `created_at`
(skills.py:697), ends with the other.  README.md:38 promises a "Complete audit
trail"; no row is missing, but which activation was the last cannot be read off.
`TrailNumbersVersions` survives, because a number is only read after its
predecessor is committed.

**Bounds.** `Requests` (how many requests ever arrive), `PoolSize` (how many
transactions are open at once), `Fields`/`Values` (what can be edited).  Requests arrive in the
order of their numbers, which loses nothing as any request may be any
operation.  Five requests are enough for create, activate, two more versions
and a switch or a disable between them, with any two of them overlapping: a race
needs two actors, and a full pool two as well.  `trail_order` needs six (create,
activate, two versions, two switches to them) and is cut down by
`LastTwoOverlap` to behaviours in which only the last two overlap, which can
hide a violation but not make one.  `registry_race` keeps no field (the content plays no
part in numbering), `registry_serial` and `registry_overlap` one with two
values, so that an edit changes something.  Without overlap four requests reach
every status and a switch back; four also suffice for two tenants: two skills,
an activation and an attempt across.  `tool_approvals` has three requests (a race of two
approvals and a third that repeats one, or a selection between them), two
skills and two versions, so that both can belong to one skill or one to each,
and one tool: a tool never interacts with another.  Three runs have a `VIEW`,
which merges states that differ in what no step and no property of the run
reads (but for `TypeOK`, of its type): whether a request that is over was answered, and with what, the session
of one that has committed, and, in `registry_overlap`, `committed`.
`rate_limiter` has two requests to a window
of three half-second ticks, and `Horizon` = 8: more than two whole windows, so
an instant is recorded, expires, and its successors expire too; the window is
no whole number of seconds, so that rounding matters, and `Lag` = 1.
`access` needs two requests: one that gets a token and one that bears it, of two
users so that one can act for neither; half-second ticks up to 5 reach past the
last second of a token minted at 1, and the ttls are 0 (taken for the default)
and 2 (over the maximum).  `deployment` has two replicas (a script or an INSERT
is contended by two), two organizations with a member each, one version, and as
many stops, downgrades and edits (`MaxStops` 3, `MaxDowngrades` 2, `MaxEdits` 2)
as it takes to die in a migration and in a seeding, to downgrade below 0003 and
again, and to remove a member and add it back.  `listing` has three rows, pages
of one or two and three instants: a late commit can fall before, on or behind
the offset.  Keys and rows are symmetric sets there.

**Fairness.** `WF_vars(Serve(r))` for each request: the event loop resumes a
handler whose statement can complete, and PostgreSQL grants a lock whose holder
has finished.  Nothing is assumed of arrivals and failures.  Weak fairness is
enough because a lock is only waited for while its holder runs, and a holder
waits for nobody in a circle: index entries come before row locks in every
handler, and who waits for a connection holds no lock.  Were it kept after the
commit, `EveryRequestEnds` would fail: requests that have committed would wait
for connections only they hold.

`Deployment` assumes `WF(Run(r))`: a process goes on, and PostgreSQL grants a
lock whose holder is gone; and `WF(Start(r))`: whoever runs the containers
starts one that is down.  docker-compose.yml has no `restart:`, so the second is
the operator's, not the code's.  Stops, downgrades and edits are bounded and
need not happen.

## What is proved

Each theorem holds for every value of the constants.  The assumptions are those
the modules state: requests are naturals, the pool is not empty, memberships
are pairs of an organization and a role, a table lists finitely many rows, the
default ttl is at least 1 and at
most the maximum, the fixtures' members are of fixture organizations, and
`NULL` is none of the values it stands beside, an entry of the abstract
modules included (`ViewAssumption`).  The five theorems about a single
connection assume `PoolSize = 1` in their statement.

None of the invariants is inductive, because what a commit does depends on what
its session read earlier.  The strengthenings say what the sessions know.

**The registry.**  `IInv` (`SkillRegistry_proofs`) proves `TypeCorrect`,
`HistoryIsContiguous` and `LifecycleIsSound`.  `RowsSound`: only received
requests own rows, only committed ones own a version, and a version's skill
exists, in the same organization.  `SessionSound(r)`, for a request at work: its
skill exists, in the organization it loaded; it never writes the status draft,
and writes active only together with a pointer; the pointer is a committed
version of the skill or the row it inserts itself; all numbers below the one it
inserts are committed already (versions never go away, so this stays true); if
it does not make the skill active itself, the skill has left draft (no
statement returns to it).  Past `InsertVersion` the number is committed by
nobody and inserted by no other session past it: that is the unique index, and
it is what the commit needs to keep `ContiguousHistory`.

`EInv` (`SkillRegistryEffects_proofs`) adds what a session is going to publish
and log (`SessionTraced`, `Recorded`), whose the committed audit rows are
(`AuditSound`) and what an answer tells of the rows (`AnswersSound`).  From it:
`TenantsStayApart` (`OneTenantPerSkill`), the action property
`TenantsWriteAlone` (`OnlyTenantsWrite`), and the refinement `RegistryIsAHistory`
(`ImplementsHistory`): a commit is a `Publish`, a `Launch`, a `Select` or a
stutter.  `CInv` adds what is remembered of each commit (`committed`): its rows
lie together in the trail, its version is there, and each column is as the last
transaction that wrote it left it.  A commit appends its rows behind all others
and is the newest writer of what it writes (`NewestIsLast`), which is
`RequestsAreAtomic` (`AllOrNothing`).  `AnswersAreBelieved` (`AnswersAreTrue`)
follows, because every committed transaction has an audit row and a refused
request has none.

`OInv` (in the same module) adds the shape of a transaction: an edit,
a disable, a switch, a first activation, or a version of a skill that has some
already.  `CommitKinds` says what each does to the views, and with it every
commit is one of the lifecycle's steps or of its late ones:
`CommitsAreLifecycleSteps` (`ImplementsOverlap`).  A first activation that was
read from a draft cannot commit on an active skill: the active one has version
1, and the index refuses another.  For the same reason
`UsedSkillsStayDisabled` (`OnceActiveStaysDisabled`): an activation with a stale
guard can undo a disable, but only of a skill that has no version yet.

`TrailInv` (`SkillRegistryTrail_proofs`) adds, for each kind of transaction, what
its audit rows say of what it writes (`SessionTells`), and, of one that has
flushed a version's audit row, that the row is dated after every committed one
of that skill's versions (`Fresher`).  This survives other commits because only
one transaction at a time can have inserted a version of a skill
(`OneVersionAtATime`): it carries the number after the last committed one, which
the index gives to one only.  So `TrailNumbers` (`TrailNumbersVersions`) holds
with any overlap.  Activations of existing versions have nothing like it, which
is why `LastActivationRuns` is false under overlap.

`SerialInv` adds that with one connection one request is at work, and that what
it loaded is still what is committed.  From it `TrailReplaysRows`
(`TrailTellsRow`), `TrailNamesWhatRuns` (`LastActivationRuns`) and the refinement
`HandlersAreTheLifecycle` (`ImplementsLifecycle`): with nothing stale no late
step is ever taken.  `TrailNamesWhatRuns`, `DisabledNeedsOverlap`
(`DisabledIsTerminal`) and `CollisionsNeedOverlap` (`ActivationNeverCollides`)
prove of one connection what `trail_order`, `disabled_returns` and
`double_activation` refute of two: overlap is the cause, and the only one.  The
last needs to know which statement an activation can be at (`InsertSound`).

**Tool approvals.**  `AInv` proves `ApprovalTypes`, `ApprovedOnce`
(`OneApproval`) and `OnlyGrantedTools` (`ToolsAreGranted`).  It says what the
sessions hold: a row to insert is an owner's, of a tool its version requests
(`Rightful`); past the INSERT nobody has committed it and no other session holds
it (`IndexUnique`); the versions a selection found belong to their skills.  All
of it stays true under `RegistryCommits` because a version never changes
(`RegistryKeeps`), which is where the argument leans on the lifecycle.  `TInv`
adds what a session logs and gives `TrailTellsApprovals` (`ApprovalTrail`);
`SInv` adds that an active skill's pointer names one of its own versions, which
is what the lifecycle's steps, late ones too, keep, and gives
`SelectionsAreServed` (`ServesAllSelected`).

The refinement `SelectionsOfferGrants` (`ImplementsGrants`) maps a version to the
tools it requests, a committed approval to a grant, and an answer to its versions
with their tools.  ADR-4's "requesting never grants" becomes: a grant names a
version that is published and requests the tool, is given once and never taken
back, and an answer gives each version all that is granted to it at one moment,
no less and no more.  `ToolsAreGranted` alone would let an answer leave tools
out.  Step by step: a lifecycle commit publishes a version or nothing
(`RegistryPublishes`), a commit of `approve_tool` grants unless it is a replay
(`CommitGrants`), and the last statement of a selection offers (`ServeOffers`);
the versions it read a statement earlier cannot have changed.  The order in which
versions are published and switched is free in `ToolGrants`: that is
`SkillLifecycle`'s part.

**The rate limiter.**  `LimiterTypes`, `NeverOverTheLimit`, `RetryAfterHonest`
and the action property `RefusedOnlyFull`.  `NeverOverLimit` speaks of
admissions the limiter has forgotten, so `LInv` adds `Recorded`: a deque is the
tail of its key's admissions, and what was popped is at least a window old.  A
new admission then has fewer than `Limit` others in its window
(`AdmitNeverOver`).  A refusal pops nothing, since a deque never holds more than
`Limit` instants (`RefuseFacts`); what it tells the client is arithmetic
(`Wait`).

**Access.**  `AccessTypes`, `ActsWereBacked` (`ActsAreBacked`) and
`TokensWorkAsTold`.  A role that was read is among the roles its row had since
the request arrived; a token's expiry is the second it was minted in plus what
the client was told, between 1 and the maximum.  The rest is the arithmetic of
two roundings down.

**Deployment.**  `DeploymentTypes`, `SchemaStaysWhole`
(`SchemaMatchesRevision`), `ServesWhenSeeded` (`ServesSeeded`) and
`SeedingAddsOnly`.  `DInv` says that a transaction that has run scripts read the
revision that is committed and is the only one; that the fixtures a seeding did
not find it will insert; and that past its INSERT the rows it holds are missing
from the committed ones.

**Listing.**  `ListingTypes`, `WalkMissesFew` (`NothingSkipped`),
`WalkRepeatsFew` (`RepeatsArePushed`) and the action property `PagesKeepPromise`
(`PageKeepsPromise`).  A page is cut from a permutation of the matching rows,
any one that `created_at` allows.  A row whose `created_at` is its own has the
same place in all of them: the number of matching rows listed before it
(`RankIsIndex`), so a page shows it exactly when that place lies in the page
(`PageShows`).  A commit moves every place by at most one, forward when a row
appears and back when one ceases to match (`PlacesMove`).  `WInv` counts the rows
a walk is about to get wrong: `Missed`, steady rows not yet shown whose place is
before the offset, are no more than the rows that left, since only a departure
moves a place back across the offset (`MissedStep`); those shown already whose
place is at the offset or after it, `Again`, together with the repeats so far
are no more than the rows that came (`AgainStep`).  A row that matches again
after it was shown may be one of these itself; it then stands at the offset or
behind it and moves no row from before the offset across (`OnlyBehind`).  Where the walk ends at a
short page every matching row has its place before the end of that page; where
it ends at a total counted before the page was read, all but as many as came
(`CountSound`).

## Checked by TLC only

`EveryRequestEnds` and `EveryReplicaServes`: liveness under fairness and ENABLED
are out of this prover's reach.  Their counterexamples are circles of waiting
and states that no start leaves; of the second `SchemaStaysWhole` proves that a
start never finds half a schema.  The four violated runs are counterexamples on
one instance and need no proof.

## Not modelled

- **Payload validation** (`app/schemas.py`): stripping, patterns, lengths and the
  tool catalogue are functions of one string or list each, without state, and
  their unit tests state them value by value.  Their outcome, the set of
  payloads a handler can receive, is in the models.
- **`get_skill`, `get_skill_versions`**: one skill's rows in one read, behind the
  same tenant filter as every handler of `SkillRegistry`; nothing depends on
  them.
- **The SQLite branches** of the migrations and of `config.py`: the tests use
  them, the service does not.
- **Settings** other than the signing key, and the health endpoint: constants of
  a process.
- **`Dockerfile`, `docker-compose.yml`** beyond the command and the missing
  `restart:`, the CI workflow and the build files: no state of the service.
- **Names, texts, the timestamps of skills and versions (but for the order of
  lists), `created_by`, formatting and logging**: no property is about them.
- **Clocks that step back**: `time.time()` could; the token properties speak of
  one that does not.
