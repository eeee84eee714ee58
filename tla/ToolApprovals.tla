--------------------------- MODULE ToolApprovals ---------------------------
(***************************************************************************)
(* approve_tool and get_active_skills_for_department of                    *)
(* app/routers/skills.py: owners grant tools to immutable versions, and a  *)
(* department's agents are given the active skills, each with its active   *)
(* version and the tools granted to it.  Both endpoints are several        *)
(* statements over READ COMMITTED transactions, and the lifecycle handlers *)
(* commit in between: here the steps of SkillLifecycle with the late ones, *)
(* which SkillRegistry is shown to implement.                              *)
(***************************************************************************)
EXTENDS Naturals, Sequences, FiniteSets

CONSTANTS
    Requests,      \* bound: the requests that ever arrive
    Skills, Versions, Departments, Tools,
    Overlap,       \* whether lifecycle requests overlap each other
    NULL

ASSUME OverlapAssumption == Overlap \in BOOLEAN
ASSUME RequestsAssumption == Requests \subseteq Nat

Roles       == {"owner", "member"}
Definitions == [department : Departments, requested_tools : SUBSET Tools]

VARIABLES
    registry,   \* the rows of skills: status, working copy, active version
    history,    \* the rows of skill_versions: skill, number, definition
    approvals,  \* committed rows of tool_approvals, by the request's number
    audit,      \* committed rows of audit_logs about tools, in commit order
    pc,         \* where each request is in its handler
    tx,         \* what it read and what it is going to write
    reply,      \* the status code each request was answered with
    served      \* the payload a runtime selection was answered with

vars == <<registry, history, approvals, audit, pc, tx, reply, served>>

Lifecycle == INSTANCE SkillLifecycle

ToolApproval == [version : Versions, tool : Tools, approved_by : Roles]
AuditLog     == [id : Requests, version : Versions, tool : Tools,
                 event : {"tool.approved", "tool.approval_replayed"}]

\* DepartmentSkillOut: the department is the skill row's.
Payload == [skill : Skills, department : Departments, version : Versions,
            approved_tools : SUBSET Tools]

\* The sessions: the rows of an approval; the skills a selection read, with
\* their pointers, and the versions it found for them.
Granting  == [row : ToolApproval \union {NULL}, log : AuditLog \union {NULL}]
Selecting == [department : Departments,
              pointers : UNION {[S -> Versions \union {NULL}] : S \in SUBSET Skills},
              active_versions : UNION {[S -> Versions] : S \in SUBSET Skills}]

ASSUME NullAssumption ==
    /\ NULL \notin Versions /\ NULL \notin ToolApproval /\ NULL \notin AuditLog
    /\ NULL \notin Granting /\ NULL \notin Selecting
    /\ NULL \notin [skill : Skills, number : Nat \ {0}, definition : Definitions]

Init ==
    /\ Lifecycle!Init
    /\ approvals = [r \in Requests |-> NULL]
    /\ audit     = << >>
    /\ pc        = [r \in Requests |-> "idle"]
    /\ tx        = [r \in Requests |-> NULL]
    /\ reply     = [r \in Requests |-> NULL]
    /\ served    = [r \in Requests |-> NULL]

----------------------------------------------------------------------------
(* Helpers.                                                                *)

Arrive(r) ==
    /\ pc[r] = "idle"
    /\ \A q \in Requests : q < r => pc[q] # "idle"
    /\ UNCHANGED <<registry, history>>

Proceed(r, step, t) ==
    /\ pc' = [pc EXCEPT ![r] = step]
    /\ tx' = [tx EXCEPT ![r] = t]
    /\ UNCHANGED <<approvals, audit, reply, served>>

Answer(r, code) ==
    /\ pc'    = [pc EXCEPT ![r] = "done"]
    /\ tx'    = [tx EXCEPT ![r] = NULL]
    /\ reply' = [reply EXCEPT ![r] = code]

\* It ends without an answer.
Vanish(r) ==
    /\ pc' = [pc EXCEPT ![r] = "lost"]
    /\ tx' = [tx EXCEPT ![r] = NULL]
    /\ UNCHANGED reply

Refuse(r, code) == Answer(r, code) /\ UNCHANGED <<approvals, audit, served>>

Serve(r, payload) ==
    /\ Answer(r, 200)
    /\ served' = [served EXCEPT ![r] = payload]
    /\ UNCHANGED <<approvals, audit>>

Row(r, v, t, event) == [id |-> r, version |-> v, tool |-> t, event |-> event]

Granted(v, t) == \E q \in Requests :
    approvals[q] # NULL /\ approvals[q].version = v /\ approvals[q].tool = t

\* Another transaction has inserted the same row and not ended.
Inserting(r, row) == \E q \in Requests \ {r} :
    /\ pc[q] = "commit" /\ tx[q].row # NULL
    /\ tx[q].row.version = row.version /\ tx[q].row.tool = row.tool

----------------------------------------------------------------------------
(* POST /skills/{s}/versions/{v}/tools/{t}/approve, up to its guards.      *)
ApproveTool(r, role, s, v, t) ==
    LET found     == v \in Lifecycle!SnapshotsOf(s)
        requested == t \in history[v].definition.requested_tools
        row       == [version |-> v, tool |-> t, approved_by |-> role]
    IN
    /\ Arrive(r)
    /\ \/ role # "owner" /\ Refuse(r, 403)
       \/ role = "owner" /\ ~found /\ Refuse(r, 404)
       \/ role = "owner" /\ found /\ ~requested /\ Refuse(r, 422)
       \/ /\ role = "owner" /\ found /\ requested
          /\ Proceed(r, "lookup", [row |-> row, log |-> NULL])

\* Definitions named X_<bug> are X with a plausible bug: each breaks a property.
LookUpApproval_silent(r) ==
    LET row == tx[r].row IN
    /\ pc[r] = "lookup"
    /\ IF Granted(row.version, row.tool)
       THEN Proceed(r, "commit", [row |-> NULL, log |-> NULL])
       ELSE Proceed(r, "insert", tx[r])
    /\ UNCHANGED <<registry, history>>

LookUpApproval_dirty(r) ==
    LET row == tx[r].row
        log == Row(r, row.version, row.tool, "tool.approval_replayed")
    IN
    /\ pc[r] = "lookup"
    /\ IF Granted(row.version, row.tool) \/ Inserting(r, row)
       THEN Proceed(r, "commit", [row |-> NULL, log |-> log])
       ELSE Proceed(r, "insert", tx[r])
    /\ UNCHANGED <<registry, history>>

(* SELECT the approval: a row that is there makes the request a replay.    *)
LookUpApproval(r) ==
    LET row == tx[r].row
        log == Row(r, row.version, row.tool, "tool.approval_replayed")
    IN
    /\ pc[r] = "lookup"
    /\ \/ /\ Granted(row.version, row.tool)
          /\ Proceed(r, "commit", [row |-> NULL, log |-> log])
       \/ /\ ~Granted(row.version, row.tool)
          /\ Proceed(r, "insert", tx[r])
    /\ UNCHANGED <<registry, history>>

InsertApproval_unchecked(r) ==
    LET row == tx[r].row IN
    /\ pc[r] = "insert"
    /\ Proceed(r, "commit",
               [tx[r] EXCEPT !.log = Row(r, row.version, row.tool, "tool.approved")])
    /\ UNCHANGED <<registry, history>>

(* INSERT INTO tool_approvals: waits for an uncommitted row of the same    *)
(* version and tool; a committed one is an IntegrityError nobody catches.  *)
InsertApproval(r) ==
    LET row == tx[r].row IN
    /\ pc[r] = "insert"
    /\ ~Inserting(r, row)
    /\ \/ Granted(row.version, row.tool) /\ Refuse(r, 500)
       \/ /\ ~Granted(row.version, row.tool)
          /\ Proceed(r, "commit",
               [tx[r] EXCEPT !.log = Row(r, row.version, row.tool, "tool.approved")])
    /\ UNCHANGED <<registry, history>>

(* COMMIT publishes the rows.  The refresh after it may wait in vain for a *)
(* connection, a 500, or the worker die: then what was granted is granted, *)
(* and the client does not know it.                                        *)
CommitApproval(r) ==
    /\ pc[r] = "commit"
    /\ approvals' = [approvals EXCEPT ![r] = tx[r].row]
    /\ audit' = Append(audit, tx[r].log)
    /\ \/ Answer(r, 200)
       \/ Answer(r, 500)
       \/ Vanish(r)
    /\ UNCHANGED <<registry, history, served>>

----------------------------------------------------------------------------
(* GET /skills/departments/{d}/active-skills: the rows of the skills.      *)
Selected_anystatus(d) ==
    {s \in Skills : registry[s] # NULL /\ registry[s].working.department = d}
Selected(d) ==
    {s \in Skills : Lifecycle!Is(s, "active") /\ registry[s].working.department = d}

SelectSkills(r, d) ==
    /\ Arrive(r)
    /\ Proceed(r, "load",
         [department |-> d, active_versions |-> [s \in {} |-> NULL],
          pointers |-> [s \in Selected(d) |-> registry[s].active]])

(* The SELECT of selectinload: the versions of the skills, of which each   *)
(* pointer picks one.                                                      *)
LoadVersions(r) ==
    LET p     == tx[r].pointers
        found == {s \in DOMAIN p : p[s] \in Lifecycle!SnapshotsOf(s)}
    IN
    /\ pc[r] = "load"
    /\ \/ found = {} /\ Serve(r, {})
       \/ /\ found # {}
          /\ Proceed(r, "approvals",
               [tx[r] EXCEPT !.active_versions = [s \in found |-> p[s]]])
    /\ UNCHANGED <<registry, history>>

\* The tools a version may use: requested, and approved for it.
approved_tools_ofskill(v) ==
    {t \in history[v].definition.requested_tools :
        \E w \in Lifecycle!SnapshotsOf(history[v].skill) : Granted(w, t)}
approved_tools_latest(v) ==
    {t \in history[v].definition.requested_tools :
        \E q \in Requests :
           /\ approvals[q] # NULL /\ approvals[q].version = v /\ approvals[q].tool = t
           /\ \A p \in Requests :
                 approvals[p] # NULL /\ approvals[p].tool = t => p <= q}
approved_tools(v) ==
    {t \in history[v].definition.requested_tools : Granted(v, t)}

(* The SELECT of the approvals, and the answer.                            *)
SelectApprovals(r) ==
    LET active == tx[r].active_versions IN
    /\ pc[r] = "approvals"
    /\ Serve(r, {[skill |-> s, department |-> tx[r].department, version |-> active[s],
                  approved_tools |-> approved_tools(active[s])] : s \in DOMAIN active})
    /\ UNCHANGED <<registry, history>>

----------------------------------------------------------------------------
(* The worker or its connection dies: the transaction rolls back.          *)
Lose(r) ==
    /\ pc[r] \notin {"idle", "done", "lost"}
    /\ Vanish(r)
    /\ UNCHANGED <<registry, history, approvals, audit, served>>

(* A commit of a lifecycle handler.                                        *)
RegistryCommits ==
    /\ Lifecycle!Next \/ (Overlap /\ Lifecycle!Late)
    /\ UNCHANGED <<approvals, audit, pc, tx, reply, served>>

Request(r) ==
    \/ \E role \in Roles, s \in Skills, v \in Versions, t \in Tools :
          ApproveTool(r, role, s, v, t)
    \/ LookUpApproval(r)
    \/ InsertApproval(r)
    \/ CommitApproval(r)
    \/ \E d \in Departments : SelectSkills(r, d)
    \/ LoadVersions(r)
    \/ SelectApprovals(r)
    \/ Lose(r)

Terminating == (\A r \in Requests : pc[r] \in {"done", "lost"}) /\ UNCHANGED vars

Next == RegistryCommits \/ (\E r \in Requests : Request(r)) \/ Terminating

Spec == Init /\ [][Next]_vars
----------------------------------------------------------------------------
(* The rows and the sessions have the types the tables and the handlers    *)
(* give them; in particular every commit carries its audit row.            *)
TypeOK ==
    /\ registry \in [Skills -> [status : {"draft", "active", "disabled"},
                                working : Definitions,
                                active : Versions \union {NULL}] \union {NULL}]
    /\ history \in [Versions -> [skill : Skills, number : Nat \ {0},
                                 definition : Definitions] \union {NULL}]
    /\ approvals \in [Requests -> ToolApproval \union {NULL}]
    /\ audit     \in Seq(AuditLog)
    /\ pc        \in [Requests -> {"idle", "lookup", "insert", "commit", "load",
                                   "approvals", "done", "lost"}]
    /\ tx        \in [Requests -> Granting \union Selecting \union {NULL}]
    /\ reply     \in [Requests -> {200, 403, 404, 422, 500, NULL}]
    /\ served    \in [Requests -> (SUBSET Payload) \union {NULL}]

(* One approval per version and tool, whichever requests look it up before *)
(* any of them inserts it.                                                 *)
OneApproval ==
    \A q, r \in Requests :
        /\ approvals[q] # NULL /\ approvals[r] # NULL
        /\ approvals[q].version = approvals[r].version
        /\ approvals[q].tool = approvals[r].tool
        => q = r

(* In commit order the trail of a version and tool is one tool.approved    *)
(* row, that of the request that owns the approval, and replays after it;  *)
(* a version and tool without an approval have no row.                     *)
ApprovalTrail ==
    \A v \in Versions, t \in Tools :
        LET trail == {i \in DOMAIN audit : audit[i].version = v /\ audit[i].tool = t} IN
        /\ Granted(v, t) <=> trail # {}
        /\ \A i \in trail :
             IF \A j \in trail : i <= j
             THEN audit[i].event = "tool.approved" /\ approvals[audit[i].id] # NULL
             ELSE audit[i].event = "tool.approval_replayed"

(* Requesting a tool never grants it: whatever is approved or switched     *)
(* while the payload is put together, a tool in it is requested by the very*)
(* version it comes with and an owner approved it for that version.        *)
ToolsAreGranted ==
    \A r \in Requests : served[r] # NULL =>
        \A e \in served[r] :
            /\ e.version \in Lifecycle!SnapshotsOf(e.skill)
            /\ \A t \in e.approved_tools :
                 /\ t \in history[e.version].definition.requested_tools
                 /\ \E q \in Requests :
                      approvals[q] = [version |-> e.version, tool |-> t, approved_by |-> "owner"]

(* The later statements of a selection lose none of the skills the first   *)
(* one found: each is served, with the version it pointed at, although the *)
(* versions and the approvals are read after other commits.                *)
ServesAllSelected ==
    [][\A r \in Requests : served[r] = NULL /\ served'[r] # NULL =>
         /\ {e.skill : e \in served'[r]} = DOMAIN tx[r].pointers
         /\ \A e \in served'[r] : e.version = tx[r].pointers[e.skill]]_vars

(* models.py: "The authoritative runtime definition is always the active   *)
(* SkillVersion snapshot": the department skills are served for is that of *)
(* the version.                                                            *)
RuntimeUsesSnapshot ==
    \A r \in Requests : served[r] # NULL =>
        \A e \in served[r] : e.department = history[e.version].definition.department

(* What the two endpoints implement: grants that are given once, to one    *)
(* version, are never taken back, and reach the agents as they are at the  *)
(* moment of the last statement, whatever commits between the statements.  *)
RequestedView == [v \in Versions |->
    IF history[v] = NULL THEN NULL ELSE history[v].definition.requested_tools]

GrantedView == {<<approvals[q].version, approvals[q].tool>> :
                   q \in {r \in Requests : approvals[r] # NULL}}

OfferedView == [r \in Requests |->
    IF served[r] = NULL THEN NULL
    ELSE {<<e.version, e.approved_tools>> : e \in served[r]}]

\* None is no set of tools and no answer.
ASSUME ViewAssumption ==
    /\ \A tools \in SUBSET Tools : tools # NULL
    /\ \A payload \in SUBSET Payload : payload # NULL
    /\ \A offers \in SUBSET (Versions \X SUBSET Tools) : offers # NULL

Grants == INSTANCE ToolGrants
    WITH Selections <- Requests, requested <- RequestedView,
         granted <- GrantedView, offered <- OfferedView

ImplementsGrants == Grants!Spec
=============================================================================
