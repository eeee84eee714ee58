------------------------ MODULE ToolApprovals_proofs ------------------------
(***************************************************************************)
(* Proofs about ToolApprovals, for any number of requests, skills,         *)
(* versions, departments and tools, whether lifecycle requests overlap or  *)
(* not.                                                                    *)
(***************************************************************************)
EXTENDS ToolApprovals, TLAPS

(* A row that may be committed: an owner's, of a tool its version requests.*)
Rightful(row) ==
    /\ row \in ToolApproval
    /\ history[row.version] # NULL
    /\ row.tool \in history[row.version].definition.requested_tools
    /\ row.approved_by = "owner"

(* What a session holds before, and after, its INSERT.                     *)
GrantSound(r) ==
    /\ pc[r] \in {"lookup", "insert"} =>
         tx[r] \in Granting /\ tx[r].row # NULL /\ Rightful(tx[r].row)
    /\ pc[r] = "commit" =>
         /\ tx[r] \in Granting /\ tx[r].log # NULL
         /\ tx[r].row # NULL =>
              Rightful(tx[r].row) /\ ~Granted(tx[r].row.version, tx[r].row.tool)

(* What a selection holds between its statements.                          *)
SelectSound(r) ==
    /\ pc[r] \in {"load", "approvals"} => tx[r] \in Selecting
    /\ pc[r] = "approvals" =>
         \A s \in DOMAIN tx[r].active_versions :
            tx[r].active_versions[s] \in Lifecycle!SnapshotsOf(s)

(* The unique index: uncommitted rows differ.                              *)
IndexUnique ==
    \A q, r \in Requests :
        /\ pc[q] = "commit" /\ pc[r] = "commit"
        /\ tx[q].row # NULL /\ tx[r].row # NULL
        /\ tx[q].row.version = tx[r].row.version
        /\ tx[q].row.tool = tx[r].row.tool
        => q = r

Committed ==
    \A r \in Requests :
        approvals[r] # NULL => pc[r] \in {"done", "lost"} /\ Rightful(approvals[r])

AInv ==
    /\ TypeOK
    /\ \A r \in Requests : GrantSound(r) /\ SelectSound(r)
    /\ IndexUnique
    /\ Committed
    /\ OneApproval
    /\ ToolsAreGranted

RegistryTypes ==
    /\ registry \in [Skills -> [status : {"draft", "active", "disabled"},
                                working : Definitions,
                                active : Versions \union {NULL}] \union {NULL}]
    /\ history \in [Versions -> [skill : Skills, number : Nat \ {0},
                                 definition : Definitions] \union {NULL}]

(* A snapshot is a new row; the rows that are there stay as they are.      *)
LEMMA SnapshotKeeps ==
    ASSUME RegistryTypes, NULL \notin Versions,
           NEW s \in Skills, NEW v \in Versions, NEW n \in Nat \ {0}, NEW d \in Definitions,
           Lifecycle!Snapshot(s, v, n, d)
    PROVE  /\ history' \in [Versions -> [skill : Skills, number : Nat \ {0},
                                         definition : Definitions] \union {NULL}]
           /\ \A w \in Versions : history[w] # NULL => history'[w] = history[w]
BY DEF RegistryTypes, Lifecycle!Snapshot

(* Lifecycle requests keep the types and never touch a version again.      *)
LEMMA RegistryKeeps ==
    ASSUME RegistryTypes, RegistryCommits
    PROVE  /\ RegistryTypes'
           /\ \A w \in Versions : history[w] # NULL => history'[w] = history[w]
<1> USE DEF Lifecycle!Is
<1>1. PICK s \in Skills :
        \/ \E d \in Definitions : Lifecycle!CreateDraft(s, d) \/ Lifecycle!EditDraft(s, d)
                                  \/ Lifecycle!LateEdit(s, d)
        \/ \E v \in Versions : Lifecycle!Activate(s, v) \/ Lifecycle!Switch(s, v)
                               \/ Lifecycle!LateSwitch(s, v)
        \/ \E v \in Versions, d \in Definitions :
              Lifecycle!AddVersion(s, v, d) \/ Lifecycle!LateActivate(s, v, d)
              \/ Lifecycle!LateVersion(s, v, d)
        \/ Lifecycle!Disable(s)
  BY DEF RegistryCommits, Lifecycle!Next, Lifecycle!Late
<1>2. CASE \E d \in Definitions : Lifecycle!CreateDraft(s, d) \/ Lifecycle!EditDraft(s, d)
                                  \/ Lifecycle!LateEdit(s, d)
  BY <1>2 DEF RegistryTypes, Lifecycle!CreateDraft, Lifecycle!EditDraft, Lifecycle!LateEdit
<1>3. CASE Lifecycle!Disable(s)
  BY <1>3 DEF RegistryTypes, Lifecycle!Disable
<1>4. ASSUME NEW v \in Versions, Lifecycle!Switch(s, v) \/ Lifecycle!LateSwitch(s, v)
      PROVE  /\ RegistryTypes'
             /\ \A w \in Versions : history[w] # NULL => history'[w] = history[w]
  BY <1>4 DEF RegistryTypes, Lifecycle!Switch, Lifecycle!LateSwitch
<1>5. ASSUME NEW v \in Versions, Lifecycle!Activate(s, v)
      PROVE  /\ RegistryTypes'
             /\ \A w \in Versions : history[w] # NULL => history'[w] = history[w]
  <2>1. PICK d \in Definitions :
        /\ registry[s] # NULL
        /\ Lifecycle!Snapshot(s, v, 1, d)
        /\ registry' = [registry EXCEPT ![s].status = "active", ![s].active = v]
    BY <1>5 DEF RegistryTypes, Lifecycle!Activate
  <2>2. 1 \in Nat \ {0}
    OBVIOUS
  <2> QED
    BY <2>1, <2>2, SnapshotKeeps, NullAssumption DEF RegistryTypes
<1>6. ASSUME NEW v \in Versions, NEW d \in Definitions, Lifecycle!LateActivate(s, v, d)
      PROVE  /\ RegistryTypes'
             /\ \A w \in Versions : history[w] # NULL => history'[w] = history[w]
  <2>0. Lifecycle!Is(s, "draft") \/ Lifecycle!Is(s, "disabled")
    BY <1>6 DEF Lifecycle!LateActivate
  <2>1. /\ registry[s] # NULL
        /\ Lifecycle!Snapshot(s, v, 1, d)
        /\ registry' = [registry EXCEPT ![s].status = "active", ![s].active = v]
    BY <1>6, <2>0, Zenon DEF Lifecycle!LateActivate
  <2>2. 1 \in Nat \ {0}
    OBVIOUS
  <2> QED
    BY <2>1, <2>2, SnapshotKeeps, NullAssumption DEF RegistryTypes
<1>7. ASSUME NEW v \in Versions, NEW d \in Definitions,
             Lifecycle!AddVersion(s, v, d) \/ Lifecycle!LateVersion(s, v, d)
      PROVE  /\ RegistryTypes'
             /\ \A w \in Versions : history[w] # NULL => history'[w] = history[w]
  <2>1. \A m \in Lifecycle!NumbersOf(s) : m \in Nat
    BY DEF RegistryTypes, Lifecycle!NumbersOf, Lifecycle!SnapshotsOf
  <2>2. PICK n \in Nat : Lifecycle!Snapshot(s, v, n + 1, d) /\ registry' = registry
    BY <1>7, <2>1 DEF Lifecycle!AddVersion, Lifecycle!LateVersion
  <2>3. n + 1 \in Nat \ {0}
    OBVIOUS
  <2> QED
    BY <2>2, <2>3, SnapshotKeeps, NullAssumption DEF RegistryTypes
<1> QED
  BY <1>1, <1>2, <1>3, <1>4, <1>5, <1>6, <1>7

(* A rightful row stays so: nobody changes or deletes its version.         *)
LEMMA RightfulStays ==
    ASSUME NEW row, Rightful(row),
           \A w \in Versions : history[w] # NULL => history'[w] = history[w]
    PROVE  /\ row \in ToolApproval /\ row.approved_by = "owner"
           /\ history'[row.version] # NULL
           /\ row.tool \in history'[row.version].definition.requested_tools
BY DEF Rightful, ToolApproval

Steps == {"idle", "lookup", "insert", "commit", "load", "approvals", "done", "lost"}

(* A step of one session that writes no row; it may serve a payload.       *)
LEMMA MoveServing ==
    ASSUME AInv, NEW r \in Requests, pc[r] \notin {"done", "lost"}, NEW step \in Steps,
           NEW t \in Granting \union Selecting \union {NULL},
           registry' = registry, history' = history, approvals' = approvals,
           audit' = audit, ToolsAreGranted',
           served' \in [Requests -> (SUBSET Payload) \union {NULL}],
           reply' \in [Requests -> {200, 403, 404, 422, 500, NULL}],
           pc' = [pc EXCEPT ![r] = step], tx' = [tx EXCEPT ![r] = t],
           step \in {"lookup", "insert"} =>
             t \in Granting /\ t.row # NULL /\ Rightful(t.row),
           step = "commit" =>
             /\ t \in Granting /\ t.log # NULL
             /\ t.row # NULL => /\ Rightful(t.row) /\ ~Granted(t.row.version, t.row.tool)
                                /\ ~Inserting(r, t.row),
           step \in {"load", "approvals"} => t \in Selecting,
           step = "approvals" =>
             \A s \in DOMAIN t.active_versions :
                t.active_versions[s] \in Lifecycle!SnapshotsOf(s)
    PROVE  AInv'
<1>1. TypeOK /\ pc \in [Requests -> Steps] /\ pc'[r] = step /\ tx'[r] = t
  BY DEF AInv, TypeOK, Steps
<1>2. TypeOK'
  BY <1>1 DEF TypeOK, Steps
<1>3. ASSUME NEW q \in Requests, q # r PROVE pc'[q] = pc[q] /\ tx'[q] = tx[q]
  BY <1>3, <1>1 DEF TypeOK
<1>4. ASSUME NEW q \in Requests PROVE GrantSound(q)' /\ SelectSound(q)'
  <2>1. CASE q = r
    BY <1>1, <2>1 DEF GrantSound, SelectSound, Granted, Rightful, Lifecycle!SnapshotsOf
  <2>2. CASE q # r
    <3>1. GrantSound(q) /\ SelectSound(q) /\ pc'[q] = pc[q] /\ tx'[q] = tx[q]
      BY <1>3, <2>2 DEF AInv
    <3> QED
      BY <3>1 DEF GrantSound, SelectSound, Granted, Rightful, Lifecycle!SnapshotsOf
  <2> QED
    BY <2>1, <2>2
<1>5. IndexUnique'
  <2> SUFFICES ASSUME NEW p \in Requests, NEW q \in Requests, p # q,
                      pc'[p] = "commit", pc'[q] = "commit",
                      tx'[p].row # NULL, tx'[q].row # NULL,
                      tx'[p].row.version = tx'[q].row.version,
                      tx'[p].row.tool = tx'[q].row.tool
               PROVE  FALSE
    BY DEF IndexUnique
  <2>1. CASE p = r
    BY <1>1, <1>3, <2>1 DEF Inserting
  <2>2. CASE q = r
    BY <1>1, <1>3, <2>2 DEF Inserting
  <2>3. CASE p # r /\ q # r
    BY <1>3, <2>3 DEF AInv, IndexUnique
  <2> QED
    BY <2>1, <2>2, <2>3
<1>6. Committed'
  BY <1>1, <1>3 DEF AInv, Committed, Rightful
<1>7. OneApproval'
  BY DEF AInv, OneApproval
<1> QED
  BY <1>2, <1>4, <1>5, <1>6, <1>7 DEF AInv

(* The same of one that serves nothing.                                    *)
LEMMA Move ==
    ASSUME AInv, NEW r \in Requests, pc[r] \notin {"done", "lost"}, NEW step \in Steps,
           NEW t \in Granting \union Selecting \union {NULL},
           registry' = registry, history' = history, approvals' = approvals,
           audit' = audit, served' = served,
           reply' \in [Requests -> {200, 403, 404, 422, 500, NULL}],
           pc' = [pc EXCEPT ![r] = step], tx' = [tx EXCEPT ![r] = t],
           step \in {"lookup", "insert"} =>
             t \in Granting /\ t.row # NULL /\ Rightful(t.row),
           step = "commit" =>
             /\ t \in Granting /\ t.log # NULL
             /\ t.row # NULL => /\ Rightful(t.row) /\ ~Granted(t.row.version, t.row.tool)
                                /\ ~Inserting(r, t.row),
           step \in {"load", "approvals"} => t \in Selecting,
           step = "approvals" =>
             \A s \in DOMAIN t.active_versions :
                t.active_versions[s] \in Lifecycle!SnapshotsOf(s)
    PROVE  AInv'
<1>1. ToolsAreGranted'
  BY DEF AInv, ToolsAreGranted, Lifecycle!SnapshotsOf
<1>2. served' \in [Requests -> (SUBSET Payload) \union {NULL}]
  BY DEF AInv, TypeOK
<1> QED
  BY <1>1, <1>2, MoveServing

(* An error answer, and a lost request.                                    *)
LEMMA Ending ==
    ASSUME AInv, NEW r \in Requests, pc[r] \notin {"done", "lost"},
           registry' = registry, history' = history,
           (\E code \in {403, 404, 422, 500} : Refuse(r, code)) \/ Lose(r)
    PROVE  AInv'
<1>1. reply \in [Requests -> {200, 403, 404, 422, 500, NULL}]
  BY DEF AInv, TypeOK
<1>2. CASE \E code \in {403, 404, 422, 500} : Refuse(r, code)
  <2>1. /\ approvals' = approvals /\ audit' = audit /\ served' = served
        /\ pc' = [pc EXCEPT ![r] = "done"] /\ tx' = [tx EXCEPT ![r] = NULL]
        /\ reply' \in [Requests -> {200, 403, 404, 422, 500, NULL}]
    BY <1>1, <1>2 DEF Refuse, Answer
  <2> QED
    BY <2>1, Move DEF Steps
<1>3. CASE Lose(r)
  <2>1. /\ approvals' = approvals /\ audit' = audit /\ served' = served
        /\ pc' = [pc EXCEPT ![r] = "lost"] /\ tx' = [tx EXCEPT ![r] = NULL]
        /\ reply' \in [Requests -> {200, 403, 404, 422, 500, NULL}]
    BY <1>1, <1>3 DEF Lose, Vanish
  <2>2. /\ "lost" \in Steps
        /\ "lost" \notin {"lookup", "insert", "commit", "load", "approvals"}
    BY DEF Steps
  <2> QED
    BY <2>1, <2>2, Move
<1> QED
  BY <1>2, <1>3

(* What Proceed leaves alone.                                              *)
LEMMA ProceedFacts ==
    ASSUME AInv, NEW r \in Requests, NEW step, NEW t, Proceed(r, step, t)
    PROVE  /\ approvals' = approvals /\ audit' = audit /\ served' = served
           /\ pc' = [pc EXCEPT ![r] = step] /\ tx' = [tx EXCEPT ![r] = t]
           /\ reply' \in [Requests -> {200, 403, 404, 422, 500, NULL}]
BY DEF Proceed, AInv, TypeOK

(* An approval request passes its guards: the row it holds is rightful.    *)
LEMMA ApproveStep ==
    ASSUME AInv, NEW r \in Requests, NEW role \in Roles, NEW s \in Skills,
           NEW v \in Versions, NEW t \in Tools, ApproveTool(r, role, s, v, t)
    PROVE  AInv'
<1> DEFINE row == [version |-> v, tool |-> t, approved_by |-> role]
           session == [row |-> row, log |-> NULL]
<1>1. pc[r] = "idle" /\ registry' = registry /\ history' = history
  BY DEF ApproveTool, Arrive
<1>2. CASE \E code \in {403, 404, 422, 500} : Refuse(r, code)
  BY <1>1, <1>2, Ending
<1>3. CASE /\ role = "owner" /\ v \in Lifecycle!SnapshotsOf(s)
           /\ t \in history[v].definition.requested_tools
           /\ Proceed(r, "lookup", session)
  <2>1. /\ approvals' = approvals /\ audit' = audit /\ served' = served
        /\ pc' = [pc EXCEPT ![r] = "lookup"] /\ tx' = [tx EXCEPT ![r] = session]
        /\ reply' \in [Requests -> {200, 403, 404, 422, 500, NULL}]
    BY <1>3, ProceedFacts
  <2>2. row \in ToolApproval /\ row # NULL /\ session \in Granting /\ session.row = row
    BY NullAssumption DEF ToolApproval, Roles, Granting
  <2>3. Rightful(row)
    BY <1>3, <2>2 DEF Rightful, Lifecycle!SnapshotsOf
  <2>4. "lookup" \in Steps /\ "lookup" \notin {"commit", "load", "approvals"}
    BY DEF Steps
  <2> HIDE DEF row, session
  <2> QED
    BY <1>1, <2>1, <2>2, <2>3, <2>4, Move
<1> QED
  BY <1>2, <1>3 DEF ApproveTool

(* The look-up: what it does not find, it goes on to insert.               *)
LEMMA LookUpStep ==
    ASSUME AInv, NEW r \in Requests, LookUpApproval(r)
    PROVE  AInv'
<1> DEFINE row == tx[r].row
           log == Row(r, row.version, row.tool, "tool.approval_replayed")
           session == [row |-> NULL, log |-> log]
<1>1. pc[r] = "lookup" /\ registry' = registry /\ history' = history
  BY DEF LookUpApproval
<1>2. tx[r] \in Granting /\ row # NULL /\ Rightful(row) /\ row \in ToolApproval
  BY <1>1 DEF AInv, GrantSound, Rightful
<1>3. CASE Proceed(r, "commit", session)
  <2>1. /\ approvals' = approvals /\ audit' = audit /\ served' = served
        /\ pc' = [pc EXCEPT ![r] = "commit"] /\ tx' = [tx EXCEPT ![r] = session]
        /\ reply' \in [Requests -> {200, 403, 404, 422, 500, NULL}]
    BY <1>3, ProceedFacts
  <2>2. log \in AuditLog /\ log # NULL
    BY <1>2, NullAssumption DEF Row, AuditLog, ToolApproval
  <2>3. session \in Granting /\ session.row = NULL /\ session.log # NULL
    BY <2>2 DEF Granting
  <2>4. "commit" \in Steps /\ "commit" \notin {"lookup", "insert", "load", "approvals"}
    BY DEF Steps
  <2> HIDE DEF row, session, log
  <2> QED
    BY <1>1, <2>1, <2>3, <2>4, Move
<1>4. CASE Proceed(r, "insert", tx[r])
  <2>1. /\ approvals' = approvals /\ audit' = audit /\ served' = served
        /\ pc' = [pc EXCEPT ![r] = "insert"] /\ tx' = [tx EXCEPT ![r] = tx[r]]
        /\ reply' \in [Requests -> {200, 403, 404, 422, 500, NULL}]
    BY <1>4, ProceedFacts
  <2>2. "insert" \in Steps /\ "insert" \notin {"commit", "load", "approvals"}
    BY DEF Steps
  <2> QED
    BY <1>1, <1>2, <2>1, <2>2, Move
<1> QED
  BY <1>3, <1>4 DEF LookUpApproval

(* The INSERT: no committed row is like it, and no uncommitted one.        *)
LEMMA InsertStep ==
    ASSUME AInv, NEW r \in Requests, InsertApproval(r)
    PROVE  AInv'
<1> DEFINE row == tx[r].row
           log == Row(r, row.version, row.tool, "tool.approved")
           session == [tx[r] EXCEPT !.log = log]
<1>1. pc[r] = "insert" /\ registry' = registry /\ history' = history /\ ~Inserting(r, row)
  BY DEF InsertApproval
<1>2. tx[r] \in Granting /\ row # NULL /\ Rightful(row) /\ row \in ToolApproval
  BY <1>1 DEF AInv, GrantSound, Rightful
<1>3. CASE Refuse(r, 500)
  BY <1>1, <1>3, Ending
<1>4. CASE ~Granted(row.version, row.tool) /\ Proceed(r, "commit", session)
  <2>1. /\ approvals' = approvals /\ audit' = audit /\ served' = served
        /\ pc' = [pc EXCEPT ![r] = "commit"] /\ tx' = [tx EXCEPT ![r] = session]
        /\ reply' \in [Requests -> {200, 403, 404, 422, 500, NULL}]
    BY <1>4, ProceedFacts
  <2>2. log \in AuditLog /\ log # NULL
    BY <1>2, NullAssumption DEF Row, AuditLog, ToolApproval
  <2>3. session \in Granting /\ session.row = row /\ session.log # NULL
    BY <1>2, <2>2 DEF Granting
  <2>4. "commit" \in Steps /\ "commit" \notin {"lookup", "insert", "load", "approvals"}
    BY DEF Steps
  <2> HIDE DEF session, log
  <2> QED
    BY <1>1, <1>2, <1>4, <2>1, <2>3, <2>4, Move
<1> QED
  BY <1>3, <1>4 DEF InsertApproval

(* The COMMIT: the row it publishes is no other's.                         *)
LEMMA CommitStep ==
    ASSUME AInv, NEW r \in Requests, CommitApproval(r)
    PROVE  AInv'
<1> DEFINE row == tx[r].row
<1>1. /\ pc[r] = "commit" /\ registry' = registry /\ history' = history /\ served' = served
      /\ approvals' = [approvals EXCEPT ![r] = row]
      /\ audit' = Append(audit, tx[r].log)
      /\ tx' = [tx EXCEPT ![r] = NULL]
      /\ pc' = [pc EXCEPT ![r] = "done"] \/ pc' = [pc EXCEPT ![r] = "lost"]
      /\ \/ reply' = reply
         \/ reply' = [reply EXCEPT ![r] = 200]
         \/ reply' = [reply EXCEPT ![r] = 500]
  BY DEF CommitApproval, Answer, Vanish
<1>2. /\ TypeOK /\ IndexUnique /\ Committed /\ OneApproval /\ ToolsAreGranted
      /\ tx[r] \in Granting /\ row \in ToolApproval \union {NULL} /\ tx[r].log \in AuditLog
      /\ row # NULL => Rightful(row) /\ ~Granted(row.version, row.tool)
  BY <1>1 DEF AInv, GrantSound, Granting
<1>3. approvals[r] = NULL
  BY <1>1, <1>2 DEF Committed
<1>4. /\ approvals'[r] = row /\ pc'[r] \in {"done", "lost"} /\ tx'[r] = NULL
      /\ \A q \in Requests : q # r =>
           approvals'[q] = approvals[q] /\ pc'[q] = pc[q] /\ tx'[q] = tx[q]
  BY <1>1, <1>2 DEF TypeOK
<1> HIDE DEF row
<1>5. TypeOK'
  <2>1. audit' \in Seq(AuditLog)
    BY <1>1, <1>2 DEF TypeOK
  <2>2. reply' \in [Requests -> {200, 403, 404, 422, 500, NULL}]
    <3>1. reply \in [Requests -> {200, 403, 404, 422, 500, NULL}]
      BY <1>2 DEF TypeOK
    <3>2. CASE reply' = reply
      BY <3>1, <3>2
    <3>3. CASE reply' = [reply EXCEPT ![r] = 200]
      BY <3>1, <3>3
    <3>4. CASE reply' = [reply EXCEPT ![r] = 500]
      BY <3>1, <3>4
    <3> QED
      BY <1>1, <3>2, <3>3, <3>4
  <2> QED
    BY <1>1, <1>2, <2>1, <2>2 DEF TypeOK
<1>6. ASSUME NEW q \in Requests PROVE GrantSound(q)' /\ SelectSound(q)'
  <2>1. CASE q = r
    BY <1>4, <2>1 DEF GrantSound, SelectSound
  <2>2. CASE q # r
    <3>1. GrantSound(q) /\ SelectSound(q) /\ pc'[q] = pc[q] /\ tx'[q] = tx[q]
      BY <1>4, <2>2 DEF AInv
    <3>2. SelectSound(q)'
      BY <1>1, <3>1 DEF SelectSound, Lifecycle!SnapshotsOf
    <3>3. ASSUME pc[q] = "commit", tx[q].row # NULL
          PROVE  ~Granted(tx[q].row.version, tx[q].row.tool)'
      <4>1. ~Granted(tx[q].row.version, tx[q].row.tool)
        BY <3>1, <3>3 DEF GrantSound
      <4>2. row = NULL \/ row.version # tx[q].row.version \/ row.tool # tx[q].row.tool
        BY <1>1, <1>2, <2>2, <3>3 DEF IndexUnique, row
      <4> QED
        BY <1>4, <3>1, <4>1, <4>2 DEF Granted
    <3> QED
      BY <1>1, <3>1, <3>2, <3>3 DEF GrantSound, Rightful
  <2> QED
    BY <2>1, <2>2
<1>7. IndexUnique'
  BY <1>2, <1>4 DEF IndexUnique
<1>8. Committed'
  BY <1>1, <1>2, <1>4 DEF Committed, Rightful
<1>9. OneApproval'
  BY <1>2, <1>4 DEF OneApproval, Granted
<1>10. ToolsAreGranted'
  <2> SUFFICES ASSUME NEW q \in Requests, served[q] # NULL, NEW e \in served[q]
               PROVE  /\ e.version \in Lifecycle!SnapshotsOf(e.skill)
                      /\ \A t \in e.approved_tools :
                           /\ t \in history[e.version].definition.requested_tools
                           /\ \E p \in Requests : approvals'[p] =
                                [version |-> e.version, tool |-> t, approved_by |-> "owner"]
    BY <1>1 DEF ToolsAreGranted, Lifecycle!SnapshotsOf
  <2>1. e.version \in Lifecycle!SnapshotsOf(e.skill) /\ e \in Payload
    BY <1>2 DEF ToolsAreGranted, TypeOK
  <2>2. ASSUME NEW t \in e.approved_tools
        PROVE  /\ t \in history[e.version].definition.requested_tools
               /\ \E p \in Requests : approvals'[p] =
                    [version |-> e.version, tool |-> t, approved_by |-> "owner"]
    <3>1. PICK p \in Requests :
            /\ t \in history[e.version].definition.requested_tools
            /\ approvals[p] = [version |-> e.version, tool |-> t, approved_by |-> "owner"]
      BY <1>2 DEF ToolsAreGranted
    <3>2. approvals[p] \in ToolApproval
      BY <2>1, <3>1 DEF Payload, ToolApproval, Roles
    <3>3. p # r
      BY <1>3, <3>2, NullAssumption
    <3> QED
      BY <1>4, <3>1, <3>3
  <2> QED
    BY <2>1, <2>2
<1> QED
  BY <1>5, <1>6, <1>7, <1>8, <1>9, <1>10 DEF AInv

(* The first statement of a selection.                                     *)
LEMMA SelectSkillsStep ==
    ASSUME AInv, NEW r \in Requests, NEW d \in Departments, SelectSkills(r, d)
    PROVE  AInv'
<1> DEFINE pointers == [s \in Selected(d) |-> registry[s].active]
           none == [s \in {} |-> NULL]
           session == [department |-> d, active_versions |-> none, pointers |-> pointers]
<1>1. pc[r] = "idle" /\ registry' = registry /\ history' = history
  BY DEF SelectSkills, Arrive
<1>2. Proceed(r, "load", session)
  BY DEF SelectSkills
<1>3. /\ approvals' = approvals /\ audit' = audit /\ served' = served
      /\ pc' = [pc EXCEPT ![r] = "load"] /\ tx' = [tx EXCEPT ![r] = session]
      /\ reply' \in [Requests -> {200, 403, 404, 422, 500, NULL}]
  BY <1>2, ProceedFacts
<1>4. /\ Selected(d) \in SUBSET Skills
      /\ \A s \in Selected(d) : registry[s].active \in Versions \union {NULL}
  BY DEF AInv, TypeOK, Selected, Lifecycle!Is
<1>5. pointers \in [Selected(d) -> Versions \union {NULL}]
  BY <1>4
<1>6. none \in [{} -> Versions] /\ {} \in SUBSET Skills
  OBVIOUS
<1> HIDE DEF pointers, none
<1>7. session \in Selecting
  BY <1>4, <1>5, <1>6 DEF Selecting
<1>8. "load" \in Steps /\ "load" \notin {"lookup", "insert", "commit", "approvals"}
  BY DEF Steps
<1> HIDE DEF session
<1> QED
  BY <1>1, <1>3, <1>7, <1>8, Move

(* An answer whose tools are all requested and approved.                   *)
LEMMA ServeStep ==
    ASSUME AInv, NEW r \in Requests, pc[r] \notin {"done", "lost"},
           registry' = registry, history' = history,
           NEW payload \in SUBSET Payload, Serve(r, payload),
           \A e \in payload :
              /\ e.version \in Lifecycle!SnapshotsOf(e.skill)
              /\ \A t \in e.approved_tools :
                   /\ t \in history[e.version].definition.requested_tools
                   /\ Granted(e.version, t)
    PROVE  AInv'
<1>1. /\ approvals' = approvals /\ audit' = audit
      /\ pc' = [pc EXCEPT ![r] = "done"] /\ tx' = [tx EXCEPT ![r] = NULL]
      /\ served' = [served EXCEPT ![r] = payload]
      /\ reply' = [reply EXCEPT ![r] = 200]
  BY DEF Serve, Answer
<1>2. TypeOK /\ Committed /\ ToolsAreGranted
  BY DEF AInv
<1>3. /\ served' \in [Requests -> (SUBSET Payload) \union {NULL}]
      /\ reply' \in [Requests -> {200, 403, 404, 422, 500, NULL}]
  BY <1>1, <1>2 DEF TypeOK
<1>4. /\ served'[r] = payload
      /\ \A q \in Requests : q # r => served'[q] = served[q]
  BY <1>1, <1>2 DEF TypeOK
<1>5. ASSUME NEW v \in Versions, NEW t \in Tools, Granted(v, t)
      PROVE  \E q \in Requests :
               approvals[q] = [version |-> v, tool |-> t, approved_by |-> "owner"]
  <2>1. PICK q \in Requests :
          approvals[q] # NULL /\ approvals[q].version = v /\ approvals[q].tool = t
    BY <1>5 DEF Granted
  <2>2. approvals[q] \in ToolApproval /\ approvals[q].approved_by = "owner"
    BY <1>2, <2>1 DEF Committed, Rightful
  <2> QED
    BY <2>1, <2>2 DEF ToolApproval
<1>6. ToolsAreGranted'
  <2> SUFFICES ASSUME NEW q \in Requests, served'[q] # NULL, NEW e \in served'[q]
               PROVE  /\ e.version \in Lifecycle!SnapshotsOf(e.skill)
                      /\ \A t \in e.approved_tools :
                           /\ t \in history[e.version].definition.requested_tools
                           /\ \E p \in Requests : approvals[p] =
                                [version |-> e.version, tool |-> t, approved_by |-> "owner"]
    BY <1>1 DEF ToolsAreGranted, Lifecycle!SnapshotsOf
  <2>1. CASE q = r
    <3>1. e \in payload /\ e \in Payload
      BY <1>4, <2>1
    <3>2. e.version \in Versions /\ \A t \in e.approved_tools : t \in Tools
      BY <3>1 DEF Payload
    <3> QED
      BY <1>5, <3>1, <3>2
  <2>2. CASE q # r
    BY <1>2, <1>4, <2>2 DEF ToolsAreGranted
  <2> QED
    BY <2>1, <2>2
<1>7. "done" \in Steps /\ "done" \notin {"lookup", "insert", "commit", "load", "approvals"}
  BY DEF Steps
<1> QED
  BY <1>1, <1>3, <1>6, <1>7, MoveServing

(* The second statement of a selection.                                    *)
LEMMA LoadStep ==
    ASSUME AInv, NEW r \in Requests, LoadVersions(r)
    PROVE  AInv'
<1> DEFINE p     == tx[r].pointers
           found == {s \in DOMAIN p : p[s] \in Lifecycle!SnapshotsOf(s)}
           chosen == [s \in found |-> p[s]]
           session == [tx[r] EXCEPT !.active_versions = chosen]
<1>1. pc[r] = "load" /\ registry' = registry /\ history' = history
  BY DEF LoadVersions
<1>2. tx[r] \in Selecting
  BY <1>1 DEF AInv, SelectSound
<1>3. CASE Serve(r, {})
  BY <1>1, <1>3, ServeStep
<1>4. CASE Proceed(r, "approvals", session)
  <2>1. /\ approvals' = approvals /\ audit' = audit /\ served' = served
        /\ pc' = [pc EXCEPT ![r] = "approvals"] /\ tx' = [tx EXCEPT ![r] = session]
        /\ reply' \in [Requests -> {200, 403, 404, 422, 500, NULL}]
    BY <1>4, ProceedFacts
  <2>2. DOMAIN p \in SUBSET Skills
    BY <1>2 DEF Selecting
  <2>3. found \in SUBSET Skills /\ \A s \in found : p[s] \in Versions
    BY <2>2 DEF Lifecycle!SnapshotsOf
  <2>4. chosen \in [found -> Versions]
    BY <2>3
  <2>5. \A s \in DOMAIN chosen : chosen[s] \in Lifecycle!SnapshotsOf(s)
    OBVIOUS
  <2> HIDE DEF chosen, found, p
  <2>6. session \in Selecting /\ session.active_versions = chosen
    BY <1>2, <2>3, <2>4 DEF Selecting
  <2>7. "approvals" \in Steps /\ "approvals" \notin {"lookup", "insert", "commit"}
    BY DEF Steps
  <2> HIDE DEF session
  <2> QED
    BY <1>1, <2>1, <2>5, <2>6, <2>7, Move
<1> QED
  BY <1>3, <1>4 DEF LoadVersions

(* The last statement of a selection, and its answer.                      *)
LEMMA SelectApprovalsStep ==
    ASSUME AInv, NEW r \in Requests, SelectApprovals(r)
    PROVE  AInv'
<1> DEFINE active == tx[r].active_versions
           payload == {[skill |-> s, department |-> tx[r].department,
                        version |-> active[s], approved_tools |-> approved_tools(active[s])]
                         : s \in DOMAIN active}
<1>1. /\ pc[r] = "approvals" /\ registry' = registry /\ history' = history
      /\ Serve(r, payload)
  BY DEF SelectApprovals
<1>2. /\ tx[r] \in Selecting /\ history \in [Versions -> [skill : Skills, number : Nat \ {0},
                                 definition : Definitions] \union {NULL}]
      /\ \A s \in DOMAIN active : active[s] \in Lifecycle!SnapshotsOf(s)
  BY <1>1 DEF AInv, SelectSound, TypeOK
<1>3. tx[r].department \in Departments /\ DOMAIN active \in SUBSET Skills
  BY <1>2 DEF Selecting
<1> HIDE DEF active
<1>4. ASSUME NEW s \in DOMAIN active
      PROVE  /\ active[s] \in Versions
             /\ approved_tools(active[s]) \in SUBSET Tools
  BY <1>2 DEF Lifecycle!SnapshotsOf, approved_tools, Definitions
<1>5. payload \in SUBSET Payload
  BY <1>3, <1>4 DEF Payload
<1>6. \A e \in payload :
              /\ e.version \in Lifecycle!SnapshotsOf(e.skill)
              /\ \A t \in e.approved_tools :
                   /\ t \in history[e.version].definition.requested_tools
                   /\ Granted(e.version, t)
  BY <1>2 DEF approved_tools
<1> HIDE DEF payload
<1> QED
  BY <1>1, <1>5, <1>6, ServeStep

(* Lifecycle requests: versions only come, and what was rightful stays so. *)
LEMMA RegistryStep ==
    ASSUME AInv, RegistryCommits
    PROVE  AInv'
<1>1. /\ approvals' = approvals /\ audit' = audit /\ pc' = pc /\ tx' = tx
      /\ reply' = reply /\ served' = served
  BY DEF RegistryCommits
<1>2. /\ RegistryTypes'
      /\ \A w \in Versions : history[w] # NULL => history'[w] = history[w]
  BY RegistryKeeps DEF AInv, TypeOK, RegistryTypes
<1>3. TypeOK'
  BY <1>1, <1>2 DEF AInv, TypeOK, RegistryTypes
<1>4. ASSUME NEW row, Rightful(row) PROVE Rightful(row)'
  BY <1>2, <1>4 DEF Rightful, ToolApproval
<1>5. ASSUME NEW s, NEW v \in Lifecycle!SnapshotsOf(s) PROVE v \in Lifecycle!SnapshotsOf(s)'
  BY <1>2 DEF Lifecycle!SnapshotsOf
<1>6. ASSUME NEW q \in Requests PROVE GrantSound(q)' /\ SelectSound(q)'
  <2>1. GrantSound(q) /\ SelectSound(q)
    BY DEF AInv
  <2>2. GrantSound(q)'
    BY <1>1, <1>4, <2>1 DEF GrantSound, Granted
  <2>3. SelectSound(q)'
    BY <1>1, <1>5, <2>1 DEF SelectSound
  <2> QED
    BY <2>2, <2>3
<1>7. IndexUnique' /\ OneApproval'
  BY <1>1 DEF AInv, IndexUnique, OneApproval
<1>8. Committed'
  BY <1>1, <1>4 DEF AInv, Committed
<1>9. ToolsAreGranted'
  BY <1>1, <1>2 DEF AInv, ToolsAreGranted, Lifecycle!SnapshotsOf
<1> QED
  BY <1>3, <1>6, <1>7, <1>8, <1>9 DEF AInv

(* Nothing is there at start.                                              *)
LEMMA AtStart == Init => AInv
<1> SUFFICES ASSUME Init PROVE AInv
  OBVIOUS
<1> USE DEF Init, Lifecycle!Init
<1>1. TypeOK
  BY DEF TypeOK
<1>2. \A r \in Requests : GrantSound(r) /\ SelectSound(r)
  BY DEF GrantSound, SelectSound
<1>3. IndexUnique /\ Committed /\ OneApproval /\ ToolsAreGranted
  BY DEF IndexUnique, Committed, OneApproval, ToolsAreGranted
<1> QED
  BY <1>1, <1>2, <1>3 DEF AInv

(* Every step keeps the invariant.                                         *)
LEMMA EveryStep == AInv /\ [Next]_vars => AInv'
<1> SUFFICES ASSUME AInv, [Next]_vars PROVE AInv'
  OBVIOUS
<1>1. CASE RegistryCommits
  BY <1>1, RegistryStep
<1>2. ASSUME NEW r \in Requests, Request(r) PROVE AInv'
  <2>1. CASE Lose(r)
    BY <2>1, Ending DEF Lose
  <2>2. CASE LookUpApproval(r) \/ InsertApproval(r) \/ CommitApproval(r)
    BY <2>2, LookUpStep, InsertStep, CommitStep
  <2>3. CASE LoadVersions(r) \/ SelectApprovals(r)
    BY <2>3, LoadStep, SelectApprovalsStep
  <2>4. ASSUME NEW d \in Departments, SelectSkills(r, d) PROVE AInv'
    BY <2>4, SelectSkillsStep
  <2>5. ASSUME NEW role \in Roles, NEW s \in Skills, NEW v \in Versions, NEW t \in Tools,
               ApproveTool(r, role, s, v, t)
        PROVE  AInv'
    BY <2>5, ApproveStep
  <2> QED
    BY <1>2, <2>1, <2>2, <2>3, <2>4, <2>5 DEF Request
<1>3. CASE UNCHANGED vars
  <2>1. AInv /\ UNCHANGED vars
    BY <1>3
  <2> QED
    BY <2>1 DEF vars, AInv, TypeOK, GrantSound, SelectSound, Granted, Rightful,
                IndexUnique, Committed, OneApproval, ToolsAreGranted, Lifecycle!SnapshotsOf
<1> QED
  BY <1>1, <1>2, <1>3 DEF Next, Terminating

(* In every state of the approvals.                                        *)
LEMMA ApprovalsInvariant == Spec => []AInv
BY AtStart, EveryStep, PTL DEF Spec

(* approve_tool: a version and tool are approved at most once, whatever    *)
(* requests look the approval up before one of them inserts it.            *)
THEOREM ApprovedOnce == Spec => []OneApproval
<1>1. AInv => OneApproval
  BY DEF AInv
<1> QED
  BY <1>1, ApprovalsInvariant, PTL

(* get_active_skills_for_department: no tool is ever served that an owner  *)
(* did not approve for the served version.                                 *)
THEOREM OnlyGrantedTools == Spec => []ToolsAreGranted
<1>1. AInv => ToolsAreGranted
  BY DEF AInv
<1> QED
  BY <1>1, ApprovalsInvariant, PTL

(* The rows, the sessions and the payloads have their types.               *)
THEOREM ApprovalTypes == Spec => []TypeOK
<1>1. AInv => TypeOK
  BY DEF AInv
<1> QED
  BY <1>1, ApprovalsInvariant, PTL

----------------------------------------------------------------------------
(* The audit rows of an approval.                                          *)

(* The audit row a session is going to commit: the approval's, or a replay *)
(* of one that is there already.                                           *)
Logging(r) ==
    pc[r] = "commit" =>
        LET row == tx[r].row
            log == tx[r].log
        IN
        /\ row # NULL => log = Row(r, row.version, row.tool, "tool.approved")
        /\ row = NULL => /\ log.event = "tool.approval_replayed"
                         /\ Granted(log.version, log.tool)

TInv ==
    /\ AInv
    /\ \A r \in Requests : Logging(r)
    /\ ApprovalTrail

LEMMA GrantedSame ==
    ASSUME approvals' = approvals, NEW v, NEW t
    PROVE  Granted(v, t)' <=> Granted(v, t)
BY DEF Granted

\* Steps that commit no approval.
LEMMA SameTrail ==
    ASSUME TInv, AInv', approvals' = approvals, audit' = audit,
           \A r \in Requests : pc'[r] = "commit" =>
              \/ pc[r] = "commit" /\ tx'[r] = tx[r]
              \/ Logging(r)'
    PROVE  TInv'
<1>1. ASSUME NEW r \in Requests PROVE Logging(r)'
  BY <1>1, GrantedSame DEF TInv, Logging
<1>2. ApprovalTrail'
  BY GrantedSame DEF TInv, ApprovalTrail
<1> QED
  BY <1>1, <1>2 DEF TInv

LEMMA ProceedLogs ==
    ASSUME TInv, AInv', NEW r \in Requests, NEW step, NEW t, Proceed(r, step, t),
           step = "commit" => Logging(r)'
    PROVE  TInv'
<1>1. /\ approvals' = approvals /\ audit' = audit /\ pc'[r] = step
      /\ \A q \in Requests \ {r} : pc'[q] = pc[q] /\ tx'[q] = tx[q]
  BY DEF Proceed, TInv, AInv, TypeOK
<1> QED
  BY <1>1, SameTrail

LEMMA EndLogs ==
    ASSUME TInv, AInv', NEW r \in Requests, NEW step, step # "commit",
           approvals' = approvals, audit' = audit,
           pc' = [pc EXCEPT ![r] = step], tx' = [tx EXCEPT ![r] = NULL]
    PROVE  TInv'
<1>1. /\ pc'[r] = step
      /\ \A q \in Requests \ {r} : pc'[q] = pc[q] /\ tx'[q] = tx[q]
  BY DEF TInv, AInv, TypeOK
<1> QED
  BY <1>1, SameTrail

LEMMA AnswerLogs ==
    ASSUME TInv, AInv', NEW r \in Requests, NEW code, Answer(r, code),
           approvals' = approvals, audit' = audit
    PROVE  TInv'
<1>1. /\ pc' = [pc EXCEPT ![r] = "done"] /\ tx' = [tx EXCEPT ![r] = NULL]
      /\ "done" # "commit"
  BY DEF Answer
<1> QED
  BY <1>1, EndLogs

LEMMA LookUpLogs ==
    ASSUME TInv, AInv', NEW r \in Requests, LookUpApproval(r)
    PROVE  TInv'
<1> DEFINE row == tx[r].row
           log == Row(r, row.version, row.tool, "tool.approval_replayed")
           replay == [row |-> NULL, log |-> log]
<1>1. CASE Granted(row.version, row.tool) /\ Proceed(r, "commit", replay)
  <2>1. tx'[r] = replay /\ approvals' = approvals
    BY <1>1 DEF Proceed, TInv, AInv, TypeOK
  <2>2. PICK v, t : v = row.version /\ t = row.tool
    OBVIOUS
  <2>3. /\ tx'[r].row = NULL /\ tx'[r].log.event = "tool.approval_replayed"
        /\ tx'[r].log.version = v /\ tx'[r].log.tool = t
    BY <2>1, <2>2 DEF Row
  <2>4. Granted(v, t)'
    BY <1>1, <2>1, <2>2, GrantedSame
  <2>5. Logging(r)'
    BY <2>3, <2>4 DEF Logging, Granted
  <2> QED
    BY <1>1, <2>5, ProceedLogs
<1>2. CASE Proceed(r, "insert", tx[r])
  BY <1>2, ProceedLogs
<1> QED
  BY <1>1, <1>2 DEF LookUpApproval

LEMMA InsertLogs ==
    ASSUME TInv, AInv', NEW r \in Requests, InsertApproval(r)
    PROVE  TInv'
<1> DEFINE row == tx[r].row
           log == Row(r, row.version, row.tool, "tool.approved")
           open == [tx[r] EXCEPT !.log = log]
<1>1. pc[r] = "insert" /\ tx[r] \in Granting /\ row # NULL
  BY DEF InsertApproval, TInv, AInv, GrantSound
<1>2. CASE Refuse(r, 500)
  BY <1>2, AnswerLogs DEF Refuse
<1>3. CASE Proceed(r, "commit", open)
  <2>1. tx'[r] = open
    BY <1>3 DEF Proceed, TInv, AInv, TypeOK
  <2>2. open.row = row /\ open.log = log
    BY <1>1 DEF Granting
  <2> HIDE DEF open
  <2>3. Logging(r)'
    BY <1>1, <2>1, <2>2 DEF Logging, Row
  <2> QED
    BY <1>3, <2>3, ProceedLogs
<1> QED
  BY <1>2, <1>3 DEF InsertApproval

\* The trail of a version and tool after a commit.
LEMMA CommitLogs ==
    ASSUME TInv, AInv', NEW r \in Requests, CommitApproval(r)
    PROVE  TInv'
<1> DEFINE row == tx[r].row
           log == tx[r].log
           n   == Len(audit) + 1
<1>1. /\ pc[r] = "commit" /\ tx[r] \in Granting /\ log \in AuditLog
      /\ approvals[r] = NULL
      /\ row # NULL => row \in ToolApproval /\ ~Granted(row.version, row.tool)
      /\ Logging(r) /\ audit \in Seq(AuditLog)
  <2>1. pc[r] = "commit" /\ tx[r] \in Granting /\ log # NULL
    BY DEF CommitApproval, TInv, AInv, GrantSound
  <2>2. log \in AuditLog
    BY <2>1 DEF Granting
  <2> QED
    BY <2>1, <2>2 DEF TInv, AInv, GrantSound, Committed, Rightful, TypeOK
<1>2. /\ approvals'[r] = row /\ audit' = Append(audit, log) /\ pc'[r] \in {"done", "lost"}
      /\ \A q \in Requests \ {r} :
            approvals'[q] = approvals[q] /\ pc'[q] = pc[q] /\ tx'[q] = tx[q]
  BY DEF CommitApproval, Answer, Vanish, TInv, AInv, TypeOK
<1>3. /\ DOMAIN audit' = DOMAIN audit \union {n} /\ n \notin DOMAIN audit
      /\ audit'[n] = log
      /\ \A i \in DOMAIN audit : audit'[i] = audit[i] /\ i < n /\ ~(n <= i)
  BY <1>1, <1>2
<1>4. ASSUME NEW v, NEW t
      PROVE  Granted(v, t)' <=> \/ Granted(v, t)
                                \/ row # NULL /\ row.version = v /\ row.tool = t
  BY <1>1, <1>2 DEF Granted
<1>5. /\ row # NULL => /\ log.version = row.version /\ log.tool = row.tool
                       /\ log.event = "tool.approved" /\ log.id = r
      /\ row = NULL => /\ log.event = "tool.approval_replayed"
                       /\ Granted(log.version, log.tool)
  BY <1>1 DEF Logging, Row
<1> HIDE DEF row, log, n
<1>6. ASSUME NEW q \in Requests PROVE Logging(q)'
  <2>1. CASE q = r
    BY <1>2, <2>1 DEF Logging
  <2>2. CASE q # r
    <3>1. Logging(q) /\ pc'[q] = pc[q] /\ tx'[q] = tx[q]
      BY <1>2, <2>2 DEF TInv
    <3> QED
      BY <1>4, <3>1 DEF Logging
  <2> QED
    BY <2>1, <2>2
<1>7. ASSUME NEW v \in Versions, NEW t \in Tools
      PROVE  LET trail == {i \in DOMAIN audit : audit[i].version = v /\ audit[i].tool = t} IN
             (/\ Granted(v, t) <=> trail # {}
              /\ \A i \in trail :
                   IF \A j \in trail : i <= j
                   THEN audit[i].event = "tool.approved" /\ approvals[audit[i].id] # NULL
                   ELSE audit[i].event = "tool.approval_replayed")'
  <2> DEFINE Of(e)   == e.version = v /\ e.tool = t
             before  == {i \in DOMAIN audit : Of(audit[i])}
             after   == {i \in DOMAIN audit' : Of(audit'[i])}
  <2>1. /\ Granted(v, t) <=> before # {}
        /\ \A i \in before :
             IF \A j \in before : i <= j
             THEN audit[i].event = "tool.approved" /\ approvals[audit[i].id] # NULL
             ELSE audit[i].event = "tool.approval_replayed"
    BY DEF TInv, ApprovalTrail
  <2>2. after = before \union (IF Of(log) THEN {n} ELSE {})
    BY <1>3
  <2>3. \A i \in before : /\ audit'[i] = audit[i] /\ i < n /\ ~(n <= i)
                          /\ i \in DOMAIN audit
    BY <1>3
  <2>4. \A i \in before : approvals[audit[i].id] # NULL => approvals'[audit[i].id] # NULL
    <3>1. \A i \in before : audit[i].id \in Requests
      <4>1. \A i \in before : audit[i] \in AuditLog
        BY <1>1, <2>3
      <4> QED
        BY <4>1 DEF AuditLog
    <3> QED
      BY <1>1, <1>2, <3>1
  <2> HIDE DEF before, after
  <2>5. Granted(v, t)' <=> after # {}
    BY <1>4, <1>5, <2>1, <2>2
  <2>6. ASSUME NEW i \in before
        PROVE  IF \A j \in after : i <= j
               THEN audit'[i].event = "tool.approved" /\ approvals'[audit'[i].id] # NULL
               ELSE audit'[i].event = "tool.approval_replayed"
    <3>1. (\A j \in after : i <= j) <=> (\A j \in before : i <= j)
      <4>1. i \in Nat /\ n \in Nat /\ i <= n
        BY <1>1, <1>3, <2>3 DEF n
      <4> QED
        BY <2>2, <4>1
    <3> QED
      BY <2>1, <2>3, <2>4, <3>1
  <2>7. ASSUME n \in after
        PROVE  IF \A j \in after : n <= j
               THEN audit'[n].event = "tool.approved" /\ approvals'[audit'[n].id] # NULL
               ELSE audit'[n].event = "tool.approval_replayed"
    <3>1. Of(log)
      BY <1>3, <2>2, <2>3, <2>7
    <3>2. CASE row # NULL
      <4>1. before = {}
        BY <1>1, <1>5, <2>1, <3>1, <3>2
      <4>2. after = {n}
        BY <2>2, <3>1, <4>1
      <4>3. n <= n
        BY <1>1 DEF n
      <4> QED
        BY <1>2, <1>3, <1>5, <3>2, <4>2, <4>3
    <3>3. CASE row = NULL
      <4>1. before # {}
        BY <1>5, <2>1, <3>1, <3>3
      <4>2. ~(\A j \in after : n <= j)
        BY <2>2, <2>3, <4>1
      <4> QED
        BY <1>3, <1>5, <3>3, <4>2
    <3> QED
      BY <3>2, <3>3
  <2>8. \A i \in after : i = n \/ i \in before
    BY <2>2
  <2> QED
    BY <2>5, <2>6, <2>7, <2>8 DEF after
<1>8. ApprovalTrail'
  BY <1>7 DEF ApprovalTrail
<1> QED
  BY <1>6, <1>8 DEF TInv

LEMMA InitTInv == Init => TInv
<1> SUFFICES ASSUME Init PROVE TInv
  OBVIOUS
<1>1. ApprovalTrail
  BY DEF Init, ApprovalTrail, Granted
<1> QED
  BY <1>1, AtStart DEF Init, TInv, Logging

LEMMA NextTInv == TInv /\ [Next]_vars => TInv'
<1> SUFFICES ASSUME TInv, [Next]_vars PROVE TInv'
  OBVIOUS
<1>1. AInv'
  BY EveryStep DEF TInv
<1>2. CASE RegistryCommits \/ UNCHANGED vars
  <2>1. approvals' = approvals /\ audit' = audit /\ pc' = pc /\ tx' = tx
    BY <1>2 DEF RegistryCommits, vars
  <2> QED
    BY <1>1, <2>1, SameTrail
<1>3. ASSUME NEW r \in Requests, Request(r) PROVE TInv'
  <2>1. CASE \E role \in Roles, s \in Skills, v \in Versions, t \in Tools :
               ApproveTool(r, role, s, v, t)
    BY <1>1, <2>1, AnswerLogs, ProceedLogs DEF ApproveTool, Refuse
  <2>2. CASE LookUpApproval(r) \/ InsertApproval(r) \/ CommitApproval(r)
    BY <1>1, <2>2, LookUpLogs, InsertLogs, CommitLogs
  <2>3. CASE \E d \in Departments : SelectSkills(r, d)
    BY <1>1, <2>3, ProceedLogs DEF SelectSkills
  <2>4. CASE LoadVersions(r)
    BY <1>1, <2>4, AnswerLogs, ProceedLogs DEF LoadVersions, Serve
  <2>5. CASE SelectApprovals(r)
    <3>1. Answer(r, 200) /\ approvals' = approvals /\ audit' = audit
      BY <2>5 DEF SelectApprovals, Serve
    <3> QED
      BY <1>1, <3>1, AnswerLogs
  <2>6. CASE Lose(r)
    <3>1. /\ pc' = [pc EXCEPT ![r] = "lost"] /\ tx' = [tx EXCEPT ![r] = NULL]
          /\ approvals' = approvals /\ audit' = audit /\ "lost" # "commit"
      BY <2>6 DEF Lose, Vanish
    <3> QED
      BY <1>1, <3>1, EndLogs
  <2> QED
    BY <1>3, <2>1, <2>2, <2>3, <2>4, <2>5, <2>6 DEF Request
<1> QED
  BY <1>2, <1>3 DEF Next, Terminating

(* approve_tool: in commit order the audit rows of a version and tool are  *)
(* one tool.approved row, of the request that owns the approval, and then  *)
(* replays, whatever requests race to approve it.                          *)
THEOREM TrailTellsApprovals == Spec => []ApprovalTrail
<1>1. TInv => ApprovalTrail
  BY DEF TInv
<1> QED
  BY <1>1, InitTInv, NextTInv, PTL DEF Spec

----------------------------------------------------------------------------
(***************************************************************************)
(* A runtime selection serves every skill its first statement found.  The  *)
(* pointers it reads name committed versions of their skills, because an   *)
(* active skill's pointer always does, and versions stay where they are    *)
(* until its second statement loads them.                                  *)
(***************************************************************************)

PointersOwn ==
    \A s \in Skills :
        Lifecycle!Is(s, "active") => registry[s].active \in Lifecycle!SnapshotsOf(s)

(* What a selection read it still finds, and then holds.                   *)
Complete(r) ==
    /\ pc[r] = "load" =>
         \A s \in DOMAIN tx[r].pointers : tx[r].pointers[s] \in Lifecycle!SnapshotsOf(s)
    /\ pc[r] = "approvals" => tx[r].active_versions = tx[r].pointers

SInv ==
    /\ AInv
    /\ PointersOwn
    /\ \A r \in Requests : Complete(r)

----------------------------------------------------------------------------
(* Commits of lifecycle requests.                                          *)

LEMMA SnapshotsStay ==
    ASSUME \A w \in Versions : history[w] # NULL => history'[w] = history[w], NEW s
    PROVE  Lifecycle!SnapshotsOf(s) \subseteq Lifecycle!SnapshotsOf(s)'
BY DEF Lifecycle!SnapshotsOf

\* A version that a step starts to point an active skill at is the skill's.
LEMMA PointersStay ==
    ASSUME TypeOK, PointersOwn, NEW s \in Skills,
           \A w \in Versions : history[w] # NULL => history'[w] = history[w],
           \A x \in Skills \ {s} : registry'[x] = registry[x],
           Lifecycle!Is(s, "active")' =>
              \/ Lifecycle!Is(s, "active") /\ registry'[s].active = registry[s].active
              \/ registry'[s].active \in Lifecycle!SnapshotsOf(s)'
    PROVE  PointersOwn'
<1> SUFFICES ASSUME NEW x \in Skills, Lifecycle!Is(x, "active")'
             PROVE  registry'[x].active \in Lifecycle!SnapshotsOf(x)'
  BY DEF PointersOwn
<1>1. Lifecycle!SnapshotsOf(x) \subseteq Lifecycle!SnapshotsOf(x)'
  BY SnapshotsStay
<1>2. CASE x = s
  BY <1>1, <1>2 DEF PointersOwn
<1>3. CASE x # s
  BY <1>1, <1>3 DEF PointersOwn, Lifecycle!Is
<1> QED
  BY <1>2, <1>3

LEMMA LifecyclePointers ==
    ASSUME AInv, PointersOwn, RegistryCommits
    PROVE  PointersOwn'
<1>1. TypeOK /\ RegistryTypes
  BY DEF AInv, TypeOK, RegistryTypes
<1>2. RegistryTypes' /\ \A w \in Versions : history[w] # NULL => history'[w] = history[w]
  BY <1>1, RegistryKeeps
<1>3. PICK s \in Skills :
        \/ \E d \in Definitions : Lifecycle!CreateDraft(s, d) \/ Lifecycle!EditDraft(s, d)
                                  \/ Lifecycle!LateEdit(s, d)
        \/ Lifecycle!Disable(s)
        \/ \E v \in Versions : Lifecycle!Switch(s, v) \/ Lifecycle!LateSwitch(s, v)
        \/ \E v \in Versions : Lifecycle!Activate(s, v)
        \/ \E v \in Versions, d \in Definitions : Lifecycle!LateActivate(s, v, d)
        \/ \E v \in Versions, d \in Definitions :
              Lifecycle!AddVersion(s, v, d) \/ Lifecycle!LateVersion(s, v, d)
  BY DEF RegistryCommits, Lifecycle!Next, Lifecycle!Late
<1>4. CASE \E d \in Definitions : Lifecycle!CreateDraft(s, d) \/ Lifecycle!EditDraft(s, d)
                                  \/ Lifecycle!LateEdit(s, d)
  <2>1. \A x \in Skills \ {s} : registry'[x] = registry[x]
    BY <1>1, <1>4 DEF TypeOK, Lifecycle!CreateDraft, Lifecycle!EditDraft, Lifecycle!LateEdit
  <2>2. Lifecycle!Is(s, "active")' =>
           Lifecycle!Is(s, "active") /\ registry'[s].active = registry[s].active
    BY <1>1, <1>4 DEF TypeOK, Lifecycle!CreateDraft, Lifecycle!EditDraft, Lifecycle!LateEdit,
       Lifecycle!Is
  <2> QED
    BY <1>1, <1>2, <2>1, <2>2, PointersStay
<1>5. CASE Lifecycle!Disable(s)
  <2>1. \A x \in Skills \ {s} : registry'[x] = registry[x]
    BY <1>1, <1>5 DEF TypeOK, Lifecycle!Disable
  <2>2. ~Lifecycle!Is(s, "active")'
    BY <1>1, <1>5 DEF TypeOK, Lifecycle!Disable, Lifecycle!Is
  <2> QED
    BY <1>1, <1>2, <2>1, <2>2, PointersStay
<1>6. ASSUME NEW v \in Versions, Lifecycle!Switch(s, v) \/ Lifecycle!LateSwitch(s, v)
      PROVE  PointersOwn'
  <2>1. /\ v \in Lifecycle!SnapshotsOf(s) /\ registry[s] # NULL
        /\ registry' = [registry EXCEPT ![s].active = v]
    BY <1>6 DEF Lifecycle!Switch, Lifecycle!LateSwitch, Lifecycle!Is
  <2>2. /\ \A x \in Skills \ {s} : registry'[x] = registry[x]
        /\ registry'[s].active = v
    BY <1>1, <2>1 DEF TypeOK
  <2>3. v \in Lifecycle!SnapshotsOf(s)'
    BY <1>2, <2>1, SnapshotsStay
  <2> QED
    BY <1>1, <1>2, <2>2, <2>3, PointersStay
<1>7. ASSUME NEW v \in Versions, NEW d \in Definitions, registry[s] # NULL, Lifecycle!Snapshot(s, v, 1, d),
             registry' = [registry EXCEPT ![s].status = "active", ![s].active = v]
      PROVE  PointersOwn'
  <2>1. /\ \A x \in Skills \ {s} : registry'[x] = registry[x]
        /\ registry'[s].active = v
    BY <1>1, <1>7 DEF TypeOK
  <2>2. history'[v] = [skill |-> s, number |-> 1, definition |-> d]
    BY <1>1, <1>7 DEF TypeOK, Lifecycle!Snapshot
  <2>3. history'[v] # NULL
    BY <1>7, <2>2, NullAssumption
  <2>4. v \in Lifecycle!SnapshotsOf(s)'
    BY <2>2, <2>3 DEF Lifecycle!SnapshotsOf
  <2> QED
    BY <1>1, <1>2, <2>1, <2>4, PointersStay
<1>8. ASSUME NEW v \in Versions, NEW d \in Definitions,
             Lifecycle!AddVersion(s, v, d) \/ Lifecycle!LateVersion(s, v, d)
      PROVE  PointersOwn'
  <2>1. registry' = registry
    BY <1>8 DEF Lifecycle!AddVersion, Lifecycle!LateVersion
  <2>2. Lifecycle!Is(s, "active")' => Lifecycle!Is(s, "active")
    BY <2>1 DEF Lifecycle!Is
  <2> QED
    BY <1>1, <1>2, <2>1, <2>2, PointersStay
<1>9. ASSUME NEW v \in Versions, Lifecycle!Activate(s, v) PROVE PointersOwn'
  <2>1. registry[s] # NULL /\ registry[s].working \in Definitions
    BY <1>1, <1>9 DEF TypeOK, Lifecycle!Activate, Lifecycle!Is
  <2> QED
    BY <1>7, <1>9, <2>1 DEF Lifecycle!Activate
<1>10. ASSUME NEW v \in Versions, NEW d \in Definitions, Lifecycle!LateActivate(s, v, d)
       PROVE  PointersOwn'
  <2>1. Lifecycle!Is(s, "draft") \/ Lifecycle!Is(s, "disabled")
    BY <1>10, Zenon DEF Lifecycle!LateActivate
  <2>2. registry[s] # NULL
    BY <2>1 DEF Lifecycle!Is
  <2>3. /\ Lifecycle!Snapshot(s, v, 1, d)
        /\ registry' = [registry EXCEPT ![s].status = "active", ![s].active = v]
    BY <1>10, Zenon DEF Lifecycle!LateActivate
  <2> QED
    BY <1>7, <2>2, <2>3
<1> QED
  BY <1>3, <1>4, <1>5, <1>6, <1>8, <1>9, <1>10

LEMMA RegistrySteps ==
    ASSUME SInv, AInv', RegistryCommits
    PROVE  SInv'
<1>1. \A w \in Versions : history[w] # NULL => history'[w] = history[w]
  BY RegistryKeeps DEF SInv, AInv, TypeOK, RegistryTypes
<1>2. PointersOwn'
  BY LifecyclePointers DEF SInv
<1>3. pc' = pc /\ tx' = tx
  BY DEF RegistryCommits
<1>4. \A s : Lifecycle!SnapshotsOf(s) \subseteq Lifecycle!SnapshotsOf(s)'
  BY <1>1 DEF Lifecycle!SnapshotsOf
<1>5. \A r \in Requests : Complete(r)'
  BY <1>3, <1>4 DEF SInv, Complete
<1> QED
  BY <1>2, <1>5 DEF SInv

----------------------------------------------------------------------------
(* Steps of the requests.                                                  *)

LEMMA RequestSteps ==
    ASSUME SInv, AInv', NEW r \in Requests, registry' = registry, history' = history,
           \A q \in Requests \ {r} : pc'[q] = pc[q] /\ tx'[q] = tx[q],
           Complete(r)'
    PROVE  SInv'
<1>1. \A s : Lifecycle!SnapshotsOf(s)' = Lifecycle!SnapshotsOf(s)
  BY DEF Lifecycle!SnapshotsOf
<1>2. PointersOwn'
  BY <1>1 DEF SInv, PointersOwn, Lifecycle!Is
<1>3. \A q \in Requests \ {r} : Complete(q)'
  BY <1>1 DEF SInv, Complete
<1> QED
  BY <1>2, <1>3 DEF SInv

LEMMA SelectSkillsCompletes ==
    ASSUME SInv, AInv', NEW r \in Requests, NEW d \in Departments, SelectSkills(r, d)
    PROVE  SInv'
<1> DEFINE pointers == [s \in Selected(d) |-> registry[s].active]
           none == [s \in {} |-> NULL]
           session == [department |-> d, active_versions |-> none, pointers |-> pointers]
<1>1. registry' = registry /\ history' = history /\ Proceed(r, "load", session)
  BY DEF SelectSkills, Arrive
<1>2. /\ pc'[r] = "load" /\ tx'[r] = session
      /\ \A q \in Requests \ {r} : pc'[q] = pc[q] /\ tx'[q] = tx[q]
  BY <1>1 DEF Proceed, SInv, AInv, TypeOK
<1>3. \A s \in Selected(d) : pointers[s] \in Lifecycle!SnapshotsOf(s)
  BY DEF SInv, PointersOwn, Selected
<1>4. tx'[r].pointers = pointers /\ DOMAIN pointers = Selected(d)
  BY <1>2
<1> HIDE DEF pointers, session
<1>5. Complete(r)'
  BY <1>1, <1>2, <1>3, <1>4 DEF Complete, Lifecycle!SnapshotsOf
<1> QED
  BY <1>1, <1>2, <1>5, RequestSteps

LEMMA AllFound ==
    ASSUME SInv, NEW r \in Requests, pc[r] = "load"
    PROVE  /\ tx[r] \in Selecting
           /\ {s \in DOMAIN tx[r].pointers : tx[r].pointers[s] \in Lifecycle!SnapshotsOf(s)}
                 = DOMAIN tx[r].pointers
           /\ [s \in DOMAIN tx[r].pointers |-> tx[r].pointers[s]] = tx[r].pointers
<1>1. tx[r] \in Selecting
  BY DEF SInv, AInv, SelectSound
<1>2. PICK S \in SUBSET Skills : tx[r].pointers \in [S -> Versions \union {NULL}]
  BY <1>1 DEF Selecting
<1>3. \A s \in DOMAIN tx[r].pointers : tx[r].pointers[s] \in Lifecycle!SnapshotsOf(s)
  BY DEF SInv, Complete
<1> QED
  BY <1>1, <1>2, <1>3

LEMMA LoadCompletes ==
    ASSUME SInv, AInv', NEW r \in Requests, LoadVersions(r)
    PROVE  SInv'
<1> DEFINE p == tx[r].pointers
           found == {s \in DOMAIN p : p[s] \in Lifecycle!SnapshotsOf(s)}
           chosen == [s \in found |-> p[s]]
           session == [tx[r] EXCEPT !.active_versions = chosen]
<1>1. registry' = registry /\ history' = history /\ pc[r] = "load"
      /\ (Serve(r, {}) \/ Proceed(r, "approvals", session))
  BY DEF LoadVersions
<1>2. tx[r] \in Selecting /\ chosen = p
  <2>1. found = DOMAIN p /\ [s \in DOMAIN p |-> p[s]] = p /\ tx[r] \in Selecting
    BY <1>1, AllFound
  <2> HIDE DEF found, p
  <2> QED
    BY <2>1
<1> HIDE DEF chosen
<1>3. session.active_versions = chosen /\ session.pointers = p
  BY <1>2 DEF Selecting
<1> HIDE DEF p, session
<1>4. CASE Serve(r, {})
  <2>1. /\ pc'[r] = "done"
        /\ \A q \in Requests \ {r} : pc'[q] = pc[q] /\ tx'[q] = tx[q]
    BY <1>4 DEF Serve, Answer, SInv, AInv, TypeOK
  <2> QED
    BY <1>1, <2>1, RequestSteps DEF Complete
<1>5. CASE Proceed(r, "approvals", session)
  <2>1. /\ pc'[r] = "approvals" /\ tx'[r] = session
        /\ \A q \in Requests \ {r} : pc'[q] = pc[q] /\ tx'[q] = tx[q]
    BY <1>5 DEF Proceed, SInv, AInv, TypeOK
  <2>2. Complete(r)'
    BY <1>2, <1>3, <2>1 DEF Complete
  <2> QED
    BY <1>1, <2>1, <2>2, RequestSteps
<1> QED
  BY <1>1, <1>4, <1>5

\* Every other step leaves a selection, or is none.
LEMMA Leaves ==
    ASSUME SInv, AInv', NEW r \in Requests, registry' = registry, history' = history,
           NEW step, NEW t, pc' = [pc EXCEPT ![r] = step], tx' = [tx EXCEPT ![r] = t],
           step \notin {"load", "approvals"}
    PROVE  SInv'
<1>1. /\ pc'[r] \notin {"load", "approvals"}
      /\ \A q \in Requests \ {r} : pc'[q] = pc[q] /\ tx'[q] = tx[q]
  BY DEF SInv, AInv, TypeOK
<1> QED
  BY <1>1, RequestSteps DEF Complete

LEMMA Proceeds ==
    ASSUME SInv, AInv', NEW r \in Requests, registry' = registry, history' = history,
           NEW step, NEW t, Proceed(r, step, t), step \notin {"load", "approvals"}
    PROVE  SInv'
BY Leaves DEF Proceed

LEMMA Answers ==
    ASSUME SInv, AInv', NEW r \in Requests, registry' = registry, history' = history,
           NEW code, Answer(r, code)
    PROVE  SInv'
<1>1. /\ pc' = [pc EXCEPT ![r] = "done"] /\ tx' = [tx EXCEPT ![r] = NULL]
      /\ "done" \notin {"load", "approvals"}
  BY DEF Answer
<1> HIDE DEF SInv, AInv
<1> QED
  BY <1>1, Leaves

LEMMA OtherSteps ==
    ASSUME SInv, AInv', NEW r \in Requests, Request(r), ~LoadVersions(r),
           ~\E d \in Departments : SelectSkills(r, d)
    PROVE  SInv'
<1>1. CASE \E role \in Roles, s \in Skills, v \in Versions, t \in Tools :
             ApproveTool(r, role, s, v, t)
  BY <1>1, Proceeds, Answers DEF ApproveTool, Arrive, Refuse
<1>2. CASE LookUpApproval(r)
  BY <1>2, Proceeds DEF LookUpApproval
<1>3. CASE InsertApproval(r)
  BY <1>3, Proceeds, Answers DEF InsertApproval, Refuse
<1>4. CASE CommitApproval(r)
  <2>1. CASE Vanish(r)
    <3>1. /\ pc' = [pc EXCEPT ![r] = "lost"] /\ tx' = [tx EXCEPT ![r] = NULL]
          /\ registry' = registry /\ history' = history
          /\ "lost" \notin {"load", "approvals"}
      BY <1>4, <2>1 DEF CommitApproval, Vanish
    <3> QED
      BY <3>1, Leaves
  <2>2. CASE Answer(r, 200) \/ Answer(r, 500)
    BY <1>4, <2>2, Answers DEF CommitApproval
  <2> QED
    BY <1>4, <2>1, <2>2 DEF CommitApproval
<1>5. CASE SelectApprovals(r)
  <2>1. registry' = registry /\ history' = history /\ Answer(r, 200)
    BY <1>5 DEF SelectApprovals, Serve
  <2> QED
    BY <2>1, Answers
<1>6. CASE Lose(r)
  <2>1. /\ registry' = registry /\ history' = history
        /\ pc' = [pc EXCEPT ![r] = "lost"] /\ tx' = [tx EXCEPT ![r] = NULL]
        /\ "lost" \notin {"load", "approvals"}
    BY <1>6 DEF Lose, Vanish
  <2> QED
    BY <2>1, Leaves
<1> QED
  BY <1>1, <1>2, <1>3, <1>4, <1>5, <1>6 DEF Request

LEMMA InitSInv == Init => SInv
BY AtStart DEF Init, Lifecycle!Init, SInv, PointersOwn, Lifecycle!Is, Complete

LEMMA NextSInv == SInv /\ [Next]_vars => SInv'
<1> SUFFICES ASSUME SInv, [Next]_vars PROVE SInv'
  OBVIOUS
<1>1. AInv'
  BY EveryStep DEF SInv
<1>2. CASE RegistryCommits
  BY <1>1, <1>2, RegistrySteps
<1>3. ASSUME NEW r \in Requests, Request(r) PROVE SInv'
  BY <1>1, <1>3, SelectSkillsCompletes, LoadCompletes, OtherSteps
<1>4. CASE UNCHANGED vars
  <2>1. UNCHANGED <<registry, history, pc, tx>>
    BY <1>4 DEF vars
  <2> QED
    BY <1>1, <2>1 DEF SInv, PointersOwn, Complete, Lifecycle!Is, Lifecycle!SnapshotsOf
<1> QED
  BY <1>2, <1>3, <1>4 DEF Next, Terminating

LEMMA SelectionsHold == Spec => []SInv
BY InitSInv, NextSInv, PTL DEF Spec

----------------------------------------------------------------------------
LEMMA ServesSelection ==
    ASSUME SInv, [Next]_vars, NEW r \in Requests, served[r] = NULL, served'[r] # NULL
    PROVE  /\ {e.skill : e \in served'[r]} = DOMAIN tx[r].pointers
           /\ \A e \in served'[r] : e.version = tx[r].pointers[e.skill]
<1>1. \/ served' = served
      \/ \E q \in Requests : LoadVersions(q) /\ Serve(q, {})
      \/ \E q \in Requests : SelectApprovals(q)
  <2>1. CASE RegistryCommits \/ Terminating \/ UNCHANGED vars
    BY <2>1 DEF RegistryCommits, Terminating, vars
  <2>2. ASSUME NEW q \in Requests,
               \/ \E role \in Roles, s \in Skills, v \in Versions, t \in Tools :
                     ApproveTool(q, role, s, v, t)
               \/ \E d \in Departments : SelectSkills(q, d)
        PROVE  served' = served
    BY <2>2 DEF ApproveTool, SelectSkills, Proceed, Refuse
  <2>3. ASSUME NEW q \in Requests,
               LookUpApproval(q) \/ InsertApproval(q) \/ CommitApproval(q) \/ Lose(q)
        PROVE  served' = served
    BY <2>3 DEF LookUpApproval, InsertApproval, CommitApproval, Lose, Proceed, Refuse
  <2>4. ASSUME NEW q \in Requests, LoadVersions(q)
        PROVE  Serve(q, {}) \/ served' = served
    BY <2>4 DEF LoadVersions, Proceed
  <2> QED
    BY <2>1, <2>2, <2>3, <2>4 DEF Next, Request
<1>2. CASE served' = served
  BY <1>2
<1>3. ASSUME NEW q \in Requests, NEW payload, Serve(q, payload)
      PROVE  q = r /\ served'[r] = payload
  <2>1. served' = [served EXCEPT ![q] = payload]
    BY <1>3 DEF Serve
  <2> QED
    BY <2>1 DEF SInv, AInv, TypeOK
<1>4. ASSUME NEW q \in Requests, LoadVersions(q), Serve(q, {})
      PROVE  /\ {e.skill : e \in served'[r]} = DOMAIN tx[r].pointers
             /\ \A e \in served'[r] : e.version = tx[r].pointers[e.skill]
  <2>1. q = r /\ served'[r] = {}
    BY <1>3, <1>4
  <2>2. pc[r] = "load" /\ pc'[r] = "done"
    BY <1>4, <2>1 DEF LoadVersions, Serve, Answer, SInv, AInv, TypeOK
  <2>3. {s \in DOMAIN tx[r].pointers : tx[r].pointers[s] \in Lifecycle!SnapshotsOf(s)} = {}
    BY <1>4, <2>1, <2>2 DEF LoadVersions, Proceed, SInv, AInv, TypeOK
  <2>4. DOMAIN tx[r].pointers = {}
    BY <2>2, <2>3, AllFound
  <2> QED
    BY <2>1, <2>4
<1>5. ASSUME NEW q \in Requests, SelectApprovals(q)
      PROVE  /\ {e.skill : e \in served'[r]} = DOMAIN tx[r].pointers
             /\ \A e \in served'[r] : e.version = tx[r].pointers[e.skill]
  <2> DEFINE active  == tx[r].active_versions
             item(s) == [skill |-> s, department |-> tx[r].department, version |-> active[s],
                         approved_tools |-> approved_tools(active[s])]
  <2>1. q = r /\ served'[r] = {item(s) : s \in DOMAIN active}
    BY <1>3, <1>5 DEF SelectApprovals
  <2>2. active = tx[r].pointers
    BY <1>5, <2>1 DEF SelectApprovals, SInv, Complete
  <2>3. \A s : item(s).skill = s /\ item(s).version = active[s]
    OBVIOUS
  <2> HIDE DEF active, item
  <2>4. {e.skill : e \in served'[r]} = DOMAIN active
    <3>1. \A e \in served'[r] : e.skill \in DOMAIN active
      BY <2>1, <2>3
    <3>2. \A s \in DOMAIN active : \E e \in served'[r] : e.skill = s
      <4>1. \A s \in DOMAIN active : item(s) \in served'[r] /\ item(s).skill = s
        BY <2>1, <2>3
      <4> QED
        BY <4>1
    <3> QED
      BY <3>1, <3>2
  <2>5. \A e \in served'[r] : e.version = active[e.skill]
    BY <2>1, <2>3
  <2> QED
    BY <2>2, <2>4, <2>5
<1> QED
  BY <1>1, <1>2, <1>4, <1>5

(* get_active_skills_for_department: whatever is activated, switched,      *)
(* disabled or approved between its three statements, every skill the first*)
(* one found is served, with the version it pointed at.                    *)
THEOREM SelectionsAreServed == Spec => ServesAllSelected
<1>1. SInv /\ [Next]_vars =>
        [\A r \in Requests : served[r] = NULL /\ served'[r] # NULL =>
           /\ {e.skill : e \in served'[r]} = DOMAIN tx[r].pointers
           /\ \A e \in served'[r] : e.version = tx[r].pointers[e.skill]]_vars
  BY ServesSelection
<1> QED
  BY <1>1, SelectionsHold, PTL DEF Spec, ServesAllSelected

----------------------------------------------------------------------------
(***************************************************************************)
(* The endpoints implement ToolGrants.  An approval is granted when it is  *)
(* committed, a version published when its row is, and a selection offers  *)
(* what it is answered when it reads the approvals: the versions it loaded *)
(* before cannot have changed since.                                       *)
(***************************************************************************)

GInv ==
    /\ AInv
    /\ \A r \in Requests : served[r] # NULL => pc[r] = "done"

\* A request moves on, once it is answered it does not.
LEMMA RequestMoves ==
    ASSUME NEW r \in Requests, Request(r)
    PROVE  pc[r] # "done" /\ \E step \in Steps : pc' = [pc EXCEPT ![r] = step]
<1>1. ASSUME NEW role \in Roles, NEW s \in Skills, NEW v \in Versions, NEW t \in Tools,
             ApproveTool(r, role, s, v, t)
      PROVE  pc[r] # "done" /\ \E step \in Steps : pc' = [pc EXCEPT ![r] = step]
  BY <1>1 DEF ApproveTool, Arrive, Refuse, Answer, Proceed, Steps
<1>2. CASE LookUpApproval(r) \/ InsertApproval(r)
  BY <1>2 DEF LookUpApproval, InsertApproval, Refuse, Answer, Proceed, Steps
<1>3. CASE CommitApproval(r) \/ Lose(r)
  BY <1>3 DEF CommitApproval, Lose, Answer, Vanish, Steps
<1>4. ASSUME NEW d \in Departments, SelectSkills(r, d)
      PROVE  pc[r] # "done" /\ \E step \in Steps : pc' = [pc EXCEPT ![r] = step]
  BY <1>4 DEF SelectSkills, Arrive, Proceed, Steps
<1>5. CASE LoadVersions(r)
  BY <1>5 DEF LoadVersions, Serve, Answer, Proceed, Steps
<1>6. CASE SelectApprovals(r)
  BY <1>6 DEF SelectApprovals, Serve, Answer, Steps
<1> QED
  BY <1>1, <1>2, <1>3, <1>4, <1>5, <1>6 DEF Request

\* The steps that change a version, an approval or an answer.
LEMMA WhatIsWritten ==
    ASSUME [Next]_vars
    PROVE  \/ UNCHANGED <<history, approvals, served>>
           \/ RegistryCommits
           \/ \E r \in Requests : \/ CommitApproval(r)
                                  \/ LoadVersions(r) /\ Serve(r, {})
                                  \/ SelectApprovals(r)
<1>1. CASE Terminating \/ UNCHANGED vars
  BY <1>1 DEF Terminating, vars
<1>2. ASSUME NEW r \in Requests,
             \/ \E role \in Roles, s \in Skills, v \in Versions, t \in Tools :
                   ApproveTool(r, role, s, v, t)
             \/ \E d \in Departments : SelectSkills(r, d)
      PROVE  UNCHANGED <<history, approvals, served>>
  BY <1>2 DEF ApproveTool, SelectSkills, Arrive, Proceed, Refuse
<1>3. ASSUME NEW r \in Requests, LookUpApproval(r) \/ InsertApproval(r) \/ Lose(r)
      PROVE  UNCHANGED <<history, approvals, served>>
  BY <1>3 DEF LookUpApproval, InsertApproval, Lose, Proceed, Refuse
<1>4. ASSUME NEW r \in Requests, LoadVersions(r)
      PROVE  Serve(r, {}) \/ UNCHANGED <<history, approvals, served>>
  BY <1>4 DEF LoadVersions, Proceed
<1> QED
  BY <1>1, <1>2, <1>3, <1>4 DEF Next, Request

LEMMA InitGInv == Init => GInv
BY AtStart DEF Init, GInv

LEMMA NextGInv == GInv /\ [Next]_vars => GInv'
<1> SUFFICES ASSUME GInv, [Next]_vars PROVE GInv'
  OBVIOUS
<1>1. AInv' /\ TypeOK
  BY EveryStep DEF GInv, AInv
<1>2. ASSUME NEW q \in Requests, pc[q] = "done" PROVE pc'[q] = "done"
  <2>1. CASE RegistryCommits \/ UNCHANGED vars
    BY <1>2, <2>1 DEF RegistryCommits, vars
  <2>2. ASSUME NEW r \in Requests, Request(r) PROVE pc'[q] = "done"
    BY <1>1, <1>2, <2>2, RequestMoves DEF TypeOK
  <2> QED
    BY <2>1, <2>2 DEF Next, Terminating
<1>3. ASSUME NEW q \in Requests, served[q] = NULL, served'[q] # NULL PROVE pc'[q] = "done"
  <2>1. PICK r \in Requests : \E payload : Serve(r, payload)
    BY <1>3, WhatIsWritten DEF RegistryCommits, CommitApproval, SelectApprovals
  <2>2. q = r /\ pc'[r] = "done"
    BY <1>1, <1>3, <2>1 DEF Serve, Answer, TypeOK
  <2> QED
    BY <2>2
<1> QED
  BY <1>1, <1>2, <1>3 DEF GInv

LEMMA GrantsHold == Spec => []GInv
BY InitGInv, NextGInv, PTL DEF Spec

----------------------------------------------------------------------------
(* The views.                                                              *)

LEMMA ViewOfRequested ==
    ASSUME TypeOK, NEW v \in Versions
    PROVE  /\ history[v] = NULL => RequestedView[v] = NULL
           /\ history[v] # NULL =>
                 /\ RequestedView[v] = history[v].definition.requested_tools
                 /\ RequestedView[v] \in SUBSET Tools /\ RequestedView[v] # NULL
<1>1. history[v] # NULL => history[v].definition \in Definitions
  BY DEF TypeOK
<1> QED
  BY <1>1, ViewAssumption DEF RequestedView, Definitions

LEMMA ViewOfGrants ==
    ASSUME NEW v, NEW t
    PROVE  <<v, t>> \in GrantedView <=> Granted(v, t)
BY DEF GrantedView, Granted

\* What is granted to a published version are its approved tools.
LEMMA GrantedTools ==
    ASSUME AInv, NEW v \in Versions, history[v] # NULL
    PROVE  Grants!GrantedTo(v) = approved_tools(v)
<1>1. history[v].definition.requested_tools \in SUBSET Tools
  BY ViewOfRequested DEF AInv
<1>2. ASSUME NEW t \in Tools, Granted(v, t)
      PROVE  t \in history[v].definition.requested_tools
  BY <1>2 DEF Granted, AInv, Committed, Rightful
<1> QED
  BY <1>1, <1>2, ViewOfGrants DEF Grants!GrantedTo, approved_tools

----------------------------------------------------------------------------
(* The steps.                                                              *)

\* A version comes with its tools, and no other row changes.
LEMMA SnapshotPublishes ==
    ASSUME TypeOK, TypeOK', NEW s \in Skills, NEW v \in Versions, NEW n, NEW d \in Definitions,
           Lifecycle!Snapshot(s, v, n, d), history'[v] # NULL,
           GrantedView' = GrantedView, OfferedView' = OfferedView
    PROVE  Grants!Publish(v)
<1>1. RequestedView[v] = NULL
  BY ViewOfRequested DEF Lifecycle!Snapshot
<1>2. RequestedView'[v] # NULL /\ RequestedView'[v] \in SUBSET Tools
  <2>1. history'[v].definition \in Definitions
    BY DEF TypeOK
  <2>2. RequestedView'[v] = history'[v].definition.requested_tools
    BY DEF RequestedView
  <2> QED
    BY <2>1, <2>2, ViewAssumption DEF Definitions
<1>3. RequestedView' = [RequestedView EXCEPT ![v] = RequestedView'[v]]
  <2>1. \A w \in Versions \ {v} : history'[w] = history[w]
    BY DEF Lifecycle!Snapshot, TypeOK
  <2> DEFINE tools == RequestedView'[v]
  <2>2. RequestedView' = [w \in Versions |-> IF w = v THEN tools ELSE RequestedView[w]]
    BY <2>1 DEF RequestedView
  <2> HIDE DEF tools
  <2>3. RequestedView' = [RequestedView EXCEPT ![v] = tools]
    BY <2>2 DEF RequestedView
  <2> QED
    BY <2>3 DEF tools
<1> QED
  BY <1>1, <1>2, <1>3 DEF Grants!Publish

\* A commit of a lifecycle request publishes a version or none.
LEMMA RegistryPublishes ==
    ASSUME AInv, AInv', RegistryCommits
    PROVE  \/ history' = history
           \/ \E s \in Skills, v \in Versions, n \in Nat \ {0}, d \in Definitions :
                 Lifecycle!Snapshot(s, v, n, d)
<1>1. TypeOK
  BY DEF AInv
<1>2. PICK s \in Skills :
        \/ \E d \in Definitions : Lifecycle!CreateDraft(s, d) \/ Lifecycle!EditDraft(s, d)
                                  \/ Lifecycle!LateEdit(s, d)
        \/ Lifecycle!Disable(s)
        \/ \E v \in Versions : Lifecycle!Switch(s, v) \/ Lifecycle!LateSwitch(s, v)
        \/ \E v \in Versions : Lifecycle!Activate(s, v)
        \/ \E v \in Versions, d \in Definitions : Lifecycle!LateActivate(s, v, d)
        \/ \E v \in Versions, d \in Definitions :
              Lifecycle!AddVersion(s, v, d) \/ Lifecycle!LateVersion(s, v, d)
  BY DEF RegistryCommits, Lifecycle!Next, Lifecycle!Late
<1>3. CASE \/ \E d \in Definitions : Lifecycle!CreateDraft(s, d) \/ Lifecycle!EditDraft(s, d)
                                     \/ Lifecycle!LateEdit(s, d)
           \/ Lifecycle!Disable(s)
           \/ \E v \in Versions : Lifecycle!Switch(s, v) \/ Lifecycle!LateSwitch(s, v)
  BY <1>3 DEF Lifecycle!CreateDraft, Lifecycle!EditDraft, Lifecycle!LateEdit,
              Lifecycle!Disable, Lifecycle!Switch, Lifecycle!LateSwitch
<1>4. 1 \in Nat \ {0}
  OBVIOUS
<1>5. ASSUME NEW v \in Versions, Lifecycle!Activate(s, v)
      PROVE  \E n \in Nat \ {0}, d \in Definitions : Lifecycle!Snapshot(s, v, n, d)
  <2>1. registry[s].working \in Definitions
    BY <1>1, <1>5 DEF TypeOK, Lifecycle!Activate, Lifecycle!Is
  <2> QED
    BY <1>4, <1>5, <2>1 DEF Lifecycle!Activate
<1>6. ASSUME NEW v \in Versions, NEW d \in Definitions, Lifecycle!LateActivate(s, v, d)
      PROVE  \E n \in Nat \ {0} : Lifecycle!Snapshot(s, v, n, d)
  <2>1. Lifecycle!Snapshot(s, v, 1, d)
    BY <1>6, Zenon DEF Lifecycle!LateActivate
  <2> QED
    BY <1>4, <2>1
<1>7. ASSUME NEW v \in Versions, NEW d \in Definitions,
             Lifecycle!AddVersion(s, v, d) \/ Lifecycle!LateVersion(s, v, d)
      PROVE  \E n \in Nat \ {0} : Lifecycle!Snapshot(s, v, n, d)
  <2>1. \A m \in Lifecycle!NumbersOf(s) : m \in Nat
    BY <1>1 DEF TypeOK, Lifecycle!NumbersOf, Lifecycle!SnapshotsOf
  <2>2. PICK n \in Nat : Lifecycle!Snapshot(s, v, n + 1, d)
    BY <1>7, <2>1 DEF Lifecycle!AddVersion, Lifecycle!LateVersion
  <2>3. n + 1 \in Nat \ {0}
    OBVIOUS
  <2> QED
    BY <2>2, <2>3
<1> QED
  BY <1>2, <1>3, <1>5, <1>6, <1>7

\* An approval is granted when it is committed; a replay grants nothing.
LEMMA CommitGrants ==
    ASSUME GInv, NEW r \in Requests, CommitApproval(r)
    PROVE  \/ \E v \in Versions, t \in Tools : Grants!Grant(v, t)
           \/ UNCHANGED <<RequestedView, GrantedView, OfferedView>>
<1> DEFINE row == tx[r].row
<1>1. /\ pc[r] = "commit" /\ history' = history /\ served' = served
      /\ approvals' = [approvals EXCEPT ![r] = row]
  BY DEF CommitApproval
<1>2. /\ TypeOK /\ approvals[r] = NULL
      /\ row # NULL => Rightful(row) /\ ~Granted(row.version, row.tool)
  BY <1>1 DEF GInv, AInv, GrantSound, Committed
<1>3. RequestedView' = RequestedView /\ OfferedView' = OfferedView
  BY <1>1 DEF RequestedView, OfferedView
<1>4. /\ approvals'[r] = row
      /\ \A q \in Requests \ {r} : approvals'[q] = approvals[q]
  BY <1>1, <1>2 DEF TypeOK
<1> HIDE DEF row
<1>5. CASE row = NULL
  <2>1. approvals' = approvals
    BY <1>1, <1>2, <1>5 DEF TypeOK
  <2> QED
    BY <1>3, <2>1 DEF GrantedView
<1>6. CASE row # NULL
  <2>1. /\ row.version \in Versions /\ row.tool \in Tools
        /\ history[row.version] # NULL
        /\ row.tool \in history[row.version].definition.requested_tools
    BY <1>2, <1>6 DEF Rightful, ToolApproval
  <2>2. RequestedView[row.version] # NULL /\ row.tool \in RequestedView[row.version]
    BY <1>2, <2>1, ViewOfRequested
  <2>3. <<row.version, row.tool>> \notin GrantedView
    BY <1>2, <1>6, ViewOfGrants
  <2>4. GrantedView' = GrantedView \union {<<row.version, row.tool>>}
    BY <1>2, <1>4, <1>6 DEF GrantedView
  <2> QED
    BY <1>3, <2>1, <2>2, <2>3, <2>4 DEF Grants!Grant
<1> QED
  BY <1>5, <1>6

\* An answer offers versions that are there, with all that is granted to them.
LEMMA ServeOffers ==
    ASSUME GInv, NEW r \in Requests, pc[r] # "done",
           history' = history, approvals' = approvals,
           NEW payload \in SUBSET Payload, Serve(r, payload),
           \A e \in payload : /\ history[e.version] # NULL
                              /\ e.approved_tools = approved_tools(e.version)
    PROVE  Grants!Offer(r)
<1> DEFINE chosen == {e.version : e \in payload}
<1>1. /\ TypeOK /\ served[r] = NULL /\ payload # NULL
      /\ \A e \in payload : e.version \in Versions
  BY ViewAssumption DEF GInv, AInv, Payload
<1>2. RequestedView' = RequestedView /\ GrantedView' = GrantedView
  BY DEF RequestedView, GrantedView
<1>3. chosen \in SUBSET {v \in Versions : RequestedView[v] # NULL}
  BY <1>1, ViewOfRequested
<1>4. \A e \in payload : e.approved_tools = Grants!GrantedTo(e.version)
  BY <1>1, GrantedTools DEF GInv
<1>5. {<<e.version, e.approved_tools>> : e \in payload}
         = {<<v, Grants!GrantedTo(v)>> : v \in chosen}
  BY <1>4
<1>6. /\ OfferedView[r] = NULL
      /\ OfferedView'[r] = {<<e.version, e.approved_tools>> : e \in payload}
      /\ OfferedView' = [OfferedView EXCEPT
                           ![r] = {<<e.version, e.approved_tools>> : e \in payload}]
  <2> DEFINE offers == {<<e.version, e.approved_tools>> : e \in payload}
  <2>1. served'[r] = payload /\ \A q \in Requests \ {r} : served'[q] = served[q]
    BY <1>1 DEF Serve, TypeOK
  <2>2. OfferedView[r] = NULL /\ OfferedView'[r] = offers
    BY <1>1, <2>1 DEF OfferedView
  <2>3. \A q \in Requests \ {r} : OfferedView'[q] = OfferedView[q]
    BY <2>1 DEF OfferedView
  <2> HIDE DEF offers
  <2>4. OfferedView' = [OfferedView EXCEPT ![r] = offers]
    BY <2>2, <2>3 DEF OfferedView
  <2> QED
    BY <2>2, <2>4 DEF offers
<1>7. OfferedView'[r] # NULL
  <2>1. {<<e.version, e.approved_tools>> : e \in payload}
           \in SUBSET (Versions \X SUBSET Tools)
    BY DEF Payload
  <2> QED
    BY <1>6, <2>1, ViewAssumption
<1> QED
  BY <1>2, <1>3, <1>5, <1>6, <1>7 DEF Grants!Offer

LEMMA SelectApprovalsOffers ==
    ASSUME GInv, NEW r \in Requests, SelectApprovals(r)
    PROVE  Grants!Offer(r)
<1> DEFINE active == tx[r].active_versions
           payload == {[skill |-> s, department |-> tx[r].department,
                        version |-> active[s], approved_tools |-> approved_tools(active[s])]
                         : s \in DOMAIN active}
<1>1. /\ pc[r] = "approvals" /\ history' = history /\ Serve(r, payload)
  BY DEF SelectApprovals
<1>2. /\ TypeOK /\ tx[r] \in Selecting
      /\ \A s \in DOMAIN active : active[s] \in Lifecycle!SnapshotsOf(s)
  BY <1>1 DEF GInv, AInv, SelectSound
<1>3. tx[r].department \in Departments /\ DOMAIN active \in SUBSET Skills
  BY <1>2 DEF Selecting
<1> HIDE DEF active
<1>4. ASSUME NEW s \in DOMAIN active
      PROVE  /\ active[s] \in Versions /\ history[active[s]] # NULL
             /\ approved_tools(active[s]) \in SUBSET Tools
  BY <1>2, ViewOfRequested DEF Lifecycle!SnapshotsOf, approved_tools
<1>5. payload \in SUBSET Payload
  BY <1>3, <1>4 DEF Payload
<1>6. \A e \in payload : /\ history[e.version] # NULL
                         /\ e.approved_tools = approved_tools(e.version)
  BY <1>4
<1>7. approvals' = approvals
  BY <1>1 DEF Serve
<1> HIDE DEF payload
<1> QED
  BY <1>1, <1>5, <1>6, <1>7, ServeOffers

LEMMA StepsOfGrants ==
    GInv /\ [Next]_vars => [Grants!Next]_<<RequestedView, GrantedView, OfferedView>>
<1> SUFFICES ASSUME GInv, [Next]_vars
             PROVE  Grants!Next \/ UNCHANGED <<RequestedView, GrantedView, OfferedView>>
  OBVIOUS
<1>1. CASE UNCHANGED <<history, approvals, served>>
  BY <1>1 DEF RequestedView, GrantedView, OfferedView
<1>2. CASE RegistryCommits
  <2>1. GrantedView' = GrantedView /\ OfferedView' = OfferedView
    BY <1>2 DEF RegistryCommits, GrantedView, OfferedView
  <2>2. AInv /\ AInv' /\ TypeOK /\ TypeOK'
    BY EveryStep DEF GInv, AInv
  <2>3. CASE history' = history
    BY <2>1, <2>3 DEF RequestedView
  <2>4. ASSUME NEW s \in Skills, NEW v \in Versions, NEW n \in Nat \ {0},
               NEW d \in Definitions, Lifecycle!Snapshot(s, v, n, d)
        PROVE  Grants!Publish(v)
    <3>1. history'[v] = [skill |-> s, number |-> n, definition |-> d]
      BY <2>2, <2>4 DEF Lifecycle!Snapshot, TypeOK
    <3>2. history'[v] # NULL
      BY <3>1, NullAssumption
    <3> QED
      BY <2>1, <2>2, <2>4, <3>2, SnapshotPublishes
  <2> QED
    BY <1>2, <2>2, <2>3, <2>4, RegistryPublishes DEF Grants!Next
<1>3. ASSUME NEW r \in Requests, CommitApproval(r)
      PROVE  Grants!Next \/ UNCHANGED <<RequestedView, GrantedView, OfferedView>>
  BY <1>3, CommitGrants DEF Grants!Next
<1>4. ASSUME NEW r \in Requests, LoadVersions(r), Serve(r, {}) PROVE Grants!Next
  <2>1. pc[r] # "done" /\ history' = history /\ approvals' = approvals
    BY <1>4 DEF LoadVersions, Serve
  <2>2. Grants!Offer(r)
    BY <1>4, <2>1, ServeOffers
  <2> QED
    BY <2>2 DEF Grants!Next
<1>5. ASSUME NEW r \in Requests, SelectApprovals(r) PROVE Grants!Next
  BY <1>5, SelectApprovalsOffers DEF Grants!Next
<1> QED
  BY <1>1, <1>2, <1>3, <1>4, <1>5, WhatIsWritten

(* approve_tool and get_active_skills_for_department implement ToolGrants: *)
(* however their statements interleave with each other and with lifecycle  *)
(* commits, a tool is granted once, to a version that requests it, and for *)
(* good, and a selection is answered with versions of which each has       *)
(* exactly the tools that are granted to it at the selection's last        *)
(* statement.                                                              *)
THEOREM SelectionsOfferGrants == Spec => ImplementsGrants
<1>1. Init => Grants!Init
  BY DEF Init, Lifecycle!Init, Grants!Init, RequestedView, GrantedView, OfferedView
<1> QED
  BY <1>1, StepsOfGrants, GrantsHold, PTL DEF Spec, ImplementsGrants, Grants!Spec
=============================================================================
