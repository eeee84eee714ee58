------------------------ MODULE SkillRegistry_proofs ------------------------
(***************************************************************************)
(* Proofs about SkillRegistry, for every set of requests, organizations,   *)
(* fields and values and every size of the pool.                           *)
(***************************************************************************)
EXTENDS SkillRegistry, TLAPS

(* The rows: ids are fresh, and a version has the skill it names.          *)
RowsSound ==
    /\ \A r \in Requests : pc[r] = "idle" => skills[r] = NULL
    /\ \A r \in Requests : versions[r] # NULL => pc[r] \in {"respond", "done", "lost"}
    /\ \A v \in Requests : versions[v] # NULL =>
          /\ skills[versions[v].skill_id] # NULL
          /\ versions[v].organization_id = skills[versions[v].skill_id].organization_id

Working  == {"number", "find", "insert", "log", "update", "commit"}
Inserted == {"log", "update", "commit"}

(* What a session is going to write, related to the rows as they are now.  *)
SessionSound(r) ==
    LET t == tx[r]
        s == t.skill_id
        w == t.writes
        v == t.version
    IN
    /\ skills[s] # NULL
    /\ t.skill # NULL
    /\ t.skill.organization_id = skills[s].organization_id
    /\ w.status # "draft"
    /\ w.status = "active" => w.active_version_id # NULL
    /\ w.active_version_id # NULL =>
          \/ w.active_version_id \in HistoryOf(s)
          \/ v # NULL /\ w.active_version_id = r
    /\ v # NULL =>
          /\ v.skill_id = s
          /\ v.organization_id = skills[s].organization_id
          /\ \A k \in 1 .. v.version_number - 1 : k \in NumbersOf(s)
          /\ w.status = "active" \/ skills[s].status # "draft"
    /\ v # NULL /\ pc[r] \in Inserted =>
          /\ v.version_number \notin NumbersOf(s)
          /\ \A q \in Requests \ {r} :
                pc[q] \in Inserted /\ tx[q].version # NULL => ~SameNumber(tx[q].version, v)
    /\ pc[r] = "number" =>
          t.payload # NULL /\ w = NoWrites /\ v = NULL /\ skills[s].status # "draft"
    /\ pc[r] = "find" => t.version_id # NULL /\ w = NoWrites /\ v = NULL
    /\ pc[r] = "insert" => v # NULL

SessionsSound ==
    /\ \A r \in Requests : tx[r] = NULL <=> pc[r] \in Waiting
    /\ \A r \in Requests : pc[r] \in Working => SessionSound(r)

IInv ==
    /\ TypeOK
    /\ RowsSound
    /\ SessionsSound
    /\ ContiguousHistory
    /\ LifecycleShape

----------------------------------------------------------------------------
(* Types.                                                                  *)

(* Merging the columns of an UPDATE into a row leaves a row.               *)
LEMMA MergeType ==
    ASSUME NEW row \in Skill, NEW w \in Writes
    PROVE  Merge(row, w) \in Skill
<1>1. PICK S \in SUBSET Fields : w.working \in [S -> Values]
  BY DEF Writes, Patches
<1>2. row.working \in [Fields -> Values]
  BY DEF Skill, Definitions
<1>3. [f \in Fields |-> IF f \in DOMAIN w.working THEN w.working[f]
                       ELSE row.working[f]] \in Definitions
  BY <1>1, <1>2 DEF Definitions
<1> QED
  BY <1>3, NullAssumption DEF Merge, Skill, Writes

(* An audit row built by record_audit has the columns' types.              *)
LEMMA AuditType ==
    ASSUME NEW r \in Requests, NEW t, t.actor \in Actors, t.skill_id \in Requests,
           NEW event \in Events, NEW v \in Requests \union {NULL},
           NEW hash \in Hashes \union {NULL}
    PROVE  record_audit(r, t, event, v, hash) \in AuditLog
BY DEF record_audit, AuditLog, Actors

LEMMA ActivationType ==
    ASSUME NEW r \in Requests, NEW t, t.actor \in Actors, t.skill_id \in Requests,
           t.skill \in Skill, NEW v \in Requests \union {NULL},
           NEW hash \in Hashes \union {NULL}
    PROVE  Activation(r, t, v, hash) \in AuditLog
<1>1. record_audit(r, t, "skill.activated", v, hash) \in AuditLog
  BY AuditType DEF Events
<1> QED
  BY <1>1 DEF Activation, AuditLog, Skill

(* The row an INSERT carries has the columns' types, and so has its hash.  *)
LEMMA NewVersionType ==
    ASSUME NEW t, t.skill \in Skill, t.skill_id \in Requests,
           NEW n \in Nat \ {0}, NEW d \in Definitions
    PROVE  /\ NewVersion(t, n, d) \in SkillVersion
           /\ NewVersion(t, n, d).version_hash \in Hashes
BY DEF NewVersion, SkillVersion, compute_version_hash, Hashes, Skill

LEMMA NoWritesType == NoWrites \in Writes
<1>1. [f \in {} |-> NULL] \in Patches
  <2>1. [f \in {} |-> NULL] \in [{} -> Values]
    OBVIOUS
  <2> QED
    BY <2>1 DEF Patches
<1> QED
  BY <1>1 DEF NoWrites, Writes

(* A session opens with nothing to write.                                  *)
LEMMA SessionType ==
    ASSUME TypeOK, NEW a \in Actors, NEW s \in Requests,
           NEW op \in {"create", "update", "version", "activate", "disable"}
    PROVE  Session(op, a, s) \in Sessions
<1>1. skills[s] \in Skill \union {NULL}
  BY DEF TypeOK
<1>2. << >> \in Seq(AuditLog)
  OBVIOUS
<1> QED
  BY <1>1, <1>2, NoWritesType DEF Session, Sessions

LEMMA HashType ==
    ASSUME TypeOK, NEW v \in Requests, versions[v] # NULL
    PROVE  HashOf(v) \in Hashes
BY NullAssumption DEF TypeOK, HashOf, SkillVersion

LEMMA ProceedType ==
    ASSUME TypeOK, NEW r \in Requests, NEW step \in Steps, NEW t \in Sessions,
           Proceed(r, step, t)
    PROVE  TypeOK'
BY DEF Proceed, TypeOK

LEMMA AnswerType ==
    ASSUME TypeOK, NEW r \in Requests, NEW code \in {200, 201, 403, 404, 409, 500},
           Answer(r, code)
    PROVE  TypeOK'
BY DEF Answer, TypeOK, Steps

LEMMA IdsType ==
    ASSUME NEW rows, NEW r \in Requests
    PROVE  Ids(rows, r) \subseteq Requests
BY DEF Ids

LEMMA PreparedType ==
    ASSUME NEW t \in Sessions, NEW w \in Writes, NEW v \in SkillVersion \union {NULL},
           NEW log \in Seq(AuditLog)
    PROVE  /\ Prepared(t, w, v, log) \in Sessions
           /\ Prepared(t, w, v, log).op = t.op
           /\ Prepared(t, w, v, log).actor = t.actor
           /\ Prepared(t, w, v, log).skill_id = t.skill_id
           /\ Prepared(t, w, v, log).version_id = t.version_id
           /\ Prepared(t, w, v, log).payload = t.payload
           /\ Prepared(t, w, v, log).skill = t.skill
           /\ Prepared(t, w, v, log).writes = w
           /\ Prepared(t, w, v, log).version = v
           /\ Prepared(t, w, v, log).log = log
BY DEF Prepared, Sessions

LEMMA NothingInsertedType ==
    ASSUME NEW t \in Sessions, NEW w \in Writes, NEW log \in Seq(AuditLog)
    PROVE  /\ Prepared(t, w, NULL, log) \in Sessions
           /\ Prepared(t, w, NULL, log).skill_id = t.skill_id
           /\ Prepared(t, w, NULL, log).skill = t.skill
           /\ Prepared(t, w, NULL, log).writes = w
           /\ Prepared(t, w, NULL, log).version = NULL
<1>1. NULL \in SkillVersion \union {NULL}
  OBVIOUS
<1> QED
  BY <1>1, PreparedType

LEMMA PayloadType ==
    ASSUME NEW t \in Sessions, NEW d \in Definitions
    PROVE  [t EXCEPT !.payload = d] \in Sessions
BY DEF Sessions

LEMMA VersionIdType ==
    ASSUME NEW t \in Sessions, NEW v \in Requests \union {NULL}
    PROVE  [t EXCEPT !.version_id = v] \in Sessions
BY DEF Sessions

LEMMA ActivateType ==
    ASSUME NEW v \in Requests \union {NULL}, NEW status \in SkillStatus \union {NULL}
    PROVE  Activate(v, status) \in Writes
BY NoWritesType DEF Activate, Writes

(* Dating the rows of a log changes their created_at, and nothing else.    *)
LEMMA DatedType ==
    ASSUME NEW log \in Seq(AuditLog), NEW now \in Nat
    PROVE  /\ Dated(log, now) \in Seq(AuditLog)
           /\ DOMAIN Dated(log, now) = DOMAIN log
           /\ Len(Dated(log, now)) = Len(log)
           /\ \A i \in DOMAIN log :
                Dated(log, now)[i] = [log[i] EXCEPT !.created_at = now + i]
<1>1. DOMAIN log = 1 .. Len(log) /\ Len(log) \in Nat
  OBVIOUS
<1>2. ASSUME NEW i \in DOMAIN log
      PROVE  [log[i] EXCEPT !.created_at = now + i] \in AuditLog
  <2>1. log[i] \in AuditLog
    BY <1>2
  <2>2. now + i \in Nat
    BY <1>1, <1>2
  <2> QED
    BY <2>1, <2>2 DEF AuditLog
<1>3. Dated(log, now) \in [1 .. Len(log) -> AuditLog]
  BY <1>1, <1>2 DEF Dated
<1> QED
  BY <1>1, <1>3 DEF Dated

(* The rows of every open session are audit rows: an instant is a number.  *)
LEMMA InstantsType ==
    ASSUME TypeOK, SessionsSound
    PROVE  Instants \subseteq Nat
<1>1. ASSUME NEW i \in DOMAIN audit PROVE audit[i].created_at \in Nat
  <2>1. audit[i] \in AuditLog
    BY <1>1 DEF TypeOK
  <2> QED
    BY <2>1 DEF AuditLog
<1>2. ASSUME NEW q \in InFlight, NEW i \in DOMAIN tx[q].log
      PROVE  tx[q].log[i].created_at \in Nat
  <2>1. tx[q].log \in Seq(AuditLog)
    BY <1>2 DEF TypeOK, Sessions, InFlight, SessionsSound
  <2>2. tx[q].log[i] \in AuditLog
    BY <1>2, <2>1
  <2> QED
    BY <2>2 DEF AuditLog
<1>3. \A q \in InFlight : {tx[q].log[i].created_at : i \in DOMAIN tx[q].log} \subseteq Nat
  BY <1>2
<1>4. {audit[i].created_at : i \in DOMAIN audit} \subseteq Nat
  BY <1>1
<1> QED
  BY <1>3, <1>4 DEF Instants

LEMMA OneRowType ==
    ASSUME NEW e \in AuditLog PROVE <<e>> \in Seq(AuditLog)
OBVIOUS

----------------------------------------------------------------------------
(* The steps that leave the rows alone: what a session may do before its   *)
(* commit, and how it may end.                                             *)

\* Rows that do not change keep their histories.
LEMMA SameHistories ==
    ASSUME versions' = versions
    PROVE  /\ \A s : HistoryOf(s)' = HistoryOf(s)
           /\ \A s : NumbersOf(s)' = NumbersOf(s)
BY DEF HistoryOf, NumbersOf

LEMMA SameRows ==
    ASSUME ContiguousHistory, LifecycleShape, skills' = skills, versions' = versions
    PROVE  ContiguousHistory' /\ LifecycleShape'
BY SameHistories DEF ContiguousHistory, LifecycleShape, SameNumber

\* A session that prepares its transaction disturbs no other session.
LEMMA ProceedKeeps ==
    ASSUME IInv, NEW r \in Requests, NEW step \in Working, NEW t \in Sessions,
           t # NULL, pc[r] # "respond", pc[r] # "done", pc[r] # "lost",
           Proceed(r, step, t), SessionSound(r)'
    PROVE  IInv'
<1>1. step \in Steps
  BY DEF Working, Steps
<1>2. TypeOK'
  BY <1>1, ProceedType DEF IInv
<1>3. /\ skills' = skills /\ versions' = versions
      /\ pc'[r] = step /\ tx'[r] = t
      /\ \A q \in Requests \ {r} : pc'[q] = pc[q] /\ tx'[q] = tx[q]
  BY DEF IInv, TypeOK, Proceed
<1>4. ContiguousHistory' /\ LifecycleShape'
  BY <1>3, SameRows DEF IInv
<1>5. RowsSound'
  BY <1>3 DEF IInv, RowsSound, Working
<1>6. \A q \in Requests : tx'[q] = NULL <=> pc'[q] \in Waiting
  BY <1>3 DEF IInv, SessionsSound, Working, Waiting
<1>7. ASSUME NEW q \in Requests \ {r}, pc'[q] \in Working PROVE SessionSound(q)'
  <2>1. SessionSound(q) /\ pc'[q] = pc[q] /\ tx'[q] = tx[q]
    BY <1>3, <1>7 DEF IInv, SessionsSound
  <2>2. ASSUME tx[q].version # NULL, pc[q] \in Inserted,
               NEW u \in Requests \ {q}, pc'[u] \in Inserted, tx'[u].version # NULL
        PROVE  ~SameNumber(tx'[u].version, tx'[q].version)
    <3>1. CASE u = r
      BY <2>1, <2>2, <3>1 DEF SessionSound, SameNumber
    <3>2. CASE u # r
      BY <1>3, <2>1, <2>2, <3>2 DEF SessionSound
    <3> QED
      BY <3>1, <3>2
  <2> QED
    BY <1>3, <2>1, <2>2, SameHistories DEF SessionSound, SameNumber
<1> QED
  BY <1>2, <1>4, <1>5, <1>6, <1>7 DEF IInv, SessionsSound

\* A session that ends without a commit leaves nothing to disturb.
LEMMA EndingKeeps ==
    ASSUME IInv, TypeOK', NEW r \in Requests, NEW step \in {"done", "lost"},
           pc' = [pc EXCEPT ![r] = step], tx' = [tx EXCEPT ![r] = NULL],
           UNCHANGED <<skills, versions>>
    PROVE  IInv'
<1>1. /\ pc'[r] = step /\ tx'[r] = NULL
      /\ \A q \in Requests \ {r} : pc'[q] = pc[q] /\ tx'[q] = tx[q]
  BY DEF IInv, TypeOK
<1>2. ContiguousHistory' /\ LifecycleShape'
  BY SameRows DEF IInv
<1>3. RowsSound'
  BY <1>1 DEF IInv, RowsSound
<1>4. \A q \in Requests : tx'[q] = NULL <=> pc'[q] \in Waiting
  BY <1>1 DEF IInv, SessionsSound, Waiting
<1>5. ASSUME NEW q \in Requests, pc'[q] \in Working PROVE SessionSound(q)'
  <2>1. q # r
    BY <1>1, <1>5 DEF Working
  <2>2. SessionSound(q)
    BY <1>1, <1>5, <2>1 DEF IInv, SessionsSound
  <2>3. \A u \in Requests : pc'[u] \in Inserted => pc[u] \in Inserted /\ tx'[u] = tx[u]
    BY <1>1 DEF Inserted
  <2> QED
    BY <1>1, <2>1, <2>2, <2>3, SameHistories DEF SessionSound, SameNumber
<1> QED
  BY <1>2, <1>3, <1>4, <1>5 DEF IInv, SessionsSound

LEMMA AnswerKeeps ==
    ASSUME IInv, NEW r \in Requests, NEW code \in {200, 201, 403, 404, 409, 500},
           Answer(r, code)
    PROVE  IInv'
<1>1. TypeOK'
  BY AnswerType DEF IInv
<1> QED
  BY <1>1, EndingKeeps DEF Answer

LEMMA LoseKeeps ==
    ASSUME IInv, NEW r \in Requests, Lose(r)
    PROVE  IInv'
<1>1. TypeOK'
  BY DEF IInv, TypeOK, Lose, Steps
<1> QED
  BY <1>1, EndingKeeps DEF Lose

LEMMA AdmitFacts ==
    ASSUME IInv, NEW r \in Requests, Admit(r)
    PROVE  pc[r] = "idle" /\ tx[r] = NULL /\ versions[r] = NULL /\ skills[r] = NULL
BY DEF Admit, Arrived, IInv, SessionsSound, RowsSound, Waiting

LEMMA NoWritesColumns ==
    /\ NoWrites.status = NULL
    /\ NoWrites.active_version_id = NULL
BY DEF NoWrites

LEMMA UpdateSkillDraftKeeps ==
    ASSUME IInv, NEW r \in Requests, NEW a \in Memberships, NEW s \in Requests,
           NEW p \in Patches, UpdateSkillDraft(r, a, s, p)
    PROVE  IInv'
<1> DEFINE t       == Session("update", a, s)
           changed == {f \in DOMAIN p : p[f] # skills[s].working[f]}
           w       == [NoWrites EXCEPT !.working = [f \in changed |-> p[f]]]
           log     == <<record_audit(r, t, "skill.draft_updated", NULL, NULL)>>
           u       == Prepared(t, w, NULL, log)
<1> USE DEF IInv
<1>1. a \in Actors
  BY MembershipsAssumption
<1>2. /\ t \in Sessions /\ t.actor = a /\ t.skill_id = s
      /\ t.skill = skills[s] /\ t.version = NULL
  BY <1>1, SessionType DEF Session
<1>3. log \in Seq(AuditLog)
  BY <1>1, <1>2, AuditType, OneRowType DEF Events
<1>4. [f \in changed |-> p[f]] \in Patches
  <2>1. PICK S \in SUBSET Fields : p \in [S -> Values]
    BY DEF Patches
  <2>2. changed \in SUBSET Fields /\ [f \in changed |-> p[f]] \in [changed -> Values]
    BY <2>1
  <2> QED
    BY <2>2 DEF Patches
<1>5. w \in Writes /\ w.status = NULL /\ w.active_version_id = NULL
  BY <1>4, NoWritesType, NoWritesColumns DEF Writes
<1>6. pc[r] = "idle"
  BY AdmitFacts DEF UpdateSkillDraft
<1>7. \/ \E code \in {200, 404, 409} : Answer(r, code)
      \/ /\ Visible(a, s)
         /\ Proceed(r, "log", u)
  BY DEF UpdateSkillDraft
<1> HIDE DEF t, w, log
<1>8. /\ u \in Sessions /\ u.skill_id = s /\ u.skill = skills[s]
      /\ u.writes = w /\ u.version = NULL
  BY <1>2, <1>3, <1>5, NothingInsertedType
<1> HIDE DEF u
<1>9. ASSUME Visible(a, s), Proceed(r, "log", u) PROVE IInv'
  <2>1. pc'[r] = "log" /\ tx'[r] = u /\ skills' = skills /\ versions' = versions
    BY <1>9 DEF Proceed, TypeOK
  <2>2. SessionSound(r)'
    BY <1>5, <1>8, <1>9, <2>1, NullAssumption DEF SessionSound, Visible, Inserted, SkillStatus
  <2> QED
    BY <1>6, <1>8, <1>9, <2>2, ProceedKeeps, NullAssumption DEF Inserted, Working
<1> QED
  BY <1>7, <1>9, AnswerKeeps

LEMMA CreateSkillVersionKeeps ==
    ASSUME IInv, NEW r \in Requests, NEW a \in Memberships, NEW s \in Requests,
           NEW d \in Definitions, CreateSkillVersion(r, a, s, d)
    PROVE  IInv'
<1> DEFINE t == Session("version", a, s)
           u == [t EXCEPT !.payload = d]
<1> USE DEF IInv
<1>1. /\ t \in Sessions /\ t.skill_id = s
      /\ t.skill = skills[s] /\ t.version = NULL /\ t.writes = NoWrites
  BY MembershipsAssumption, SessionType DEF Session
<1>2. pc[r] = "idle"
  BY AdmitFacts DEF CreateSkillVersion
<1>3. \/ \E code \in {404, 409} : Answer(r, code)
      \/ Visible(a, s) /\ skills[s].status = "active" /\ Proceed(r, "number", u)
  BY DEF CreateSkillVersion
<1> HIDE DEF t
<1>4. /\ u \in Sessions /\ u.skill_id = s /\ u.skill = skills[s]
      /\ u.version = NULL /\ u.writes = NoWrites /\ u.payload = d
  BY <1>1, PayloadType DEF Sessions
<1> HIDE DEF u
<1>5. ASSUME Visible(a, s), skills[s].status = "active", Proceed(r, "number", u)
      PROVE  IInv'
  <2>1. pc'[r] = "number" /\ tx'[r] = u /\ skills' = skills /\ versions' = versions
    BY <1>5 DEF Proceed, TypeOK
  <2>2. SessionSound(r)'
    BY <1>4, <1>5, <2>1, NullAssumption, NoWritesColumns
       DEF SessionSound, Visible, Inserted, SkillStatus
  <2> QED
    BY <1>2, <1>4, <1>5, <2>2, ProceedKeeps, NullAssumption DEF Working
<1> QED
  BY <1>3, <1>5, AnswerKeeps

LEMMA ActivateSkillKeeps ==
    ASSUME IInv, NEW r \in Requests, NEW a \in Memberships,
           NEW s \in Requests, NEW version_id \in Requests \union {NULL},
           ActivateSkill(r, a, s, version_id)
    PROVE  IInv'
<1> DEFINE t       == [Session("activate", a, s) EXCEPT !.version_id = version_id]
           current == skills[s].active_version_id
           v1      == NewVersion(t, 1, skills[s].working)
           w       == Activate(r, "active")
           replay  == <<record_audit(r, t, "skill.activation_replayed",
                                     current, HashOf(current))>>
           launch  == <<record_audit(r, t, "skill.version_created", r, v1.version_hash),
                        Activation(r, t, r, v1.version_hash)>>
           replayed == Prepared(t, NoWrites, NULL, replay)
           launched == Prepared(t, w, v1, launch)
<1> USE DEF IInv
<1>1. a \in Actors /\ pc[r] = "idle"
  BY MembershipsAssumption, AdmitFacts DEF ActivateSkill
<1>2. t \in Sessions
  BY <1>1, SessionType, VersionIdType
<1>3. /\ t.actor = a /\ t.skill_id = s /\ t.skill = skills[s]
      /\ t.version = NULL /\ t.writes = NoWrites /\ t.version_id = version_id
  BY DEF Session
<1>4. \/ \E code \in {403, 404, 409} : Answer(r, code)
      \/ Visible(a, s) /\ skills[s].status = "active" /\ Proceed(r, "log", replayed)
      \/ Visible(a, s) /\ Proceed(r, "insert", launched)
      \/ Visible(a, s) /\ version_id # NULL /\ Proceed(r, "find", t)
  BY DEF ActivateSkill
<1> HIDE DEF t
<1>5. ASSUME Visible(a, s) PROVE skills[s] # NULL /\ skills[s] \in Skill
  BY <1>5 DEF Visible, TypeOK
<1>6. ASSUME Visible(a, s), skills[s].status = "active", Proceed(r, "log", replayed)
      PROVE  IInv'
  <2>1. current \in Requests /\ versions[current] # NULL
    BY <1>5, <1>6 DEF LifecycleShape, HistoryOf
  <2>2. HashOf(current) \in Hashes
    BY <2>1, HashType
  <2>3. replay \in Seq(AuditLog)
    BY <1>1, <1>3, <2>1, <2>2, AuditType, OneRowType DEF Events
  <2> HIDE DEF replay
  <2>4. /\ replayed \in Sessions /\ replayed.skill_id = s /\ replayed.skill = skills[s]
        /\ replayed.writes = NoWrites /\ replayed.version = NULL
    BY <1>2, <1>3, <2>3, NoWritesType, NothingInsertedType
  <2> HIDE DEF replayed
  <2>5. pc'[r] = "log" /\ tx'[r] = replayed /\ skills' = skills /\ versions' = versions
    BY <1>6 DEF Proceed, TypeOK
  <2>6. SessionSound(r)'
    BY <1>5, <1>6, <2>4, <2>5, NullAssumption, NoWritesColumns
       DEF SessionSound, SkillStatus
  <2> QED
    BY <1>1, <1>6, <2>4, <2>6, ProceedKeeps, NullAssumption DEF Working
<1>7. ASSUME Visible(a, s), Proceed(r, "insert", launched) PROVE IInv'
  <2>1. skills[s].working \in Definitions
    BY <1>5, <1>7 DEF Skill
  <2>2. v1 \in SkillVersion /\ v1.version_hash \in Hashes
    BY <1>3, <1>5, <1>7, <2>1, NewVersionType
  <2>3. /\ v1.skill_id = s /\ v1.version_number = 1
        /\ v1.organization_id = skills[s].organization_id
    BY <1>3 DEF NewVersion
  <2>4. w \in Writes /\ w.status = "active" /\ w.active_version_id = r
    BY ActivateType, NoWritesType DEF SkillStatus, Activate, Writes
  <2> HIDE DEF v1, w
  <2>5. record_audit(r, t, "skill.version_created", r, v1.version_hash) \in AuditLog
    BY <1>1, <1>3, <2>2, AuditType DEF Events
  <2>6. Activation(r, t, r, v1.version_hash) \in AuditLog
    BY <1>1, <1>3, <1>5, <1>7, <2>2, ActivationType
  <2>7. launch \in Seq(AuditLog)
    BY <2>5, <2>6
  <2> HIDE DEF launch
  <2>8. /\ launched \in Sessions /\ launched.skill_id = s /\ launched.skill = skills[s]
        /\ launched.writes = w /\ launched.version = v1
    BY <1>2, <1>3, <2>2, <2>4, <2>7, PreparedType
  <2> HIDE DEF launched
  <2>9. pc'[r] = "insert" /\ tx'[r] = launched /\ skills' = skills /\ versions' = versions
    BY <1>7 DEF Proceed, TypeOK
  <2>10. SessionSound(r)'
    BY <1>5, <1>7, <2>2, <2>3, <2>4, <2>8, <2>9, NullAssumption
       DEF SessionSound, Inserted
  <2> QED
    BY <1>1, <1>7, <2>8, <2>10, ProceedKeeps, NullAssumption DEF Working
<1>8. ASSUME Visible(a, s), version_id # NULL, Proceed(r, "find", t) PROVE IInv'
  <2>1. pc'[r] = "find" /\ tx'[r] = t /\ skills' = skills /\ versions' = versions
    BY <1>8 DEF Proceed, TypeOK
  <2>2. SessionSound(r)'
    BY <1>3, <1>5, <1>8, <2>1, NullAssumption, NoWritesColumns
       DEF SessionSound, SkillStatus
  <2> QED
    BY <1>1, <1>2, <1>8, <2>2, ProceedKeeps, NullAssumption DEF Working
<1> QED
  BY <1>4, <1>6, <1>7, <1>8, AnswerKeeps

LEMMA DisableSkillKeeps ==
    ASSUME IInv, NEW r \in Requests, NEW a \in Memberships,
           NEW s \in Requests, DisableSkill(r, a, s)
    PROVE  IInv'
<1> DEFINE t        == Session("disable", a, s)
           current  == skills[s].active_version_id
           replay   == <<record_audit(r, t, "skill.disable_replayed",
                                      current, HashOf(current))>>
           disabled == record_audit(r, t, "skill.disabled", current, NULL)
           log      == <<[disabled EXCEPT !.previous_status = skills[s].status]>>
           w        == [NoWrites EXCEPT !.status = "disabled"]
           replayed == Prepared(t, NoWrites, NULL, replay)
           prepared == Prepared(t, w, NULL, log)
<1> USE DEF IInv
<1>1. a \in Actors /\ pc[r] = "idle"
  BY MembershipsAssumption, AdmitFacts DEF DisableSkill
<1>2. /\ t \in Sessions /\ t.actor = a /\ t.skill_id = s
      /\ t.skill = skills[s]
  BY <1>1, SessionType DEF Session
<1>3. \/ \E code \in {403, 404} : Answer(r, code)
      \/ Visible(a, s) /\ Proceed(r, "log", replayed)
      \/ Visible(a, s) /\ Proceed(r, "log", prepared)
  BY DEF DisableSkill
<1> HIDE DEF t
<1>4. ASSUME Visible(a, s)
      PROVE  /\ skills[s] # NULL /\ skills[s] \in Skill
             /\ current \in Requests \union {NULL} /\ skills[s].status \in SkillStatus
  BY <1>4 DEF Visible, TypeOK, Skill
<1>5. ASSUME Visible(a, s), Proceed(r, "log", replayed) PROVE IInv'
  <2>1. HashOf(current) \in Hashes \union {NULL}
    <3>1. CASE current = NULL
      BY <3>1 DEF HashOf
    <3>2. CASE current # NULL
      <4>1. current \in Requests /\ versions[current] # NULL
        BY <1>4, <1>5, <3>2 DEF LifecycleShape, HistoryOf
      <4> QED
        BY <4>1, HashType
    <3> QED
      BY <3>1, <3>2
  <2>2. replay \in Seq(AuditLog)
    BY <1>1, <1>2, <1>4, <1>5, <2>1, AuditType, OneRowType DEF Events
  <2> HIDE DEF replay
  <2>3. /\ replayed \in Sessions /\ replayed.skill_id = s /\ replayed.skill = skills[s]
        /\ replayed.writes = NoWrites /\ replayed.version = NULL
    BY <1>2, <2>2, NoWritesType, NothingInsertedType
  <2> HIDE DEF replayed
  <2>4. pc'[r] = "log" /\ tx'[r] = replayed /\ skills' = skills /\ versions' = versions
    BY <1>5 DEF Proceed, TypeOK
  <2>5. SessionSound(r)'
    BY <1>4, <1>5, <2>3, <2>4, NullAssumption, NoWritesColumns
       DEF SessionSound, SkillStatus
  <2> QED
    BY <1>1, <1>5, <2>3, <2>5, ProceedKeeps, NullAssumption DEF Working
<1>6. ASSUME Visible(a, s), Proceed(r, "log", prepared) PROVE IInv'
  <2>1. disabled \in AuditLog
    BY <1>1, <1>2, <1>4, <1>6, AuditType DEF Events
  <2> HIDE DEF disabled
  <2>2. [disabled EXCEPT !.previous_status = skills[s].status] \in AuditLog
    BY <1>4, <1>6, <2>1 DEF AuditLog
  <2>3. log \in Seq(AuditLog)
    BY <2>2, OneRowType
  <2>4. w \in Writes /\ w.status = "disabled" /\ w.active_version_id = NULL
    BY NoWritesType, NoWritesColumns DEF Writes, SkillStatus
  <2> HIDE DEF log, w
  <2>5. /\ prepared \in Sessions /\ prepared.skill_id = s /\ prepared.skill = skills[s]
        /\ prepared.writes = w /\ prepared.version = NULL
    BY <1>2, <2>3, <2>4, NothingInsertedType
  <2> HIDE DEF prepared
  <2>6. pc'[r] = "log" /\ tx'[r] = prepared /\ skills' = skills /\ versions' = versions
    BY <1>6 DEF Proceed, TypeOK
  <2>7. SessionSound(r)'
    BY <1>4, <1>6, <2>4, <2>5, <2>6, NullAssumption DEF SessionSound
  <2> QED
    BY <1>1, <1>6, <2>5, <2>7, ProceedKeeps, NullAssumption DEF Working
<1> QED
  BY <1>3, <1>5, <1>6, AnswerKeeps

----------------------------------------------------------------------------
(* The steps of a session, one lemma per action.                           *)

LEMMA SessionFacts ==
    ASSUME IInv, NEW r \in Requests, pc[r] \in Working
    PROVE  /\ tx[r] \in Sessions /\ tx[r].skill_id \in Requests
           /\ tx[r].actor \in Actors
           /\ tx[r].skill \in Skill
           /\ tx[r].writes \in Writes
           /\ tx[r].version \in SkillVersion \union {NULL}
           /\ tx[r].version_id \in Requests \union {NULL}
           /\ tx[r].payload \in Definitions \union {NULL}
           /\ tx[r].log \in Seq(AuditLog)
           /\ SessionSound(r)
           /\ versions[r] = NULL
<1>1. tx[r] # NULL /\ SessionSound(r)
  BY DEF IInv, SessionsSound, Working, Waiting
<1>2. tx[r] \in Sessions
  BY <1>1 DEF IInv, TypeOK
<1>3. versions[r] = NULL
  BY DEF IInv, RowsSound, Working
<1>4. tx[r].skill # NULL
  BY <1>1 DEF SessionSound
<1> QED
  BY <1>1, <1>2, <1>3, <1>4 DEF Sessions

\* Numbers are positive, and below a number that is taken all are.
LEMMA NumbersDownward ==
    ASSUME IInv, NEW s \in Requests
    PROVE  /\ NumbersOf(s) \subseteq Nat \ {0}
           /\ \A n \in NumbersOf(s) : \A k \in 1 .. n : k \in NumbersOf(s)
<1>1. \A v \in HistoryOf(s) : versions[v].version_number \in Nat \ {0}
  BY DEF IInv, TypeOK, HistoryOf, SkillVersion
<1>2. \A n \in NumbersOf(s) : \A k \in 1 .. n : k \in NumbersOf(s)
  BY DEF IInv, ContiguousHistory, NumbersOf
<1> QED
  BY <1>1, <1>2 DEF NumbersOf

LEMMA SelectMaxVersionKeeps ==
    ASSUME IInv, NEW r \in Requests, SelectMaxVersion(r)
    PROVE  IInv'
<1> DEFINE t == tx[r]
           s == t.skill_id
<1>1. pc[r] = "number"
  BY DEF SelectMaxVersion
<1>2. PICK n \in NumbersOf(s) \union {0} :
        /\ \A m \in NumbersOf(s) : m <= n
        /\ Proceed(r, "insert", Prepared(t, NoWrites, NewVersion(t, n + 1, t.payload),
              <<record_audit(r, t, "skill.version_created", r,
                             NewVersion(t, n + 1, t.payload).version_hash)>>))
  BY DEF SelectMaxVersion
<1> DEFINE v   == NewVersion(t, n + 1, t.payload)
           log == <<record_audit(r, t, "skill.version_created", r, v.version_hash)>>
           u   == Prepared(t, NoWrites, v, log)
<1>3. /\ t \in Sessions /\ s \in Requests /\ t.actor \in Actors
      /\ t.skill \in Skill /\ SessionSound(r)
      /\ t.payload \in Definitions \union {NULL}
  BY <1>1, SessionFacts DEF Working
<1>4. t.payload \in Definitions /\ skills[s].status # "draft"
      /\ t.skill.organization_id = skills[s].organization_id /\ skills[s] # NULL
  BY <1>1, <1>3 DEF SessionSound
<1>5. n \in Nat /\ \A k \in 1 .. n : k \in NumbersOf(s)
  BY <1>3, NumbersDownward
<1>6. v \in SkillVersion /\ v.version_hash \in Hashes
  BY <1>3, <1>4, <1>5, NewVersionType
<1>7. /\ v.skill_id = s /\ v.version_number = n + 1
      /\ v.organization_id = skills[s].organization_id
  BY <1>4 DEF NewVersion
<1> HIDE DEF v
<1>8. log \in Seq(AuditLog)
  BY <1>3, <1>6, AuditType, OneRowType DEF Events
<1> HIDE DEF log
<1>9. /\ u \in Sessions /\ u.skill_id = s /\ u.skill = t.skill
      /\ u.writes = NoWrites /\ u.version = v
  BY <1>3, <1>6, <1>8, NoWritesType, PreparedType
<1>10. Proceed(r, "insert", u)
  BY <1>2 DEF u, v, log
<1> HIDE DEF u
<1>11. pc'[r] = "insert" /\ tx'[r] = u /\ skills' = skills /\ versions' = versions
  BY <1>10 DEF Proceed, IInv, TypeOK
<1>12. \A x : NumbersOf(x)' = NumbersOf(x)
  BY <1>11, SameHistories
<1>13. \A k \in 1 .. v.version_number - 1 : k \in NumbersOf(s)
  BY <1>5, <1>7
<1>14. SessionSound(r)'
  BY <1>3, <1>4, <1>6, <1>7, <1>9, <1>11, <1>12, <1>13, NullAssumption, NoWritesColumns
     DEF SessionSound, Inserted, SkillStatus
<1> QED
  BY <1>1, <1>9, <1>10, <1>14, ProceedKeeps, NullAssumption DEF Working

LEMMA InsertVersionKeeps ==
    ASSUME IInv, NEW r \in Requests, InsertVersion(r)
    PROVE  IInv'
<1> DEFINE t == tx[r]
           s == t.skill_id
           v == t.version
<1>1. pc[r] = "insert"
  BY DEF InsertVersion
<1>2. t \in Sessions /\ s \in Requests /\ SessionSound(r)
  BY <1>1, SessionFacts DEF Working
<1>3. v # NULL /\ v.skill_id = s
  BY <1>1, <1>2 DEF SessionSound
<1>4. CASE Answer(r, 500)
  BY <1>4, AnswerKeeps
<1>5. ASSUME ~\E x \in Requests : versions[x] # NULL /\ SameNumber(versions[x], v),
             Proceed(r, "log", t)
      PROVE  IInv'
  <2>1. pc'[r] = "log" /\ tx'[r] = t /\ skills' = skills /\ versions' = versions
    BY <1>5 DEF Proceed, IInv, TypeOK
  <2>2. v.version_number \notin NumbersOf(s)
    BY <1>3, <1>5 DEF NumbersOf, HistoryOf, SameNumber
  <2>3. \A q \in Requests \ {r} :
           pc'[q] \in Inserted /\ tx'[q].version # NULL => ~SameNumber(tx'[q].version, v)
    BY <1>5 DEF InsertVersion, HoldsNumber, Proceed, Inserted
  <2>4. SessionSound(r)'
    BY <1>2, <1>3, <2>1, <2>2, <2>3, SameHistories, Zenon DEF SessionSound, SameNumber, Inserted
  <2> QED
    BY <1>1, <1>2, <1>5, <2>4, ProceedKeeps, NullAssumption DEF Working, Inserted
<1> QED
  BY <1>4, <1>5 DEF InsertVersion

LEMMA FindVersionKeeps ==
    ASSUME IInv, NEW r \in Requests, FindVersion(r)
    PROVE  IInv'
<1> DEFINE t   == tx[r]
           s   == t.skill_id
           v   == t.version_id
           w   == Activate(v, IF t.skill.status = "active" THEN NULL ELSE "active")
           log == <<Activation(r, t, v, HashOf(v))>>
           u   == Prepared(t, w, NULL, log)
<1>1. pc[r] = "find"
  BY DEF FindVersion
<1>2. /\ t \in Sessions /\ s \in Requests /\ t.actor \in Actors /\ t.skill \in Skill
      /\ v \in Requests \union {NULL} /\ SessionSound(r)
  BY <1>1, SessionFacts DEF Working
<1>3. CASE Answer(r, 404)
  BY <1>3, AnswerKeeps
<1>4. ASSUME v \in HistoryOf(s), Proceed(r, "log", u) PROVE IInv'
  <2>1. v \in Requests /\ versions[v] # NULL /\ v # NULL
    BY <1>4, NullAssumption DEF HistoryOf
  <2>2. HashOf(v) \in Hashes
    BY <2>1, HashType DEF IInv
  <2>3. log \in Seq(AuditLog)
    BY <1>2, <2>1, <2>2, ActivationType, OneRowType
  <2>4. /\ w \in Writes /\ w.active_version_id = v
        /\ w.status \in {"active", NULL}
    BY <2>1, ActivateType, NoWritesType DEF SkillStatus, Activate, Writes
  <2> HIDE DEF log, w
  <2>5. /\ u \in Sessions /\ u.skill_id = s /\ u.skill = t.skill
        /\ u.writes = w /\ u.version = NULL
    BY <1>2, <2>3, <2>4, NothingInsertedType
  <2> HIDE DEF u
  <2>6. pc'[r] = "log" /\ tx'[r] = u /\ skills' = skills /\ versions' = versions
    BY <1>4 DEF Proceed, IInv, TypeOK
  <2>7. SessionSound(r)'
    BY <1>2, <1>4, <2>1, <2>4, <2>5, <2>6, SameHistories, NullAssumption
       DEF SessionSound, SkillStatus
  <2> QED
    BY <1>1, <1>4, <2>5, <2>7, ProceedKeeps, NullAssumption DEF Working
<1> QED
  BY <1>3, <1>4 DEF FindVersion

LEMMA LogAuditKeeps ==
    ASSUME IInv, NEW r \in Requests, LogAudit(r)
    PROVE  IInv'
<1>1. pc[r] = "log"
  BY DEF LogAudit
<1>2. tx[r] \in Sessions /\ SessionSound(r) /\ tx[r].log \in Seq(AuditLog)
  BY <1>1, SessionFacts DEF Working
<1>3. PICK now \in Instants, step \in {"update", "commit"} :
        Proceed(r, step, [tx[r] EXCEPT !.log = Dated(tx[r].log, now)])
  BY DEF LogAudit
<1> DEFINE u == [tx[r] EXCEPT !.log = Dated(tx[r].log, now)]
<1>4. Dated(tx[r].log, now) \in Seq(AuditLog)
  BY <1>2, DatedType, InstantsType DEF IInv
<1>5. /\ u \in Sessions /\ u.skill_id = tx[r].skill_id /\ u.skill = tx[r].skill
      /\ u.writes = tx[r].writes /\ u.version = tx[r].version
  BY <1>2, <1>4 DEF Sessions
<1>6. Proceed(r, step, u)
  BY <1>3
<1> HIDE DEF u
<1>7. /\ pc'[r] = step /\ tx'[r] = u /\ skills' = skills /\ versions' = versions
      /\ \A q \in Requests \ {r} : pc'[q] = pc[q] /\ tx'[q] = tx[q]
  BY <1>6 DEF Proceed, IInv, TypeOK
<1>8. SessionSound(r)'
  BY <1>1, <1>2, <1>5, <1>7, SameHistories DEF SessionSound, SameNumber, Inserted
<1> QED
  BY <1>1, <1>5, <1>6, <1>8, ProceedKeeps, NullAssumption DEF Working

LEMMA UpdateSkillKeeps ==
    ASSUME IInv, NEW r \in Requests, UpdateSkill(r)
    PROVE  IInv'
<1>1. pc[r] = "update" /\ Proceed(r, "commit", tx[r])
  BY DEF UpdateSkill
<1>2. tx[r] \in Sessions /\ SessionSound(r)
  BY <1>1, SessionFacts DEF Working
<1>3. /\ pc'[r] = "commit" /\ tx'[r] = tx[r] /\ skills' = skills /\ versions' = versions
      /\ \A q \in Requests \ {r} : pc'[q] = pc[q] /\ tx'[q] = tx[q]
  BY <1>1 DEF Proceed, IInv, TypeOK
<1>4. SessionSound(r)'
  BY <1>1, <1>2, <1>3, SameHistories DEF SessionSound, SameNumber, Inserted
<1> QED
  BY <1>1, <1>2, <1>4, ProceedKeeps, NullAssumption DEF Working

LEMMA RespondKeeps ==
    ASSUME IInv, NEW r \in Requests, Respond(r)
    PROVE  IInv'
BY AnswerKeeps DEF Respond

LEMMA TimeOutKeeps ==
    ASSUME IInv, NEW r \in Requests, TimeOut(r)
    PROVE  IInv'
BY AnswerKeeps DEF TimeOut

----------------------------------------------------------------------------
(* The two steps that change rows.                                         *)

LEMMA CreateSkillDraftKeeps ==
    ASSUME IInv, NEW r \in Requests, NEW a \in Memberships, NEW d \in Definitions,
           CreateSkillDraft(r, a, d)
    PROVE  IInv'
<1> DEFINE t == Session("create", a, r)
<1> USE DEF IInv
<1>1. a \in Actors
  BY MembershipsAssumption
<1>2. t \in Sessions /\ t.actor = a /\ t.skill_id = r
  BY <1>1, SessionType DEF Session
<1>3. record_audit(r, t, "skill.draft_created", NULL, NULL) \in AuditLog
  BY <1>1, <1>2, AuditType DEF Events
<1>4. pc[r] = "idle" /\ skills[r] = NULL /\ versions[r] = NULL
  BY AdmitFacts DEF CreateSkillDraft
<1>5. /\ pc'[r] = "respond" /\ tx'[r] = t /\ versions' = versions
      /\ skills'[r] \in Skill /\ skills'[r].status = "draft"
      /\ skills'[r].active_version_id = NULL
      /\ \A q \in Requests \ {r} :
            pc'[q] = pc[q] /\ tx'[q] = tx[q] /\ skills'[q] = skills[q]
  BY <1>1 DEF CreateSkillDraft, TypeOK, Skill, SkillStatus, Actors
<1>6. TypeOK'
  <2> DEFINE entry == record_audit(r, t, "skill.draft_created", NULL, NULL)
             row   == [status |-> "draft", active_version_id |-> NULL, working |-> d]
  <2>1. PICK now \in Instants :
          /\ audit' = audit \o Dated(<<entry>>, now)
          /\ committed' = [committed EXCEPT ![r] =
                [skill_id |-> r, version |-> NULL, log |-> Dated(<<entry>>, now),
                 at |-> Len(audit), writes |-> row]]
    BY DEF CreateSkillDraft
  <2> DEFINE log == Dated(<<entry>>, now)
  <2>3. log \in Seq(AuditLog)
    BY <1>3, DatedType, InstantsType, OneRowType
  <2>4. row \in Writes
    <3>1. d \in Patches
      BY DEF Definitions, Patches
    <3> QED
      BY <3>1 DEF Writes, SkillStatus
  <2> HIDE DEF log, row
  <2>5. audit' \in Seq(AuditLog)
    BY <2>1, <2>3 DEF TypeOK, log
  <2>6. committed' \in [Requests -> Effects \union {NULL}]
    <3>1. [skill_id |-> r, version |-> NULL, log |-> log, at |-> Len(audit),
           writes |-> row] \in Effects
      BY <2>3, <2>4 DEF Effects, TypeOK
    <3> QED
      BY <2>1, <3>1 DEF TypeOK, log, row
  <2>2. skills' \in [Requests -> Skill \union {NULL}]
    BY <1>1 DEF CreateSkillDraft, TypeOK, Skill, SkillStatus, Actors
  <2> QED
    BY <1>2, <2>2, <2>5, <2>6 DEF CreateSkillDraft, TypeOK, Steps
<1>7. HistoryOf(r) = {}
  BY <1>4 DEF HistoryOf, RowsSound
<1> HIDE DEF t
<1>8. ContiguousHistory'
  BY <1>5, SameHistories DEF ContiguousHistory, SameNumber
<1>9. LifecycleShape'
  BY <1>5, <1>7, SameHistories DEF LifecycleShape
<1>10. RowsSound'
  <2>1. \A v \in Requests : versions[v] # NULL => versions[v].skill_id \in Requests \ {r}
    BY <1>4 DEF RowsSound, TypeOK, SkillVersion
  <2> QED
    BY <1>5, <2>1 DEF RowsSound
<1>11. \A q \in Requests : tx'[q] = NULL <=> pc'[q] \in Waiting
  BY <1>2, <1>5, NullAssumption DEF SessionsSound, Waiting
<1>12. ASSUME NEW q \in Requests, pc'[q] \in Working PROVE SessionSound(q)'
  <2>1. q # r /\ pc[q] \in Working
    BY <1>5, <1>12 DEF Working
  <2>2. SessionSound(q) /\ tx[q].skill_id \in Requests \ {r}
    BY <1>4, <2>1, SessionFacts DEF SessionSound
  <2>3. \A u \in Requests : pc'[u] \in Inserted => pc[u] \in Inserted /\ tx'[u] = tx[u]
    BY <1>5 DEF Inserted
  <2> QED
    BY <1>5, <2>1, <2>2, <2>3, SameHistories DEF SessionSound, SameNumber
<1> QED
  BY <1>6, <1>8, <1>9, <1>10, <1>11, <1>12 DEF SessionsSound

\* What COMMIT does to the histories.
LEMMA CommitHistories ==
    ASSUME IInv, NEW r \in Requests, CommitTx(r)
    PROVE  /\ \A s \in Requests :
                HistoryOf(s)' = IF tx[r].version # NULL /\ s = tx[r].skill_id
                                THEN HistoryOf(s) \union {r} ELSE HistoryOf(s)
           /\ \A v \in Requests : versions[v] # NULL => versions'[v] = versions[v]
           /\ versions'[r] = tx[r].version
<1>1. pc[r] = "commit" /\ versions' = [versions EXCEPT ![r] = tx[r].version]
  BY DEF CommitTx
<1>2. versions[r] = NULL /\ SessionSound(r)
  BY <1>1, SessionFacts DEF Working
<1>3. \A v \in Requests \ {r} : versions'[v] = versions[v]
  BY <1>1 DEF IInv, TypeOK
<1>4. versions'[r] = tx[r].version
  BY <1>1 DEF IInv, TypeOK
<1>5. tx[r].version # NULL => tx[r].version.skill_id = tx[r].skill_id
  BY <1>2 DEF SessionSound
<1> QED
  BY <1>2, <1>3, <1>4, <1>5 DEF HistoryOf

LEMMA CommitNumbers ==
    ASSUME IInv, NEW r \in Requests, CommitTx(r), NEW s \in Requests
    PROVE  /\ NumbersOf(s) \subseteq NumbersOf(s)'
           /\ \A n \in NumbersOf(s)' : \/ n \in NumbersOf(s)
                                       \/ /\ tx[r].version # NULL /\ s = tx[r].skill_id
                                          /\ n = tx[r].version.version_number
           /\ tx[r].version # NULL /\ s = tx[r].skill_id =>
                  tx[r].version.version_number \in NumbersOf(s)'
<1>1. \A v \in HistoryOf(s) : v \in Requests /\ versions[v] # NULL
  BY DEF HistoryOf
<1>2. \A v \in HistoryOf(s) : v \in HistoryOf(s)' /\ versions'[v] = versions[v]
  BY <1>1, CommitHistories
<1>3. \A v \in HistoryOf(s)' : v \in HistoryOf(s) \/ (v = r /\ tx[r].version # NULL
                                                     /\ s = tx[r].skill_id)
  BY CommitHistories
<1>4. versions'[r] = tx[r].version
  BY CommitHistories
<1>5. tx[r].version # NULL /\ s = tx[r].skill_id => r \in HistoryOf(s)'
  BY CommitHistories
<1> QED
  BY <1>2, <1>3, <1>4, <1>5 DEF NumbersOf

LEMMA CommitTxKeeps ==
    ASSUME IInv, NEW r \in Requests, CommitTx(r)
    PROVE  IInv'
<1> USE DEF IInv
<1>1. pc[r] = "commit" /\ tx[r].skill_id \in Requests
  BY SessionFacts DEF CommitTx, Working
<1> PICK s \in Requests : s = tx[r].skill_id
  BY <1>1
<1> DEFINE t   == tx[r]
           w   == t.writes
           row == Merge(skills[s], w)
<1>2. /\ t \in Sessions /\ s = t.skill_id /\ w \in Writes
      /\ t.version \in SkillVersion \union {NULL} /\ t.log \in Seq(AuditLog)
      /\ SessionSound(r) /\ versions[r] = NULL
  BY <1>1, SessionFacts DEF Working
<1>3. skills[s] # NULL /\ skills[s] \in Skill
  BY <1>2 DEF SessionSound, TypeOK
<1>4. row \in Skill /\ row # NULL
  BY <1>2, <1>3, MergeType, NullAssumption
<1>5. /\ row.organization_id = skills[s].organization_id
      /\ row.status = IF w.status = NULL THEN skills[s].status ELSE w.status
      /\ row.active_version_id = IF w.active_version_id = NULL
                                 THEN skills[s].active_version_id
                                 ELSE w.active_version_id
  BY <1>3 DEF Merge, Skill
<1>6. /\ pc'[r] = "respond" /\ tx' = tx /\ skills'[s] = row
      /\ \A q \in Requests \ {r} : pc'[q] = pc[q]
      /\ \A x \in Requests \ {s} : skills'[x] = skills[x]
  BY <1>2 DEF CommitTx, TypeOK
<1>7. TypeOK'
  <2>1. skills' \in [Requests -> Skill \union {NULL}]
    BY <1>4 DEF CommitTx, TypeOK
  <2>2. audit' \in Seq(AuditLog)
    BY <1>2 DEF CommitTx, TypeOK
  <2>3. versions' \in [Requests -> SkillVersion \union {NULL}]
    BY <1>2 DEF CommitTx, TypeOK
  <2>4. committed' \in [Requests -> Effects \union {NULL}]
    <3>1. [skill_id |-> s, writes |-> w, version |-> t.version, log |-> t.log,
           at |-> Len(audit)] \in Effects
      BY <1>2 DEF Effects, TypeOK
    <3> QED
      BY <1>2, <3>1 DEF CommitTx, TypeOK
  <2> QED
    BY <2>1, <2>2, <2>3, <2>4 DEF CommitTx, TypeOK, Steps
<1> HIDE DEF row
<1>8. /\ w.status # "draft"
      /\ w.status = "active" => w.active_version_id # NULL
      /\ w.active_version_id # NULL =>
            w.active_version_id \in HistoryOf(s) \/ (t.version # NULL /\ w.active_version_id = r)
  BY <1>2 DEF SessionSound
<1>9. t.version # NULL =>
        /\ t.version.skill_id = s
        /\ t.version.organization_id = skills[s].organization_id
        /\ \A k \in 1 .. t.version.version_number - 1 : k \in NumbersOf(s)
        /\ t.version.version_number \notin NumbersOf(s)
        /\ w.status = "active" \/ skills[s].status # "draft"
  BY <1>1, <1>2 DEF SessionSound, Inserted
<1>10. RowsSound'
  <2>1. ASSUME NEW v \in Requests, versions'[v] # NULL
        PROVE  /\ pc'[v] \in {"respond", "done", "lost"}
               /\ skills'[versions'[v].skill_id] # NULL
               /\ versions'[v].organization_id =
                     skills'[versions'[v].skill_id].organization_id
    <3>1. CASE v = r
      BY <1>2, <1>4, <1>5, <1>6, <1>9, <2>1, <3>1, CommitHistories
    <3>2. CASE v # r
      <4>1. versions'[v] = versions[v]
        BY <3>2 DEF CommitTx, TypeOK
      <4>2. versions[v].skill_id \in Requests
        BY <2>1, <4>1 DEF TypeOK, SkillVersion
      <4> QED
        BY <1>3, <1>4, <1>5, <1>6, <2>1, <3>2, <4>1, <4>2 DEF RowsSound
    <3> QED
      BY <3>1, <3>2
  <2>2. \A q \in Requests : pc'[q] = "idle" => skills'[q] = NULL
    BY <1>3, <1>6 DEF RowsSound
  <2> QED
    BY <2>1, <2>2 DEF RowsSound
<1>11. ContiguousHistory'
  <2> SUFFICES ASSUME NEW x \in Requests, NEW v \in HistoryOf(x)'
               PROVE  /\ \A u \in HistoryOf(x)' :
                            SameNumber(versions'[u], versions'[v]) => u = v
                      /\ \A k \in 1 .. versions'[v].version_number :
                            \E u \in HistoryOf(x)' : versions'[u].version_number = k
    BY DEF ContiguousHistory
  <2>1. \A u \in HistoryOf(x) : /\ u \in HistoryOf(x)' /\ versions'[u] = versions[u]
                               /\ versions[u].version_number \in NumbersOf(x)
    BY CommitHistories DEF HistoryOf, NumbersOf
  <2>2. \A u \in HistoryOf(x)' :
           u \in HistoryOf(x) \/ (u = r /\ t.version # NULL /\ x = s)
    BY CommitHistories
  <2>3. versions'[r] = t.version
    BY CommitHistories
  <2>4. \A u \in HistoryOf(x)' : SameNumber(versions'[u], versions'[v]) => u = v
    BY <1>9, <2>1, <2>2, <2>3 DEF ContiguousHistory, SameNumber
  <2>5. ASSUME NEW k \in 1 .. versions'[v].version_number
        PROVE  \E u \in HistoryOf(x)' : versions'[u].version_number = k
    <3>1. CASE v \in HistoryOf(x)
      BY <2>1, <2>5, <3>1 DEF ContiguousHistory
    <3>2. CASE v = r /\ t.version # NULL /\ x = s
      <4>1. t.version.version_number \in Nat
        BY <1>2, <3>2 DEF SkillVersion
      <4>2. CASE k = t.version.version_number
        BY <2>3, <3>2, <4>2
      <4>3. CASE k # t.version.version_number
        <5>1. k \in 1 .. t.version.version_number - 1
          BY <2>3, <2>5, <3>2, <4>1, <4>3
        <5>2. PICK u \in HistoryOf(s) : versions[u].version_number = k
          BY <1>9, <3>2, <5>1 DEF NumbersOf
        <5> QED
          BY <2>1, <3>2, <5>2
      <4> QED
        BY <4>2, <4>3
    <3> QED
      BY <2>2, <3>1, <3>2
  <2> QED
    BY <2>4, <2>5
<1>12. LifecycleShape'
  <2> SUFFICES ASSUME NEW x \in Requests, skills'[x] # NULL
               PROVE  /\ skills'[x].status = "draft" => HistoryOf(x)' = {}
                      /\ skills'[x].status = "active" => skills'[x].active_version_id # NULL
                      /\ skills'[x].active_version_id # NULL =>
                           /\ skills'[x].active_version_id \in HistoryOf(x)'
                           /\ versions'[skills'[x].active_version_id].organization_id
                                 = skills'[x].organization_id
    BY DEF LifecycleShape
  <2>1. \A v \in HistoryOf(x)' : versions'[v].organization_id = skills'[x].organization_id
    BY <1>10 DEF RowsSound, HistoryOf
  <2>2. CASE x # s
    BY <1>6, <2>1, <2>2, CommitHistories DEF LifecycleShape
  <2>3. CASE x = s
    <3>1. HistoryOf(s) \subseteq HistoryOf(s)' /\ (t.version # NULL => r \in HistoryOf(s)')
      BY <1>2, CommitHistories
    <3>2. skills'[s].status = "draft" => HistoryOf(s)' = {}
      <4> SUFFICES ASSUME skills'[s].status = "draft" PROVE HistoryOf(s)' = {}
        OBVIOUS
      <4>1. w.status = NULL /\ skills[s].status = "draft"
        BY <1>5, <1>6, <1>8
      <4>2. t.version = NULL
        BY <1>9, <4>1, NullAssumption DEF SkillStatus
      <4> QED
        BY <1>3, <4>1, <4>2, CommitHistories DEF LifecycleShape
    <3>3. skills'[s].status = "active" => skills'[s].active_version_id # NULL
      BY <1>2, <1>3, <1>4, <1>5, <1>6, <1>8 DEF LifecycleShape
    <3>4. skills'[s].active_version_id # NULL =>
            skills'[s].active_version_id \in HistoryOf(s)'
      BY <1>2, <1>3, <1>4, <1>5, <1>6, <1>8, <3>1 DEF LifecycleShape
    <3> QED
      BY <2>1, <2>3, <3>2, <3>3, <3>4
  <2> QED
    BY <2>2, <2>3
<1>13. \A q \in Requests : tx'[q] = NULL <=> pc'[q] \in Waiting
  BY <1>1, <1>6 DEF SessionsSound, Waiting
<1>14. ASSUME NEW q \in Requests, pc'[q] \in Working PROVE SessionSound(q)'
  <2>1. q # r /\ pc[q] \in Working /\ pc'[q] = pc[q]
    BY <1>6, <1>14 DEF Working
  <2>2. SessionSound(q) /\ tx[q].skill_id \in Requests
    BY <2>1, SessionFacts
  <2> PICK z \in Requests : z = tx[q].skill_id
    BY <2>2
  <2> DEFINE v == tx[q].version
  <2>3. /\ skills'[z] # NULL
        /\ skills'[z].organization_id = skills[z].organization_id
        /\ skills[z].status # "draft" => skills'[z].status # "draft"
    BY <1>3, <1>4, <1>5, <1>6, <1>8, <2>2 DEF SessionSound
  <2>4. HistoryOf(z) \subseteq HistoryOf(z)' /\ NumbersOf(z) \subseteq NumbersOf(z)'
    BY <2>2, CommitHistories, CommitNumbers
  <2>5. ASSUME v # NULL, pc[q] \in Inserted PROVE v.version_number \notin NumbersOf(z)'
    <3>1. v.skill_id = z /\ v.version_number \notin NumbersOf(z)
      BY <2>2, <2>5 DEF SessionSound
    <3>2. t.version # NULL => ~SameNumber(t.version, v)
      BY <1>1, <2>1, <2>2, <2>5 DEF SessionSound, Inserted
    <3> QED
      BY <1>9, <2>2, <3>1, <3>2, CommitNumbers DEF SameNumber
  <2>6. \A u \in Requests : pc'[u] \in Inserted => pc[u] \in Inserted
    BY <1>6 DEF Inserted
  <2> QED
    BY <1>6, <2>1, <2>2, <2>3, <2>4, <2>5, <2>6 DEF SessionSound, SameNumber
<1> QED
  BY <1>7, <1>10, <1>11, <1>12, <1>13, <1>14 DEF SessionsSound

----------------------------------------------------------------------------
(* The invariant, and the theorems.                                        *)

LEMMA InitIInv == Init => IInv
<1> SUFFICES ASSUME Init PROVE IInv
  OBVIOUS
<1>1. TypeOK
  BY DEF Init, TypeOK, Steps
<1>2. \A s : HistoryOf(s) = {}
  BY DEF Init, HistoryOf
<1> QED
  BY <1>1, <1>2 DEF Init, IInv, RowsSound, SessionsSound, ContiguousHistory,
                    LifecycleShape, Working, Waiting

LEMMA NextIInv == IInv /\ [Next]_vars => IInv'
<1> SUFFICES ASSUME IInv, [Next]_vars PROVE IInv'
  OBVIOUS
<1>1. CASE UNCHANGED vars
  <2>1. /\ UNCHANGED <<skills, versions, audit, pc, tx, reply, committed>>
        /\ \A s : HistoryOf(s)' = HistoryOf(s) /\ NumbersOf(s)' = NumbersOf(s)
    BY <1>1, SameHistories DEF vars
  <2>2. ContiguousHistory' /\ LifecycleShape'
    BY <2>1, SameRows DEF IInv
  <2> QED
    BY <2>1, <2>2 DEF IInv, TypeOK, RowsSound, SessionsSound, SessionSound, SameNumber
<1>2. ASSUME NEW r \in Requests, Receive(r) PROVE IInv'
  <2>1. PICK a \in Memberships :
          \/ \E d \in Definitions : CreateSkillDraft(r, a, d)
          \/ \E s \in Ids(skills, r) :
               \/ \E p \in Patches : UpdateSkillDraft(r, a, s, p)
               \/ \E d \in Definitions : CreateSkillVersion(r, a, s, d)
               \/ \E v \in Ids(versions, r) \union {NULL} : ActivateSkill(r, a, s, v)
               \/ DisableSkill(r, a, s)
    BY <1>2 DEF Receive
  <2>2. Ids(skills, r) \subseteq Requests /\ Ids(versions, r) \subseteq Requests
    BY IdsType
  <2>3. CASE \E d \in Definitions : CreateSkillDraft(r, a, d)
    BY <2>3, CreateSkillDraftKeeps
  <2>4. ASSUME NEW s \in Ids(skills, r), NEW p \in Patches, UpdateSkillDraft(r, a, s, p)
        PROVE  IInv'
    BY <2>2, <2>4, UpdateSkillDraftKeeps
  <2>5. ASSUME NEW s \in Ids(skills, r), NEW d \in Definitions,
               CreateSkillVersion(r, a, s, d)
        PROVE  IInv'
    BY <2>2, <2>5, CreateSkillVersionKeeps
  <2>6. ASSUME NEW s \in Ids(skills, r), NEW v \in Ids(versions, r) \union {NULL},
               ActivateSkill(r, a, s, v)
        PROVE  IInv'
    BY <2>2, <2>6, ActivateSkillKeeps
  <2>7. ASSUME NEW s \in Ids(skills, r), DisableSkill(r, a, s) PROVE IInv'
    BY <2>2, <2>7, DisableSkillKeeps
  <2> QED
    BY <2>1, <2>3, <2>4, <2>5, <2>6, <2>7
<1>3. ASSUME NEW r \in Requests, Serve(r) PROVE IInv'
  BY <1>3, SelectMaxVersionKeeps, InsertVersionKeeps, FindVersionKeeps, LogAuditKeeps,
     UpdateSkillKeeps, CommitTxKeeps, RespondKeeps DEF Serve
<1>4. ASSUME NEW r \in Requests, TimeOut(r) \/ Lose(r) PROVE IInv'
  BY <1>4, TimeOutKeeps, LoseKeeps
<1> QED
  BY <1>1, <1>2, <1>3, <1>4 DEF Next, Terminating

LEMMA InvariantHolds == Spec => []IInv
BY InitIInv, NextIInv, PTL DEF Spec

(* The rows, sessions and answers of every reachable state have the types  *)
(* the tables and handlers give them.                                      *)
THEOREM TypeCorrect == Spec => []TypeOK
<1>1. IInv => TypeOK
  BY DEF IInv
<1> QED
  BY <1>1, InvariantHolds, PTL

(* However many requests overlap, read a maximum, wait for each other's    *)
(* rows, fail or are lost, the versions of a skill are numbered 1, 2, 3... *)
THEOREM HistoryIsContiguous == Spec => []ContiguousHistory
<1>1. IInv => ContiguousHistory
  BY DEF IInv
<1> QED
  BY <1>1, InvariantHolds, PTL

(* A draft never has a version, an active skill always has an active one,  *)
(* and it is a committed version of that skill and its organization.       *)
THEOREM LifecycleIsSound == Spec => []LifecycleShape
<1>1. IInv => LifecycleShape
  BY DEF IInv
<1> QED
  BY <1>1, InvariantHolds, PTL

=============================================================================
