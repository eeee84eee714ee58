---------------------- MODULE SkillRegistryTrail_proofs ----------------------
(***************************************************************************)
(* What the audit trail of SkillRegistry tells, in the order it is read    *)
(* in: with any overlap, the versions in the order of their numbers; one   *)
(* transaction at a time, the version that runs and every status and active*)
(* version a skill had.  And, one at a time, the handlers are the          *)
(* documented lifecycle.                                                   *)
(***************************************************************************)
EXTENDS SkillRegistryEffects_proofs, FiniteSetTheorems

Telling == {"skill.version_created", "skill.activated", "skill.disabled"}

(* The audit rows of a transaction against what it writes, and against the *)
(* row the session loaded: one disjunct for each kind of transaction.      *)
TellsEdit(t) ==
    /\ Edits(t.writes, t.version)
    /\ DOMAIN t.writes.working # {} => t.skill.status = "draft"
    /\ t.log = << >> \/ \E e : t.log = <<e>> /\ e.event \notin Telling

TellsDisabling(t, e) ==
    /\ e.event = "skill.disabled" /\ e.skill_id = t.skill_id
    /\ e.previous_status = t.skill.status
    /\ e.version_id = t.skill.active_version_id

TellsActivation(t, e) ==
    /\ e.event = "skill.activated" /\ e.skill_id = t.skill_id
    /\ e.version_id = t.writes.active_version_id
    /\ e.previous_status = t.skill.status
    /\ e.previous_version_id = t.skill.active_version_id

TellsCreation(r, t, c) ==
    /\ c.event = "skill.version_created" /\ c.skill_id = t.skill_id
    /\ c.version_id = r
    /\ c.version_hash = compute_version_hash(t.version.organization_id, t.skill_id,
                            t.version.version_number, t.version.definition)

TellsDisable(t) ==
    /\ t.version = NULL /\ Only(t.writes, "disabled", NULL)
    /\ t.skill.status \in {"draft", "active"}
    /\ \E e : t.log = <<e>> /\ TellsDisabling(t, e)

TellsSwitch(t) ==
    /\ t.version = NULL /\ t.writes.active_version_id # NULL
    /\ Only(t.writes, NULL, t.writes.active_version_id)
    /\ t.skill.status = "active"
    /\ \E e : t.log = <<e>> /\ TellsActivation(t, e)

TellsLaunch(r, t) ==
    /\ t.version # NULL /\ Only(t.writes, "active", r)
    /\ t.skill.status = "draft" /\ t.version.definition = t.skill.working
    /\ \E c, e : t.log = <<c, e>> /\ TellsCreation(r, t, c) /\ TellsActivation(t, e)

TellsVersion(r, t) ==
    /\ t.version # NULL /\ Only(t.writes, NULL, NULL)
    /\ t.skill.status = "active"
    /\ \E c : t.log = <<c>> /\ TellsCreation(r, t, c)

Tells(r, t) ==
    \/ TellsEdit(t)
    \/ TellsDisable(t)
    \/ TellsSwitch(t)
    \/ TellsLaunch(r, t)
    \/ TellsVersion(r, t)

SessionTells(r) ==
    /\ Tells(r, tx[r])
    /\ pc[r] = "number" => tx[r].skill.status = "active"

(* The steps of a request that leave the rows alone: it ends, it opens a   *)
(* session on the row as it is, its session goes on with the row it loaded.*)
Ends(r) ==
    /\ UNCHANGED <<skills, versions, audit>>
    /\ pc'[r] \in Waiting
    /\ \A q \in Requests \ {r} : pc'[q] = pc[q] /\ tx'[q] = tx[q]

\* The steps after the INSERTs of the audit rows, which date them.
Sent == {"update", "commit"}

\* The rows of a session are later than every committed row.
Newest(t) ==
    \A e \in Entries(t.log), i \in DOMAIN audit : audit[i].created_at < e.created_at

Opens(r, step, t) ==
    /\ Admit(r) /\ Proceed(r, step, t)
    /\ t.skill = skills[t.skill_id] /\ Tells(r, t)
    /\ step = "number" => t.skill.status = "active"
    /\ step \notin Sent

GoesOn(r, step, t) ==
    /\ pc[r] \in Working /\ Proceed(r, step, t)
    /\ t.skill_id = tx[r].skill_id /\ t.skill = tx[r].skill /\ Tells(r, t)
    /\ step # "number"
    /\ step \in Sent => Newest(t) \/ (pc[r] \in Sent /\ t = tx[r])

----------------------------------------------------------------------------
(* Every handler tells what it does.                                       *)

LEMMA AnswerEnds ==
    ASSUME TypeOK, NEW r \in Requests, NEW code, Answer(r, code)
    PROVE  Ends(r)
BY DEF TypeOK, Answer, Ends, Waiting

LEMMA PreparedSkill ==
    ASSUME NEW t \in Sessions, NEW w, NEW v, NEW log
    PROVE  /\ Prepared(t, w, v, log).skill_id = t.skill_id
           /\ Prepared(t, w, v, log).skill = t.skill
           /\ Prepared(t, w, v, log).writes = w
           /\ Prepared(t, w, v, log).version = v
           /\ Prepared(t, w, v, log).log = log
BY DEF Prepared, Sessions

LEMMA CreationTells ==
    ASSUME NEW r, NEW t, NEW n, NEW d, NEW u,
           u.skill_id = t.skill_id, u.version = NewVersion(t, n, d)
    PROVE  TellsCreation(r, u, record_audit(r, t, "skill.version_created", r,
                                            NewVersion(t, n, d).version_hash))
BY DEF TellsCreation, record_audit, NewVersion

LEMMA ActivationTells ==
    ASSUME NEW r, NEW t, NEW v, NEW hash, NEW u,
           u.skill_id = t.skill_id, u.skill = t.skill, u.writes.active_version_id = v
    PROVE  TellsActivation(u, Activation(r, t, v, hash))
BY DEF TellsActivation, record_audit, Activation

LEMMA UpdateSkillDraftTells ==
    ASSUME OInv, NEW r \in Requests, NEW a \in Memberships, NEW s \in Requests,
           NEW p \in Patches, UpdateSkillDraft(r, a, s, p)
    PROVE  Ends(r) \/ \E step \in Working : \E t : Opens(r, step, t)
<1> DEFINE t       == Session("update", a, s)
           changed == {f \in DOMAIN p : p[f] # skills[s].working[f]}
           w       == [NoWrites EXCEPT !.working = [f \in changed |-> p[f]]]
           e       == record_audit(r, t, "skill.draft_updated", NULL, NULL)
           u       == Prepared(t, w, NULL, <<e>>)
<1>1. /\ Admit(r)
      /\ \/ \E code \in {200, 404, 409} : Answer(r, code)
         \/ skills[s].status = "draft" /\ Proceed(r, "log", u)
  BY DEF UpdateSkillDraft
<1>2. t \in Sessions /\ t.skill_id = s /\ t.skill = skills[s]
  BY NewSession DEF OInv, EInv
<1>3. w.status = NULL /\ w.active_version_id = NULL
  BY NoWritesColumns DEF NoWrites
<1>4. e.event = "skill.draft_updated"
  BY AuditFields
<1> HIDE DEF t, w, e
<1>5. /\ u.skill_id = s /\ u.skill = skills[s] /\ u.writes = w /\ u.version = NULL
      /\ u.log = <<e>>
  BY <1>2, PreparedSkill
<1> HIDE DEF u
<1>6. ASSUME skills[s].status = "draft", Proceed(r, "log", u)
      PROVE  Opens(r, "log", u) /\ "log" \in Working
  <2>1. TellsEdit(u)
    BY <1>3, <1>4, <1>5, <1>6 DEF TellsEdit, Edits, Telling
  <2> QED
    BY <1>1, <1>5, <1>6, <2>1 DEF Opens, Tells, Sent, Working
<1> QED
  BY <1>1, <1>6, AnswerEnds DEF OInv, EInv, IInv

LEMMA CreateSkillVersionTells ==
    ASSUME OInv, NEW r \in Requests, NEW a \in Memberships, NEW s \in Requests,
           NEW d \in Definitions, CreateSkillVersion(r, a, s, d)
    PROVE  Ends(r) \/ \E step \in Working : \E t : Opens(r, step, t)
<1> DEFINE t == Session("version", a, s)
           u == [t EXCEPT !.payload = d]
<1>1. /\ Admit(r)
      /\ \/ \E code \in {404, 409} : Answer(r, code)
         \/ skills[s].status = "active" /\ Proceed(r, "number", u)
  BY DEF CreateSkillVersion
<1>2. /\ t \in Sessions /\ t.skill_id = s /\ t.skill = skills[s]
      /\ t.writes = NoWrites /\ t.version = NULL /\ t.log = << >>
  BY NewSession DEF OInv, EInv
<1> HIDE DEF t
<1>3. /\ u.skill_id = s /\ u.skill = skills[s]
      /\ u.writes = NoWrites /\ u.version = NULL /\ u.log = << >>
  BY <1>2 DEF Sessions
<1> HIDE DEF u
<1>4. ASSUME skills[s].status = "active", Proceed(r, "number", u)
      PROVE  Opens(r, "number", u) /\ "number" \in Working
  <2>1. TellsEdit(u)
    BY <1>3 DEF TellsEdit, Edits, NoWrites
  <2> QED
    BY <1>1, <1>3, <1>4, <2>1 DEF Opens, Tells, Sent, Working
<1> QED
  BY <1>1, <1>4, AnswerEnds DEF OInv, EInv, IInv

LEMMA ActivateSkillTells ==
    ASSUME OInv, NEW r \in Requests, NEW a \in Memberships, NEW s \in Requests,
           NEW version_id \in Requests \union {NULL}, ActivateSkill(r, a, s, version_id)
    PROVE  Ends(r) \/ \E step \in Working : \E t : Opens(r, step, t)
<1> DEFINE t        == [Session("activate", a, s) EXCEPT !.version_id = version_id]
           current  == skills[s].active_version_id
           v1       == NewVersion(t, 1, skills[s].working)
           w        == Activate(r, "active")
           replay   == record_audit(r, t, "skill.activation_replayed", current, HashOf(current))
           created  == record_audit(r, t, "skill.version_created", r, v1.version_hash)
           launch   == Activation(r, t, r, v1.version_hash)
           replayed == Prepared(t, NoWrites, NULL, <<replay>>)
           launched == Prepared(t, w, v1, <<created, launch>>)
<1>1. /\ Admit(r)
      /\ \/ \E code \in {403, 404, 409} : Answer(r, code)
         \/ Proceed(r, "log", replayed)
         \/ Visible(a, s) /\ skills[s].status = "draft" /\ Proceed(r, "insert", launched)
         \/ Proceed(r, "find", t)
  BY DEF ActivateSkill
<1>2. /\ t \in Sessions /\ t.skill_id = s /\ t.skill = skills[s]
      /\ t.writes = NoWrites /\ t.version = NULL /\ t.log = << >>
  BY NewActivation DEF OInv, EInv
<1>3. Only(w, "active", r) /\ w.active_version_id = r
  BY DEF Activate, NoWrites, Only
<1>4. ASSUME Visible(a, s) PROVE v1 # NULL
  <2>1. skills[s] \in Skill /\ skills[s].working \in Definitions
    BY <1>4 DEF OInv, EInv, IInv, TypeOK, Visible, Skill
  <2>2. t.skill \in Skill /\ t.skill_id \in Requests /\ 1 \in Nat \ {0}
    BY <1>2, <2>1
  <2> HIDE DEF t
  <2>3. v1 \in SkillVersion
    BY <2>1, <2>2, NewVersionType
  <2> QED
    BY <2>3, NullAssumption
<1>5. v1.definition = skills[s].working
  BY DEF NewVersion
<1>6. replay.event = "skill.activation_replayed"
  BY AuditFields
<1>7. /\ launched.skill_id = s /\ launched.skill = skills[s] /\ launched.writes = w
      /\ launched.version = v1 /\ launched.log = <<created, launch>>
  <2> HIDE DEF t, w, v1, created, launch
  <2> QED
    BY <1>2, PreparedSkill
<1>8. TellsCreation(r, launched, created) /\ TellsActivation(launched, launch)
  <2>1. TellsCreation(r, launched, created)
    <3> HIDE DEF launched, t
    <3> QED
      BY <1>2, <1>7, CreationTells
  <2>2. TellsActivation(launched, launch)
    <3> HIDE DEF launched, t, v1, w
    <3> QED
      BY <1>2, <1>3, <1>7, ActivationTells
  <2> QED
    BY <2>1, <2>2
<1> HIDE DEF t, v1, w, replay, created, launch
<1>9. /\ replayed.skill_id = s /\ replayed.skill = skills[s] /\ replayed.writes = NoWrites
      /\ replayed.version = NULL /\ replayed.log = <<replay>>
  BY <1>2, PreparedSkill
<1> HIDE DEF replayed, launched
<1>10. /\ "log" \in Working /\ "insert" \in Working /\ "find" \in Working
       /\ "log" \notin Sent /\ "insert" \notin Sent /\ "find" \notin Sent
  BY DEF Working, Sent
<1>11. ASSUME Proceed(r, "log", replayed) PROVE Opens(r, "log", replayed)
  <2>1. TellsEdit(replayed)
    BY <1>6, <1>9 DEF TellsEdit, Edits, NoWrites, Telling
  <2> QED
    BY <1>1, <1>9, <1>10, <1>11, <2>1 DEF Opens, Tells
<1>12. ASSUME Visible(a, s), skills[s].status = "draft", Proceed(r, "insert", launched)
       PROVE  Opens(r, "insert", launched)
  <2>1. TellsLaunch(r, launched)
    BY <1>3, <1>4, <1>5, <1>7, <1>8, <1>12 DEF TellsLaunch
  <2> QED
    BY <1>1, <1>7, <1>10, <1>12, <2>1 DEF Opens, Tells
<1>13. ASSUME Proceed(r, "find", t) PROVE Opens(r, "find", t)
  <2>1. TellsEdit(t)
    BY <1>2 DEF TellsEdit, Edits, NoWrites
  <2> QED
    BY <1>1, <1>2, <1>10, <1>13, <2>1 DEF Opens, Tells
<1> QED
  BY <1>1, <1>10, <1>11, <1>12, <1>13, AnswerEnds DEF OInv, EInv, IInv

LEMMA DisableSkillTells ==
    ASSUME OInv, NEW r \in Requests, NEW a \in Memberships, NEW s \in Requests,
           DisableSkill(r, a, s)
    PROVE  Ends(r) \/ \E step \in Working : \E t : Opens(r, step, t)
<1> DEFINE t        == Session("disable", a, s)
           current  == skills[s].active_version_id
           w        == [NoWrites EXCEPT !.status = "disabled"]
           replay   == record_audit(r, t, "skill.disable_replayed", current, HashOf(current))
           disabled == record_audit(r, t, "skill.disabled", current, NULL)
           e        == [disabled EXCEPT !.previous_status = skills[s].status]
           replayed == Prepared(t, NoWrites, NULL, <<replay>>)
           prepared == Prepared(t, w, NULL, <<e>>)
<1>1. /\ Admit(r)
      /\ \/ \E code \in {403, 404} : Answer(r, code)
         \/ Proceed(r, "log", replayed)
         \/ /\ Visible(a, s) /\ can_transition(skills[s].status, "disabled")
            /\ Proceed(r, "log", prepared)
  BY DEF DisableSkill
<1>2. t \in Sessions /\ t.skill_id = s /\ t.skill = skills[s]
  BY NewSession DEF OInv, EInv
<1>3. Only(w, "disabled", NULL)
  BY DEF NoWrites, Only
<1>4. replay.event = "skill.disable_replayed"
  BY AuditFields
<1> HIDE DEF t
<1>5. /\ e.event = "skill.disabled" /\ e.skill_id = s
      /\ e.previous_status = skills[s].status /\ e.version_id = current
  BY <1>2 DEF record_audit
<1> HIDE DEF w, replay, e
<1>6. /\ replayed.skill_id = s /\ replayed.skill = skills[s] /\ replayed.writes = NoWrites
      /\ replayed.version = NULL /\ replayed.log = <<replay>>
  BY <1>2, PreparedSkill
<1>7. /\ prepared.skill_id = s /\ prepared.skill = skills[s] /\ prepared.writes = w
      /\ prepared.version = NULL /\ prepared.log = <<e>>
  BY <1>2, PreparedSkill
<1> HIDE DEF replayed, prepared
<1>8. ASSUME Proceed(r, "log", replayed)
      PROVE  Opens(r, "log", replayed) /\ "log" \in Working
  <2>1. TellsEdit(replayed)
    BY <1>4, <1>6 DEF TellsEdit, Edits, NoWrites, Telling
  <2> QED
    BY <1>1, <1>6, <1>8, <2>1 DEF Opens, Tells, Sent, Working
<1>9. ASSUME Visible(a, s), can_transition(skills[s].status, "disabled"),
             Proceed(r, "log", prepared)
      PROVE  Opens(r, "log", prepared) /\ "log" \in Working
  <2>1. skills[s].status \in SkillStatus
    BY <1>9 DEF OInv, EInv, IInv, TypeOK, Visible, Skill
  <2>2. skills[s].status \in {"draft", "active"}
    BY <1>9, <2>1 DEF can_transition, TRANSITIONS, SkillStatus
  <2>3. TellsDisable(prepared)
    BY <1>3, <1>5, <1>7, <2>2 DEF TellsDisable, TellsDisabling
  <2> QED
    BY <1>1, <1>7, <1>9, <2>3 DEF Opens, Tells, Sent, Working
<1> QED
  BY <1>1, <1>8, <1>9, AnswerEnds DEF OInv, EInv, IInv

----------------------------------------------------------------------------
(* A session keeps what it loaded.                                         *)

LEMMA SelectMaxVersionTells ==
    ASSUME OInv, NEW r \in Requests, SessionTells(r), SelectMaxVersion(r)
    PROVE  \E step \in Working : \E t : GoesOn(r, step, t)
<1> DEFINE t == tx[r]
<1>1. pc[r] = "number" /\ pc[r] \in Working
  BY DEF SelectMaxVersion, Working
<1>2. t \in Sessions /\ t.skill.status = "active"
  BY <1>1, ShapedFacts DEF SessionTells
<1>3. PICK n \in NumbersOf(t.skill_id) \union {0} :
        Proceed(r, "insert", Prepared(t, NoWrites, NewVersion(t, n + 1, t.payload),
              <<record_audit(r, t, "skill.version_created", r,
                             NewVersion(t, n + 1, t.payload).version_hash)>>))
  BY DEF SelectMaxVersion
<1> DEFINE v == NewVersion(t, n + 1, t.payload)
           e == record_audit(r, t, "skill.version_created", r, v.version_hash)
           u == Prepared(t, NoWrites, v, <<e>>)
<1>4. /\ u.skill_id = t.skill_id /\ u.skill = t.skill /\ u.writes = NoWrites
      /\ u.version = v /\ u.log = <<e>>
  <2> HIDE DEF v, e
  <2> QED
    BY <1>2, PreparedSkill
<1>5. TellsCreation(r, u, e)
  <2> HIDE DEF u
  <2> QED
    BY <1>4, CreationTells
<1>6. v # NULL
  <2>1. n + 1 \in Nat \ {0}
    <3>1. n \in Nat
      BY <1>1, ShapedFacts DEF NumbersOf, HistoryOf, OInv, EInv, IInv, TypeOK, SkillVersion
    <3> QED
      BY <3>1
  <2>2. t.skill \in Skill /\ t.skill_id \in Requests /\ t.payload \in Definitions
    BY <1>1, ShapedFacts DEF SessionSound, Sessions
  <2>3. v \in SkillVersion
    BY <2>1, <2>2, NewVersionType
  <2> QED
    BY <2>3, NullAssumption
<1>7. Proceed(r, "insert", u)
  BY <1>3
<1> HIDE DEF v, e, u
<1>8. TellsVersion(r, u)
  BY <1>2, <1>4, <1>5, <1>6 DEF TellsVersion, Only, NoWrites
<1>9. GoesOn(r, "insert", u)
  BY <1>1, <1>4, <1>7, <1>8 DEF GoesOn, Tells, Sent
<1> QED
  BY <1>9 DEF Working

LEMMA FindVersionTells ==
    ASSUME OInv, NEW r \in Requests, SessionTells(r), FindVersion(r)
    PROVE  Ends(r) \/ \E step \in Working : \E t : GoesOn(r, step, t)
<1> DEFINE t == tx[r]
           v == t.version_id
           w == Activate(v, IF t.skill.status = "active" THEN NULL ELSE "active")
           e == Activation(r, t, v, HashOf(v))
           u == Prepared(t, w, NULL, <<e>>)
<1>1. pc[r] = "find" /\ pc[r] \in Working
  BY DEF FindVersion, Working
<1>2. t \in Sessions /\ SessionShaped(r) /\ versions[r] = NULL
  BY <1>1, ShapedFacts
<1>3. ASSUME v \in HistoryOf(t.skill_id), Proceed(r, "log", u)
      PROVE  GoesOn(r, "log", u)
  <2>1. v # r /\ v # NULL /\ versions[v] # NULL /\ versions[v].skill_id = t.skill_id
    BY <1>2, <1>3, NullAssumption DEF HistoryOf
  <2>2. t.skill.status = "active"
    BY <1>1, <1>2, <2>1 DEF SessionShaped
  <2>3. Only(w, NULL, v) /\ w.active_version_id = v
    BY <2>2 DEF Activate, NoWrites, Only
  <2>4. /\ u.skill_id = t.skill_id /\ u.skill = t.skill /\ u.writes = w
        /\ u.version = NULL /\ u.log = <<e>>
    <3> HIDE DEF w, e
    <3> QED
      BY <1>2, PreparedSkill
  <2>5. TellsActivation(u, e)
    <3> HIDE DEF u, w
    <3> QED
      BY <2>3, <2>4, ActivationTells
  <2> HIDE DEF e, w, u
  <2>6. TellsSwitch(u)
    BY <2>1, <2>2, <2>3, <2>4, <2>5 DEF TellsSwitch
  <2> QED
    BY <1>1, <1>3, <2>4, <2>6 DEF GoesOn, Tells, Sent
<1>4. Answer(r, 404) \/ (v \in HistoryOf(t.skill_id) /\ Proceed(r, "log", u))
  BY DEF FindVersion
<1> HIDE DEF u
<1> QED
  BY <1>3, <1>4, AnswerEnds DEF OInv, EInv, IInv, Working

LEMMA InsertVersionTells ==
    ASSUME OInv, NEW r \in Requests, SessionTells(r), InsertVersion(r)
    PROVE  Ends(r) \/ \E step \in Working : \E t : GoesOn(r, step, t)
<1>1. pc[r] \in Working /\ "log" \in Working
  BY DEF InsertVersion, Working
<1>2. Answer(r, 500) \/ Proceed(r, "log", tx[r])
  BY DEF InsertVersion
<1>3. Proceed(r, "log", tx[r]) => GoesOn(r, "log", tx[r])
  BY <1>1 DEF GoesOn, SessionTells, Sent
<1> QED
  BY <1>1, <1>2, <1>3, AnswerEnds DEF OInv, EInv, IInv

\* A row as its INSERT dates it.
Redated(d, e) ==
    /\ d.event = e.event /\ d.skill_id = e.skill_id
    /\ d.version_id = e.version_id /\ d.version_hash = e.version_hash
    /\ d.previous_status = e.previous_status
    /\ d.previous_version_id = e.previous_version_id

LEMMA DatedTuples ==
    ASSUME NEW now \in Nat
    PROVE  /\ Dated(<< >>, now) = << >>
           /\ \A e \in AuditLog : \E d : Dated(<<e>>, now) = <<d>> /\ Redated(d, e)
           /\ \A c \in AuditLog, e \in AuditLog :
                \E b, d : Dated(<<c, e>>, now) = <<b, d>> /\ Redated(b, c) /\ Redated(d, e)
<1>1. \A e \in AuditLog : \A n : Redated([e EXCEPT !.created_at = n], e)
  BY DEF Redated, AuditLog
<1>2. Dated(<< >>, now) = << >>
  BY DEF Dated
<1>3. \A e : Dated(<<e>>, now) = <<[e EXCEPT !.created_at = now + 1]>>
  BY DEF Dated
<1>4. \A c, e : Dated(<<c, e>>, now) = <<[c EXCEPT !.created_at = now + 1],
                                         [e EXCEPT !.created_at = now + 2]>>
  BY DEF Dated
<1> QED
  BY <1>1, <1>2, <1>3, <1>4

LEMMA RedatedTells ==
    ASSUME NEW r, NEW t, NEW u, NEW now \in Nat, Tells(r, t),
           t.log \in Seq(AuditLog), u.log = Dated(t.log, now),
           u.skill_id = t.skill_id, u.skill = t.skill,
           u.version = t.version, u.writes = t.writes
    PROVE  Tells(r, u)
<1>1. \A e \in Entries(t.log) : e \in AuditLog
  BY DEF Entries
<1>2. \A e : t.log = <<e>> => \E d : u.log = <<d>> /\ Redated(d, e)
  <2> SUFFICES ASSUME NEW e, t.log = <<e>>
               PROVE  \E d : u.log = <<d>> /\ Redated(d, e)
    OBVIOUS
  <2>1. e \in AuditLog
    <3>1. Entries(t.log) = {e}
      BY EntriesOfTuples
    <3> QED
      BY <1>1, <3>1
  <2>2. PICK d : Dated(<<e>>, now) = <<d>> /\ Redated(d, e)
    BY <2>1, DatedTuples
  <2>3. u.log = <<d>>
    BY <2>2
  <2> QED
    BY <2>2, <2>3
<1>3. \A c, e : t.log = <<c, e>> =>
         \E b, d : u.log = <<b, d>> /\ Redated(b, c) /\ Redated(d, e)
  <2> SUFFICES ASSUME NEW c, NEW e, t.log = <<c, e>>
               PROVE  \E b, d : u.log = <<b, d>> /\ Redated(b, c) /\ Redated(d, e)
    OBVIOUS
  <2>1. c \in AuditLog /\ e \in AuditLog
    <3>1. Entries(t.log) = {c, e}
      BY EntriesOfTuples
    <3> QED
      BY <1>1, <3>1
  <2>2. PICK b, d : Dated(<<c, e>>, now) = <<b, d>> /\ Redated(b, c) /\ Redated(d, e)
    BY <2>1, DatedTuples
  <2>3. u.log = <<b, d>>
    BY <2>2
  <2> QED
    BY <2>2, <2>3
<1>4. t.log = << >> => u.log = << >>
  BY DatedTuples
<1>5. \A d, e : Redated(d, e) /\ TellsDisabling(t, e) => TellsDisabling(u, d)
  BY DEF Redated, TellsDisabling
<1>6. \A d, e : Redated(d, e) /\ TellsActivation(t, e) => TellsActivation(u, d)
  BY DEF Redated, TellsActivation
<1>7. \A d, e : Redated(d, e) /\ TellsCreation(r, t, e) => TellsCreation(r, u, d)
  BY DEF Redated, TellsCreation
<1>8. TellsEdit(t) => TellsEdit(u)
  BY <1>2, <1>4 DEF TellsEdit, Redated
<1>9. TellsDisable(t) => TellsDisable(u)
  BY <1>2, <1>5 DEF TellsDisable
<1>10. TellsSwitch(t) => TellsSwitch(u)
  BY <1>2, <1>6 DEF TellsSwitch
<1>11. TellsLaunch(r, t) => TellsLaunch(r, u)
  <2>1. ASSUME NEW c, NEW e, t.log = <<c, e>>, TellsCreation(r, t, c), TellsActivation(t, e)
        PROVE  \E b, d : u.log = <<b, d>> /\ TellsCreation(r, u, b) /\ TellsActivation(u, d)
    BY <1>3, <1>6, <1>7, <2>1
  <2> QED
    BY <2>1 DEF TellsLaunch
<1>12. TellsVersion(r, t) => TellsVersion(r, u)
  BY <1>2, <1>7 DEF TellsVersion
<1> QED
  BY <1>8, <1>9, <1>10, <1>11, <1>12 DEF Tells

\* The INSERTs date the rows after every row there is.
LEMMA LogAuditTells ==
    ASSUME OInv, NEW r \in Requests, SessionTells(r), LogAudit(r)
    PROVE  \E step \in Working : \E t : GoesOn(r, step, t)
<1>1. PICK now \in Nat, step \in {"update", "commit"}, u \in Sessions :
        /\ Latest(now) /\ tx[r].log \in Seq(AuditLog)
        /\ u.skill_id = tx[r].skill_id
        /\ u.skill = tx[r].skill /\ u.version = tx[r].version
        /\ u.writes = tx[r].writes /\ u.log = Dated(tx[r].log, now)
        /\ pc[r] = "log" /\ Proceed(r, step, u)
  BY LogAuditFacts DEF OInv, EInv
<1>2. Tells(r, u)
  BY <1>1, RedatedTells DEF SessionTells
<1>3. ASSUME NEW e \in Entries(u.log), NEW i \in DOMAIN audit
      PROVE  audit[i].created_at < e.created_at
  <2>1. audit[i].created_at \in Instants
    BY DEF Instants
  <2>2. audit[i].created_at \in Nat /\ audit[i].created_at <= now
    BY <1>1, <2>1, InstantsType DEF Latest, OInv, EInv, IInv
  <2>3. PICK k \in DOMAIN u.log : e = u.log[k]
    BY DEF Entries
  <2>4. k \in DOMAIN tx[r].log /\ e = [tx[r].log[k] EXCEPT !.created_at = now + k]
    BY <1>1, <2>3, DatedType
  <2>5. tx[r].log[k] \in AuditLog /\ k \in Nat /\ k > 0
    BY <1>1, <2>4
  <2>6. e.created_at = now + k
    BY <2>4, <2>5 DEF AuditLog
  <2> QED
    BY <2>2, <2>5, <2>6
<1>4. pc[r] \in Working /\ step \in Working /\ step # "number"
  BY <1>1 DEF Working
<1>5. GoesOn(r, step, u)
  BY <1>1, <1>2, <1>3, <1>4 DEF GoesOn, Newest
<1> QED
  BY <1>4, <1>5

LEMMA UpdateSkillTells ==
    ASSUME OInv, NEW r \in Requests, SessionTells(r), UpdateSkill(r)
    PROVE  \E step \in Working : \E t : GoesOn(r, step, t)
<1>1. pc[r] \in Working /\ pc[r] \in Sent /\ "commit" \in Working
  BY DEF UpdateSkill, Working, Sent
<1>2. GoesOn(r, "commit", tx[r])
  BY <1>1 DEF UpdateSkill, GoesOn, SessionTells
<1> QED
  BY <1>1, <1>2

\* The steps there are, for an invariant that need not know the handlers.
LEMMA StepKinds ==
    ASSUME OInv, [Next]_vars, \A r \in Requests : pc[r] \in Working => SessionTells(r)
    PROVE  \/ UNCHANGED vars
           \/ \E r \in Requests : Ends(r)
           \/ \E r \in Requests, step \in Working : \E t : Opens(r, step, t)
           \/ \E r \in Requests, step \in Working : \E t : GoesOn(r, step, t)
           \/ \E r \in Requests, a \in Memberships, d \in Definitions : CreateSkillDraft(r, a, d)
           \/ \E r \in Requests : CommitTx(r)
<1>1. ASSUME NEW r \in Requests, Receive(r)
      PROVE  \/ Ends(r)
             \/ \E step \in Working : \E t : Opens(r, step, t)
             \/ \E a \in Memberships, d \in Definitions : CreateSkillDraft(r, a, d)
  <2>1. PICK a \in Memberships :
          \/ \E d \in Definitions : CreateSkillDraft(r, a, d)
          \/ \E s \in Ids(skills, r) :
               \/ \E p \in Patches : UpdateSkillDraft(r, a, s, p)
               \/ \E d \in Definitions : CreateSkillVersion(r, a, s, d)
               \/ \E v \in Ids(versions, r) \union {NULL} : ActivateSkill(r, a, s, v)
               \/ DisableSkill(r, a, s)
    BY <1>1 DEF Receive
  <2>2. Ids(skills, r) \subseteq Requests /\ Ids(versions, r) \subseteq Requests
    BY IdsType
  <2> QED
    BY <2>1, <2>2, UpdateSkillDraftTells, CreateSkillVersionTells, ActivateSkillTells,
       DisableSkillTells
<1>2. ASSUME NEW r \in Requests, Serve(r)
      PROVE  \/ Ends(r)
             \/ \E step \in Working : \E t : GoesOn(r, step, t)
             \/ CommitTx(r)
  <2>1. Respond(r) => Ends(r)
    BY AnswerEnds DEF Respond, OInv, EInv, IInv
  <2>2. ASSUME \/ SelectMaxVersion(r) \/ InsertVersion(r) \/ FindVersion(r)
               \/ LogAudit(r) \/ UpdateSkill(r)
        PROVE  SessionTells(r)
    BY <2>2 DEF SelectMaxVersion, InsertVersion, FindVersion, LogAudit, UpdateSkill, Working
  <2>3. SelectMaxVersion(r) => \E step \in Working : \E t : GoesOn(r, step, t)
    BY <2>2, SelectMaxVersionTells
  <2>4. InsertVersion(r) => Ends(r) \/ \E step \in Working : \E t : GoesOn(r, step, t)
    BY <2>2, InsertVersionTells
  <2>5. FindVersion(r) => Ends(r) \/ \E step \in Working : \E t : GoesOn(r, step, t)
    BY <2>2, FindVersionTells
  <2>6. LogAudit(r) => \E step \in Working : \E t : GoesOn(r, step, t)
    BY <2>2, LogAuditTells
  <2>7. UpdateSkill(r) => \E step \in Working : \E t : GoesOn(r, step, t)
    BY <2>2, UpdateSkillTells
  <2> QED
    BY <1>2, <2>1, <2>3, <2>4, <2>5, <2>6, <2>7 DEF Serve
<1>3. ASSUME NEW r \in Requests, Lose(r) PROVE Ends(r)
  BY <1>3 DEF Lose, Ends, Waiting, OInv, EInv, IInv, TypeOK
<1>4. ASSUME NEW r \in Requests, TimeOut(r) PROVE Ends(r)
  BY <1>4, AnswerEnds DEF TimeOut, OInv, EInv, IInv
<1> QED
  BY <1>1, <1>2, <1>3, <1>4 DEF Next, Terminating

----------------------------------------------------------------------------
(* Trails grow at their end.                                               *)

About(e, s, events) == e.skill_id = s /\ e.event \in events

Places(a, s, events) == {i \in DOMAIN a : a[i].skill_id = s /\ a[i].event \in events}

\* The sequence b is a with the row e at its end.
Extends(a, e, b) ==
    /\ Len(a) \in Nat /\ Len(b) = Len(a) + 1
    /\ DOMAIN a = 1 .. Len(a) /\ DOMAIN b = 1 .. Len(a) \union {Len(a) + 1}
    /\ \A i \in 1 .. Len(a) : b[i] = a[i]
    /\ b[Len(a) + 1] = e

LEMMA AppendExtends ==
    ASSUME NEW S, NEW a \in Seq(S), NEW e \in S
    PROVE  Append(a, e) \in Seq(S) /\ Extends(a, e, Append(a, e))
<1> DEFINE b == Append(a, e)
<1>1. b \in Seq(S) /\ Len(a) \in Nat /\ Len(b) = Len(a) + 1
  OBVIOUS
<1>2. (\A i \in 1 .. Len(a) : b[i] = a[i]) /\ b[Len(a) + 1] = e
  OBVIOUS
<1>3. DOMAIN a = 1 .. Len(a) /\ DOMAIN b = 1 .. Len(a) \union {Len(a) + 1}
  BY <1>1
<1> HIDE DEF b
<1>4. Extends(a, e, b)
  BY <1>1, <1>2, <1>3 DEF Extends
<1> QED
  BY <1>1, <1>4 DEF b

LEMMA PlacesOfExtension ==
    ASSUME NEW a, NEW e, NEW b, Extends(a, e, b), NEW s, NEW events
    PROVE  /\ Places(a, s, events) \subseteq 1 .. Len(a)
           /\ About(e, s, events) =>
                 Places(b, s, events) = Places(a, s, events) \union {Len(a) + 1}
           /\ ~About(e, s, events) => Places(b, s, events) = Places(a, s, events)
BY DEF Extends, Places, About

\* A step gives a skill's trail one more row, at its end; or none.
Gains(s, events, e) ==
    \E n \in Nat :
        /\ \A i \in TrailOf(s, events) : i \in Nat /\ i < n
        /\ TrailOf(s, events)' = TrailOf(s, events) \union {n}
        /\ audit'[n] = e
        /\ \A i \in TrailOf(s, events) : audit'[i] = audit[i]

Keeps(s, events) ==
    /\ TrailOf(s, events)' = TrailOf(s, events)
    /\ \A i \in TrailOf(s, events) : i \in Nat /\ audit'[i] = audit[i]

LEMMA NoRowMore ==
    ASSUME TypeOK, audit' = audit \/ audit' = audit \o << >>, NEW s, NEW events
    PROVE  Keeps(s, events)
<1>1. audit' = audit /\ DOMAIN audit \subseteq Nat
  BY DEF TypeOK
<1>2. TrailOf(s, events) \subseteq Nat
  BY <1>1 DEF TrailOf
<1> QED
  BY <1>1, <1>2 DEF Keeps, TrailOf

LEMMA OneRowMore ==
    ASSUME TypeOK, NEW e \in AuditLog, audit' = audit \o <<e>>, NEW s, NEW events
    PROVE  IF About(e, s, events) THEN Gains(s, events, e) ELSE Keeps(s, events)
<1> DEFINE n == Len(audit) + 1
<1>1. audit \in Seq(AuditLog) /\ audit' = Append(audit, e)
  BY DEF TypeOK
<1>2. Extends(audit, e, audit')
  BY <1>1, AppendExtends
<1>3. TrailOf(s, events) = Places(audit, s, events)
      /\ TrailOf(s, events)' = Places(audit', s, events)
  BY DEF TrailOf, Places
<1>4. /\ TrailOf(s, events) \subseteq 1 .. Len(audit)
      /\ About(e, s, events) => TrailOf(s, events)' = TrailOf(s, events) \union {n}
      /\ ~About(e, s, events) => TrailOf(s, events)' = TrailOf(s, events)
  BY <1>2, <1>3, PlacesOfExtension
<1>5. /\ n \in Nat /\ audit'[n] = e
      /\ \A i \in TrailOf(s, events) : i \in Nat /\ i < n /\ audit'[i] = audit[i]
  BY <1>2, <1>4 DEF Extends
<1> HIDE DEF n
<1>6. CASE About(e, s, events)
  BY <1>4, <1>5, <1>6 DEF Gains
<1>7. CASE ~About(e, s, events)
  BY <1>4, <1>5, <1>7 DEF Keeps
<1> QED
  BY <1>6, <1>7

LEMMA TwoRowsMore ==
    ASSUME TypeOK, NEW c \in AuditLog, NEW e \in AuditLog, audit' = audit \o <<c, e>>,
           NEW s, NEW events, ~(About(c, s, events) /\ About(e, s, events))
    PROVE  /\ About(c, s, events) => Gains(s, events, c)
           /\ About(e, s, events) => Gains(s, events, e)
           /\ ~About(c, s, events) /\ ~About(e, s, events) => Keeps(s, events)
<1> DEFINE n == Len(audit)
           b == Append(audit, c)
<1>1. audit \in Seq(AuditLog)
  BY DEF TypeOK
<1>2. audit' = Append(b, e)
  BY <1>1
<1>3. b \in Seq(AuditLog) /\ Extends(audit, c, b)
  BY <1>1, AppendExtends
<1> HIDE DEF b
<1>4. Extends(b, e, audit')
  BY <1>2, <1>3, AppendExtends
<1>5. TrailOf(s, events) = Places(audit, s, events)
      /\ TrailOf(s, events)' = Places(audit', s, events)
  BY DEF TrailOf, Places
<1>6. /\ Places(audit, s, events) \subseteq 1 .. n
      /\ About(c, s, events) => Places(b, s, events) = Places(audit, s, events) \union {n + 1}
      /\ ~About(c, s, events) => Places(b, s, events) = Places(audit, s, events)
  BY <1>3, PlacesOfExtension
<1>7. /\ About(e, s, events) =>
            Places(audit', s, events) = Places(b, s, events) \union {Len(b) + 1}
      /\ ~About(e, s, events) => Places(audit', s, events) = Places(b, s, events)
  BY <1>4, PlacesOfExtension
<1>8. n \in Nat /\ Len(b) = n + 1 /\ Len(b) + 1 = n + 2
  BY <1>3 DEF Extends
<1>9. \A i \in 1 .. n : i \in 1 .. Len(b) /\ i \in Nat /\ i < n + 1 /\ i < n + 2
  BY <1>8
<1>10. /\ n + 1 \in Nat /\ n + 2 \in Nat /\ audit'[n + 1] = c /\ audit'[n + 2] = e
       /\ \A i \in 1 .. n : audit'[i] = audit[i]
  <2>1. n + 1 \in 1 .. Len(b) /\ b[n + 1] = c
    BY <1>3, <1>8 DEF Extends
  <2>2. \A i \in 1 .. n : b[i] = audit[i]
    BY <1>3 DEF Extends
  <2>3. (\A i \in 1 .. Len(b) : audit'[i] = b[i]) /\ audit'[n + 2] = e
    BY <1>4, <1>8 DEF Extends
  <2> QED
    BY <1>8, <1>9, <2>1, <2>2, <2>3
<1>11. \A i \in TrailOf(s, events) :
          i \in Nat /\ i < n + 1 /\ i < n + 2 /\ audit'[i] = audit[i]
  BY <1>5, <1>6, <1>9, <1>10
<1> HIDE DEF n
<1>12. ASSUME About(c, s, events) PROVE Gains(s, events, c)
  <2>1. TrailOf(s, events)' = TrailOf(s, events) \union {n + 1}
    BY <1>5, <1>6, <1>7, <1>12
  <2> QED
    BY <1>10, <1>11, <2>1 DEF Gains
<1>13. ASSUME About(e, s, events) PROVE Gains(s, events, e)
  <2>1. TrailOf(s, events)' = TrailOf(s, events) \union {n + 2}
    BY <1>5, <1>6, <1>7, <1>8, <1>13
  <2> QED
    BY <1>10, <1>11, <2>1 DEF Gains
<1>14. ASSUME ~About(c, s, events), ~About(e, s, events) PROVE Keeps(s, events)
  <2>1. TrailOf(s, events)' = TrailOf(s, events)
    BY <1>5, <1>6, <1>7, <1>14
  <2> QED
    BY <1>11, <2>1 DEF Keeps
<1> QED
  BY <1>12, <1>13, <1>14

----------------------------------------------------------------------------
(* With any overlap.                                                       *)

Created   == {"skill.version_created"}
Activated == {"skill.activated"}

\* TrailNumbersVersions of one skill.
Numbering(s) ==
    /\ HistoryOf(s) = {audit[i].version_id : i \in TrailOf(s, Created)}
    /\ \A i \in TrailOf(s, Created) :
         LET v == versions[audit[i].version_id] IN
         /\ audit[i].version_hash =
              compute_version_hash(v.organization_id, s, v.version_number, v.definition)
         /\ \A j \in TrailOf(s, Created) :
              Before(i, j) <=> v.version_number < versions[audit[j].version_id].version_number

\* The committed rows of a skill about these events are earlier than e.
Later(s, events, e) ==
    \A i \in TrailOf(s, events) :
        /\ audit[i].created_at \in Nat /\ e.created_at \in Nat
        /\ audit[i].created_at < e.created_at

\* A session that has dated its rows will publish them in order.
Fresher(r, events) ==
    \A e \in Entries(tx[r].log) : e.event \in events => Later(tx[r].skill_id, events, e)

TrailInv ==
    /\ OInv
    /\ \A r \in Requests : pc[r] \in Working => SessionTells(r)
    /\ \A r \in Requests : pc[r] \in Sent => Fresher(r, Created)
    /\ \A s \in Requests : Numbering(s)

LEMMA NumberingKeeps ==
    ASSUME NEW s, Numbering(s), Keeps(s, Created), HistoryOf(s)' = HistoryOf(s),
           \A v \in HistoryOf(s) : versions'[v] = versions[v]
    PROVE  Numbering(s)'
<1>1. \A i \in TrailOf(s, Created) :
         /\ audit'[i] = audit[i]
         /\ versions'[audit'[i].version_id] = versions[audit[i].version_id]
  BY DEF Numbering, Keeps
<1>2. TrailOf(s, Created)' = TrailOf(s, Created)
  BY DEF Keeps
<1>3. HistoryOf(s)' = {audit'[i].version_id : i \in TrailOf(s, Created)}
  BY <1>1 DEF Numbering
<1>4. \A i \in TrailOf(s, Created) :
         LET v == versions'[audit'[i].version_id] IN
         /\ audit'[i].version_hash =
              compute_version_hash(v.organization_id, s, v.version_number, v.definition)
         /\ \A j \in TrailOf(s, Created) :
              audit'[i].created_at < audit'[j].created_at
                <=> v.version_number < versions'[audit'[j].version_id].version_number
  BY <1>1 DEF Numbering, Before
<1> QED
  BY <1>2, <1>3, <1>4 DEF Numbering, Before

LEMMA NumberingGains ==
    ASSUME NEW s, NEW c, NEW v, Numbering(s), Gains(s, Created, c), Later(s, Created, c),
           HistoryOf(s)' = HistoryOf(s) \union {v},
           c.created_at \in Nat, versions'[v].version_number \in Nat,
           \A u \in HistoryOf(s) :
              /\ versions'[u] = versions[u] /\ versions[u].version_number \in Nat
              /\ versions[u].version_number < versions'[v].version_number,
           c.version_id = v,
           c.version_hash = compute_version_hash(versions'[v].organization_id, s,
                                versions'[v].version_number, versions'[v].definition)
    PROVE  Numbering(s)'
<1> DEFINE trail == TrailOf(s, Created)
           num(i) == versions'[audit'[i].version_id].version_number
           at(i)  == audit'[i].created_at
<1>1. PICK n \in Nat :
        /\ \A i \in TrailOf(s, Created) : i \in Nat /\ i < n
        /\ TrailOf(s, Created)' = TrailOf(s, Created) \union {n}
        /\ audit'[n] = c
        /\ \A i \in TrailOf(s, Created) : audit'[i] = audit[i]
  BY DEF Gains
<1>2. \A i \in trail :
         /\ audit'[i] = audit[i] /\ audit[i].version_id \in HistoryOf(s)
         /\ versions'[audit'[i].version_id] = versions[audit[i].version_id]
  BY <1>1 DEF Numbering
<1>3. HistoryOf(s)' = {audit'[i].version_id : i \in trail \union {n}}
  <2>1. HistoryOf(s) = {audit'[i].version_id : i \in trail}
    BY <1>2 DEF Numbering
  <2> QED
    BY <1>1, <2>1
<1>4. \A i \in trail \union {n} :
         LET u == versions'[audit'[i].version_id] IN
         audit'[i].version_hash =
           compute_version_hash(u.organization_id, s, u.version_number, u.definition)
  BY <1>1, <1>2 DEF Numbering
<1>5. ASSUME NEW i \in trail
      PROVE  /\ num(i) \in Nat /\ num(n) \in Nat /\ num(i) < num(n)
             /\ at(i) \in Nat /\ at(n) \in Nat /\ at(i) < at(n)
  BY <1>1, <1>2, <1>5 DEF Later
<1>6. num(n) \in Nat /\ at(n) \in Nat
  BY <1>1
<1>7. \A i \in trail, j \in trail : at(i) < at(j) <=> num(i) < num(j)
  BY <1>2 DEF Numbering, Before
<1> HIDE DEF trail, num, at
<1>8. \A i \in trail : (at(i) < at(n) <=> num(i) < num(n)) /\ (at(n) < at(i) <=> num(n) < num(i))
  BY <1>5
<1>9. at(n) < at(n) <=> num(n) < num(n)
  BY <1>6
<1>10. \A i \in trail \union {n} : \A j \in trail \union {n} : at(i) < at(j) <=> num(i) < num(j)
  BY <1>7, <1>8, <1>9
<1>11. TrailOf(s, Created)' = trail \union {n}
  BY <1>1 DEF trail
<1> QED
  BY <1>3, <1>4, <1>10, <1>11 DEF Numbering, Before, num, at

Moved == {"skill.draft_created", "skill.activated", "skill.disabled"}

Grows(s, x, events, e) == IF s = x THEN Gains(s, events, e) ELSE Keeps(s, events)

\* The trails a commit makes longer, by the kind of transaction.
LEMMA CommitTrails ==
    ASSUME TrailInv, NEW r \in Requests, CommitTx(r)
    PROVE  LET t == tx[r]
               x == t.skill_id
           IN
           \/ /\ TellsEdit(t)
              /\ \A s \in Requests :
                    Keeps(s, Created) /\ Keeps(s, Activated) /\ Keeps(s, Moved)
           \/ /\ TellsDisable(t)
              /\ \E e : /\ TellsDisabling(t, e) /\ e \in Entries(t.log)
                        /\ \A s \in Requests :
                              Keeps(s, Created) /\ Keeps(s, Activated) /\ Grows(s, x, Moved, e)
           \/ /\ TellsSwitch(t)
              /\ \E e : /\ TellsActivation(t, e) /\ e \in Entries(t.log)
                        /\ \A s \in Requests :
                              /\ Keeps(s, Created)
                              /\ Grows(s, x, Activated, e) /\ Grows(s, x, Moved, e)
           \/ /\ TellsLaunch(r, t)
              /\ \E c, e : /\ TellsCreation(r, t, c) /\ TellsActivation(t, e)
                           /\ c \in Entries(t.log) /\ e \in Entries(t.log)
                           /\ \A s \in Requests :
                                 /\ Grows(s, x, Created, c)
                                 /\ Grows(s, x, Activated, e) /\ Grows(s, x, Moved, e)
           \/ /\ TellsVersion(r, t)
              /\ \E c : /\ TellsCreation(r, t, c) /\ c \in Entries(t.log)
                        /\ \A s \in Requests :
                              Grows(s, x, Created, c) /\ Keeps(s, Activated) /\ Keeps(s, Moved)
<1> DEFINE t == tx[r]
           x == t.skill_id
<1>1. pc[r] = "commit" /\ pc[r] \in Working /\ audit' = audit \o t.log
  BY DEF CommitTx, Working
<1>2. /\ TypeOK /\ t \in Sessions /\ t.log \in Seq(AuditLog)
      /\ SessionTraced(r) /\ Tells(r, t)
  BY <1>1, TracedFacts DEF TrailInv, OInv, EInv, IInv, SessionTells, Sessions
<1>3. \A e \in Entries(t.log) : e \in AuditLog /\ e.event # "skill.draft_created"
  BY <1>2 DEF SessionTraced, Entries
<1> HIDE DEF t
<1>4. CASE TellsEdit(t)
  <2>1. CASE t.log = << >>
    BY <1>1, <1>2, <1>4, <2>1, NoRowMore DEF t
  <2>2. ASSUME NEW e, t.log = <<e>>, e.event \notin Telling
        PROVE  \A s \in Requests :
                  Keeps(s, Created) /\ Keeps(s, Activated) /\ Keeps(s, Moved)
    <3>1. e \in AuditLog /\ e.event # "skill.draft_created"
      BY <1>3, <2>2, EntriesOfTuples
    <3>2. \A s : ~About(e, s, Created) /\ ~About(e, s, Activated) /\ ~About(e, s, Moved)
      BY <2>2, <3>1 DEF About, Telling, Created, Activated, Moved
    <3> QED
      BY <1>1, <1>2, <2>2, <3>1, <3>2, OneRowMore
  <2> QED
    BY <1>4, <2>1, <2>2 DEF TellsEdit, t
<1>5. CASE TellsDisable(t)
  <2>1. PICK e : t.log = <<e>> /\ TellsDisabling(t, e)
    BY <1>5 DEF TellsDisable
  <2>2. e \in AuditLog /\ e \in Entries(t.log)
    BY <1>3, <2>1, EntriesOfTuples
  <2>3. \A s : /\ ~About(e, s, Created) /\ ~About(e, s, Activated)
               /\ About(e, s, Moved) <=> s = x
    BY <2>1 DEF TellsDisabling, About, Created, Activated, Moved
  <2>4. \A s \in Requests : Keeps(s, Created) /\ Keeps(s, Activated) /\ Grows(s, x, Moved, e)
    BY <1>1, <1>2, <2>1, <2>2, <2>3, OneRowMore DEF Grows
  <2> QED
    BY <1>5, <2>1, <2>2, <2>4 DEF t
<1>6. CASE TellsSwitch(t)
  <2>1. PICK e : t.log = <<e>> /\ TellsActivation(t, e)
    BY <1>6 DEF TellsSwitch
  <2>2. e \in AuditLog /\ e \in Entries(t.log)
    BY <1>3, <2>1, EntriesOfTuples
  <2>3. \A s : /\ ~About(e, s, Created)
               /\ About(e, s, Activated) <=> s = x
               /\ About(e, s, Moved) <=> s = x
    BY <2>1 DEF TellsActivation, About, Created, Activated, Moved
  <2>4. \A s \in Requests : /\ Keeps(s, Created)
                            /\ Grows(s, x, Activated, e) /\ Grows(s, x, Moved, e)
    BY <1>1, <1>2, <2>1, <2>2, <2>3, OneRowMore DEF Grows
  <2> QED
    BY <1>6, <2>1, <2>2, <2>4 DEF t
<1>7. CASE TellsLaunch(r, t)
  <2>1. PICK c, e : t.log = <<c, e>> /\ TellsCreation(r, t, c) /\ TellsActivation(t, e)
    BY <1>7 DEF TellsLaunch
  <2>2. c \in AuditLog /\ e \in AuditLog /\ c \in Entries(t.log) /\ e \in Entries(t.log)
    <3>1. Entries(t.log) = {c, e}
      BY <2>1, EntriesOfTuples
    <3> QED
      BY <1>3, <3>1
  <2>3. \A s : /\ About(c, s, Created) <=> s = x
               /\ ~About(e, s, Created)
               /\ ~About(c, s, Activated) /\ ~About(c, s, Moved)
               /\ About(e, s, Activated) <=> s = x
               /\ About(e, s, Moved) <=> s = x
    BY <2>1 DEF TellsCreation, TellsActivation, About, Created, Activated, Moved
  <2>4. \A s \in Requests : Grows(s, x, Created, c)
    BY <1>1, <1>2, <2>1, <2>2, <2>3, TwoRowsMore DEF Grows
  <2>5. \A s \in Requests : Grows(s, x, Activated, e) /\ Grows(s, x, Moved, e)
    BY <1>1, <1>2, <2>1, <2>2, <2>3, TwoRowsMore DEF Grows
  <2> QED
    BY <1>7, <2>1, <2>2, <2>4, <2>5 DEF t
<1>8. CASE TellsVersion(r, t)
  <2>1. PICK c : t.log = <<c>> /\ TellsCreation(r, t, c)
    BY <1>8 DEF TellsVersion
  <2>2. c \in AuditLog /\ c \in Entries(t.log)
    BY <1>3, <2>1, EntriesOfTuples
  <2>3. \A s : /\ About(c, s, Created) <=> s = x
               /\ ~About(c, s, Activated) /\ ~About(c, s, Moved)
    BY <2>1 DEF TellsCreation, About, Created, Activated, Moved
  <2>4. \A s \in Requests : Grows(s, x, Created, c) /\ Keeps(s, Activated) /\ Keeps(s, Moved)
    BY <1>1, <1>2, <2>1, <2>2, <2>3, OneRowMore DEF Grows
  <2> QED
    BY <1>8, <2>1, <2>2, <2>4 DEF t
<1> QED
  BY <1>2, <1>4, <1>5, <1>6, <1>7, <1>8 DEF Tells, t

LEMMA CommitNumbering ==
    ASSUME TrailInv, NEW r \in Requests, CommitTx(r), NEW s \in Requests
    PROVE  Numbering(s)'
<1> DEFINE t == tx[r]
           x == t.skill_id
           v == t.version
<1>1. Numbering(s) /\ IInv
  BY DEF TrailInv, OInv, EInv
<1>2. pc[r] = "commit" /\ versions'[r] = v
      /\ \A u \in HistoryOf(s) : versions'[u] = versions[u]
  BY <1>1, CommitHistories DEF CommitTx, HistoryOf
<1>3. HistoryOf(s)' = IF v # NULL /\ s = x THEN HistoryOf(s) \union {r} ELSE HistoryOf(s)
  BY <1>1, CommitHistories
<1>4. v # NULL => NumbersOf(x) = 1 .. v.version_number - 1 /\ v \in SkillVersion
  <2>1. v \in SkillVersion \union {NULL}
    BY <1>1, <1>2, SessionFacts DEF Working
  <2> QED
    BY <1>1, <1>2, <2>1, NumbersBelow
<1> HIDE DEF x, v
<1>5. CASE Keeps(s, Created) /\ ~(v # NULL /\ s = x)
  BY <1>1, <1>2, <1>3, <1>5, NumberingKeeps
<1>6. ASSUME NEW c \in Entries(t.log), v # NULL, s = x, TellsCreation(r, t, c),
             Gains(s, Created, c)
      PROVE  Numbering(s)'
  <2>1. HistoryOf(s)' = HistoryOf(s) \union {r}
    BY <1>3, <1>6
  <2>2. ASSUME NEW u \in HistoryOf(s)
        PROVE  /\ versions'[u] = versions[u] /\ versions[u].version_number \in Nat
               /\ versions[u].version_number < versions'[r].version_number
    <3>1. versions[u].version_number \in 1 .. v.version_number - 1
      BY <1>4, <1>6 DEF NumbersOf
    <3>2. v.version_number \in Nat
      BY <1>4, <1>6 DEF SkillVersion
    <3> QED
      BY <1>2, <3>1, <3>2
  <2>3. /\ c.version_id = r
        /\ c.version_hash = compute_version_hash(versions'[r].organization_id, s,
                                versions'[r].version_number, versions'[r].definition)
    BY <1>2, <1>6 DEF TellsCreation, x, v
  <2>4. c.created_at \in Nat /\ versions'[r].version_number \in Nat
    <3>1. c \in AuditLog
      BY <1>2, <1>6, SessionFacts DEF Working, Entries, TrailInv, OInv, EInv
    <3> QED
      BY <1>2, <1>4, <1>6, <3>1 DEF AuditLog, SkillVersion
  <2>5. Later(s, Created, c)
    BY <1>2, <1>6 DEF TrailInv, Sent, Fresher, Created, TellsCreation, x
  <2> QED
    BY <1>1, <1>6, <2>1, <2>2, <2>3, <2>4, <2>5, NumberingGains
<1>7. \/ v = NULL /\ Keeps(s, Created)
      \/ v # NULL /\ \E c \in Entries(t.log) : TellsCreation(r, t, c) /\ Grows(s, x, Created, c)
  BY CommitTrails DEF TellsEdit, Edits, TellsDisable, TellsSwitch, TellsLaunch, TellsVersion,
                      x, v
<1> QED
  BY <1>5, <1>6, <1>7 DEF Grows

\* A new skill has no audit row before its first.
LEMMA CreateTrails ==
    ASSUME OInv, NEW r \in Requests, NEW a \in Memberships, NEW d \in Definitions,
           CreateSkillDraft(r, a, d)
    PROVE  \E e : /\ e.event = "skill.draft_created" /\ e.version_id = NULL
                 /\ e.created_at \in Nat
                 /\ \A events : TrailOf(r, events) = {}
                 /\ \A s \in Requests : Keeps(s, Created) /\ Keeps(s, Activated)
                                        /\ Grows(s, r, Moved, e)
<1>1. TypeOK /\ IInv /\ skills[r] = NULL
  BY AdmitFacts DEF CreateSkillDraft, OInv, EInv, IInv
<1>2. PICK e \in AuditLog, now \in Nat, log \in Seq(AuditLog) : DraftLogged(r, a, d, e, now, log)
  BY <1>1, CreateSkillDraftFacts
<1>3. audit' = audit \o <<e>>
  <2>1. audit' = audit \o log /\ Len(log) = 1 /\ log[1] = e
    BY <1>2 DEF DraftLogged
  <2>2. log = <<e>>
    BY <2>1
  <2> QED
    BY <2>1, <2>2
<1>4. /\ e.event = "skill.draft_created" /\ e.version_id = NULL /\ e.skill_id = r
      /\ e.created_at \in Nat
  BY <1>2 DEF DraftLogged
<1>5. \A s : /\ ~About(e, s, Created) /\ ~About(e, s, Activated)
             /\ About(e, s, Moved) <=> s = r
  BY <1>4 DEF About, Created, Activated, Moved
<1>6. \A s \in Requests : Keeps(s, Created) /\ Keeps(s, Activated) /\ Grows(s, r, Moved, e)
  BY <1>1, <1>3, <1>5, OneRowMore DEF Grows
<1>7. ASSUME NEW events PROVE TrailOf(r, events) = {}
  <2>1. \A i \in DOMAIN audit : audit[i].skill_id # r
    BY <1>1 DEF OInv, EInv, AuditSound, Entries
  <2> QED
    BY <2>1 DEF TrailOf
<1> QED
  BY <1>4, <1>6, <1>7

\* Steps that change no row change no trail.
LEMMA RowsStay ==
    ASSUME TrailInv, UNCHANGED <<skills, versions, audit>>, NEW s \in Requests
    PROVE  Numbering(s)'
<1>1. Keeps(s, Created) /\ HistoryOf(s)' = HistoryOf(s) /\ Numbering(s)
  BY NoRowMore, SameHistories DEF TrailInv, OInv, EInv, IInv
<1> QED
  BY <1>1, NumberingKeeps

\* The rows of a session that does not move stay later than those of a trail
\* that does not grow.
LEMMA FresherStays ==
    ASSUME NEW q, NEW events, Fresher(q, events), tx'[q] = tx[q],
           Keeps(tx[q].skill_id, events)
    PROVE  Fresher(q, events)'
BY DEF Fresher, Later, Keeps

LEMMA SessionsStay ==
    ASSUME TrailInv, OInv', NEW r \in Requests,
           \A q \in Requests \ {r} : pc'[q] = pc[q] /\ tx'[q] = tx[q],
           pc'[r] \in Working => SessionTells(r)'
    PROVE  \A q \in Requests : pc'[q] \in Working => SessionTells(q)'
BY DEF TrailInv, SessionTells

\* The sessions of the others, when no trail of versions grows.
LEMMA OthersFresher ==
    ASSUME TrailInv, NEW r \in Requests,
           \A q \in Requests \ {r} : pc'[q] = pc[q] /\ tx'[q] = tx[q],
           \A s \in Requests : Keeps(s, Created),
           pc'[r] \in Sent => Fresher(r, Created)'
    PROVE  \A q \in Requests : pc'[q] \in Sent => Fresher(q, Created)'
<1> SUFFICES ASSUME NEW q \in Requests \ {r}, pc[q] \in Sent PROVE Fresher(q, Created)'
  OBVIOUS
<1>1. tx[q].skill_id \in Requests
  BY SessionFacts DEF Sent, Working, TrailInv, OInv, EInv
<1> QED
  BY <1>1, FresherStays DEF TrailInv

\* What a session's rows are later than, it is later than each trail.
LEMMA NewestIsFresher ==
    ASSUME TypeOK, TypeOK', NEW r \in Requests, NEW t, tx'[r] = t, t # NULL, Newest(t),
           audit' = audit, NEW events
    PROVE  Fresher(r, events)'
<1>1. t \in Sessions /\ t.log \in Seq(AuditLog)
  BY DEF TypeOK, Sessions
<1>2. \A e \in Entries(t.log) : e.created_at \in Nat
  <2>1. \A e \in Entries(t.log) : e \in AuditLog
    BY <1>1 DEF Entries
  <2> QED
    BY <2>1 DEF AuditLog
<1>3. \A i \in DOMAIN audit : audit[i].created_at \in Nat
  <2>1. \A i \in DOMAIN audit : audit[i] \in AuditLog
    BY DEF TypeOK
  <2> QED
    BY <2>1 DEF AuditLog
<1> QED
  BY <1>2, <1>3 DEF Newest, Fresher, Later, TrailOf

LEMMA ProceedStays ==
    ASSUME TrailInv, OInv', NEW r \in Requests, NEW step \in Working, NEW t,
           Proceed(r, step, t), Tells(r, t), step = "number" => t.skill.status = "active",
           step \in Sent => Newest(t) \/ (pc[r] \in Sent /\ t = tx[r])
    PROVE  TrailInv'
<1>1. /\ pc'[r] = step /\ tx'[r] = t /\ UNCHANGED <<skills, versions, audit>>
      /\ \A q \in Requests \ {r} : pc'[q] = pc[q] /\ tx'[q] = tx[q]
  BY DEF Proceed, TrailInv, OInv, EInv, IInv, TypeOK
<1>2. SessionTells(r)'
  BY <1>1 DEF SessionTells
<1>3. \A s \in Requests : Keeps(s, Created)
  BY <1>1, NoRowMore DEF TrailInv, OInv, EInv, IInv
<1>4. ASSUME step \in Sent PROVE Fresher(r, Created)'
  <2>1. CASE Newest(t)
    <3>1. t # NULL
      BY <1>1 DEF OInv, EInv, IInv, SessionsSound, Working, Waiting
    <3> QED
      BY <1>1, <2>1, <3>1, NewestIsFresher DEF TrailInv, OInv, EInv, IInv
  <2>2. CASE pc[r] \in Sent /\ t = tx[r]
    <3>1. tx[r].skill_id \in Requests
      BY <2>2, SessionFacts DEF Sent, Working, TrailInv, OInv, EInv
    <3> QED
      BY <1>1, <1>3, <2>2, <3>1, FresherStays DEF TrailInv
  <2> QED
    BY <1>4, <2>1, <2>2
<1>5. \A q \in Requests : pc'[q] \in Sent => Fresher(q, Created)'
  BY <1>1, <1>3, <1>4, OthersFresher
<1> QED
  BY <1>1, <1>2, <1>5, RowsStay, SessionsStay DEF TrailInv

\* Two sessions past their INSERT of a version have versions of two skills:
\* each one's number follows those that are committed.
LEMMA OneVersionAtATime ==
    ASSUME IInv, NEW r \in Requests, NEW q \in Requests \ {r},
           pc[r] \in Sent, pc[q] \in Sent, tx[r].version # NULL, tx[q].version # NULL
    PROVE  tx[q].skill_id # tx[r].skill_id
<1> SUFFICES ASSUME tx[q].skill_id = tx[r].skill_id PROVE FALSE
  OBVIOUS
<1> DEFINE S == NumbersOf(tx[r].skill_id)
           m == tx[r].version.version_number
           n == tx[q].version.version_number
<1>1. /\ SessionSound(r) /\ tx[r].version \in SkillVersion
      /\ SessionSound(q) /\ tx[q].version \in SkillVersion
  BY SessionFacts DEF Sent, Working
<1>2. m \in Nat \ {0} /\ n \in Nat \ {0}
  BY <1>1 DEF SkillVersion
<1>3. /\ m \notin S /\ \A k \in 1 .. m - 1 : k \in S
      /\ n \notin S /\ \A k \in 1 .. n - 1 : k \in S
  BY <1>1 DEF SessionSound, Inserted, Sent
<1>4. m # n
  <2>1. ~SameNumber(tx[q].version, tx[r].version)
    BY <1>1 DEF SessionSound, Inserted, Sent
  <2>2. tx[q].version.skill_id = tx[r].version.skill_id
    BY <1>1 DEF SessionSound
  <2> QED
    BY <2>1, <2>2 DEF SameNumber
<1> HIDE DEF S, m, n
<1>5. m \in 1 .. n - 1 \/ n \in 1 .. m - 1
  BY <1>2, <1>4
<1> QED
  BY <1>3, <1>5

LEMMA CommitFresher ==
    ASSUME TrailInv, NEW r \in Requests, CommitTx(r)
    PROVE  \A q \in Requests : pc'[q] \in Sent => Fresher(q, Created)'
<1>1. /\ pc[r] = "commit" /\ pc'[r] = "respond" /\ tx' = tx
      /\ \A q \in Requests \ {r} : pc'[q] = pc[q]
  BY CommitRows DEF TrailInv, OInv
<1> SUFFICES ASSUME NEW q \in Requests \ {r}, pc[q] \in Sent PROVE Fresher(q, Created)'
  BY <1>1 DEF Sent
<1>2. IInv /\ tx[q].skill_id \in Requests /\ SessionTraced(q) /\ pc[r] \in Sent
  BY <1>1, TracedFacts DEF Sent, Working, TrailInv, OInv, EInv
<1>3. CASE tx[q].version = NULL
  <2>1. \A e \in Entries(tx[q].log) : e.event \notin Created
    BY <1>2, <1>3 DEF SessionTraced, Created
  <2> QED
    BY <1>1, <2>1 DEF Fresher
<1>4. CASE tx[q].version # NULL
  <2>1. tx[r].version # NULL => tx[q].skill_id # tx[r].skill_id
    BY <1>2, <1>4, OneVersionAtATime
  <2>2. \/ tx[r].version = NULL /\ Keeps(tx[q].skill_id, Created)
        \/ tx[r].version # NULL /\ \E c : Grows(tx[q].skill_id, tx[r].skill_id, Created, c)
    BY <1>2, CommitTrails DEF TellsEdit, Edits, TellsDisable, TellsSwitch, TellsLaunch,
                              TellsVersion
  <2>3. Keeps(tx[q].skill_id, Created)
    BY <2>1, <2>2 DEF Grows
  <2> QED
    BY <1>1, <2>3, FresherStays DEF TrailInv
<1> QED
  BY <1>3, <1>4

LEMMA InitTrailInv == Init => TrailInv
<1> SUFFICES ASSUME Init PROVE TrailInv
  OBVIOUS
<1>1. OInv
  BY InitOInv
<1>2. \A s \in Requests : HistoryOf(s) = {} /\ TrailOf(s, Created) = {}
  BY DEF Init, HistoryOf, TrailOf
<1>3. \A s \in Requests : Numbering(s)
  BY <1>2 DEF Numbering
<1> QED
  BY <1>1, <1>3 DEF TrailInv, Init, Working, Sent

LEMMA NextTrailInv == TrailInv /\ [Next]_vars => TrailInv'
<1> SUFFICES ASSUME TrailInv, [Next]_vars PROVE TrailInv'
  OBVIOUS
<1>1. OInv'
  BY NextOInv DEF TrailInv
<1>2. CASE UNCHANGED vars
  <2>1. /\ UNCHANGED <<skills, versions, audit>> /\ pc' = pc /\ tx' = tx
    BY <1>2 DEF vars
  <2>2. \A r \in Requests : pc'[r] \in Working => SessionTells(r)'
    BY <2>1 DEF TrailInv, SessionTells
  <2>3. \A r \in Requests : pc'[r] \in Sent => Fresher(r, Created)'
    BY <2>1 DEF TrailInv, Fresher, Later, TrailOf
  <2> QED
    BY <1>1, <2>1, <2>2, <2>3, RowsStay DEF TrailInv
<1>3. ASSUME NEW r \in Requests, Ends(r) PROVE TrailInv'
  <2>1. /\ pc'[r] \notin Working /\ pc'[r] \notin Sent
        /\ UNCHANGED <<skills, versions, audit>>
        /\ \A q \in Requests \ {r} : pc'[q] = pc[q] /\ tx'[q] = tx[q]
    BY <1>3 DEF Ends, Waiting, Working, Sent
  <2>2. \A s \in Requests : Keeps(s, Created)
    BY <2>1, NoRowMore DEF TrailInv, OInv, EInv, IInv
  <2>3. \A q \in Requests : pc'[q] \in Sent => Fresher(q, Created)'
    BY <2>1, <2>2, OthersFresher
  <2> QED
    BY <1>1, <2>1, <2>3, RowsStay, SessionsStay DEF TrailInv
<1>4. ASSUME NEW r \in Requests, NEW step \in Working, NEW t, Opens(r, step, t) PROVE TrailInv'
  BY <1>1, <1>4, ProceedStays DEF Opens
<1>5. ASSUME NEW r \in Requests, NEW step \in Working, NEW t, GoesOn(r, step, t) PROVE TrailInv'
  BY <1>1, <1>5, ProceedStays DEF GoesOn
<1>6. ASSUME NEW r \in Requests, NEW a \in Memberships, NEW d \in Definitions,
             CreateSkillDraft(r, a, d)
      PROVE  TrailInv'
  <2>1. /\ pc'[r] = "respond" /\ versions' = versions
        /\ \A q \in Requests \ {r} : pc'[q] = pc[q] /\ tx'[q] = tx[q]
    BY <1>6 DEF CreateSkillDraft, TrailInv, OInv, EInv, IInv, TypeOK
  <2>2. \A s \in Requests : Keeps(s, Created)
    BY <1>6, CreateTrails DEF TrailInv
  <2>3. \A s \in Requests : Numbering(s)'
    BY <2>1, <2>2, NumberingKeeps, SameHistories DEF TrailInv
  <2>4. \A q \in Requests : pc'[q] \in Working => SessionTells(q)'
    BY <1>1, <2>1, SessionsStay DEF Working
  <2>5. \A q \in Requests : pc'[q] \in Sent => Fresher(q, Created)'
    BY <2>1, <2>2, OthersFresher DEF Sent
  <2> QED
    BY <1>1, <2>3, <2>4, <2>5 DEF TrailInv
<1>7. ASSUME NEW r \in Requests, CommitTx(r) PROVE TrailInv'
  <2>1. /\ pc'[r] = "respond" /\ tx' = tx
        /\ \A q \in Requests \ {r} : pc'[q] = pc[q]
    BY <1>7, CommitRows DEF TrailInv, OInv
  <2>2. \A q \in Requests : pc'[q] \in Working => SessionTells(q)'
    BY <1>1, <2>1, SessionsStay DEF Working
  <2> QED
    BY <1>1, <1>7, <2>2, CommitNumbering, CommitFresher DEF TrailInv
<1>8. \A r \in Requests : pc[r] \in Working => SessionTells(r)
  BY DEF TrailInv
<1> QED
  BY <1>2, <1>3, <1>4, <1>5, <1>6, <1>7, <1>8, StepKinds DEF TrailInv

LEMMA TrailHolds == Spec => []TrailInv
BY InitTrailInv, NextTrailInv, PTL DEF Spec

(* Whatever requests overlap, the skill.version_created rows of a skill's  *)
(* trail are its versions, by created_at in the order of their numbers,    *)
(* none missing and each with the hash of that very snapshot: a number is  *)
(* dated after the number before it was committed.                         *)
THEOREM TrailNumbers == Spec => []TrailNumbersVersions
<1>1. TrailInv => TrailNumbersVersions
  BY DEF TrailInv, Numbering, TrailNumbersVersions, Created
<1> QED
  BY <1>1, TrailHolds, PTL

----------------------------------------------------------------------------
(* One at a time: what a session loaded is still so when it writes.        *)

\* TrailTellsRow of one skill; the last row also names the active version.
Chained(s) ==
    LET trail == TrailOf(s, Moved) IN
    /\ trail # {}
    /\ \A i \in trail :
         /\ Last(trail, i) =>
              /\ skills[s].status = StatusAfter[audit[i].event]
              /\ skills[s].active_version_id = audit[i].version_id
         /\ \A j \in trail :
              Last({k \in trail : Before(k, i)}, j) =>
                /\ audit[i].previous_status = StatusAfter[audit[j].event]
                /\ audit[i].event = "skill.activated" =>
                     audit[i].previous_version_id = audit[j].version_id

\* LastActivationRuns of one skill.
Running(s) ==
    /\ TrailOf(s, Activated) = {} => skills[s].active_version_id = NULL
    /\ \A i \in TrailOf(s, Activated) :
          Last(TrailOf(s, Activated), i) => audit[i].version_id = skills[s].active_version_id

AtWork == {r \in Requests : pc[r] \in Working}

SerialInv ==
    /\ TrailInv
    /\ \A q, r \in AtWork : q = r
    /\ \A r \in Requests : pc[r] \in Working => tx[r].skill = skills[tx[r].skill_id]
    /\ \A r \in Requests : pc[r] \in Sent => Fresher(r, Moved) /\ Fresher(r, Activated)
    /\ \A s \in Requests : skills[s] # NULL => Chained(s) /\ Running(s)

LEMMA StatusAfterMoves ==
    /\ DOMAIN StatusAfter = Moved
    /\ StatusAfter["skill.draft_created"] = "draft"
    /\ StatusAfter["skill.activated"] = "active"
    /\ StatusAfter["skill.disabled"] = "disabled"
BY DEF StatusAfter, Moved

LEMMA ChainedKeeps ==
    ASSUME NEW s, Chained(s), Keeps(s, Moved),
           skills'[s].status = skills[s].status,
           skills'[s].active_version_id = skills[s].active_version_id
    PROVE  Chained(s)'
<1>1. /\ TrailOf(s, Moved)' = TrailOf(s, Moved)
      /\ \A i \in TrailOf(s, Moved) : audit'[i] = audit[i]
  BY DEF Keeps
<1> DEFINE trail == TrailOf(s, Moved)
           prior(i) == {k \in trail : Before(k, i)}
<1>2. \A i \in trail, j \in trail : Before(i, j)' <=> Before(i, j)
  BY <1>1 DEF Before
<1>3. \A i : Last(TrailOf(s, Moved), i)' => i \in trail /\ Last(trail, i)
  BY <1>1, <1>2 DEF Last
<1>4. \A i \in trail : \A j :
         Last({k \in TrailOf(s, Moved) : Before(k, i)}, j)' => j \in trail /\ Last(prior(i), j)
  <2> SUFFICES ASSUME NEW i \in trail, NEW j,
                      Last({k \in TrailOf(s, Moved) : Before(k, i)}, j)'
               PROVE  j \in trail /\ Last(prior(i), j)
    OBVIOUS
  <2>1. /\ j \in trail /\ Before(j, i)'
        /\ \A k \in trail : Before(k, i)' /\ k # j => Before(k, j)'
    BY <1>1 DEF Last
  <2> QED
    BY <1>2, <2>1 DEF Last
<1>5. ASSUME NEW i \in trail, NEW j,
             Last({k \in TrailOf(s, Moved) : Before(k, i)}, j)'
      PROVE  /\ audit'[i].previous_status = StatusAfter[audit'[j].event]
             /\ audit'[i].event = "skill.activated" =>
                  audit'[i].previous_version_id = audit'[j].version_id
  <2>1. j \in trail /\ Last({k \in trail : Before(k, i)}, j)
    BY <1>4, <1>5
  <2> QED
    BY <1>1, <1>5, <2>1 DEF Chained
<1>6. \A i : Last(TrailOf(s, Moved), i)' =>
          skills'[s].status = StatusAfter[audit'[i].event]
          /\ skills'[s].active_version_id = audit'[i].version_id
  BY <1>1, <1>3 DEF Chained
<1>7. TrailOf(s, Moved)' = trail /\ trail # {}
  BY <1>1 DEF Chained
<1> HIDE DEF trail
<1> QED
  BY <1>5, <1>6, <1>7 DEF Chained

\* A row that is later than the trail it joins is the last of it, and changes
\* nothing of what is before the others.
LEMMA LaterIsLast ==
    ASSUME NEW s, NEW events, NEW e, Gains(s, events, e), Later(s, events, e),
           e.created_at \in Nat
    PROVE  \E n \in Nat :
             /\ n \notin TrailOf(s, events)
             /\ TrailOf(s, events)' = TrailOf(s, events) \union {n}
             /\ audit'[n] = e
             /\ \A i \in TrailOf(s, events) : audit'[i] = audit[i] /\ Before(i, n)'
             /\ \A i \in TrailOf(s, events) \union {n} : ~Before(n, i)'
             /\ \A i \in TrailOf(s, events), j \in TrailOf(s, events) :
                   Before(i, j)' <=> Before(i, j)
<1>1. PICK n \in Nat :
        /\ \A i \in TrailOf(s, events) : i \in Nat /\ i < n
        /\ TrailOf(s, events)' = TrailOf(s, events) \union {n}
        /\ audit'[n] = e
        /\ \A i \in TrailOf(s, events) : audit'[i] = audit[i]
  BY DEF Gains
<1>2. \A i \in TrailOf(s, events) :
         /\ audit'[i].created_at \in Nat /\ audit'[i].created_at < e.created_at
  BY <1>1 DEF Later
<1>3. n \notin TrailOf(s, events)
  BY <1>1
<1>4. \A i \in TrailOf(s, events) : Before(i, n)'
  BY <1>1, <1>2 DEF Before
<1>5. \A i \in TrailOf(s, events) \union {n} : ~Before(n, i)'
  BY <1>1, <1>2 DEF Before
<1>6. \A i \in TrailOf(s, events), j \in TrailOf(s, events) : Before(i, j)' <=> Before(i, j)
  BY <1>1 DEF Before
<1> QED
  BY <1>1, <1>3, <1>4, <1>5, <1>6

LEMMA ChainedGains ==
    ASSUME NEW s, NEW e, Chained(s), Gains(s, Moved, e), Later(s, Moved, e),
           e.created_at \in Nat,
           e.previous_status = skills[s].status,
           e.event = "skill.activated" => e.previous_version_id = skills[s].active_version_id,
           skills'[s].status = StatusAfter[e.event],
           skills'[s].active_version_id = e.version_id
    PROVE  Chained(s)'
<1> DEFINE trail == TrailOf(s, Moved)
<1>1. PICK n \in Nat :
        /\ n \notin trail
        /\ TrailOf(s, Moved)' = trail \union {n}
        /\ audit'[n] = e
        /\ \A i \in trail : audit'[i] = audit[i] /\ Before(i, n)'
        /\ \A i \in trail \union {n} : ~Before(n, i)'
        /\ \A i \in trail, j \in trail : Before(i, j)' <=> Before(i, j)
  BY LaterIsLast
<1> DEFINE grown == trail \union {n}
           prior(i) == {k \in trail : Before(k, i)}
<1>2. \A i \in grown : \A j :
         Last({k \in TrailOf(s, Moved) : Before(k, i)}, j)' =>
            j \in trail /\ Last(IF i = n THEN trail ELSE prior(i), j)
  <2> SUFFICES ASSUME NEW i \in grown, NEW j,
                      Last({k \in TrailOf(s, Moved) : Before(k, i)}, j)'
               PROVE  j \in trail /\ Last(IF i = n THEN trail ELSE prior(i), j)
    OBVIOUS
  <2>1. /\ j \in grown /\ Before(j, i)'
        /\ \A k \in grown : Before(k, i)' /\ k # j => Before(k, j)'
    BY <1>1 DEF Last
  <2>2. j \in trail
    BY <1>1, <2>1
  <2>3. CASE i = n
    BY <1>1, <2>1, <2>2, <2>3 DEF Last
  <2>4. CASE i \in trail
    BY <1>1, <2>1, <2>2, <2>4 DEF Last
  <2> QED
    BY <2>2, <2>3, <2>4
<1>3. \A i : Last(TrailOf(s, Moved), i)' => i = n
  BY <1>1 DEF Last
<1>4. ASSUME NEW i \in grown, NEW j,
             Last({k \in TrailOf(s, Moved) : Before(k, i)}, j)'
      PROVE  /\ audit'[i].previous_status = StatusAfter[audit'[j].event]
             /\ audit'[i].event = "skill.activated" =>
                  audit'[i].previous_version_id = audit'[j].version_id
  <2>1. j \in trail /\ Last(IF i = n THEN trail ELSE prior(i), j)
    BY <1>2, <1>4
  <2>2. CASE i = n
    <3>1. skills[s].status = StatusAfter[audit[j].event]
          /\ skills[s].active_version_id = audit[j].version_id
      BY <2>1, <2>2 DEF Chained
    <3> QED
      BY <1>1, <2>1, <2>2, <3>1
  <2>3. CASE i \in trail
    <3>1. Last({k \in trail : Before(k, i)}, j)
      BY <1>1, <2>1, <2>3
    <3> QED
      BY <1>1, <2>1, <2>3, <3>1 DEF Chained
  <2> QED
    BY <2>2, <2>3
<1>5. \A i : Last(TrailOf(s, Moved), i)' =>
          skills'[s].status = StatusAfter[audit'[i].event]
          /\ skills'[s].active_version_id = audit'[i].version_id
  BY <1>1, <1>3
<1>6. TrailOf(s, Moved)' = grown /\ grown # {}
  BY <1>1
<1> HIDE DEF grown, trail
<1> QED
  BY <1>4, <1>5, <1>6 DEF Chained

LEMMA ChainedStarts ==
    ASSUME NEW s, NEW e, TrailOf(s, Moved) = {}, Gains(s, Moved, e), e.created_at \in Nat,
           skills'[s].status = StatusAfter[e.event],
           skills'[s].active_version_id = e.version_id
    PROVE  Chained(s)'
<1>1. PICK n \in Nat : TrailOf(s, Moved)' = {n} /\ audit'[n] = e
  BY DEF Gains
<1>2. ~Before(n, n)'
  BY <1>1 DEF Before
<1> QED
  BY <1>1, <1>2 DEF Chained, Last

LEMMA RunningKeeps ==
    ASSUME NEW s, Running(s), Keeps(s, Activated),
           skills'[s].active_version_id = skills[s].active_version_id
    PROVE  Running(s)'
BY DEF Running, Keeps, Last, Before

LEMMA RunningGains ==
    ASSUME NEW s, NEW e, Gains(s, Activated, e), Later(s, Activated, e), e.created_at \in Nat,
           skills'[s].active_version_id = e.version_id
    PROVE  Running(s)'
<1>1. PICK n \in Nat :
        /\ n \notin TrailOf(s, Activated)
        /\ TrailOf(s, Activated)' = TrailOf(s, Activated) \union {n}
        /\ audit'[n] = e
        /\ \A i \in TrailOf(s, Activated) \union {n} : ~Before(n, i)'
  BY LaterIsLast
<1>2. \A i : Last(TrailOf(s, Activated), i)' => i = n
  BY <1>1 DEF Last
<1> QED
  BY <1>1, <1>2 DEF Running

\* With one connection a request that is let in finds nobody at work.
LEMMA AdmittedAlone ==
    ASSUME PoolSize = 1, TypeOK, \A p, q \in AtWork : p = q, NEW r \in Requests, Admit(r)
    PROVE  AtWork = {}
<1> SUFFICES ASSUME NEW q \in AtWork PROVE FALSE
  OBVIOUS
<1>1. AtWork = {q}
  OBVIOUS
<1>2. Cardinality({q}) = 1
  BY FS_Singleton
<1>3. Connected = AtWork
  BY DEF TypeOK, Steps, Connected, InFlight, Waiting, Working, AtWork
<1>4. Cardinality(Connected) < 1
  BY DEF Admit, PoolFull
<1> QED
  BY <1>1, <1>2, <1>3, <1>4

\* Who is at work after a step of r.
LEMMA AtWorkStep ==
    ASSUME NEW r \in Requests, \A q \in Requests \ {r} : pc'[q] = pc[q]
    PROVE  /\ AtWork' \subseteq AtWork \union {r}
           /\ pc'[r] \notin Working => AtWork' \subseteq AtWork
BY DEF AtWork

LEMMA CommitChained ==
    ASSUME SerialInv, NEW r \in Requests, CommitTx(r), NEW s \in Requests, skills[s] # NULL
    PROVE  Chained(s)'
<1> DEFINE t == tx[r]
           x == t.skill_id
           w == t.writes
<1>0. \A e \in Entries(t.log) :
         /\ e.created_at \in Nat
         /\ e.event \in Moved => Later(x, Moved, e)
  <2>1. pc[r] \in Sent /\ pc[r] \in Working
    BY DEF CommitTx, Sent, Working
  <2>2. \A e \in Entries(t.log) : e \in AuditLog
    BY <2>1, SessionFacts DEF Entries, SerialInv, TrailInv, OInv, EInv
  <2> QED
    BY <2>1, <2>2 DEF SerialInv, Fresher, AuditLog
<1>1. Chained(s) /\ TypeOK /\ x \in Requests
      /\ t.skill = skills[x] /\ skills[x] # NULL /\ skills[x] \in Skill
  <2>1. pc[r] \in Working
    BY DEF CommitTx, Working
  <2>2. x \in Requests /\ skills[x] # NULL
    BY CommitRows DEF SerialInv, TrailInv, OInv
  <2> QED
    BY <2>1, <2>2 DEF SerialInv, TrailInv, OInv, EInv, IInv, TypeOK
<1>2. /\ skills'[x] = Merge(skills[x], w)
      /\ \A q \in Requests \ {x} : skills'[q] = skills[q]
  BY CommitRows DEF SerialInv, TrailInv, OInv
<1> HIDE DEF x, w
<1>3. /\ skills'[x].active_version_id = IF w.active_version_id = NULL
                                        THEN skills[x].active_version_id
                                        ELSE w.active_version_id
      /\ skills'[x].status = IF w.status = NULL THEN skills[x].status ELSE w.status
  <2>1. /\ Merge(skills[x], w).active_version_id = IF w.active_version_id = NULL
                                                   THEN skills[x].active_version_id
                                                   ELSE w.active_version_id
        /\ Merge(skills[x], w).status = IF w.status = NULL THEN skills[x].status ELSE w.status
    BY <1>1 DEF Merge, Skill
  <2> QED
    BY <1>2, <2>1
<1>4. s # x => skills'[s] = skills[s]
  BY <1>2
<1>5. r # NULL /\ "disabled" # NULL /\ "active" # NULL
  BY NullAssumption DEF SkillStatus
<1>6. CASE Keeps(s, Moved) /\ (s = x => w.status = NULL /\ w.active_version_id = NULL)
  <2>1. skills'[s].status = skills[s].status
        /\ skills'[s].active_version_id = skills[s].active_version_id
    BY <1>3, <1>4, <1>6
  <2> QED
    BY <1>1, <1>6, <2>1, ChainedKeeps
<1>7. CASE s # x /\ \E e : Grows(s, x, Moved, e)
  BY <1>1, <1>4, <1>7, ChainedKeeps DEF Grows
<1>8. ASSUME s = x, NEW e \in Entries(t.log), Gains(s, Moved, e), TellsActivation(t, e),
             w.active_version_id # NULL,
             (w.status = NULL /\ t.skill.status = "active") \/ w.status = "active"
      PROVE  Chained(s)'
  <2>1. /\ e.event = "skill.activated" /\ e.version_id = w.active_version_id
        /\ e.previous_status = skills[s].status
        /\ e.previous_version_id = skills[s].active_version_id
    BY <1>1, <1>8 DEF TellsActivation, w
  <2>2. skills'[s].status = "active" /\ skills'[s].active_version_id = e.version_id
    BY <1>1, <1>3, <1>5, <1>8, <2>1
  <2>3. e.event \in Moved
    BY <2>1 DEF Moved
  <2>4. Later(x, Moved, e) /\ e.created_at \in Nat
    BY <1>0, <1>8, <2>3
  <2>5. Later(s, Moved, e)
    BY <1>8, <2>4
  <2> QED
    BY <1>1, <1>8, <2>1, <2>2, <2>4, <2>5, StatusAfterMoves, ChainedGains
<1>9. ASSUME s = x, NEW e \in Entries(t.log), Gains(s, Moved, e), TellsDisabling(t, e),
             w.active_version_id = NULL, w.status = "disabled"
      PROVE  Chained(s)'
  <2>1. /\ e.event = "skill.disabled" /\ e.version_id = skills[s].active_version_id
        /\ e.previous_status = skills[s].status
    BY <1>1, <1>9 DEF TellsDisabling
  <2>2. skills'[s].status = "disabled" /\ skills'[s].active_version_id = e.version_id
    BY <1>3, <1>5, <1>9, <2>1
  <2>3. e.event \in Moved
    BY <2>1 DEF Moved
  <2>4. Later(x, Moved, e) /\ e.created_at \in Nat
    BY <1>0, <1>9, <2>3
  <2>5. Later(s, Moved, e)
    BY <1>9, <2>4
  <2> QED
    BY <1>1, <1>9, <2>1, <2>2, <2>4, <2>5, StatusAfterMoves, ChainedGains
<1>10. \/ /\ w.status = NULL /\ w.active_version_id = NULL
          /\ Keeps(s, Moved)
       \/ /\ w.status = "disabled" /\ w.active_version_id = NULL
          /\ \E e \in Entries(t.log) : TellsDisabling(t, e) /\ Grows(s, x, Moved, e)
       \/ /\ w.active_version_id # NULL
          /\ (w.status = NULL /\ t.skill.status = "active") \/ w.status = "active"
          /\ \E e \in Entries(t.log) : TellsActivation(t, e) /\ Grows(s, x, Moved, e)
  BY <1>5, CommitTrails DEF SerialInv, TellsEdit, Edits, TellsDisable, TellsSwitch, TellsLaunch,
                            TellsVersion, Only, x, w
<1> HIDE DEF t
<1> QED
  BY <1>6, <1>7, <1>8, <1>9, <1>10 DEF Grows

LEMMA CommitRunning ==
    ASSUME SerialInv, NEW r \in Requests, CommitTx(r), NEW s \in Requests, skills[s] # NULL
    PROVE  Running(s)'
<1> DEFINE t == tx[r]
           x == t.skill_id
           w == t.writes
<1>0. \A e \in Entries(t.log) :
         /\ e.created_at \in Nat
         /\ e.event \in Activated => Later(x, Activated, e)
  <2>1. pc[r] \in Sent /\ pc[r] \in Working
    BY DEF CommitTx, Sent, Working
  <2>2. \A e \in Entries(t.log) : e \in AuditLog
    BY <2>1, SessionFacts DEF Entries, SerialInv, TrailInv, OInv, EInv
  <2> QED
    BY <2>1, <2>2 DEF SerialInv, Fresher, AuditLog
<1>1. Running(s) /\ TypeOK
  BY DEF SerialInv, TrailInv, OInv, EInv, IInv
<1>2. /\ skills'[x] = Merge(skills[x], w) /\ x \in Requests /\ skills[x] # NULL
      /\ \A q \in Requests \ {x} : skills'[q] = skills[q]
  BY CommitRows DEF SerialInv, TrailInv, OInv
<1>3. skills'[s].active_version_id = IF s = x /\ w.active_version_id # NULL
                                     THEN w.active_version_id ELSE skills[s].active_version_id
  <2>1. skills[x] \in Skill
    BY <1>1, <1>2 DEF TypeOK
  <2>2. Merge(skills[x], w).active_version_id = IF w.active_version_id = NULL
                                                THEN skills[x].active_version_id
                                                ELSE w.active_version_id
    BY <2>1 DEF Merge, Skill
  <2> HIDE DEF x, w
  <2> QED
    BY <1>2, <2>2
<1> HIDE DEF x, w
<1>4. \/ w.active_version_id = NULL /\ Keeps(s, Activated)
      \/ /\ w.active_version_id # NULL
         /\ \E e \in Entries(t.log) : TellsActivation(t, e) /\ Grows(s, x, Activated, e)
  <2>1. r # NULL
    BY NullAssumption
  <2> QED
    BY <2>1, CommitTrails DEF SerialInv, TellsEdit, Edits, TellsDisable, TellsSwitch, TellsLaunch,
                              TellsVersion, Only, x, w
<1>5. \A e : TellsActivation(t, e) => /\ e.version_id = w.active_version_id
                                      /\ e.event \in Activated
  BY DEF TellsActivation, Activated, w
<1>6. ASSUME NEW e \in Entries(t.log), s = x, w.active_version_id # NULL,
             TellsActivation(t, e), Gains(s, Activated, e)
      PROVE  Running(s)'
  <2>1. e.event \in Activated
    BY <1>5, <1>6
  <2>2. Later(x, Activated, e) /\ e.created_at \in Nat
    BY <1>0, <1>6, <2>1
  <2>3. Later(s, Activated, e)
    BY <1>6, <2>2
  <2> QED
    BY <1>3, <1>5, <1>6, <2>2, <2>3, RunningGains
<1> HIDE DEF t
<1>7. CASE Keeps(s, Activated) /\ ~(s = x /\ w.active_version_id # NULL)
  BY <1>1, <1>3, <1>7, RunningKeeps
<1> QED
  BY <1>4, <1>6, <1>7 DEF Grows

LEMMA InitSerialInv == Init => SerialInv
<1> SUFFICES ASSUME Init PROVE SerialInv
  OBVIOUS
<1>1. TrailInv
  BY InitTrailInv
<1> QED
  BY <1>1 DEF Init, SerialInv, AtWork, Working, Sent

\* A step that leaves the rows alone leaves the chains alone.
LEMMA RowsChained ==
    ASSUME SerialInv, UNCHANGED <<skills, versions, audit>>
    PROVE  \A s \in Requests : skills'[s] # NULL => Chained(s)' /\ Running(s)'
<1>1. \A s \in Requests : Keeps(s, Moved) /\ Keeps(s, Activated)
  BY NoRowMore DEF SerialInv, TrailInv, OInv, EInv, IInv
<1> QED
  BY <1>1, ChainedKeeps, RunningKeeps DEF SerialInv

\* A session of the only request at work.
LEMMA ProceedAlone ==
    ASSUME SerialInv, TrailInv', NEW r \in Requests, AtWork \subseteq {r},
           NEW step \in Working, NEW t, Proceed(r, step, t), t.skill = skills[t.skill_id],
           step \in Sent => Newest(t) \/ (pc[r] \in Sent /\ t = tx[r])
    PROVE  SerialInv'
<1>1. /\ pc'[r] = step /\ tx'[r] = t /\ UNCHANGED <<skills, versions, audit>>
      /\ \A q \in Requests \ {r} : pc'[q] = pc[q]
  BY DEF Proceed, SerialInv, TrailInv, OInv, EInv, IInv, TypeOK
<1>2. AtWork' \subseteq {r}
  BY <1>1, AtWorkStep
<1>3. \A q \in Requests : pc'[q] \in Working => q = r
  BY <1>2 DEF AtWork
<1>4. ASSUME step \in Sent PROVE Fresher(r, Moved)' /\ Fresher(r, Activated)'
  <2>1. CASE Newest(t)
    <3>1. t # NULL
      BY <1>1 DEF TrailInv, OInv, EInv, IInv, SessionsSound, Working, Waiting
    <3> QED
      BY <1>1, <2>1, <3>1, NewestIsFresher DEF SerialInv, TrailInv, OInv, EInv, IInv
  <2>2. CASE pc[r] \in Sent /\ t = tx[r]
    <3>1. tx[r].skill_id \in Requests
      BY <2>2, SessionFacts DEF Sent, Working, SerialInv, TrailInv, OInv, EInv
    <3>2. Keeps(tx[r].skill_id, Moved) /\ Keeps(tx[r].skill_id, Activated)
      BY <1>1, <3>1, NoRowMore DEF SerialInv, TrailInv, OInv, EInv, IInv
    <3> QED
      BY <1>1, <2>2, <3>2, FresherStays DEF SerialInv
  <2> QED
    BY <1>4, <2>1, <2>2
<1>5. \A q \in Requests : pc'[q] \in Sent => Fresher(q, Moved)' /\ Fresher(q, Activated)'
  BY <1>1, <1>3, <1>4 DEF Sent, Working
<1> QED
  BY <1>1, <1>2, <1>3, <1>5, RowsChained DEF SerialInv

LEMMA NextSerialInv ==
    ASSUME PoolSize = 1
    PROVE  SerialInv /\ [Next]_vars => SerialInv'
<1> SUFFICES ASSUME SerialInv, [Next]_vars PROVE SerialInv'
  OBVIOUS
<1>1. TrailInv'
  BY NextTrailInv DEF SerialInv
<1>2. OInv /\ TypeOK
  BY DEF SerialInv, TrailInv, OInv, EInv, IInv
<1>3. CASE UNCHANGED vars
  <2>1. UNCHANGED <<skills, versions, audit, pc, tx>>
    BY <1>3 DEF vars
  <2>2. AtWork' = AtWork
    BY <2>1 DEF AtWork
  <2>3. \A q \in Requests : pc'[q] \in Sent => Fresher(q, Moved)' /\ Fresher(q, Activated)'
    BY <2>1 DEF SerialInv, Fresher, Later, TrailOf
  <2> QED
    BY <1>1, <2>1, <2>2, <2>3, RowsChained DEF SerialInv
<1>4. ASSUME NEW r \in Requests, Ends(r) PROVE SerialInv'
  <2>1. /\ UNCHANGED <<skills, versions, audit>>
        /\ pc'[r] \notin Working /\ pc'[r] \notin Sent
        /\ \A q \in Requests \ {r} : pc'[q] = pc[q] /\ tx'[q] = tx[q]
    BY <1>4 DEF Ends, Waiting, Working, Sent
  <2>2. AtWork' \subseteq AtWork
    BY <2>1, AtWorkStep
  <2>3. ASSUME NEW q \in Requests, pc'[q] \in Sent
        PROVE  Fresher(q, Moved)' /\ Fresher(q, Activated)'
    <3>1. pc[q] \in Sent /\ tx'[q] = tx[q]
      BY <2>1, <2>3
    <3> QED
      BY <2>1, <3>1 DEF SerialInv, Fresher, Later, TrailOf
  <2> QED
    BY <1>1, <2>1, <2>2, <2>3, RowsChained DEF SerialInv
<1>5. ASSUME NEW r \in Requests, NEW step \in Working, NEW t, Opens(r, step, t)
      PROVE  SerialInv'
  <2>1. AtWork = {}
    BY <1>2, <1>5, AdmittedAlone DEF Opens, SerialInv
  <2> QED
    BY <1>1, <1>5, <2>1, ProceedAlone DEF Opens
<1>6. ASSUME NEW r \in Requests, NEW step \in Working, NEW t, GoesOn(r, step, t)
      PROVE  SerialInv'
  <2>1. r \in AtWork
    BY <1>6 DEF AtWork, GoesOn
  <2>2. AtWork \subseteq {r}
    BY <2>1 DEF SerialInv
  <2>3. t.skill = skills[t.skill_id] /\ Proceed(r, step, t)
    BY <1>6 DEF GoesOn, SerialInv
  <2> QED
    BY <1>1, <1>6, <2>2, <2>3, ProceedAlone DEF GoesOn
<1>7. ASSUME NEW r \in Requests, NEW a \in Memberships, NEW d \in Definitions,
             CreateSkillDraft(r, a, d)
      PROVE  SerialInv'
  <2>1. AtWork = {}
    BY <1>2, <1>7, AdmittedAlone DEF CreateSkillDraft, SerialInv
  <2>2. /\ pc'[r] = "respond" /\ \A q \in Requests \ {r} : pc'[q] = pc[q]
        /\ skills'[r].status = "draft" /\ skills'[r].active_version_id = NULL
    BY <1>2, <1>7 DEF CreateSkillDraft, TypeOK
  <2>3. AtWork' \subseteq {r}
    BY <2>1, <2>2, AtWorkStep
  <2>4. \A q \in Requests : pc'[q] \notin Working
    BY <2>2, <2>3 DEF AtWork, Working
  <2>5. \A s \in Requests \ {r} : skills'[s] = skills[s]
    BY <1>2, <1>7, CreateSkillDraftRows DEF OInv
  <2>6. PICK e : /\ e.event = "skill.draft_created" /\ e.version_id = NULL
                 /\ e.created_at \in Nat
                 /\ \A events : TrailOf(r, events) = {}
                 /\ \A s \in Requests : Keeps(s, Activated) /\ Grows(s, r, Moved, e)
    BY <1>2, <1>7, CreateTrails
  <2>7. Chained(r)' /\ Running(r)'
    <3>1. Chained(r)'
      BY <2>2, <2>6, StatusAfterMoves, ChainedStarts DEF Grows
    <3>2. Running(r)'
      BY <2>2, <2>6 DEF Running, Keeps
    <3> QED
      BY <3>1, <3>2
  <2>8. ASSUME NEW s \in Requests \ {r}, skills'[s] # NULL PROVE Chained(s)' /\ Running(s)'
    BY <2>5, <2>6, <2>8, ChainedKeeps, RunningKeeps DEF Grows, SerialInv
  <2>9. \A q \in Requests : pc'[q] \notin Sent
    BY <2>4 DEF Sent, Working
  <2> QED
    BY <1>1, <2>3, <2>4, <2>7, <2>8, <2>9 DEF SerialInv
<1>8. ASSUME NEW r \in Requests, CommitTx(r) PROVE SerialInv'
  <2>1. /\ pc[r] = "commit" /\ pc'[r] = "respond"
        /\ \A q \in Requests \ {r} : pc'[q] = pc[q]
        /\ \A s \in Requests : skills'[s] # NULL => skills[s] # NULL
    BY <1>2, <1>8, CommitRows DEF OInv
  <2>2. r \in AtWork
    BY <2>1 DEF AtWork, Working
  <2>3. AtWork' \subseteq {r}
    BY <2>1, <2>2, AtWorkStep DEF SerialInv
  <2>4. \A q \in Requests : pc'[q] \notin Working
    BY <2>1, <2>3 DEF AtWork, Working
  <2>5. \A q \in Requests : pc'[q] \notin Sent
    BY <2>4 DEF Sent, Working
  <2> QED
    BY <1>1, <1>8, <2>1, <2>3, <2>4, <2>5, CommitChained, CommitRunning DEF SerialInv
<1>9. \A r \in Requests : pc[r] \in Working => SessionTells(r)
  BY DEF SerialInv, TrailInv
<1> QED
  BY <1>2, <1>3, <1>4, <1>5, <1>6, <1>7, <1>8, <1>9, StepKinds

LEMMA SerialHolds ==
    ASSUME PoolSize = 1
    PROVE  Spec => []SerialInv
BY InitSerialInv, NextSerialInv, PTL DEF Spec

(* One transaction at a time, a skill's trail tells its whole lifecycle:   *)
(* each row names the status and the active version the row before it left,*)
(* and the last one tells the status of the skill's row.                   *)
THEOREM TrailReplaysRows ==
    ASSUME PoolSize = 1
    PROVE  Spec => []TrailTellsRow
<1>1. SerialInv => TrailTellsRow
  BY StatusAfterMoves DEF SerialInv, Chained, TrailTellsRow
<1> QED
  BY <1>1, SerialHolds, PTL

(* One transaction at a time, the last skill.activated row of a skill's    *)
(* trail, as the endpoint orders it, names the version its row points at:  *)
(* only switches that overlap are told in the wrong order.                 *)
THEOREM TrailNamesWhatRuns ==
    ASSUME PoolSize = 1
    PROVE  Spec => []LastActivationRuns
<1>1. SerialInv => LastActivationRuns
  BY DEF SerialInv, Running, LastActivationRuns, Activated
<1> QED
  BY <1>1, SerialHolds, PTL

----------------------------------------------------------------------------
(* One transaction at a time, nothing is late.                             *)

LEMMA SerialCommitIsLifecycleStep ==
    ASSUME SerialInv, NEW r \in Requests, CommitTx(r)
    PROVE  Lifecycle!Next \/ (RegistryView' = RegistryView /\ HistoryView' = HistoryView)
<1> DEFINE t   == tx[r]
           s   == t.skill_id
           w   == t.writes
           v   == t.version
           row == skills[s]
<1> USE DEF Lifecycle!Next
<1>1. /\ s \in Requests /\ row # NULL /\ row.status \in SkillStatus
      /\ v # NULL => v.definition \in Definitions
  BY CommitKinds DEF SerialInv, TrailInv
<1>2. TypeOK /\ OInv
  BY DEF SerialInv, TrailInv, OInv, EInv, IInv
<1>3. t.skill = row /\ Tells(r, t)
  <2>1. pc[r] \in Working
    BY DEF CommitTx, Working
  <2> QED
    BY <2>1 DEF SerialInv, TrailInv, SessionTells
<1>4. r # NULL /\ "disabled" # NULL /\ "active" # NULL
  BY NullAssumption DEF SkillStatus
<1>5. ASSUME Edits(w, v), HistoryView' = HistoryView, NEW d \in Definitions,
             Becomes(s, row.status, d, row.active_version_id),
             DOMAIN w.working = {} => d = row.working
      PROVE  Lifecycle!Next \/ (RegistryView' = RegistryView /\ HistoryView' = HistoryView)
  <2>1. DOMAIN w.working # {} => row.status = "draft"
    BY <1>3, <1>4, <1>5 DEF Tells, TellsEdit, TellsDisable, TellsSwitch, TellsLaunch,
                            TellsVersion, Edits, Only
  <2>2. Lifecycle!EditDraft(s, d) \/ RegistryView' = RegistryView
    BY <1>1, <1>2, <1>5, <2>1, EditStep
  <2> QED
    BY <1>1, <1>5, <2>2
<1>6. ASSUME v = NULL, Only(w, "disabled", NULL), HistoryView' = HistoryView,
             Becomes(s, "disabled", row.working, row.active_version_id)
      PROVE  Lifecycle!Next
  <2>1. row.status \in {"draft", "active"}
    BY <1>3, <1>4, <1>6 DEF Tells, TellsEdit, TellsDisable, TellsSwitch, TellsLaunch,
                            TellsVersion, Edits, Only
  <2>2. Lifecycle!Disable(s)
    BY <1>1, <1>2, <1>6, <2>1, DisableStep
  <2> QED
    BY <1>1, <2>2
<1>7. ASSUME v = NULL, w.active_version_id # NULL, Only(w, NULL, w.active_version_id),
             w.active_version_id \in HistoryOf(s), HistoryView' = HistoryView,
             Becomes(s, row.status, row.working, w.active_version_id)
      PROVE  Lifecycle!Next
  <2>1. row.status = "active"
    BY <1>3, <1>4, <1>7 DEF Tells, TellsEdit, TellsDisable, TellsSwitch, TellsLaunch,
                            TellsVersion, Edits, Only
  <2>2. Lifecycle!Switch(s, w.active_version_id) /\ w.active_version_id \in Requests
    BY <1>1, <1>2, <1>7, <2>1, SwitchStep DEF HistoryOf
  <2> QED
    BY <1>1, <2>2
<1>8. ASSUME v # NULL, Only(w, "active", r), HistoryOf(s) = {},
             Lifecycle!Snapshot(s, r, 1, v.definition), Becomes(s, "active", row.working, r)
      PROVE  Lifecycle!Next
  <2>1. row.status = "draft" /\ v.definition = row.working
    BY <1>3, <1>4, <1>8 DEF Tells, TellsEdit, TellsDisable, TellsSwitch, TellsLaunch,
                            TellsVersion, Edits, Only
  <2>2. Lifecycle!Activate(s, r)
    BY <1>1, <1>2, <1>8, <2>1, LaunchStep
  <2> QED
    BY <1>1, <2>2
<1>9. ASSUME v # NULL, Only(w, NULL, NULL), RegistryView' = RegistryView,
             NEW n \in NumbersOf(s), NumbersOf(s) = 1 .. n,
             Lifecycle!Snapshot(s, r, n + 1, v.definition)
      PROVE  Lifecycle!Next
  <2>1. row.status = "active"
    BY <1>3, <1>4, <1>9 DEF Tells, TellsEdit, TellsDisable, TellsSwitch, TellsLaunch,
                            TellsVersion, Edits, Only
  <2>2. Lifecycle!AddVersion(s, r, v.definition)
    BY <1>1, <1>2, <1>9, <2>1, VersionStep
  <2> QED
    BY <1>1, <1>9, <2>2
<1> HIDE DEF Lifecycle!Next
<1> QED
  BY <1>2, <1>5, <1>6, <1>7, <1>8, <1>9, CommitKinds

(* ADR-2 and lifecycle.py, one transaction at a time: the handlers are the *)
(* documented lifecycle, and none of its late steps is ever taken.         *)
THEOREM HandlersAreTheLifecycle ==
    ASSUME PoolSize = 1
    PROVE  Spec => ImplementsLifecycle
<1>1. Init => Lifecycle!Init
  BY DEF Init, Lifecycle!Init, RegistryView, HistoryView
<1>2. SerialInv /\ [Next]_vars => [Lifecycle!Next]_<<RegistryView, HistoryView>>
  <2> SUFFICES ASSUME SerialInv, [Next]_vars
               PROVE  Lifecycle!Next
                      \/ (RegistryView' = RegistryView /\ HistoryView' = HistoryView)
    OBVIOUS
  <2>1. CASE skills' = skills /\ versions' = versions
    BY <2>1 DEF RegistryView, HistoryView
  <2>2. ASSUME NEW r \in Requests, NEW a \in Memberships, NEW d \in Definitions,
               CreateSkillDraft(r, a, d)
        PROVE  Lifecycle!Next
    BY <2>2, CreateIsLifecycleStep DEF Lifecycle!Next, SerialInv, TrailInv
  <2>3. ASSUME NEW r \in Requests, CommitTx(r)
        PROVE  Lifecycle!Next
               \/ (RegistryView' = RegistryView /\ HistoryView' = HistoryView)
    BY <2>3, SerialCommitIsLifecycleStep
  <2> QED
    BY <2>1, <2>2, <2>3, WhatChangesRows DEF SerialInv, TrailInv, OInv, Untouched
<1> QED
  BY <1>1, <1>2, SerialHolds, PTL DEF Spec, ImplementsLifecycle, Lifecycle!Spec

\* With one connection, and only then, what lifecycle.py says of disabled holds.
LEMMA SerialCommitKeepsDisabled ==
    ASSUME SerialInv, NEW r \in Requests, CommitTx(r), NEW s \in Requests,
           skills[s] # NULL, skills[s].status = "disabled"
    PROVE  skills'[s].status = "disabled"
<1> DEFINE x == tx[r].skill_id
           w == tx[r].writes
<1>1. /\ skills'[x] = Merge(skills[x], w)
      /\ \A q \in Requests \ {x} : skills'[q] = skills[q]
  BY CommitRows DEF SerialInv, TrailInv, OInv
<1>2. tx[r].skill = skills[x] /\ Tells(r, tx[r])
  <2>1. pc[r] \in Working
    BY DEF CommitTx, Working
  <2> QED
    BY <2>1 DEF SerialInv, TrailInv, SessionTells
<1>3. CASE s # x
  BY <1>1, <1>3
<1>4. CASE s = x
  <2>1. w.status = NULL
    BY <1>2, <1>4 DEF Tells, TellsEdit, TellsDisable, TellsSwitch, TellsLaunch, TellsVersion,
                      Edits, Only
  <2>2. skills[s] \in Skill
    BY DEF SerialInv, TrailInv, OInv, EInv, IInv, TypeOK
  <2>3. Merge(skills[s], w).status = skills[s].status
    BY <2>1, <2>2 DEF Merge, Skill
  <2> QED
    BY <1>1, <1>4, <2>3
<1> QED
  BY <1>3, <1>4

LEMMA SerialStaysDisabled ==
    SerialInv /\ [Next]_vars =>
      [\A s \in Requests :
         skills[s] # NULL /\ skills[s].status = "disabled"
            => skills'[s].status = "disabled"]_vars
<1> SUFFICES ASSUME SerialInv, [Next]_vars, NEW s \in Requests,
                    skills[s] # NULL, skills[s].status = "disabled"
             PROVE  skills'[s].status = "disabled"
  OBVIOUS
<1>1. CASE skills' = skills
  BY <1>1
<1>2. ASSUME NEW r \in Requests, NEW a \in Memberships, NEW d \in Definitions,
             CreateSkillDraft(r, a, d)
      PROVE  skills'[s].status = "disabled"
  BY <1>2, CreateSkillDraftRows DEF SerialInv, TrailInv, OInv
<1>3. ASSUME NEW r \in Requests, CommitTx(r) PROVE skills'[s].status = "disabled"
  BY <1>3, SerialCommitKeepsDisabled
<1> QED
  BY <1>1, <1>2, <1>3, WhatChangesRows DEF SerialInv, TrailInv, OInv, Untouched

(* lifecycle.py's "a disabled skill can never come back" is true of one    *)
(* transaction at a time: only overlap breaks it.                          *)
THEOREM DisabledNeedsOverlap ==
    ASSUME PoolSize = 1
    PROVE  Spec => DisabledIsTerminal
BY SerialStaysDisabled, SerialHolds, PTL DEF Spec, DisabledIsTerminal

\* An activation inserts only the first version it launches.
InsertSound ==
    \A r \in Requests :
        /\ pc[r] = "number" => tx[r].op = "version"
        /\ pc[r] = "insert" /\ tx[r].op = "activate" => tx[r].writes.status = "active"

\* A step of r that does not bring it to an INSERT.
NoInsert(r) ==
    /\ pc'[r] \notin {"number", "insert"}
    /\ \A q \in Requests \ {r} : pc'[q] = pc[q] /\ tx'[q] = tx[q]

LEMMA AnswerNoInsert ==
    ASSUME TypeOK, NEW r \in Requests, NEW code, Answer(r, code) PROVE NoInsert(r)
BY DEF Answer, NoInsert, TypeOK

LEMMA ProceedNoInsert ==
    ASSUME TypeOK, NEW r \in Requests, NEW step \in {"find", "log", "update", "commit"}, NEW t,
           Proceed(r, step, t)
    PROVE  NoInsert(r)
BY DEF Proceed, NoInsert, TypeOK

LEMMA ActivateSkillInserts ==
    ASSUME TypeOK, NEW r \in Requests, NEW a, NEW s, NEW v, ActivateSkill(r, a, s, v)
    PROVE  \/ NoInsert(r)
           \/ /\ pc'[r] = "insert" /\ tx'[r].writes.status = "active"
              /\ \A q \in Requests \ {r} : pc'[q] = pc[q] /\ tx'[q] = tx[q]
<1> DEFINE t  == [Session("activate", a, s) EXCEPT !.version_id = v]
           v1 == NewVersion(t, 1, skills[s].working)
<1>1. \/ \E code : Answer(r, code)
      \/ \E u : Proceed(r, "log", u)
      \/ \E u : Proceed(r, "find", u)
      \/ \E log : Proceed(r, "insert", Prepared(t, Activate(r, "active"), v1, log))
  BY DEF ActivateSkill
<1>2. ASSUME NEW log, Proceed(r, "insert", Prepared(t, Activate(r, "active"), v1, log))
      PROVE  /\ pc'[r] = "insert" /\ tx'[r].writes.status = "active"
             /\ \A q \in Requests \ {r} : pc'[q] = pc[q] /\ tx'[q] = tx[q]
  <2>1. Prepared(t, Activate(r, "active"), v1, log).writes = Activate(r, "active")
    BY DEF Prepared, Session
  <2>2. Activate(r, "active").status = "active"
    BY DEF Activate, NoWrites
  <2> HIDE DEF t, v1
  <2> QED
    BY <1>2, <2>1, <2>2 DEF Proceed, TypeOK
<1> HIDE DEF t, v1
<1> QED
  BY <1>1, <1>2, AnswerNoInsert, ProceedNoInsert

LEMMA NextInsertSound == OInv /\ InsertSound /\ [Next]_vars => InsertSound'
<1> SUFFICES ASSUME OInv, InsertSound, [Next]_vars PROVE InsertSound'
  OBVIOUS
<1>1. TypeOK
  BY DEF OInv, EInv, IInv
<1>2. ASSUME NEW r \in Requests, NoInsert(r) PROVE InsertSound'
  BY <1>2 DEF InsertSound, NoInsert
<1>3. CASE UNCHANGED vars
  BY <1>3 DEF vars, InsertSound
<1>4. ASSUME NEW r \in Requests, Lose(r) PROVE NoInsert(r)
  BY <1>1, <1>4 DEF Lose, NoInsert, TypeOK
<1>7. ASSUME NEW r \in Requests, TimeOut(r) PROVE NoInsert(r)
  BY <1>1, <1>7, AnswerNoInsert DEF TimeOut
<1>5. ASSUME NEW r \in Requests, Receive(r) PROVE InsertSound'
  <2>1. ASSUME NEW a, NEW d, CreateSkillDraft(r, a, d) PROVE NoInsert(r)
    BY <1>1, <2>1 DEF CreateSkillDraft, NoInsert, TypeOK
  <2>2. ASSUME NEW a, NEW s, NEW p, UpdateSkillDraft(r, a, s, p) PROVE NoInsert(r)
    <3>1. (\E code : Answer(r, code))
          \/ \E t : Proceed(r, "log", t)
      BY <2>2 DEF UpdateSkillDraft
    <3> QED
      BY <1>1, <3>1, AnswerNoInsert, ProceedNoInsert
  <2>3. ASSUME NEW a, NEW s, NEW d, CreateSkillVersion(r, a, s, d) PROVE InsertSound'
    <3> DEFINE t == [Session("version", a, s) EXCEPT !.payload = d]
    <3>1. (\E code : Answer(r, code)) \/ Proceed(r, "number", t)
      BY <2>3 DEF CreateSkillVersion
    <3>2. t.op = "version"
      BY DEF Session
    <3> HIDE DEF t
    <3>3. CASE Proceed(r, "number", t)
      BY <1>1, <3>2, <3>3 DEF Proceed, InsertSound, TypeOK
    <3> QED
      BY <1>1, <1>2, <3>1, <3>3, AnswerNoInsert
  <2>4. ASSUME NEW a, NEW s, NEW v, ActivateSkill(r, a, s, v) PROVE InsertSound'
    <3>1. CASE /\ pc'[r] = "insert" /\ tx'[r].writes.status = "active"
               /\ \A q \in Requests \ {r} : pc'[q] = pc[q] /\ tx'[q] = tx[q]
      BY <3>1 DEF InsertSound
    <3> QED
      BY <1>1, <1>2, <2>4, <3>1, ActivateSkillInserts
  <2>5. ASSUME NEW a, NEW s, DisableSkill(r, a, s) PROVE NoInsert(r)
    <3>1. (\E code : Answer(r, code))
          \/ \E t : Proceed(r, "log", t)
      BY <2>5 DEF DisableSkill
    <3> QED
      BY <1>1, <3>1, AnswerNoInsert, ProceedNoInsert
  <2> QED
    BY <1>2, <1>5, <2>1, <2>2, <2>3, <2>4, <2>5 DEF Receive
<1>6. ASSUME NEW r \in Requests, Serve(r) PROVE InsertSound'
  <2>1. CASE SelectMaxVersion(r)
    <3>1. pc[r] = "number" /\ tx[r].op = "version" /\ tx[r] \in Sessions
      BY <2>1, SessionFacts DEF SelectMaxVersion, InsertSound, OInv, EInv, Working
    <3>2. PICK w, v, log : Proceed(r, "insert", Prepared(tx[r], w, v, log))
      BY <2>1 DEF SelectMaxVersion
    <3>3. Prepared(tx[r], w, v, log).op = "version"
      BY <3>1 DEF Prepared, Sessions
    <3> QED
      BY <1>1, <3>2, <3>3 DEF Proceed, InsertSound, TypeOK
  <2>2. ASSUME InsertVersion(r) \/ FindVersion(r) \/ LogAudit(r) \/ UpdateSkill(r)
        PROVE  NoInsert(r)
    <3>1. (\E code : Answer(r, code))
          \/ \E step \in {"log", "update", "commit"} : \E t : Proceed(r, step, t)
      BY <2>2 DEF InsertVersion, FindVersion, LogAudit, UpdateSkill
    <3> QED
      BY <1>1, <3>1, AnswerNoInsert, ProceedNoInsert
  <2>3. CommitTx(r) => NoInsert(r)
    BY <1>1 DEF CommitTx, NoInsert, TypeOK
  <2>4. Respond(r) => NoInsert(r)
    BY <1>1, AnswerNoInsert DEF Respond
  <2> QED
    BY <1>2, <1>6, <2>1, <2>2, <2>3, <2>4 DEF Serve
<1> QED
  BY <1>2, <1>3, <1>4, <1>5, <1>6, <1>7 DEF Next, Terminating

LEMMA InsertsHold == Spec => []InsertSound
<1>1. Init => InsertSound
  BY DEF Init, InsertSound
<1> QED
  BY <1>1, NextInsertSound, OverlapHolds, PTL DEF Spec

\* An INSERT of a version fails on a committed one, and on nothing else.
LEMMA ServerErrors ==
    ASSUME TypeOK, [Next]_vars, NEW r \in Requests, pc[r] = "insert",
           reply[r] # 500, reply'[r] = 500
    PROVE  \E v \in Requests : versions[v] # NULL /\ SameNumber(versions[v], tx[r].version)
<1>1. ASSUME NEW q \in Requests, NEW code, Answer(q, code) PROVE q = r /\ code = 500
  BY <1>1 DEF Answer, TypeOK
<1>2. ~UNCHANGED reply
  OBVIOUS
<1>3. ASSUME NEW q \in Requests, Receive(q) PROVE FALSE
  <2>1. ASSUME NEW a, NEW d, CreateSkillDraft(q, a, d) PROVE FALSE
    BY <1>2, <2>1 DEF CreateSkillDraft
  <2>2. ASSUME NEW a, NEW s, NEW p, UpdateSkillDraft(q, a, s, p) PROVE FALSE
    BY <1>1, <1>2, <2>2 DEF UpdateSkillDraft, Proceed
  <2>3. ASSUME NEW a, NEW s, NEW d, CreateSkillVersion(q, a, s, d) PROVE FALSE
    BY <1>1, <1>2, <2>3 DEF CreateSkillVersion, Proceed
  <2>4. ASSUME NEW a, NEW s, NEW v, ActivateSkill(q, a, s, v) PROVE FALSE
    BY <1>1, <1>2, <2>4 DEF ActivateSkill, Proceed
  <2>5. ASSUME NEW a, NEW s, DisableSkill(q, a, s) PROVE FALSE
    BY <1>1, <1>2, <2>5 DEF DisableSkill, Proceed
  <2> QED
    BY <1>3, <2>1, <2>2, <2>3, <2>4, <2>5 DEF Receive
<1>6. ASSUME NEW q \in Requests, TimeOut(q) PROVE FALSE
  BY <1>1, <1>6 DEF TimeOut, Arrived
<1>4. PICK q \in Requests : Serve(q)
  BY <1>2, <1>3, <1>6 DEF Next, Terminating, Lose, vars
<1>5. InsertVersion(q)
  <2>1. ~Respond(q)
    BY <1>1 DEF Respond
  <2>2. ~FindVersion(q)
    BY <1>1, <1>2 DEF FindVersion, Proceed
  <2>3. ~SelectMaxVersion(q) /\ ~LogAudit(q) /\ ~UpdateSkill(q) /\ ~CommitTx(q)
    BY <1>2 DEF SelectMaxVersion, LogAudit, UpdateSkill, CommitTx, Proceed
  <2> QED
    BY <1>4, <2>1, <2>2, <2>3 DEF Serve
<1> QED
  BY <1>1, <1>2, <1>5 DEF InsertVersion, Proceed

LEMMA SerialActivations ==
    SerialInv /\ InsertSound /\ [Next]_vars =>
      [\A r \in Requests :
         pc[r] = "insert" /\ tx[r].op = "activate" => reply'[r] # 500]_vars
<1> SUFFICES ASSUME SerialInv, InsertSound, [Next]_vars, NEW r \in Requests,
                    pc[r] = "insert", tx[r].op = "activate", reply'[r] = 500
             PROVE  FALSE
  OBVIOUS
<1>1. IInv /\ AnswersSound /\ TypeOK
  BY DEF SerialInv, TrailInv, OInv, EInv, IInv
<1>2. reply[r] # 500
  BY <1>1, NullAssumption DEF AnswersSound
<1>3. tx[r].writes.status = "active"
  BY DEF InsertSound
<1>4. PICK v \in Requests : versions[v] # NULL /\ SameNumber(versions[v], tx[r].version)
  BY <1>1, <1>2, ServerErrors
<1>5. /\ tx[r].version # NULL /\ tx[r].version.skill_id = tx[r].skill_id
      /\ skills[tx[r].skill_id] # NULL /\ tx[r].skill_id \in Requests
  BY <1>1, <1>3, SessionFacts DEF SessionSound, Working
<1>6. Tells(r, tx[r]) /\ tx[r].skill = skills[tx[r].skill_id]
  BY <1>3 DEF SerialInv, TrailInv, SessionTells, Working
<1>7. "active" # NULL
  BY NullAssumption DEF SkillStatus
<1>8. skills[tx[r].skill_id].status = "draft"
  BY <1>3, <1>5, <1>6, <1>7 DEF Tells, TellsEdit, TellsDisable, TellsSwitch, TellsLaunch,
                                TellsVersion, Edits, Only
<1>9. HistoryOf(tx[r].skill_id) = {}
  BY <1>1, <1>5, <1>8 DEF IInv, LifecycleShape
<1> QED
  BY <1>4, <1>5, <1>9 DEF HistoryOf, SameNumber

(* One transaction at a time, an activation is safe to send twice: its     *)
(* INSERT never meets a version that is already there.                     *)
THEOREM CollisionsNeedOverlap ==
    ASSUME PoolSize = 1
    PROVE  Spec => ActivationNeverCollides
BY SerialActivations, SerialHolds, InsertsHold, PTL DEF Spec, ActivationNeverCollides
=============================================================================
