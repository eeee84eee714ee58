---------------------- MODULE SkillRegistryEffects_proofs ----------------------
(***************************************************************************)
(* What the requests of SkillRegistry leave behind: whose rows they are,   *)
(* which audit rows go with them, and that the versions are the history    *)
(* VersionHistory promises.  The invariant of SkillRegistry_proofs says    *)
(* that what sessions write is sound; the one here says by whom it is      *)
(* written and what its audit rows say.                                    *)
(***************************************************************************)
EXTENDS SkillRegistry_proofs

Ended  == {"respond", "done", "lost"}
Unsent == {"idle"} \union Working

Entries(log) == {log[i] : i \in DOMAIN log}
Logged(r, event) == \E e \in Entries(audit) : e.id = r /\ e.event = event
Made(log, event) == {e \in Entries(log) : e.event = event}

(* The audit rows tell the columns and the version a transaction writes.   *)
Recorded(r, w, v, log) ==
    /\ log # << >>
    /\ \A e \in Entries(log) : e.id = r
    /\ v # NULL <=> Made(log, "skill.version_created") # {}
    /\ \A e \in Made(log, "skill.version_created") :
          e.version_id = r /\ e.version_hash = v.version_hash
    /\ \A x : (x = w.active_version_id /\ x # NULL) <=>
                \E e \in Made(log, "skill.activated") : e.version_id = x
    /\ w.status = "disabled" <=> Made(log, "skill.disabled") # {}
    /\ DOMAIN w.working # {} =>
          Made(log, "skill.draft_created") \union Made(log, "skill.draft_updated") # {}

(* What a session is going to commit: in the name of its caller, an owner  *)
(* if it moves the skill on, with the audit rows that tell it.             *)
SessionTraced(r) ==
    LET t == tx[r]
        w == t.writes
        v == t.version
    IN
    /\ t.op # "create"
    /\ t.op = "version" => pc[r] = "number" \/ v # NULL
    /\ t.actor.organization_id = skills[t.skill_id].organization_id
    /\ w.status # NULL \/ w.active_version_id # NULL \/ pc[r] = "find"
          => t.actor.role = "owner"
    /\ v # NULL /\ w.active_version_id # NULL =>
          w.active_version_id = r /\ v.version_number = 1
    /\ \A e \in Entries(t.log) :
          /\ e.id = r /\ e.skill_id = t.skill_id
          /\ e.organization_id = t.actor.organization_id
          /\ e.event # "skill.draft_created"
    /\ v # NULL <=> \E e \in Entries(t.log) : e.event = "skill.version_created"
    /\ pc[r] \notin {"number", "find"} => Recorded(r, w, v, t.log)

AuditSound ==
    /\ \A e \in Entries(audit) :
          /\ pc[e.id] \in Ended
          /\ skills[e.skill_id] # NULL
          /\ e.organization_id = skills[e.skill_id].organization_id
    /\ \A r \in Requests : skills[r] # NULL <=> Logged(r, "skill.draft_created")
    /\ \A r \in Requests : versions[r] # NULL <=> Logged(r, "skill.version_created")

(* What an answer, given or about to be given, means.                      *)
AnswersSound ==
    \A r \in Requests :
        /\ pc[r] \in Unsent => skills[r] = NULL
        /\ reply[r] # NULL => pc[r] = "done"
        /\ reply[r] \in {403, 404, 409} =>
              /\ skills[r] = NULL /\ versions[r] = NULL
              /\ \A e \in Entries(audit) : e.id # r
        /\ (pc[r] = "respond" /\ tx[r].op \in {"create", "version"}) \/ reply[r] = 201 =>
              (skills[r] = NULL) # (versions[r] = NULL)

EInv ==
    /\ IInv
    /\ \A r \in Requests : pc[r] \in Working => SessionTraced(r)
    /\ AuditSound
    /\ AnswersSound

----------------------------------------------------------------------------
(* Audit rows.                                                             *)

LEMMA EntriesOfConcat ==
    ASSUME NEW S, NEW a \in Seq(S), NEW b \in Seq(S)
    PROVE  Entries(a \o b) = Entries(a) \union Entries(b)
<1>1. /\ DOMAIN a = 1 .. Len(a) /\ DOMAIN b = 1 .. Len(b)
      /\ DOMAIN (a \o b) = 1 .. Len(a) + Len(b)
      /\ Len(a) \in Nat /\ Len(b) \in Nat
  OBVIOUS
<1>2. \A i \in 1 .. Len(a) + Len(b) :
         (a \o b)[i] = IF i <= Len(a) THEN a[i] ELSE b[i - Len(a)]
  OBVIOUS
<1>3. ASSUME NEW i \in DOMAIN (a \o b)
      PROVE  (a \o b)[i] \in Entries(a) \union Entries(b)
  <2>1. CASE i <= Len(a)
    <3>1. i \in DOMAIN a /\ (a \o b)[i] = a[i]
      BY <1>1, <1>2, <2>1
    <3> QED
      BY <3>1 DEF Entries
  <2>2. CASE ~(i <= Len(a))
    <3>1. i - Len(a) \in DOMAIN b /\ (a \o b)[i] = b[i - Len(a)]
      BY <1>1, <1>2, <2>2
    <3> QED
      BY <3>1 DEF Entries
  <2> QED
    BY <2>1, <2>2
<1>4. ASSUME NEW i \in DOMAIN a PROVE a[i] \in Entries(a \o b)
  <2>1. i \in DOMAIN (a \o b) /\ (a \o b)[i] = a[i]
    BY <1>1, <1>2
  <2> QED
    BY <2>1 DEF Entries
<1>5. ASSUME NEW i \in DOMAIN b PROVE b[i] \in Entries(a \o b)
  <2>1. /\ i + Len(a) \in DOMAIN (a \o b)
        /\ ~(i + Len(a) <= Len(a)) /\ i + Len(a) - Len(a) = i
    BY <1>1
  <2>2. (a \o b)[i + Len(a)] = b[i]
    BY <1>1, <1>2, <2>1
  <2> QED
    BY <2>1, <2>2 DEF Entries
<1> QED
  BY <1>3, <1>4, <1>5 DEF Entries

LEMMA EntriesOfTuples ==
    /\ Entries(<< >>) = {}
    /\ \A e : Entries(<<e>>) = {e}
    /\ \A e, f : Entries(<<e, f>>) = {e, f}
<1>1. Entries(<< >>) = {}
  BY DEF Entries
<1>2. ASSUME NEW e PROVE Entries(<<e>>) = {e}
  BY DEF Entries
<1>3. ASSUME NEW e, NEW f PROVE Entries(<<e, f>>) = {e, f}
  BY DEF Entries
<1> QED
  BY <1>1, <1>2, <1>3

LEMMA EntriesOfAppend ==
    ASSUME NEW S, NEW a \in Seq(S), NEW e \in S
    PROVE  Entries(Append(a, e)) = Entries(a) \union {e}
<1>1. Append(a, e) = a \o <<e>> /\ <<e>> \in Seq(S)
  OBVIOUS
<1>2. Entries(a \o <<e>>) = Entries(a) \union Entries(<<e>>)
  BY <1>1, EntriesOfConcat
<1>3. Entries(<<e>>) = {e}
  BY EntriesOfTuples
<1> QED
  BY <1>1, <1>2, <1>3

(* record_audit names the request, its caller's organization, its skill.   *)
LEMMA AuditFields ==
    ASSUME NEW r, NEW t, NEW event, NEW v, NEW hash
    PROVE  /\ record_audit(r, t, event, v, hash).id = r
           /\ record_audit(r, t, event, v, hash).skill_id = t.skill_id
           /\ record_audit(r, t, event, v, hash).organization_id = t.actor.organization_id
           /\ record_audit(r, t, event, v, hash).event = event
           /\ record_audit(r, t, event, v, hash).version_id = v
           /\ record_audit(r, t, event, v, hash).version_hash = hash
BY DEF record_audit

LEMMA ActivationFields ==
    ASSUME NEW r, NEW t, NEW v, NEW hash
    PROVE  /\ Activation(r, t, v, hash).id = r
           /\ Activation(r, t, v, hash).skill_id = t.skill_id
           /\ Activation(r, t, v, hash).organization_id = t.actor.organization_id
           /\ Activation(r, t, v, hash).event = "skill.activated"
           /\ Activation(r, t, v, hash).version_id = v
BY DEF record_audit, Activation

LEMMA EntryType ==
    ASSUME TypeOK, NEW e \in Entries(audit)
    PROVE  e.id \in Requests /\ e.skill_id \in Requests
<1>1. e \in AuditLog
  BY DEF TypeOK, Entries
<1> QED
  BY <1>1 DEF AuditLog

----------------------------------------------------------------------------
(* The steps that leave the rows alone.                                    *)

\* A session that prepares its transaction.
LEMMA ProceedTraced ==
    ASSUME EInv, IInv', NEW r \in Requests, NEW step \in Working, NEW t,
           pc[r] \in Unsent, Proceed(r, step, t), SessionTraced(r)'
    PROVE  EInv'
<1> USE DEF EInv, IInv
<1>1. /\ skills' = skills /\ versions' = versions /\ reply' = reply
      /\ pc'[r] = step /\ tx'[r] = t
      /\ \A q \in Requests \ {r} : pc'[q] = pc[q] /\ tx'[q] = tx[q]
      /\ Entries(audit)' = Entries(audit)
  BY DEF TypeOK, Proceed, Entries
<1>2. ASSUME NEW q \in Requests, pc'[q] \in Working PROVE SessionTraced(q)'
  BY <1>1, <1>2 DEF SessionTraced
<1>3. AuditSound'
  <2>1. ASSUME NEW e \in Entries(audit) PROVE pc'[e.id] \in Ended
    <3>1. e.id \in Requests /\ pc[e.id] \in Ended
      BY EntryType DEF AuditSound
    <3>2. e.id # r
      BY <3>1 DEF Ended, Unsent, Working
    <3> QED
      BY <1>1, <3>1, <3>2
  <2> QED
    BY <1>1, <2>1 DEF AuditSound, Logged
<1>4. AnswersSound'
  <2> SUFFICES ASSUME NEW q \in Requests
               PROVE  /\ pc'[q] \in Unsent => skills[q] = NULL
                      /\ reply[q] # NULL => pc'[q] = "done"
                      /\ reply[q] \in {403, 404, 409} =>
                            /\ skills[q] = NULL /\ versions[q] = NULL
                            /\ \A e \in Entries(audit) : e.id # q
                      /\ (pc'[q] = "respond" /\ tx'[q].op \in {"create", "version"}) \/ reply[q] = 201 =>
                            (skills[q] = NULL) # (versions[q] = NULL)
    BY <1>1 DEF AnswersSound
  <2>1. CASE q # r
    BY <1>1, <2>1 DEF AnswersSound
  <2>2. CASE q = r
    <3>1. step # "respond" /\ pc[r] # "done"
      BY DEF Working, Unsent
    <3> QED
      BY <1>1, <2>2, <3>1 DEF AnswersSound
  <2> QED
    BY <2>1, <2>2
<1> QED
  BY <1>2, <1>3, <1>4

\* A session that ends without a commit leaves no trace.
LEMMA AnswerTraced ==
    ASSUME EInv, IInv', NEW r \in Requests, pc[r] \in Unsent,
           NEW code \in {200, 403, 404, 409, 500}, Answer(r, code)
    PROVE  EInv'
<1> USE DEF EInv, IInv
<1>1. /\ skills' = skills /\ versions' = versions
      /\ pc'[r] = "done" /\ reply'[r] = code
      /\ \A q \in Requests \ {r} : pc'[q] = pc[q] /\ tx'[q] = tx[q] /\ reply'[q] = reply[q]
      /\ Entries(audit)' = Entries(audit)
  BY DEF TypeOK, Answer, Entries
<1>2. ASSUME NEW q \in Requests, pc'[q] \in Working PROVE SessionTraced(q)'
  <2>1. q # r
    BY <1>1, <1>2 DEF Working
  <2> QED
    BY <1>1, <1>2, <2>1 DEF SessionTraced
<1>3. AuditSound'
  BY <1>1, EntryType DEF AuditSound, Logged, Ended
<1>4. skills[r] = NULL /\ versions[r] = NULL /\ \A e \in Entries(audit) : e.id # r
  <2>1. pc[r] \notin Ended
    BY DEF Unsent, Working, Ended
  <2> QED
    BY <2>1 DEF AnswersSound, AuditSound, RowsSound, Ended
<1>5. AnswersSound'
  BY <1>1, <1>4 DEF AnswersSound, Unsent, Working
<1> QED
  BY <1>2, <1>3, <1>5

\* A request that is answered after its commit.
LEMMA RespondTraced ==
    ASSUME EInv, IInv', NEW r \in Requests, pc[r] = "respond",
           NEW code \in {200, 201, 500}, Answer(r, code),
           code = 201 => tx[r].op \in {"create", "version"}
    PROVE  EInv'
<1> USE DEF EInv, IInv
<1>1. /\ skills' = skills /\ versions' = versions
      /\ pc'[r] = "done" /\ reply'[r] = code
      /\ \A q \in Requests \ {r} : pc'[q] = pc[q] /\ tx'[q] = tx[q] /\ reply'[q] = reply[q]
      /\ Entries(audit)' = Entries(audit)
  BY DEF TypeOK, Answer, Entries
<1>2. ASSUME NEW q \in Requests, pc'[q] \in Working PROVE SessionTraced(q)'
  <2>1. q # r
    BY <1>1, <1>2 DEF Working
  <2> QED
    BY <1>1, <1>2, <2>1 DEF SessionTraced
<1>3. AuditSound'
  BY <1>1, EntryType DEF AuditSound, Logged, Ended
<1>4. AnswersSound'
  BY <1>1 DEF AnswersSound, Unsent, Working
<1> QED
  BY <1>2, <1>3, <1>4

LEMMA TimeOutTraced ==
    ASSUME EInv, IInv', NEW r \in Requests, TimeOut(r)
    PROVE  EInv'
<1>1. CASE pc[r] = "idle"
  BY <1>1, AnswerTraced DEF TimeOut, Unsent
<1>2. CASE pc[r] = "respond"
  BY <1>2, RespondTraced DEF TimeOut
<1> QED
  BY <1>1, <1>2 DEF TimeOut, Arrived

LEMMA LoseTraced ==
    ASSUME EInv, IInv', NEW r \in Requests, Lose(r)
    PROVE  EInv'
<1> USE DEF EInv, IInv
<1>1. /\ pc[r] # "done" /\ skills' = skills /\ versions' = versions /\ reply' = reply
      /\ pc'[r] = "lost"
      /\ \A q \in Requests \ {r} : pc'[q] = pc[q] /\ tx'[q] = tx[q]
      /\ Entries(audit)' = Entries(audit)
  BY DEF TypeOK, Lose, InFlight, Waiting, Arrived, Entries
<1>2. ASSUME NEW q \in Requests, pc'[q] \in Working PROVE SessionTraced(q)'
  <2>1. q # r
    BY <1>1, <1>2 DEF Working
  <2> QED
    BY <1>1, <1>2, <2>1 DEF SessionTraced
<1>3. AuditSound'
  BY <1>1, EntryType DEF AuditSound, Logged, Ended
<1>4. AnswersSound'
  BY <1>1, NullAssumption DEF AnswersSound, Unsent, Working, Waiting
<1> QED
  BY <1>2, <1>3, <1>4

----------------------------------------------------------------------------
(* The requests up to their first wait.                                    *)

LEMMA PreparedFields ==
    ASSUME NEW t \in Sessions, NEW w, NEW v, NEW log
    PROVE  /\ Prepared(t, w, v, log).op = t.op
           /\ Prepared(t, w, v, log).actor = t.actor
           /\ Prepared(t, w, v, log).skill_id = t.skill_id
           /\ Prepared(t, w, v, log).writes = w
           /\ Prepared(t, w, v, log).version = v
           /\ Prepared(t, w, v, log).log = log
BY DEF Prepared, Sessions

\* A new session's caller is of the organization of the skill it sees.
LEMMA NewSession ==
    ASSUME IInv, NEW a \in Memberships, NEW s \in Requests,
           NEW op \in {"update", "version", "activate", "disable"}
    PROVE  LET t == Session(op, a, s) IN
           /\ t \in Sessions /\ t.op = op /\ t.actor = a /\ t.skill_id = s
           /\ t.skill = skills[s]
           /\ t.writes = NoWrites /\ t.version = NULL /\ t.log = << >>
           /\ Visible(a, s) => t.actor.organization_id = skills[s].organization_id
<1>1. Session(op, a, s) \in Sessions
  BY MembershipsAssumption, SessionType DEF IInv
<1>2. Visible(a, s) => a.organization_id = skills[s].organization_id
  BY DEF Visible
<1> QED
  BY <1>1, <1>2 DEF Session

LEMMA NewActivation ==
    ASSUME IInv, NEW a \in Memberships, NEW s \in Requests, NEW x \in Requests \union {NULL}
    PROVE  LET t == [Session("activate", a, s) EXCEPT !.version_id = x] IN
           /\ t \in Sessions /\ t.op = "activate" /\ t.actor = a /\ t.skill_id = s
           /\ t.skill = skills[s]
           /\ t.writes = NoWrites /\ t.version = NULL /\ t.log = << >>
           /\ Visible(a, s) => t.actor.organization_id = skills[s].organization_id
<1> DEFINE t == Session("activate", a, s)
<1>1. /\ t \in Sessions /\ t.op = "activate" /\ t.actor = a /\ t.skill_id = s
      /\ t.skill = skills[s]
      /\ t.writes = NoWrites /\ t.version = NULL /\ t.log = << >>
      /\ Visible(a, s) => t.actor.organization_id = skills[s].organization_id
  BY NewSession
<1> HIDE DEF t
<1>2. [t EXCEPT !.version_id = x] \in Sessions
  BY <1>1, VersionIdType
<1>3. LET u == [t EXCEPT !.version_id = x] IN
      /\ u \in Sessions /\ u.op = "activate" /\ u.actor = a /\ u.skill_id = s
      /\ u.skill = skills[s]
      /\ u.writes = NoWrites /\ u.version = NULL /\ u.log = << >>
      /\ Visible(a, s) => u.actor.organization_id = skills[s].organization_id
  BY <1>1, <1>2 DEF Sessions
<1> QED
  BY <1>3 DEF t

\* The columns of the UPDATEs the handlers send.
LEMMA WrittenColumns ==
    /\ DOMAIN NoWrites.working = {}
    /\ \A v, status : /\ Activate(v, status).status = status
                      /\ Activate(v, status).active_version_id = v
                      /\ DOMAIN Activate(v, status).working = {}
    /\ LET w == [NoWrites EXCEPT !.status = "disabled"] IN
       w.status = "disabled" /\ w.active_version_id = NULL /\ DOMAIN w.working = {}
<1>1. DOMAIN [f \in {} |-> NULL] = {}
  OBVIOUS
<1> QED
  BY <1>1 DEF NoWrites, Activate

\* What one audit row, or the two of a first activation, tell.
LEMMA OneRowTells ==
    ASSUME NEW r, NEW w, NEW v, NEW log, NEW e, Entries(log) = {e}, e.id = r,
           v # NULL <=> e.event = "skill.version_created",
           v # NULL => e.version_id = r /\ e.version_hash = v.version_hash,
           w.active_version_id # NULL <=> e.event = "skill.activated",
           w.active_version_id # NULL => e.version_id = w.active_version_id,
           w.status = "disabled" <=> e.event = "skill.disabled",
           DOMAIN w.working # {} => e.event = "skill.draft_updated"
    PROVE  Recorded(r, w, v, log)
<1>1. log # << >>
  BY EntriesOfTuples
<1>2. \A event : Made(log, event) = IF e.event = event THEN {e} ELSE {}
  BY DEF Made
<1> QED
  BY <1>1, <1>2 DEF Recorded

LEMMA TwoRowsTell ==
    ASSUME NEW r, NEW w, NEW v, NEW log, NEW e, NEW f, Entries(log) = {e, f},
           e.id = r, f.id = r, v # NULL, r # NULL,
           e.event = "skill.version_created", f.event = "skill.activated",
           e.version_id = r, f.version_id = r, e.version_hash = v.version_hash,
           w.active_version_id = r, w.status = "active", DOMAIN w.working = {}
    PROVE  Recorded(r, w, v, log)
<1>1. log # << >>
  BY EntriesOfTuples
<1>2. /\ Made(log, "skill.version_created") = {e}
      /\ Made(log, "skill.activated") = {f}
      /\ Made(log, "skill.disabled") = {}
  BY DEF Made
<1> QED
  BY <1>1, <1>2 DEF Recorded

\* What Proceed leaves for SessionTraced to speak of.
LEMMA ProceedFacts ==
    ASSUME TypeOK, NEW r \in Requests, NEW step, NEW t, Proceed(r, step, t)
    PROVE  pc'[r] = step /\ tx'[r] = t /\ skills' = skills
BY DEF Proceed, TypeOK

LEMMA UpdateSkillDraftTraced ==
    ASSUME EInv, IInv', NEW r \in Requests, NEW a \in Memberships, NEW s \in Requests,
           NEW p \in Patches, UpdateSkillDraft(r, a, s, p)
    PROVE  EInv'
<1> DEFINE t       == Session("update", a, s)
           changed == {f \in DOMAIN p : p[f] # skills[s].working[f]}
           w       == [NoWrites EXCEPT !.working = [f \in changed |-> p[f]]]
           e       == record_audit(r, t, "skill.draft_updated", NULL, NULL)
           u       == Prepared(t, w, NULL, <<e>>)
<1>1. \/ \E code \in {200, 404, 409} : Answer(r, code)
      \/ /\ Visible(a, s)
         /\ \E step \in Inserted : Proceed(r, step, u)
  BY DEF UpdateSkillDraft, Inserted
<1>2. pc[r] \in Unsent
  BY DEF UpdateSkillDraft, Admit, Arrived, Unsent
<1>3. /\ t \in Sessions /\ t.op = "update" /\ t.actor = a /\ t.skill_id = s
      /\ Visible(a, s) => t.actor.organization_id = skills[s].organization_id
  BY NewSession DEF EInv
<1>4. w.status = NULL /\ w.active_version_id = NULL
  BY NoWritesColumns DEF NoWrites
<1> HIDE DEF t, w
<1>5. /\ e.id = r /\ e.skill_id = s /\ e.organization_id = t.actor.organization_id
      /\ e.event = "skill.draft_updated"
  BY <1>3, AuditFields
<1> HIDE DEF e
<1>6. /\ u.op = "update" /\ u.actor = t.actor /\ u.skill_id = s /\ u.writes = w
      /\ u.version = NULL /\ Entries(u.log) = {e}
  BY <1>3, PreparedFields, EntriesOfTuples
<1> HIDE DEF u
<1>8. Recorded(r, w, NULL, u.log)
  BY <1>4, <1>5, <1>6, OneRowTells, NullAssumption DEF SkillStatus
<1>7. ASSUME Visible(a, s), NEW step \in Inserted, Proceed(r, step, u) PROVE EInv'
  <2>1. pc'[r] = step /\ tx'[r] = u /\ skills' = skills /\ step \in Working /\ step # "find"
    BY <1>7, ProceedFacts DEF EInv, IInv, Inserted, Working
  <2>2. SessionTraced(r)'
    BY <1>3, <1>4, <1>5, <1>6, <1>7, <1>8, <2>1 DEF SessionTraced
  <2> QED
    BY <1>2, <1>7, <2>1, <2>2, ProceedTraced
<1> QED
  BY <1>1, <1>2, <1>7, AnswerTraced

LEMMA CreateSkillVersionTraced ==
    ASSUME EInv, IInv', NEW r \in Requests, NEW a \in Memberships, NEW s \in Requests,
           NEW d \in Definitions, CreateSkillVersion(r, a, s, d)
    PROVE  EInv'
<1> DEFINE t == Session("version", a, s)
           u == [t EXCEPT !.payload = d]
<1>1. \/ \E code \in {404, 409} : Answer(r, code)
      \/ Visible(a, s) /\ Proceed(r, "number", u)
  BY DEF CreateSkillVersion
<1>2. pc[r] \in Unsent
  BY DEF CreateSkillVersion, Admit, Arrived, Unsent
<1>3. /\ t \in Sessions /\ t.op = "version" /\ t.actor = a /\ t.skill_id = s
      /\ t.writes = NoWrites /\ t.version = NULL /\ t.log = << >>
      /\ Visible(a, s) => t.actor.organization_id = skills[s].organization_id
  BY NewSession DEF EInv
<1> HIDE DEF t
<1>4. /\ u.op = "version" /\ u.actor = t.actor /\ u.skill_id = s /\ u.writes = NoWrites
      /\ u.version = NULL /\ u.log = << >>
  BY <1>3 DEF Sessions
<1>5. Entries(u.log) = {}
  BY <1>4, EntriesOfTuples
<1> HIDE DEF u
<1>6. ASSUME Visible(a, s), Proceed(r, "number", u) PROVE EInv'
  <2>1. pc'[r] = "number" /\ tx'[r] = u /\ skills' = skills /\ "number" \in Working
    BY <1>6, ProceedFacts DEF EInv, IInv, Working
  <2>2. SessionTraced(r)'
    BY <1>3, <1>4, <1>5, <1>6, <2>1, NoWritesColumns DEF SessionTraced
  <2> QED
    BY <1>2, <1>6, <2>1, <2>2, ProceedTraced
<1> QED
  BY <1>1, <1>2, <1>6, AnswerTraced

LEMMA ActivateSkillTraced ==
    ASSUME EInv, IInv', NEW r \in Requests, NEW a \in Memberships, NEW s \in Requests,
           NEW version_id \in Requests \union {NULL}, ActivateSkill(r, a, s, version_id)
    PROVE  EInv'
<1> DEFINE t        == [Session("activate", a, s) EXCEPT !.version_id = version_id]
           current  == skills[s].active_version_id
           v1       == NewVersion(t, 1, skills[s].working)
           w        == Activate(r, "active")
           replay   == record_audit(r, t, "skill.activation_replayed", current, HashOf(current))
           created  == record_audit(r, t, "skill.version_created", r, v1.version_hash)
           launch   == Activation(r, t, r, v1.version_hash)
           replayed == Prepared(t, NoWrites, NULL, <<replay>>)
           launched == Prepared(t, w, v1, <<created, launch>>)
<1>1. \/ \E code \in {403, 404, 409} : Answer(r, code)
      \/ Visible(a, s) /\ Proceed(r, "log", replayed)
      \/ require_owner(a) /\ Visible(a, s) /\ Proceed(r, "insert", launched)
      \/ require_owner(a) /\ Visible(a, s) /\ Proceed(r, "find", t)
  BY DEF ActivateSkill
<1>2. pc[r] \in Unsent
  BY DEF ActivateSkill, Admit, Arrived, Unsent
<1>3. /\ t \in Sessions /\ t.op = "activate" /\ t.actor = a /\ t.skill_id = s
      /\ t.writes = NoWrites /\ t.version = NULL /\ t.log = << >>
      /\ t.skill = skills[s]
      /\ Visible(a, s) => t.actor.organization_id = skills[s].organization_id
  BY NewActivation DEF EInv
<1>4. /\ v1.version_number = 1
      /\ w.status = "active" /\ w.active_version_id = r /\ DOMAIN w.working = {}
  <2>1. v1.version_number = 1
    BY DEF NewVersion
  <2>2. w.status = "active" /\ w.active_version_id = r /\ DOMAIN w.working = {}
    BY WrittenColumns
  <2> QED
    BY <2>1, <2>2
<1>5. require_owner(a) => t.actor.role = "owner"
  BY <1>3 DEF require_owner
<1>6. ASSUME Visible(a, s) PROVE v1 # NULL
  <2>1. skills[s] \in Skill /\ skills[s].working \in Definitions
    BY <1>6 DEF EInv, IInv, TypeOK, Visible, Skill
  <2>2. t.skill \in Skill /\ t.skill_id \in Requests /\ 1 \in Nat \ {0}
    BY <1>3, <2>1
  <2> HIDE DEF t
  <2>3. v1 \in SkillVersion
    BY <2>1, <2>2, NewVersionType
  <2> QED
    BY <2>3, NullAssumption
<1> HIDE DEF t, v1, w
<1>7. /\ replay.id = r /\ replay.skill_id = s
      /\ replay.organization_id = t.actor.organization_id
      /\ replay.event = "skill.activation_replayed"
  BY <1>3, AuditFields
<1>8. /\ created.id = r /\ created.skill_id = s
       /\ created.organization_id = t.actor.organization_id
       /\ created.event = "skill.version_created"
       /\ created.version_id = r /\ created.version_hash = v1.version_hash
  BY <1>3, AuditFields
<1>9. /\ launch.id = r /\ launch.skill_id = s
       /\ launch.organization_id = t.actor.organization_id
       /\ launch.event = "skill.activated" /\ launch.version_id = r
  BY <1>3, ActivationFields
<1> HIDE DEF replay, created, launch
<1>10. /\ replayed.op = "activate" /\ replayed.actor = t.actor /\ replayed.skill_id = s
      /\ replayed.writes = NoWrites /\ replayed.version = NULL
      /\ Entries(replayed.log) = {replay}
  BY <1>3, PreparedFields, EntriesOfTuples
<1>11. /\ launched.op = "activate" /\ launched.actor = t.actor /\ launched.skill_id = s
      /\ launched.writes = w /\ launched.version = v1
      /\ Entries(launched.log) = {created, launch}
  BY <1>3, PreparedFields, EntriesOfTuples
<1> HIDE DEF replayed, launched
<1>15. Recorded(r, NoWrites, NULL, replayed.log)
  <2>1. NoWrites.status = NULL /\ NoWrites.active_version_id = NULL
    BY NoWritesColumns
  <2>2. DOMAIN NoWrites.working = {}
    BY WrittenColumns
  <2>3. NULL # "disabled"
    BY NullAssumption DEF SkillStatus
  <2>4. Entries(replayed.log) = {replay}
    BY <1>10
  <2> QED
    BY <1>7, <2>1, <2>2, <2>3, <2>4, OneRowTells
<1>16. v1 # NULL => Recorded(r, w, v1, launched.log)
  BY <1>4, <1>8, <1>9, <1>11, TwoRowsTell, NullAssumption
<1>12. "log" \in Working /\ "insert" \in Working /\ "find" \in Working
  BY DEF Working
<1>13. ASSUME Visible(a, s), Proceed(r, "log", replayed) PROVE EInv'
  <2>1. pc'[r] = "log" /\ tx'[r] = replayed /\ skills' = skills
    BY <1>13, ProceedFacts DEF EInv, IInv
  <2>2. SessionTraced(r)'
    BY <1>3, <1>7, <1>10, <1>13, <1>15, <2>1, NoWritesColumns DEF SessionTraced
  <2> QED
    BY <1>2, <1>12, <1>13, <2>2, ProceedTraced
<1>14. ASSUME require_owner(a), Visible(a, s), Proceed(r, "insert", launched) PROVE EInv'
  <2>1. pc'[r] = "insert" /\ tx'[r] = launched /\ skills' = skills
    BY <1>14, ProceedFacts DEF EInv, IInv
  <2>2. SessionTraced(r)'
    BY <1>3, <1>4, <1>5, <1>6, <1>11, <1>14, <1>16, <1>8, <1>9, <2>1 DEF SessionTraced
  <2> QED
    BY <1>2, <1>12, <1>14, <2>2, ProceedTraced
<1>17. ASSUME require_owner(a), Visible(a, s), Proceed(r, "find", t) PROVE EInv'
  <2>1. pc'[r] = "find" /\ tx'[r] = t /\ skills' = skills
    BY <1>17, ProceedFacts DEF EInv, IInv
  <2>2. SessionTraced(r)'
    BY <1>3, <1>5, <1>17, <2>1, EntriesOfTuples, NoWritesColumns DEF SessionTraced
  <2> QED
    BY <1>2, <1>12, <1>17, <2>2, ProceedTraced
<1> QED
  BY <1>1, <1>2, <1>13, <1>14, <1>17, AnswerTraced

LEMMA DisableSkillTraced ==
    ASSUME EInv, IInv', NEW r \in Requests, NEW a \in Memberships, NEW s \in Requests,
           DisableSkill(r, a, s)
    PROVE  EInv'
<1> DEFINE t        == Session("disable", a, s)
           current  == skills[s].active_version_id
           w        == [NoWrites EXCEPT !.status = "disabled"]
           replay   == record_audit(r, t, "skill.disable_replayed", current, HashOf(current))
           disabled == record_audit(r, t, "skill.disabled", current, NULL)
           e        == [disabled EXCEPT !.previous_status = skills[s].status]
           replayed == Prepared(t, NoWrites, NULL, <<replay>>)
           prepared == Prepared(t, w, NULL, <<e>>)
<1>1. \/ \E code \in {403, 404} : Answer(r, code)
      \/ Visible(a, s) /\ Proceed(r, "log", replayed)
      \/ require_owner(a) /\ Visible(a, s) /\ Proceed(r, "log", prepared)
  BY DEF DisableSkill
<1>2. pc[r] \in Unsent
  BY DEF DisableSkill, Admit, Arrived, Unsent
<1>3. /\ t \in Sessions /\ t.op = "disable" /\ t.actor = a /\ t.skill_id = s
      /\ Visible(a, s) => t.actor.organization_id = skills[s].organization_id
  BY NewSession DEF EInv
<1>4. w.status = "disabled" /\ w.active_version_id = NULL /\ DOMAIN w.working = {}
  BY WrittenColumns
<1>5. require_owner(a) => t.actor.role = "owner"
  BY <1>3 DEF require_owner
<1> HIDE DEF t, w
<1>6. /\ replay.id = r /\ replay.skill_id = s
      /\ replay.organization_id = t.actor.organization_id
      /\ replay.event = "skill.disable_replayed"
      /\ e.id = r /\ e.skill_id = s /\ e.organization_id = t.actor.organization_id
      /\ e.event = "skill.disabled"
  BY <1>3, AuditFields DEF record_audit
<1> HIDE DEF replay, e
<1>7. /\ replayed.op = "disable" /\ replayed.actor = t.actor /\ replayed.skill_id = s
      /\ replayed.writes = NoWrites /\ replayed.version = NULL
      /\ Entries(replayed.log) = {replay}
  BY <1>3, PreparedFields, EntriesOfTuples
<1>8. /\ prepared.op = "disable" /\ prepared.actor = t.actor /\ prepared.skill_id = s
      /\ prepared.writes = w /\ prepared.version = NULL
      /\ Entries(prepared.log) = {e}
  BY <1>3, PreparedFields, EntriesOfTuples
<1> HIDE DEF replayed, prepared
<1>12. Recorded(r, NoWrites, NULL, replayed.log)
  BY <1>6, <1>7, OneRowTells, NoWritesColumns, WrittenColumns, NullAssumption DEF SkillStatus
<1>13. Recorded(r, w, NULL, prepared.log)
  BY <1>4, <1>6, <1>8, OneRowTells, NullAssumption DEF SkillStatus
<1>9. "log" \in Working
  BY DEF Working
<1>10. ASSUME Visible(a, s), Proceed(r, "log", replayed) PROVE EInv'
  <2>1. pc'[r] = "log" /\ tx'[r] = replayed /\ skills' = skills
    BY <1>10, ProceedFacts DEF EInv, IInv
  <2>2. SessionTraced(r)'
    BY <1>3, <1>6, <1>7, <1>10, <1>12, <2>1, NoWritesColumns DEF SessionTraced
  <2> QED
    BY <1>2, <1>9, <1>10, <2>2, ProceedTraced
<1>11. ASSUME require_owner(a), Visible(a, s), Proceed(r, "log", prepared) PROVE EInv'
  <2>1. pc'[r] = "log" /\ tx'[r] = prepared /\ skills' = skills
    BY <1>11, ProceedFacts DEF EInv, IInv
  <2>2. SessionTraced(r)'
    BY <1>3, <1>4, <1>5, <1>6, <1>8, <1>11, <1>13, <2>1 DEF SessionTraced
  <2> QED
    BY <1>2, <1>9, <1>11, <2>2, ProceedTraced
<1> QED
  BY <1>1, <1>2, <1>10, <1>11, AnswerTraced

----------------------------------------------------------------------------
(* The steps of a session.                                                 *)

LEMMA TracedFacts ==
    ASSUME EInv, NEW r \in Requests, pc[r] \in Working
    PROVE  /\ tx[r] \in Sessions /\ tx[r].skill_id \in Requests
           /\ SessionSound(r) /\ SessionTraced(r)
           /\ skills[tx[r].skill_id] # NULL
           /\ skills[r] = NULL /\ versions[r] = NULL
           /\ pc[r] \in Unsent
<1>1. tx[r] \in Sessions /\ tx[r].skill_id \in Requests /\ SessionSound(r) /\ versions[r] = NULL
  BY SessionFacts DEF EInv
<1> QED
  BY <1>1 DEF EInv, AnswersSound, SessionSound, Unsent

LEMMA SelectMaxVersionTraced ==
    ASSUME EInv, IInv', NEW r \in Requests, SelectMaxVersion(r)
    PROVE  EInv'
<1> DEFINE t == tx[r]
           s == t.skill_id
<1>1. pc[r] = "number"
  BY DEF SelectMaxVersion
<1>2. PICK n \in NumbersOf(s) \union {0} :
        Proceed(r, "insert", Prepared(t, NoWrites, NewVersion(t, n + 1, t.payload),
              <<record_audit(r, t, "skill.version_created", r,
                             NewVersion(t, n + 1, t.payload).version_hash)>>))
  BY DEF SelectMaxVersion
<1> DEFINE v == NewVersion(t, n + 1, t.payload)
           e == record_audit(r, t, "skill.version_created", r, v.version_hash)
           u == Prepared(t, NoWrites, v, <<e>>)
<1>3. t \in Sessions /\ SessionTraced(r) /\ pc[r] \in Unsent
  BY <1>1, TracedFacts DEF Working
<1>4. /\ e.id = r /\ e.skill_id = s /\ e.organization_id = t.actor.organization_id
      /\ e.event = "skill.version_created"
      /\ e.version_id = r /\ e.version_hash = v.version_hash
  BY AuditFields
<1> HIDE DEF v, e
<1>5. /\ u.op = t.op /\ u.actor = t.actor /\ u.skill_id = s /\ u.writes = NoWrites
      /\ u.version = v /\ Entries(u.log) = {e}
  BY <1>3, PreparedFields, EntriesOfTuples
<1>6. Proceed(r, "insert", u)
  BY <1>2 DEF u, v, e
<1> HIDE DEF u
<1>7. pc'[r] = "insert" /\ tx'[r] = u /\ skills' = skills
  BY <1>6, ProceedFacts DEF EInv, IInv
<1>8. v # NULL
  <2>1. SessionSound(r)'
    BY <1>7 DEF IInv, SessionsSound, Working
  <2> QED
    BY <1>5, <1>7, <2>1 DEF SessionSound
<1>9. Recorded(r, NoWrites, v, u.log)
  BY <1>4, <1>5, <1>8, OneRowTells, NoWritesColumns, WrittenColumns, NullAssumption
     DEF SkillStatus
<1>10. SessionTraced(r)'
  BY <1>3, <1>4, <1>5, <1>7, <1>8, <1>9, NoWritesColumns DEF SessionTraced
<1> QED
  BY <1>3, <1>6, <1>10, ProceedTraced DEF Working

LEMMA InsertVersionTraced ==
    ASSUME EInv, IInv', NEW r \in Requests, InsertVersion(r)
    PROVE  EInv'
<1>1. pc[r] = "insert"
  BY DEF InsertVersion
<1>2. SessionTraced(r) /\ SessionSound(r) /\ pc[r] \in Unsent
  BY <1>1, TracedFacts DEF Working
<1>3. CASE Answer(r, 500)
  BY <1>2, <1>3, AnswerTraced
<1>4. ASSUME NEW step \in Inserted, Proceed(r, step, tx[r]) PROVE EInv'
  <2>1. pc'[r] = step /\ tx'[r] = tx[r] /\ skills' = skills
    BY <1>4, ProceedFacts DEF EInv, IInv
  <2>2. SessionTraced(r)'
    BY <1>1, <1>2, <2>1 DEF SessionTraced, SessionSound, Inserted
  <2> QED
    BY <1>2, <1>4, <2>2, ProceedTraced DEF Inserted, Working
<1> QED
  BY <1>3, <1>4 DEF InsertVersion, Inserted

LEMMA FindVersionTraced ==
    ASSUME EInv, IInv', NEW r \in Requests, FindVersion(r)
    PROVE  EInv'
<1> DEFINE t == tx[r]
           v == t.version_id
           w == Activate(v, IF t.skill.status = "active" THEN NULL ELSE "active")
           e == Activation(r, t, v, HashOf(v))
           u == Prepared(t, w, NULL, <<e>>)
<1>1. pc[r] = "find"
  BY DEF FindVersion
<1>2. t \in Sessions /\ SessionTraced(r) /\ SessionSound(r) /\ pc[r] \in Unsent
  BY <1>1, TracedFacts DEF Working
<1>3. CASE Answer(r, 404)
  BY <1>2, <1>3, AnswerTraced
<1>4. ASSUME Proceed(r, "log", u) PROVE EInv'
  <2>1. /\ e.id = r /\ e.skill_id = t.skill_id
        /\ e.organization_id = t.actor.organization_id
        /\ e.event = "skill.activated" /\ e.version_id = v
    BY ActivationFields
  <2>6. /\ w.active_version_id = v /\ w.status # "disabled" /\ DOMAIN w.working = {}
        /\ v # NULL
    BY <1>1, <1>2, WrittenColumns, NullAssumption DEF SessionSound, SkillStatus
  <2> HIDE DEF w, e
  <2>2. /\ u.op = t.op /\ u.actor = t.actor /\ u.skill_id = t.skill_id /\ u.writes = w
        /\ u.version = NULL /\ Entries(u.log) = {e}
    BY <1>2, PreparedFields, EntriesOfTuples
  <2> HIDE DEF u
  <2>7. Recorded(r, w, NULL, u.log)
    BY <2>1, <2>2, <2>6, OneRowTells
  <2>3. pc'[r] = "log" /\ tx'[r] = u /\ skills' = skills
    BY <1>4, ProceedFacts DEF EInv, IInv
  <2>4. t.actor.role = "owner" /\ t.op # "version"
    BY <1>1, <1>2 DEF SessionTraced, SessionSound
  <2>5. SessionTraced(r)'
    BY <1>2, <2>1, <2>2, <2>3, <2>4, <2>7 DEF SessionTraced
  <2> QED
    BY <1>2, <1>4, <2>5, ProceedTraced DEF Working
<1> QED
  BY <1>3, <1>4 DEF FindVersion

(* The flush of the audit rows adds an instant to them, and nothing else.  *)
Alike(e, d) ==
    /\ e.id = d.id /\ e.skill_id = d.skill_id /\ e.event = d.event
    /\ e.organization_id = d.organization_id
    /\ e.version_id = d.version_id /\ e.version_hash = d.version_hash

LEMMA DatedRows ==
    ASSUME NEW log \in Seq(AuditLog), NEW now \in Nat
    PROVE  /\ \A e \in Entries(Dated(log, now)) : \E d \in Entries(log) : Alike(e, d)
           /\ \A d \in Entries(log) : \E e \in Entries(Dated(log, now)) : Alike(e, d)
           /\ log # << >> => Dated(log, now) # << >>
<1>1. /\ DOMAIN Dated(log, now) = DOMAIN log
      /\ Len(Dated(log, now)) = Len(log)
      /\ \A i \in DOMAIN log : Dated(log, now)[i] = [log[i] EXCEPT !.created_at = now + i]
  BY DatedType
<1>2. \A i \in DOMAIN log : log[i] \in AuditLog
  OBVIOUS
<1>3. \A i \in DOMAIN log : Alike(Dated(log, now)[i], log[i])
  BY <1>1, <1>2 DEF Alike, AuditLog
<1>4. log # << >> => Dated(log, now) # << >>
  BY <1>1
<1> QED
  BY <1>1, <1>3, <1>4 DEF Entries

LEMMA LogAuditFacts ==
    ASSUME IInv, NEW r \in Requests, LogAudit(r)
    PROVE  \E now \in Nat, step \in {"update", "commit"}, u \in Sessions :
             /\ now \in Instants /\ Latest(now)
             /\ tx[r] \in Sessions /\ tx[r].log \in Seq(AuditLog)
             /\ u = [tx[r] EXCEPT !.log = Dated(tx[r].log, now)]
             /\ u.op = tx[r].op /\ u.actor = tx[r].actor /\ u.skill_id = tx[r].skill_id
             /\ u.skill = tx[r].skill /\ u.version = tx[r].version
             /\ u.writes = tx[r].writes /\ u.log = Dated(tx[r].log, now)
             /\ step = IF tx[r].writes = NoWrites THEN "commit" ELSE "update"
             /\ pc[r] = "log" /\ Proceed(r, step, u)
<1>1. pc[r] = "log"
  BY DEF LogAudit
<1>2. tx[r] \in Sessions /\ tx[r].log \in Seq(AuditLog)
  BY <1>1, SessionFacts DEF Working
<1>3. PICK now \in Instants :
        /\ Latest(now)
        /\ Proceed(r, IF tx[r].writes = NoWrites THEN "commit" ELSE "update",
                   [tx[r] EXCEPT !.log = Dated(tx[r].log, now)])
  BY DEF LogAudit
<1>4. now \in Nat
  BY InstantsType DEF IInv
<1> DEFINE u    == [tx[r] EXCEPT !.log = Dated(tx[r].log, now)]
           step == IF tx[r].writes = NoWrites THEN "commit" ELSE "update"
<1>5. Dated(tx[r].log, now) \in Seq(AuditLog)
  BY <1>2, <1>4, DatedType
<1>6. /\ u \in Sessions
      /\ u.op = tx[r].op /\ u.actor = tx[r].actor /\ u.skill_id = tx[r].skill_id
      /\ u.skill = tx[r].skill /\ u.version = tx[r].version
      /\ u.writes = tx[r].writes /\ u.log = Dated(tx[r].log, now)
  BY <1>2, <1>5 DEF Sessions
<1> QED
  BY <1>1, <1>2, <1>3, <1>4, <1>6

LEMMA LogAuditTraced ==
    ASSUME EInv, IInv', NEW r \in Requests, LogAudit(r)
    PROVE  EInv'
<1>1. PICK now \in Nat, step \in {"update", "commit"}, u \in Sessions :
        /\ tx[r].log \in Seq(AuditLog)
        /\ u.op = tx[r].op /\ u.actor = tx[r].actor /\ u.skill_id = tx[r].skill_id
        /\ u.version = tx[r].version
        /\ u.writes = tx[r].writes /\ u.log = Dated(tx[r].log, now)
        /\ pc[r] = "log" /\ Proceed(r, step, u)
  BY LogAuditFacts DEF EInv
<1> DEFINE log == tx[r].log
<1>2. SessionTraced(r) /\ pc[r] \in Unsent /\ step \in Working
  BY <1>1, TracedFacts DEF Working
<1>3. pc'[r] = step /\ tx'[r] = u /\ skills' = skills
  BY <1>1, ProceedFacts DEF EInv, IInv
<1>4. /\ \A e \in Entries(u.log) : \E d \in Entries(log) : Alike(e, d)
      /\ \A d \in Entries(log) : \E e \in Entries(u.log) : Alike(e, d)
      /\ log # << >> => u.log # << >>
  BY <1>1, DatedRows
<1>5. Recorded(r, tx[r].writes, tx[r].version, log)
  BY <1>1, <1>2 DEF SessionTraced
<1> HIDE DEF log
<1>6. Recorded(r, u.writes, u.version, u.log)
  <2>1. \A event : Made(log, event) # {} <=> Made(u.log, event) # {}
    BY <1>4 DEF Made, Alike
  <2>2. \A x : (\E e \in Made(log, "skill.activated") : e.version_id = x)
                 <=> \E e \in Made(u.log, "skill.activated") : e.version_id = x
    BY <1>4 DEF Made, Alike
  <2>3. \A e \in Made(u.log, "skill.version_created") :
           e.version_id = r /\ e.version_hash = u.version.version_hash
    BY <1>1, <1>4, <1>5 DEF Made, Alike, Recorded
  <2>4. \A e \in Entries(u.log) : e.id = r
    BY <1>4, <1>5 DEF Alike, Recorded
  <2>5. u.log # << >> /\ u.writes = tx[r].writes /\ u.version = tx[r].version
    BY <1>1, <1>4, <1>5 DEF Recorded
  <2>6. u.version # NULL <=> Made(u.log, "skill.version_created") # {}
    BY <1>5, <2>1, <2>5 DEF Recorded
  <2>7. u.writes.status = "disabled" <=> Made(u.log, "skill.disabled") # {}
    BY <1>5, <2>1, <2>5 DEF Recorded
  <2>8. \A x : (x = u.writes.active_version_id /\ x # NULL) <=>
                \E e \in Made(u.log, "skill.activated") : e.version_id = x
    BY <1>5, <2>2, <2>5 DEF Recorded
  <2>9. DOMAIN u.writes.working # {} =>
          Made(u.log, "skill.draft_created") \union Made(u.log, "skill.draft_updated") # {}
    BY <1>5, <2>1, <2>5 DEF Recorded
  <2> QED
    BY <2>3, <2>4, <2>5, <2>6, <2>7, <2>8, <2>9 DEF Recorded
<1>7. SessionTraced(r)'
  <2>1. \A e \in Entries(u.log) :
          /\ e.id = r /\ e.skill_id = u.skill_id
          /\ e.organization_id = u.actor.organization_id
          /\ e.event # "skill.draft_created"
    BY <1>1, <1>2, <1>4 DEF SessionTraced, Alike, log
  <2>2. u.version # NULL <=> \E e \in Entries(u.log) : e.event = "skill.version_created"
    BY <1>6 DEF Recorded, Made
  <2> QED
    BY <1>1, <1>2, <1>3, <1>6, <2>1, <2>2 DEF SessionTraced
<1> QED
  BY <1>1, <1>2, <1>7, ProceedTraced

LEMMA UpdateSkillTraced ==
    ASSUME EInv, IInv', NEW r \in Requests, UpdateSkill(r)
    PROVE  EInv'
<1>1. pc[r] = "update" /\ Proceed(r, "commit", tx[r])
  BY DEF UpdateSkill
<1>2. SessionTraced(r) /\ pc[r] \in Unsent
  BY <1>1, TracedFacts DEF Working
<1>3. pc'[r] = "commit" /\ tx'[r] = tx[r] /\ skills' = skills
  BY <1>1, ProceedFacts DEF EInv, IInv
<1>4. SessionTraced(r)'
  BY <1>1, <1>2, <1>3 DEF SessionTraced
<1> QED
  BY <1>1, <1>2, <1>4, ProceedTraced DEF Working

----------------------------------------------------------------------------
(* The two steps that change rows.                                         *)

\* The one audit row e of a new draft, dated after now, and the request's effects.
DraftLogged(r, a, d, e, now, log) ==
    /\ Latest(now) /\ now \in Instants /\ e.created_at = now + 1
    /\ Len(log) = 1 /\ log[1] = e /\ Entries(log) = {e}
    /\ e.id = r /\ e.skill_id = r /\ e.organization_id = a.organization_id
    /\ e.event = "skill.draft_created" /\ e.version_id = NULL
    /\ audit' = audit \o log
    /\ committed'[r] =
         [skill_id |-> r, version |-> NULL, log |-> log, at |-> Len(audit),
          writes |-> [status |-> "draft", active_version_id |-> NULL, working |-> d]]
    /\ \A q \in Requests \ {r} : committed'[q] = committed[q]

LEMMA CreateSkillDraftFacts ==
    ASSUME IInv, NEW r \in Requests, NEW a \in Memberships, NEW d \in Definitions,
           CreateSkillDraft(r, a, d)
    PROVE  \E e \in AuditLog, now \in Nat, log \in Seq(AuditLog) :
             DraftLogged(r, a, d, e, now, log)
<1> DEFINE t     == Session("create", a, r)
           entry == record_audit(r, t, "skill.draft_created", NULL, NULL)
<1>1. t \in Sessions /\ t.actor = a /\ t.skill_id = r
  BY MembershipsAssumption, SessionType DEF Session, IInv
<1>2. entry \in AuditLog
  BY <1>1, MembershipsAssumption, AuditType DEF Events
<1>3. /\ entry.id = r /\ entry.skill_id = r
      /\ entry.event = "skill.draft_created" /\ entry.version_id = NULL
      /\ entry.organization_id = a.organization_id
  BY <1>1, AuditFields
<1>4. PICK now \in Instants :
        LET log == Dated(<<entry>>, now) IN
        /\ Latest(now)
        /\ audit' = audit \o log
        /\ committed' = [committed EXCEPT ![r] =
               [skill_id |-> r, version |-> NULL, log |-> log, at |-> Len(audit),
                writes |-> [status |-> "draft", active_version_id |-> NULL, working |-> d]]]
  BY DEF CreateSkillDraft
<1>5. now \in Nat
  BY InstantsType DEF IInv
<1> HIDE DEF entry
<1> DEFINE e == [entry EXCEPT !.created_at = now + 1]
<1>6. Dated(<<entry>>, now) = <<e>>
  BY DEF Dated
<1>7. /\ e \in AuditLog /\ e.created_at = now + 1
      /\ e.id = r /\ e.skill_id = r /\ e.organization_id = a.organization_id
      /\ e.event = "skill.draft_created" /\ e.version_id = NULL
  BY <1>2, <1>3, <1>5 DEF AuditLog
<1> HIDE DEF e
<1> PICK log : log = <<e>>
  OBVIOUS
<1>10. log \in Seq(AuditLog) /\ Len(log) = 1 /\ log[1] = e /\ Entries(log) = {e}
  BY <1>7, OneRowType, EntriesOfTuples
<1> DEFINE c == [skill_id |-> r, version |-> NULL, log |-> log, at |-> Len(audit),
                 writes |-> [status |-> "draft", active_version_id |-> NULL, working |-> d]]
<1>8. audit' = audit \o log /\ committed' = [committed EXCEPT ![r] = c]
  BY <1>4, <1>6
<1>9. committed'[r] = c /\ \A q \in Requests \ {r} : committed'[q] = committed[q]
  BY <1>8 DEF IInv, TypeOK
<1> QED
  BY <1>4, <1>5, <1>7, <1>8, <1>9, <1>10 DEF DraftLogged

LEMMA CreateSkillDraftTraced ==
    ASSUME EInv, IInv', NEW r \in Requests, NEW a \in Memberships, NEW d \in Definitions,
           CreateSkillDraft(r, a, d)
    PROVE  EInv'
<1> DEFINE t == Session("create", a, r)
<1> USE DEF EInv, IInv
<1>1. pc[r] = "idle" /\ skills[r] = NULL /\ versions[r] = NULL
  BY AdmitFacts DEF CreateSkillDraft
<1>2. t \in Sessions /\ t.op = "create" /\ t.actor = a /\ t.skill_id = r
  BY MembershipsAssumption, SessionType DEF Session
<1>3. PICK e \in AuditLog, now \in Nat, log \in Seq(AuditLog) :
        DraftLogged(r, a, d, e, now, log)
  <2>1. IInv
    OBVIOUS
  <2> HIDE DEF EInv, IInv
  <2> QED
    BY <2>1, CreateSkillDraftFacts
<1>4. /\ audit' = audit \o log /\ Entries(log) = {e}
      /\ e.id = r /\ e.skill_id = r /\ e.organization_id = a.organization_id
      /\ e.event = "skill.draft_created"
  BY <1>3 DEF DraftLogged
<1>5. /\ versions' = versions /\ reply' = reply
      /\ pc'[r] = "respond" /\ tx'[r] = t
      /\ skills'[r].organization_id = a.organization_id
      /\ \A q \in Requests \ {r} :
            pc'[q] = pc[q] /\ tx'[q] = tx[q] /\ skills'[q] = skills[q]
  BY DEF CreateSkillDraft, TypeOK
<1> HIDE DEF t
<1>6. Entries(audit)' = Entries(audit) \union {e}
  <2>1. Entries(audit') = Entries(audit) \union {e}
    BY <1>4, EntriesOfConcat DEF TypeOK
  <2> QED
    BY <2>1 DEF Entries
<1>7. skills'[r] # NULL
  <2>1. skills'[r] \in Skill
    BY MembershipsAssumption DEF CreateSkillDraft, TypeOK, Skill, SkillStatus, Actors
  <2> QED
    BY <2>1, NullAssumption
<1>8. ASSUME NEW q \in Requests, pc'[q] \in Working PROVE SessionTraced(q)'
  <2>1. q # r /\ pc[q] \in Working
    BY <1>5, <1>8 DEF Working
  <2>2. /\ SessionTraced(q) /\ tx[q].skill_id \in Requests
        /\ skills[tx[q].skill_id] # NULL
    BY <2>1, TracedFacts
  <2>3. tx[q].skill_id # r
    BY <1>1, <2>2
  <2> QED
    BY <1>5, <2>1, <2>2, <2>3 DEF SessionTraced
<1>9. AuditSound'
  <2>1. ASSUME NEW x \in Entries(audit)
        PROVE  /\ pc'[x.id] \in Ended
               /\ skills'[x.skill_id] # NULL
               /\ x.organization_id = skills'[x.skill_id].organization_id
    <3>1. x.id \in Requests /\ x.skill_id \in Requests
      BY EntryType
    <3>2. x.id # r /\ x.skill_id # r
      BY <1>1 DEF AuditSound, Ended
    <3> QED
      BY <1>5, <3>1, <3>2 DEF AuditSound
  <2>2. \A q \in Requests : skills'[q] # NULL <=> Logged(q, "skill.draft_created")'
    BY <1>4, <1>5, <1>6, <1>7 DEF AuditSound, Logged
  <2>3. \A q \in Requests : versions'[q] # NULL <=> Logged(q, "skill.version_created")'
    BY <1>4, <1>5, <1>6 DEF AuditSound, Logged
  <2> QED
    BY <1>4, <1>5, <1>6, <1>7, <2>1, <2>2, <2>3 DEF AuditSound, Ended
<1>10. AnswersSound'
  <2>1. ASSUME NEW q \in Requests \ {r}
        PROVE  /\ pc'[q] \in Unsent => skills'[q] = NULL
               /\ reply'[q] # NULL => pc'[q] = "done"
               /\ reply'[q] \in {403, 404, 409} =>
                     /\ skills'[q] = NULL /\ versions'[q] = NULL
                     /\ \A x \in Entries(audit)' : x.id # q
               /\ (pc'[q] = "respond" /\ tx'[q].op \in {"create", "version"}) \/ reply'[q] = 201 =>
                     (skills'[q] = NULL) # (versions'[q] = NULL)
    BY <1>4, <1>5, <1>6 DEF AnswersSound
  <2>2. pc'[r] \notin Unsent /\ reply'[r] = NULL
    BY <1>1, <1>5 DEF AnswersSound, Unsent, Working
  <2> QED
    BY <1>1, <1>5, <1>7, <2>1, <2>2, NullAssumption DEF AnswersSound
<1> QED
  BY <1>8, <1>9, <1>10

\* The rows a commit finds and leaves.
LEMMA CommitRows ==
    ASSUME EInv, NEW r \in Requests, CommitTx(r)
    PROVE  /\ tx[r] \in Sessions /\ tx[r].skill_id \in Requests
           /\ SessionSound(r) /\ SessionTraced(r)
           /\ skills[r] = NULL /\ versions[r] = NULL /\ reply[r] = NULL
           /\ skills[tx[r].skill_id] # NULL /\ tx[r].skill_id # r
           /\ skills'[tx[r].skill_id] # NULL
           /\ skills'[tx[r].skill_id] = Merge(skills[tx[r].skill_id], tx[r].writes)
           /\ \A s \in Requests \ {tx[r].skill_id} : skills'[s] = skills[s]
           /\ \A s \in Requests : skills[s] # NULL =>
                skills'[s].organization_id = skills[s].organization_id
           /\ versions'[r] = tx[r].version
           /\ \A v \in Requests \ {r} : versions'[v] = versions[v]
           /\ pc[r] = "commit" /\ pc'[r] = "respond"
           /\ \A q \in Requests \ {r} : pc'[q] = pc[q]
           /\ tx' = tx /\ reply' = reply
           /\ Entries(audit)' = Entries(audit) \union Entries(tx[r].log)
<1> USE DEF EInv, IInv
<1>1. pc[r] = "commit" /\ "commit" \in Working
  BY DEF CommitTx, Working
<1>2. /\ tx[r] \in Sessions /\ tx[r].skill_id \in Requests
      /\ SessionSound(r) /\ SessionTraced(r)
      /\ skills[r] = NULL /\ versions[r] = NULL
      /\ skills[tx[r].skill_id] # NULL
  BY <1>1, TracedFacts
<1>3. tx[r].writes \in Writes /\ skills[tx[r].skill_id] \in Skill /\ tx[r].log \in Seq(AuditLog)
  BY <1>2 DEF TypeOK, Sessions
<1>4. /\ skills'[tx[r].skill_id] = Merge(skills[tx[r].skill_id], tx[r].writes)
      /\ \A s \in Requests \ {tx[r].skill_id} : skills'[s] = skills[s]
      /\ versions'[r] = tx[r].version
      /\ \A v \in Requests \ {r} : versions'[v] = versions[v]
      /\ pc'[r] = "respond"
      /\ \A q \in Requests \ {r} : pc'[q] = pc[q]
      /\ tx' = tx /\ reply' = reply
  BY <1>2 DEF CommitTx, TypeOK
<1>5. Merge(skills[tx[r].skill_id], tx[r].writes) \in Skill
  BY <1>3, MergeType
<1>6. Merge(skills[tx[r].skill_id], tx[r].writes).organization_id
          = skills[tx[r].skill_id].organization_id
  BY <1>3 DEF Merge, Skill
<1>7. Entries(audit)' = Entries(audit) \union Entries(tx[r].log)
  <2>1. audit' = audit \o tx[r].log /\ audit \in Seq(AuditLog)
    BY DEF CommitTx, TypeOK
  <2>2. Entries(audit') = Entries(audit) \union Entries(tx[r].log)
    BY <1>3, <2>1, EntriesOfConcat
  <2> QED
    BY <2>2 DEF Entries
<1>8. reply[r] = NULL
  BY <1>1 DEF AnswersSound
<1> QED
  BY <1>1, <1>2, <1>4, <1>5, <1>6, <1>7, <1>8, NullAssumption

LEMMA CommitTxTraced ==
    ASSUME EInv, IInv', NEW r \in Requests, CommitTx(r)
    PROVE  EInv'
<1> DEFINE t == tx[r]
           s == t.skill_id
<1>1. /\ s \in Requests /\ SessionSound(r) /\ SessionTraced(r)
      /\ skills[r] = NULL /\ versions[r] = NULL /\ reply[r] = NULL
      /\ skills[s] # NULL /\ s # r /\ skills'[s] # NULL
      /\ \A x \in Requests \ {s} : skills'[x] = skills[x]
      /\ \A x \in Requests : skills[x] # NULL =>
            skills'[x].organization_id = skills[x].organization_id
      /\ versions'[r] = t.version
      /\ \A v \in Requests \ {r} : versions'[v] = versions[v]
      /\ pc[r] = "commit" /\ pc'[r] = "respond"
      /\ \A q \in Requests \ {r} : pc'[q] = pc[q]
      /\ tx' = tx /\ reply' = reply
  BY CommitRows
<1>2. Entries(audit)' = Entries(audit) \union Entries(t.log)
  BY CommitRows
<1>3. \A x \in Requests : skills'[x] = NULL <=> skills[x] = NULL
  BY <1>1
<1>4. /\ t.op # "create" /\ (t.op = "version" => t.version # NULL)
      /\ t.actor.organization_id = skills[s].organization_id
      /\ \A e \in Entries(t.log) :
            /\ e.id = r /\ e.skill_id = s
            /\ e.organization_id = t.actor.organization_id
            /\ e.event # "skill.draft_created"
      /\ t.version # NULL <=> \E e \in Entries(t.log) : e.event = "skill.version_created"
  BY <1>1 DEF SessionTraced
<1>5. ASSUME NEW q \in Requests, pc'[q] \in Working PROVE SessionTraced(q)'
  <2>1. q # r /\ pc'[q] = pc[q] /\ pc[q] \in Working
    BY <1>1, <1>5 DEF Working
  <2>2. SessionTraced(q) /\ tx[q].skill_id \in Requests /\ skills[tx[q].skill_id] # NULL
    BY <2>1, TracedFacts
  <2>3. skills'[tx[q].skill_id].organization_id = skills[tx[q].skill_id].organization_id
    BY <1>1, <2>2
  <2> QED
    BY <1>1, <2>1, <2>2, <2>3 DEF SessionTraced
<1>6. AuditSound'
  <2>1. ASSUME NEW e \in Entries(audit)
        PROVE  /\ pc'[e.id] \in Ended
               /\ skills'[e.skill_id] # NULL
               /\ e.organization_id = skills'[e.skill_id].organization_id
    <3>1. e.id \in Requests /\ e.skill_id \in Requests
      BY EntryType DEF EInv, IInv
    <3>2. pc[e.id] \in Ended /\ skills[e.skill_id] # NULL
          /\ e.organization_id = skills[e.skill_id].organization_id
      BY DEF EInv, AuditSound
    <3>3. e.id # r
      BY <1>1, <3>2 DEF Ended
    <3> QED
      BY <1>1, <1>3, <3>1, <3>2, <3>3
  <2>2. ASSUME NEW e \in Entries(t.log)
        PROVE  /\ pc'[e.id] \in Ended
               /\ skills'[e.skill_id] # NULL
               /\ e.organization_id = skills'[e.skill_id].organization_id
    BY <1>1, <1>4 DEF Ended
  <2>3. \A x \in Requests : skills'[x] # NULL <=> Logged(x, "skill.draft_created")'
    <3>1. \A x \in Requests : skills[x] # NULL <=> Logged(x, "skill.draft_created")
      BY DEF EInv, AuditSound
    <3>2. \A x \in Requests :
             Logged(x, "skill.draft_created")' <=> Logged(x, "skill.draft_created")
      BY <1>2, <1>4 DEF Logged
    <3> QED
      BY <1>3, <3>1, <3>2
  <2>4. ASSUME NEW x \in Requests
        PROVE  versions'[x] # NULL <=> Logged(x, "skill.version_created")'
    <3>1. versions[x] # NULL <=> Logged(x, "skill.version_created")
      BY DEF EInv, AuditSound
    <3>2. CASE x # r
      BY <1>1, <1>2, <1>4, <3>1, <3>2 DEF Logged
    <3>3. CASE x = r
      BY <1>1, <1>2, <1>4, <3>1, <3>3 DEF Logged
    <3> QED
      BY <3>2, <3>3
  <2> QED
    BY <1>2, <2>1, <2>2, <2>3, <2>4 DEF AuditSound
<1>7. AnswersSound'
  <2>1. ASSUME NEW q \in Requests \ {r}
        PROVE  /\ pc'[q] \in Unsent => skills'[q] = NULL
               /\ reply'[q] # NULL => pc'[q] = "done"
               /\ reply'[q] \in {403, 404, 409} =>
                     /\ skills'[q] = NULL /\ versions'[q] = NULL
                     /\ \A x \in Entries(audit)' : x.id # q
               /\ (pc'[q] = "respond" /\ tx'[q].op \in {"create", "version"}) \/ reply'[q] = 201 =>
                     (skills'[q] = NULL) # (versions'[q] = NULL)
    BY <1>1, <1>2, <1>3, <1>4 DEF EInv, AnswersSound
  <2>2. pc'[r] \notin Unsent /\ reply'[r] = NULL
    BY <1>1 DEF Unsent, Working
  <2>3. tx'[r].op \in {"create", "version"} => (skills'[r] = NULL) # (versions'[r] = NULL)
    BY <1>1, <1>3, <1>4
  <2> QED
    BY <2>1, <2>2, <2>3, NullAssumption DEF AnswersSound
<1> QED
  BY <1>5, <1>6, <1>7 DEF EInv

----------------------------------------------------------------------------
(* The invariant, and what it shows.                                       *)

LEMMA InitEInv == Init => EInv
<1> SUFFICES ASSUME Init PROVE EInv
  OBVIOUS
<1>1. IInv
  BY InitIInv
<1>2. Entries(audit) = {}
  BY EntriesOfTuples DEF Init
<1> QED
  BY <1>1, <1>2, NullAssumption
     DEF Init, EInv, AuditSound, AnswersSound, Logged, Working, Unsent

LEMMA NextEInv == EInv /\ [Next]_vars => EInv'
<1> SUFFICES ASSUME EInv, [Next]_vars PROVE EInv'
  OBVIOUS
<1>1. IInv'
  BY NextIInv DEF EInv
<1>2. CASE UNCHANGED vars
  BY <1>1, <1>2 DEF vars, EInv, SessionTraced, AuditSound, AnswersSound, Logged, Entries
<1>3. ASSUME NEW r \in Requests, Receive(r) PROVE EInv'
  <2>1. PICK a \in Memberships :
          \/ \E d \in Definitions : CreateSkillDraft(r, a, d)
          \/ \E s \in Ids(skills, r) :
               \/ \E p \in Patches : UpdateSkillDraft(r, a, s, p)
               \/ \E d \in Definitions : CreateSkillVersion(r, a, s, d)
               \/ \E v \in Ids(versions, r) \union {NULL} : ActivateSkill(r, a, s, v)
               \/ DisableSkill(r, a, s)
    BY <1>3 DEF Receive
  <2>2. Ids(skills, r) \subseteq Requests /\ Ids(versions, r) \subseteq Requests
    BY IdsType
  <2>3. CASE \E d \in Definitions : CreateSkillDraft(r, a, d)
    BY <1>1, <2>3, CreateSkillDraftTraced
  <2>4. ASSUME NEW s \in Ids(skills, r), NEW p \in Patches, UpdateSkillDraft(r, a, s, p)
        PROVE  EInv'
    BY <1>1, <2>2, <2>4, UpdateSkillDraftTraced
  <2>5. ASSUME NEW s \in Ids(skills, r), NEW d \in Definitions,
               CreateSkillVersion(r, a, s, d)
        PROVE  EInv'
    BY <1>1, <2>2, <2>5, CreateSkillVersionTraced
  <2>6. ASSUME NEW s \in Ids(skills, r), NEW v \in Ids(versions, r) \union {NULL},
               ActivateSkill(r, a, s, v)
        PROVE  EInv'
    BY <1>1, <2>2, <2>6, ActivateSkillTraced
  <2>7. ASSUME NEW s \in Ids(skills, r), DisableSkill(r, a, s) PROVE EInv'
    BY <1>1, <2>2, <2>7, DisableSkillTraced
  <2> QED
    BY <2>1, <2>3, <2>4, <2>5, <2>6, <2>7
<1>4. ASSUME NEW r \in Requests, Serve(r) PROVE EInv'
  <2>1. CASE Respond(r)
    BY <1>1, <2>1, RespondTraced DEF Respond
  <2> QED
    BY <1>1, <1>4, <2>1, SelectMaxVersionTraced, InsertVersionTraced, FindVersionTraced,
       LogAuditTraced, UpdateSkillTraced, CommitTxTraced DEF Serve
<1>5. ASSUME NEW r \in Requests, TimeOut(r) \/ Lose(r) PROVE EInv'
  BY <1>1, <1>5, TimeOutTraced, LoseTraced
<1> QED
  BY <1>2, <1>3, <1>4, <1>5 DEF Next, Terminating

LEMMA EffectsHold == Spec => []EInv
BY InitEInv, NextEInv, PTL DEF Spec

LEMMA AuditRowsOwned == EInv => OneTenantPerSkill
<1> SUFFICES ASSUME EInv PROVE OneTenantPerSkill
  OBVIOUS
<1>1. \A i \in DOMAIN audit : audit[i] \in Entries(audit)
  BY DEF Entries
<1>2. \A s \in Requests : \A v \in HistoryOf(s) :
         versions[v].organization_id = skills[s].organization_id
  BY DEF EInv, IInv, RowsSound, HistoryOf
<1> QED
  BY <1>1, <1>2 DEF OneTenantPerSkill, EInv, AuditSound

(* Whatever the tenants do at the same time, every version and audit row   *)
(* of a skill belongs to the skill's own organization.                     *)
THEOREM TenantsStayApart == Spec => []OneTenantPerSkill
BY AuditRowsOwned, EffectsHold, PTL


----------------------------------------------------------------------------
(* What a request commits, and what becomes of it.                         *)

\* Rows change when a draft is created and when a session commits.
Untouched ==
    /\ skills' = skills /\ versions' = versions
    /\ audit' = audit /\ committed' = committed

LEMMA WhatChangesRows ==
    ASSUME EInv, [Next]_vars
    PROVE  \/ Untouched
           \/ \E r \in Requests, a \in Memberships, d \in Definitions : CreateSkillDraft(r, a, d)
           \/ \E r \in Requests : CommitTx(r)
<1>1. CASE UNCHANGED vars
  BY <1>1 DEF vars, Untouched
<1>2. ASSUME NEW r \in Requests, Receive(r)
      PROVE  \/ Untouched
             \/ \E a \in Memberships, d \in Definitions : CreateSkillDraft(r, a, d)
  <2>1. PICK a \in Memberships :
          \/ \E d \in Definitions : CreateSkillDraft(r, a, d)
          \/ \E s \in Ids(skills, r) :
               \/ \E p \in Patches : UpdateSkillDraft(r, a, s, p)
               \/ \E d \in Definitions : CreateSkillVersion(r, a, s, d)
               \/ \E v \in Ids(versions, r) \union {NULL} : ActivateSkill(r, a, s, v)
               \/ DisableSkill(r, a, s)
    BY <1>2 DEF Receive
  <2>2. ASSUME NEW s, NEW p, UpdateSkillDraft(r, a, s, p)
        PROVE  Untouched
    BY <2>2 DEF UpdateSkillDraft, Answer, Proceed, Untouched
  <2>3. ASSUME NEW s, NEW d, CreateSkillVersion(r, a, s, d)
        PROVE  Untouched
    BY <2>3 DEF CreateSkillVersion, Answer, Proceed, Untouched
  <2>4. ASSUME NEW s, NEW v, ActivateSkill(r, a, s, v)
        PROVE  Untouched
    BY <2>4 DEF ActivateSkill, Answer, Proceed, Untouched
  <2>5. ASSUME NEW s, DisableSkill(r, a, s)
        PROVE  Untouched
    BY <2>5 DEF DisableSkill, Answer, Proceed, Untouched
  <2> QED
    BY <2>1, <2>2, <2>3, <2>4, <2>5
<1>3. ASSUME NEW r \in Requests, Serve(r)
      PROVE  (Untouched) \/ CommitTx(r)
  BY <1>3 DEF Serve, SelectMaxVersion, InsertVersion, FindVersion, LogAudit, UpdateSkill,
              Respond, Answer, Proceed, Untouched
<1>4. ASSUME NEW r \in Requests, TimeOut(r) \/ Lose(r)
      PROVE  Untouched
  BY <1>4 DEF TimeOut, Lose, Answer, Untouched
<1> QED
  BY <1>1, <1>2, <1>3, <1>4 DEF Next, Terminating

CInv ==
    /\ EInv
    /\ \A r \in Requests : committed[r] # NULL =>
         LET c == committed[r] IN
         skills[c.skill_id] # NULL /\ Recorded(r, c.writes, c.version, c.log)
    /\ EffectsArePublished
    /\ ColumnsAreLastWritten

LEMMA CommittedFacts ==
    ASSUME CInv, NEW r \in Requests, committed[r] # NULL
    PROVE  /\ committed[r] \in Effects
           /\ committed[r].at \in Nat /\ committed[r].skill_id \in Requests
           /\ committed[r].at + 1 \in RowsOf(r)
           /\ committed[r].at < Len(audit)
           /\ pc[r] \in Ended
<1> DEFINE c == committed[r]
<1>1. c \in Effects
  BY DEF CInv, EInv, IInv, TypeOK
<1>2. c.at \in Nat /\ c.log \in Seq(AuditLog) /\ c.skill_id \in Requests
  BY <1>1 DEF Effects
<1>3. c.log # << >>
  BY DEF CInv, Recorded
<1>4. Len(c.log) \in Nat \ {0}
  BY <1>2, <1>3
<1>5. RowsOf(r) = c.at + 1 .. c.at + Len(c.log)
  BY DEF CInv, EffectsArePublished
<1>6. c.at + 1 \in RowsOf(r)
  <2>1. \A x, y : x \in Nat /\ y \in Nat \ {0} => x + 1 \in x + 1 .. x + y
    OBVIOUS
  <2> QED
    BY <1>2, <1>4, <1>5, <2>1
<1>7. c.at + 1 \in DOMAIN audit /\ audit[c.at + 1].id = r
  BY <1>6 DEF RowsOf
<1>8. c.at < Len(audit)
  BY <1>2, <1>7 DEF CInv, EInv, IInv, TypeOK
<1>9. pc[r] \in Ended
  BY <1>7 DEF CInv, EInv, AuditSound, Entries
<1> QED
  BY <1>1, <1>2, <1>6, <1>8, <1>9

\* A trail that grows by the rows of r.
LEMMA AppendRows ==
    ASSUME TypeOK, NEW r \in Requests, NEW log \in Seq(AuditLog), audit' = audit \o log,
           \A e \in Entries(log) : e.id = r
    PROVE  /\ \A q \in Requests \ {r} : RowsOf(q)' = RowsOf(q)
           /\ RowsOf(r) = {} => RowsOf(r)' = Len(audit) + 1 .. Len(audit) + Len(log)
           /\ \A i \in DOMAIN audit : audit'[i] = audit[i]
           /\ \A i \in DOMAIN log : audit'[Len(audit) + i] = log[i]
<1>1. /\ Len(audit) \in Nat /\ DOMAIN audit = 1 .. Len(audit)
      /\ Len(log) \in Nat /\ DOMAIN log = 1 .. Len(log)
      /\ DOMAIN audit' = 1 .. Len(audit) + Len(log)
      /\ \A i \in 1 .. Len(audit) : audit'[i] = audit[i]
      /\ \A i \in 1 .. Len(log) : audit'[Len(audit) + i] = log[i]
  BY DEF TypeOK
<1>2. ASSUME NEW i \in DOMAIN audit', i \notin DOMAIN audit
      PROVE  i \in Len(audit) + 1 .. Len(audit) + Len(log) /\ audit'[i].id = r
  <2>1. i - Len(audit) \in 1 .. Len(log) /\ Len(audit) + (i - Len(audit)) = i
    BY <1>1, <1>2
  <2>2. audit'[i] = log[i - Len(audit)]
    BY <1>1, <2>1
  <2> QED
    BY <1>1, <2>1, <2>2 DEF Entries
<1>3. ASSUME NEW i \in Len(audit) + 1 .. Len(audit) + Len(log)
      PROVE  i \in DOMAIN audit' /\ i \notin DOMAIN audit
  BY <1>1
<1>4. \A q \in Requests \ {r} : RowsOf(q)' = RowsOf(q)
  BY <1>1, <1>2 DEF RowsOf
<1>5. RowsOf(r) = {} => RowsOf(r)' = Len(audit) + 1 .. Len(audit) + Len(log)
  BY <1>1, <1>2, <1>3 DEF RowsOf
<1> QED
  BY <1>1, <1>4, <1>5

\* Nothing of a transaction is published without the rest.
LEMMA PublishedTogether ==
    ASSUME CInv, NEW r \in Requests, NEW c \in Effects,
           committed[r] = NULL, committed'[r] = c, c # NULL,
           \A q \in Requests \ {r} : committed'[q] = committed[q],
           c.at = Len(audit), audit' = audit \o c.log,
           \A e \in Entries(c.log) : e.id = r,
           versions'[r] = c.version,
           \A q \in Requests \ {r} : versions'[q] = versions[q],
           skills'[r] # NULL <=> c.skill_id = r,
           \A q \in Requests \ {r} : skills'[q] # NULL <=> skills[q] # NULL
    PROVE  EffectsArePublished'
<1>1. c.log \in Seq(AuditLog)
  BY DEF Effects
<1>2. RowsOf(r) = {}
  BY DEF CInv, EffectsArePublished
<1>3. /\ \A q \in Requests \ {r} : RowsOf(q)' = RowsOf(q)
      /\ RowsOf(r)' = Len(audit) + 1 .. Len(audit) + Len(c.log)
      /\ \A i \in DOMAIN audit : audit'[i] = audit[i]
      /\ \A i \in DOMAIN c.log : audit'[Len(audit) + i] = c.log[i]
  BY <1>1, <1>2, AppendRows DEF CInv, EInv, IInv
<1> SUFFICES ASSUME NEW q \in Requests
             PROVE  LET e == committed'[q] IN
                    /\ e = NULL => RowsOf(q)' = {} /\ versions'[q] = NULL /\ skills'[q] = NULL
                    /\ e # NULL =>
                         /\ RowsOf(q)' = e.at + 1 .. e.at + Len(e.log)
                         /\ \A i \in DOMAIN e.log : audit'[e.at + i] = e.log[i]
                         /\ versions'[q] = e.version
                         /\ skills'[q] # NULL <=> e.skill_id = q
  BY DEF EffectsArePublished
<1>4. CASE q = r
  BY <1>3, <1>4
<1>5. CASE q # r
  <2> DEFINE e == committed[q]
  <2>1. committed'[q] = e
    BY <1>5
  <2>2. CASE e = NULL
    BY <1>3, <1>5, <2>1, <2>2 DEF CInv, EffectsArePublished
  <2>3. CASE e # NULL
    <3>1. /\ RowsOf(q) = e.at + 1 .. e.at + Len(e.log)
          /\ \A i \in DOMAIN e.log : audit[e.at + i] = e.log[i]
          /\ versions[q] = e.version
          /\ skills[q] # NULL <=> e.skill_id = q
      BY <2>3 DEF CInv, EffectsArePublished
    <3>2. e.at \in Nat /\ e.log \in Seq(AuditLog)
      BY <2>3, CommittedFacts DEF Effects
    <3>3. \A i \in DOMAIN e.log : e.at + i \in DOMAIN audit
      <4>1. \A i \in DOMAIN e.log : e.at + i \in e.at + 1 .. e.at + Len(e.log)
        BY <3>2
      <4> QED
        BY <3>1, <4>1 DEF RowsOf
    <3> QED
      BY <1>3, <1>5, <2>1, <2>3, <3>1, <3>3
  <2> QED
    BY <2>2, <2>3
<1> QED
  BY <1>4, <1>5

\* The newest transaction is the last of every set it joins.
LEMMA NewestIsLast ==
    ASSUME CInv, NEW r \in Requests, committed[r] = NULL, committed'[r].at = Len(audit),
           \A q \in Requests \ {r} : committed'[q] = committed[q],
           NEW S, \A q \in S : q \in Requests /\ committed[q] # NULL
    PROVE  /\ \A x : (x \in S /\ \A q \in S : committed'[q].at <= committed'[x].at)
                        => LastOf(S, x)
           /\ \A x : (x \in S \union {r}
                        /\ \A q \in S \union {r} : committed'[q].at <= committed'[x].at)
                        => x = r
<1>1. \A q \in S : q # r /\ committed'[q] = committed[q]
  OBVIOUS
<1>2. \A q \in S : committed[q].at \in Nat /\ committed[q].at < Len(audit)
  BY CommittedFacts
<1>3. Len(audit) \in Nat
  BY DEF CInv, EInv, IInv, TypeOK
<1> QED
  BY <1>1, <1>2, <1>3 DEF LastOf

LEMMA CreateSkillDraftCommits ==
    ASSUME CInv, EInv', NEW r \in Requests, NEW a \in Memberships, NEW d \in Definitions,
           CreateSkillDraft(r, a, d)
    PROVE  CInv'
<1>1. pc[r] = "idle" /\ skills[r] = NULL /\ versions[r] = NULL
  BY AdmitFacts DEF CreateSkillDraft, CInv, EInv
<1>2. committed[r] = NULL
  BY <1>1, CommittedFacts DEF Ended
<1>3. PICK e \in AuditLog, now \in Nat, log \in Seq(AuditLog) :
        DraftLogged(r, a, d, e, now, log)
  BY CreateSkillDraftFacts DEF CInv, EInv
<1> DEFINE w == [status |-> "draft", active_version_id |-> NULL, working |-> d]
           c == [skill_id |-> r, version |-> NULL, log |-> log, at |-> Len(audit),
                 writes |-> w]
<1>4. committed'[r] = c /\ \A q \in Requests \ {r} : committed'[q] = committed[q]
  BY <1>3 DEF DraftLogged
<1>5. /\ c.skill_id = r /\ c.version = NULL /\ c.log = log /\ c.at = Len(audit)
      /\ c.writes = w /\ w.status = "draft" /\ w.active_version_id = NULL /\ w.working = d
  OBVIOUS
<1> HIDE DEF c, w
<1>6. c \in Effects /\ c # NULL
  <2>1. committed'[r] \in Effects \union {NULL}
    BY DEF EInv, IInv, TypeOK
  <2>2. w \in Writes
    <3>1. d \in Patches
      BY DEF Definitions, Patches
    <3> QED
      BY <3>1 DEF w, Writes, SkillStatus
  <2>3. c \in Effects
    BY <2>2 DEF c, Effects, CInv, EInv, IInv, TypeOK
  <2> QED
    BY <2>3, NullAssumption
<1>7. Recorded(r, w, NULL, log)
  <2>1. log # << >> /\ e.id = r /\ e.event = "skill.draft_created" /\ Entries(log) = {e}
    BY <1>3, EntriesOfTuples DEF DraftLogged
  <2>2. /\ Made(log, "skill.draft_created") = {e}
        /\ Made(log, "skill.version_created") = {}
        /\ Made(log, "skill.activated") = {}
        /\ Made(log, "skill.disabled") = {}
    BY <2>1 DEF Made
  <2> QED
    BY <1>5, <2>1, <2>2 DEF Recorded
<1>8. /\ audit' = audit \o log /\ \A x \in Entries(log) : x.id = r
      /\ skills' = [skills EXCEPT ![r] = [organization_id |-> a.organization_id,
                      status |-> "draft", active_version_id |-> NULL, working |-> d]]
      /\ versions' = versions
  BY <1>3 DEF DraftLogged, CreateSkillDraft
<1>9. /\ skills'[r].status = "draft" /\ skills'[r].active_version_id = NULL
      /\ skills'[r].working = d /\ skills'[r] # NULL
      /\ \A q \in Requests \ {r} : skills'[q] = skills[q]
  <2>1. skills'[r] \in Skill
    BY <1>8, MembershipsAssumption DEF CInv, EInv, IInv, TypeOK, Skill, SkillStatus, Actors
  <2> QED
    BY <1>8, <2>1, NullAssumption DEF CInv, EInv, IInv, TypeOK
<1>10. EffectsArePublished'
  BY <1>1, <1>2, <1>4, <1>5, <1>6, <1>8, <1>9, PublishedTogether
<1>11. \A q \in Requests \ {r} : committed[q] # NULL =>
         committed[q].skill_id \in Requests \ {r} /\ skills[committed[q].skill_id] # NULL
  BY <1>1, CommittedFacts DEF CInv
<1>12. \A q \in Requests : committed'[q] # NULL =>
         LET x == committed'[q] IN
         skills'[x.skill_id] # NULL /\ Recorded(q, x.writes, x.version, x.log)
  BY <1>4, <1>5, <1>6, <1>7, <1>9, <1>11 DEF CInv
<1>13. ColumnsAreLastWritten'
  <2> SUFFICES ASSUME NEW s \in Requests, skills'[s] # NULL
               PROVE  /\ SetActive(s)' = {} => skills'[s].active_version_id = NULL
                      /\ \A q \in Requests :
                           LET u == committed'[q].writes IN
                           /\ LastOf(SetStatus(s), q)' => skills'[s].status = u.status
                           /\ LastOf(SetActive(s), q)' =>
                                skills'[s].active_version_id = u.active_version_id
                           /\ \A f \in Fields :
                                LastOf(SetField(s, f), q)' =>
                                  skills'[s].working[f] = u.working[f]
    BY DEF ColumnsAreLastWritten
  <2>1. CASE s = r
    <3>1. Wrote(s)' = {r}
      BY <1>4, <1>5, <1>6, <1>11, <2>1 DEF Wrote
    <3>2. SetActive(s)' = {}
      BY <1>4, <1>5, <3>1 DEF SetActive
    <3>3. \A q : /\ LastOf(SetStatus(s), q)' => q = r
                 /\ ~LastOf(SetActive(s), q)'
                 /\ \A f : LastOf(SetField(s, f), q)' => q = r
      BY <3>1, <3>2 DEF LastOf, SetStatus, SetField
    <3> QED
      BY <1>4, <1>5, <1>9, <2>1, <3>3
  <2>2. CASE s # r
    <3>1. Wrote(s)' = Wrote(s)
      BY <1>2, <1>4, <1>5, <2>2 DEF Wrote
    <3>2. \A q \in Wrote(s) : q \in Requests \ {r} /\ committed'[q] = committed[q]
      BY <1>2, <1>4 DEF Wrote
    <3>3. /\ SetActive(s)' = SetActive(s) /\ SetStatus(s)' = SetStatus(s)
          /\ \A f \in Fields : SetField(s, f)' = SetField(s, f)
      BY <3>1, <3>2 DEF SetActive, SetStatus, SetField
    <3>4. \A q : /\ LastOf(SetStatus(s), q)' => LastOf(SetStatus(s), q)
                 /\ LastOf(SetActive(s), q)' => LastOf(SetActive(s), q)
                 /\ \A f \in Fields : LastOf(SetField(s, f), q)' => LastOf(SetField(s, f), q)
      BY <3>2, <3>3 DEF LastOf, SetActive, SetStatus, SetField
    <3>5. \A q : LastOf(SetStatus(s), q) \/ LastOf(SetActive(s), q)
                 \/ (\E f \in Fields : LastOf(SetField(s, f), q)) => committed'[q] = committed[q]
      BY <3>2 DEF LastOf, SetActive, SetStatus, SetField
    <3>6. skills'[s] = skills[s] /\ skills[s] # NULL
      BY <1>9, <2>2
    <3> QED
      BY <3>3, <3>4, <3>5, <3>6 DEF CInv, ColumnsAreLastWritten
  <2> QED
    BY <2>1, <2>2
<1> QED
  BY <1>10, <1>12, <1>13 DEF CInv

LEMMA CommitTxCommits ==
    ASSUME CInv, EInv', NEW r \in Requests, CommitTx(r)
    PROVE  CInv'
<1> DEFINE t == tx[r]
           s == t.skill_id
           w == t.writes
           c == [skill_id |-> s, writes |-> w, version |-> t.version, log |-> t.log,
                 at |-> Len(audit)]
<1>1. /\ t \in Sessions /\ s \in Requests /\ SessionTraced(r)
      /\ skills[r] = NULL /\ versions[r] = NULL
      /\ skills[s] # NULL /\ s # r /\ skills'[s] # NULL
      /\ skills'[s] = Merge(skills[s], w)
      /\ \A x \in Requests \ {s} : skills'[x] = skills[x]
      /\ versions'[r] = t.version
      /\ \A v \in Requests \ {r} : versions'[v] = versions[v]
      /\ pc[r] = "commit"
  BY CommitRows DEF CInv
<1>2. committed[r] = NULL
  BY <1>1, CommittedFacts DEF Ended
<1>3. Recorded(r, w, t.version, t.log)
  BY <1>1 DEF SessionTraced
<1>4. audit' = audit \o t.log /\ committed' = [committed EXCEPT ![r] = c]
  BY DEF CommitTx
<1> HIDE DEF c
<1>5. committed'[r] = c /\ \A q \in Requests \ {r} : committed'[q] = committed[q]
  BY <1>4 DEF CInv, EInv, IInv, TypeOK
<1>6. /\ c.skill_id = s /\ c.version = t.version /\ c.log = t.log /\ c.at = Len(audit)
      /\ c.writes = w
  BY DEF c
<1>7. c \in Effects /\ c # NULL
  <2>1. c \in Effects
    BY <1>1 DEF c, Effects, Sessions, CInv, EInv, IInv, TypeOK
  <2> QED
    BY <2>1, NullAssumption
<1> HIDE DEF t, s, w
<1>8. \A q \in Requests : skills'[q] = NULL <=> skills[q] = NULL
  BY <1>1
<1>9. EffectsArePublished'
  <2>1. \A e \in Entries(c.log) : e.id = r
    BY <1>3, <1>6 DEF Recorded
  <2>2. skills'[r] # NULL <=> c.skill_id = r
    BY <1>1, <1>6, <1>8
  <2>3. audit' = audit \o c.log /\ c.at = Len(audit) /\ versions'[r] = c.version
    BY <1>1, <1>4, <1>6
  <2> QED
    BY <1>1, <1>2, <1>5, <1>7, <1>8, <2>1, <2>2, <2>3, PublishedTogether
<1>10. \A q \in Requests : committed[q] # NULL =>
         committed[q].skill_id \in Requests /\ skills[committed[q].skill_id] # NULL
  BY CommittedFacts DEF CInv
<1>11. \A q \in Requests : committed'[q] # NULL =>
         LET x == committed'[q] IN
         skills'[x.skill_id] # NULL /\ Recorded(q, x.writes, x.version, x.log)
  BY <1>1, <1>3, <1>5, <1>6, <1>8, <1>10 DEF CInv
<1>12. ColumnsAreLastWritten'
  <2> SUFFICES ASSUME NEW z \in Requests, skills'[z] # NULL
               PROVE  /\ SetActive(z)' = {} => skills'[z].active_version_id = NULL
                      /\ \A q \in Requests :
                           LET u == committed'[q].writes IN
                           /\ LastOf(SetStatus(z), q)' => skills'[z].status = u.status
                           /\ LastOf(SetActive(z), q)' =>
                                skills'[z].active_version_id = u.active_version_id
                           /\ \A f \in Fields :
                                LastOf(SetField(z, f), q)' =>
                                  skills'[z].working[f] = u.working[f]
    BY DEF ColumnsAreLastWritten
  <2>1. \A q \in Wrote(z) : q \in Requests \ {r} /\ committed'[q] = committed[q]
    BY <1>2, <1>5 DEF Wrote
  <2>2. Wrote(z)' = IF z = s THEN Wrote(z) \union {r} ELSE Wrote(z)
    BY <1>2, <1>5, <1>6, <1>7 DEF Wrote
  <2>3. /\ SetStatus(z)' = IF z = s /\ w.status # NULL
                           THEN SetStatus(z) \union {r} ELSE SetStatus(z)
        /\ SetActive(z)' = IF z = s /\ w.active_version_id # NULL
                           THEN SetActive(z) \union {r} ELSE SetActive(z)
        /\ \A f \in Fields :
             SetField(z, f)' = IF z = s /\ f \in DOMAIN w.working
                               THEN SetField(z, f) \union {r} ELSE SetField(z, f)
    BY <1>5, <1>6, <2>1, <2>2 DEF SetStatus, SetActive, SetField
  <2>4. ASSUME NEW S, S \subseteq Wrote(z)
        PROVE  /\ \A x : (x \in S /\ \A q \in S : committed'[q].at <= committed'[x].at)
                         => LastOf(S, x) /\ committed'[x] = committed[x]
               /\ \A x : (x \in S \union {r}
                            /\ \A q \in S \union {r} : committed'[q].at <= committed'[x].at)
                         => x = r
    <3>1. \A q \in S : q \in Requests /\ committed[q] # NULL
      BY <2>4 DEF Wrote
    <3>2. committed'[r].at = Len(audit)
      BY <1>5, <1>6
    <3> QED
      BY <1>2, <1>5, <2>1, <2>4, <3>1, <3>2, NewestIsLast
  <2>5. \A q : LastOf(SetStatus(z), q)' =>
          IF z = s /\ w.status # NULL THEN q = r
          ELSE LastOf(SetStatus(z), q) /\ committed'[q] = committed[q]
    <3>1. SetStatus(z) \subseteq Wrote(z)
      BY DEF SetStatus
    <3> QED
      BY <2>3, <2>4, <3>1 DEF LastOf
  <2>6. \A q : LastOf(SetActive(z), q)' =>
          IF z = s /\ w.active_version_id # NULL THEN q = r
          ELSE LastOf(SetActive(z), q) /\ committed'[q] = committed[q]
    <3>1. SetActive(z) \subseteq Wrote(z)
      BY DEF SetActive
    <3> QED
      BY <2>3, <2>4, <3>1 DEF LastOf
  <2>7. \A f \in Fields : \A q : LastOf(SetField(z, f), q)' =>
          IF z = s /\ f \in DOMAIN w.working THEN q = r
          ELSE LastOf(SetField(z, f), q) /\ committed'[q] = committed[q]
    <3> SUFFICES ASSUME NEW f \in Fields
                 PROVE  \A q : LastOf(SetField(z, f), q)' =>
                          IF z = s /\ f \in DOMAIN w.working THEN q = r
                          ELSE LastOf(SetField(z, f), q) /\ committed'[q] = committed[q]
      OBVIOUS
    <3>1. SetField(z, f) \subseteq Wrote(z)
      BY DEF SetField
    <3> QED
      BY <2>3, <2>4, <3>1 DEF LastOf
  <2>8. CASE z # s
    <3>1. skills'[z] = skills[z] /\ skills[z] # NULL
      BY <1>1, <2>8
    <3> QED
      BY <2>3, <2>5, <2>6, <2>7, <2>8, <3>1 DEF CInv, ColumnsAreLastWritten
  <2>9. CASE z = s
    <3>1. skills[z] \in Skill /\ skills[z].working \in Definitions
      BY <1>1, <2>9 DEF CInv, EInv, IInv, TypeOK, Skill
    <3>2. skills'[z] = Merge(skills[z], w)
      BY <1>1, <2>9
    <3>3. /\ skills'[z].status = IF w.status = NULL THEN skills[z].status ELSE w.status
          /\ skills'[z].active_version_id =
               IF w.active_version_id = NULL THEN skills[z].active_version_id
               ELSE w.active_version_id
          /\ \A f \in Fields :
               skills'[z].working[f] =
                 IF f \in DOMAIN w.working THEN w.working[f] ELSE skills[z].working[f]
      BY <3>1, <3>2 DEF Merge, Skill
    <3>4. committed'[r].writes = w
      BY <1>5, <1>6
    <3>5. /\ SetActive(z) = {} => skills[z].active_version_id = NULL
          /\ \A q \in Requests :
               LET u == committed[q].writes IN
               /\ LastOf(SetStatus(z), q) => skills[z].status = u.status
               /\ LastOf(SetActive(z), q) => skills[z].active_version_id = u.active_version_id
               /\ \A f \in Fields :
                    LastOf(SetField(z, f), q) => skills[z].working[f] = u.working[f]
      BY <1>1, <2>9 DEF CInv, ColumnsAreLastWritten
    <3>6. SetActive(z)' = {} => skills'[z].active_version_id = NULL
      BY <2>3, <2>9, <3>3, <3>5
    <3>7. ASSUME NEW q \in Requests
          PROVE  /\ LastOf(SetStatus(z), q)' =>
                      skills'[z].status = committed'[q].writes.status
                 /\ LastOf(SetActive(z), q)' =>
                      skills'[z].active_version_id = committed'[q].writes.active_version_id
      BY <2>5, <2>6, <2>9, <3>3, <3>4, <3>5
    <3>8. ASSUME NEW q \in Requests, NEW f \in Fields, LastOf(SetField(z, f), q)'
          PROVE  skills'[z].working[f] = committed'[q].writes.working[f]
      BY <2>7, <2>9, <3>3, <3>4, <3>5, <3>8
    <3> QED
      BY <3>6, <3>7, <3>8
  <2> QED
    BY <2>8, <2>9
<1> QED
  BY <1>9, <1>11, <1>12 DEF CInv

LEMMA InitCInv == Init => CInv
<1> SUFFICES ASSUME Init PROVE CInv
  OBVIOUS
<1>1. EInv
  BY InitEInv
<1>2. \A r \in Requests : committed[r] = NULL /\ skills[r] = NULL /\ versions[r] = NULL
                          /\ RowsOf(r) = {}
  BY DEF Init, RowsOf
<1> QED
  BY <1>1, <1>2 DEF CInv, EffectsArePublished, ColumnsAreLastWritten

LEMMA NextCInv == CInv /\ [Next]_vars => CInv'
<1> SUFFICES ASSUME CInv, [Next]_vars PROVE CInv'
  OBVIOUS
<1>1. EInv'
  BY NextEInv DEF CInv
<1>2. CASE Untouched
  BY <1>1, <1>2 DEF Untouched, CInv, EffectsArePublished, ColumnsAreLastWritten, RowsOf, Wrote,
                    SetStatus, SetActive, SetField, LastOf
<1> QED
  BY <1>1, <1>2, WhatChangesRows, CreateSkillDraftCommits, CommitTxCommits DEF CInv

LEMMA CommittedHolds == Spec => []CInv
BY InitCInv, NextCInv, PTL DEF Spec

LEMMA ToldInTheTrail == CInv => EffectsAreTold
<1> SUFFICES ASSUME CInv, NEW r \in Requests, committed[r] # NULL
             PROVE  LET e           == committed[r]
                        told(event) == {i \in DOMAIN e.log : e.log[i].event = event}
                        made        == told("skill.version_created")
                    IN
                    /\ e.version # NULL <=> made # {}
                    /\ \A i \in made : e.log[i].version_id = r
                                     /\ e.log[i].version_hash = e.version.version_hash
                    /\ {e.log[i].version_id : i \in told("skill.activated")}
                         = {e.writes.active_version_id} \ {NULL}
                    /\ e.writes.status = "disabled" <=> told("skill.disabled") # {}
                    /\ DOMAIN e.writes.working # {} =>
                         told("skill.draft_created") \union told("skill.draft_updated") # {}
  BY DEF EffectsAreTold
<1> DEFINE e           == committed[r]
           told(event) == {i \in DOMAIN e.log : e.log[i].event = event}
<1>1. Recorded(r, e.writes, e.version, e.log)
  BY DEF CInv
<1> HIDE DEF e
<1>2. \A event : /\ \A i \in told(event) : e.log[i] \in Made(e.log, event)
                 /\ \A x \in Made(e.log, event) : \E i \in told(event) : e.log[i] = x
  BY DEF Made, Entries
<1> HIDE DEF told
<1>3. \A event : told(event) # {} <=> Made(e.log, event) # {}
  BY <1>2
<1>4. {e.log[i].version_id : i \in told("skill.activated")}
         = {e.writes.active_version_id} \ {NULL}
  BY <1>1, <1>2 DEF Recorded
<1>5. \A i \in told("skill.version_created") :
         e.log[i].version_id = r /\ e.log[i].version_hash = e.version.version_hash
  BY <1>1, <1>2 DEF Recorded
<1>6. /\ e.version # NULL <=> told("skill.version_created") # {}
      /\ e.writes.status = "disabled" <=> told("skill.disabled") # {}
  BY <1>1, <1>3 DEF Recorded
<1>7. DOMAIN e.writes.working # {} =>
         told("skill.draft_created") \union told("skill.draft_updated") # {}
  BY <1>1, <1>3 DEF Recorded
<1> QED
  BY <1>4, <1>5, <1>6, <1>7 DEF e, told

(* However requests overlap and wherever they are lost, a request          *)
(* publishes its version, its audit rows and its columns of the skill      *)
(* together or not at all, its audit rows say what it wrote, and every     *)
(* column is as the last request that wrote it left it.                    *)
THEOREM RequestsAreAtomic == Spec => []AllOrNothing
<1>1. CInv => AllOrNothing
  BY ToldInTheTrail DEF CInv, AllOrNothing
<1> QED
  BY <1>1, CommittedHolds, PTL

(* An answer tells the client what became of its request, except for a     *)
(* 500: 403, 404 and 409 that nothing was committed, 201 that its row was. *)
THEOREM AnswersAreBelieved == Spec => []AnswersAreTrue
<1>1. ASSUME CInv PROVE AnswersAreTrue
  <2> SUFFICES ASSUME NEW r \in Requests
               PROVE  /\ reply[r] \in {403, 404, 409} => committed[r] = NULL
                      /\ reply[r] = 201 => /\ committed[r] # NULL
                                           /\ skills[r] # NULL \/ versions[r] # NULL
    BY DEF AnswersAreTrue
  <2>1. ASSUME reply[r] \in {403, 404, 409}, committed[r] # NULL PROVE FALSE
    <3>1. committed[r].at + 1 \in RowsOf(r)
      BY <1>1, <2>1, CommittedFacts
    <3>2. audit[committed[r].at + 1] \in Entries(audit)
          /\ audit[committed[r].at + 1].id = r
      BY <3>1 DEF RowsOf, Entries
    <3> QED
      BY <1>1, <2>1, <3>2 DEF CInv, EInv, AnswersSound
  <2>2. ASSUME reply[r] = 201
        PROVE  committed[r] # NULL /\ (skills[r] # NULL \/ versions[r] # NULL)
    <3>1. skills[r] # NULL \/ versions[r] # NULL
      BY <1>1, <2>2 DEF CInv, EInv, AnswersSound
    <3> QED
      BY <1>1, <3>1 DEF CInv, EffectsArePublished
  <2> QED
    BY <2>1, <2>2
<1> QED
  BY <1>1, CommittedHolds, PTL

----------------------------------------------------------------------------
(* Who changes rows, and the history they make.                            *)

LEMMA CreateSkillDraftRows ==
    ASSUME EInv, NEW r \in Requests, NEW a \in Memberships, NEW d \in Definitions,
           CreateSkillDraft(r, a, d)
    PROVE  /\ skills[r] = NULL /\ versions' = versions
           /\ skills'[r] # NULL /\ skills'[r].active_version_id = NULL
           /\ \A s \in Requests \ {r} : skills'[s] = skills[s]
<1>1. skills[r] = NULL
  BY AdmitFacts DEF CreateSkillDraft, EInv
<1>2. /\ versions' = versions /\ skills'[r].active_version_id = NULL
      /\ skills'[r] \in Skill
      /\ \A s \in Requests \ {r} : skills'[s] = skills[s]
  BY MembershipsAssumption DEF CreateSkillDraft, EInv, IInv, TypeOK, Skill, SkillStatus, Actors
<1> QED
  BY <1>1, <1>2, NullAssumption

LEMMA TenantsWrite ==
    EInv /\ [Next]_vars =>
      [\A s \in Requests : skills[s] # NULL /\ skills'[s] # skills[s] =>
         \E r \in Requests :
            /\ pc[r] = "commit" /\ pc'[r] = "respond"
            /\ tx[r].skill_id = s
            /\ tx[r].actor.organization_id = skills[s].organization_id
            /\ skills'[s].status # skills[s].status \/
                skills'[s].active_version_id # skills[s].active_version_id
                  => tx[r].actor.role = "owner"]_vars
<1> SUFFICES ASSUME EInv, [Next]_vars,
                    NEW s \in Requests, skills[s] # NULL, skills'[s] # skills[s]
             PROVE  \E r \in Requests :
                      /\ pc[r] = "commit" /\ pc'[r] = "respond"
                      /\ tx[r].skill_id = s
                      /\ tx[r].actor.organization_id = skills[s].organization_id
                      /\ skills'[s].status # skills[s].status \/
                          skills'[s].active_version_id # skills[s].active_version_id
                            => tx[r].actor.role = "owner"
  OBVIOUS
<1>1. PICK r \in Requests : CommitTx(r)
  <2>1. ~(\E r \in Requests, a \in Memberships, d \in Definitions : CreateSkillDraft(r, a, d))
    BY CreateSkillDraftRows
  <2> QED
    BY <2>1, WhatChangesRows DEF Untouched
<1> DEFINE w == tx[r].writes
<1>2. /\ tx[r] \in Sessions /\ SessionTraced(r)
      /\ pc[r] = "commit" /\ pc'[r] = "respond"
      /\ skills'[tx[r].skill_id] = Merge(skills[tx[r].skill_id], w)
      /\ \A x \in Requests \ {tx[r].skill_id} : skills'[x] = skills[x]
  BY <1>1, CommitRows
<1>3. tx[r].skill_id = s /\ skills'[s] = Merge(skills[s], w)
  BY <1>2
<1>4. tx[r].actor.organization_id = skills[s].organization_id
  BY <1>2, <1>3 DEF SessionTraced
<1>5. w.status # NULL \/ w.active_version_id # NULL => tx[r].actor.role = "owner"
  BY <1>2 DEF SessionTraced
<1>6. skills[s] \in Skill
  BY DEF EInv, IInv, TypeOK
<1>7. /\ w.status = NULL => skills'[s].status = skills[s].status
      /\ w.active_version_id = NULL =>
            skills'[s].active_version_id = skills[s].active_version_id
  BY <1>3, <1>6 DEF Merge, Skill
<1> QED
  BY <1>2, <1>3, <1>4, <1>5, <1>7

(* No step changes a skill except the commit of a request of its own       *)
(* organization, and only an owner's sets its status or active version.    *)
THEOREM TenantsWriteAlone == Spec => OnlyTenantsWrite
BY TenantsWrite, EffectsHold, PTL DEF Spec, OnlyTenantsWrite

\* The snapshots and numbers of VersionHistory are those of the rows.
LEMMA ViewOfVersion ==
    ASSUME TypeOK, NEW v \in Requests
    PROVE  IF versions[v] = NULL THEN HistoryView[v] = NULL
           ELSE /\ HistoryView[v] \in History!Snapshots
                /\ HistoryView[v] # NULL
                /\ HistoryView[v].skill = versions[v].skill_id
                /\ HistoryView[v].number = versions[v].version_number
<1>1. CASE versions[v] = NULL
  BY <1>1 DEF HistoryView
<1>2. CASE versions[v] # NULL
  <2>1. HistoryView[v] = [skill |-> versions[v].skill_id,
                          number |-> versions[v].version_number,
                          definition |-> versions[v].definition]
    BY <1>2 DEF HistoryView
  <2>2. versions[v] \in SkillVersion
    BY <1>2 DEF TypeOK
  <2>3. HistoryView[v] \in History!Snapshots
    BY <2>1, <2>2 DEF SkillVersion, History!Snapshots
  <2> QED
    BY <1>2, <2>1, <2>3, ViewAssumption
<1> QED
  BY <1>1, <1>2

LEMMA ViewOfHistory ==
    ASSUME TypeOK, NEW s \in Requests
    PROVE  History!SnapshotsOf(s) = HistoryOf(s) /\ History!NumbersOf(s) = NumbersOf(s)
<1>1. \A v \in Requests :
         IF versions[v] = NULL THEN HistoryView[v] = NULL
         ELSE /\ HistoryView[v] # NULL
              /\ HistoryView[v].skill = versions[v].skill_id
              /\ HistoryView[v].number = versions[v].version_number
  BY ViewOfVersion
<1>2. History!SnapshotsOf(s) = HistoryOf(s)
  BY <1>1 DEF History!SnapshotsOf, HistoryOf
<1>3. \A v \in HistoryOf(s) : HistoryView[v].number = versions[v].version_number
  BY <1>1 DEF HistoryOf
<1> QED
  BY <1>2, <1>3 DEF History!NumbersOf, NumbersOf

\* The numbers below the one a session inserts are exactly the skill's.
LEMMA NumbersBelow ==
    ASSUME IInv, NEW r \in Requests, pc[r] = "commit", tx[r].version # NULL
    PROVE  NumbersOf(tx[r].skill_id) = 1 .. tx[r].version.version_number - 1
<1> DEFINE n == tx[r].version.version_number
           S == NumbersOf(tx[r].skill_id)
<1>1. /\ tx[r].skill_id \in Requests /\ SessionSound(r)
      /\ tx[r].version \in SkillVersion
  BY SessionFacts DEF Working
<1>2. n \in Nat \ {0}
  BY <1>1 DEF SkillVersion
<1>3. n \notin S /\ \A k \in 1 .. n - 1 : k \in S
  BY <1>1 DEF SessionSound, Inserted
<1>4. S \subseteq Nat \ {0} /\ \A m \in S : \A k \in 1 .. m : k \in S
  BY <1>1, NumbersDownward
<1> HIDE DEF n, S
<1>5. ASSUME NEW m \in S PROVE m \in 1 .. n - 1
  <2>1. m \in Nat \ {0} /\ m # n
    BY <1>3, <1>4
  <2>2. ~(n < m)
    <3>1. n < m => n \in 1 .. m
      BY <1>2, <2>1
    <3> QED
      BY <1>3, <1>4, <3>1
  <2> QED
    BY <1>2, <2>1, <2>2
<1> QED
  BY <1>3, <1>5 DEF n, S

LEMMA CommitIsAStep ==
    ASSUME EInv, NEW r \in Requests, CommitTx(r)
    PROVE  History!Next \/ (HistoryView' = HistoryView /\ CurrentView' = CurrentView)
<1> DEFINE t == tx[r]
           s == t.skill_id
           w == t.writes
<1>1. /\ s \in Requests /\ SessionSound(r) /\ SessionTraced(r)
      /\ versions[r] = NULL /\ skills[s] # NULL /\ skills'[s] # NULL
      /\ skills'[s] = Merge(skills[s], w)
      /\ \A x \in Requests \ {s} : skills'[x] = skills[x]
      /\ versions'[r] = t.version
      /\ \A v \in Requests \ {r} : versions'[v] = versions[v]
      /\ pc[r] = "commit"
  BY CommitRows
<1>2. TypeOK
  BY DEF EInv, IInv
<1>3. skills'[s].active_version_id = IF w.active_version_id = NULL
                                     THEN skills[s].active_version_id
                                     ELSE w.active_version_id
  BY <1>1, <1>2 DEF Merge, TypeOK, Skill
<1>4. CurrentView' = IF w.active_version_id = NULL THEN CurrentView
                     ELSE [CurrentView EXCEPT ![s] = w.active_version_id]
  BY <1>1, <1>3 DEF CurrentView
<1>5. CASE t.version = NULL
  <2>1. HistoryView' = HistoryView
    BY <1>1, <1>5 DEF HistoryView
  <2>2. CASE w.active_version_id = NULL
    BY <1>4, <2>1, <2>2
  <2>3. CASE w.active_version_id # NULL
    <3>1. w.active_version_id \in History!SnapshotsOf(s)
      BY <1>1, <1>2, <1>5, <2>3, ViewOfHistory DEF SessionSound
    <3>2. History!Select(s)
      BY <1>4, <2>1, <2>3, <3>1 DEF History!Select
    <3> QED
      BY <1>1, <3>2 DEF History!Next
  <2> QED
    BY <2>2, <2>3
<1>6. CASE t.version # NULL
  <2> DEFINE new == HistoryView'[r]
  <2>1. /\ HistoryView[r] = NULL
        /\ new \in History!Snapshots
        /\ new.skill = s
        /\ new.number = t.version.version_number
    <3>1. HistoryView[r] = NULL
      BY <1>1, <1>2, ViewOfVersion
    <3>2. new = [skill |-> t.version.skill_id, number |-> t.version.version_number,
                 definition |-> t.version.definition]
      BY <1>1, <1>6 DEF HistoryView
    <3>3. t.version.skill_id = s
      BY <1>1, <1>6 DEF SessionSound
    <3>4. t.version \in SkillVersion
      BY <1>1, <1>6, SessionFacts DEF EInv, Working
    <3>5. new \in History!Snapshots
      BY <3>2, <3>4 DEF SkillVersion, History!Snapshots
    <3> QED
      BY <3>1, <3>2, <3>3, <3>5
  <2>2. HistoryView' = [HistoryView EXCEPT ![r] = new]
    BY <1>1 DEF HistoryView
  <2>3. History!NumbersOf(new.skill) = 1 .. new.number - 1
    BY <1>1, <1>2, <1>6, <2>1, ViewOfHistory, NumbersBelow DEF EInv
  <2>4. History!Append(r)
    BY <2>1, <2>2, <2>3 DEF History!Append
  <2>5. CASE w.active_version_id = NULL
    <3>1. History!Publish(r)
      BY <1>4, <2>4, <2>5 DEF History!Publish
    <3> QED
      BY <3>1 DEF History!Next
  <2>6. CASE w.active_version_id # NULL
    <3>1. w.active_version_id = r /\ t.version.version_number = 1
      BY <1>1, <1>6, <2>6 DEF SessionTraced
    <3>2. History!Launch(r)
      BY <1>4, <2>1, <2>4, <2>6, <3>1 DEF History!Launch
    <3> QED
      BY <3>2 DEF History!Next
  <2> QED
    BY <2>5, <2>6
<1> QED
  BY <1>5, <1>6

LEMMA StepsOfHistory ==
    EInv /\ [Next]_vars => [History!Next]_<<HistoryView, CurrentView>>
<1> SUFFICES ASSUME EInv, [Next]_vars
             PROVE  History!Next \/ (HistoryView' = HistoryView /\ CurrentView' = CurrentView)
  OBVIOUS
<1>1. CASE skills' = skills /\ versions' = versions
  BY <1>1 DEF HistoryView, CurrentView
<1>2. ASSUME NEW r \in Requests, NEW a \in Memberships, NEW d \in Definitions,
             CreateSkillDraft(r, a, d)
      PROVE  HistoryView' = HistoryView /\ CurrentView' = CurrentView
  <2>1. /\ skills[r] = NULL /\ versions' = versions
        /\ skills'[r] # NULL /\ skills'[r].active_version_id = NULL
        /\ \A s \in Requests \ {r} : skills'[s] = skills[s]
    BY <1>2, CreateSkillDraftRows
  <2> QED
    BY <2>1 DEF HistoryView, CurrentView
<1> QED
  BY <1>1, <1>2, WhatChangesRows, CommitIsAStep DEF Untouched

(* The registry implements VersionHistory: however requests overlap, its   *)
(* versions are snapshots numbered 1, 2, 3, ... that never change or       *)
(* vanish, and a pointer of each skill into its own.                       *)
THEOREM RegistryIsAHistory == Spec => ImplementsHistory
<1>1. Init => History!Init
  BY DEF Init, History!Init, HistoryView, CurrentView
<1> QED
  BY <1>1, StepsOfHistory, EffectsHold, PTL DEF Spec, ImplementsHistory, History!Spec

----------------------------------------------------------------------------
(* Whatever requests overlap, what commits is a step of the lifecycle or   *)
(* one of its late steps: the interface through which ToolApprovals sees   *)
(* the registry.                                                           *)

Edits(w, v) == v = NULL /\ w.status = NULL /\ w.active_version_id = NULL

Only(w, status, active) ==
    w.status = status /\ w.active_version_id = active /\ DOMAIN w.working = {}

(* The transactions there are: an edit (or nothing), a disable, a switch, a*)
(* first activation, a new version of a skill that was active.  An         *)
(* activation that is still to find its version finds none of a skill it   *)
(* loaded as a draft.                                                      *)
SessionShaped(r) ==
    LET t == tx[r]
        w == t.writes
        v == t.version
    IN
    /\ \/ Edits(w, v)
       \/ v = NULL /\ Only(w, "disabled", NULL)
       \/ v = NULL /\ w.active_version_id # NULL /\ Only(w, NULL, w.active_version_id)
       \/ v # NULL /\ v.version_number = 1 /\ Only(w, "active", r)
       \/ v # NULL /\ Only(w, NULL, NULL) /\ HistoryOf(t.skill_id) # {}
    /\ pc[r] = "number" => HistoryOf(t.skill_id) # {}
    /\ pc[r] = "find" =>
          \/ t.version_id = r
          \/ /\ versions[t.version_id] # NULL
             /\ t.skill.status = "active" \/ versions[t.version_id].skill_id # t.skill_id

OInv ==
    /\ EInv
    /\ \A r \in Requests : pc[r] \in Working => SessionShaped(r)

----------------------------------------------------------------------------
(* The sessions keep their shape: a step of one request takes no version   *)
(* from the others.                                                        *)

LEMMA HistoryGrows ==
    ASSUME \A v \in Requests : versions[v] # NULL => versions'[v] = versions[v], NEW s
    PROVE  HistoryOf(s) \subseteq HistoryOf(s)'
BY DEF HistoryOf

LEMMA ShapeStep ==
    ASSUME OInv, EInv', NEW r \in Requests,
           \A q \in Requests \ {r} : pc'[q] = pc[q] /\ tx'[q] = tx[q],
           \A v \in Requests : versions[v] # NULL => versions'[v] = versions[v],
           pc'[r] \in Working => SessionShaped(r)'
    PROVE  OInv'
<1>1. ASSUME NEW q \in Requests \ {r}, pc'[q] \in Working PROVE SessionShaped(q)'
  <2>1. SessionShaped(q) /\ pc'[q] = pc[q] /\ tx'[q] = tx[q]
    BY <1>1 DEF OInv
  <2>2. HistoryOf(tx[q].skill_id) \subseteq HistoryOf(tx[q].skill_id)'
    BY HistoryGrows
  <2>3. tx[q] \in Sessions /\ tx[q].version_id \in Requests \union {NULL}
        /\ (pc[q] = "find" => tx[q].version_id \in Requests)
    <3>1. pc[q] \in Working
      BY <1>1
    <3>2. tx[q] \in Sessions /\ tx[q].version_id \in Requests \union {NULL} /\ SessionSound(q)
      BY <3>1, SessionFacts DEF OInv, EInv
    <3> QED
      BY <3>2 DEF SessionSound
  <2>4. pc[q] = "find" /\ versions[tx[q].version_id] # NULL =>
           versions'[tx[q].version_id] = versions[tx[q].version_id]
    BY <2>3
  <2> QED
    BY <2>1, <2>2, <2>4 DEF SessionShaped
<1> QED
  BY <1>1 DEF OInv

LEMMA ProceedShaped ==
    ASSUME OInv, EInv', NEW r \in Requests, NEW step, NEW t,
           Proceed(r, step, t), SessionShaped(r)'
    PROVE  OInv'
<1>1. /\ versions' = versions
      /\ \A q \in Requests \ {r} : pc'[q] = pc[q] /\ tx'[q] = tx[q]
  BY DEF Proceed, OInv, EInv, IInv, TypeOK
<1> QED
  BY <1>1, ShapeStep

LEMMA AnswerShaped ==
    ASSUME OInv, EInv', NEW r \in Requests, NEW code, Answer(r, code)
    PROVE  OInv'
<1>1. /\ versions' = versions /\ pc'[r] = "done"
      /\ \A q \in Requests \ {r} : pc'[q] = pc[q] /\ tx'[q] = tx[q]
  BY DEF Answer, OInv, EInv, IInv, TypeOK
<1> QED
  BY <1>1, ShapeStep DEF Working

LEMMA LoseShaped ==
    ASSUME OInv, EInv', NEW r \in Requests, Lose(r)
    PROVE  OInv'
<1>1. /\ versions' = versions /\ pc'[r] = "lost"
      /\ \A q \in Requests \ {r} : pc'[q] = pc[q] /\ tx'[q] = tx[q]
  BY DEF Lose, OInv, EInv, IInv, TypeOK
<1> QED
  BY <1>1, ShapeStep DEF Working

LEMMA CommitTxShaped ==
    ASSUME OInv, EInv', NEW r \in Requests, CommitTx(r)
    PROVE  OInv'
<1>1. /\ pc'[r] = "respond" /\ tx' = tx /\ versions[r] = NULL
      /\ \A q \in Requests \ {r} : pc'[q] = pc[q]
      /\ \A v \in Requests \ {r} : versions'[v] = versions[v]
  BY CommitRows DEF OInv
<1> QED
  BY <1>1, ShapeStep DEF Working

LEMMA CreateSkillDraftShaped ==
    ASSUME OInv, EInv', NEW r \in Requests, NEW a \in Memberships, NEW d \in Definitions,
           CreateSkillDraft(r, a, d)
    PROVE  OInv'
<1>1. /\ versions' = versions /\ pc'[r] = "respond"
      /\ \A q \in Requests \ {r} : pc'[q] = pc[q] /\ tx'[q] = tx[q]
  BY DEF CreateSkillDraft, OInv, EInv, IInv, TypeOK
<1> QED
  BY <1>1, ShapeStep DEF Working

LEMMA NoWritesShape ==
    /\ Only(NoWrites, NULL, NULL)
    /\ \A v \in {NULL} : Edits(NoWrites, v)
BY DEF NoWrites, Only, Edits

LEMMA UpdateSkillDraftShaped ==
    ASSUME OInv, EInv', NEW r \in Requests, NEW a \in Memberships, NEW s \in Requests,
           NEW p \in Patches, UpdateSkillDraft(r, a, s, p)
    PROVE  OInv'
<1> DEFINE t       == Session("update", a, s)
           changed == {f \in DOMAIN p : p[f] # skills[s].working[f]}
           w       == [NoWrites EXCEPT !.working = [f \in changed |-> p[f]]]
           e       == record_audit(r, t, "skill.draft_updated", NULL, NULL)
           u       == Prepared(t, w, NULL, <<e>>)
<1>1. \/ \E code \in {200, 404, 409} : Answer(r, code)
      \/ \E step \in Inserted : Proceed(r, step, u)
  BY DEF UpdateSkillDraft, Inserted
<1>2. t \in Sessions
  BY NewSession DEF OInv, EInv
<1>3. w.status = NULL /\ w.active_version_id = NULL
  BY NoWritesColumns DEF NoWrites
<1> HIDE DEF t, w, e
<1>4. u.writes = w /\ u.version = NULL
  BY <1>2, PreparedFields
<1> HIDE DEF u
<1>5. ASSUME NEW step \in Inserted, Proceed(r, step, u) PROVE OInv'
  <2>1. pc'[r] = step /\ tx'[r] = u
    BY <1>5, ProceedFacts DEF OInv, EInv, IInv
  <2>2. SessionShaped(r)'
    BY <1>3, <1>4, <1>5, <2>1 DEF SessionShaped, Edits, Inserted
  <2> QED
    BY <1>5, <2>2, ProceedShaped
<1> QED
  BY <1>1, <1>5, AnswerShaped

LEMMA CreateSkillVersionShaped ==
    ASSUME OInv, EInv', NEW r \in Requests, NEW a \in Memberships, NEW s \in Requests,
           NEW d \in Definitions, CreateSkillVersion(r, a, s, d)
    PROVE  OInv'
<1> DEFINE t == Session("version", a, s)
           u == [t EXCEPT !.payload = d]
<1>1. \/ \E code \in {404, 409} : Answer(r, code)
      \/ Visible(a, s) /\ skills[s].status = "active" /\ Proceed(r, "number", u)
  BY DEF CreateSkillVersion
<1>2. t \in Sessions /\ t.skill_id = s /\ t.writes = NoWrites /\ t.version = NULL
  BY NewSession DEF OInv, EInv
<1> HIDE DEF t
<1>3. u.skill_id = s /\ u.writes = NoWrites /\ u.version = NULL
  BY <1>2 DEF Sessions
<1> HIDE DEF u
<1>4. ASSUME Visible(a, s), skills[s].status = "active", Proceed(r, "number", u) PROVE OInv'
  <2>1. pc'[r] = "number" /\ tx'[r] = u
    BY <1>4, ProceedFacts DEF OInv, EInv, IInv
  <2>2. HistoryOf(s) # {}
    BY <1>4 DEF OInv, EInv, IInv, LifecycleShape, Visible
  <2>3. HistoryOf(s)' = HistoryOf(s)
    BY <1>4 DEF Proceed, HistoryOf
  <2>4. SessionShaped(r)'
    BY <1>3, <2>1, <2>2, <2>3, NoWritesShape DEF SessionShaped
  <2> QED
    BY <1>4, <2>4, ProceedShaped
<1> QED
  BY <1>1, <1>4, AnswerShaped

LEMMA ActivateSkillShaped ==
    ASSUME OInv, EInv', NEW r \in Requests, NEW a \in Memberships, NEW s \in Requests,
           NEW version_id \in Ids(versions, r) \union {NULL},
           ActivateSkill(r, a, s, version_id)
    PROVE  OInv'
<1> DEFINE t        == [Session("activate", a, s) EXCEPT !.version_id = version_id]
           current  == skills[s].active_version_id
           v1       == NewVersion(t, 1, skills[s].working)
           w        == Activate(r, "active")
           replay   == <<record_audit(r, t, "skill.activation_replayed",
                                      current, HashOf(current))>>
           launch   == <<record_audit(r, t, "skill.version_created", r, v1.version_hash),
                         Activation(r, t, r, v1.version_hash)>>
           replayed == Prepared(t, NoWrites, NULL, replay)
           launched == Prepared(t, w, v1, launch)
<1>1. \/ \E code \in {403, 404, 409} : Answer(r, code)
      \/ Proceed(r, "log", replayed)
      \/ Visible(a, s) /\ Proceed(r, "insert", launched)
      \/ /\ Visible(a, s) /\ skills[s].status \in {"draft", "active"}
         /\ version_id # NULL /\ Proceed(r, "find", t)
  BY DEF ActivateSkill
<1>2. version_id \in Requests \union {NULL}
  BY IdsType
<1>3. /\ t \in Sessions /\ t.skill_id = s /\ t.skill = skills[s]
      /\ t.writes = NoWrites /\ t.version = NULL
  BY <1>2, NewActivation DEF OInv, EInv
<1>4. t.version_id = version_id
  BY DEF Session
<1>5. v1.version_number = 1
  BY DEF NewVersion
<1>6. Only(w, "active", r)
  BY DEF Activate, NoWrites, Only
<1> HIDE DEF t, v1, w, replay, launch
<1>7. replayed.writes = NoWrites /\ replayed.version = NULL
  BY <1>3, PreparedFields
<1>8. launched.writes = w /\ launched.version = v1
  BY <1>3, PreparedFields
<1> HIDE DEF replayed, launched
<1>9. ASSUME Proceed(r, "log", replayed) PROVE OInv'
  <2>1. pc'[r] = "log" /\ tx'[r] = replayed
    BY <1>9, ProceedFacts DEF OInv, EInv, IInv
  <2>2. SessionShaped(r)'
    BY <1>7, <2>1, NoWritesShape DEF SessionShaped
  <2> QED
    BY <1>9, <2>2, ProceedShaped
<1>10. ASSUME Visible(a, s), Proceed(r, "insert", launched) PROVE OInv'
  <2>1. pc'[r] = "insert" /\ tx'[r] = launched
    BY <1>10, ProceedFacts DEF OInv, EInv, IInv
  <2>2. v1 # NULL
    <3>1. pc'[r] \in Working
      BY <2>1 DEF Working
    <3>2. SessionSound(r)'
      BY <3>1 DEF EInv, IInv, SessionsSound
    <3> QED
      BY <1>8, <2>1, <3>2 DEF SessionSound
  <2>3. SessionShaped(r)'
    BY <1>5, <1>6, <1>8, <2>1, <2>2 DEF SessionShaped
  <2> QED
    BY <1>10, <2>3, ProceedShaped
<1>11. ASSUME Visible(a, s), skills[s].status \in {"draft", "active"},
              version_id # NULL, Proceed(r, "find", t)
       PROVE  OInv'
  <2>1. pc'[r] = "find" /\ tx'[r] = t /\ versions' = versions
    BY <1>11, ProceedFacts DEF OInv, EInv, IInv, Proceed
  <2>2. ASSUME version_id # r, skills[s].status # "active"
        PROVE  versions[version_id].skill_id # s
    <3>1. version_id \in Requests /\ versions[version_id] # NULL
      BY <1>11, <2>2 DEF Ids
    <3>2. HistoryOf(s) = {}
      BY <1>11, <2>2 DEF OInv, EInv, IInv, LifecycleShape, Visible
    <3> QED
      BY <3>1, <3>2 DEF HistoryOf
  <2>3. version_id # r => versions[version_id] # NULL
    BY <1>11 DEF Ids
  <2>4. SessionShaped(r)'
    BY <1>3, <1>4, <2>1, <2>2, <2>3, NoWritesShape DEF SessionShaped
  <2> QED
    BY <1>11, <2>4, ProceedShaped
<1> QED
  BY <1>1, <1>9, <1>10, <1>11, AnswerShaped

LEMMA DisableSkillShaped ==
    ASSUME OInv, EInv', NEW r \in Requests, NEW a \in Memberships, NEW s \in Requests,
           DisableSkill(r, a, s)
    PROVE  OInv'
<1> DEFINE t        == Session("disable", a, s)
           current  == skills[s].active_version_id
           w        == [NoWrites EXCEPT !.status = "disabled"]
           replay   == <<record_audit(r, t, "skill.disable_replayed", current, HashOf(current))>>
           disabled == record_audit(r, t, "skill.disabled", current, NULL)
           log      == <<[disabled EXCEPT !.previous_status = skills[s].status]>>
           replayed == Prepared(t, NoWrites, NULL, replay)
           prepared == Prepared(t, w, NULL, log)
<1>1. \/ \E code \in {403, 404} : Answer(r, code)
      \/ Proceed(r, "log", replayed)
      \/ Proceed(r, "log", prepared)
  BY DEF DisableSkill
<1>2. t \in Sessions
  BY NewSession DEF OInv, EInv
<1>3. Only(w, "disabled", NULL)
  BY DEF NoWrites, Only
<1> HIDE DEF t, w, replay, log
<1>4. replayed.writes = NoWrites /\ replayed.version = NULL
  BY <1>2, PreparedFields
<1>5. prepared.writes = w /\ prepared.version = NULL
  BY <1>2, PreparedFields
<1> HIDE DEF replayed, prepared
<1>6. ASSUME Proceed(r, "log", replayed) PROVE OInv'
  <2>1. pc'[r] = "log" /\ tx'[r] = replayed
    BY <1>6, ProceedFacts DEF OInv, EInv, IInv
  <2>2. SessionShaped(r)'
    BY <1>4, <2>1, NoWritesShape DEF SessionShaped
  <2> QED
    BY <1>6, <2>2, ProceedShaped
<1>7. ASSUME Proceed(r, "log", prepared) PROVE OInv'
  <2>1. pc'[r] = "log" /\ tx'[r] = prepared
    BY <1>7, ProceedFacts DEF OInv, EInv, IInv
  <2>2. SessionShaped(r)'
    BY <1>3, <1>5, <2>1 DEF SessionShaped
  <2> QED
    BY <1>7, <2>2, ProceedShaped
<1> QED
  BY <1>1, <1>6, <1>7, AnswerShaped

LEMMA ShapedFacts ==
    ASSUME OInv, NEW r \in Requests, pc[r] \in Working
    PROVE  /\ tx[r] \in Sessions /\ tx[r].skill_id \in Requests
           /\ SessionSound(r) /\ SessionShaped(r) /\ versions[r] = NULL
BY TracedFacts DEF OInv

LEMMA SelectMaxVersionShaped ==
    ASSUME OInv, EInv', NEW r \in Requests, SelectMaxVersion(r)
    PROVE  OInv'
<1> DEFINE t == tx[r]
<1>1. pc[r] = "number"
  BY DEF SelectMaxVersion
<1>2. t \in Sessions /\ SessionShaped(r)
  BY <1>1, ShapedFacts DEF Working
<1>3. PICK n : Proceed(r, "insert", Prepared(t, NoWrites, NewVersion(t, n + 1, t.payload),
              <<record_audit(r, t, "skill.version_created", r,
                             NewVersion(t, n + 1, t.payload).version_hash)>>))
  BY DEF SelectMaxVersion
<1> DEFINE v == NewVersion(t, n + 1, t.payload)
           e == record_audit(r, t, "skill.version_created", r, v.version_hash)
           u == Prepared(t, NoWrites, v, <<e>>)
<1> HIDE DEF v, e
<1>4. u.skill_id = t.skill_id /\ u.writes = NoWrites /\ u.version = v
  BY <1>2, PreparedFields
<1>5. Proceed(r, "insert", u)
  BY <1>3 DEF u, v, e
<1> HIDE DEF u
<1>6. pc'[r] = "insert" /\ tx'[r] = u /\ versions' = versions
  BY <1>5, ProceedFacts DEF OInv, EInv, IInv, Proceed
<1>7. v # NULL
  <2>1. pc'[r] \in Working
    BY <1>6 DEF Working
  <2>2. SessionSound(r)'
    BY <2>1 DEF EInv, IInv, SessionsSound
  <2> QED
    BY <1>4, <1>6, <2>2 DEF SessionSound
<1>8. HistoryOf(t.skill_id) # {}
  BY <1>1, <1>2 DEF SessionShaped
<1>9. \A x : HistoryOf(x)' = HistoryOf(x)
  BY <1>6, SameHistories
<1>10. SessionShaped(r)'
  BY <1>4, <1>6, <1>7, <1>8, <1>9, NoWritesShape DEF SessionShaped
<1> QED
  BY <1>5, <1>10, ProceedShaped

\* A session that only moves on keeps its shape.
LEMMA MoveShaped ==
    ASSUME OInv, EInv', NEW r \in Requests, pc[r] \in Working,
           NEW step \in Inserted, NEW u, Proceed(r, step, u),
           u.skill_id = tx[r].skill_id, u.writes = tx[r].writes, u.version = tx[r].version
    PROVE  OInv'
<1>1. SessionShaped(r)
  BY ShapedFacts
<1>2. pc'[r] = step /\ tx'[r] = u /\ versions' = versions
  BY ProceedFacts DEF OInv, EInv, IInv, Proceed
<1>3. \A x : HistoryOf(x)' = HistoryOf(x)
  BY <1>2, SameHistories
<1>4. SessionShaped(r)'
  BY <1>1, <1>2, <1>3 DEF SessionShaped, Inserted
<1> QED
  BY <1>4, ProceedShaped

LEMMA InsertVersionShaped ==
    ASSUME OInv, EInv', NEW r \in Requests, InsertVersion(r)
    PROVE  OInv'
<1>1. pc[r] \in Working
  BY DEF InsertVersion, Working
<1>2. Answer(r, 500) \/ \E step \in Inserted : Proceed(r, step, tx[r])
  BY DEF InsertVersion, Inserted
<1> QED
  BY <1>1, <1>2, AnswerShaped, MoveShaped

LEMMA LogAuditShaped ==
    ASSUME OInv, EInv', NEW r \in Requests, LogAudit(r)
    PROVE  OInv'
<1>1. PICK now \in Nat, step \in {"update", "commit"}, u \in Sessions :
        /\ u.skill_id = tx[r].skill_id /\ u.version = tx[r].version
        /\ u.writes = tx[r].writes
        /\ pc[r] = "log" /\ Proceed(r, step, u)
  BY LogAuditFacts DEF OInv, EInv
<1>2. pc[r] \in Working /\ step \in Inserted
  BY <1>1 DEF Working, Inserted
<1> QED
  BY <1>1, <1>2, MoveShaped

LEMMA UpdateSkillShaped ==
    ASSUME OInv, EInv', NEW r \in Requests, UpdateSkill(r)
    PROVE  OInv'
<1>1. pc[r] \in Working /\ Proceed(r, "commit", tx[r]) /\ "commit" \in Inserted
  BY DEF UpdateSkill, Working, Inserted
<1> QED
  BY <1>1, MoveShaped

LEMMA FindVersionShaped ==
    ASSUME OInv, EInv', NEW r \in Requests, FindVersion(r)
    PROVE  OInv'
<1> DEFINE t == tx[r]
           v == t.version_id
           w == Activate(v, IF t.skill.status = "active" THEN NULL ELSE "active")
           e == Activation(r, t, v, HashOf(v))
           u == Prepared(t, w, NULL, <<e>>)
<1>1. pc[r] = "find"
  BY DEF FindVersion
<1>2. t \in Sessions /\ SessionShaped(r) /\ versions[r] = NULL
  BY <1>1, ShapedFacts DEF Working
<1>3. CASE Answer(r, 404)
  BY <1>3, AnswerShaped
<1>4. ASSUME v \in HistoryOf(t.skill_id), Proceed(r, "log", u) PROVE OInv'
  <2>1. v # r /\ v # NULL /\ versions[v] # NULL /\ versions[v].skill_id = t.skill_id
    BY <1>2, <1>4, NullAssumption DEF HistoryOf
  <2>2. t.skill.status = "active"
    BY <1>1, <1>2, <2>1 DEF SessionShaped
  <2>3. Only(w, NULL, v)
    BY <2>2 DEF Activate, NoWrites, Only
  <2> HIDE DEF w, e
  <2>4. u.writes = w /\ u.version = NULL
    BY <1>2, PreparedFields
  <2> HIDE DEF u
  <2>5. pc'[r] = "log" /\ tx'[r] = u
    BY <1>4, ProceedFacts DEF OInv, EInv, IInv
  <2>6. SessionShaped(r)'
    BY <2>1, <2>3, <2>4, <2>5 DEF SessionShaped, Only
  <2> QED
    BY <1>4, <2>6, ProceedShaped
<1> QED
  BY <1>3, <1>4 DEF FindVersion

LEMMA InitOInv == Init => OInv
BY InitEInv DEF Init, OInv, Working

LEMMA NextOInv == OInv /\ [Next]_vars => OInv'
<1> SUFFICES ASSUME OInv, [Next]_vars PROVE OInv'
  OBVIOUS
<1>1. EInv'
  BY NextEInv DEF OInv
<1>2. CASE UNCHANGED vars
  <2>1. UNCHANGED <<pc, tx, versions>> /\ \A s : HistoryOf(s)' = HistoryOf(s)
    BY <1>2, SameHistories DEF vars
  <2> QED
    BY <1>1, <2>1 DEF OInv, SessionShaped
<1>3. ASSUME NEW r \in Requests, Receive(r) PROVE OInv'
  <2>1. PICK a \in Memberships :
          \/ \E d \in Definitions : CreateSkillDraft(r, a, d)
          \/ \E s \in Ids(skills, r) :
               \/ \E p \in Patches : UpdateSkillDraft(r, a, s, p)
               \/ \E d \in Definitions : CreateSkillVersion(r, a, s, d)
               \/ \E v \in Ids(versions, r) \union {NULL} : ActivateSkill(r, a, s, v)
               \/ DisableSkill(r, a, s)
    BY <1>3 DEF Receive
  <2>2. Ids(skills, r) \subseteq Requests
    BY IdsType
  <2>3. CASE \E d \in Definitions : CreateSkillDraft(r, a, d)
    BY <1>1, <2>3, CreateSkillDraftShaped
  <2>4. ASSUME NEW s \in Ids(skills, r), NEW p \in Patches, UpdateSkillDraft(r, a, s, p)
        PROVE  OInv'
    BY <1>1, <2>2, <2>4, UpdateSkillDraftShaped
  <2>5. ASSUME NEW s \in Ids(skills, r), NEW d \in Definitions,
               CreateSkillVersion(r, a, s, d)
        PROVE  OInv'
    BY <1>1, <2>2, <2>5, CreateSkillVersionShaped
  <2>6. ASSUME NEW s \in Ids(skills, r), NEW v \in Ids(versions, r) \union {NULL},
               ActivateSkill(r, a, s, v)
        PROVE  OInv'
    BY <1>1, <2>2, <2>6, ActivateSkillShaped
  <2>7. ASSUME NEW s \in Ids(skills, r), DisableSkill(r, a, s) PROVE OInv'
    BY <1>1, <2>2, <2>7, DisableSkillShaped
  <2> QED
    BY <2>1, <2>3, <2>4, <2>5, <2>6, <2>7
<1>4. ASSUME NEW r \in Requests, Serve(r) PROVE OInv'
  BY <1>1, <1>4, SelectMaxVersionShaped, InsertVersionShaped, FindVersionShaped,
     LogAuditShaped, UpdateSkillShaped, CommitTxShaped, AnswerShaped DEF Serve, Respond
<1>5. ASSUME NEW r \in Requests, TimeOut(r) \/ Lose(r) PROVE OInv'
  BY <1>1, <1>5, AnswerShaped, LoseShaped DEF TimeOut
<1> QED
  BY <1>2, <1>3, <1>4, <1>5 DEF Next, Terminating

LEMMA OverlapHolds == Spec => []OInv
BY InitOInv, NextOInv, PTL DEF Spec

----------------------------------------------------------------------------
(* The rows as the lifecycle sees them.                                    *)

LEMMA LifecycleHistory ==
    ASSUME TypeOK, NEW s \in Requests
    PROVE  /\ Lifecycle!SnapshotsOf(s) = HistoryOf(s)
           /\ Lifecycle!NumbersOf(s) = NumbersOf(s)
<1>1. /\ History!SnapshotsOf(s) = HistoryOf(s) /\ History!NumbersOf(s) = NumbersOf(s)
  BY ViewOfHistory
<1> QED
  BY <1>1 DEF Lifecycle!SnapshotsOf, History!SnapshotsOf, Lifecycle!NumbersOf, History!NumbersOf

LEMMA ViewOfSkill ==
    ASSUME TypeOK, NEW s \in Requests, skills[s] # NULL
    PROVE  /\ RegistryView[s] # NULL
           /\ RegistryView[s] = [status  |-> skills[s].status,
                                 working |-> skills[s].working,
                                 active  |-> skills[s].active_version_id]
           /\ \A status : Lifecycle!Is(s, status) <=> skills[s].status = status
<1>1. RegistryView[s] = [status  |-> skills[s].status,
                         working |-> skills[s].working,
                         active  |-> skills[s].active_version_id]
  BY DEF RegistryView
<1>2. skills[s] \in Skill
  BY DEF TypeOK
<1>3. RegistryView[s] # NULL
  BY <1>1, <1>2, ViewAssumption DEF Skill
<1> QED
  BY <1>1, <1>3 DEF Lifecycle!Is

\* What a commit does to the two views.
LEMMA CommitViews ==
    ASSUME OInv, NEW r \in Requests, CommitTx(r)
    PROVE  LET s == tx[r].skill_id
               w == tx[r].writes
               v == tx[r].version
           IN
           /\ s \in Requests /\ skills[s] # NULL
           /\ skills[s].status \in SkillStatus
           /\ RegistryView' = [RegistryView EXCEPT ![s] =
                [status  |-> IF w.status = NULL THEN skills[s].status ELSE w.status,
                 working |-> [f \in Fields |-> IF f \in DOMAIN w.working THEN w.working[f]
                                               ELSE skills[s].working[f]],
                 active  |-> IF w.active_version_id = NULL THEN skills[s].active_version_id
                             ELSE w.active_version_id]]
           /\ v = NULL => HistoryView' = HistoryView
           /\ v # NULL => /\ v.definition \in Definitions
                          /\ Lifecycle!Snapshot(s, r, v.version_number, v.definition)
<1> DEFINE s == tx[r].skill_id
           w == tx[r].writes
           v == tx[r].version
<1>1. /\ s \in Requests /\ SessionSound(r) /\ versions[r] = NULL
      /\ skills[s] # NULL /\ skills'[s] # NULL
      /\ skills'[s] = Merge(skills[s], w)
      /\ \A x \in Requests \ {s} : skills'[x] = skills[x]
      /\ versions'[r] = v
      /\ \A x \in Requests \ {r} : versions'[x] = versions[x]
      /\ pc[r] = "commit"
  BY CommitRows DEF OInv
<1>2. skills[s] \in Skill
  BY <1>1 DEF OInv, EInv, IInv, TypeOK
<1>3. /\ skills'[s].status = IF w.status = NULL THEN skills[s].status ELSE w.status
      /\ skills'[s].working = [f \in Fields |-> IF f \in DOMAIN w.working THEN w.working[f]
                                                ELSE skills[s].working[f]]
      /\ skills'[s].active_version_id = IF w.active_version_id = NULL
                                        THEN skills[s].active_version_id
                                        ELSE w.active_version_id
  BY <1>1, <1>2 DEF Merge, Skill
<1>4. RegistryView' = [RegistryView EXCEPT ![s] =
         [status |-> skills'[s].status, working |-> skills'[s].working,
          active |-> skills'[s].active_version_id]]
  BY <1>1 DEF RegistryView
<1>5. v = NULL => HistoryView' = HistoryView
  BY <1>1 DEF HistoryView
<1>6. ASSUME v # NULL
      PROVE  v.definition \in Definitions /\ Lifecycle!Snapshot(s, r, v.version_number, v.definition)
  <2>1. v.skill_id = s
    BY <1>1, <1>6 DEF SessionSound
  <2>2. v \in SkillVersion
    BY <1>1, <1>6, SessionFacts DEF OInv, EInv, Working
  <2>3. HistoryView' = [HistoryView EXCEPT ![r] =
          [skill |-> v.skill_id, number |-> v.version_number, definition |-> v.definition]]
    BY <1>1, <1>6 DEF HistoryView
  <2>4. HistoryView[r] = NULL
    BY <1>1 DEF HistoryView
  <2> QED
    BY <2>1, <2>2, <2>3, <2>4 DEF Lifecycle!Snapshot, SkillVersion
<1> QED
  BY <1>1, <1>2, <1>3, <1>4, <1>5, <1>6 DEF Skill

LEMMA SameRegistry ==
    ASSUME NEW s, RegistryView' = [q \in Requests |-> IF q = s THEN RegistryView[s]
                                                     ELSE RegistryView[q]]
    PROVE  RegistryView' = RegistryView
<1>1. RegistryView = [q \in Requests |-> RegistryView[q]]
  BY DEF RegistryView
<1> QED
  BY <1>1

\* The entry of a skill after a step that touches no other.
Becomes(s, status, working, active) ==
    RegistryView' = [q \in Requests |->
        IF q = s THEN [status |-> status, working |-> working, active |-> active]
        ELSE RegistryView[q]]

(* What a commit of each kind does to the views.                           *)
LEMMA CommitKinds ==
    ASSUME OInv, NEW r \in Requests, CommitTx(r)
    PROVE  LET s   == tx[r].skill_id
               w   == tx[r].writes
               v   == tx[r].version
               row == skills[s]
           IN
           /\ s \in Requests /\ row # NULL /\ row.status \in SkillStatus
           /\ v # NULL => v.definition \in Definitions
           /\ \/ /\ Edits(w, v) /\ HistoryView' = HistoryView
                 /\ \E d \in Definitions :
                      /\ Becomes(s, row.status, d, row.active_version_id)
                      /\ DOMAIN w.working = {} => d = row.working
              \/ /\ v = NULL /\ Only(w, "disabled", NULL) /\ HistoryView' = HistoryView
                 /\ Becomes(s, "disabled", row.working, row.active_version_id)
              \/ /\ v = NULL /\ w.active_version_id # NULL /\ Only(w, NULL, w.active_version_id)
                 /\ w.active_version_id \in HistoryOf(s) /\ row.status # "draft"
                 /\ HistoryView' = HistoryView
                 /\ Becomes(s, row.status, row.working, w.active_version_id)
              \/ /\ v # NULL /\ Only(w, "active", r)
                 /\ HistoryOf(s) = {} /\ row.status # "active"
                 /\ Lifecycle!Snapshot(s, r, 1, v.definition)
                 /\ Becomes(s, "active", row.working, r)
              \/ /\ v # NULL /\ Only(w, NULL, NULL) /\ row.status # "draft"
                 /\ RegistryView' = RegistryView
                 /\ \E n \in NumbersOf(s) :
                      NumbersOf(s) = 1 .. n /\ Lifecycle!Snapshot(s, r, n + 1, v.definition)
<1> DEFINE s     == tx[r].skill_id
           w     == tx[r].writes
           v     == tx[r].version
           row   == skills[s]
           entry == [status  |-> IF w.status = NULL THEN row.status ELSE w.status,
                     working |-> [f \in Fields |-> IF f \in DOMAIN w.working THEN w.working[f]
                                                   ELSE row.working[f]],
                     active  |-> IF w.active_version_id = NULL THEN row.active_version_id
                                 ELSE w.active_version_id]
<1>1. /\ s \in Requests /\ row # NULL /\ row.status \in SkillStatus
      /\ RegistryView' = [RegistryView EXCEPT ![s] = entry]
      /\ v = NULL => HistoryView' = HistoryView
      /\ v # NULL => /\ v.definition \in Definitions
                     /\ Lifecycle!Snapshot(s, r, v.version_number, v.definition)
  BY CommitViews
<1>2. /\ pc[r] = "commit" /\ tx[r] \in Sessions
      /\ SessionSound(r) /\ SessionShaped(r) /\ TypeOK /\ IInv
  BY ShapedFacts DEF CommitTx, Working, OInv, EInv, IInv
<1>3. row \in Skill
      /\ RegistryView' = [q \in Requests |-> IF q = s THEN entry ELSE RegistryView[q]]
  <2>1. row \in Skill
    BY <1>1, <1>2 DEF TypeOK
  <2>2. DOMAIN RegistryView = Requests
    BY DEF RegistryView
  <2> HIDE DEF entry
  <2> QED
    BY <1>1, <2>1, <2>2
<1>4. RegistryView[s] = [status |-> row.status, working |-> row.working,
                         active |-> row.active_version_id]
  BY <1>1, <1>2, ViewOfSkill
<1>5. v # NULL => NumbersOf(s) = 1 .. v.version_number - 1
  BY <1>2, NumbersBelow
<1>6. DOMAIN w.working = {} => entry.working = row.working
  BY <1>3 DEF Skill, Definitions
<1>7. entry.working \in Definitions
  BY <1>2, <1>3 DEF Sessions, Writes, Patches, Skill, Definitions
<1>8. CASE Edits(w, v)
  <2>1. /\ HistoryView' = HistoryView
        /\ entry = [status |-> row.status, working |-> entry.working,
                    active |-> row.active_version_id]
    BY <1>1, <1>8 DEF Edits
  <2> HIDE DEF entry
  <2>2. Becomes(s, row.status, entry.working, row.active_version_id)
    BY <1>3, <2>1 DEF Becomes
  <2> QED
    BY <1>1, <1>6, <1>7, <1>8, <2>1, <2>2
<1>9. CASE v = NULL /\ Only(w, "disabled", NULL)
  <2>1. HistoryView' = HistoryView /\ entry.working = row.working
    BY <1>1, <1>6, <1>9 DEF Only
  <2>2. entry.status = "disabled" /\ entry.active = row.active_version_id
    BY <1>9, NullAssumption DEF Only, SkillStatus
  <2>3. entry = [status |-> "disabled", working |-> row.working,
                 active |-> row.active_version_id]
    BY <2>1, <2>2
  <2> HIDE DEF entry
  <2> QED
    BY <1>1, <1>3, <1>9, <2>1, <2>3 DEF Becomes
<1>10. CASE v = NULL /\ w.active_version_id # NULL /\ Only(w, NULL, w.active_version_id)
  <2>1. HistoryView' = HistoryView /\ entry.working = row.working
    BY <1>1, <1>6, <1>10 DEF Only
  <2>2. entry = [status |-> row.status, working |-> row.working,
                 active |-> w.active_version_id]
    BY <1>10, <2>1 DEF Only
  <2> HIDE DEF entry
  <2>3. w.active_version_id \in HistoryOf(s)
    BY <1>2, <1>10 DEF SessionSound
  <2>4. row.status # "draft"
    BY <1>1, <1>2, <2>3 DEF IInv, LifecycleShape
  <2> QED
    BY <1>1, <1>3, <1>10, <2>1, <2>2, <2>3, <2>4 DEF Becomes
<1>11. CASE v # NULL /\ v.version_number = 1 /\ Only(w, "active", r)
  <2>1. entry.working = row.working
    BY <1>6, <1>11 DEF Only
  <2>2. entry = [status |-> "active", working |-> row.working, active |-> r]
    BY <1>11, <2>1, NullAssumption DEF Only, SkillStatus
  <2> HIDE DEF entry
  <2>3. Lifecycle!Snapshot(s, r, 1, v.definition) /\ v.definition \in Definitions
    BY <1>1, <1>11
  <2>4. HistoryOf(s) = {}
    <3>1. NumbersOf(s) = {}
      BY <1>5, <1>11
    <3> QED
      BY <3>1 DEF NumbersOf
  <2>5. row.status # "active"
    BY <1>1, <1>2, <2>4 DEF IInv, LifecycleShape
  <2> QED
    BY <1>1, <1>3, <1>11, <2>2, <2>3, <2>4, <2>5 DEF Becomes
<1>12. CASE v # NULL /\ Only(w, NULL, NULL) /\ HistoryOf(s) # {}
  <2> DEFINE n == v.version_number - 1
  <2>1. entry.working = row.working
    BY <1>6, <1>12 DEF Only
  <2>2. entry = [status |-> row.status, working |-> row.working,
                 active |-> row.active_version_id]
    BY <1>12, <2>1 DEF Only
  <2> HIDE DEF entry
  <2>3. RegistryView' = RegistryView
    <3>1. entry = RegistryView[s]
      BY <1>4, <2>2
    <3> QED
      BY <1>3, <3>1, SameRegistry
  <2>4. v.version_number \in Nat \ {0}
    BY <1>2, <1>12 DEF Sessions, SkillVersion
  <2>5. NumbersOf(s) # {}
    BY <1>12 DEF NumbersOf
  <2>6. n \in NumbersOf(s) /\ NumbersOf(s) = 1 .. n /\ v.version_number = n + 1
    BY <1>5, <1>12, <2>4, <2>5
  <2>7. Lifecycle!Snapshot(s, r, n + 1, v.definition) /\ v.definition \in Definitions
    BY <1>1, <1>12, <2>6
  <2>8. row.status # "draft"
    <3>1. w.status # "active"
      BY <1>12, NullAssumption DEF Only, SkillStatus
    <3> QED
      BY <1>2, <1>12, <3>1 DEF SessionSound
  <2> HIDE DEF n
  <2> QED
    BY <1>1, <1>12, <2>3, <2>6, <2>7, <2>8
<1> QED
  BY <1>2, <1>8, <1>9, <1>10, <1>11, <1>12 DEF SessionShaped

(* The same as steps of the lifecycle.                                     *)
LEMMA EditStep ==
    ASSUME TypeOK, NEW s \in Requests, skills[s] # NULL, NEW d, HistoryView' = HistoryView,
           Becomes(s, skills[s].status, d, skills[s].active_version_id)
    PROVE  /\ skills[s].status = "draft" => Lifecycle!EditDraft(s, d)
           /\ skills[s].status \in {"active", "disabled"} => Lifecycle!LateEdit(s, d)
           /\ d = skills[s].working => RegistryView' = RegistryView
<1> DEFINE entry == [status |-> skills[s].status, working |-> d,
                     active |-> skills[s].active_version_id]
<1>1. /\ RegistryView[s] = [status |-> skills[s].status, working |-> skills[s].working,
                            active |-> skills[s].active_version_id]
      /\ \A status : Lifecycle!Is(s, status) <=> skills[s].status = status
  BY ViewOfSkill
<1>2. RegistryView' = [q \in Requests |-> IF q = s THEN entry ELSE RegistryView[q]]
  BY DEF Becomes
<1>3. [RegistryView[s] EXCEPT !.working = d] = entry
  BY <1>1
<1>4. d = skills[s].working => entry = RegistryView[s]
  BY <1>1
<1> HIDE DEF entry
<1>5. RegistryView' = [RegistryView EXCEPT ![s].working = d]
  <2>1. [RegistryView EXCEPT ![s].working = d] =
           [q \in Requests |-> IF q = s THEN [RegistryView[s] EXCEPT !.working = d]
                               ELSE RegistryView[q]]
    BY DEF RegistryView
  <2> QED
    BY <1>2, <1>3, <2>1
<1>6. d = skills[s].working => RegistryView' = RegistryView
  BY <1>2, <1>4, SameRegistry
<1> QED
  BY <1>1, <1>5, <1>6 DEF Lifecycle!EditDraft, Lifecycle!LateEdit

LEMMA DisableStep ==
    ASSUME TypeOK, NEW s \in Requests, skills[s] # NULL, HistoryView' = HistoryView,
           Becomes(s, "disabled", skills[s].working, skills[s].active_version_id)
    PROVE  /\ skills[s].status \in {"draft", "active"} => Lifecycle!Disable(s)
           /\ skills[s].status = "disabled" => RegistryView' = RegistryView
<1> DEFINE entry == [status |-> "disabled", working |-> skills[s].working,
                     active |-> skills[s].active_version_id]
<1>1. /\ RegistryView[s] = [status |-> skills[s].status, working |-> skills[s].working,
                            active |-> skills[s].active_version_id]
      /\ \A status : Lifecycle!Is(s, status) <=> skills[s].status = status
  BY ViewOfSkill
<1>2. RegistryView' = [q \in Requests |-> IF q = s THEN entry ELSE RegistryView[q]]
  BY DEF Becomes
<1>3. [RegistryView[s] EXCEPT !.status = "disabled"] = entry
  BY <1>1
<1>4. skills[s].status = "disabled" => entry = RegistryView[s]
  BY <1>1
<1> HIDE DEF entry
<1>5. RegistryView' = [RegistryView EXCEPT ![s].status = "disabled"]
  <2>1. [RegistryView EXCEPT ![s].status = "disabled"] =
           [q \in Requests |-> IF q = s THEN [RegistryView[s] EXCEPT !.status = "disabled"]
                               ELSE RegistryView[q]]
    BY DEF RegistryView
  <2> QED
    BY <1>2, <1>3, <2>1
<1>6. skills[s].status = "disabled" => RegistryView' = RegistryView
  BY <1>2, <1>4, SameRegistry
<1> QED
  BY <1>1, <1>5, <1>6 DEF Lifecycle!Disable

LEMMA SwitchStep ==
    ASSUME TypeOK, NEW s \in Requests, skills[s] # NULL, NEW v \in HistoryOf(s),
           HistoryView' = HistoryView, Becomes(s, skills[s].status, skills[s].working, v)
    PROVE  /\ skills[s].status = "active" => Lifecycle!Switch(s, v)
           /\ skills[s].status = "disabled" => Lifecycle!LateSwitch(s, v)
<1> DEFINE entry == [status |-> skills[s].status, working |-> skills[s].working, active |-> v]
<1>1. /\ RegistryView[s] = [status |-> skills[s].status, working |-> skills[s].working,
                            active |-> skills[s].active_version_id]
      /\ \A status : Lifecycle!Is(s, status) <=> skills[s].status = status
  BY ViewOfSkill
<1>2. RegistryView' = [q \in Requests |-> IF q = s THEN entry ELSE RegistryView[q]]
  BY DEF Becomes
<1>3. [RegistryView[s] EXCEPT !.active = v] = entry
  BY <1>1
<1> HIDE DEF entry
<1>4. RegistryView' = [RegistryView EXCEPT ![s].active = v]
  <2>1. [RegistryView EXCEPT ![s].active = v] =
           [q \in Requests |-> IF q = s THEN [RegistryView[s] EXCEPT !.active = v]
                               ELSE RegistryView[q]]
    BY DEF RegistryView
  <2> QED
    BY <1>2, <1>3, <2>1
<1>5. v \in Lifecycle!SnapshotsOf(s)
  BY LifecycleHistory
<1> QED
  BY <1>1, <1>4, <1>5 DEF Lifecycle!Switch, Lifecycle!LateSwitch

LEMMA LaunchStep ==
    ASSUME TypeOK, NEW s \in Requests, skills[s] # NULL, NEW v, NEW d,
           HistoryOf(s) = {}, Lifecycle!Snapshot(s, v, 1, d),
           Becomes(s, "active", skills[s].working, v)
    PROVE  /\ skills[s].status = "draft" /\ d = skills[s].working => Lifecycle!Activate(s, v)
           /\ skills[s].status \in {"draft", "disabled"} => Lifecycle!LateActivate(s, v, d)
<1> DEFINE entry == [status |-> "active", working |-> skills[s].working, active |-> v]
<1>1. /\ RegistryView[s] = [status |-> skills[s].status, working |-> skills[s].working,
                            active |-> skills[s].active_version_id]
      /\ \A status : Lifecycle!Is(s, status) <=> skills[s].status = status
  BY ViewOfSkill
<1>2. RegistryView' = [q \in Requests |-> IF q = s THEN entry ELSE RegistryView[q]]
  BY DEF Becomes
<1>3. [[RegistryView[s] EXCEPT !.status = "active"] EXCEPT !.active = v] = entry
  <2>1. [RegistryView[s] EXCEPT !.status = "active"] =
           [status |-> "active", working |-> skills[s].working,
            active |-> skills[s].active_version_id]
    BY <1>1
  <2> DEFINE started == [RegistryView[s] EXCEPT !.status = "active"]
  <2> HIDE DEF started
  <2>2. ASSUME started = [status |-> "active", working |-> skills[s].working,
                          active |-> skills[s].active_version_id]
        PROVE  [started EXCEPT !.active = v] = entry
    BY <2>2
  <2> QED
    BY <2>1, <2>2 DEF started
<1> HIDE DEF entry
<1>4. RegistryView' = [RegistryView EXCEPT ![s].status = "active", ![s].active = v]
  <2> DEFINE launched == [RegistryView EXCEPT ![s].status = "active", ![s].active = v]
  <2>1. launched = [q \in Requests |->
           IF q = s THEN [[RegistryView[s] EXCEPT !.status = "active"] EXCEPT !.active = v]
           ELSE RegistryView[q]]
    BY DEF RegistryView
  <2> QED
    BY <1>2, <1>3, <2>1
<1>5. Lifecycle!SnapshotsOf(s) = {} /\ RegistryView[s].working = skills[s].working
  BY <1>1, LifecycleHistory
<1> QED
  BY <1>1, <1>4, <1>5 DEF Lifecycle!Activate, Lifecycle!LateActivate

LEMMA VersionStep ==
    ASSUME TypeOK, NEW s \in Requests, skills[s] # NULL, NEW v, NEW d,
           NEW n \in NumbersOf(s), NumbersOf(s) = 1 .. n, RegistryView' = RegistryView,
           Lifecycle!Snapshot(s, v, n + 1, d)
    PROVE  /\ skills[s].status = "active" => Lifecycle!AddVersion(s, v, d)
           /\ skills[s].status = "disabled" => Lifecycle!LateVersion(s, v, d)
<1>1. \A status : Lifecycle!Is(s, status) <=> skills[s].status = status
  BY ViewOfSkill
<1>2. Lifecycle!NumbersOf(s) = NumbersOf(s)
  BY LifecycleHistory
<1> QED
  BY <1>1, <1>2 DEF Lifecycle!AddVersion, Lifecycle!LateVersion

LEMMA CommitIsLifecycleStep ==
    ASSUME OInv, NEW r \in Requests, CommitTx(r)
    PROVE  Lifecycle!OverlapNext \/ (RegistryView' = RegistryView /\ HistoryView' = HistoryView)
<1> DEFINE s   == tx[r].skill_id
           w   == tx[r].writes
           v   == tx[r].version
           row == skills[s]
<1> USE DEF Lifecycle!OverlapNext, Lifecycle!Next, Lifecycle!Late
<1>1. /\ s \in Requests /\ row # NULL /\ row.status \in SkillStatus
      /\ v # NULL => v.definition \in Definitions
  BY CommitKinds
<1>2. TypeOK
  BY DEF OInv, EInv, IInv
<1>3. ASSUME HistoryView' = HistoryView, NEW d \in Definitions,
             Becomes(s, row.status, d, row.active_version_id)
      PROVE  Lifecycle!OverlapNext
  <2>1. Lifecycle!EditDraft(s, d) \/ Lifecycle!LateEdit(s, d)
    BY <1>1, <1>2, <1>3, EditStep DEF SkillStatus
  <2> QED
    BY <1>1, <2>1
<1>4. ASSUME HistoryView' = HistoryView,
             Becomes(s, "disabled", row.working, row.active_version_id)
      PROVE  \/ Lifecycle!OverlapNext
             \/ RegistryView' = RegistryView /\ HistoryView' = HistoryView
  <2>1. Lifecycle!Disable(s) \/ RegistryView' = RegistryView
    BY <1>1, <1>2, <1>4, DisableStep DEF SkillStatus
  <2> QED
    BY <1>1, <1>4, <2>1
<1>5. ASSUME NEW x \in HistoryOf(s), row.status # "draft", HistoryView' = HistoryView,
             Becomes(s, row.status, row.working, x)
      PROVE  Lifecycle!OverlapNext
  <2>1. Lifecycle!Switch(s, x) \/ Lifecycle!LateSwitch(s, x)
    BY <1>1, <1>2, <1>5, SwitchStep DEF SkillStatus
  <2>2. x \in Requests
    BY DEF HistoryOf
  <2> QED
    BY <1>1, <2>1, <2>2
<1>6. ASSUME v # NULL, HistoryOf(s) = {}, row.status # "active",
             Lifecycle!Snapshot(s, r, 1, v.definition), Becomes(s, "active", row.working, r)
      PROVE  Lifecycle!OverlapNext
  <2>1. Lifecycle!LateActivate(s, r, v.definition)
    BY <1>1, <1>2, <1>6, LaunchStep DEF SkillStatus
  <2> QED
    BY <1>1, <1>6, <2>1
<1>7. ASSUME v # NULL, row.status # "draft", RegistryView' = RegistryView,
             NEW n \in NumbersOf(s), NumbersOf(s) = 1 .. n,
             Lifecycle!Snapshot(s, r, n + 1, v.definition)
      PROVE  Lifecycle!OverlapNext
  <2>1. Lifecycle!AddVersion(s, r, v.definition) \/ Lifecycle!LateVersion(s, r, v.definition)
    BY <1>1, <1>2, <1>7, VersionStep DEF SkillStatus
  <2> QED
    BY <1>1, <1>7, <2>1
<1> HIDE DEF Lifecycle!OverlapNext
<1> QED
  BY <1>3, <1>4, <1>5, <1>6, <1>7, CommitKinds

LEMMA CreateIsLifecycleStep ==
    ASSUME OInv, NEW r \in Requests, NEW a \in Memberships, NEW d \in Definitions,
           CreateSkillDraft(r, a, d)
    PROVE  Lifecycle!CreateDraft(r, d)
<1>1. /\ skills[r] = NULL /\ versions' = versions /\ skills'[r] # NULL
      /\ \A x \in Requests \ {r} : skills'[x] = skills[x]
  BY CreateSkillDraftRows DEF OInv
<1>2. skills'[r].status = "draft" /\ skills'[r].working = d
      /\ skills'[r].active_version_id = NULL
  BY DEF CreateSkillDraft, OInv, EInv, IInv, TypeOK
<1>3. HistoryView' = HistoryView /\ RegistryView[r] = NULL
  BY <1>1 DEF HistoryView, RegistryView
<1>4. RegistryView' = [RegistryView EXCEPT ![r] =
         [status |-> "draft", working |-> d, active |-> NULL]]
  BY <1>1, <1>2 DEF RegistryView
<1> QED
  BY <1>3, <1>4 DEF Lifecycle!CreateDraft

(* ADR-2 and lifecycle.py under overlap: however requests race and fail,   *)
(* what commits is a step of the documented lifecycle or one of the late   *)
(* steps that a stale guard allows; nothing else ever happens to a skill.  *)
THEOREM CommitsAreLifecycleSteps == Spec => ImplementsOverlap
<1>1. Init => Lifecycle!Init
  BY DEF Init, Lifecycle!Init, RegistryView, HistoryView
<1>2. OInv /\ [Next]_vars => [Lifecycle!OverlapNext]_<<RegistryView, HistoryView>>
  <2> SUFFICES ASSUME OInv, [Next]_vars
               PROVE  Lifecycle!OverlapNext
                      \/ (RegistryView' = RegistryView /\ HistoryView' = HistoryView)
    OBVIOUS
  <2>1. CASE skills' = skills /\ versions' = versions
    BY <2>1 DEF RegistryView, HistoryView
  <2>2. ASSUME NEW r \in Requests, NEW a \in Memberships, NEW d \in Definitions,
               CreateSkillDraft(r, a, d)
        PROVE  Lifecycle!OverlapNext
    BY <2>2, CreateIsLifecycleStep DEF Lifecycle!OverlapNext, Lifecycle!Next
  <2>3. ASSUME NEW r \in Requests, CommitTx(r)
        PROVE  Lifecycle!OverlapNext
               \/ (RegistryView' = RegistryView /\ HistoryView' = HistoryView)
    BY <2>3, CommitIsLifecycleStep
  <2> QED
    BY <2>1, <2>2, <2>3, WhatChangesRows DEF OInv, Untouched
<1> QED
  BY <1>1, <1>2, OverlapHolds, PTL DEF Spec, ImplementsOverlap, Lifecycle!OverlapSpec

----------------------------------------------------------------------------
(* The one way back from disabled is a first activation, and that numbers  *)
(* its version 1: the index refuses it when the skill has a version.       *)

LEMMA CommitKeepsDisabled ==
    ASSUME OInv, NEW r \in Requests, CommitTx(r), NEW s \in Requests,
           skills[s] # NULL, skills[s].status = "disabled", HistoryOf(s) # {}
    PROVE  skills'[s].status = "disabled"
<1> DEFINE x == tx[r].skill_id
           w == tx[r].writes
<1>1. /\ skills'[x] = Merge(skills[x], w)
      /\ \A q \in Requests \ {x} : skills'[q] = skills[q]
  BY CommitRows DEF OInv
<1>2. CASE s # x
  BY <1>1, <1>2
<1>3. CASE s = x
  <2>1. w.status = NULL \/ w.status = "disabled"
    BY <1>3, CommitKinds DEF Edits, Only
  <2>2. skills[s] \in Skill
    BY DEF OInv, EInv, IInv, TypeOK
  <2>3. Merge(skills[s], w).status = IF w.status = NULL THEN skills[s].status ELSE w.status
    BY <2>2 DEF Merge, Skill
  <2> QED
    BY <1>1, <1>3, <2>1, <2>3
<1> QED
  BY <1>2, <1>3

LEMMA StaysDisabled ==
    OInv /\ [Next]_vars =>
      [\A s \in Requests :
         skills[s] # NULL /\ skills[s].status = "disabled" /\ HistoryOf(s) # {}
            => skills'[s].status = "disabled"]_vars
<1> SUFFICES ASSUME OInv, [Next]_vars, NEW s \in Requests,
                    skills[s] # NULL, skills[s].status = "disabled", HistoryOf(s) # {}
             PROVE  skills'[s].status = "disabled"
  OBVIOUS
<1>1. CASE skills' = skills
  BY <1>1
<1>2. ASSUME NEW r \in Requests, NEW a \in Memberships, NEW d \in Definitions,
             CreateSkillDraft(r, a, d)
      PROVE  skills'[s].status = "disabled"
  BY <1>2, CreateSkillDraftRows DEF OInv
<1>3. ASSUME NEW r \in Requests, CommitTx(r) PROVE skills'[s].status = "disabled"
  BY <1>3, CommitKeepsDisabled
<1> QED
  BY <1>1, <1>2, <1>3, WhatChangesRows DEF OInv, Untouched

(* However requests overlap, fail and are lost, a disabled skill that ever *)
(* had a version stays disabled: the activation that could bring it back,  *)
(* its guard checked before the disable, cannot insert its version.        *)
THEOREM UsedSkillsStayDisabled == Spec => OnceActiveStaysDisabled
BY StaysDisabled, OverlapHolds, PTL DEF Spec, OnceActiveStaysDisabled
=============================================================================
