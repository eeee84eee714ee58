---------------------------- MODULE Access_proofs ----------------------------
(***************************************************************************)
(* Proofs about Access, for any requests, identities, keys, ttls and clock.*)
(***************************************************************************)
EXTENDS Access, TLAPS

Steps == {"idle", "organization", "membership", "handler", "done",
          "forbidden", "invalid", "disabled", "error", "lost"}

(* What a request at step p, acting for x, let do a, knows of the roles h  *)
(* its identity had since it arrived.                                      *)
Knows(p, x, h, a, members) ==
    /\ p = "idle" => x = NULL /\ a = NULL
    /\ p \in {"organization", "membership", "handler"} => x # NULL
    /\ x # NULL => RolesOf(members, x.identity) \subseteq h
    /\ p = "handler" => x.role \in h
    /\ a # NULL => h # {}
    /\ a = "owner" => "owner" \in h

(* A token ends a whole number of seconds after the second it was made in. *)
Fresh(t, instant) ==
    t # NULL => /\ t.exp = Seconds(t.minted) + t.expires_in
                /\ t.expires_in \in 1 .. MaxTtl
                /\ t.minted <= instant

Backed == \A r \in Requests : Knows(pc[r], tx[r], held[r], act[r], memberships)
Minted == \A r \in Requests : Fresh(token[r], now)

AInv == TypeOK /\ Backed /\ Minted

(* What int() cuts off is less than a second.                              *)
LEMMA Division ==
    \A x \in Nat : \A d \in Nat \ {0} :
        x \div d \in Nat /\ d * (x \div d) <= x /\ x < d * (x \div d) + d
OBVIOUS

(* The order of two numbers of seconds is that of their ticks.             *)
LEMMA Scale ==
    ASSUME NEW d \in Nat \ {0}, NEW a \in Nat, NEW b \in Nat, a <= b
    PROVE  d * a \in Nat /\ d * b \in Nat /\ d * a <= d * b
OBVIOUS

(* A token made at m that ends e seconds after the second of m works until *)
(* it is e seconds old and not when it is e + 1.                           *)
LEMMA Age ==
    ASSUME NEW m \in Nat, NEW n \in Nat, NEW e \in Nat, m <= n
    PROVE  /\ Seconds(n) <= Seconds(m) + e => n - m < (e + 1) * Resolution
           /\ ~(Seconds(n) <= Seconds(m) + e) => n - m > e * Resolution
<1> DEFINE d == Resolution
           sm == Seconds(m)
           sn == Seconds(n)
<1>1. d \in Nat \ {0}
  BY ClockAssumption
<1>2. /\ sm \in Nat /\ d * sm <= m /\ m < d * sm + d
      /\ sn \in Nat /\ d * sn <= n /\ n < d * sn + d
  BY <1>1, Division DEF Seconds
<1> HIDE DEF sm, sn, d
<1>3. /\ d * (sm + e) = d * sm + d * e
      /\ d * (sm + e + 1) = d * sm + d * e + d
      /\ (e + 1) * d = d * e + d /\ e * d = d * e
      /\ d * sm \in Nat /\ d * sn \in Nat /\ d * e \in Nat
  BY <1>1, <1>2
<1>4. CASE sn <= sm + e
  <2>1. sm + e \in Nat
    BY <1>2
  <2>2. d * sn <= d * (sm + e)
    BY <1>1, <1>2, <1>4, <2>1, Scale
  <2>3. n - m < (e + 1) * d
    BY <1>1, <1>2, <1>3, <2>2
  <2> QED
    BY <1>4, <2>3 DEF sm, sn, d
<1>5. CASE ~(sn <= sm + e)
  <2>1. sm + e + 1 \in Nat /\ sm + e + 1 <= sn
    BY <1>2, <1>5
  <2>2. d * (sm + e + 1) <= d * sn
    BY <1>1, <1>2, <2>1, Scale
  <2>3. n - m > e * d
    BY <1>1, <1>2, <1>3, <2>2
  <2> QED
    BY <1>5, <2>3 DEF sm, sn, d
<1> QED
  BY <1>4, <1>5

(* Before anything happened.                                               *)
LEMMA Initially == Init => AInv
<1> SUFFICES ASSUME Init PROVE AInv
  OBVIOUS
<1>1. TypeOK
  BY ClockAssumption DEF Init, TypeOK
<1>2. Backed
  BY NullAssumption DEF Init, Backed, Knows, Roles
<1>3. Minted
  BY DEF Init, Minted, Fresh
<1> QED
  BY <1>1, <1>2, <1>3 DEF AInv

(* A step of one request keeps the invariant if what it leaves the request *)
(* with agrees with what the request knows.                                *)
LEMMA Move ==
    ASSUME AInv, NEW r \in Requests, NEW p \in Steps, NEW x \in Sessions \union {NULL},
           NEW b \in Requests \union {NULL}, NEW h \in SUBSET Roles,
           NEW a \in {"owner", "member", "token", NULL}, NEW t \in Tokens \union {NULL},
           pc' = [pc EXCEPT ![r] = p], tx' = [tx EXCEPT ![r] = x],
           bearer' = [bearer EXCEPT ![r] = b], held' = [held EXCEPT ![r] = h],
           act' = [act EXCEPT ![r] = a], token' = [token EXCEPT ![r] = t],
           UNCHANGED <<now, key, environment>>,
           Knows(p, x, h, a, memberships), Fresh(t, now)
    PROVE  AInv'
<1>1. TypeOK
  BY DEF AInv
<1>2. /\ now' = now /\ key' = key /\ organizations' = organizations
      /\ memberships' = memberships
  BY DEF environment
<1>3. TypeOK'
  BY <1>1, <1>2 DEF TypeOK, Steps
<1>4. ASSUME NEW q \in Requests
      PROVE  Knows(pc'[q], tx'[q], held'[q], act'[q], memberships')
  BY <1>1, <1>2 DEF TypeOK, AInv, Backed
<1>5. ASSUME NEW q \in Requests PROVE Fresh(token'[q], now')
  BY <1>1, <1>2 DEF TypeOK, AInv, Minted
<1> QED
  BY <1>3, <1>4, <1>5 DEF AInv, Backed, Minted
(* A request that ends, whatever the answer, keeps what it knows.          *)
LEMMA Ends ==
    ASSUME AInv, NEW r \in Requests, NEW p \in {"done", "forbidden", "invalid", "disabled"},
           NEW a \in {"owner", "member", "token", NULL}, NEW t \in Tokens \union {NULL},
           Close(r, p),
           act' = [act EXCEPT ![r] = a], token' = [token EXCEPT ![r] = t],
           UNCHANGED <<now, key, environment, bearer, held>>,
           a = act[r] \/ /\ held[r] # {}
                         /\ a = "owner" => "owner" \in held[r],
           Fresh(t, now)
    PROVE  AInv'
<1> DEFINE h == held[r]
           b == bearer[r]
<1>1. TypeOK /\ Knows(pc[r], tx[r], h, act[r], memberships)
  BY DEF AInv, Backed
<1>2. /\ pc' = [pc EXCEPT ![r] = p] /\ tx' = [tx EXCEPT ![r] = NULL]
      /\ bearer' = [bearer EXCEPT ![r] = b] /\ held' = [held EXCEPT ![r] = h]
  BY <1>1 DEF Close, TypeOK
<1>3. h \in SUBSET Roles /\ b \in Requests \union {NULL} /\ p \in Steps
  BY <1>1 DEF TypeOK, Steps
<1>4. Knows(p, NULL, h, a, memberships)
  BY <1>1 DEF Knows
<1>5. UNCHANGED <<now, key, environment>> /\ NULL \in Sessions \union {NULL}
  OBVIOUS
<1> HIDE DEF h, b
<1> QED
  BY ONLY AInv, <1>2, <1>3, <1>4, <1>5, Fresh(t, now), Move,
          act' = [act EXCEPT ![r] = a], token' = [token EXCEPT ![r] = t]

(* The 403.                                                                *)
LEMMA ForbidKeeps ==
    ASSUME AInv, NEW r \in Requests, Forbid(r), UNCHANGED <<now, key, environment>>
    PROVE  AInv'
<1>1. /\ act' = [act EXCEPT ![r] = act[r]] /\ token' = [token EXCEPT ![r] = token[r]]
      /\ act[r] \in {"owner", "member", "token", NULL} /\ token[r] \in Tokens \union {NULL}
      /\ Fresh(token[r], now)
  BY DEF Forbid, AInv, TypeOK, Minted
<1>2. Close(r, "forbidden") /\ UNCHANGED <<bearer, held>>
  BY DEF Forbid
<1> QED
  BY <1>1, <1>2, Ends

(* Identity: a request starts with the role its row gives now.             *)
LEMMA IdentifiedKeeps ==
    ASSUME AInv, NEW r \in Requests, NEW i \in Identities, NEW b \in Requests \union {NULL},
           Arrive(r), Identified(r, i), bearer' = [bearer EXCEPT ![r] = b]
    PROVE  AInv'
<1> DEFINE x == [identity |-> i, role |-> NULL]
           h == RolesOf(memberships, i)
<1>1. TypeOK /\ Knows(pc[r], tx[r], held[r], act[r], memberships) /\ Fresh(token[r], now)
  BY DEF AInv, Backed, Minted
<1>2. pc[r] = "idle" /\ UNCHANGED <<now, key, environment, act, token>>
  BY DEF Arrive
<1>3. act[r] = NULL
  BY <1>1, <1>2 DEF Knows
<1>4. h \in SUBSET Roles
  BY <1>1 DEF TypeOK, RolesOf
<1>5. x \in Sessions \union {NULL} /\ x # NULL /\ x.identity = i
  BY NullAssumption DEF Sessions
<1>6. Knows("organization", x, h, NULL, memberships)
  BY <1>5, NullAssumption DEF Knows, Roles
<1>7. /\ pc' = [pc EXCEPT ![r] = "organization"] /\ tx' = [tx EXCEPT ![r] = x]
      /\ held' = [held EXCEPT ![r] = h]
      /\ act' = [act EXCEPT ![r] = NULL] /\ token' = [token EXCEPT ![r] = token[r]]
      /\ token[r] \in Tokens \union {NULL}
  BY <1>1, <1>2, <1>3 DEF Identified, TypeOK
<1>8. "organization" \in Steps /\ NULL \in {"owner", "member", "token", NULL}
  BY DEF Steps
<1> HIDE DEF x, h
<1> QED
  BY <1>1, <1>2, <1>4, <1>5, <1>6, <1>7, <1>8, Move

(* A token of no matter which identity it claims is an identity.           *)
LEMMA ArrivalKeeps ==
    ASSUME AInv, NEW r \in Requests,
           \/ \E i \in Identities \union {NULL} : HeaderIdentity(r, i)
           \/ \E t \in Requests : BearerIdentity(r, t)
           \/ NonAsciiBearer(r)
    PROVE  AInv'
<1>1. /\ TypeOK /\ Fresh(token[r], now)
      /\ act[r] \in {"owner", "member", "token", NULL} /\ token[r] \in Tokens \union {NULL}
      /\ bearer = [bearer EXCEPT ![r] = bearer[r]] /\ bearer[r] \in Requests \union {NULL}
      /\ held = [held EXCEPT ![r] = held[r]] /\ held[r] \in SUBSET Roles
      /\ act = [act EXCEPT ![r] = act[r]] /\ token = [token EXCEPT ![r] = token[r]]
      /\ Knows(pc[r], tx[r], held[r], act[r], memberships)
  BY DEF AInv, TypeOK, Minted, Backed
<1>2. ASSUME Arrive(r), NEW b \in Requests \union {NULL}, bearer' = [bearer EXCEPT ![r] = b],
             NEW p \in {"forbidden", "error"}, Close(r, p), UNCHANGED held
      PROVE  AInv'
  <2>1. Knows(p, NULL, held[r], act[r], memberships)
    BY <1>1 DEF Knows
  <2>2. p \in Steps
    BY DEF Steps
  <2>3. /\ pc' = [pc EXCEPT ![r] = p] /\ tx' = [tx EXCEPT ![r] = NULL]
        /\ UNCHANGED <<now, key, environment>>
    BY <1>2 DEF Arrive, Close
  <2> DEFINE h == held[r]
             a == act[r]
             t == token[r]
  <2>4. /\ bearer' = [bearer EXCEPT ![r] = b] /\ held' = [held EXCEPT ![r] = h]
        /\ act' = [act EXCEPT ![r] = a] /\ token' = [token EXCEPT ![r] = t]
        /\ h \in SUBSET Roles /\ a \in {"owner", "member", "token", NULL}
        /\ t \in Tokens \union {NULL} /\ Fresh(t, now) /\ NULL \in Sessions \union {NULL}
        /\ Knows(p, NULL, h, a, memberships)
    BY <1>1, <1>2, <2>1 DEF Arrive
  <2> HIDE DEF h, a, t
  <2> QED
    BY ONLY AInv, b \in Requests \union {NULL}, <2>2, <2>3, <2>4, Move
<1>3. ASSUME NEW i \in Identities \union {NULL}, HeaderIdentity(r, i) PROVE AInv'
  <2>1. Arrive(r) /\ bearer' = [bearer EXCEPT ![r] = bearer[r]]
    BY <1>1, <1>3 DEF HeaderIdentity
  <2>2. CASE i = NULL
    BY <1>1, <1>2, <1>3, <2>1, <2>2 DEF HeaderIdentity
  <2>3. CASE i # NULL
    BY <1>1, <1>3, <2>1, <2>3, IdentifiedKeeps DEF HeaderIdentity
  <2> QED
    BY <2>2, <2>3
<1>4. ASSUME NEW t \in Requests, BearerIdentity(r, t) PROVE AInv'
  <2>1. Arrive(r) /\ bearer' = [bearer EXCEPT ![r] = t]
    BY <1>4 DEF BearerIdentity
  <2>2. CASE verify_token(t)
    <3>1. token[t].claims \in Identities
      BY <1>1, <2>2 DEF verify_token, TypeOK, Tokens
    <3> QED
      BY <1>4, <2>1, <2>2, <3>1, IdentifiedKeeps DEF BearerIdentity
  <2>3. CASE ~verify_token(t)
    BY <1>2, <1>4, <2>1, <2>3 DEF BearerIdentity
  <2> QED
    BY <2>2, <2>3
<1>5. CASE NonAsciiBearer(r)
  BY <1>1, <1>2, <1>5 DEF NonAsciiBearer
<1> QED
  BY <1>3, <1>4, <1>5
(* db.get(Organization).                                                   *)
LEMMA SelectOrganizationKeeps ==
    ASSUME AInv, NEW r \in Requests, SelectOrganization(r)
    PROVE  AInv'
<1>1. UNCHANGED <<now, key, environment>>
  BY DEF SelectOrganization
<1>2. CASE Forbid(r)
  BY <1>1, <1>2, ForbidKeeps
<1>3. CASE ~Forbid(r)
  <2>1. TypeOK /\ Knows(pc[r], tx[r], held[r], act[r], memberships) /\ Fresh(token[r], now)
    BY DEF AInv, Backed, Minted
  <2>2. /\ pc[r] = "organization" /\ pc' = [pc EXCEPT ![r] = "membership"]
        /\ UNCHANGED <<tx, bearer, held, act, token>>
    BY <1>3 DEF SelectOrganization
  <2>3. Knows("membership", tx[r], held[r], act[r], memberships)
    BY <2>1, <2>2 DEF Knows
  <2> DEFINE x == tx[r]
             h == held[r]
             b == bearer[r]
             a == act[r]
             t == token[r]
  <2>4. /\ tx' = [tx EXCEPT ![r] = x] /\ bearer' = [bearer EXCEPT ![r] = b]
        /\ held' = [held EXCEPT ![r] = h] /\ act' = [act EXCEPT ![r] = a]
        /\ token' = [token EXCEPT ![r] = t]
        /\ x \in Sessions \union {NULL} /\ b \in Requests \union {NULL}
        /\ h \in SUBSET Roles /\ a \in {"owner", "member", "token", NULL}
        /\ t \in Tokens \union {NULL} /\ Fresh(t, now)
        /\ Knows("membership", x, h, a, memberships)
    BY <2>1, <2>2, <2>3 DEF TypeOK
  <2>5. "membership" \in Steps /\ pc' = [pc EXCEPT ![r] = "membership"]
    BY <2>2 DEF Steps
  <2> HIDE DEF x, h, b, a, t
  <2> QED
    BY ONLY AInv, <1>1, <2>4, <2>5, Move
<1> QED
  BY <1>2, <1>3

(* db.get(Membership): the role kept is one the row has now.               *)
LEMMA SelectMembershipKeeps ==
    ASSUME AInv, NEW r \in Requests, SelectMembership(r)
    PROVE  AInv'
<1>1. UNCHANGED <<now, key, environment>>
  BY DEF SelectMembership
<1>2. CASE Forbid(r)
  BY <1>1, <1>2, ForbidKeeps
<1>3. CASE ~Forbid(r)
  <2> DEFINE x == [tx[r] EXCEPT !.role = memberships[tx[r].identity]]
             h == held[r]
             b == bearer[r]
             a == act[r]
             t == token[r]
  <2>1. TypeOK /\ Knows(pc[r], tx[r], h, a, memberships) /\ Fresh(t, now)
    BY DEF AInv, Backed, Minted
  <2>2. /\ pc[r] = "membership" /\ pc' = [pc EXCEPT ![r] = "handler"]
        /\ memberships[tx[r].identity] # NULL
        /\ tx' = [tx EXCEPT ![r].role = memberships[tx[r].identity]]
        /\ UNCHANGED <<bearer, held, act, token>>
    BY <1>3 DEF SelectMembership
  <2>3. tx[r] \in Sessions
    BY <2>1, <2>2 DEF Knows, TypeOK
  <2>4. tx[r].identity \in Identities /\ memberships[tx[r].identity] \in Roles
    BY <2>1, <2>2, <2>3 DEF Sessions, TypeOK
  <2>5. /\ x \in Sessions /\ x # NULL
        /\ x.identity = tx[r].identity /\ x.role = memberships[tx[r].identity]
    BY <2>3, <2>4, NullAssumption DEF Sessions
  <2>6. x.role \in RolesOf(memberships, x.identity)
    BY <2>2, <2>5 DEF RolesOf
  <2>7. RolesOf(memberships, x.identity) \subseteq h
    BY <2>1, <2>3, <2>5, NullAssumption DEF Knows
  <2>8. Knows("handler", x, h, a, memberships)
    BY <2>1, <2>2, <2>5, <2>6, <2>7 DEF Knows
  <2>9. /\ tx' = [tx EXCEPT ![r] = x] /\ bearer' = [bearer EXCEPT ![r] = b]
        /\ held' = [held EXCEPT ![r] = h] /\ act' = [act EXCEPT ![r] = a]
        /\ token' = [token EXCEPT ![r] = t]
        /\ b \in Requests \union {NULL}
        /\ h \in SUBSET Roles /\ a \in {"owner", "member", "token", NULL}
        /\ t \in Tokens \union {NULL}
    BY <2>1, <2>2 DEF TypeOK
  <2>10. /\ "handler" \in Steps /\ pc' = [pc EXCEPT ![r] = "handler"]
         /\ x \in Sessions \union {NULL} /\ Fresh(t, now)
    BY <2>1, <2>2, <2>5 DEF Steps
  <2> HIDE DEF x, h, b, a, t
  <2> QED
    BY ONLY AInv, <1>1, <2>8, <2>9, <2>10, Move
<1> QED
  BY <1>2, <1>3

(* A handler runs with a role its row gave.                                *)
LEMMA HandleKeeps ==
    ASSUME AInv, NEW r \in Requests, NEW what \in {"owner", "member"}, Handle(r, what)
    PROVE  AInv'
<1>1. UNCHANGED <<now, key, environment>>
  BY DEF Handle
<1>2. CASE Forbid(r)
  BY <1>1, <1>2, ForbidKeeps
<1>3. CASE ~Forbid(r)
  <2>1. /\ pc[r] = "handler"
        /\ what = "owner" => tx[r].role = "owner"
        /\ Close(r, "done") /\ act' = [act EXCEPT ![r] = what]
        /\ UNCHANGED <<bearer, held, token>>
    BY <1>3 DEF Handle, require_owner
  <2>2. tx[r].role \in held[r]
    BY <2>1 DEF AInv, Backed, Knows
  <2>3. /\ token' = [token EXCEPT ![r] = token[r]] /\ token[r] \in Tokens \union {NULL}
        /\ Fresh(token[r], now)
    BY <2>1 DEF AInv, TypeOK, Minted
  <2>4. /\ what \in {"owner", "member", "token", NULL}
        /\ UNCHANGED <<now, key, environment, bearer, held>>
        /\ held[r] # {}
        /\ what = "owner" => "owner" \in held[r]
    BY <1>1, <2>1, <2>2
  <2> QED
    BY <2>1, <2>3, <2>4, Ends
<1> QED
  BY <1>2, <1>3
(* A ttl that is granted is a number of seconds, and not 0.                *)
LEMMA Granted ==
    ASSUME NEW ttl \in Ttls \union {NULL}, EffectiveTtl(ttl) <= MaxTtl
    PROVE  EffectiveTtl(ttl) \in 1 .. MaxTtl
<1>1. MaxTtl \in Nat /\ DefaultTtl \in 1 .. MaxTtl
  BY TtlAssumption
<1>2. CASE ttl \in {NULL, 0}
  BY <1>1, <1>2 DEF EffectiveTtl
<1>3. CASE ttl \notin {NULL, 0}
  <2>1. ttl \in Nat /\ ttl # 0 /\ EffectiveTtl(ttl) = ttl
    BY <1>3, TtlAssumption DEF EffectiveTtl
  <2> QED
    BY <1>1, <2>1
<1> QED
  BY <1>2, <1>3

(* POST /auth/token.                                                       *)
LEMMA IssueKeeps ==
    ASSUME AInv, NEW r \in Requests, NEW ttl_seconds \in Ttls \union {NULL},
           IssueAccessToken(r, ttl_seconds)
    PROVE  AInv'
<1> DEFINE ttl == EffectiveTtl(ttl_seconds)
           t == issue_token(tx[r].identity, ttl)
<1>1. /\ TypeOK /\ Knows(pc[r], tx[r], held[r], act[r], memberships)
      /\ Fresh(token[r], now) /\ pc[r] = "handler"
      /\ UNCHANGED <<now, key, environment, bearer, held>>
  BY DEF AInv, Backed, Minted, IssueAccessToken
<1>2. ASSUME NEW p \in {"invalid", "disabled"}, Close(r, p), UNCHANGED <<act, token>>
      PROVE  AInv'
  <2>1. /\ act' = [act EXCEPT ![r] = act[r]] /\ token' = [token EXCEPT ![r] = token[r]]
        /\ act[r] \in {"owner", "member", "token", NULL} /\ token[r] \in Tokens \union {NULL}
        /\ p \in {"done", "forbidden", "invalid", "disabled"}
    BY <1>1, <1>2 DEF TypeOK
  <2> QED
    BY <1>1, <1>2, <2>1, Ends
<1>3. ASSUME ttl <= MaxTtl, key # NULL, Close(r, "done"),
             act' = [act EXCEPT ![r] = "token"], token' = [token EXCEPT ![r] = t]
      PROVE  AInv'
  <2>1. ttl \in 1 .. MaxTtl /\ MaxTtl \in Nat
    BY <1>3, Granted, TtlAssumption
  <2>2. tx[r] \in Sessions /\ now \in 0 .. Horizon /\ key \in Keys /\ held[r] # {}
    BY <1>1, <1>3 DEF Knows, TypeOK
  <2>3. tx[r].identity \in Identities
    BY <2>2 DEF Sessions
  <2>4. Seconds(now) \in Nat /\ now \in Nat
    BY <2>2, ClockAssumption, Division DEF Seconds
  <2> HIDE DEF ttl
  <2>5. t = [claims |-> tx[r].identity, exp |-> Seconds(now) + ttl, key |-> key,
             minted |-> now, expires_in |-> ttl]
    BY DEF issue_token
  <2>6. Seconds(now) + ttl \in Nat /\ ttl \in Nat
    BY <2>1, <2>4
  <2> HIDE DEF t
  <2>7. t \in Tokens
    BY <2>2, <2>3, <2>5, <2>6 DEF Tokens
  <2>8. Fresh(t, now)
    BY <2>1, <2>4, <2>5 DEF Fresh
  <2>9. "done" \in {"done", "forbidden", "invalid", "disabled"}
        /\ "token" \in {"owner", "member", "token", NULL} /\ t \in Tokens \union {NULL}
        /\ "token" # "owner"
    BY <2>7
  <2> QED
    BY <1>1, <1>3, <2>2, <2>8, <2>9, Ends
<1> QED
  BY <1>1, <1>2, <1>3 DEF IssueAccessToken

(* Time only makes tokens older.                                           *)
LEMMA TickKeeps == AInv /\ Tick => AInv'
<1> SUFFICES ASSUME AInv, Tick PROVE AInv'
  OBVIOUS
<1>1. TypeOK /\ UNCHANGED <<key, environment, pc, tx, bearer, held, act, token>>
      /\ now' \in 0 .. Horizon /\ now <= now'
  BY ClockAssumption DEF AInv, Tick, TypeOK
<1>2. TypeOK'
  BY <1>1 DEF TypeOK, environment
<1>3. Backed'
  BY <1>1 DEF AInv, Backed, environment
<1>4. ASSUME NEW r \in Requests PROVE Fresh(token'[r], now')
  <2>1. token'[r] = token[r] /\ Fresh(token[r], now) /\ token[r] \in Tokens \union {NULL}
    BY <1>1 DEF AInv, Minted, TypeOK
  <2>2. now \in Nat /\ now' \in Nat /\ (token[r] # NULL => token[r].minted \in Nat)
    BY <1>1, <2>1, ClockAssumption DEF TypeOK, Tokens
  <2> QED
    BY <1>1, <2>1, <2>2 DEF Fresh
<1> QED
  BY <1>2, <1>3, <1>4 DEF AInv, Minted

(* A request whose row changes may have read either role.                  *)
LEMMA ChangeKeeps ==
    ASSUME AInv, NEW i \in Identities, NEW role \in Roles \union {NULL},
           ChangeMembership(i, role)
    PROVE  AInv'
<1>1. TypeOK /\ UNCHANGED <<now, key, organizations, pc, tx, bearer, act, token>>
      /\ memberships' \in [Identities -> Roles \union {NULL}]
  BY DEF AInv, ChangeMembership, TypeOK
<1>2. held' = [r \in Requests |->
          IF tx[r] = NULL THEN held[r]
          ELSE held[r] \union RolesOf(memberships', tx[r].identity)]
  BY DEF ChangeMembership, Held
<1>3. ASSUME NEW r \in Requests, tx[r] # NULL
      PROVE  RolesOf(memberships', tx[r].identity) \subseteq Roles
  <2>1. tx[r].identity \in Identities
    BY <1>1, <1>3 DEF TypeOK, Sessions
  <2> QED
    BY <1>1, <2>1 DEF RolesOf
<1>4. held' \in [Requests -> SUBSET Roles]
  BY <1>1, <1>2, <1>3 DEF TypeOK
<1>5. TypeOK'
  BY <1>1, <1>4 DEF TypeOK
<1>6. ASSUME NEW r \in Requests
      PROVE  Knows(pc'[r], tx'[r], held'[r], act'[r], memberships')
  <2>1. Knows(pc[r], tx[r], held[r], act[r], memberships)
    BY DEF AInv, Backed
  <2>2. held[r] \subseteq held'[r]
        /\ (tx[r] # NULL => RolesOf(memberships', tx[r].identity) \subseteq held'[r])
    BY <1>2
  <2> QED
    BY <1>1, <2>1, <2>2 DEF Knows
<1>7. Minted'
  BY <1>1 DEF AInv, Minted
<1> QED
  BY <1>5, <1>6, <1>7 DEF AInv, Backed

(* The cascade only takes rows away.                                       *)
LEMMA DeleteKeeps ==
    ASSUME AInv, NEW o \in Organizations, DeleteOrganization(o)
    PROVE  AInv'
<1>1. TypeOK /\ UNCHANGED <<now, key, pc, tx, bearer, held, act, token>>
      /\ organizations' \subseteq organizations
      /\ memberships' = [i \in Identities |->
             IF i.organization_id = o THEN NULL ELSE memberships[i]]
  BY DEF AInv, DeleteOrganization
<1>2. TypeOK'
  BY <1>1 DEF TypeOK
<1>3. ASSUME NEW r \in Requests
      PROVE  Knows(pc'[r], tx'[r], held'[r], act'[r], memberships')
  <2>1. Knows(pc[r], tx[r], held[r], act[r], memberships)
    BY DEF AInv, Backed
  <2>2. CASE tx[r] = NULL
    BY <1>1, <2>1, <2>2 DEF Knows
  <2>3. CASE tx[r] # NULL
    <3>1. tx[r].identity \in Identities
      BY <1>1, <2>3 DEF TypeOK, Sessions
    <3>2. RolesOf(memberships', tx[r].identity) \subseteq RolesOf(memberships, tx[r].identity)
      BY <1>1, <3>1 DEF RolesOf
    <3> QED
      BY <1>1, <2>1, <3>2 DEF Knows
  <2> QED
    BY <2>2, <2>3
<1>4. Minted'
  BY <1>1 DEF AInv, Minted
<1> QED
  BY <1>2, <1>3, <1>4 DEF AInv, Backed

(* What was at work is lost.                                               *)
LEMMA RestartKeeps ==
    ASSUME AInv, NEW k \in Keys \union {NULL}, Restart(k)
    PROVE  AInv'
<1>1. TypeOK /\ UNCHANGED <<now, environment, bearer, held, act, token>> /\ key' = k
      /\ pc' = [r \in Requests |-> IF tx[r] = NULL THEN pc[r] ELSE "lost"]
      /\ tx' = [r \in Requests |-> NULL]
  BY DEF AInv, Restart
<1>2. TypeOK'
  BY <1>1 DEF TypeOK, environment
<1>3. ASSUME NEW r \in Requests
      PROVE  Knows(pc'[r], tx'[r], held'[r], act'[r], memberships')
  <2>1. Knows(pc[r], tx[r], held[r], act[r], memberships)
    BY DEF AInv, Backed
  <2>2. tx'[r] = NULL /\ (pc'[r] = "lost" \/ (tx[r] = NULL /\ pc'[r] = pc[r]))
    BY <1>1
  <2> QED
    BY <1>1, <2>1, <2>2 DEF Knows
<1>4. Minted'
  BY <1>1 DEF AInv, Minted
<1> QED
  BY <1>2, <1>3, <1>4 DEF AInv, Backed
(* Every step keeps the invariant.                                         *)
LEMMA Preserved == AInv /\ [Next]_vars => AInv'
<1> SUFFICES ASSUME AInv, [Next]_vars PROVE AInv'
  OBVIOUS
<1>1. ASSUME NEW r \in Requests, Request(r) PROVE AInv'
  BY <1>1, ArrivalKeeps, SelectOrganizationKeeps, SelectMembershipKeeps, HandleKeeps,
     IssueKeeps DEF Request
<1>2. CASE Environment
  BY <1>2, TickKeeps, ChangeKeeps, DeleteKeeps, RestartKeeps DEF Environment
<1>3. CASE UNCHANGED vars
  BY <1>3 DEF vars, environment, AInv, TypeOK, Backed, Minted
<1> QED
  BY <1>1, <1>2, <1>3 DEF Next

(* In every state.                                                         *)
LEMMA Invariant == Spec => []AInv
BY Initially, Preserved, PTL DEF Spec

(* The rows, the tokens and the requests keep their types.                 *)
THEOREM AccessTypes == Spec => []TypeOK
<1>1. AInv => TypeOK
  BY DEF AInv
<1> QED
  BY <1>1, Invariant, PTL

(* get_tenant_context, require_owner: however memberships change, what a   *)
(* request was let do its row allowed while it ran.                        *)
THEOREM ActsWereBacked == Spec => []ActsAreBacked
<1>1. AInv => ActsAreBacked
  BY DEF AInv, Backed, Knows, ActsAreBacked
<1> QED
  BY <1>1, Invariant, PTL

(* verify_token on the token of one request, presented by another.         *)
LEMMA PresentedStep ==
    ASSUME AInv, [Next]_vars, NEW r \in Requests, bearer'[r] # bearer[r]
    PROVE  LET t   == token[bearer'[r]]
               age == now - t.minted
           IN  IF pc'[r] = "forbidden"
               THEN \/ t = NULL \/ t.key # key
                    \/ age > t.expires_in * Resolution
               ELSE /\ t # NULL
                    /\ t.expires_in \in 1 .. MaxTtl
                    /\ age < (t.expires_in + 1) * Resolution
<1>1. bearer \in [Requests -> Requests \union {NULL}] /\ pc \in [Requests -> Steps]
  BY DEF AInv, TypeOK, Steps
<1>2. ASSUME NEW q \in Requests, Request(q),
             ~\E u \in Requests : BearerIdentity(q, u)
      PROVE  UNCHANGED bearer
  BY <1>2 DEF Request, HeaderIdentity, NonAsciiBearer, SelectOrganization, SelectMembership, Handle,
              IssueAccessToken, Forbid
<1>3. Environment \/ UNCHANGED vars => UNCHANGED bearer
  BY DEF Environment, Tick, ChangeMembership, DeleteOrganization, Restart, vars
<1>4. PICK q \in Requests, u \in Requests : BearerIdentity(q, u)
  BY <1>2, <1>3 DEF Next
<1>5. q = r /\ bearer'[r] = u
  BY <1>1, <1>4 DEF BearerIdentity
<1> DEFINE t == token[u]
<1>6. /\ TypeOK /\ Fresh(t, now) /\ t \in Tokens \union {NULL} /\ now \in Nat
      /\ Resolution \in Nat \ {0} /\ MaxTtl \in Nat
  BY ClockAssumption, TtlAssumption DEF AInv, TypeOK, Minted
<1>7. ASSUME t # NULL
      PROVE  /\ t.minted \in Nat /\ t.minted <= now /\ t.expires_in \in 1 .. MaxTtl
             /\ t.exp = Seconds(t.minted) + t.expires_in
             /\ t.key \in Keys
  BY <1>6, <1>7, ClockAssumption DEF Tokens, Fresh
<1>8. ASSUME t # NULL
      PROVE  /\ Seconds(now) <= t.exp => now - t.minted < (t.expires_in + 1) * Resolution
             /\ ~(Seconds(now) <= t.exp) => now - t.minted > t.expires_in * Resolution
  <2>1. t.expires_in \in Nat
    BY <1>6, <1>7, <1>8
  <2> QED
    BY <1>6, <1>7, <1>8, <2>1, Age
<1>9. CASE verify_token(u)
  <2>1. t # NULL /\ Seconds(now) <= t.exp
    BY <1>9 DEF verify_token
  <2>2. pc'[r] # "forbidden"
    BY <1>1, <1>4, <1>5, <1>9 DEF BearerIdentity, Identified, Close
  <2> QED
    BY <1>5, <1>7, <1>8, <2>1, <2>2
<1>10. CASE ~verify_token(u)
  <2>1. t = NULL \/ t.key # key \/ ~(Seconds(now) <= t.exp)
    BY <1>7, <1>10, NullAssumption DEF verify_token
  <2>2. pc'[r] = "forbidden"
    BY <1>1, <1>4, <1>5, <1>10 DEF BearerIdentity, Close
  <2> QED
    BY <1>5, <1>8, <2>1, <2>2
<1> QED
  BY <1>9, <1>10

(* issue_token, verify_token: for any ttl and any clock resolution, the    *)
(* two roundings never make a token die early or live a second too long.   *)
THEOREM TokensWorkAsTold == Spec => TokenWorksAsTold
<1>1. AInv /\ [Next]_vars =>
        [\A r \in Requests : bearer'[r] # bearer[r] =>
           LET t   == token[bearer'[r]]
               age == now - t.minted
           IN  IF pc'[r] = "forbidden"
               THEN \/ t = NULL \/ t.key # key
                    \/ age > t.expires_in * Resolution
               ELSE /\ t # NULL
                    /\ t.expires_in \in 1 .. MaxTtl
                    /\ age < (t.expires_in + 1) * Resolution]_vars
  BY PresentedStep
<1> QED
  BY <1>1, Invariant, PTL DEF Spec, TokenWorksAsTold
=============================================================================
