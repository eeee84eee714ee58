------------------------------- MODULE Access -------------------------------
(***************************************************************************)
(* Who a request acts for: the headers or bearer token it presents         *)
(* (app/dependencies.py), the membership row its role is read from, and the*)
(* tokens it can be given (app/tokens.py, app/routers/auth.py), while an   *)
(* administrator changes memberships and the server restarts with another  *)
(* signing key.  A step of a request is one that reads the clock, the key  *)
(* or a row.                                                               *)
(*                                                                         *)
(* Requests are numbered in the order they arrive and name the token they  *)
(* were given: a request is given at most one.                             *)
(***************************************************************************)
EXTENDS Naturals

CONSTANTS
    Requests,      \* bound: the requests that ever arrive
    Organizations, Users,
    Keys,          \* values of AUTH_SIGNING_KEY
    Ttls,          \* the ttl_seconds a client may ask for
    DefaultTtl, MaxTtl,
    Resolution,    \* ticks of the clock per second
    Horizon,       \* bound: the last instant of the clock
    NULL           \* no row, no key, no token, no header

ASSUME RequestsAssumption == Requests \subseteq Nat
ASSUME TtlAssumption ==
    /\ Ttls \subseteq Nat
    /\ DefaultTtl \in Nat /\ MaxTtl \in Nat /\ DefaultTtl \in 1 .. MaxTtl
ASSUME ClockAssumption == Resolution \in Nat \ {0} /\ Horizon \in Nat

Roles      == {"owner", "member"}
Identities == [organization_id : Organizations, user_id : Users]

\* The claims and the key that signed them; minted and expires_in are what
\* the server's clock showed and what the client was told.
Tokens == [claims : Identities, exp : Nat, key : Keys,
           minted : 0 .. Horizon, expires_in : Nat]

Sessions == [identity : Identities, role : Roles \union {NULL}]

ASSUME NullAssumption ==
    /\ NULL \notin Requests /\ NULL \notin Keys /\ NULL \notin Ttls
    /\ NULL \notin Roles /\ NULL \notin Identities
    /\ NULL \notin Tokens /\ NULL \notin Sessions

VARIABLES
    now,            \* the clock
    key,            \* settings.auth_signing_key
    organizations,  \* committed rows of organizations
    memberships,    \* committed rows of memberships: the role of each identity
    pc,             \* where each request is
    tx,             \* who it acts for, and the role read for it
    bearer,         \* the token it presented, if any
    held,           \* the roles its identity's row had since it arrived
    act,            \* what it was let do
    token           \* the token it was given

environment == <<organizations, memberships>>
vars == <<now, key, environment, pc, tx, bearer, held, act, token>>

Init ==
    /\ now = 0
    /\ key \in Keys \union {NULL}
    /\ organizations = Organizations
    /\ memberships \in [Identities -> Roles \union {NULL}]
    /\ pc     = [r \in Requests |-> "idle"]
    /\ tx     = [r \in Requests |-> NULL]
    /\ bearer = [r \in Requests |-> NULL]
    /\ held   = [r \in Requests |-> {}]
    /\ act    = [r \in Requests |-> NULL]
    /\ token  = [r \in Requests |-> NULL]

----------------------------------------------------------------------------
(* Helpers.                                                                *)

\* int(time.time())
Seconds(t) == t \div Resolution

\* The role an identity's row gives it, as a set.
RolesOf(members, i) == {members[i]} \ {NULL}

Arrive(r) ==
    /\ pc[r] = "idle"
    /\ \A q \in Requests : q < r => pc[q] # "idle"
    /\ UNCHANGED <<now, key, environment, act, token>>

Close(r, what) ==
    /\ pc' = [pc EXCEPT ![r] = what]
    /\ tx' = [tx EXCEPT ![r] = NULL]

\* The 403 of an identity that does not resolve.
Forbid(r) == Close(r, "forbidden") /\ UNCHANGED <<bearer, held, act, token>>

Identified(r, i) ==
    /\ pc'   = [pc EXCEPT ![r] = "organization"]
    /\ tx'   = [tx EXCEPT ![r] = [identity |-> i, role |-> NULL]]
    /\ held' = [held EXCEPT ![r] = RolesOf(memberships, i)]

\* Definitions named X_<bug> are X with a plausible bug: each breaks a property.
verify_token_strict(t) ==
    /\ key # NULL
    /\ token[t] # NULL /\ token[t].key = key
    /\ Seconds(now) < token[t].exp

\* verify_token: whatever does not carry the signature of a token this server
\* gave out, under the key it has now, is the token of no request, if it is ASCII.
verify_token(t) ==
    /\ key # NULL
    /\ token[t] # NULL /\ token[t].key = key
    /\ Seconds(now) <= token[t].exp

----------------------------------------------------------------------------
(* get_tenant_context: identity from the headers, or from a bearer token,  *)
(* which takes precedence and never falls back to them.                    *)
HeaderIdentity(r, i) ==
    /\ Arrive(r)
    /\ \/ i = NULL /\ Close(r, "forbidden") /\ UNCHANGED <<bearer, held>>
       \/ i # NULL /\ Identified(r, i) /\ UNCHANGED bearer

BearerIdentity(r, t) ==
    /\ Arrive(r)
    /\ bearer' = [bearer EXCEPT ![r] = t]
    /\ \/ verify_token(t) /\ Identified(r, token[t].claims)
       \/ ~verify_token(t) /\ Close(r, "forbidden") /\ UNCHANGED held

(* A token that is not ASCII: encode("ascii") raises what nobody catches,  *)
(* a 500, once there is a key to look at the token with.                   *)
NonAsciiBearer(r) ==
    /\ Arrive(r)
    /\ \/ key = NULL /\ Close(r, "forbidden")
       \/ key # NULL /\ Close(r, "error")
    /\ UNCHANGED <<bearer, held>>

(* db.get(Organization): an unknown one is a 403.                          *)
SelectOrganization(r) ==
    /\ pc[r] = "organization"
    /\ \/ /\ tx[r].identity.organization_id \in organizations
          /\ pc' = [pc EXCEPT ![r] = "membership"]
          /\ UNCHANGED <<tx, bearer, held, act, token>>
       \/ tx[r].identity.organization_id \notin organizations /\ Forbid(r)
    /\ UNCHANGED <<now, key, environment>>

SelectMembership_claimed(r) ==
    /\ pc[r] = "membership" /\ memberships[tx[r].identity] # NULL
    /\ pc' = [pc EXCEPT ![r] = "handler"]
    /\ tx' = [tx EXCEPT ![r].role = "owner"]
    /\ UNCHANGED <<now, key, environment, bearer, held, act, token>>

(* db.get(Membership): no row is a 403, and the row's role is the role the *)
(* request keeps.                                                          *)
SelectMembership(r) ==
    LET role == memberships[tx[r].identity] IN
    /\ pc[r] = "membership"
    /\ \/ /\ role # NULL
          /\ pc' = [pc EXCEPT ![r] = "handler"]
          /\ tx' = [tx EXCEPT ![r].role = role]
          /\ UNCHANGED <<bearer, held, act, token>>
       \/ role = NULL /\ Forbid(r)
    /\ UNCHANGED <<now, key, environment>>

----------------------------------------------------------------------------
(* The handlers.                                                           *)
require_owner(context) == context.role = "owner"

\* Any endpoint: the owners' behind require_owner, the others for any member.
Handle(r, what) ==
    /\ pc[r] = "handler"
    /\ \/ /\ what = "owner" => require_owner(tx[r])
          /\ Close(r, "done")
          /\ act' = [act EXCEPT ![r] = what]
          /\ UNCHANGED <<bearer, held, token>>
       \/ what = "owner" /\ ~require_owner(tx[r]) /\ Forbid(r)
    /\ UNCHANGED <<now, key, environment>>

EffectiveTtl_literal(ttl) == IF ttl = NULL THEN DefaultTtl ELSE ttl

\* A ttl of 0 is falsy, and taken for one that was not sent.
EffectiveTtl(ttl) == IF ttl \in {NULL, 0} THEN DefaultTtl ELSE ttl

\* issue_token: the expiry is a whole second of the clock as it is now.
issue_token(i, ttl) ==
    [claims |-> i, exp |-> Seconds(now) + ttl, key |-> key,
     minted |-> now, expires_in |-> ttl]

IssueAccessToken_keyless(r, ttl_seconds) ==
    LET ttl == EffectiveTtl(ttl_seconds) IN
    /\ pc[r] = "handler" /\ ttl <= MaxTtl
    /\ Close(r, "done")
    /\ act'   = [act EXCEPT ![r] = "token"]
    /\ token' = [token EXCEPT ![r] = issue_token(tx[r].identity, ttl)]
    /\ UNCHANGED <<now, key, environment, bearer, held>>

(* POST /auth/token.  (A negative ttl is refused as one over MaxTtl is.)   *)
IssueAccessToken(r, ttl_seconds) ==
    LET ttl == EffectiveTtl(ttl_seconds) IN
    /\ pc[r] = "handler"
    /\ \/ ttl > MaxTtl /\ Close(r, "invalid") /\ UNCHANGED <<act, token>>
       \/ ttl <= MaxTtl /\ key = NULL /\ Close(r, "disabled") /\ UNCHANGED <<act, token>>
       \/ /\ ttl <= MaxTtl /\ key # NULL
          /\ Close(r, "done")
          /\ act'   = [act EXCEPT ![r] = "token"]
          /\ token' = [token EXCEPT ![r] = issue_token(tx[r].identity, ttl)]
    /\ UNCHANGED <<now, key, environment, bearer, held>>

----------------------------------------------------------------------------
(* The environment.                                                        *)

Tick ==
    /\ now < Horizon
    /\ now' = now + 1
    /\ UNCHANGED <<key, environment, pc, tx, bearer, held, act, token>>

\* Every request at work sees the rows it could have read.
Held(members) ==
    held' = [r \in Requests |->
        IF tx[r] = NULL THEN held[r]
        ELSE held[r] \union RolesOf(members, tx[r].identity)]

(* No endpoint changes memberships: an administrator does, in SQL.         *)
ChangeMembership(i, role) ==
    /\ i.organization_id \in organizations
    /\ memberships' = [memberships EXCEPT ![i] = role]
    /\ Held(memberships')
    /\ UNCHANGED <<now, key, organizations, pc, tx, bearer, act, token>>

(* DELETE of an organization cascades to its memberships.                  *)
DeleteOrganization(o) ==
    /\ o \in organizations
    /\ organizations' = organizations \ {o}
    /\ memberships' = [i \in Identities |->
           IF i.organization_id = o THEN NULL ELSE memberships[i]]
    /\ UNCHANGED <<now, key, pc, tx, bearer, held, act, token>>

(* The process stops and starts again with the key its environment has: the*)
(* requests at work are lost, tokens are kept by their holders.            *)
Restart(k) ==
    /\ key' = k
    /\ pc' = [r \in Requests |-> IF tx[r] = NULL THEN pc[r] ELSE "lost"]
    /\ tx' = [r \in Requests |-> NULL]
    /\ UNCHANGED <<now, environment, bearer, held, act, token>>

Request(r) ==
    \/ \E i \in Identities \union {NULL} : HeaderIdentity(r, i)
    \/ \E t \in Requests : BearerIdentity(r, t)
    \/ NonAsciiBearer(r)
    \/ SelectOrganization(r)
    \/ SelectMembership(r)
    \/ \E what \in {"owner", "member"} : Handle(r, what)
    \/ \E ttl \in Ttls \union {NULL} : IssueAccessToken(r, ttl)

Environment ==
    \/ Tick
    \/ \E i \in Identities, role \in Roles \union {NULL} : ChangeMembership(i, role)
    \/ \E o \in Organizations : DeleteOrganization(o)
    \/ \E k \in Keys \union {NULL} : Restart(k)

Next == (\E r \in Requests : Request(r)) \/ Environment

Spec == Init /\ [][Next]_vars
----------------------------------------------------------------------------
(* The rows, the tokens and the requests have the types the tables, the    *)
(* claims and the dependencies give them.                                  *)
TypeOK ==
    /\ now \in 0 .. Horizon
    /\ key \in Keys \union {NULL}
    /\ organizations \in SUBSET Organizations
    /\ memberships \in [Identities -> Roles \union {NULL}]
    /\ pc     \in [Requests -> {"idle", "organization", "membership", "handler", "done",
                                "forbidden", "invalid", "disabled", "error", "lost"}]
    /\ tx     \in [Requests -> Sessions \union {NULL}]
    /\ bearer \in [Requests -> Requests \union {NULL}]
    /\ held   \in [Requests -> SUBSET Roles]
    /\ act    \in [Requests -> {"owner", "member", "token", NULL}]
    /\ token  \in [Requests -> Tokens \union {NULL}]

(* A member who was demoted or removed before a request arrived does       *)
(* nothing with that request that the lost role allowed, whatever token    *)
(* from better days it bears: what a request was let do, the row of its    *)
(* identity allowed at some moment while it ran.                           *)
ActsAreBacked ==
    \A r \in Requests :
        /\ act[r] # NULL   => held[r] # {}
        /\ act[r] = "owner" => "owner" \in held[r]

(* A token works for as long as its holder was told, to the second: within *)
(* expires_in seconds only another key makes the server refuse it, and     *)
(* nothing makes it work a second longer.  The clock is cut to whole       *)
(* seconds once when the token is made and once when it is presented.      *)
TokenWorksAsTold ==
    [][\A r \in Requests : bearer'[r] # bearer[r] =>
         LET t   == token[bearer'[r]]
             age == now - t.minted
         IN  IF pc'[r] = "forbidden"
             THEN \/ t = NULL \/ t.key # key
                  \/ age > t.expires_in * Resolution
             ELSE /\ t # NULL
                  /\ t.expires_in \in 1 .. MaxTtl
                  /\ age < (t.expires_in + 1) * Resolution]_vars
=============================================================================
