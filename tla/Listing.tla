------------------------------ MODULE Listing ------------------------------
(***************************************************************************)
(* Reading a growing table page by page (app/routers/skills.py: list_skills*)
(* newest first with a filter on the status, get_skill_audit_trail oldest  *)
(* first, and the runtime selection, which cuts its page from one read),   *)
(* while requests insert rows and change statuses.                         *)
(*                                                                         *)
(* A row gets its created_at when it is flushed and is seen when its       *)
(* transaction commits, so rows appear in another order than the one they  *)
(* are listed in; two flushes in one tick of the clock get the same        *)
(* created_at and are listed in either order.                              *)
(***************************************************************************)
EXTENDS Naturals, FiniteSets, SequencesExt

CONSTANTS
    Rows,     \* bound: the rows ever inserted
    Limits,   \* the page sizes a client may ask for
    Horizon,  \* bound: the last instant of the clock
    NULL      \* no row, no filter

SkillStatus == {"draft", "active", "disabled"}
Endpoints   == {"list_skills", "get_skill_audit_trail", "get_active_skills_for_department"}

\* A skill has been activated once it has a version 1.
Row == [created_at : 0 .. Horizon, status : SkillStatus, activated : BOOLEAN]

ASSUME ListingAssumption ==
    /\ IsFiniteSet(Rows)
    /\ Limits \subseteq Nat \ {0} /\ Horizon \in Nat
    /\ NULL \notin Row

VARIABLES
    now,       \* the clock
    flushed,   \* rows of open transactions
    rows,      \* committed rows
    endpoint,  \* what the client reads
    walk,      \* its walk over the pages
    read,      \* the rows its pages have shown
    steady,    \* the rows that have matched its filter since it began
    repeats, came, left  \* rows shown again, and that began or ceased to match

counts == <<repeats, came, left>>
vars == <<now, flushed, rows, endpoint, walk, read, steady, counts>>

Walks == [step : {"idle", "count", "page", "done"}, filter : SkillStatus \union {NULL},
          until : {"total", "short page"}, limit : Limits, offset : Nat, total : Nat, shown : Nat]

Init ==
    /\ now = 0
    /\ flushed = [r \in Rows |-> NULL]
    /\ rows = [r \in Rows |-> NULL]
    /\ endpoint \in Endpoints
    /\ \E filter \in SkillStatus \union {NULL}, limit \in Limits,
          until \in {"total", "short page"} :
          /\ endpoint = "get_skill_audit_trail" => filter = NULL
          /\ endpoint = "get_active_skills_for_department" => filter = "active"
          /\ walk = [step |-> "idle", filter |-> filter, until |-> until, limit |-> limit,
                     offset |-> 0, total |-> 0, shown |-> 0]
    /\ read = {} /\ steady = {}
    /\ repeats = 0 /\ came = 0 /\ left = 0

----------------------------------------------------------------------------
(* Helpers.                                                                *)
Matching(table) ==
    {r \in Rows : table[r] # NULL /\ walk.filter \in {NULL, table[r].status}}

\* Definitions named X_<bug> are X with a plausible bug: each breaks a property.
Before_unordered(table, r, q) == FALSE

\* ORDER BY created_at, descending in list_skills only.
Before(table, r, q) ==
    IF endpoint = "list_skills" THEN table[r].created_at > table[q].created_at
    ELSE table[r].created_at < table[q].created_at

\* A created_at no other committed row has: the place of the row is fixed.
Distinct(r) ==
    \A q \in Rows \ {r} : rows[q] = NULL \/ rows[q].created_at # rows[r].created_at

\* The orders the database may return the rows in.
Orders ==
    {order \in SetToSeqs(Matching(rows)) :
        \A i, j \in DOMAIN order : i < j => ~Before(rows, order[j], order[i])}

Page_capped(order) ==
    LET last == walk.offset + walk.limit - 1
    IN  SubSeq(order, walk.offset + 1, IF last <= Len(order) THEN last ELSE Len(order))

Page_overlapping(order) ==
    LET last == walk.offset + walk.limit
    IN  SubSeq(order, IF walk.offset = 0 THEN 1 ELSE walk.offset,
               IF last <= Len(order) THEN last ELSE Len(order))

\* OFFSET and LIMIT.
Page(order) ==
    LET last == walk.offset + walk.limit
    IN  SubSeq(order, walk.offset + 1, IF last <= Len(order) THEN last ELSE Len(order))

\* What a commit does to the rows a walk in progress is after.
Committed(table) ==
    LET old == Matching(rows)
        new == Matching(table)
    IN  /\ rows' = table
        /\ IF walk.step = "idle" THEN UNCHANGED <<steady, came, left>>
           ELSE /\ steady' = steady \intersect new
                /\ came' = came + Cardinality(new \ old)
                /\ left' = left + Cardinality(old \ new)
        /\ UNCHANGED <<now, endpoint, walk, read, repeats>>

----------------------------------------------------------------------------
(* The writers.                                                            *)
Tick ==
    /\ now < Horizon
    /\ now' = now + 1
    /\ UNCHANGED <<flushed, rows, endpoint, walk, read, steady, counts>>

Flush_nostatus(r) ==
    /\ flushed[r] = NULL /\ rows[r] = NULL
    /\ flushed' = [flushed EXCEPT ![r] =
                      [created_at |-> now, status |-> NULL, activated |-> FALSE]]
    /\ UNCHANGED <<now, rows, endpoint, walk, read, steady, counts>>

(* The default of created_at is taken when the INSERT is sent.  A skill    *)
(* starts as a draft; an audit row has no status of its own.               *)
Flush(r) ==
    /\ flushed[r] = NULL /\ rows[r] = NULL
    /\ flushed' = [flushed EXCEPT ![r] =
                      [created_at |-> now, status |-> "draft", activated |-> FALSE]]
    /\ UNCHANGED <<now, rows, endpoint, walk, read, steady, counts>>

Commit(r) ==
    /\ flushed[r] # NULL
    /\ flushed' = [flushed EXCEPT ![r] = NULL]
    /\ Committed([rows EXCEPT ![r] = flushed[r]])

Rollback(r) ==
    /\ flushed[r] # NULL
    /\ flushed' = [flushed EXCEPT ![r] = NULL]
    /\ UNCHANGED <<now, rows, endpoint, walk, read, steady, counts>>

WithStatus(row, status) ==
    [row EXCEPT !.status = status, !.activated = @ \/ status = "active"]

(* Activations and disables; audit rows do not change.  The activation of  *)
(* a draft commits although the skill has been disabled since it was read; *)
(* it inserts version 1, so that no skill is activated twice.  A skill may *)
(* thus be disabled, active and disabled again.                            *)
ChangeStatus(r, status) ==
    /\ endpoint # "get_skill_audit_trail"
    /\ rows[r] # NULL
    /\ \/ <<rows[r].status, status>> \in
             {<<"draft", "active">>, <<"draft", "disabled">>, <<"active", "disabled">>}
       \/ rows[r].status = "disabled" /\ status = "active" /\ ~rows[r].activated
    /\ Committed([rows EXCEPT ![r] = WithStatus(rows[r], status)])
    /\ UNCHANGED flushed

----------------------------------------------------------------------------
(* The client asks for one page after the other, until its offset reaches  *)
(* the X-Total-Count of the last answer, or until a page is not full.      *)
Begin ==
    /\ walk.step = "idle"
    /\ walk' = [walk EXCEPT !.step = "count"]
    /\ steady' = Matching(rows)
    /\ UNCHANGED <<now, flushed, rows, endpoint, read, counts>>

Shown(page, total) ==
    LET ids == {page[i] : i \in DOMAIN page}
        next == walk.offset + walk.limit
        last == IF walk.until = "total" THEN next >= total ELSE Len(page) < walk.limit
    IN  /\ read' = read \union ids
        /\ repeats' = repeats + Cardinality({r \in ids \intersect read : Distinct(r)})
        /\ walk' = [walk EXCEPT !.step = IF last THEN "done" ELSE "count",
                                !.offset = next, !.total = total,
                                !.shown = Len(page)]
        /\ UNCHANGED <<now, flushed, rows, endpoint, steady, came, left>>

(* The count is a statement of its own ...                                 *)
SelectCount ==
    /\ walk.step = "count" /\ endpoint # "get_active_skills_for_department"
    /\ walk' = [walk EXCEPT !.step = "page", !.total = Cardinality(Matching(rows))]
    /\ UNCHANGED <<now, flushed, rows, endpoint, read, steady, counts>>

(* ... and so is the page.                                                 *)
SelectPage ==
    /\ walk.step = "page"
    /\ \E order \in Orders : Shown(Page(order), walk.total)

(* The runtime selection counts and cuts what it has read.                 *)
CutPage ==
    /\ walk.step = "count" /\ endpoint = "get_active_skills_for_department"
    /\ \E order \in Orders : Shown(Page(order), Len(order))

Write ==
    \/ Tick
    \/ \E r \in Rows : Flush(r) \/ Commit(r) \/ Rollback(r)
    \/ \E r \in Rows, status \in SkillStatus : ChangeStatus(r, status)

Next == Begin \/ SelectCount \/ SelectPage \/ CutPage \/ Write

Spec == Init /\ [][Next]_vars
----------------------------------------------------------------------------
(* The rows and the walk have their types.                                 *)
TypeOK ==
    /\ now \in 0 .. Horizon
    /\ flushed \in [Rows -> Row \union {NULL}]
    /\ rows \in [Rows -> Row \union {NULL}]
    /\ endpoint \in Endpoints
    /\ walk \in Walks
    /\ read \in SUBSET Rows /\ steady \in SUBSET Rows
    /\ repeats \in Nat /\ came \in Nat /\ left \in Nat

(* A walk up to a page that is not full shows every row that was there     *)
(* when it began and matched until it ended, however many rows appear      *)
(* meanwhile, before or behind its offset: only rows that cease to match   *)
(* make it skip, one each.  A walk up to an X-Total-Count counted before    *)
(* the page is read may also skip one for each row that appears.           *)
NothingSkipped ==
    walk.step = "done" =>
        Cardinality({r \in steady \ read : Distinct(r)})
            <= left + IF walk.until = "total" /\ endpoint # "get_active_skills_for_department"
                      THEN came ELSE 0

(* It shows a row twice only because a row began to match, itself again or *)
(* one listed before it, one each.                                         *)
RepeatsArePushed == repeats <= came

(* A page keeps what its X-Total-Count promises although the two are read  *)
(* apart: unless rows can cease to match in between, it is no shorter than *)
(* the total leaves room for.                                              *)
PageKeepsPromise ==
    [][walk'.offset # walk.offset /\ (walk.filter = NULL \/ walk.step = "count") =>
         \/ walk'.shown = walk.limit
         \/ walk.offset + walk'.shown >= walk'.total]_vars
=============================================================================
