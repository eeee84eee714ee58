----------------------------- MODULE ToolGrants -----------------------------
(***************************************************************************)
(* What ADR-4 promises of tools, one step at a time: a version requests    *)
(* its tools once and for all; each is granted at most once, after it was  *)
(* requested, and never taken back; and agents are offered a version with  *)
(* exactly the tools it is granted at that moment.                         *)
(***************************************************************************)
CONSTANTS
    Versions, Tools,
    Selections,     \* the times agents ask, each answered at most once
    NULL

VARIABLES
    requested,      \* the tools each version requests; NULL until it is published
    granted,        \* the pairs of a version and a tool that were approved
    offered         \* what each selection was answered: versions with their tools

Init ==
    /\ requested = [v \in Versions |-> NULL]
    /\ granted   = {}
    /\ offered   = [r \in Selections |-> NULL]

GrantedTo(v) == {t \in Tools : <<v, t>> \in granted}

Publish(v) ==
    /\ requested[v] = NULL /\ requested'[v] # NULL
    /\ \E tools \in SUBSET Tools : requested' = [requested EXCEPT ![v] = tools]
    /\ UNCHANGED <<granted, offered>>

Grant(v, t) ==
    /\ requested[v] # NULL /\ t \in requested[v]
    /\ <<v, t>> \notin granted
    /\ granted' = granted \union {<<v, t>>}
    /\ UNCHANGED <<requested, offered>>

\* One answer may offer several versions: all with their tools of one moment.
Offer(r) ==
    /\ offered[r] = NULL /\ offered'[r] # NULL
    /\ \E chosen \in SUBSET {v \in Versions : requested[v] # NULL} :
          offered' = [offered EXCEPT ![r] = {<<v, GrantedTo(v)>> : v \in chosen}]
    /\ UNCHANGED <<requested, granted>>

Next ==
    \/ \E v \in Versions : Publish(v) \/ \E t \in Tools : Grant(v, t)
    \/ \E r \in Selections : Offer(r)

Spec == Init /\ [][Next]_<<requested, granted, offered>>
=============================================================================
