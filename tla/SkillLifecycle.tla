--------------------------- MODULE SkillLifecycle ---------------------------
(***************************************************************************)
(* The lifecycle of ADR-2 and app/lifecycle.py, one request at a time:     *)
(* a draft is edited in place; activation freezes it as version 1; an      *)
(* active skill only gains versions and switches between them; disabled is *)
(* terminal.                                                               *)
(***************************************************************************)
EXTENDS Naturals

CONSTANTS Skills, Versions, Definitions, NULL

VARIABLES
    registry,   \* the skills: status, working copy, active version
    history     \* the versions, by id: skill, number, definition

Init ==
    /\ registry = [s \in Skills |-> NULL]
    /\ history  = [v \in Versions |-> NULL]

Is(s, status) == registry[s] # NULL /\ registry[s].status = status

SnapshotsOf(s) == {v \in Versions : history[v] # NULL /\ history[v].skill = s}
NumbersOf(s)   == {history[v].number : v \in SnapshotsOf(s)}

Snapshot(s, v, n, d) ==
    /\ history[v] = NULL
    /\ history' = [history EXCEPT ![v] = [skill |-> s, number |-> n, definition |-> d]]

CreateDraft(s, d) ==
    /\ registry[s] = NULL
    /\ registry' = [registry EXCEPT ![s] =
           [status |-> "draft", working |-> d, active |-> NULL]]
    /\ UNCHANGED history

EditDraft(s, d) ==
    /\ Is(s, "draft")
    /\ registry' = [registry EXCEPT ![s].working = d]
    /\ UNCHANGED history

\* Version 1 is the working copy as it is when the skill becomes active.
Activate(s, v) ==
    /\ Is(s, "draft")
    /\ Snapshot(s, v, 1, registry[s].working)
    /\ registry' = [registry EXCEPT ![s].status = "active", ![s].active = v]

AddVersion(s, v, d) ==
    /\ Is(s, "active")
    /\ \E n \in NumbersOf(s) \union {0} :
          NumbersOf(s) = 1 .. n /\ Snapshot(s, v, n + 1, d)
    /\ UNCHANGED registry

Switch(s, v) ==
    /\ Is(s, "active")
    /\ v \in SnapshotsOf(s)
    /\ registry' = [registry EXCEPT ![s].active = v]
    /\ UNCHANGED history

Disable(s) ==
    /\ Is(s, "draft") \/ Is(s, "active")
    /\ registry' = [registry EXCEPT ![s].status = "disabled"]
    /\ UNCHANGED history

Next == \E s \in Skills :
    \/ \E d \in Definitions : CreateDraft(s, d) \/ EditDraft(s, d)
    \/ \E v \in Versions : Activate(s, v) \/ Switch(s, v)
    \/ \E v \in Versions, d \in Definitions : AddVersion(s, v, d)
    \/ Disable(s)

Spec == Init /\ [][Next]_<<registry, history>>
----------------------------------------------------------------------------
(* What overlapping requests add: one that read the skill before another   *)
(* moved it on still takes effect.                                         *)

\* An activation that read a draft: of the working copy it read.
LateActivate(s, v, d) ==
    /\ Is(s, "draft") \/ Is(s, "disabled")
    /\ SnapshotsOf(s) = {}
    /\ Snapshot(s, v, 1, d)
    /\ registry' = [registry EXCEPT ![s].status = "active", ![s].active = v]

\* An edit that read a draft.
LateEdit(s, d) ==
    /\ Is(s, "active") \/ Is(s, "disabled")
    /\ registry' = [registry EXCEPT ![s].working = d]
    /\ UNCHANGED history

\* A switch and a new version that read an active skill.
LateSwitch(s, v) ==
    /\ Is(s, "disabled")
    /\ v \in SnapshotsOf(s)
    /\ registry' = [registry EXCEPT ![s].active = v]
    /\ UNCHANGED history

LateVersion(s, v, d) ==
    /\ Is(s, "disabled")
    /\ \E n \in NumbersOf(s) :
          NumbersOf(s) = 1 .. n /\ Snapshot(s, v, n + 1, d)
    /\ UNCHANGED registry

Late == \E s \in Skills :
    \/ \E d \in Definitions : LateEdit(s, d)
    \/ \E v \in Versions : LateSwitch(s, v)
    \/ \E v \in Versions, d \in Definitions :
          LateActivate(s, v, d) \/ LateVersion(s, v, d)

OverlapNext == Next \/ Late

OverlapSpec == Init /\ [][OverlapNext]_<<registry, history>>
=============================================================================
