--------------------------- MODULE VersionHistory ---------------------------
(***************************************************************************)
(* What ADR-2 and migration 0006 promise of versions whatever requests     *)
(* overlap: snapshots numbered 1, 2, 3, ... that never change or vanish,   *)
(* and for each skill a current one among its own.                         *)
(***************************************************************************)
EXTENDS Naturals

CONSTANTS Skills, Versions, Definitions, NULL

VARIABLES
    history,    \* the snapshots, by id: skill, number, definition
    current     \* the current snapshot of each skill

Snapshots == [skill : Skills, number : Nat \ {0}, definition : Definitions]

Init ==
    /\ history = [v \in Versions |-> NULL]
    /\ current = [s \in Skills |-> NULL]

SnapshotsOf(s) == {v \in Versions : history[v] # NULL /\ history[v].skill = s}
NumbersOf(s)   == {history[v].number : v \in SnapshotsOf(s)}

\* The next snapshot of a skill takes the first number nobody has.
Append(v) ==
    LET new == history'[v] IN
    /\ history[v] = NULL
    /\ new \in Snapshots
    /\ NumbersOf(new.skill) = 1 .. new.number - 1
    /\ history' = [history EXCEPT ![v] = new]

Publish(v) == Append(v) /\ UNCHANGED current

\* The first snapshot of a skill becomes current at once.
Launch(v) ==
    /\ Append(v)
    /\ history'[v].number = 1
    /\ current' = [current EXCEPT ![history'[v].skill] = v]

Select(s) ==
    /\ UNCHANGED history
    /\ \E v \in SnapshotsOf(s) : current' = [current EXCEPT ![s] = v]

Next ==
    \/ \E v \in Versions : Publish(v) \/ Launch(v)
    \/ \E s \in Skills : Select(s)

Spec == Init /\ [][Next]_<<history, current>>
=============================================================================
