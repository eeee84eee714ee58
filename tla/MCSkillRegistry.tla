-------------------------- MODULE MCSkillRegistry --------------------------
(* Small instances of SkillRegistry.                                       *)
EXTENDS SkillRegistry

CONSTANTS org1, org2

OneOwner == {[organization_id |-> org1, role |-> "owner"]}

\* The second organization's caller is a member: it may do anything but
\* activate and disable.
TwoTenants == OneOwner \union {[organization_id |-> org2, role |-> "member"]}

\* What decides the steps to come.  No step reads reply or committed, a lost
\* request is as good as an answered one, and of a session that committed a
\* step reads only the op, for the reply.
RowsView ==
    <<skills, versions, audit,
      [r \in Requests |-> IF pc[r] = "lost" THEN "done" ELSE pc[r]],
      [r \in Requests |-> IF pc[r] = "respond" THEN NULL ELSE tx[r]]>>
EffectsView == <<RowsView, committed>>

\* Behaviours in which every request succeeds, and only the fifth and
\* the sixth overlap.
LastTwoOverlap ==
    /\ \A r \in Requests : pc[r] # "lost" /\ reply[r] \in {200, 201, NULL}
    /\ \A q, r \in Requests : q < r /\ q < 5 /\ pc[r] # "idle" => pc[q] = "done"
=============================================================================
