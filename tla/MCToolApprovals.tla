-------------------------- MODULE MCToolApprovals --------------------------
(* Small instances of ToolApprovals: only requests have an order, so the   *)
(* skills, versions, departments and tools are symmetric.                  *)
EXTENDS ToolApprovals, TLC

Symmetry == Permutations(Skills) \union Permutations(Versions)
                \union Permutations(Tools) \union Permutations(Departments)

\* No guard and no property but TypeOK reads the status codes, or tells a
\* request that was answered from one that was not.
RowsView ==
    <<registry, history, approvals, audit, tx, served,
      [r \in Requests |-> IF pc[r] \in {"done", "lost"} THEN "ended" ELSE pc[r]]>>
=============================================================================
