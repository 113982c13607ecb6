--------------------------- MODULE CheckpointRows ---------------------------
(***************************************************************************)
(* How AgentCheckpointStore (apps/api/app/agent_runtime/checkpoints.py)    *)
(* picks the checkpoint a run resumes from, as operators over a set of     *)
(* workflow_checkpoints rows.  A row is a record with at least a key       *)
(* (checkpoint_key) and a ts (created_at as the column stores it).         *)
(***************************************************************************)
EXTENDS Naturals

\* The rows the MAX(created_at) sub-query selects.
LatestRows(cps) == {c \in cps : \A d \in cps : d.ts <= c.ts}

\* Mutant: an unordered LIMIT 1 over the newest rows.
AnyLatestRow(cps, step) == LatestRows(cps)

\* What _latest_checkpoint may return: rows of the step the workflow is at win,
\* and the id that orders the remaining ties is a random uuid, so any of them.
LatestCheckpoint(cps, step) ==
    LET candidates == LatestRows(cps)
        matching   == {c \in candidates : c.key = step}
    IN  IF matching # {} THEN matching ELSE candidates
=============================================================================
