-------------------------- MODULE CheckpointStore --------------------------
(***************************************************************************)
(* AgentCheckpointStore (apps/api/app/agent_runtime/checkpoints.py): the   *)
(* checkpoints of one workflow run, ordered by their created_at column.    *)
(*                                                                         *)
(* Python stamps a row with microseconds, MySQL keeps whole seconds.  Time *)
(* is counted in ticks, TicksPerUnit ticks to one unit of what the column  *)
(* can hold (TicksPerUnit = 1: the database keeps what Python wrote).      *)
(***************************************************************************)
EXTENDS CheckpointRows, FiniteSets

CONSTANTS TicksPerUnit,  \* precision Python has and the column has not
          MaxTick,       \* bound: last tick of the wall clock
          MaxSaves       \* bound: checkpoints saved for the run

ASSUME PrecisionAssumption == TicksPerUnit \in Nat \ {0}
ASSUME BoundAssumption == MaxTick \in Nat /\ MaxSaves \in Nat

VARIABLES now,           \* utc_now(), in ticks
          checkpoints,   \* workflow_checkpoints rows of the run
          current_step   \* workflow_runs.current_step

storeVars == <<now, checkpoints, current_step>>

----------------------------------------------------------------------------
(* A row is [n, key, ts]: the n-th save, its checkpoint_key and the stored  *)
(* created_at.                                                             *)

\* The column's value for a Python time: MySQL rounds to the nearest unit.
Stored(t) == (t + TicksPerUnit \div 2) \div TicksPerUnit

\* created_at of a new checkpoint, given the rows its session can see: bumped
\* one unit past the latest row exactly when it does not already follow it.
NewTimestamp(cps, t) ==
    IF \E c \in cps : t <= c.ts * TicksPerUnit
    THEN (CHOOSE c \in LatestRows(cps) : TRUE).ts + 1
    ELSE Stored(t)

----------------------------------------------------------------------------
Nodes == {"build_context", "plan_or_reply", "maybe_tool", "wait_confirmation",
          "wait_user_input", "final_response", "approval_rejected"}

\* The checkpoint_key that may follow a checkpoint_key of the same run: the
\* _save_step calls of prepare, continue-after-approval and finalize, in order.
Follows(step) ==
    CASE step = "none"              -> {"build_context"}
      [] step = "build_context"     -> {"plan_or_reply"}
      [] step = "plan_or_reply"     -> Nodes \ {"build_context", "approval_rejected"}
      [] step = "wait_confirmation" -> Nodes \ {"build_context", "plan_or_reply"}
      [] step \in {"maybe_tool", "wait_user_input"} -> {"final_response"}
      [] OTHER                      -> {}

StoreInit == /\ now = 0
             /\ checkpoints = {}
             /\ current_step = "none"

StoreTick == /\ now < MaxTick
             /\ now' = now + 1
             /\ UNCHANGED <<checkpoints, current_step>>

\* _save_step, then AgentCheckpointStore.save: the step goes to the workflow row
\* first, so _latest_checkpoint already disambiguates by the new step.
Save(key) ==
    /\ Cardinality(checkpoints) < MaxSaves
    /\ key \in Follows(current_step)
    /\ current_step' = key
    /\ checkpoints' = checkpoints \cup {[n |-> Cardinality(checkpoints) + 1, key |-> key,
                                         ts |-> NewTimestamp(checkpoints, now)]}
    /\ UNCHANGED now

StoreNext == StoreTick \/ \E key \in Nodes : Save(key)

StoreSpec == StoreInit /\ [][StoreNext]_storeVars

----------------------------------------------------------------------------
\* Whatever the clock and the column's precision do, the checkpoint a resume
\* loads is one of the step the workflow row says the run is at.
ResumesAtCurrentStep ==
    checkpoints # {} => \A c \in LatestCheckpoint(checkpoints, current_step) : c.key = current_step
=============================================================================
