----------------------------- MODULE StagePlan -----------------------------
(***************************************************************************)
(* The plan of a task: five stages, stored as step rows beside the turns   *)
(* of OuterSession, that are started, completed, skipped and prepared for  *)
(* a retry by the same requests, in the same commits.  A stage hands a     *)
(* summary of what was found to the stage that depends on it.  Requests    *)
(* come one at a time here; OuterSession decides which task a turn, an     *)
(* approval or a recovery is booked on.                                    *)
(***************************************************************************)
EXTENDS OuterSession

CONSTANT Outcomes    \* what the loop of a turn may have done: its tool logs
                     \* and the stages it went through

VARIABLE plans       \* the stages of each task

planVars == <<vars, plans>>

\* 1 clarify, 2 collect, 3 enrich, 4 analyze, 5 finalize; each depends on the
\* one before it.
Stages == 1 .. 5
NoHandoff == 0

\* done: completed_at is set; out: the turn whose summary is in the output;
\* got: the turn whose summary the stage received.
NewStage == [status |-> "pending", done |-> FALSE, out |-> NoHandoff, got |-> NoHandoff]

_ensure_outer_task_stage_plan == [i \in Stages |-> NewStage]

_set_plan_stage_status(stage, status) ==
    [stage EXCEPT !.status = status,
                  !.done = \/ status \in {"succeeded", "failed", "skipped"}
                           \/ @ /\ status # "running"]

\* A completed stage hands over the summary of turn n, if there is one.
_complete_plan_stage(plan, i, status, n) ==
    LET stage == _set_plan_stage_status(plan[i], status)
    IN [plan EXCEPT ![i] =
          IF n # NoHandoff /\ status \in {"succeeded", "failed", "waiting_user"} THEN [stage EXCEPT !.out = n]
          ELSE stage]

_mark_outer_task_stage_started(plan) ==
    IF plan[1].status \in {"succeeded", "skipped"} THEN plan
    ELSE [plan EXCEPT ![1] = _set_plan_stage_status(@, "running")]

_plan_stage_index_for_tool_name(tool) == CASE tool = "database" -> 2 [] tool = "external" -> 3 [] OTHER -> 0

_plan_stage_status_from_tool_status(status) ==
    CASE status = "succeeded" -> "succeeded" [] status \in {"failed", "blocked"} -> "failed" [] OTHER -> "running"

\* The calls of the turn, booked in their order: a stage is as its last call left
\* it, and every finished call has a summary: its error or its result.
Logged(plan, logs, n) ==
    LET calls(i) == {k \in DOMAIN logs : _plan_stage_index_for_tool_name(logs[k].tool) = i}
        last(i) == CHOOSE k \in calls(i) : \A j \in calls(i) : j <= k
        status(k) == _plan_stage_status_from_tool_status(logs[k].status)
    IN [i \in Stages |->
          IF calls(i) = {} THEN plan[i]
          ELSE [_set_plan_stage_status(plan[i], status(last(i))) EXCEPT
                   !.out = IF n # NoHandoff /\ \E k \in calls(i) : status(k) # "running" THEN n ELSE @]]

_skip_pending_plan_stage(stage) ==
    IF stage.status = "pending" THEN _set_plan_stage_status(stage, "skipped") ELSE stage

\* Mutant: a stage without a call of its own keeps waiting.
_keep_pending_plan_stage(plan, touched) == plan

Skipped(plan, touched) ==
    [i \in Stages |-> IF i \in touched THEN plan[i] ELSE _skip_pending_plan_stage(plan[i])]

\* Mutant: only stages that are still to run get what was handed over.
_sync_open_stage_handoffs(plan) ==
    [i \in Stages |-> IF i > 1 /\ plan[i].status = "pending" /\ plan[i - 1].out # NoHandoff
                      THEN [plan[i] EXCEPT !.got = plan[i - 1].out] ELSE plan[i]]

_sync_plan_stage_handoffs(plan) ==
    [i \in Stages |-> IF i > 1 /\ plan[i - 1].out # NoHandoff
                      THEN [plan[i] EXCEPT !.got = plan[i - 1].out] ELSE plan[i]]

\* A turn that waits for the user only marks the first stage.  One that ends
\* books its tool calls, then the stages the loop reports as gone through, then
\* the answer; what is still pending is skipped.
_sync_outer_task_stage_execution(plan, n, result, did) ==
    LET logged == Logged(_complete_plan_stage(plan, 1, "succeeded", NoHandoff), did.logs, n)
        called == {1} \cup {_plan_stage_index_for_tool_name(did.logs[k].tool) : k \in DOMAIN did.logs}
        thought == did.history \ (called \cup {5})
        reported == [i \in Stages |-> IF i \in thought THEN _set_plan_stage_status(logged[i], "succeeded")
                                      ELSE logged[i]]
        answered == _complete_plan_stage(reported, 5, "succeeded", n)
    IN IF result = "waiting_user" THEN _complete_plan_stage(plan, 1, "waiting_user", n)
       ELSE _sync_plan_stage_handoffs(Skipped(answered, called \cup thought \cup {5}))

\* A turn that ends is started first, also when its start is committed already.
Executed(plan, n, result, did) ==
    _sync_outer_task_stage_execution(_mark_outer_task_stage_started(plan), n, result, did)

\* A recovery starts again at the first stage that failed: it is running, and
\* what comes after it is to be done again.
_prepare_failed_stage_for_loop_recovery(plan) ==
    LET failed == {i \in Stages : plan[i].status = "failed"}
        first == CHOOSE i \in failed : \A j \in failed : i <= j
        again(i) == i > first /\ plan[i].status \notin {"pending", "running"}
    IN IF failed = {} THEN plan
       ELSE [i \in Stages |-> IF i = first THEN [plan[i] EXCEPT !.status = "running", !.done = FALSE]
                              ELSE IF again(i) THEN [plan[i] EXCEPT !.status = "pending", !.done = FALSE]
                              ELSE plan[i]]

----------------------------------------------------------------------------
PlanInit == Init /\ plans = [t \in Tasks |-> _ensure_outer_task_stage_plan]

PlanStarted(r) ==
    /\ CommitStart(r)
    /\ plans' = [plans EXCEPT ![req[r].mine.task] = _mark_outer_task_stage_started(@)]

PlanEnded(r, result, did) ==
    /\ EndApproval(r, result) \/ \E asks \in BOOLEAN : EndTurn(r, result, asks)
    /\ plans' = [plans EXCEPT ![req[r].mine.task] = Executed(@, req[r].turn, result, did)]

PlanRecovered(r, result, did) ==
    /\ \E asks \in BOOLEAN : EndRecovery(r, result, asks)
    /\ plans' = [[plans EXCEPT ![req[r].target] = _prepare_failed_stage_for_loop_recovery(@)]
                    EXCEPT ![req[r].mine.task] = Executed(@, req[r].turn, result, did)]

PlanServe ==
    \/ \E r \in Requests :
         \/ PlanStarted(r)
         \/ \E result \in Results, did \in Outcomes : PlanEnded(r, result, did) \/ PlanRecovered(r, result, did)
         \/ (Begin(r) \/ Fail(r)) /\ UNCHANGED plans
    \/ (\E t \in Tasks : ResumeTask(t)) /\ UNCHANGED plans

PlanNext == \/ PlanServe /\ UNCHANGED draft
            \/ (\E r \in Requests : Followup(r)) /\ UNCHANGED plans

PlanSpec == PlanInit /\ [][PlanNext]_planVars

----------------------------------------------------------------------------
\* The plan and the task it belongs to tell the same story, also after
\* approvals and recoveries that reopened the task: one that succeeded has its
\* goal and its answer, and nothing of it is still to be done or asked; one that
\* waits for the user waits in its first stage.
PlanMatchesTask ==
    \A t \in Tasks :
        /\ tasks[t].status = "succeeded" =>
              /\ plans[t][1].status = "succeeded" /\ plans[t][5].status = "succeeded"
              /\ \A i \in Stages : plans[t][i].status \notin {"pending", "waiting_user"}
        /\ tasks[t].status = "waiting_user" => plans[t][1].status = "waiting_user"

\* When a task has succeeded, every stage has received what the stage it depends
\* on last handed over.
HandoffsArrive ==
    \A t \in Tasks : tasks[t].status = "succeeded" =>
        \A i \in Stages \ {1} : plans[t][i - 1].out # NoHandoff => plans[t][i].got = plans[t][i - 1].out
=============================================================================
