---------------------------- MODULE ExternalTask ----------------------------
(***************************************************************************)
(* The row of an external agent task, its events and its artifacts         *)
(* (agent_runtime/external_tasks).  A dispatch is one call inside one      *)
(* transaction: its steps are operators, composed in SubAgents.            *)
(***************************************************************************)
EXTENDS Naturals, Sequences

\* What an executor may do with the task: the statuses a result may have, an
\* exception, and an answer that carries the id of another task.
Answers == {"found_opened", "blocked", "not_found", "failed"}
ExecutorEnds == Answers \cup {"raised", "wrong_id"}

\* create_find_apply_entry_task.
Queued == [status |-> "queued", completed |-> FALSE, output |-> "none", artifacts |-> FALSE,
           events |-> <<"task_queued">>]

\* _status_for_result.
StatusFor(answer) == CASE answer = "found_opened" -> "succeeded"
                       [] answer = "blocked"      -> "waiting_user"
                       [] OTHER                   -> "failed"

\* _completed_at: once set it stays.
CompletedAfter(t, status) == t.completed \/ status \in {"succeeded", "failed", "canceled"}

\* SqlAlchemyExternalAgentTaskRepository.save, then add_event.
Saved(t, status, event) == [t EXCEPT !.status = status, !.completed = CompletedAfter(t, status),
                                     !.events = Append(@, event)]

MarkRunning(t) == Saved(t, "running", "task_running")

\* record_result: a result that opened the page must bring evidence.
RecordResult(t, answer) ==
    [Saved(t, StatusFor(answer), "task_" \o StatusFor(answer))
        EXCEPT !.output = answer, !.artifacts = answer = "found_opened"]

\* ExternalTaskDispatcher.dispatch: an exception of the executor is recorded
\* as a failed result; an id of another task is refused after the task was
\* marked as running.
Dispatched(t, end) ==
    CASE end \in Answers   -> RecordResult(MarkRunning(t), end)
      [] end = "raised"    -> RecordResult(MarkRunning(t), "failed")
      [] end = "wrong_id"  -> MarkRunning(t)

\* The status of the tool result: the one of the row; a refused result is an
\* exception of the handler.
ToolStatus(t, end) == IF end = "wrong_id" THEN "failed" ELSE Dispatched(t, end).status
=============================================================================
