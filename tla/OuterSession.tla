---------------------------- MODULE OuterSession ----------------------------
(***************************************************************************)
(* The outer loop of a chat session: which durable task a user message     *)
(* belongs to, what the session row and the task rows say about it, and    *)
(* how an interrupted task is recovered (loop_agent/outer_session.py,      *)
(* durable_state/, and the outer-session half of api/v1/agent.py).         *)
(*                                                                         *)
(* The session keeps its outer state as one JSON value.  A request reads   *)
(* it once, works on its own copy and writes the whole value back when it  *)
(* commits; a streamed turn commits twice.                                 *)
(***************************************************************************)
EXTENDS Naturals, FiniteSets

CONSTANTS Requests,    \* HTTP requests the server handles at the same time
          MaxTasks,    \* bound: tasks of the session
          MaxTurns,    \* bound: turns of a task (run_count)
          MaxQueue,    \* bound: user_followups of the outer state
          MaxResumes,  \* bound: resume steps of a task
          IdWidth      \* characters the database takes for a step id: 64 (MySQL), more (SQLite)

ASSUME BoundsAssumption ==
    MaxTasks \in Nat /\ MaxTurns \in Nat /\ MaxQueue \in Nat /\ MaxResumes \in Nat /\ IdWidth \in Nat

Tasks == 1..MaxTasks
NoTask == 0
MaxRetries == 2      \* max_retries of resume_task

VARIABLES outer,    \* the outer_session value of AgentSession.metadata_json, committed
          tasks,    \* agent_task_states of the session, committed
          steps,    \* agent_step_states of each task, committed
          newest,   \* the task whose row was updated last
          cards,    \* approvals waiting for the user, as <<task, turn>>
          req,      \* the turns, approvals and recoveries in flight
          draft     \* the value a follow-up request has read, added to and not yet written back

vars == <<outer, tasks, steps, newest, cards, req, draft>>

----------------------------------------------------------------------------
(* A step is [id, seq, status, retry, width].  Of the steps a turn records *)
(* only the first (turn) and the last (final) can be the latest of their   *)
(* task, so the context and tool steps are left out here; the stages of    *)
(* the task are in StagePlan.  width is the length of the id, which starts *)
(* with the 47 characters of the task's id.                                *)

Step(id, seq, status, retry, width) ==
    [id |-> id, seq |-> seq, status |-> status, retry |-> retry, width |-> width]

HasStep(S, id) == \E s \in S : s.id = id
SetStep(S, id, status) == {IF s.id = id THEN [s EXCEPT !.status = status] ELSE s : s \in S}
EnsureStep(S, id, seq, width) ==
    IF HasStep(S, id) THEN S ELSE S \cup {Step(id, seq, "pending", 0, width)}
LatestStep(S) == CHOOSE s \in S : \A t \in S : t.seq <= s.seq

TurnId(n) == <<"turn", n>>
FinalId(n) == <<"final", n>>
ResumeId(seq) == <<"resume", seq>>
NoStep == <<"none", 0>>

\* _sync_outer_session_durable_turn_started: the turn's step is running.
StartedSteps(S, n) == SetStep(EnsureStep(S, TurnId(n), 1000 * n, 54), TurnId(n), "running")

StepStatus(result) == IF result = "finished" THEN "succeeded" ELSE "waiting_user"

\* _sync_outer_session_durable_turn_completed: the turn's step gets the result;
\* its final step gets it too, unless an earlier completion has created it.
CompletedSteps(S, n, result) ==
    LET turned == SetStep(StartedSteps(S, n), TurnId(n), StepStatus(result))
    IN  IF HasStep(turned, FinalId(n)) THEN turned
        ELSE turned \cup {Step(FinalId(n), 1000 * n + 900, StepStatus(result), 0, 60)}

\* ... and the task row follows, with its current_step_id and completed_at.  Clearing it is an UPDATE
\* only if the row the request has read (seen) has one.
CompletedTask(task, n, seen, result) ==
    [status |-> StepStatus(result), step |-> FinalId(n),
     done |-> result = "finished" \/ (task.done /\ ~seen)]

StartedTask(task, n) == [task EXCEPT !.status = "running", !.step = TurnId(n)]

----------------------------------------------------------------------------
(* OuterSessionLoopController.                                             *)

NoOuter == [task |-> NoTask, status |-> "none", runs |-> 0, queue |-> 0]

\* _state_for_message, for the session's value o and the caller's task_id t.
StateForMessage(o, t, new) ==
    IF o.status = "waiting_user" \/ (t # NoTask /\ o.task = t) THEN o
    ELSE [task |-> IF t # NoTask THEN t ELSE new, status |-> "running", runs |-> 0, queue |-> 0]

\* begin_user_message: a reply to a waiting task is queued as a follow-up too.
Begun(s) == [s EXCEPT !.status = "running", !.runs = @ + 1,
                      !.queue = IF s.status = "waiting_user" THEN @ + 1 ELSE @]

\* complete_turn and _apply_inner_result.
Finished(s, result) == [s EXCEPT !.status = result]

----------------------------------------------------------------------------
Idle == [pc |-> "idle", kind |-> "none", mine |-> NoOuter, turn |-> 0, known |-> FALSE, done |-> FALSE,
         target |-> NoTask, resume |-> 0, card |-> <<0, 0>>]

AbsentTask == [status |-> "absent", step |-> NoStep, done |-> FALSE]
Reissued(seq) == [status |-> "running", step |-> ResumeId(seq), done |-> FALSE]

Init == /\ outer = NoOuter
        /\ tasks = [t \in Tasks |-> AbsentTask]
        /\ steps = [t \in Tasks |-> {}]
        /\ newest = NoTask
        /\ cards = {}
        /\ req = [r \in Requests |-> Idle]
        /\ draft = [r \in Requests |-> NoOuter]

\* uuid4: an id no row and no other request has.
NewTask(t) == /\ tasks[t].status = "absent"
              /\ \A r \in Requests : req[r].mine.task # t
              /\ \A u \in Tasks : u < t => \/ tasks[u].status # "absent"
                                           \/ \E r \in Requests : req[r].mine.task = u

Within(o) == o.runs <= MaxTurns /\ o.queue <= MaxQueue

\* A user message: create_agent_message ("sync") or the stream worker.  What it
\* writes is private until it commits.
BeginTurn(r, kind, new) ==
    LET o == Begun(StateForMessage(outer, NoTask, new))
    IN  /\ req[r].pc = "idle"
        /\ NewTask(new) \/ o.task # new
        /\ Within(o)
        /\ req' = [req EXCEPT ![r] = [Idle EXCEPT !.pc = "running", !.kind = kind, !.mine = o,
                                      !.turn = o.runs,
                                      !.known = HasStep(steps[o.task], TurnId(o.runs)),
                                      !.done = tasks[o.task].done]]
        /\ UNCHANGED <<outer, tasks, steps, newest, cards>>

\* A step inserted by another request since the snapshot fails the INSERT.
NoConflict(r) == \/ req[r].known
                 \/ ~HasStep(steps[req[r].mine.task], TurnId(req[r].turn))

\* _emit_stream_started_events: the stream commits the started turn.
CommitStart(r) ==
    LET q == req[r]
        t == q.mine.task
    IN  /\ q.pc = "running" /\ q.kind = "stream"
        /\ NoConflict(r)
        /\ outer' = q.mine
        /\ tasks' = [tasks EXCEPT ![t] = StartedTask(@, q.turn)]
        /\ steps' = [steps EXCEPT ![t] = StartedSteps(@, q.turn)]
        /\ newest' = t
        /\ req' = [req EXCEPT ![r].pc = "streaming", ![r].known = TRUE,
                                ![r].done = tasks[t].done]
        /\ UNCHANGED cards

\* Mutant: the turn closes the session row and forgets the task.
EndTurnSessionOnly(r, result, asks) ==
    LET q == req[r]
        t == q.mine.task
    IN  /\ q.kind \in {"stream", "sync"}
        /\ q.pc = IF q.kind = "stream" THEN "streaming" ELSE "running"
        /\ NoConflict(r)
        /\ asks => result = "waiting_user"
        /\ outer' = Finished(q.mine, result)
        /\ steps' = [steps EXCEPT ![t] = CompletedSteps(@, q.turn, result)]
        /\ newest' = t
        /\ cards' = IF asks THEN cards \cup {<<t, q.turn>>} ELSE cards
        /\ req' = [req EXCEPT ![r] = Idle]
        /\ UNCHANGED tasks

\* The turn ends: it answers, asks for missing input, or asks for an approval.
EndTurn(r, result, asks) ==
    LET q == req[r]
        t == q.mine.task
    IN  /\ q.kind \in {"stream", "sync"}
        /\ q.pc = IF q.kind = "stream" THEN "streaming" ELSE "running"
        /\ NoConflict(r)
        /\ asks => result = "waiting_user"
        /\ outer' = Finished(q.mine, result)
        /\ tasks' = [tasks EXCEPT ![t] = CompletedTask(@, q.turn, q.done, result)]
        /\ steps' = [steps EXCEPT ![t] = CompletedSteps(@, q.turn, result)]
        /\ newest' = t
        /\ cards' = IF asks THEN cards \cup {<<t, q.turn>>} ELSE cards
        /\ req' = [req EXCEPT ![r] = Idle]

\* The request ends in an exception, a conflict or a crash: what it has not
\* committed is rolled back, what a stream has committed stays.
Fail(r) == /\ req[r].pc # "idle"
           /\ req' = [req EXCEPT ![r] = Idle]
           /\ UNCHANGED <<outer, tasks, steps, newest, cards>>

----------------------------------------------------------------------------
(* _complete_outer_session_after_approval: the decided run is booked on    *)
(* whatever task is active in the session then.                            *)

BeginApproval(r, c) ==
    LET turn == IF outer.runs = 0 THEN 1 ELSE outer.runs
    IN  /\ req[r].pc = "idle" /\ c \in cards
        /\ req' = [req EXCEPT ![r] = [Idle EXCEPT !.pc = "running", !.kind = "approval",
                                      !.mine = outer, !.card = c, !.turn = turn,
                                      !.known = HasStep(steps[outer.task], TurnId(turn)),
                                      !.done = tasks[outer.task].done]]
        /\ UNCHANGED <<outer, tasks, steps, newest, cards>>

EndApproval(r, result) ==
    LET q == req[r]
        t == q.mine.task
    IN  /\ q.pc = "running" /\ q.kind = "approval"
        /\ NoConflict(r)
        /\ outer' = [Finished(q.mine, result) EXCEPT !.runs = q.turn]
        /\ tasks' = [tasks EXCEPT ![t] = CompletedTask(@, q.turn, q.done, result)]
        /\ steps' = [steps EXCEPT ![t] = CompletedSteps(@, q.turn, result)]
        /\ newest' = t
        /\ cards' = cards \ {q.card}
        /\ req' = [req EXCEPT ![r] = Idle]

----------------------------------------------------------------------------
(* DurableResumePolicy.decide and DurableStateService.resume_task.         *)

ResumeAction(t) ==
    LET latest == LatestStep(steps[t])
    IN  IF tasks[t].status = "succeeded" THEN "stop_and_report"
        ELSE IF steps[t] = {} THEN "replan_remaining_steps"
        ELSE CASE latest.status = "waiting_user" -> "wait_user_action"
               [] latest.status = "failed" /\ latest.retry < MaxRetries -> "retry_failed_step"
               [] latest.status = "running" -> "reissue_executor_task"
               [] latest.status = "succeeded" -> "continue_from_next_step"
               [] OTHER -> "replan_remaining_steps"

Executable(t) == ResumeAction(t) \in {"retry_failed_step", "reissue_executor_task"}

NextSeq(t) == LatestStep(steps[t]).seq + 1
ResumeStep(t, status) ==
    LET source == LatestStep(steps[t])
    IN  Step(ResumeId(NextSeq(t)), NextSeq(t), status, source.retry + 1, source.width + 12)
Resumes(t) == Cardinality({s \in steps[t] : s.id[1] = "resume"})

\* POST /tasks/{id}/resume and .../tasks/recover: the decision alone, nothing
\* runs.  A row that keeps its values is not updated.
ResumeTask(t) ==
    LET action == ResumeAction(t)
        latest == LatestStep(steps[t])
        Decided(status) == tasks' = [tasks EXCEPT ![t].status = status, ![t].step = latest.id]
    IN  /\ tasks[t].status # "absent"
        /\ \/ /\ Executable(t)
              /\ Resumes(t) < MaxResumes
              /\ ResumeStep(t, "pending").width <= IdWidth
              /\ steps' = [steps EXCEPT ![t] = @ \cup {ResumeStep(t, "pending")}]
              /\ tasks' = [tasks EXCEPT ![t] = Reissued(NextSeq(t))]
           \/ action = "wait_user_action" /\ Decided("waiting_user") /\ UNCHANGED steps
           \/ action = "replan_remaining_steps" /\ Decided("planning") /\ UNCHANGED steps
           \/ action \in {"stop_and_report", "continue_from_next_step"} /\ UNCHANGED <<tasks, steps>>
        /\ newest' = IF tasks' = tasks THEN newest ELSE t
        /\ UNCHANGED <<outer, cards, req>>

\* POST .../tasks/recover/run: an executable decision is run as a further turn
\* (queued follow-ups become part of its message).
BeginRecovery(r) ==
    LET o == StateForMessage([outer EXCEPT !.queue = IF outer.task = newest THEN 0 ELSE @],
                             newest, newest)
        mine == Begun(o)
    IN  /\ req[r].pc = "idle"
        /\ newest # NoTask /\ Executable(newest) /\ Resumes(newest) < MaxResumes
        /\ ResumeStep(newest, "pending").width <= IdWidth
        /\ Within(mine)
        /\ req' = [req EXCEPT ![r] = [Idle EXCEPT !.pc = "running", !.kind = "recovery",
                                      !.mine = mine, !.turn = mine.runs,
                                      !.known = HasStep(steps[mine.task], TurnId(mine.runs)),
                                      !.done = tasks[mine.task].done /\ mine.task # newest,
                                      !.target = newest, !.resume = NextSeq(newest)]]
        /\ UNCHANGED <<outer, tasks, steps, newest, cards>>

\* The recovered turn ends: the run, and the resume step that stands for it.
EndRecovery(r, result, asks) ==
    LET q == req[r]
        t == q.mine.task
        source == CHOOSE s \in steps[q.target] :
                     s.seq < q.resume /\ \A u \in steps[q.target] : u.seq < q.resume => u.seq <= s.seq
        resumed == [steps EXCEPT ![q.target] = @ \cup
                      {Step(ResumeId(q.resume), q.resume, StepStatus(result),
                            source.retry + 1, source.width + 12)}]
    IN  /\ q.pc = "running" /\ q.kind = "recovery"
        /\ NoConflict(r) /\ ~HasStep(steps[q.target], ResumeId(q.resume))
        /\ asks => result = "waiting_user"
        /\ outer' = Finished(q.mine, result)
        /\ tasks' = [[tasks EXCEPT ![q.target] = Reissued(q.resume)]
                       EXCEPT ![t] = CompletedTask(@, q.turn, q.done, result)]
        /\ steps' = [resumed EXCEPT ![t] = CompletedSteps(@, q.turn, result)]
        /\ newest' = t
        /\ cards' = IF asks THEN cards \cup {<<t, q.turn>>} ELSE cards
        /\ req' = [req EXCEPT ![r] = Idle]

\* _outer_status_from_agent_task_status.
OuterStatusOf(status) ==
    CASE status = "waiting_user" -> "waiting_user"
      [] status = "failed"       -> "failed"
      [] status = "succeeded"    -> "finished"
      [] OTHER                   -> "running"

\* Mutant: a restored outer state is always running.
RunningOuterFor(t) == [task |-> t, status |-> "running", runs |-> 0, queue |-> 0]

\* The outer state a follow-up is queued on: the session's, or one made up from
\* the task row when the session has moved to another task.
OuterFor(t) ==
    IF outer.task = t THEN outer
    ELSE [task |-> t, status |-> OuterStatusOf(tasks[t].status), runs |-> 0, queue |-> 0]

\* POST .../tasks/followups: the message is appended to the value the request has read ...
ReadFollowup(r) ==
    LET o == OuterFor(newest)
    IN  /\ req[r].pc = "idle" /\ draft[r] = NoOuter
        /\ newest # NoTask /\ tasks[newest].status # "succeeded"
        /\ o.queue < MaxQueue
        /\ draft' = [draft EXCEPT ![r] = [o EXCEPT !.queue = @ + 1]]
        /\ UNCHANGED <<outer, tasks, steps, newest, cards, req>>

\* ... which is written back whole, whatever was committed since; the task row
\* gets the queue in its payload.
WriteFollowup(r) ==
    /\ draft[r] # NoOuter
    /\ outer' = draft[r]
    /\ newest' = draft[r].task
    /\ draft' = [draft EXCEPT ![r] = NoOuter]
    /\ UNCHANGED <<tasks, steps, cards, req>>

\* The follow-up request ends in an exception or a crash.
DropFollowup(r) ==
    /\ draft[r] # NoOuter
    /\ draft' = [draft EXCEPT ![r] = NoOuter]
    /\ UNCHANGED <<outer, tasks, steps, newest, cards, req>>

----------------------------------------------------------------------------
Results == {"finished", "waiting_user"}

Begin(r) == /\ draft[r] = NoOuter
            /\ \/ \E kind \in {"stream", "sync"}, new \in Tasks : BeginTurn(r, kind, new)
               \/ \E c \in cards : BeginApproval(r, c)
               \/ BeginRecovery(r)
End(r) == \E result \in Results :
             \/ EndApproval(r, result)
             \/ \E asks \in BOOLEAN : EndTurn(r, result, asks) \/ EndRecovery(r, result, asks)

Serve == \/ \E r \in Requests : Begin(r) \/ CommitStart(r) \/ End(r) \/ Fail(r)
         \/ \E t \in Tasks : ResumeTask(t)
Followup(r) == ReadFollowup(r) \/ WriteFollowup(r) \/ DropFollowup(r)

Next == \/ Serve /\ UNCHANGED draft
        \/ \E r \in Requests : Followup(r)

Spec == Init /\ [][Next]_vars

----------------------------------------------------------------------------
\* No follow-up is between its read and its write while a turn, an approval or a
\* recovery is in flight; it may overlap resumes and other follow-ups.
FollowupsApart == (\E r \in Requests : draft[r] # NoOuter) => \A r \in Requests : req[r].pc = "idle"

\* One request at a time: no turn, approval or recovery begins while another is in flight.
Serial == /\ \A q, r \in Requests : req[q].pc # "idle" /\ req[r].pc # "idle" => q = r
          /\ FollowupsApart

\* The turn a request works on continues the numbering of its task: a new turn
\* is later than every turn the task has, a decided approval is booked on its
\* last one.  A session row made up from a task row counts from 0 again
\* (OuterFor, and a recovery of a task the session has left), and the next turn
\* on it takes a number the task has used.
Onward == \A r \in Requests :
    LET q == req[r]
    IN  q.pc = "running" =>
          \A s \in steps[q.mine.task] :
             s.id[1] = "turn" => IF q.kind = "approval" THEN s.id[2] <= q.turn ELSE s.id[2] < q.turn

\* Once a turn has settled, the session row and the row of its active task tell
\* the same story, whatever turns, approvals, recoveries and resumes overlapped:
\* the two rows are written by the same commit, and no later write of one leaves
\* the other behind.  A follow-up writes the session row alone, so one that
\* overlaps a turn may bring a settled state back that the task row has left.
SettledMatchesTask ==
    outer.status \in {"waiting_user", "finished"} =>
        outer.status = OuterStatusOf(tasks[outer.task].status)

\* While requests do not overlap and turn numbers are not taken twice they agree
\* in every state, also after failed turns, approvals of earlier tasks,
\* follow-ups on tasks the session has left and recoveries; and a task has a
\* completion time exactly when it has succeeded, also after a reply, an
\* approval or a recovery reopened it.
RowsAgree ==
    /\ outer # NoOuter => outer.status = OuterStatusOf(tasks[outer.task].status)
    /\ \A t \in Tasks : tasks[t].done <=> tasks[t].status = "succeeded"
=============================================================================
