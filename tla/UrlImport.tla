------------------------------ MODULE UrlImport ------------------------------
(***************************************************************************)
(* The URL import pipeline: the url_import_runs rows, the background tasks *)
(* and user submissions that work on them, and the circuit breaker of the  *)
(* domain they fetch from (agent_runtime/workflows/url_import.py,          *)
(* domains/jobs/tool_guard.py, api/v1/job_sources.py).                     *)
(*                                                                         *)
(* A task reads its rows from one snapshot and commits once.  Its UPDATE   *)
(* carries only the columns whose value differs from the one it has read,  *)
(* so two overlapping tasks can leave a row neither of them has seen.      *)
(***************************************************************************)
EXTENDS Integers, UrlAnalysis

CONSTANTS Urls,          \* normalized URLs, all of one domain
          Analysis,      \* what analyze_import_url reads off each of them
          Fetcher,       \* the fetcher of the ones that have one
          Requests,      \* submissions of visible page content
          Concurrent,    \* can two transactions be open at the same time?
          OpenAfter,     \* open_after_failure_count of the ToolPolicy
          Cooldown,      \* circuit_cooldown_seconds, in ticks
          MaxRuns,       \* bound: import runs
          MaxTime        \* bound: last tick of the clock

\* The health row belongs to one domain and one fetcher.
ASSUME UrlsAssumption ==
    /\ Analysis \in [Urls -> Analysed]
    /\ \A u \in Urls : _select_fetcher(Analysis[u]) \in {Fetcher, NoFetcher}
ASSUME ConcurrentAssumption == Concurrent \in BOOLEAN
ASSUME PolicyAssumption == OpenAfter \in Nat \ {0} /\ Cooldown \in Nat \ {0}
ASSUME BoundsAssumption == MaxRuns \in Nat /\ MaxTime \in Nat

Runs == 1..MaxRuns       \* in creation order
NoRun == 0
MaxProbes == 1           \* max_half_open_probe_count

VARIABLES runs,     \* url_import_runs and their workflow_runs, committed
          health,   \* the domain_health_states row, committed
          task,     \* the transaction that works on a run in the background
          submit,   \* the run a visible-page submission is working on
          now       \* utc_now()

vars == <<runs, health, task, submit, now>>

----------------------------------------------------------------------------
(* ToolRuntimeGuard.  until is cooldown_until (0: none).                   *)

NoRow == [state |-> "absent", fails |-> 0, until |-> 0, probes |-> 0]
NewRow == [NoRow EXCEPT !.state = "unknown"]

\* _check_circuit lets the fetch through.
Allows(h, t) == /\ ~(h.state = "open" /\ h.until > t)
                /\ ~(h.state = "half_open" /\ h.probes >= MaxProbes)

\* What pre_check leaves of the row it lets through: an open circuit whose
\* cooldown is over is probed.
Probed(h) == IF h.state = "open" THEN [h EXCEPT !.state = "half_open", !.probes = @ + 1] ELSE h

\* Mutant: a failed probe is counted from one again.
RecordResetting(h, t, ok) ==
    IF ok THEN [state |-> "closed", fails |-> 0, until |-> 0, probes |-> 0]
    ELSE IF h.state # "half_open" /\ h.fails + 1 >= OpenAfter
    THEN [state |-> "open", fails |-> h.fails + 1, until |-> t + Cooldown, probes |-> 0]
    ELSE [h EXCEPT !.fails = IF h.state = "half_open" THEN 1 ELSE @ + 1]

\* post_record.
Record(h, t, ok) ==
    IF ok THEN [state |-> "closed", fails |-> 0, until |-> 0, probes |-> 0]
    ELSE IF h.fails + 1 >= OpenAfter
    THEN [state |-> "open", fails |-> h.fails + 1, until |-> t + Cooldown, probes |-> 0]
    ELSE [h EXCEPT !.fails = @ + 1]

\* The UPDATE of a session that read old and holds new, on the current row.
Column(current, old, new) == IF new # old THEN new ELSE current
Flush(row, old, new) == [state  |-> Column(row.state, old.state, new.state),
                         fails  |-> Column(row.fails, old.fails, new.fails),
                         until  |-> Column(row.until, old.until, new.until),
                         probes |-> Column(row.probes, old.probes, new.probes)]

----------------------------------------------------------------------------
Absent == [url |-> "none", status |-> "absent", wf |-> "none", next |-> "none",
           dup |-> NoRun, force |-> FALSE, extracted |-> FALSE, finished |-> FALSE]
Idle == [pc |-> "idle", row |-> Absent, old |-> NoRow, new |-> NoRow, ok |-> FALSE]

Init == /\ runs = [i \in Runs |-> Absent]
        /\ health = NoRow
        /\ task = [i \in Runs |-> Idle]
        /\ submit = [r \in Requests |-> NoRun]
        /\ now = 0

\* A task that waits in the queue has no transaction open.
Busy == \/ \E i \in Runs : task[i].pc \notin {"idle", "queued"}
        \/ \E r \in Requests : submit[r] # NoRun
MayOpen == Concurrent \/ ~Busy

Tick == /\ now < MaxTime
        /\ now' = now + 1
        /\ UNCHANGED <<runs, health, task, submit>>

----------------------------------------------------------------------------
(* POST /import-url: create_url_import_run, then commit and queue.         *)

\* Mutant: only finished imports count as earlier records of the URL.
LatestFinishedRuns(u) ==
    LET same == {i \in Runs : runs[i].url = u /\ runs[i].status = "succeeded"}
    IN  IF same = {} THEN {NoRun} ELSE {i \in same : \A j \in same : j <= i}

\* get_by_normalized_url_hash: any earlier run, whatever became of it.
LatestRuns(u) ==
    LET same == {i \in Runs : runs[i].url = u}
    IN  IF same = {} THEN {NoRun} ELSE {i \in same : \A j \in same : j <= i}

Created(u, dup, force) ==
    LET run == [Absent EXCEPT !.url = u, !.dup = dup, !.force = force]
    IN  CASE dup # NoRun ->
               [run EXCEPT !.status = "duplicate", !.wf = "completed", !.next = "skip_duplicate",
                           !.finished = TRUE]
          [] dup = NoRun /\ RequiresVisiblePage(Analysis[u]) ->
               [run EXCEPT !.status = "waiting_user", !.wf = "waiting_user",
                           !.next = "request_user_visible_page"]
          [] OTHER ->
               [run EXCEPT !.status = "running", !.wf = "running"]

BeginCreate(i, u, force) ==
    /\ MayOpen
    /\ task[i] = Idle /\ runs[i] = Absent
    /\ \A j \in Runs : j < i => task[j] # Idle \/ runs[j] # Absent
    /\ \E dup \in IF force THEN {NoRun} ELSE LatestRuns(u) :
          task' = [task EXCEPT ![i].pc = "creating", ![i].row = Created(u, dup, force)]
    /\ UNCHANGED <<runs, health, submit, now>>

CommitCreate(i) ==
    /\ task[i].pc = "creating"
    /\ runs' = [runs EXCEPT ![i] = task[i].row]
    /\ task' = [task EXCEPT ![i] = IF task[i].row.status = "running"
                                   THEN [Idle EXCEPT !.pc = "queued"] ELSE Idle]
    /\ UNCHANGED <<health, submit, now>>

----------------------------------------------------------------------------
(* _run_url_import_background.                                             *)

HasFetcher(i) == _select_fetcher(Analysis[runs[i].url]) # NoFetcher

\* continue_url_import_workflow up to the fetch.  A missing health row is
\* inserted at once.
BeginFetch(i) ==
    LET old == health
        row == IF old = NoRow THEN NewRow ELSE old
    IN  /\ MayOpen
        /\ task[i].pc = "queued" /\ HasFetcher(i)
        /\ Allows(row, now)
        /\ task' = [task EXCEPT ![i].pc = "fetching", ![i].old = old, ![i].new = Probed(row)]
        /\ UNCHANGED <<runs, health, submit, now>>

\* Mutant: the exception handler rolls back and does nothing else.
FailedSilently(run) == run

\* _mark_url_import_background_failed.
MarkedFailed(run) == [run EXCEPT !.status = "failed_recoverable", !.wf = "failed_recoverable",
                                 !.next = "retry_same_stage"]

\* No fetcher fits the source type, or the guard refuses the fetch: its answer
\* reads state.value, and the state of a row that was loaded is a plain string.
\* Either way an exception ends the task.
RefuseFetch(i) ==
    /\ MayOpen
    /\ task[i].pc = "queued"
    /\ HasFetcher(i) => ~Allows(health, now)
    /\ runs' = [runs EXCEPT ![i] = MarkedFailed(@)]
    /\ task' = [task EXCEPT ![i] = Idle]
    /\ UNCHANGED <<health, submit, now>>

EndFetch(i, ok) ==
    /\ task[i].pc = "fetching"
    /\ task' = [task EXCEPT ![i].pc = "fetched", ![i].ok = ok, ![i].new = Record(@, now, ok)]
    /\ UNCHANGED <<runs, health, submit, now>>

\* A row another task has inserted meanwhile fails this task's INSERT.
Saves(i) == /\ task[i].old = NoRow => health = NoRow
            /\ health' = Flush(health, task[i].old, task[i].new)

\* _apply_failed_tool_result.
FailedStatus(f) == CASE f.next = "request_user_visible_page" -> "waiting_user"
                     [] f.next # "request_user_visible_page" /\ f.retryable -> "failed_recoverable"
                     [] OTHER -> "failed_terminal"
FailedTo(run, f) ==
    [run EXCEPT !.status = FailedStatus(f),
                !.wf = IF FailedStatus(f) = "failed_terminal" THEN "failed" ELSE FailedStatus(f),
                !.next = f.next]

CommitFetchFailed(i, f) ==
    /\ task[i].pc = "fetched" /\ ~task[i].ok
    /\ Saves(i)
    /\ runs' = [runs EXCEPT ![i] = FailedTo(@, f)]
    /\ task' = [task EXCEPT ![i] = Idle]
    /\ UNCHANGED <<submit, now>>

\* Mutant: an extraction without leads is dated and leaves the workflow as it was.
ExtractedForgetful(run, outcome) ==
    IF outcome = "leads"
    THEN [run EXCEPT !.status = "succeeded", !.wf = "completed", !.next = "continue_workflow",
                     !.extracted = TRUE, !.finished = TRUE]
    ELSE [run EXCEPT !.status = "partial", !.next = "request_manual_paste", !.finished = TRUE]

\* _extract_job_leads_from_raw, as the columns it changes on a run that was read
\* RUNNING or WAITING_USER: finished_at and extracted_count of such a run are
\* empty, so only a run that finds leads writes them.
Extracted(run, outcome) ==
    CASE outcome = "leads" ->
            [run EXCEPT !.status = "succeeded", !.wf = "completed", !.next = "continue_workflow",
                        !.extracted = TRUE, !.finished = TRUE]
      [] outcome = "signals" ->
            [run EXCEPT !.status = "partial", !.wf = "completed", !.next = "enrich_recruiting_signal"]
      [] outcome = "empty" ->
            [run EXCEPT !.status = "partial", !.wf = "failed_recoverable", !.next = "request_manual_paste"]
      [] outcome = "error" ->
            [run EXCEPT !.status = "partial", !.wf = "failed_recoverable", !.next = "retry_same_stage"]

Outcomes == {"leads", "signals", "empty", "error"}

CommitImport(i, outcome) ==
    /\ task[i].pc = "fetched" /\ task[i].ok
    /\ Saves(i)
    /\ runs' = [runs EXCEPT ![i] = Extracted(@, outcome)]
    /\ task' = [task EXCEPT ![i] = Idle]
    /\ UNCHANGED <<submit, now>>

\* Any other exception of the task, a failed INSERT included: rollback, mark.
FailTask(i) ==
    /\ task[i].pc \in {"fetching", "fetched"}
    /\ runs' = [runs EXCEPT ![i] = MarkedFailed(@)]
    /\ task' = [task EXCEPT ![i] = Idle]
    /\ UNCHANGED <<health, submit, now>>

----------------------------------------------------------------------------
(* POST /import-runs/{id}/visible-page-content.                            *)

BeginSubmit(r, i) ==
    /\ MayOpen
    /\ submit[r] = NoRun /\ runs[i].status = "waiting_user"
    /\ submit' = [submit EXCEPT ![r] = i]
    /\ UNCHANGED <<runs, health, task, now>>

\* _save_visible_page_raw_lead: the run is running again.
VisiblePageSaved(run) == [run EXCEPT !.status = "running", !.wf = "running", !.next = "none"]

EndSubmit(r, outcome) ==
    /\ submit[r] # NoRun
    /\ runs' = [runs EXCEPT ![submit[r]] = Extracted(VisiblePageSaved(@), outcome)]
    /\ submit' = [submit EXCEPT ![r] = NoRun]
    /\ UNCHANGED <<health, task, now>>

\* An exception: the request's transaction is never committed.
AbortSubmit(r) ==
    /\ submit[r] # NoRun
    /\ submit' = [submit EXCEPT ![r] = NoRun]
    /\ UNCHANGED <<runs, health, task, now>>

----------------------------------------------------------------------------
Work(i) == \/ CommitCreate(i) \/ BeginFetch(i) \/ RefuseFetch(i)
           \/ \E ok \in BOOLEAN : EndFetch(i, ok)
           \/ \E f \in FetchFailures(Fetcher) : CommitFetchFailed(i, f)
           \/ \E outcome \in Outcomes : CommitImport(i, outcome)
           \/ FailTask(i)

Submission(r) == \/ \E i \in Runs : BeginSubmit(r, i)
                 \/ \E outcome \in Outcomes : EndSubmit(r, outcome)
                 \/ AbortSubmit(r)

Next == \/ Tick
        \/ \E i \in Runs : Work(i) \/ \E u \in Urls, force \in BOOLEAN : BeginCreate(i, u, force)
        \/ \E r \in Requests : Submission(r)

Spec == Init /\ [][Next]_vars

\* Background tasks run in a thread pool that serves its queue; an HTTP client
\* with timeouts ends every fetch.
Fairness == \A i \in Runs : WF_vars(Work(i))
FairSpec == Spec /\ Fairness

----------------------------------------------------------------------------
RunStatus == {"absent", "running", "waiting_user", "succeeded", "partial", "duplicate",
              "failed_recoverable", "failed_terminal"}
WorkflowStatus == {"none", "running", "waiting_user", "completed", "failed", "failed_recoverable"}
NextActions == {"none", "retry_same_stage", "retry_with_next_fetcher", "skip_duplicate",
                "request_user_visible_page",
                "request_manual_paste", "enrich_recruiting_signal", "continue_workflow"}
RunRows == [url : Urls \cup {"none"}, status : RunStatus, wf : WorkflowStatus,
            next : NextActions, dup : Runs \cup {NoRun}, force : BOOLEAN,
            extracted : BOOLEAN, finished : BOOLEAN]
HealthRows == [state : {"absent", "unknown", "closed", "open", "half_open"}, fails : Nat,
               until : Nat, probes : Nat]

TypeOK ==
    /\ runs \in [Runs -> RunRows]
    /\ health \in HealthRows
    /\ task \in [Runs -> [pc : {"idle", "creating", "queued", "fetching", "fetched"},
                          row : RunRows, old : HealthRows, new : HealthRows, ok : BOOLEAN]]
    /\ submit \in [Requests -> Runs \cup {NoRun}]
    /\ now \in 0..MaxTime

\* The workflow status a run of this status may have.
WorkflowOf(status) ==
    CASE status = "absent"                      -> {"none"}
      [] status \in {"succeeded", "duplicate"}  -> {"completed"}
      [] status = "partial"                     -> {"completed", "failed_recoverable"}
      [] status = "failed_terminal"             -> {"failed"}
      [] OTHER                                  -> {status}

\* The import run and the workflow run behind it tell the same story after every
\* commit, whatever tasks and submissions overlap and wherever they fail.
RunMatchesWorkflow == \A i \in Runs : runs[i].wf \in WorkflowOf(runs[i].status)

\* "test_duplicate_url_creates_duplicate_run_without_fetching_again"
\* (tests/test_url_import_workflow.py:230): without force_refresh a URL that has a
\* run is not imported again.
UrlImportedOnce ==
    \A i, j \in Runs :
        i < j /\ runs[j] # Absent /\ ~runs[j].force /\ runs[i].url = runs[j].url
            => runs[j].status = "duplicate"

\* The circuit can always be closed again: there is a time from which the guard
\* lets a fetch through.  "Half-open circuit already used its probe budget" tells
\* the caller to WAIT_FOR_COOLDOWN (tool_guard.py:301).
CircuitCanClose == Allows(health, health.until)

\* How far a run is, for the client that polls it.
PhaseOf(run) == CASE run.status = "absent"       -> "absent"
                  [] run.status = "running"      -> "open"
                  [] run.status = "waiting_user" -> "asking"
                  [] OTHER                       -> "settled"

Ledger == INSTANCE ImportLedger WITH phase <- [i \in Runs |-> PhaseOf(runs[i])]

\* However tasks, submissions and their failures overlap, the rows a client polls
\* behave as the ledger says: work that was begun ends, and a run that is settled
\* is never opened again, neither by a task nor by a late submission.
ImplementsLedger == Ledger!FairSpec
=============================================================================
