# JobPilot agent: a TLA+ verification project

JobPilot is a local assistant for job applications: a FastAPI back end
(`src/apps/api/app`) that runs an LLM agent over chat sessions, asks the user
before risky tools, keeps durable state of its tasks, collects job leads from
many sources and keeps a board of applications. This project models the parts of
the back end that keep or decide state, checks them with TLC on small instances
and proves central invariants with TLAPS for every instance. Paths below are
relative to `src/apps/api/app`.

## The system

Handlers are synchronous `def` endpoints, so Starlette runs them in a thread
pool: requests overlap. Each has a SQLAlchemy session with
`expire_on_commit=False` and `autoflush=False` (`db/session.py`) on MySQL
(default, REPEATABLE READ) or SQLite. So a request reads from the snapshot its
first query took, keeps the objects it loaded even after it has committed, and
its UPDATE carries only columns whose value it changed. Much of what is hard in
this code comes from there; the rest from a language model that may answer, call
or claim anything, and from child processes and services that may not answer.

| Component | State it keeps | Operations | Hard behaviour | What makes it correct |
|---|---|---|---|---|
| Checkpoint store `agent_runtime/checkpoints.py` | `workflow_checkpoints` rows of a run | `save`, `load_latest` | MySQL keeps whole seconds, Python microseconds | a resume loads the checkpoint of the step the run is at |
| Approval workflow `agent_runtime/graph_factory.py`, `domains/automation`, `api/v1/agent.py` | `workflow_runs`, `approval_requests`, checkpoints | pause, decide by button or chat, continue, reject | overlapping decisions, failure after the tool acted, SDK agents that pause again, tools that commit the session | one decision, one effect; both rows agree; a pending card can be decided |
| Agent turn `graph_factory.py`, `loop_agent/` | agent state, loop state, tool logs, durable steps | requested tool, loop rounds, completion guard, card, continuation | budgets, repeated calls, aborted loops, files that change under a card | no answer over an open write; the card is the call; log and steps agree |
| Tool catalogue, permissions, guard `tool_registry.py`, `tool_permissions.py`, `guardrails.py` | none (decisions) | merge the policies of Skills, decide a call | several Skills loaded at once | what a Skill forbids never runs |
| Filesystem Skill `skills/filesystem_executor.py` | the user's files | read, copy, rename, replace, with defaults from the file context | arguments completed again at execution | files change only as the card said |
| Outer session `loop_agent/outer_session.py`, `api/v1/agent.py` | the `outer_session` JSON of a session | message, approval, follow-up, recovery | whole-value write-back of a stale copy; a stream commits twice | session row and task row agree |
| Durable state and stage plan `durable_state/`, `api/v1/agent.py` | task, step and stage rows | start, complete, skip, prepare for retry, resume | reopened tasks, recoveries that book on another task | plan and task agree; handoffs arrive |
| Delegation `agent_as_tool.py`, `sdk_agents/` | a run of a child agent, `os.environ` | delegate, retry, pause, resume | transient retries, several calls to confirm, claims of the model | success needs evidence; only the approved call runs |
| External tasks `external_tasks/` | task rows with events | create, dispatch, record | timeouts, answers for another task, retries | a served task is not repeated |
| MCP gateway `mcp_gateway/` | a session per server, a listing cache | discover, call, close | threads and timeouts, a server that dies or hangs, a shared stale cache | every request ends; a listing is believed no longer than the cache lives |
| URL import `workflows/url_import.py`, `api/v1/job_sources.py` | `url_import_runs`, their workflow runs | create, background import, visible-page submission | in-memory queue, check-then-insert, exceptions anywhere | run and workflow agree; every import ends; a URL is imported once |
| Circuit breaker `domains/jobs/tool_guard.py` | `domain_health_states` | `pre_check`, `post_record` | state decided on a loaded row and flushed after the fetch | a domain is never locked out |
| Job discovery `domains/jobs/`, `workflows/job_discovery.py`, `apps/worker` | sources, runs, raw leads, leads, signals, companies, jobs | sync of each kind, verify, convert, schedule | unique keys under concurrent syncs, partial pages, exceptions in one entry | a succeeded run left nothing half done; a lead keeps its job |
| Applications `domains/applications/` | jobs, applications, events | board, mail candidates, mail sync | a mail read again, staged, confirmed and synchronised in any order; times with offsets; names that other companies share | a mail acts once and finds its application; the timeline explains the status |
| Conversations and memory `domains/conversations/`, `agent_runtime/context/`, `agent_runtime/memory/` | messages, summaries, candidates, memories | turn, compaction, flush, consolidation | rows of one second in random order, stale compactions | calls stay paired; nothing is forgotten |

Interactions: a chat message enters the outer session, which opens a turn and
updates the plan of its task; the turn runs the loop, whose calls pass policy and
guard and reach tools, children or MCP servers, or leave a card; a decision
continues the run and then completes the outer turn. Every turn appends messages
and may compact the conversation. URL imports, syncs and the agent's tools write
the same job tables.

## Modules

* `CheckpointRows`: operators on checkpoint rows (`_latest_checkpoint`), shared by
  `CheckpointStore` and `ApprovalWorkflow`.
* `CheckpointStore`: clock, rows and `current_step` of one run. `NewTimestamp` is
  the bump in `save`; `Stored` is what the column does to a time (an external
  assumption: MySQL rounds). `Follows` is the order of `_save_step` calls.
* `ApprovalWorkflow`: `wf`, `ap`, `cps` are the committed rows, `req` the
  requests in flight, `lock` the row locks, `ran` counts effects on the world.
  A decision is read (guard on a snapshot), UPDATE (waits for the lock),
  execution of the tool, commit; it can die anywhere. A refused request changes
  nothing and is not an action. Kinds of tool: `plain`, `sdk` (resumable
  sub-agent), `commits` (commits or rolls back the request's own session; the rest
  of the request is then a transaction on a `NewSnapshot`, and `writes` are the
  statuses its UPDATE will carry: one that its copy has already is left out).
  `MCApproval` puts two deployments side by side: overlapping requests on one run,
  and requests one after another over two runs.
* `ToolCatalog`: the registry's tools with their risk and the two decisions before
  a call, `decide` and `pre_check`. `FilesystemSkill`: one structured call of the
  Skill, given the file context and the files. `AgentTurn` EXTENDS both: `st` is
  `AgentState`, `lp` the running loop, `before` the state an aborted loop returns,
  `log` the `tool_call_logs`, `steps` the durable tool steps, `card` the approval.
  The model may answer or call anything in `ModelDecisions`; a tool ends in any
  way its runtime knows. `MCAgentTurn` has the inputs, plans and Skills.
* `ExternalTask`: operators on a task row. `SubAgents` EXTENDS it: a delegated call
  through `AgentRuntime.call`, its child under the OpenAI Agents SDK (external),
  pause, resume, transient retries, and the executors that answer in one step.
* `McpGateway`: the declaration file, the 60-second listing cache, the registry
  client of each turn and the persistent sessions: worker thread, queue, ready
  flag, kept error, stop flag, futures. `MCSubAgents` checks it beside `SubAgents`,
  each with the other at rest.
* `OuterSession`: the session's outer value, the task and step rows, open cards and
  the requests in flight with their copies. A step's `width` is the length of its
  id, `IdWidth` what the database accepts. `MCOuterSession` again has two
  deployments: SQLite with one request at a time, whose turns are numbered onward
  (`Serial`, `Onward`), and MySQL with overlapping ones. A follow-up is two steps:
  `draft` is the value it has read and will write back whole.
* `StagePlan` EXTENDS `OuterSession` and joins each of its commits with what the
  same commit does to the five stages of the task. `MCStagePlan` has the turns.
* `UrlAnalysis`: what is decided from a URL alone. `UrlImport`: import runs with
  their workflow status, the health row of one domain and fetcher, background
  tasks, submissions and a clock; `Flush` is the column-wise UPDATE.
  `ImportLedger` is the abstract specification: what a client that polls a run may
  rely on. `UrlImport!Ledger` instantiates it with `PhaseOf`, which reads the phase
  of a run off its status and next action.
* `Tables`: a transaction of the ORM, from its snapshot to its commit; used by
  `JobDiscovery`, `Applications` and `Memory`. `Inserted` is an INSERT.
* `JobDiscovery`: the job tables; every sync, verification and conversion is one
  transaction that commits or fails on a unique key as a whole. An article may be
  unread, fail, give its signal or be `silent` (no year, no employer in its title);
  the site of a due source may be down, raise in the middle or have no address.
  `MCJobDiscovery` checks the paging of OfferIO beside it, over the services a
  state variable ranges over.
* `Applications`: jobs, applications, events and mail candidates of companies and
  titles. A name is the set of its words and is found in the names that have them
  all; a time is a clock time with or without an offset, of which the columns keep
  the clock time. `MCApplications` bounds what TLC reaches.
* `Transcript`: what a compaction summarises and what a turn sees; `Selected` is a
  query with a condition, in the order of the rows. `Memory`: the requests of one
  session over messages, summaries, candidates and memories. `MCMemory` has the
  bounds of its three modes.
* Loops over entries, messages and drafts are recursive functions
  (`LET Step[k \in 0 .. n] == ...`), not RECURSIVE operators or folds, so that what
  they do can be proved by induction.
* `ApprovalWorkflowProofs` (with `CheckpointStore`), `UrlImportProofs`,
  `OuterSessionProofs` (with `StagePlan`), `AgentTurnProofs`, `SubAgentsProofs` (with
  `McpGateway`), `ApplicationsProofs`, `JobDiscoveryProofs`, `MemoryProofs`:
  theorems about the modules they are named after. What
  `CheckpointStore` would name as `ApprovalWorkflow` does is called `Store...` there,
  so that one module can speak of both.

Definitions marked `Mutant` are wrong variants of the definition that follows;
PROJECT.json lists which property each must break.

## Runs

| Run | Instance | Shows |
|---|---|---|
| CheckpointSeconds | 4 ticks to a second | `ResumesAtCurrentStep`: a resume loads the current step although rows tie |
| Approval | 2 requests on one run, all kinds of tool, failures; or in series over 2 runs | `PendingIsDecidable`, `DecisionMatchesRun` (but for tools that commit the session), `RequestEnds` under overlap; in series `DecisionMatchesRun` for every tool, one effect per approval, none after a rejection, a decision is final |
| ApprovalDoubleClick (violation) | 2 requests, a plain tool | two overlapping decisions of one approval both run its tool, against the comment quoted under "findings" |
| AgentTurn | 3 paths, 3 other tools, two stage plans, three sets of Skills, 6 million states | `OpenWriteIsNotAnswered`, `CardMatchesCall`, `StepsMatchLog`, `ChangedAsApproved`, `SkillPoliciesHold` |
| SubAgents | 1 delegation of any of 7 capabilities; or 2 turns on one MCP server | `EvidenceBacksSuccess`, `ApprovedCallsOnly`, `DiscoveryFirst`, `ServedTasksNotRepeated`, `EnvironmentKept`, `EveryDelegationAnswers`; `EveryMcpCallAnswers`, `RefusalsAreFresh` |
| OuterSession | 2 requests, 2 tasks, follow-ups that overlap resumes and one another but no turn; or in series over 3 tasks with recoveries, turns numbered onward | `SettledMatchesTask`; in series session and task agree in every state, `completed_at` exactly for succeeded tasks |
| StagePlan | requests in series, 2 tasks, 3 turns | `PlanMatchesTask`, `HandoffsArrive` |
| ImportSerial | 4 imports, 1 submission, one transaction at a time | `UrlImportedOnce`, `CircuitCanClose` |
| ImportConcurrent | 2 imports, 3 submissions overlapping, a URL without fetcher | `RunMatchesWorkflow`, `ImplementsLedger` (a refinement, with fairness) |
| JobDiscovery | 2 transactions, 2 sources of 3 kinds | `SucceededRunIsComplete`, `PagesComplete`, `JobOfLeadIsFinal` |
| Applications | 2 mails, 2 applications, 2 companies of which the name of one is found in the other's, requests in any order; or 1 mail and 1 posting with times | `TimelineTellsStatus`, `MailAppliedOnce`, `RejectedNeverApplied`, `TimesOrdered`, `MailJoinsApplication` |
| Memory | 2 requests, in three modes | `ContextIsPaired`, `NothingForgotten`, `PreferencesLearnt`, `LessonsMerged` |

### Bounds

Bounds are constants named `Max...`, or definitions marked `Bound`. For the
approval races one run suffices because locks and guards are per run; in series
two are needed for the choice of the latest pending card. `MaxApprovals` exceeds
the number of overlapping requests, so that a sub-agent pausing again always
finds a free row. `MaxTasks = 3` lets a session leave a task, start another and
come back by an approval or a follow-up. `OpenAfter` and `Cooldown` are fields of
`ToolPolicy`, 3 and 30 minutes by default; 2 failures and one tick let opening,
refusing and probing fit in a few imports. In `AgentTurn` the budget of tool calls
and the rounds of the loop are the program's own; three paths are the source, the
target and an unrelated file. `MaxCalls = 3` lets a child discover, query and fail;
`MaxItems = 2` is the smallest number for which the wrong call could run. The
gateway starts with a listing that failed at time 0 and a cache life of 2 ticks,
so that one turn uses the failure, a second one may see it expire, and both then
meet on a session that is closed and started again. `Applications` has one
request in flight: two would break `MailAppliedOnce` as described below.
`MatchLimit = 1` stands for the 20 rows of the lookup, so that it is exceeded, also
by the other company. Times are read and edited in tables with one posting and one
mail (`OneMail`), since no action compares the times of two notifications; the tables
with more have none (`Untimed`). A start of 3 and a deadline of 2 with the offsets 0
and 1 are in order, out of order, and in order only before the offset is dropped.
`Memory` keeps its last 4 messages instead of 50 and lists 5 instead of 500, so
that compaction and truncation happen in every session. `ran` saturates at 2.

Most configurations switch deadlock checking off: the bounds stop the system, and
so may the user, who sends nothing more. `Memory` can always go on.

### Fairness

* `ApprovalWorkflow!Fairness`: a request that holds its locks keeps running (weak),
  and InnoDB grants a row lock in arrival order, so a waiting UPDATE is not
  overtaken for ever (strong). Nothing is assumed of the user.
* `UrlImport!Fairness`: the thread pool serves its queue and the HTTP client has a
  timeout, so each background task keeps taking steps. A restart loses the queue and
  leaves runs RUNNING; no code handles that and `ImplementsLedger` is checked
  without restarts. The abstract ledger only promises that work ends (`Settle`).
* `SubAgents!Fairness`: the thread of a request does not stop in the middle of a
  call; every dispatch and model call has a timeout. Decisions are the user's.
* `McpGateway!McpFairness`: the caller's thread runs and `Event.wait(timeout)` and
  `Future.result(timeout)` return. Nothing is assumed of the server, of the worker
  thread or of the clock.

## Proofs

All theorems hold for every value of the constants under the named assumptions
of the modules (finite bounds are naturals, policy values positive, sets of inputs
of the right type). Every invariant and action property a passing run checks is a
theorem; what else a theorem assumes is in its statement, and is listed here.

* `ApprovalWorkflowProofs!ResumeCorrect`: `ResumesAtCurrentStep` of `CheckpointStore`. The stored
  timestamps need not be strictly increasing, so the invariant says that the
  latest save carries the maximum: its row is among the newest and has the
  current step, and the tie-break on `current_step` does the rest.
* `ApprovalWorkflowProofs!TypeCorrect`, `PendingStaysDecidable`,
  `DecisionsAgree`. The inductive invariant `IInv` adds to the types: the newest
  checkpoint of a run exists (`LatestExists`), a pending approval and its run
  name each other (`Linked`), the run of a pending approval is paused with a
  newest checkpoint of that approval (`Paused`), a run has one pending turn
  approval (`OneAtATime`), and what a request has executed fits its decision and
  tool (`Branch`). `DecisionsAgree` is `DecisionMatchesRun` of both halves of
  `MCApproval`: for any overlap where the tool leaves the session alone, and for
  every tool in series. It is not inductive by itself: the commit of a second decision
  needs `Branch` to know which pair of rows it writes, and after a tool that
  committed, what is left unwritten must say already what would be written
  (`Unwritten`).
  `SerialToolTheorem`, `SerialRejectionTheorem` and `SerialDecisionTheorem` are
  about the serial half of `MCApproval`: only the first request is in flight, what
  it holds is still to be decided, or approved by a commit of the tool itself, and
  a tool that ran belongs to an approval that is approved or about to be
  (`OneByOne`, `InHand`, `RanApproved`).
* `UrlImportProofs!TypeCorrect`, `RunsAgree`, `CircuitRecovers`, `OnceTheorem`,
  `LedgerSafety`. `RunsAgree` needs only that rows about to be inserted agree too.
  `CircuitRecovers` and `OnceTheorem` assume that transactions do not overlap
  (`~Concurrent`). For the first the invariant says that an open circuit has seen
  `OpenAfter` failures and that a task's copy is the committed row, so its failed
  probe opens the circuit again; for the second, that rows are taken in order and
  that a row is a duplicate when an earlier one has its URL (`Recognised`), from
  its creation on and for ever, because submissions never reach a duplicate.
  `LedgerSafety` is the safety half of the refinement, `Spec => Ledger!Spec`: each
  commit moves the phase of one run the way the ledger allows, whatever the other
  tasks and submissions do in between. Its invariant (`LedgerInv`) says what a
  task, a queued import and a submission know of the row they will overwrite.
* `OuterSessionProofs!SettledTheorem`: `SettledMatchesTask` of overlapping turns,
  approvals and resumes, for `IdWidth <= 64`, the column of MySQL, and for behaviours
  in which no follow-up is between its read and its write while one of them is in
  flight (`FollowupsApart`): a draft that is about to be written back then tells what
  the row of its task tells (`SettledDrafts`), since only resumes and follow-ups have
  come between. There the first resume fails, so no
  step is ever pending and no recovery begins (`Narrow`, `NoRecovery`), and a turn
  that has settled stays the latest step of its task.
  `RowsTheorem` and `SerialRowsTheorem`: `RowsAgree` under `Serial` and `Onward`,
  for every width. The steps of a task are numbered in the order of its turns
  (`Numbered`), the latest one fits the status of the task (`Fits`) also for a task
  the session has left, and the one request's copy is what it was when it began
  (`InFlight`). `Onward` is needed, see below.
  `HandoffsTheorem` and `PlanTheorem` are about `StagePlan`. The first needs no more
  than the form of a plan and that a turn which answers goes through all of it
  (`Shaped`, `Ran`). `PlanTheorem` has the hypotheses of `RowsTheorem`: a resume may
  make a task wait again without touching its plan, so every task must fit its
  latest step (`AllFit`) and a recovery must run on the task it recovers (`Aimed`),
  which holds because a task that was updated while the session waits on another
  one has nothing left to reissue (`Led`). `Logged` says what the loop over a turn's
  calls leaves in each stage, not the loop, so that no induction is needed.
* `AgentTurnProofs!OpenWriteTheorem`, `CardTheorem`, `StepsTheorem`,
  `SkillsTheorem`, `ApprovedChangesTheorem`. The invariant says that the guard
  knows of every read that waits for its write, from the contract the loop began
  with or from what it has seen (`Tracked`); that the calls counted are the calls
  logged, few enough for the steps there are (`Counted`); that an aborted loop
  falls back to a state without a prepared answer (`NotAnswered`); and that every
  logged call was permitted by the loaded Skills when it ran (`SkillsRespected`).
  The lemmas on `ToolCatalog` and `FilesystemSkill` say what the two decisions let
  through and what a confirmed call does to the files.
* `SubAgentsProofs!EvidenceTheorem`, `ApprovalTheorem`, `DiscoveryTheorem`,
  `TaskTheorem`. What a child did and what was recorded of it tell the same
  (`Backed`), what ran and what is about to run was agreed to (`Consented`), and a
  delegation has a task for each attempt so far, of which nothing came of any but the
  last (`Counted`): it failed, or what came was the answer for another task, whose
  refusal quotes that answer and may say that it is worth another try.
  `EnvironmentTheorem` assumes that children run one at a time (`Alone`): the one that
  runs will put back what was there before (`SavedBefore`).
* `SubAgentsProofs!RefusalTheorem` (of `McpGateway`): a listing of the cache that lacks a tool is no
  older than the last listing that came without it (`CacheDated`), whatever the
  workers, the queues and the timeouts do. This bounds how long one listing is
  believed. It does not say that a server comes back: see below.
* `ApplicationsProofs!TimelineTheorem`, `AppliedOnceTheorem`, `RejectedTheorem`,
  `TimesTheorem`, `JoinsTheorem`, while requests come one at a time (`Alone`): the
  merge of the columns is then the table the request has (`MergedAlone`). A change
  that a mail made is backed by an event of that mail which was synchronised or
  confirmed (`Backed`), a mail has one event for an application (`Keyed`) and one
  change (`Once`): together they say why the dedup by Message-ID suffices, however
  reading, staging, confirming and synchronising follow each other. Without `Alone`
  two requests may confirm one candidate (see below). `TimesTheorem` is about
  notifications that were synchronised, `JoinsTheorem` about lookups that list every
  row the names of the mail are found in; the limits are the code's, see below.

* `JobDiscoveryProofs!TablesStaySound`, `SucceededRunsAreComplete`,
  `JobsOfLeadsAreFinal`, of any number of overlapping transactions. `Sound` says of
  a set of tables that it has its shape, that succeeded runs are complete (but for the
  signals of titles that give none) and that
  a lead with a job has the job of its identity; `Grown(v, d)`, that the tables d are
  v with more rows and finer statuses. Every handler maps sound tables to sound
  grown ones (`Writes`): one lemma per step of an entry, an article, a due source,
  and an induction over each loop. A transaction that was open meanwhile holds
  tables grown from a snapshot, not from what is committed now. `MergedWrites` says
  that the merge of the columns is sound and grown all the same, because a commit
  fails when two transactions inserted one key (`Free`).
  `FetchIsComplete`, `PagesAreComplete`: the paging of OfferIO returns all entries up
  to the limit when the service names its pages, or gives the total and honours the
  page size (`Honest`); by an induction from the last page backwards (`From`).
* `MemoryProofs!RepairPairs`: what `repair_tool_result_pairing` returns is paired, for
  every sequence of messages; the pass keeps a prefix that is paired but for a call
  at its end (`Half`). `CutsKeepPairs`: what `find_cut_point` leaves to the summary
  ends with no call whose result stays, spares the newest message, and is no longer
  than the budget requires.
  `MemoryWellFormed` is the inductive invariant: tables keep their shape; the view
  of a request extends its snapshot, and what is committed extends the snapshot too
  (`RequestFine`); what it has inserted nobody else has (`Apart`), since ids are above
  all that any request has seen (`Below`) or all that is ordered (`Known`). An action
  opens a transaction, works in its view, commits it or ends it (`Opened`, `Worked`,
  `Committed`, `Ended`); `Work(v, w)` is all that later proofs need to know of what
  building a context, a tool call, an answer, a compaction or a consolidation does.
  `ContextsArePaired` follows from `RepairPairs`, since every row is a message
  and every result names its call.
  `CompactedIsLearnt`: every row of a message says the same in the tables it was
  taken from (`Carried`), and a merge takes it from one transaction with the summary
  and the candidates it speaks of; so overlapping requests do no harm here. It is about
  summaries that record a flush: after one that failed nothing was learnt.
  `LessonsAreMerged` and `NothingIsForgotten` are about requests one at a time, as the
  properties are (`OneAtATime`): a commit is then the view of the request
  (`SerialCommit`). A promotion keeps one memory for a key with all its evidence
  (`LM`), draft after draft by induction. For the other, summaries are listed by
  second, and a later second or, on exact columns, a later place means a higher
  id (`Ordered`, also when rows of a dead request are taken out), so the latest summary
  of a view is the one with the highest id (`LatestTop`) and repeats the one before.
  `LimitsAssumption` (two limits are naturals) is all that is assumed of constants.

Induction over data is done with one lemma (`NatInduct`: a set of naturals with 0
and successors is all of them), which follows from the library's
`NatLessThanWellFounded` and `WFMin`: these take sets, not operators. Out of reach
remain theorems that take an operator, and RECURSIVE operators and folds.

Only model-checked:

* Liveness (`RequestEnds`, `EveryDelegationAnswers`, `EveryMcpCallAnswers`) and the
  fairness half of `ImplementsLedger`: fairness and ENABLED are out of the prover's
  reach.
* When a session is compacted (`need_compaction`): the theorems of `Memory` hold
  whenever it is, and whichever messages a compaction takes.

## Seen while modelling

Behaviour of the code that the models show or that limits a property; none has a
statement in the repository that says otherwise, except ApprovalDoubleClick.

Approvals and turns
* The fresh approval of a sub-agent that pauses again when resumed can never be
  decided: its run is completed by the same commit (graph_factory.py:525).
* A tool that commits the session publishes "approved" and releases the row. A reject
  that waited for it then cancels the run; the rest of the first request completes
  the run, but does not write the status of the approval, which its copy already has:
  the run is completed and the approval rejected (tool_registry.py:1874,
  agent.py:3212). `DecisionMatchesRun` is about such tools in series only.
* A failure after the tool acted rolls the decision back, so approving again runs
  the tool again; the serial properties therefore exclude failures.
* The id of a reissued turn step has 66 characters, its column 64: on MySQL
  recoveries of turns fail. Where they work, a recovery can reissue a turn whose
  stream is alive.
* A session row made up from a task row counts its turns from 0 again
  (agent.py:3467-3522), so a later turn may reuse a number; its rows then overwrite
  the earlier ones and session and task disagree. `Onward` excludes it.
* At an approval the arguments of a file operation are completed again, from the
  files as they are then (file_operation_policy.py:68, file_context.py:112-245): a
  card that fell back to the explicit target because the name was taken goes to
  the name if that has become free. `ChangedAsApproved` allows for both.
* A stream that ends late overwrites the outer session of another message's
  waiting task, and a follow-up posted meanwhile. A follow-up that overlaps the end of
  a turn writes the whole value back as it read it (agent.py:3480-3506): the session
  waits for the user again although the task row has succeeded. `FollowupsApart`
  excludes it.
* A stage that goes back to waiting keeps its old `completed_at`; a stage prepared
  for recovery that the recovered turn does not touch stays RUNNING although the
  task succeeded; the recovery message names the failed stage while the loop
  starts at stage 1; a stage keeps the handoff of an earlier waiting turn.
* The validation of filesystem goals is never active in production, a mutation
  never succeeds inside the loop, and `ToolChoiceLoopRunner._execute_tool` is unused.
* Merging the lists of several Skills lets the allow-list of one hold back a tool
  of another Skill that lists none.
* Tool steps are numbered by position in the log and never refreshed; logs of one
  second on MySQL, or an approval booked on another task, can double or lose one.

Delegation, external tasks and MCP
* Overlapping child runs save and restore `os.environ` across each other
  (runner_adapter.py:81-85); `EnvironmentKept` is about one run at a time.
* A resumed child has no sandbox; attempts outside a sandbox share the recorded MCP
  calls; a failure marked not retryable is retried if its text looks transient.
* A timed-out dispatch that is retried creates another external task; one whose
  answer names another task stays RUNNING. The error of the latter quotes the id in
  the answer (external_tasks/service.py:84), so the test for transient failures
  (agent_as_tool.py:505) may match it and another task is created.
* `submit` may queue a request behind a stop mark or after the queue was failed;
  only the timeout answers it. A call whose caller timed out stays queued and may
  still be executed, also after the agent tried again. A session whose server died
  or did not start is never replaced: its kept error answers all later calls and
  fails all later listings until a restart (stdio_client.py:186-201).
* The listing cache key has neither allow nor deny list: after an edit of the
  declaration a turn may see tools filtered by the old one; the call itself is
  tested again. A failed listing is cached too, and disables a server that
  works for a minute.

Imports and discovery
* A run that the open circuit refuses raises AttributeError and is marked
  `retry_same_stage`; so is a URL whose hint has no fetcher. Some failures suggest
  the next fetcher, which is never selected.
* Overlapping fetches write different columns of one health row and can leave it
  HALF_OPEN for ever; two imports of a new URL that overlap both import it; two
  overlapping submissions of a page both pass the test and the later one wins.
* `verify_and_convert` sets EXPIRED and then raises without a commit; `verify_lead`
  can set CONVERTED without a job; a converted lead can be marked INVALID.
* An article whose title gives no year or no employer is kept without a signal and
  counts as no failure, so its run succeeds (recruiting_signal.py:62-76). A due source
  whose sync raises, or that has no entry_url, is passed over: its run, if it has one,
  stays RUNNING and the source stays due (job_discovery.py:504-520).
* An IntegrityError in a flush loses the whole transaction of a sync, of the
  scheduled worker that of all sources. A failing OfferIO sync commits its leads
  but records none; a page without totals counts as the only page.
  `run_scheduled_sync_once` is never scheduled.

Applications and conversations
* The lookup for a mail sees the 20 last changed rows whose company or title has its
  names, of all companies, so that others with the same title crowd an application
  out and a second one is created (applications/repository.py:59-68).
* The times of a candidate are compared with their offsets and stored without, so
  they may be stored out of order (applications/service.py:108, models.py:99-100).
* Two
  requests that overlap create two applications, and confirming and rejecting a
  candidate at once both succeed; merged times of overlapping readings may be out
  of order. This is why `Applications` has one request in flight.
* The context lists the oldest 500 rows, so later messages never reach it;
  messages beyond the last 50 that no compaction took are in neither context nor
  summary. On MySQL messages of one second come back in random order, so a stored
  result can be dropped as an orphan and reported missing. Overlapping compactions,
  or two within a second, lose messages from the chain of summaries.
* Manual compaction has no workflow run and skips the flush; the flush of a turn
  runs before its tools. A flush that fails is compacted over all the same
  (conversations/service.py:340-346, asserted by tests/test_summary_provider.py:257-303),
  and the preferences are not learnt. "Told" in `NothingForgotten` is exact for the
  deterministic summary; with the hybrid or the LLM provider it means handed to the
  summariser, whose text no property is about. Preferences only become candidates,
  which nothing can turn into memories (apply answers 409); approve and reject test no status;
  overlapping consolidations create two memories of one key; counters are lost
  updates. `LearningReviewWorkflow` has no caller.

## Not modelled, and the plan

* What tools, prompts, retrieval and text heuristics compute: a choice in the
  models. Final answers, goals and reflection shape text only; the routing
  middleware is reached from dead code only (graph_factory.py 1333-1433). That file
  holds more definitions without callers (among them 2278-2393, 2424-2845,
  2899-2967, 3015-3237, 4979-5074), and `resume_url_import_workflow` is called by
  tests alone.
* The budgets of `_check_budgets`: consulted with zero counters, they never refuse.
* Skills as text on disk and their usage counters, memory snapshots and artifacts
  of durable tasks, the legacy HTTP gateway, the content-source client and the mail
  server: no state that another step depends on.
* The web front end: its requests are the inputs of the modules.

Next: an abstract approval that is decided once, implemented by
`ApprovalWorkflow` with one request; the resume that pauses again
(graph_factory.py:525) as a property once the code says what it promises.
