------------------------------ MODULE SubAgents ------------------------------
(***************************************************************************)
(* A delegated call: AgentRuntime with its transient retries               *)
(* (agent_as_tool.py), the child agent the OpenAI Agents SDK runs          *)
(* (sdk_agents/: adapter, gateway, delegation policy, sandbox), the resume *)
(* after the user decided on one of its calls, and the tool that creates   *)
(* and dispatches an external task (external_tasks/).  The child model and *)
(* the SDK's loop are external: the child may call any tool it is offered  *)
(* and claim any result.                                                   *)
(***************************************************************************)
EXTENDS ExternalTask, FiniteSets

CONSTANTS Delegs,      \* delegations, each in a request of its own
          Requested,   \* tools the settings enable for child agents
          Registered,  \* tools of the registry
          Chrome, Dbx, Mail,  \* MCP tools by server
          Discovery,   \* mcp.dbx.dbx_list_connections
          SkillTools,  \* tools that list and read Skills
          FileReads,   \* filesystem tools that only read
          FileWrites,  \* filesystem tools that change files
          Confirm,     \* tools that require a confirmation
          Caps,        \* capabilities that are delegated
          MaxCalls,    \* bound: calls of a child before it ends or pauses
          MaxItems     \* bound: calls one model answer asks to confirm

Retained == {"artifact.export"}
Mcp == Chrome \cup Dbx \cup Mail
Files == FileReads \cup FileWrites
ChromeAgent == "agent.google_chrome"
DbxAgent == "agent.dbx_readonly"
MailAgent == "agent.qq_mail_readonly"
ApplyEntry == "application.find_apply_entry"
WebSearch == "external.web_search"
Tailor == "resume.tailor"

ASSUME ToolsAssumption == Chrome \cup Dbx \cup FileReads \cup FileWrites \subseteq Registered
ASSUME ConfirmAssumption == FileWrites \subseteq Confirm /\ FileReads \cap Confirm = {}
ASSUME DiscoveryAssumption == Discovery \in Dbx \ Confirm
ASSUME BoundsAssumption == MaxCalls \in Nat /\ MaxItems \in Nat \ {0}

MaxAttempts == 3                 \* AgentRuntimeRetryPolicy.max_attempts

VARIABLES dg,    \* the delegations
          rows,  \* the external tasks a delegation created
          env    \* os.environ: "before" the first run or "runner"

vars == <<dg, rows, env>>

Idle == [pc |-> "idle", cap |-> "none", boxed |-> FALSE, named |-> FALSE, attempt |-> 0,
         resumed |-> FALSE, calls |-> <<>>, did |-> <<>>, used |-> 0, items |-> <<>>, todo |-> {},
         agreed |-> {}, ran |-> {}, status |-> "none", event |-> "none", saved |-> "none"]

Init == /\ dg = [d \in Delegs |-> Idle]
        /\ rows = [d \in Delegs |-> <<>>]
        /\ env = "before"

----------------------------------------------------------------------------
(* What a child is offered.                                                *)

\* build_sdk_agent_delegation_policy.
InternalTools == (Requested \cap Registered) \ Retained

\* The executors are built with disjoint mail tools; the Chrome and the DBX
\* capability narrow the general allow-list.
ScopedTools(cap) ==
    CASE cap = ChromeAgent -> InternalTools \cap Chrome
      [] cap = DbxAgent    -> InternalTools \cap Dbx
      [] cap = MailAgent   -> InternalTools \cap (SkillTools \cup Mail)
      [] OTHER             -> InternalTools \ Mail

\* _can_delegate: a tool that asks for a confirmation must be an MCP tool, or
\* work on the files of a sandbox.
CanDelegate(t, workspace) == t \in Confirm => t \in Mcp \/ (t \in Files /\ workspace)

\* A resumed run has no sandbox.
Offered(g) == {t \in ScopedTools(g.cap) : CanDelegate(t, g.boxed /\ ~g.resumed)}

----------------------------------------------------------------------------
(* The end of an attempt and of the call.                                  *)

\* The status of the subagent_finished event.
LifecycleStatus(status) == CASE status \in {"waiting_user", "blocked"} -> "waiting_user"
                             [] status = "failed" -> "failed"
                             [] OTHER -> "succeeded"

\* The call returned, or raised.
Ended(g, status) == [g EXCEPT !.pc = "ended", !.status = status, !.event = LifecycleStatus(status),
                              !.items = <<>>, !.todo = {}]

\* Mutant: whatever says timeout is tried again, a call that waits included.
RetryAnyTransient(g, status, transient) == transient /\ ~g.resumed /\ g.attempt < MaxAttempts

\* _call_executor_with_transient_retries; a resume is not inside it.
Retries(g, status, transient) ==
    status = "failed" /\ transient /\ ~g.resumed /\ g.attempt < MaxAttempts

\* Mutant: an attempt that starts in a fresh sandbox is not counted.
UncountedAttempt(g) == [g EXCEPT !.pc = "attempt", !.attempt = IF g.boxed THEN @ ELSE @ + 1]

NextAttempt(g) == [g EXCEPT !.pc = "attempt", !.attempt = @ + 1]

Returned(g, status, transient) == IF Retries(g, status, transient) THEN NextAttempt(g)
                                  ELSE Ended(g, status)

\* A child asked the user: the first interruption becomes the approval.  A
\* pause of a resumed run leaves an approval nobody can decide.
Paused(g, items) == IF g.resumed THEN Ended(g, "blocked")
                    ELSE [g EXCEPT !.pc = "paused", !.status = "blocked", !.event = "waiting_user",
                                   !.items = items]

----------------------------------------------------------------------------
(* The call begins.                                                        *)

\* _run_agent_tool_through_runtime, AgentRuntime.call.
Delegate(d, cap) ==
    /\ dg[d].pc = "idle"
    /\ \E boxed, named \in BOOLEAN :
          /\ boxed => cap \notin {MailAgent, ApplyEntry, WebSearch, Tailor}
          /\ named => cap = ApplyEntry
          /\ dg' = [dg EXCEPT ![d] = [Idle EXCEPT !.pc = "attempt", !.cap = cap, !.boxed = boxed,
                                                  !.named = named, !.attempt = 1]]
    /\ UNCHANGED <<rows, env>>

\* A legacy or unknown capability, missing inputs, a source that is not
\* allowed, no executor; or a confirmation that is still missing.
Refuse(d, cap) ==
    /\ dg[d].pc = "idle"
    /\ \E status \in {"failed", "waiting_user"} :
          dg' = [dg EXCEPT ![d] = Ended([Idle EXCEPT !.cap = cap], status)]
    /\ UNCHANGED <<rows, env>>

----------------------------------------------------------------------------
(* The child agent.                                                        *)

\* Mutant: the variables are put back only when the runner returns.
RestoredOnReturn(g, raised) == env' = IF raised THEN env ELSE g.saved

\* The finally clause of run and resume.
Restored(g, raised) == env' = g.saved

\* The recorded calls live in the metadata of the context: every attempt in a
\* sandbox has a copy of its own, the others share the one of the call.
OfAttempt(g, calls) == IF g.boxed THEN <<>> ELSE calls

\* run_agent_task up to the start of the runner.  Inputs that cannot be copied
\* into the sandbox raise; an SDK that is not installed is a failed result.
BeginRun(d) ==
    LET g == dg[d]
    IN  /\ g.pc = "attempt" /\ g.cap \notin {ApplyEntry, WebSearch, Tailor}
        /\ \/ /\ dg' = [dg EXCEPT ![d] = [g EXCEPT !.pc = "running", !.saved = env,
                                                   !.calls = OfAttempt(g, g.calls),
                                                   !.did = OfAttempt(g, g.did)]]
              /\ env' = "runner"
           \/ /\ dg' = [dg EXCEPT ![d] = Ended(g, "failed")]
              /\ UNCHANGED env
        /\ UNCHANGED rows

\* Mutant: any recorded call of the discovery tool counts.
DiscoveryTried(g) == \E k \in DOMAIN g.calls : g.calls[k].tool = Discovery

\* _has_successful_dbx_connection_discovery.
Discovered(g) == \E k \in DOMAIN g.calls : g.calls[k] = [tool |-> Discovery, ok |-> TRUE]

DiscoveryMissing(g, t) == g.cap = DbxAgent /\ t \in Dbx \ {Discovery} /\ ~Discovered(g)

\* Mutant: a call is recorded as it starts.
RecordedAsStarted(g, t, ok) == IF t \in Mcp THEN Append(g.calls, [tool |-> t, ok |-> TRUE]) ELSE g.calls

\* _record_runtime_mcp_call.
Recorded(g, t, ok) == IF t \in Mcp THEN Append(g.calls, [tool |-> t, ok |-> ok]) ELSE g.calls

\* invoke_tool: arguments that are no JSON object, or leave the sandbox, are
\* answered without a record; a handler that raises counts as not ok.
Invoked(g, t) ==
    IF DiscoveryMissing(g, t) THEN {[g EXCEPT !.calls = Recorded(g, t, FALSE)]}
    ELSE {[g EXCEPT !.calls = Recorded(g, t, ok), !.did = Append(@, [tool |-> t, ok |-> ok])]
          : ok \in BOOLEAN} \cup {g}

Running(d) == dg[d].pc = "running"
Free(d) == Running(d) /\ dg[d].items = <<>> /\ dg[d].todo = {}

CallTool(d, t) ==
    /\ Free(d)
    /\ t \in Offered(dg[d]) \ Confirm
    /\ dg[d].used < MaxCalls
    /\ \E g \in Invoked([dg[d] EXCEPT !.used = @ + 1], t) : dg' = [dg EXCEPT ![d] = g]
    /\ UNCHANGED <<rows, env>>

\* The runner stops at calls that need a confirmation.
AskApproval(d) ==
    /\ Free(d)
    /\ \E n \in 1..MaxItems : \E ts \in [1..n -> Offered(dg[d]) \cap Confirm] :
          dg' = [dg EXCEPT ![d] = Paused(@, [k \in 1..n |-> [id |-> k, tool |-> ts[k]]])]
    /\ Restored(dg[d], FALSE)
    /\ UNCHANGED rows

\* _apply_runtime_mcp_evidence.
EvidenceStatus(g, claim) ==
    IF claim = "succeeded" /\ \/ g.cap \in {DbxAgent, ChromeAgent} /\ g.calls = <<>>
                              \/ \E k \in DOMAIN g.calls : ~g.calls[k].ok
    THEN "failed" ELSE claim

\* The final answer: blocked counts as failed; a request for an approval that
\* is not an interruption carries no run state.
Finish(d, claim) ==
    LET g == dg[d]
        status == EvidenceStatus(g, claim)
    IN  /\ Free(d)
        /\ \E transient \in BOOLEAN :
              /\ transient => claim = "failed"
              /\ dg' = [dg EXCEPT ![d] = IF claim = "needs_approval" THEN Paused(g, <<>>)
                                         ELSE Returned(g, status, transient)]
        /\ Restored(g, FALSE)
        /\ UNCHANGED rows

\* The runner raises: a network error, too many turns, an answer that fails
\* its validation.  The adapter turns it into a failed result whose text
\* decides about a retry.
RunnerRaises(d) ==
    /\ Running(d)
    /\ \E transient \in BOOLEAN : dg' = [dg EXCEPT ![d] = Returned(@, "failed", transient)]
    /\ Restored(dg[d], TRUE)
    /\ UNCHANGED rows

----------------------------------------------------------------------------
(* The user decided on the approval: resume_agent_task_after_approval.     *)

\* Mutant: the pending call is looked up by the name of its tool.
LastOfTool(items, card) ==
    LET same == {k \in DOMAIN items : items[k].tool = card.tool}
    IN  CHOOSE k \in same : \A j \in same : j <= k

\* _matching_run_state_approval_item: by call id.
MatchingItem(items, card) == CHOOSE k \in DOMAIN items : items[k].id = card.id

Without(items, k) == SubSeq(items, 1, k - 1) \o SubSeq(items, k + 1, Len(items))

\* The context of a resumed run is new: no recorded calls, no sandbox.  An
\* approved tool that is not offered any more makes the SDK fail.
Decide(d, approved) ==
    LET g    == dg[d]
        card == g.items[1]
        k    == MatchingItem(g.items, card)
    IN  /\ g.pc = "paused"
        /\ IF g.items = <<>>
           THEN dg' = [dg EXCEPT ![d] = Ended([g EXCEPT !.resumed = TRUE], "failed")] /\ UNCHANGED env
           ELSE /\ dg' = [dg EXCEPT ![d] =
                            [g EXCEPT !.pc = "running", !.resumed = TRUE, !.saved = env, !.used = 0,
                                      !.calls = <<>>, !.did = <<>>, !.items = Without(g.items, k),
                                      !.agreed = IF approved THEN {card.id} ELSE {},
                                      !.todo = IF approved THEN {g.items[k]} ELSE {}]]
                /\ env' = "runner"
        /\ UNCHANGED rows

\* The approved call runs.
RunApproved(d) ==
    LET g == dg[d]
    IN  /\ Running(d)
        /\ \E item \in g.todo :
              /\ item.tool \in Offered(g)
              /\ \E h \in Invoked(g, item.tool) :
                    dg' = [dg EXCEPT ![d] = [h EXCEPT !.todo = {},
                                                      !.ran = @ \cup IF h.did # g.did THEN {item.id} ELSE {}]]
        /\ UNCHANGED <<rows, env>>

\* Other calls of the same answer still wait: the run stops at them again.
StillInterrupted(d) ==
    /\ Running(d) /\ dg[d].todo = {} /\ dg[d].items # <<>>
    /\ dg' = [dg EXCEPT ![d] = Paused(@, @.items)]
    /\ Restored(dg[d], FALSE)
    /\ UNCHANGED rows

----------------------------------------------------------------------------
(* The tool that hands a job to an external agent.                         *)

\* _queue_find_apply_entry_task without a dispatcher.
QueueTask(d) ==
    /\ dg[d].pc = "attempt" /\ dg[d].cap = ApplyEntry
    /\ dg[d].named => rows[d] = <<>>
    /\ rows' = [rows EXCEPT ![d] = Append(@, Queued)]
    /\ dg' = [dg EXCEPT ![d] = Ended(@, "queued")]
    /\ UNCHANGED env

\* With a dispatcher: a failed result is retried when its text says timeout,
\* and the retry creates another task.  The refusal of an answer for another
\* task quotes the id in that answer, and so may say it as well.
DispatchTask(d, end) ==
    /\ dg[d].pc = "attempt" /\ dg[d].cap = ApplyEntry
    /\ dg[d].named => rows[d] = <<>>
    /\ rows' = [rows EXCEPT ![d] = Append(@, Dispatched(Queued, end))]
    /\ \E transient \in BOOLEAN :
          dg' = [dg EXCEPT ![d] = Returned(@, ToolStatus(Queued, end), transient)]
    /\ UNCHANGED env

\* The caller gave the id of the task: a retry cannot create it again.
DuplicateTask(d) ==
    /\ dg[d].pc = "attempt" /\ dg[d].named /\ rows[d] # <<>>
    /\ dg' = [dg EXCEPT ![d] = Ended(@, "failed")]
    /\ UNCHANGED <<rows, env>>

----------------------------------------------------------------------------
(* The other executors answer in one step.                                 *)

\* The Claude agent, and when it fails or only repeats a tool call, Bing and
\* then DuckDuckGo; the configured Bailian search has no fallback.
SearchWeb(d) ==
    /\ dg[d].pc = "attempt" /\ dg[d].cap = WebSearch
    /\ \E chain \in {{"claude", "bing", "duckduckgo"}, {"bailian"}} :
       \E works \in SUBSET chain, transient \in BOOLEAN :
          dg' = [dg EXCEPT ![d] = IF works = {} THEN Returned(@, "failed", transient)
                                  ELSE Returned(@, "succeeded", FALSE)]
    /\ UNCHANGED <<rows, env>>

\* A resume or a job description that is missing, or an answer without a
\* resume, says that a retry is of no use; an exception says nothing.
TailorResume(d) ==
    /\ dg[d].pc = "attempt" /\ dg[d].cap = Tailor
    /\ \E end \in {"succeeded", "missing", "raised"}, transient \in BOOLEAN :
          dg' = [dg EXCEPT ![d] = Returned(@, IF end = "succeeded" THEN end ELSE "failed",
                                           transient /\ end = "raised")]
    /\ UNCHANGED <<rows, env>>

----------------------------------------------------------------------------
Claims == {"succeeded", "failed", "needs_approval"}

Begin(d) == \E cap \in Caps : Delegate(d, cap) \/ Refuse(d, cap)

\* What the thread of the request does.
Work(d) == \/ BeginRun(d) \/ AskApproval(d) \/ RunnerRaises(d) \/ RunApproved(d)
           \/ StillInterrupted(d) \/ QueueTask(d) \/ DuplicateTask(d)
           \/ SearchWeb(d) \/ TailorResume(d)
           \/ \E t \in InternalTools : CallTool(d, t)
           \/ \E claim \in Claims : Finish(d, claim)
           \/ \E end \in ExecutorEnds : DispatchTask(d, end)

Next == \E d \in Delegs : Begin(d) \/ Work(d) \/ \E approved \in BOOLEAN : Decide(d, approved)

\* A thread does not stop in the middle of a call.
Fairness == \A d \in Delegs : WF_vars(Work(d))

Spec == Init /\ [][Next]_vars /\ Fairness

----------------------------------------------------------------------------
(* Properties.                                                             *)

\* A DBX or Chrome child that is reported as succeeded really called a tool,
\* and no MCP call of its context failed, whatever it claims and however many
\* attempts and pauses it took (_apply_runtime_mcp_evidence).
EvidenceBacksSuccess ==
    \A d \in Delegs :
       LET g == dg[d]
       IN  g.pc = "ended" /\ g.status = "succeeded" =>
              /\ g.cap \in {DbxAgent, ChromeAgent} => g.did # <<>>
              /\ \A k \in DOMAIN g.did : g.did[k].tool \in Mcp => g.did[k].ok

\* Of the calls that need a confirmation only the one the user was shown and
\* agreed to runs, even when one answer of the model asked for several of the
\* same tool (_matching_run_state_approval_item).
ApprovedCallsOnly == \A d \in Delegs : dg[d].ran \subseteq dg[d].agreed

\* The DBX child never reaches a database before a discovery of the
\* connections succeeded in the same context (invoke_tool).
DiscoveryFirst ==
    \A d \in Delegs : \A k \in DOMAIN dg[d].did :
       dg[d].cap = DbxAgent /\ dg[d].did[k].tool # Discovery =>
          \E j \in 1..(k - 1) : dg[d].did[j] = [tool |-> Discovery, ok |-> TRUE]

\* A task nothing came of: it failed, or what came was the answer for another
\* task and it stays as running.
Unserved(t) == \/ t.status = "failed" /\ t.completed
               \/ t.status = "running" /\ t.output = "none"

\* What a call reports of its task.
Reported(t) == IF t.status = "running" THEN "failed" ELSE t.status

\* A retry repeats no task that was served or waits for the user: of the tasks
\* of a call, at most three, nothing came of any but the last, and the call
\* reports what became of that one (_call_executor_with_transient_retries,
\* _completed_at).
ServedTasksNotRepeated ==
    \A d \in Delegs :
       LET last == Len(rows[d])
       IN  /\ last <= MaxAttempts
           /\ \A k \in 1..(last - 1) : Unserved(rows[d][k])
           /\ dg[d].pc = "ended" /\ last > 0 => dg[d].status = Reported(rows[d][last])

\* Between runs the environment of the process is what it was; during a run it
\* holds the runner's key and switches tracing off (the finally clauses).
EnvironmentKept == env = IF \E d \in Delegs : Running(d) THEN "runner" ELSE "before"

\* Every delegated call is answered, or waits for the user: the retries end.
EveryDelegationAnswers ==
    \A d \in Delegs : dg[d].pc \in {"attempt", "running"} ~> dg[d].pc \in {"paused", "ended"}
=============================================================================
