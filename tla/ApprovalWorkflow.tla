-------------------------- MODULE ApprovalWorkflow --------------------------
(***************************************************************************)
(* The human-approval workflow of the agent: a chat turn that stops before *)
(* a risky tool, the pending approval it leaves in the database, and the   *)
(* HTTP requests (button or chat) that decide it and continue the run      *)
(* (api/v1/agent.py, agent_runtime/graph_factory.py, domains/automation).  *)
(*                                                                         *)
(* Every request runs in a database transaction of its own.  A request     *)
(* reads from the snapshot its first query took, its UPDATE waits for the  *)
(* row lock of another request's UPDATE, and what it writes is seen by     *)
(* others when it commits; the tool it runs meanwhile acts on the world.   *)
(***************************************************************************)
EXTENDS CheckpointRows

CONSTANTS Requests,      \* HTTP requests the server handles at the same time
          MaxRuns,       \* bound: workflow runs (chat turns) of the session
          MaxApprovals,  \* bound: approval requests of the session
          Kinds,         \* what the pending tool can be, see ToolKinds
          MayFail,       \* can a request die before it commits?
          None

\* "plain":   a tool or a non-resumable SDK request;
\* "sdk":     an SDK sub-agent interrupted with a resumable run state;
\* "commits": a tool that commits or rolls back the request's own session
\*            (applications.sync_mail_application).
ToolKinds == {"plain", "sdk", "commits"}

ASSUME KindsAssumption == Kinds \subseteq ToolKinds
ASSUME BoundsAssumption == MaxRuns \in Nat /\ MaxApprovals \in Nat
ASSUME NoneAssumption == None \notin Requests
ASSUME MayFailAssumption == MayFail \in BOOLEAN

Runs == 1..MaxRuns
Approvals == 1..MaxApprovals    \* in creation order
NoApproval == 0

VARIABLES wf,    \* workflow_runs, committed
          ap,    \* approval_requests, committed
          cps,   \* workflow_checkpoints, committed
          req,   \* the requests in flight
          lock,  \* request whose transaction holds the run's row locks
          ran    \* times the approved tool acted on the world (saturating)

vars == <<wf, ap, cps, req, lock, ran>>

----------------------------------------------------------------------------
Decided == {"approved", "rejected"}
Columns == {"approval", "run"}    \* the status columns of the two rows
MaxRan == 2

Absent == [status |-> "absent", step |-> "none", appr |-> NoApproval]
Started == [status |-> "running", step |-> "build_context", appr |-> NoApproval]
NoRequest == [status |-> "absent", run |-> 0, kind |-> "none", origin |-> "none"]
Idle == [pc |-> "idle", appr |-> NoApproval, approve |-> FALSE, seen |-> {}, step |-> "none",
         writes |-> {}]

Init == /\ wf = [w \in Runs |-> Absent]
        /\ ap = [a \in Approvals |-> NoRequest]
        /\ cps = [w \in Runs |-> {}]
        /\ req = [r \in Requests |-> Idle]
        /\ lock = [w \in Runs |-> None]
        /\ ran = [a \in Approvals |-> 0]

FreshRun(w) == wf[w] = Absent /\ \A v \in Runs : v < w => wf[v] # Absent
FreshApproval(a) == ap[a] = NoRequest /\ \A b \in Approvals : b < a => ap[b] # NoRequest

\* AgentCheckpointStore.save as its callers see it: the new row never sorts
\* before a row its session sees, and may tie with the latest (gap 0).
Saved(rows, key, a, gap) ==
    LET last == IF rows = {} THEN 0 ELSE (CHOOSE c \in LatestRows(rows) : TRUE).ts
    IN  rows \cup {[ts |-> last + gap, key |-> key, appr |-> a]}

----------------------------------------------------------------------------
(* A chat turn: prepare_agent_workflow_response, then finalize unless the  *)
(* run stops for the user.  Its rows are private until the request commits;*)
(* a streamed turn commits a first time when its context is built.         *)

\* on_workflow_started of the stream worker.  A stream that fails later leaves
\* the run as it is here.
StartStream(w) ==
    /\ FreshRun(w)
    /\ wf' = [wf EXCEPT ![w] = Started]
    /\ cps' = [cps EXCEPT ![w] = Saved({}, "build_context", NoApproval, 0)]
    /\ UNCHANGED <<ap, req, lock, ran>>

\* The turn ends on a run of its own, which a stream has already committed.
OwnRun(w) == FreshRun(w) \/ wf[w] = Started

\* The checkpoints of a turn, from its first to the one it ends at.
TurnRows(step, a, g, h) ==
    Saved(Saved(Saved({}, "build_context", NoApproval, 0),
                "plan_or_reply", NoApproval, g),
          step, a, h)

\* The tool needs a confirmation: request_user_approval.
PauseTurn(w, a, kind) ==
    /\ OwnRun(w) /\ FreshApproval(a)
    /\ wf' = [wf EXCEPT ![w] = [status |-> "waiting_user", step |-> "wait_confirmation",
                                appr |-> a]]
    /\ ap' = [ap EXCEPT ![a] = [status |-> "pending", run |-> w, kind |-> kind,
                                origin |-> "turn"]]
    /\ \E g, h \in {0, 1} :
          cps' = [cps EXCEPT ![w] = TurnRows("wait_confirmation", a, g, h)]
    /\ UNCHANGED <<req, lock, ran>>

\* The run misses an argument, or answers without a confirmation.
PlainTurn(w, status, step) ==
    /\ OwnRun(w)
    /\ wf' = [wf EXCEPT ![w] = [status |-> status, step |-> step, appr |-> NoApproval]]
    /\ \E g, h \in {0, 1} : cps' = [cps EXCEPT ![w] = TurnRows(step, NoApproval, g, h)]
    /\ UNCHANGED <<ap, req, lock, ran>>

----------------------------------------------------------------------------
(* A decision: continue_agent_workflow_after_approval and its caller.      *)

\* Mutant: only the approval ids are compared, not what state they are in.
EnsureIdsOnly(a, c) == wf[ap[a].run].appr = a /\ c.appr = a

\* _ensure_approval_can_continue, on the checkpoint c that was loaded.
EnsureApprovalCanContinue(a, c) ==
    LET w == ap[a].run
    IN  /\ ap[a].status = "pending"
        /\ wf[w].status = "waiting_user"
        /\ wf[w].step = "wait_confirmation" /\ c.key = "wait_confirmation"
        /\ wf[w].appr = a /\ c.appr = a

\* The request loads approval, checkpoint and workflow from one snapshot and
\* passes the guard (a refused request rolls back and changes nothing).
Read(r, a, approve) ==
    /\ req[r].pc = "idle"
    /\ ap[a] # NoRequest
    /\ LET w == ap[a].run
       IN  /\ \E c \in LatestCheckpoint(cps[w], wf[w].step) : EnsureApprovalCanContinue(a, c)
           /\ req' = [req EXCEPT ![r] = [pc |-> "read", appr |-> a, approve |-> approve,
                                         seen |-> cps[w], step |-> "none",
                                         writes |-> Columns]]
    /\ UNCHANGED <<wf, ap, cps, lock, ran>>

\* _latest_pending_approval_for_session: every run of the model is linked to
\* the session's messages.
LatestPending(a) ==
    /\ ap[a].status = "pending"
    /\ \A b \in Approvals : ap[b].status = "pending" => b <= a

ButtonDecision(r) == \E a \in Approvals, approve \in BOOLEAN : Read(r, a, approve)
ChatDecision(r) ==
    \E a \in Approvals, approve \in BOOLEAN : LatestPending(a) /\ Read(r, a, approve)

Run(r) == ap[req[r].appr].run
Kind(r) == ap[req[r].appr].kind

\* decide_approval: PENDING is tested on the object already read, then the
\* UPDATE ... WHERE id waits for the row lock.
DecideApproval(r) ==
    /\ req[r].pc = "read"
    /\ lock[Run(r)] = None
    /\ lock' = [lock EXCEPT ![Run(r)] = r]
    /\ req' = [req EXCEPT ![r].pc = "decided"]
    /\ UNCHANGED <<wf, ap, cps, ran>>

Executed(r, step) == req' = [req EXCEPT ![r].pc = "executed", ![r].step = step]
Acts(a) == ran' = [ran EXCEPT ![a] = IF @ < MaxRan THEN @ + 1 ELSE @]

\* Rejected: the tool is not run (an SDK sub-agent is resumed instead).
StopRejected(r) ==
    /\ req[r].pc = "decided" /\ ~req[r].approve /\ Kind(r) # "sdk"
    /\ Executed(r, "approval_rejected")
    /\ UNCHANGED <<wf, ap, cps, lock, ran>>

\* Mutant: the tool runs whatever the user answered.
RunToolAnyway(r) ==
    /\ req[r].pc = "decided" /\ Kind(r) = "plain"
    /\ Acts(req[r].appr)
    /\ Executed(r, IF req[r].approve THEN "maybe_tool" ELSE "approval_rejected")
    /\ UNCHANGED <<wf, ap, cps, lock>>

\* Approved: _maybe_tool_node runs the tool once more with user_confirmed ...
RunTool(r) ==
    /\ req[r].pc = "decided" /\ req[r].approve /\ Kind(r) = "plain"
    /\ Acts(req[r].appr)
    /\ Executed(r, "maybe_tool")
    /\ UNCHANGED <<wf, ap, cps, lock>>

\* ... or stops before it: blocked by the guard, asking again, or missing input.
ToolNotRun(r) ==
    /\ req[r].pc = "decided" /\ req[r].approve /\ Kind(r) # "sdk"
    /\ \E step \in {"maybe_tool", "wait_confirmation", "wait_user_input"} : Executed(r, step)
    /\ UNCHANGED <<wf, ap, cps, lock, ran>>

\* _resume_sdk_agent_after_approval, for both decisions: the sub-agent ends,
\* having run its tool if approved, or pauses for a further approval.
ResumeSdkAgent(r) ==
    /\ req[r].pc = "decided" /\ Kind(r) = "sdk"
    /\ \E step \in {"maybe_tool", "wait_confirmation"} : Executed(r, step)
    /\ IF req[r].approve THEN Acts(req[r].appr) ELSE UNCHANGED ran
    /\ UNCHANGED <<wf, ap, cps, lock>>

\* A tool that ends with session.commit(): the decision is published half-way.
\* The session's copies keep what they say (expire_on_commit=False), the run
\* "running", so that its status is still to be written.
RunCommittingTool(r) ==
    /\ req[r].pc = "decided" /\ req[r].approve /\ Kind(r) = "commits"
    /\ Acts(req[r].appr)
    /\ ap' = [ap EXCEPT ![req[r].appr].status = "approved"]
    /\ wf' = [wf EXCEPT ![Run(r)].status = "running"]
    /\ lock' = [lock EXCEPT ![Run(r)] = None]
    /\ req' = [req EXCEPT ![r].pc = "ended", ![r].step = "maybe_tool", ![r].writes = {"run"}]
    /\ UNCHANGED cps

\* ... and one that fails with session.rollback(): the decision is forgotten.
RollBackInTool(r) ==
    /\ req[r].pc = "decided" /\ req[r].approve /\ Kind(r) = "commits"
    /\ lock' = [lock EXCEPT ![Run(r)] = None]
    /\ req' = [req EXCEPT ![r].pc = "ended", ![r].step = "maybe_tool", ![r].writes = {}]
    /\ UNCHANGED <<wf, ap, cps, ran>>

\* The rest of such a request is a new transaction, on a new snapshot.  A status
\* that a row was loaded with is not written again: the flush leaves it out of
\* the UPDATE.  After a rollback both rows are loaded from the snapshot; after a
\* commit the run is the copy, and so is the approval where somebody holds it
\* (the chat does; the session's references are weak).
NewSnapshot(r) ==
    LET differs == {c \in Columns : IF c = "approval" THEN ap[req[r].appr].status # "approved"
                                                     ELSE wf[Run(r)].status # "completed"}
    IN  /\ req[r].pc = "ended"
        /\ \E loaded \in IF req[r].writes = {} THEN {Columns} ELSE {{}, {"approval"}} :
              req' = [req EXCEPT ![r].pc = "executed", ![r].seen = cps[Run(r)],
                                 ![r].writes = @ \cup (loaded \cap differs)]
        /\ UNCHANGED <<wf, ap, cps, lock, ran>>

Decision(r) == IF req[r].approve THEN "approved" ELSE "rejected"
Free(r) == [lock EXCEPT ![Run(r)] = IF @ = r THEN None ELSE @]

\* Mutant: the rejection forgets the workflow row.
CommitRejectedOnly(r) ==
    /\ req[r].pc = "executed" /\ req[r].step = "approval_rejected"
    /\ lock[Run(r)] \in {r, None}
    /\ ap' = [ap EXCEPT ![req[r].appr].status = "rejected"]
    /\ lock' = Free(r)
    /\ req' = [req EXCEPT ![r] = Idle]
    /\ UNCHANGED <<wf, cps, ran>>

\* The rejected run is canceled at approval_rejected.
CommitRejected(r) ==
    LET a == req[r].appr
        w == Run(r)
    IN  /\ req[r].pc = "executed" /\ req[r].step = "approval_rejected"
        /\ lock[w] \in {r, None}
        /\ ap' = [ap EXCEPT ![a].status = "rejected"]
        /\ wf' = [wf EXCEPT ![w].status = "canceled", ![w].step = "approval_rejected"]
        /\ \E g \in {0, 1} :
              cps' = [cps EXCEPT ![w] = @ \cup Saved(req[r].seen, "approval_rejected", a, g)]
        /\ lock' = Free(r)
        /\ req' = [req EXCEPT ![r] = Idle]
        /\ UNCHANGED ran

\* Every other continuation is finalized, whatever step the tool node left:
\* checkpoint of that step, finalize_agent_workflow_response, commit.
CommitFinal(r) ==
    LET a == req[r].appr
        w == Run(r)
    IN  /\ req[r].pc = "executed" /\ req[r].step # "approval_rejected"
        /\ ~(Kind(r) = "sdk" /\ req[r].step = "wait_confirmation")
        /\ lock[w] \in {r, None}
        /\ ap' = [ap EXCEPT ![a].status = IF "approval" \in req[r].writes THEN Decision(r) ELSE @]
        /\ wf' = [wf EXCEPT ![w].status = IF "run" \in req[r].writes THEN "completed" ELSE @,
                            ![w].step = "final_response"]
        /\ \E g, h \in {0, 1} :
              cps' = [cps EXCEPT ![w] = @ \cup
                        Saved(Saved(req[r].seen, req[r].step, a, g), "final_response", a, h)]
        /\ lock' = Free(r)
        /\ req' = [req EXCEPT ![r] = Idle]
        /\ UNCHANGED ran

\* ... also the one whose sub-agent paused again and whose fresh approval b
\* _pause_sdk_agent_resume_for_approval has just requested.
CommitPausedAgain(r, b) ==
    LET a == req[r].appr
        w == Run(r)
    IN  /\ req[r].pc = "executed" /\ Kind(r) = "sdk" /\ req[r].step = "wait_confirmation"
        /\ lock[w] \in {r, None}
        /\ FreshApproval(b)
        /\ ap' = [ap EXCEPT ![a].status = Decision(r),
                            ![b] = [status |-> "pending", run |-> w, kind |-> "sdk",
                                    origin |-> "resume"]]
        /\ wf' = [wf EXCEPT ![w] = [status |-> "completed", step |-> "final_response",
                                    appr |-> b]]
        /\ \E g, h \in {0, 1} :
              cps' = [cps EXCEPT ![w] = @ \cup
                        Saved(Saved(req[r].seen, "wait_confirmation", b, g), "final_response", b, h)]
        /\ lock' = Free(r)
        /\ req' = [req EXCEPT ![r] = Idle]
        /\ UNCHANGED ran

\* Mutant: the failed request's session is never closed.
AbortKeepingLock(r) ==
    /\ MayFail
    /\ req[r].pc # "idle"
    /\ req' = [req EXCEPT ![r] = Idle]
    /\ UNCHANGED <<wf, ap, cps, lock, ran>>

\* The request ends without its commit: an exception after the decision (the
\* model call of the final answer), a lock wait that times out, a crash.
Abort(r) ==
    /\ MayFail
    /\ req[r].pc # "idle"
    /\ lock' = Free(r)
    /\ req' = [req EXCEPT ![r] = Idle]
    /\ UNCHANGED <<wf, ap, cps, ran>>

----------------------------------------------------------------------------
ChatTurn ==
    \E w \in Runs :
        \/ StartStream(w)
        \/ \E a \in Approvals, kind \in Kinds : PauseTurn(w, a, kind)
        \/ PlainTurn(w, "waiting_user", "wait_user_input")
        \/ PlainTurn(w, "completed", "final_response")

Continue(r) == StopRejected(r) \/ RunTool(r) \/ ToolNotRun(r) \/ ResumeSdkAgent(r)
                 \/ RunCommittingTool(r) \/ RollBackInTool(r) \/ NewSnapshot(r)

Commit(r) == CommitRejected(r) \/ CommitFinal(r) \/ \E b \in Approvals : CommitPausedAgain(r, b)

Next == \/ ChatTurn
        \/ \E r \in Requests : \/ ButtonDecision(r) \/ ChatDecision(r) \/ DecideApproval(r)
                               \/ Continue(r) \/ Commit(r) \/ Abort(r)

Spec == Init /\ [][Next]_vars

\* A request that holds its locks keeps running; InnoDB grants a row lock in
\* arrival order, so a waiting UPDATE is not overtaken for ever.
Fairness == \A r \in Requests : /\ SF_vars(DecideApproval(r))
                                /\ WF_vars(Continue(r))
                                /\ SF_vars(Commit(r))
FairSpec == Spec /\ Fairness

----------------------------------------------------------------------------
RunStatus == {"absent", "running", "waiting_user", "completed", "canceled"}
Steps == {"none", "build_context", "plan_or_reply", "maybe_tool", "wait_confirmation",
          "wait_user_input", "final_response", "approval_rejected"}
Rows == [ts : Nat, key : Steps, appr : Approvals \cup {NoApproval}]

TypeOK ==
    /\ wf \in [Runs -> [status : RunStatus, step : Steps, appr : Approvals \cup {NoApproval}]]
    /\ ap \in [Approvals -> [status : {"absent", "pending"} \cup Decided, run : Runs \cup {0},
                             kind : ToolKinds \cup {"none"}, origin : {"none", "turn", "resume"}]]
    /\ cps \in [Runs -> SUBSET Rows]
    /\ req \in [Requests -> [pc : {"idle", "read", "decided", "ended", "executed"},
                             appr : Approvals \cup {NoApproval}, approve : BOOLEAN,
                             seen : SUBSET Rows, step : Steps, writes : SUBSET Columns]]
    /\ lock \in [Runs -> Requests \cup {None}]
    /\ ran \in [Approvals -> 0..MaxRan]

Decidable(a) ==
    LET w == ap[a].run
    IN  \A c \in LatestCheckpoint(cps[w], wf[w].step) : EnsureApprovalCanContinue(a, c)

\* An approval a chat turn left pending passes every test of
\* _ensure_approval_can_continue for as long as it is pending: no interleaving
\* of other requests, failures or same-second checkpoints turns the user's card
\* into a stale one.
PendingIsDecidable ==
    \A a \in Approvals : ap[a].status = "pending" /\ ap[a].origin = "turn" => Decidable(a)

\* The two rows a decision writes agree: an approved run is completed and a
\* rejected one canceled (an SDK sub-agent told "no" still completes its run).
Agree(a) ==
    LET status == wf[ap[a].run].status
    IN  /\ ap[a].status = "approved" =>
              status = "completed" \/ (status = "running" /\ ap[a].kind = "commits")
        /\ ap[a].status = "rejected" =>
              status = "canceled" \/ (status = "completed" /\ ap[a].kind = "sdk")

\* "approval executes only the requested inner tool once" (graph_factory.py:578).
ToolRunsOnce == \A a \in Approvals : ran[a] <= 1

\* "The Agent stopped before executing the tool" (graph_factory.py:535).
RejectedMeansNotRun == \A a \in Approvals : ap[a].status = "rejected" => ran[a] = 0

\* A request that was let through ends: it never waits for a row lock for ever.
RequestEnds == \A r \in Requests : req[r].pc # "idle" ~> req[r].pc = "idle"
=============================================================================
