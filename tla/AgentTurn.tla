------------------------------ MODULE AgentTurn ------------------------------
(***************************************************************************)
(* One turn of the agent: an explicitly requested tool with its recovery,  *)
(* the bounded tool-choice loop, the card a confirmation leaves and the    *)
(* continuation after the user's decision (graph_factory.py, loop_agent/,  *)
(* tool_registry guardrails).  The model may answer with text or call any  *)
(* tool with any input; a tool may end in any way its runtime knows.       *)
(***************************************************************************)
EXTENDS FilesystemSkill, ToolCatalog, Sequences, FiniteSets, BagsExt

CONSTANTS Tools,        \* registered tools other than the filesystem Skill
          Loaded,       \* the sets of Skills a turn may have loaded
          Searches,     \* the tools whose results are reflected on
          ModelInputs,  \* filesystem inputs the model may submit
          Plans,        \* stage plans: sequences of allow-lists
          MaxEdits      \* bound: changes of the files by others

ASSUME ToolsAssumption == /\ Tools \subseteq {tool.name : tool \in Registry}
                          /\ Searches \subseteq Tools
                          /\ \A loaded \in Loaded : loaded \subseteq Skills(Tools)
ASSUME InputsAssumption == ModelInputs \subseteq Inputs
ASSUME PlansAssumption == Plans \subseteq Seq(SUBSET (Tools \cup {"skill.filesystem"}))
ASSUME EditsAssumption == MaxEdits \in Nat

Filesystem == "skill.filesystem"
Unknown == "unknown"                       \* a name the model made up
Catalog == Tools \cup {Filesystem}

NoDecision == [cap |-> "none", inp |-> Blank]
ModelDecisions == [cap : {Filesystem}, inp : ModelInputs] \cup [cap : Tools \cup {Unknown}, inp : {Blank}]

MaxRepeated == 2                           \* DeadLoopDetector.max_repeated_calls
MaxGuardRetries == 2
MaxToolCalls == 10                         \* AgentRuntimeGuard max_tool_calls

VARIABLES pc,      \* where the turn is
          st,      \* AgentState: calls, contract, file context, completion, stage plan, Skills
          lp,      \* the running loop
          before,  \* the state the loop started from
          log,     \* tool_call_logs of the run
          steps,   \* durable tool steps, by number
          card,    \* the approval: tool, input
          asked,   \* the call a confirmation was asked for
          files, edits

vars == <<pc, st, lp, before, log, steps, card, asked, files, edits>>

NoStep == [status |-> "none", call |-> 0]
NoKeys == [key \in {} |-> 0]
NoLoop == [caps |-> {}, max |-> 0, iter |-> 0, next |-> NoDecision, keys |-> NoKeys,
           recovery |-> FALSE, read |-> FALSE, mutation |-> FALSE, retries |-> 0,
           snapshot |-> "none", stage |-> 1]

Init == /\ pc = "plan_or_reply"
        /\ \E plan \in Plans, loaded \in Loaded :
              st = [calls |-> 0, contract |-> "none", ctx |-> [active |-> NoPath, read |-> NoPath],
                    completion |-> Blank, answer |-> "none", plan |-> plan, skills |-> loaded]
        /\ lp = NoLoop /\ before = st
        /\ log = <<>>
        /\ steps = [k \in 1..MaxToolCalls |-> NoStep]
        /\ card = NoDecision /\ asked = NoDecision
        /\ files \in [Paths -> {Absent, 1}]
        /\ edits = 0

----------------------------------------------------------------------------
(* One tool call: _maybe_tool_node.  An outcome o says where the state     *)
(* goes (step), the status that is logged ("none": nothing is), the status *)
(* the loop observes, the payload (op, next) and what the runtime suggests.*)

Outcome(step, logged, status) ==
    [step |-> step, logged |-> logged, status |-> status, op |-> Unset, next |-> "none",
     suggest |-> NoDecision, ctx |-> st.ctx, files |-> files, args |-> Blank, completion |-> Blank]

Reads(p) == [cap |-> Filesystem, inp |-> [Blank EXCEPT !.op = "read_file", !.src = p]]

\* A call of the filesystem Skill.  An approval and a missing argument leave
\* the turn waiting; everything else is logged.
SkillOutcome(i, r, same) ==
    LET o == CASE r.status = "waiting_user" ->
                    Outcome("wait_confirmation", "none", "waiting_user")
               [] r.status # "waiting_user" /\ r.next = "wait_user_input" ->
                    Outcome("wait_user_input", "blocked", "waiting_user")
               [] OTHER -> Outcome("maybe_tool", r.status, r.status)
    IN  [o EXCEPT !.op = IF i.op = Unset THEN Unset ELSE r.op, !.next = r.next, !.args = r.args,
                  !.ctx = Promoted(st.ctx, r), !.files = FilesAfter(r, files, same),
                  !.suggest = IF r.next = "read_before_write" /\ r.args.src # NoPath
                              THEN Reads(r.args.src) ELSE NoDecision]

SkillOutcomes(i, confirmed) ==
    { SkillOutcome(i, Call(i, st.ctx, files, confirmed, works, same), same)
      : works \in BOOLEAN, same \in BOOLEAN }

\* The guard, with the policy of the Skills that are loaded.
PreCheck(cap, confirmed) ==
    pre_check(Definition(cap), from_loaded_skill_metadata(st.skills), st.calls, MaxToolCalls, confirmed)

\* How a tool the guard lets through may end.
ToolEnds == {"succeeded", "failed", "missing", "unavailable", "alternative", "incomplete", "poor"}

\* A result the goal validation finds incomplete, and a search the reflection
\* finds poor, suggest another try with a changed input.
Again(d) == [d EXCEPT !.inp.again = TRUE]

ToolOutcome(d, end) ==
    LET retry == Again(d)
    IN  CASE end = "missing"     -> Outcome("wait_user_input", "blocked", "waiting_user")
          [] end = "unavailable" -> Outcome("maybe_tool", "failed", "unknown")
          [] end = "alternative" -> Outcome("maybe_tool", "failed", "partial")
          [] end = "incomplete"  ->
               [Outcome("maybe_tool", "succeeded", "partial") EXCEPT !.suggest = retry]
          [] end = "poor"        ->
               [Outcome("maybe_tool", "succeeded", "succeeded") EXCEPT
                   !.suggest = IF d.cap \in Searches THEN retry ELSE NoDecision]
          [] OTHER               -> Outcome("maybe_tool", end, end)

\* complete_tool_input: missing fields are filled in from the user's messages and
\* the file context where these tell them.
complete_tool_input(inp) == {inp, [inp EXCEPT !.filled = TRUE]}

\* The guard decides, then the tool runs.
GuardedEnds(d, check) ==
    CASE check = "blocked" -> {Outcome("maybe_tool", "none", "failed")}
      [] check = "confirm" -> {Outcome("wait_confirmation", "none", "waiting_user")}
      [] check = "ok"      -> {ToolOutcome(d, end) : end \in ToolEnds}

Noted(o, i) == [o EXCEPT !.args = i, !.completion = IF i.filled THEN i ELSE Blank]

\* A registered tool: its input is completed where the context allows and
\* validated before the guard sees the call.
ToolOutcomes(d, confirmed) ==
    { Noted(o, i) : i \in complete_tool_input(d.inp),
                    o \in GuardedEnds(d, PreCheck(d.cap, confirmed))
                            \cup {Outcome("wait_user_input", "none", "waiting_user")} }

Outcomes(d, confirmed) == IF d.cap = Filesystem THEN SkillOutcomes(d.inp, confirmed)
                          ELSE ToolOutcomes(d, confirmed)

\* Mutant: a completion stays until the next one replaces it.
KeptCompletion(o) == IF o.completion = Blank THEN st.completion ELSE o.completion

\* _with_tool_input_completion_metadata describes this attempt only.
Completion(o) == o.completion

\* The state after the call.
Called(o) == [st EXCEPT !.calls = IF o.logged = "none" THEN @ ELSE @ + 1,
                        !.ctx = o.ctx, !.completion = Completion(o)]

\* Mutant: the step is numbered by the calls logged in the run so far, failed
\* ones not counted.
StepOfSucceeded == 1 + Cardinality({k \in DOMAIN log : log[k].status # "failed"})

\* _begin_durable_tool_step.
StepNumber == st.calls + 1

\* record_tool_call and _mark_durable_tool_step_*.
Logged(d, o, confirmed) ==
    /\ log' = IF o.logged = "none" THEN log
              ELSE Append(log, [cap |-> d.cap, status |-> o.logged, confirmed |-> confirmed])
    /\ steps' = IF o.logged = "none" THEN steps
                ELSE [steps EXCEPT ![StepNumber] = [status |-> o.logged, call |-> Len(log) + 1]]
    /\ files' = o.files

\* The card of a waiting state: the Skill's own payload, otherwise the
\* completed input, otherwise the input of the decision.
Card(d, o) == IF d.cap = Filesystem THEN [d EXCEPT !.inp = CardInput(d.inp, o)]
              ELSE [d EXCEPT !.inp = IF Completion(o) # Blank THEN Completion(o) ELSE @]
Waits(d, o) ==
    IF o.step = "wait_confirmation"
    THEN card' = Card(d, o) /\ asked' = [cap |-> d.cap, inp |-> o.args]
    ELSE UNCHANGED <<card, asked>>

----------------------------------------------------------------------------
(* The contract that a read must be followed by the write it was for.      *)

Arm(contract) == IF contract = "none" THEN "candidate" ELSE contract

\* _mark_filesystem_write_follow_up_contract for an input with operation op, a
\* recovery route next and the payload o.
Marked(contract, op, next, o) ==
    CASE op = Unset /\ o.op = Unset /\ next = "continue_model_loop" -> Arm(contract)
      [] o.op = "read_file" /\ o.logged = "succeeded" /\ contract = "candidate" -> "awaiting"
      [] o.op \in FileToFile /\ o.logged = "succeeded" -> "none"
      [] o.op = "read_file" /\ (op \in FileToFile \/ next = "read_before_write") -> "awaiting"
      [] OTHER -> contract

----------------------------------------------------------------------------
(* The loop.                                                               *)

Min2(a, b) == IF a <= b THEN a ELSE b
Max2(a, b) == IF a >= b THEN a ELSE b

\* _tool_choice_loop_max_steps.
MaxSteps(caps) ==
    LET base == IF st.plan = <<>> THEN 2 ELSE Max2(2, Min2(6, Len(st.plan) + 1))
    IN  IF Filesystem \in caps THEN Max2(base, 6) ELSE base

\* _tool_choice_loop_node up to the loop.  s: the state, caps: the override
\* or the catalog.
StartLoop(s, caps) ==
    LET contract == IF caps = {Filesystem} /\ s.calls > 0 THEN Arm(s.contract) ELSE s.contract
        started == [s EXCEPT !.contract = contract]
    IN  /\ pc' = "loop"
        /\ st' = started /\ before' = started
        /\ lp' = [NoLoop EXCEPT !.caps = caps, !.max = MaxSteps(caps), !.snapshot = contract]

\* _stage_filtered_capabilities.
Offered == IF st.plan = <<>> \/ st.plan[lp.stage] = {} THEN lp.caps ELSE lp.caps \cap st.plan[lp.stage]

\* _next_stage_index_after_observation.
NextStage(d, o) ==
    LET allowing == {k \in DOMAIN st.plan : d.cap \in st.plan[k]}
        first    == {k \in allowing : \A j \in allowing : k <= j}
        seen     == {k \in first : k >= lp.stage} \cup {k \in {lp.stage} : \A f \in first : f < k}
        next     == CHOOSE k \in 1..(Len(st.plan) + 1) : k - 1 \in seen
    IN  IF st.plan = <<>> \/ o.status # "succeeded" \/ o.suggest # NoDecision \/ d.cap = Filesystem
           \/ next > Len(st.plan)
        THEN lp.stage ELSE next

\* Mutant: what happened before the loop is forgotten.
GuardsByFlags == lp.recovery /\ lp.read /\ ~lp.mutation

\* Whether the guard holds back a text: _filesystem_final_answer_guard_reason
\* and the flags of the runner.
Guards == \/ /\ lp.snapshot # "none"
             /\ lp.snapshot = "awaiting" \/ lp.read
             /\ ~lp.mutation
          \/ lp.recovery /\ lp.read /\ ~lp.mutation

Deciding == pc = "loop" /\ lp.iter < lp.max /\ lp.next = NoDecision

Retry == [lp EXCEPT !.retries = @ + 1]

GuardRetry ==
    /\ Deciding /\ Guards /\ lp.retries < MaxGuardRetries
    /\ lp' = Retry
    /\ UNCHANGED <<pc, st, before, log, steps, card, asked, files, edits>>

GuardGivesUp ==
    /\ Deciding /\ Guards /\ lp.retries >= MaxGuardRetries
    /\ pc' = "wait_user_input"
    /\ lp' = NoLoop /\ before' = st
    /\ UNCHANGED <<st, log, steps, card, asked, files, edits>>

FinalText ==
    /\ Deciding /\ ~Guards
    /\ pc' = "respond"
    /\ st' = [st EXCEPT !.answer = "llm_tool_choice_loop"]
    /\ lp' = NoLoop /\ before' = st'
    /\ UNCHANGED <<log, steps, card, asked, files, edits>>

\* The loop leaves the state as it is: budget exhausted, a repeated call, a
\* tool that was not offered.
LeaveLoop == /\ pc' = "respond" /\ lp' = NoLoop /\ before' = st
             /\ UNCHANGED <<st, log, steps, card, asked, files, edits>>

BudgetExhausted == pc = "loop" /\ lp.iter = lp.max /\ LeaveLoop

Repeated(d) == d \in DOMAIN lp.keys /\ lp.keys[d] >= MaxRepeated

\* decide_next_step: the runtime's suggestion or the model's call.
Decides(d) == /\ pc = "loop" /\ lp.iter < lp.max
              /\ d \in IF lp.next = NoDecision THEN ModelDecisions ELSE {lp.next}

RefuseCall(d) == Decides(d) /\ (Repeated(d) \/ d.cap \notin Offered) /\ LeaveLoop

\* An AttributeError or TypeError in the loop: the state from before it.
AbortLoop == /\ Deciding
             /\ pc' = "respond" /\ st' = before /\ lp' = NoLoop
             /\ UNCHANGED <<before, log, steps, card, asked, files, edits>>

\* execute_step and the rest of the iteration.
Iterated(d, o) ==
    LET fs == d.cap = Filesystem
    IN  [lp EXCEPT !.iter = @ + 1, !.keys = BagAdd(@, d), !.next = o.suggest,
                   !.recovery = @ \/ (fs /\ o.next \in {"continue_model_loop", "read_before_write"}),
                   !.read = @ \/ (fs /\ d.inp.op = "read_file" /\ o.status = "succeeded"),
                   !.mutation = @ \/ (fs /\ d.inp.op \in FileToFile /\ o.status = "succeeded"),
                   !.stage = NextStage(d, o)]

ExecuteStep(d) ==
    /\ Decides(d) /\ ~Repeated(d) /\ d.cap \in Offered
    /\ \E o \in Outcomes(d, FALSE) :
          /\ Logged(d, o, FALSE) /\ Waits(d, o)
          /\ st' = [Called(o) EXCEPT
                       !.contract = IF d.cap = Filesystem /\ o.step = "maybe_tool"
                                    THEN Marked(@, d.inp.op, o.next, o) ELSE @]
          /\ IF o.step # "maybe_tool" THEN pc' = o.step /\ lp' = NoLoop /\ before' = st'
             ELSE IF o.status = "failed" /\ o.next = "none"
             THEN pc' = "respond" /\ lp' = NoLoop /\ before' = st'
             ELSE lp' = Iterated(d, o) /\ UNCHANGED <<pc, before>>
    /\ UNCHANGED edits

----------------------------------------------------------------------------
(* The turn.                                                               *)

NoToolRequested == /\ pc = "plan_or_reply"
                   /\ StartLoop(st, Catalog)
                   /\ UNCHANGED <<log, steps, card, asked, files, edits>>

\* The request names a tool: _maybe_tool_node, then
\* _recover_explicit_tool_no_dead_end.
RequestedTool(d) ==
    /\ pc = "plan_or_reply"
    /\ \E o \in Outcomes(d, FALSE) :
          /\ Logged(d, o, FALSE) /\ Waits(d, o)
          /\ CASE o.step = "maybe_tool" /\ o.next = "continue_model_loop" ->
                    StartLoop([Called(o) EXCEPT !.contract = IF d.inp.op = Unset THEN Arm(@) ELSE @],
                              {Filesystem})
               [] o.step = "maybe_tool" /\ o.next = "read_before_write" /\ o.suggest # NoDecision ->
                    /\ pc' = "recover" /\ st' = Called(o) /\ before' = st'
                    /\ lp' = [NoLoop EXCEPT !.next = o.suggest]
               [] OTHER -> /\ pc' = IF o.step = "maybe_tool" THEN "respond" ELSE o.step
                           /\ st' = Called(o) /\ before' = st' /\ lp' = NoLoop
    /\ UNCHANGED edits

\* The read the recovery asks for, then the loop.
RecoverByReading ==
    /\ pc = "recover"
    /\ \E o \in Outcomes(lp.next, FALSE) :
          /\ Logged(lp.next, o, FALSE)
          /\ StartLoop([Called(o) EXCEPT !.contract = Marked(@, Unset, "read_before_write", o)],
                       {Filesystem})
    /\ UNCHANGED <<card, asked, edits>>

\* continue_agent_workflow_after_approval: the card's input, confirmed.
Approve ==
    /\ pc = "wait_confirmation"
    /\ \E o \in Outcomes(card, TRUE) :
          /\ Logged(card, o, TRUE)
          /\ st' = [Called(o) EXCEPT !.answer = IF o.op \in FileToFile /\ o.logged = "succeeded"
                                                THEN "grounded" ELSE @]
    /\ pc' = "respond" /\ before' = st'
    /\ UNCHANGED <<lp, card, asked, edits>>

Reject == /\ pc = "wait_confirmation"
          /\ pc' = "completed"
          /\ UNCHANGED <<st, lp, before, log, steps, card, asked, files, edits>>

\* _generate_final_response: a prepared or grounded answer, or a summary.
Respond == /\ pc = "respond"
           /\ pc' = "completed"
           /\ st' = [st EXCEPT !.answer = IF @ = "none" THEN "summary" ELSE @]
           /\ before' = st'
           /\ UNCHANGED <<lp, log, steps, card, asked, files, edits>>

\* Somebody else creates or removes a file while the card waits.
EditFiles(p) == /\ pc = "wait_confirmation" /\ edits < MaxEdits
                /\ files' = [files EXCEPT ![p] = IF @ = Absent THEN 2 ELSE Absent]
                /\ edits' = edits + 1
                /\ UNCHANGED <<pc, st, lp, before, log, steps, card, asked>>

Next == \/ NoToolRequested \/ RecoverByReading
        \/ \E d \in ModelDecisions : d.cap # Unknown /\ RequestedTool(d)
        \/ GuardRetry \/ GuardGivesUp \/ FinalText \/ BudgetExhausted \/ AbortLoop
        \/ \E d \in ModelDecisions \cup {lp.next} : RefuseCall(d) \/ ExecuteStep(d)
        \/ Approve \/ Reject \/ Respond
        \/ \E p \in Paths : EditFiles(p)

Spec == Init /\ [][Next]_vars

----------------------------------------------------------------------------
\* A text of the model never ends a turn in which a file has been read for a
\* write that has not been made (the completion contract and its guard).
OpenWriteIsNotAnswered == st.answer = "llm_tool_choice_loop" => st.contract # "awaiting"

\* The card the user decides on carries the tool and the arguments of the call
\* that was held back, whatever calls of the turn came before it.
CardMatchesCall == pc = "wait_confirmation" => card.cap = asked.cap /\ card.inp = asked.inp

\* Every logged call of the run has a durable step of its own that agrees with
\* it, also after a loop that was aborted or a continued approval.
StepsMatchLog == \A k \in DOMAIN log : \E n \in DOMAIN steps :
                    steps[n] = [status |-> log[k].status, call |-> k]

\* Whatever Skills are loaded together and in whatever order calls are held back,
\* confirmed and repeated: a tool one of them denies never runs, a tool that needs
\* a confirmation by its definition or by one of them runs only confirmed, and of
\* the tools none of them lists only the low-risk ones run by themselves.
SkillPoliciesHold ==
    \A k \in DOMAIN log : log[k].cap \in Tools =>
        LET run    == log[k]
            listed == UNION {skill.allowed : skill \in st.skills}
        IN  /\ \A skill \in st.skills : run.cap \notin skill.denied
            /\ \/ run.confirmed
               \/ /\ ~Definition(run.cap).confirm
                  /\ \A skill \in st.skills : run.cap \notin skill.ask
                  /\ listed = {} \/ run.cap \in listed \cup LowRiskCapabilities

\* The agent changes files only after an approval, and then as the card says, even
\* if the files have changed while the card waited.  One reading is left open: a
\* card that fell back to the explicit target because the name of the call was
\* taken goes to that name when it has become free since.
ChangedAsApproved ==
    [][files' # files /\ edits' = edits =>
          /\ pc = "wait_confirmation"
          /\ \E dst \in {asked.inp.dst, Otherwise(asked.inp.name, asked.inp.dst)} :
                files' = After([asked.inp EXCEPT !.dst = dst], files)]_vars
=============================================================================
