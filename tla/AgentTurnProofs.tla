---------------------------- MODULE AgentTurnProofs ----------------------------
(***************************************************************************)
(* Proofs about one turn of the agent: what is known of a call of the      *)
(* filesystem Skill and of a guarded tool, and with it that every property *)
(* the run checks holds for all tools, Skills, plans, paths and inputs.    *)
(***************************************************************************)
EXTENDS AgentTurn, TLAPS

Statuses == {"succeeded", "failed", "waiting_user"}
Routes == {"none", "wait_user_input", "continue_model_loop", "read_before_write"}
Capabilities == Catalog \cup {Unknown, "none"}
Decision == [cap : Capabilities, inp : Inputs]

----------------------------------------------------------------------------
(* A call of the Skill.                                                    *)

\* Completing the arguments of a call changes its source and its target only.
LEMMA CompletedArguments ==
    ASSUME NEW i \in Inputs, NEW ctx \in Contexts, NEW fs
    PROVE  /\ Completed(i, ctx, fs) \in Inputs
           /\ Completed(i, ctx, fs).op = i.op
           /\ Completed(i, ctx, fs) = [i EXCEPT !.src = Otherwise(i.src, ctx.active),
                                                !.dst = Completed(i, ctx, fs).dst]
           /\ Completed(i, ctx, fs).dst \in {i.dst, Otherwise(i.name, i.dst)}
<1> DEFINE src == Otherwise(i.src, ctx.active)
           dst == Otherwise(FromNameIntent(i, fs), i.dst)
<1>1. Completed(i, ctx, fs) = [i EXCEPT !.src = src, !.dst = dst]
  BY DEF Completed
<1>2. FromNameIntent(i, fs) \in {NoPath, i.name}
  BY DEF FromNameIntent
<1>3. dst \in {i.dst, Otherwise(i.name, i.dst)}
  BY <1>2 DEF Otherwise
<1>4. src \in PathOrNone /\ dst \in PathOrNone
  BY <1>3 DEF Otherwise, Inputs, Contexts
<1> HIDE DEF src, dst
<1>5. /\ [i EXCEPT !.src = src, !.dst = dst] \in Inputs
      /\ [i EXCEPT !.src = src, !.dst = dst].op = i.op
      /\ [i EXCEPT !.src = src, !.dst = dst].dst = dst
  BY <1>4 DEF Inputs
<1> QED
  BY <1>1, <1>3, <1>5 DEF src

\* The arguments a result carries: the call's, with source and target settled.
ArgumentsOf(i, a) == /\ a \in Inputs
                     /\ a = [i EXCEPT !.src = a.src, !.dst = a.dst]
                     /\ i.src # NoPath => a.src = i.src
                     /\ i.op \notin FileToFile => a.dst = i.dst
                     /\ i.op \in FileToFile => a.dst \in {i.dst, Otherwise(i.name, i.dst)}

\* What the runtime relies on in the answer r of the Skill to the call i.
Answered(i, r, confirmed, same) ==
    /\ r.status \in Statuses /\ r.next \in Routes /\ r.op = i.op
    /\ ArgumentsOf(i, r.args)
    /\ r.status = "waiting_user" => /\ ~confirmed /\ r.next = "none"
                                    /\ r.args.src # NoPath
    /\ i.op = Unset => r.status = "failed"
    /\ i.op = "read_file" => r.next = "none"
    /\ r.status = "succeeded" =>
          /\ r.args.src # NoPath
          /\ i.op \in FileToFile => confirmed /\ r.args.dst # NoPath
          /\ i.op = "replace_text" => confirmed \/ same

LEMMA CallAnswered ==
    ASSUME NEW i \in Inputs, NEW ctx \in Contexts, NEW fs,
           NEW confirmed \in BOOLEAN, NEW works \in BOOLEAN, NEW same \in BOOLEAN
    PROVE  Answered(i, Call(i, ctx, fs, confirmed, works, same), confirmed, same)
<1> DEFINE r == Call(i, ctx, fs, confirmed, works, same)
<1>1. CASE i.op = Unset
  <2>1. r = Recoverable(i, "continue_model_loop")
    BY <1>1 DEF Call
  <2>2. ArgumentsOf(i, i)
    BY <1>1 DEF ArgumentsOf, Inputs, FileToFile, Unset
  <2> QED
    BY <2>1, <2>2, <1>1 DEF Answered, Recoverable, Result, Statuses, Routes, FileToFile, Unset
<1>2. CASE i.op \in FileToFile
  <2> DEFINE a == Completed(i, ctx, fs)
  <2>1. i.op # Unset /\ i.op # "read_file" /\ i.op # "replace_text"
    BY <1>2 DEF FileToFile, Unset
  <2>2. r = FileToFileOperation(i, ctx, fs, confirmed, works)
    BY <1>2, <2>1 DEF Call
  <2>3. ArgumentsOf(i, a) /\ a.op = i.op
    <3>1. /\ a \in Inputs /\ a.op = i.op
          /\ a = [i EXCEPT !.src = Otherwise(i.src, ctx.active), !.dst = a.dst]
          /\ a.dst \in {i.dst, Otherwise(i.name, i.dst)}
      BY CompletedArguments
    <3> HIDE DEF a
    <3>2. a.src = Otherwise(i.src, ctx.active)
      BY <3>1 DEF Inputs
    <3>3. i.src # NoPath => a.src = i.src
      BY <3>2 DEF Otherwise
    <3> QED
      BY <3>1, <3>2, <3>3, <1>2 DEF ArgumentsOf
  <2> HIDE DEF a
  <2>4. \/ r \in {Recoverable(a, next) : next \in {"read_before_write", "continue_model_loop", "wait_user_input"}}
        \/ a.src # NoPath /\ a.dst # NoPath /\ confirmed /\ r = RunInternalAction(a, fs, works)
        \/ a.src # NoPath /\ a.dst # NoPath /\ ~confirmed /\ r = NeedsApproval(a)
    BY <2>2 DEF FileToFileOperation, a
  <2> QED
    BY <2>1, <2>3, <2>4, <1>2 DEF Answered, Recoverable, RunInternalAction, NeedsApproval, Result, Statuses, Routes
<1>3. CASE i.op \notin FileToFile \cup {Unset}
  <2> DEFINE a == [i EXCEPT !.src = Otherwise(@, ctx.active)]
  <2>1. r = OnePathOperation(i, ctx, fs, confirmed, works, same)
    BY <1>3 DEF Call
  <2>2. ArgumentsOf(i, a) /\ a.op = i.op
    BY <1>3 DEF ArgumentsOf, Inputs, Contexts, PathOrNone, Otherwise
  <2> HIDE DEF a
  <2>3. \/ r = Result("failed", a.op, "none", a)
        \/ a.src # NoPath /\ a.op # "replace_text" /\ r = RunInternalAction(a, fs, works)
        \/ a.src # NoPath /\ a.op = "replace_text" /\ same /\ r = Result("succeeded", a.op, "none", a)
        \/ a.src # NoPath /\ a.op = "replace_text" /\ confirmed /\ r = RunInternalAction(a, fs, works)
        \/ a.src # NoPath /\ a.op = "replace_text" /\ ~confirmed /\ r = NeedsApproval(a)
    BY <2>1 DEF OnePathOperation, a
  <2> QED
    BY <2>2, <2>3, <1>3 DEF Answered, RunInternalAction, NeedsApproval, Result, Statuses, Routes
<1> QED
  BY <1>1, <1>2, <1>3

\* A call that is not confirmed leaves the files alone.
LEMMA UnconfirmedKeepsFiles ==
    ASSUME NEW i \in Inputs, NEW r, NEW same \in BOOLEAN, NEW fs,
           Answered(i, r, FALSE, same)
    PROVE  FilesAfter(r, fs, same) = fs
<1>1. r.op = i.op /\ r.args.op = i.op
  BY DEF Answered, ArgumentsOf, Inputs
<1>2. CASE r.status = "succeeded" /\ ~(r.op = "replace_text" /\ same)
  <2>1. i.op \notin FileToFile /\ i.op # "replace_text"
    BY <1>1, <1>2 DEF Answered
  <2> QED
    BY <1>1, <1>2, <2>1 DEF FilesAfter, After, FileToFile
<1> QED
  BY <1>2 DEF FilesAfter

\* A confirmed call with a settled source does what its input says, up to the
\* target a name of the input stands for.
AsSaid(i, fs, after) == \E dst \in {i.dst, Otherwise(i.name, i.dst)} :
                           after = After([i EXCEPT !.dst = dst], fs)

LEMMA ConfirmedDoesAsSaid ==
    ASSUME NEW i \in Inputs, NEW r, NEW same \in BOOLEAN, NEW fs,
           Answered(i, r, TRUE, same), i.src # NoPath
    PROVE  FilesAfter(r, fs, same) = fs \/ AsSaid(i, fs, FilesAfter(r, fs, same))
<1>1. r.args = [i EXCEPT !.dst = r.args.dst]
  <2>1. r.args = [i EXCEPT !.src = r.args.src, !.dst = r.args.dst] /\ r.args.src = i.src
    BY DEF Answered, ArgumentsOf
  <2>2. [i EXCEPT !.src = i.src, !.dst = r.args.dst] = [i EXCEPT !.dst = r.args.dst]
    BY DEF Inputs
  <2> QED
    BY <2>1, <2>2
<1>2. r.args.dst \in {i.dst, Otherwise(i.name, i.dst)}
  BY DEF Answered, ArgumentsOf
<1> QED
  BY <1>1, <1>2 DEF FilesAfter, AsSaid

\* The context that is passed on after a call names paths only.
LEMMA PromotedContext ==
    ASSUME NEW i \in Inputs, NEW r, NEW ctx \in Contexts,
           NEW confirmed \in BOOLEAN, NEW same \in BOOLEAN, Answered(i, r, confirmed, same)
    PROVE  Promoted(ctx, r) \in Contexts
<1>1. r.op = i.op /\ i.op \in Operations \cup {Unset}
  BY DEF Answered, Inputs
<1>2. r.args.src \in PathOrNone /\ r.args.dst \in PathOrNone
  BY DEF Answered, ArgumentsOf, Inputs
<1>3. r.status = "succeeded" => r.op \in FileToFile \cup {"replace_text", "read_file", "path_exists"}
  BY <1>1 DEF Answered, Operations, HighRisk
<1> QED
  BY <1>2, <1>3 DEF Promoted, Contexts, PathOrNone, FileToFile

----------------------------------------------------------------------------
(* A call of a registered tool.                                            *)

LEMMA SkillIsNoTool == Filesystem \notin Tools
BY ToolsAssumption DEF Filesystem, Registry, Tool, Read, Change, ApplicationTools, ArtifactTools,
   WebSearchTools, DatabaseReads, DatabaseChanges, LocalTools, FilesystemReads,
   FilesystemTextChanges, FilesystemTransfers, FilesystemPathChanges, SourceTools, ContentTools,
   SkillTools, MemoryTools, McpChanges, McpReads

LEMMA DefinitionName ==
    ASSUME NEW name \in Tools
    PROVE  Definition(name).name = name
<1>1. \E tool \in Registry : tool.name = name
  BY ToolsAssumption
<1> QED
  BY <1>1 DEF Definition

\* What the lists of the loaded Skills say of a call that ran.
Permitted(run, loaded) ==
    LET listed == UNION {skill.allowed : skill \in loaded}
    IN  /\ \A skill \in loaded : run.cap \notin skill.denied
        /\ \/ run.confirmed
           \/ /\ ~Definition(run.cap).confirm
              /\ \A skill \in loaded : run.cap \notin skill.ask
              /\ listed = {} \/ run.cap \in listed \cup LowRiskCapabilities

LEMMA GuardedIsPermitted ==
    ASSUME NEW run, NEW loaded, NEW calls \in Nat, NEW max \in Nat, run.cap \in Tools,
           pre_check(Definition(run.cap), from_loaded_skill_metadata(loaded), calls, max, run.confirmed) = "ok"
    PROVE  Permitted(run, loaded)
<1> DEFINE tool == Definition(run.cap)
           listed == UNION {skill.allowed : skill \in loaded}
           asking == UNION {skill.ask : skill \in loaded}
           denied == UNION {skill.denied : skill \in loaded}
           policy == [allowed |-> listed, ask |-> asking, denied |-> denied]
<1>1. tool.name = run.cap
  BY DefinitionName
<1>2. from_loaded_skill_metadata(loaded) = policy
  BY DEF from_loaded_skill_metadata
<1>3. policy.allowed = listed /\ policy.ask = asking /\ policy.denied = denied
  OBVIOUS
<1> HIDE DEF tool, listed, asking, denied, policy
<1>4. pre_check(tool, policy, calls, max, run.confirmed) = "ok"
  BY <1>2 DEF tool
<1>5. /\ decide(policy, run.cap, run.confirmed) # "deny"
      /\ ~run.confirmed => ~tool.confirm
      /\ decide(policy, run.cap, run.confirmed) = "ask" => AllowsLowRisk(tool, policy)
  BY <1>1, <1>4 DEF pre_check
<1>6. run.cap \notin denied
  BY <1>3, <1>5 DEF decide
<1>7. run.confirmed \/ /\ run.cap \notin asking
                       /\ listed = {} \/ run.cap \in listed \cup LowRiskCapabilities
  BY <1>1, <1>3, <1>5 DEF decide, AllowsLowRisk
<1> QED
  BY <1>5, <1>6, <1>7 DEF Permitted, tool, listed, asking, denied

----------------------------------------------------------------------------
(* The inductive invariant.                                                *)

Turn == [calls : Nat, contract : {"none", "candidate", "awaiting"}, ctx : Contexts,
         completion : Inputs, answer : {"none", "llm_tool_choice_loop", "grounded", "summary"},
         plan : Plans, skills : Loaded]
LoopWith(keys, stage) ==
    [caps : SUBSET Catalog, max : 0..6, iter : Nat, next : Decision, keys : {keys},
     recovery : BOOLEAN, read : BOOLEAN, mutation : BOOLEAN, retries : Nat,
     snapshot : {"none", "candidate", "awaiting"}, stage : {stage}]
Logs == Seq([cap : Capabilities, status : {"succeeded", "failed", "blocked"}, confirmed : BOOLEAN])

TypeOK == /\ pc \in {"plan_or_reply", "recover", "loop", "wait_confirmation", "wait_user_input",
                     "respond", "completed"}
          /\ st \in Turn /\ before \in Turn
          /\ lp \in LoopWith(lp.keys, lp.stage)
          /\ log \in Logs
          /\ steps \in [1..MaxToolCalls -> [status : {"none", "succeeded", "failed", "blocked"}, call : Nat]]
          /\ card \in Decision /\ asked \in Decision
          /\ edits \in Nat

\* Until the turn answers, no answer is prepared, not even by the state it would
\* fall back to, and the Skills stay the same.
NotAnswered == /\ before.skills = st.skills
               /\ pc \notin {"respond", "completed"} => st.answer = "none" /\ before.answer = "none"

\* The guard knows of every read that waits for its write: from the contract the
\* loop began with or from what it has seen itself.
Tracked == pc = "loop" => /\ ~lp.mutation
                          /\ st.contract = "candidate" => lp.snapshot # "none" \/ lp.recovery
                          /\ st.contract = "awaiting" => Guards

\* Until the turn answers, the calls counted are the calls logged, each has its
\* step, and they are few enough for the steps there are.
Running == pc \in {"plan_or_reply", "recover", "loop", "wait_confirmation"}
Numbered(l, s) == \A k \in DOMAIN l : s[k] = [status |-> l[k].status, call |-> k]
Counted == /\ Running => st.calls = Len(log)
           /\ Len(log) <= MaxToolCalls
           /\ Numbered(log, steps)
           /\ pc = "plan_or_reply" => Len(log) = 0
           /\ pc = "recover" => Len(log) <= 1
           /\ pc = "loop" => Len(log) <= 2 + lp.iter
           /\ pc = "wait_confirmation" => Len(log) <= 8

\* What waits for the user is a call the Skill or the tool is ready to make.
Ready == pc = "wait_confirmation" => /\ card = asked
                                     /\ card.cap \in Catalog
                                     /\ card.cap = Filesystem => card.inp.src # NoPath

SkillsRespected == \A k \in DOMAIN log : log[k].cap \in Tools => Permitted(log[k], st.skills)

Inv == TypeOK /\ NotAnswered /\ Tracked /\ OpenWriteIsNotAnswered /\ Counted /\ Ready /\ SkillsRespected

----------------------------------------------------------------------------
(* Every way a call may end.                                               *)

Ending(o) == /\ o.step \in {"maybe_tool", "wait_confirmation", "wait_user_input"}
             /\ o.logged \in {"none", "succeeded", "failed", "blocked"}
             /\ o.suggest \in Decision /\ o.ctx \in Contexts
             /\ o.args \in Inputs /\ o.completion \in Inputs

\* What is held back is logged when it has run, and its card is the call itself.
HeldBack(d, o, confirmed) ==
    o.step = "wait_confirmation" => /\ o.logged = "none" /\ ~confirmed
                                    /\ Card(d, o) = [cap |-> d.cap, inp |-> o.args]
                                    /\ d.cap = Filesystem => o.args.src # NoPath

FilesOf(d, o, confirmed) ==
    /\ ~confirmed => o.files = files
    /\ d.cap # Filesystem => o.files = files
    /\ d.cap = Filesystem /\ confirmed /\ d.inp.src # NoPath =>
          o.files = files \/ AsSaid(d.inp, files, o.files)

\* An unconfirmed call of the Skill writes no file; a read needs no recovery.
SkillEnds(d, o, confirmed) ==
    d.cap = Filesystem => /\ o.op = d.inp.op
                          /\ o.step = "maybe_tool" => o.status = o.logged
                          /\ o.status = "succeeded" /\ d.inp.op \in FileToFile => confirmed
                          /\ o.op = "read_file" => o.next = "none"
                          /\ o.next \in Routes

Ends(d, o, confirmed) ==
    /\ Ending(o) /\ HeldBack(d, o, confirmed) /\ FilesOf(d, o, confirmed) /\ SkillEnds(d, o, confirmed)
    /\ d.cap \in Tools /\ o.logged # "none" =>
          Permitted([cap |-> d.cap, status |-> o.logged, confirmed |-> confirmed], st.skills)

LEMMA DecisionTypes == /\ Blank \in Inputs /\ NoDecision \in Decision
                       /\ ModelDecisions \subseteq Decision
                       /\ \A p \in Paths : Reads(p) \in Decision
                       /\ \A d \in Decision : Again(d) \in Decision
<1>1. Blank \in Inputs
  BY DEF Blank, Inputs, PathOrNone
<1>2. NoDecision \in Decision
  BY <1>1 DEF NoDecision, Decision, Capabilities
<1>3. ModelDecisions \subseteq Decision
  BY <1>1, InputsAssumption DEF ModelDecisions, Decision, Capabilities, Catalog
<1>4. ASSUME NEW p \in Paths PROVE Reads(p) \in Decision
  <2>1. [Blank EXCEPT !.op = "read_file", !.src = p] \in Inputs
    BY <1>1 DEF Inputs, PathOrNone, Operations
  <2> QED
    BY <2>1 DEF Reads, Decision, Capabilities, Catalog
<1>5. ASSUME NEW d \in Decision PROVE Again(d) \in Decision
  BY DEF Again, Decision, Inputs
<1> QED
  BY <1>1, <1>2, <1>3, <1>4, <1>5

LEMMA SkillEnding ==
    ASSUME TypeOK, NEW d \in Decision, d.cap = Filesystem, NEW confirmed \in BOOLEAN,
           NEW o \in SkillOutcomes(d.inp, confirmed)
    PROVE  Ends(d, o, confirmed)
<1> PICK works \in BOOLEAN, same \in BOOLEAN :
       o = SkillOutcome(d.inp, Call(d.inp, st.ctx, files, confirmed, works, same), same)
  BY DEF SkillOutcomes
<1> DEFINE i == d.inp
           r == Call(i, st.ctx, files, confirmed, works, same)
<1>1. i \in Inputs /\ st.ctx \in Contexts
  BY DEF Decision, TypeOK, Turn
<1>2. Answered(i, r, confirmed, same)
  BY <1>1, CallAnswered
<1> DEFINE ctx == Promoted(st.ctx, r)
           after == FilesAfter(r, files, same)
           suggest == IF r.next = "read_before_write" /\ r.args.src # NoPath
                      THEN Reads(r.args.src) ELSE NoDecision
           op == IF i.op = Unset THEN Unset ELSE r.op
<1>3. o = SkillOutcome(i, r, same)
  OBVIOUS
<1>4. ctx \in Contexts
  BY <1>1, <1>2, PromotedContext
<1>5. suggest \in Decision
  BY <1>2, DecisionTypes DEF Answered, ArgumentsOf, Inputs, PathOrNone
<1>6. op = i.op
  BY <1>2 DEF Answered
<1>7. /\ ~confirmed => after = files
      /\ confirmed /\ i.src # NoPath => after = files \/ AsSaid(i, files, after)
  BY <1>1, <1>2, UnconfirmedKeepsFiles, ConfirmedDoesAsSaid
<1> HIDE DEF ctx, after, suggest, op, r
<1>8. /\ o.op = op /\ o.next = r.next /\ o.args = r.args /\ o.ctx = ctx /\ o.files = after
      /\ o.suggest = suggest /\ o.completion = Blank
      /\ \/ r.status = "waiting_user" /\ o.step = "wait_confirmation" /\ o.logged = "none" /\ o.status = "waiting_user"
         \/ r.status # "waiting_user" /\ o.step = "wait_user_input" /\ o.logged = "blocked" /\ o.status = "waiting_user"
         \/ r.status # "waiting_user" /\ o.step = "maybe_tool" /\ o.logged = r.status /\ o.status = r.status
  <2>1. \E step, logged, status :
           /\ o = [Outcome(step, logged, status) EXCEPT !.op = op, !.next = r.next, !.args = r.args,
                      !.ctx = ctx, !.files = after, !.suggest = suggest]
           /\ \/ r.status = "waiting_user" /\ step = "wait_confirmation" /\ logged = "none" /\ status = "waiting_user"
              \/ r.status # "waiting_user" /\ step = "wait_user_input" /\ logged = "blocked" /\ status = "waiting_user"
              \/ r.status # "waiting_user" /\ step = "maybe_tool" /\ logged = r.status /\ status = r.status
    <3>1. CASE r.status = "waiting_user"
      BY <1>3, <3>1 DEF SkillOutcome, ctx, after, suggest, op
    <3>2. CASE r.status # "waiting_user" /\ r.next = "wait_user_input"
      BY <1>3, <3>2 DEF SkillOutcome, ctx, after, suggest, op
    <3>3. CASE r.status # "waiting_user" /\ r.next # "wait_user_input"
      BY <1>3, <3>3 DEF SkillOutcome, ctx, after, suggest, op
    <3> QED
      BY <3>1, <3>2, <3>3
  <2> QED
    BY <2>1 DEF Outcome
<1>9. Ending(o)
  BY <1>2, <1>4, <1>5, <1>8, DecisionTypes DEF Ending, Answered, Statuses, ArgumentsOf
<1>10. HeldBack(d, o, confirmed)
  <2> SUFFICES ASSUME o.step = "wait_confirmation" PROVE HeldBack(d, o, confirmed)
    BY DEF HeldBack
  <2>1. r.status = "waiting_user" /\ o.logged = "none"
    BY <1>8
  <2>2. ~confirmed /\ o.args.src # NoPath
    BY <1>2, <1>8, <2>1 DEF Answered
  <2>3. CardInput(i, o) = o.args
    <3>1. /\ o.args \in Inputs /\ o.args.op = i.op
          /\ o.args = [i EXCEPT !.src = o.args.src, !.dst = o.args.dst]
      <4>1. /\ o.args \in Inputs
            /\ o.args = [i EXCEPT !.src = o.args.src, !.dst = o.args.dst]
        BY <1>2, <1>8 DEF Answered, ArgumentsOf
      <4>2. [i EXCEPT !.src = o.args.src, !.dst = o.args.dst].op = i.op
        BY <1>1 DEF Inputs
      <4> QED
        BY <4>1, <4>2
    <3>2. [i EXCEPT !.op = i.op, !.src = o.args.src, !.dst = o.args.dst]
             = [i EXCEPT !.src = o.args.src, !.dst = o.args.dst]
      BY <1>1 DEF Inputs
    <3> QED
      BY <3>1, <3>2 DEF CardInput
  <2>4. Card(d, o) = [cap |-> d.cap, inp |-> o.args]
    BY <2>3 DEF Card, Decision
  <2> QED
    BY <2>1, <2>2, <2>4 DEF HeldBack
<1>11. FilesOf(d, o, confirmed)
  BY <1>7, <1>8 DEF FilesOf
<1>12. SkillEnds(d, o, confirmed)
  BY <1>2, <1>6, <1>8 DEF SkillEnds, Answered
<1>13. d.cap \notin Tools
  BY SkillIsNoTool
<1> QED
  BY <1>9, <1>10, <1>11, <1>12, <1>13 DEF Ends

\* What a tool leaves before its arguments are noted down: files and context stay.
Bare == [step : {"maybe_tool", "wait_user_input", "wait_confirmation"},
         logged : {"none", "succeeded", "failed", "blocked"},
         status : {"succeeded", "failed", "waiting_user", "unknown", "partial"},
         op : {Unset}, next : {"none"}, suggest : Decision, ctx : {st.ctx}, files : {files},
         args : {Blank}, completion : {Blank}]

LEMMA BareOutcomes ==
    ASSUME NEW step \in {"maybe_tool", "wait_user_input", "wait_confirmation"},
           NEW logged \in {"none", "succeeded", "failed", "blocked"},
           NEW status \in {"succeeded", "failed", "waiting_user", "unknown", "partial"},
           NEW suggest \in Decision
    PROVE  /\ Outcome(step, logged, status) \in Bare
           /\ [Outcome(step, logged, status) EXCEPT !.suggest = suggest] \in Bare
BY DecisionTypes DEF Bare, Outcome

LEMMA ToolOutcomeBare ==
    ASSUME NEW d \in Decision, NEW end \in ToolEnds
    PROVE  ToolOutcome(d, end) \in {e \in Bare : e.step # "wait_confirmation"}
<1>1. NoDecision \in Decision /\ Again(d) \in Decision
  BY DecisionTypes
<1>2. ToolOutcome(d, end) \in Bare
  <2>1. CASE end = "missing"
    BY <2>1, BareOutcomes, <1>1 DEF ToolOutcome
  <2>2. CASE end = "unavailable"
    BY <2>2, BareOutcomes, <1>1 DEF ToolOutcome
  <2>3. CASE end = "alternative"
    BY <2>3, BareOutcomes, <1>1 DEF ToolOutcome
  <2>4. CASE end = "incomplete"
    BY <2>4, BareOutcomes, <1>1 DEF ToolOutcome
  <2>5. CASE end = "poor"
    <3>1. (IF d.cap \in Searches THEN Again(d) ELSE NoDecision) \in Decision
      BY <1>1
    <3> QED
      BY <2>5, <3>1, BareOutcomes DEF ToolOutcome
  <2>6. CASE end \in {"succeeded", "failed"}
    BY <2>6, BareOutcomes, <1>1 DEF ToolOutcome
  <2> QED
    BY <2>1, <2>2, <2>3, <2>4, <2>5, <2>6 DEF ToolEnds
<1>3. ToolOutcome(d, end).step # "wait_confirmation"
  BY DEF ToolOutcome, Outcome, ToolEnds
<1> QED
  BY <1>2, <1>3

LEMMA ToolEnding ==
    ASSUME TypeOK, NEW d \in Decision, d.cap # Filesystem, NEW confirmed \in BOOLEAN,
           NEW o \in ToolOutcomes(d, confirmed)
    PROVE  Ends(d, o, confirmed)
<1> DEFINE check == PreCheck(d.cap, confirmed)
           unready == Outcome("wait_user_input", "none", "waiting_user")
<1>1. check \in {"ok", "confirm", "blocked"}
  BY DEF PreCheck, pre_check
<1> HIDE DEF check
<1>2. PICK i \in complete_tool_input(d.inp), e \in GuardedEnds(d, check) \cup {unready} :
         o = Noted(e, i)
  BY DEF ToolOutcomes, check
<1>3. /\ e \in Bare
      /\ e.step = "wait_confirmation" => e.logged = "none" /\ check = "confirm"
      /\ e.logged # "none" => check = "ok"
  <2>1. CASE check = "blocked"
    BY <1>2, <2>1, BareOutcomes, DecisionTypes DEF GuardedEnds, Outcome
  <2>2. CASE check = "confirm"
    BY <1>2, <2>2, BareOutcomes, DecisionTypes DEF GuardedEnds, Outcome
  <2>3. CASE check = "ok"
    <3>1. e \in {ToolOutcome(d, end) : end \in ToolEnds} \/ e = unready
      BY <1>2, <2>3 DEF GuardedEnds
    <3>2. CASE e = unready
      BY <2>3, <3>2, BareOutcomes, DecisionTypes DEF Outcome
    <3>3. CASE e \in {ToolOutcome(d, end) : end \in ToolEnds}
      BY <2>3, <3>3, ToolOutcomeBare
    <3> QED
      BY <3>1, <3>2, <3>3
  <2> QED
    BY <1>1, <2>1, <2>2, <2>3
<1>4. /\ d.inp \in Inputs /\ i \in Inputs
      /\ ~i.filled => i = d.inp
  BY DEF complete_tool_input, Decision, Inputs
<1>5. /\ o.step = e.step /\ o.logged = e.logged /\ o.suggest = e.suggest
      /\ o.args = i /\ o.completion = (IF i.filled THEN i ELSE Blank)
      /\ o.files = files /\ o.ctx = st.ctx
  BY <1>2, <1>3 DEF Bare, Noted
<1>6. Ending(o)
  BY <1>3, <1>4, <1>5, DecisionTypes DEF Ending, TypeOK, Turn, Bare
<1>7. HeldBack(d, o, confirmed)
  <2> SUFFICES ASSUME o.step = "wait_confirmation" PROVE HeldBack(d, o, confirmed)
    BY DEF HeldBack
  <2>1. o.logged = "none" /\ check = "confirm"
    BY <1>3, <1>5
  <2>2. ~confirmed
    BY <2>1 DEF check, PreCheck, pre_check, decide
  <2>3. (IF Completion(o) # Blank THEN Completion(o) ELSE d.inp) = i
    BY <1>4, <1>5 DEF Completion, Blank
  <2>4. Card(d, o) = [d EXCEPT !.inp = i]
    BY <2>3 DEF Card
  <2> QED
    BY <1>5, <2>1, <2>2, <2>4 DEF HeldBack, Decision
<1>8. d.cap \in Tools /\ o.logged # "none" =>
         Permitted([cap |-> d.cap, status |-> o.logged, confirmed |-> confirmed], st.skills)
  <2> SUFFICES ASSUME d.cap \in Tools, o.logged # "none"
               PROVE  Permitted([cap |-> d.cap, status |-> o.logged, confirmed |-> confirmed], st.skills)
    OBVIOUS
  <2>1. check = "ok"
    BY <1>3, <1>5
  <2>2. st.calls \in Nat /\ MaxToolCalls \in Nat
    BY DEF TypeOK, Turn, MaxToolCalls
  <2> QED
    BY <2>1, <2>2, GuardedIsPermitted DEF check, PreCheck
<1> QED
  BY <1>5, <1>6, <1>7, <1>8 DEF Ends, FilesOf, SkillEnds

LEMMA CallEnding ==
    ASSUME TypeOK, NEW d \in Decision, NEW confirmed \in BOOLEAN, NEW o \in Outcomes(d, confirmed)
    PROVE  Ends(d, o, confirmed)
BY SkillEnding, ToolEnding DEF Outcomes

----------------------------------------------------------------------------
(* What a logged call and the start of a loop leave.                       *)

\* A call that ran adds its entry, its step and its count together.
Grown(o) ==
    /\ log' \in Logs
    /\ steps' \in [1..MaxToolCalls -> [status : {"none", "succeeded", "failed", "blocked"}, call : Nat]]
    /\ Numbered(log', steps')
    /\ Len(log') \in {Len(log), Len(log) + 1} /\ (o.logged = "none" => log' = log)
    /\ Called(o) \in Turn /\ Called(o).calls = Len(log')
    /\ Called(o).skills = st.skills /\ Called(o).answer = st.answer
    /\ Called(o).contract = st.contract /\ Called(o).plan = st.plan
    /\ \A k \in DOMAIN log' : log'[k].cap \in Tools => Permitted(log'[k], st.skills)

LEMMA CallIsLogged ==
    ASSUME TypeOK, Counted, Running, SkillsRespected, Len(log) < MaxToolCalls,
           NEW d \in Decision, NEW confirmed \in BOOLEAN, NEW o, Ends(d, o, confirmed),
           Logged(d, o, confirmed)
    PROVE  Grown(o)
<1> DEFINE entry == [cap |-> d.cap, status |-> o.logged, confirmed |-> confirmed]
           step == [status |-> o.logged, call |-> Len(log) + 1]
<1>1. /\ o.logged \in {"none", "succeeded", "failed", "blocked"}
      /\ o.ctx \in Contexts /\ o.completion \in Inputs
      /\ d.cap \in Tools /\ o.logged # "none" => Permitted(entry, st.skills)
  BY DEF Ends, Ending
<1>2. st \in Turn /\ log \in Logs /\ st.calls = Len(log) /\ d.cap \in Capabilities
  BY DEF TypeOK, Counted, Decision
<1>3. Len(log) \in Nat /\ DOMAIN log = 1..Len(log)
  BY <1>2 DEF Logs
<1>4. /\ Called(o) \in Turn
      /\ Called(o).calls = (IF o.logged = "none" THEN Len(log) ELSE Len(log) + 1)
      /\ Called(o).skills = st.skills /\ Called(o).answer = st.answer
      /\ Called(o).contract = st.contract /\ Called(o).plan = st.plan
  <2>1. (IF o.logged = "none" THEN st.calls ELSE st.calls + 1) \in Nat
    BY <1>2, <1>3
  <2> QED
    BY <1>1, <1>2, <2>1 DEF Called, Completion, Turn
<1>5. CASE o.logged = "none"
  <2>1. log' = log /\ steps' = steps
    BY <1>5 DEF Logged
  <2> QED
    BY <1>2, <1>4, <1>5, <2>1 DEF TypeOK, Counted, SkillsRespected, Grown
<1>6. CASE o.logged # "none"
  <2>1. log' = Append(log, entry) /\ steps' = [steps EXCEPT ![Len(log) + 1] = step]
    BY <1>2, <1>6 DEF Logged, StepNumber
  <2>2. entry \in [cap : Capabilities, status : {"succeeded", "failed", "blocked"}, confirmed : BOOLEAN]
    BY <1>1, <1>2, <1>6
  <2>3. step \in [status : {"none", "succeeded", "failed", "blocked"}, call : Nat]
    BY <1>1, <1>3
  <2> HIDE DEF entry
  <2>4. /\ log' \in Logs /\ Len(log') = Len(log) + 1 /\ log'[Len(log) + 1] = entry
        /\ \A k \in 1..Len(log) : log'[k] = log[k]
        /\ DOMAIN log' = 1..(Len(log) + 1)
    BY <1>2, <1>3, <2>1, <2>2 DEF Logs
  <2>5. Len(log) + 1 \in 1..MaxToolCalls
    BY <1>3 DEF MaxToolCalls
  <2>6. steps' \in [1..MaxToolCalls -> [status : {"none", "succeeded", "failed", "blocked"}, call : Nat]]
    BY <2>1, <2>3 DEF TypeOK
  <2>7. Numbered(log', steps')
    <3> SUFFICES ASSUME NEW k \in 1..(Len(log) + 1)
                 PROVE  steps'[k] = [status |-> log'[k].status, call |-> k]
      BY <2>4 DEF Numbered
    <3>1. CASE k = Len(log) + 1
      <4>1. log'[k].status = o.logged
        BY <2>4, <3>1 DEF entry
      <4>2. steps'[k] = step
        BY <2>1, <2>5, <3>1 DEF TypeOK
      <4> QED
        BY <3>1, <4>1, <4>2
    <3>2. CASE k \in 1..Len(log)
      <4>1. steps'[k] = steps[k] /\ log'[k] = log[k]
        BY <1>3, <2>1, <2>4, <3>2 DEF TypeOK
      <4> QED
        BY <1>3, <3>2, <4>1 DEF Counted, Numbered
    <3> QED
      BY <1>3, <3>1, <3>2
  <2>8. ASSUME NEW k \in DOMAIN log', log'[k].cap \in Tools
        PROVE  Permitted(log'[k], st.skills)
    <3>1. CASE k = Len(log) + 1
      BY <1>1, <1>6, <2>4, <2>8, <3>1 DEF entry
    <3>2. CASE k \in 1..Len(log)
      BY <1>3, <2>4, <2>8, <3>2 DEF SkillsRespected
    <3> QED
      BY <1>3, <2>4, <3>1, <3>2
  <2> QED
    BY <1>4, <1>6, <2>4, <2>6, <2>7, <2>8 DEF Grown
<1> QED
  BY <1>5, <1>6

\* The calls of the turn itself are not confirmed.
Unconfirmed == FALSE

LEMMA UnconfirmedIsLogged ==
    ASSUME Inv, Running, Len(log) <= 8, NEW d \in Decision, NEW o, Ends(d, o, Unconfirmed), Logged(d, o, Unconfirmed)
    PROVE  Grown(o) /\ Len(log) \in Nat
<1>1. Unconfirmed \in BOOLEAN
  BY DEF Unconfirmed
<1>2. TypeOK /\ Counted /\ SkillsRespected /\ Len(log) \in Nat
  BY DEF Inv, TypeOK, Logs
<1>3. Len(log) < MaxToolCalls
  BY <1>2 DEF MaxToolCalls
<1> QED
  BY <1>1, <1>2, <1>3, CallIsLogged

LEMMA FewSteps ==
    ASSUME TypeOK, NEW caps
    PROVE  MaxSteps(caps) \in 0..6
<1>1. Len(st.plan) \in Nat
  BY PlansAssumption DEF TypeOK, Turn
<1> QED
  BY <1>1 DEF MaxSteps, Max2, Min2

\* A loop starts with a guard that knows of the contract it starts with.
LEMMA LoopStarts ==
    ASSUME TypeOK, NEW s \in Turn, NEW caps \in SUBSET Catalog, StartLoop(s, caps)
    PROVE  /\ pc' = "loop" /\ st' \in Turn /\ before' = st'
           /\ st'.calls = s.calls /\ st'.skills = s.skills /\ st'.answer = s.answer
           /\ lp' \in LoopWith(lp'.keys, lp'.stage) /\ lp'.iter = 0 /\ Tracked'
<1> DEFINE contract == IF caps = {Filesystem} /\ s.calls > 0 THEN Arm(s.contract) ELSE s.contract
<1>1. contract \in {"none", "candidate", "awaiting"}
  BY DEF Arm, Turn
<1>2. /\ pc' = "loop" /\ st' = [s EXCEPT !.contract = contract] /\ before' = st'
      /\ lp' = [NoLoop EXCEPT !.caps = caps, !.max = MaxSteps(caps), !.snapshot = contract]
  BY DEF StartLoop
<1> HIDE DEF contract
<1>3. /\ st' \in Turn /\ st'.contract = contract
      /\ st'.calls = s.calls /\ st'.skills = s.skills /\ st'.answer = s.answer
  BY <1>1, <1>2 DEF Turn
<1>4. /\ lp'.snapshot = contract /\ lp'.iter = 0 /\ lp'.read = FALSE
      /\ lp'.recovery = FALSE /\ lp'.mutation = FALSE
  BY <1>2 DEF NoLoop
<1>5. lp' \in LoopWith(lp'.keys, lp'.stage)
  <2>1. MaxSteps(caps) \in 0..6
    BY FewSteps
  <2> QED
    BY <1>1, <1>2, <2>1, DecisionTypes DEF NoLoop, LoopWith
<1>6. Tracked'
  BY <1>1, <1>3, <1>4 DEF Tracked, Guards
<1> QED
  BY <1>2, <1>3, <1>4, <1>5, <1>6

\* A card that is left is the call it was asked for.
LEMMA CardLeft ==
    ASSUME TypeOK, NEW d \in Decision, NEW confirmed \in BOOLEAN, NEW o, Ends(d, o, confirmed), Waits(d, o)
    PROVE  /\ card' \in Decision /\ asked' \in Decision
           /\ o.step = "wait_confirmation" =>
                 /\ card' = asked' /\ card'.cap = d.cap
                 /\ d.cap = Filesystem => card'.inp.src # NoPath
<1>1. CASE o.step = "wait_confirmation"
  <2>1. o.args \in Inputs /\ d.cap \in Capabilities
    BY DEF Ends, Ending, Decision
  <2>2. card' = [cap |-> d.cap, inp |-> o.args] /\ asked' = [cap |-> d.cap, inp |-> o.args]
    BY <1>1 DEF Waits, Ends, HeldBack
  <2> QED
    BY <1>1, <2>1, <2>2 DEF Decision, Ends, HeldBack
<1>2. CASE o.step # "wait_confirmation"
  BY <1>2 DEF Waits, TypeOK
<1> QED
  BY <1>1, <1>2

----------------------------------------------------------------------------
(* The steps.                                                              *)

LEMMA InitInv == Init => Inv
<1> SUFFICES ASSUME Init PROVE Inv
  OBVIOUS
<1> PICK plan \in Plans, loaded \in Loaded :
       st = [calls |-> 0, contract |-> "none", ctx |-> [active |-> NoPath, read |-> NoPath],
             completion |-> Blank, answer |-> "none", plan |-> plan, skills |-> loaded]
  BY DEF Init
<1>1. /\ pc = "plan_or_reply" /\ lp = NoLoop /\ before = st /\ log = <<>> /\ card = NoDecision
      /\ asked = NoDecision /\ edits = 0 /\ steps = [k \in 1..MaxToolCalls |-> NoStep]
  BY DEF Init
<1>2. st \in Turn
  BY DecisionTypes DEF Turn, Contexts, PathOrNone
<1>3. NoLoop \in LoopWith(NoLoop.keys, NoLoop.stage)
  BY DecisionTypes DEF NoLoop, LoopWith
<1>4. log \in Logs /\ Len(log) = 0 /\ DOMAIN log = {}
  BY <1>1 DEF Logs
<1>5. steps \in [1..MaxToolCalls -> [status : {"none", "succeeded", "failed", "blocked"}, call : Nat]]
  BY <1>1 DEF NoStep
<1>6. TypeOK
  BY <1>1, <1>2, <1>3, <1>4, <1>5, DecisionTypes DEF TypeOK
<1>7. NotAnswered /\ Tracked /\ OpenWriteIsNotAnswered /\ Ready
  BY <1>1 DEF NotAnswered, Tracked, OpenWriteIsNotAnswered, Ready
<1>8. Counted /\ SkillsRespected
  BY <1>1, <1>4 DEF Counted, Numbered, SkillsRespected, MaxToolCalls
<1> QED
  BY <1>6, <1>7, <1>8 DEF Inv

LEMMA NoLoopTyped == NoLoop \in LoopWith(NoLoop.keys, NoLoop.stage)
BY DecisionTypes DEF NoLoop, LoopWith

\* The turn begins with the loop.
LEMMA NoToolInv == Inv /\ NoToolRequested => Inv'
<1> SUFFICES ASSUME Inv, NoToolRequested PROVE Inv'
  OBVIOUS
<1>1. /\ TypeOK /\ pc = "plan_or_reply" /\ StartLoop(st, Catalog)
      /\ UNCHANGED <<log, steps, card, asked, files, edits>>
  BY DEF Inv, NoToolRequested
<1>2. /\ pc' = "loop" /\ st' \in Turn /\ before' = st'
      /\ st'.calls = st.calls /\ st'.skills = st.skills /\ st'.answer = st.answer
      /\ lp' \in LoopWith(lp'.keys, lp'.stage) /\ lp'.iter = 0 /\ Tracked'
  BY <1>1, LoopStarts DEF TypeOK
<1>3. TypeOK'
  BY <1>1, <1>2 DEF TypeOK
<1>4. NotAnswered' /\ OpenWriteIsNotAnswered' /\ Ready' /\ SkillsRespected'
  BY <1>1, <1>2 DEF Inv, NotAnswered, OpenWriteIsNotAnswered, Ready, SkillsRespected
<1>5. Counted'
  BY <1>1, <1>2 DEF Inv, Counted, Running
<1> QED
  BY <1>2, <1>3, <1>4, <1>5 DEF Inv

\* The state after a call that does not start a loop.
LEMMA CalledInv ==
    ASSUME Inv, NEW d \in Decision, d.cap \in Catalog, NEW o, Ends(d, o, Unconfirmed),
           Running, pc \in {"plan_or_reply", "loop"}, Len(log) <= 7,
           Logged(d, o, Unconfirmed), Waits(d, o), UNCHANGED edits,
           st' \in Turn, st'.calls = Called(o).calls, st'.skills = st.skills, st'.answer = "none",
           before' = st', lp' = NoLoop,
           pc' = IF o.step = "maybe_tool" THEN "respond" ELSE o.step
    PROVE  Inv'
<1>1. TypeOK /\ Counted /\ SkillsRespected /\ Len(log) \in Nat
  BY DEF Inv, TypeOK, Logs
<1>2. Grown(o)
  BY <1>1, UnconfirmedIsLogged
<1>3. /\ card' \in Decision /\ asked' \in Decision
      /\ o.step = "wait_confirmation" =>
            /\ card' = asked' /\ card'.cap = d.cap
            /\ d.cap = Filesystem => card'.inp.src # NoPath
  <2>1. Unconfirmed \in BOOLEAN
    BY DEF Unconfirmed
  <2> QED
    BY <1>1, <2>1, CardLeft
<1>4. o.step \in {"maybe_tool", "wait_confirmation", "wait_user_input"} 
  BY DEF Ends, Ending
<1>5. TypeOK'
  BY <1>1, <1>2, <1>3, <1>4, NoLoopTyped DEF TypeOK, Grown
<1>6. NotAnswered' /\ Tracked' /\ OpenWriteIsNotAnswered'
  BY <1>4 DEF NotAnswered, Tracked, OpenWriteIsNotAnswered
<1>7. Counted'
  <2>1. pc' \in {"respond", "wait_confirmation", "wait_user_input"}
    BY <1>4
  <2>2. Len(log') \in Nat /\ Len(log') <= 8
    BY <1>1, <1>2 DEF Grown
  <2>3. st'.calls = Len(log') /\ Numbered(log', steps')
    BY <1>2 DEF Grown
  <2> QED
    BY <2>1, <2>2, <2>3 DEF Counted, Running, MaxToolCalls
<1>8. Ready'
  BY <1>3, <1>4 DEF Ready
<1>9. SkillsRespected'
  BY <1>2 DEF SkillsRespected, Grown
<1> QED
  BY <1>5, <1>6, <1>7, <1>8, <1>9 DEF Inv

\* A call that is followed by the loop: the loop starts from the state it left.
LEMMA LoopAfterCallInv ==
    ASSUME Inv, NEW d \in Decision, NEW o, Ends(d, o, Unconfirmed), Running, pc \in {"plan_or_reply", "recover"},
           Logged(d, o, Unconfirmed), NEW contract \in {"none", "candidate", "awaiting"},
           StartLoop([Called(o) EXCEPT !.contract = contract], {Filesystem}),
           card' \in Decision, asked' \in Decision, UNCHANGED edits
    PROVE  Inv'
<1> DEFINE s == [Called(o) EXCEPT !.contract = contract]
<1>1. TypeOK /\ Counted /\ Len(log) \in Nat /\ Len(log) <= 1 /\ st.answer = "none"
  BY DEF Inv, TypeOK, Logs, Counted, NotAnswered
<1>2. Grown(o)
  BY <1>1, UnconfirmedIsLogged
<1>3. s \in Turn /\ s.calls = Len(log') /\ s.skills = st.skills /\ s.answer = "none"
  BY <1>1, <1>2 DEF Grown, Turn
<1>4. /\ StartLoop(s, {Filesystem}) /\ {Filesystem} \in SUBSET Catalog
  BY DEF Catalog
<1> HIDE DEF s
<1>5. /\ pc' = "loop" /\ st' \in Turn /\ before' = st'
      /\ st'.calls = s.calls /\ st'.skills = s.skills /\ st'.answer = s.answer
      /\ lp' \in LoopWith(lp'.keys, lp'.stage) /\ lp'.iter = 0 /\ Tracked'
  BY <1>1, <1>3, <1>4, LoopStarts
<1>6. TypeOK'
  BY <1>1, <1>2, <1>5 DEF TypeOK, Grown
<1>7. NotAnswered' /\ OpenWriteIsNotAnswered' /\ Ready'
  BY <1>3, <1>5 DEF NotAnswered, OpenWriteIsNotAnswered, Ready
<1>8. Counted'
  <2>1. Len(log') \in Nat /\ Len(log') <= 2 /\ st'.calls = Len(log') /\ Numbered(log', steps')
    BY <1>1, <1>2, <1>3, <1>5 DEF Grown
  <2> QED
    BY <1>5, <2>1 DEF Counted, Running, MaxToolCalls
<1>9. SkillsRespected'
  BY <1>2, <1>3, <1>5 DEF SkillsRespected, Grown
<1> QED
  BY <1>5, <1>6, <1>7, <1>8, <1>9 DEF Inv

\* The request names a tool.
LEMMA RequestedInv ==
    ASSUME Inv, NEW d \in ModelDecisions, d.cap # Unknown, RequestedTool(d)
    PROVE  Inv'
<1>1. TypeOK /\ d \in Decision /\ d.cap \in Catalog /\ pc = "plan_or_reply" /\ Running
  BY DecisionTypes DEF Inv, RequestedTool, ModelDecisions, Catalog, Running
<1> DEFINE again(o) == o.step = "maybe_tool" /\ o.next = "continue_model_loop"
           reading(o) == o.step = "maybe_tool" /\ o.next = "read_before_write" /\ o.suggest # NoDecision
<1>2. PICK o \in Outcomes(d, Unconfirmed) :
         /\ Logged(d, o, Unconfirmed) /\ Waits(d, o) /\ UNCHANGED edits
         /\ \/ again(o)
               /\ StartLoop([Called(o) EXCEPT !.contract = IF d.inp.op = Unset THEN Arm(@) ELSE @], {Filesystem})
            \/ /\ reading(o) /\ pc' = "recover" /\ st' = Called(o) /\ before' = st'
               /\ lp' = [NoLoop EXCEPT !.next = o.suggest]
            \/ /\ pc' = IF o.step = "maybe_tool" THEN "respond" ELSE o.step
               /\ st' = Called(o) /\ before' = st' /\ lp' = NoLoop
  BY DEF RequestedTool, Unconfirmed
<1>3. Ends(d, o, Unconfirmed)
  <2>1. Unconfirmed \in BOOLEAN
    BY DEF Unconfirmed
  <2> QED
    BY <1>1, <1>2, <2>1, CallEnding
<1>4. Len(log) \in Nat /\ Len(log) <= 1 /\ Len(log) + 1 <= 1 /\ st.answer = "none"
  BY <1>1 DEF Inv, Counted, NotAnswered
<1>5. Grown(o)
  BY <1>1, <1>2, <1>3, <1>4, UnconfirmedIsLogged
<1>6. card' \in Decision /\ asked' \in Decision
  <2>1. Unconfirmed \in BOOLEAN
    BY DEF Unconfirmed
  <2> QED
    BY <1>1, <1>2, <1>3, <2>1, CardLeft
<1>7. CASE again(o) /\ StartLoop([Called(o) EXCEPT !.contract = IF d.inp.op = Unset THEN Arm(@) ELSE @],
                                 {Filesystem})
  <2> DEFINE contract == IF d.inp.op = Unset THEN Arm(Called(o).contract) ELSE Called(o).contract
  <2>1. contract \in {"none", "candidate", "awaiting"}
    BY <1>1, <1>5 DEF Grown, TypeOK, Turn, Arm
  <2>2. StartLoop([Called(o) EXCEPT !.contract = contract], {Filesystem})
    BY <1>7
  <2> HIDE DEF contract
  <2> QED
    BY <1>1, <1>2, <1>3, <1>6, <2>1, <2>2, LoopAfterCallInv
<1>8. CASE /\ reading(o) /\ pc' = "recover" /\ st' = Called(o) /\ before' = st'
           /\ lp' = [NoLoop EXCEPT !.next = o.suggest]
  <2>1. lp' \in LoopWith(lp'.keys, lp'.stage)
    BY <1>3, <1>8, NoLoopTyped DEF Ends, Ending, NoLoop, LoopWith
  <2>2. TypeOK'
    BY <1>1, <1>2, <1>5, <1>6, <1>8, <2>1 DEF TypeOK, Grown
  <2>3. NotAnswered' /\ Tracked' /\ OpenWriteIsNotAnswered' /\ Ready'
    BY <1>4, <1>5, <1>8 DEF NotAnswered, Tracked, OpenWriteIsNotAnswered, Ready, Grown
  <2>4. Counted'
    <3>1. Len(log') \in Nat /\ Len(log') <= 1
      <4>1. Len(log') \in {Len(log), Len(log) + 1}
        BY <1>5 DEF Grown
      <4> QED
        BY <1>4, <4>1
    <3>2. st'.calls = Len(log') /\ Numbered(log', steps')
      BY <1>5, <1>8 DEF Grown
    <3> QED
      BY <1>8, <3>1, <3>2 DEF Counted, Running, MaxToolCalls
  <2>5. SkillsRespected'
    BY <1>5, <1>8 DEF SkillsRespected, Grown
  <2> QED
    BY <2>2, <2>3, <2>4, <2>5 DEF Inv
<1>9. CASE /\ pc' = IF o.step = "maybe_tool" THEN "respond" ELSE o.step
           /\ st' = Called(o) /\ before' = st' /\ lp' = NoLoop
  <2>1. st' \in Turn /\ st'.calls = Called(o).calls /\ st'.skills = st.skills /\ st'.answer = "none"
    BY <1>4, <1>5, <1>9 DEF Grown
  <2> QED
    BY <1>1, <1>2, <1>3, <1>4, <1>9, <2>1, CalledInv
<1> QED
  BY <1>2, <1>7, <1>8, <1>9

\* The read of the recovery.
LEMMA RecoveryInv == Inv /\ RecoverByReading => Inv'
<1> SUFFICES ASSUME Inv, RecoverByReading PROVE Inv'
  OBVIOUS
<1>1. TypeOK /\ lp.next \in Decision /\ pc = "recover" /\ Running
  BY DEF Inv, RecoverByReading, TypeOK, LoopWith, Running
<1> DEFINE d == lp.next
<1>2. PICK o \in Outcomes(d, Unconfirmed) :
         /\ Logged(d, o, Unconfirmed) /\ UNCHANGED <<card, asked, edits>>
         /\ StartLoop([Called(o) EXCEPT !.contract = Marked(@, Unset, "read_before_write", o)], {Filesystem})
  BY DEF RecoverByReading, Unconfirmed
<1> HIDE DEF d
<1>3. Ends(d, o, Unconfirmed)
  <2>1. Unconfirmed \in BOOLEAN
    BY DEF Unconfirmed
  <2> QED
    BY <1>1, <1>2, <2>1, CallEnding DEF d
<1>4. Len(log) \in Nat /\ Len(log) <= 1
  BY <1>1 DEF Inv, Counted, TypeOK, Logs
<1>5. Grown(o)
  BY <1>1, <1>2, <1>3, <1>4, UnconfirmedIsLogged DEF d
<1> DEFINE contract == Marked(Called(o).contract, Unset, "read_before_write", o)
<1>6. contract \in {"none", "candidate", "awaiting"}
  BY <1>5 DEF Marked, Arm, Grown, Turn
<1>7. StartLoop([Called(o) EXCEPT !.contract = contract], {Filesystem})
  BY <1>2
<1> HIDE DEF contract
<1>8. card' \in Decision /\ asked' \in Decision /\ UNCHANGED edits
  BY <1>1, <1>2 DEF TypeOK
<1> QED
  BY <1>1, <1>2, <1>3, <1>6, <1>7, <1>8, LoopAfterCallInv DEF d

\* The loop ends without another call: held back by the guard, with a text, at its
\* budget, at a call it refuses or by an error.
LEMMA LoopEndsInv ==
    ASSUME Inv, GuardRetry \/ GuardGivesUp \/ FinalText \/ BudgetExhausted \/ AbortLoop
                \/ \E d \in ModelDecisions \cup {lp.next} : RefuseCall(d)
    PROVE  Inv'
<1>1. /\ TypeOK /\ NotAnswered /\ Tracked /\ Counted /\ SkillsRespected
      /\ pc = "loop" /\ UNCHANGED <<log, steps, card, asked, edits>>
  BY DEF Inv, GuardRetry, GuardGivesUp, FinalText, BudgetExhausted, AbortLoop, RefuseCall, Deciding,
         Decides, LeaveLoop
<1>2. CASE GuardRetry
  <2>1. /\ lp' = [lp EXCEPT !.retries = @ + 1] /\ UNCHANGED <<pc, st, before>>
    BY <1>2 DEF GuardRetry, Retry
  <2>2. lp' \in LoopWith(lp'.keys, lp'.stage) /\ lp'.iter = lp.iter
        /\ lp'.mutation = lp.mutation /\ lp'.snapshot = lp.snapshot /\ lp'.recovery = lp.recovery
        /\ lp'.read = lp.read
    BY <1>1, <2>1 DEF TypeOK, LoopWith
  <2>3. TypeOK' /\ NotAnswered' /\ OpenWriteIsNotAnswered' /\ Ready' /\ SkillsRespected'
    BY <1>1, <2>1, <2>2 DEF Inv, TypeOK, NotAnswered, OpenWriteIsNotAnswered, Ready, SkillsRespected
  <2>4. Tracked'
    BY <1>1, <2>1, <2>2 DEF Tracked, Guards
  <2>5. Counted'
    BY <1>1, <2>1, <2>2 DEF Counted, Running
  <2> QED
    BY <2>3, <2>4, <2>5 DEF Inv
<1>3. ASSUME st' \in Turn, before' \in Turn, before'.skills = st'.skills, st'.skills = st.skills,
             lp' = NoLoop, pc' \in {"respond", "wait_user_input"},
             pc' = "wait_user_input" => st'.answer = "none" /\ before'.answer = "none",
             OpenWriteIsNotAnswered'
      PROVE  Inv'
  <2>1. TypeOK'
    BY <1>1, <1>3, NoLoopTyped DEF TypeOK
  <2>2. NotAnswered' /\ Tracked' /\ Ready' /\ SkillsRespected'
    BY <1>1, <1>3 DEF NotAnswered, Tracked, Ready, SkillsRespected
  <2>3. Counted'
    BY <1>1, <1>3 DEF Counted, Running
  <2> QED
    BY <1>3, <2>1, <2>2, <2>3 DEF Inv
<1>4. st \in Turn /\ before \in Turn /\ before.skills = st.skills /\ st.answer = "none" /\ before.answer = "none"
  BY <1>1 DEF TypeOK, NotAnswered
<1>5. CASE GuardGivesUp
  BY <1>3, <1>4, <1>5 DEF GuardGivesUp, OpenWriteIsNotAnswered
<1>6. CASE FinalText
  <2>1. st.contract # "awaiting"
    BY <1>1, <1>6 DEF FinalText, Tracked
  <2>2. st' = [st EXCEPT !.answer = "llm_tool_choice_loop"] /\ before' = st' /\ pc' = "respond" /\ lp' = NoLoop
    BY <1>6 DEF FinalText
  <2>3. st' \in Turn /\ st'.skills = st.skills /\ st'.contract = st.contract
    BY <1>4, <2>2 DEF Turn
  <2> QED
    BY <1>3, <2>1, <2>2, <2>3 DEF OpenWriteIsNotAnswered
<1>7. CASE LeaveLoop
  BY <1>3, <1>4, <1>7 DEF LeaveLoop, OpenWriteIsNotAnswered
<1>8. CASE AbortLoop
  BY <1>3, <1>4, <1>8 DEF AbortLoop, OpenWriteIsNotAnswered
<1> QED
  BY <1>2, <1>5, <1>6, <1>7, <1>8 DEF BudgetExhausted, RefuseCall

\* The flags of the loop after a call, in terms of the call's outcome.
LEMMA IteratedLoop ==
    ASSUME TypeOK, NEW d \in Decision, NEW o, Ends(d, o, Unconfirmed)
    PROVE  LET l == Iterated(d, o)
               fs == d.cap = Filesystem
           IN  /\ l \in LoopWith(l.keys, l.stage) /\ l.iter = lp.iter + 1 /\ l.snapshot = lp.snapshot
               /\ lp.recovery => l.recovery
               /\ lp.read => l.read
               /\ fs /\ o.next \in {"continue_model_loop", "read_before_write"} => l.recovery
               /\ fs /\ d.inp.op = "read_file" /\ o.status = "succeeded" => l.read
               /\ l.mutation => lp.mutation
<1> DEFINE fs == d.cap = Filesystem
           recovery == lp.recovery \/ (fs /\ o.next \in {"continue_model_loop", "read_before_write"})
           read == lp.read \/ (fs /\ d.inp.op = "read_file" /\ o.status = "succeeded")
           mutation == lp.mutation \/ (fs /\ d.inp.op \in FileToFile /\ o.status = "succeeded")
           keys == BagAdd(lp.keys, d)
           stage == NextStage(d, o)
           l == [lp EXCEPT !.iter = @ + 1, !.keys = keys, !.next = o.suggest, !.recovery = recovery,
                           !.read = read, !.mutation = mutation, !.stage = stage]
<1>1. Iterated(d, o) = l
  BY DEF Iterated
<1>2. recovery \in BOOLEAN /\ read \in BOOLEAN /\ mutation \in BOOLEAN
  OBVIOUS
<1>3. mutation => lp.mutation
  BY DEF Ends, SkillEnds, Unconfirmed
<1>4. /\ lp.recovery => recovery
      /\ lp.read => read
      /\ fs /\ o.next \in {"continue_model_loop", "read_before_write"} => recovery
      /\ fs /\ d.inp.op = "read_file" /\ o.status = "succeeded" => read
  OBVIOUS
<1>5. o.suggest \in Decision /\ lp \in LoopWith(lp.keys, lp.stage)
  BY DEF TypeOK, Ends, Ending
<1> HIDE DEF recovery, read, mutation, keys, stage
<1>6. /\ l.iter = lp.iter + 1 /\ l.snapshot = lp.snapshot /\ l.recovery = recovery
      /\ l.read = read /\ l.mutation = mutation /\ l.keys = keys /\ l.stage = stage
  BY <1>5 DEF LoopWith
<1>7. l \in LoopWith(keys, stage)
  <2> DEFINE i == lp.iter + 1
  <2>1. i \in Nat
    BY <1>5 DEF LoopWith
  <2> HIDE DEF i
  <2>2. [lp EXCEPT !.iter = i, !.keys = keys, !.next = o.suggest, !.recovery = recovery,
                   !.read = read, !.mutation = mutation, !.stage = stage] \in LoopWith(keys, stage)
    BY <1>2, <1>5, <2>1 DEF LoopWith
  <2> QED
    BY <2>2 DEF i
<1> HIDE DEF l
<1> QED
  BY <1>1, <1>3, <1>4, <1>6, <1>7

\* A call in the loop.
LEMMA ExecuteInv ==
    ASSUME Inv, NEW d \in ModelDecisions \cup {lp.next}, ExecuteStep(d)
    PROVE  Inv'
<1>1. /\ TypeOK /\ Tracked /\ Counted /\ pc = "loop" /\ Running /\ lp.iter < lp.max /\ d.cap \in Offered
      /\ lp \in LoopWith(lp.keys, lp.stage)
  BY DEF Inv, ExecuteStep, Decides, Running, TypeOK
<1>2. d \in Decision
  BY <1>1, DecisionTypes DEF LoopWith
<1>3. d.cap \in Catalog
  BY <1>1 DEF Offered, LoopWith
<1>4. /\ lp.iter \in Nat /\ lp.iter <= 5 /\ Len(log) \in Nat /\ Len(log) <= 2 + lp.iter /\ Len(log) <= 7
      /\ st.answer = "none" /\ before.answer = "none" /\ before.skills = st.skills
  <2>1. lp.iter \in Nat /\ lp.max \in 0..6 /\ Len(log) \in Nat
    BY <1>1 DEF LoopWith, TypeOK, Logs
  <2>2. Len(log) <= 2 + lp.iter
    BY <1>1 DEF Counted
  <2> QED
    BY <1>1, <2>1, <2>2 DEF Inv, NotAnswered
<1> DEFINE contract(o) == IF d.cap = Filesystem /\ o.step = "maybe_tool"
                          THEN Marked(Called(o).contract, d.inp.op, o.next, o) ELSE Called(o).contract
<1>5. PICK o \in Outcomes(d, Unconfirmed) :
         /\ Logged(d, o, Unconfirmed) /\ Waits(d, o) /\ UNCHANGED edits
         /\ st' = [Called(o) EXCEPT !.contract = contract(o)]
         /\ \/ /\ pc' = IF o.step = "maybe_tool" THEN "respond" ELSE o.step
               /\ lp' = NoLoop /\ before' = st'
            \/ o.step = "maybe_tool" /\ lp' = Iterated(d, o) /\ UNCHANGED <<pc, before>>
  BY DEF ExecuteStep, Unconfirmed
<1>6. Unconfirmed \in BOOLEAN
  BY DEF Unconfirmed
<1>7. Ends(d, o, Unconfirmed)
  BY <1>1, <1>2, <1>5, <1>6, CallEnding
<1>8. Grown(o)
  BY <1>1, <1>2, <1>4, <1>5, <1>7, UnconfirmedIsLogged
<1>9. card' \in Decision /\ asked' \in Decision
  BY <1>1, <1>2, <1>5, <1>6, <1>7, CardLeft
<1> DEFINE marked == contract(o)
<1>10. marked \in {"none", "candidate", "awaiting"}
  BY <1>8 DEF Marked, Arm, Grown, Turn
<1>11. st' = [Called(o) EXCEPT !.contract = marked]
  BY <1>5
<1> HIDE DEF marked
<1>12. /\ st' \in Turn /\ st'.calls = Called(o).calls /\ st'.calls = Len(log')
       /\ st'.skills = st.skills /\ st'.answer = "none" /\ st'.contract = marked
  BY <1>4, <1>8, <1>10, <1>11 DEF Grown, Turn
<1>13. CASE /\ pc' = IF o.step = "maybe_tool" THEN "respond" ELSE o.step
            /\ lp' = NoLoop /\ before' = st'
  BY <1>1, <1>2, <1>3, <1>4, <1>5, <1>7, <1>12, <1>13, CalledInv
<1>14. CASE o.step = "maybe_tool" /\ lp' = Iterated(d, o) /\ UNCHANGED <<pc, before>>
  <2> DEFINE fs == d.cap = Filesystem
  <2>1. /\ lp' \in LoopWith(lp'.keys, lp'.stage) /\ lp'.iter = lp.iter + 1 /\ lp'.snapshot = lp.snapshot
        /\ lp.recovery => lp'.recovery
        /\ lp.read => lp'.read
        /\ fs /\ o.next \in {"continue_model_loop", "read_before_write"} => lp'.recovery
        /\ fs /\ d.inp.op = "read_file" /\ o.status = "succeeded" => lp'.read
        /\ lp'.mutation => lp.mutation
    BY <1>1, <1>2, <1>7, <1>14, IteratedLoop
  <2>2. TypeOK'
    BY <1>1, <1>5, <1>8, <1>9, <1>12, <1>14, <2>1 DEF TypeOK, Grown
  <2>3. NotAnswered' /\ OpenWriteIsNotAnswered' /\ Ready'
    BY <1>1, <1>4, <1>12, <1>14 DEF NotAnswered, OpenWriteIsNotAnswered, Ready
  <2>4. Counted'
    <3>1. Len(log') \in {Len(log), Len(log) + 1}
      BY <1>8 DEF Grown
    <3>2. Len(log') \in Nat /\ Len(log') <= 2 + lp'.iter /\ Len(log') <= 8
      BY <1>4, <2>1, <3>1
    <3>3. Numbered(log', steps')
      BY <1>8 DEF Grown
    <3> QED
      BY <1>1, <1>12, <1>14, <3>2, <3>3 DEF Counted, Running, MaxToolCalls
  <2>5. Tracked'
    <3>1. st.contract = Called(o).contract
      BY <1>8 DEF Grown
    <3>2. CASE ~fs
      <4>1. marked = st.contract
        BY <3>1, <3>2 DEF marked
      <4> QED
        BY <1>1, <1>12, <1>14, <2>1, <4>1 DEF Tracked, Guards
    <3>3. CASE fs
      <4>1. /\ o.op = d.inp.op /\ o.status = o.logged
            /\ ~(o.status = "succeeded" /\ d.inp.op \in FileToFile)
            /\ o.op = "read_file" => o.next = "none"
        BY <1>7, <1>14, <3>3 DEF Ends, SkillEnds, Unconfirmed
      <4>2. marked = Marked(st.contract, d.inp.op, o.next, o)
        BY <1>14, <3>1, <3>3 DEF marked
      <4>3. \/ marked = Arm(st.contract) /\ o.next = "continue_model_loop"
            \/ marked = "awaiting" /\ st.contract = "candidate" /\ d.inp.op = "read_file" /\ o.status = "succeeded"
            \/ marked = st.contract
        BY <4>1, <4>2 DEF Marked, FileToFile, Unset
      <4> QED
        BY <1>1, <1>12, <1>14, <2>1, <3>3, <4>3 DEF Tracked, Guards, Arm
    <3> QED
      BY <3>2, <3>3
  <2>6. SkillsRespected'
    BY <1>8, <1>12 DEF SkillsRespected, Grown
  <2> QED
    BY <2>2, <2>3, <2>4, <2>5, <2>6 DEF Inv
<1> QED
  BY <1>5, <1>13, <1>14

\* The approved call: the last one that is logged.
LEMMA ApproveInv == Inv /\ Approve => Inv'
<1> SUFFICES ASSUME Inv, Approve PROVE Inv'
  OBVIOUS
<1> DEFINE yes == TRUE
<1>1. /\ TypeOK /\ Counted /\ SkillsRespected /\ pc = "wait_confirmation" /\ Running /\ card \in Decision
      /\ st.answer = "none" /\ before' = st' /\ pc' = "respond" /\ UNCHANGED <<lp, card, asked, edits>>
      /\ yes \in BOOLEAN
  BY DEF Inv, Approve, Running, TypeOK, NotAnswered
<1>2. PICK o \in Outcomes(card, yes) :
         /\ Logged(card, o, yes)
         /\ st' = [Called(o) EXCEPT !.answer = IF o.op \in FileToFile /\ o.logged = "succeeded"
                                                THEN "grounded" ELSE @]
  BY DEF Approve
<1> HIDE DEF yes
<1>3. Ends(card, o, yes)
  BY <1>1, <1>2, CallEnding
<1>4. Len(log) \in Nat /\ Len(log) <= 8 /\ Len(log) < MaxToolCalls
  <2>1. Len(log) \in Nat
    BY <1>1 DEF TypeOK, Logs
  <2>2. Len(log) <= 8
    BY <1>1 DEF Counted
  <2> QED
    BY <2>1, <2>2 DEF MaxToolCalls
<1>5. Grown(o)
  BY <1>1, <1>2, <1>3, <1>4, CallIsLogged
<1>6. /\ st' \in Turn /\ st'.skills = st.skills /\ st'.answer # "llm_tool_choice_loop"
  BY <1>1, <1>2, <1>5 DEF Grown, Turn
<1>7. TypeOK'
  BY <1>1, <1>5, <1>6 DEF TypeOK, Grown
<1>8. NotAnswered' /\ Tracked' /\ OpenWriteIsNotAnswered' /\ Ready'
  BY <1>1, <1>6 DEF NotAnswered, Tracked, OpenWriteIsNotAnswered, Ready
<1>9. Counted'
  <2>1. Len(log') \in {Len(log), Len(log) + 1} /\ Numbered(log', steps')
    BY <1>5 DEF Grown
  <2>2. Len(log') \in Nat /\ Len(log') <= 9
    BY <1>4, <2>1
  <2> QED
    BY <1>1, <2>1, <2>2 DEF Counted, Running, MaxToolCalls
<1>10. SkillsRespected'
  BY <1>5, <1>6 DEF SkillsRespected, Grown
<1> QED
  BY <1>7, <1>8, <1>9, <1>10 DEF Inv

\* The decision against the call, the answer, and the others.
LEMMA OtherInv == Inv /\ (Reject \/ Respond \/ \E p \in Paths : EditFiles(p)) => Inv'
<1>1. ASSUME Inv, Reject PROVE Inv'
  <2>1. /\ pc = "wait_confirmation" /\ pc' = "completed"
        /\ UNCHANGED <<st, lp, before, log, steps, card, asked, files, edits>>
    BY <1>1 DEF Reject
  <2> QED
    BY <1>1, <2>1 DEF Inv, TypeOK, NotAnswered, Tracked, OpenWriteIsNotAnswered, Counted, Running, Ready, SkillsRespected
<1>2. ASSUME Inv, Respond PROVE Inv'
  <2>1. /\ pc = "respond" /\ pc' = "completed" /\ before' = st'
        /\ st' = [st EXCEPT !.answer = IF @ = "none" THEN "summary" ELSE @]
        /\ UNCHANGED <<lp, log, steps, card, asked, edits>>
    BY <1>2 DEF Respond
  <2>2. st' \in Turn /\ st'.skills = st.skills /\ st'.contract = st.contract
        /\ st'.answer \in {"summary", st.answer}
    BY <1>2, <2>1 DEF Inv, TypeOK, Turn
  <2>3. TypeOK' /\ NotAnswered' /\ Tracked' /\ OpenWriteIsNotAnswered' /\ Ready'
    BY <1>2, <2>1, <2>2 DEF Inv, TypeOK, NotAnswered, Tracked, OpenWriteIsNotAnswered, Ready
  <2>4. Counted' /\ SkillsRespected'
    BY <1>2, <2>1, <2>2 DEF Inv, Counted, Running, SkillsRespected
  <2> QED
    BY <2>3, <2>4 DEF Inv
<1>3. ASSUME Inv, NEW p \in Paths, EditFiles(p) PROVE Inv'
  <2>1. edits' = edits + 1 /\ UNCHANGED <<pc, st, lp, before, log, steps, card, asked>>
    BY <1>3 DEF EditFiles
  <2> QED
    BY <1>3, <2>1 DEF Inv, TypeOK, NotAnswered, Tracked, OpenWriteIsNotAnswered, Counted, Running, Ready,
                      SkillsRespected, Guards
<1> QED
  BY <1>1, <1>2, <1>3

----------------------------------------------------------------------------
(* The theorems.                                                           *)

LEMMA NextInv == Inv /\ [Next]_vars => Inv'
<1>1. ASSUME Inv, UNCHANGED vars PROVE Inv'
  BY <1>1 DEF vars, Inv, TypeOK, NotAnswered, Tracked, OpenWriteIsNotAnswered, Counted, Running, Ready,
              SkillsRespected, Guards
<1>2. ASSUME Inv, Next PROVE Inv'
  BY <1>2, NoToolInv, RecoveryInv, RequestedInv, LoopEndsInv, ExecuteInv, ApproveInv, OtherInv DEF Next
<1> QED
  BY <1>1, <1>2

\* The counters, contracts, flags and cards of a turn keep their types and its
\* durable steps, logged calls and prepared answers stay in step.
THEOREM InvAlways == Spec => []Inv
<1>1. Init => Inv
  BY InitInv
<1>2. Inv /\ [Next]_vars => Inv'
  BY NextInv
<1> QED
  BY <1>1, <1>2, PTL DEF Spec

\* A text of the model never ends a turn whose write is still open.
THEOREM OpenWriteTheorem == Spec => []OpenWriteIsNotAnswered
<1>1. Inv => OpenWriteIsNotAnswered
  BY DEF Inv
<1> QED
  BY <1>1, InvAlways, PTL

\* The card is the call that was held back.
THEOREM CardTheorem == Spec => []CardMatchesCall
<1>1. Inv => CardMatchesCall
  BY DEF Inv, Ready, CardMatchesCall
<1> QED
  BY <1>1, InvAlways, PTL

\* Every logged call has a durable step of its own that agrees with it.
THEOREM StepsTheorem == Spec => []StepsMatchLog
<1>1. ASSUME Inv PROVE StepsMatchLog
  <2>1. Len(log) \in Nat /\ DOMAIN log = 1..Len(log) /\ DOMAIN steps = 1..MaxToolCalls
    BY <1>1 DEF Inv, TypeOK, Logs
  <2>2. Len(log) <= MaxToolCalls /\ Numbered(log, steps)
    BY <1>1 DEF Inv, Counted
  <2>3. ASSUME NEW k \in DOMAIN log
        PROVE  \E n \in DOMAIN steps : steps[n] = [status |-> log[k].status, call |-> k]
    <3>1. k \in DOMAIN steps
      BY <2>1, <2>2 DEF MaxToolCalls
    <3>2. steps[k] = [status |-> log[k].status, call |-> k]
      BY <2>2 DEF Numbered
    <3> QED
      BY <3>1, <3>2
  <2> QED
    BY <2>3 DEF StepsMatchLog
<1> QED
  BY <1>1, InvAlways, PTL

\* No call runs against the tool lists of a loaded Skill.
THEOREM SkillsTheorem == Spec => []SkillPoliciesHold
<1>1. Inv => SkillPoliciesHold
  BY DEF Inv, SkillsRespected, Permitted, SkillPoliciesHold
<1> QED
  BY <1>1, InvAlways, PTL

\* Files change only after an approval and as the card says.
THEOREM ApprovedChangesTheorem == Spec => ChangedAsApproved
<1> DEFINE Granted == /\ pc = "wait_confirmation"
                      /\ \E dst \in {asked.inp.dst, Otherwise(asked.inp.name, asked.inp.dst)} :
                            files' = After([asked.inp EXCEPT !.dst = dst], files)
<1>1. ASSUME Inv, Next, files' # files, edits' = edits PROVE Granted
  <2>1. TypeOK
    BY <1>1 DEF Inv
  <2>2. ASSUME NEW d \in Decision, NEW o \in Outcomes(d, Unconfirmed), Logged(d, o, Unconfirmed)
        PROVE  FALSE
    <3>1. Unconfirmed \in BOOLEAN
      BY DEF Unconfirmed
    <3>2. Ends(d, o, Unconfirmed)
      BY <2>1, <2>2, <3>1, CallEnding
    <3> QED
      BY <1>1, <2>2, <3>2 DEF Ends, FilesOf, Logged, Unconfirmed
  <2>3. lp.next \in Decision /\ ModelDecisions \subseteq Decision
    BY <2>1, DecisionTypes DEF TypeOK, LoopWith
  <2>4. CASE RecoverByReading
    BY <2>2, <2>3, <2>4 DEF RecoverByReading, Unconfirmed
  <2>5. CASE \E d \in ModelDecisions : d.cap # Unknown /\ RequestedTool(d)
    BY <2>2, <2>3, <2>5 DEF RequestedTool, Unconfirmed
  <2>6. CASE \E d \in ModelDecisions \cup {lp.next} : ExecuteStep(d)
    BY <2>2, <2>3, <2>6 DEF ExecuteStep, Unconfirmed
  <2>7. CASE \E p \in Paths : EditFiles(p)
    BY <1>1, <2>1, <2>7 DEF EditFiles, TypeOK
  <2>8. CASE Approve
    <3> DEFINE yes == TRUE
    <3>1. pc = "wait_confirmation" /\ card = asked /\ (card.cap = Filesystem => card.inp.src # NoPath)
          /\ card \in Decision /\ yes \in BOOLEAN /\ yes
      BY <1>1, <2>1, <2>8 DEF Approve, Inv, Ready, TypeOK
    <3>2. PICK o \in Outcomes(card, yes) : files' = o.files
      BY <2>8 DEF Approve, Logged
    <3> HIDE DEF yes
    <3>3. FilesOf(card, o, yes)
      BY <2>1, <3>1, <3>2, CallEnding DEF Ends
    <3>4. AsSaid(asked.inp, files, files')
      BY <1>1, <3>1, <3>2, <3>3 DEF FilesOf
    <3> QED
      BY <3>1, <3>4 DEF AsSaid
  <2>9. CASE UNCHANGED files
    BY <1>1, <2>9
  <2> QED
    BY <1>1, <2>4, <2>5, <2>6, <2>7, <2>8, <2>9
       DEF Next, NoToolRequested, GuardRetry, GuardGivesUp, FinalText, BudgetExhausted, AbortLoop,
           RefuseCall, LeaveLoop, Reject, Respond
<1>2. Inv /\ [Next]_vars => [files' # files /\ edits' = edits => Granted]_vars
  BY <1>1 DEF vars
<1> QED
  BY <1>2, InvAlways, PTL DEF Spec, ChangedAsApproved
================================================================================
