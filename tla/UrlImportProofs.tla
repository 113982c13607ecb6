--------------------------- MODULE UrlImportProofs ---------------------------
(***************************************************************************)
(* Theorems about the URL import pipeline, for every number of runs, URLs  *)
(* and submissions and every policy of the circuit breaker.                *)
(***************************************************************************)
EXTENDS UrlImport, TLAPS

Tasks == [pc : {"idle", "creating", "queued", "fetching", "fetched"}, row : RunRows,
          old : HealthRows, new : HealthRows, ok : BOOLEAN]

Agrees(row) == row.wf \in WorkflowOf(row.status)

\* Types, and the rows that are or are about to be inserted agree with their
\* workflow runs.
MatchInv == /\ runs \in [Runs -> RunRows]
            /\ \A i \in Runs : Agrees(runs[i])
            /\ task \in [Runs -> Tasks]
            /\ \A i \in Runs : Agrees(task[i].row)
            /\ health \in HealthRows
            /\ submit \in [Requests -> Runs \cup {NoRun}]
            /\ now \in 0..MaxTime

----------------------------------------------------------------------------
\* What the guard and the UPDATE make of health rows are health rows.
LEMMA HealthTypes ==
    ASSUME NEW h \in HealthRows, NEW old \in HealthRows, NEW new \in HealthRows,
           NEW t \in Nat, NEW ok \in BOOLEAN
    PROVE  /\ Probed(h) \in HealthRows
           /\ Record(h, t, ok) \in HealthRows
           /\ Flush(h, old, new) \in HealthRows
<1>1. Probed(h) \in HealthRows
  <2>1. h.probes + 1 \in Nat
    BY DEF HealthRows
  <2> DEFINE probes == h.probes + 1
  <2>2. probes \in Nat => [h EXCEPT !.state = "half_open", !.probes = probes] \in HealthRows
    <3> HIDE DEF probes
    <3> QED
      BY DEF HealthRows
  <2> QED
    BY <2>1, <2>2 DEF Probed
<1>2. Record(h, t, ok) \in HealthRows
  BY PolicyAssumption DEF HealthRows, Record
<1>3. Flush(h, old, new) \in HealthRows
  BY DEF HealthRows, Flush, Column
<1> QED
  BY <1>1, <1>2, <1>3

\* The rows of a fresh state.
LEMMA InitialRows ==
    /\ NoRow \in HealthRows /\ NewRow \in HealthRows
    /\ Absent \in RunRows /\ Agrees(Absent)
  BY DEF NoRow, NewRow, HealthRows, Absent, RunRows, RunStatus, WorkflowStatus, NextActions,
         NoRun, WorkflowOf, Agrees

\* What create_url_import_run inserts.
LEMMA CreatedRow ==
    ASSUME NEW u \in Urls, NEW dup \in Runs \cup {NoRun}, NEW force \in BOOLEAN
    PROVE  Created(u, dup, force) \in RunRows /\ Agrees(Created(u, dup, force))
  BY InitialRows, ZenonT(60) DEF Created, Absent, RunRows, RunStatus, WorkflowStatus, NextActions, WorkflowOf, Agrees

\* How a run ends: marked by the exception handler or by the extraction, with
\* the workflow run following in both cases.
LEMMA EndedRow ==
    ASSUME NEW run \in RunRows, NEW outcome \in Outcomes
    PROVE  /\ MarkedFailed(run) \in RunRows /\ Agrees(MarkedFailed(run))
           /\ Extracted(run, outcome) \in RunRows /\ Agrees(Extracted(run, outcome))
           /\ VisiblePageSaved(run) \in RunRows
<1>1. MarkedFailed(run) \in RunRows /\ Agrees(MarkedFailed(run))
  BY ZenonT(60) DEF MarkedFailed, RunRows, RunStatus, WorkflowStatus, NextActions, WorkflowOf, Agrees
<1>2. Extracted(run, outcome) \in RunRows /\ Agrees(Extracted(run, outcome))
  BY ZenonT(60) DEF Extracted, Outcomes, RunRows, RunStatus, WorkflowStatus, NextActions, WorkflowOf, Agrees
<1>3. VisiblePageSaved(run) \in RunRows
  BY DEF VisiblePageSaved, RunRows, RunStatus, WorkflowStatus, NextActions
<1> QED
  BY <1>1, <1>2, <1>3

\* ... or by a failed fetch, whichever fetcher failed and however it did.
LEMMA FailedRow ==
    ASSUME NEW run \in RunRows, NEW f \in FetchFailures(Fetcher)
    PROVE  FailedTo(run, f) \in RunRows /\ Agrees(FailedTo(run, f))
<1>1. f.next \in NextActions
  BY DEF FetchFailures, HTTPFailures, WeChatFailures, Failure, NextActions
<1>2. FailedStatus(f) \in {"waiting_user", "failed_recoverable", "failed_terminal"}
  BY DEF FailedStatus
<1> QED
  BY <1>1, <1>2 DEF FailedTo, RunRows, RunStatus, WorkflowStatus, WorkflowOf, Agrees

----------------------------------------------------------------------------
\* The invariant gives the two properties.
LEMMA MatchImplies == MatchInv => TypeOK /\ RunMatchesWorkflow
  BY DEF MatchInv, TypeOK, Tasks, RunMatchesWorkflow, Agrees

\* It holds before anything is imported.
LEMMA MatchInit == Init => MatchInv
  BY InitialRows, BoundsAssumption DEF Init, MatchInv, Idle, Tasks, NoRun

\* A step that changes only the task of run i, to a task of the right type.
LEMMA TaskStep ==
    ASSUME MatchInv, NEW i \in Runs, NEW new \in Tasks, Agrees(new.row),
           task' = [task EXCEPT ![i] = new], UNCHANGED <<runs, health, submit, now>>
    PROVE  MatchInv'
  BY DEF MatchInv

\* A commit of the task of run i: its row and the health row are replaced.
LEMMA CommitStep ==
    ASSUME MatchInv, NEW i \in Runs, NEW run \in RunRows, Agrees(run),
           NEW new \in Tasks, Agrees(new.row),
           runs' = [runs EXCEPT ![i] = run], task' = [task EXCEPT ![i] = new],
           health' \in HealthRows, UNCHANGED <<submit, now>>
    PROVE  MatchInv'
  BY DEF MatchInv

\* Every step keeps the invariant.
LEMMA MatchStep == MatchInv /\ [Next]_vars => MatchInv'
<1> SUFFICES ASSUME MatchInv, [Next]_vars
             PROVE  MatchInv'
  OBVIOUS
<1>a. /\ \A i \in Runs : runs[i] \in RunRows /\ task[i] \in Tasks /\ Agrees(task[i].row)
      /\ health \in HealthRows /\ now \in Nat
  BY BoundsAssumption DEF MatchInv
<1>d. Idle \in Tasks /\ Agrees(Idle.row)
  BY InitialRows DEF Idle, Tasks
<1>1. CASE Tick
  BY <1>1, BoundsAssumption DEF Tick, MatchInv
<1>2. ASSUME NEW i \in Runs, NEW u \in Urls, NEW force \in BOOLEAN, BeginCreate(i, u, force)
      PROVE  MatchInv'
  <2>1. PICK dup \in IF force THEN {NoRun} ELSE LatestRuns(u) :
           task' = [task EXCEPT ![i].pc = "creating", ![i].row = Created(u, dup, force)]
    BY <1>2 DEF BeginCreate
  <2>2. dup \in Runs \cup {NoRun}
    BY <2>1 DEF LatestRuns
  <2> DEFINE new == [task[i] EXCEPT !.pc = "creating", !.row = Created(u, dup, force)]
  <2>3. Created(u, dup, force) \in RunRows /\ Agrees(Created(u, dup, force))
    BY <2>2, CreatedRow
  <2>4. new \in Tasks /\ Agrees(new.row)
    BY <1>a, <2>3 DEF Tasks
  <2>5. task' = [task EXCEPT ![i] = new]
    BY <2>1
  <2> QED
    BY <1>2, <2>4, <2>5, TaskStep DEF BeginCreate
<1>3. ASSUME NEW i \in Runs, CommitCreate(i)
      PROVE  MatchInv'
  <2> DEFINE new == IF task[i].row.status = "running" THEN [Idle EXCEPT !.pc = "queued"] ELSE Idle
  <2>1. new \in Tasks /\ Agrees(new.row)
    BY <1>d DEF Tasks, Idle
  <2>2. task[i].row \in RunRows /\ Agrees(task[i].row)
    BY <1>a DEF Tasks
  <2>3. /\ runs' = [runs EXCEPT ![i] = task[i].row] /\ task' = [task EXCEPT ![i] = new]
        /\ health' \in HealthRows /\ UNCHANGED <<submit, now>>
    BY <1>3, <1>a DEF CommitCreate
  <2> QED
    BY <2>1, <2>2, <2>3, CommitStep
<1>4. ASSUME NEW i \in Runs, BeginFetch(i)
      PROVE  MatchInv'
  <2> DEFINE row == IF health = NoRow THEN NewRow ELSE health
             new == [task[i] EXCEPT !.pc = "fetching", !.old = health, !.new = Probed(row)]
  <2>1. row \in HealthRows
    BY <1>a, InitialRows
  <2>2. Probed(row) \in HealthRows
    BY <2>1, HealthTypes
  <2>3. new \in Tasks /\ Agrees(new.row)
    BY <1>a, <2>2 DEF Tasks
  <2>4. task' = [task EXCEPT ![i] = new] /\ UNCHANGED <<runs, health, submit, now>>
    BY <1>4 DEF BeginFetch
  <2> QED
    BY <2>3, <2>4, TaskStep
<1>5. ASSUME NEW i \in Runs, NEW ok \in BOOLEAN, EndFetch(i, ok)
      PROVE  MatchInv'
  <2> DEFINE new == [task[i] EXCEPT !.pc = "fetched", !.ok = ok, !.new = Record(@, now, ok)]
  <2>1. task[i].new \in HealthRows
    BY <1>a DEF Tasks
  <2>2. Record(task[i].new, now, ok) \in HealthRows
    BY <1>a, <2>1, HealthTypes
  <2>3. new \in Tasks /\ Agrees(new.row)
    BY <1>a, <2>2 DEF Tasks
  <2>4. task' = [task EXCEPT ![i] = new] /\ UNCHANGED <<runs, health, submit, now>>
    BY <1>5 DEF EndFetch
  <2> QED
    BY <2>3, <2>4, TaskStep
<1>6. ASSUME NEW i \in Runs, RefuseFetch(i) \/ FailTask(i)
      PROVE  MatchInv'
  <2>1. MarkedFailed(runs[i]) \in RunRows /\ Agrees(MarkedFailed(runs[i]))
    BY <1>a, EndedRow DEF Outcomes
  <2>2. /\ runs' = [runs EXCEPT ![i] = MarkedFailed(runs[i])] /\ task' = [task EXCEPT ![i] = Idle]
        /\ UNCHANGED <<health, submit, now>>
    BY <1>6 DEF RefuseFetch, FailTask
  <2> QED
    BY <1>a, <1>d, <2>1, <2>2, CommitStep
<1>7. ASSUME NEW i \in Runs,
             \/ \E f \in FetchFailures(Fetcher) : CommitFetchFailed(i, f)
             \/ \E outcome \in Outcomes : CommitImport(i, outcome)
      PROVE  MatchInv'
  <2>2. task[i].old \in HealthRows /\ task[i].new \in HealthRows
    BY <1>a DEF Tasks
  <2>3. Flush(health, task[i].old, task[i].new) \in HealthRows
    BY <1>a, <2>2, HealthTypes, 0 \in Nat
  <2>4. health' \in HealthRows
    BY <1>7, <2>3 DEF CommitFetchFailed, CommitImport, Saves
  <2>5. PICK run \in RunRows : Agrees(run) /\ runs' = [runs EXCEPT ![i] = run]
    <3>1. CASE \E f \in FetchFailures(Fetcher) : CommitFetchFailed(i, f)
      BY <3>1, <1>a, FailedRow DEF CommitFetchFailed
    <3>2. CASE \E outcome \in Outcomes : CommitImport(i, outcome)
      BY <3>2, <1>a, EndedRow DEF CommitImport
    <3> QED
      BY <1>7, <3>1, <3>2
  <2>6. task' = [task EXCEPT ![i] = Idle] /\ UNCHANGED <<submit, now>>
    BY <1>7 DEF CommitFetchFailed, CommitImport
  <2> QED
    BY <1>d, <2>4, <2>5, <2>6, CommitStep
<1>8. ASSUME NEW r \in Requests, Submission(r)
      PROVE  MatchInv'
  <2>1. ASSUME NEW i \in Runs, BeginSubmit(r, i)
        PROVE  MatchInv'
    BY <2>1 DEF BeginSubmit, MatchInv
  <2>2. ASSUME NEW outcome \in Outcomes, EndSubmit(r, outcome)
        PROVE  MatchInv'
    <3>1. submit[r] \in Runs
      BY <2>2 DEF EndSubmit, MatchInv
    <3> DEFINE saved == VisiblePageSaved(runs[submit[r]])
    <3>2. saved \in RunRows
      BY <1>a, <2>2, <3>1, EndedRow
    <3>3. Extracted(saved, outcome) \in RunRows /\ Agrees(Extracted(saved, outcome))
      BY <2>2, <3>2, EndedRow
    <3> QED
      BY <2>2, <3>1, <3>3 DEF EndSubmit, MatchInv
  <2>3. CASE AbortSubmit(r)
    BY <2>3 DEF AbortSubmit, MatchInv
  <2> QED
    BY <1>8, <2>1, <2>2, <2>3 DEF Submission
<1>9. CASE UNCHANGED vars
  BY <1>9 DEF vars, MatchInv
<1> QED
  <2>1. ASSUME NEW i \in Runs, Work(i)
        PROVE  MatchInv'
    BY <2>1, <1>3, <1>4, <1>5, <1>6, <1>7 DEF Work, Outcomes
  <2> QED
    BY <2>1, <1>1, <1>2, <1>8, <1>9 DEF Next

\* Type correctness of the pipeline.
THEOREM TypeCorrect == Spec => []TypeOK
  BY MatchInit, MatchStep, MatchImplies, PTL DEF Spec

\* After every commit of create_url_import_run, the background task or a
\* submission, the import run and its workflow run tell the same story.
THEOREM RunsAgree == Spec => []RunMatchesWorkflow
  BY MatchInit, MatchStep, MatchImplies, PTL DEF Spec

----------------------------------------------------------------------------
(* One transaction at a time.  The guard's memory of a domain is sound:    *)
(* an open circuit has seen OpenAfter failures, so a failed probe opens it *)
(* again and no half-open row is ever committed.                           *)

SoundRow(h) == /\ h.state # "half_open"
               /\ h.state = "open" => h.fails >= OpenAfter

Open(i) == task[i].pc \in {"creating", "fetching", "fetched"}

CircuitInv ==
    /\ MatchInv
    /\ SoundRow(health)
    /\ \A i, j \in Runs : Open(i) /\ Open(j) => i = j
    /\ \A i \in Runs : Open(i) => \A r \in Requests : submit[r] = NoRun
    /\ \A i \in Runs : task[i].pc \in {"fetching", "fetched"} => task[i].old = health
    /\ \A i \in Runs : task[i].pc = "fetching" =>
          /\ task[i].new.state # "open"
          /\ task[i].new.state = "half_open" => task[i].new.fails >= OpenAfter
    /\ \A i \in Runs : task[i].pc = "fetched" => SoundRow(task[i].new)

\* A committed row of a serial system lets a fetch through once its cooldown is over.
LEMMA CircuitImplies == CircuitInv => CircuitCanClose
  BY DEF CircuitInv, MatchInv, SoundRow, CircuitCanClose, Allows, HealthRows

\* It holds before the first import.
LEMMA CircuitInit == Init => CircuitInv
  BY MatchInit DEF Init, CircuitInv, SoundRow, Open, Idle, NoRow

\* Every step of a serial system keeps it.
LEMMA CircuitStep ==
    ASSUME ~Concurrent
    PROVE  CircuitInv /\ [Next]_vars => CircuitInv'
<1> SUFFICES ASSUME CircuitInv, [Next]_vars
             PROVE  CircuitInv'
  OBVIOUS
<1>a. MatchInv /\ MatchInv'
  BY MatchStep DEF CircuitInv
<1>b. /\ runs \in [Runs -> RunRows] /\ task \in [Runs -> Tasks] /\ health \in HealthRows
      /\ submit \in [Requests -> Runs \cup {NoRun}] /\ now \in Nat
  BY <1>a, BoundsAssumption DEF MatchInv
<1>c. MayOpen => /\ \A i \in Runs : ~Open(i)
                 /\ \A r \in Requests : submit[r] = NoRun
  BY <1>b DEF MayOpen, Busy, Open
<1>1. CASE Tick
  BY <1>1, <1>a DEF Tick, CircuitInv, Open
<1>2. ASSUME NEW i \in Runs, NEW u \in Urls, NEW force \in BOOLEAN, BeginCreate(i, u, force)
      PROVE  CircuitInv'
  <2>1. PICK dup : task' = [task EXCEPT ![i].pc = "creating", ![i].row = Created(u, dup, force)]
    BY <1>2 DEF BeginCreate
  <2>2. task'[i].pc = "creating" /\ \A j \in Runs : j # i => task'[j] = task[j]
    BY <1>b, <2>1 DEF Tasks
  <2> QED
    BY <1>2, <1>a, <1>c, <2>2 DEF BeginCreate, CircuitInv, Open
<1>3. ASSUME NEW i \in Runs, CommitCreate(i) \/ RefuseFetch(i) \/ FailTask(i)
      PROVE  CircuitInv'
  <2>1. /\ task'[i].pc \in {"idle", "queued"} /\ \A j \in Runs : j # i => task'[j] = task[j]
        /\ UNCHANGED <<health, submit>>
    BY <1>3, <1>b DEF CommitCreate, RefuseFetch, FailTask, Idle, Tasks
  <2> QED
    BY <1>a, <2>1 DEF CircuitInv, Open
<1>4. ASSUME NEW i \in Runs, BeginFetch(i)
      PROVE  CircuitInv'
  <2> DEFINE row == IF health = NoRow THEN NewRow ELSE health
  <2>1. /\ task'[i].pc = "fetching" /\ task'[i].old = health /\ task'[i].new = Probed(row)
        /\ \A j \in Runs : j # i => task'[j] = task[j]
        /\ UNCHANGED <<health, submit>> /\ MayOpen
    BY <1>4, <1>b DEF BeginFetch, Tasks
  <2>2. row \in HealthRows /\ SoundRow(row)
    BY <1>b, InitialRows DEF CircuitInv, SoundRow, NewRow, NoRow
  <2>3. /\ Probed(row).state # "open"
        /\ Probed(row).state = "half_open" => Probed(row).fails >= OpenAfter
    <3> HIDE DEF row
    <3> QED
      BY <2>2 DEF Probed, SoundRow, HealthRows
  <2> QED
    BY <1>a, <1>c, <2>1, <2>3 DEF CircuitInv, Open
<1>5. ASSUME NEW i \in Runs, NEW ok \in BOOLEAN, EndFetch(i, ok)
      PROVE  CircuitInv'
  <2>1. /\ task[i].pc = "fetching" /\ task'[i].pc = "fetched" /\ task'[i].old = task[i].old
        /\ task'[i].new = Record(task[i].new, now, ok)
        /\ \A j \in Runs : j # i => task'[j] = task[j]
        /\ UNCHANGED <<health, submit>>
    BY <1>5, <1>b DEF EndFetch, Tasks
  <2>2. task[i].new \in HealthRows
    BY <1>b DEF Tasks
  <2>3. SoundRow(Record(task[i].new, now, ok))
    BY <2>1, <2>2, PolicyAssumption DEF CircuitInv, SoundRow, Record, HealthRows
  <2> QED
    BY <1>a, <2>1, <2>3 DEF CircuitInv, Open
<1>6. ASSUME NEW i \in Runs, NEW outcome, NEW f,
             CommitFetchFailed(i, f) \/ CommitImport(i, outcome)
      PROVE  CircuitInv'
  <2>1. /\ task[i].pc = "fetched" /\ task'[i] = Idle
        /\ \A j \in Runs : j # i => task'[j] = task[j]
        /\ health' = Flush(health, task[i].old, task[i].new) /\ UNCHANGED submit
    BY <1>6, <1>b DEF CommitFetchFailed, CommitImport, Saves
  <2>2. task[i].new \in HealthRows /\ task[i].old = health /\ SoundRow(task[i].new)
    BY <1>b, <2>1 DEF CircuitInv, Tasks
  <2>3. Flush(health, health, task[i].new) = task[i].new
    BY <1>b, <2>2 DEF Flush, Column, HealthRows
  <2>4. SoundRow(health')
    BY <2>1, <2>2, <2>3
  <2>5. \A j \in Runs : j # i => ~Open(j)
    BY <2>1 DEF CircuitInv, Open
  <2> QED
    BY <1>a, <2>1, <2>4, <2>5 DEF CircuitInv, Open, Idle
<1>7. ASSUME NEW r \in Requests, Submission(r)
      PROVE  CircuitInv'
  <2>1. ASSUME NEW i \in Runs, BeginSubmit(r, i)
        PROVE  CircuitInv'
    BY <2>1, <1>a, <1>c DEF BeginSubmit, CircuitInv, Open
  <2>2. ASSUME (\E outcome \in Outcomes : EndSubmit(r, outcome)) \/ AbortSubmit(r)
        PROVE  CircuitInv'
    <3>1. submit[r] # NoRun /\ UNCHANGED <<task, health>>
      BY <2>2 DEF EndSubmit, AbortSubmit
    <3>2. \A i \in Runs : ~Open(i)
      BY <3>1 DEF CircuitInv
    <3> QED
      BY <1>a, <3>1, <3>2 DEF CircuitInv, Open
  <2> QED
    BY <1>7, <2>1, <2>2 DEF Submission
<1>8. CASE UNCHANGED vars
  BY <1>8, <1>a DEF vars, CircuitInv, Open
<1> QED
  <2>1. ASSUME NEW i \in Runs, Work(i)
        PROVE  CircuitInv'
    BY <2>1, <1>3, <1>4, <1>5, <1>6 DEF Work
  <2> QED
    BY <2>1, <1>1, <1>2, <1>7, <1>8 DEF Next

\* While transactions do not overlap, the circuit breaker never locks a domain
\* out for good, for every failure threshold and cooldown of the ToolPolicy.
THEOREM CircuitRecovers ==
    ASSUME ~Concurrent
    PROVE  Spec => []CircuitCanClose
<1>1. CircuitInv /\ [Next]_vars => CircuitInv'
  BY CircuitStep
<1> QED
  BY <1>1, CircuitInit, CircuitImplies, PTL DEF Spec

----------------------------------------------------------------------------
(* The pipeline implements ImportLedger.  What a task or a submission      *)
(* relies on when it commits: the run is still in the phase in which it    *)
(* was taken up, or, for a submission, at least not being worked on.       *)

LedgerInv ==
    /\ MatchInv
    /\ \A i \in Runs : task[i].pc = "creating" =>
          runs[i].status = "absent" /\ task[i].row.status # "absent"
    /\ \A i \in Runs : task[i].pc \in {"queued", "fetching", "fetched"} => runs[i].status = "running"
    /\ \A r \in Requests : submit[r] # NoRun => runs[submit[r]].status \notin {"absent", "running"}

Phases == [i \in Runs |-> PhaseOf(runs[i])]

\* It holds before the first import, where no run is known to the ledger.
LEMMA LedgerInit == Init => LedgerInv /\ Ledger!Init
<1> SUFFICES ASSUME Init
             PROVE  LedgerInv /\ Ledger!Init
  OBVIOUS
<1>1. LedgerInv
  BY MatchInit DEF Init, LedgerInv, Idle
<1>2. Ledger!Init
  BY DEF Init, Ledger!Init, PhaseOf, Absent
<1> QED
  BY <1>1, <1>2

\* The phases a row may be in after the commits of the pipeline.
LEMMA CommittedPhases ==
    /\ \A run : PhaseOf(run) \in {"absent", "open", "asking", "settled"}
    /\ \A run \in RunRows : /\ PhaseOf(MarkedFailed(run)) = "settled"
                           /\ \A outcome \in Outcomes : PhaseOf(Extracted(run, outcome)) = "settled"
<1>1. \A run : PhaseOf(run) \in {"absent", "open", "asking", "settled"}
  BY DEF PhaseOf
<1>2. ASSUME NEW run \in RunRows
      PROVE  PhaseOf(MarkedFailed(run)) = "settled"
  BY DEF PhaseOf, MarkedFailed, RunRows
<1>3. ASSUME NEW run \in RunRows, NEW outcome \in Outcomes
      PROVE  PhaseOf(Extracted(run, outcome)) = "settled"
  BY DEF PhaseOf, Extracted, Outcomes, RunRows
<1> QED
  BY <1>1, <1>2, <1>3

\* A failed fetch settles the run or leaves it to the user.
LEMMA FailedPhase ==
    ASSUME NEW run \in RunRows, NEW f
    PROVE  PhaseOf(FailedTo(run, f)) \in {"asking", "settled"}
  BY DEF PhaseOf, FailedTo, FailedStatus, RunRows

\* A commit of run i is a step of the ledger or changes nothing there.
LEMMA PhaseStep ==
    ASSUME runs \in [Runs -> RunRows], NEW i \in Runs, NEW run \in RunRows,
           runs' = [runs EXCEPT ![i] = run],
           \/ /\ PhaseOf(runs[i]) = "absent"
              /\ PhaseOf(run) \in {"open", "asking", "settled"}
           \/ /\ PhaseOf(runs[i]) = "open"
              /\ PhaseOf(run) \in {"asking", "settled"}
           \/ /\ PhaseOf(runs[i]) \in {"asking", "settled"}
              /\ PhaseOf(run) = "settled"
    PROVE  [Ledger!Next]_Phases
<1>1. Phases' = [Phases EXCEPT ![i] = PhaseOf(run)]
  BY DEF Phases
<1>2. Phases[i] = PhaseOf(runs[i])
  BY DEF Phases
<1>3. CASE PhaseOf(runs[i]) = "absent"
  <2>1. Ledger!Accept(i)
    BY <1>1, <1>2, <1>3 DEF Ledger!Accept, Ledger!Becomes, Phases
  <2> QED
    BY <2>1 DEF Ledger!Next
<1>4. CASE PhaseOf(runs[i]) = "open"
  <2>1. Ledger!Settle(i)
    BY <1>1, <1>2, <1>4 DEF Ledger!Settle, Ledger!Becomes, Phases
  <2> QED
    BY <2>1 DEF Ledger!Next
<1>5. CASE PhaseOf(runs[i]) = "asking"
  <2>1. Ledger!Supply(i)
    BY <1>1, <1>2, <1>5 DEF Ledger!Supply, Ledger!Becomes, Phases
  <2> QED
    BY <2>1 DEF Ledger!Next
<1>6. CASE PhaseOf(runs[i]) = "settled"
  <2>1. Phases' = Phases
    BY <1>1, <1>2, <1>6 DEF Phases
  <2> QED
    BY <2>1
<1> QED
  BY <1>3, <1>4, <1>5, <1>6

\* Every step keeps the invariant and is a step of the ledger.
LEMMA LedgerStep == LedgerInv /\ [Next]_vars => LedgerInv' /\ [Ledger!Next]_Phases
<1> SUFFICES ASSUME LedgerInv, [Next]_vars
             PROVE  LedgerInv' /\ [Ledger!Next]_Phases
  OBVIOUS
<1>a. MatchInv /\ MatchInv'
  BY MatchStep DEF LedgerInv
<1>b. /\ runs \in [Runs -> RunRows] /\ runs' \in [Runs -> RunRows] /\ task \in [Runs -> Tasks]
      /\ submit \in [Requests -> Runs \cup {NoRun}]
  BY <1>a DEF MatchInv
<1>c. runs' = runs => [Ledger!Next]_Phases
  BY DEF Phases
<1>1. CASE Tick
  BY <1>1, <1>a, <1>c DEF Tick, LedgerInv
<1>2. ASSUME NEW i \in Runs, NEW u \in Urls, NEW force \in BOOLEAN, BeginCreate(i, u, force)
      PROVE  LedgerInv' /\ [Ledger!Next]_Phases
  <2>1. PICK dup : task' = [task EXCEPT ![i].pc = "creating", ![i].row = Created(u, dup, force)]
    BY <1>2 DEF BeginCreate
  <2>2. /\ task'[i].pc = "creating" /\ task'[i].row = Created(u, dup, force)
        /\ \A j \in Runs : j # i => task'[j] = task[j]
    BY <1>b, <2>1 DEF Tasks
  <2>3. Created(u, dup, force).status # "absent"
    BY DEF Created, Absent
  <2>4. runs[i].status = "absent" /\ UNCHANGED <<runs, submit>>
    BY <1>2 DEF BeginCreate, Absent
  <2> QED
    BY <1>a, <1>c, <2>2, <2>3, <2>4 DEF LedgerInv
<1>3. ASSUME NEW i \in Runs, (BeginFetch(i) \/ \E ok \in BOOLEAN : EndFetch(i, ok))
      PROVE  LedgerInv' /\ [Ledger!Next]_Phases
  <2>1. /\ task[i].pc \in {"queued", "fetching"} /\ task'[i].pc \in {"fetching", "fetched"}
        /\ \A j \in Runs : j # i => task'[j] = task[j]
        /\ UNCHANGED <<runs, submit>>
    <3>1. CASE BeginFetch(i)
      BY <3>1, <1>b DEF BeginFetch, Tasks
    <3>2. ASSUME NEW ok \in BOOLEAN, EndFetch(i, ok)
          PROVE  /\ task[i].pc \in {"queued", "fetching"} /\ task'[i].pc \in {"fetching", "fetched"}
                 /\ \A j \in Runs : j # i => task'[j] = task[j]
                 /\ UNCHANGED <<runs, submit>>
      BY <3>2, <1>b DEF EndFetch, Tasks
    <3> QED
      BY <1>3, <3>1, <3>2
  <2> QED
    BY <1>a, <1>c, <2>1 DEF LedgerInv
<1>4. ASSUME NEW i \in Runs, CommitCreate(i)
      PROVE  LedgerInv' /\ [Ledger!Next]_Phases
  <2> DEFINE run == task[i].row
  <2>1. /\ runs[i].status = "absent" /\ run.status # "absent" /\ run \in RunRows
        /\ runs' = [runs EXCEPT ![i] = run] /\ UNCHANGED submit
        /\ task'[i].pc = (IF run.status = "running" THEN "queued" ELSE "idle")
        /\ \A j \in Runs : j # i => task'[j] = task[j]
    BY <1>4, <1>b DEF CommitCreate, LedgerInv, Tasks, Idle
  <2>2. LedgerInv'
    BY <1>a, <1>b, <2>1 DEF LedgerInv, NoRun
  <2>3. PhaseOf(runs[i]) = "absent" /\ PhaseOf(run) \in {"open", "asking", "settled"}
    BY <2>1 DEF PhaseOf
  <2> QED
    BY <1>b, <2>1, <2>2, <2>3, PhaseStep
<1>5. ASSUME NEW i \in Runs, NEW run \in RunRows, PhaseOf(run) \in {"asking", "settled"},
             task[i].pc \in {"queued", "fetching", "fetched"},
             runs' = [runs EXCEPT ![i] = run], task' = [task EXCEPT ![i] = Idle], UNCHANGED submit
      PROVE  LedgerInv' /\ [Ledger!Next]_Phases
  <2>1. runs[i].status = "running" /\ run.status \notin {"absent", "running"}
    BY <1>5 DEF LedgerInv, PhaseOf
  <2>2. LedgerInv'
    BY <1>a, <1>b, <1>5, <2>1 DEF LedgerInv, Idle
  <2>3. PhaseOf(runs[i]) = "open"
    BY <2>1 DEF PhaseOf
  <2> QED
    BY <1>b, <1>5, <2>2, <2>3, PhaseStep
<1>6. ASSUME NEW i \in Runs, RefuseFetch(i) \/ FailTask(i)
      PROVE  LedgerInv' /\ [Ledger!Next]_Phases
  <2>1. MarkedFailed(runs[i]) \in RunRows /\ PhaseOf(MarkedFailed(runs[i])) = "settled"
    BY <1>b, EndedRow, CommittedPhases DEF Outcomes
  <2> QED
    BY <1>5, <1>6, <2>1 DEF RefuseFetch, FailTask
<1>7. ASSUME NEW i \in Runs, NEW f \in FetchFailures(Fetcher), CommitFetchFailed(i, f)
      PROVE  LedgerInv' /\ [Ledger!Next]_Phases
  <2>1. runs[i] \in RunRows
    BY <1>b
  <2>2. FailedTo(runs[i], f) \in RunRows
    BY <2>1, <1>7, FailedRow
  <2>3. PhaseOf(FailedTo(runs[i], f)) \in {"asking", "settled"}
    BY <2>1, FailedPhase
  <2> QED
    BY <1>5, <1>7, <2>2, <2>3 DEF CommitFetchFailed
<1>8. ASSUME NEW i \in Runs, NEW outcome \in Outcomes, CommitImport(i, outcome)
      PROVE  LedgerInv' /\ [Ledger!Next]_Phases
  <2>1. Extracted(runs[i], outcome) \in RunRows /\ PhaseOf(Extracted(runs[i], outcome)) = "settled"
    BY <1>b, <1>8, EndedRow, CommittedPhases
  <2> QED
    BY <1>5, <1>8, <2>1 DEF CommitImport
<1>9. ASSUME NEW r \in Requests, Submission(r)
      PROVE  LedgerInv' /\ [Ledger!Next]_Phases
  <2>1. ASSUME NEW i \in Runs, BeginSubmit(r, i)
        PROVE  LedgerInv' /\ [Ledger!Next]_Phases
    BY <2>1, <1>a, <1>b, <1>c DEF BeginSubmit, LedgerInv
  <2>2. ASSUME NEW outcome \in Outcomes, EndSubmit(r, outcome)
        PROVE  LedgerInv' /\ [Ledger!Next]_Phases
    <3> DEFINE i   == submit[r]
               run == Extracted(VisiblePageSaved(runs[i]), outcome)
    <3>1. i \in Runs /\ runs[i].status \notin {"absent", "running"}
      BY <1>b, <2>2 DEF EndSubmit, LedgerInv
    <3>2. run \in RunRows /\ PhaseOf(run) = "settled"
      BY <1>b, <2>2, <3>1, EndedRow, CommittedPhases
    <3>3. /\ runs' = [runs EXCEPT ![i] = run] /\ UNCHANGED task
          /\ submit' = [submit EXCEPT ![r] = NoRun]
      BY <2>2 DEF EndSubmit
    <3>4. PhaseOf(runs[i]) \in {"asking", "settled"} /\ run.status \notin {"absent", "running"}
      BY <3>1, <3>2 DEF PhaseOf
    <3> HIDE DEF i, run
    <3>5. LedgerInv'
      BY <1>a, <1>b, <3>1, <3>3, <3>4 DEF LedgerInv
    <3> QED
      BY <1>b, <3>1, <3>2, <3>3, <3>4, <3>5, PhaseStep
  <2>3. CASE AbortSubmit(r)
    BY <2>3, <1>a, <1>b, <1>c DEF AbortSubmit, LedgerInv
  <2> QED
    BY <1>9, <2>1, <2>2, <2>3 DEF Submission
<1>10. CASE UNCHANGED vars
  BY <1>10, <1>a, <1>c DEF vars, LedgerInv
<1> QED
  <2>1. ASSUME NEW i \in Runs, Work(i)
        PROVE  LedgerInv' /\ [Ledger!Next]_Phases
    BY <2>1, <1>3, <1>4, <1>6, <1>7, <1>8 DEF Work
  <2> QED
    BY <2>1, <1>1, <1>2, <1>9, <1>10 DEF Next

\* For any number of runs, URLs and overlapping submissions, and however their
\* tasks fail, the rows a client polls take only the steps ImportLedger allows: a
\* settled run is never taken up again.
THEOREM LedgerSafety == Spec => Ledger!Spec
<1>1. [Ledger!Next]_Phases <=> [Ledger!Next]_[i \in Runs |-> PhaseOf(runs[i])]
  BY DEF Phases
<1> QED
  BY <1>1, LedgerInit, LedgerStep, PTL DEF Spec, Ledger!Spec

----------------------------------------------------------------------------
(* One transaction at a time: a URL that has a run is not imported again.  *)

\* A row numbered j of a URL that an earlier row has is a duplicate, unless it
\* was forced.
Recognised(rows, row, j) ==
    ~row.force /\ (\E i \in Runs : i < j /\ rows[i].url = row.url) => row.status = "duplicate"

\* Rows are taken in order, so whoever looks for earlier rows finds them
\* committed, and no row changes its URL or stops being a duplicate.
OnceInv ==
    /\ CircuitInv /\ LedgerInv
    /\ \A i \in Runs : runs[i].status = "absent" => runs[i] = Absent
    /\ \A i \in Runs : task[i].pc = "idle" => task[i] = Idle
    /\ \A i, j \in Runs :
          i < j /\ (runs[j].status # "absent" \/ task[j].pc = "creating") => runs[i].status # "absent"
    /\ \A j \in Runs : task[j].pc = "creating" => Recognised(runs, task[j].row, j)
    /\ \A j \in Runs : runs[j].status # "absent" => Recognised(runs, runs[j], j)
    /\ \A r \in Requests : submit[r] # NoRun => runs[submit[r]].status # "duplicate"

\* The invariant gives the property.
LEMMA OnceImplies == OnceInv => UrlImportedOnce
<1> SUFFICES ASSUME OnceInv, NEW i \in Runs, NEW j \in Runs,
                    i < j, runs[j] # Absent, ~runs[j].force, runs[i].url = runs[j].url
             PROVE  runs[j].status = "duplicate"
  BY DEF UrlImportedOnce
<1>1. runs[j].status # "absent"
  BY DEF OnceInv
<1>2. Recognised(runs, runs[j], j)
  BY <1>1 DEF OnceInv
<1> QED
  BY <1>2 DEF Recognised

\* It holds before the first import.
LEMMA OnceInit == Init => OnceInv
  BY CircuitInit, LedgerInit DEF Init, OnceInv, Absent, Idle

\* A commit that settles a run or leaves it to the user.
LEMMA WorkKeepsOnce ==
    ASSUME OnceInv, NEW i \in Runs, NEW run,
           runs' = [runs EXCEPT ![i] = run], run.url = runs[i].url, run.force = runs[i].force,
           runs[i].status \notin {"absent", "duplicate"}, run.status \notin {"absent", "duplicate"},
           CircuitInv', LedgerInv',
           \A j \in Runs : task'[j] = task[j] \/ task'[j] = Idle,
           \A r \in Requests : submit'[r] \in {submit[r], NoRun}
    PROVE  OnceInv'
<1>1. runs \in [Runs -> RunRows] /\ submit \in [Requests -> Runs \cup {NoRun}]
  BY DEF OnceInv, LedgerInv, MatchInv
<1>2. /\ runs'[i] = run /\ \A j \in Runs : j # i => runs'[j] = runs[j]
      /\ \A j \in Runs : runs'[j].url = runs[j].url
  BY <1>1
<1>4. ASSUME NEW j \in Runs, task'[j].pc = "creating"
      PROVE  Recognised(runs', task'[j].row, j) /\ task'[j] = task[j]
  <2>1. task'[j] = task[j]
    BY <1>4 DEF Idle
  <2>2. Recognised(runs, task[j].row, j)
    BY <1>4, <2>1 DEF OnceInv
  <2> QED
    BY <2>1, <2>2, <1>2 DEF Recognised
<1>5. ASSUME NEW j \in Runs, runs'[j].status # "absent"
      PROVE  Recognised(runs', runs'[j], j)
  <2>1. Recognised(runs, runs[j], j)
    BY <1>2, <1>5 DEF OnceInv
  <2>2. CASE j # i
    BY <2>1, <2>2, <1>2 DEF Recognised
  <2>3. CASE j = i
    BY <2>1, <2>3, <1>2 DEF Recognised
  <2> QED
    BY <2>2, <2>3
<1>6. \A j \in Runs : runs'[j].status = "absent" => runs'[j] = Absent
  BY <1>2 DEF OnceInv
<1>7. \A j \in Runs : task'[j].pc = "idle" => task'[j] = Idle
  BY DEF OnceInv
<1>8. \A j, k \in Runs :
         j < k /\ (runs'[k].status # "absent" \/ task'[k].pc = "creating") => runs'[j].status # "absent"
  BY <1>2, <1>4 DEF OnceInv
<1>9. \A r \in Requests : submit'[r] # NoRun => runs'[submit'[r]].status # "duplicate"
  BY <1>1, <1>2 DEF OnceInv
<1>10. \A j \in Runs : task'[j].pc = "creating" => Recognised(runs', task'[j].row, j)
  BY <1>4
<1> QED
  BY <1>5, <1>6, <1>7, <1>8, <1>9, <1>10 DEF OnceInv

\* A step that commits no run.
LEMMA QuietKeepsOnce ==
    ASSUME OnceInv, CircuitInv', LedgerInv', UNCHANGED runs,
           \A j \in Runs : \/ task'[j] = task[j]
                          \/ task'[j].pc \in {"queued", "fetching", "fetched"}
                          \/ task'[j] = Idle,
           \A r \in Requests : submit'[r] # NoRun => runs[submit'[r]].status # "duplicate"
    PROVE  OnceInv'
<1>1. \A j \in Runs : task'[j].pc = "creating" => task'[j] = task[j]
  BY DEF Idle
<1>3. \A j \in Runs : task'[j].pc = "creating" => Recognised(runs', task'[j].row, j)
  <2> SUFFICES ASSUME NEW j \in Runs, task'[j].pc = "creating" PROVE Recognised(runs', task'[j].row, j)
    BY <1>1
  <2>1. Recognised(runs, task[j].row, j)
    BY <1>1 DEF OnceInv
  <2> QED
    BY <1>1, <2>1 DEF Recognised
<1>4. \A j \in Runs : runs'[j].status # "absent" => Recognised(runs', runs'[j], j)
  BY DEF OnceInv, Recognised
<1>5. \A j \in Runs : task'[j].pc = "idle" => task'[j] = Idle
  BY DEF OnceInv
<1>6. \A j, k \in Runs :
         j < k /\ (runs'[k].status # "absent" \/ task'[k].pc = "creating") => runs'[j].status # "absent"
  BY <1>1 DEF OnceInv
<1>7. \A j \in Runs : runs'[j].status = "absent" => runs'[j] = Absent
  BY DEF OnceInv
<1> QED
  BY <1>3, <1>4, <1>5, <1>6, <1>7 DEF OnceInv

\* Every step of a serial system keeps it.
LEMMA OnceStep ==
    ASSUME ~Concurrent
    PROVE  OnceInv /\ [Next]_vars => OnceInv'
<1> SUFFICES ASSUME OnceInv, [Next]_vars
             PROVE  OnceInv'
  OBVIOUS
<1>a. CircuitInv' /\ LedgerInv'
  BY CircuitStep, LedgerStep DEF OnceInv
<1>b. /\ runs \in [Runs -> RunRows] /\ task \in [Runs -> Tasks]
      /\ submit \in [Requests -> Runs \cup {NoRun}]
  BY DEF OnceInv, LedgerInv, MatchInv
<1>1. CASE Tick \/ UNCHANGED vars
  BY <1>1, <1>a, QuietKeepsOnce DEF Tick, vars, OnceInv
<1>2. ASSUME NEW i \in Runs, NEW u \in Urls, NEW force \in BOOLEAN, BeginCreate(i, u, force)
      PROVE  OnceInv'
  <2>1. PICK dup \in IF force THEN {NoRun} ELSE LatestRuns(u) :
           task' = [task EXCEPT ![i].pc = "creating", ![i].row = Created(u, dup, force)]
    BY <1>2 DEF BeginCreate
  <2>2. /\ task'[i].pc = "creating" /\ task'[i].row = Created(u, dup, force)
        /\ \A j \in Runs : j # i => task'[j] = task[j]
    BY <1>b, <2>1 DEF Tasks
  <2>3. /\ Created(u, dup, force).url = u /\ Created(u, dup, force).force = force
        /\ dup # NoRun => Created(u, dup, force).status = "duplicate"
    BY DEF Created, Absent
  <2>4. Recognised(runs, Created(u, dup, force), i)
    BY <2>1, <2>3 DEF Recognised, LatestRuns, Runs, NoRun
  <2>5. \A j \in Runs : j < i => runs[j].status # "absent"
    <3> SUFFICES ASSUME NEW j \in Runs, j < i, runs[j].status = "absent" PROVE FALSE
      OBVIOUS
    <3>1. runs[j] = Absent /\ task[j] # Idle
      BY <1>2 DEF OnceInv, BeginCreate
    <3>2. task[j].pc \in {"idle", "queued"}
      BY <1>2, <1>b DEF BeginCreate, MayOpen, Busy
    <3> QED
      BY <3>1, <3>2 DEF OnceInv, LedgerInv
  <2>6. UNCHANGED <<runs, submit>>
    BY <1>2 DEF BeginCreate
  <2>8. \A j \in Runs : task'[j].pc = "creating" => Recognised(runs', task'[j].row, j)
    BY <2>2, <2>4, <2>6 DEF OnceInv, Recognised
  <2>9. \A j \in Runs : runs'[j].status # "absent" => Recognised(runs', runs'[j], j)
    BY <2>6 DEF OnceInv, Recognised
  <2>10. \A j, k \in Runs :
            j < k /\ (runs'[k].status # "absent" \/ task'[k].pc = "creating") => runs'[j].status # "absent"
    BY <2>2, <2>5, <2>6 DEF OnceInv
  <2>11. \A j \in Runs : task'[j].pc = "idle" => task'[j] = Idle
    BY <2>2 DEF OnceInv
  <2> QED
    BY <1>a, <2>6, <2>8, <2>9, <2>10, <2>11 DEF OnceInv
<1>3. ASSUME NEW i \in Runs, CommitCreate(i)
      PROVE  OnceInv'
  <2> DEFINE row == task[i].row
  <2>1. /\ task[i].pc = "creating" /\ runs' = [runs EXCEPT ![i] = row] /\ UNCHANGED submit
        /\ task'[i] = Idle \/ task'[i].pc = "queued"
        /\ \A j \in Runs : j # i => task'[j] = task[j]
    BY <1>3, <1>b DEF CommitCreate, Idle
  <2>2. /\ runs[i].status = "absent" /\ row.status # "absent" /\ Recognised(runs, row, i)
        /\ \A j \in Runs : j # i => task[j].pc # "creating"
        /\ \A r \in Requests : submit[r] = NoRun
    BY <2>1 DEF OnceInv, LedgerInv, CircuitInv, Open
  <2> HIDE DEF row
  <2>3. \A j \in Runs : i < j => runs[j].status = "absent"
    BY <2>2 DEF OnceInv
  <2>4. runs'[i] = row /\ \A j \in Runs : j # i => runs'[j] = runs[j]
    BY <1>b, <2>1
  <2>5. \A j \in Runs : task'[j].pc # "creating" /\ (task'[j].pc = "idle" => task'[j] = Idle)
    <3>1. Idle.pc = "idle" /\ \A j \in Runs : task[j].pc = "idle" => task[j] = Idle
      BY DEF OnceInv, Idle
    <3> QED
      BY <2>1, <2>2, <3>1
  <2>6. \A j, k \in Runs : j < k /\ runs'[k].status # "absent" => runs'[j].status # "absent"
    BY <2>1, <2>2, <2>4 DEF OnceInv
  <2>7. ASSUME NEW j \in Runs, runs'[j].status # "absent"
        PROVE  Recognised(runs', runs'[j], j)
    <3>1. j = i \/ j < i
      BY <2>3, <2>4, <2>7 DEF Runs
    <3>2. \A k \in Runs : k < j => runs'[k] = runs[k]
      BY <3>1, <2>4 DEF Runs
    <3>3. CASE j = i
      BY <3>2, <3>3, <2>2, <2>4 DEF Recognised
    <3>4. CASE j < i
      BY <3>2, <3>4, <2>4, <2>7 DEF OnceInv, Recognised, Runs
    <3> QED
      BY <3>1, <3>3, <3>4
  <2>8. \A j \in Runs : runs'[j].status = "absent" => runs'[j] = Absent
    BY <2>2, <2>4 DEF OnceInv
  <2> QED
    BY <1>a, <2>1, <2>2, <2>5, <2>6, <2>7, <2>8 DEF OnceInv
<1>4. ASSUME NEW i \in Runs, (BeginFetch(i) \/ \E ok \in BOOLEAN : EndFetch(i, ok))
      PROVE  OnceInv'
  <2>1. /\ task'[i].pc \in {"fetching", "fetched"} /\ \A j \in Runs : j # i => task'[j] = task[j]
        /\ UNCHANGED <<runs, submit>>
    <3>1. CASE BeginFetch(i)
      BY <3>1, <1>b DEF BeginFetch, Tasks
    <3>2. ASSUME NEW ok \in BOOLEAN, EndFetch(i, ok)
          PROVE  /\ task'[i].pc \in {"fetching", "fetched"} /\ \A j \in Runs : j # i => task'[j] = task[j]
                 /\ UNCHANGED <<runs, submit>>
      BY <3>2, <1>b DEF EndFetch, Tasks
    <3> QED
      BY <1>4, <3>1, <3>2
  <2> QED
    BY <1>a, <2>1, QuietKeepsOnce DEF OnceInv
<1>5. ASSUME NEW i \in Runs, NEW run \in RunRows, task[i].pc \in {"queued", "fetching", "fetched"},
             runs' = [runs EXCEPT ![i] = run], run.url = runs[i].url, run.force = runs[i].force,
             run.status \notin {"absent", "duplicate"},
             task' = [task EXCEPT ![i] = Idle], UNCHANGED submit
      PROVE  OnceInv'
  <2>1. runs[i].status = "running"
    BY <1>5 DEF OnceInv, LedgerInv
  <2>2. \A j \in Runs : task'[j] = task[j] \/ task'[j] = Idle
    BY <1>5, <1>b
  <2> QED
    BY <1>a, <1>5, <2>1, <2>2, WorkKeepsOnce
<1>6. ASSUME NEW i \in Runs, RefuseFetch(i) \/ FailTask(i)
      PROVE  OnceInv'
  <2> DEFINE run == MarkedFailed(runs[i])
  <2>1. run.url = runs[i].url /\ run.force = runs[i].force /\ run.status \notin {"absent", "duplicate"}
    BY <1>b DEF MarkedFailed, RunRows
  <2>2. run \in RunRows
    BY <1>b, EndedRow DEF Outcomes
  <2> QED
    BY <1>5, <1>6, <2>1, <2>2 DEF RefuseFetch, FailTask
<1>7. ASSUME NEW i \in Runs, NEW f \in FetchFailures(Fetcher), CommitFetchFailed(i, f)
      PROVE  OnceInv'
  <2> DEFINE new == FailedTo(runs[i], f)
  <2>1. /\ new \in RunRows /\ new.url = runs[i].url /\ new.force = runs[i].force
        /\ new.status \notin {"absent", "duplicate"}
    BY <1>b, <1>7, FailedRow DEF FailedTo, FailedStatus, RunRows
  <2>2. /\ task[i].pc = "fetched" /\ runs' = [runs EXCEPT ![i] = new]
        /\ task' = [task EXCEPT ![i] = Idle] /\ UNCHANGED submit
    BY <1>7 DEF CommitFetchFailed
  <2> QED
    BY <1>5, <2>1, <2>2
<1>8. ASSUME NEW run \in RunRows, NEW outcome \in Outcomes
      PROVE  LET new == Extracted(run, outcome)
             IN  new.url = run.url /\ new.force = run.force /\ new.status \in {"succeeded", "partial"}
  BY <1>8 DEF Extracted, Outcomes, RunRows
<1>9. ASSUME NEW i \in Runs, NEW outcome \in Outcomes, CommitImport(i, outcome)
      PROVE  OnceInv'
  <2> DEFINE new == Extracted(runs[i], outcome)
  <2>1. /\ new \in RunRows /\ new.url = runs[i].url /\ new.force = runs[i].force
        /\ new.status \notin {"absent", "duplicate"}
    BY <1>8, <1>9, <1>b, EndedRow
  <2>2. /\ task[i].pc = "fetched" /\ runs' = [runs EXCEPT ![i] = new]
        /\ task' = [task EXCEPT ![i] = Idle] /\ UNCHANGED submit
    BY <1>9 DEF CommitImport
  <2> QED
    BY <1>5, <2>1, <2>2
<1>10. ASSUME NEW r \in Requests, Submission(r)
       PROVE  OnceInv'
  <2>1. ASSUME NEW i \in Runs, BeginSubmit(r, i)
        PROVE  OnceInv'
    <3>1. /\ runs[i].status = "waiting_user" /\ submit' = [submit EXCEPT ![r] = i]
          /\ UNCHANGED <<runs, task>>
      BY <2>1 DEF BeginSubmit
    <3>2. \A q \in Requests : submit'[q] # NoRun => runs[submit'[q]].status # "duplicate"
      BY <1>b, <3>1 DEF OnceInv
    <3> QED
      BY <1>a, <3>1, <3>2, QuietKeepsOnce
  <2>2. ASSUME NEW outcome \in Outcomes, EndSubmit(r, outcome)
        PROVE  OnceInv'
    <3> DEFINE i   == submit[r]
               run == Extracted(VisiblePageSaved(runs[i]), outcome)
    <3>1. i \in Runs /\ runs[i].status \notin {"absent", "duplicate"}
      BY <1>b, <2>2 DEF EndSubmit, LedgerInv, OnceInv
    <3>2. runs[i] \in RunRows /\ VisiblePageSaved(runs[i]) \in RunRows
      BY <1>b, <2>2, <3>1, EndedRow
    <3>3. VisiblePageSaved(runs[i]).url = runs[i].url /\ VisiblePageSaved(runs[i]).force = runs[i].force
      BY <3>2 DEF VisiblePageSaved, RunRows
    <3>4. run.url = runs[i].url /\ run.force = runs[i].force /\ run.status \notin {"absent", "duplicate"}
      BY <1>8, <2>2, <3>2, <3>3
    <3>5. /\ runs' = [runs EXCEPT ![i] = run] /\ UNCHANGED task
          /\ \A q \in Requests : submit'[q] \in {submit[q], NoRun}
      BY <1>b, <2>2 DEF EndSubmit
    <3> HIDE DEF i, run
    <3> QED
      BY <1>a, <3>1, <3>4, <3>5, WorkKeepsOnce
  <2>3. CASE AbortSubmit(r)
    BY <2>3, <1>a, <1>b, QuietKeepsOnce DEF AbortSubmit, OnceInv
  <2> QED
    BY <1>10, <2>1, <2>2, <2>3 DEF Submission
<1> QED
  <2>1. ASSUME NEW i \in Runs, Work(i)
        PROVE  OnceInv'
    BY <2>1, <1>3, <1>4, <1>6, <1>7, <1>9 DEF Work
  <2> QED
    BY <2>1, <1>1, <1>2, <1>10 DEF Next

\* While transactions do not overlap, a URL that has a run is not imported again
\* unless the caller forces it, for any number of runs, URLs and submissions.
THEOREM OnceTheorem ==
    ASSUME ~Concurrent
    PROVE  Spec => []UrlImportedOnce
<1>1. OnceInv /\ [Next]_vars => OnceInv'
  BY OnceStep
<1> QED
  BY <1>1, OnceInit, OnceImplies, PTL DEF Spec
=============================================================================
