------------------------- MODULE OuterSessionProofs -------------------------
(***************************************************************************)
(* That the session row, the task rows and the stages of a task tell the   *)
(* same story, for every number of requests, tasks, turns and resumes.     *)
(*                                                                         *)
(* Two arguments about the rows.  When the step of a resume does not fit   *)
(* the database's column (MySQL) the rows agree on every settled turn,     *)
(* however requests overlap.  When requests come one at a time and turns   *)
(* are numbered onward, they agree in every state, whatever the width of   *)
(* an id.  The stages follow their task: what a succeeded task has done by *)
(* the form of the steps alone, what a waiting one asks by the second      *)
(* argument.                                                               *)
(***************************************************************************)
EXTENDS MCOuterSession, StagePlan, TLAPS

Present(t) == tasks[t].status # "absent"

OuterStates == [task : Tasks \cup {NoTask}, status : {"none", "running", "waiting_user", "finished"},
                runs : Nat, queue : Nat]
TaskRows == [status : {"absent", "running", "waiting_user", "succeeded", "planning"},
             step : {"none", "turn", "final", "resume"} \X Nat, done : BOOLEAN]
StepRows == [id : {"turn", "final", "resume"} \X Nat, seq : Nat,
             status : {"pending", "running", "waiting_user", "succeeded"}, retry : Nat, width : Nat]
Flights == [pc : {"idle", "running", "streaming"},
            kind : {"none", "stream", "sync", "approval", "recovery"},
            mine : OuterStates, turn : Nat, known : BOOLEAN, done : BOOLEAN,
            target : Tasks \cup {NoTask}, resume : Nat, card : Nat \X Nat]

TypeOK == /\ outer \in OuterStates
          /\ tasks \in [Tasks -> TaskRows]
          /\ steps \in [Tasks -> SUBSET StepRows]
          /\ newest \in Tasks \cup {NoTask}
          /\ cards \subseteq Nat \X Nat
          /\ req \in [Requests -> Flights]

\* Who refers to a task refers to one that has a row; only a new turn's is still to come.
Referenced ==
    /\ outer.status = "none" => outer = NoOuter
    /\ outer.status # "none" => outer.task \in Tasks /\ Present(outer.task)
    /\ newest # NoTask => Present(newest)
    /\ cards # {} => outer.status # "none"
    /\ \A t \in Tasks : steps[t] = {} <=> ~Present(t)
    /\ \A r \in Requests : req[r].pc # "idle" =>
          /\ req[r].kind # "none" /\ req[r].mine.task \in Tasks
          /\ req[r].kind = "approval" => Present(req[r].mine.task)
          /\ req[r].kind # "approval" => req[r].mine.status = "running"
          /\ req[r].pc = "streaming" => req[r].kind = "stream"

\* The steps of at most n turns: a turn's step, at most one resume behind it, its final step.
Below(S, n) ==
    \A s \in S :
       /\ s.id[1] = "turn" => s.id[2] <= n /\ s.seq = 1000 * s.id[2]
       /\ s.id[1] = "final" => s.id[2] <= n /\ s.seq = 1000 * s.id[2] + 900
                               /\ s.status \in {"waiting_user", "succeeded"}
       /\ s.id[1] = "resume" => s.seq = s.id[2] /\ s.seq <= 1000 * n + 1 /\ s.status # "running"
Numbered(S, n) == Below(S, n) /\ HasStep(S, TurnId(n))

IsTop(s, S) == s \in S /\ \A u \in S : u.seq <= s.seq

\* What the latest step of a task may be while its row has this status.
TopFits(status, s) ==
    /\ status = "running" => s.status \in {"running", "pending"}
    /\ status = "planning" => s.status = "pending"
    /\ status = "waiting_user" => s.status \in {"waiting_user", "succeeded"}
Fits(t) == TopFits(tasks[t].status, LatestStep(steps[t]))

\* Every task with a row has a latest step, and a recovery the step it resumes.
Latest == \A t \in Tasks : Present(t) => \E s \in steps[t] : IsTop(s, steps[t])
Sources ==
    \A r \in Requests : req[r].pc # "idle" /\ req[r].kind = "recovery" =>
       /\ req[r].target \in Tasks /\ Present(req[r].target)
       /\ \E s \in steps[req[r].target] :
             s.seq < req[r].resume /\ \A u \in steps[req[r].target] : u.seq < req[r].resume => u.seq <= s.seq

Typed == TypeOK /\ Referenced

InFlight(r) ==
    LET q == req[r]
        t == q.mine.task
    IN  /\ q.done = tasks[t].done
        /\ q.kind \in {"stream", "sync"} => tasks[t].status # "succeeded"
        /\ q.pc = "streaming" => Numbered(steps[t], q.turn)
        /\ q.kind = "recovery" =>
              /\ q.target \in Tasks /\ tasks[q.target].status # "succeeded"
              /\ \E n \in Nat : Numbered(steps[q.target], n) /\ q.resume = 1000 * n + 1

AllNumbered == \A t \in Tasks : Present(t) => \E n \in Nat : Numbered(steps[t], n)
AllInFlight == \A r \in Requests : req[r].pc # "idle" => InFlight(r)
BothFit == /\ newest # NoTask => Fits(newest)
           /\ outer.status # "none" => Fits(outer.task)

SerialInv == Typed /\ AllNumbered /\ AllInFlight /\ BothFit /\ RowsAgree

\* What a follow-up is about to write back is the state of a task that has a row ...
Drafts == /\ draft \in [Requests -> OuterStates]
          /\ \A r \in Requests : draft[r] # NoOuter =>
                draft[r].status # "none" /\ draft[r].task \in Tasks /\ Present(draft[r].task)

\* ... and, as long as no turn has come between, tells what that row tells.
AgreedDrafts == \A r \in Requests : draft[r] # NoOuter =>
                   /\ draft[r].status = OuterStatusOf(tasks[draft[r].task].status)
                   /\ Fits(draft[r].task)
SettledDrafts == \A r \in Requests : draft[r].status \in {"waiting_user", "finished"} =>
                    draft[r].status = OuterStatusOf(tasks[draft[r].task].status)

SerialWhole == SerialInv /\ Drafts /\ AgreedDrafts

\* With MySQL's column: no step is left by a resume, and no request is a recovery.
Narrow == \A t \in Tasks : \A s \in steps[t] : s.width >= 54 /\ s.status # "pending"
NoRecovery == \A r \in Requests : req[r].kind # "recovery"
NarrowInv == Typed /\ Latest /\ Narrow /\ NoRecovery /\ SettledMatchesTask
NarrowWhole == NarrowInv /\ Drafts /\ SettledDrafts

----------------------------------------------------------------------------
(* Lemmas on the steps of a task.                                          *)

StepIds == {"turn", "final", "resume"} \X Nat
StepStates == {"pending", "running", "waiting_user", "succeeded"}

\* The operators on steps stay within the type of a step row.
LEMMA StepTyped ==
    ASSUME NEW id \in StepIds, NEW seq \in Nat, NEW status \in StepStates, NEW retry \in Nat, NEW width \in Nat
    PROVE  /\ Step(id, seq, status, retry, width) \in StepRows
           /\ Step(id, seq, status, retry, width).id = id
           /\ Step(id, seq, status, retry, width).seq = seq
           /\ Step(id, seq, status, retry, width).status = status
           /\ Step(id, seq, status, retry, width).retry = retry
           /\ Step(id, seq, status, retry, width).width = width
BY DEF Step, StepRows, StepIds, StepStates

LEMMA IdParts ==
    ASSUME NEW n \in Nat
    PROVE  /\ TurnId(n) \in StepIds /\ FinalId(n) \in StepIds /\ ResumeId(n) \in StepIds
           /\ TurnId(n)[1] = "turn" /\ TurnId(n)[2] = n
           /\ FinalId(n)[1] = "final" /\ FinalId(n)[2] = n
           /\ ResumeId(n)[1] = "resume" /\ ResumeId(n)[2] = n
           /\ \A id \in StepIds : /\ id[1] = "turn" /\ id[2] = n => id = TurnId(n)
                                  /\ id[1] = "final" /\ id[2] = n => id = FinalId(n)
                                  /\ id[1] = "resume" /\ id[2] = n => id = ResumeId(n)
                                  /\ id[1] \in {"turn", "final", "resume"} /\ id[2] \in Nat
BY DEF TurnId, FinalId, ResumeId, StepIds

\* A step whose status is set is the step it was in everything else.
LEMMA SetOne ==
    ASSUME NEW s \in StepRows, NEW status \in StepStates
    PROVE  /\ [s EXCEPT !.status = status] \in StepRows
           /\ [s EXCEPT !.status = status].id = s.id
           /\ [s EXCEPT !.status = status].seq = s.seq
           /\ [s EXCEPT !.status = status].status = status
           /\ [s EXCEPT !.status = status].width = s.width
BY DEF StepRows, StepStates

LEMMA SetStepElements ==
    ASSUME NEW S \in SUBSET StepRows, NEW id \in StepIds, NEW status \in StepStates
    PROVE  /\ SetStep(S, id, status) \in SUBSET StepRows
           /\ \A u \in SetStep(S, id, status) :
                 \/ u \in S /\ u.id # id
                 \/ u.id = id /\ u.status = status /\ \E s \in S : s.id = id /\ s.seq = u.seq /\ s.width = u.width
           /\ \A s \in S : \E u \in SetStep(S, id, status) : u.id = s.id /\ u.seq = s.seq
<1> DEFINE Set(s) == IF s.id = id THEN [s EXCEPT !.status = status] ELSE s
<1>1. SetStep(S, id, status) = {Set(s) : s \in S}
  BY DEF SetStep
<1>2. ASSUME NEW s \in S
      PROVE  /\ Set(s) \in StepRows /\ Set(s).id = s.id /\ Set(s).seq = s.seq /\ Set(s).width = s.width
             /\ s.id = id => Set(s).status = status
             /\ s.id # id => Set(s) = s
  BY <1>2, SetOne
<1> HIDE DEF Set
<1> QED
  BY <1>1, <1>2

\* What StartedSteps leaves in a task: the turn's step, running, and the other steps as they were.
LEMMA StartedElements ==
    ASSUME NEW S \in SUBSET StepRows, NEW n \in Nat
    PROVE  /\ StartedSteps(S, n) \in SUBSET StepRows
           /\ \A u \in StartedSteps(S, n) :
                 \/ u \in S /\ u.id # TurnId(n)
                 \/ /\ u.id = TurnId(n) /\ u.status = "running"
                    /\ \/ u.seq = 1000 * n /\ u.width = 54
                       \/ \E s \in S : s.id = u.id /\ s.seq = u.seq /\ s.width = u.width
           /\ HasStep(StartedSteps(S, n), TurnId(n))
           /\ \A s \in S : \E u \in StartedSteps(S, n) : u.id = s.id /\ u.seq = s.seq
<1> DEFINE new == Step(TurnId(n), 1000 * n, "pending", 0, 54)
           E == EnsureStep(S, TurnId(n), 1000 * n, 54)
<1>1. new \in StepRows /\ new.id = TurnId(n) /\ new.seq = 1000 * n /\ new.width = 54
  <2>1. 1000 * n \in Nat /\ 0 \in Nat /\ 54 \in Nat /\ TurnId(n) \in StepIds /\ "pending" \in StepStates
    BY IdParts DEF StepStates
  <2> QED
    BY <2>1, StepTyped
<1>2. E = S \/ E = S \cup {new}
  BY DEF EnsureStep
<1>3. HasStep(E, TurnId(n))
  <2>1. CASE HasStep(S, TurnId(n))
    BY <2>1 DEF EnsureStep
  <2>2. CASE ~HasStep(S, TurnId(n))
    <3>1. E = S \cup {new}
      BY <2>2 DEF EnsureStep
    <3> HIDE DEF new, E
    <3> QED
      BY <3>1, <1>1 DEF HasStep
  <2> QED
    BY <2>1, <2>2
<1> HIDE DEF new, E
<1>4. E \in SUBSET StepRows
  BY <1>1, <1>2
<1>5. TurnId(n) \in StepIds /\ "running" \in StepStates
  BY IdParts DEF StepStates
<1>6. StartedSteps(S, n) = SetStep(E, TurnId(n), "running")
  BY DEF StartedSteps, E
<1> DEFINE T == SetStep(E, TurnId(n), "running")
<1>7. /\ T \in SUBSET StepRows
      /\ \A u \in T : \/ u \in E /\ u.id # TurnId(n)
                      \/ u.id = TurnId(n) /\ u.status = "running"
                         /\ \E s \in E : s.id = TurnId(n) /\ s.seq = u.seq /\ s.width = u.width
      /\ \A s \in E : \E u \in T : u.id = s.id /\ u.seq = s.seq
  BY <1>4, <1>5, SetStepElements
<1> HIDE DEF T
<1>8. StartedSteps(S, n) = T
  BY <1>6 DEF T
<1>9. HasStep(T, TurnId(n))
  BY <1>3, <1>7 DEF HasStep
<1> QED
  BY <1>1, <1>2, <1>7, <1>8, <1>9

\* ... and CompletedSteps: the turn's step with the result, and a final step.
LEMMA CompletedElements ==
    ASSUME NEW S \in SUBSET StepRows, NEW n \in Nat, NEW result \in Results
    PROVE  /\ CompletedSteps(S, n, result) \in SUBSET StepRows
           /\ \A u \in CompletedSteps(S, n, result) :
                 \/ u \in S /\ u.id # TurnId(n)
                 \/ /\ u.id = TurnId(n) /\ u.status = StepStatus(result)
                    /\ \/ u.seq = 1000 * n /\ u.width = 54
                       \/ \E s \in S : s.id = u.id /\ s.seq = u.seq /\ s.width = u.width
                 \/ /\ u.id = FinalId(n) /\ u.seq = 1000 * n + 900 /\ u.status = StepStatus(result)
                    /\ u.width = 60
           /\ HasStep(CompletedSteps(S, n, result), TurnId(n))
           /\ HasStep(CompletedSteps(S, n, result), FinalId(n))
           /\ \A s \in S : \E u \in CompletedSteps(S, n, result) : u.id = s.id /\ u.seq = s.seq
<1> DEFINE st == StepStatus(result)
           B == StartedSteps(S, n)
           T == SetStep(B, TurnId(n), st)
           new == Step(FinalId(n), 1000 * n + 900, st, 0, 60)
           C == CompletedSteps(S, n, result)
<1>1. st \in StepStates
  BY DEF StepStatus, StepStates
<1>2. /\ B \in SUBSET StepRows
      /\ \A u \in B : \/ u \in S /\ u.id # TurnId(n)
                      \/ /\ u.id = TurnId(n)
                         /\ \/ u.seq = 1000 * n /\ u.width = 54
                            \/ \E s \in S : s.id = u.id /\ s.seq = u.seq /\ s.width = u.width
      /\ HasStep(B, TurnId(n))
      /\ \A s \in S : \E u \in B : u.id = s.id /\ u.seq = s.seq
  BY StartedElements
<1>3. C = (IF HasStep(T, FinalId(n)) THEN T ELSE T \cup {new})
  BY DEF CompletedSteps
<1>4. new \in StepRows /\ new.id = FinalId(n) /\ new.seq = 1000 * n + 900 /\ new.width = 60 /\ new.status = st
  <2>1. 1000 * n + 900 \in Nat /\ 0 \in Nat /\ 60 \in Nat /\ FinalId(n) \in StepIds
    BY IdParts
  <2> HIDE DEF st
  <2> QED
    BY <1>1, <2>1, StepTyped
<1> HIDE DEF st, B
<1>5. /\ T \in SUBSET StepRows
      /\ \A u \in T : \/ u \in B /\ u.id # TurnId(n)
                      \/ u.id = TurnId(n) /\ u.status = st
                         /\ \E s \in B : s.id = TurnId(n) /\ s.seq = u.seq /\ s.width = u.width
      /\ \A s \in B : \E u \in T : u.id = s.id /\ u.seq = s.seq
  BY <1>1, <1>2, IdParts, SetStepElements
<1> HIDE DEF T, new, C
<1>6. \A u \in T : \/ u \in S /\ u.id # TurnId(n)
                   \/ /\ u.id = TurnId(n) /\ u.status = st
                      /\ \/ u.seq = 1000 * n /\ u.width = 54
                         \/ \E s \in S : s.id = u.id /\ s.seq = u.seq /\ s.width = u.width
  BY <1>2, <1>5
<1>7. HasStep(T, TurnId(n)) /\ \A s \in S : \E u \in T : u.id = s.id /\ u.seq = s.seq
  BY <1>2, <1>5 DEF HasStep
<1>8. C = T \/ C = T \cup {new}
  BY <1>3
<1>9. HasStep(C, FinalId(n))
  BY <1>3, <1>4 DEF HasStep
<1>10. HasStep(C, TurnId(n)) /\ \A s \in S : \E u \in C : u.id = s.id /\ u.seq = s.seq
  BY <1>7, <1>8 DEF HasStep
<1>11. C \in SUBSET StepRows
  BY <1>4, <1>5, <1>8
<1>12. \A u \in C : u \in T \/ u = new
  BY <1>8
<1> QED
  BY <1>4, <1>6, <1>9, <1>10, <1>11, <1>12 DEF C, st

----------------------------------------------------------------------------
(* The numbering of the steps.                                             *)

LEMMA BelowMore ==
    ASSUME NEW S \in SUBSET StepRows, NEW n \in Nat, NEW m \in Nat, n <= m, Below(S, n)
    PROVE  Below(S, m)
<1> SUFFICES ASSUME NEW s \in S
             PROVE  /\ s.id[1] = "turn" => s.id[2] <= m /\ s.seq = 1000 * s.id[2]
                    /\ s.id[1] = "final" => s.id[2] <= m /\ s.seq = 1000 * s.id[2] + 900
                                            /\ s.status \in {"waiting_user", "succeeded"}
                    /\ s.id[1] = "resume" => s.seq = s.id[2] /\ s.seq <= 1000 * m + 1 /\ s.status # "running"
  BY DEF Below
<1>1. s.id[2] \in Nat /\ s.seq \in Nat
  BY DEF StepRows
<1>2. /\ s.id[1] = "turn" => s.id[2] <= n /\ s.seq = 1000 * s.id[2]
      /\ s.id[1] = "final" => s.id[2] <= n /\ s.seq = 1000 * s.id[2] + 900
                              /\ s.status \in {"waiting_user", "succeeded"}
      /\ s.id[1] = "resume" => s.seq = s.id[2] /\ s.seq <= 1000 * n + 1 /\ s.status # "running"
  BY DEF Below
<1> QED
  BY <1>1, <1>2

LEMMA BelowStarted ==
    ASSUME NEW S \in SUBSET StepRows, NEW n \in Nat, Below(S, n)
    PROVE  Numbered(StartedSteps(S, n), n)
<1>1. /\ TurnId(n)[1] = "turn" /\ TurnId(n)[2] = n /\ 1000 * n \in Nat
      /\ \A s \in S : s.id = TurnId(n) => s.seq = 1000 * n
  BY IdParts DEF Below
<1>2. ASSUME NEW u \in StartedSteps(S, n)
      PROVE  (u \in S) \/ (u.id = TurnId(n) /\ u.seq = 1000 * n)
  BY <1>1, <1>2, StartedElements
<1>3. Below(StartedSteps(S, n), n)
  BY <1>1, <1>2 DEF Below
<1> QED
  BY <1>3, StartedElements DEF Numbered

LEMMA BelowCompleted ==
    ASSUME NEW S \in SUBSET StepRows, NEW n \in Nat, NEW result \in Results, Below(S, n)
    PROVE  Numbered(CompletedSteps(S, n, result), n) /\ HasStep(CompletedSteps(S, n, result), FinalId(n))
<1>1. /\ TurnId(n)[1] = "turn" /\ TurnId(n)[2] = n /\ FinalId(n)[1] = "final" /\ FinalId(n)[2] = n
      /\ StepStatus(result) \in {"waiting_user", "succeeded"}
      /\ \A s \in S : s.id = TurnId(n) => s.seq = 1000 * n
  BY IdParts DEF Below, StepStatus
<1>2. ASSUME NEW u \in CompletedSteps(S, n, result)
      PROVE  \/ u \in S
             \/ u.id = TurnId(n) /\ u.seq = 1000 * n
             \/ u.id = FinalId(n) /\ u.seq = 1000 * n + 900 /\ u.status = StepStatus(result)
  BY <1>1, <1>2, CompletedElements
<1>3. Below(CompletedSteps(S, n, result), n)
  BY <1>1, <1>2 DEF Below
<1> QED
  BY <1>3, CompletedElements DEF Numbered

\* Every step has one of three forms, with its number and its seq.
LEMMA StepCases ==
    ASSUME NEW S \in SUBSET StepRows, NEW n \in Nat, Below(S, n), NEW s \in S
    PROVE  /\ s.seq \in Nat /\ s.id[2] \in Nat
           /\ \/ s.id = TurnId(s.id[2]) /\ s.id[2] <= n /\ s.seq = 1000 * s.id[2]
              \/ /\ s.id = FinalId(s.id[2]) /\ s.id[2] <= n /\ s.seq = 1000 * s.id[2] + 900
                 /\ s.status \in {"waiting_user", "succeeded"}
              \/ s.id = ResumeId(s.id[2]) /\ s.seq = s.id[2] /\ s.seq <= 1000 * n + 1 /\ s.status # "running"
<1>1. s.id \in StepIds /\ s.seq \in Nat
  BY DEF StepRows, StepIds
<1>2. s.id[1] \in {"turn", "final", "resume"} /\ s.id[2] \in Nat
  BY <1>1, IdParts
<1>3. /\ s.id[1] = "turn" => s.id[2] <= n /\ s.seq = 1000 * s.id[2]
      /\ s.id[1] = "final" => s.id[2] <= n /\ s.seq = 1000 * s.id[2] + 900
                              /\ s.status \in {"waiting_user", "succeeded"}
      /\ s.id[1] = "resume" => s.seq = s.id[2] /\ s.seq <= 1000 * n + 1 /\ s.status # "running"
  BY DEF Below
<1> QED
  BY <1>1, <1>2, <1>3, IdParts

\* The latest step of a task whose last turn has its final step is that final step.
LEMMA ClosedTop ==
    ASSUME NEW S \in SUBSET StepRows, NEW n \in Nat, Below(S, n), HasStep(S, FinalId(n)),
           NEW s, IsTop(s, S)
    PROVE  s.status \in {"waiting_user", "succeeded"}
<1>1. PICK f \in S : f.id = FinalId(n)
  BY DEF HasStep
<1>2. f.seq = 1000 * n + 900
  BY <1>1, IdParts DEF Below
<1>3. s \in S /\ f.seq <= s.seq
  BY <1>1 DEF IsTop
<1>4. \/ s.id[2] \in Nat /\ s.id[2] <= n /\ s.seq = 1000 * s.id[2]
      \/ s.status \in {"waiting_user", "succeeded"}
      \/ s.seq \in Nat /\ s.seq <= 1000 * n + 1
  BY <1>3, StepCases
<1> QED
  BY <1>2, <1>3, <1>4

\* The step of a turn with a new number is the latest, and it is running.
LEMMA StartedTop ==
    ASSUME NEW S \in SUBSET StepRows, NEW n \in Nat, NEW m \in Nat, n < m, Below(S, n),
           NEW u, IsTop(u, StartedSteps(S, m))
    PROVE  u.status = "running"
<1>1. Below(S, m) /\ n + 1 <= m
  BY BelowMore
<1>2. PICK w \in StartedSteps(S, m) : w.id = TurnId(m)
  BY StartedElements DEF HasStep
<1>3. w.seq = 1000 * m
  BY <1>1, <1>2, BelowStarted, IdParts DEF Numbered, Below
<1>4. ASSUME NEW s \in S PROVE s.seq \in Nat /\ s.seq < 1000 * m
  <2>1. s.seq \in Nat /\ s.id[2] \in Nat
        /\ \/ s.id[2] <= n /\ s.seq = 1000 * s.id[2]
           \/ s.id[2] <= n /\ s.seq = 1000 * s.id[2] + 900
           \/ s.seq <= 1000 * n + 1
    BY StepCases
  <2> QED
    BY <2>1, <1>1
<1>5. u \in StartedSteps(S, m) /\ 1000 * m <= u.seq
  BY <1>2, <1>3 DEF IsTop
<1>6. ~(u \in S)
  BY <1>4, <1>5
<1> QED
  BY <1>5, <1>6, StartedElements

\* A task with a turn has a latest step: the final step of the last turn, a resume of it, or its turn step.
LEMMA LatestIsTop ==
    ASSUME NEW S, \E s \in S : IsTop(s, S)
    PROVE  IsTop(LatestStep(S), S)
BY DEF LatestStep, IsTop

LEMMA NumberedTop ==
    ASSUME NEW S \in SUBSET StepRows, NEW n \in Nat, Numbered(S, n)
    PROVE  \E s \in S : IsTop(s, S)
<1>1. Below(S, n) /\ HasStep(S, TurnId(n))
  BY DEF Numbered
<1>2. CASE HasStep(S, FinalId(n))
  <2>1. PICK f \in S : f.id = FinalId(n)
    BY <1>2 DEF HasStep
  <2>2. f.seq = 1000 * n + 900
    BY <1>1, <2>1, IdParts DEF Below
  <2>3. ASSUME NEW s \in S PROVE s.seq <= f.seq
    <3>1. s.seq \in Nat /\ s.id[2] \in Nat
          /\ \/ s.id[2] <= n /\ s.seq = 1000 * s.id[2]
             \/ s.id[2] <= n /\ s.seq = 1000 * s.id[2] + 900
             \/ s.seq <= 1000 * n + 1
      BY <1>1, StepCases
    <3> QED
      BY <3>1, <2>2
  <2> QED
    BY <2>1, <2>3 DEF IsTop
<1>3. CASE ~HasStep(S, FinalId(n))
  <2>1. ASSUME NEW s \in S PROVE s.seq \in Nat /\ s.seq <= 1000 * n + 1
    <3>1. s.seq \in Nat /\ s.id[2] \in Nat
          /\ \/ s.id[2] <= n /\ s.seq = 1000 * s.id[2]
             \/ s.id = FinalId(s.id[2]) /\ s.id[2] <= n /\ s.seq = 1000 * s.id[2] + 900
             \/ s.seq <= 1000 * n + 1
      BY <1>1, StepCases
    <3>2. s.id # FinalId(n)
      BY <1>3 DEF HasStep
    <3>3. s.id = FinalId(s.id[2]) => s.id[2] # n
      BY <3>2
    <3> QED
      BY <3>1, <3>3
  <2>2. CASE \E s \in S : s.seq = 1000 * n + 1
    BY <2>1, <2>2 DEF IsTop
  <2>3. CASE ~ \E s \in S : s.seq = 1000 * n + 1
    <3>1. PICK w \in S : w.id = TurnId(n)
      BY <1>1 DEF HasStep
    <3>2. w.seq = 1000 * n
      BY <1>1, <3>1, IdParts DEF Below
    <3>3. \A s \in S : s.seq <= w.seq
      BY <2>1, <2>3, <3>2
    <3> QED
      BY <3>1, <3>3 DEF IsTop
  <2> QED
    BY <2>2, <2>3
<1> QED
  BY <1>2, <1>3

\* A latest step that is running is the step of the last turn.
LEMMA RunningTop ==
    ASSUME NEW S \in SUBSET StepRows, NEW n \in Nat, Numbered(S, n),
           NEW s, IsTop(s, S), s.status = "running"
    PROVE  s.seq = 1000 * n
<1>1. Below(S, n) /\ s \in S
  BY DEF Numbered, IsTop
<1>2. PICK w \in S : w.id = TurnId(n)
  BY DEF Numbered, HasStep
<1>3. w.seq = 1000 * n /\ w.seq <= s.seq
  BY <1>1, <1>2, IdParts DEF Below, IsTop
<1>4. s.id[2] \in Nat /\ s.id[2] <= n /\ s.seq = 1000 * s.id[2]
  BY <1>1, StepCases
<1> QED
  BY <1>3, <1>4

\* A resume of the last turn keeps the numbering.
LEMMA ResumeNumbered ==
    ASSUME NEW S \in SUBSET StepRows, NEW n \in Nat, Numbered(S, n),
           NEW status \in StepStates \ {"running"}, NEW retry \in Nat, NEW width \in Nat
    PROVE  LET R == S \cup {Step(ResumeId(1000 * n + 1), 1000 * n + 1, status, retry, width)}
           IN  R \in SUBSET StepRows /\ Numbered(R, n)
<1> DEFINE new == Step(ResumeId(1000 * n + 1), 1000 * n + 1, status, retry, width)
<1>1. 1000 * n + 1 \in Nat
  OBVIOUS
<1>2. new \in StepRows /\ new.id = ResumeId(1000 * n + 1) /\ new.seq = 1000 * n + 1 /\ new.status = status
  <2> DEFINE seq == 1000 * n + 1
  <2>1. seq \in Nat /\ status \in StepStates
    BY <1>1
  <2> HIDE DEF seq
  <2>2. ResumeId(seq) \in StepIds
    BY <2>1, IdParts
  <2>3. LET w == Step(ResumeId(seq), seq, status, retry, width)
        IN  w \in StepRows /\ w.id = ResumeId(seq) /\ w.seq = seq /\ w.status = status
    BY <2>1, <2>2, StepTyped
  <2> QED
    BY <2>3 DEF seq
<1>3. new.id[1] = "resume" /\ new.id[2] = 1000 * n + 1
  BY <1>1, <1>2, IdParts
<1> HIDE DEF new
<1>4. Below(S \cup {new}, n)
  BY <1>2, <1>3 DEF Numbered, Below
<1>5. HasStep(S \cup {new}, TurnId(n))
  BY DEF Numbered, HasStep
<1> QED
  BY <1>2, <1>4, <1>5 DEF Numbered, new

----------------------------------------------------------------------------
(* Types and references, which both arguments rest on.                     *)

LEMMA TaskFacts == NoTask \notin Tasks /\ Tasks \subseteq Nat
BY BoundsAssumption DEF NoTask, Tasks

LEMMA BegunFacts ==
    ASSUME NEW o \in OuterStates, NEW t \in Tasks \cup {NoTask}, NEW new \in Tasks,
           o.status = "waiting_user" => o.task \in Tasks
    PROVE  LET b == Begun(StateForMessage(o, t, new))
           IN  /\ b \in OuterStates /\ b.status = "running" /\ b.task \in Tasks
               /\ b.task = (IF o.status = "waiting_user" THEN o.task ELSE IF t # NoTask THEN t ELSE new)
<1> DEFINE s == StateForMessage(o, t, new)
<1>1. s \in OuterStates /\ s.task \in Tasks
      /\ s.task = (IF o.status = "waiting_user" THEN o.task ELSE IF t # NoTask THEN t ELSE new)
  BY TaskFacts DEF StateForMessage, OuterStates
<1> HIDE DEF s
<1>2. /\ Begun(s) \in OuterStates /\ Begun(s).status = "running" /\ Begun(s).task = s.task
  <2> DEFINE runs == s.runs + 1
             queue == IF s.status = "waiting_user" THEN s.queue + 1 ELSE s.queue
  <2>1. runs \in Nat /\ queue \in Nat
    BY <1>1 DEF OuterStates
  <2>2. Begun(s) = [s EXCEPT !.status = "running", !.runs = runs, !.queue = queue]
    BY <1>1 DEF Begun, OuterStates
  <2> HIDE DEF runs, queue
  <2> QED
    BY <1>1, <2>1, <2>2 DEF OuterStates
<1> QED
  BY <1>1, <1>2 DEF s

\* A request that begins has the type of a request in flight.
LEMMA IdleTyped == Idle \in Flights
<1>1. NoOuter \in OuterStates
  BY DEF NoOuter, OuterStates
<1>2. <<0, 0>> \in Nat \X Nat
  OBVIOUS
<1> QED
  BY <1>1, <1>2 DEF Idle, Flights

LEMMA CompletedTyped ==
    ASSUME NEW t \in TaskRows, NEW n \in Nat, NEW seen \in BOOLEAN, NEW result \in Results
    PROVE  /\ CompletedTask(t, n, seen, result) \in TaskRows
           /\ CompletedTask(t, n, seen, result).status = StepStatus(result)
           /\ CompletedTask(t, n, seen, result).done = (result = "finished" \/ (t.done /\ ~seen))
           /\ StepStatus(result) \in {"waiting_user", "succeeded"}
           /\ OuterStatusOf(StepStatus(result)) = result
<1>1. t.done \in BOOLEAN
  BY DEF TaskRows
<1>2. FinalId(n) \in {"none", "turn", "final", "resume"} \X Nat
  BY DEF FinalId
<1>3. StepStatus(result) \in {"waiting_user", "succeeded"}
  BY DEF StepStatus
<1>4. (result = "finished" \/ (t.done /\ ~seen)) \in BOOLEAN
  BY <1>1
<1>5. OuterStatusOf(StepStatus(result)) = result
  BY DEF OuterStatusOf, StepStatus, Results
<1> DEFINE d == result = "finished" \/ (t.done /\ ~seen)
<1>6. d \in BOOLEAN
  BY <1>4
<1> HIDE DEF d
<1>7. CompletedTask(t, n, seen, result) = [status |-> StepStatus(result), step |-> FinalId(n), done |-> d]
  BY DEF CompletedTask, d
<1> QED
  BY <1>2, <1>3, <1>5, <1>6, <1>7 DEF TaskRows, d

LEMMA RowParts ==
    ASSUME NEW row \in TaskRows, NEW status, NEW step
    PROVE  [[row EXCEPT !.status = status] EXCEPT !.step = step]
           = [status |-> status, step |-> step, done |-> row.done]
<1> DEFINE new == [[row EXCEPT !.status = status] EXCEPT !.step = step]
<1>1. /\ new = [f \in DOMAIN row |-> new[f]] /\ DOMAIN row = {"status", "step", "done"}
      /\ new.status = status /\ new.step = step /\ new.done = row.done
  BY DEF TaskRows
<1> HIDE DEF new
<1>2. new = [f \in {"status", "step", "done"} |-> new[f]]
  BY <1>1, Zenon
<1>3. new = [status |-> new.status, step |-> new.step, done |-> new.done]
  BY <1>2
<1> QED
  BY <1>1, <1>3 DEF new

LEMMA StartedTyped ==
    ASSUME NEW t \in TaskRows, NEW n \in Nat
    PROVE  /\ StartedTask(t, n) \in TaskRows
           /\ StartedTask(t, n).status = "running" /\ StartedTask(t, n).done = t.done
<1>1. TurnId(n) \in {"none", "turn", "final", "resume"} \X Nat
  BY DEF TurnId
<1> QED
  BY <1>1 DEF TaskRows, StartedTask

LEMMA ReissuedTyped ==
    ASSUME NEW n \in Nat
    PROVE  Reissued(n) \in TaskRows /\ Reissued(n).status = "running" /\ Reissued(n).done = FALSE
<1>1. ResumeId(n) \in {"none", "turn", "final", "resume"} \X Nat
  BY DEF ResumeId
<1> QED
  BY <1>1 DEF TaskRows, Reissued

LEMMA FinishedTyped ==
    ASSUME NEW o \in OuterStates, NEW result \in Results
    PROVE  /\ Finished(o, result) \in OuterStates /\ Finished(o, result).task = o.task
           /\ Finished(o, result).status = result
BY DEF Finished, OuterStates, Results

LEMMA InitTyped == Init => Typed
<1> SUFFICES ASSUME Init PROVE Typed
  OBVIOUS
<1>1. NoOuter \in OuterStates /\ NoOuter.status = "none"
  BY DEF NoOuter, OuterStates
<1>2. AbsentTask \in TaskRows /\ AbsentTask.status = "absent"
  <2>1. NoStep \in {"none", "turn", "final", "resume"} \X Nat
    BY DEF NoStep
  <2> QED
    BY <2>1 DEF AbsentTask, TaskRows
<1>3. TypeOK
  BY <1>1, <1>2, IdleTyped DEF Init, TypeOK
<1>4. Idle.pc = "idle"
  BY DEF Idle
<1>5. Referenced
  BY <1>1, <1>2, <1>4 DEF Init, Referenced, Present
<1> QED
  BY <1>3, <1>5 DEF Typed

----------------------------------------------------------------------------
(* What the actions do, in the terms of the proofs.                        *)

\* A request begins: its private copy q, and nothing else.
Begins(r, q) ==
    /\ req[r].pc = "idle" /\ q \in Flights /\ q.pc = "running" /\ q.kind # "none"
    /\ q.mine.task \in Tasks /\ q.done \in BOOLEAN
    /\ q.kind = "approval" => q.mine = outer /\ outer.status # "none"
    /\ q.kind # "approval" => q.mine.status = "running"
    /\ req' = [req EXCEPT ![r] = q]
    /\ UNCHANGED <<outer, tasks, steps, newest, cards>>

\* A turn's end is booked on its task.
Booked(r, t, n, result) ==
    /\ t = req[r].mine.task /\ n = req[r].turn
    /\ outer' \in OuterStates /\ outer'.task = t /\ outer'.status = result
    /\ tasks' = [tasks EXCEPT ![t] = CompletedTask(tasks[t], n, req[r].done, result)]
    /\ steps' = [steps EXCEPT ![t] = CompletedSteps(steps[t], n, result)]
    /\ newest' = t
    /\ cards' \subseteq Nat \X Nat
    /\ req' = [req EXCEPT ![r] = Idle]

LEMMA BeginTurnFacts ==
    ASSUME Typed, NEW r \in Requests, NEW kind \in {"stream", "sync"}, NEW new \in Tasks,
           BeginTurn(r, kind, new)
    PROVE  \E q \in Flights :
              /\ Begins(r, q) /\ q.kind = kind /\ q.done = tasks[q.mine.task].done
              /\ \/ outer.status = "waiting_user" /\ q.mine.task = outer.task
                 \/ ~Present(q.mine.task)
<1> USE DEF Typed
<1> DEFINE o == Begun(StateForMessage(outer, NoTask, new))
           q == [Idle EXCEPT !.pc = "running", !.kind = kind, !.mine = o, !.turn = o.runs,
                             !.known = HasStep(steps[o.task], TurnId(o.runs)), !.done = tasks[o.task].done]
<1>1. outer \in OuterStates /\ (outer.status = "waiting_user" => outer.task \in Tasks)
      /\ tasks \in [Tasks -> TaskRows] /\ NoTask \in Tasks \cup {NoTask}
  BY DEF TypeOK, Referenced
<1>2. /\ o \in OuterStates /\ o.status = "running" /\ o.task \in Tasks
      /\ o.task = (IF outer.status = "waiting_user" THEN outer.task ELSE new)
  BY <1>1, BegunFacts, Zenon
<1>3. /\ req[r].pc = "idle" /\ (NewTask(new) \/ o.task # new)
      /\ req' = [req EXCEPT ![r] = q]
      /\ UNCHANGED <<outer, tasks, steps, newest, cards>>
  BY Zenon DEF BeginTurn
<1> HIDE DEF o
<1>4. HasStep(steps[o.task], TurnId(o.runs)) \in BOOLEAN
  BY DEF HasStep
<1>5. o.runs \in Nat /\ tasks[o.task].done \in BOOLEAN /\ kind \in {"stream", "sync", "approval", "recovery"}
  BY <1>1, <1>2 DEF OuterStates, TaskRows
<1>6. /\ q \in Flights /\ q.pc = "running" /\ q.kind = kind /\ q.mine = o /\ q.done = tasks[o.task].done
  <2> DEFINE turn == o.runs
             known == HasStep(steps[o.task], TurnId(o.runs))
             done == tasks[o.task].done
  <2>1. turn \in Nat /\ known \in BOOLEAN /\ done \in BOOLEAN
    BY <1>4, <1>5
  <2>2. q = [Idle EXCEPT !.pc = "running", !.kind = kind, !.mine = o, !.turn = turn,
                         !.known = known, !.done = done]
    OBVIOUS
  <2>4. kind \in {"stream", "sync", "approval", "recovery"} /\ o \in OuterStates
    BY <1>2, <1>5
  <2> HIDE DEF turn, known, done, q
  <2>3. /\ q \in Flights /\ q.pc = "running" /\ q.kind = kind /\ q.mine = o /\ q.done = done
    BY <2>1, <2>2, <2>4, <<0, 0>> \in Nat \X Nat DEF Idle, Flights
  <2> QED
    BY <2>3 DEF done
<1> HIDE DEF q
<1>7. Begins(r, q)
  BY <1>2, <1>3, <1>5, <1>6 DEF Begins
<1>8. (outer.status = "waiting_user" /\ o.task = outer.task) \/ ~Present(o.task)
  BY <1>2, <1>3 DEF NewTask, Present
<1> QED
  BY <1>6, <1>7, <1>8

LEMMA BeginApprovalFacts ==
    ASSUME Typed, NEW r \in Requests, NEW c \in cards, BeginApproval(r, c)
    PROVE  \E q \in Flights : Begins(r, q) /\ q.kind = "approval" /\ q.done = tasks[q.mine.task].done
<1> USE DEF Typed
<1> DEFINE turn == IF outer.runs = 0 THEN 1 ELSE outer.runs
           known == HasStep(steps[outer.task], TurnId(turn))
           p == [Idle EXCEPT !.pc = "running", !.kind = "approval", !.mine = outer,
                             !.turn = turn, !.known = known, !.done = tasks[outer.task].done]
           q == [Idle EXCEPT !.pc = "running", !.kind = "approval", !.mine = outer, !.card = c,
                             !.turn = turn, !.known = known, !.done = tasks[outer.task].done]
<1>1. outer \in OuterStates /\ outer.status # "none" /\ outer.task \in Tasks /\ tasks \in [Tasks -> TaskRows]
      /\ c \in Nat \X Nat
  BY DEF TypeOK, Referenced
<1>2. turn \in Nat /\ tasks[outer.task].done \in BOOLEAN /\ known \in BOOLEAN
  BY <1>1 DEF OuterStates, TaskRows, HasStep
<1>3. /\ req[r].pc = "idle" /\ req' = [req EXCEPT ![r] = q]
      /\ UNCHANGED <<outer, tasks, steps, newest, cards>>
  BY Zenon DEF BeginApproval
<1> HIDE DEF turn, known
<1>4. /\ p \in Flights /\ p.pc = "running" /\ p.kind = "approval" /\ p.mine = outer
      /\ p.done = tasks[outer.task].done
  <2> DEFINE done == tasks[outer.task].done
  <2>1. p = [Idle EXCEPT !.pc = "running", !.kind = "approval", !.mine = outer, !.turn = turn,
                         !.known = known, !.done = done]
    OBVIOUS
  <2>2. done \in BOOLEAN
    BY <1>2
  <2>4. "approval" \in {"stream", "sync", "approval", "recovery"} /\ outer \in OuterStates
    BY <1>1
  <2> HIDE DEF done, p
  <2>3. /\ p \in Flights /\ p.pc = "running" /\ p.kind = "approval" /\ p.mine = outer /\ p.done = done
    BY <1>2, <2>1, <2>2, <2>4, <<0, 0>> \in Nat \X Nat DEF Idle, Flights
  <2> QED
    BY <2>3 DEF done
<1>5. q = [p EXCEPT !.card = c]
  BY DEF Idle
<1> HIDE DEF p
<1>6. /\ q \in Flights /\ q.pc = "running" /\ q.kind = "approval" /\ q.mine = outer
      /\ q.done = tasks[outer.task].done
  BY <1>1, <1>4, <1>5 DEF Flights
<1> HIDE DEF q
<1>7. Begins(r, q)
  BY <1>1, <1>2, <1>3, <1>6 DEF Begins
<1> QED
  BY <1>6, <1>7

LEMMA EndTurnFacts ==
    ASSUME Typed, NEW r \in Requests, NEW result \in Results, NEW asks \in BOOLEAN, EndTurn(r, result, asks)
    PROVE  /\ Booked(r, req[r].mine.task, req[r].turn, result)
           /\ req[r].kind \in {"stream", "sync"} /\ req[r].pc \in {"running", "streaming"}
<1> DEFINE t == req[r].mine.task
<1>1. /\ req[r] \in Flights /\ req[r].mine \in OuterStates /\ req[r].turn \in Nat /\ cards \subseteq Nat \X Nat
      /\ tasks \in [Tasks -> TaskRows] /\ steps \in [Tasks -> SUBSET StepRows]
  BY DEF Typed, TypeOK, Flights
<1>2. /\ req[r].kind \in {"stream", "sync"} /\ req[r].pc \in {"running", "streaming"}
      /\ outer' = Finished(req[r].mine, result)
      /\ tasks' = [tasks EXCEPT ![t] = CompletedTask(tasks[t], req[r].turn, req[r].done, result)]
      /\ steps' = [steps EXCEPT ![t] = CompletedSteps(steps[t], req[r].turn, result)]
      /\ newest' = t
      /\ cards' = IF asks THEN cards \cup {<<t, req[r].turn>>} ELSE cards
      /\ req' = [req EXCEPT ![r] = Idle]
  BY <1>1 DEF EndTurn
<1>3. t \in Tasks
  BY <1>2 DEF Typed, Referenced
<1>4. cards' \subseteq Nat \X Nat
  <2>1. t \in Nat
    BY <1>3, TaskFacts
  <2>2. <<t, req[r].turn>> \in Nat \X Nat
    BY <1>1, <2>1
  <2> QED
    BY <1>1, <1>2, <2>2
<1> QED
  BY <1>1, <1>2, <1>4, FinishedTyped DEF Booked

LEMMA EndApprovalFacts ==
    ASSUME Typed, NEW r \in Requests, NEW result \in Results, EndApproval(r, result)
    PROVE  /\ Booked(r, req[r].mine.task, req[r].turn, result)
           /\ req[r].kind = "approval" /\ req[r].pc = "running"
<1> DEFINE t == req[r].mine.task
           o == Finished(req[r].mine, result)
<1>1. /\ req[r] \in Flights /\ req[r].mine \in OuterStates /\ req[r].turn \in Nat /\ cards \subseteq Nat \X Nat
      /\ tasks \in [Tasks -> TaskRows] /\ steps \in [Tasks -> SUBSET StepRows]
  BY DEF Typed, TypeOK, Flights
<1>2. /\ req[r].kind = "approval" /\ req[r].pc = "running"
      /\ outer' = [o EXCEPT !.runs = req[r].turn]
      /\ tasks' = [tasks EXCEPT ![t] = CompletedTask(tasks[t], req[r].turn, req[r].done, result)]
      /\ steps' = [steps EXCEPT ![t] = CompletedSteps(steps[t], req[r].turn, result)]
      /\ newest' = t
      /\ cards' = cards \ {req[r].card}
      /\ req' = [req EXCEPT ![r] = Idle]
  BY <1>1 DEF EndApproval
<1>3. o \in OuterStates /\ o.task = t /\ o.status = result
  BY <1>1, FinishedTyped
<1> HIDE DEF o
<1>4. outer' \in OuterStates /\ outer'.task = t /\ outer'.status = result
  BY <1>1, <1>2, <1>3 DEF OuterStates
<1> QED
  BY <1>1, <1>2, <1>4 DEF Booked

\* What asking for a resume may do to task t, whose latest step is s.
Resumed(t, s) ==
    \/ /\ s.status = "running" /\ tasks[t].status # "succeeded" /\ s.width + 12 <= IdWidth
       /\ steps' = [steps EXCEPT ![t] = steps[t] \cup
                      {Step(ResumeId(s.seq + 1), s.seq + 1, "pending", s.retry + 1, s.width + 12)}]
       /\ tasks' = [tasks EXCEPT ![t] = Reissued(s.seq + 1)]
    \/ /\ s.status = "waiting_user" /\ tasks[t].status # "succeeded"
       /\ tasks' = [tasks EXCEPT ![t] = [status |-> "waiting_user", step |-> s.id, done |-> tasks[t].done]]
       /\ UNCHANGED steps
    \/ /\ s.status = "pending" /\ tasks[t].status # "succeeded"
       /\ tasks' = [tasks EXCEPT ![t] = [status |-> "planning", step |-> s.id, done |-> tasks[t].done]]
       /\ UNCHANGED steps
    \/ UNCHANGED <<tasks, steps>>

LEMMA ResumeActionCases ==
    ASSUME Typed, Latest, NEW t \in Tasks, Present(t)
    PROVE  LET s == LatestStep(steps[t])
           IN  /\ IsTop(s, steps[t]) /\ s \in StepRows
               /\ Executable(t) => s.status = "running" /\ tasks[t].status # "succeeded"
               /\ ResumeAction(t) = "wait_user_action" => s.status = "waiting_user" /\ tasks[t].status # "succeeded"
               /\ ResumeAction(t) = "replan_remaining_steps" =>
                     s.status = "pending" /\ tasks[t].status # "succeeded"
<1> DEFINE s == LatestStep(steps[t])
<1>1. IsTop(s, steps[t])
  BY LatestIsTop DEF Latest
<1>2. s \in StepRows /\ steps[t] # {}
  BY <1>1 DEF IsTop, Typed, TypeOK
<1>3. s.status \in {"pending", "running", "waiting_user", "succeeded"}
  BY <1>2 DEF StepRows
<1>4. /\ tasks[t].status = "succeeded" => ResumeAction(t) = "stop_and_report"
      /\ tasks[t].status # "succeeded" =>
           /\ s.status = "waiting_user" => ResumeAction(t) = "wait_user_action"
           /\ s.status = "running" => ResumeAction(t) = "reissue_executor_task"
           /\ s.status = "succeeded" => ResumeAction(t) = "continue_from_next_step"
           /\ s.status = "pending" => ResumeAction(t) = "replan_remaining_steps"
  BY <1>2 DEF ResumeAction
<1> HIDE DEF s
<1>5. Executable(t) => s.status = "running" /\ tasks[t].status # "succeeded"
  BY <1>3, <1>4 DEF Executable
<1>6. ResumeAction(t) = "wait_user_action" => s.status = "waiting_user" /\ tasks[t].status # "succeeded"
  BY <1>3, <1>4
<1>7. ResumeAction(t) = "replan_remaining_steps" => s.status = "pending" /\ tasks[t].status # "succeeded"
  BY <1>3, <1>4
<1> QED
  BY <1>1, <1>2, <1>5, <1>6, <1>7 DEF s

LEMMA ResumeTaskFacts ==
    ASSUME Typed, Latest, NEW t \in Tasks, ResumeTask(t)
    PROVE  /\ Present(t)
           /\ LatestStep(steps[t]) \in StepRows /\ IsTop(LatestStep(steps[t]), steps[t])
           /\ Resumed(t, LatestStep(steps[t]))
           /\ newest' = (IF tasks' = tasks THEN newest ELSE t)
           /\ UNCHANGED <<outer, cards, req>>
<1> DEFINE s == LatestStep(steps[t])
<1>1. /\ Present(t) /\ UNCHANGED <<outer, cards, req>> /\ newest' = (IF tasks' = tasks THEN newest ELSE t)
  BY DEF ResumeTask, Present
<1>2. /\ IsTop(s, steps[t]) /\ s \in StepRows
      /\ Executable(t) => s.status = "running" /\ tasks[t].status # "succeeded"
      /\ ResumeAction(t) = "wait_user_action" => s.status = "waiting_user" /\ tasks[t].status # "succeeded"
      /\ ResumeAction(t) = "replan_remaining_steps" => s.status = "pending" /\ tasks[t].status # "succeeded"
  BY <1>1, ResumeActionCases
<1>3. s.retry \in Nat /\ s.width \in Nat /\ s.seq \in Nat /\ s.id \in StepIds
  BY <1>2 DEF StepRows, StepIds
<1>4. CASE /\ Executable(t)
           /\ ResumeStep(t, "pending").width <= IdWidth
           /\ steps' = [steps EXCEPT ![t] = @ \cup {ResumeStep(t, "pending")}]
           /\ tasks' = [tasks EXCEPT ![t] = Reissued(NextSeq(t))]
  <2>2. ResumeStep(t, "pending") = Step(ResumeId(s.seq + 1), s.seq + 1, "pending", s.retry + 1, s.width + 12)
        /\ NextSeq(t) = s.seq + 1
    BY DEF ResumeStep, NextSeq
  <2>3. ResumeStep(t, "pending").width = s.width + 12
    BY <2>2 DEF Step
  <2> HIDE DEF s
  <2>4. Resumed(t, s)
    BY <1>2, <1>4, <2>2, <2>3 DEF Resumed
  <2> QED
    BY <1>1, <1>2, <2>4 DEF s
<1> DEFINE Row(status) == [status |-> status, step |-> s.id, done |-> tasks[t].done]
<1>5. ASSUME NEW status,
             tasks' = [tasks EXCEPT ![t].status = status, ![t].step = LatestStep(steps[t]).id]
      PROVE  tasks' = [tasks EXCEPT ![t] = Row(status)]
  <2> HIDE DEF s
  <2>1. tasks \in [Tasks -> TaskRows] /\ s = LatestStep(steps[t])
    BY DEF Typed, TypeOK, s
  <2>2. [[tasks[t] EXCEPT !.status = status] EXCEPT !.step = s.id] = Row(status)
    BY <2>1, RowParts
  <2>3. tasks' = [tasks EXCEPT ![t] = [[tasks[t] EXCEPT !.status = status] EXCEPT !.step = s.id]]
    BY <1>5, <2>1
  <2> QED
    BY <2>2, <2>3
<1>6. CASE /\ ResumeAction(t) = "wait_user_action" /\ UNCHANGED steps
           /\ tasks' = [tasks EXCEPT ![t].status = "waiting_user", ![t].step = LatestStep(steps[t]).id]
  <2>1. tasks' = [tasks EXCEPT ![t] = Row("waiting_user")]
    BY <1>5, <1>6
  <2> QED
    BY <1>1, <1>2, <1>6, <2>1 DEF Resumed
<1>7. CASE /\ ResumeAction(t) = "replan_remaining_steps" /\ UNCHANGED steps
           /\ tasks' = [tasks EXCEPT ![t].status = "planning", ![t].step = LatestStep(steps[t]).id]
  <2>1. tasks' = [tasks EXCEPT ![t] = Row("planning")]
    BY <1>5, <1>7
  <2> QED
    BY <1>1, <1>2, <1>7, <2>1 DEF Resumed
<1>8. CASE UNCHANGED <<tasks, steps>>
  BY <1>1, <1>2, <1>8 DEF Resumed
<1> QED
  BY <1>4, <1>6, <1>7, <1>8 DEF ResumeTask

\* The resume step of request q's target, and the steps of its own task.
RecoveredSteps(q, result, retry, width) ==
    LET resumed == [steps EXCEPT ![q.target] = steps[q.target] \cup
                      {Step(ResumeId(q.resume), q.resume, StepStatus(result), retry, width)}]
    IN  [resumed EXCEPT ![q.mine.task] = CompletedSteps(@, q.turn, result)]

LEMMA EndRecoveryFacts ==
    ASSUME Typed, Sources, NEW r \in Requests, NEW result \in Results, NEW asks \in BOOLEAN,
           EndRecovery(r, result, asks)
    PROVE  LET q == req[r]
               t == q.mine.task
           IN  /\ q.kind = "recovery" /\ q.pc = "running" /\ q.target \in Tasks /\ Present(q.target)
               /\ ~HasStep(steps[q.target], ResumeId(q.resume))
               /\ \E retry \in Nat, width \in Nat : steps' = RecoveredSteps(q, result, retry, width)
               /\ tasks' = [[tasks EXCEPT ![q.target] = Reissued(q.resume)]
                              EXCEPT ![t] = CompletedTask(@, q.turn, q.done, result)]
               /\ outer' \in OuterStates /\ outer'.task = t /\ outer'.status = result
               /\ newest' = t /\ cards' \subseteq Nat \X Nat
               /\ req' = [req EXCEPT ![r] = Idle]
<1> DEFINE q == req[r]
           t == q.mine.task
           Before(s) == s.seq < q.resume
                        /\ \A u \in steps[q.target] : u.seq < q.resume => u.seq <= s.seq
           source == CHOOSE s \in steps[q.target] : Before(s)
<1>1. /\ q \in Flights /\ q.mine \in OuterStates /\ q.turn \in Nat /\ cards \subseteq Nat \X Nat
      /\ tasks \in [Tasks -> TaskRows] /\ steps \in [Tasks -> SUBSET StepRows]
  BY DEF Typed, TypeOK, Flights
<1>2. q.kind = "recovery" /\ q.pc = "running"
  BY DEF EndRecovery
<1>3. q.target \in Tasks /\ Present(q.target) /\ \E s \in steps[q.target] : Before(s)
  BY <1>2 DEF Sources
<1>4. source \in steps[q.target]
  BY <1>3
<1>5. source \in StepRows
  BY <1>1, <1>3, <1>4
<1>6. source.retry + 1 \in Nat /\ source.width + 12 \in Nat
  BY <1>5 DEF StepRows
<1>7. /\ ~HasStep(steps[q.target], ResumeId(q.resume))
      /\ outer' = Finished(q.mine, result)
      /\ tasks' = [[tasks EXCEPT ![q.target] = Reissued(q.resume)]
                     EXCEPT ![t] = CompletedTask(@, q.turn, q.done, result)]
      /\ newest' = t
      /\ cards' = IF asks THEN cards \cup {<<t, q.turn>>} ELSE cards
      /\ req' = [req EXCEPT ![r] = Idle]
  BY DEF EndRecovery
<1>8. steps' = RecoveredSteps(q, result, source.retry + 1, source.width + 12)
  BY <1>1, <1>3 DEF EndRecovery, RecoveredSteps
<1>9. \E retry \in Nat, width \in Nat : steps' = RecoveredSteps(q, result, retry, width)
  <2> HIDE DEF source, q, t
  <2> QED
    BY <1>6, <1>8
<1>10. t \in Tasks
  BY <1>2 DEF Typed, Referenced
<1>11. cards' \subseteq Nat \X Nat
  <2>1. t \in Nat
    BY <1>10, TaskFacts
  <2>2. <<t, q.turn>> \in Nat \X Nat
    BY <1>1, <2>1
  <2> HIDE DEF q, t
  <2> QED
    BY <1>1, <1>7, <2>2
<1>12. outer' \in OuterStates /\ outer'.task = t /\ outer'.status = result
  BY <1>1, <1>7, FinishedTyped
<1> HIDE DEF source
<1> QED
  BY <1>2, <1>3, <1>7, <1>9, <1>11, <1>12

LEMMA BeginRecoveryFacts ==
    ASSUME Typed, Latest, NEW r \in Requests, BeginRecovery(r)
    PROVE  \E q \in Flights :
              /\ Begins(r, q) /\ q.kind = "recovery"
              /\ q.target = newest /\ newest \in Tasks /\ Present(newest)
              /\ IsTop(LatestStep(steps[newest]), steps[newest])
              /\ LatestStep(steps[newest]).status = "running" /\ tasks[newest].status # "succeeded"
              /\ q.resume = LatestStep(steps[newest]).seq + 1
              /\ q.done = (tasks[q.mine.task].done /\ q.mine.task # newest)
              /\ q.mine.task = (IF outer.status = "waiting_user" THEN outer.task ELSE newest)
              /\ LatestStep(steps[newest]).width + 12 <= IdWidth
<1> DEFINE prior == [outer EXCEPT !.queue = IF outer.task = newest THEN 0 ELSE @]
           mine == Begun(StateForMessage(prior, newest, newest))
           known == HasStep(steps[mine.task], TurnId(mine.runs))
           done == tasks[mine.task].done /\ mine.task # newest
           s == LatestStep(steps[newest])
           q == [Idle EXCEPT !.pc = "running", !.kind = "recovery", !.mine = mine, !.turn = mine.runs,
                             !.known = known, !.done = done, !.target = newest, !.resume = NextSeq(newest)]
<1>1. /\ req[r].pc = "idle" /\ newest # NoTask /\ Executable(newest)
      /\ ResumeStep(newest, "pending").width <= IdWidth
      /\ req' = [req EXCEPT ![r] = q]
      /\ UNCHANGED <<outer, tasks, steps, newest, cards>>
  BY Zenon DEF BeginRecovery
<1>2. newest \in Tasks /\ Present(newest) /\ outer \in OuterStates /\ tasks \in [Tasks -> TaskRows]
      /\ (outer.status = "waiting_user" => outer.task \in Tasks)
  BY <1>1 DEF Typed, TypeOK, Referenced
<1>3. /\ IsTop(s, steps[newest]) /\ s \in StepRows
      /\ s.status = "running" /\ tasks[newest].status # "succeeded"
  BY <1>1, <1>2, ResumeActionCases
<1>4. NextSeq(newest) = s.seq + 1 /\ NextSeq(newest) \in Nat
  BY <1>3 DEF NextSeq, StepRows
<1>5. s.width + 12 <= IdWidth
  BY <1>1 DEF ResumeStep, Step
<1>6. prior \in OuterStates /\ (prior.status = "waiting_user" => prior.task \in Tasks)
      /\ prior.status = outer.status /\ prior.task = outer.task
  BY <1>2 DEF OuterStates
<1>7. mine \in OuterStates /\ mine.status = "running" /\ mine.task \in Tasks
      /\ mine.task = (IF outer.status = "waiting_user" THEN outer.task ELSE newest)
  <2> HIDE DEF prior
  <2> QED
    BY <1>1, <1>2, <1>6, BegunFacts
<1>8. mine.runs \in Nat /\ known \in BOOLEAN /\ done \in BOOLEAN
  <2> HIDE DEF mine
  <2> QED
    BY <1>2, <1>7 DEF OuterStates, TaskRows, HasStep
<1>9. q \in Flights /\ q.pc = "running" /\ q.kind = "recovery" /\ q.mine = mine /\ q.done = done
      /\ q.target = newest /\ q.resume = s.seq + 1
  <2> DEFINE turn == mine.runs
             resume == NextSeq(newest)
             p == [Idle EXCEPT !.pc = "running", !.kind = "recovery", !.mine = mine, !.turn = turn,
                               !.known = known, !.done = done]
  <2>1. turn \in Nat /\ resume \in Nat /\ q = [[p EXCEPT !.target = newest] EXCEPT !.resume = resume]
    BY <1>4, <1>8
  <2>2. p \in Flights /\ p.pc = "running" /\ p.kind = "recovery" /\ p.mine = mine /\ p.done = done
    <3> HIDE DEF turn, mine, known, done
    <3> QED
      BY <1>7, <1>8, <2>1, <<0, 0>> \in Nat \X Nat DEF Idle, Flights
  <2> HIDE DEF p, q, turn, resume, mine, known, done
  <2>3. q \in Flights /\ q.pc = "running" /\ q.kind = "recovery" /\ q.mine = mine /\ q.done = done
        /\ q.target = newest /\ q.resume = resume
    BY <1>2, <2>1, <2>2 DEF Flights
  <2> QED
    BY <1>4, <2>3 DEF resume
<1> HIDE DEF q, mine, s, known
<1>10. Begins(r, q)
  BY <1>1, <1>7, <1>8, <1>9 DEF Begins
<1> QED
  BY <1>1, <1>2, <1>3, <1>5, <1>7, <1>9, <1>10 DEF s, mine

----------------------------------------------------------------------------
(* Every action keeps types and references.                                *)

LEMMA BeginsTyped ==
    ASSUME Typed, NEW r \in Requests, NEW q \in Flights, Begins(r, q)
    PROVE  Typed'
<1>1. TypeOK'
  BY DEF Typed, TypeOK, Begins
<1>2. ASSUME NEW p \in Requests PROVE req'[p] = IF p = r THEN q ELSE req[p]
  BY DEF Typed, TypeOK, Begins
<1>3. q.pc = "running" /\ q.kind # "none" /\ q.mine.task \in Tasks
      /\ (q.kind = "approval" => Present(q.mine.task)) /\ (q.kind # "approval" => q.mine.status = "running")
  BY DEF Begins, Typed, Referenced
<1>4. \A p \in Requests : req'[p].pc # "idle" =>
          /\ req'[p].kind # "none" /\ req'[p].mine.task \in Tasks
          /\ req'[p].kind = "approval" => Present(req'[p].mine.task)
          /\ req'[p].kind # "approval" => req'[p].mine.status = "running"
          /\ req'[p].pc = "streaming" => req'[p].kind = "stream"
  BY <1>2, <1>3 DEF Typed, Referenced
<1>5. UNCHANGED <<outer, tasks, steps, newest, cards>>
  BY DEF Begins
<1>6. Referenced'
  BY <1>4, <1>5 DEF Typed, Referenced, Present
<1> QED
  BY <1>1, <1>6 DEF Typed

\* A request that is over leaves the others' references alone when no row disappears.
LEMMA OthersKept ==
    ASSUME Typed, NEW r \in Requests, req' = [req EXCEPT ![r] = Idle],
           \A t \in Tasks : Present(t) => Present(t)'
    PROVE  /\ req' \in [Requests -> Flights]
           /\ \A p \in Requests : req'[p] = IF p = r THEN Idle ELSE req[p]
           /\ \A p \in Requests : req'[p].pc # "idle" =>
                 /\ req'[p].kind # "none" /\ req'[p].mine.task \in Tasks
                 /\ req'[p].kind = "approval" => tasks'[req'[p].mine.task].status # "absent"
                 /\ req'[p].kind # "approval" => req'[p].mine.status = "running"
                 /\ req'[p].pc = "streaming" => req'[p].kind = "stream"
<1>1. req' \in [Requests -> Flights] /\ \A p \in Requests : req'[p] = IF p = r THEN Idle ELSE req[p]
  BY IdleTyped DEF Typed, TypeOK
<1>2. Idle.pc = "idle"
  BY DEF Idle
<1>3. ASSUME NEW p \in Requests, req'[p].pc # "idle"
      PROVE  req'[p] = req[p] /\ req[p].pc # "idle"
  BY <1>1, <1>2, <1>3
<1>4. \A p \in Requests : req[p].pc # "idle" =>
          /\ req[p].kind # "none" /\ req[p].mine.task \in Tasks
          /\ req[p].kind = "approval" => Present(req[p].mine.task)
          /\ req[p].kind # "approval" => req[p].mine.status = "running"
          /\ req[p].pc = "streaming" => req[p].kind = "stream"
  BY DEF Typed, Referenced
<1>5. ASSUME NEW p \in Requests, req'[p].pc # "idle", req'[p].kind = "approval"
      PROVE  tasks'[req'[p].mine.task].status # "absent"
  <2>1. req'[p] = req[p] /\ req[p].pc # "idle"
    BY <1>3, <1>5
  <2>2. req[p].mine.task \in Tasks /\ Present(req[p].mine.task)
    BY <1>4, <1>5, <2>1
  <2>3. tasks'[req[p].mine.task].status # "absent"
    BY <2>2 DEF Present
  <2> QED
    BY <2>1, <2>3
<1> QED
  BY <1>1, <1>3, <1>4, <1>5

LEMMA BookedTyped ==
    ASSUME Typed, NEW r \in Requests, req[r].pc # "idle", NEW t \in Tasks, NEW n \in Nat,
           NEW result \in Results, Booked(r, t, n, result)
    PROVE  Typed'
<1>1. /\ tasks \in [Tasks -> TaskRows] /\ steps \in [Tasks -> SUBSET StepRows]
      /\ req[r].done \in BOOLEAN /\ newest \in Tasks \cup {NoTask}
  BY DEF Typed, TypeOK, Flights
<1> DEFINE row == CompletedTask(tasks[t], n, req[r].done, result)
           done == CompletedSteps(steps[t], n, result)
<1>2. row \in TaskRows /\ row.status \in {"waiting_user", "succeeded"}
  <2> DEFINE old == tasks[t]
             seen == req[r].done
  <2>1. old \in TaskRows /\ seen \in BOOLEAN
    BY <1>1
  <2> HIDE DEF old, seen
  <2>2. /\ CompletedTask(old, n, seen, result) \in TaskRows
        /\ CompletedTask(old, n, seen, result).status \in {"waiting_user", "succeeded"}
    BY <2>1, CompletedTyped
  <2> QED
    BY <2>2 DEF old, seen
<1>3. done \in SUBSET StepRows /\ done # {}
  BY <1>1, CompletedElements DEF HasStep
<1> HIDE DEF row, done
<1>4. /\ tasks' = [tasks EXCEPT ![t] = row] /\ steps' = [steps EXCEPT ![t] = done]
      /\ newest' = t /\ cards' \subseteq Nat \X Nat /\ req' = [req EXCEPT ![r] = Idle]
      /\ outer' \in OuterStates /\ outer'.task = t /\ outer'.status = result
  BY DEF Booked, row, done
<1>5. Present(t)' /\ \A u \in Tasks : Present(u) => Present(u)'
  BY <1>1, <1>2, <1>4 DEF Present
<1>6. TypeOK'
  BY <1>1, <1>2, <1>3, <1>4, <1>5, OthersKept DEF TypeOK
<1>7. \A u \in Tasks : (steps[u] = {} <=> ~Present(u))'
  BY <1>1, <1>2, <1>3, <1>4 DEF Typed, Referenced, Present
<1>8. result # "none"
  BY DEF Results
<1>9. \A p \in Requests : req'[p].pc # "idle" =>
          /\ req'[p].kind # "none" /\ req'[p].mine.task \in Tasks
          /\ req'[p].kind = "approval" => tasks'[req'[p].mine.task].status # "absent"
          /\ req'[p].kind # "approval" => req'[p].mine.status = "running"
          /\ req'[p].pc = "streaming" => req'[p].kind = "stream"
  BY <1>4, <1>5, OthersKept
<1>10. Referenced'
  BY <1>4, <1>5, <1>7, <1>8, <1>9 DEF Referenced, Present
<1> QED
  BY <1>6, <1>10 DEF Typed

LEMMA FailTyped ==
    ASSUME Typed, NEW r \in Requests, Fail(r)
    PROVE  Typed'
<1>1. req' = [req EXCEPT ![r] = Idle] /\ UNCHANGED <<outer, tasks, steps, newest, cards>>
  BY DEF Fail
<1>2. \A t \in Tasks : Present(t) => Present(t)'
  BY <1>1 DEF Present
<1>3. TypeOK'
  BY <1>1, <1>2, OthersKept DEF Typed, TypeOK
<1>4. \A p \in Requests : req'[p].pc # "idle" =>
          /\ req'[p].kind # "none" /\ req'[p].mine.task \in Tasks
          /\ req'[p].kind = "approval" => tasks'[req'[p].mine.task].status # "absent"
          /\ req'[p].kind # "approval" => req'[p].mine.status = "running"
          /\ req'[p].pc = "streaming" => req'[p].kind = "stream"
  BY <1>1, <1>2, OthersKept
<1>5. Referenced'
  BY <1>1, <1>4 DEF Typed, Referenced, Present
<1> QED
  BY <1>3, <1>5 DEF Typed

LEMMA CommitStartTyped ==
    ASSUME Typed, NEW r \in Requests, CommitStart(r)
    PROVE  /\ Typed'
           /\ req'[r] \in Flights /\ req'[r].pc = "streaming" /\ req'[r].kind = "stream"
           /\ req'[r].mine = req[r].mine /\ req'[r].turn = req[r].turn
           /\ req'[r].done = tasks[req[r].mine.task].done
           /\ \A p \in Requests : p # r => req'[p] = req[p]
<1> DEFINE t == req[r].mine.task
           n == req[r].turn
           row == StartedTask(tasks[t], n)
           S == StartedSteps(steps[t], n)
<1>1. /\ tasks \in [Tasks -> TaskRows] /\ steps \in [Tasks -> SUBSET StepRows]
      /\ req \in [Requests -> Flights] /\ req[r].mine \in OuterStates /\ n \in Nat /\ cards \subseteq Nat \X Nat
  BY DEF Typed, TypeOK, Flights
<1>2. req[r].pc = "running" /\ req[r].kind = "stream" /\ t \in Tasks /\ req[r].mine.status = "running"
  BY DEF CommitStart, Typed, Referenced
<1>3. /\ outer' = req[r].mine /\ newest' = t /\ cards' = cards
      /\ tasks' = [tasks EXCEPT ![t] = row] /\ steps' = [steps EXCEPT ![t] = S]
      /\ req' = [req EXCEPT ![r].pc = "streaming", ![r].known = TRUE, ![r].done = tasks[t].done]
  BY <1>1, <1>2 DEF CommitStart
<1>4. row \in TaskRows /\ row.status = "running"
  BY <1>1, <1>2, StartedTyped
<1>5. S \in SUBSET StepRows /\ S # {}
  BY <1>1, <1>2, StartedElements DEF HasStep
<1>6. tasks[t].done \in BOOLEAN
  BY <1>1, <1>2 DEF TaskRows
<1> HIDE DEF row, S
<1>7. /\ req' \in [Requests -> Flights]
      /\ req'[r].pc = "streaming" /\ req'[r].kind = "stream"
      /\ req'[r].mine = req[r].mine /\ req'[r].turn = req[r].turn /\ req'[r].done = tasks[t].done
      /\ \A p \in Requests : p # r => req'[p] = req[p]
  <2> DEFINE old == req[r]
             new == [[[old EXCEPT !.pc = "streaming"] EXCEPT !.known = TRUE] EXCEPT !.done = tasks[t].done]
  <2>1. old \in Flights
    BY <1>1
  <2> HIDE DEF old
  <2>2. new \in Flights /\ new.pc = "streaming" /\ new.kind = old.kind
        /\ new.mine = old.mine /\ new.turn = old.turn /\ new.done = tasks[t].done
    BY <1>6, <2>1 DEF Flights
  <2>3. req' = [req EXCEPT ![r] = new]
    BY <1>1, <1>3 DEF old
  <2> HIDE DEF new
  <2>4. req'[r] = new /\ req' \in [Requests -> Flights] /\ \A p \in Requests : p # r => req'[p] = req[p]
    BY <1>1, <2>2, <2>3
  <2> QED
    BY <1>2, <2>2, <2>4 DEF old
<1>8. tasks'[t].status # "absent" /\ \A u \in Tasks : Present(u) => Present(u)'
  BY <1>1, <1>2, <1>3, <1>4 DEF Present
<1>9. TypeOK'
  BY <1>1, <1>2, <1>3, <1>4, <1>5, <1>7 DEF TypeOK
<1>10. \A u \in Tasks : (steps[u] = {} <=> ~Present(u))'
  BY <1>1, <1>2, <1>3, <1>4, <1>5 DEF Typed, Referenced, Present
<1>11. \A p \in Requests : req'[p].pc # "idle" =>
          /\ req'[p].kind # "none" /\ req'[p].mine.task \in Tasks
          /\ req'[p].kind = "approval" => tasks'[req'[p].mine.task].status # "absent"
          /\ req'[p].kind # "approval" => req'[p].mine.status = "running"
          /\ req'[p].pc = "streaming" => req'[p].kind = "stream"
  <2> SUFFICES ASSUME NEW p \in Requests, req'[p].pc # "idle"
               PROVE  /\ req'[p].kind # "none" /\ req'[p].mine.task \in Tasks
                      /\ req'[p].kind = "approval" => tasks'[req'[p].mine.task].status # "absent"
                      /\ req'[p].kind # "approval" => req'[p].mine.status = "running"
                      /\ req'[p].pc = "streaming" => req'[p].kind = "stream"
    OBVIOUS
  <2>1. CASE p = r
    BY <1>2, <1>7, <2>1
  <2>2. CASE p # r
    <3>1. req'[p] = req[p]
      BY <1>7, <2>2
    <3>2. /\ req[p].kind # "none" /\ req[p].mine.task \in Tasks
          /\ req[p].kind = "approval" => Present(req[p].mine.task)
          /\ req[p].kind # "approval" => req[p].mine.status = "running"
          /\ req[p].pc = "streaming" => req[p].kind = "stream"
      BY <3>1 DEF Typed, Referenced
    <3>3. req[p].kind = "approval" => tasks'[req[p].mine.task].status # "absent"
      BY <1>8, <3>2 DEF Present
    <3> QED
      BY <3>1, <3>2, <3>3 DEF Present
  <2> QED
    BY <2>1, <2>2
<1>12. outer'.status = "running" /\ outer'.task = t /\ newest' = t /\ t \in Tasks
  BY <1>2, <1>3
<1> HIDE DEF t
<1>13. Referenced'
  BY <1>8, <1>10, <1>11, <1>12 DEF Referenced, Present
<1> QED
  BY <1>1, <1>7, <1>9, <1>13 DEF Typed, t

LEMMA ResumeTyped ==
    ASSUME Typed, Latest, NEW t \in Tasks, ResumeTask(t)
    PROVE  Typed'
<1> DEFINE s == LatestStep(steps[t])
           new == Step(ResumeId(s.seq + 1), s.seq + 1, "pending", s.retry + 1, s.width + 12)
<1>1. /\ Present(t) /\ s \in StepRows /\ s \in steps[t] /\ Resumed(t, s)
      /\ newest' = (IF tasks' = tasks THEN newest ELSE t) /\ UNCHANGED <<outer, cards, req>>
  BY ResumeTaskFacts DEF IsTop
<1>2. /\ tasks \in [Tasks -> TaskRows] /\ steps \in [Tasks -> SUBSET StepRows]
      /\ newest \in Tasks \cup {NoTask}
  BY DEF Typed, TypeOK
<1> HIDE DEF s
<1>3. s.seq + 1 \in Nat /\ s.retry + 1 \in Nat /\ s.width + 12 \in Nat /\ s.id \in StepIds
  BY <1>1 DEF StepRows, StepIds
<1>4. new \in StepRows
  BY <1>3, IdParts, StepTyped DEF StepStates
<1>5. Reissued(s.seq + 1) \in TaskRows /\ Reissued(s.seq + 1).status = "running"
  BY <1>3, ReissuedTyped
<1>6. ASSUME NEW status \in {"waiting_user", "planning"}
      PROVE  [status |-> status, step |-> s.id, done |-> tasks[t].done] \in TaskRows
  <2>1. s.id \in {"none", "turn", "final", "resume"} \X Nat /\ tasks[t].done \in BOOLEAN
    BY <1>2, <1>3 DEF StepIds, TaskRows
  <2> QED
    BY <2>1 DEF TaskRows
<1> DEFINE waiting == [status |-> "waiting_user", step |-> s.id, done |-> tasks[t].done]
           planning == [status |-> "planning", step |-> s.id, done |-> tasks[t].done]
           again == Reissued(s.seq + 1)
<1>7. /\ waiting \in TaskRows /\ planning \in TaskRows /\ again \in TaskRows
      /\ waiting.status # "absent" /\ planning.status # "absent" /\ again.status # "absent"
  BY <1>5, <1>6
<1> HIDE DEF new, waiting, planning, again
<1>8. \/ tasks' = [tasks EXCEPT ![t] = again] /\ steps' = [steps EXCEPT ![t] = steps[t] \cup {new}]
      \/ tasks' = [tasks EXCEPT ![t] = waiting] /\ steps' = steps
      \/ tasks' = [tasks EXCEPT ![t] = planning] /\ steps' = steps
      \/ tasks' = tasks /\ steps' = steps
  BY <1>1 DEF Resumed, new, waiting, planning, again
<1>9. /\ tasks' \in [Tasks -> TaskRows] /\ steps' \in [Tasks -> SUBSET StepRows]
      /\ \A u \in Tasks : Present(u) <=> tasks'[u].status # "absent"
      /\ \A u \in Tasks : steps[u] = {} <=> steps'[u] = {}
  BY <1>1, <1>2, <1>4, <1>7, <1>8 DEF Present
<1>10. newest' \in {newest, t}
  BY <1>1
<1>11. TypeOK'
  BY <1>1, <1>2, <1>9, <1>10 DEF Typed, TypeOK
<1>12. newest' # NoTask => tasks'[newest'].status # "absent"
  BY <1>1, <1>2, <1>9, <1>10 DEF Typed, Referenced
<1>13. \A p \in Requests : req'[p].pc # "idle" =>
          /\ req'[p].kind # "none" /\ req'[p].mine.task \in Tasks
          /\ req'[p].kind = "approval" => tasks'[req'[p].mine.task].status # "absent"
          /\ req'[p].kind # "approval" => req'[p].mine.status = "running"
          /\ req'[p].pc = "streaming" => req'[p].kind = "stream"
  <2>1. req' = req
    BY <1>1
  <2> QED
    BY <1>9, <2>1 DEF Typed, Referenced
<1>14. Referenced'
  BY <1>1, <1>9, <1>12, <1>13 DEF Typed, Referenced, Present
<1> QED
  BY <1>11, <1>14 DEF Typed

LEMMA EndRecoveryTyped ==
    ASSUME Typed, Sources, NEW r \in Requests, NEW result \in Results, NEW asks \in BOOLEAN,
           EndRecovery(r, result, asks)
    PROVE  Typed'
<1> DEFINE q == req[r]
           t == q.mine.task
           n == q.turn
           g == q.target
<1>1. /\ q \in Flights /\ tasks \in [Tasks -> TaskRows] /\ steps \in [Tasks -> SUBSET StepRows]
      /\ n \in Nat /\ q.resume \in Nat /\ q.done \in BOOLEAN
  BY DEF Typed, TypeOK, Flights
<1>2. /\ q.kind = "recovery" /\ q.pc = "running" /\ g \in Tasks /\ Present(g)
      /\ outer' \in OuterStates /\ outer'.task = t /\ outer'.status = result
      /\ newest' = t /\ cards' \subseteq Nat \X Nat /\ req' = [req EXCEPT ![r] = Idle]
      /\ tasks' = [[tasks EXCEPT ![g] = Reissued(q.resume)] EXCEPT ![t] = CompletedTask(@, n, q.done, result)]
  BY EndRecoveryFacts
<1>3. t \in Tasks
  BY <1>2 DEF Typed, Referenced
<1>4. PICK retry \in Nat, width \in Nat : steps' = RecoveredSteps(q, result, retry, width)
  BY EndRecoveryFacts
<1> DEFINE new == Step(ResumeId(q.resume), q.resume, StepStatus(result), retry, width)
           again == Reissued(q.resume)
           mid == [steps EXCEPT ![g] = steps[g] \cup {new}]
           tmid == [tasks EXCEPT ![g] = again]
           row == CompletedTask(tmid[t], n, q.done, result)
           done == CompletedSteps(mid[t], n, result)
<1>5. new \in StepRows
  BY <1>1, IdParts, StepTyped DEF StepStates, StepStatus
<1>6. again \in TaskRows /\ again.status # "absent"
  BY <1>1, ReissuedTyped
<1> HIDE DEF new, again
<1>7. mid \in [Tasks -> SUBSET StepRows] /\ tmid \in [Tasks -> TaskRows]
      /\ \A u \in Tasks : u # g => mid[u] = steps[u] /\ tmid[u] = tasks[u]
  BY <1>1, <1>2, <1>5, <1>6
<1>8. mid[g] # {} /\ tmid[g].status # "absent"
  BY <1>1, <1>2, <1>6
<1>9. steps' = [mid EXCEPT ![t] = done] /\ tasks' = [tmid EXCEPT ![t] = row]
  <2>1. /\ steps' = [mid EXCEPT ![t] = CompletedSteps(@, n, result)]
        /\ tasks' = [tmid EXCEPT ![t] = CompletedTask(@, n, q.done, result)]
    BY <1>2, <1>4 DEF new, again, RecoveredSteps
  <2> HIDE DEF mid, tmid, n
  <2> QED
    BY <1>3, <1>7, <2>1 DEF done, row
<1> HIDE DEF mid, tmid, n, q, g, t
<1>10. row \in TaskRows /\ row.status # "absent"
  <2> DEFINE old == tmid[t]
             seen == q.done
  <2>1. old \in TaskRows /\ seen \in BOOLEAN
    BY <1>1, <1>3, <1>7
  <2> HIDE DEF old, seen
  <2>2. /\ CompletedTask(old, n, seen, result) \in TaskRows
        /\ CompletedTask(old, n, seen, result).status \in {"waiting_user", "succeeded"}
    BY <1>1, <2>1, CompletedTyped
  <2> QED
    BY <2>2 DEF old, seen
<1>11. done \in SUBSET StepRows /\ done # {}
  BY <1>1, <1>3, <1>7, CompletedElements DEF HasStep
<1> HIDE DEF row, done
<1>12. /\ tasks' \in [Tasks -> TaskRows] /\ steps' \in [Tasks -> SUBSET StepRows]
       /\ tasks'[t].status # "absent"
       /\ \A u \in Tasks : Present(u) => tasks'[u].status # "absent"
       /\ \A u \in Tasks : steps'[u] = {} <=> ~(tasks'[u].status # "absent")
  <2>1. tasks' \in [Tasks -> TaskRows] /\ steps' \in [Tasks -> SUBSET StepRows]
    BY <1>3, <1>7, <1>9, <1>10, <1>11
  <2>2. tasks'[t] = row /\ steps'[t] = done /\ \A u \in Tasks : u # t => tasks'[u] = tmid[u] /\ steps'[u] = mid[u]
    BY <1>3, <1>7, <1>9
  <2>3. \A u \in Tasks : steps[u] = {} <=> ~Present(u)
    BY DEF Typed, Referenced
  <2> QED
    BY <1>3, <1>7, <1>8, <1>10, <1>11, <2>1, <2>2, <2>3 DEF Present
<1>13. /\ req' \in [Requests -> Flights]
       /\ \A p \in Requests : req'[p].pc # "idle" =>
             /\ req'[p].kind # "none" /\ req'[p].mine.task \in Tasks
             /\ req'[p].kind = "approval" => tasks'[req'[p].mine.task].status # "absent"
             /\ req'[p].kind # "approval" => req'[p].mine.status = "running"
             /\ req'[p].pc = "streaming" => req'[p].kind = "stream"
  BY <1>2, <1>12, OthersKept DEF Present
<1>14. TypeOK'
  BY <1>2, <1>3, <1>12, <1>13 DEF TypeOK
<1>15. result # "none"
  BY DEF Results
<1>16. Referenced'
  BY <1>2, <1>3, <1>12, <1>13, <1>15 DEF Referenced, Present
<1> QED
  BY <1>14, <1>16 DEF Typed

LEMMA ReadFollowupFacts ==
    ASSUME Typed, NEW r \in Requests, ReadFollowup(r)
    PROVE  \E o \in OuterStates :
             /\ draft' = [draft EXCEPT ![r] = o] /\ UNCHANGED <<outer, tasks, steps, newest, cards, req>>
             /\ newest \in Tasks /\ Present(newest) /\ o.task = newest /\ o.status # "none"
             /\ \/ outer.task = newest /\ o.status = outer.status
                \/ outer.task # newest /\ o.status = OuterStatusOf(tasks[newest].status)
<1> DEFINE o == OuterFor(newest)
           w == [o EXCEPT !.queue = @ + 1]
<1>1. newest # NoTask /\ draft' = [draft EXCEPT ![r] = w] /\ UNCHANGED <<outer, tasks, steps, newest, cards, req>>
  BY DEF ReadFollowup
<1>2. /\ newest \in Tasks /\ Present(newest) /\ outer \in OuterStates
      /\ tasks[newest].status \in {"absent", "running", "waiting_user", "succeeded", "planning"}
  BY <1>1 DEF Typed, TypeOK, Referenced, TaskRows
<1>3. OuterStatusOf(tasks[newest].status) \in {"running", "waiting_user", "finished"}
  BY <1>2 DEF OuterStatusOf
<1>4. outer.task = newest => outer.status # "none"
  BY <1>1 DEF Typed, Referenced, NoOuter
<1>5. /\ o \in OuterStates /\ o.task = newest /\ o.status # "none"
      /\ \/ outer.task = newest /\ o.status = outer.status
         \/ outer.task # newest /\ o.status = OuterStatusOf(tasks[newest].status)
  BY <1>2, <1>3, <1>4 DEF OuterFor, OuterStates
<1> HIDE DEF o
<1>6. w \in OuterStates /\ w.task = newest /\ w.status = o.status
  BY <1>5 DEF OuterStates
<1> HIDE DEF w
<1> QED
  BY <1>1, <1>2, <1>5, <1>6

LEMMA WriteFollowupTyped ==
    ASSUME Typed, Drafts, NEW r \in Requests, WriteFollowup(r)
    PROVE  Typed'
<1>1. /\ outer' = draft[r] /\ newest' = draft[r].task /\ UNCHANGED <<tasks, steps, cards, req>>
      /\ draft[r] \in OuterStates /\ draft[r].status # "none"
      /\ draft[r].task \in Tasks /\ Present(draft[r].task)
  BY DEF WriteFollowup, Drafts
<1>2. TypeOK'
  BY <1>1 DEF Typed, TypeOK
<1>3. Referenced'
  BY <1>1 DEF Typed, Referenced, Present
<1> QED
  BY <1>2, <1>3 DEF Typed

\* What a follow-up takes out of the drafts, or adds to them.
LEMMA DraftsLess ==
    ASSUME Drafts, NEW r \in Requests, draft' = [draft EXCEPT ![r] = NoOuter], UNCHANGED <<tasks, steps>>
    PROVE  Drafts' /\ (AgreedDrafts => AgreedDrafts') /\ (SettledDrafts => SettledDrafts')
<1>1. /\ draft'[r] = NoOuter /\ NoOuter \in OuterStates /\ NoOuter.status = "none"
      /\ \A q \in Requests : q # r => draft'[q] = draft[q]
  BY DEF Drafts, NoOuter, OuterStates
<1>2. draft' \in [Requests -> OuterStates]
  BY <1>1 DEF Drafts
<1>3. Drafts'
  BY <1>1, <1>2 DEF Drafts, Present
<1>4. AgreedDrafts => AgreedDrafts'
  BY <1>1 DEF AgreedDrafts, Fits
<1>5. SettledDrafts => SettledDrafts'
  BY <1>1 DEF SettledDrafts
<1> QED
  BY <1>3, <1>4, <1>5

LEMMA DraftsMore ==
    ASSUME Drafts, NEW r \in Requests, NEW o \in OuterStates, draft' = [draft EXCEPT ![r] = o],
           o.status # "none", o.task \in Tasks, Present(o.task), UNCHANGED <<tasks, steps>>
    PROVE  /\ Drafts'
           /\ AgreedDrafts /\ o.status = OuterStatusOf(tasks[o.task].status) /\ Fits(o.task) => AgreedDrafts'
           /\ /\ SettledDrafts
              /\ o.status \in {"waiting_user", "finished"} => o.status = OuterStatusOf(tasks[o.task].status)
              => SettledDrafts'
<1>1. draft'[r] = o /\ \A q \in Requests : q # r => draft'[q] = draft[q]
  BY DEF Drafts
<1>2. draft' \in [Requests -> OuterStates]
  BY DEF Drafts
<1>3. Drafts'
  BY <1>1, <1>2 DEF Drafts, Present
<1>4. AgreedDrafts /\ o.status = OuterStatusOf(tasks[o.task].status) /\ Fits(o.task) => AgreedDrafts'
  BY <1>1 DEF AgreedDrafts, Fits
<1>5. /\ SettledDrafts
      /\ o.status \in {"waiting_user", "finished"} => o.status = OuterStatusOf(tasks[o.task].status)
      => SettledDrafts'
  BY <1>1 DEF SettledDrafts
<1> QED
  BY <1>3, <1>4, <1>5

\* While follow-ups stay apart from turns, only a resume can pass under one.
LEMMA DraftsApart ==
    ASSUME Typed, Drafts, FollowupsApart, Serve, UNCHANGED draft
    PROVE  \/ \A r \in Requests : draft[r] = NoOuter
           \/ UNCHANGED <<tasks, steps>>
           \/ \E t \in Tasks : ResumeTask(t)
<1> SUFFICES ASSUME NEW r \in Requests, draft[r] # NoOuter, ~ \E t \in Tasks : ResumeTask(t)
             PROVE  UNCHANGED <<tasks, steps>>
  OBVIOUS
<1>1. \A q \in Requests : req[q].pc = "idle"
  BY DEF FollowupsApart
<1>2. PICK q \in Requests : Begin(q) \/ CommitStart(q) \/ End(q) \/ Fail(q)
  BY DEF Serve
<1>3. req[q].pc = "idle"
  BY <1>1
<1>4. ~CommitStart(q) /\ ~Fail(q)
  BY <1>3 DEF CommitStart, Fail
<1>5. ~End(q)
  BY <1>3 DEF End, EndTurn, EndApproval, EndRecovery
<1>6. CASE Begin(q)
  BY <1>6 DEF Begin, BeginTurn, BeginApproval, BeginRecovery
<1> QED
  BY <1>2, <1>4, <1>5, <1>6

\* No drafts stay none, and nothing is lost while the rows stay as they are.
LEMMA DraftsKept ==
    ASSUME Drafts, UNCHANGED draft, (\A r \in Requests : draft[r] = NoOuter) \/ UNCHANGED <<tasks, steps>>
    PROVE  Drafts' /\ (AgreedDrafts => AgreedDrafts') /\ (SettledDrafts => SettledDrafts')
<1>1. NoOuter.status = "none"
  BY DEF NoOuter
<1> QED
  BY <1>1 DEF Drafts, AgreedDrafts, SettledDrafts, Present, Fits

----------------------------------------------------------------------------
(* With a narrow column: settled turns, whatever requests overlap.         *)

\* Steps among whose seqs only a, b and c can be the largest have a latest one.
LEMMA TopAmong ==
    ASSUME NEW S \in SUBSET StepRows, S # {}, NEW a \in Nat, NEW b \in Nat, NEW c \in Nat,
           \A u \in S : u.seq = b \/ u.seq = c \/ (u.seq <= a /\ \E v \in S : v.seq = a)
    PROVE  \E s \in S : IsTop(s, S)
<1>1. \A u \in S : u.seq \in Nat
  BY DEF StepRows
<1>2. CASE \E u \in S : u.seq = c /\ \A v \in S : v.seq <= c
  BY <1>2 DEF IsTop
<1>3. CASE \E u \in S : u.seq = b /\ \A v \in S : v.seq <= b
  BY <1>3 DEF IsTop
<1>4. CASE \E u \in S : u.seq = a /\ \A v \in S : v.seq <= a
  BY <1>4 DEF IsTop
<1>5. ASSUME ~ \E u \in S : u.seq = c /\ \A v \in S : v.seq <= c,
             ~ \E u \in S : u.seq = b /\ \A v \in S : v.seq <= b,
             ~ \E u \in S : u.seq = a /\ \A v \in S : v.seq <= a
      PROVE  FALSE
  <2>1. PICK w \in S : TRUE
    OBVIOUS
  <2> DEFINE A == \E u \in S : u.seq = a
             B == \E u \in S : u.seq = b
             C == \E u \in S : u.seq = c
  <2>2. \A u \in S : (u.seq = b /\ B) \/ (u.seq = c /\ C) \/ (u.seq <= a /\ A)
    OBVIOUS
  <2>3. /\ C => \E v \in S : ~(v.seq <= c)
        /\ B => \E v \in S : ~(v.seq <= b)
        /\ A => \E v \in S : ~(v.seq <= a)
    BY <1>5
  <2> HIDE DEF A, B, C
  <2>4. C => (B /\ b > c) \/ (A /\ a > c)
    BY <1>1, <2>2, <2>3
  <2>5. B => (C /\ c > b) \/ (A /\ a > b)
    BY <1>1, <2>2, <2>3
  <2>6. A => (C /\ c > a) \/ (B /\ b > a)
    BY <1>1, <2>2, <2>3
  <2>7. A \/ B \/ C
    BY <2>1, <2>2
  <2> QED
    BY <2>4, <2>5, <2>6, <2>7
<1> QED
  BY <1>2, <1>3, <1>4, <1>5

LEMMA CompletedLatest ==
    ASSUME NEW S \in SUBSET StepRows, NEW n \in Nat, NEW result \in Results,
           S = {} \/ \E s \in S : IsTop(s, S)
    PROVE  \E u \in CompletedSteps(S, n, result) : IsTop(u, CompletedSteps(S, n, result))
<1> DEFINE C == CompletedSteps(S, n, result)
<1>1. /\ C \in SUBSET StepRows /\ C # {}
      /\ \A u \in C : u.seq = 1000 * n \/ u.seq = 1000 * n + 900 \/ \E s \in S : s.seq = u.seq
      /\ \A s \in S : \E u \in C : u.seq = s.seq
  BY CompletedElements DEF HasStep
<1> HIDE DEF C
<1>2. 1000 * n \in Nat /\ 1000 * n + 900 \in Nat
  OBVIOUS
<1>3. CASE S = {}
  <2>1. \A u \in C : u.seq = 1000 * n \/ u.seq = 1000 * n + 900
    BY <1>1, <1>3
  <2> DEFINE b == 1000 * n
             c == 1000 * n + 900
  <2>2. b \in Nat /\ c \in Nat /\ \A u \in C : u.seq = b \/ u.seq = c
    BY <1>2, <2>1
  <2> HIDE DEF b, c
  <2> QED
    BY <1>1, <2>2, TopAmong DEF C
<1>4. CASE \E s \in S : IsTop(s, S)
  <2>1. PICK s \in S : IsTop(s, S)
    BY <1>4
  <2> DEFINE a == s.seq
             b == 1000 * n
             c == 1000 * n + 900
  <2>2. a \in Nat /\ b \in Nat /\ c \in Nat
    BY <1>2 DEF StepRows
  <2>3. \A u \in C : u.seq = b \/ u.seq = c \/ (u.seq <= a /\ \E v \in C : v.seq = a)
    BY <1>1, <2>1 DEF IsTop
  <2> HIDE DEF a, b, c
  <2>4. C \in SUBSET StepRows /\ C # {}
    BY <1>1
  <2>5. \E u \in C : IsTop(u, C)
    BY <2>2, <2>3, <2>4, TopAmong, Zenon
  <2> QED
    BY <2>5 DEF C
<1> QED
  BY <1>3, <1>4

LEMMA StartedLatest ==
    ASSUME NEW S \in SUBSET StepRows, NEW n \in Nat, S = {} \/ \E s \in S : IsTop(s, S)
    PROVE  \E u \in StartedSteps(S, n) : IsTop(u, StartedSteps(S, n))
<1> DEFINE C == StartedSteps(S, n)
<1>1. /\ C \in SUBSET StepRows /\ C # {}
      /\ \A u \in C : u.seq = 1000 * n \/ \E s \in S : s.seq = u.seq
      /\ \A s \in S : \E u \in C : u.seq = s.seq
  BY StartedElements DEF HasStep
<1> HIDE DEF C
<1> DEFINE b == 1000 * n
<1>2. b \in Nat
  OBVIOUS
<1>3. CASE S = {}
  <2>1. \A u \in C : u.seq = b
    BY <1>1, <1>3
  <2> HIDE DEF b
  <2> QED
    BY <1>1, <1>2, <2>1, TopAmong DEF C
<1>4. CASE \E s \in S : IsTop(s, S)
  <2>1. PICK s \in S : IsTop(s, S)
    BY <1>4
  <2> DEFINE a == s.seq
  <2>2. a \in Nat
    BY DEF StepRows
  <2>3. \A u \in C : u.seq = b \/ (u.seq <= a /\ \E v \in C : v.seq = a)
    BY <1>1, <2>1 DEF IsTop
  <2> HIDE DEF a, b
  <2> QED
    BY <1>1, <1>2, <2>2, <2>3, TopAmong DEF C
<1> QED
  BY <1>3, <1>4

LEMMA NarrowBooked ==
    ASSUME NarrowInv, NEW r \in Requests, req[r].pc # "idle", NEW t \in Tasks, NEW n \in Nat,
           NEW result \in Results, Booked(r, t, n, result)
    PROVE  NarrowInv'
<1> USE DEF NarrowInv
<1>1. Typed'
  BY BookedTyped
<1>2. /\ tasks \in [Tasks -> TaskRows] /\ steps \in [Tasks -> SUBSET StepRows]
      /\ req[r].done \in BOOLEAN /\ req \in [Requests -> Flights]
  BY DEF Typed, TypeOK, Flights
<1> DEFINE S == steps[t]
           C == CompletedSteps(S, n, result)
           old == tasks[t]
           seen == req[r].done
           row == CompletedTask(old, n, seen, result)
<1>3. /\ tasks' = [tasks EXCEPT ![t] = row] /\ steps' = [steps EXCEPT ![t] = C]
      /\ req' = [req EXCEPT ![r] = Idle] /\ outer'.task = t /\ outer'.status = result
  BY DEF Booked
<1>4. S \in SUBSET StepRows /\ old \in TaskRows /\ seen \in BOOLEAN
  BY <1>2
<1>5. S = {} \/ \E s \in S : IsTop(s, S)
  BY DEF Typed, Referenced, Latest
<1>6. \A s \in S : s.width >= 54 /\ s.status # "pending"
  BY DEF Narrow
<1> HIDE DEF S, old, seen
<1>7. \E u \in C : IsTop(u, C)
  BY <1>4, <1>5, CompletedLatest
<1>8. \A u \in C : u.width >= 54 /\ u.status # "pending"
  <2>1. StepStatus(result) # "pending"
    BY DEF StepStatus
  <2> QED
    BY <1>4, <1>6, <2>1, CompletedElements
<1>9. row.status = StepStatus(result) /\ OuterStatusOf(StepStatus(result)) = result
  BY <1>4, CompletedTyped
<1> HIDE DEF C, row
<1>10. Latest'
  <2> SUFFICES ASSUME NEW u \in Tasks, Present(u)'
               PROVE  \E s \in steps'[u] : IsTop(s, steps'[u])
    BY DEF Latest
  <2>1. CASE u = t
    BY <1>2, <1>3, <1>7, <2>1
  <2>2. CASE u # t
    <3>1. tasks'[u] = tasks[u] /\ steps'[u] = steps[u]
      BY <1>2, <1>3, <2>2
    <3> QED
      BY <3>1 DEF Latest, Present
  <2> QED
    BY <2>1, <2>2
<1>11. Narrow'
  BY <1>2, <1>3, <1>8 DEF Narrow
<1>12. NoRecovery'
  BY <1>2, <1>3 DEF NoRecovery, Idle
<1>13. SettledMatchesTask'
  <2>1. tasks'[t].status = StepStatus(result)
    BY <1>2, <1>3, <1>9
  <2> QED
    BY <1>3, <1>9, <2>1 DEF SettledMatchesTask
<1> QED
  BY <1>1, <1>10, <1>11, <1>12, <1>13

LEMMA NarrowCommit ==
    ASSUME NarrowInv, NEW r \in Requests, CommitStart(r)
    PROVE  NarrowInv'
<1> USE DEF NarrowInv
<1>1. /\ Typed' /\ req'[r].kind = "stream" /\ \A p \in Requests : p # r => req'[p] = req[p]
  BY CommitStartTyped
<1> DEFINE t == req[r].mine.task
           n == req[r].turn
           S == steps[t]
           C == StartedSteps(S, n)
<1>2. /\ tasks \in [Tasks -> TaskRows] /\ steps \in [Tasks -> SUBSET StepRows]
      /\ n \in Nat /\ t \in Tasks /\ req[r].mine.status = "running"
  BY DEF Typed, TypeOK, Flights, Referenced, CommitStart
<1>3. /\ tasks' = [tasks EXCEPT ![t] = StartedTask(tasks[t], n)] /\ steps' = [steps EXCEPT ![t] = C]
      /\ outer' = req[r].mine
  BY <1>2 DEF CommitStart
<1>4. S \in SUBSET StepRows /\ (S = {} \/ \E s \in S : IsTop(s, S))
  BY <1>2 DEF Typed, Referenced, Latest
<1>5. \A s \in S : s.width >= 54 /\ s.status # "pending"
  BY <1>2 DEF Narrow
<1> HIDE DEF S
<1>6. \E u \in C : IsTop(u, C)
  BY <1>2, <1>4, StartedLatest
<1>7. \A u \in C : u.width >= 54 /\ u.status # "pending"
  BY <1>2, <1>4, <1>5, StartedElements
<1> HIDE DEF C, t, n
<1>8. Latest'
  <2> SUFFICES ASSUME NEW u \in Tasks, Present(u)'
               PROVE  \E s \in steps'[u] : IsTop(s, steps'[u])
    BY DEF Latest
  <2>1. CASE u = t
    BY <1>2, <1>3, <1>6, <2>1
  <2>2. CASE u # t
    <3>1. tasks'[u] = tasks[u] /\ steps'[u] = steps[u]
      BY <1>2, <1>3, <2>2
    <3> QED
      BY <3>1 DEF Latest, Present
  <2> QED
    BY <2>1, <2>2
<1>9. Narrow'
  BY <1>2, <1>3, <1>7 DEF Narrow
<1>10. NoRecovery'
  BY <1>1 DEF NoRecovery
<1>11. SettledMatchesTask'
  BY <1>2, <1>3 DEF SettledMatchesTask
<1> QED
  BY <1>1, <1>8, <1>9, <1>10, <1>11

\* A request for a resume takes nothing over: its step has no room, and a settled turn stays settled.
LEMMA NarrowResumed ==
    ASSUME IdWidth <= 64, NarrowInv, NEW t \in Tasks, ResumeTask(t)
    PROVE  /\ UNCHANGED <<outer, steps, cards, req>> /\ Present(t)
           /\ \A u \in Tasks :
                 /\ Present(u) => Present(u)'
                 /\ \A status \in {"waiting_user", "finished"} :
                       status = OuterStatusOf(tasks[u].status) => status = OuterStatusOf(tasks'[u].status)
<1> USE DEF NarrowInv
<1> DEFINE s == LatestStep(steps[t])
<1>2. /\ s \in StepRows /\ IsTop(s, steps[t]) /\ Resumed(t, s) /\ UNCHANGED <<outer, cards, req>> /\ Present(t)
  BY ResumeTaskFacts
<1>3. s.width >= 54 /\ s.status # "pending" /\ s.width \in Nat
  BY <1>2 DEF Narrow, IsTop, StepRows
<1> HIDE DEF s
<1>4. /\ UNCHANGED steps
      /\ \/ UNCHANGED tasks
         \/ /\ s.status = "waiting_user" /\ tasks[t].status # "succeeded"
            /\ tasks' = [tasks EXCEPT ![t] = [status |-> "waiting_user", step |-> s.id, done |-> tasks[t].done]]
  BY <1>2, <1>3, BoundsAssumption DEF Resumed
<1>5. tasks \in [Tasks -> TaskRows]
  BY DEF Typed, TypeOK
<1>6. CASE UNCHANGED tasks
  BY <1>2, <1>4, <1>6 DEF Present
<1>7. CASE /\ tasks[t].status # "succeeded"
           /\ tasks' = [tasks EXCEPT ![t] = [status |-> "waiting_user", step |-> s.id, done |-> tasks[t].done]]
  <2>1. tasks'[t].status = "waiting_user" /\ \A u \in Tasks : u # t => tasks'[u] = tasks[u]
    BY <1>5, <1>7
  <2>2. OuterStatusOf(tasks[t].status) # "finished" /\ OuterStatusOf("waiting_user") = "waiting_user"
    BY <1>5, <1>7 DEF OuterStatusOf, TaskRows
  <2> QED
    BY <1>2, <1>4, <2>1, <2>2 DEF Present
<1> QED
  BY <1>4, <1>6, <1>7

LEMMA NarrowResume ==
    ASSUME IdWidth <= 64, NarrowWhole, NEW t \in Tasks, ResumeTask(t), UNCHANGED draft
    PROVE  NarrowWhole'
<1> USE DEF NarrowWhole, NarrowInv
<1>1. Typed'
  BY ResumeTyped
<1>2. /\ UNCHANGED <<outer, steps, cards, req>> /\ Present(t)
      /\ \A u \in Tasks :
            /\ Present(u) => Present(u)'
            /\ \A status \in {"waiting_user", "finished"} :
                  status = OuterStatusOf(tasks[u].status) => status = OuterStatusOf(tasks'[u].status)
  BY NarrowResumed
<1>3. \A u \in Tasks : Present(u)' => Present(u)
  BY <1>1, <1>2 DEF Typed, Referenced
<1>4. Latest' /\ Narrow' /\ NoRecovery'
  BY <1>2, <1>3 DEF Latest, Narrow, NoRecovery
<1>5. SettledMatchesTask'
  <2>1. outer.status \in {"waiting_user", "finished"} => outer.task \in Tasks
    BY DEF Typed, Referenced
  <2> QED
    BY <1>2, <2>1 DEF SettledMatchesTask
<1>6. Drafts'
  BY <1>2 DEF Drafts
<1>7. SettledDrafts'
  <2>1. \A r \in Requests : draft[r].status \in {"waiting_user", "finished"} => draft[r].task \in Tasks
    BY DEF Drafts, NoOuter
  <2> QED
    BY <1>2, <2>1 DEF SettledDrafts
<1> QED
  BY <1>1, <1>4, <1>5, <1>6, <1>7

LEMMA NarrowBegins ==
    ASSUME NarrowInv, NEW r \in Requests, NEW q \in Flights, Begins(r, q), q.kind # "recovery"
    PROVE  NarrowInv'
<1> USE DEF NarrowInv
<1>1. Typed'
  BY BeginsTyped
<1>2. req' = [req EXCEPT ![r] = q] /\ req \in [Requests -> Flights]
      /\ UNCHANGED <<outer, tasks, steps, newest, cards>>
  BY DEF Begins, Typed, TypeOK
<1>3. NoRecovery'
  BY <1>2 DEF NoRecovery
<1> QED
  BY <1>1, <1>2, <1>3 DEF Latest, Present, Narrow, SettledMatchesTask

LEMMA NarrowServe ==
    ASSUME IdWidth <= 64, NarrowInv, Serve, ~ \E t \in Tasks : ResumeTask(t)
    PROVE  NarrowInv'
<1> USE DEF NarrowInv
<1>1. ASSUME NEW r \in Requests, Begin(r)
      PROVE  NarrowInv'
  <2>1. ASSUME NEW kind \in {"stream", "sync"}, NEW new \in Tasks, BeginTurn(r, kind, new)
        PROVE  NarrowInv'
    <3>1. PICK q \in Flights : Begins(r, q) /\ q.kind = kind
      BY <2>1, BeginTurnFacts
    <3> QED
      BY <3>1, NarrowBegins
  <2>2. ASSUME NEW c \in cards, BeginApproval(r, c)
        PROVE  NarrowInv'
    <3>1. PICK q \in Flights : Begins(r, q) /\ q.kind = "approval"
      BY <2>2, BeginApprovalFacts
    <3> QED
      BY <3>1, NarrowBegins
  <2>3. ASSUME BeginRecovery(r)
        PROVE  FALSE
    <3> DEFINE s == LatestStep(steps[newest])
    <3>1. newest \in Tasks /\ IsTop(s, steps[newest]) /\ s.width + 12 <= IdWidth
      BY <2>3, BeginRecoveryFacts
    <3>2. s.width >= 54 /\ s.width \in Nat
      BY <3>1 DEF IsTop, Narrow, Typed, TypeOK, StepRows
    <3> HIDE DEF s
    <3> QED
      BY <3>1, <3>2, BoundsAssumption
  <2> QED
    BY <1>1, <2>1, <2>2, <2>3 DEF Begin
<1>2. ASSUME NEW r \in Requests, End(r)
      PROVE  NarrowInv'
  <2> DEFINE t == req[r].mine.task
             n == req[r].turn
  <2>1. PICK result \in Results : EndApproval(r, result) \/ \E asks \in BOOLEAN :
           EndTurn(r, result, asks) \/ EndRecovery(r, result, asks)
    BY <1>2 DEF End
  <2>2. ASSUME NEW asks \in BOOLEAN, EndRecovery(r, result, asks) PROVE FALSE
    BY <2>2 DEF NoRecovery, EndRecovery
  <2>3. Booked(r, t, n, result) /\ req[r].pc # "idle"
    <3>1. CASE EndApproval(r, result)
      BY <3>1, EndApprovalFacts
    <3>2. CASE \E asks \in BOOLEAN : EndTurn(r, result, asks)
      BY <3>2, EndTurnFacts
    <3> QED
      BY <2>1, <2>2, <3>1, <3>2
  <2>4. t \in Tasks /\ n \in Nat
    BY <2>3 DEF Typed, TypeOK, Referenced, Flights
  <2> HIDE DEF t, n
  <2> QED
    BY <2>3, <2>4, NarrowBooked
<1>3. ASSUME NEW r \in Requests, Fail(r)
      PROVE  NarrowInv'
  <2>1. Typed'
    BY <1>3, FailTyped
  <2>2. req' = [req EXCEPT ![r] = Idle] /\ req \in [Requests -> Flights]
        /\ UNCHANGED <<outer, tasks, steps, newest, cards>>
    BY <1>3 DEF Fail, Typed, TypeOK
  <2>3. NoRecovery'
    BY <2>2 DEF NoRecovery, Idle
  <2> QED
    BY <2>1, <2>2, <2>3 DEF Latest, Present, Narrow, SettledMatchesTask
<1> QED
  BY <1>1, <1>2, <1>3, NarrowCommit DEF Serve

LEMMA NarrowFollowup ==
    ASSUME NarrowWhole, NEW r \in Requests, Followup(r)
    PROVE  NarrowWhole'
<1> USE DEF NarrowWhole, NarrowInv
<1>1. CASE ReadFollowup(r)
  <2>1. PICK o \in OuterStates :
          /\ draft' = [draft EXCEPT ![r] = o] /\ UNCHANGED <<outer, tasks, steps, newest, cards, req>>
          /\ newest \in Tasks /\ Present(newest) /\ o.task = newest /\ o.status # "none"
          /\ \/ outer.task = newest /\ o.status = outer.status
             \/ outer.task # newest /\ o.status = OuterStatusOf(tasks[newest].status)
    BY <1>1, ReadFollowupFacts
  <2>2. o.status \in {"waiting_user", "finished"} => o.status = OuterStatusOf(tasks[o.task].status)
    BY <2>1 DEF SettledMatchesTask
  <2>3. Drafts' /\ SettledDrafts'
    BY <2>1, <2>2, DraftsMore
  <2>4. NarrowInv'
    BY <2>1 DEF Typed, TypeOK, Referenced, Latest, Present, Narrow, NoRecovery, SettledMatchesTask
  <2> QED
    BY <2>3, <2>4
<1>2. CASE WriteFollowup(r)
  <2>1. /\ outer' = draft[r] /\ draft' = [draft EXCEPT ![r] = NoOuter] /\ UNCHANGED <<tasks, steps, cards, req>>
    BY <1>2 DEF WriteFollowup
  <2>2. Drafts' /\ SettledDrafts'
    BY <2>1, DraftsLess
  <2>3. Typed'
    BY <1>2, WriteFollowupTyped
  <2>4. SettledMatchesTask'
    BY <2>1 DEF SettledMatchesTask, SettledDrafts
  <2> QED
    BY <2>1, <2>2, <2>3, <2>4 DEF Latest, Present, Narrow, NoRecovery
<1>3. CASE DropFollowup(r)
  <2>1. draft' = [draft EXCEPT ![r] = NoOuter] /\ UNCHANGED <<outer, tasks, steps, newest, cards, req>>
    BY <1>3 DEF DropFollowup
  <2>2. Drafts' /\ SettledDrafts'
    BY <2>1, DraftsLess
  <2> QED
    BY <2>1, <2>2 DEF Typed, TypeOK, Referenced, Latest, Present, Narrow, NoRecovery, SettledMatchesTask
<1> QED
  BY <1>1, <1>2, <1>3 DEF Followup

LEMMA NarrowNext ==
    ASSUME IdWidth <= 64, NarrowWhole, FollowupsApart, Next
    PROVE  NarrowWhole'
<1>1. CASE Serve /\ UNCHANGED draft /\ ~ \E t \in Tasks : ResumeTask(t)
  <2>1. NarrowInv'
    BY <1>1, NarrowServe DEF NarrowWhole
  <2>2. (\A r \in Requests : draft[r] = NoOuter) \/ UNCHANGED <<tasks, steps>>
    BY <1>1, DraftsApart DEF NarrowWhole, NarrowInv
  <2>3. Drafts' /\ SettledDrafts'
    BY <1>1, <2>2, DraftsKept DEF NarrowWhole
  <2> QED
    BY <2>1, <2>3 DEF NarrowWhole
<1>2. CASE Serve /\ UNCHANGED draft /\ \E t \in Tasks : ResumeTask(t)
  BY <1>2, NarrowResume
<1>3. CASE \E r \in Requests : Followup(r)
  BY <1>3, NarrowFollowup
<1> QED
  BY <1>1, <1>2, <1>3 DEF Next

\* On MySQL, whose column has no room for the step of a resume, the session row
\* and the row of its active task agree on every settled turn, whatever turns,
\* approvals and resumes overlap, fail or come again, as long as no follow-up is
\* between its read and its write while one of those turns is in flight.
THEOREM SettledTheorem ==
    ASSUME IdWidth <= 64
    PROVE  Spec /\ []FollowupsApart => []SettledMatchesTask
<1>1. Init => NarrowWhole
  <2> SUFFICES ASSUME Init PROVE NarrowWhole
    OBVIOUS
  <2>1. Typed
    BY InitTyped
  <2>2. AbsentTask.status = "absent" /\ NoOuter.status = "none" /\ Idle.kind = "none"
    BY DEF AbsentTask, NoOuter, Idle
  <2>3. NarrowInv
    BY <2>1, <2>2 DEF Init, NarrowInv, Latest, Present, Narrow, NoRecovery, SettledMatchesTask
  <2>4. NoOuter \in OuterStates /\ draft = [r \in Requests |-> NoOuter]
    BY DEF Init, NoOuter, OuterStates
  <2> QED
    BY <2>2, <2>3, <2>4 DEF NarrowWhole, Drafts, SettledDrafts
<1>2. NarrowWhole /\ FollowupsApart /\ [Next]_vars => NarrowWhole'
  <2> SUFFICES ASSUME NarrowWhole, FollowupsApart, [Next]_vars PROVE NarrowWhole'
    OBVIOUS
  <2>1. CASE Next
    BY <2>1, NarrowNext
  <2>2. CASE UNCHANGED vars
    <3>1. NarrowInv'
      BY <2>2 DEF vars, NarrowWhole, NarrowInv, Typed, TypeOK, Referenced, Latest, Present, Narrow, NoRecovery,
                  SettledMatchesTask
    <3>2. Drafts' /\ SettledDrafts'
      BY <2>2, DraftsKept DEF vars, NarrowWhole
    <3> QED
      BY <3>1, <3>2 DEF NarrowWhole
  <2> QED
    BY <2>1, <2>2
<1>3. NarrowWhole => SettledMatchesTask
  BY DEF NarrowWhole, NarrowInv
<1> QED
  BY <1>1, <1>2, <1>3, PTL DEF Spec

----------------------------------------------------------------------------
(* One request at a time: every state.                                     *)

LEMMA SerialGround ==
    ASSUME SerialInv
    PROVE  Latest /\ Sources
<1> USE DEF SerialInv
<1>1. steps \in [Tasks -> SUBSET StepRows]
  BY DEF Typed, TypeOK
<1>2. Latest
  BY <1>1, NumberedTop DEF Latest, AllNumbered
<1>3. Sources
  <2> SUFFICES ASSUME NEW r \in Requests, req[r].pc # "idle", req[r].kind = "recovery"
               PROVE  /\ req[r].target \in Tasks /\ Present(req[r].target)
                      /\ \E s \in steps[req[r].target] :
                            /\ s.seq < req[r].resume
                            /\ \A u \in steps[req[r].target] : u.seq < req[r].resume => u.seq <= s.seq
    BY DEF Sources
  <2> DEFINE g == req[r].target
             S == steps[g]
  <2>1. g \in Tasks
    BY DEF AllInFlight, InFlight
  <2>2. PICK n \in Nat : Numbered(S, n) /\ req[r].resume = 1000 * n + 1
    BY DEF AllInFlight, InFlight
  <2>3. PICK w \in S : w.id = TurnId(n)
    BY <2>2 DEF Numbered, HasStep
  <2>4. w.seq = 1000 * n
    BY <2>2, <2>3, IdParts DEF Numbered, Below
  <2>5. \A u \in S : u.seq \in Nat
    BY <1>1, <2>1 DEF StepRows
  <2>6. \A u \in S : u.seq < req[r].resume => u.seq <= w.seq
    BY <2>2, <2>4, <2>5
  <2>7. w.seq < req[r].resume
    BY <2>2, <2>4
  <2>8. Present(g)
    BY <2>1, <2>3 DEF Typed, Referenced
  <2> QED
    BY <2>1, <2>3, <2>6, <2>7, <2>8
<1> QED
  BY <1>2, <1>3

\* What Onward says of one request: its turn comes after, or is, the last turn of its task.
LEMMA OnwardBelow ==
    ASSUME SerialInv, Onward, NEW r \in Requests, req[r].pc # "idle"
    PROVE  /\ Below(steps[req[r].mine.task], req[r].turn)
           /\ req[r].pc = "running" /\ req[r].kind # "approval" =>
                 \A m \in Nat : Numbered(steps[req[r].mine.task], m) => m < req[r].turn
<1> USE DEF SerialInv
<1> DEFINE t == req[r].mine.task
           n == req[r].turn
           S == steps[t]
<1>1. t \in Tasks /\ n \in Nat /\ S \in SUBSET StepRows /\ req[r].pc \in {"idle", "running", "streaming"}
  BY DEF Typed, TypeOK, Referenced, Flights
<1>2. CASE req[r].pc = "running"
  <2>1. ASSUME NEW m \in Nat, Numbered(S, m)
        PROVE  m <= n /\ (req[r].kind # "approval" => m < n)
    <3>1. PICK w \in S : w.id = TurnId(m)
      BY <2>1 DEF Numbered, HasStep
    <3>2. w.id[1] = "turn" /\ w.id[2] = m
      BY <3>1, IdParts
    <3>3. IF req[r].kind = "approval" THEN w.id[2] <= n ELSE w.id[2] < n
      BY <1>2, <3>1, <3>2 DEF Onward
    <3> QED
      BY <1>1, <3>2, <3>3
  <2>2. CASE Present(t)
    <3>1. PICK m \in Nat : Numbered(S, m)
      BY <1>1, <2>2 DEF AllNumbered
    <3> QED
      BY <1>1, <1>2, <2>1, <3>1, BelowMore DEF Numbered
  <2>3. CASE ~Present(t)
    <3>1. S = {}
      BY <1>1, <2>3 DEF Typed, Referenced
    <3> QED
      BY <2>1, <3>1 DEF Below
  <2> QED
    BY <2>2, <2>3
<1>3. CASE req[r].pc = "streaming"
  <2>1. Numbered(S, n)
    BY <1>3 DEF AllInFlight, InFlight
  <2> QED
    BY <1>3, <2>1 DEF Numbered
<1> QED
  BY <1>1, <1>2, <1>3

LEMMA SerialBegins ==
    ASSUME SerialInv, NEW r \in Requests, NEW q \in Flights, Begins(r, q),
           q.done = tasks[q.mine.task].done,
           q.kind \in {"stream", "sync"} => tasks[q.mine.task].status # "succeeded",
           q.kind = "recovery" =>
              /\ q.target \in Tasks /\ tasks[q.target].status # "succeeded"
              /\ \E n \in Nat : Numbered(steps[q.target], n) /\ q.resume = 1000 * n + 1
    PROVE  SerialInv'
<1> USE DEF SerialInv
<1>1. Typed'
  BY BeginsTyped
<1>2. req \in [Requests -> Flights] /\ req' = [req EXCEPT ![r] = q] /\ q.pc = "running"
      /\ UNCHANGED <<outer, tasks, steps, newest, cards>>
  BY DEF Typed, TypeOK, Begins
<1>3. AllInFlight'
  <2> SUFFICES ASSUME NEW p \in Requests, (req[p].pc # "idle")'
               PROVE  InFlight(p)'
    BY DEF AllInFlight
  <2>1. CASE p = r
    <3>1. req'[p] = q
      BY <1>2, <2>1
    <3> QED
      BY <1>2, <3>1 DEF InFlight
  <2>2. CASE p # r
    <3>1. req'[p] = req[p]
      BY <1>2, <2>2
    <3>2. InFlight(p)
      BY <3>1 DEF AllInFlight
    <3> QED
      BY <1>2, <3>1, <3>2 DEF InFlight
  <2> QED
    BY <2>1, <2>2
<1>4. AllNumbered' /\ BothFit' /\ RowsAgree'
  BY <1>2 DEF AllNumbered, Present, BothFit, Fits, RowsAgree
<1> QED
  BY <1>1, <1>3, <1>4

LEMMA SerialBeginTurn ==
    ASSUME SerialInv, NEW r \in Requests, NEW kind \in {"stream", "sync"}, NEW new \in Tasks,
           BeginTurn(r, kind, new)
    PROVE  SerialInv'
<1> USE DEF SerialInv
<1>1. PICK q \in Flights :
         /\ Begins(r, q) /\ q.kind = kind /\ q.done = tasks[q.mine.task].done
         /\ \/ outer.status = "waiting_user" /\ q.mine.task = outer.task
            \/ ~Present(q.mine.task)
  BY BeginTurnFacts
<1>2. tasks[q.mine.task].status # "succeeded"
  <2>1. CASE outer.status = "waiting_user" /\ q.mine.task = outer.task
    <3>1. outer.status = OuterStatusOf(tasks[outer.task].status)
      BY <2>1 DEF RowsAgree, NoOuter
    <3> QED
      BY <2>1, <3>1 DEF OuterStatusOf
  <2>2. CASE ~Present(q.mine.task)
    BY <2>2 DEF Present
  <2> QED
    BY <1>1, <2>1, <2>2
<1> QED
  BY <1>1, <1>2, SerialBegins

LEMMA SerialBeginRecovery ==
    ASSUME SerialInv, NEW r \in Requests, BeginRecovery(r)
    PROVE  SerialInv'
<1> USE DEF SerialInv
<1>1. PICK q \in Flights :
         /\ Begins(r, q) /\ q.kind = "recovery"
         /\ q.target = newest /\ newest \in Tasks /\ Present(newest)
         /\ IsTop(LatestStep(steps[newest]), steps[newest])
         /\ LatestStep(steps[newest]).status = "running" /\ tasks[newest].status # "succeeded"
         /\ q.resume = LatestStep(steps[newest]).seq + 1
         /\ q.done = (tasks[q.mine.task].done /\ q.mine.task # newest)
  BY SerialGround, BeginRecoveryFacts
<1>2. PICK n \in Nat : Numbered(steps[newest], n)
  BY <1>1 DEF AllNumbered
<1>3. q.resume = 1000 * n + 1
  BY <1>1, <1>2, RunningTop DEF Typed, TypeOK
<1>4. q.done = tasks[q.mine.task].done
  <2>1. tasks[newest].done = FALSE /\ q.mine.task \in Tasks
    BY <1>1 DEF RowsAgree, Begins, Typed, TypeOK, TaskRows
  <2>2. tasks[q.mine.task].done \in BOOLEAN
    BY <2>1 DEF Typed, TypeOK, TaskRows
  <2> QED
    BY <1>1, <2>1, <2>2
<1> QED
  BY <1>1, <1>2, <1>3, <1>4, SerialBegins

\* When the only request is over, none is in flight.
LEMMA NoneInFlight ==
    ASSUME Typed, Serial, NEW r \in Requests, req[r].pc # "idle", req' = [req EXCEPT ![r] = Idle]
    PROVE  AllInFlight'
<1>1. \A p \in Requests : req'[p].pc = "idle"
  BY DEF Typed, TypeOK, Serial, Idle
<1> QED
  BY <1>1 DEF AllInFlight

\* A booked turn closes its task: what the row says is what its latest step says.
LEMMA ClosedFits ==
    ASSUME NEW S \in SUBSET StepRows, NEW n \in Nat, NEW result \in Results, Below(S, n)
    PROVE  LET C == CompletedSteps(S, n, result)
           IN  /\ C \in SUBSET StepRows /\ Numbered(C, n)
               /\ TopFits(StepStatus(result), LatestStep(C))
<1> DEFINE C == CompletedSteps(S, n, result)
<1>1. Numbered(C, n) /\ HasStep(C, FinalId(n)) /\ C \in SUBSET StepRows
  BY BelowCompleted, CompletedElements
<1> HIDE DEF C
<1>2. IsTop(LatestStep(C), C)
  BY <1>1, NumberedTop, LatestIsTop
<1>3. LatestStep(C).status \in {"waiting_user", "succeeded"}
  BY <1>1, <1>2, ClosedTop DEF Numbered
<1>4. StepStatus(result) \in {"waiting_user", "succeeded"}
  BY DEF StepStatus
<1>5. TopFits(StepStatus(result), LatestStep(C))
  BY <1>3, <1>4 DEF TopFits
<1> QED
  BY <1>1, <1>5 DEF C

LEMMA SerialBooked ==
    ASSUME SerialInv, Serial, NEW r \in Requests, req[r].pc # "idle", NEW t \in Tasks, NEW n \in Nat,
           NEW result \in Results, Booked(r, t, n, result), Below(steps[t], n)
    PROVE  SerialInv'
<1> USE DEF SerialInv
<1>1. Typed'
  BY BookedTyped
<1>2. /\ tasks \in [Tasks -> TaskRows] /\ steps \in [Tasks -> SUBSET StepRows] /\ req[r].done \in BOOLEAN
  BY DEF Typed, TypeOK, Flights
<1> DEFINE S == steps[t]
           C == CompletedSteps(S, n, result)
           old == tasks[t]
           seen == req[r].done
           row == CompletedTask(old, n, seen, result)
<1>3. /\ tasks' = [tasks EXCEPT ![t] = row] /\ steps' = [steps EXCEPT ![t] = C]
      /\ req' = [req EXCEPT ![r] = Idle] /\ outer'.task = t /\ outer'.status = result /\ newest' = t
      /\ t = req[r].mine.task
  BY DEF Booked
<1>4. S \in SUBSET StepRows /\ old \in TaskRows /\ seen \in BOOLEAN /\ Below(S, n)
  BY <1>2
<1>5. seen = old.done
  BY <1>3 DEF AllInFlight, InFlight
<1> HIDE DEF S, old, seen
<1>6. C \in SUBSET StepRows /\ Numbered(C, n) /\ TopFits(StepStatus(result), LatestStep(C))
  BY <1>4, ClosedFits
<1>7. /\ row.status = StepStatus(result) /\ OuterStatusOf(StepStatus(result)) = result
      /\ row.done = (result = "finished" \/ (old.done /\ ~seen))
  BY <1>4, CompletedTyped
<1>8. row.done <=> row.status = "succeeded"
  BY <1>4, <1>5, <1>7 DEF StepStatus
<1> HIDE DEF C, row
<1>9. /\ tasks'[t] = row /\ steps'[t] = C
      /\ \A u \in Tasks : u # t => tasks'[u] = tasks[u] /\ steps'[u] = steps[u]
  BY <1>2, <1>3
<1>10. AllNumbered'
  <2> SUFFICES ASSUME NEW u \in Tasks, Present(u)'
               PROVE  \E m \in Nat : Numbered(steps'[u], m)
    BY DEF AllNumbered
  <2>1. CASE u = t
    BY <1>6, <1>9, <2>1
  <2>2. CASE u # t
    BY <1>9, <2>2 DEF AllNumbered, Present
  <2> QED
    BY <2>1, <2>2
<1>11. AllInFlight'
  BY <1>3, NoneInFlight
<1>12. BothFit'
  BY <1>3, <1>6, <1>7, <1>9 DEF BothFit, Fits
<1>13. RowsAgree'
  BY <1>3, <1>7, <1>8, <1>9 DEF RowsAgree
<1> QED
  BY <1>1, <1>10, <1>11, <1>12, <1>13

LEMMA SerialCommit ==
    ASSUME SerialInv, Serial, Onward, NEW r \in Requests, CommitStart(r)
    PROVE  SerialInv'
<1> USE DEF SerialInv
<1>1. /\ Typed' /\ req'[r] \in Flights /\ req'[r].pc = "streaming" /\ req'[r].kind = "stream"
      /\ req'[r].mine = req[r].mine /\ req'[r].turn = req[r].turn
      /\ req'[r].done = tasks[req[r].mine.task].done
      /\ \A p \in Requests : p # r => req'[p] = req[p]
  BY CommitStartTyped
<1>2. req[r].pc = "running" /\ req[r].kind = "stream"
  BY DEF CommitStart
<1> DEFINE t == req[r].mine.task
           n == req[r].turn
           S == steps[t]
           C == StartedSteps(S, n)
           row == StartedTask(tasks[t], n)
<1>3. /\ tasks \in [Tasks -> TaskRows] /\ steps \in [Tasks -> SUBSET StepRows]
      /\ n \in Nat /\ t \in Tasks /\ req[r].mine.status = "running"
  BY <1>2 DEF Typed, TypeOK, Flights, Referenced
<1>4. /\ tasks' = [tasks EXCEPT ![t] = row] /\ steps' = [steps EXCEPT ![t] = C]
      /\ outer' = req[r].mine /\ newest' = t
  BY <1>3 DEF CommitStart
<1>5. S \in SUBSET StepRows /\ Below(S, n) /\ \A m \in Nat : Numbered(S, m) => m < n
  BY <1>2, <1>3, OnwardBelow
<1>6. S = {} \/ \E m \in Nat : Numbered(S, m)
  BY <1>3 DEF AllNumbered, Typed, Referenced
<1>7. row.status = "running" /\ row.done = tasks[t].done /\ tasks[t].status # "succeeded"
  BY <1>2, <1>3, StartedTyped DEF AllInFlight, InFlight
<1>8. row.done = FALSE
  BY <1>3, <1>7 DEF RowsAgree, TaskRows
<1> HIDE DEF S, row
<1>9. C \in SUBSET StepRows /\ Numbered(C, n)
  BY <1>3, <1>5, BelowStarted, StartedElements
<1>10. IsTop(LatestStep(C), C)
  BY <1>3, <1>9, NumberedTop, LatestIsTop
<1>11. LatestStep(C).status = "running"
  <2> DEFINE top == LatestStep(C)
  <2>1. CASE S = {}
    BY <1>3, <1>5, <1>10, <2>1, StartedElements DEF IsTop
  <2>2. CASE \E m \in Nat : Numbered(S, m)
    <3>1. PICK m \in Nat : Numbered(S, m)
      BY <2>2
    <3>2. m < n /\ Below(S, m)
      BY <1>5, <3>1 DEF Numbered
    <3> HIDE DEF top, t, n
    <3>3. IsTop(top, StartedSteps(S, n))
      BY <1>10 DEF top
    <3>4. top.status = "running"
      BY <1>3, <1>5, <3>1, <3>2, <3>3, StartedTop
    <3> QED
      BY <3>4 DEF top
  <2> QED
    BY <1>6, <2>1, <2>2
<1>12. TopFits(row.status, LatestStep(C))
  BY <1>7, <1>11 DEF TopFits
<1>13. /\ tasks'[t] = row /\ steps'[t] = C
       /\ \A u \in Tasks : u # t => tasks'[u] = tasks[u] /\ steps'[u] = steps[u]
  BY <1>3, <1>4
<1> HIDE DEF C
<1>14. AllNumbered'
  <2> SUFFICES ASSUME NEW u \in Tasks, Present(u)'
               PROVE  \E m \in Nat : Numbered(steps'[u], m)
    BY DEF AllNumbered
  <2>1. CASE u = t
    BY <1>3, <1>9, <1>13, <2>1
  <2>2. CASE u # t
    BY <1>13, <2>2 DEF AllNumbered, Present
  <2> QED
    BY <2>1, <2>2
<1>15. AllInFlight'
  <2> SUFFICES ASSUME NEW p \in Requests, (req[p].pc # "idle")'
               PROVE  InFlight(p)'
    BY DEF AllInFlight
  <2>1. p = r
    <3> SUFFICES ASSUME p # r PROVE FALSE
      OBVIOUS
    <3>1. req[p].pc # "idle" /\ req[r].pc # "idle"
      BY <1>1, <1>2
    <3> QED
      BY <3>1 DEF Serial
  <2>2. /\ req'[r].done = tasks'[t].done /\ tasks'[t].status # "succeeded" /\ Numbered(steps'[t], n)
        /\ req'[r].kind = "stream" /\ req'[r].mine.task = t /\ req'[r].turn = n
    BY <1>1, <1>7, <1>9, <1>13
  <2> HIDE DEF t, n
  <2> QED
    BY <2>1, <2>2 DEF InFlight
<1>16. outer'.task = t /\ outer'.status = "running" /\ newest' = t
  BY <1>3, <1>4
<1> HIDE DEF t, n
<1>17. BothFit'
  BY <1>12, <1>13, <1>16 DEF BothFit, Fits
<1>18. RowsAgree'
  <2>1. OuterStatusOf("running") = "running"
    BY DEF OuterStatusOf
  <2> QED
    BY <1>7, <1>8, <1>13, <1>16, <2>1 DEF RowsAgree
<1> QED
  BY <1>1, <1>14, <1>15, <1>17, <1>18

\* A resume that is left pending is the latest step of its task.
LEMMA PendingResume ==
    ASSUME NEW S \in SUBSET StepRows, NEW n \in Nat, Numbered(S, n), NEW s \in StepRows, IsTop(s, S),
           s.status = "running"
    PROVE  LET R == S \cup {Step(ResumeId(s.seq + 1), s.seq + 1, "pending", s.retry + 1, s.width + 12)}
           IN  R \in SUBSET StepRows /\ Numbered(R, n) /\ LatestStep(R).status = "pending"
<1> DEFINE new == Step(ResumeId(s.seq + 1), s.seq + 1, "pending", s.retry + 1, s.width + 12)
           R == S \cup {new}
<1>1. s.seq = 1000 * n
  BY RunningTop
<1>2. s.seq + 1 \in Nat /\ s.retry + 1 \in Nat /\ s.width + 12 \in Nat /\ "pending" \in StepStates \ {"running"}
  BY DEF StepRows, StepStates
<1>3. R \in SUBSET StepRows /\ Numbered(R, n)
  <2> DEFINE retry == s.retry + 1
             width == s.width + 12
  <2>1. new = Step(ResumeId(1000 * n + 1), 1000 * n + 1, "pending", retry, width)
    BY <1>1
  <2>2. retry \in Nat /\ width \in Nat
    BY <1>2
  <2> HIDE DEF retry, width, new
  <2> QED
    BY <1>2, <2>1, <2>2, ResumeNumbered
<1>4. new \in StepRows /\ new.seq = s.seq + 1 /\ new.status = "pending"
  <2> DEFINE seq == s.seq + 1
             retry == s.retry + 1
             width == s.width + 12
  <2>1. seq \in Nat /\ retry \in Nat /\ width \in Nat /\ "pending" \in StepStates
    BY <1>2 DEF StepStates
  <2>2. ResumeId(seq) \in StepIds
    BY <2>1, IdParts
  <2>3. new = Step(ResumeId(seq), seq, "pending", retry, width)
    OBVIOUS
  <2> HIDE DEF seq, retry, width, new
  <2>4. new \in StepRows /\ new.seq = seq /\ new.status = "pending"
    BY <2>1, <2>2, <2>3, StepTyped
  <2> QED
    BY <2>4 DEF seq
<1> HIDE DEF new
<1>5. IsTop(LatestStep(R), R)
  BY <1>3, NumberedTop, LatestIsTop
<1>6. LatestStep(R) = new
  <2> DEFINE top == LatestStep(R)
  <2>1. top \in R /\ new.seq <= top.seq
    BY <1>5 DEF IsTop
  <2>2. \A u \in S : u.seq \in Nat /\ u.seq <= s.seq
    BY DEF IsTop, StepRows
  <2> HIDE DEF top
  <2>3. top = new
    BY <1>2, <1>4, <2>1, <2>2 DEF StepRows
  <2> QED
    BY <2>3 DEF top
<1> QED
  BY <1>3, <1>4, <1>6 DEF new

LEMMA SerialResume ==
    ASSUME SerialInv, NEW t \in Tasks, ResumeTask(t)
    PROVE  SerialInv'
<1> USE DEF SerialInv
<1> DEFINE s == LatestStep(steps[t])
           R == steps[t] \cup {Step(ResumeId(s.seq + 1), s.seq + 1, "pending", s.retry + 1, s.width + 12)}
<1>1. Latest
  BY SerialGround
<1>2. Typed'
  BY <1>1, ResumeTyped
<1>3. /\ Present(t) /\ s \in StepRows /\ IsTop(s, steps[t]) /\ Resumed(t, s)
      /\ newest' = (IF tasks' = tasks THEN newest ELSE t) /\ UNCHANGED <<outer, cards, req>>
  BY <1>1, ResumeTaskFacts
<1>4. /\ tasks \in [Tasks -> TaskRows] /\ steps \in [Tasks -> SUBSET StepRows]
      /\ tasks[t].done \in BOOLEAN
  BY DEF Typed, TypeOK, TaskRows
<1>5. newest = t \/ (outer.task = t /\ outer.status # "none") => TopFits(tasks[t].status, s)
  BY <1>3, TaskFacts DEF BothFit, Fits
<1>6. tasks[t].status \in {"running", "waiting_user", "succeeded", "planning"}
  BY <1>3, <1>4 DEF TaskRows, Present
<1>7. s.status = "running" => /\ R \in SUBSET StepRows /\ LatestStep(R).status = "pending"
                              /\ \A n \in Nat : Numbered(steps[t], n) => Numbered(R, n)
  <2> SUFFICES ASSUME s.status = "running"
               PROVE  /\ R \in SUBSET StepRows /\ LatestStep(R).status = "pending"
                      /\ \A n \in Nat : Numbered(steps[t], n) => Numbered(R, n)
    OBVIOUS
  <2>1. \E n \in Nat : Numbered(steps[t], n)
    BY <1>3 DEF AllNumbered
  <2> HIDE DEF s
  <2>2. ASSUME NEW n \in Nat, Numbered(steps[t], n)
        PROVE  R \in SUBSET StepRows /\ LatestStep(R).status = "pending" /\ Numbered(R, n)
    BY <1>3, <1>4, <2>2, PendingResume
  <2> QED
    BY <2>1, <2>2
<1> HIDE DEF s
\* The cases in which something is written: the row and the step, or the row alone.
<1>8. CASE UNCHANGED <<tasks, steps>>
  <2>1. newest' = newest /\ UNCHANGED <<tasks, steps, outer, req, cards>>
    BY <1>3, <1>8
  <2> QED
    BY <1>2, <2>1 DEF AllNumbered, AllInFlight, InFlight, BothFit, Fits, RowsAgree, Present
<1>9. ASSUME NEW row \in TaskRows, NEW S \in SUBSET StepRows,
             tasks[t].status # "succeeded", row.status # "succeeded", row.done = FALSE,
             tasks' = [tasks EXCEPT ![t] = row], steps' = [steps EXCEPT ![t] = S],
             \A n \in Nat : Numbered(steps[t], n) => Numbered(S, n),
             TopFits(row.status, LatestStep(S)),
             TopFits(tasks[t].status, s) => OuterStatusOf(row.status) = OuterStatusOf(tasks[t].status)
      PROVE  SerialInv'
  <2>1. /\ tasks'[t] = row /\ steps'[t] = S
        /\ \A u \in Tasks : u # t => tasks'[u] = tasks[u] /\ steps'[u] = steps[u]
    BY <1>4, <1>9
  <2>2. tasks[t].done = FALSE
    BY <1>4, <1>9 DEF RowsAgree
  <2>3. AllNumbered'
    <3> SUFFICES ASSUME NEW u \in Tasks, Present(u)'
                 PROVE  \E m \in Nat : Numbered(steps'[u], m)
      BY DEF AllNumbered
    <3>1. CASE u = t
      BY <1>3, <1>9, <2>1, <3>1 DEF AllNumbered
    <3>2. CASE u # t
      BY <2>1, <3>2 DEF AllNumbered, Present
    <3> QED
      BY <3>1, <3>2
  <2>4. \A u \in Tasks : \A n \in Nat : Numbered(steps[u], n) => Numbered(steps'[u], n)
    BY <1>9, <2>1
  <2>5. \A u \in Tasks : tasks'[u].done = tasks[u].done
                         /\ (tasks[u].status # "succeeded" => tasks'[u].status # "succeeded")
    BY <1>9, <2>1, <2>2
  <2>6. AllInFlight'
    <3> SUFFICES ASSUME NEW p \in Requests, (req[p].pc # "idle")'
                 PROVE  InFlight(p)'
      BY DEF AllInFlight
    <3>1. req' = req /\ InFlight(p) /\ req[p].mine.task \in Tasks /\ req[p] \in Flights
      BY <1>3 DEF AllInFlight, Typed, TypeOK, Referenced
    <3>2. req[p].done = tasks'[req[p].mine.task].done
      BY <2>5, <3>1 DEF InFlight
    <3>3. req[p].kind \in {"stream", "sync"} => tasks'[req[p].mine.task].status # "succeeded"
      BY <2>5, <3>1 DEF InFlight
    <3>4. req[p].pc = "streaming" => Numbered(steps'[req[p].mine.task], req[p].turn)
      BY <2>4, <3>1 DEF InFlight, Flights
    <3>5. req[p].kind = "recovery" =>
             /\ req[p].target \in Tasks /\ tasks'[req[p].target].status # "succeeded"
             /\ \E n \in Nat : Numbered(steps'[req[p].target], n) /\ req[p].resume = 1000 * n + 1
      BY <2>4, <2>5, <3>1 DEF InFlight
    <3> QED
      BY <3>1, <3>2, <3>3, <3>4, <3>5 DEF InFlight
  <2>7. newest' \in {newest, t}
    BY <1>3
  <2>8. BothFit'
    <3>1. TopFits(tasks'[t].status, LatestStep(steps'[t]))
      BY <1>9, <2>1
    <3>2. newest' # NoTask => Fits(newest)'
      BY <2>1, <2>7, <3>1 DEF BothFit, Fits, Typed, TypeOK
    <3>3. outer.status # "none" => TopFits(tasks'[outer.task].status, LatestStep(steps'[outer.task]))
      BY <2>1, <3>1 DEF BothFit, Fits, Typed, Referenced
    <3> QED
      BY <1>3, <3>2, <3>3 DEF BothFit, Fits
  <2>9. RowsAgree'
    <3>1. outer # NoOuter => outer.status # "none" /\ outer.task \in Tasks
      BY DEF Typed, Referenced
    <3>2. outer # NoOuter => outer.status = OuterStatusOf(tasks'[outer.task].status)
      <4>1. CASE outer.task = t
        BY <1>5, <1>9, <2>1, <3>1, <4>1 DEF RowsAgree
      <4>2. CASE outer.task # t
        BY <2>1, <3>1, <4>2 DEF RowsAgree
      <4> QED
        BY <4>1, <4>2
    <3>3. \A u \in Tasks : tasks'[u].done <=> tasks'[u].status = "succeeded"
      BY <1>9, <2>1 DEF RowsAgree
    <3> QED
      BY <1>3, <3>2, <3>3 DEF RowsAgree
  <2> QED
    BY <1>2, <2>3, <2>6, <2>8, <2>9
<1>10. /\ OuterStatusOf("running") = "running" /\ OuterStatusOf("planning") = "running"
       /\ OuterStatusOf("waiting_user") = "waiting_user"
  BY DEF OuterStatusOf
<1>11. CASE /\ s.status = "running" /\ tasks[t].status # "succeeded"
            /\ steps' = [steps EXCEPT ![t] = R] /\ tasks' = [tasks EXCEPT ![t] = Reissued(s.seq + 1)]
  <2> DEFINE row == Reissued(s.seq + 1)
  <2>1. row \in TaskRows /\ row.status = "running" /\ row.done = FALSE
    <3>1. s.seq + 1 \in Nat
      BY <1>3 DEF StepRows
    <3> QED
      BY <3>1, ReissuedTyped
  <2> HIDE DEF row, R
  <2>2. TopFits(row.status, LatestStep(R))
    BY <1>7, <1>11, <2>1 DEF TopFits
  <2>3. TopFits(tasks[t].status, s) => OuterStatusOf(row.status) = OuterStatusOf(tasks[t].status)
    BY <1>6, <1>10, <1>11, <2>1 DEF TopFits
  <2>4. tasks' = [tasks EXCEPT ![t] = row]
    BY <1>11 DEF row
  <2> QED
    BY <1>7, <1>9, <1>11, <2>1, <2>2, <2>3, <2>4
<1>12. ASSUME NEW status \in {"waiting_user", "planning"}, tasks[t].status # "succeeded", UNCHANGED steps,
              status = "waiting_user" => s.status = "waiting_user",
              status = "planning" => s.status = "pending",
              tasks' = [tasks EXCEPT ![t] = [status |-> status, step |-> s.id, done |-> tasks[t].done]]
       PROVE  SerialInv'
  <2> DEFINE row == [status |-> status, step |-> s.id, done |-> tasks[t].done]
             S == steps[t]
  <2>1. tasks[t].done = FALSE
    BY <1>4, <1>12 DEF RowsAgree
  <2>2. s.id \in {"none", "turn", "final", "resume"} \X Nat
    BY <1>3 DEF StepRows
  <2>3. row \in TaskRows /\ row.status = status /\ row.done = FALSE
    BY <1>4, <1>12, <2>1, <2>2 DEF TaskRows
  <2>4. S \in SUBSET StepRows /\ steps' = [steps EXCEPT ![t] = S] /\ LatestStep(S) = s
    BY <1>4, <1>12 DEF s
  <2>5. tasks' = [tasks EXCEPT ![t] = row] /\ (\A n \in Nat : Numbered(steps[t], n) => Numbered(S, n))
    BY <1>12
  <2> HIDE DEF row, S
  <2>6. TopFits(row.status, LatestStep(S))
    BY <1>12, <2>3, <2>4 DEF TopFits
  <2>7. TopFits(tasks[t].status, s) => OuterStatusOf(row.status) = OuterStatusOf(tasks[t].status)
    BY <1>6, <1>10, <1>12, <2>3 DEF TopFits
  <2>8. row.status # "succeeded"
    BY <1>12, <2>3
  <2> QED
    BY <1>9, <1>12, <2>3, <2>4, <2>5, <2>6, <2>7, <2>8
<1> HIDE DEF R
<1>13. \/ UNCHANGED <<tasks, steps>>
       \/ /\ s.status = "running" /\ tasks[t].status # "succeeded"
          /\ steps' = [steps EXCEPT ![t] = R] /\ tasks' = [tasks EXCEPT ![t] = Reissued(s.seq + 1)]
       \/ \E status \in {"waiting_user", "planning"} :
             /\ tasks[t].status # "succeeded" /\ UNCHANGED steps
             /\ status = "waiting_user" => s.status = "waiting_user"
             /\ status = "planning" => s.status = "pending"
             /\ tasks' = [tasks EXCEPT ![t] = [status |-> status, step |-> s.id, done |-> tasks[t].done]]
  BY <1>3 DEF Resumed, R
<1> QED
  BY <1>8, <1>11, <1>12, <1>13

LEMMA SerialEndRecovery ==
    ASSUME SerialInv, Serial, Onward, NEW r \in Requests, NEW result \in Results, NEW asks \in BOOLEAN,
           EndRecovery(r, result, asks)
    PROVE  SerialInv'
<1> USE DEF SerialInv
<1> DEFINE q == req[r]
           t == q.mine.task
           n == q.turn
           g == q.target
<1>1. Sources
  BY SerialGround
<1>2. Typed'
  BY <1>1, EndRecoveryTyped
<1>3. /\ q.kind = "recovery" /\ q.pc = "running" /\ g \in Tasks /\ Present(g)
      /\ outer'.task = t /\ outer'.status = result /\ newest' = t /\ req' = [req EXCEPT ![r] = Idle]
      /\ tasks' = [[tasks EXCEPT ![g] = Reissued(q.resume)] EXCEPT ![t] = CompletedTask(@, n, q.done, result)]
  BY <1>1, EndRecoveryFacts
<1>4. PICK retry \in Nat, width \in Nat : steps' = RecoveredSteps(q, result, retry, width)
  BY <1>1, EndRecoveryFacts
<1>5. /\ tasks \in [Tasks -> TaskRows] /\ steps \in [Tasks -> SUBSET StepRows]
      /\ n \in Nat /\ q.resume \in Nat /\ q.done \in BOOLEAN /\ t \in Tasks
  BY <1>3 DEF Typed, TypeOK, Flights, Referenced
<1>6. q.done = tasks[t].done /\ tasks[g].status # "succeeded"
  BY <1>3 DEF AllInFlight, InFlight
<1>7. PICK m \in Nat : Numbered(steps[g], m) /\ q.resume = 1000 * m + 1
  BY <1>3 DEF AllInFlight, InFlight
<1>8. Below(steps[t], n) /\ \A k \in Nat : Numbered(steps[t], k) => k < n
  BY <1>3, OnwardBelow
<1> DEFINE new == Step(ResumeId(q.resume), q.resume, StepStatus(result), retry, width)
           again == Reissued(q.resume)
           S == steps[g] \cup {new}
           mid == [steps EXCEPT ![g] = S]
           tmid == [tasks EXCEPT ![g] = again]
           old == tmid[t]
           seen == q.done
           row == CompletedTask(old, n, seen, result)
           B == mid[t]
           C == CompletedSteps(B, n, result)
<1>9. S \in SUBSET StepRows /\ Numbered(S, m)
  <2>1. StepStatus(result) \in StepStates \ {"running"}
    BY DEF StepStatus, StepStates
  <2> DEFINE status == StepStatus(result)
  <2>2. new = Step(ResumeId(1000 * m + 1), 1000 * m + 1, status, retry, width)
    BY <1>7
  <2>3. status \in StepStates \ {"running"} /\ steps[g] \in SUBSET StepRows
    BY <1>3, <1>5, <2>1
  <2> HIDE DEF status, new, q, g
  <2> QED
    BY <1>7, <2>2, <2>3, ResumeNumbered
<1>10. again \in TaskRows /\ again.status = "running" /\ again.done = FALSE
  BY <1>5, ReissuedTyped
<1>11. steps' = [mid EXCEPT ![t] = C] /\ tasks' = [tmid EXCEPT ![t] = row]
  <2>1. /\ steps' = [mid EXCEPT ![t] = CompletedSteps(@, n, result)]
        /\ tasks' = [tmid EXCEPT ![t] = CompletedTask(@, n, q.done, result)]
    BY <1>3, <1>4 DEF RecoveredSteps
  <2>2. mid \in [Tasks -> SUBSET StepRows] /\ tmid \in [Tasks -> TaskRows]
    BY <1>3, <1>5, <1>9, <1>10
  <2> HIDE DEF mid, tmid, n, q, t
  <2> QED
    BY <1>5, <2>1, <2>2
<1> HIDE DEF new, again, S
<1>12. /\ mid \in [Tasks -> SUBSET StepRows] /\ tmid \in [Tasks -> TaskRows]
       /\ mid[g] = S /\ tmid[g] = again
       /\ \A u \in Tasks : u # g => mid[u] = steps[u] /\ tmid[u] = tasks[u]
  BY <1>3, <1>5, <1>9, <1>10
<1> HIDE DEF mid, tmid
<1>13. B \in SUBSET StepRows /\ old \in TaskRows /\ seen \in BOOLEAN
  BY <1>5, <1>12
<1>14. Below(B, n)
  <2>1. CASE t = g
    <3>1. m < n /\ B = S
      BY <1>7, <1>8, <1>12, <2>1
    <3> QED
      BY <1>5, <1>9, <3>1, BelowMore DEF Numbered
  <2>2. CASE t # g
    BY <1>5, <1>8, <1>12, <2>2
  <2> QED
    BY <2>1, <2>2
<1>15. old.done => seen
  <2>1. CASE t = g
    BY <1>10, <1>12, <2>1
  <2>2. CASE t # g
    BY <1>5, <1>6, <1>12, <2>2
  <2> QED
    BY <2>1, <2>2
<1> HIDE DEF B, old, seen, q, t, n, g
<1>16. C \in SUBSET StepRows /\ Numbered(C, n) /\ TopFits(StepStatus(result), LatestStep(C))
  BY <1>5, <1>13, <1>14, ClosedFits
<1>17. /\ row.status = StepStatus(result) /\ OuterStatusOf(StepStatus(result)) = result
       /\ row.done = (result = "finished" \/ (old.done /\ ~seen))
  BY <1>5, <1>13, CompletedTyped
<1>18. row.done <=> row.status = "succeeded"
  BY <1>13, <1>15, <1>17 DEF StepStatus
<1> HIDE DEF C, row
<1>19. /\ tasks'[t] = row /\ steps'[t] = C
       /\ \A u \in Tasks : u # t => tasks'[u] = tmid[u] /\ steps'[u] = mid[u]
  BY <1>5, <1>11, <1>12
<1>20. AllNumbered'
  <2> SUFFICES ASSUME NEW u \in Tasks, Present(u)'
               PROVE  \E k \in Nat : Numbered(steps'[u], k)
    BY DEF AllNumbered
  <2>1. CASE u = t
    BY <1>5, <1>16, <1>19, <2>1
  <2>2. CASE u # t /\ u = g
    BY <1>9, <1>12, <1>19, <2>2
  <2>3. CASE u # t /\ u # g
    BY <1>12, <1>19, <2>3 DEF AllNumbered, Present
  <2> QED
    BY <2>1, <2>2, <2>3
<1>21. AllInFlight'
  BY <1>3, NoneInFlight DEF q
<1>22. BothFit'
  BY <1>3, <1>16, <1>17, <1>19 DEF BothFit, Fits
<1>23. RowsAgree'
  <2>1. \A u \in Tasks : tasks'[u].done <=> tasks'[u].status = "succeeded"
    <3> SUFFICES ASSUME NEW u \in Tasks PROVE tasks'[u].done <=> tasks'[u].status = "succeeded"
      OBVIOUS
    <3>1. CASE u = t
      BY <1>18, <1>19, <3>1
    <3>2. CASE u # t /\ u = g
      BY <1>10, <1>12, <1>19, <3>2
    <3>3. CASE u # t /\ u # g
      BY <1>12, <1>19, <3>3 DEF RowsAgree
    <3> QED
      BY <3>1, <3>2, <3>3
  <2> QED
    BY <1>3, <1>17, <1>19, <2>1 DEF RowsAgree
<1> QED
  BY <1>2, <1>20, <1>21, <1>22, <1>23

LEMMA SerialServe ==
    ASSUME SerialInv, Serial, Onward, Serve
    PROVE  SerialInv'
<1> USE DEF SerialInv
<1>1. ASSUME NEW r \in Requests, Begin(r)
      PROVE  SerialInv'
  <2>1. ASSUME NEW c \in cards, BeginApproval(r, c)
        PROVE  SerialInv'
    <3>1. PICK q \in Flights : Begins(r, q) /\ q.kind = "approval" /\ q.done = tasks[q.mine.task].done
      BY <2>1, BeginApprovalFacts
    <3> QED
      BY <3>1, SerialBegins
  <2> QED
    BY <1>1, <2>1, SerialBeginTurn, SerialBeginRecovery DEF Begin
<1>2. ASSUME NEW r \in Requests, End(r)
      PROVE  SerialInv'
  <2> DEFINE t == req[r].mine.task
             n == req[r].turn
  <2>1. PICK result \in Results : EndApproval(r, result) \/ \E asks \in BOOLEAN :
           EndTurn(r, result, asks) \/ EndRecovery(r, result, asks)
    BY <1>2 DEF End
  <2>2. ASSUME Booked(r, t, n, result), req[r].pc # "idle"
        PROVE  SerialInv'
    <3>1. t \in Tasks /\ n \in Nat
      BY <2>2 DEF Typed, TypeOK, Referenced, Flights
    <3>2. Below(steps[t], n)
      BY <2>2, OnwardBelow
    <3> HIDE DEF t, n
    <3> QED
      BY <2>2, <3>1, <3>2, SerialBooked
  <2>3. CASE EndApproval(r, result)
    BY <2>2, <2>3, EndApprovalFacts
  <2>4. ASSUME NEW asks \in BOOLEAN, EndTurn(r, result, asks)
        PROVE  SerialInv'
    BY <2>2, <2>4, EndTurnFacts
  <2>5. ASSUME NEW asks \in BOOLEAN, EndRecovery(r, result, asks)
        PROVE  SerialInv'
    BY <2>5, SerialEndRecovery
  <2> QED
    BY <2>1, <2>3, <2>4, <2>5
<1>3. ASSUME NEW r \in Requests, Fail(r)
      PROVE  SerialInv'
  <2>1. Typed'
    BY <1>3, FailTyped
  <2>2. req' = [req EXCEPT ![r] = Idle] /\ UNCHANGED <<outer, tasks, steps, newest, cards>>
        /\ req[r].pc # "idle"
    BY <1>3 DEF Fail
  <2>3. AllInFlight'
    BY <2>2, NoneInFlight
  <2> QED
    BY <2>1, <2>2, <2>3 DEF AllNumbered, Present, BothFit, Fits, RowsAgree
<1> QED
  BY <1>1, <1>2, <1>3, SerialCommit, SerialResume DEF Serve

\* A resume keeps what the rows of a task tell, and its latest step beside them.
LEMMA ResumeAgrees ==
    ASSUME SerialInv, NEW t \in Tasks, ResumeTask(t)
    PROVE  \A u \in Tasks : Present(u) /\ Fits(u) =>
              Fits(u)' /\ Present(u)' /\ OuterStatusOf(tasks'[u].status) = OuterStatusOf(tasks[u].status)
<1> USE DEF SerialInv
<1> DEFINE s == LatestStep(steps[t])
           R == steps[t] \cup {Step(ResumeId(s.seq + 1), s.seq + 1, "pending", s.retry + 1, s.width + 12)}
<1>1. Present(t) /\ s \in StepRows /\ IsTop(s, steps[t]) /\ Resumed(t, s)
  BY SerialGround, ResumeTaskFacts
<1>2. tasks \in [Tasks -> TaskRows] /\ steps \in [Tasks -> SUBSET StepRows]
  BY DEF Typed, TypeOK
<1>3. Fits(t) => TopFits(tasks[t].status, s)
  BY DEF Fits
<1>4. tasks[t].status \in {"running", "waiting_user", "succeeded", "planning"}
  BY <1>1, <1>2 DEF TaskRows, Present
<1>5. s.status = "running" => LatestStep(R).status = "pending"
  <2> SUFFICES ASSUME s.status = "running" PROVE LatestStep(R).status = "pending"
    OBVIOUS
  <2>1. PICK n \in Nat : Numbered(steps[t], n)
    BY <1>1 DEF AllNumbered
  <2>2. steps[t] \in SUBSET StepRows
    BY <1>2
  <2> HIDE DEF s
  <2> QED
    BY <1>1, <2>1, <2>2, PendingResume
<1>6. /\ OuterStatusOf("running") = "running" /\ OuterStatusOf("planning") = "running"
      /\ OuterStatusOf("waiting_user") = "waiting_user"
  BY DEF OuterStatusOf
<1>7. LatestStep(steps[t]) = s
  OBVIOUS
<1> HIDE DEF s
<1>8. ASSUME NEW row, tasks' = [tasks EXCEPT ![t] = row], row.status # "absent",
             \A u \in Tasks : u # t => steps'[u] = steps[u],
             TopFits(row.status, LatestStep(steps'[t])),
             TopFits(tasks[t].status, s) => OuterStatusOf(row.status) = OuterStatusOf(tasks[t].status)
      PROVE  \A u \in Tasks : Present(u) /\ Fits(u) =>
                Fits(u)' /\ Present(u)' /\ OuterStatusOf(tasks'[u].status) = OuterStatusOf(tasks[u].status)
  <2>1. tasks'[t] = row /\ \A u \in Tasks : u # t => tasks'[u] = tasks[u]
    BY <1>2, <1>8
  <2> SUFFICES ASSUME NEW u \in Tasks, Present(u), Fits(u)
               PROVE  Fits(u)' /\ Present(u)' /\ OuterStatusOf(tasks'[u].status) = OuterStatusOf(tasks[u].status)
    OBVIOUS
  <2>2. CASE u = t
    BY <1>3, <1>8, <2>1, <2>2 DEF Fits, Present
  <2>3. CASE u # t
    BY <1>8, <2>1, <2>3 DEF Fits, Present
  <2> QED
    BY <2>2, <2>3
<1>9. CASE /\ s.status = "running" /\ tasks[t].status # "succeeded"
           /\ steps' = [steps EXCEPT ![t] = R] /\ tasks' = [tasks EXCEPT ![t] = Reissued(s.seq + 1)]
  <2> DEFINE row == Reissued(s.seq + 1)
  <2>1. row.status = "running"
    BY DEF Reissued
  <2> HIDE DEF row, R
  <2>2. steps'[t] = R /\ \A u \in Tasks : u # t => steps'[u] = steps[u]
    BY <1>2, <1>9
  <2>3. TopFits(row.status, LatestStep(steps'[t]))
    BY <1>5, <1>9, <2>1, <2>2 DEF TopFits
  <2>4. TopFits(tasks[t].status, s) => OuterStatusOf(row.status) = OuterStatusOf(tasks[t].status)
    BY <1>4, <1>6, <1>9, <2>1 DEF TopFits
  <2>5. tasks' = [tasks EXCEPT ![t] = row]
    BY <1>9 DEF row
  <2> QED
    BY <1>8, <2>1, <2>2, <2>3, <2>4, <2>5
<1>10. ASSUME NEW status \in {"waiting_user", "planning"}, tasks[t].status # "succeeded", UNCHANGED steps,
              status = "waiting_user" => s.status = "waiting_user",
              status = "planning" => s.status = "pending",
              tasks' = [tasks EXCEPT ![t] = [status |-> status, step |-> s.id, done |-> tasks[t].done]]
       PROVE  \A u \in Tasks : Present(u) /\ Fits(u) =>
                Fits(u)' /\ Present(u)' /\ OuterStatusOf(tasks'[u].status) = OuterStatusOf(tasks[u].status)
  <2> DEFINE row == [status |-> status, step |-> s.id, done |-> tasks[t].done]
  <2>1. row.status = status /\ row.status # "absent"
    BY <1>10
  <2>2. LatestStep(steps'[t]) = s /\ \A u \in Tasks : u # t => steps'[u] = steps[u]
    BY <1>7, <1>10
  <2> HIDE DEF row
  <2>3. TopFits(row.status, LatestStep(steps'[t]))
    BY <1>10, <2>1, <2>2 DEF TopFits
  <2>4. TopFits(tasks[t].status, s) => OuterStatusOf(row.status) = OuterStatusOf(tasks[t].status)
    BY <1>4, <1>6, <1>10, <2>1 DEF TopFits
  <2>5. tasks' = [tasks EXCEPT ![t] = row]
    BY <1>10 DEF row
  <2> QED
    BY <1>8, <2>1, <2>2, <2>3, <2>4, <2>5
<1>11. CASE tasks' = tasks /\ steps' = steps
  BY <1>11 DEF Fits, Present
<1> HIDE DEF R
<1>12. \/ UNCHANGED <<tasks, steps>>
       \/ /\ s.status = "running" /\ tasks[t].status # "succeeded"
          /\ steps' = [steps EXCEPT ![t] = R] /\ tasks' = [tasks EXCEPT ![t] = Reissued(s.seq + 1)]
       \/ \E status \in {"waiting_user", "planning"} :
             /\ tasks[t].status # "succeeded" /\ UNCHANGED steps
             /\ status = "waiting_user" => s.status = "waiting_user"
             /\ status = "planning" => s.status = "pending"
             /\ tasks' = [tasks EXCEPT ![t] = [status |-> status, step |-> s.id, done |-> tasks[t].done]]
  BY <1>1 DEF Resumed, R
<1> QED
  BY <1>9, <1>10, <1>11, <1>12

LEMMA SerialFollowup ==
    ASSUME SerialWhole, NEW r \in Requests, Followup(r)
    PROVE  SerialWhole'
<1> USE DEF SerialWhole, SerialInv
<1>1. CASE ReadFollowup(r)
  <2>1. PICK o \in OuterStates :
          /\ draft' = [draft EXCEPT ![r] = o] /\ UNCHANGED <<outer, tasks, steps, newest, cards, req>>
          /\ newest \in Tasks /\ Present(newest) /\ o.task = newest /\ o.status # "none"
          /\ \/ outer.task = newest /\ o.status = outer.status
             \/ outer.task # newest /\ o.status = OuterStatusOf(tasks[newest].status)
    BY <1>1, ReadFollowupFacts
  <2>2. newest # NoTask /\ (outer.task = newest => outer # NoOuter)
    BY <2>1, TaskFacts DEF NoOuter
  <2>3. o.status = OuterStatusOf(tasks[o.task].status) /\ Fits(o.task)
    BY <2>1, <2>2 DEF RowsAgree, BothFit
  <2>4. Drafts' /\ AgreedDrafts'
    BY <2>1, <2>3, DraftsMore
  <2>5. SerialInv'
    BY <2>1 DEF Typed, TypeOK, Referenced, AllNumbered, AllInFlight, InFlight, BothFit, Fits, RowsAgree, Present
  <2> QED
    BY <2>4, <2>5
<1>2. CASE WriteFollowup(r)
  <2>1. /\ outer' = draft[r] /\ newest' = draft[r].task /\ draft[r] # NoOuter
        /\ draft' = [draft EXCEPT ![r] = NoOuter] /\ UNCHANGED <<tasks, steps, cards, req>>
    BY <1>2 DEF WriteFollowup
  <2>2. Drafts' /\ AgreedDrafts'
    BY <2>1, DraftsLess
  <2>3. Typed'
    BY <1>2, WriteFollowupTyped
  <2>4. draft[r].status = OuterStatusOf(tasks[draft[r].task].status) /\ Fits(draft[r].task)
    BY <2>1 DEF AgreedDrafts
  <2>5. RowsAgree' /\ BothFit'
    BY <2>1, <2>4 DEF RowsAgree, BothFit, Fits
  <2>6. AllNumbered' /\ AllInFlight'
    BY <2>1 DEF AllNumbered, AllInFlight, InFlight, Present
  <2> QED
    BY <2>2, <2>3, <2>5, <2>6
<1>3. CASE DropFollowup(r)
  <2>1. draft' = [draft EXCEPT ![r] = NoOuter] /\ UNCHANGED <<outer, tasks, steps, newest, cards, req>>
    BY <1>3 DEF DropFollowup
  <2>2. Drafts' /\ AgreedDrafts'
    BY <2>1, DraftsLess
  <2> QED
    BY <2>1, <2>2 DEF Typed, TypeOK, Referenced, AllNumbered, AllInFlight, InFlight, BothFit, Fits, RowsAgree,
                      Present
<1> QED
  BY <1>1, <1>2, <1>3 DEF Followup

LEMMA SerialNext ==
    ASSUME SerialWhole, Serial, Onward, Next
    PROVE  SerialWhole'
<1>1. CASE Serve /\ UNCHANGED draft
  <2>1. SerialInv'
    BY <1>1, SerialServe DEF SerialWhole
  <2>2. CASE (\A r \in Requests : draft[r] = NoOuter) \/ UNCHANGED <<tasks, steps>>
    BY <1>1, <2>1, <2>2, DraftsKept DEF SerialWhole
  <2>3. ASSUME NEW t \in Tasks, ResumeTask(t)
        PROVE  SerialWhole'
    <3>1. \A u \in Tasks : Present(u) /\ Fits(u) =>
             Fits(u)' /\ Present(u)' /\ OuterStatusOf(tasks'[u].status) = OuterStatusOf(tasks[u].status)
      BY <2>3, ResumeAgrees DEF SerialWhole
    <3>2. ASSUME NEW r \in Requests, draft[r] # NoOuter
          PROVE  /\ draft[r].status # "none" /\ draft[r].task \in Tasks /\ Present(draft[r].task)'
                 /\ draft[r].status = OuterStatusOf(tasks'[draft[r].task].status)
                 /\ Fits(draft[r].task)'
      <4>1. PICK u \in Tasks :
              /\ u = draft[r].task /\ Present(u) /\ Fits(u) /\ draft[r].status # "none"
              /\ draft[r].status = OuterStatusOf(tasks[u].status)
        BY <3>2 DEF SerialWhole, Drafts, AgreedDrafts
      <4>2. Fits(u)' /\ Present(u)' /\ OuterStatusOf(tasks'[u].status) = OuterStatusOf(tasks[u].status)
        BY <3>1, <4>1
      <4>3. u = draft'[r].task /\ draft' = draft
        BY <1>1, <4>1
      <4> QED
        BY <4>1, <4>2, <4>3 DEF Fits, Present
    <3>3. Drafts'
      BY <1>1, <3>2 DEF SerialWhole, Drafts, Present
    <3>4. AgreedDrafts'
      BY <1>1, <3>2 DEF AgreedDrafts, Fits
    <3> QED
      BY <2>1, <3>3, <3>4 DEF SerialWhole
  <2>4. \/ \A r \in Requests : draft[r] = NoOuter
        \/ UNCHANGED <<tasks, steps>>
        \/ \E t \in Tasks : ResumeTask(t)
    BY <1>1, DraftsApart DEF SerialWhole, SerialInv, Serial
  <2> QED
    BY <2>2, <2>3, <2>4
<1>2. CASE \E r \in Requests : Followup(r)
  BY <1>2, SerialFollowup
<1> QED
  BY <1>1, <1>2 DEF Next

LEMMA SerialInit == Init => SerialWhole /\ Serial /\ Onward
<1> SUFFICES ASSUME Init PROVE SerialWhole /\ Serial /\ Onward
  OBVIOUS
<1>1. Typed
  BY InitTyped
<1>2. /\ AbsentTask.status = "absent" /\ AbsentTask.done = FALSE /\ NoOuter.status = "none" /\ Idle.pc = "idle"
  BY DEF AbsentTask, NoOuter, Idle
<1>3. /\ outer = NoOuter /\ newest = NoTask /\ \A t \in Tasks : tasks[t] = AbsentTask
      /\ \A r \in Requests : req[r] = Idle
  BY DEF Init
<1>4. AllNumbered /\ AllInFlight /\ BothFit /\ RowsAgree
  BY <1>2, <1>3 DEF AllNumbered, Present, AllInFlight, BothFit, RowsAgree
<1>5. NoOuter \in OuterStates /\ draft = [r \in Requests |-> NoOuter]
  BY DEF Init, NoOuter, OuterStates
<1>6. Serial /\ Onward
  BY <1>2, <1>3, <1>5 DEF Serial, FollowupsApart, Onward
<1>7. Drafts /\ AgreedDrafts
  BY <1>5 DEF Drafts, AgreedDrafts
<1> QED
  BY <1>1, <1>4, <1>6, <1>7 DEF SerialInv, SerialWhole

LEMMA SerialStutter == SerialWhole /\ UNCHANGED vars => SerialWhole'
<1> SUFFICES ASSUME SerialWhole, UNCHANGED vars PROVE SerialWhole'
  OBVIOUS
<1>1. UNCHANGED <<outer, tasks, steps, newest, cards, req, draft>>
  BY DEF vars
<1>2. SerialInv'
  BY <1>1 DEF SerialWhole, SerialInv, Typed, TypeOK, Referenced, AllNumbered, AllInFlight, InFlight, BothFit, Fits,
              RowsAgree, Present
<1>3. Drafts' /\ AgreedDrafts'
  BY <1>1, DraftsKept DEF SerialWhole
<1> QED
  BY <1>2, <1>3 DEF SerialWhole

\* While requests come one at a time and turns are numbered onward, the session
\* row and the row of its active task agree in every state, and a task has a
\* completion time exactly when it has succeeded: after failed turns, approvals
\* of left tasks, follow-ups (which may overlap each other and resumes) and
\* recoveries, whatever the width of a step's id.
THEOREM RowsTheorem == Spec /\ [](Serial /\ Onward) => []RowsAgree
<1>1. SerialWhole /\ Serial /\ Onward /\ [Next]_vars => SerialWhole'
  BY SerialNext, SerialStutter
<1>2. SerialWhole => RowsAgree
  BY DEF SerialWhole, SerialInv
<1> QED
  BY SerialInit, <1>1, <1>2, PTL DEF Spec

\* ... and so they do in the serial half of the checked instance.
THEOREM SerialRowsTheorem == MCSpec => []SerialRowsAgree
<1> DEFINE I == serial => SerialWhole /\ Serial /\ Onward
<1>1. MCInit => I
  BY SerialInit DEF MCInit
<1>2. I /\ [MCNext]_<<vars, serial>> => I'
  <2> SUFFICES ASSUME I, [MCNext]_<<vars, serial>>, serial' PROVE SerialWhole' /\ Serial' /\ Onward'
    OBVIOUS
  <2>1. CASE MCNext
    <3>1. serial /\ Next /\ Serial' /\ Onward'
      BY <2>1 DEF MCNext
    <3> QED
      BY <3>1, SerialNext
  <2>2. CASE UNCHANGED <<vars, serial>>
    <3>1. serial /\ UNCHANGED vars
      BY <2>2
    <3>2. SerialWhole /\ Serial /\ Onward
      BY <3>1
    <3>3. Serial' /\ Onward'
      BY <3>1, <3>2 DEF vars, Serial, FollowupsApart, Onward
    <3> QED
      BY <3>1, <3>2, <3>3, SerialStutter
  <2> QED
    BY <2>1, <2>2
<1>3. I => SerialRowsAgree
  BY DEF SerialWhole, SerialInv, SerialRowsAgree
<1> QED
  BY <1>1, <1>2, <1>3, PTL DEF MCSpec

----------------------------------------------------------------------------
(* The stages of a task.  The plan is read when a request commits, which   *)
(* is what the code does as long as requests come one at a time.           *)

StageFields == {"status", "done", "out", "got"}

\* A plan of five stages, of which only the first may wait for the user.
Shaped(plan) ==
    /\ DOMAIN plan = Stages
    /\ \A i \in Stages : DOMAIN plan[i] = StageFields /\ (i # 1 => plan[i].status # "waiting_user")

\* A plan that was gone through: goal, answer, nothing left to do, and every handoff received.
Ran(plan) ==
    /\ plan[1].status = "succeeded" /\ plan[5].status = "succeeded"
    /\ \A i \in Stages : plan[i].status \notin {"pending", "waiting_user"}
    /\ \A i \in Stages \ {1} : plan[i - 1].out # NoHandoff => plan[i].got = plan[i - 1].out

RowFields == {"status", "step", "done"}

ShapeInv ==
    /\ DOMAIN tasks = Tasks /\ DOMAIN plans = Tasks
    /\ \A t \in Tasks : DOMAIN tasks[t] = RowFields /\ Shaped(plans[t])
    /\ \A t \in Tasks : tasks[t].status = "succeeded" => Ran(plans[t])

LEMMA StatusSet ==
    ASSUME NEW stage, DOMAIN stage = StageFields, NEW status
    PROVE  LET new == _set_plan_stage_status(stage, status)
           IN  /\ DOMAIN new = StageFields /\ new.status = status
               /\ new.out = stage.out /\ new.got = stage.got
BY DEF _set_plan_stage_status, StageFields

LEMMA StageCompleted ==
    ASSUME NEW plan, Shaped(plan), NEW i \in Stages, NEW status, i # 1 => status # "waiting_user", NEW n
    PROVE  LET new == _complete_plan_stage(plan, i, status, n)
           IN  Shaped(new) /\ new[i].status = status /\ \A j \in Stages \ {i} : new[j] = plan[j]
<1> DEFINE set == _set_plan_stage_status(plan[i], status)
           handed == [set EXCEPT !.out = n]
           new == _complete_plan_stage(plan, i, status, n)
<1>1. DOMAIN plan[i] = StageFields
  BY DEF Shaped
<1>2. DOMAIN set = StageFields /\ set.status = status
  BY <1>1, StatusSet
<1>3. new \in {[plan EXCEPT ![i] = handed], [plan EXCEPT ![i] = set]}
  BY DEF _complete_plan_stage
<1> HIDE DEF set, new
<1>4. DOMAIN handed = StageFields /\ handed.status = status
  BY <1>2 DEF StageFields
<1> HIDE DEF handed
<1>5. /\ DOMAIN new = Stages /\ new[i] \in {handed, set}
      /\ \A j \in Stages \ {i} : new[j] = plan[j]
  BY <1>3 DEF Shaped
<1> QED
  BY <1>2, <1>4, <1>5 DEF Shaped, new

LEMMA PlanStartedShape ==
    ASSUME NEW plan, Shaped(plan)
    PROVE  Shaped(_mark_outer_task_stage_started(plan))
<1> DEFINE set == _set_plan_stage_status(plan[1], "running")
<1>1. DOMAIN plan[1] = StageFields /\ 1 \in Stages
  BY DEF Shaped, Stages
<1>2. DOMAIN set = StageFields
  BY <1>1, StatusSet
<1>3. _mark_outer_task_stage_started(plan) \in {plan, [plan EXCEPT ![1] = set]}
  BY <1>1 DEF _mark_outer_task_stage_started, Shaped
<1> HIDE DEF set
<1> QED
  BY <1>1, <1>2, <1>3 DEF Shaped

LEMMA PreparedShape ==
    ASSUME NEW plan, Shaped(plan)
    PROVE  Shaped(_prepare_failed_stage_for_loop_recovery(plan))
<1> DEFINE failed == {i \in Stages : plan[i].status = "failed"}
           first == CHOOSE i \in failed : \A j \in failed : i <= j
           again(i) == i > first /\ plan[i].status \notin {"pending", "running"}
           Stage(i) == IF i = first THEN [plan[i] EXCEPT !.status = "running", !.done = FALSE]
                       ELSE IF again(i) THEN [plan[i] EXCEPT !.status = "pending", !.done = FALSE]
                       ELSE plan[i]
           new == _prepare_failed_stage_for_loop_recovery(plan)
<1>1. new = (IF failed = {} THEN plan ELSE [i \in Stages |-> Stage(i)])
  BY DEF _prepare_failed_stage_for_loop_recovery
<1>2. ASSUME NEW i \in Stages
      PROVE  DOMAIN Stage(i) = StageFields /\ (i # 1 => Stage(i).status # "waiting_user")
  <2>1. DOMAIN plan[i] = StageFields /\ (i # 1 => plan[i].status # "waiting_user")
    BY DEF Shaped
  <2> HIDE DEF first, failed
  <2> QED
    BY <2>1 DEF StageFields
<1> HIDE DEF Stage, new, failed
<1> QED
  BY <1>1, <1>2 DEF Shaped, new

\* The calls of a turn leave no stage pending or waiting that has one.
LEMMA LoggedShape ==
    ASSUME NEW plan, Shaped(plan), NEW logs, NEW n
    PROVE  LET new == Logged(plan, logs, n)
               called == {_plan_stage_index_for_tool_name(logs[k].tool) : k \in DOMAIN logs}
           IN  /\ Shaped(new) /\ new[1] = plan[1]
               /\ \A i \in Stages : i \in called => new[i].status \notin {"pending", "waiting_user"}
               /\ \A i \in Stages : i \notin called => new[i] = plan[i]
<1> DEFINE index(k) == _plan_stage_index_for_tool_name(logs[k].tool)
           calls(i) == {k \in DOMAIN logs : index(k) = i}
           last(i) == CHOOSE k \in calls(i) : \A j \in calls(i) : j <= k
           status(k) == _plan_stage_status_from_tool_status(logs[k].status)
           set(i) == _set_plan_stage_status(plan[i], status(last(i)))
           out(i) == IF n # NoHandoff /\ \E k \in calls(i) : status(k) # "running" THEN n ELSE set(i).out
           new == Logged(plan, logs, n)
<1>1. new = [i \in Stages |-> IF calls(i) = {} THEN plan[i] ELSE [set(i) EXCEPT !.out = out(i)]]
  BY DEF Logged
<1>2. ASSUME NEW k PROVE status(k) \in {"succeeded", "failed", "running"}
  BY DEF _plan_stage_status_from_tool_status
<1>3. ASSUME NEW k PROVE index(k) \in {0, 2, 3}
  BY DEF _plan_stage_index_for_tool_name
<1>4. \A i : calls(i) = {} <=> i \notin {index(k) : k \in DOMAIN logs}
  OBVIOUS
<1> HIDE DEF index, status
<1>5. calls(1) = {} /\ 1 \in Stages
  BY <1>3 DEF Stages
<1> HIDE DEF calls, last
<1>6. ASSUME NEW i \in Stages
      PROVE  /\ DOMAIN [set(i) EXCEPT !.out = out(i)] = StageFields
             /\ [set(i) EXCEPT !.out = out(i)].status \in {"succeeded", "failed", "running"}
  <2> DEFINE st == status(last(i))
  <2>1. st \in {"succeeded", "failed", "running"} /\ DOMAIN plan[i] = StageFields
    BY <1>2 DEF Shaped
  <2>2. set(i) = _set_plan_stage_status(plan[i], st)
    OBVIOUS
  <2> HIDE DEF st, set, out
  <2>3. DOMAIN set(i) = StageFields /\ set(i).status = st
    BY <2>1, <2>2, StatusSet
  <2> QED
    BY <2>1, <2>3 DEF StageFields
<1> DEFINE booked(i) == [set(i) EXCEPT !.out = out(i)]
<1>7. /\ new = [i \in Stages |-> IF calls(i) = {} THEN plan[i] ELSE booked(i)]
      /\ \A i \in Stages : DOMAIN booked(i) = StageFields
                           /\ booked(i).status \in {"succeeded", "failed", "running"}
  BY <1>1, <1>6
<1> HIDE DEF booked, set, out, new
<1>8. /\ DOMAIN new = Stages
      /\ \A i \in Stages : new[i] = IF calls(i) = {} THEN plan[i] ELSE booked(i)
  BY <1>7
<1>9. Shaped(new)
  BY <1>7, <1>8 DEF Shaped
<1>10. \A i \in Stages : calls(i) # {} => new[i].status \notin {"pending", "waiting_user"}
  BY <1>7, <1>8
<1> QED
  BY <1>4, <1>5, <1>8, <1>9, <1>10 DEF new, index

\* Handing over changes nothing but what a stage received.
LEMMA HandedOver ==
    ASSUME NEW plan, Shaped(plan)
    PROVE  LET new == _sync_plan_stage_handoffs(plan)
           IN  /\ Shaped(new) /\ \A i \in Stages : new[i].status = plan[i].status
               /\ \A i \in Stages \ {1} : new[i - 1].out # NoHandoff => new[i].got = new[i - 1].out
<1> DEFINE got(i) == [plan[i] EXCEPT !.got = plan[i - 1].out]
           takes(i) == i > 1 /\ plan[i - 1].out # NoHandoff
           new == _sync_plan_stage_handoffs(plan)
<1>1. new = [i \in Stages |-> IF takes(i) THEN got(i) ELSE plan[i]]
  BY DEF _sync_plan_stage_handoffs
<1>2. ASSUME NEW i \in Stages
      PROVE  /\ DOMAIN got(i) = StageFields /\ got(i).status = plan[i].status /\ got(i).out = plan[i].out
             /\ got(i).got = plan[i - 1].out
  <2>1. DOMAIN plan[i] = StageFields
    BY DEF Shaped
  <2> QED
    BY <2>1 DEF StageFields
<1> HIDE DEF got, new
<1>3. DOMAIN new = Stages /\ \A i \in Stages : new[i] = IF takes(i) THEN got(i) ELSE plan[i]
  BY <1>1
<1>4. \A i \in Stages : new[i].status = plan[i].status /\ new[i].out = plan[i].out
                        /\ DOMAIN new[i] = StageFields
  BY <1>2, <1>3 DEF Shaped
<1>5. Shaped(new)
  BY <1>3, <1>4 DEF Shaped
<1>6. ASSUME NEW i \in Stages \ {1}, new[i - 1].out # NoHandoff
      PROVE  new[i].got = new[i - 1].out
  <2>1. i > 1 /\ i - 1 \in Stages
    BY DEF Stages
  <2>2. new[i - 1].out = plan[i - 1].out
    BY <1>4, <2>1
  <2>3. new[i] = got(i)
    BY <1>3, <1>6, <2>1, <2>2
  <2> QED
    BY <1>2, <2>2, <2>3
<1> QED
  BY <1>4, <1>5, <1>6 DEF new

\* What is still pending is skipped, unless the turn went through it.
LEMMA SkippedShape ==
    ASSUME NEW plan, Shaped(plan), NEW touched, 1 \in touched
    PROVE  LET new == Skipped(plan, touched)
           IN  /\ Shaped(new) /\ \A i \in Stages : i \in touched => new[i] = plan[i]
               /\ \A i \in Stages : i \notin touched => new[i].status \notin {"pending", "waiting_user"}
<1> DEFINE skip(i) == _skip_pending_plan_stage(plan[i])
           new == Skipped(plan, touched)
<1>1. new = [i \in Stages |-> IF i \in touched THEN plan[i] ELSE skip(i)]
  BY DEF Skipped
<1>2. ASSUME NEW i \in Stages, i \notin touched
      PROVE  DOMAIN skip(i) = StageFields /\ skip(i).status \notin {"pending", "waiting_user"}
  <2>1. DOMAIN plan[i] = StageFields /\ plan[i].status # "waiting_user"
    BY <1>2 DEF Shaped
  <2> DEFINE set == _set_plan_stage_status(plan[i], "skipped")
  <2>2. DOMAIN set = StageFields /\ set.status = "skipped"
    BY <2>1, StatusSet
  <2>3. skip(i) = (IF plan[i].status = "pending" THEN set ELSE plan[i])
    BY DEF _skip_pending_plan_stage
  <2> HIDE DEF set, skip
  <2> QED
    BY <2>1, <2>2, <2>3
<1> HIDE DEF skip, new
<1>3. DOMAIN new = Stages /\ \A i \in Stages : new[i] = IF i \in touched THEN plan[i] ELSE skip(i)
  BY <1>1
<1>4. Shaped(new)
  BY <1>2, <1>3 DEF Shaped
<1> QED
  BY <1>2, <1>3, <1>4 DEF new

\* A turn that answers goes through the whole plan.
LEMMA FinishedRan ==
    ASSUME NEW plan, Shaped(plan), NEW n, NEW did
    PROVE  LET new == _sync_outer_task_stage_execution(plan, n, "finished", did)
           IN  Shaped(new) /\ Ran(new)
<1> DEFINE goal == _complete_plan_stage(plan, 1, "succeeded", NoHandoff)
           logged == Logged(goal, did.logs, n)
           tools == {_plan_stage_index_for_tool_name(did.logs[k].tool) : k \in DOMAIN did.logs}
           called == {1} \cup tools
           thought == did.history \ (called \cup {5})
           reported == [i \in Stages |-> IF i \in thought THEN _set_plan_stage_status(logged[i], "succeeded")
                                         ELSE logged[i]]
           answered == _complete_plan_stage(reported, 5, "succeeded", n)
           touched == called \cup thought \cup {5}
           skipped == Skipped(answered, touched)
           new == _sync_outer_task_stage_execution(plan, n, "finished", did)
<1>1. new = _sync_plan_stage_handoffs(skipped)
  BY DEF _sync_outer_task_stage_execution
<1>2. 1 \in Stages /\ 5 \in Stages
  BY DEF Stages
<1>3. Shaped(goal) /\ goal[1].status = "succeeded"
  BY <1>2, StageCompleted
<1> HIDE DEF goal
<1>4. /\ Shaped(logged) /\ logged[1] = goal[1]
      /\ \A i \in Stages : i \in tools => logged[i].status \notin {"pending", "waiting_user"}
  BY <1>3, LoggedShape
<1> HIDE DEF logged, tools
<1>5. /\ Shaped(reported) /\ reported[1] = logged[1]
      /\ \A i \in Stages : i \in thought => reported[i].status = "succeeded"
      /\ \A i \in Stages : i \notin thought => reported[i] = logged[i]
  <2> DEFINE set(i) == _set_plan_stage_status(logged[i], "succeeded")
  <2>1. ASSUME NEW i \in Stages PROVE DOMAIN set(i) = StageFields /\ set(i).status = "succeeded"
    BY <1>4, StatusSet DEF Shaped
  <2> HIDE DEF set
  <2>2. reported = [i \in Stages |-> IF i \in thought THEN set(i) ELSE logged[i]]
    BY DEF set
  <2> HIDE DEF reported
  <2>3. DOMAIN reported = Stages /\ \A i \in Stages : reported[i] = IF i \in thought THEN set(i) ELSE logged[i]
    BY <2>2
  <2> QED
    BY <1>2, <1>4, <2>1, <2>3 DEF Shaped
<1> HIDE DEF reported
<1>6. /\ Shaped(answered) /\ answered[5].status = "succeeded"
      /\ \A i \in Stages \ {5} : answered[i] = reported[i]
  BY <1>2, <1>5, StageCompleted
<1> HIDE DEF answered
<1>7. /\ Shaped(skipped) /\ \A i \in Stages : i \in touched => skipped[i] = answered[i]
      /\ \A i \in Stages : i \notin touched => skipped[i].status \notin {"pending", "waiting_user"}
  BY <1>6, SkippedShape
<1> HIDE DEF skipped, new
<1>8. /\ Shaped(new) /\ \A i \in Stages : new[i].status = skipped[i].status
      /\ \A i \in Stages \ {1} : new[i - 1].out # NoHandoff => new[i].got = new[i - 1].out
  BY <1>1, <1>7, HandedOver
<1>9. skipped[1].status = "succeeded" /\ skipped[5].status = "succeeded"
  BY <1>2, <1>3, <1>4, <1>5, <1>6, <1>7
<1>10. ASSUME NEW i \in Stages PROVE skipped[i].status \notin {"pending", "waiting_user"}
  <2>1. CASE i \in {1, 5}
    BY <1>9, <2>1
  <2>2. CASE i \notin {1, 5} /\ i \in touched
    BY <1>4, <1>5, <1>6, <1>7, <2>2
  <2>3. CASE i \notin touched
    BY <1>7, <2>3
  <2> QED
    BY <2>1, <2>2, <2>3
<1> QED
  BY <1>2, <1>8, <1>9, <1>10 DEF Ran, new

\* A turn that waits for the user waits in the first stage.
LEMMA WaitingWaits ==
    ASSUME NEW plan, Shaped(plan), NEW n, NEW did
    PROVE  LET new == _sync_outer_task_stage_execution(plan, n, "waiting_user", did)
           IN  Shaped(new) /\ new[1].status = "waiting_user"
<1>1. _sync_outer_task_stage_execution(plan, n, "waiting_user", did)
      = _complete_plan_stage(plan, 1, "waiting_user", n)
  BY DEF _sync_outer_task_stage_execution
<1>2. 1 \in Stages
  BY DEF Stages
<1> QED
  BY <1>1, <1>2, StageCompleted

LEMMA ExecutedShape ==
    ASSUME NEW plan, Shaped(plan), NEW n, NEW result \in Results, NEW did
    PROVE  LET new == Executed(plan, n, result, did)
           IN  /\ Shaped(new)
               /\ result = "finished" => Ran(new)
               /\ result = "waiting_user" => new[1].status = "waiting_user"
<1> DEFINE begun == _mark_outer_task_stage_started(plan)
<1>1. Shaped(begun)
  BY PlanStartedShape
<1>2. Executed(plan, n, result, did) = _sync_outer_task_stage_execution(begun, n, result, did)
  BY DEF Executed
<1> HIDE DEF begun
<1> QED
  BY <1>1, <1>2, FinishedRan, WaitingWaits DEF Results

----------------------------------------------------------------------------
(* Every step of the plan and of the turns keeps them in step.             *)

\* What changes a task's row or plan leaves a row, a plan, and a succeeded task gone through.
LEMMA ShapeStep ==
    ASSUME ShapeInv, DOMAIN tasks' = Tasks, DOMAIN plans' = Tasks,
           \A t \in Tasks :
              \/ tasks'[t] = tasks[t] /\ plans'[t] = plans[t]
              \/ /\ DOMAIN tasks'[t] = RowFields /\ Shaped(plans'[t])
                 /\ tasks'[t].status = "succeeded" => Ran(plans'[t])
    PROVE  ShapeInv'
BY DEF ShapeInv, Shaped, Ran

LEMMA CompletedRow ==
    ASSUME NEW row, NEW n, NEW seen, NEW result \in Results
    PROVE  LET new == CompletedTask(row, n, seen, result)
           IN  /\ DOMAIN new = RowFields
               /\ result = "finished" => new.status = "succeeded"
               /\ result = "waiting_user" => new.status = "waiting_user"
BY DEF CompletedTask, StepStatus, RowFields, Results

LEMMA ShapeStarted ==
    ASSUME ShapeInv, NEW r \in Requests, PlanStarted(r)
    PROVE  ShapeInv'
<1> DEFINE t == req[r].mine.task
           row == StartedTask(tasks[t], req[r].turn)
           plan == _mark_outer_task_stage_started(plans[t])
<1>1. tasks' = [tasks EXCEPT ![t] = row] /\ plans' = [plans EXCEPT ![t] = plan]
  BY DEF PlanStarted, CommitStart
<1>2. ASSUME t \in Tasks PROVE DOMAIN row = RowFields /\ row.status = "running" /\ Shaped(plan)
  <2>1. DOMAIN tasks[t] = RowFields /\ Shaped(plans[t])
    BY <1>2 DEF ShapeInv
  <2>2. DOMAIN row = RowFields /\ row.status = "running"
    BY <2>1 DEF StartedTask, RowFields
  <2> QED
    BY <2>1, <2>2, PlanStartedShape
<1> HIDE DEF t, row, plan
<1>3. /\ DOMAIN tasks' = Tasks /\ DOMAIN plans' = Tasks
      /\ \A u \in Tasks : /\ u # t => tasks'[u] = tasks[u] /\ plans'[u] = plans[u]
                          /\ u = t => tasks'[u] = row /\ plans'[u] = plan
  BY <1>1 DEF ShapeInv
<1>4. \A u \in Tasks :
         \/ tasks'[u] = tasks[u] /\ plans'[u] = plans[u]
         \/ /\ DOMAIN tasks'[u] = RowFields /\ Shaped(plans'[u])
            /\ tasks'[u].status = "succeeded" => Ran(plans'[u])
  BY <1>2, <1>3
<1> QED
  BY <1>3, <1>4, ShapeStep

LEMMA ShapeEnded ==
    ASSUME ShapeInv, NEW r \in Requests, NEW result \in Results, NEW did, PlanEnded(r, result, did)
    PROVE  ShapeInv'
<1> DEFINE t == req[r].mine.task
           row == CompletedTask(tasks[t], req[r].turn, req[r].done, result)
           plan == Executed(plans[t], req[r].turn, result, did)
<1>1. tasks' = [tasks EXCEPT ![t] = row] /\ plans' = [plans EXCEPT ![t] = plan]
  BY DEF PlanEnded, EndApproval, EndTurn
<1>2. ASSUME t \in Tasks
      PROVE  /\ DOMAIN row = RowFields /\ Shaped(plan)
             /\ row.status = "succeeded" => Ran(plan)
  <2>1. Shaped(plans[t])
    BY <1>2 DEF ShapeInv
  <2>2. Shaped(plan) /\ (result = "finished" => Ran(plan))
    BY <2>1, ExecutedShape
  <2>3. DOMAIN row = RowFields /\ (result = "waiting_user" => row.status = "waiting_user")
    BY CompletedRow
  <2> HIDE DEF t, row, plan
  <2> QED
    BY <2>2, <2>3 DEF Results
<1> HIDE DEF t, row, plan
<1>3. /\ DOMAIN tasks' = Tasks /\ DOMAIN plans' = Tasks
      /\ \A u \in Tasks : /\ u # t => tasks'[u] = tasks[u] /\ plans'[u] = plans[u]
                          /\ u = t => tasks'[u] = row /\ plans'[u] = plan
  BY <1>1 DEF ShapeInv
<1>4. \A u \in Tasks :
         \/ tasks'[u] = tasks[u] /\ plans'[u] = plans[u]
         \/ /\ DOMAIN tasks'[u] = RowFields /\ Shaped(plans'[u])
            /\ tasks'[u].status = "succeeded" => Ran(plans'[u])
  BY <1>2, <1>3
<1> QED
  BY <1>3, <1>4, ShapeStep

LEMMA ShapeRecovered ==
    ASSUME ShapeInv, NEW r \in Requests, NEW result \in Results, NEW did, PlanRecovered(r, result, did)
    PROVE  ShapeInv'
<1> DEFINE t == req[r].mine.task
           g == req[r].target
           again == Reissued(req[r].resume)
           tmid == [tasks EXCEPT ![g] = again]
           row == CompletedTask(tmid[t], req[r].turn, req[r].done, result)
           prepared == _prepare_failed_stage_for_loop_recovery(plans[g])
           pmid == [plans EXCEPT ![g] = prepared]
           plan == Executed(pmid[t], req[r].turn, result, did)
<1>1. tasks' = [tmid EXCEPT ![t] = row] /\ plans' = [pmid EXCEPT ![t] = plan]
  BY DEF PlanRecovered, EndRecovery
<1>2. DOMAIN again = RowFields /\ again.status = "running"
  BY DEF Reissued, RowFields
<1>3. DOMAIN row = RowFields /\ (result = "waiting_user" => row.status = "waiting_user")
  <2> HIDE DEF tmid
  <2> QED
    BY CompletedRow
<1>4. g \in Tasks => Shaped(prepared)
  BY PreparedShape DEF ShapeInv
<1> HIDE DEF t, g, again, row, prepared
<1>5. /\ DOMAIN tmid = Tasks /\ DOMAIN pmid = Tasks
      /\ \A u \in Tasks : /\ u # g => tmid[u] = tasks[u] /\ pmid[u] = plans[u]
                          /\ u = g => tmid[u] = again /\ pmid[u] = prepared
  BY DEF ShapeInv
<1> HIDE DEF tmid, pmid
<1>6. ASSUME t \in Tasks PROVE Shaped(plan) /\ (result = "finished" => Ran(plan))
  <2>1. Shaped(pmid[t])
    BY <1>4, <1>5, <1>6 DEF ShapeInv
  <2> QED
    BY <2>1, ExecutedShape
<1> HIDE DEF plan
<1>7. /\ DOMAIN tasks' = Tasks /\ DOMAIN plans' = Tasks
      /\ \A u \in Tasks : /\ u # t => tasks'[u] = tmid[u] /\ plans'[u] = pmid[u]
                          /\ u = t => tasks'[u] = row /\ plans'[u] = plan
  BY <1>1, <1>5
<1>8. \A u \in Tasks :
         \/ tasks'[u] = tasks[u] /\ plans'[u] = plans[u]
         \/ /\ DOMAIN tasks'[u] = RowFields /\ Shaped(plans'[u])
            /\ tasks'[u].status = "succeeded" => Ran(plans'[u])
  <2> SUFFICES ASSUME NEW u \in Tasks
               PROVE  \/ tasks'[u] = tasks[u] /\ plans'[u] = plans[u]
                      \/ /\ DOMAIN tasks'[u] = RowFields /\ Shaped(plans'[u])
                         /\ tasks'[u].status = "succeeded" => Ran(plans'[u])
    OBVIOUS
  <2>1. CASE u = t
    BY <1>3, <1>6, <1>7, <2>1 DEF Results
  <2>2. CASE u # t /\ u = g
    BY <1>2, <1>4, <1>5, <1>7, <2>2
  <2>3. CASE u # t /\ u # g
    BY <1>5, <1>7, <2>3
  <2> QED
    BY <2>1, <2>2, <2>3
<1> QED
  BY <1>7, <1>8, ShapeStep

LEMMA ShapeResume ==
    ASSUME ShapeInv, NEW t \in Tasks, ResumeTask(t), UNCHANGED plans
    PROVE  ShapeInv'
<1> DEFINE again == Reissued(NextSeq(t))
           Row(status) == [[tasks[t] EXCEPT !.status = status] EXCEPT !.step = LatestStep(steps[t]).id]
<1>1. DOMAIN tasks = Tasks /\ DOMAIN tasks[t] = RowFields
  BY DEF ShapeInv
<1>2. \/ tasks' = [tasks EXCEPT ![t] = again]
      \/ \E status \in {"waiting_user", "planning"} : tasks' = [tasks EXCEPT ![t] = Row(status)]
      \/ UNCHANGED tasks
  <2>1. ASSUME NEW status,
               tasks' = [tasks EXCEPT ![t].status = status, ![t].step = LatestStep(steps[t]).id]
        PROVE  tasks' = [tasks EXCEPT ![t] = Row(status)]
    BY <1>1, <2>1
  <2> HIDE DEF Row
  <2> QED
    BY <2>1 DEF ResumeTask
<1>3. DOMAIN again = RowFields /\ again.status = "running"
  BY DEF Reissued, RowFields
<1>4. ASSUME NEW status PROVE DOMAIN Row(status) = RowFields /\ Row(status).status = status
  BY <1>1 DEF RowFields
<1> HIDE DEF again, Row
<1>5. CASE UNCHANGED tasks
  BY <1>5 DEF ShapeInv
<1>6. ASSUME NEW row, DOMAIN row = RowFields, row.status # "succeeded", tasks' = [tasks EXCEPT ![t] = row]
      PROVE  ShapeInv'
  <2>1. /\ DOMAIN tasks' = Tasks /\ DOMAIN plans' = Tasks /\ tasks'[t] = row /\ plans' = plans
        /\ \A u \in Tasks : u # t => tasks'[u] = tasks[u]
    BY <1>1, <1>6 DEF ShapeInv
  <2>2. Shaped(plans'[t])
    BY <2>1 DEF ShapeInv
  <2>3. \A u \in Tasks :
           \/ tasks'[u] = tasks[u] /\ plans'[u] = plans[u]
           \/ /\ DOMAIN tasks'[u] = RowFields /\ Shaped(plans'[u])
              /\ tasks'[u].status = "succeeded" => Ran(plans'[u])
    BY <1>6, <2>1, <2>2
  <2> QED
    BY <2>1, <2>3, ShapeStep
<1> QED
  BY <1>2, <1>3, <1>4, <1>5, <1>6

LEMMA ShapeNext == ShapeInv /\ [PlanNext]_planVars => ShapeInv'
<1> SUFFICES ASSUME ShapeInv, [PlanNext]_planVars PROVE ShapeInv'
  OBVIOUS
<1>1. ASSUME UNCHANGED <<tasks, plans>> PROVE ShapeInv'
  BY <1>1 DEF ShapeInv
<1>2. ASSUME NEW r \in Requests, Begin(r) \/ Fail(r), UNCHANGED plans PROVE ShapeInv'
  BY <1>1, <1>2 DEF Begin, BeginTurn, BeginApproval, BeginRecovery, Fail
<1>3. ASSUME NEW r \in Requests, Followup(r), UNCHANGED plans PROVE ShapeInv'
  BY <1>1, <1>3 DEF Followup, ReadFollowup, WriteFollowup, DropFollowup
<1>4. CASE UNCHANGED planVars
  BY <1>1, <1>4 DEF planVars, vars
<1>5. CASE PlanNext
  BY <1>2, <1>3, <1>5, ShapeStarted, ShapeEnded, ShapeRecovered, ShapeResume DEF PlanNext, PlanServe
<1> QED
  BY <1>4, <1>5

LEMMA ShapeInit == PlanInit => ShapeInv
<1> SUFFICES ASSUME PlanInit PROVE ShapeInv
  OBVIOUS
<1>1. DOMAIN AbsentTask = RowFields /\ AbsentTask.status = "absent"
  BY DEF AbsentTask, RowFields
<1>2. Shaped(_ensure_outer_task_stage_plan)
  BY DEF Shaped, _ensure_outer_task_stage_plan, NewStage, StageFields
<1>3. tasks = [t \in Tasks |-> AbsentTask] /\ plans = [t \in Tasks |-> _ensure_outer_task_stage_plan]
  BY DEF PlanInit, Init
<1> QED
  BY <1>1, <1>2, <1>3 DEF ShapeInv

\* When a task has succeeded, every stage has received what the stage it depends
\* on last handed over, whatever the turns called, after any number of failed
\* turns, approvals and recoveries.
THEOREM HandoffsTheorem == PlanSpec => []HandoffsArrive
<1>1. ShapeInv => HandoffsArrive
  BY DEF ShapeInv, Ran, HandoffsArrive
<1> QED
  BY ShapeInit, ShapeNext, <1>1, PTL DEF PlanSpec

----------------------------------------------------------------------------
(* The plan beside its task, one request at a time.                        *)

AllFit == \A t \in Tasks : Present(t) => Fits(t)

\* When the session waits on another task than the row updated last, nothing of that row can be reissued.
Led == /\ outer.status = "waiting_user" /\ newest # NoTask /\ newest # outer.task
       => LatestStep(steps[newest]).status # "running"

\* So a recovery runs on the task it recovers.
Aimed == \A r \in Requests : req[r].kind = "recovery" => req[r].target = req[r].mine.task

Waits == \A t \in Tasks : tasks[t].status = "waiting_user" => plans[t][1].status = "waiting_user"

PlanInv == SerialInv /\ ShapeInv /\ AllFit /\ Led /\ Aimed /\ Waits
PlanWhole == PlanInv /\ Drafts /\ AgreedDrafts

LEMMA PlanBegins ==
    ASSUME PlanInv, NEW r \in Requests, NEW q, q.kind = "recovery" => q.target = q.mine.task,
           req' = [req EXCEPT ![r] = q], UNCHANGED <<outer, tasks, steps, newest, plans>>
    PROVE  AllFit' /\ Led' /\ Aimed' /\ Waits'
<1> USE DEF PlanInv
<1>1. \A p \in Requests : req'[p] = IF p = r THEN q ELSE req[p]
  BY DEF SerialInv, Typed, TypeOK
<1>2. Aimed'
  BY <1>1 DEF Aimed
<1>3. AllFit' /\ Led' /\ Waits'
  BY DEF AllFit, Present, Fits, Led, Waits
<1> QED
  BY <1>2, <1>3

\* A step that leaves session and rows on one task t disturbs no other.
LEMMA OnOneTask ==
    ASSUME PlanInv, SerialInv', NEW t \in Tasks, outer'.task = t, newest' = t,
           \A u \in Tasks : u # t => tasks'[u] = tasks[u] /\ steps'[u] = steps[u] /\ plans'[u] = plans[u],
           tasks'[t].status = "waiting_user" => plans'[t][1].status = "waiting_user"
    PROVE  AllFit' /\ Led' /\ Waits'
<1> USE DEF PlanInv
<1>1. newest' # NoTask
  BY TaskFacts
<1>2. TopFits(tasks'[t].status, LatestStep(steps'[t]))
  BY <1>1 DEF SerialInv, BothFit, Fits
<1>3. ASSUME NEW u \in Tasks, Present(u)' PROVE TopFits(tasks'[u].status, LatestStep(steps'[u]))
  <2>1. CASE u = t
    BY <1>2, <2>1
  <2>2. CASE u # t
    BY <1>3, <2>2 DEF AllFit, Present, Fits
  <2> QED
    BY <2>1, <2>2
<1>4. AllFit'
  BY <1>3 DEF AllFit, Fits
<1>5. Led' /\ Waits'
  BY DEF Led, Waits
<1> QED
  BY <1>4, <1>5

LEMMA NoneAimed ==
    ASSUME PlanInv, NEW r \in Requests, req' = [req EXCEPT ![r] = Idle]
    PROVE  Aimed'
<1>1. \A p \in Requests : req'[p] = IF p = r THEN Idle ELSE req[p]
  BY DEF PlanInv, SerialInv, Typed, TypeOK
<1> QED
  BY <1>1 DEF PlanInv, Aimed, Idle

LEMMA MatchStarted ==
    ASSUME PlanInv, SerialInv', NEW r \in Requests, PlanStarted(r)
    PROVE  AllFit' /\ Led' /\ Aimed' /\ Waits'
<1> USE DEF PlanInv
<1> DEFINE t == req[r].mine.task
           row == StartedTask(tasks[t], req[r].turn)
<1>1. /\ CommitStart(r) /\ req[r].pc = "running"
      /\ plans' = [plans EXCEPT ![t] = _mark_outer_task_stage_started(@)]
  BY DEF PlanStarted, CommitStart
<1>2. /\ tasks \in [Tasks -> TaskRows] /\ steps \in [Tasks -> SUBSET StepRows] /\ t \in Tasks
      /\ req[r].turn \in Nat /\ DOMAIN plans = Tasks
  BY <1>1 DEF SerialInv, Typed, TypeOK, Referenced, Flights, ShapeInv
<1>3. /\ outer' = req[r].mine /\ newest' = t /\ tasks' = [tasks EXCEPT ![t] = row]
      /\ steps' = [steps EXCEPT ![t] = StartedSteps(@, req[r].turn)]
  BY <1>1 DEF CommitStart
<1>4. row.status = "running"
  BY <1>2, StartedTyped
<1> HIDE DEF row
<1>5. /\ \A u \in Tasks : u # t => tasks'[u] = tasks[u] /\ steps'[u] = steps[u] /\ plans'[u] = plans[u]
      /\ tasks'[t].status = "running" /\ outer'.task = t
  BY <1>1, <1>2, <1>3, <1>4
<1>6. AllFit' /\ Led' /\ Waits'
  <2> HIDE DEF t, PlanInv
  <2> QED
    BY <1>2, <1>3, <1>5, OnOneTask
<1>7. Aimed'
  <2>1. req'[r].kind = "stream" /\ \A p \in Requests : p # r => req'[p] = req[p]
    BY <1>1, CommitStartTyped DEF SerialInv
  <2> QED
    BY <2>1 DEF Aimed
<1> QED
  BY <1>6, <1>7

LEMMA MatchEnded ==
    ASSUME PlanInv, SerialInv', NEW r \in Requests, NEW result \in Results, NEW did, PlanEnded(r, result, did)
    PROVE  AllFit' /\ Led' /\ Aimed' /\ Waits'
<1> USE DEF PlanInv
<1> DEFINE t == req[r].mine.task
           n == req[r].turn
           row == CompletedTask(tasks[t], n, req[r].done, result)
           plan == Executed(plans[t], n, result, did)
<1>1. Booked(r, t, n, result) /\ req[r].pc # "idle"
  <2>1. CASE EndApproval(r, result)
    BY <2>1, EndApprovalFacts DEF SerialInv
  <2>2. ASSUME NEW asks \in BOOLEAN, EndTurn(r, result, asks)
        PROVE  Booked(r, t, n, result) /\ req[r].pc # "idle"
    BY <2>2, EndTurnFacts DEF SerialInv
  <2> QED
    BY <2>1, <2>2 DEF PlanEnded
<1>2. /\ tasks \in [Tasks -> TaskRows] /\ steps \in [Tasks -> SUBSET StepRows] /\ t \in Tasks
      /\ DOMAIN plans = Tasks /\ Shaped(plans[t])
  BY <1>1 DEF SerialInv, Typed, TypeOK, Referenced, ShapeInv
<1>3. /\ outer'.task = t /\ newest' = t /\ tasks' = [tasks EXCEPT ![t] = row]
      /\ steps' = [steps EXCEPT ![t] = CompletedSteps(steps[t], n, result)]
      /\ req' = [req EXCEPT ![r] = Idle] /\ plans' = [plans EXCEPT ![t] = plan]
  BY <1>1, <1>2 DEF Booked, PlanEnded
<1>4. /\ result = "finished" => row.status = "succeeded"
      /\ result = "waiting_user" => plan[1].status = "waiting_user"
  BY <1>2, CompletedRow, ExecutedShape
<1> HIDE DEF row, plan
<1>5. /\ \A u \in Tasks : u # t => tasks'[u] = tasks[u] /\ steps'[u] = steps[u] /\ plans'[u] = plans[u]
      /\ tasks'[t] = row /\ plans'[t] = plan
  BY <1>2, <1>3
<1>6. tasks'[t].status = "waiting_user" => plans'[t][1].status = "waiting_user"
  BY <1>4, <1>5 DEF Results
<1>7. AllFit' /\ Led' /\ Waits'
  <2> HIDE DEF t, PlanInv
  <2> QED
    BY <1>2, <1>3, <1>5, <1>6, OnOneTask
<1> QED
  BY <1>3, <1>7, NoneAimed

LEMMA MatchRecovered ==
    ASSUME PlanInv, SerialInv', NEW r \in Requests, NEW result \in Results, NEW did,
           PlanRecovered(r, result, did)
    PROVE  AllFit' /\ Led' /\ Aimed' /\ Waits'
<1> USE DEF PlanInv
<1> DEFINE t == req[r].mine.task
           n == req[r].turn
           row == CompletedTask(Reissued(req[r].resume), n, req[r].done, result)
           prepared == _prepare_failed_stage_for_loop_recovery(plans[t])
           plan == Executed(prepared, n, result, did)
<1>1. PICK asks \in BOOLEAN : EndRecovery(r, result, asks)
  BY DEF PlanRecovered
<1>2. /\ req[r].kind = "recovery" /\ req[r].pc = "running" /\ req[r].target \in Tasks
      /\ outer'.task = t /\ newest' = t /\ req' = [req EXCEPT ![r] = Idle]
      /\ tasks' = [[tasks EXCEPT ![req[r].target] = Reissued(req[r].resume)]
                     EXCEPT ![t] = CompletedTask(@, n, req[r].done, result)]
      /\ \E retry \in Nat, width \in Nat : steps' = RecoveredSteps(req[r], result, retry, width)
  BY <1>1, SerialGround, EndRecoveryFacts DEF SerialInv
<1>3. req[r].target = t /\ t \in Tasks
  BY <1>2 DEF Aimed
<1>4. /\ tasks \in [Tasks -> TaskRows] /\ steps \in [Tasks -> SUBSET StepRows]
      /\ DOMAIN plans = Tasks /\ Shaped(plans[t])
  BY <1>3 DEF SerialInv, Typed, TypeOK, ShapeInv
<1>5. plans' = [[plans EXCEPT ![t] = prepared] EXCEPT ![t] = Executed(@, n, result, did)]
  BY <1>3 DEF PlanRecovered
<1>6. tasks' = [[tasks EXCEPT ![t] = Reissued(req[r].resume)] EXCEPT ![t] = CompletedTask(@, n, req[r].done, result)]
  BY <1>2, <1>3
<1>7. \A u \in Tasks : u # t => steps'[u] = steps[u]
  BY <1>2, <1>3, <1>4 DEF RecoveredSteps
<1>8. Shaped(prepared)
  BY <1>4, PreparedShape
<1>9. /\ result = "finished" => row.status = "succeeded"
      /\ result = "waiting_user" => plan[1].status = "waiting_user"
  <2> HIDE DEF prepared
  <2> QED
    BY <1>8, CompletedRow, ExecutedShape
<1>10. /\ \A u \in Tasks : u # t => tasks'[u] = tasks[u] /\ plans'[u] = plans[u]
       /\ tasks'[t] = row /\ plans'[t] = plan
  <2> DEFINE again == Reissued(req[r].resume)
  <2> HIDE DEF prepared, again
  <2>1. /\ plans' = [[plans EXCEPT ![t] = prepared] EXCEPT ![t] = Executed(@, n, result, did)]
        /\ tasks' = [[tasks EXCEPT ![t] = again] EXCEPT ![t] = CompletedTask(@, n, req[r].done, result)]
    BY <1>5, <1>6 DEF again
  <2>2. row = CompletedTask(again, n, req[r].done, result)
    BY DEF again
  <2> QED
    BY <1>3, <1>4, <2>1, <2>2
<1> HIDE DEF row, plan, prepared
<1>11. tasks'[t].status = "waiting_user" => plans'[t][1].status = "waiting_user"
  BY <1>9, <1>10 DEF Results
<1>12. AllFit' /\ Led' /\ Waits'
  <2> HIDE DEF t, PlanInv
  <2> QED
    BY <1>2, <1>3, <1>7, <1>10, <1>11, OnOneTask
<1> QED
  BY <1>2, <1>12, NoneAimed

LEMMA MatchResume ==
    ASSUME PlanInv, NEW t \in Tasks, ResumeTask(t), UNCHANGED plans
    PROVE  AllFit' /\ Led' /\ Aimed' /\ Waits'
<1> USE DEF PlanInv
<1> DEFINE s == LatestStep(steps[t])
           R == steps[t] \cup {Step(ResumeId(s.seq + 1), s.seq + 1, "pending", s.retry + 1, s.width + 12)}
<1>1. /\ Present(t) /\ s \in StepRows /\ IsTop(s, steps[t]) /\ Resumed(t, s)
      /\ newest' = (IF tasks' = tasks THEN newest ELSE t) /\ UNCHANGED <<outer, cards, req>>
  BY SerialGround, ResumeTaskFacts DEF SerialInv
<1>2. /\ tasks \in [Tasks -> TaskRows] /\ steps \in [Tasks -> SUBSET StepRows]
      /\ newest \in Tasks \cup {NoTask}
  BY DEF SerialInv, Typed, TypeOK
<1>3. TopFits(tasks[t].status, s) /\ tasks[t].status \in {"running", "waiting_user", "succeeded", "planning"}
  BY <1>1, <1>2 DEF AllFit, Fits, Present, TaskRows
<1>4. s.status = "running" => LatestStep(R).status = "pending"
  <2> SUFFICES ASSUME s.status = "running" PROVE LatestStep(R).status = "pending"
    OBVIOUS
  <2>1. PICK n \in Nat : Numbered(steps[t], n)
    BY <1>1 DEF SerialInv, AllNumbered
  <2>2. steps[t] \in SUBSET StepRows
    BY <1>2
  <2> HIDE DEF s
  <2> QED
    BY <1>1, <2>1, <2>2, PendingResume
<1>5. Aimed'
  BY <1>1 DEF Aimed
<1>6. ASSUME tasks' = tasks, steps' = steps PROVE AllFit' /\ Led' /\ Waits'
  BY <1>1, <1>6 DEF AllFit, Fits, Present, Led, Waits
<1>7. ASSUME NEW row, tasks' = [tasks EXCEPT ![t] = row],
             \A u \in Tasks : u # t => steps'[u] = steps[u],
             TopFits(row.status, LatestStep(steps'[t])), LatestStep(steps'[t]).status # "running",
             row.status = "waiting_user" => tasks[t].status = "waiting_user"
      PROVE  AllFit' /\ Led' /\ Waits'
  <2>1. tasks'[t] = row /\ \A u \in Tasks : u # t => tasks'[u] = tasks[u]
    BY <1>2, <1>7
  <2>2. ASSUME NEW u \in Tasks, Present(u)' PROVE TopFits(tasks'[u].status, LatestStep(steps'[u]))
    <3>1. CASE u = t
      BY <1>7, <2>1, <3>1
    <3>2. CASE u # t
      BY <1>7, <2>1, <2>2, <3>2 DEF AllFit, Fits, Present
    <3> QED
      BY <3>1, <3>2
  <2>3. AllFit'
    BY <2>2 DEF AllFit, Fits
  <2>4. Led'
    <3>1. CASE newest' = t
      BY <1>7, <3>1 DEF Led
    <3>2. CASE newest' # t
      <4>1. newest' = newest /\ (newest # NoTask => steps'[newest] = steps[newest])
        BY <1>1, <1>2, <1>7, <3>2
      <4> QED
        BY <1>1, <4>1 DEF Led
    <3> QED
      BY <3>1, <3>2
  <2>5. Waits'
    BY <1>7, <2>1 DEF Waits
  <2> QED
    BY <2>3, <2>4, <2>5
<1> HIDE DEF s
<1>8. ASSUME s.status = "running", steps' = [steps EXCEPT ![t] = R],
             tasks' = [tasks EXCEPT ![t] = Reissued(s.seq + 1)]
      PROVE  AllFit' /\ Led' /\ Waits'
  <2> DEFINE row == Reissued(s.seq + 1)
  <2>1. row.status = "running"
    BY DEF Reissued
  <2> HIDE DEF row, R
  <2>2. steps'[t] = R /\ \A u \in Tasks : u # t => steps'[u] = steps[u]
    BY <1>2, <1>8
  <2>3. TopFits(row.status, LatestStep(steps'[t])) /\ LatestStep(steps'[t]).status # "running"
    BY <1>4, <1>8, <2>1, <2>2 DEF TopFits
  <2>4. tasks' = [tasks EXCEPT ![t] = row]
    BY <1>8 DEF row
  <2>5. row.status = "waiting_user" => tasks[t].status = "waiting_user"
    BY <2>1
  <2> QED
    BY <1>7, <2>2, <2>3, <2>4, <2>5
<1>9. ASSUME NEW status, tasks' = [tasks EXCEPT ![t] = [status |-> status, step |-> s.id, done |-> tasks[t].done]],
             UNCHANGED steps, tasks[t].status # "succeeded",
             \/ status = "waiting_user" /\ s.status = "waiting_user"
             \/ status = "planning" /\ s.status = "pending"
      PROVE  AllFit' /\ Led' /\ Waits'
  <2> DEFINE row == [status |-> status, step |-> s.id, done |-> tasks[t].done]
  <2>1. row.status = status
    OBVIOUS
  <2>2. LatestStep(steps'[t]) = s /\ \A u \in Tasks : u # t => steps'[u] = steps[u]
    BY <1>9 DEF s
  <2> HIDE DEF row
  <2>3. TopFits(row.status, LatestStep(steps'[t])) /\ LatestStep(steps'[t]).status # "running"
    BY <1>9, <2>1, <2>2 DEF TopFits
  <2>4. row.status = "waiting_user" => tasks[t].status = "waiting_user"
    BY <1>3, <1>9, <2>1 DEF TopFits
  <2>5. tasks' = [tasks EXCEPT ![t] = row]
    BY <1>9 DEF row
  <2> QED
    BY <1>7, <2>2, <2>3, <2>4, <2>5
<1>10. AllFit' /\ Led' /\ Waits'
  <2> HIDE DEF R
  <2>1. \/ /\ s.status = "running" /\ steps' = [steps EXCEPT ![t] = R]
           /\ tasks' = [tasks EXCEPT ![t] = Reissued(s.seq + 1)]
        \/ \E status \in {"waiting_user", "planning"} :
              /\ tasks[t].status # "succeeded" /\ UNCHANGED steps
              /\ status = "waiting_user" => s.status = "waiting_user"
              /\ status = "planning" => s.status = "pending"
              /\ tasks' = [tasks EXCEPT ![t] = [status |-> status, step |-> s.id, done |-> tasks[t].done]]
        \/ tasks' = tasks /\ steps' = steps
    BY <1>1 DEF Resumed, R
  <2> QED
    BY <1>6, <1>8, <1>9, <2>1
<1> QED
  BY <1>5, <1>10

LEMMA PlanIsServe ==
    ASSUME PlanServe
    PROVE  Serve
<1>1. ASSUME NEW r \in Requests, PlanStarted(r) PROVE CommitStart(r)
  BY <1>1 DEF PlanStarted
<1>2. ASSUME NEW r \in Requests, NEW result \in Results, NEW did,
             PlanEnded(r, result, did) \/ PlanRecovered(r, result, did)
      PROVE  End(r)
  BY <1>2 DEF PlanEnded, PlanRecovered, End
<1> QED
  BY <1>1, <1>2 DEF PlanServe, Serve

LEMMA PlanInvServe ==
    ASSUME PlanInv, Serial, Onward, PlanServe, UNCHANGED draft
    PROVE  PlanInv'
<1> USE DEF PlanInv
<1>1. SerialInv' /\ ShapeInv'
  BY PlanIsServe, SerialServe, ShapeNext DEF PlanNext
<1>2. ASSUME NEW r \in Requests, Begin(r), UNCHANGED plans PROVE AllFit' /\ Led' /\ Aimed' /\ Waits'
  <2>1. ASSUME NEW q \in Flights, Begins(r, q), q.kind = "recovery" => q.target = q.mine.task
        PROVE  AllFit' /\ Led' /\ Aimed' /\ Waits'
    <3>1. req' = [req EXCEPT ![r] = q] /\ UNCHANGED <<outer, tasks, steps, newest, plans>>
      BY <1>2, <2>1 DEF Begins
    <3> HIDE DEF PlanInv
    <3> QED
      BY <2>1, <3>1, PlanBegins
  <2>2. ASSUME NEW kind \in {"stream", "sync"}, NEW new \in Tasks, BeginTurn(r, kind, new)
        PROVE  \E q \in Flights : Begins(r, q) /\ q.kind # "recovery"
    BY <2>2, BeginTurnFacts DEF SerialInv
  <2>3. ASSUME NEW c \in cards, BeginApproval(r, c)
        PROVE  \E q \in Flights : Begins(r, q) /\ q.kind # "recovery"
    BY <2>3, BeginApprovalFacts DEF SerialInv
  <2>4. ASSUME BeginRecovery(r)
        PROVE  \E q \in Flights : Begins(r, q) /\ q.target = q.mine.task
    <3>1. PICK q \in Flights :
             /\ Begins(r, q) /\ q.target = newest /\ newest \in Tasks
             /\ LatestStep(steps[newest]).status = "running"
             /\ q.mine.task = (IF outer.status = "waiting_user" THEN outer.task ELSE newest)
      BY <2>4, SerialGround, BeginRecoveryFacts DEF SerialInv
    <3>2. q.mine.task = newest
      BY <3>1, TaskFacts DEF Led
    <3> QED
      BY <3>1, <3>2
  <2> QED
    BY <1>2, <2>1, <2>2, <2>3, <2>4 DEF Begin
<1>3. ASSUME NEW r \in Requests, Fail(r), UNCHANGED plans PROVE AllFit' /\ Led' /\ Aimed' /\ Waits'
  <2>1. req' = [req EXCEPT ![r] = Idle] /\ UNCHANGED <<outer, tasks, steps, newest, plans>>
    BY <1>3 DEF Fail
  <2>2. Idle.kind # "recovery"
    BY DEF Idle
  <2> HIDE DEF PlanInv
  <2> QED
    BY <2>1, <2>2, PlanBegins
<1> HIDE DEF PlanInv
<1>5. AllFit' /\ Led' /\ Aimed' /\ Waits'
  BY <1>1, <1>2, <1>3, MatchStarted, MatchEnded, MatchRecovered, MatchResume DEF PlanServe
<1> QED
  BY <1>1, <1>5 DEF PlanInv

LEMMA PlanFollowup ==
    ASSUME PlanWhole, NEW r \in Requests, Followup(r), UNCHANGED plans
    PROVE  PlanWhole'
<1>1. SerialInv' /\ Drafts' /\ AgreedDrafts'
  BY SerialFollowup DEF PlanWhole, PlanInv, SerialWhole
<1>2. ShapeInv'
  BY ShapeNext DEF PlanWhole, PlanInv, PlanNext
<1>3. UNCHANGED <<tasks, steps, cards, req>> /\ (outer'.task = newest' \/ UNCHANGED <<outer, newest>>)
  BY DEF Followup, ReadFollowup, WriteFollowup, DropFollowup
<1>4. AllFit' /\ Led' /\ Aimed' /\ Waits'
  BY <1>3 DEF PlanWhole, PlanInv, AllFit, Present, Fits, Led, Aimed, Waits
<1> QED
  BY <1>1, <1>2, <1>4 DEF PlanWhole, PlanInv

LEMMA PlanInvNext ==
    ASSUME PlanWhole, Serial, Onward, PlanNext
    PROVE  PlanWhole'
<1>1. CASE PlanServe /\ UNCHANGED draft
  <2>1. PlanInv'
    BY <1>1, PlanInvServe DEF PlanWhole
  <2>2. SerialWhole'
    BY <1>1, PlanIsServe, SerialNext DEF Next, PlanWhole, PlanInv, SerialWhole
  <2> QED
    BY <2>1, <2>2 DEF PlanWhole, SerialWhole
<1>2. CASE (\E r \in Requests : Followup(r)) /\ UNCHANGED plans
  BY <1>2, PlanFollowup
<1> QED
  BY <1>1, <1>2 DEF PlanNext

LEMMA PlanInvInit == PlanInit => PlanWhole /\ Serial /\ Onward
<1> SUFFICES ASSUME PlanInit PROVE PlanWhole /\ Serial /\ Onward
  OBVIOUS
<1>1. SerialWhole /\ Serial /\ Onward /\ ShapeInv
  BY SerialInit, ShapeInit DEF PlanInit
<1>2. /\ AbsentTask.status = "absent" /\ Idle.kind = "none" /\ outer = NoOuter /\ NoOuter.status = "none"
      /\ tasks = [t \in Tasks |-> AbsentTask] /\ req = [r \in Requests |-> Idle]
  BY DEF AbsentTask, Idle, NoOuter, PlanInit, Init
<1>3. AllFit /\ Led /\ Aimed /\ Waits
  BY <1>2 DEF AllFit, Present, Led, Aimed, Waits
<1> QED
  BY <1>1, <1>3 DEF PlanInv, PlanWhole, SerialWhole

LEMMA PlanStutter == PlanWhole /\ UNCHANGED planVars => PlanWhole'
<1> SUFFICES ASSUME PlanWhole, UNCHANGED planVars PROVE PlanWhole'
  OBVIOUS
<1>1. UNCHANGED vars /\ UNCHANGED plans
  BY DEF planVars
<1>2. SerialWhole'
  BY <1>1, SerialStutter DEF PlanWhole, PlanInv, SerialWhole
<1>3. ShapeInv'
  BY ShapeNext DEF PlanWhole, PlanInv
<1>4. AllFit' /\ Led' /\ Aimed' /\ Waits'
  BY <1>1 DEF PlanWhole, PlanInv, vars, AllFit, Present, Fits, Led, Aimed, Waits
<1> QED
  BY <1>2, <1>3, <1>4 DEF PlanInv, PlanWhole, SerialWhole

\* While requests come one at a time and turns are numbered onward, a task that
\* succeeded has its goal and its answer and nothing left to do or to ask, and
\* one that waits for the user waits in its first stage: also after approvals,
\* resumes and recoveries that reopened it.
THEOREM PlanTheorem == PlanSpec /\ [](Serial /\ Onward) => []PlanMatchesTask
<1>1. PlanWhole /\ Serial /\ Onward /\ [PlanNext]_planVars => PlanWhole'
  BY PlanInvNext, PlanStutter
<1>2. PlanWhole => PlanMatchesTask
  BY DEF PlanWhole, PlanInv, ShapeInv, Ran, Waits, PlanMatchesTask
<1> QED
  BY PlanInvInit, <1>1, <1>2, PTL DEF PlanSpec
=============================================================================
