----------------------- MODULE ApprovalWorkflowProofs -----------------------
(***************************************************************************)
(* Proofs about the approval workflow, for every number of requests, runs  *)
(* and approvals and every mix of tools; and, at the end, about the store  *)
(* its checkpoints come from, for every precision of the created_at column *)
(* and every bound.                                                        *)
(***************************************************************************)
EXTENDS MCApproval, CheckpointStore, TLAPS

----------------------------------------------------------------------------
(* Checkpoint rows.                                                        *)

\* A session can name the latest row it sees.
HasLatest(rows) == rows # {} => LatestRows(rows) # {}

\* new is old and one more checkpoint, which is among the newest.
SavedOn(old, new, key, a) ==
    /\ new \in SUBSET Rows
    /\ \E c \in LatestRows(new) : c.key = key /\ c.appr = a /\ new = old \cup {c}

\* A saved checkpoint is a row, and one of the newest.
LEMMA SavedRow ==
    ASSUME NEW rows \in SUBSET Rows, HasLatest(rows),
           NEW key \in Steps, NEW a \in Approvals \cup {NoApproval}, NEW gap \in {0, 1}
    PROVE  SavedOn(rows, Saved(rows, key, a, gap), key, a)
<1> DEFINE last == IF rows = {} THEN 0 ELSE (CHOOSE c \in LatestRows(rows) : TRUE).ts
           new == [ts |-> last + gap, key |-> key, appr |-> a]
<1>1. last \in Nat /\ \A d \in rows : d.ts \in Nat /\ d.ts <= last
  <2>1. CASE rows = {}
    BY <2>1
  <2>2. CASE rows # {}
    <3>1. (CHOOSE c \in LatestRows(rows) : TRUE) \in LatestRows(rows)
      BY <2>2 DEF HasLatest
    <3> QED
      BY <2>2, <3>1 DEF LatestRows, Rows
  <2> QED
    BY <2>1, <2>2
<1>2. Saved(rows, key, a, gap) = rows \cup {new}
  BY DEF Saved
<1> HIDE DEF last
<1>3. new \in Rows /\ new.ts \in Nat /\ \A d \in rows : d.ts <= new.ts
  BY <1>1 DEF Rows
<1>4. new.key = key /\ new.appr = a
  OBVIOUS
<1> HIDE DEF new
<1>5. new.ts <= new.ts
  BY <1>3
<1>6. new \in LatestRows(rows \cup {new})
  BY <1>3, <1>5 DEF LatestRows
<1> QED
  BY <1>2, <1>3, <1>4, <1>6 DEF SavedOn

\* Two sessions' rows together still have a latest row.
LEMMA UnionHasLatest ==
    ASSUME NEW A \in SUBSET Rows, NEW B \in SUBSET Rows, HasLatest(A), HasLatest(B)
    PROVE  HasLatest(A \cup B)
<1> SUFFICES ASSUME A # {}, B # {} PROVE LatestRows(A \cup B) # {}
  BY DEF HasLatest
<1>1. PICK x \in LatestRows(A) : TRUE
  BY DEF HasLatest
<1>2. PICK y \in LatestRows(B) : TRUE
  BY DEF HasLatest
<1>3. /\ x \in A /\ y \in B
      /\ \A d \in A : d.ts <= x.ts
      /\ \A d \in B : d.ts <= y.ts
  BY <1>1, <1>2 DEF LatestRows
<1>4. x.ts \in Nat /\ y.ts \in Nat /\ \A d \in A \cup B : d.ts \in Nat
  BY <1>3 DEF Rows
<1>5. CASE x.ts <= y.ts
  <2>1. \A d \in A \cup B : d.ts <= y.ts
    BY <1>3, <1>4, <1>5
  <2> QED
    BY <1>3, <2>1 DEF LatestRows
<1>6. CASE y.ts <= x.ts
  <2>1. \A d \in A \cup B : d.ts <= x.ts
    BY <1>3, <1>4, <1>6
  <2> QED
    BY <1>3, <2>1 DEF LatestRows
<1>7. x.ts <= y.ts \/ y.ts <= x.ts
  BY <1>4
<1> QED
  BY <1>5, <1>6, <1>7

\* The checkpoints of a turn: rows, of which the last saved is one of the newest
\* and the only one of its step.
LEMMA TurnRowsShape ==
    ASSUME NEW step \in {"wait_confirmation", "wait_user_input", "final_response"},
           NEW a \in Approvals \cup {NoApproval}, NEW g \in {0, 1}, NEW h \in {0, 1}
    PROVE  /\ TurnRows(step, a, g, h) \in SUBSET Rows
           /\ \E c \in LatestRows(TurnRows(step, a, g, h)) : c.key = step
           /\ \A c \in TurnRows(step, a, g, h) : c.key = step => c.appr = a
<1> DEFINE s1 == Saved({}, "build_context", NoApproval, 0)
           s2 == Saved(s1, "plan_or_reply", NoApproval, g)
<1>1. /\ {} \in SUBSET Rows /\ HasLatest({})
      /\ {"build_context", "plan_or_reply", step} \subseteq Steps
      /\ NoApproval \in Approvals \cup {NoApproval} /\ 0 \in {0, 1}
  BY DEF HasLatest, Steps
<1>2. SavedOn({}, s1, "build_context", NoApproval)
  BY <1>1, SavedRow
<1> HIDE DEF s1
<1>3. s1 \in SUBSET Rows /\ HasLatest(s1) /\ \A c \in s1 : c.key = "build_context"
  BY <1>2 DEF HasLatest, SavedOn
<1>4. SavedOn(s1, s2, "plan_or_reply", NoApproval)
  BY <1>1, <1>3, SavedRow
<1>5. TurnRows(step, a, g, h) = Saved(s2, step, a, h)
  BY DEF TurnRows, s1
<1> HIDE DEF s2
<1>6. /\ s2 \in SUBSET Rows /\ HasLatest(s2)
      /\ \A c \in s2 : c.key \in {"build_context", "plan_or_reply"}
  BY <1>3, <1>4 DEF HasLatest, SavedOn
<1>7. SavedOn(s2, Saved(s2, step, a, h), step, a)
  BY <1>1, <1>6, SavedRow
<1> QED
  BY <1>5, <1>6, <1>7 DEF SavedOn

----------------------------------------------------------------------------
(* The inductive invariant.                                                *)

\* Every session can name the latest checkpoint it sees.
LatestExists == /\ \A w \in Runs : HasLatest(cps[w])
                /\ \A r \in Requests : HasLatest(req[r].seen)

\* Where the row of a run can be before its turn has ended.
Unstopped == {"none", "build_context"}

\* An approval belongs to a run that has stopped once, a request in flight decides an
\* approval that exists.
Linked ==
    /\ \A a \in Approvals : ap[a].status # "absent" =>
          ap[a].run \in Runs /\ wf[ap[a].run].step \notin Unstopped
    /\ \A a \in Approvals : ap[a].status = "absent" => ap[a] = NoRequest
    /\ \A r \in Requests : req[r].pc # "idle" =>
          req[r].appr \in Approvals /\ ap[req[r].appr].status # "absent"

PendingTurn(a) == ap[a].status = "pending" /\ ap[a].origin = "turn"

\* The run of an approval that a turn left pending is paused at it: one of its
\* newest checkpoints is a wait_confirmation, and all of those name the approval.
Paused ==
    \A a \in Approvals : PendingTurn(a) =>
        LET w == ap[a].run
        IN  /\ wf[w] = [status |-> "waiting_user", step |-> "wait_confirmation", appr |-> a]
            /\ \E c \in LatestRows(cps[w]) : c.key = "wait_confirmation"
            /\ \A c \in cps[w] : c.key = "wait_confirmation" => c.appr = a

\* A run has several approvals only when an SDK sub-agent paused again, which
\* happens after the first one was decided.
OneAtATime ==
    \A a, b \in Approvals :
        /\ ap[a].status # "absent" /\ ap[b].status # "absent" /\ ap[a].run = ap[b].run
        /\ PendingTurn(a) \/ ap[a].kind # "sdk"
        => a = b

\* The branch a request took is the one its decision and tool call for, and what
\* it will leave unwritten is decided already.
Taken(q) ==
    LET kind == ap[q.appr].kind
    IN  /\ q.pc \in {"read", "decided"} => q.writes = Columns
        /\ q.pc = "ended" => /\ q.approve /\ kind = "commits" /\ q.step = "maybe_tool"
                             /\ q.writes # {} => ap[q.appr].status \in Decided
        /\ q.pc = "executed" =>
              /\ IF q.step = "approval_rejected" THEN ~q.approve /\ kind # "sdk"
                                                ELSE q.approve \/ kind = "sdk"
              /\ kind # "commits" => q.writes = Columns
              /\ "approval" \notin q.writes => ap[q.appr].status \in Decided
Branch == \A r \in Requests : Taken(req[r])

\* The rows of a decision agree unless its tool ended the request's transaction.
OthersAgree == \A a \in Approvals : ap[a].kind # "commits" => Agree(a)

IInv == /\ TypeOK /\ LatestExists /\ Linked /\ Paused /\ OneAtATime /\ Branch
        /\ OthersAgree

RequestRow == [pc : {"idle", "read", "decided", "ended", "executed"},
               appr : Approvals \cup {NoApproval}, approve : BOOLEAN,
               seen : SUBSET Rows, step : Steps, writes : SUBSET Columns]

USE DEF NoApproval

\* The empty database satisfies the invariant.
LEMMA InitInvariant == Init => IInv
<1> SUFFICES ASSUME Init PROVE IInv
  OBVIOUS
<1>1. TypeOK
  BY NoneAssumption DEF Init, TypeOK, Absent, NoRequest, Idle, RunStatus, Steps, MaxRan, Decided
<1>2. LatestExists
  BY DEF Init, LatestExists, HasLatest, Idle
<1>3. Linked /\ Paused /\ OneAtATime /\ Branch /\ OthersAgree
  BY DEF Init, Linked, Paused, PendingTurn, OneAtATime, Branch, Taken, OthersAgree, Agree, NoRequest, Idle
<1> QED
  BY <1>1, <1>2, <1>3 DEF IInv

----------------------------------------------------------------------------
(* Steps of a request that leave the committed rows alone.                 *)

\* A step that only moves a request keeps the invariant if the request stays
\* well-formed.
LEMMA RequestStep ==
    ASSUME IInv, TypeOK', UNCHANGED <<wf, ap, cps>>,
           NEW r \in Requests, NEW q, req' = [req EXCEPT ![r] = q],
           HasLatest(q.seen),
           q.pc # "idle" => q.appr \in Approvals /\ ap[q.appr].status # "absent",
           q.pc # "idle" => Taken(q)
    PROVE  IInv'
<1>1. \A s \in Requests : req'[s] = IF s = r THEN q ELSE req[s]
  BY DEF IInv, TypeOK
<1>2. LatestExists'
  BY <1>1 DEF IInv, LatestExists
<1>3. Linked'
  BY <1>1 DEF IInv, Linked
<1>4. Paused' /\ OneAtATime' /\ OthersAgree'
  BY DEF IInv, Paused, OneAtATime, PendingTurn, OthersAgree, Agree
<1>5. Branch'
  <2>1. \A s \in Requests : Taken(req'[s])
    BY <1>1 DEF IInv, Branch, Taken
  <2> QED
    BY <2>1 DEF Branch, Taken
<1> QED
  BY <1>2, <1>3, <1>4, <1>5 DEF IInv

\* A request that passes the guard reads rows that exist.
LEMMA ReadStep ==
    ASSUME IInv, NEW r \in Requests, NEW a \in Approvals, NEW approve \in BOOLEAN,
           Read(r, a, approve)
    PROVE  IInv'
<1> DEFINE q == [pc |-> "read", appr |-> a, approve |-> approve, seen |-> cps[ap[a].run],
                 step |-> "none", writes |-> Columns]
<1>1. ap[a].status # "absent" /\ ap[a].run \in Runs
  BY DEF Read, IInv, Linked, NoRequest
<1>2. req' = [req EXCEPT ![r] = q] /\ UNCHANGED <<wf, ap, cps, lock, ran>>
  BY DEF Read
<1>3. TypeOK'
  BY <1>1, <1>2 DEF IInv, TypeOK, Steps
<1>4. HasLatest(q.seen) /\ Taken(q) /\ q.appr = a
  BY <1>1 DEF IInv, LatestExists, Taken
<1> HIDE DEF q
<1> QED
  BY <1>1, <1>2, <1>3, <1>4, RequestStep

\* What the invariant says of a request in flight.
LEMMA InFlight ==
    ASSUME IInv, NEW r \in Requests, req[r].pc # "idle"
    PROVE  /\ req[r].appr \in Approvals /\ ap[req[r].appr].status # "absent"
           /\ Run(r) \in Runs /\ Run(r) = ap[req[r].appr].run
           /\ Kind(r) = ap[req[r].appr].kind /\ HasLatest(req[r].seen) /\ Taken(req[r])
BY DEF IInv, Linked, Run, Kind, LatestExists, Branch

\* Taking the row lock changes no row.
LEMMA DecideStep ==
    ASSUME IInv, NEW r \in Requests, DecideApproval(r)
    PROVE  IInv'
<1> DEFINE q == [req[r] EXCEPT !.pc = "decided"]
<1>1. req[r].pc # "idle" /\ UNCHANGED <<wf, ap, cps, ran>>
  BY DEF DecideApproval
<1>2. req' = [req EXCEPT ![r] = q] /\ lock' = [lock EXCEPT ![Run(r)] = r]
  BY DEF DecideApproval
<1>3. TypeOK'
  <2>1. q \in RequestRow
    BY DEF IInv, TypeOK, RequestRow
  <2> HIDE DEF q
  <2> QED
    BY <1>1, <1>2, <2>1, InFlight DEF IInv, TypeOK, RequestRow
<1>4. /\ q.appr = req[r].appr /\ q.seen = req[r].seen /\ q.pc = "decided"
      /\ q.writes = req[r].writes
  BY DEF IInv, TypeOK
<1>5. req[r].writes = Columns
  BY <1>1, InFlight DEF DecideApproval, Taken
<1> HIDE DEF q
<1>6. Taken(q)
  BY <1>4, <1>5 DEF Taken
<1> QED
  BY <1>1, <1>2, <1>3, <1>4, <1>6, InFlight, RequestStep

\* A request that dies gives its locks back and changes no row.
LEMMA AbortStep ==
    ASSUME IInv, NEW r \in Requests, Abort(r)
    PROVE  IInv'
<1>1. req[r].pc # "idle" /\ UNCHANGED <<wf, ap, cps, ran>>
  BY DEF Abort
<1>2. req' = [req EXCEPT ![r] = Idle] /\ lock' = Free(r)
  BY DEF Abort
<1>3. TypeOK'
  BY <1>1, <1>2, InFlight DEF IInv, TypeOK, Idle, Free, Steps
<1>4. HasLatest(Idle.seen) /\ Idle.pc = "idle"
  BY DEF Idle, HasLatest
<1> QED
  BY <1>1, <1>2, <1>3, <1>4, RequestStep

\* The branches of Continue that keep the request's transaction open.
LEMMA ContinueStep ==
    ASSUME IInv, NEW r \in Requests,
           StopRejected(r) \/ RunTool(r) \/ ToolNotRun(r) \/ ResumeSdkAgent(r)
    PROVE  IInv'
<1>1. PICK step \in Steps :
         /\ Executed(r, step)
         /\ IF step = "approval_rejected"
            THEN ~req[r].approve /\ Kind(r) # "sdk"
            ELSE req[r].approve \/ Kind(r) = "sdk"
  BY DEF StopRejected, RunTool, ToolNotRun, ResumeSdkAgent, Steps
<1>2. req[r].pc = "decided" /\ UNCHANGED <<wf, ap, cps, lock>>
  BY DEF StopRejected, RunTool, ToolNotRun, ResumeSdkAgent
<1>3. ran' \in [Approvals -> 0..MaxRan]
  BY DEF StopRejected, RunTool, ToolNotRun, ResumeSdkAgent, Acts, MaxRan, IInv, TypeOK
<1> DEFINE q == [req[r] EXCEPT !.pc = "executed", !.step = step]
<1>4. req' = [req EXCEPT ![r] = q]
  BY <1>1 DEF Executed, IInv, TypeOK
<1>5. TypeOK'
  <2>1. q \in RequestRow
    BY DEF IInv, TypeOK, RequestRow
  <2> HIDE DEF q
  <2> QED
    BY <1>2, <1>3, <1>4, <2>1 DEF IInv, TypeOK, RequestRow
<1>6. /\ q.appr = req[r].appr /\ q.seen = req[r].seen /\ q.pc = "executed"
      /\ q.step = step /\ q.approve = req[r].approve /\ q.writes = req[r].writes
  BY DEF IInv, TypeOK
<1>7. req[r].writes = Columns
  BY <1>2, InFlight DEF Taken
<1> HIDE DEF q
<1>8. /\ q.appr \in Approvals /\ ap[q.appr].status # "absent" /\ HasLatest(q.seen)
      /\ Kind(r) = ap[q.appr].kind
  BY <1>2, <1>6, InFlight
<1>9. Taken(q)
  <2>1. "approval" \in q.writes /\ q.writes = Columns
    BY <1>6, <1>7 DEF Columns
  <2> QED
    BY <1>1, <1>6, <1>8, <2>1 DEF Taken
<1> QED
  BY <1>2, <1>4, <1>5, <1>8, <1>9, RequestStep

\* A tool that rolled the session back changes no row.
LEMMA RollBackStep ==
    ASSUME IInv, NEW r \in Requests, RollBackInTool(r)
    PROVE  IInv'
<1> DEFINE q == [req[r] EXCEPT !.pc = "ended", !.step = "maybe_tool", !.writes = {}]
<1>1. /\ req[r].pc = "decided" /\ req[r].approve /\ UNCHANGED <<wf, ap, cps, ran>>
      /\ Kind(r) = "commits"
  BY DEF RollBackInTool
<1>2. req' = [req EXCEPT ![r] = q] /\ lock' = [lock EXCEPT ![Run(r)] = None]
  BY DEF RollBackInTool, IInv, TypeOK
<1>3. q \in RequestRow
  <2>1. req[r] \in RequestRow /\ "maybe_tool" \in Steps
    BY DEF IInv, TypeOK, RequestRow, Steps
  <2> QED
    BY <2>1 DEF RequestRow
<1>4. /\ q.appr = req[r].appr /\ q.seen = req[r].seen /\ q.pc = "ended"
      /\ q.step = "maybe_tool" /\ q.approve = req[r].approve /\ q.writes = {}
  BY DEF IInv, TypeOK
<1> HIDE DEF q
<1>5. TypeOK'
  BY <1>1, <1>2, <1>3, InFlight DEF IInv, TypeOK, RequestRow
<1>6. Taken(q)
  BY <1>1, <1>4, InFlight DEF Taken
<1> QED
  BY <1>1, <1>2, <1>4, <1>5, <1>6, InFlight, RequestStep

\* A request whose tool ended its transaction goes on upon a new snapshot.
LEMMA SnapshotStep ==
    ASSUME IInv, NEW r \in Requests, NewSnapshot(r)
    PROVE  IInv'
<1> DEFINE a == req[r].appr
<1>1. req[r].pc = "ended" /\ UNCHANGED <<wf, ap, cps, lock, ran>>
  BY DEF NewSnapshot
<1>2. /\ a \in Approvals /\ ap[a].status # "absent" /\ ap[a].kind = "commits"
      /\ req[r].approve /\ req[r].step = "maybe_tool" /\ Run(r) \in Runs
      /\ req[r].writes # {} => ap[a].status \in Decided
  <2>1. /\ Taken(req[r]) /\ a \in Approvals /\ ap[a].status # "absent" /\ Run(r) \in Runs
    BY <1>1, InFlight
  <2>2. /\ ap[a].kind = "commits" /\ req[r].approve /\ req[r].step = "maybe_tool"
    BY <1>1, <2>1 DEF Taken
  <2>3. req[r].writes # {} => ap[a].status \in Decided
    BY <1>1, <2>1 DEF Taken
  <2> QED
    BY <2>1, <2>2, <2>3
<1>3. PICK more \in SUBSET Columns :
         /\ "approval" \in more \/ ap[a].status = "approved" \/ req[r].writes # {}
         /\ req' = [req EXCEPT ![r].pc = "executed", ![r].seen = cps[Run(r)],
                               ![r].writes = @ \cup more]
  BY DEF NewSnapshot, Columns
<1> DEFINE w == req[r].writes \cup more
           q == [req[r] EXCEPT !.pc = "executed", !.seen = cps[Run(r)], !.writes = w]
<1>4. req[r] \in RequestRow /\ cps[Run(r)] \in SUBSET Rows /\ w \in SUBSET Columns
  BY <1>2 DEF IInv, TypeOK, RequestRow
<1>5. ("approval" \in w) \/ ap[a].status \in Decided
  BY <1>2, <1>3 DEF Decided
<1>6. req' = [req EXCEPT ![r] = q]
  BY <1>3, <1>4 DEF IInv, TypeOK
<1> HIDE DEF w
<1>7. q \in RequestRow
  BY <1>4 DEF RequestRow
<1>8. /\ q.appr = a /\ q.seen = cps[Run(r)] /\ q.pc = "executed" /\ q.writes = w
      /\ q.step = req[r].step /\ q.approve = req[r].approve
  BY <1>4 DEF RequestRow
<1> HIDE DEF q
<1>9. TypeOK'
  BY <1>1, <1>6, <1>7 DEF IInv, TypeOK, RequestRow
<1>10. Taken(q)
  BY <1>2, <1>5, <1>8 DEF Taken, Decided
<1>11. HasLatest(cps[Run(r)])
  BY <1>2 DEF IInv, LatestExists
<1> HIDE DEF a
<1> QED
  BY <1>1, <1>2, <1>6, <1>8, <1>9, <1>10, <1>11, RequestStep

----------------------------------------------------------------------------
(* Steps that change committed rows.                                       *)

\* A turn starts a run nobody refers to yet.
LEMMA TurnStep ==
    ASSUME IInv, NEW w \in Runs, NEW a \in Approvals, NEW kind \in Kinds, PauseTurn(w, a, kind)
    PROVE  IInv'
<1>1. PICK g, h \in {0, 1} : cps' = [cps EXCEPT ![w] = TurnRows("wait_confirmation", a, g, h)]
  BY DEF PauseTurn
<1> DEFINE new == TurnRows("wait_confirmation", a, g, h)
<1>2. /\ new \in SUBSET Rows
      /\ \E c \in LatestRows(new) : c.key = "wait_confirmation"
      /\ \A c \in new : c.key = "wait_confirmation" => c.appr = a
  BY TurnRowsShape
<1> HIDE DEF new
<1>3. /\ wf[w] \in {Absent, Started} /\ ap[a] = NoRequest /\ UNCHANGED <<req, lock, ran>>
      /\ wf' = [wf EXCEPT ![w] = [status |-> "waiting_user", step |-> "wait_confirmation",
                                  appr |-> a]]
      /\ ap' = [ap EXCEPT ![a] = [status |-> "pending", run |-> w, kind |-> kind,
                                  origin |-> "turn"]]
      /\ cps' = [cps EXCEPT ![w] = new]
  BY <1>1 DEF PauseTurn, OwnRun, FreshRun, FreshApproval, new
<1>4. TypeOK'
  BY <1>2, <1>3, KindsAssumption DEF IInv, TypeOK, Steps, RunStatus
<1>5. \A b \in Approvals : ap[b].status # "absent" => ap[b].run # w /\ b # a
  BY <1>3 DEF IInv, Linked, NoRequest, Absent, Started, Unstopped
<1>6. LatestExists'
  BY <1>2, <1>3 DEF IInv, LatestExists, HasLatest, TypeOK
<1>7. Linked'
  BY <1>3, <1>5 DEF IInv, Linked, TypeOK, Unstopped
<1>8. Paused'
  <2> SUFFICES ASSUME NEW b \in Approvals, PendingTurn(b)'
               PROVE  LET v == ap'[b].run
                      IN  /\ wf'[v] = [status |-> "waiting_user", step |-> "wait_confirmation",
                                       appr |-> b]
                          /\ \E c \in LatestRows(cps'[v]) : c.key = "wait_confirmation"
                          /\ \A c \in cps'[v] : c.key = "wait_confirmation" => c.appr = b
    BY DEF Paused
  <2>1. CASE b = a
    BY <2>1, <1>2, <1>3 DEF IInv, TypeOK
  <2>2. CASE b # a
    <3>1. ap'[b] = ap[b] /\ PendingTurn(b) /\ ap[b].run \in Runs /\ ap[b].run # w
      BY <2>2, <1>3, <1>5 DEF IInv, TypeOK, PendingTurn, Linked
    <3>2. wf'[ap[b].run] = wf[ap[b].run] /\ cps'[ap[b].run] = cps[ap[b].run]
      BY <3>1, <1>3 DEF IInv, TypeOK
    <3> QED
      BY <3>1, <3>2 DEF IInv, Paused
  <2> QED
    BY <2>1, <2>2
<1>9. OneAtATime'
  BY <1>3, <1>5 DEF IInv, OneAtATime, TypeOK, PendingTurn
<1>10. Branch'
  <2>1. \A r \in Requests : req[r].pc # "idle" => ap'[req[r].appr] = ap[req[r].appr]
    BY <1>3, <1>5 DEF IInv, Linked, TypeOK
  <2> QED
    BY <1>3, <2>1 DEF IInv, Branch, Taken
<1>11. OthersAgree'
  BY <1>3, <1>5 DEF IInv, OthersAgree, Agree, TypeOK, Linked
<1> QED
  BY <1>4, <1>6, <1>7, <1>8, <1>9, <1>10, <1>11 DEF IInv

\* A streamed turn commits its run before it knows how it ends.
LEMMA StreamStep ==
    ASSUME IInv, NEW w \in Runs, StartStream(w)
    PROVE  IInv'
<1> DEFINE new == Saved({}, "build_context", NoApproval, 0)
<1>1. new \in SUBSET Rows /\ HasLatest(new)
  <2>1. {} \in SUBSET Rows /\ HasLatest({}) /\ "build_context" \in Steps
    BY DEF HasLatest, Steps
  <2>2. SavedOn({}, new, "build_context", NoApproval)
    BY <2>1, SavedRow
  <2> QED
    BY <2>2 DEF SavedOn, HasLatest
<1> HIDE DEF new
<1>2. /\ wf[w] = Absent /\ UNCHANGED <<ap, req, lock, ran>>
      /\ wf' = [wf EXCEPT ![w] = Started]
      /\ cps' = [cps EXCEPT ![w] = new]
  BY DEF StartStream, FreshRun, new
<1>3. TypeOK'
  BY <1>1, <1>2 DEF IInv, TypeOK, Started, Steps, RunStatus
<1>4. \A b \in Approvals : ap[b].status # "absent" => ap[b].run \in Runs /\ ap[b].run # w
  BY <1>2 DEF IInv, Linked, Absent, Unstopped
<1>5. LatestExists'
  BY <1>1, <1>2 DEF IInv, LatestExists, TypeOK
<1>6. Linked'
  BY <1>2, <1>4 DEF IInv, Linked, TypeOK
<1>7. \A v \in Runs : v # w => wf'[v] = wf[v] /\ cps'[v] = cps[v]
  BY <1>2 DEF IInv, TypeOK
<1>8. Paused'
  BY <1>2, <1>4, <1>7 DEF IInv, Paused, PendingTurn
<1>9. OneAtATime' /\ Branch'
  BY <1>2 DEF IInv, OneAtATime, PendingTurn, Branch, Taken
<1>10. OthersAgree'
  BY <1>2, <1>4, <1>7 DEF IInv, OthersAgree, Agree
<1> QED
  BY <1>3, <1>5, <1>6, <1>8, <1>9, <1>10 DEF IInv

\* A turn that needs no approval.
LEMMA PlainTurnStep ==
    ASSUME IInv, NEW w \in Runs, NEW status \in {"waiting_user", "completed"},
           NEW step \in {"wait_user_input", "final_response"}, PlainTurn(w, status, step)
    PROVE  IInv'
<1>1. PICK g, h \in {0, 1} : cps' = [cps EXCEPT ![w] = TurnRows(step, NoApproval, g, h)]
  BY DEF PlainTurn
<1> DEFINE new == TurnRows(step, NoApproval, g, h)
<1>2. new \in SUBSET Rows /\ HasLatest(new)
  BY TurnRowsShape DEF HasLatest
<1> HIDE DEF new
<1>3. /\ wf[w] \in {Absent, Started} /\ UNCHANGED <<ap, req, lock, ran>>
      /\ wf' = [wf EXCEPT ![w] = [status |-> status, step |-> step, appr |-> NoApproval]]
      /\ cps' = [cps EXCEPT ![w] = new]
  BY <1>1 DEF PlainTurn, OwnRun, FreshRun, new
<1>4. TypeOK'
  BY <1>2, <1>3 DEF IInv, TypeOK, Steps, RunStatus
<1>5. \A b \in Approvals : ap[b].status # "absent" => ap[b].run \in Runs /\ ap[b].run # w
  BY <1>3 DEF IInv, Linked, NoRequest, Absent, Started, Unstopped
<1>6. LatestExists'
  BY <1>2, <1>3 DEF IInv, LatestExists, TypeOK
<1>7. Linked'
  BY <1>3, <1>5 DEF IInv, Linked, TypeOK
<1>8. \A v \in Runs : v # w => wf'[v] = wf[v] /\ cps'[v] = cps[v]
  BY <1>3 DEF IInv, TypeOK
<1>9. Paused'
  BY <1>3, <1>5, <1>8 DEF IInv, Paused, PendingTurn
<1>10. OneAtATime' /\ Branch'
  BY <1>3 DEF IInv, OneAtATime, PendingTurn, Branch, Taken
<1>11. OthersAgree'
  BY <1>3, <1>5, <1>8 DEF IInv, OthersAgree, Agree
<1> QED
  BY <1>4, <1>6, <1>7, <1>9, <1>10, <1>11 DEF IInv

\* What the commits of a decision have in common: the approval a of the request
\* is decided, a further one may be created for an SDK run, and the run's own
\* row agrees with the decision.
LEMMA DecidedStep ==
    ASSUME IInv, TypeOK',
           NEW r \in Requests, req[r].pc # "idle",
           NEW status \in Decided,
           ap'[req[r].appr] = [ap[req[r].appr] EXCEPT !.status = status],
           \A c \in Approvals \ {req[r].appr} :
              \/ ap'[c] = ap[c]
              \/ /\ ap[c].status = "absent" /\ Kind(r) = "sdk"
                 /\ ap'[c] = [status |-> "pending", run |-> Run(r), kind |-> "sdk",
                              origin |-> "resume"],
           NEW ws, wf' = [wf EXCEPT ![Run(r)] = ws], ws.step \notin Unstopped,
           NEW rows, cps' = [cps EXCEPT ![Run(r)] = rows], HasLatest(rows),
           NEW q, req' = [req EXCEPT ![r] = q], HasLatest(q.seen),
           q.pc = "idle" \/ (/\ q.pc = "ended" /\ q.appr = req[r].appr /\ q.step = "maybe_tool"
                             /\ q.approve /\ Kind(r) = "commits"),
           Kind(r) = "sdk" => ws.status = "completed",
           Kind(r) \notin {"sdk", "commits"} =>
              \/ status = "approved" /\ ws.status = "completed"
              \/ status = "rejected" /\ ws.status = "canceled"
    PROVE  IInv'
<1> DEFINE a == req[r].appr
           w == Run(r)
<1>1. /\ a \in Approvals /\ ap[a].status # "absent" /\ w \in Runs /\ w = ap[a].run
      /\ Kind(r) = ap[a].kind /\ HasLatest(req[r].seen)
  BY InFlight
<1> HIDE DEF a, w
<1>2. /\ ap'[a].status = status /\ ap'[a].run = w /\ ap'[a].kind = ap[a].kind
      /\ ap'[a].origin = ap[a].origin
  BY <1>1 DEF IInv, TypeOK, a, w
<1>3. \A c \in Approvals \ {a} :
         \/ ap'[c] = ap[c]
         \/ /\ ap[c].status = "absent" /\ Kind(r) = "sdk"
            /\ ap'[c] = [status |-> "pending", run |-> w, kind |-> "sdk", origin |-> "resume"]
  BY DEF a, w
<1>4. /\ wf'[w] = ws /\ cps'[w] = rows
      /\ \A v \in Runs \ {w} : wf'[v] = wf[v] /\ cps'[v] = cps[v]
  BY <1>1 DEF IInv, TypeOK, w
<1>5. /\ req'[r] = q
      /\ \A s \in Requests \ {r} : req'[s] = req[s]
  BY DEF IInv, TypeOK
<1>6. /\ \A c \in Approvals : ap[c].status # "absent" =>
            ap'[c].status # "absent" /\ ap'[c].kind = ap[c].kind /\ ap'[c].run = ap[c].run
      /\ wf'[w].step \notin Unstopped /\ status # "absent"
  BY <1>1, <1>2, <1>3, <1>4 DEF Decided
<1>7. LatestExists'
  BY <1>4, <1>5 DEF IInv, LatestExists
<1>8. Linked'
  <2>1. ASSUME NEW c \in Approvals
        PROVE  /\ ap'[c].status # "absent" => /\ ap'[c].run \in Runs
                                              /\ wf'[ap'[c].run].step \notin Unstopped
               /\ ap'[c].status = "absent" => ap'[c] = NoRequest
    BY <1>1, <1>2, <1>3, <1>4, <1>6 DEF IInv, Linked
  <2>2. ASSUME NEW s \in Requests, req'[s].pc # "idle"
        PROVE  req'[s].appr \in Approvals /\ ap'[req'[s].appr].status # "absent"
    BY <2>2, <1>1, <1>5, <1>6 DEF IInv, Linked, a
  <2> QED
    BY <2>1, <2>2 DEF Linked
<1>9. \A c \in Approvals : PendingTurn(c)' => /\ ap'[c] = ap[c] /\ PendingTurn(c)
                                             /\ ap[c].run \in Runs \ {w}
  <2> SUFFICES ASSUME NEW c \in Approvals, PendingTurn(c)'
               PROVE  ap'[c] = ap[c] /\ PendingTurn(c) /\ ap[c].run \in Runs \ {w}
    OBVIOUS
  <2>1. c # a /\ ap'[c] = ap[c]
    BY <1>2, <1>3 DEF PendingTurn, Decided
  <2>2. PendingTurn(c) /\ ap[c].status # "absent" /\ ap[c].run \in Runs
    BY <2>1 DEF PendingTurn, IInv, Linked
  <2> QED
    BY <2>1, <2>2, <1>1 DEF IInv, OneAtATime
<1>10. Paused'
  BY <1>4, <1>9 DEF IInv, Paused
<1>11. OneAtATime'
  <2> SUFFICES ASSUME NEW b \in Approvals, NEW c \in Approvals,
                      ap'[b].status # "absent", ap'[c].status # "absent",
                      ap'[b].run = ap'[c].run,
                      PendingTurn(b)' \/ ap'[b].kind # "sdk"
               PROVE  b = c
    BY DEF OneAtATime
  <2> OneAtATime
    BY DEF IInv
  <2>1. ap[b].status # "absent" /\ (PendingTurn(b) \/ ap[b].kind # "sdk")
        /\ ap'[b].run = ap[b].run
    BY <1>1, <1>2, <1>3, <1>9 DEF PendingTurn
  <2>2. CASE ap[c].status # "absent"
    <3>1. ap[b].run = ap[c].run
      BY <2>1, <2>2, <1>6
    <3> QED
      BY <2>1, <2>2, <3>1, OneAtATime DEF OneAtATime
  <2>3. CASE ap[c].status = "absent"
    <3>1. Kind(r) = "sdk" /\ ap'[c].run = w
      BY <2>3, <1>1, <1>3
    <3>2. b = a
      <4>1. ap[b].run = ap[a].run
        BY <2>1, <3>1, <1>1
      <4> QED
        BY <2>1, <4>1, <1>1, OneAtATime DEF OneAtATime
    <3> QED
      BY <2>1, <3>1, <3>2, <1>1, <1>2, <1>9
  <2> QED
    BY <2>2, <2>3
<1>12. Branch'
  <2>1. \A c \in Approvals : ap[c].status \in Decided => ap'[c].status \in Decided
    BY <1>1, <1>2, <1>3 DEF Decided
  <2>2. ASSUME NEW s \in Requests, s # r, req'[s].pc # "idle" PROVE Taken(req[s])'
    <3>1. /\ req'[s] = req[s] /\ ap'[req[s].appr].kind = ap[req[s].appr].kind
          /\ ap[req[s].appr].status \in Decided => ap'[req[s].appr].status \in Decided
          /\ Taken(req[s])
      BY <2>1, <2>2, <1>5, <1>6 DEF IInv, Linked, Branch
    <3> QED
      BY <3>1 DEF Taken
  <2>3. Taken(req[r])'
    <3>1. \/ req'[r].pc = "idle"
          \/ /\ req'[r].pc = "ended" /\ req'[r].appr = a /\ req'[r].step = "maybe_tool"
             /\ req'[r].approve /\ ap'[a].kind = "commits" /\ ap'[a].status \in Decided
      BY <1>1, <1>2, <1>5 DEF a
    <3> QED
      BY <3>1 DEF Taken
  <2> QED
    BY <2>2, <2>3 DEF Branch, Taken
<1>13. OthersAgree'
  <2> SUFFICES ASSUME NEW c \in Approvals, ap'[c].kind # "commits"
               PROVE  Agree(c)'
    BY DEF OthersAgree
  <2>1. CASE c = a
    BY <2>1, <1>1, <1>2, <1>4 DEF Decided, Agree
  <2>2. CASE c # a /\ ap'[c] = ap[c] /\ ap[c].status \in Decided /\ ap[c].run = w
    <3>1. Kind(r) = "sdk" /\ ap[c].kind = "sdk"
      BY <2>2, <1>1 DEF IInv, OneAtATime, Decided
    <3> QED
      BY <2>2, <3>1, <1>4 DEF Agree
  <2>3. CASE c # a /\ ap'[c] = ap[c] /\ ap[c].status \in Decided /\ ap[c].run # w
    BY <2>3, <1>4 DEF IInv, OthersAgree, Agree, Linked, Decided
  <2>4. CASE c # a /\ ap'[c].status \notin Decided
    BY <2>4 DEF Decided, Agree
  <2> QED
    BY <2>1, <2>2, <2>3, <2>4, <1>3 DEF Decided
<1> QED
  BY <1>7, <1>8, <1>10, <1>11, <1>12, <1>13 DEF IInv

\* What a request saved last, joined with what others committed meanwhile.
LEMMA JoinedRows ==
    ASSUME IInv, NEW r \in Requests, req[r].pc # "idle", NEW rows \in SUBSET Rows,
           HasLatest(rows)
    PROVE  /\ cps[Run(r)] \cup rows \in SUBSET Rows
           /\ HasLatest(cps[Run(r)] \cup rows)
<1>1. cps[Run(r)] \in SUBSET Rows /\ HasLatest(cps[Run(r)])
  BY InFlight DEF IInv, TypeOK, LatestExists
<1> QED
  BY <1>1, UnionHasLatest

\* The rows of one more save, and of two.
LEMMA SavedOnce ==
    ASSUME NEW rows \in SUBSET Rows, HasLatest(rows),
           NEW key \in Steps, NEW a \in Approvals, NEW g \in {0, 1}
    PROVE  Saved(rows, key, a, g) \in SUBSET Rows /\ HasLatest(Saved(rows, key, a, g))
<1>1. SavedOn(rows, Saved(rows, key, a, g), key, a)
  BY SavedRow
<1> QED
  BY <1>1 DEF SavedOn, HasLatest

RunRow == [status : RunStatus, step : Steps, appr : Approvals \cup {NoApproval}]
ApprovalRow == [status : {"absent", "pending"} \cup Decided, run : Runs \cup {0},
                kind : ToolKinds \cup {"none"}, origin : {"none", "turn", "resume"}]

\* The rows of the database have their types.
LEMMA RowTypes ==
    ASSUME IInv
    PROVE  /\ wf \in [Runs -> RunRow] /\ ap \in [Approvals -> ApprovalRow]
           /\ \A w \in Runs : wf[w] \in RunRow
BY DEF IInv, TypeOK, RunRow, ApprovalRow

\* What the end of a request leaves of it has its type.
LEMMA EndTypes ==
    ASSUME IInv, NEW r \in Requests,
           lock' = Free(r), req' = [req EXCEPT ![r] = Idle], ran' = ran
    PROVE  /\ lock' \in [Runs -> Requests \cup {None}]
           /\ ran' \in [Approvals -> 0..MaxRan]
           /\ req' \in [Requests -> RequestRow]
<1>1. lock' \in [Runs -> Requests \cup {None}]
  BY DEF IInv, TypeOK, Free
<1>2. ran' \in [Approvals -> 0..MaxRan]
  BY DEF IInv, TypeOK
<1>3. Idle \in RequestRow
  BY DEF Idle, Steps, RequestRow
<1> QED
  BY <1>1, <1>2, <1>3 DEF IInv, TypeOK, RequestRow

\* What a commit writes has its type.
LEMMA CommitTypes ==
    ASSUME IInv, NEW r \in Requests, NEW a \in Approvals, NEW w \in Runs, w = Run(r),
           NEW status \in Decided, ap'[a] = [ap[a] EXCEPT !.status = status],
           DOMAIN ap' = Approvals,
           ap' = [c \in DOMAIN ap' |-> ap'[c]],
           \A c \in Approvals \ {a} : ap'[c] = ap[c] \/ ap'[c] \in ApprovalRow,
           NEW ws \in RunRow, wf' = [wf EXCEPT ![w] = ws],
           NEW rows \in SUBSET Rows, cps' = [cps EXCEPT ![w] = rows],
           lock' = Free(r), req' = [req EXCEPT ![r] = Idle], ran' = ran
    PROVE  TypeOK'
<1>1. wf' \in [Runs -> RunRow]
  BY RowTypes
<1>2. ap' \in [Approvals -> ApprovalRow]
  <2>1. [ap[a] EXCEPT !.status = status] \in ApprovalRow
    BY RowTypes DEF ApprovalRow
  <2>2. \A c \in Approvals : ap'[c] \in ApprovalRow
    BY <2>1, RowTypes
  <2> QED
    BY <2>2
<1>3. cps' \in [Runs -> SUBSET Rows]
  BY DEF IInv, TypeOK
<1> QED
  BY <1>1, <1>2, <1>3, EndTypes DEF TypeOK, RunRow, ApprovalRow, RequestRow

\* The commit of a rejection: approval rejected, run canceled.
LEMMA CommitRejectedStep ==
    ASSUME IInv, NEW r \in Requests, CommitRejected(r)
    PROVE  IInv'
<1> DEFINE a == req[r].appr
           w == Run(r)
           ws == [wf[w] EXCEPT !.status = "canceled", !.step = "approval_rejected"]
<1>1. PICK g \in {0, 1} :
         cps' = [cps EXCEPT ![w] = @ \cup Saved(req[r].seen, "approval_rejected", a, g)]
  BY DEF CommitRejected
<1> DEFINE saved == Saved(req[r].seen, "approval_rejected", a, g)
<1>2. /\ req[r].pc = "executed" /\ req[r].step = "approval_rejected"
      /\ ap' = [ap EXCEPT ![a].status = "rejected"]
      /\ wf' = [wf EXCEPT ![w] = ws]
      /\ lock' = Free(r) /\ req' = [req EXCEPT ![r] = Idle] /\ ran' = ran
  BY DEF CommitRejected
<1>3. /\ a \in Approvals /\ ap[a].status # "absent" /\ w \in Runs /\ w = ap[a].run
      /\ Kind(r) = ap[a].kind /\ HasLatest(req[r].seen) /\ Kind(r) # "sdk"
  BY <1>2, InFlight DEF Taken
<1>4. saved \in SUBSET Rows /\ HasLatest(saved)
  BY <1>3, SavedOnce DEF IInv, TypeOK, Steps
<1> HIDE DEF saved
<1>5. /\ cps[w] \cup saved \in SUBSET Rows /\ HasLatest(cps[w] \cup saved)
  BY <1>2, <1>4, JoinedRows
<1>6. cps' = [cps EXCEPT ![w] = cps[w] \cup saved]
  BY <1>1, <1>3 DEF IInv, TypeOK, saved
<1>7. /\ ap'[a] = [ap[a] EXCEPT !.status = "rejected"]
      /\ \A c \in Approvals \ {a} : ap'[c] = ap[c]
  BY <1>2, <1>3 DEF IInv, TypeOK
<1>8. ws.status = "canceled" /\ ws \in RunRow /\ ws.step \notin Unstopped
  BY <1>3, RowTypes DEF RunRow, RunStatus, Steps, Unstopped
<1> HIDE DEF ws
<1>9. TypeOK'
  <2>1. DOMAIN ap' = Approvals /\ ap' = [c \in DOMAIN ap' |-> ap'[c]]
    BY <1>2, <1>3 DEF IInv, TypeOK
  <2> QED
    BY <1>2, <1>3, <1>5, <1>6, <1>7, <1>8, <2>1, CommitTypes DEF Decided
<1>10. HasLatest(Idle.seen) /\ Idle.pc = "idle" /\ "rejected" \in Decided
  BY DEF Idle, HasLatest, Decided
<1> HIDE DEF w
<1> QED
  BY <1>2, <1>3, <1>5, <1>6, <1>7, <1>8, <1>9, <1>10, DecidedStep DEF w

\* The commit of every other decision: run completed.
LEMMA CommitFinalStep ==
    ASSUME IInv, NEW r \in Requests, CommitFinal(r)
    PROVE  IInv'
<1> DEFINE a == req[r].appr
           w == Run(r)
           status == IF "approval" \in req[r].writes THEN Decision(r) ELSE ap[a].status
           ended == IF "run" \in req[r].writes THEN "completed" ELSE wf[w].status
           ws == [wf[w] EXCEPT !.status = ended, !.step = "final_response"]
<1>1. PICK g, h \in {0, 1} :
         cps' = [cps EXCEPT ![w] = @ \cup
                   Saved(Saved(req[r].seen, req[r].step, a, g), "final_response", a, h)]
  BY DEF CommitFinal
<1> DEFINE first == Saved(req[r].seen, req[r].step, a, g)
           saved == Saved(first, "final_response", a, h)
<1>2. /\ req[r].pc = "executed" /\ req[r].step # "approval_rejected"
      /\ ap' = [ap EXCEPT ![a].status = status]
      /\ wf' = [wf EXCEPT ![w] = ws]
      /\ lock' = Free(r) /\ req' = [req EXCEPT ![r] = Idle] /\ ran' = ran
  BY DEF CommitFinal
<1>3. /\ a \in Approvals /\ ap[a].status # "absent" /\ w \in Runs /\ w = ap[a].run
      /\ Kind(r) = ap[a].kind /\ HasLatest(req[r].seen)
      /\ req[r].approve \/ Kind(r) = "sdk"
      /\ Kind(r) # "commits" => req[r].writes = Columns
      /\ "approval" \notin req[r].writes => ap[a].status \in Decided
  BY <1>2, InFlight DEF Taken
<1>4. first \in SUBSET Rows /\ HasLatest(first)
  BY <1>3, SavedOnce DEF IInv, TypeOK
<1>5. saved \in SUBSET Rows /\ HasLatest(saved)
  <2> HIDE DEF first
  <2> QED
    BY <1>3, <1>4, SavedOnce DEF Steps
<1>6. cps' = [cps EXCEPT ![w] = cps[w] \cup saved]
  BY <1>1, <1>3 DEF IInv, TypeOK
<1> HIDE DEF saved
<1>7. /\ cps[w] \cup saved \in SUBSET Rows /\ HasLatest(cps[w] \cup saved)
  BY <1>2, <1>5, JoinedRows
<1>8. /\ ap'[a] = [ap[a] EXCEPT !.status = status]
      /\ \A c \in Approvals \ {a} : ap'[c] = ap[c]
  BY <1>2, <1>3 DEF IInv, TypeOK
<1>9. ws.status = ended /\ ws \in RunRow /\ ws.step \notin Unstopped
  BY <1>3, RowTypes DEF RunRow, RunStatus, Steps, Unstopped
<1>10. /\ status \in Decided
       /\ Kind(r) = "sdk" => ended = "completed"
       /\ Kind(r) \notin {"sdk", "commits"} => status = "approved" /\ ended = "completed"
  BY <1>3 DEF Decision, Decided, Columns
<1> HIDE DEF ws, first, status, ended
<1>11. TypeOK'
  <2>1. DOMAIN ap' = Approvals /\ ap' = [c \in DOMAIN ap' |-> ap'[c]]
    BY <1>2, <1>3 DEF IInv, TypeOK
  <2> QED
    BY <1>2, <1>3, <1>6, <1>7, <1>8, <1>9, <1>10, <2>1, CommitTypes
<1>12. HasLatest(Idle.seen) /\ Idle.pc = "idle"
  BY DEF Idle, HasLatest
<1>13. /\ Kind(r) = "sdk" => ws.status = "completed"
       /\ Kind(r) \notin {"sdk", "commits"} =>
             \/ status = "approved" /\ ws.status = "completed"
             \/ status = "rejected" /\ ws.status = "canceled"
  BY <1>9, <1>10
<1>14. req[r].pc # "idle" /\ status \in Decided
  BY <1>2, <1>10
<1>15. /\ wf' = [wf EXCEPT ![Run(r)] = ws] /\ ws.step \notin Unstopped
       /\ cps' = [cps EXCEPT ![Run(r)] = cps[w] \cup saved]
       /\ HasLatest(cps[w] \cup saved) /\ req' = [req EXCEPT ![r] = Idle]
  BY <1>2, <1>6, <1>7, <1>9
<1> HIDE DEF w
<1> QED
  BY <1>8, <1>11, <1>12, <1>13, <1>14, <1>15, DecidedStep, ZenonT(60)

\* The commit of a decision whose sub-agent asked for a further approval.
LEMMA CommitPausedAgainStep ==
    ASSUME IInv, NEW r \in Requests, NEW b \in Approvals, CommitPausedAgain(r, b)
    PROVE  IInv'
<1> DEFINE a == req[r].appr
           w == Run(r)
           ws == [status |-> "completed", step |-> "final_response", appr |-> b]
           fresh == [status |-> "pending", run |-> w, kind |-> "sdk", origin |-> "resume"]
<1>1. PICK g, h \in {0, 1} :
         cps' = [cps EXCEPT ![w] = @ \cup
                   Saved(Saved(req[r].seen, "wait_confirmation", b, g), "final_response", b, h)]
  BY DEF CommitPausedAgain
<1> DEFINE first == Saved(req[r].seen, "wait_confirmation", b, g)
           saved == Saved(first, "final_response", b, h)
<1>2. /\ req[r].pc = "executed" /\ Kind(r) = "sdk" /\ ap[b] = NoRequest
      /\ ap' = [ap EXCEPT ![a].status = Decision(r), ![b] = fresh]
      /\ wf' = [wf EXCEPT ![w] = ws]
      /\ lock' = Free(r) /\ req' = [req EXCEPT ![r] = Idle] /\ ran' = ran
  BY DEF CommitPausedAgain, FreshApproval
<1>3. /\ a \in Approvals /\ ap[a].status # "absent" /\ w \in Runs /\ w = ap[a].run
      /\ Kind(r) = ap[a].kind /\ HasLatest(req[r].seen) /\ ap[b].status = "absent" /\ a # b
  BY <1>2, InFlight DEF NoRequest
<1>4. first \in SUBSET Rows /\ HasLatest(first)
  BY <1>3, SavedOnce DEF IInv, TypeOK, Steps
<1>5. saved \in SUBSET Rows /\ HasLatest(saved)
  <2> HIDE DEF first
  <2> QED
    BY <1>3, <1>4, SavedOnce DEF Steps
<1>6. cps' = [cps EXCEPT ![w] = cps[w] \cup saved]
  BY <1>1, <1>3 DEF IInv, TypeOK
<1> HIDE DEF saved
<1>7. /\ cps[w] \cup saved \in SUBSET Rows /\ HasLatest(cps[w] \cup saved)
  BY <1>2, <1>5, JoinedRows
<1>8. /\ ap'[a] = [ap[a] EXCEPT !.status = Decision(r)] /\ ap'[b] = fresh
      /\ \A c \in Approvals \ {a, b} : ap'[c] = ap[c]
      /\ DOMAIN ap' = Approvals /\ ap' = [c \in DOMAIN ap' |-> ap'[c]]
  BY <1>2, <1>3 DEF IInv, TypeOK
<1>9. Decision(r) \in Decided
  BY DEF Decision, Decided
<1>10. TypeOK'
  <2>1. ws \in RunRow /\ fresh \in ApprovalRow
    BY <1>3 DEF RunRow, RunStatus, Steps, ApprovalRow, ToolKinds
  <2>2. wf' \in [Runs -> RunRow]
    BY <1>2, <1>3, <2>1, RowTypes
  <2>3. ap' \in [Approvals -> ApprovalRow]
    <3>1. [ap[a] EXCEPT !.status = Decision(r)] \in ApprovalRow
      BY <1>3, <1>9, RowTypes DEF ApprovalRow
    <3>2. \A c \in Approvals : ap'[c] \in ApprovalRow
      BY <1>3, <1>8, <2>1, <3>1, RowTypes
    <3> QED
      BY <1>8, <3>2
  <2>4. cps' \in [Runs -> SUBSET Rows]
    BY <1>3, <1>6, <1>7 DEF IInv, TypeOK
  <2> QED
    BY <1>2, <2>2, <2>3, <2>4, EndTypes DEF TypeOK, RunRow, ApprovalRow, RequestRow
<1>11. /\ HasLatest(Idle.seen) /\ Idle.pc = "idle" /\ ws.status = "completed"
       /\ ws.step \notin Unstopped
  BY DEF Idle, HasLatest, Unstopped
<1> HIDE DEF w, ws, first
<1> QED
  BY <1>2, <1>3, <1>6, <1>7, <1>8, <1>9, <1>10, <1>11, DecidedStep, ZenonT(60) DEF w

\* The tool that commits publishes the decision before the request is done.
LEMMA CommittingToolStep ==
    ASSUME IInv, NEW r \in Requests, RunCommittingTool(r)
    PROVE  IInv'
<1> DEFINE a == req[r].appr
           w == Run(r)
           ws == [wf[w] EXCEPT !.status = "running"]
           q == [req[r] EXCEPT !.pc = "ended", !.step = "maybe_tool", !.writes = {"run"}]
<1>1. /\ req[r].pc = "decided" /\ req[r].approve /\ Kind(r) = "commits"
      /\ ap' = [ap EXCEPT ![a].status = "approved"]
      /\ wf' = [wf EXCEPT ![w] = ws]
      /\ lock' = [lock EXCEPT ![w] = None]
      /\ cps' = cps
  BY DEF RunCommittingTool
<1>2. /\ a \in Approvals /\ ap[a].status # "absent" /\ w \in Runs /\ w = ap[a].run
  BY <1>1, InFlight
<1>3. req' = [req EXCEPT ![r] = q]
  BY DEF RunCommittingTool, IInv, TypeOK
<1>4. cps' = [cps EXCEPT ![w] = cps[w]] /\ HasLatest(cps[w]) /\ cps[w] \in SUBSET Rows
  BY <1>1, <1>2 DEF IInv, TypeOK, LatestExists
<1>5. /\ q.pc = "ended" /\ q.appr = a /\ q.step = "maybe_tool" /\ q.approve
      /\ q.seen = req[r].seen
      /\ q \in RequestRow
  <2>1. req[r] \in RequestRow
    BY DEF IInv, TypeOK, RequestRow
  <2>2. "maybe_tool" \in Steps /\ {"run"} \in SUBSET Columns
    BY DEF Steps, Columns
  <2>3. q \in RequestRow
    BY <2>1, <2>2 DEF RequestRow
  <2> QED
    BY <1>1, <2>1, <2>3 DEF RequestRow
<1>6. ws.status = "running" /\ ws \in RunRow /\ ws.step \notin Unstopped
  <2>1. wf[w] \in RunRow /\ wf[w].step \notin Unstopped
    BY <1>2, RowTypes DEF IInv, Linked
  <2> QED
    BY <2>1 DEF RunRow, RunStatus
<1>7. /\ ap'[a] = [ap[a] EXCEPT !.status = "approved"]
      /\ \A c \in Approvals \ {a} : ap'[c] = ap[c]
  BY <1>1, <1>2 DEF IInv, TypeOK
<1> HIDE DEF q, ws
<1>8. TypeOK'
  <2>1. wf' \in [Runs -> RunRow]
    BY <1>1, <1>6, RowTypes
  <2>2. ap' \in [Approvals -> ApprovalRow]
    <3>1. [ap[a] EXCEPT !.status = "approved"] \in ApprovalRow
      BY <1>2, RowTypes DEF ApprovalRow, Decided
    <3> QED
      BY <1>1, <1>2, <3>1, RowTypes
  <2>3. lock' \in [Runs -> Requests \cup {None}] /\ cps' \in [Runs -> SUBSET Rows]
    BY <1>1 DEF IInv, TypeOK
  <2>4. ran' \in [Approvals -> 0..MaxRan]
    <3>1. Acts(a) /\ ran \in [Approvals -> 0..MaxRan]
      BY DEF RunCommittingTool, IInv, TypeOK
    <3> QED
      BY <1>2, <3>1 DEF Acts, MaxRan
  <2>5. req' \in [Requests -> RequestRow]
    <3>1. req \in [Requests -> RequestRow] /\ q \in RequestRow
      BY <1>5 DEF IInv, TypeOK, RequestRow
    <3> QED
      BY <1>3, <3>1
  <2> QED
    BY <2>1, <2>2, <2>3, <2>4, <2>5 DEF TypeOK, RunRow, ApprovalRow, RequestRow
<1>9. /\ wf' = [wf EXCEPT ![Run(r)] = ws] /\ ws.step \notin Unstopped
      /\ cps' = [cps EXCEPT ![Run(r)] = cps[w]]
      /\ req[r].pc # "idle" /\ "approved" \in Decided
  BY <1>1, <1>4, <1>6 DEF Decided
<1>10. /\ HasLatest(q.seen) /\ HasLatest(cps[w])
       /\ q.pc = "ended" /\ q.appr = req[r].appr /\ q.step = "maybe_tool" /\ q.approve
       /\ Kind(r) = "commits"
  BY <1>1, <1>4, <1>5, InFlight
<1> HIDE DEF w
<1> QED
  BY <1>3, <1>7, <1>8, <1>9, <1>10, DecidedStep

----------------------------------------------------------------------------
\* No step breaks the invariant.
LEMMA NextInvariant == IInv /\ [Next]_vars => IInv'
<1> SUFFICES ASSUME IInv, [Next]_vars PROVE IInv'
  OBVIOUS
<1>1. CASE ChatTurn
  BY <1>1, StreamStep, TurnStep, PlainTurnStep DEF ChatTurn
<1>2. ASSUME NEW r \in Requests, ButtonDecision(r) \/ ChatDecision(r) PROVE IInv'
  BY <1>2, ReadStep DEF ButtonDecision, ChatDecision
<1>3. ASSUME NEW r \in Requests, DecideApproval(r) PROVE IInv'
  BY <1>3, DecideStep
<1>4. ASSUME NEW r \in Requests, Continue(r) PROVE IInv'
  BY <1>4, ContinueStep, CommittingToolStep, RollBackStep, SnapshotStep DEF Continue
<1>5. ASSUME NEW r \in Requests, Commit(r) PROVE IInv'
  BY <1>5, CommitRejectedStep, CommitFinalStep, CommitPausedAgainStep DEF Commit
<1>6. ASSUME NEW r \in Requests, Abort(r) PROVE IInv'
  BY <1>6, AbortStep
<1>7. CASE UNCHANGED vars
  BY <1>7 DEF vars, IInv, TypeOK, LatestExists, Linked, Paused, PendingTurn, OneAtATime, Branch,
              Taken, OthersAgree, Agree
<1> QED
  BY <1>1, <1>2, <1>3, <1>4, <1>5, <1>6, <1>7 DEF Next

\* The invariant holds for ever.
LEMMA Invariant == Spec => []IInv
BY InitInvariant, NextInvariant, PTL DEF Spec

\* The rows of the database and the requests always have the shapes TypeOK gives.
THEOREM TypeCorrect == Spec => []TypeOK
<1>1. IInv => TypeOK
  BY DEF IInv
<1> QED
  BY <1>1, Invariant, PTL

\* Whatever the other requests of the session do, and however checkpoints tie, the
\* card of a chat turn stays one that _ensure_approval_can_continue accepts until
\* it is decided.
THEOREM PendingStaysDecidable == Spec => []PendingIsDecidable
<1>1. ASSUME IInv, NEW a \in Approvals, PendingTurn(a) PROVE Decidable(a)
  <2> DEFINE w == ap[a].run
  <2>1. /\ wf[w] = [status |-> "waiting_user", step |-> "wait_confirmation", appr |-> a]
        /\ \E c \in LatestRows(cps[w]) : c.key = "wait_confirmation"
        /\ \A c \in cps[w] : c.key = "wait_confirmation" => c.appr = a
    BY <1>1 DEF IInv, Paused
  <2>2. \A c \in LatestCheckpoint(cps[w], wf[w].step) :
           c \in cps[w] /\ c.key = "wait_confirmation"
    BY <2>1 DEF LatestCheckpoint, LatestRows
  <2> QED
    BY <1>1, <2>1, <2>2 DEF Decidable, EnsureApprovalCanContinue, PendingTurn
<1>2. IInv => PendingIsDecidable
  BY <1>1 DEF PendingIsDecidable, PendingTurn
<1> QED
  BY <1>2, Invariant, PTL

----------------------------------------------------------------------------
(* Requests one after another.                                             *)

\* Only the first request is ever in flight.
OneByOne == \A r \in Requests : r # First => req[r].pc = "idle"

\* What it decides is still to be decided, or approved by its own tool's commit.
InHand == req[First].pc # "idle" =>
             \/ ap[req[First].appr].status = "pending"
             \/ /\ req[First].pc \in {"ended", "executed"} /\ req[First].approve
                /\ ap[req[First].appr].status = "approved"

\* A tool that ran did so once, for an approval that is approved or about to be.
RanApproved ==
    \A a \in Approvals :
        \/ ran[a] = 0
        \/ ran[a] = 1 /\ \/ ap[a].status = "approved"
                         \/ /\ ap[a].status = "pending"
                            /\ req[First].pc \in {"ended", "executed"}
                            /\ req[First].appr = a /\ req[First].approve

SerialInv == OneByOne /\ InHand /\ RanApproved

LEMMA FirstRequest == First \in Requests
BY RequestsAssumption DEF First

\* What a step of the serial half does to the rows, and that decisions stay.
SerialAfter == SerialInv' /\ \A a \in Approvals : ap[a].status \in Decided => ap'[a].status = ap[a].status

LEMMA SerialChatTurn == IInv /\ SerialInv /\ ChatTurn => SerialAfter
<1> SUFFICES ASSUME IInv, SerialInv, ChatTurn PROVE SerialAfter
  OBVIOUS
<1>1. CASE UNCHANGED <<ap, req, ran>>
  BY <1>1 DEF SerialInv, SerialAfter, OneByOne, InHand, RanApproved
<1>2. ASSUME NEW w \in Runs, NEW a \in Approvals, NEW kind \in Kinds, PauseTurn(w, a, kind)
      PROVE  SerialAfter
  <2>1. /\ ap[a].status = "absent" /\ UNCHANGED <<req, ran>>
        /\ \A b \in Approvals : b # a => ap'[b] = ap[b]
        /\ ap'[a].status = "pending"
    BY <1>2 DEF PauseTurn, FreshApproval, NoRequest, IInv, TypeOK
  <2>2. req[First].pc # "idle" => req[First].appr \in Approvals /\ req[First].appr # a
    BY <2>1, FirstRequest DEF IInv, Linked
  <2>3. ran[a] = 0
    BY <2>1 DEF SerialInv, RanApproved
  <2>4. OneByOne' /\ InHand'
    BY <2>1, <2>2 DEF SerialInv, OneByOne, InHand
  <2>5. RanApproved'
    BY <2>1, <2>3 DEF SerialInv, RanApproved
  <2>6. \A b \in Approvals : ap[b].status \in Decided => ap'[b].status = ap[b].status
    BY <2>1 DEF Decided
  <2> QED
    BY <2>4, <2>5, <2>6 DEF SerialInv, SerialAfter
<1> QED
  BY <1>1, <1>2 DEF ChatTurn, StartStream, PlainTurn

\* A request is let through for an approval that is pending.
LEMMA SerialRead ==
    ASSUME IInv, SerialInv, NEW a \in Approvals, NEW approve \in BOOLEAN, Read(First, a, approve)
    PROVE  SerialAfter
<1>1. /\ ap[a].status = "pending" /\ req[First].pc = "idle" /\ UNCHANGED <<ap, ran>>
      /\ req'[First].pc = "read" /\ req'[First].appr = a
      /\ \A r \in Requests : r # First => req'[r] = req[r]
  BY FirstRequest DEF Read, LatestCheckpoint, EnsureApprovalCanContinue, IInv, TypeOK
<1>2. OneByOne' /\ InHand'
  BY <1>1 DEF SerialInv, OneByOne, InHand
<1>3. RanApproved'
  BY <1>1 DEF SerialInv, RanApproved
<1> QED
  BY <1>1, <1>2, <1>3 DEF SerialInv, SerialAfter

LEMMA SerialDecide ==
    ASSUME IInv, SerialInv, DecideApproval(First)
    PROVE  SerialAfter
<1>1. /\ req[First].pc = "read" /\ UNCHANGED <<ap, ran>>
      /\ req'[First].pc = "decided" /\ req'[First].appr = req[First].appr
      /\ \A r \in Requests : r # First => req'[r] = req[r]
  BY FirstRequest DEF DecideApproval, IInv, TypeOK
<1>2. OneByOne' /\ InHand'
  BY <1>1 DEF SerialInv, OneByOne, InHand
<1>3. RanApproved'
  BY <1>1 DEF SerialInv, RanApproved
<1> QED
  BY <1>1, <1>2, <1>3 DEF SerialInv, SerialAfter

\* A new snapshot changes nothing that is committed.
LEMMA SerialSnapshot ==
    ASSUME IInv, SerialInv, NewSnapshot(First)
    PROVE  SerialAfter
<1>1. /\ req[First].pc = "ended" /\ UNCHANGED <<ap, ran>>
      /\ req'[First].pc = "executed" /\ req'[First].appr = req[First].appr
      /\ req'[First].approve = req[First].approve
      /\ \A r \in Requests : r # First => req'[r] = req[r]
  BY FirstRequest DEF NewSnapshot, IInv, TypeOK
<1>2. OneByOne' /\ InHand'
  BY <1>1 DEF SerialInv, OneByOne, InHand
<1>3. RanApproved'
  BY <1>1 DEF SerialInv, RanApproved
<1> QED
  BY <1>1, <1>2, <1>3 DEF SerialInv, SerialAfter

\* The tool runs for an approval whose tool has not run.
LEMMA SerialContinue ==
    ASSUME IInv, SerialInv, Continue(First)
    PROVE  SerialAfter
<1> SUFFICES ASSUME ~NewSnapshot(First) PROVE SerialAfter
  BY SerialSnapshot
<1> DEFINE a == req[First].appr
<1>1. /\ req[First].pc = "decided" /\ a \in Approvals /\ ap[a].status = "pending" /\ ran[a] = 0
  <2>1. req[First].pc = "decided"
    BY DEF Continue, StopRejected, RunTool, ToolNotRun, ResumeSdkAgent, RunCommittingTool, RollBackInTool
  <2>2. a \in Approvals /\ ap[a].status = "pending"
    BY <2>1, FirstRequest DEF IInv, Linked, SerialInv, InHand
  <2> QED
    BY <2>1, <2>2 DEF SerialInv, RanApproved
<1>2. /\ req'[First].pc \in {"ended", "executed"} /\ req'[First].appr = a
      /\ req'[First].approve = req[First].approve
      /\ \A r \in Requests : r # First => req'[r] = req[r]
  BY FirstRequest DEF Continue, StopRejected, RunTool, ToolNotRun, ResumeSdkAgent, RunCommittingTool,
                      RollBackInTool, Executed, IInv, TypeOK
<1>3. /\ \A b \in Approvals : b # a => ap'[b] = ap[b] /\ ran'[b] = ran[b]
      /\ \/ ap'[a] = ap[a] /\ ran'[a] = ran[a]
         \/ ap'[a] = ap[a] /\ ran'[a] = 1 /\ req[First].approve
         \/ ap'[a].status = "approved" /\ ran'[a] = 1 /\ req[First].approve
  <2>1. CASE UNCHANGED <<ap, ran>>
    BY <2>1
  <2>2. CASE Acts(a) /\ UNCHANGED ap /\ req[First].approve
    BY <1>1, <2>2 DEF Acts, MaxRan, IInv, TypeOK
  <2>3. CASE RunCommittingTool(First)
    BY <1>1, <2>3 DEF RunCommittingTool, Acts, MaxRan, IInv, TypeOK
  <2> QED
    BY <2>1, <2>2, <2>3 DEF Continue, StopRejected, RunTool, ToolNotRun, ResumeSdkAgent, RollBackInTool
<1> HIDE DEF a
<1>4. OneByOne' /\ InHand'
  BY <1>1, <1>2, <1>3 DEF SerialInv, OneByOne, InHand
<1>5. RanApproved'
  BY <1>1, <1>2, <1>3 DEF SerialInv, RanApproved, a
<1>6. \A b \in Approvals : ap[b].status \in Decided => ap'[b].status = ap[b].status
  BY <1>1, <1>3 DEF Decided
<1> QED
  BY <1>4, <1>5, <1>6 DEF SerialInv, SerialAfter

\* The commit writes the decision of an approval that is pending, or once more the
\* one the tool has committed.
LEMMA SerialCommit ==
    ASSUME IInv, SerialInv, Commit(First)
    PROVE  SerialAfter
<1> DEFINE a == req[First].appr
<1>1. /\ req[First].pc = "executed" /\ a \in Approvals /\ ap[a].status # "absent"
      /\ \/ ap[a].status = "pending"
         \/ req[First].approve /\ ap[a].status = "approved"
  <2>1. req[First].pc = "executed"
    BY DEF Commit, CommitRejected, CommitFinal, CommitPausedAgain
  <2> QED
    BY <2>1, FirstRequest DEF IInv, Linked, SerialInv, InHand
<1>2. /\ req'[First].pc = "idle" /\ UNCHANGED ran
      /\ \A r \in Requests : r # First => req'[r] = req[r]
  BY FirstRequest DEF Commit, CommitRejected, CommitFinal, CommitPausedAgain, Idle, IInv, TypeOK
<1>3. /\ ap'[a].status = Decision(First)
      /\ \A b \in Approvals : b # a => \/ ap'[b] = ap[b]
                                       \/ ap[b].status = "absent" /\ ap'[b].status = "pending"
  <2>1. CASE CommitRejected(First)
    <3>1. ~req[First].approve
      BY <2>1, FirstRequest DEF CommitRejected, IInv, Branch, Taken
    <3> QED
      BY <1>1, <2>1, <3>1 DEF CommitRejected, Decision, IInv, TypeOK
  <2>2. CASE CommitFinal(First)
    <3>1. "approval" \notin req[First].writes => ap[a].status = Decision(First)
      BY <1>1, FirstRequest DEF IInv, Branch, Taken, Decided, Decision
    <3>2. /\ "approval" \in req[First].writes => ap'[a].status = Decision(First)
          /\ "approval" \notin req[First].writes => ap'[a].status = ap[a].status
          /\ \A b \in Approvals : b # a => ap'[b] = ap[b]
      BY <1>1, <2>2 DEF CommitFinal, IInv, TypeOK
    <3> QED
      BY <3>1, <3>2
  <2>3. ASSUME NEW b \in Approvals, CommitPausedAgain(First, b) PROVE <1>3!:
    BY <1>1, <2>3 DEF CommitPausedAgain, FreshApproval, NoRequest, IInv, TypeOK
  <2> QED
    BY <2>1, <2>2, <2>3 DEF Commit
<1> HIDE DEF a
<1>4. OneByOne' /\ InHand'
  BY <1>2 DEF SerialInv, OneByOne, InHand
<1>5. RanApproved'
  BY <1>1, <1>2, <1>3 DEF SerialInv, RanApproved, Decision, a
<1>6. \A b \in Approvals : ap[b].status \in Decided => ap'[b].status = ap[b].status
  BY <1>1, <1>3 DEF Decided, Decision
<1> QED
  BY <1>4, <1>5, <1>6 DEF SerialInv, SerialAfter

LEMMA SerialStep == IInv /\ SerialInv /\ serial /\ [MCNext]_<<vars, serial>> => SerialAfter
<1>1. ASSUME SerialInv, UNCHANGED <<vars, serial>> PROVE SerialAfter
  BY <1>1 DEF vars, SerialInv, SerialAfter, OneByOne, InHand, RanApproved
<1> QED
  BY <1>1, SerialChatTurn, SerialRead, SerialDecide, SerialContinue, SerialCommit
     DEF MCNext, ButtonDecision, ChatDecision

(* Requests one after another: the rows of a decision agree, also when the *)
(* tool ended the request's transaction.                                   *)

CommitsAgree == \A a \in Approvals : ap[a].kind = "commits" => Agree(a)

\* What the request will leave unwritten says already what it would write.
Unwritten(q) ==
    /\ q.pc = "executed" /\ q.step # "approval_rejected" =>
          /\ "approval" \in q.writes \/ ap[q.appr].status = "approved"
          /\ "run" \in q.writes \/ wf[ap[q.appr].run].status = "completed"
    /\ q.pc = "ended" /\ q.writes # {} =>
          "run" \in q.writes /\ ap[q.appr].status = "approved"

AgreeInv == CommitsAgree /\ Unwritten(req[First])

\* A turn acts on a run that has no approval yet.
LEMMA AgreeChatTurn == IInv /\ AgreeInv /\ ChatTurn => AgreeInv'
<1> SUFFICES ASSUME IInv, AgreeInv, ChatTurn PROVE AgreeInv'
  OBVIOUS
<1>1. PICK w \in Runs :
         /\ UNCHANGED req /\ wf[w] \in {Absent, Started}
         /\ \A v \in Runs \ {w} : wf'[v] = wf[v]
         /\ \A a \in Approvals : \/ ap'[a] = ap[a]
                                 \/ ap[a].status = "absent" /\ ap'[a].status = "pending"
  <2>1. ASSUME NEW w \in Runs, StartStream(w)
        PROVE  /\ UNCHANGED <<req, ap>> /\ wf[w] \in {Absent, Started}
               /\ \A v \in Runs \ {w} : wf'[v] = wf[v]
    BY <2>1 DEF StartStream, FreshRun, IInv, TypeOK
  <2>2. ASSUME NEW w \in Runs, NEW status, NEW step, PlainTurn(w, status, step)
        PROVE  /\ UNCHANGED <<req, ap>> /\ wf[w] \in {Absent, Started}
               /\ \A v \in Runs \ {w} : wf'[v] = wf[v]
    BY <2>2 DEF PlainTurn, OwnRun, FreshRun, IInv, TypeOK
  <2>3. ASSUME NEW w \in Runs, NEW a \in Approvals, NEW kind \in Kinds, PauseTurn(w, a, kind)
        PROVE  /\ UNCHANGED req /\ wf[w] \in {Absent, Started}
               /\ \A v \in Runs \ {w} : wf'[v] = wf[v]
               /\ \A b \in Approvals : \/ ap'[b] = ap[b]
                                       \/ ap[b].status = "absent" /\ ap'[b].status = "pending"
    BY <2>3 DEF PauseTurn, OwnRun, FreshRun, FreshApproval, NoRequest, IInv, TypeOK
  <2> QED
    BY <2>1, <2>2, <2>3 DEF ChatTurn
<1>2. \A a \in Approvals : ap[a].status # "absent" => ap[a].run \in Runs \ {w}
  BY <1>1 DEF IInv, Linked, Absent, Started, Unstopped
<1>3. CommitsAgree'
  <2> SUFFICES ASSUME NEW a \in Approvals, ap'[a].kind = "commits" PROVE Agree(a)'
    BY DEF CommitsAgree
  <2>1. CASE ap'[a] = ap[a] /\ ap[a].status \in Decided
    BY <2>1, <1>1, <1>2 DEF AgreeInv, CommitsAgree, Agree, Decided
  <2>2. CASE ap'[a].status \notin Decided
    BY <2>2 DEF Agree, Decided
  <2> QED
    BY <1>1, <2>1, <2>2 DEF Decided
<1>4. Unwritten(req[First])'
  <2>1. req[First].pc # "idle" =>
           /\ ap'[req[First].appr] = ap[req[First].appr]
           /\ wf'[ap[req[First].appr].run] = wf[ap[req[First].appr].run]
    BY <1>1, <1>2, FirstRequest DEF IInv, Linked
  <2> QED
    BY <1>1, <2>1 DEF AgreeInv, Unwritten
<1> QED
  BY <1>3, <1>4 DEF AgreeInv

\* The steps that leave the rows alone.
LEMMA AgreeRequest ==
    ASSUME IInv, AgreeInv,
           \/ \E a \in Approvals, approve \in BOOLEAN : Read(First, a, approve)
           \/ DecideApproval(First)
           \/ Continue(First) /\ ~RunCommittingTool(First)
    PROVE  AgreeInv'
<1>1. UNCHANGED <<wf, ap>>
  BY DEF Read, DecideApproval, Continue, StopRejected, RunTool, ToolNotRun, ResumeSdkAgent,
         RollBackInTool, NewSnapshot
<1>2. CommitsAgree'
  BY <1>1 DEF AgreeInv, CommitsAgree, Agree
<1>3. CASE req'[First].pc # "executed" /\ (req'[First].pc = "ended" => req'[First].writes = {})
  BY <1>1, <1>2, <1>3 DEF AgreeInv, Unwritten
<1>4. CASE /\ req[First].pc = "decided" /\ req'[First].writes = req[First].writes
         /\ req'[First].pc = "executed"
  <2>1. req[First].writes = Columns
    BY <1>4, FirstRequest DEF IInv, Branch, Taken
  <2> QED
    BY <1>1, <1>2, <1>4, <2>1 DEF AgreeInv, Unwritten, Columns
<1>5. CASE NewSnapshot(First)
  <2> DEFINE a == req[First].appr
  <2>1. PICK more \in SUBSET Columns :
           /\ req[First].writes = {} => /\ "approval" \in more \/ ap[a].status = "approved"
                                        /\ "run" \in more \/ wf[ap[a].run].status = "completed"
           /\ req' = [req EXCEPT ![First].pc = "executed", ![First].seen = cps[Run(First)],
                                 ![First].writes = @ \cup more]
    BY <1>5 DEF NewSnapshot, Columns, Run
  <2>2. /\ req[First].pc = "ended" /\ req'[First].pc = "executed" /\ req'[First].appr = a
        /\ req'[First].writes = req[First].writes \cup more
    BY <1>5, <2>1, FirstRequest DEF NewSnapshot, IInv, TypeOK
  <2>3. Unwritten(req[First])'
    BY <1>1, <2>1, <2>2 DEF AgreeInv, Unwritten
  <2> QED
    BY <1>2, <2>3 DEF AgreeInv
<1>6. \/ req'[First].pc # "executed" /\ (req'[First].pc = "ended" => req'[First].writes = {})
      \/ NewSnapshot(First)
      \/ /\ req[First].pc = "decided" /\ req'[First].writes = req[First].writes
         /\ req'[First].pc = "executed"
  BY FirstRequest DEF Read, DecideApproval, Continue, StopRejected, RunTool, ToolNotRun,
         ResumeSdkAgent, RollBackInTool, Executed, IInv, TypeOK
<1> QED
  BY <1>3, <1>4, <1>5, <1>6

\* The tool that commits leaves its approval approved and its run running.
LEMMA AgreeCommittingTool ==
    ASSUME IInv, AgreeInv, RunCommittingTool(First)
    PROVE  AgreeInv'
<1> DEFINE a == req[First].appr
<1>1. /\ req[First].pc = "decided" /\ a \in Approvals /\ Run(First) \in Runs
      /\ Run(First) = ap[a].run /\ Kind(First) = "commits" /\ ap[a].kind = "commits"
      /\ ap[a].status # "absent"
  BY FirstRequest, InFlight DEF RunCommittingTool
<1>2. /\ ap'[a] = [ap[a] EXCEPT !.status = "approved"]
      /\ \A c \in Approvals \ {a} : ap'[c] = ap[c]
      /\ wf'[ap[a].run].status = "running"
      /\ \A v \in Runs \ {ap[a].run} : wf'[v] = wf[v]
      /\ req'[First].pc = "ended" /\ req'[First].appr = a /\ req'[First].writes = {"run"}
  BY <1>1, FirstRequest DEF RunCommittingTool, IInv, TypeOK
<1>3. /\ ap'[a].status = "approved" /\ ap'[a].run = ap[a].run /\ ap'[a].kind = "commits"
  BY <1>1, <1>2 DEF IInv, TypeOK
<1> HIDE DEF a
<1>4. CommitsAgree'
  <2> SUFFICES ASSUME NEW c \in Approvals, ap'[c].kind = "commits" PROVE Agree(c)'
    BY DEF CommitsAgree
  <2>1. CASE c = a
    BY <2>1, <1>2, <1>3 DEF Agree
  <2>2. CASE c # a /\ ap[c].status \in Decided
    <3>1. ap'[c] = ap[c] /\ ap[c].run \in Runs \ {ap[a].run}
      BY <2>2, <1>1, <1>2 DEF IInv, Linked, OneAtATime, Decided
    <3> QED
      BY <3>1, <1>2 DEF AgreeInv, CommitsAgree, Agree
  <2>3. CASE c # a /\ ap[c].status \notin Decided
    BY <2>3, <1>2 DEF Agree, Decided
  <2> QED
    BY <2>1, <2>2, <2>3
<1> QED
  BY <1>2, <1>3, <1>4 DEF AgreeInv, Unwritten

\* A commit leaves the rows agreeing.
LEMMA AgreeCommit ==
    ASSUME IInv, AgreeInv, Commit(First)
    PROVE  AgreeInv'
<1> DEFINE a == req[First].appr
           w == ap[a].run
<1>1. /\ req[First].pc = "executed" /\ a \in Approvals /\ w \in Runs /\ Run(First) = w
      /\ ap[a].status # "absent" /\ Kind(First) = ap[a].kind
  BY FirstRequest, InFlight DEF Commit, CommitRejected, CommitFinal, CommitPausedAgain
<1> DEFINE Ended(status, ended) ==
             /\ req' = [req EXCEPT ![First] = Idle]
             /\ ap' = [ap EXCEPT ![a].status = status]
             /\ \E step \in Steps : wf' = [wf EXCEPT ![w].status = ended, ![w].step = step]
<1>2. /\ CommitRejected(First) => Ended("rejected", "canceled")
      /\ CommitFinal(First) =>
            Ended(IF "approval" \in req[First].writes THEN Decision(First) ELSE ap[a].status,
                  IF "run" \in req[First].writes THEN "completed" ELSE wf[w].status)
  <2>1. CommitRejected(First) => Ended("rejected", "canceled")
    BY <1>1 DEF CommitRejected, Steps
  <2>2. ASSUME CommitFinal(First)
        PROVE  Ended(IF "approval" \in req[First].writes THEN Decision(First) ELSE ap[a].status,
                     IF "run" \in req[First].writes THEN "completed" ELSE wf[w].status)
    <3>1. /\ req' = [req EXCEPT ![First] = Idle]
          /\ ap' = [ap EXCEPT ![a].status = IF "approval" \in req[First].writes THEN Decision(First) ELSE @]
          /\ wf' = [wf EXCEPT ![w].status = IF "run" \in req[First].writes THEN "completed" ELSE @,
                              ![w].step = "final_response"]
      BY <1>1, <2>2 DEF CommitFinal
    <3>2. "final_response" \in Steps
      BY DEF Steps
    <3> QED
      BY <1>1, <3>1, <3>2 DEF IInv, TypeOK
  <2> QED
    BY <2>1, <2>2
<1>3. ASSUME NEW status, NEW ended, Ended(status, ended)
      PROVE  /\ req'[First].pc = "idle"
             /\ \A v \in Runs \ {w} : wf'[v] = wf[v]
             /\ \A c \in Approvals \ {a} : ap'[c] = ap[c]
             /\ ap'[a].run = w /\ ap'[a].kind = ap[a].kind /\ ap'[a].status = status
             /\ wf'[w].status = ended
  BY <1>1, <1>3, FirstRequest DEF Idle, IInv, TypeOK
<1>4. ASSUME NEW b \in Approvals, CommitPausedAgain(First, b)
      PROVE  /\ req'[First].pc = "idle"
             /\ \A v \in Runs \ {w} : wf'[v] = wf[v]
             /\ \A c \in Approvals \ {a} : ap'[c] = ap[c] \/ ap'[c].kind = "sdk"
             /\ ap'[a].run = w /\ ap'[a].kind = ap[a].kind /\ ap[a].kind = "sdk"
  <2>1. b # a /\ ap[a].kind = "sdk"
    BY <1>1, <1>4 DEF CommitPausedAgain, FreshApproval, NoRequest
  <2>2. /\ req' = [req EXCEPT ![First] = Idle]
        /\ ap' = [ap EXCEPT ![a].status = Decision(First),
                            ![b] = [status |-> "pending", run |-> w, kind |-> "sdk",
                                    origin |-> "resume"]]
        /\ wf' = [wf EXCEPT ![w] = [status |-> "completed", step |-> "final_response", appr |-> b]]
    BY <1>1, <1>4 DEF CommitPausedAgain
  <2>3. req'[First].pc = "idle" /\ \A v \in Runs \ {w} : wf'[v] = wf[v]
    BY <2>2, FirstRequest DEF Idle, IInv, TypeOK
  <2>4. /\ \A c \in Approvals \ {a, b} : ap'[c] = ap[c]
        /\ ap'[b].kind = "sdk" /\ ap'[a].run = w /\ ap'[a].kind = ap[a].kind
    BY <1>1, <2>1, <2>2 DEF IInv, TypeOK
  <2> QED
    BY <2>1, <2>3, <2>4
<1> HIDE DEF Ended
<1>5. /\ req'[First].pc = "idle"
      /\ \A v \in Runs \ {w} : wf'[v] = wf[v]
      /\ \A c \in Approvals \ {a} : ap'[c] = ap[c] \/ ap'[c].kind = "sdk"
      /\ ap'[a].run = w /\ ap'[a].kind = ap[a].kind
  BY <1>2, <1>3, <1>4 DEF Commit
<1>6. ap[a].kind = "commits" =>
         \/ ap'[a].status = "rejected" /\ wf'[w].status = "canceled"
         \/ ap'[a].status = "approved" /\ wf'[w].status = "completed"
  <2> SUFFICES ASSUME ap[a].kind = "commits"
               PROVE  \/ ap'[a].status = "rejected" /\ wf'[w].status = "canceled"
                      \/ ap'[a].status = "approved" /\ wf'[w].status = "completed"
    OBVIOUS
  <2>1. CASE CommitRejected(First)
    BY <1>2, <1>3, <2>1
  <2>2. CASE CommitFinal(First)
    <3>1. Decision(First) = "approved"
      BY <1>1, <2>2, FirstRequest DEF CommitFinal, Decision, IInv, Branch, Taken
    <3>2. /\ "approval" \in req[First].writes \/ ap[a].status = "approved"
          /\ "run" \in req[First].writes \/ wf[w].status = "completed"
      BY <1>1, <2>2 DEF CommitFinal, AgreeInv, Unwritten
    <3>3. Ended("approved", "completed")
      BY <1>2, <2>2, <3>1, <3>2
    <3> QED
      BY <1>3, <3>3
  <2>3. CASE \E b \in Approvals : CommitPausedAgain(First, b)
    BY <1>4, <2>3
  <2> QED
    BY <2>1, <2>2, <2>3 DEF Commit
<1> HIDE DEF a, w
<1>7. CommitsAgree'
  <2> SUFFICES ASSUME NEW c \in Approvals, ap'[c].kind = "commits" PROVE Agree(c)'
    BY DEF CommitsAgree
  <2>1. CASE c = a
    BY <2>1, <1>5, <1>6 DEF Agree
  <2>2. CASE c # a /\ ap[c].status \in Decided
    <3>1. ap'[c] = ap[c]
      BY <2>2, <1>5
    <3>2. ap[c].run \in Runs /\ ap[c].run # w
      BY <2>2, <3>1, <1>1 DEF IInv, Linked, OneAtATime, Decided, w
    <3> QED
      BY <3>1, <3>2, <1>5 DEF AgreeInv, CommitsAgree, Agree
  <2>3. CASE c # a /\ ap[c].status \notin Decided
    BY <2>3, <1>5 DEF Agree, Decided
  <2> QED
    BY <2>1, <2>2, <2>3
<1> QED
  BY <1>5, <1>7 DEF AgreeInv, Unwritten

LEMMA AgreeStep == IInv /\ AgreeInv /\ serial /\ [MCNext]_<<vars, serial>> => AgreeInv'
<1>1. ASSUME AgreeInv, UNCHANGED <<vars, serial>> PROVE AgreeInv'
  BY <1>1 DEF vars, AgreeInv, CommitsAgree, Agree, Unwritten
<1> QED
  BY <1>1, AgreeChatTurn, AgreeRequest, AgreeCommittingTool, AgreeCommit
     DEF MCNext, ButtonDecision, ChatDecision

LEMMA SerialInvariant == MCSpec => [](IInv /\ (serial => SerialInv /\ AgreeInv))
<1>1. MCInit => IInv /\ (serial => SerialInv /\ AgreeInv)
  <2> SUFFICES ASSUME MCInit PROVE IInv /\ SerialInv /\ AgreeInv
    OBVIOUS
  <2>1. /\ \A r \in Requests : req[r].pc = "idle"
        /\ \A a \in Approvals : ran[a] = 0 /\ ap[a].kind = "none"
    BY DEF MCInit, Init, Idle, NoRequest
  <2>2. OneByOne /\ InHand /\ RanApproved
    BY <2>1, FirstRequest DEF OneByOne, InHand, RanApproved
  <2>3. AgreeInv
    BY <2>1, FirstRequest DEF AgreeInv, CommitsAgree, Unwritten
  <2> QED
    BY <2>2, <2>3, InitInvariant DEF MCInit, SerialInv
<1>2. IInv /\ [MCNext]_<<vars, serial>> => IInv'
  <2>1. MCNext => Next
    BY FirstRequest DEF MCNext, Next
  <2> QED
    BY <2>1, NextInvariant
<1>3. IInv /\ (serial => SerialInv /\ AgreeInv) /\ [MCNext]_<<vars, serial>>
         => (serial => SerialInv /\ AgreeInv)'
  BY SerialStep, AgreeStep DEF MCNext, SerialAfter
<1> QED
  BY <1>1, <1>2, <1>3, PTL DEF MCSpec

\* The approval row and the run row never disagree about a decision: whatever two
\* requests that decide the same approval do, whichever commits last and whichever
\* fails; and, for a tool that commits the session itself, one after another.
THEOREM DecisionsAgree == MCSpec => []DecisionMatchesRun
<1>1. IInv /\ (serial => SerialInv /\ AgreeInv) => DecisionMatchesRun
  BY DEF IInv, OthersAgree, AgreeInv, CommitsAgree, DecisionMatchesRun
<1> QED
  BY <1>1, SerialInvariant, PTL

\* Requests one after another: each approved tool runs at most once.
THEOREM SerialToolTheorem == MCSpec => []SerialToolRunsOnce
<1>1. IInv /\ (serial => SerialInv /\ AgreeInv) => SerialToolRunsOnce
  BY DEF SerialInv, RanApproved, SerialToolRunsOnce, ToolRunsOnce
<1> QED
  BY <1>1, SerialInvariant, PTL

\* ... the tool of a rejected approval never runs ...
THEOREM SerialRejectionTheorem == MCSpec => []SerialRejectedMeansNotRun
<1>1. IInv /\ (serial => SerialInv /\ AgreeInv) => SerialRejectedMeansNotRun
  BY DEF SerialInv, RanApproved, SerialRejectedMeansNotRun, RejectedMeansNotRun
<1> QED
  BY <1>1, SerialInvariant, PTL

\* ... and no committed decision is revised, not even by a tool that commits half-way.
THEOREM SerialDecisionTheorem == MCSpec => SerialDecisionFinal
<1>1. IInv /\ (serial => SerialInv /\ AgreeInv) /\ [MCNext]_<<vars, serial>> =>
         [serial => \A a \in Approvals : ap[a].status \in Decided => ap'[a].status = ap[a].status]_vars
  BY SerialStep DEF SerialAfter
<1> QED
  BY <1>1, SerialInvariant, PTL DEF MCSpec, SerialDecisionFinal

----------------------------------------------------------------------------
(* The store: a resume loads a checkpoint of the step the workflow row     *)
(* names.                                                                  *)

\* What the induction needs of the rows: timestamps are numbers, and the newest
\* rows include one of the current step.
Stamped(seen) == \A c \in seen : c.ts \in Nat

ResumeInv ==
    /\ now \in Nat
    /\ Stamped(checkpoints)
    /\ checkpoints # {} => \E c \in LatestRows(checkpoints) : c.key = current_step

\* Rounding a time to the column's precision never moves it below a multiple of
\* the unit it has passed: what keeps an unadjusted timestamp from sorting first.
LEMMA StoredNotBefore ==
    ASSUME NEW t \in Nat, NEW s \in Nat, t > s * TicksPerUnit
    PROVE  Stored(t) \in Nat /\ s <= Stored(t)
<1> DEFINE u == t + TicksPerUnit \div 2
           q == u \div TicksPerUnit
<1>1. TicksPerUnit \in Nat /\ TicksPerUnit > 0
  BY PrecisionAssumption
<1>2. TicksPerUnit \div 2 \in Nat
  BY <1>1
<1>3. u \in Nat /\ u >= s * TicksPerUnit
  BY <1>1, <1>2
<1>4. q \in Nat /\ u < (q + 1) * TicksPerUnit
  BY <1>1, <1>3
<1>5. s * TicksPerUnit < (q + 1) * TicksPerUnit
  BY <1>1, <1>3, <1>4
<1>6. s < q + 1
  BY <1>1, <1>4, <1>5
<1> QED
  BY <1>4, <1>6 DEF Stored

\* A saved checkpoint is among the newest rows, whatever the now says.
LEMMA SavedIsLatest ==
    ASSUME NEW seen, Stamped(seen), NEW t \in Nat,
           seen # {} => LatestRows(seen) # {}
    PROVE  /\ NewTimestamp(seen, t) \in Nat
           /\ \A d \in seen : d.ts <= NewTimestamp(seen, t)
<1>1. CASE \E c \in seen : t <= c.ts * TicksPerUnit
  <2>1. PICK top \in LatestRows(seen) : top = CHOOSE c \in LatestRows(seen) : TRUE
    BY <1>1
  <2>2. top \in seen /\ top.ts \in Nat /\ \A d \in seen : d.ts <= top.ts
    BY <2>1 DEF LatestRows, Stamped
  <2>3. NewTimestamp(seen, t) = top.ts + 1
    BY <1>1, <2>1 DEF NewTimestamp
  <2>4. \A d \in seen : d.ts \in Nat
    BY DEF Stamped
  <2> QED
    BY <2>2, <2>3, <2>4
<1>2. CASE ~ \E c \in seen : t <= c.ts * TicksPerUnit
  <2>1. NewTimestamp(seen, t) = Stored(t)
    BY <1>2 DEF NewTimestamp
  <2>2. \A d \in seen : d.ts \in Nat /\ t > d.ts * TicksPerUnit
    <3> SUFFICES ASSUME NEW d \in seen
                 PROVE  d.ts \in Nat /\ t > d.ts * TicksPerUnit
      OBVIOUS
    <3>1. d.ts \in Nat
      BY DEF Stamped
    <3>2. d.ts * TicksPerUnit \in Nat
      BY <3>1, PrecisionAssumption
    <3> QED
      BY <1>2, <3>1, <3>2
  <2>3. \A d \in seen : d.ts <= Stored(t)
    BY <2>2, StoredNotBefore
  <2>4. Stored(t) \in Nat
    <3>1. TicksPerUnit \in Nat \ {0}
      BY PrecisionAssumption
    <3>2. t + TicksPerUnit \div 2 \in Nat
      BY <3>1
    <3> QED
      BY <3>1, <3>2 DEF Stored
  <2> QED
    BY <2>1, <2>3, <2>4
<1> QED
  BY <1>1, <1>2

\* The workflow row and the newest checkpoint agree in every reachable state, for
\* every column precision: the guarantee _latest_checkpoint's tie-break adds to
\* the timestamps, which alone do not order the saves.
THEOREM ResumeCorrect == StoreSpec => []ResumesAtCurrentStep
<1>1. StoreInit => ResumeInv
  BY DEF StoreInit, ResumeInv, Stamped
<1>2. ResumeInv /\ [StoreNext]_storeVars => ResumeInv'
  <2> SUFFICES ASSUME ResumeInv, [StoreNext]_storeVars
               PROVE  ResumeInv'
    OBVIOUS
  <2>1. CASE StoreTick
    BY <2>1 DEF StoreTick, ResumeInv, LatestRows
  <2>2. ASSUME NEW key \in Nodes, Save(key)
        PROVE  ResumeInv'
    <3> DEFINE c == [n |-> Cardinality(checkpoints) + 1, key |-> key,
                     ts |-> NewTimestamp(checkpoints, now)]
    <3>1. checkpoints' = checkpoints \cup {c} /\ current_step' = key /\ now' = now
      BY <2>2 DEF Save
    <3>2. Stamped(checkpoints) /\ (checkpoints # {} => LatestRows(checkpoints) # {})
      BY DEF ResumeInv
    <3>3. c.ts \in Nat /\ \A d \in checkpoints : d.ts <= c.ts
      BY <3>2, SavedIsLatest DEF ResumeInv
    <3> HIDE DEF c
    <3>4. Stamped(checkpoints')
      BY <3>1, <3>2, <3>3 DEF Stamped
    <3>5. c.ts <= c.ts /\ c \in checkpoints'
      BY <3>1, <3>3
    <3>6. c \in LatestRows(checkpoints')
      BY <3>1, <3>3, <3>5 DEF LatestRows
    <3>7. c.key = current_step'
      BY <3>1 DEF c
    <3> QED
      BY <3>1, <3>4, <3>6, <3>7 DEF ResumeInv
  <2>3. CASE UNCHANGED storeVars
    BY <2>3 DEF storeVars, ResumeInv, LatestRows
  <2> QED
    BY <2>1, <2>2, <2>3 DEF StoreNext
<1>3. ResumeInv => ResumesAtCurrentStep
  BY DEF ResumeInv, ResumesAtCurrentStep, LatestCheckpoint
<1> QED
  BY <1>1, <1>2, <1>3, PTL DEF StoreSpec
=============================================================================
