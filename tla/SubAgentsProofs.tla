--------------------------- MODULE SubAgentsProofs ---------------------------
(***************************************************************************)
(* Proofs about delegated calls, for every number of delegations, every    *)
(* set of tools and capabilities and every bound of a child's calls; and,  *)
(* from "The gateway" on, about the MCP gateway their tools go through,    *)
(* for every number of chat turns, tools and sessions, every declaration   *)
(* and every life of a cache entry.                                        *)
(***************************************************************************)
EXTENDS MCSubAgents, TLAPS

----------------------------------------------------------------------------
(* The inductive invariant.  A delegation shares only the environment of   *)
(* the process with the others: all but EnvironmentKept is about one       *)
(* delegation and its external tasks.                                      *)

Call == [tool : InternalTools, ok : BOOLEAN]
Item == [id : Nat, tool : InternalTools]

Statuses == {"none", "succeeded", "failed", "blocked", "waiting_user", "queued"}
Delegation == [pc : {"idle", "attempt", "running", "paused", "ended"},
               cap : Caps \cup {"none"}, boxed : BOOLEAN, named : BOOLEAN, attempt : Nat,
               resumed : BOOLEAN, calls : Seq(Call), did : Seq(Call), used : Nat,
               items : Seq(Item), todo : SUBSET Item, agreed : SUBSET Nat, ran : SUBSET Nat,
               status : Statuses, event : {"none", "waiting_user", "failed", "succeeded"},
               saved : {"none", "before", "runner"}]

TaskEvents == {"task_queued", "task_running"} \cup {"task_" \o StatusFor(a) : a \in Answers}
Task == [status : {"queued", "running", "succeeded", "waiting_user", "failed"}, completed : BOOLEAN,
         output : {"none"} \cup Answers, artifacts : BOOLEAN,
         events : Seq(TaskEvents)]

TypeOK == /\ dg \in [Delegs -> Delegation]
          /\ rows \in [Delegs -> Seq(Task)]
          /\ env \in {"before", "runner"}

\* Capabilities whose executor runs no child.
OneStep == {ApplyEntry, WebSearch, Tailor}

\* Only a resumed run has an approved call to make, a capability without a child
\* calls nothing, and the attempts are counted.
Limited(g) == /\ ~g.resumed => g.todo = {} /\ g.ran = {}
              /\ g.cap \in OneStep => g.did = <<>>
              /\ g.attempt <= MaxAttempts

\* A child runs for a capability that has one, and a resumed run does not pause.
Placed(g) == /\ g.pc \in {"running", "paused"} => g.cap \notin OneStep
             /\ g.pc = "paused" => ~g.resumed

\* What ran, and what is about to run, was agreed to.
Consented(g) == /\ g.ran \subseteq g.agreed
                /\ \A i \in g.todo : i.id \in g.agreed

\* The record of the calls and the calls that were made tell the same of the MCP
\* tools: a successful record is of a call, and a call has its record.
Backed(g) ==
    /\ \A k \in DOMAIN g.calls : g.calls[k].ok => \E j \in DOMAIN g.did : g.did[j] = g.calls[k]
    /\ \A j \in DOMAIN g.did : g.did[j].tool \in Mcp => \E k \in DOMAIN g.calls : g.calls[k] = g.did[j]

\* EvidenceBacksSuccess of one delegation.
Proven(g) ==
    g.pc = "ended" /\ g.status = "succeeded" =>
       /\ g.cap \in {DbxAgent, ChromeAgent} => g.did # <<>>
       /\ \A k \in DOMAIN g.did : g.did[k].tool \in Mcp => g.did[k].ok

\* DiscoveryFirst of one delegation.
Explored(g) ==
    \A k \in DOMAIN g.did : g.cap = DbxAgent /\ g.did[k].tool # Discovery =>
       \E j \in 1..(k - 1) : g.did[j] = [tool |-> Discovery, ok |-> TRUE]

\* The tasks of a delegation: one for each attempt that came so far, and only a
\* task nothing came of is followed by another attempt.
Counted(g, ts) ==
    LET last == Len(ts)
    IN  /\ g.pc = "idle" \/ g.cap # ApplyEntry => ts = <<>>
        /\ last <= g.attempt
        /\ g.pc = "attempt" => last < g.attempt /\ \A k \in 1..last : Unserved(ts[k])
        /\ \A k \in 1..(last - 1) : Unserved(ts[k])
        /\ g.pc = "ended" /\ last > 0 => g.status = Reported(ts[last])

\* What a delegation and its child did so far is in order.
WorkOK(g) == Limited(g) /\ Consented(g) /\ Backed(g) /\ Explored(g)

DelegationOK(g, ts) == WorkOK(g) /\ Placed(g) /\ Proven(g) /\ Counted(g, ts)

\* A run has saved an environment to put back.
Restorable == \A d \in Delegs : dg[d].pc = "running" => dg[d].saved \in {"before", "runner"}

Inv == TypeOK /\ Restorable /\ \A d \in Delegs : DelegationOK(dg[d], rows[d])

----------------------------------------------------------------------------
(* The ends of an attempt.                                                 *)

\* A step that makes no call leaves the work in order.
SameWork(g, h) ==
    /\ h.cap = g.cap /\ h.did = g.did /\ h.calls = g.calls /\ h.ran = g.ran
    /\ h.agreed = g.agreed /\ h.resumed = g.resumed /\ h.todo \in {g.todo, {}}
    /\ h.attempt <= MaxAttempts

LEMMA SameWorkOK ==
    ASSUME NEW g, NEW h, WorkOK(g), SameWork(g, h)
    PROVE  WorkOK(h)
<1>1. Limited(h)
  BY DEF WorkOK, SameWork, Limited
<1>2. Consented(h)
  BY DEF WorkOK, SameWork, Consented
<1>3. Backed(h)
  BY DEF WorkOK, SameWork, Backed
<1>4. Explored(h)
  BY DEF WorkOK, SameWork, Explored
<1> QED
  BY <1>1, <1>2, <1>3, <1>4 DEF WorkOK

\* A call that ends keeps what it did.
LEMMA EndedOK ==
    ASSUME NEW g \in Delegation, NEW ts, NEW status \in Statuses, WorkOK(g),
           Proven(Ended(g, status)), Counted(Ended(g, status), ts)
    PROVE  Ended(g, status) \in Delegation /\ DelegationOK(Ended(g, status), ts)
<1> DEFINE h == Ended(g, status)
<1>1. h \in Delegation
  <2>1. LifecycleStatus(status) \in {"none", "waiting_user", "failed", "succeeded"}
    BY DEF LifecycleStatus
  <2>2. <<>> \in Seq(Item) /\ {} \in SUBSET Item
    OBVIOUS
  <2> QED
    BY <2>1, <2>2 DEF Delegation, Ended
<1>2. h.pc = "ended" /\ SameWork(g, h)
  BY DEF Ended, Delegation, SameWork, WorkOK, Limited
<1> HIDE DEF h
<1>3. Placed(h)
  BY <1>2 DEF Placed
<1> QED
  BY <1>1, <1>2, <1>3, SameWorkOK DEF DelegationOK, h

\* So does one that is tried again, which is not a resumed one.
LEMMA NextAttemptOK ==
    ASSUME NEW g \in Delegation, NEW ts, WorkOK(g), g.attempt < MaxAttempts,
           Counted(NextAttempt(g), ts)
    PROVE  NextAttempt(g) \in Delegation /\ DelegationOK(NextAttempt(g), ts)
<1> DEFINE h == NextAttempt(g)
<1>1. g.attempt + 1 \in Nat /\ g.attempt + 1 <= MaxAttempts
  BY DEF Delegation, MaxAttempts
<1>2. h = [g EXCEPT !.pc = "attempt", !.attempt = g.attempt + 1]
  BY DEF NextAttempt
<1> HIDE DEF h
<1>3. h \in Delegation
  BY <1>1, <1>2 DEF Delegation
<1>4. h.pc = "attempt" /\ SameWork(g, h)
  BY <1>1, <1>2 DEF Delegation, SameWork
<1>5. Placed(h) /\ Proven(h)
  BY <1>4 DEF Placed, Proven
<1> QED
  BY <1>3, <1>4, <1>5, SameWorkOK DEF DelegationOK, h

----------------------------------------------------------------------------
(* A call of the child.                                                    *)

\* The elements of a sequence and of one that is longer by one.
LEMMA AppendElements ==
    ASSUME NEW S, NEW s \in Seq(S), NEW e \in S
    PROVE  /\ Append(s, e) \in Seq(S)
           /\ DOMAIN Append(s, e) = 1..(Len(s) + 1) /\ DOMAIN s = 1..Len(s) /\ Len(s) \in Nat
           /\ Len(Append(s, e)) = Len(s) + 1
           /\ \A k \in 1..Len(s) : Append(s, e)[k] = s[k] /\ s[k] \in S
           /\ Append(s, e)[Len(s) + 1] = e
OBVIOUS

\* The tools of a DBX child are those of the server.
LEMMA OfferedTools ==
    ASSUME NEW g, NEW t \in Offered(g)
    PROVE  t \in InternalTools /\ (g.cap = DbxAgent => t \in Dbx)
<1>1. t \in ScopedTools(g.cap)
  BY DEF Offered
<1>2. CASE g.cap = DbxAgent
  <2>1. DbxAgent # ChromeAgent /\ DbxAgent # MailAgent
    BY DEF DbxAgent, ChromeAgent, MailAgent
  <2>2. ScopedTools(DbxAgent) = InternalTools \cap Dbx
    BY <2>1 DEF ScopedTools
  <2> QED
    BY <1>1, <1>2, <2>2
<1>3. CASE g.cap # DbxAgent
  <2>1. ScopedTools(g.cap) \subseteq InternalTools
    BY <1>3 DEF ScopedTools
  <2> QED
    BY <1>1, <1>3, <2>1
<1> QED
  BY <1>2, <1>3

\* What a call leaves alone.
SameStand(g, h) ==
    /\ h.pc = g.pc /\ h.cap = g.cap /\ h.resumed = g.resumed /\ h.attempt = g.attempt
    /\ h.items = g.items /\ h.todo = g.todo /\ h.agreed = g.agreed /\ h.ran = g.ran
    /\ h.status = g.status /\ h.saved = g.saved

\* A call keeps the records true, and a DBX call comes after the discovery it needs.
LEMMA InvokedOK ==
    ASSUME NEW g \in Delegation, NEW t \in Offered(g), NEW h \in Invoked(g, t),
           WorkOK(g), g.cap \notin OneStep
    PROVE  h \in Delegation /\ WorkOK(h) /\ SameStand(g, h)
<1>1. t \in InternalTools /\ (g.cap = DbxAgent => t \in Dbx)
  BY OfferedTools
<1>2. g.calls \in Seq(Call) /\ g.did \in Seq(Call)
  BY DEF Delegation
<1> DEFINE e(ok) == [tool |-> t, ok |-> ok]
<1>3. \A ok \in BOOLEAN : e(ok) \in Call /\ e(ok).tool = t /\ e(ok).ok = ok
  BY <1>1 DEF Call
<1>4. \A ok \in BOOLEAN : Recorded(g, t, ok) = IF t \in Mcp THEN Append(g.calls, e(ok)) ELSE g.calls
  BY DEF Recorded
<1> HIDE DEF e
<1>5. CASE DiscoveryMissing(g, t)
  <2>1. h = [g EXCEPT !.calls = Recorded(g, t, FALSE)]
    BY <1>5 DEF Invoked
  <2>2. CASE t \in Mcp
    <3> DEFINE no == e(FALSE)
    <3>1. no \in Call /\ ~no.ok
      BY <1>3
    <3>2. h = [g EXCEPT !.calls = Append(g.calls, no)]
      BY <1>4, <2>1, <2>2
    <3> HIDE DEF no
    <3>3. /\ Append(g.calls, no) \in Seq(Call)
          /\ DOMAIN Append(g.calls, no) = 1..(Len(g.calls) + 1)
          /\ DOMAIN g.calls = 1..Len(g.calls) /\ Len(g.calls) \in Nat
          /\ \A k \in 1..Len(g.calls) : Append(g.calls, no)[k] = g.calls[k]
          /\ Append(g.calls, no)[Len(g.calls) + 1] = no
      BY <1>2, <3>1, AppendElements
    <3>4. /\ h \in Delegation /\ SameStand(g, h) /\ h.did = g.did
          /\ h.calls = Append(g.calls, no)
      BY <3>2, <3>3 DEF Delegation, SameStand
    <3>5. Limited(h) /\ Consented(h)
      BY <3>4 DEF WorkOK, SameStand, Limited, Consented
    <3>6. Explored(h)
      BY <3>4 DEF WorkOK, SameStand, Explored
    <3>7. \A k \in DOMAIN h.calls : (k \in DOMAIN g.calls /\ h.calls[k] = g.calls[k]) \/ h.calls[k] = no
      BY <3>3, <3>4
    <3>8. \A k \in DOMAIN g.calls : k \in DOMAIN h.calls /\ h.calls[k] = g.calls[k]
      BY <3>3, <3>4
    <3>9. Backed(h)
      BY <3>1, <3>4, <3>7, <3>8 DEF WorkOK, Backed
    <3> QED
      BY <3>4, <3>5, <3>6, <3>9 DEF WorkOK
  <2>3. CASE t \notin Mcp
    <3>1. h = [g EXCEPT !.calls = g.calls]
      BY <1>4, <2>1, <2>3
    <3>2. h \in Delegation /\ SameStand(g, h) /\ SameWork(g, h)
      BY <3>1 DEF Delegation, SameStand, SameWork, WorkOK, Limited
    <3> QED
      BY <3>2, SameWorkOK
  <2> QED
    BY <2>2, <2>3
<1>6. CASE h = g
  BY <1>6 DEF SameStand
<1>7. CASE ~DiscoveryMissing(g, t) /\ h # g
  <2>1. PICK ok \in BOOLEAN : h = [g EXCEPT !.calls = Recorded(g, t, ok), !.did = Append(g.did, e(ok))]
    BY <1>7 DEF Invoked, e
  <2>2. /\ Append(g.did, e(ok)) \in Seq(Call)
        /\ DOMAIN Append(g.did, e(ok)) = 1..(Len(g.did) + 1)
        /\ DOMAIN g.did = 1..Len(g.did) /\ Len(g.did) \in Nat
        /\ \A k \in 1..Len(g.did) : Append(g.did, e(ok))[k] = g.did[k]
        /\ Append(g.did, e(ok))[Len(g.did) + 1] = e(ok)
    BY <1>2, <1>3, AppendElements
  <2>3. /\ Append(g.calls, e(ok)) \in Seq(Call)
        /\ DOMAIN Append(g.calls, e(ok)) = 1..(Len(g.calls) + 1)
        /\ DOMAIN g.calls = 1..Len(g.calls) /\ Len(g.calls) \in Nat
        /\ \A k \in 1..Len(g.calls) : Append(g.calls, e(ok))[k] = g.calls[k]
        /\ Append(g.calls, e(ok))[Len(g.calls) + 1] = e(ok)
    BY <1>2, <1>3, AppendElements
  <2>4. /\ h.did = Append(g.did, e(ok))
        /\ h.calls = IF t \in Mcp THEN Append(g.calls, e(ok)) ELSE g.calls
        /\ SameStand(g, h) /\ h \in Delegation
    BY <1>2, <1>4, <2>1, <2>2, <2>3 DEF Delegation, SameStand
  <2>5. Limited(h) /\ Consented(h)
    BY <2>4 DEF WorkOK, SameStand, Limited, Consented
  <2>6. Backed(h)
    <3>1. ASSUME NEW k \in DOMAIN h.calls, h.calls[k].ok PROVE \E j \in DOMAIN h.did : h.did[j] = h.calls[k]
      <4>1. CASE k \in DOMAIN g.calls
        BY <2>2, <2>3, <2>4, <3>1, <4>1 DEF WorkOK, Backed
      <4>2. CASE k \notin DOMAIN g.calls
        <5>1. h.calls[k] = e(ok)
          BY <2>3, <2>4, <3>1, <4>2
        <5> QED
          BY <2>2, <2>4, <5>1
      <4> QED
        BY <4>1, <4>2
    <3>2. ASSUME NEW j \in DOMAIN h.did, h.did[j].tool \in Mcp PROVE \E k \in DOMAIN h.calls : h.calls[k] = h.did[j]
      <4>1. CASE j \in DOMAIN g.did
        BY <2>2, <2>3, <2>4, <3>2, <4>1 DEF WorkOK, Backed
      <4>2. CASE j \notin DOMAIN g.did
        <5>1. h.did[j] = e(ok)
          BY <2>2, <2>4, <3>2, <4>2
        <5>2. t \in Mcp
          BY <1>3, <3>2, <5>1
        <5> QED
          BY <2>3, <2>4, <5>1, <5>2
      <4> QED
        BY <4>1, <4>2
    <3> QED
      BY <3>1, <3>2 DEF Backed
  <2>7. Explored(h)
    <3> SUFFICES ASSUME NEW k \in DOMAIN h.did, h.cap = DbxAgent, h.did[k].tool # Discovery
                 PROVE  \E j \in 1..(k - 1) : h.did[j] = [tool |-> Discovery, ok |-> TRUE]
      BY DEF Explored
    <3>1. g.cap = DbxAgent
      BY <2>4 DEF SameStand
    <3>2. CASE k \in DOMAIN g.did
      <4>1. PICK j \in 1..(k - 1) : g.did[j] = [tool |-> Discovery, ok |-> TRUE]
        BY <2>2, <2>4, <3>1, <3>2 DEF WorkOK, Explored
      <4> QED
        BY <2>2, <2>4, <3>2, <4>1
    <3>3. CASE k \notin DOMAIN g.did
      <4>1. k = Len(g.did) + 1 /\ h.did[k] = e(ok)
        BY <2>2, <2>4, <3>3
      <4>2. Discovered(g)
        BY <1>1, <1>3, <1>7, <3>1, <4>1 DEF DiscoveryMissing
      <4>3. PICK m \in DOMAIN g.calls : g.calls[m] = [tool |-> Discovery, ok |-> TRUE]
        BY <4>2 DEF Discovered
      <4>4. PICK j \in DOMAIN g.did : g.did[j] = [tool |-> Discovery, ok |-> TRUE]
        BY <4>3 DEF WorkOK, Backed
      <4> QED
        BY <2>2, <2>4, <4>1, <4>4
    <3> QED
      BY <3>2, <3>3
  <2> QED
    BY <2>4, <2>5, <2>6, <2>7 DEF WorkOK
<1> QED
  BY <1>5, <1>6, <1>7

----------------------------------------------------------------------------
(* The steps of a delegation.                                              *)

\* A run that starts saves the environment and sets the runner's, one that stops puts
\* back what it saved, and no other step touches it.
Starts(g, h) == g.pc # "running" /\ h.pc = "running" /\ h.saved = env /\ env' = "runner"
Stops(g, h) == g.pc = "running" /\ h.pc # "running" /\ env' = g.saved
Stays(g, h) == /\ g.pc = "running" <=> h.pc = "running"
               /\ h.pc = "running" => h.saved = g.saved
               /\ env' = env
Switches(g, h) == Starts(g, h) \/ Stops(g, h) \/ Stays(g, h)

\* One delegation moves, and its own tasks with it, into a state that is in order.
Moved(d) == \E h \in Delegation, ts \in Seq(Task) :
               /\ DelegationOK(h, ts) /\ Switches(dg[d], h)
               /\ dg' = [dg EXCEPT ![d] = h] /\ rows' = [rows EXCEPT ![d] = ts]

LEMMA MovedOK ==
    ASSUME Inv, NEW d \in Delegs, Moved(d)
    PROVE  Inv'
<1>1. PICK h \in Delegation, ts \in Seq(Task) :
         /\ DelegationOK(h, ts) /\ Switches(dg[d], h)
         /\ dg' = [dg EXCEPT ![d] = h] /\ rows' = [rows EXCEPT ![d] = ts]
  BY DEF Moved
<1>2. \A c \in Delegs : dg'[c] = (IF c = d THEN h ELSE dg[c]) /\ rows'[c] = (IF c = d THEN ts ELSE rows[c])
  BY <1>1 DEF Inv, TypeOK
<1>3. env' \in {"before", "runner"}
  BY <1>1 DEF Inv, TypeOK, Restorable, Switches, Starts, Stops, Stays
<1>4. TypeOK'
  BY <1>1, <1>3 DEF Inv, TypeOK
<1>5. Restorable'
  BY <1>1, <1>2 DEF Inv, TypeOK, Restorable, Switches, Starts, Stops, Stays
<1>6. \A c \in Delegs : DelegationOK(dg'[c], rows'[c])
  BY <1>1, <1>2 DEF Inv
<1> QED
  BY <1>4, <1>5, <1>6 DEF Inv

\* The delegation a step begins with.
LEMMA Before ==
    ASSUME Inv, NEW d \in Delegs
    PROVE  /\ dg[d] \in Delegation /\ DelegationOK(dg[d], rows[d]) /\ rows[d] \in Seq(Task)
           /\ env \in {"before", "runner"}
           /\ rows = [rows EXCEPT ![d] = rows[d]]
BY DEF Inv, TypeOK

\* A call that has no task ends.
LEMMA EndsWithoutTask ==
    ASSUME NEW g \in Delegation, WorkOK(g), NEW status \in Statuses, Proven(Ended(g, status))
    PROVE  Ended(g, status) \in Delegation /\ DelegationOK(Ended(g, status), <<>>)
<1>1. Ended(g, status).pc = "ended" /\ Ended(g, status).attempt = g.attempt /\ g.attempt \in Nat
  BY DEF Ended, Delegation
<1>2. Counted(Ended(g, status), <<>>)
  BY <1>1 DEF Counted
<1> QED
  BY <1>2, EndedOK

\* A call that has no task returns: it ends or is tried again.
LEMMA ReturnsWithoutTask ==
    ASSUME NEW g \in Delegation, WorkOK(g), NEW status \in Statuses, NEW transient \in BOOLEAN,
           Proven(Ended(g, status))
    PROVE  Returned(g, status, transient) \in Delegation /\ DelegationOK(Returned(g, status, transient), <<>>)
<1>1. CASE Retries(g, status, transient)
  <2>1. NextAttempt(g).attempt = g.attempt + 1 /\ g.attempt \in Nat
    BY DEF NextAttempt, Delegation
  <2>2. Counted(NextAttempt(g), <<>>)
    BY <2>1 DEF Counted
  <2> QED
    BY <1>1, <2>2, NextAttemptOK DEF Returned, Retries
<1>2. CASE ~Retries(g, status, transient)
  BY <1>2, EndsWithoutTask DEF Returned
<1> QED
  BY <1>1, <1>2

\* A call that returns, and a child that pauses, does not run.
LEMMA ReturnedStops ==
    ASSUME NEW g \in Delegation, NEW status, NEW transient
    PROVE  /\ Ended(g, status).pc # "running" /\ Ended(g, status).saved = g.saved
           /\ Returned(g, status, transient).pc # "running"
           /\ Returned(g, status, transient).saved = g.saved
<1>1. Ended(g, status).pc = "ended" /\ Ended(g, status).saved = g.saved
  BY DEF Ended, Delegation
<1>2. NextAttempt(g).pc = "attempt" /\ NextAttempt(g).saved = g.saved
  BY DEF NextAttempt, Delegation
<1> QED
  BY <1>1, <1>2 DEF Returned

LEMMA PausedStops ==
    ASSUME NEW g \in Delegation, NEW items
    PROVE  Paused(g, items).pc # "running"
<1>1. Ended(g, "blocked").pc = "ended"
  BY DEF Ended, Delegation
<1>2. [g EXCEPT !.pc = "paused", !.status = "blocked", !.event = "waiting_user", !.items = items].pc = "paused"
  BY DEF Delegation
<1> QED
  BY <1>1, <1>2 DEF Paused

\* What did not succeed claims nothing.
LEMMA FailedIsProven ==
    ASSUME NEW g \in Delegation, NEW status, status # "succeeded"
    PROVE  Proven(Ended(g, status))
BY DEF Proven, Ended, Delegation

\* A delegation that is running or waits for an attempt has no task unless it asks
\* for an apply entry.
LEMMA NoTaskYet ==
    ASSUME NEW g \in Delegation, NEW ts, DelegationOK(g, ts), g.pc = "idle" \/ g.cap # ApplyEntry
    PROVE  ts = <<>>
BY DEF DelegationOK, Counted

LEMMA IdleOK == Idle \in Delegation
<1>1. <<>> \in Seq(Call) /\ <<>> \in Seq(Item) /\ {} \in SUBSET Item /\ {} \in SUBSET Nat
  OBVIOUS
<1>2. 0 \in Nat /\ FALSE \in BOOLEAN /\ "none" \in Caps \cup {"none"} /\ "none" \in Statuses
  BY DEF Statuses
<1> QED
  BY <1>1, <1>2 DEF Idle, Delegation

\* The call begins: Delegate and Refuse.
LEMMA BeginMoves ==
    ASSUME Inv, NEW d \in Delegs, Begin(d)
    PROVE  Moved(d)
<1>1. PICK cap \in Caps : Delegate(d, cap) \/ Refuse(d, cap)
  BY DEF Begin
<1>2. /\ env' = env /\ rows' = [rows EXCEPT ![d] = rows[d]] /\ rows[d] = <<>> /\ rows[d] \in Seq(Task)
      /\ dg[d].pc = "idle"
  BY <1>1, Before, NoTaskYet DEF Delegate, Refuse
<1>3. CASE Delegate(d, cap)
  <2>1. PICK boxed \in BOOLEAN, named \in BOOLEAN :
           dg' = [dg EXCEPT ![d] = [Idle EXCEPT !.pc = "attempt", !.cap = cap, !.boxed = boxed,
                                                !.named = named, !.attempt = 1]]
    BY <1>3 DEF Delegate
  <2> DEFINE h == [Idle EXCEPT !.pc = "attempt", !.cap = cap, !.boxed = boxed, !.named = named, !.attempt = 1]
  <2>2. /\ h.pc = "attempt" /\ h.resumed = FALSE /\ h.calls = <<>> /\ h.did = <<>>
        /\ h.todo = {} /\ h.ran = {} /\ h.attempt = 1
    BY DEF Idle
  <2>3. h \in Delegation
    BY IdleOK DEF Delegation
  <2> HIDE DEF h
  <2>4. WorkOK(h)
    BY <2>2 DEF WorkOK, Limited, Consented, Backed, Explored, MaxAttempts
  <2>5. Placed(h) /\ Proven(h) /\ Counted(h, <<>>)
    BY <2>2 DEF Placed, Proven, Counted
  <2> QED
    BY <1>2, <2>1, <2>2, <2>3, <2>4, <2>5 DEF Moved, DelegationOK, Switches, Stays, h
<1>4. CASE Refuse(d, cap)
  <2> DEFINE h == [Idle EXCEPT !.cap = cap]
  <2>1. PICK status \in {"failed", "waiting_user"} : dg' = [dg EXCEPT ![d] = Ended(h, status)]
    BY <1>4 DEF Refuse
  <2>2. /\ h.resumed = FALSE /\ h.calls = <<>> /\ h.did = <<>>
        /\ h.todo = {} /\ h.ran = {} /\ h.attempt = 0
    BY DEF Idle
  <2>3. h \in Delegation
    BY IdleOK DEF Delegation
  <2> HIDE DEF h
  <2>4. WorkOK(h)
    BY <2>2 DEF WorkOK, Limited, Consented, Backed, Explored, MaxAttempts
  <2>5. status \in Statuses /\ status # "succeeded"
    BY DEF Statuses
  <2>6. Ended(h, status) \in Delegation /\ DelegationOK(Ended(h, status), <<>>)
    BY <2>3, <2>4, <2>5, FailedIsProven, EndsWithoutTask
  <2>7. Ended(h, status).pc # "running"
    BY <2>3, ReturnedStops
  <2> QED
    BY <1>2, <2>1, <2>6, <2>7 DEF Moved, Switches, Stays
<1> QED
  BY <1>1, <1>2, <1>3, <1>4

\* An attempt starts its child, in the context of its own or of the call.
LEMMA BeginRunMoves ==
    ASSUME Inv, NEW d \in Delegs, BeginRun(d)
    PROVE  Moved(d)
<1> DEFINE g == dg[d]
<1>1. g \in Delegation /\ DelegationOK(g, rows[d]) /\ env \in {"before", "runner"}
  BY Before
<1>2. /\ rows' = [rows EXCEPT ![d] = <<>>] /\ <<>> \in Seq(Task)
      /\ g.pc = "attempt" /\ g.cap \notin OneStep
  BY Before, NoTaskYet DEF BeginRun, OneStep
<1>3. CASE /\ dg' = [dg EXCEPT ![d] = [g EXCEPT !.pc = "running", !.saved = env,
                                                !.calls = OfAttempt(g, g.calls),
                                                !.did = OfAttempt(g, g.did)]]
           /\ env' = "runner"
  <2> DEFINE h == [g EXCEPT !.pc = "running", !.saved = env,
                            !.calls = OfAttempt(g, g.calls), !.did = OfAttempt(g, g.did)]
  <2>1. OfAttempt(g, g.calls) \in Seq(Call) /\ OfAttempt(g, g.did) \in Seq(Call)
    BY <1>1 DEF OfAttempt, Delegation
  <2>2. h \in Delegation
    BY <1>1, <2>1 DEF Delegation
  <2>3. /\ h.pc = "running" /\ h.saved = env
        /\ h.cap = g.cap /\ h.resumed = g.resumed /\ h.attempt = g.attempt
        /\ h.todo = g.todo /\ h.ran = g.ran /\ h.agreed = g.agreed
        /\ \/ h.calls = <<>> /\ h.did = <<>>
           \/ h.calls = g.calls /\ h.did = g.did
    BY <1>1 DEF Delegation, OfAttempt
  <2> HIDE DEF h
  <2>4. Limited(h)
    BY <1>1, <2>3 DEF DelegationOK, WorkOK, Limited
  <2>5. Consented(h)
    BY <1>1, <2>3 DEF DelegationOK, WorkOK, Consented
  <2>6. Backed(h)
    BY <1>1, <2>3 DEF DelegationOK, WorkOK, Backed
  <2>7. Explored(h)
    <3>1. CASE h.did = <<>>
      BY <3>1 DEF Explored
    <3>2. CASE h.did = g.did
      BY <1>1, <2>3, <3>2 DEF DelegationOK, WorkOK, Explored
    <3> QED
      BY <2>3, <3>1, <3>2
  <2>8. Placed(h) /\ Proven(h)
    BY <1>2, <2>3 DEF Placed, Proven
  <2>9. Counted(h, <<>>)
    BY <1>1, <2>3 DEF Counted, Delegation
  <2>10. DelegationOK(h, <<>>) /\ Switches(g, h)
    BY <1>2, <1>3, <2>3, <2>4, <2>5, <2>6, <2>7, <2>8, <2>9 DEF DelegationOK, WorkOK, Switches, Starts
  <2> QED
    BY <1>2, <1>3, <2>2, <2>10 DEF Moved, h
<1>4. CASE dg' = [dg EXCEPT ![d] = Ended(g, "failed")] /\ env' = env
  <2>1. "failed" \in Statuses /\ WorkOK(g)
    BY <1>1 DEF Statuses, DelegationOK
  <2>2. Ended(g, "failed") \in Delegation /\ DelegationOK(Ended(g, "failed"), <<>>)
    BY <1>1, <2>1, FailedIsProven, EndsWithoutTask
  <2>3. Switches(g, Ended(g, "failed"))
    BY <1>1, <1>2, <1>4, ReturnedStops DEF Switches, Stays
  <2> QED
    BY <1>2, <1>4, <2>2, <2>3 DEF Moved
<1> QED
  BY <1>3, <1>4 DEF BeginRun

\* A child that runs, and its step.
LEMMA RunningHasNoTask ==
    ASSUME Inv, NEW d \in Delegs, dg[d].pc \in {"running", "paused"}
    PROVE  rows[d] = <<>> /\ WorkOK(dg[d]) /\ dg[d].cap \notin OneStep
BY Before DEF DelegationOK, Placed, Counted, OneStep

\* A running child stays running after a call.
LEMMA RunsOn ==
    ASSUME NEW h \in Delegation, WorkOK(h), h.pc = "running", h.cap \notin OneStep
    PROVE  DelegationOK(h, <<>>)
<1>1. Placed(h) /\ Proven(h)
  BY DEF Placed, Proven
<1>2. Counted(h, <<>>)
  BY DEF Counted, Delegation
<1> QED
  BY <1>1, <1>2 DEF DelegationOK

LEMMA CallToolMoves ==
    ASSUME Inv, NEW d \in Delegs, NEW t \in InternalTools, CallTool(d, t)
    PROVE  Moved(d)
<1> DEFINE g == [dg[d] EXCEPT !.used = dg[d].used + 1]
<1>1. /\ dg[d] \in Delegation /\ dg[d].used + 1 \in Nat /\ dg[d].pc = "running" /\ t \in Offered(dg[d])
      /\ rows' = [rows EXCEPT ![d] = <<>>] /\ <<>> \in Seq(Task) /\ env' = env
      /\ WorkOK(dg[d]) /\ dg[d].cap \notin OneStep
  BY Before, RunningHasNoTask DEF CallTool, Free, Running, Delegation
<1>2. PICK h \in Invoked(g, t) : dg' = [dg EXCEPT ![d] = h]
  BY DEF CallTool
<1>3. /\ g \in Delegation /\ g.pc = "running" /\ g.cap = dg[d].cap
      /\ g.boxed = dg[d].boxed /\ g.resumed = dg[d].resumed /\ g.saved = dg[d].saved
      /\ SameWork(dg[d], g)
  BY <1>1 DEF Delegation, SameWork, WorkOK, Limited
<1>4. WorkOK(g)
  BY <1>1, <1>3, SameWorkOK
<1>5. t \in Offered(g)
  BY <1>1, <1>3 DEF Offered
<1> HIDE DEF g
<1>6. h \in Delegation /\ WorkOK(h) /\ SameStand(g, h)
  BY <1>1, <1>2, <1>3, <1>4, <1>5, InvokedOK
<1>7. DelegationOK(h, <<>>)
  BY <1>1, <1>3, <1>6, RunsOn DEF SameStand
<1>8. Switches(dg[d], h)
  BY <1>1, <1>3, <1>6 DEF SameStand, Switches, Stays
<1> QED
  BY <1>1, <1>2, <1>6, <1>7, <1>8 DEF Moved

\* A child that asks the user pauses, a resumed one ends.
LEMMA PausedMoves ==
    ASSUME NEW g \in Delegation, WorkOK(g), g.pc = "running", g.cap \notin OneStep, NEW items \in Seq(Item)
    PROVE  Paused(g, items) \in Delegation /\ DelegationOK(Paused(g, items), <<>>)
<1>1. "blocked" \in Statuses
  BY DEF Statuses
<1>2. CASE g.resumed
  BY <1>1, <1>2, FailedIsProven, EndsWithoutTask DEF Paused
<1>3. CASE ~g.resumed
  <2> DEFINE h == Paused(g, items)
  <2>1. h \in Delegation /\ h.pc = "paused" /\ SameWork(g, h)
    BY <1>1, <1>3 DEF Paused, Delegation, SameWork, WorkOK, Limited
  <2>2. ~h.resumed /\ h.cap = g.cap
    BY <1>3, <2>1 DEF SameWork
  <2> HIDE DEF h
  <2>3. Placed(h) /\ Proven(h)
    BY <2>1, <2>2 DEF Placed, Proven
  <2>4. Counted(h, <<>>)
    BY <2>1 DEF Counted, Delegation
  <2> QED
    BY <2>1, <2>3, <2>4, SameWorkOK DEF DelegationOK, h
<1> QED
  BY <1>2, <1>3

LEMMA AskApprovalMoves ==
    ASSUME Inv, NEW d \in Delegs, AskApproval(d)
    PROVE  Moved(d)
<1>1. /\ dg[d] \in Delegation /\ dg[d].pc = "running"
      /\ rows' = [rows EXCEPT ![d] = <<>>] /\ <<>> \in Seq(Task) /\ env' = dg[d].saved
      /\ WorkOK(dg[d]) /\ dg[d].cap \notin OneStep
  BY Before, RunningHasNoTask DEF AskApproval, Free, Running, Restored
<1>2. PICK n \in 1..MaxItems : \E ts \in [1..n -> Offered(dg[d]) \cap Confirm] :
         dg' = [dg EXCEPT ![d] = Paused(dg[d], [k \in 1..n |-> [id |-> k, tool |-> ts[k]]])]
  BY DEF AskApproval
<1>3. PICK ts \in [1..n -> Offered(dg[d]) \cap Confirm] :
         dg' = [dg EXCEPT ![d] = Paused(dg[d], [k \in 1..n |-> [id |-> k, tool |-> ts[k]]])]
  BY <1>2
<1>4. n \in Nat /\ \A k \in 1..n : k \in Nat /\ ts[k] \in InternalTools
  BY BoundsAssumption, OfferedTools
<1>5. \A k \in 1..n : [id |-> k, tool |-> ts[k]] \in Item
  BY <1>4 DEF Item
<1>6. [k \in 1..n |-> [id |-> k, tool |-> ts[k]]] \in Seq(Item)
  BY <1>4, <1>5
<1> QED
  BY <1>1, <1>3, <1>6, PausedMoves, PausedStops DEF Moved, Switches, Stops

\* The claim of a child passes only with the evidence.
LEMMA FinishMoves ==
    ASSUME Inv, NEW d \in Delegs, NEW claim \in Claims, Finish(d, claim)
    PROVE  Moved(d)
<1> DEFINE g == dg[d]
           status == EvidenceStatus(g, claim)
<1>1. /\ g \in Delegation /\ g.pc = "running"
      /\ rows' = [rows EXCEPT ![d] = <<>>] /\ <<>> \in Seq(Task) /\ env' = dg[d].saved
      /\ WorkOK(g) /\ g.cap \notin OneStep
  BY Before, RunningHasNoTask DEF Finish, Free, Running, Restored
<1>2. CASE claim = "needs_approval"
  <2>1. <<>> \in Seq(Item) /\ dg' = [dg EXCEPT ![d] = Paused(g, <<>>)]
    BY <1>2 DEF Finish
  <2> QED
    BY <1>1, <2>1, PausedMoves, PausedStops DEF Moved, Switches, Stops
<1>3. CASE claim # "needs_approval"
  <2>1. PICK transient \in BOOLEAN : dg' = [dg EXCEPT ![d] = Returned(g, status, transient)]
    BY <1>3 DEF Finish
  <2>2. status \in Statuses /\ status \in {claim, "failed"}
    BY <1>3 DEF EvidenceStatus, Claims, Statuses
  <2>3. Proven(Ended(g, status))
    <3>1. CASE status # "succeeded"
      BY <1>1, <3>1, FailedIsProven
    <3>2. CASE status = "succeeded"
      <4>1. claim = "succeeded"
        BY <2>2, <3>2
      <4>2. /\ g.cap \in {DbxAgent, ChromeAgent} => g.calls # <<>>
            /\ \A k \in DOMAIN g.calls : g.calls[k].ok
        BY <3>2, <4>1 DEF EvidenceStatus
      <4>3. Backed(g) /\ g.calls \in Seq(Call) /\ g.did \in Seq(Call)
        BY <1>1 DEF WorkOK, Delegation
      <4>4. g.cap \in {DbxAgent, ChromeAgent} => g.did # <<>>
        <5> SUFFICES ASSUME g.cap \in {DbxAgent, ChromeAgent} PROVE g.did # <<>>
          OBVIOUS
        <5>1. 1 \in DOMAIN g.calls
          BY <4>2, <4>3
        <5>2. PICK j \in DOMAIN g.did : g.did[j] = g.calls[1]
          BY <4>2, <4>3, <5>1 DEF Backed
        <5> QED
          BY <5>2
      <4>5. \A k \in DOMAIN g.did : g.did[k].tool \in Mcp => g.did[k].ok
        BY <4>2, <4>3 DEF Backed
      <4>6. Ended(g, status).cap = g.cap /\ Ended(g, status).did = g.did
        BY <1>1 DEF Ended, Delegation
      <4> HIDE DEF g, status
      <4> QED
        BY <4>4, <4>5, <4>6 DEF Proven
    <3> QED
      BY <3>1, <3>2
  <2>4. Switches(g, Returned(g, status, transient))
    BY <1>1, ReturnedStops DEF Switches, Stops
  <2> QED
    BY <1>1, <2>1, <2>2, <2>3, <2>4, ReturnsWithoutTask DEF Moved
<1> QED
  BY <1>2, <1>3

LEMMA RunnerRaisesMoves ==
    ASSUME Inv, NEW d \in Delegs, RunnerRaises(d)
    PROVE  Moved(d)
<1>1. /\ dg[d] \in Delegation /\ dg[d].pc = "running"
      /\ rows' = [rows EXCEPT ![d] = <<>>] /\ <<>> \in Seq(Task) /\ env' = dg[d].saved
      /\ WorkOK(dg[d])
  BY Before, RunningHasNoTask DEF RunnerRaises, Running, Restored
<1>2. PICK transient \in BOOLEAN : dg' = [dg EXCEPT ![d] = Returned(dg[d], "failed", transient)]
  BY DEF RunnerRaises
<1>3. "failed" \in Statuses
  BY DEF Statuses
<1>4. Switches(dg[d], Returned(dg[d], "failed", transient))
  BY <1>1, ReturnedStops DEF Switches, Stops
<1> QED
  BY <1>1, <1>2, <1>3, <1>4, FailedIsProven, ReturnsWithoutTask DEF Moved

\* The pending call of the approval, and the calls that still wait after it.
LEMMA PendingCall ==
    ASSUME NEW items \in Seq(Item), items # <<>>
    PROVE  LET k == MatchingItem(items, items[1])
           IN  /\ items[k] \in Item /\ items[k].id = items[1].id
               /\ Without(items, k) \in Seq(Item)
<1> DEFINE k == MatchingItem(items, items[1])
<1>1. 1 \in DOMAIN items
  OBVIOUS
<1>2. k \in DOMAIN items /\ items[k].id = items[1].id
  BY <1>1 DEF MatchingItem
<1>3. k \in 1..Len(items) /\ Len(items) \in Nat /\ items[k] \in Item
  BY <1>2
<1> HIDE DEF k
<1>4. SubSeq(items, 1, k - 1) \in Seq(Item) /\ SubSeq(items, k + 1, Len(items)) \in Seq(Item)
  BY <1>3
<1>5. Without(items, k) \in Seq(Item)
  BY <1>4 DEF Without
<1> QED
  BY <1>2, <1>3, <1>5 DEF k

\* A decision starts a run that may make the decided call and no other.
LEMMA DecideMoves ==
    ASSUME Inv, NEW d \in Delegs, NEW approved \in BOOLEAN, Decide(d, approved)
    PROVE  Moved(d)
<1> DEFINE g == dg[d]
           card == g.items[1]
           k == MatchingItem(g.items, card)
<1>1. /\ g \in Delegation /\ g.pc = "paused" /\ env \in {"before", "runner"}
      /\ rows' = [rows EXCEPT ![d] = <<>>] /\ <<>> \in Seq(Task)
      /\ WorkOK(g) /\ g.cap \notin OneStep /\ ~g.resumed
  BY Before, RunningHasNoTask DEF Decide, DelegationOK, Placed
<1>2. CASE g.items = <<>>
  <2> DEFINE h == [g EXCEPT !.resumed = TRUE]
  <2>1. dg' = [dg EXCEPT ![d] = Ended(h, "failed")] /\ env' = env
    BY <1>2 DEF Decide
  <2>2. /\ h \in Delegation /\ h.cap = g.cap /\ h.did = g.did /\ h.calls = g.calls /\ h.ran = g.ran
        /\ h.agreed = g.agreed /\ h.todo = g.todo /\ h.resumed /\ h.attempt = g.attempt
    BY <1>1 DEF Delegation
  <2> HIDE DEF h
  <2>3. Limited(h) /\ Consented(h)
    BY <1>1, <2>2 DEF WorkOK, Limited, Consented
  <2>4. Backed(h)
    BY <1>1, <2>2 DEF WorkOK, Backed
  <2>5. Explored(h)
    BY <1>1, <2>2 DEF WorkOK, Explored
  <2>6. "failed" \in Statuses
    BY DEF Statuses
  <2>7. Ended(h, "failed") \in Delegation /\ DelegationOK(Ended(h, "failed"), <<>>)
    BY <2>2, <2>3, <2>4, <2>5, <2>6, FailedIsProven, EndsWithoutTask DEF WorkOK
  <2>8. Switches(g, Ended(h, "failed"))
    BY <1>1, <2>1, <2>2, ReturnedStops DEF Switches, Stays
  <2> QED
    BY <1>1, <2>1, <2>7, <2>8 DEF Moved
<1>3. CASE g.items # <<>>
  <2> DEFINE h == [g EXCEPT !.pc = "running", !.resumed = TRUE, !.saved = env, !.used = 0,
                            !.calls = <<>>, !.did = <<>>, !.items = Without(g.items, k),
                            !.agreed = IF approved THEN {card.id} ELSE {},
                            !.todo = IF approved THEN {g.items[k]} ELSE {}]
  <2>1. dg' = [dg EXCEPT ![d] = h] /\ env' = "runner"
    BY <1>3 DEF Decide
  <2>2. /\ g.items[k] \in Item /\ g.items[k].id = card.id /\ card.id \in Nat
        /\ Without(g.items, k) \in Seq(Item)
    <3>1. g.items \in Seq(Item)
      BY <1>1 DEF Delegation
    <3>2. /\ g.items[k] \in Item /\ g.items[k].id = card.id
          /\ Without(g.items, k) \in Seq(Item)
      BY <1>3, <3>1, PendingCall
    <3> QED
      BY <3>2 DEF Item
  <2> HIDE DEF k, card
  <2>3. /\ <<>> \in Seq(Call) /\ 0 \in Nat
        /\ (IF approved THEN {card.id} ELSE {}) \in SUBSET Nat
        /\ (IF approved THEN {g.items[k]} ELSE {}) \in SUBSET Item
    BY <2>2
  <2>4. h \in Delegation
    BY <1>1, <2>2, <2>3 DEF Delegation
  <2>5. /\ h.pc = "running" /\ h.saved = env /\ h.cap = g.cap /\ h.resumed /\ h.attempt = g.attempt
        /\ h.calls = <<>> /\ h.did = <<>> /\ h.ran = g.ran
        /\ h.agreed = (IF approved THEN {card.id} ELSE {})
        /\ h.todo = (IF approved THEN {g.items[k]} ELSE {})
    BY <1>1 DEF Delegation
  <2> HIDE DEF h
  <2>6. Limited(h)
    BY <1>1, <2>5 DEF WorkOK, Limited
  <2>7. Consented(h)
    <3>1. h.ran = {}
      BY <1>1, <2>5 DEF WorkOK, Limited
    <3> QED
      BY <2>2, <2>5, <3>1 DEF Consented
  <2>8. Backed(h) /\ Explored(h)
    BY <2>5 DEF Backed, Explored
  <2>9. DelegationOK(h, <<>>)
    BY <1>1, <2>4, <2>5, <2>6, <2>7, <2>8, RunsOn DEF WorkOK
  <2>10. Switches(g, h)
    BY <1>1, <2>1, <2>5 DEF Switches, Starts
  <2> QED
    BY <1>1, <2>1, <2>4, <2>9, <2>10 DEF Moved
<1> QED
  BY <1>1, <1>2, <1>3

\* Only the call that was agreed to runs.
LEMMA RunApprovedMoves ==
    ASSUME Inv, NEW d \in Delegs, RunApproved(d)
    PROVE  Moved(d)
<1> DEFINE g == dg[d]
<1>1. /\ g \in Delegation /\ g.pc = "running" /\ env' = env
      /\ rows' = [rows EXCEPT ![d] = <<>>] /\ <<>> \in Seq(Task)
      /\ WorkOK(g) /\ g.cap \notin OneStep
  BY Before, RunningHasNoTask DEF RunApproved, Running
<1>2. PICK item \in g.todo :
         /\ item.tool \in Offered(g)
         /\ \E h \in Invoked(g, item.tool) :
               dg' = [dg EXCEPT ![d] = [h EXCEPT !.todo = {},
                                                 !.ran = h.ran \cup IF h.did # g.did THEN {item.id} ELSE {}]]
  BY DEF RunApproved
<1>3. PICK h \in Invoked(g, item.tool) :
         dg' = [dg EXCEPT ![d] = [h EXCEPT !.todo = {},
                                           !.ran = h.ran \cup IF h.did # g.did THEN {item.id} ELSE {}]]
  BY <1>2
<1>4. h \in Delegation /\ WorkOK(h) /\ SameStand(g, h)
  BY <1>1, <1>2, InvokedOK
<1>5. item \in Item /\ item.id \in Nat /\ item.id \in g.agreed /\ g.resumed
  BY <1>1, <1>2 DEF Delegation, Item, WorkOK, Consented, Limited
<1> DEFINE more == IF h.did # g.did THEN {item.id} ELSE {}
           f == [h EXCEPT !.todo = {}, !.ran = h.ran \cup more]
<1>6. more \subseteq g.agreed /\ more \subseteq Nat
  BY <1>5
<1> HIDE DEF more
<1>7. f \in Delegation
  BY <1>4, <1>6 DEF Delegation
<1>8. /\ f.pc = h.pc /\ f.saved = h.saved /\ f.cap = h.cap /\ f.resumed = h.resumed /\ f.attempt = h.attempt
      /\ f.calls = h.calls /\ f.did = h.did /\ f.agreed = h.agreed
      /\ f.ran = h.ran \cup more /\ f.todo = {}
  BY <1>4 DEF Delegation
<1>9. dg' = [dg EXCEPT ![d] = f]
  BY <1>3 DEF more
<1> HIDE DEF f
<1>10. Limited(f)
  BY <1>4, <1>5, <1>8 DEF WorkOK, Limited, SameStand
<1>11. Consented(f)
  BY <1>4, <1>6, <1>8 DEF WorkOK, Consented, SameStand
<1>12. Backed(f)
  BY <1>4, <1>8 DEF WorkOK, Backed
<1>13. Explored(f)
  BY <1>4, <1>8 DEF WorkOK, Explored
<1>14. f.pc = "running" /\ f.cap \notin OneStep
  BY <1>1, <1>4, <1>8 DEF SameStand
<1>15. DelegationOK(f, <<>>)
  BY <1>7, <1>10, <1>11, <1>12, <1>13, <1>14, RunsOn DEF WorkOK
<1>16. Switches(g, f)
  BY <1>1, <1>4, <1>8 DEF SameStand, Switches, Stays
<1> QED
  BY <1>1, <1>7, <1>9, <1>15, <1>16 DEF Moved

LEMMA StillInterruptedMoves ==
    ASSUME Inv, NEW d \in Delegs, StillInterrupted(d)
    PROVE  Moved(d)
<1>1. /\ dg[d] \in Delegation /\ dg[d].pc = "running"
      /\ rows' = [rows EXCEPT ![d] = <<>>] /\ <<>> \in Seq(Task) /\ env' = dg[d].saved
      /\ WorkOK(dg[d]) /\ dg[d].cap \notin OneStep
  BY Before, RunningHasNoTask DEF StillInterrupted, Running, Restored
<1>2. dg' = [dg EXCEPT ![d] = Paused(dg[d], dg[d].items)] /\ dg[d].items \in Seq(Item)
  BY <1>1 DEF StillInterrupted, Delegation
<1> QED
  BY <1>1, <1>2, PausedMoves, PausedStops DEF Moved, Switches, Stops

----------------------------------------------------------------------------
(* The steps that make or leave out an external task.                      *)

\* A task that is saved.
SavedAs(u, t, status) ==
    /\ u \in Task /\ u.status = status /\ u.output = t.output
    /\ u.completed = (t.completed \/ status \in {"succeeded", "failed", "canceled"})

LEMMA SavedTask ==
    ASSUME NEW t \in Task, NEW status \in {"running", "succeeded", "waiting_user", "failed"},
           NEW event \in TaskEvents
    PROVE  SavedAs(Saved(t, status, event), t, status)
<1>1. Append(t.events, event) \in Seq(TaskEvents)
  BY DEF Task
<1>2. CompletedAfter(t, status) \in BOOLEAN
  BY DEF CompletedAfter
<1> QED
  BY <1>1, <1>2 DEF SavedAs, Saved, Task, CompletedAfter

LEMMA QueuedTask == Queued \in Task /\ Queued.status = "queued" /\ Queued.output = "none"
<1>1. <<"task_queued">> \in Seq(TaskEvents)
  BY DEF TaskEvents
<1> QED
  BY <1>1 DEF Queued, Task

\* What a dispatch leaves behind: a task that the call reports, and nothing came of
\* it when the call failed.
LEMMA DispatchedTask ==
    ASSUME NEW end \in ExecutorEnds
    PROVE  LET t == Dispatched(Queued, end)
               status == ToolStatus(Queued, end)
           IN  /\ t \in Task /\ status \in Statuses
               /\ status = Reported(t) /\ (status = "failed" => Unserved(t))
<1> DEFINE r == MarkRunning(Queued)
<1>1. r \in Task /\ r.status = "running" /\ r.output = "none"
  <2>1. "task_running" \in TaskEvents
    BY DEF TaskEvents
  <2> QED
    <3>1. SavedAs(r, Queued, "running")
      BY <2>1, QueuedTask, SavedTask DEF MarkRunning
    <3> QED
      BY <3>1, QueuedTask DEF SavedAs
<1> HIDE DEF r
<1>2. ASSUME NEW a \in Answers
      PROVE  LET t == RecordResult(r, a)
             IN  /\ t \in Task /\ t.status = StatusFor(a)
                 /\ t.status \in {"succeeded", "waiting_user", "failed"}
                 /\ t.status = "failed" => t.completed
  <2> DEFINE e == "task_" \o StatusFor(a)
             u == Saved(r, StatusFor(a), e)
  <2>1. StatusFor(a) \in {"succeeded", "waiting_user", "failed"}
    BY DEF StatusFor
  <2>2. e \in TaskEvents
    BY DEF TaskEvents
  <2> HIDE DEF e
  <2>3. /\ u \in Task /\ u.status = StatusFor(a)
        /\ u.completed = (r.completed \/ StatusFor(a) \in {"succeeded", "failed", "canceled"})
    BY <1>1, <2>1, <2>2, SavedTask DEF SavedAs
  <2>4. RecordResult(r, a) = [u EXCEPT !.output = a, !.artifacts = a = "found_opened"]
    BY DEF RecordResult, e
  <2> HIDE DEF u
  <2>5. (a = "found_opened") \in BOOLEAN
    OBVIOUS
  <2> QED
    BY <2>1, <2>3, <2>4, <2>5 DEF Task
<1>3. CASE end \in Answers
  <2>1. Dispatched(Queued, end) = RecordResult(r, end) /\ end # "wrong_id"
    BY <1>3 DEF Dispatched, Answers, r
  <2>2. ToolStatus(Queued, end) = RecordResult(r, end).status
    BY <2>1 DEF ToolStatus
  <2> QED
    BY <1>2, <1>3, <2>1, <2>2 DEF Statuses, Reported, Unserved
<1>4. CASE end = "raised"
  <2>1. Dispatched(Queued, end) = RecordResult(r, "failed") /\ end # "wrong_id"
    BY <1>4 DEF Dispatched, Answers, r
  <2>2. ToolStatus(Queued, end) = RecordResult(r, "failed").status
    BY <2>1 DEF ToolStatus
  <2>3. "failed" \in Answers
    BY DEF Answers
  <2> QED
    BY <1>2, <2>1, <2>2, <2>3 DEF Statuses, Reported, Unserved
<1>5. CASE end = "wrong_id"
  <2>1. Dispatched(Queued, end) = r
    BY <1>5 DEF Dispatched, Answers, r
  <2>2. ToolStatus(Queued, end) = "failed"
    BY <1>5 DEF ToolStatus
  <2> QED
    BY <1>1, <1>5, <2>1, <2>2 DEF Statuses, Reported, Unserved
<1> QED
  BY <1>3, <1>4, <1>5 DEF ExecutorEnds

\* The task of an attempt is the last one, nothing came of those before it.
LEMMA TaskAppended ==
    ASSUME NEW ts \in Seq(Task), NEW t \in Task, NEW g \in Delegation, DelegationOK(g, ts),
           g.pc = "attempt"
    PROVE  LET us == Append(ts, t)
           IN  /\ us \in Seq(Task) /\ Len(us) \in Nat /\ Len(us) = Len(ts) + 1 /\ Len(us) <= g.attempt
               /\ us[Len(us)] = t
               /\ \A k \in 1..(Len(us) - 1) : Unserved(us[k])
BY DEF DelegationOK, Counted, Delegation

\* A call that made a task ends with what the task says.
LEMMA EndsWithTask ==
    ASSUME NEW ts \in Seq(Task), NEW t \in Task, NEW g \in Delegation, DelegationOK(g, ts),
           g.pc = "attempt", g.cap = ApplyEntry, NEW status \in Statuses,
           status = Reported(t)
    PROVE  Ended(g, status) \in Delegation /\ DelegationOK(Ended(g, status), Append(ts, t))
<1> DEFINE h == Ended(g, status)
           us == Append(ts, t)
<1>1. h.pc = "ended" /\ h.attempt = g.attempt /\ h.cap = g.cap /\ h.did = g.did /\ h.status = status
  BY DEF Ended, Delegation
<1>2. g.did = <<>> /\ WorkOK(g)
  BY DEF DelegationOK, WorkOK, Limited, OneStep
<1>3. Proven(h)
  <2>1. g.cap \notin {DbxAgent, ChromeAgent} /\ h.did = <<>>
    BY <1>1, <1>2 DEF ApplyEntry, DbxAgent, ChromeAgent
  <2> HIDE DEF h
  <2> QED
    BY <1>1, <2>1 DEF Proven
<1>4. Counted(h, us)
  <2>1. /\ Len(us) \in Nat /\ Len(us) <= g.attempt /\ us[Len(us)] = t
        /\ \A k \in 1..(Len(us) - 1) : Unserved(us[k])
    BY TaskAppended
  <2> HIDE DEF h, us
  <2> QED
    BY <1>1, <2>1 DEF Counted
<1> QED
  BY <1>2, <1>3, <1>4, EndedOK

LEMMA QueueTaskMoves ==
    ASSUME Inv, NEW d \in Delegs, QueueTask(d)
    PROVE  Moved(d)
<1> DEFINE g == dg[d]
<1>1. g \in Delegation /\ DelegationOK(g, rows[d]) /\ rows[d] \in Seq(Task)
  BY Before
<1>2. /\ g.pc = "attempt" /\ g.cap = ApplyEntry /\ env' = env
      /\ rows' = [rows EXCEPT ![d] = Append(rows[d], Queued)]
      /\ dg' = [dg EXCEPT ![d] = Ended(g, "queued")]
  BY DEF QueueTask
<1>3. "queued" \in Statuses
  BY DEF Statuses
<1>4. Append(rows[d], Queued) \in Seq(Task)
  BY <1>1, QueuedTask
<1>5. Ended(g, "queued") \in Delegation /\ DelegationOK(Ended(g, "queued"), Append(rows[d], Queued))
  BY <1>1, <1>2, <1>3, QueuedTask, EndsWithTask DEF Reported
<1>6. Switches(g, Ended(g, "queued"))
  BY <1>1, <1>2, ReturnedStops DEF Switches, Stays
<1> QED
  BY <1>2, <1>4, <1>5, <1>6 DEF Moved

LEMMA DispatchTaskMoves ==
    ASSUME Inv, NEW d \in Delegs, NEW end \in ExecutorEnds, DispatchTask(d, end)
    PROVE  Moved(d)
<1> DEFINE g == dg[d]
           t == Dispatched(Queued, end)
           us == Append(rows[d], t)
           status == ToolStatus(Queued, end)
<1>1. g \in Delegation /\ DelegationOK(g, rows[d]) /\ rows[d] \in Seq(Task)
  BY Before
<1>2. /\ g.pc = "attempt" /\ g.cap = ApplyEntry /\ env' = env
      /\ rows' = [rows EXCEPT ![d] = us]
  BY DEF DispatchTask
<1>3. PICK transient \in BOOLEAN : dg' = [dg EXCEPT ![d] = Returned(g, status, transient)]
  BY DEF DispatchTask
<1>4. /\ t \in Task /\ status \in Statuses
      /\ status = Reported(t) /\ (status = "failed" => Unserved(t))
  BY DispatchedTask
<1> HIDE DEF g, t, status
<1>5. us \in Seq(Task) /\ Switches(g, Returned(g, status, transient))
  BY <1>1, <1>2, <1>4, ReturnedStops DEF Switches, Stays
<1>6. CASE Retries(g, status, transient)
  <2>1. Unserved(t) /\ g.attempt < MaxAttempts
    BY <1>3, <1>4, <1>6 DEF Retries
  <2>2. /\ Len(us) \in Nat /\ Len(us) <= g.attempt /\ us[Len(us)] = t
        /\ \A k \in 1..(Len(us) - 1) : Unserved(us[k])
    BY <1>1, <1>2, <1>4, TaskAppended
  <2> HIDE DEF us
  <2>3. \A k \in 1..Len(us) : Unserved(us[k])
    BY <2>1, <2>2
  <2>4. /\ NextAttempt(g).attempt = g.attempt + 1 /\ g.attempt \in Nat
        /\ NextAttempt(g).pc = "attempt" /\ NextAttempt(g).cap = g.cap
    BY <1>1 DEF NextAttempt, Delegation
  <2>5. Counted(NextAttempt(g), us)
    BY <1>2, <2>2, <2>3, <2>4 DEF Counted
  <2>6. NextAttempt(g) \in Delegation /\ DelegationOK(NextAttempt(g), us)
    BY <1>1, <2>1, <2>5, NextAttemptOK DEF DelegationOK
  <2> QED
    BY <1>2, <1>3, <1>5, <1>6, <2>6 DEF Moved, Returned, g
<1>7. CASE ~Retries(g, status, transient)
  <2>1. Ended(g, status) \in Delegation /\ DelegationOK(Ended(g, status), us)
    BY <1>1, <1>2, <1>4, EndsWithTask
  <2> QED
    BY <1>2, <1>3, <1>5, <1>7, <2>1 DEF Moved, Returned, g
<1> QED
  BY <1>2, <1>6, <1>7

\* A task that cannot be made again ends the call; nothing came of the tasks so far.
LEMMA DuplicateTaskMoves ==
    ASSUME Inv, NEW d \in Delegs, DuplicateTask(d)
    PROVE  Moved(d)
<1> DEFINE g == dg[d]
           h == Ended(g, "failed")
<1>1. g \in Delegation /\ DelegationOK(g, rows[d]) /\ rows[d] \in Seq(Task)
  BY Before
<1>2. /\ g.pc = "attempt" /\ env' = env
      /\ rows' = [rows EXCEPT ![d] = rows[d]] /\ dg' = [dg EXCEPT ![d] = h]
  BY Before DEF DuplicateTask
<1>3. h.pc = "ended" /\ h.attempt = g.attempt /\ h.cap = g.cap /\ h.status = "failed"
  BY <1>1 DEF Ended, Delegation
<1>4. "failed" \in Statuses /\ WorkOK(g)
  BY <1>1 DEF Statuses, DelegationOK
<1>5. Proven(h)
  BY <1>1, FailedIsProven
<1>6. Counted(h, rows[d])
  <2>1. Counted(g, rows[d]) /\ g.attempt \in Nat /\ Len(rows[d]) \in Nat
    BY <1>1 DEF DelegationOK, Delegation
  <2> HIDE DEF g, h
  <2> QED
    BY <1>2, <1>3, <2>1 DEF Counted, Reported, Unserved
<1>7. h \in Delegation /\ DelegationOK(h, rows[d])
  BY <1>1, <1>4, <1>5, <1>6, EndedOK
<1>8. Switches(g, h)
  BY <1>2, <1>3 DEF Switches, Stays
<1> QED
  BY <1>1, <1>2, <1>7, <1>8 DEF Moved

----------------------------------------------------------------------------
(* The executors that answer in one step.                                  *)

\* A capability without a child needs no evidence.
LEMMA OneStepIsProven ==
    ASSUME NEW g \in Delegation, WorkOK(g), g.cap \in OneStep, NEW status \in Statuses
    PROVE  Proven(Ended(g, status))
<1>1. g.did = <<>> /\ g.cap \notin {DbxAgent, ChromeAgent}
  BY DEF WorkOK, Limited, OneStep, ApplyEntry, WebSearch, Tailor, DbxAgent, ChromeAgent
<1>2. Ended(g, status).did = g.did /\ Ended(g, status).cap = g.cap
  BY DEF Ended, Delegation
<1> QED
  BY <1>1, <1>2 DEF Proven

LEMMA OneStepMoves ==
    ASSUME Inv, NEW d \in Delegs, SearchWeb(d) \/ TailorResume(d)
    PROVE  Moved(d)
<1> DEFINE g == dg[d]
<1>1. g \in Delegation /\ DelegationOK(g, rows[d]) /\ WorkOK(g)
  BY Before DEF DelegationOK
<1>2. g.pc = "attempt" /\ g.cap \in {WebSearch, Tailor} /\ env' = env /\ rows' = [rows EXCEPT ![d] = rows[d]] /\ rows[d] \in Seq(Task)
  BY Before DEF SearchWeb, TailorResume
<1>3. g.cap \in OneStep /\ rows[d] = <<>>
  <2>1. g.cap # ApplyEntry
    BY <1>2 DEF ApplyEntry, WebSearch, Tailor
  <2> QED
    BY <1>1, <1>2, <2>1, NoTaskYet DEF OneStep
<1>4. PICK status \in Statuses, transient \in BOOLEAN :
         dg' = [dg EXCEPT ![d] = Returned(g, status, transient)]
  <2>1. "failed" \in Statuses /\ "succeeded" \in Statuses
    BY DEF Statuses
  <2>2. CASE SearchWeb(d)
    BY <2>1, <2>2 DEF SearchWeb
  <2>3. CASE TailorResume(d)
    <3>1. PICK end \in {"succeeded", "missing", "raised"}, transient \in BOOLEAN :
             dg' = [dg EXCEPT ![d] = Returned(g, IF end = "succeeded" THEN end ELSE "failed",
                                              transient /\ end = "raised")]
      BY <2>3 DEF TailorResume
    <3>2. (transient /\ end = "raised") \in BOOLEAN
      OBVIOUS
    <3>3. (IF end = "succeeded" THEN end ELSE "failed") \in Statuses
      BY <2>1
    <3> QED
      BY <3>1, <3>2, <3>3
  <2> QED
    BY <2>2, <2>3
<1>5. /\ Returned(g, status, transient) \in Delegation
      /\ DelegationOK(Returned(g, status, transient), <<>>)
  BY <1>1, <1>3, OneStepIsProven, ReturnsWithoutTask
<1>6. Switches(g, Returned(g, status, transient))
  BY <1>1, <1>2, ReturnedStops DEF Switches, Stays
<1> QED
  BY <1>2, <1>3, <1>4, <1>5, <1>6 DEF Moved

----------------------------------------------------------------------------
(* The specification.                                                      *)

LEMMA InitInv == Init => Inv
<1> SUFFICES ASSUME Init PROVE Inv
  OBVIOUS
<1>1. TypeOK
  BY IdleOK DEF Init, TypeOK
<1>2. /\ Idle.pc = "idle" /\ Idle.resumed = FALSE /\ Idle.calls = <<>> /\ Idle.did = <<>>
      /\ Idle.todo = {} /\ Idle.ran = {} /\ Idle.attempt = 0
  BY DEF Idle
<1>3. WorkOK(Idle)
  BY <1>2 DEF WorkOK, Limited, Consented, Backed, Explored, MaxAttempts
<1>4. Placed(Idle) /\ Proven(Idle) /\ Counted(Idle, <<>>)
  BY <1>2 DEF Placed, Proven, Counted
<1> QED
  BY <1>1, <1>2, <1>3, <1>4 DEF Init, Inv, DelegationOK, Restorable

\* Every step moves one delegation; the environment becomes the runner's, or what
\* the child saved, or stays.
LEMMA NextMoves ==
    ASSUME Inv, Next
    PROVE  \E d \in Delegs : Moved(d)
<1>1. PICK d \in Delegs : Begin(d) \/ Work(d) \/ \E approved \in BOOLEAN : Decide(d, approved)
  BY DEF Next
<1>2. CASE Begin(d)
  BY <1>2, BeginMoves
<1>3. CASE Work(d)
  BY <1>3, BeginRunMoves, AskApprovalMoves, RunnerRaisesMoves, RunApprovedMoves,
     StillInterruptedMoves, QueueTaskMoves, DuplicateTaskMoves, OneStepMoves, CallToolMoves,
     FinishMoves, DispatchTaskMoves
  DEF Work
<1>4. CASE \E approved \in BOOLEAN : Decide(d, approved)
  BY <1>4, DecideMoves
<1> QED
  BY <1>1, <1>2, <1>3, <1>4

\* The invariant holds of every execution: it is what the properties below are read
\* off, and no fairness of the threads is needed for it.
THEOREM InvAlways == Spec => []Inv
<1>1. Init => Inv
  BY InitInv
<1>2. Inv /\ [Next]_vars => Inv'
  <2> SUFFICES ASSUME Inv, [Next]_vars PROVE Inv'
    OBVIOUS
  <2>1. CASE Next
    BY <2>1, NextMoves, MovedOK
  <2>2. CASE UNCHANGED vars
    BY <2>2 DEF vars, Inv, TypeOK, Restorable
  <2> QED
    BY <2>1, <2>2
<1> QED
  BY <1>1, <1>2, PTL DEF Spec

\* A DBX or Chrome child that is reported as succeeded made a call, and none of its
\* MCP calls failed, whatever the child claims, however often it is tried again and
\* wherever it paused (_apply_runtime_mcp_evidence).
THEOREM EvidenceTheorem == Spec => []EvidenceBacksSuccess
<1>1. Inv => EvidenceBacksSuccess
  BY DEF Inv, DelegationOK, Proven, EvidenceBacksSuccess
<1> QED
  BY <1>1, InvAlways, PTL

\* Of the calls that need a confirmation only one the user agreed to ran, for every
\* number of calls an answer of the model asked for
\* (_matching_run_state_approval_item, resume_agent_task_after_approval).
THEOREM ApprovalTheorem == Spec => []ApprovedCallsOnly
<1>1. Inv => ApprovedCallsOnly
  BY DEF Inv, DelegationOK, WorkOK, Consented, ApprovedCallsOnly
<1> QED
  BY <1>1, InvAlways, PTL

\* No DBX tool is called in a context before a discovery of the connections succeeded
\* there, across attempts that share the context and resumes that start a new one
\* (_has_successful_dbx_connection_discovery).
THEOREM DiscoveryTheorem == Spec => []DiscoveryFirst
<1>1. Inv => DiscoveryFirst
  BY DEF Inv, DelegationOK, WorkOK, Explored, DiscoveryFirst
<1> QED
  BY <1>1, InvAlways, PTL

\* Of the external tasks of a call, at most three, nothing came of any but the last
\* one, and the call reports what became of that one
\* (_call_executor_with_transient_retries, ExternalTaskDispatcher.dispatch).
THEOREM TaskTheorem == Spec => []ServedTasksNotRepeated
<1>1. Inv => ServedTasksNotRepeated
  <2> SUFFICES ASSUME Inv, NEW d \in Delegs
               PROVE  LET last == Len(rows[d])
                      IN  /\ last <= MaxAttempts
                          /\ \A k \in 1..(last - 1) : Unserved(rows[d][k])
                          /\ dg[d].pc = "ended" /\ last > 0 => dg[d].status = Reported(rows[d][last])
    BY DEF ServedTasksNotRepeated
  <2>1. Counted(dg[d], rows[d]) /\ dg[d].attempt <= MaxAttempts /\ dg[d].attempt \in Nat
    BY DEF Inv, TypeOK, Delegation, DelegationOK, WorkOK, Limited
  <2>2. Len(rows[d]) \in Nat
    BY DEF Inv, TypeOK
  <2> QED
    BY <2>1, <2>2 DEF Counted, MaxAttempts
<1> QED
  BY <1>1, InvAlways, PTL

----------------------------------------------------------------------------
(* The environment of the process.                                         *)

\* No two children run at the same time.
Alone == \A c, d \in Delegs : Running(c) /\ Running(d) => c = d

\* What the one child that runs will put back.
SavedBefore == \A d \in Delegs : Running(d) => dg[d].saved = "before"

\* While children run one at a time, each run finds the environment as it was before
\* the first and leaves it so, also when its runner raises (the finally clauses of run
\* and resume).  The hypothesis is needed: a run that begins inside another saves the
\* other's environment, and may put it back after the other has ended.
THEOREM EnvironmentTheorem == Spec /\ []Alone => []EnvironmentKept
<1> DEFINE EnvInv == Inv /\ SavedBefore /\ EnvironmentKept
<1>1. Init => EnvInv
  <2>1. Init => SavedBefore /\ EnvironmentKept
    BY DEF Init, Idle, SavedBefore, EnvironmentKept, Running
  <2> QED
    BY <2>1, InitInv
<1>2. EnvInv /\ Alone /\ Alone' /\ [Next]_vars => EnvInv'
  <2> SUFFICES ASSUME Inv, SavedBefore, EnvironmentKept, Alone, Alone', [Next]_vars PROVE EnvInv'
    OBVIOUS
  <2>1. CASE Next
    <3>1. PICK d \in Delegs : Moved(d)
      BY <2>1, NextMoves
    <3>2. Inv'
      BY <3>1, MovedOK
    <3>3. PICK h \in Delegation : Switches(dg[d], h) /\ dg' = [dg EXCEPT ![d] = h]
      BY <3>1 DEF Moved
    <3>4. \A c \in Delegs : dg'[c] = IF c = d THEN h ELSE dg[c]
      BY <3>3 DEF Inv, TypeOK
    <3>5. CASE Starts(dg[d], h)
      <4>1. \A c \in Delegs : ~Running(c)
        BY <3>4, <3>5 DEF Starts, Alone, Running
      <4>2. env = "before"
        BY <4>1 DEF EnvironmentKept
      <4>3. SavedBefore' /\ EnvironmentKept'
        BY <3>4, <3>5, <4>1, <4>2 DEF Starts, SavedBefore, EnvironmentKept, Running
      <4> QED
        BY <3>2, <4>3
    <3>6. CASE Stops(dg[d], h)
      <4>1. \A c \in Delegs : Running(c) => c = d
        BY <3>6 DEF Stops, Alone, Running
      <4>2. env' = "before"
        BY <3>6 DEF Stops, SavedBefore, Running
      <4>3. SavedBefore' /\ EnvironmentKept'
        BY <3>4, <3>6, <4>1, <4>2 DEF Stops, SavedBefore, EnvironmentKept, Running
      <4> QED
        BY <3>2, <4>3
    <3>7. CASE Stays(dg[d], h)
      <4>1. \A c \in Delegs : Running(c)' <=> Running(c)
        BY <3>4, <3>7 DEF Stays, Running
      <4>2. SavedBefore' /\ EnvironmentKept'
        BY <3>4, <3>7, <4>1 DEF Stays, SavedBefore, EnvironmentKept, Running
      <4> QED
        BY <3>2, <4>2
    <3> QED
      BY <3>3, <3>5, <3>6, <3>7 DEF Switches
  <2>2. CASE UNCHANGED vars
    BY <2>2 DEF vars, Inv, TypeOK, Restorable, SavedBefore, EnvironmentKept, Running
  <2> QED
    BY <2>1, <2>2
<1>3. EnvInv => EnvironmentKept
  OBVIOUS
<1> QED
  BY <1>1, <1>2, <1>3, PTL DEF Spec

----------------------------------------------------------------------------
(* The gateway: its inductive invariant.                                   *)

Ops == {"list", "call"}
Client == [pc : {"new", "discover", "dispatch", "wait", "put", "result", "ready", "answered"},
           cfg : {{}} \cup Declarations, tools : SUBSET ServerTools, op : Ops,
           tool : ServerTools \cup {"none"}, sid : Nat, future : {"open", "ok", "failed"},
           answer : {"none", "not_discovered", "denied", "ok", "failed"}, found : Int]

Request == (Turns \X Ops) \cup {<<StopMark>>}
Session == [worker : {"start", "loop", "get", "serve", "failing", "dead", "ended"},
            ready : BOOLEAN, error : BOOLEAN, stop : BOOLEAN,
            queue : Seq(Request), serving : Request \cup {<<>>}]

GatewayTypeOK == /\ decl \in Declarations
          /\ cache \in [at : Nat, tools : SUBSET ServerTools]
          /\ turn \in [Turns -> Client]
          /\ session \in Seq(Session) /\ current \in 0..Len(session)
          /\ clock \in Nat
          /\ missed \in [ServerTools -> Nat]

\* A caller that waits for a session waits for one that was started.
SessionStarted ==
    \A c \in Turns : turn[c].pc \in {"wait", "put", "result"} => turn[c].sid \in 1..Len(session)

\* A listing of the cache that lacks a tool is no older than the last listing that
\* came without it, and nothing lies in the future.
CacheDated == /\ cache.at <= clock
              /\ \A t \in ServerTools : /\ missed[t] <= clock
                                        /\ t \notin cache.tools => cache.at <= missed[t]

\* Whatever a turn found the tools to be, a tool it lacks was missed at most the life
\* of a cache entry before the turn looked.
ToolsDated == \A c \in Turns : \A t \in ServerTools \ turn[c].tools :
                 turn[c].found - missed[t] < CacheTTL

\* A turn that was refused a tool is over, and still lacks it.
RefusalStands ==
    \A c \in Turns : turn[c].answer = "not_discovered" =>
       turn[c].pc = "answered" /\ turn[c].tool \in ServerTools \ turn[c].tools

GatewayInv == GatewayTypeOK /\ SessionStarted /\ CacheDated /\ ToolsDated /\ RefusalStands

----------------------------------------------------------------------------
(* The gateway: its steps.                                                 *)

Waiting == {"wait", "put", "result"}

\* A turn as a step leaves it that neither looks for tools nor answers.
SameFinding(c) ==
    /\ turn'[c].tools = turn[c].tools /\ turn'[c].found = turn[c].found
    /\ turn'[c].answer = "not_discovered" =>
          turn[c].answer = "not_discovered" /\ turn'[c].pc = turn[c].pc /\ turn'[c].tool = turn[c].tool

\* A step of the session, or of a caller that passes a request on.
LEMMA QuietStep ==
    ASSUME GatewayInv, GatewayTypeOK', UNCHANGED <<cache, missed, clock>>, Len(session) <= Len(session'),
           \A c \in Turns : /\ SameFinding(c)
                            /\ turn'[c].pc \in Waiting => turn'[c].sid \in 1..Len(session')
    PROVE  GatewayInv'
<1>1. SessionStarted'
  BY DEF SessionStarted, Waiting
<1>2. CacheDated'
  BY DEF GatewayInv, CacheDated
<1>3. ToolsDated'
  BY DEF GatewayInv, ToolsDated, SameFinding
<1>4. RefusalStands'
  BY DEF GatewayInv, RefusalStands, SameFinding
<1> QED
  BY <1>1, <1>2, <1>3, <1>4 DEF GatewayInv

\* One turn moves on without a finding.
LEMMA CallerMoves ==
    ASSUME GatewayInv, NEW c \in Turns, NEW h \in Client, turn' = [turn EXCEPT ![c] = h],
           h.tools = turn[c].tools, h.found = turn[c].found, h.answer # "not_discovered",
           h.pc \in Waiting => h.sid \in 1..Len(session'),
           session' \in Seq(Session), Len(session) <= Len(session'), current' \in 0..Len(session'),
           UNCHANGED <<decl, cache, clock, missed>>
    PROVE  GatewayInv'
<1>1. GatewayTypeOK'
  BY DEF GatewayInv, GatewayTypeOK
<1>2. \A b \in Turns : turn'[b] = IF b = c THEN h ELSE turn[b]
  BY DEF GatewayInv, GatewayTypeOK
<1>3. Len(session) \in Nat /\ Len(session') \in Nat
  BY DEF GatewayInv, GatewayTypeOK
<1>4. ASSUME NEW b \in Turns
      PROVE  SameFinding(b) /\ (turn'[b].pc \in Waiting => turn'[b].sid \in 1..Len(session'))
  BY <1>2, <1>3 DEF GatewayInv, SessionStarted, SameFinding, Waiting
<1> QED
  BY <1>1, <1>4, QuietStep

\* The state a step begins with.
LEMMA GatewayBefore ==
    ASSUME GatewayInv, NEW c \in Turns
    PROVE  /\ turn[c] \in Client /\ clock \in Nat /\ Len(session) \in Nat
           /\ session \in Seq(Session) /\ current \in 0..Len(session)
           /\ cache.at \in Nat /\ cache.tools \in SUBSET ServerTools
           /\ turn[c].pc \in Waiting => turn[c].sid \in 1..Len(session)
           /\ turn[c].answer = "not_discovered" => turn[c].pc = "answered"
BY DEF GatewayInv, GatewayTypeOK, SessionStarted, RefusalStands, Waiting

LEMMA CreateClientOK ==
    ASSUME GatewayInv, NEW c \in Turns, CreateClient(c)
    PROVE  GatewayInv'
<1> DEFINE h == [turn[c] EXCEPT !.pc = "discover", !.cfg = decl]
<1>1. turn[c] \in Client /\ turn[c].pc = "new" /\ turn[c].answer # "not_discovered" /\ decl \in Declarations
  BY GatewayBefore DEF CreateClient, GatewayInv, GatewayTypeOK
<1>2. turn' = [turn EXCEPT ![c] = h] /\ UNCHANGED <<decl, cache, session, current, clock, missed>>
  BY DEF CreateClient, GatewayInv, GatewayTypeOK
<1>3. h \in Client
  BY <1>1 DEF Client
<1>4. /\ h.tools = turn[c].tools /\ h.found = turn[c].found /\ h.answer # "not_discovered"
      /\ h.pc \notin Waiting
  BY <1>1 DEF Client, Waiting
<1> HIDE DEF h
<1>5. session' \in Seq(Session) /\ Len(session) <= Len(session') /\ current' \in 0..Len(session')
  BY <1>2, GatewayBefore
<1> QED
  BY <1>2, <1>3, <1>4, <1>5, CallerMoves

\* A turn that finds a fresh listing takes it over: what it lacks was missed when the
\* listing was taken or later.
LEMMA DiscoverCachedOK ==
    ASSUME GatewayInv, NEW c \in Turns, DiscoverCached(c)
    PROVE  GatewayInv'
<1> DEFINE h == [turn[c] EXCEPT !.pc = "ready", !.tools = cache.tools, !.found = clock]
<1>1. /\ turn[c] \in Client /\ turn[c].pc = "discover" /\ turn[c].answer # "not_discovered"
      /\ clock \in Nat /\ cache.at \in Nat /\ cache.tools \in SUBSET ServerTools /\ clock - cache.at < CacheTTL
  BY GatewayBefore DEF DiscoverCached, Cached
<1>2. turn' = [turn EXCEPT ![c] = h] /\ UNCHANGED <<decl, cache, session, current, clock, missed>>
  BY DEF DiscoverCached, GatewayInv, GatewayTypeOK
<1>3. h \in Client
  <2>1. clock \in Int /\ cache.tools \in SUBSET ServerTools
    BY <1>1
  <2> QED
    BY <1>1, <2>1 DEF Client
<1>4. /\ h.tools = cache.tools /\ h.found = clock /\ h.answer # "not_discovered" /\ h.pc \notin Waiting
  BY <1>1 DEF Client, Waiting
<1> HIDE DEF h
<1>5. \A b \in Turns : turn'[b] = IF b = c THEN h ELSE turn[b]
  BY <1>2 DEF GatewayInv, GatewayTypeOK
<1>6. GatewayTypeOK'
  BY <1>2, <1>3 DEF GatewayInv, GatewayTypeOK
<1>7. SessionStarted'
  BY <1>2, <1>4, <1>5 DEF GatewayInv, SessionStarted, Waiting
<1>8. CacheDated'
  BY <1>2 DEF GatewayInv, CacheDated
<1>9. ToolsDated'
  <2> SUFFICES ASSUME NEW b \in Turns, NEW t \in ServerTools \ turn'[b].tools
               PROVE  turn'[b].found - missed[t] < CacheTTL
    BY <1>2 DEF ToolsDated
  <2>1. missed[t] \in Nat /\ CacheTTL \in Nat
    BY McpAssumption DEF GatewayInv, GatewayTypeOK
  <2>2. CASE b = c
    BY <1>1, <1>4, <1>5, <2>1, <2>2 DEF GatewayInv, CacheDated
  <2>3. CASE b # c
    BY <1>5, <2>3 DEF GatewayInv, ToolsDated
  <2> QED
    BY <2>2, <2>3
<1>10. RefusalStands'
  BY <1>4, <1>5 DEF GatewayInv, RefusalStands
<1> QED
  BY <1>6, <1>7, <1>8, <1>9, <1>10 DEF GatewayInv

LEMMA DiscoverAskOK ==
    ASSUME GatewayInv, NEW c \in Turns, DiscoverAsk(c)
    PROVE  GatewayInv'
<1> DEFINE h == [turn[c] EXCEPT !.pc = "dispatch", !.op = "list"]
<1>1. turn[c] \in Client /\ turn[c].pc = "discover" /\ turn[c].answer # "not_discovered"
  BY GatewayBefore DEF DiscoverAsk
<1>2. turn' = [turn EXCEPT ![c] = h] /\ UNCHANGED <<decl, cache, session, current, clock, missed>>
  BY DEF DiscoverAsk, GatewayInv, GatewayTypeOK
<1>3. h \in Client
  BY <1>1 DEF Client, Ops
<1>4. /\ h.tools = turn[c].tools /\ h.found = turn[c].found /\ h.answer # "not_discovered"
      /\ h.pc \notin Waiting
  BY <1>1 DEF Client, Waiting
<1> HIDE DEF h
<1>5. session' \in Seq(Session) /\ Len(session) <= Len(session') /\ current' \in 0..Len(session')
  BY <1>2, GatewayBefore
<1> QED
  BY <1>2, <1>3, <1>4, <1>5, CallerMoves

\* A refusal is of a tool the turn does not have, and ends it.
LEMMA DispatchToolOK ==
    ASSUME GatewayInv, NEW c \in Turns, NEW t \in ServerTools, DispatchTool(c, t)
    PROVE  GatewayInv'
<1>1. PICK valid \in BOOLEAN :
         turn' = [turn EXCEPT ![c] = [turn[c] EXCEPT
                    !.pc = IF Refusal(c, t, valid) = "none" THEN "dispatch" ELSE "answered",
                    !.op = "call", !.tool = t, !.answer = Refusal(c, t, valid)]]
  BY DEF DispatchTool, GatewayInv, GatewayTypeOK
<1> DEFINE answer == Refusal(c, t, valid)
           h == [turn[c] EXCEPT !.pc = IF answer = "none" THEN "dispatch" ELSE "answered",
                                !.op = "call", !.tool = t, !.answer = answer]
<1>2. turn[c] \in Client /\ UNCHANGED <<decl, cache, session, current, clock, missed>>
  BY GatewayBefore DEF DispatchTool
<1>3. /\ answer \in {"not_discovered", "denied", "none"}
      /\ answer = "not_discovered" => t \notin turn[c].tools
  BY DEF Refusal
<1> HIDE DEF answer
<1>4. h \in Client
  BY <1>2, <1>3 DEF Client, Ops
<1>5. /\ h.tools = turn[c].tools /\ h.found = turn[c].found /\ h.answer = answer /\ h.tool = t
      /\ h.pc \in {"dispatch", "answered"} /\ (answer # "none" => h.pc = "answered")
  BY <1>2 DEF Client
<1>6. turn' = [turn EXCEPT ![c] = h]
  BY <1>1 DEF answer
<1> HIDE DEF h
<1>7. \A b \in Turns : turn'[b] = IF b = c THEN h ELSE turn[b]
  BY <1>6 DEF GatewayInv, GatewayTypeOK
<1>8. GatewayTypeOK'
  BY <1>2, <1>4, <1>6 DEF GatewayInv, GatewayTypeOK
<1>9. SessionStarted'
  BY <1>2, <1>5, <1>7 DEF GatewayInv, SessionStarted
<1>10. CacheDated'
  BY <1>2 DEF GatewayInv, CacheDated
<1>11. ToolsDated'
  BY <1>2, <1>5, <1>7 DEF GatewayInv, ToolsDated
<1>12. RefusalStands'
  BY <1>3, <1>5, <1>7 DEF GatewayInv, RefusalStands
<1> QED
  BY <1>8, <1>9, <1>10, <1>11, <1>12 DEF GatewayInv

\* The end of a request.  A listing, or its failure, is as new as the clock for the
\* turn, for the cache and for the tools it came without.
LEMMA SettleOK ==
    ASSUME GatewayInv, NEW c \in Turns, NEW how \in {"ok", "failed"}, turn[c].pc \in Waiting,
           Settle(c, how), UNCHANGED <<decl, session, current, clock>>
    PROVE  GatewayInv'
<1>1. /\ turn[c] \in Client /\ turn[c].answer # "not_discovered" /\ clock \in Nat
  BY GatewayBefore DEF Waiting
<1>2. session' \in Seq(Session) /\ Len(session) <= Len(session') /\ current' \in 0..Len(session')
  BY GatewayBefore
<1>3. CASE turn[c].op = "call"
  <2> DEFINE h == [turn[c] EXCEPT !.pc = "answered", !.answer = how, !.future = "open"]
  <2>1. turn' = [turn EXCEPT ![c] = h] /\ UNCHANGED <<cache, missed>>
    BY <1>3 DEF Settle, GatewayInv, GatewayTypeOK
  <2>2. h \in Client
    BY <1>1 DEF Client
  <2>3. /\ h.tools = turn[c].tools /\ h.found = turn[c].found /\ h.answer # "not_discovered"
        /\ h.pc \notin Waiting
    BY <1>1 DEF Client, Waiting
  <2> HIDE DEF h
  <2> QED
    BY <1>2, <2>1, <2>2, <2>3, CallerMoves
<1>4. CASE turn[c].op # "call"
  <2> DEFINE tools == IF how = "ok" THEN {t \in ServerTools : is_allowed(turn[c].cfg, t)} ELSE {}
             h == [turn[c] EXCEPT !.pc = "ready", !.tools = tools, !.found = clock, !.future = "open"]
  <2>1. /\ turn' = [turn EXCEPT ![c] = h] /\ cache' = [at |-> clock, tools |-> tools]
        /\ missed' = [t \in ServerTools |-> IF t \in tools THEN missed[t] ELSE clock]
    BY <1>4 DEF Settle, GatewayInv, GatewayTypeOK
  <2>2. tools \in SUBSET ServerTools
    OBVIOUS
  <2> HIDE DEF tools
  <2>3. h \in Client
    <3>1. clock \in Int
      BY <1>1
    <3> QED
      BY <1>1, <2>2, <3>1 DEF Client
  <2>4. h.tools = tools /\ h.found = clock /\ h.answer # "not_discovered" /\ h.pc \notin Waiting
    BY <1>1 DEF Client, Waiting
  <2> HIDE DEF h
  <2>5. \A b \in Turns : turn'[b] = IF b = c THEN h ELSE turn[b]
    BY <2>1 DEF GatewayInv, GatewayTypeOK
  <2>6. \A t \in ServerTools : /\ missed[t] \in Nat /\ missed'[t] \in Nat /\ missed[t] <= clock
                               /\ missed'[t] = IF t \in tools THEN missed[t] ELSE clock
    BY <1>1, <2>1 DEF GatewayInv, GatewayTypeOK, CacheDated
  <2>7. GatewayTypeOK'
    BY <1>1, <2>1, <2>2, <2>3 DEF GatewayInv, GatewayTypeOK
  <2>8. SessionStarted'
    BY <2>4, <2>5 DEF GatewayInv, SessionStarted, Waiting
  <2>9. CacheDated'
    BY <1>1, <2>1, <2>6 DEF CacheDated
  <2>10. ToolsDated'
    <3> SUFFICES ASSUME NEW b \in Turns, NEW t \in ServerTools \ turn'[b].tools
                 PROVE  turn'[b].found - missed'[t] < CacheTTL
      BY DEF ToolsDated
    <3>1. CacheTTL \in Nat \ {0}
      BY McpAssumption
    <3>2. CASE b = c
      BY <1>1, <2>4, <2>5, <2>6, <3>1, <3>2
    <3>3. CASE b # c
      <4>1. /\ turn'[b] = turn[b] /\ turn[b].found \in Int
            /\ turn[b].found - missed[t] < CacheTTL /\ missed[t] <= missed'[t]
        BY <1>1, <2>5, <2>6, <3>3 DEF GatewayInv, GatewayTypeOK, Client, ToolsDated
      <4> QED
        BY <2>6, <3>1, <4>1
    <3> QED
      BY <3>2, <3>3
  <2>11. RefusalStands'
    BY <2>4, <2>5 DEF GatewayInv, RefusalStands
  <2> QED
    BY <2>7, <2>8, <2>9, <2>10, <2>11 DEF GatewayInv
<1> QED
  BY <1>3, <1>4

LEMMA NewSessionOK == NewSession \in Session
<1>1. <<>> \in Seq(Request)
  OBVIOUS
<1> QED
  BY <1>1 DEF NewSession, Session

LEMMA GetSessionOK ==
    ASSUME GatewayInv, NEW c \in Turns, GetSession(c)
    PROVE  GatewayInv'
<1> DEFINE h == [turn[c] EXCEPT !.pc = "wait", !.sid = current']
<1>1. /\ turn[c] \in Client /\ turn[c].answer # "not_discovered" /\ session \in Seq(Session)
      /\ Len(session) \in Nat /\ current \in 0..Len(session)
  BY GatewayBefore DEF GetSession
<1>2. turn' = [turn EXCEPT ![c] = h] /\ UNCHANGED <<decl, cache, clock, missed>>
  BY DEF GetSession, GatewayInv, GatewayTypeOK
<1>3. /\ session' \in Seq(Session) /\ Len(session) <= Len(session') /\ current' \in 1..Len(session')
      /\ current' \in 0..Len(session') /\ current' \in Nat
  <2>1. CASE current = 0
    <3>1. session' = Append(session, NewSession) /\ current' = Len(session) + 1
      BY <2>1 DEF GetSession
    <3> QED
      BY <1>1, <3>1, NewSessionOK
  <2>2. CASE current # 0
    <3>1. session' = session /\ current' = current
      BY <2>2 DEF GetSession
    <3> QED
      BY <1>1, <2>2, <3>1
  <2> QED
    BY <2>1, <2>2
<1>4. h \in Client
  BY <1>1, <1>3 DEF Client
<1>5. /\ h.tools = turn[c].tools /\ h.found = turn[c].found /\ h.answer # "not_discovered"
      /\ h.sid = current'
  BY <1>1 DEF Client
<1> HIDE DEF h
<1> QED
  BY <1>2, <1>3, <1>4, <1>5, CallerMoves

LEMMA PassReadyOK ==
    ASSUME GatewayInv, NEW c \in Turns, PassReady(c)
    PROVE  GatewayInv'
<1>1. /\ turn[c] \in Client /\ turn[c].pc = "wait" /\ turn[c].answer # "not_discovered"
      /\ turn[c].sid \in 1..Len(session) /\ UNCHANGED <<decl, session, current, clock>>
  BY GatewayBefore DEF PassReady, Waiting
<1>2. CASE Settle(c, "failed")
  BY <1>1, <1>2, SettleOK DEF Waiting
<1>3. CASE turn' = [turn EXCEPT ![c].pc = "put"] /\ UNCHANGED <<cache, missed>>
  <2> DEFINE h == [turn[c] EXCEPT !.pc = "put"]
  <2>1. turn' = [turn EXCEPT ![c] = h]
    BY <1>3 DEF GatewayInv, GatewayTypeOK
  <2>2. h \in Client
    BY <1>1 DEF Client
  <2>3. /\ h.tools = turn[c].tools /\ h.found = turn[c].found /\ h.answer # "not_discovered"
        /\ h.sid = turn[c].sid
    BY <1>1 DEF Client
  <2> HIDE DEF h
  <2>4. session' \in Seq(Session) /\ Len(session) <= Len(session') /\ current' \in 0..Len(session')
    BY <1>1, GatewayBefore
  <2>5. h.sid \in 1..Len(session')
    BY <1>1, <2>3
  <2> QED
    BY <1>1, <1>3, <2>1, <2>2, <2>3, <2>4, <2>5, CallerMoves
<1> QED
  BY <1>2, <1>3 DEF PassReady

LEMMA PutRequestOK ==
    ASSUME GatewayInv, NEW c \in Turns, PutRequest(c)
    PROVE  GatewayInv'
<1> DEFINE h == [turn[c] EXCEPT !.pc = "result"]
           s == turn[c].sid
           q == Append(session[s].queue, <<c, turn[c].op>>)
<1>1. /\ turn[c] \in Client /\ turn[c].pc = "put" /\ turn[c].answer # "not_discovered"
      /\ s \in 1..Len(session) /\ session \in Seq(Session) /\ current \in 0..Len(session)
      /\ Len(session) \in Nat
  BY GatewayBefore DEF PutRequest, Waiting
<1>2. turn' = [turn EXCEPT ![c] = h] /\ UNCHANGED <<decl, cache, current, clock, missed>>
  BY DEF PutRequest, GatewayInv, GatewayTypeOK
<1>3. h \in Client
  BY <1>1 DEF Client
<1>4. /\ h.tools = turn[c].tools /\ h.found = turn[c].found /\ h.answer # "not_discovered" /\ h.sid = s
  BY <1>1 DEF Client
<1>5. q \in Seq(Request)
  <2>1. session[s] \in Session /\ <<c, turn[c].op>> \in Request
    BY <1>1 DEF Client, Request
  <2> QED
    BY <2>1 DEF Session
<1>6. [session[s] EXCEPT !.queue = q] \in Session
  <2>1. session[s] \in Session
    BY <1>1
  <2> HIDE DEF q
  <2> QED
    BY <1>5, <2>1 DEF Session
<1>7. session' = [session EXCEPT ![s] = [session[s] EXCEPT !.queue = q]]
  BY <1>1 DEF PutRequest
<1>8. session' \in Seq(Session) /\ Len(session') = Len(session)
  BY <1>1, <1>6, <1>7
<1>9. /\ Len(session) <= Len(session') /\ current' \in 0..Len(session')
      /\ h.pc \in Waiting => h.sid \in 1..Len(session')
  BY <1>1, <1>2, <1>4, <1>8
<1> HIDE DEF h, q
<1> QED
  BY <1>2, <1>3, <1>4, <1>8, <1>9, CallerMoves

LEMMA TimeoutsOK ==
    ASSUME GatewayInv, NEW c \in Turns, ReadyTimesOut(c) \/ TakeResult(c) \/ ResultTimesOut(c)
    PROVE  GatewayInv'
<1>1. turn[c].pc \in Waiting /\ UNCHANGED <<decl, session, current, clock>>
  BY DEF ReadyTimesOut, TakeResult, ResultTimesOut, Waiting
<1>2. turn[c].future \in {"open", "ok", "failed"}
  BY GatewayBefore DEF Client
<1>3. \E how \in {"ok", "failed"} : Settle(c, how)
  BY <1>2 DEF ReadyTimesOut, TakeResult, ResultTimesOut
<1> QED
  BY <1>1, <1>3, SettleOK

\* At most the futures of the turns change.
SameTurns == /\ turn' \in [Turns -> Client]
             /\ \A c \in Turns : /\ turn'[c].tools = turn[c].tools /\ turn'[c].found = turn[c].found
                                  /\ turn'[c].answer = turn[c].answer /\ turn'[c].pc = turn[c].pc
                                  /\ turn'[c].tool = turn[c].tool /\ turn'[c].sid = turn[c].sid

LEMMA UnchangedTurns ==
    ASSUME GatewayInv, turn' = turn
    PROVE  SameTurns
BY DEF GatewayInv, GatewayTypeOK, SameTurns

LEMMA ResolvedTurns ==
    ASSUME GatewayInv, NEW requests, NEW how \in {"ok", "failed"}, turn' = Resolved(requests, how)
    PROVE  SameTurns
<1> DEFINE g(c) == [turn[c] EXCEPT !.future = how]
<1>1. ASSUME NEW c \in Turns
      PROVE  /\ turn[c] \in Client /\ g(c) \in Client
             /\ g(c).tools = turn[c].tools /\ g(c).found = turn[c].found
             /\ g(c).answer = turn[c].answer /\ g(c).pc = turn[c].pc
             /\ g(c).tool = turn[c].tool /\ g(c).sid = turn[c].sid
  BY GatewayBefore DEF Client
<1>2. Resolved(requests, how) = [c \in Turns |-> IF turn[c].pc = "result" /\ <<c, turn[c].op>> \in requests
                                                 THEN g(c) ELSE turn[c]]
  BY DEF Resolved
<1> HIDE DEF g
<1> QED
  BY <1>1, <1>2 DEF SameTurns

\* A step of the worker: it changes its session, and may answer requests.
LEMMA WorkerOK ==
    ASSUME GatewayInv, NEW s \in DOMAIN session, NEW from, NEW to \in Session, Worker(s, from, to), SameTurns
    PROVE  GatewayInv'
<1>1. /\ session' = [session EXCEPT ![s] = to] /\ UNCHANGED <<decl, cache, current, clock, missed>>
      /\ session \in Seq(Session) /\ Len(session) \in Nat
  BY DEF Worker, GatewayInv, GatewayTypeOK
<1>2. session' \in Seq(Session) /\ Len(session') = Len(session)
  BY <1>1
<1>3. SameTurns
  OBVIOUS
<1>4. GatewayTypeOK'
  BY <1>1, <1>2, <1>3 DEF GatewayInv, GatewayTypeOK, SameTurns
<1>5. \A c \in Turns : /\ SameFinding(c)
                       /\ turn'[c].pc \in Waiting => turn'[c].sid \in 1..Len(session')
  BY <1>2, <1>3 DEF SameFinding, SameTurns, GatewayInv, SessionStarted, Waiting
<1>6. Len(session) <= Len(session')
  BY <1>1, <1>2
<1> QED
  BY <1>1, <1>4, <1>5, <1>6, QuietStep

LEMMA WorkerStepsOK ==
    ASSUME GatewayInv, NEW s \in DOMAIN session,
           \/ Initialize(s) \/ SessionFails(s) \/ FailPending(s)
           \/ TestStop(s) \/ GetRequest(s) \/ AnswerRequest(s)
    PROVE  GatewayInv'
<1> DEFINE x == session[s]
<1>1. x \in Session /\ x.queue \in Seq(Request)
  <2>1. x \in Session
    BY DEF GatewayInv, GatewayTypeOK
  <2> QED
    BY <2>1 DEF Session
<1>2. CASE Initialize(s)
  <2>1. [x EXCEPT !.worker = "loop", !.ready = TRUE] \in Session
    BY <1>1 DEF Session
  <2> QED
    BY <1>2, <2>1, UnchangedTurns, WorkerOK DEF Initialize
<1>3. CASE SessionFails(s)
  <2>1. [x EXCEPT !.worker = "failing", !.ready = TRUE, !.error = TRUE] \in Session
    BY <1>1 DEF Session
  <2> QED
    BY <1>3, <2>1, UnchangedTurns, WorkerOK DEF SessionFails
<1>4. CASE FailPending(s)
  <2>1. <<>> \in Seq(Request)
    OBVIOUS
  <2>2. [x EXCEPT !.worker = "dead", !.queue = <<>>] \in Session
    BY <1>1, <2>1 DEF Session
  <2>3. SameTurns
    <3> DEFINE R == {x.queue[i] : i \in DOMAIN x.queue} \ {<<StopMark>>}
    <3>1. turn' = Resolved(R, "failed")
      BY <1>4 DEF FailPending
    <3> HIDE DEF R
    <3> QED
      BY <3>1, ResolvedTurns
  <2> QED
    BY <1>4, <2>2, <2>3, WorkerOK DEF FailPending
<1>5. CASE TestStop(s)
  <2> DEFINE to == [x EXCEPT !.worker = IF x.stop THEN "ended" ELSE "get"]
  <2>1. to \in Session
    BY <1>1 DEF Session
  <2>2. Worker(s, "loop", to) /\ turn' = turn
    BY <1>5 DEF TestStop
  <2> HIDE DEF to
  <2> QED
    BY <2>1, <2>2, UnchangedTurns, WorkerOK
<1>6. CASE GetRequest(s)
  <2> DEFINE head == Head(x.queue)
             rest == [x EXCEPT !.queue = Tail(x.queue)]
             to == IF head = <<StopMark>> THEN [rest EXCEPT !.worker = "ended"]
                   ELSE [rest EXCEPT !.worker = "serve", !.serving = head]
  <2>1. x.queue # <<>> /\ Worker(s, "get", to) /\ turn' = turn
    BY <1>6 DEF GetRequest
  <2>2. head \in Request /\ Tail(x.queue) \in Seq(Request)
    BY <1>1, <2>1
  <2> HIDE DEF head
  <2>3. rest \in Session
    BY <1>1, <2>2 DEF Session
  <2> HIDE DEF rest
  <2>4. [rest EXCEPT !.worker = "ended"] \in Session
    BY <2>3 DEF Session
  <2>5. [rest EXCEPT !.worker = "serve", !.serving = head] \in Session
    BY <2>2, <2>3 DEF Session
  <2>6. to \in Session
    BY <2>4, <2>5
  <2> HIDE DEF to
  <2> QED
    BY <2>1, <2>6, UnchangedTurns, WorkerOK
<1>7. CASE AnswerRequest(s)
  <2>1. [x EXCEPT !.worker = "loop", !.serving = <<>>] \in Session
    BY <1>1 DEF Session
  <2>2. SameTurns
    <3>1. \E how \in {"ok", "failed"} : turn' = Resolved({x.serving}, how)
      BY <1>7 DEF AnswerRequest
    <3> QED
      BY <3>1, ResolvedTurns
  <2> QED
    BY <1>7, <2>1, <2>2, WorkerOK DEF AnswerRequest
<1> QED
  BY <1>2, <1>3, <1>4, <1>5, <1>6, <1>7

LEMMA CloseOK ==
    ASSUME GatewayInv, Close
    PROVE  GatewayInv'
<1> DEFINE x == session[current]
           q == Append(x.queue, <<StopMark>>)
           to == [x EXCEPT !.stop = TRUE, !.queue = q]
<1>1. /\ session \in Seq(Session) /\ Len(session) \in Nat /\ current \in 1..Len(session) /\ x \in Session
      /\ current' = 0 /\ UNCHANGED <<decl, cache, turn, clock, missed>>
  BY DEF Close, GatewayInv, GatewayTypeOK
<1>2. q \in Seq(Request)
  BY <1>1 DEF Session, Request
<1>3. session' = [session EXCEPT ![current] = to]
  BY <1>1 DEF Close
<1> HIDE DEF q
<1>4. to \in Session
  BY <1>1, <1>2 DEF Session
<1> HIDE DEF to
<1>5. session' \in Seq(Session) /\ Len(session') = Len(session) /\ current' \in 0..Len(session')
  BY <1>1, <1>3, <1>4
<1>6. GatewayTypeOK'
  BY <1>1, <1>5 DEF GatewayInv, GatewayTypeOK
<1>7. \A c \in Turns : /\ SameFinding(c)
                       /\ turn'[c].pc \in Waiting => turn'[c].sid \in 1..Len(session')
  BY <1>1, <1>5 DEF SameFinding, GatewayInv, SessionStarted, Waiting
<1>8. Len(session) <= Len(session')
  BY <1>1, <1>5
<1> QED
  BY <1>1, <1>6, <1>7, <1>8, QuietStep

\* The operator and the clock: a cached listing only grows older.
LEMMA OutsideOK ==
    ASSUME GatewayInv, EditDeclaration \/ McpTick
    PROVE  GatewayInv'
<1>1. /\ UNCHANGED <<cache, turn, session, current, missed>> /\ decl' \in Declarations
      /\ clock \in Nat /\ clock' \in {clock, clock + 1}
  BY DEF EditDeclaration, McpTick, GatewayInv, GatewayTypeOK
<1>2. GatewayTypeOK'
  BY <1>1 DEF GatewayInv, GatewayTypeOK
<1>3. SessionStarted' /\ ToolsDated' /\ RefusalStands'
  BY <1>1 DEF GatewayInv, SessionStarted, ToolsDated, RefusalStands
<1>4. CacheDated'
  <2>1. cache.at \in Nat /\ \A t \in ServerTools : missed[t] \in Nat
    BY DEF GatewayInv, GatewayTypeOK
  <2> QED
    BY <1>1, <2>1 DEF GatewayInv, CacheDated
<1> QED
  BY <1>2, <1>3, <1>4 DEF GatewayInv

----------------------------------------------------------------------------
(* The specification.                                                      *)

LEMMA GatewayInitInv == McpInit => GatewayInv
<1> SUFFICES ASSUME McpInit PROVE GatewayInv
  OBVIOUS
<1>1. Never \in Int /\ CacheTTL \in Nat \ {0} /\ Never = -CacheTTL
  BY McpAssumption DEF Never
<1>2. NewTurn \in Client
  BY <1>1 DEF NewTurn, Client, Ops
<1>3. NewTurn.pc = "new" /\ NewTurn.answer = "none" /\ NewTurn.found = Never
  BY DEF NewTurn
<1>4. GatewayTypeOK
  <2>1. session \in Seq(Session) /\ Len(session) = 0
    BY DEF McpInit
  <2> QED
    BY <1>2, <2>1 DEF McpInit, GatewayTypeOK
<1>5. SessionStarted /\ RefusalStands
  BY <1>3 DEF McpInit, SessionStarted, RefusalStands
<1>6. CacheDated
  BY DEF McpInit, CacheDated
<1>7. ToolsDated
  BY <1>1, <1>3 DEF McpInit, ToolsDated
<1> QED
  BY <1>4, <1>5, <1>6, <1>7 DEF GatewayInv

\* The invariant holds of every execution.
THEOREM GatewayInvAlways == McpSpec => []GatewayInv
<1>1. GatewayInv /\ [McpNext]_mcpVars => GatewayInv'
  <2> SUFFICES ASSUME GatewayInv, [McpNext]_mcpVars PROVE GatewayInv'
    OBVIOUS
  <2>1. CASE UNCHANGED mcpVars
    BY <2>1 DEF mcpVars, GatewayInv, GatewayTypeOK, SessionStarted, CacheDated, ToolsDated, RefusalStands
  <2>2. ASSUME NEW c \in Turns, CreateClient(c) \/ CallerStep(c) \/ \E t \in ServerTools : DispatchTool(c, t)
        PROVE  GatewayInv'
    BY <2>2, CreateClientOK, DiscoverCachedOK, DiscoverAskOK, DispatchToolOK, GetSessionOK,
       PassReadyOK, PutRequestOK, TimeoutsOK
    DEF CallerStep
  <2>3. ASSUME NEW s \in DOMAIN session,
               \/ Initialize(s) \/ SessionFails(s) \/ FailPending(s)
               \/ TestStop(s) \/ GetRequest(s) \/ AnswerRequest(s)
        PROVE  GatewayInv'
    BY <2>3, WorkerStepsOK
  <2>4. CASE Close \/ EditDeclaration \/ McpTick
    BY <2>4, CloseOK, OutsideOK
  <2> QED
    BY <2>1, <2>2, <2>3, <2>4 DEF McpNext
<1> QED
  BY <1>1, GatewayInitInv, PTL DEF McpSpec

\* A refusal rests on a listing without the tool that was taken less than the life of a
\* cache entry before the turn looked, for every number of turns that share the cache and
\* the session, and wherever the session fails, closes or answers late (discover_tools,
\* call_tool).
THEOREM RefusalTheorem == McpSpec => []RefusalsAreFresh
<1>1. GatewayInv => RefusalsAreFresh
  BY DEF GatewayInv, RefusalStands, ToolsDated, RefusalsAreFresh
<1> QED
  BY <1>1, GatewayInvAlways, PTL
=============================================================================
