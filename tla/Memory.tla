------------------------------- MODULE Memory -------------------------------
(***************************************************************************)
(* The conversation of one session and what outlives it: turns append      *)
(* messages, older messages are compacted into summaries that continue one *)
(* another, and what they teach becomes learning candidates and long-term  *)
(* memories.  Every request is a transaction over a snapshot (Tables); the *)
(* row of the session is locked by the first request that writes to it.    *)
(* A DateTime column of MySQL holds whole seconds, so rows of one second   *)
(* are listed in the order of their random ids; one of SQLite is exact.    *)
(***************************************************************************)
EXTENDS Transcript, Tables, FiniteSets, FiniteSetsExt

CONSTANTS Requests,       \* the requests that may be in flight at once
          NoRequest,
          Tools,          \* tools whose calls may fail and recover
          LowRisk,        \* the tools whose lessons are of low risk
          MaxMessages, MaxClock, MaxCandidates,    \* for every mode
          MaxSummaries, MaxTurns,
          ListLimit,      \* rows the context builder asks for (500)
          MaxRecent,      \* messages it then keeps (50)
          Window, Reserve, Keep, Keeps, Others

ASSUME LimitsAssumption == ListLimit \in Nat /\ MaxRecent \in Nat

NoMemory == 0

VARIABLES db,       \* the committed tables
          order,    \* the messages by created_at and id, uncommitted ones too
          sorder,   \* the summaries in that order
          req,      \* the requests in flight
          lock,     \* who holds the row of the session
          clock,    \* the second of the clock
          turns,    \* how many turns have begun
          mode      \* how the session is used

vars == <<db, order, sorder, req, lock, clock, turns, mode>>

\* One request at a time on exact columns, one at a time on whole seconds, or
\* any overlap on whole seconds.
Modes == {"exact", "serial", "overlapping"}

Empty == [msgs |-> <<>>, sums |-> <<>>, cands |-> <<>>, mems |-> <<>>]
Idle == [pc |-> "idle", op |-> "none", run |-> 0, base |-> Empty, view |-> Empty]

Init ==
    /\ db = Empty /\ order = <<>> /\ sorder = <<>>
    /\ req = [r \in Requests |-> Idle]
    /\ lock = NoRequest /\ clock = 0 /\ turns = 0
    /\ mode \in Modes

-----------------------------------------------------------------------------
(* Rows and their order                                                    *)

Fresh(o) == 1 + Max({0} \cup {o[i].id : i \in DOMAIN o})
NewId(view, f) ==
    1 + Max({0} \cup DOMAIN view[f] \cup DOMAIN db[f] \cup UNION {DOMAIN req[r].view[f] : r \in Requests})
With(table, row) == Inserted(table, {row.id}, row)
Put(table, row) == [k \in DOMAIN table \cup {row.id} |-> IF k = row.id THEN row ELSE table[k]]

\* The places a row stored now may take among the rows of its second.
Places(o) ==
    IF mode = "exact" THEN {Len(o)}
    ELSE {p \in 0 .. Len(o) : \A i \in DOMAIN o : i > p => o[i].at = clock}
Placed(o, p) == InsertAt(o, p + 1, [id |-> Fresh(o), at |-> clock])

Listed(o, table) ==
    LET ids == Selected(o, {e \in Range(o) : e.id \in DOMAIN table})
    IN [i \in DOMAIN ids |-> table[ids[i].id]]

list_messages(view, o, limit) ==
    LET ms == Listed(o, view.msgs) IN SubSeq(ms, 1, IF Len(ms) < limit THEN Len(ms) ELSE limit)

Uncompacted(ms) == Selected(ms, {m \in Range(ms) : m.by = NoSummary})

get_latest_summary(view) ==
    LET ss == Listed(sorder, view.sums) IN IF ss = <<>> THEN NoSummary ELSE Last(ss).id

Told(view, s) == IF s = NoSummary THEN {} ELSE view.sums[s].told

-----------------------------------------------------------------------------
(* The context of a turn                                                   *)

_all_context_messages(view) == Uncompacted(list_messages(view, order, ListLimit))

Newest(ms, n) == IF Len(ms) <= n THEN ms ELSE SubSeq(ms, Len(ms) - n + 1, Len(ms))

\* The messages of the context, as the model reads them.
build(view) == repair_tool_result_pairing(Newest(_all_context_messages(view), MaxRecent))

\* The summary counts for one unit; memories, skills and the new message for
\* any number of units that the configuration allows.
need_compaction(view, others) ==
    LET summary == IF get_latest_summary(view) = NoSummary THEN 0 ELSE 1
    IN should_compact(estimate_message_tokens(build(view)) + summary + others, Window, Reserve)

-----------------------------------------------------------------------------
(* Lessons: drafts, candidates and memories                                *)

\* Preferences of the user are drafts of one key, with every message that
\* states it as evidence.
_extract_user_preferences(ms) ==
    LET said == {m \in ms : m.role = "preference"}
    IN {[key |-> "preference", evidence |-> {m.id : m \in said}] : k \in {m.role : m \in said}}

\* The calls of a run that failed, each with a later success of the same tool
\* (the logs of a run are those of its results; within a second they have no
\* order).  Whether an output is worth learning from is left open.
_find_later_recovery(view, run) ==
    LET logs == {m \in Range(view.msgs) : m.role = "tool_result" /\ m.run = run}
        place(m) == CHOOSE i \in DOMAIN order : order[i].id = m.id
        later(f, g) == IF mode = "exact" THEN place(f) < place(g)
                       ELSE order[place(f)].at <= order[place(g)].at
    IN {p \in logs \X logs : ~ p[1].ok /\ p[2].ok /\ p[1].tool = p[2].tool /\ later(p[1], p[2])}

_extract_tool_recovery_lessons(pairs) ==
    {[key |-> t, evidence |-> UNION {{p[1].id, p[2].id} : p \in {q \in pairs : q[1].tool = t}}]
        : t \in {p[1].tool : p \in pairs}}

extract_memory_candidates(ms, pairs) ==
    _extract_user_preferences(ms) \cup _extract_tool_recovery_lessons(pairs)

\* A recovery scores 75 + 10; a preference is never of low risk.
auto_promotable(draft) == draft.key \in LowRisk

\* A variant that never finds the memory of a key.
find_no_memory(view, key) == NoMemory

find_active_memory_by_key(view, key) ==
    LET found == {i \in DOMAIN view.mems : view.mems[i].key = key}
    IN IF found = {} THEN NoMemory ELSE CHOOSE i \in found : TRUE

EvidenceOf(view, m) == IF m = NoMemory THEN {} ELSE view.mems[m].evidence

\* A key that is remembered already adds its evidence to the draft.
_merge_existing_evidence(view, draft) ==
    [draft EXCEPT !.evidence = @ \cup EvidenceOf(view, find_active_memory_by_key(view, draft.key))]

\* The memory the draft is merged into, or becomes.
promote(view, draft) ==
    LET old == find_active_memory_by_key(view, draft.key)
    IN [id |-> IF old = NoMemory THEN NewId(view, "mems") ELSE old, key |-> draft.key,
        evidence |-> draft.evidence \cup EvidenceOf(view, old)]

create_learning_candidate(view, draft, m) ==
    [id |-> NewId(view, "cands"), key |-> draft.key, evidence |-> draft.evidence, memory |-> m]

\* Every draft becomes a candidate; one of low risk is promoted at once.
Learn(view, found) ==
    LET draft == _merge_existing_evidence(view, found)
        memory == promote(view, draft)
    IN IF auto_promotable(draft)
       THEN [view EXCEPT !.cands = With(@, create_learning_candidate(view, draft, memory.id)),
                         !.mems = Put(@, memory)]
       ELSE [view EXCEPT !.cands = With(@, create_learning_candidate(view, draft, NoMemory))]

\* The drafts of q, one after the other.
LearnAll(view, q) ==
    LET Step[k \in 0 .. Len(q)] == IF k = 0 THEN view ELSE Learn(Step[k - 1], q[k])
    IN Step[Len(q)]

consolidate(view, ms, pairs) == LearnAll(view, SetToSeq(extract_memory_candidates(ms, pairs)))

-----------------------------------------------------------------------------
(* Compaction                                                              *)

messages_to_summarize(view, keep) ==
    LET ms == Uncompacted(Listed(order, view.msgs))
    IN ToSet(SubSeq(ms, 1, find_cut_point(ms, keep)))

\* A variant that forgets the summary before it.
summarizeAlone(view, ms) == {m.id : m \in ms}

\* The text of a summary tells the messages it covers and repeats the summary
\* before it.
summarize(view, ms) == Told(view, get_latest_summary(view)) \cup {m.id : m \in ms}

create_context_summary(view, ms, flushed) ==
    [id |-> Fresh(sorder), prev |-> get_latest_summary(view), told |-> summarize(view, ms),
     flushed |-> flushed]

mark_messages_compacted(msgs, ms, s) ==
    [i \in DOMAIN msgs |-> IF msgs[i] \in ms THEN [msgs[i] EXCEPT !.by = s] ELSE msgs[i]]

\* A variant that summarises without the flush.
no_memory_flush(view, ms, flushed) == view

\* A turn flushes what it is about to summarise to memory first; a compaction
\* asked for by hand has no workflow run and skips that, and an exception of
\* the flush is caught (its one draft is then not learnt).  The metadata of
\* the summary tells which it was.
_run_pre_compaction_memory_flush(view, ms, flushed) ==
    IF flushed THEN consolidate(view, ms, {}) ELSE view

compact_session(view, ms, flushed) ==
    LET summary == create_context_summary(view, ms, flushed)
        learnt == _run_pre_compaction_memory_flush(view, ms, flushed)
    IN [learnt EXCEPT !.sums = With(@, summary),
                      !.msgs = mark_messages_compacted(@, ms, summary.id)]

-----------------------------------------------------------------------------
(* Requests                                                                *)

Alone(r) == mode # "overlapping" => \A q \in Requests \ {r} : req[q].pc = "idle"
MayWrite(r) == lock \in {NoRequest, r}
Room(n) == Len(order) + n <= MaxMessages[mode]

Merged(base, view) == [f \in DOMAIN db |-> Rows(db[f], base[f], view[f])]

Own(o, r, f) == Selected(o, {e \in Range(o) : e.id \notin DOMAIN req[r].view[f] \ DOMAIN req[r].base[f]})

Message(i, role, of, run, tool, ok) ==
    [id |-> i, role |-> role, of |-> of, run |-> run, tool |-> tool, ok |-> ok, by |-> NoSummary]
Text(i, role, of, run) == Message(i, role, of, run, "none", TRUE)

\* A stream stores the message of the user first, in a transaction of its own.
StreamStarted(r, role) ==
    /\ req[r].pc = "idle" /\ Alone(r) /\ MayWrite(r)
    /\ turns < MaxTurns /\ Room(2)
    /\ turns' = turns + 1
    /\ \E p \in Places(order) : order' = Placed(order, p)
    /\ db' = [db EXCEPT !.msgs = With(@, Text(Fresh(order), role, NoMessage, turns'))]
    /\ req' = [req EXCEPT ![r] = [Idle EXCEPT !.pc = "started", !.op = "stream", !.run = turns']]
    /\ UNCHANGED <<sorder, lock, clock, mode>>

\* The first statement of a transaction fixes what it reads.
Open(r, op) ==
    /\ \/ /\ req[r].pc = "idle" /\ op = "turn" /\ turns < MaxTurns /\ turns' = turns + 1
       \/ req[r].pc = "idle" /\ op = "compact" /\ turns' = turns
       \/ req[r].pc = "idle" /\ op = "consolidate" /\ turns' = turns
          /\ Cardinality(DOMAIN db.cands) < MaxCandidates[mode]
       \/ req[r].pc = "started" /\ op = req[r].op /\ turns' = turns
    /\ Alone(r)
    /\ req' = [req EXCEPT ![r] = [pc |-> "open", op |-> op, base |-> db, view |-> db,
                                  run |-> IF op = "turn" THEN turns' ELSE @.run]]
    /\ UNCHANGED <<db, order, sorder, lock, clock, mode>>

\* The context is built; when it is too large the session is compacted, unless
\* nothing is old enough, and the context is built again.
_build_context_node(r) ==
    LET view == req[r].view
        ms == messages_to_summarize(view, Keep)
    IN /\ req[r].pc = "open" /\ req[r].op \in {"turn", "stream"}
       /\ \/ /\ ms = {} \/ \E n \in Others : ~ need_compaction(view, n)
             /\ req' = [req EXCEPT ![r].pc = "running"]
             /\ UNCHANGED <<sorder, lock>>
          \/ /\ ms # {} /\ \E n \in Others : need_compaction(view, n)
             /\ MayWrite(r) /\ Len(sorder) < MaxSummaries
             /\ \E flushed \in BOOLEAN :
                  req' = [req EXCEPT ![r].pc = "running", ![r].view = compact_session(view, ms, flushed)]
             /\ \E p \in Places(sorder) : sorder' = Placed(sorder, p)
             /\ lock' = r
       /\ UNCHANGED <<db, order, clock, turns, mode>>

\* A tool ran: its call and its result are stored, the result as the child of
\* the call.
_append_tool_pair_messages(r, tool, ok) ==
    LET call == Message(Fresh(order), "tool_call", NoMessage, req[r].run, tool, TRUE)
        result == Message(call.id + 1, "tool_result", call.id, req[r].run, tool, ok)
    IN /\ req[r].pc = "running" /\ MayWrite(r) /\ Room(2)
       /\ \E p \in Places(order) :
            LET o == Placed(order, p) IN \E q \in Places(o) : order' = Placed(o, q)
       /\ req' = [req EXCEPT ![r].view.msgs = With(With(@, call), result)]
       /\ lock' = r
       /\ UNCHANGED <<db, sorder, clock, turns, mode>>

\* The answer is stored, after the message of the user unless a stream stored
\* that one already, and everything is committed.
FinishTurn(r, role) ==
    LET i == Fresh(order)
        run == req[r].run
        streamed == req[r].op = "stream"
        msgs == IF streamed THEN With(req[r].view.msgs, Text(i, "assistant", NoMessage, run))
                ELSE With(With(req[r].view.msgs, Text(i, role, NoMessage, run)),
                          Text(i + 1, "assistant", i, run))
        view == [req[r].view EXCEPT !.msgs = msgs]
    IN /\ req[r].pc = "running" /\ MayWrite(r) /\ Room(IF streamed THEN 1 ELSE 2)
       /\ streamed => role = "user"
       /\ \E p \in Places(order) :
            LET o == Placed(order, p)
            IN IF streamed THEN order' = o ELSE \E q \in Places(o) : order' = Placed(o, q)
       /\ db' = Merged(req[r].base, view)
       /\ req' = [req EXCEPT ![r] = Idle]
       /\ lock' = NoRequest
       /\ UNCHANGED <<sorder, clock, turns, mode>>

\* POST /sessions/{id}/compact, with the budget the caller names.
compact_agent_session(r, keep) ==
    LET ms == messages_to_summarize(req[r].view, keep)
    IN /\ req[r].pc = "open" /\ req[r].op = "compact"
       /\ \/ ms = {} /\ UNCHANGED <<db, sorder>>
          \/ /\ ms # {} /\ MayWrite(r) /\ Len(sorder) < MaxSummaries
             /\ db' = Merged(req[r].base, compact_session(req[r].view, ms, FALSE))
             /\ \E p \in Places(sorder) : sorder' = Placed(sorder, p)
       /\ req' = [req EXCEPT ![r] = Idle]
       /\ UNCHANGED <<order, lock, clock, turns, mode>>

\* POST /agent-memory/consolidate for a run of the session.
consolidate_agent_memory(r, run) ==
    LET view == req[r].view
    IN /\ req[r].pc = "open" /\ req[r].op = "consolidate"
       /\ \E pairs \in SUBSET _find_later_recovery(view, run) :
            /\ \A p, q \in pairs : p[1] = q[1] => p = q
            /\ db' = Merged(req[r].base, consolidate(view, Range(view.msgs), pairs))
       /\ req' = [req EXCEPT ![r] = Idle]
       /\ UNCHANGED <<order, sorder, lock, clock, turns, mode>>

\* An exception or the end of the process: nothing of the transaction stays.
\* A stream that is still alive then stores an answer that tells of the failure.
RolledBack(r) ==
    /\ sorder' = Own(sorder, r, "sums")
    /\ req' = [req EXCEPT ![r] = Idle]
    /\ lock' = IF lock = r THEN NoRequest ELSE lock

Die(r) ==
    /\ req[r].pc # "idle"
    /\ order' = Own(order, r, "msgs")
    /\ RolledBack(r)
    /\ UNCHANGED <<db, clock, turns, mode>>

_emit_stream_failure_terminal(r) ==
    LET o == Own(order, r, "msgs")
    IN /\ req[r].pc \in {"open", "running"} /\ req[r].op = "stream" /\ MayWrite(r) /\ Len(o) < MaxMessages[mode]
       /\ \E p \in Places(o) : order' = Placed(o, p)
       /\ db' = [db EXCEPT !.msgs = With(@, Text(Fresh(o), "assistant", NoMessage, req[r].run))]
       /\ RolledBack(r)
       /\ UNCHANGED <<clock, turns, mode>>

Tick ==
    /\ clock < MaxClock[mode] /\ clock' = clock + 1
    /\ UNCHANGED <<db, order, sorder, req, lock, turns, mode>>

Next ==
    \/ \E r \in Requests :
         \/ \E role \in {"user", "preference"} : StreamStarted(r, role) \/ FinishTurn(r, role)
         \/ \E op \in {"turn", "stream", "compact", "consolidate"} : Open(r, op)
         \/ _build_context_node(r)
         \/ \E tool \in Tools, ok \in BOOLEAN : _append_tool_pair_messages(r, tool, ok)
         \/ \E keep \in Keeps : compact_agent_session(r, keep)
         \/ \E run \in 1 .. turns : consolidate_agent_memory(r, run)
         \/ Die(r)
         \/ _emit_stream_failure_terminal(r)
    \/ Tick

Spec == Init /\ [][Next]_vars

-----------------------------------------------------------------------------
(* Properties                                                              *)

\* Whatever overlaps, and in whatever order rows of one second come back, the
\* model is given every call with its own result or the error in its place.
ContextIsPaired ==
    /\ Paired(build(db))
    /\ \A r \in Requests : req[r].pc \in {"open", "running"} => Paired(build(req[r].view))

\* Requests one at a time, and no two compactions within a second: a message
\* is either still in the transcript or told by the latest summary (told in its
\* words by the deterministic provider, handed to the summariser by the hybrid
\* one and the model's).
NothingForgotten ==
    LET distinct == \A i, j \in DOMAIN sorder : i # j => sorder[i].at # sorder[j].at
    IN (mode = "exact" \/ (mode = "serial" /\ distinct)) =>
         \A i \in DOMAIN db.msgs :
            db.msgs[i].by # NoSummary => i \in Told(db, get_latest_summary(db))

\* What a summary records of its flush is so: when the flush did not fail, each
\* preference the summary compacted away is the evidence of a learning candidate,
\* whatever overlapped the turn, rolled back or was compacted again since.
PreferencesLearnt ==
    \A i \in DOMAIN db.msgs :
        LET m == db.msgs[i]
        IN (m.role = "preference" /\ m.by # NoSummary /\ db.sums[m.by].flushed) =>
             \E c \in DOMAIN db.cands : m.id \in db.cands[c].evidence

\* Requests one at a time: a lesson is remembered once, with the evidence of
\* every candidate that was merged into it.
LessonsMerged ==
    mode # "overlapping" =>
        /\ \A m, n \in DOMAIN db.mems : db.mems[m].key = db.mems[n].key => m = n
        /\ \A c \in DOMAIN db.cands :
              LET m == db.cands[c].memory
              IN m # NoMemory => /\ db.mems[m].key = db.cands[c].key
                                 /\ db.cands[c].evidence \subseteq db.mems[m].evidence

=============================================================================
