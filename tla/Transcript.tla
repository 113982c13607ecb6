----------------------------- MODULE Transcript -----------------------------
(***************************************************************************)
(* What a context is made of: which messages a compaction summarises, which*)
(* ones a turn sees, and how calls and results are paired again before the *)
(* model reads them.  A message is a record with a role, the message it    *)
(* answers (of), and the summary it was compacted by, if any (by).         *)
(***************************************************************************)
EXTENDS Integers, Sequences, SequencesExt

\* The members of s that are in S, in their order.
Selected(s, S) ==
    LET Step[k \in 0 .. Len(s)] ==
            IF k = 0 THEN <<>> ELSE IF s[k] \in S THEN Append(Step[k - 1], s[k]) ELSE Step[k - 1]
    IN Step[Len(s)]

NoMessage == 0
NoSummary == 0

Texts == {"user", "preference", "assistant", "synthetic"}

\* Tool messages are stored with an estimate of 0; a text counts for one unit.
estimate_message_tokens(ms) == Cardinality({i \in DOMAIN ms : ms[i].role \in Texts})

should_compact(tokens, window, reserve) == tokens + reserve > window

_is_result_for_call(call, result) == result.of \in {NoMessage, call.id}

_would_split_tool_pair(ms, cut) ==
    /\ ms[cut].role = "tool_call"
    /\ ms[cut + 1].role = "tool_result"
    /\ _is_result_for_call(ms[cut], ms[cut + 1])

\* Messages 1..cut are summarised.  The newest one is always kept, and older
\* ones as long as the kept ones fit; then the cut moves back past a pair.
find_cut_point(ms, keep) ==
    LET n == Len(ms)
        fits(c) == \A d \in c .. n - 2 : estimate_message_tokens(SubSeq(ms, d + 1, n)) <= keep
        first == CHOOSE c \in 0 .. n - 1 : fits(c) /\ \A d \in 0 .. c - 1 : ~ fits(d)
        whole(c) == c = 0 \/ ~ _would_split_tool_pair(ms, c)
    IN IF n = 0 THEN 0
       ELSE CHOOSE c \in 0 .. first : whole(c) /\ \A d \in c + 1 .. first : ~ whole(d)

build_synthetic_tool_error(call) ==
    [call EXCEPT !.role = "synthetic", !.of = call.id]

\* The pass over the window: the last message of the output is a call for as
\* long as that call is pending.
Pending(out) == out # <<>> /\ Last(out).role = "tool_call"
Settle(out) == IF Pending(out) THEN Append(out, build_synthetic_tool_error(Last(out))) ELSE out

\* A variant that takes any result for the answer to the pending call.
RepairStepAnyResult(out, m) ==
    IF Pending(out) /\ m.role = "tool_result" THEN Append(out, m)
    ELSE IF m.role = "tool_result" THEN Settle(out) ELSE Append(Settle(out), m)

RepairStep(out, m) ==
    IF Pending(out) /\ m.role = "tool_result" /\ _is_result_for_call(Last(out), m)
    THEN Append(out, m)
    ELSE IF m.role = "tool_result" THEN Settle(out) ELSE Append(Settle(out), m)

RepairPass(ms) ==
    LET Step[k \in 0 .. Len(ms)] == IF k = 0 THEN <<>> ELSE RepairStep(Step[k - 1], ms[k])
    IN Step[Len(ms)]

repair_tool_result_pairing(ms) == Settle(RepairPass(ms))

\* What the pass promises: a call is followed at once by its own result or by
\* the error that stands for it, and nothing else is called a result.
Paired(ms) ==
    \A i \in DOMAIN ms :
        /\ ms[i].role = "tool_call" =>
              /\ i < Len(ms)
              /\ ms[i + 1].role \in {"tool_result", "synthetic"}
              /\ ms[i + 1].of = ms[i].id
        /\ ms[i].role = "tool_result" => i > 1 /\ ms[i - 1].role = "tool_call"

=============================================================================
