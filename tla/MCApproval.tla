----------------------------- MODULE MCApproval -----------------------------
(***************************************************************************)
(* Two deployments in one instance: overlapping requests, each of which    *)
(* may die, on the approvals of one run; and requests one after another    *)
(* and without failures, over two runs of a session.                       *)
(***************************************************************************)
EXTENDS ApprovalWorkflow

VARIABLE serial    \* which of the two

\* The serial half is about one request, so there is one.
ASSUME RequestsAssumption == Requests # {}
First == CHOOSE r \in Requests : TRUE

\* Bound: overlapping requests share one run.
OverlapRuns == 1

MCInit == Init /\ serial \in BOOLEAN
MCNext ==
    /\ UNCHANGED serial
    /\ \/ /\ serial
          /\ \/ ChatTurn
             \/ ButtonDecision(First) \/ ChatDecision(First) \/ DecideApproval(First)
             \/ Continue(First) \/ Commit(First)
       \/ /\ ~serial /\ Next
          /\ \A w \in Runs : w > OverlapRuns => wf'[w] = Absent
MCSpec == MCInit /\ [][MCNext]_<<vars, serial>> /\ Fairness

\* The approval row and the run row of a decision agree whenever they are
\* committed, also when two requests decide the same approval and either dies.
\* A tool that commits the session itself is the exception: its request and an
\* overlapping one commit parts of both, so for it the rows agree when requests
\* come one after another.
DecisionMatchesRun == \A a \in Approvals : ap[a].kind # "commits" \/ serial => Agree(a)

\* Requests one after another, none of which fails after its tool acted: each
\* approved tool runs at most once (graph_factory.py:578) ...
SerialToolRunsOnce == serial => ToolRunsOnce

\* ... a rejected one never does, whatever was decided before and after ...
SerialRejectedMeansNotRun == serial => RejectedMeansNotRun

\* ... and a committed decision is never revised, by button or by chat.
SerialDecisionFinal ==
    [][serial => \A a \in Approvals : ap[a].status \in Decided => ap'[a].status = ap[a].status]_vars
=============================================================================
