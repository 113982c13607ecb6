---------------------------- MODULE ImportLedger ----------------------------
(***************************************************************************)
(* What the import endpoints promise a client that polls an import run:    *)
(* once accepted, a run is either worked on, waiting for the user, or      *)
(* settled; work on it comes to an end, waiting ends with a page the user  *)
(* supplies, and a settled run is never taken up again.  The number of     *)
(* tasks, their transactions and the circuit breaker are not visible here. *)
(***************************************************************************)
CONSTANT Runs

VARIABLE phase

Init == phase = [i \in Runs |-> "absent"]

Becomes(i, p) == phase' = [phase EXCEPT ![i] = p]

\* POST /import-url answers 202 with the run.
Accept(i) == /\ phase[i] = "absent"
             /\ \E p \in {"open", "asking", "settled"} : Becomes(i, p)

\* The background work on the run ends.
Settle(i) == /\ phase[i] = "open"
             /\ \E p \in {"asking", "settled"} : Becomes(i, p)

\* The user supplies the visible page.
Supply(i) == phase[i] = "asking" /\ Becomes(i, "settled")

Next == \E i \in Runs : Accept(i) \/ Settle(i) \/ Supply(i)

Spec == Init /\ [][Next]_phase

FairSpec == Spec /\ \A i \in Runs : WF_phase(Settle(i))
=============================================================================
