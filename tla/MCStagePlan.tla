----------------------------- MODULE MCStagePlan ----------------------------
(* Turns that call nothing, fail in one stage, answer two or leave one      *)
(* running, with and without stages of their own.                           *)
EXTENDS StagePlan

Call(tool, status) == [tool |-> tool, status |-> status]

MCOutcomes ==
    {[logs |-> <<>>, history |-> {}],
     [logs |-> <<>>, history |-> {2, 4, 5}],
     [logs |-> <<Call("database", "failed"), Call("other", "succeeded")>>, history |-> {}],
     [logs |-> <<Call("database", "succeeded"), Call("external", "blocked")>>, history |-> {3, 4}],
     [logs |-> <<Call("external", "succeeded"), Call("external", "running")>>, history |-> {2}]}
=============================================================================
