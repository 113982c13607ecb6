--------------------------- MODULE MCOuterSession ---------------------------
(***************************************************************************)
(* Two deployments in one instance: a server that handles one request at a *)
(* time, whose database takes every step id (SQLite) and whose turns are   *)
(* numbered onward, and one with overlapping requests on MySQL, where the  *)
(* step of a resume does not fit its column, an interrupted turn is never  *)
(* reissued, and turn numbers may come twice.                              *)
(***************************************************************************)
EXTENDS OuterSession, TLC

VARIABLE serial    \* which of the two

Reissues == \/ \E t \in Tasks : Resumes(t) > 0
            \/ \E r \in Requests : req[r].kind = "recovery"

\* Bound: overlapping requests share fewer tasks.
OverlapTasks == 2
Small == \A t \in Tasks : t > OverlapTasks =>
             tasks[t].status = "absent" /\ \A r \in Requests : req[r].mine.task # t

MCInit == Init /\ serial \in BOOLEAN
MCNext == /\ Next /\ UNCHANGED serial
          /\ IF serial THEN Serial' /\ Onward' ELSE FollowupsApart' /\ ~Reissues' /\ Small'
MCSpec == MCInit /\ [][MCNext]_<<vars, serial>>

\* RowsAgree of the server that handles one request at a time.
SerialRowsAgree == serial => RowsAgree

RequestSymmetry == Permutations(Requests)
=============================================================================
