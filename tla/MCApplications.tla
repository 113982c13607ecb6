--------------------------- MODULE MCApplications ---------------------------
(***************************************************************************)
(* For TLC: either no notification has a time, or there is one posting and *)
(* one mail, whose times are read and edited, and an event less.           *)
(***************************************************************************)
EXTENDS Applications

\* Bound: which tables are reached.
Untimed(d) == \A n \in MailEvents(d) : d.events[n].sched = 0 /\ d.events[n].deadline = 0
OneMail(d) == /\ Cardinality(DOMAIN d.jobs) <= 1 /\ Len(d.events) < MaxEvents
              /\ \A n, k \in MailEvents(d) : d.events[n].mail = d.events[k].mail

MCNext == Next /\ (Untimed(db') \/ OneMail(db'))
MCSpec == Init /\ [][MCNext]_vars
=============================================================================
