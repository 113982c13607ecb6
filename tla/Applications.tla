---------------------------- MODULE Applications ----------------------------
(***************************************************************************)
(* The application board (domains/applications/, api/v1/applications.py)   *)
(* and the tool that brings recruiting mail to it: applications, their     *)
(* timeline of events, mail candidates a user confirms or rejects, and     *)
(* mail that is synchronised without asking.  Requests are transactions    *)
(* (module Tables).  A mail stands for its Message-ID and event type; what *)
(* the model reads from it is free at every reading.  A name stands for    *)
(* the set of its words: it is found in the names that have them all.      *)
(***************************************************************************)
EXTENDS Tables, FiniteSetsExt, TLC

CONSTANTS Requests,    \* transactions in flight
          Mails,       \* (Message-ID, event type) pairs
          Companies, Titles,  \* their names
          Statuses,    \* application statuses
          MatchLimit,  \* rows list_for_mail_match returns
          MaxApps,     \* bound: applications
          MaxEvents,   \* bound: events
          Starts, Deadlines,  \* clock times a mail may name, 0 for none
          Offsets,     \* offsets from UTC that a time is written with
          Zones        \* offsets of the time zones a mail is read in

NoTitle == {}
None == "none"

ASSUME BoundsAssumption == {MatchLimit, MaxApps, MaxEvents} \cup Starts \cup Deadlines \subseteq Nat
ASSUME NoneAssumption == None \notin Mails /\ NoTitle \notin Titles
ASSUME ZonesAssumption ==
    /\ Offsets \cup Zones \subseteq Int
    /\ \A t \in (Starts \cup Deadlines) \ {0}, o \in Offsets, z \in Zones : t - o + z # 0

VARIABLES db,   \* the committed tables: jobs, apps, events
          tx    \* per request: what it read

vars == <<db, tx>>

Empty == [jobs |-> <<>>, apps |-> <<>>, events |-> <<>>]
Idle == [open |-> FALSE, db |-> Empty]

Init == db = Empty /\ tx = [r \in Requests |-> Idle]

----------------------------------------------------------------------------
(* Transactions.                                                           *)

Begin(r) == ~tx[r].open /\ tx' = [tx EXCEPT ![r] = [open |-> TRUE, db |-> db]] /\ UNCHANGED db

RollBack(r) == tx[r].open /\ tx' = [tx EXCEPT ![r] = Idle] /\ UNCHANGED db

Merged(old, new) == [jobs   |-> Rows(db.jobs, old.jobs, new.jobs),
                     apps   |-> NumberedRows(db.apps, old.apps, new.apps),
                     events |-> NumberedRows(db.events, old.events, new.events)]

\* uq_application_events_mail_source.
MailKeysUnique(d) ==
    \A n \in 1 .. Len(d.events) : d.events[n].kind = "mail" =>
        \A m \in 1 .. n - 1 : <<d.events[m].kind, d.events[m].app, d.events[m].mail>>
                               # <<"mail", d.events[n].app, d.events[n].mail>>

Commit(r, new) ==
    /\ KeysFree(db.jobs, tx[r].db.jobs, new.jobs)
    /\ Len(db.apps) + Len(new.apps) - Len(tx[r].db.apps) <= MaxApps
    /\ Len(db.events) + Len(new.events) - Len(tx[r].db.events) <= MaxEvents
    /\ LET merged == Merged(tx[r].db, new) IN MailKeysUnique(merged) /\ db' = merged
    /\ tx' = [tx EXCEPT ![r] = Idle]

NewApp == Len(db.apps) + 1       \* the id of the application a request adds

----------------------------------------------------------------------------
(* The service.                                                            *)

\* cause: the mail that made the change, known to the model only.
StatusEvent(app, kind, from, to, cause) ==
    [app |-> app, kind |-> kind, from |-> from, to |-> to, mail |-> cause,
     review |-> None, target |-> None, sched |-> 0, deadline |-> 0]

MailEvent(app, mail, review, target, sched, deadline) ==
    [app |-> app, kind |-> "mail", from |-> None, to |-> None, mail |-> mail,
     review |-> review, target |-> target, sched |-> sched, deadline |-> deadline]

\* create_application.
Created(v, job, status, cause) ==
    [v EXCEPT !.apps = Append(@, [job |-> job, status |-> status]),
              !.events = Append(@, StatusEvent(NewApp, "created", None, status, cause))]

\* Mutant: a change that a mail makes is not put on the timeline.
UpdatedByUser(v, a, to, cause) ==
    LET app == v.apps[a]
        e == IF to \in {None, app.status}
             THEN StatusEvent(a, "updated", app.status, app.status, cause)
             ELSE StatusEvent(a, "status", app.status, to, cause)
        w == [v EXCEPT !.apps[a].status = IF to = None THEN @ ELSE to]
    IN IF cause # None THEN w ELSE [w EXCEPT !.events = Append(@, e)]

\* update_application with a status, or with other fields only.
Updated(v, a, to, cause) ==
    LET app == v.apps[a]
        e == IF to \in {None, app.status}
             THEN StatusEvent(a, "updated", app.status, app.status, cause)
             ELSE StatusEvent(a, "status", app.status, to, cause)
    IN [v EXCEPT !.apps[a].status = IF to = None THEN @ ELSE to, !.events = Append(@, e)]

\* A time without an offset, as the DateTime columns keep it: they drop it.
Naive(clock) == [clock |-> clock, aware |-> FALSE, offset |-> 0]

\* A time as it is written: a clock time, aware of its offset or not.
Written(clocks) == {Naive(c) : c \in clocks}
                       \cup [clock : clocks \ {0}, aware : {TRUE}, offset : Offsets]

\* _validate_notification_times: instants are compared, or clock times; one of
\* each raises.
ValidTimes(s, d) ==
    s.clock # 0 /\ d.clock # 0 => s.aware = d.aware /\ d.clock - d.offset >= s.clock - s.offset

\* _normalize_mail_datetime: the clock time in the zone.
InZone(t, zone) == IF t.aware THEN t.clock - t.offset + zone ELSE t.clock

\* import_job, by (source, source_job_id).
ImportJob(v, ident) ==
    IF ident \in DOMAIN v.jobs THEN v
    ELSE [v EXCEPT !.jobs = [i \in DOMAIN @ \cup {ident} |->
             IF i = ident THEN [source |-> i[1], company |-> i[2], title |-> i[3]] ELSE @[i]]]

\* list_by_job: the newest first.
OfJob(v, ident) == {a \in 1 .. Len(v.apps) : v.apps[a].job = ident}

Move(v, a, to, cause) == IF v.apps[a].status = to THEN v ELSE Updated(v, a, to, cause)

----------------------------------------------------------------------------
(* The board.                                                              *)

\* POST /applications, for any job; there may be one already.
CreateApplication(r) ==
    /\ tx[r].open
    /\ \E j \in DOMAIN tx[r].db.jobs, st \in Statuses : Commit(r, Created(tx[r].db, j, st, None))

\* POST /applications/from-job.
FromJob(r) ==
    /\ tx[r].open
    /\ \E c \in Companies, t \in Titles, st \in Statuses :
         LET ident == <<"board", c, t>>
             v == ImportJob(tx[r].db, ident)
         IN Commit(r, IF OfJob(v, ident) # {} THEN v ELSE Created(v, ident, st, None))

\* PATCH /applications/{id}.
UpdateApplication(r) ==
    /\ tx[r].open
    /\ \E a \in 1 .. Len(tx[r].db.apps), to \in Statuses \cup {None} :
         Commit(r, Updated(tx[r].db, a, to, None))

----------------------------------------------------------------------------
(* Candidates.                                                             *)

MailEvents(v) == {n \in 1 .. Len(v.events) : v.events[n].kind = "mail"}

\* create_mail_notification_candidate: the event of that application, mail and
\* type is returned as it is.
CreateCandidate(r) ==
    /\ tx[r].open
    /\ \E a \in 1 .. Len(tx[r].db.apps), m \in Mails :
         LET v == tx[r].db
         IN IF \E n \in MailEvents(v) : v.events[n].app = a /\ v.events[n].mail = m
            THEN Commit(r, v)
            ELSE \E to \in Statuses \cup {None}, s \in Written(Starts), d \in Written(Deadlines) :
                 /\ ValidTimes(s, d)
                 /\ Commit(r, [v EXCEPT !.events = Append(@, MailEvent(a, m, "pending", to, s.clock, d.clock))])

\* update_mail_notification_candidate: what is sent replaces, and is compared
\* with what is stored.
UpdateCandidate(r) ==
    /\ tx[r].open
    /\ \E n \in MailEvents(tx[r].db) : LET e == tx[r].db.events[n] IN
         \E to \in Statuses \cup {None}, s \in Written(Starts) \cup {Naive(e.sched)},
            d \in Written(Deadlines) \cup {Naive(e.deadline)} :
              /\ e.review = "pending"
              /\ ValidTimes(s, d)
              /\ Commit(r, [tx[r].db EXCEPT !.events[n] = [@ EXCEPT !.target = to, !.sched = s.clock,
                                                                       !.deadline = d.clock]])

\* Mutant: a candidate that was decided can be decided again.
AnyMailEvent(e) == TRUE

\* _candidate_for_action.
ForAction(e) == e.review \in {"pending", "confirmed"}

RejectCandidate(r) ==
    /\ tx[r].open
    /\ \E n \in MailEvents(tx[r].db) :
         /\ ForAction(tx[r].db.events[n]) /\ tx[r].db.events[n].review # "confirmed"
         /\ Commit(r, [tx[r].db EXCEPT !.events[n].review = "rejected"])

\* Mutant: a second confirmation is carried out again.
ConfirmAgain(r) ==
    /\ tx[r].open
    /\ \E n \in MailEvents(tx[r].db), chosen \in Statuses \cup {None} :
         LET e == tx[r].db.events[n]
             to == IF chosen # None THEN chosen ELSE e.target
             w == [tx[r].db EXCEPT !.events[n].review = "confirmed"]
         IN ForAction(e) /\ Commit(r, IF to = None THEN w ELSE Move(w, e.app, to, e.mail))

\* confirm_mail_notification_candidate, with a status of the user's or the one
\* the mail was read as.
ConfirmCandidate(r) ==
    /\ tx[r].open
    /\ \E n \in MailEvents(tx[r].db), chosen \in Statuses \cup {None} :
         LET v == tx[r].db
             e == v.events[n]
             to == IF chosen # None THEN chosen ELSE e.target
             w == [v EXCEPT !.events[n].review = "confirmed"]
         IN /\ ForAction(e)
            /\ Commit(r, IF e.review = "confirmed" THEN v
                         ELSE IF to = None THEN w ELSE Move(w, e.app, to, e.mail))

----------------------------------------------------------------------------
(* Mail synchronisation.                                                   *)

\* list_for_mail_match: the applications whose company or title has the name,
\* of these MatchLimit, the latest change first; the order of the changes is
\* left open.
Matching(v, company, title) ==
    {a \in 1 .. Len(v.apps) : LET job == v.jobs[v.apps[a].job] IN
        company \subseteq job.company \/ (title # NoTitle /\ title \subseteq job.title)}

Listed(v, company, title) ==
    LET found == Matching(v, company, title)
    IN kSubset(Min({MatchLimit, Cardinality(found)}), found)

\* Mutant: an application is looked up among those that came from mail only.
MailJobsOnly(v, listed, company, title) ==
    {a \in listed : v.jobs[v.apps[a].job] = [source |-> "qq_mail", company |-> company, title |-> title]}

\* _find_exact_mail_application: by title, else any that came from mail.
Exact(v, listed, company, title) ==
    {a \in listed : LET job == v.jobs[v.apps[a].job] IN
        /\ job.company = company
        /\ IF title = NoTitle THEN job.source = "qq_mail" ELSE job.title = title}

\* _enrich_existing_mail_event_timing: explicit times replace, a relative
\* deadline fills a gap.
Enriched(e, s, d, relative) ==
    [e EXCEPT !.sched = IF s # 0 THEN s ELSE @,
              !.deadline = IF d # 0 THEN d ELSE IF @ = 0 THEN relative ELSE @]

\* get_by_mail_source_identity.
Seen(v, m) == {n \in MailEvents(v) : v.events[n].mail = m}

\* Mutant: the times of the mail are compared, and not what becomes of those stored.
SyncSeenUnchecked(r) ==
    /\ tx[r].open
    /\ \E m \in Mails, zone \in Zones, start \in Written(Starts), end \in Written(Deadlines),
          relative \in Deadlines : \E n \in Seen(tx[r].db, m) :
         LET s == InZone(start, zone)
             d == InZone(end, zone)
         IN /\ ValidTimes(Naive(s), Naive(d))
            /\ Commit(r, [tx[r].db EXCEPT !.events[n] = Enriched(@, s, d, relative)])

\* sync_mail_application of a mail seen before; a reading without times changes
\* nothing.
SyncSeenMail(r) ==
    /\ tx[r].open
    /\ \E m \in Mails, zone \in Zones, start \in Written(Starts), end \in Written(Deadlines),
          relative \in Deadlines : \E n \in Seen(tx[r].db, m) :
         LET s == InZone(start, zone)
             d == InZone(end, zone)
             e == Enriched(tx[r].db.events[n], s, d, relative)
         IN /\ e = tx[r].db.events[n] \/ ValidTimes(Naive(e.sched), Naive(e.deadline))
            /\ Commit(r, [tx[r].db EXCEPT !.events[n] = e])

\* The application of a mail, found or created: its number and the tables.
Placed(v, listed, company, title, to, m) ==
    LET ident == <<"qq_mail", company, title>>
        w == ImportJob(v, ident)
        of == OfJob(w, ident)
        exact == Exact(v, listed, company, title)
    IN IF exact # {} THEN {<<a, v>> : a \in exact}
       ELSE IF of # {} THEN {<<Max(of), w>>}
       ELSE {<<NewApp, Created(w, ident, to, m)>>}

\* The tables once mail m, placed at p, is applied: the status it was read as is
\* the status of the application, whatever it was.  (The event notes the status
\* too, which is read of candidates only.)
Applied(p, m, to, s, d) ==
    LET w == IF p[1] = NewApp THEN p[2] ELSE Move(p[2], p[1], to, m)
    IN [w EXCEPT !.events = Append(@, MailEvent(p[1], m, "synced", None, s, d))]

\* sync_mail_application of a new mail.
SyncNewMail(r) ==
    /\ tx[r].open
    /\ \E m \in Mails, c \in Companies, title \in Titles \cup {NoTitle}, to \in Statuses,
          zone \in Zones, start \in Written(Starts), end \in Written(Deadlines) :
         LET s == InZone(start, zone)
             d == InZone(end, zone)
         IN /\ Seen(tx[r].db, m) = {} /\ ValidTimes(Naive(s), Naive(d))
            /\ \E listed \in Listed(tx[r].db, c, title) :
               \E p \in Placed(tx[r].db, listed, c, title, to, m) : Commit(r, Applied(p, m, to, s, d))

\* The tool applications.sync_mail_application, which commits by itself and rolls
\* back on any exception.
SyncMailApplication(r) == SyncSeenMail(r) \/ SyncNewMail(r)

----------------------------------------------------------------------------
Next == \E r \in Requests :
            \/ Begin(r) \/ RollBack(r)
            \/ CreateApplication(r) \/ FromJob(r) \/ UpdateApplication(r)
            \/ CreateCandidate(r) \/ UpdateCandidate(r) \/ RejectCandidate(r) \/ ConfirmCandidate(r)
            \/ SyncMailApplication(r)

Spec == Init /\ [][Next]_vars

Symmetry == Permutations(Mails)

----------------------------------------------------------------------------
(* Properties.                                                             *)

\* Requests come one at a time.
Alone == \A q, r \in Requests : tx[q].open /\ tx[r].open => q = r

\* The status changes of application a, as their places on the timeline.
Changes(a) == {n \in 1 .. Len(db.events) : db.events[n].app = a /\ db.events[n].kind \in {"created", "status"}}

\* The timeline explains the status: it begins with the creation, every change
\* starts from the status the one before it left, and the board shows the last
\* (service.py, create_application and update_application).
TimelineTellsStatus ==
    \A a \in 1 .. Len(db.apps) :
        /\ \E last \in Changes(a) : /\ \A n \in Changes(a) : n <= last
                                   /\ db.events[last].to = db.apps[a].status
        /\ \A n \in Changes(a) :
              \/ db.events[n].kind = "created" /\ \A m \in Changes(a) : n <= m
              \/ /\ db.events[n].kind = "status"
                 /\ \E before \in Changes(a) : /\ before < n /\ db.events[n].from = db.events[before].to
                                              /\ \A m \in Changes(a) : m < n => m <= before

\* What mail m did to application a.
Effects(a, m) == {n \in Changes(a) : db.events[n].mail = m}

\* A mail moves an application once, be it synchronised, read again, staged as a
\* candidate and confirmed, in any order (service.py, the dedup by Message-ID).
MailAppliedOnce == \A a \in 1 .. Len(db.apps), m \in Mails : \A n, k \in Effects(a, m) : n = k

\* What the user rejected never moves the application, also when the mail is
\* synchronised before or after.
RejectedNeverApplied ==
    \A n \in MailEvents(db) : db.events[n].review = "rejected" =>
        Effects(db.events[n].app, db.events[n].mail) = {}

\* The deadline of a notification that was synchronised is not before its
\* start, however its times were written and filled in from later readings
\* (_resolve_mail_timing; the candidates are compared before the columns drop
\* the offsets, and may be stored the other way round).
TimesOrdered ==
    \A n \in MailEvents(db) : LET e == db.events[n] IN
        e.review = "synced" /\ e.sched # 0 /\ e.deadline # 0 => e.deadline >= e.sched

\* Mail adds no second application for a posting that has one, as long as the
\* lookup lists all that its names are found in, those of other companies too.
MailJoinsApplication ==
    [][\A n \in Len(db.events) + 1 .. Len(db'.events) :
         LET e   == db'.events[n]
             job == db'.apps[e.app].job
         IN e.kind = "created" /\ e.mail # None
                /\ Cardinality(Matching(db, job[2], job[3])) <= MatchLimit =>
              \A b \in 1 .. Len(db.apps) : <<db.apps[b].job[2], db.apps[b].job[3]>> # <<job[2], job[3]>>]_vars

=============================================================================
