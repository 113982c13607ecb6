---------------------------- MODULE JobDiscovery ----------------------------
(***************************************************************************)
(* Job sources, their synchronisation and the leads it finds, up to the    *)
(* formal job (domains/jobs/, workflows/job_discovery.py, the API of       *)
(* job_sources.py and jobs.py, the scheduled job of the worker).  A        *)
(* request is one transaction: it reads the tables as they were when it    *)
(* began, and its commit writes the columns it changed and inserts its     *)
(* rows, or fails as a whole on a unique key.  The providers, the model    *)
(* that extracts leads and the pages that are verified are external.       *)
(***************************************************************************)
EXTENDS Tables, SequencesExt

CONSTANTS Requests,    \* transactions in flight
          Ids, Names,  \* sources and their names
          Kinds,       \* kinds of source of the instance
          OfferioName, \* OFFERIO_COMPANY_JOBS_SOURCE_NAME
          MaxItems,    \* bound: entries a provider returns
          Statuses,    \* lead statuses a reviewer sets
          MaxCommits   \* bound: transactions that commit

ASSUME NamesAssumption == OfferioName \in Names
ASSUME KindsAssumption == Kinds \subseteq {"university", "wechat", "official", "other"}
ASSUME StatusesAssumption ==
    Statuses \subseteq {"unverified", "pending_review", "verified", "converted", "expired", "invalid"}
ASSUME BoundsAssumption == MaxItems \in Nat /\ MaxCommits \in Nat

Items == 1 .. MaxItems
NoJob == 0

VARIABLES db,       \* the committed tables
          due,      \* sources whose sync interval has passed
          tx,       \* per request: what it read
          commits   \* transactions that committed so far

vars == <<db, due, tx, commits>>

\* The tables: sources, sync runs, raw leads and article candidates, leads,
\* recruiting signals, companies, jobs by (source, source_job_id).
Empty == [src |-> <<>>, runs |-> <<>>, docs |-> <<>>, leads |-> <<>>, sigs |-> <<>>,
          companies |-> <<>>, jobs |-> <<>>]

Idle == [open |-> FALSE, db |-> Empty, due |-> {}]

\* One source, its first sync still to come.
Init == /\ \E i \in Ids, n \in Names, k \in Kinds :
              /\ db = [Empty EXCEPT !.src = Inserted(@, {i}, [name |-> n, kind |-> k, enabled |-> TRUE])]
              /\ due = {i}
        /\ tx = [r \in Requests |-> Idle]
        /\ commits = 0

----------------------------------------------------------------------------
(* A transaction over the tables.                                          *)

\* The tables after the transaction; the run rows have ids of their own.
Merged(cur, old, new) ==
    [t \in DOMAIN cur |-> IF t = "runs" THEN NumberedRows(cur.runs, old.runs, new.runs)
                          ELSE Rows(cur[t], old[t], new[t])]

NamesUnique(d) == \A i, j \in DOMAIN d.src : d.src[i].name = d.src[j].name => i = j

\* The request reads.
Begin(r) ==
    /\ ~tx[r].open /\ commits < MaxCommits
    /\ tx' = [tx EXCEPT ![r] = [open |-> TRUE, db |-> db, due |-> due]]
    /\ UNCHANGED <<db, due, commits>>

Open(r) == tx[r].open

\* session.commit(), after which the sources in synced carry a new last_synced_at.
Commit(r, new, synced) ==
    /\ commits < MaxCommits
    /\ \A t \in DOMAIN db \ {"runs"} : KeysFree(db[t], tx[r].db[t], new[t])
    /\ NamesUnique(Merged(db, tx[r].db, new))
    /\ db' = Merged(db, tx[r].db, new)
    /\ due' = due \ synced
    /\ tx' = [tx EXCEPT ![r] = Idle]
    /\ commits' = commits + 1

\* No commit: the request answers 4xx or 502, a flush met a unique key (the
\* session refuses every later statement), or its process dies.
RollBack(r) == /\ Open(r)
               /\ tx' = [tx EXCEPT ![r] = Idle]
               /\ UNCHANGED <<db, due, commits>>

View(r) == tx[r].db
RunId(r) == Len(db.runs) + 1       \* the first run row the transaction adds

----------------------------------------------------------------------------
(* Sources.                                                                *)

\* create_source: a disabled source of that name comes back as drafted, an
\* enabled one is returned as it is.
CreateSource(r) ==
    /\ Open(r)
    /\ \E n \in Names, k \in Kinds :
         LET v == View(r)
             row == [name |-> n, kind |-> k, enabled |-> TRUE]
             same == {i \in DOMAIN v.src : v.src[i].name = n}
         IN \/ \E i \in Ids \ DOMAIN db.src :
                 /\ same = {}
                 /\ Commit(r, [v EXCEPT !.src = Inserted(@, {i}, row)], {})
            \/ \E i \in same :
                 Commit(r, IF v.src[i].enabled THEN v ELSE [v EXCEPT !.src[i] = row], {})

\* update_source: refused when another source has the name.
UpdateSource(r) ==
    /\ Open(r)
    /\ \E i \in DOMAIN View(r).src, n \in Names, k \in Kinds, on \in BOOLEAN :
         /\ \A j \in DOMAIN View(r).src : View(r).src[j].name = n => j = i
         /\ Commit(r, [View(r) EXCEPT !.src[i] = [name |-> n, kind |-> k, enabled |-> on]], {})

DisableSource(r) ==
    /\ Open(r)
    /\ \E i \in DOMAIN View(r).src : Commit(r, [View(r) EXCEPT !.src[i].enabled = FALSE], {})

\* The sync interval of a source passes.
IntervalPasses == /\ \E i \in DOMAIN db.src \ due : due' = due \cup {i}
                  /\ UNCHANGED <<db, tx, commits>>

----------------------------------------------------------------------------
(* What a sync writes.                                                     *)

\* capture_raw_lead, capture_article_candidate: the row of that content hash,
\* or URL, keeps the run that found it first.
Captured(v, table, s, i, run) ==
    [v EXCEPT !.docs = Inserted(@, {<<table, s, i>>}, [run |-> run, extracted |-> FALSE])]

\* create_lead for every draft: a lead with that hash is left as it is.
LeadsCreated(v, s, hashes) ==
    [v EXCEPT !.leads = Inserted(@, {s} \X hashes, [status |-> "unverified", job |-> NoJob])]

MarkExtracted(v, s, i) == [v EXCEPT !.docs[<<"raw", s, i>>].extracted = TRUE]

\* The extraction of an entry raised.
Fails == {0}

\* One entry of a career site, and the hashes of the leads extracted from it.
Entry(v, s, i, run, found) ==
    LET c == Captured(v, "raw", s, i, run)
    IN IF found = Fails THEN c ELSE MarkExtracted(LeadsCreated(c, s, found), s, i)

\* One article of a WeChat account: the candidate, then the signal of its
\* title, when there is one.
Article(v, s, i, run, found) ==
    CASE found = "unread"           -> v
      [] found \in {"fails", "silent"} -> Captured(v, "article", s, i, run)
      [] OTHER ->
           LET c == Captured(v, "article", s, i, run)
           IN [c EXCEPT !.sigs = Inserted(@, {<<s, i>>}, [run |-> run])]

\* The run of source s: start_sync_run, and finish_sync_run unless the run is
\* left "running".  It read these entries, of which the titles in silent name
\* no employer or no year.
Recorded(v, s, status, entries, silent) ==
    [v EXCEPT !.runs = Append(@, [src |-> s, status |-> status, entries |-> entries, silent |-> silent])]

\* Mutant: the status of the run does not look at the entries.
AlwaysSucceeded(bad) == "succeeded"

RunStatus(bad) == IF bad = {} THEN "succeeded" ELSE "partial"

\* The loop over n entries of a career site, or over the items of OfferIO.
EntriesStored(v, s, run, n, found) ==
    LET Step[k \in 0 .. n] == IF k = 0 THEN v ELSE Entry(Step[k - 1], s, k, run, found[k])
    IN Step[n]

\* The loop over n articles of a WeChat account.
ArticlesStored(v, s, run, n, found) ==
    LET Step[k \in 0 .. n] == IF k = 0 THEN v ELSE Article(Step[k - 1], s, k, run, found[k])
    IN Step[n]

\* run_university_career_source_sync after a fetch of n entries.
UniversitySync(v, s, run, n, found) ==
    Recorded(EntriesStored(v, s, run, n, found), s, RunStatus({k \in 1 .. n : found[k] = Fails}), 1 .. n, {})

\* run_wechat_account_source_sync.
WeChatSync(v, s, run, n, found) ==
    Recorded(ArticlesStored(v, s, run, n, found), s,
             RunStatus({k \in 1 .. n : found[k] \in {"unread", "fails"}}), 1 .. n,
             {k \in 1 .. n : found[k] = "silent"})

\* run_offerio_official_api_source_sync: every item is a lead; an exception at
\* item n + 1, or at the fetch, leaves what was stored and a failed run.
OfficialSync(v, s, run, n, fails) ==
    LET stored == EntriesStored(v, s, run, n, [k \in 1 .. n |-> {k}])
    IN IF fails THEN Recorded(stored, s, "failed", {}, {}) ELSE Recorded(stored, s, "succeeded", 1 .. n, {})

FetchFailed(v, s) == Recorded(v, s, "failed", {}, {})

\* What the model makes of each of n entries: nothing usable raises, items that
\* do not validate are left out.
Extractions(n) == [1 .. n -> {Fails} \cup SUBSET Items]

\* What becomes of each of n articles: the candidate cannot be stored, the
\* signal cannot, the title gives none, or it is stored.
Readings(n) == [1 .. n -> {"unread", "fails", "silent", "signal"}]

\* How many entries a provider returns: a career site's announcements, the
\* articles found for a WeChat account, the openings of OfferIO.
CareerEntries == 0 .. MaxItems
Articles == 0 .. MaxItems
Openings == 0 .. MaxItems

\* The outcomes of a sync of source s that reads view v.
SyncOutcomes(v, s, run) ==
    CASE v.src[s].kind = "wechat" ->
           {FetchFailed(v, s)} \cup
           UNION {{WeChatSync(v, s, run, n, f) : f \in Readings(n)} : n \in Articles}
      [] v.src[s].kind = "official" ->
           {OfficialSync(v, s, run, n, b) : n \in Openings, b \in BOOLEAN}
      [] OTHER ->
           {FetchFailed(v, s)} \cup
           UNION {{UniversitySync(v, s, run, n, f) : f \in Extractions(n)} : n \in CareerEntries}

\* sync_job_source; a source without an entry URL, or an OfferIO source of
\* another URL, answers without a commit or with a failed run.
SyncSource(r) ==
    /\ Open(r)
    /\ \E s \in DOMAIN View(r).src : \E new \in SyncOutcomes(View(r), s, RunId(r)) : Commit(r, new, {s})

\* _get_or_create_offerio_company_jobs_source: the source of that name, else an
\* official one, the enabled first, else a new one; one that is found is turned
\* into an enabled OfferIO source.  The source and the tables with it.
OfferioSource(v) ==
    LET named    == {i \in DOMAIN v.src : v.src[i].name = OfferioName}
        official == {i \in DOMAIN v.src : v.src[i].kind = "official"}
        enabled  == {i \in official : v.src[i].enabled}
        row      == [name |-> OfferioName, kind |-> "official", enabled |-> TRUE]
    IN  IF named \cup official = {}
        THEN {<<i, [v EXCEPT !.src = Inserted(@, {i}, row)]>> : i \in Ids \ DOMAIN db.src}
        ELSE {<<i, [v EXCEPT !.src[i].kind = "official", !.src[i].enabled = TRUE]>> :
                 i \in IF named # {} THEN named ELSE IF enabled # {} THEN enabled ELSE official}

\* The tool offerio.sync_company_jobs, committed with the turn that called it.
SyncOfferio(r) ==
    /\ Open(r)
    /\ \E found \in OfferioSource(View(r)), n \in Openings, fails \in BOOLEAN :
         Commit(r, OfficialSync(found[2], found[1], RunId(r), n, fails), {found[1]})

\* list_due_sources.
DueSources(r) == {s \in tx[r].due : View(r).src[s].enabled}

\* _supports_public_university_sync: only a career site has a provider.
Supported(row) == row.kind = "university"

\* _record_unsupported_sync_run.
Unsupported(v, s) == Recorded(v, s, "failed", {}, {})

\* How the site of a source that is due does: an exception other than that of
\* the fetch, or of an extraction, ends the sync of this source and no more.
Sites == {"answers", "down", "raises", "no entry_url"}

\* One source that is due.
DueSync(v, s, run, n, found, site) ==
    IF ~Supported(v.src[s]) THEN Unsupported(v, s)
    ELSE CASE site = "answers" -> UniversitySync(v, s, run, n, found)
           [] site = "down"    -> FetchFailed(v, s)
           [] site = "raises"  -> Recorded(EntriesStored(v, s, run, n, found), s, "running", {}, {})
           [] OTHER            -> v

\* The next source in the loop that began with v: its run follows those there are.
NextDue(v, before, s, run, n, found, site) ==
    DueSync(before, s, run + Len(before.runs) - Len(v.runs), n, found, site[s])

\* run_due_job_source_syncs over the sources in q.
DueSyncs(v, q, run, n, found, site) ==
    LET Step[k \in 0 .. Len(q)] ==
            IF k = 0 THEN v ELSE NextDue(v, Step[k - 1], q[k], run, n, found, site)
    IN Step[Len(q)]

\* The sources of q that carry a new last_synced_at: those whose run ended.
Synced(v, q, site) == {s \in Range(q) : Supported(v.src[s]) => site[s] \in {"answers", "down"}}

\* run_scheduled_sync_once of the worker: all that is due, in one transaction.
SyncDueSources(r) ==
    /\ Open(r)
    /\ \E q \in SetToSeqs(DueSources(r)), n \in CareerEntries, site \in [DueSources(r) -> Sites] :
         \E f \in Extractions(n) :
            Commit(r, DueSyncs(View(r), q, RunId(r), n, f, site), Synced(View(r), q, site))

\* run_manual_social_lead_import behind /job-leads/extract; a failed extraction
\* commits nothing.
ExtractLeads(r) ==
    /\ Open(r)
    /\ \E s \in DOMAIN View(r).src, i \in Items, found \in SUBSET Items :
         Commit(r, Entry(View(r), s, i, 0, found), {})

\* POST /job-leads/raw and POST /job-leads.
CaptureRaw(r) ==
    /\ Open(r)
    /\ \E s \in DOMAIN View(r).src, i \in Items : Commit(r, Captured(View(r), "raw", s, i, 0), {})

CreateLead(r) ==
    /\ Open(r)
    /\ \E s \in DOMAIN View(r).src, h \in Items : Commit(r, LeadsCreated(View(r), s, {h}), {})

----------------------------------------------------------------------------
(* The pages of an official API.                                           *)

\* What OfferIO says of its n entries, of which it returns at most cap a page:
\* the number of pages, only their total, or neither.
\* A page without numbers counts as the only one, of as many entries as it has.
TotalPages(n, cap, size, told, got) ==
    LET pages == IF told = "pages" THEN (n + cap - 1) \div cap ELSE 1
        total == IF told = "none" THEN got ELSE n
        inferred == (total + size - 1) \div size
    IN IF total > size /\ pages < inferred THEN inferred ELSE pages

\* Mutant: a short page is taken for the last.
ShortPageEnds(n, cap, size, told, limit) ==
    LET per == IF cap < size THEN cap ELSE size
        F[p \in 1 .. n + 2] ==
            LET before == (p - 1) * per
                got == IF n <= before THEN 0 ELSE IF n - before < per THEN n - before ELSE per
            IN IF got = 0 THEN before
               ELSE IF before + got >= limit THEN limit
               ELSE IF got < size THEN before + got ELSE F[p + 1]
    IN F[1]

\* _fetch_offerio_pages: the number of entries collected.
FetchPages(n, cap, size, told, limit) ==
    LET per == IF cap < size THEN cap ELSE size
        F[p \in 1 .. n + 2] ==
            LET before == (p - 1) * per
                got == IF n <= before THEN 0 ELSE IF n - before < per THEN n - before ELSE per
            IN IF got = 0 THEN before
               ELSE IF before + got >= limit THEN limit
               ELSE IF p >= TotalPages(n, per, size, told, got) THEN before + got
               ELSE F[p + 1]
    IN F[1]

----------------------------------------------------------------------------
(* Leads and jobs.                                                         *)

Identity(k) == <<"job_lead", k[1], k[2]>>

\* import_job: by the identity in the source, else a new job of a known or a
\* new company.
ImportJob(v, ident, id) ==
    IF ident \in DOMAIN v.jobs THEN v
    ELSE [v EXCEPT !.companies = Inserted(@, {"company"}, [id |-> 1]),
                   !.jobs = Inserted(@, {ident}, [id |-> id])]

\* A job id nobody has: an imported row is the last one.
FreshJob == Cardinality(DOMAIN db.jobs) + 1

\* verify_lead.
VerifyLead(r) ==
    /\ Open(r)
    /\ \E k \in DOMAIN View(r).leads, st \in Statuses :
         Commit(r, [View(r) EXCEPT !.leads[k].status = st], {})

\* The tool database.job_lead_delete: a lead is only marked, also a converted one.
DeleteLead(r) ==
    /\ Open(r)
    /\ \E k \in DOMAIN View(r).leads : Commit(r, [View(r) EXCEPT !.leads[k].status = "invalid"], {})

\* Mutant: a lead that was verified again is imported as a new job.
ConvertedAfresh(v, k, id) ==
    LET new == ImportJob(v, <<"job_lead", k[1], k[2], id>>, id)
    IN [new EXCEPT !.leads[k] = [status |-> "converted", job |-> id]]

\* The end of convert_verified_lead_to_job.
Converted(v, k, id) ==
    LET new == ImportJob(v, Identity(k), id)
    IN [new EXCEPT !.leads[k] = [status |-> "converted", job |-> new.jobs[Identity(k)].id]]

\* convert_verified_lead_to_job behind /convert.
ConvertLead(r) ==
    /\ Open(r)
    /\ \E k \in DOMAIN View(r).leads :
         LET v == View(r)
             l == v.leads[k]
         IN \/ l.status = "converted" /\ l.job # NoJob /\ Commit(r, v, {})
            \/ l.status = "verified" /\ Commit(r, Converted(v, k, FreshJob), {})

\* verify_and_convert, while the page of the lead is open.  A closed page
\* raises after the status was set to expired: nothing is committed.
VerifyAndConvert(r) ==
    /\ Open(r)
    /\ \E k \in DOMAIN View(r).leads : Commit(r, Converted(View(r), k, FreshJob), {})

\* POST /jobs/sync: a provider's job.
SyncJobs(r) == Open(r) /\ Commit(r, ImportJob(View(r), <<"api">>, FreshJob), {})

----------------------------------------------------------------------------
Next == \/ IntervalPasses
        \/ \E r \in Requests :
             \/ Begin(r) \/ RollBack(r)
             \/ CreateSource(r) \/ UpdateSource(r) \/ DisableSource(r)
             \/ SyncSource(r) \/ SyncOfferio(r) \/ SyncDueSources(r)
             \/ ExtractLeads(r) \/ CaptureRaw(r) \/ CreateLead(r)
             \/ VerifyLead(r) \/ DeleteLead(r) \/ ConvertLead(r) \/ VerifyAndConvert(r) \/ SyncJobs(r)

Spec == Init /\ [][Next]_vars

Symmetry == Permutations(Requests) \cup Permutations(Ids)

----------------------------------------------------------------------------
(* Properties.                                                             *)

\* A run that succeeded left nothing half done: each of its entries is stored
\* and, where leads are extracted from it, extracted; each of its articles is
\* stored, with the signal of its title unless the title gave none; whoever
\* stored them first and whatever ran beside it (job_discovery.py, the end of
\* each sync).
SucceededRunIsComplete ==
    \A n \in 1 .. Len(db.runs) : LET run == db.runs[n] IN
        run.status = "succeeded" =>
            \A i \in run.entries : \/ /\ <<"raw", run.src, i>> \in DOMAIN db.docs
                                      /\ db.docs[<<"raw", run.src, i>>].extracted
                                   \/ /\ <<"article", run.src, i>> \in DOMAIN db.docs
                                      /\ i \in run.silent \/ <<run.src, i>> \in DOMAIN db.sigs

\* A lead that became a job stays that job, however often it is verified and
\* converted again, also by two requests at once.
JobOfLeadIsFinal ==
    [][\A k \in DOMAIN db.leads : db.leads[k].job # NoJob => db.leads'[k].job = db.leads[k].job]_vars

=============================================================================
