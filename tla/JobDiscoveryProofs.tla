------------------------- MODULE JobDiscoveryProofs -------------------------
(***************************************************************************)
(* Proofs about the job sources, their synchronisation and the leads, for  *)
(* any number of transactions in flight, sources and entries; and about    *)
(* the paging of an official API, for every service.                       *)
(***************************************************************************)
EXTENDS MCJobDiscovery, SequenceTheorems, FiniteSetTheorems, WellFoundedInduction, TLAPS

----------------------------------------------------------------------------
(* What is true of the tables, as committed and as a transaction has them. *)

RunRows == [src : Ids, status : {"succeeded", "partial", "failed", "running"},
            entries : SUBSET Nat, silent : SUBSET Nat]

Shaped(d) ==
    /\ d = [src |-> d.src, runs |-> d.runs, docs |-> d.docs, leads |-> d.leads, sigs |-> d.sigs,
            companies |-> d.companies, jobs |-> d.jobs]
    /\ DOMAIN d.src \subseteq Ids
    /\ d.runs \in Seq(RunRows)
    /\ \A x \in DOMAIN d.docs : /\ d.docs[x] = [run |-> d.docs[x].run, extracted |-> d.docs[x].extracted]
                                /\ d.docs[x].extracted \in BOOLEAN
    /\ \A k \in DOMAIN d.leads : d.leads[k] = [status |-> d.leads[k].status, job |-> d.leads[k].job]
    /\ \A j \in DOMAIN d.jobs : d.jobs[j] = [id |-> d.jobs[j].id]

\* Entry i of source s is stored and what was to be found in it is found: the
\* titles of silent give no signal.
EntryDone(d, s, i, silent) ==
    \/ /\ <<"raw", s, i>> \in DOMAIN d.docs
       /\ d.docs[<<"raw", s, i>>].extracted
    \/ /\ <<"article", s, i>> \in DOMAIN d.docs
       /\ i \in silent \/ <<s, i>> \in DOMAIN d.sigs

Complete(d) ==
    \A n \in 1 .. Len(d.runs) :
        d.runs[n].status = "succeeded" =>
            \A i \in d.runs[n].entries : EntryDone(d, d.runs[n].src, i, d.runs[n].silent)

\* The job of a lead is the job of the lead's identity.
Linked(d) ==
    \A k \in DOMAIN d.leads : d.leads[k].job # NoJob =>
        Identity(k) \in DOMAIN d.jobs /\ d.jobs[Identity(k)].id = d.leads[k].job

Sound(d) == Shaped(d) /\ Complete(d) /\ Linked(d)

\* What d has that v had: nothing is taken back.
Grown(v, d) ==
    /\ DOMAIN v.docs \subseteq DOMAIN d.docs
    /\ \A x \in DOMAIN v.docs : v.docs[x].extracted => d.docs[x].extracted
    /\ DOMAIN v.sigs \subseteq DOMAIN d.sigs
    /\ DOMAIN v.leads \subseteq DOMAIN d.leads
    /\ \A k \in DOMAIN v.leads : v.leads[k].job # NoJob => d.leads[k].job = v.leads[k].job
    /\ DOMAIN v.jobs \subseteq DOMAIN d.jobs
    /\ \A j \in DOMAIN v.jobs : d.jobs[j] = v.jobs[j]
    /\ Len(v.runs) <= Len(d.runs)
    /\ \A n \in 1 .. Len(v.runs) : d.runs[n] = v.runs[n]

\* What a transaction may make of the tables v.
Writes(v, d) == Sound(d) /\ Grown(v, d)

\* An entry that is done stays done.
LEMMA DoneKept ==
    ASSUME NEW v, NEW d, Grown(v, d), NEW s, NEW i, NEW silent, EntryDone(v, s, i, silent)
    PROVE  EntryDone(d, s, i, silent)
  BY DEF Grown, EntryDone

\* Growth composes.
LEMMA GrownOn ==
    ASSUME NEW u, NEW v, NEW w, Shaped(u), Shaped(v), Shaped(w), Grown(u, v), Grown(v, w)
    PROVE  Grown(u, w)
<1>1. Len(u.runs) \in Nat /\ Len(v.runs) \in Nat /\ Len(w.runs) \in Nat
  BY LenProperties DEF Shaped
<1>2. Len(u.runs) <= Len(w.runs) /\ \A n \in 1 .. Len(u.runs) : n \in 1 .. Len(v.runs)
  BY <1>1 DEF Grown
<1>3. \A n \in 1 .. Len(u.runs) : w.runs[n] = u.runs[n]
  BY <1>2 DEF Grown
<1> QED
  BY <1>2, <1>3 DEF Grown

LEMMA WritesOn ==
    ASSUME NEW u, NEW v, NEW w, Sound(u), Writes(u, v), Writes(v, w)
    PROVE  Writes(u, w)
  BY GrownOn DEF Writes, Sound

LEMMA WritesNothing ==
    ASSUME NEW v, Sound(v)
    PROVE  Writes(v, v)
<1>1. Len(v.runs) \in Nat
  BY LenProperties DEF Sound, Shaped
<1> QED
  BY <1>1 DEF Writes, Grown

\* Tables that keep their runs stay sound when they grow, their leads linked.
LEMMA SameRuns ==
    ASSUME NEW v, NEW d, Sound(v), Shaped(d), Grown(v, d), d.runs = v.runs, Linked(d)
    PROVE  Writes(v, d)
<1>1. Complete(d)
  BY DoneKept DEF Sound, Complete
<1> QED
  BY <1>1 DEF Writes, Sound

----------------------------------------------------------------------------
(* The operators a transaction is made of.                                 *)

LEMMA CapturedWrites ==
    ASSUME NEW v, Sound(v), NEW table, NEW s, NEW i, NEW run
    PROVE  LET d == Captured(v, table, s, i, run)
           IN  Writes(v, d) /\ d.runs = v.runs /\ <<table, s, i>> \in DOMAIN d.docs
<1> DEFINE row == [run |-> run, extracted |-> FALSE]
           d == Captured(v, table, s, i, run)
<1>1. /\ d = [src |-> v.src, runs |-> v.runs, docs |-> Inserted(v.docs, {<<table, s, i>>}, row),
              leads |-> v.leads, sigs |-> v.sigs, companies |-> v.companies, jobs |-> v.jobs]
  BY DEF Captured, Sound, Shaped
<1>2. /\ DOMAIN d.docs = DOMAIN v.docs \cup {<<table, s, i>>}
      /\ \A x \in DOMAIN v.docs : d.docs[x] = v.docs[x]
      /\ \A x \in DOMAIN d.docs \ DOMAIN v.docs : d.docs[x] = row
  BY <1>1 DEF Inserted
<1> HIDE DEF d
<1>a. /\ d.src = v.src /\ d.runs = v.runs /\ d.leads = v.leads /\ d.sigs = v.sigs /\ d.jobs = v.jobs
      /\ d = [src |-> d.src, runs |-> d.runs, docs |-> d.docs, leads |-> d.leads, sigs |-> d.sigs,
              companies |-> d.companies, jobs |-> d.jobs]
  BY <1>1
<1>3. Shaped(d)
  <2>1. \A x \in DOMAIN d.docs : /\ d.docs[x] = [run |-> d.docs[x].run, extracted |-> d.docs[x].extracted]
                                /\ d.docs[x].extracted \in BOOLEAN
    <3> SUFFICES ASSUME NEW x \in DOMAIN d.docs
                 PROVE  /\ d.docs[x] = [run |-> d.docs[x].run, extracted |-> d.docs[x].extracted]
                        /\ d.docs[x].extracted \in BOOLEAN
      OBVIOUS
    <3>1. CASE x \in DOMAIN v.docs /\ d.docs[x] = v.docs[x]
      BY <3>1 DEF Sound, Shaped
    <3>2. CASE d.docs[x] = row
      BY <3>2
    <3> QED
      BY <3>1, <3>2, <1>2
  <2> QED
    BY <1>a, <2>1 DEF Sound, Shaped
<1>4. Grown(v, d)
  <2>1. Len(v.runs) \in Nat
    BY LenProperties DEF Sound, Shaped
  <2> QED
    BY <1>a, <1>2, <2>1 DEF Grown
<1>5. Linked(d)
  BY <1>1 DEF Sound, Linked
<1>6. d.runs = v.runs /\ <<table, s, i>> \in DOMAIN d.docs
  BY <1>1, <1>2
<1>7. Writes(v, d)
  BY <1>3, <1>4, <1>5, <1>6, SameRuns
<1> QED
  BY <1>6, <1>7 DEF d

LEMMA LeadsWrites ==
    ASSUME NEW v, Sound(v), NEW s, NEW hashes
    PROVE  LET d == LeadsCreated(v, s, hashes)
           IN  Writes(v, d) /\ d.runs = v.runs /\ d.docs = v.docs
<1> DEFINE row == [status |-> "unverified", job |-> NoJob]
           d == LeadsCreated(v, s, hashes)
<1>1. /\ d = [src |-> v.src, runs |-> v.runs, docs |-> v.docs,
              leads |-> Inserted(v.leads, {s} \X hashes, row), sigs |-> v.sigs,
              companies |-> v.companies, jobs |-> v.jobs]
  BY DEF LeadsCreated, Sound, Shaped
<1>2. /\ DOMAIN v.leads \subseteq DOMAIN d.leads
      /\ \A k \in DOMAIN v.leads : d.leads[k] = v.leads[k]
      /\ \A k \in DOMAIN d.leads \ DOMAIN v.leads : d.leads[k] = row
  BY <1>1 DEF Inserted
<1> HIDE DEF d
<1>3. Shaped(d)
  <2>1. \A k \in DOMAIN d.leads : d.leads[k] = [status |-> d.leads[k].status, job |-> d.leads[k].job]
    BY <1>2 DEF Sound, Shaped
  <2> QED
    BY <1>1, <2>1 DEF Sound, Shaped
<1>a. d.runs = v.runs /\ d.docs = v.docs /\ d.sigs = v.sigs /\ d.jobs = v.jobs
  BY <1>1
<1>4. Grown(v, d)
  <2>1. Len(v.runs) \in Nat
    BY LenProperties DEF Sound, Shaped
  <2> QED
    BY <1>a, <1>2, <2>1 DEF Grown
<1>5. Linked(d)
  <2> SUFFICES ASSUME NEW k \in DOMAIN d.leads, d.leads[k].job # NoJob
               PROVE  Identity(k) \in DOMAIN d.jobs /\ d.jobs[Identity(k)].id = d.leads[k].job
    BY DEF Linked
  <2>1. k \in DOMAIN v.leads /\ d.leads[k] = v.leads[k]
    BY <1>2
  <2> QED
    BY <1>a, <2>1 DEF Sound, Linked
<1>6. d.runs = v.runs /\ d.docs = v.docs
  BY <1>1
<1>7. Writes(v, d)
  BY <1>3, <1>4, <1>5, <1>6, SameRuns
<1> QED
  BY <1>6, <1>7 DEF d

LEMMA MarkWrites ==
    ASSUME NEW v, Sound(v), NEW s, NEW i, <<"raw", s, i>> \in DOMAIN v.docs
    PROVE  LET d == MarkExtracted(v, s, i)
           IN  Writes(v, d) /\ d.runs = v.runs /\ EntryDone(d, s, i, {})
<1> DEFINE key == <<"raw", s, i>>
           d == MarkExtracted(v, s, i)
<1>1. d = [src |-> v.src, runs |-> v.runs, docs |-> [v.docs EXCEPT ![key].extracted = TRUE],
           leads |-> v.leads, sigs |-> v.sigs, companies |-> v.companies, jobs |-> v.jobs]
  <2>1. v = [src |-> v.src, runs |-> v.runs, docs |-> v.docs, leads |-> v.leads, sigs |-> v.sigs,
             companies |-> v.companies, jobs |-> v.jobs]
    BY DEF Sound, Shaped
  <2> QED
    BY <2>1 DEF MarkExtracted
<1>2. /\ DOMAIN d.docs = DOMAIN v.docs
      /\ d.docs[key] = [run |-> v.docs[key].run, extracted |-> TRUE]
      /\ \A x \in DOMAIN v.docs \ {key} : d.docs[x] = v.docs[x]
  <2>1. d.docs = [v.docs EXCEPT ![key].extracted = TRUE]
    BY <1>1
  <2>2. v.docs[key] = [run |-> v.docs[key].run, extracted |-> v.docs[key].extracted]
    BY DEF Sound, Shaped
  <2>3. d.docs[key] = [v.docs[key] EXCEPT !.extracted = TRUE]
    BY <2>1
  <2> QED
    BY <2>1, <2>2, <2>3
<1> HIDE DEF d
<1>a. /\ d.src = v.src /\ d.runs = v.runs /\ d.leads = v.leads /\ d.sigs = v.sigs /\ d.jobs = v.jobs
      /\ d = [src |-> d.src, runs |-> d.runs, docs |-> d.docs, leads |-> d.leads, sigs |-> d.sigs,
              companies |-> d.companies, jobs |-> d.jobs]
  BY <1>1
<1>3. Shaped(d)
  <2>1. \A x \in DOMAIN d.docs : /\ d.docs[x] = [run |-> d.docs[x].run, extracted |-> d.docs[x].extracted]
                                /\ d.docs[x].extracted \in BOOLEAN
    <3> SUFFICES ASSUME NEW x \in DOMAIN d.docs
                 PROVE  /\ d.docs[x] = [run |-> d.docs[x].run, extracted |-> d.docs[x].extracted]
                        /\ d.docs[x].extracted \in BOOLEAN
      OBVIOUS
    <3>1. CASE x \in DOMAIN v.docs /\ d.docs[x] = v.docs[x]
      BY <3>1 DEF Sound, Shaped
    <3>2. CASE x = key
      BY <3>2, <1>2
    <3> QED
      BY <3>1, <3>2, <1>2
  <2> QED
    BY <1>a, <2>1 DEF Sound, Shaped
<1>4. Grown(v, d)
  <2>1. Len(v.runs) \in Nat
    BY LenProperties DEF Sound, Shaped
  <2> QED
    BY <1>a, <1>2, <2>1 DEF Grown
<1>5. Linked(d)
  BY <1>1 DEF Sound, Linked
<1>6. d.runs = v.runs /\ EntryDone(d, s, i, {})
  BY <1>1, <1>2 DEF EntryDone
<1>7. Writes(v, d)
  BY <1>3, <1>4, <1>5, <1>6, SameRuns
<1> QED
  BY <1>6, <1>7 DEF d

\* One entry: what it was not possible to extract is stored all the same.
LEMMA EntryWrites ==
    ASSUME NEW v, Sound(v), NEW s, NEW i, NEW run, NEW found
    PROVE  LET d == Entry(v, s, i, run, found)
           IN  Writes(v, d) /\ d.runs = v.runs /\ (found # Fails => EntryDone(d, s, i, {}))
<1> DEFINE c == Captured(v, "raw", s, i, run)
           l == LeadsCreated(c, s, found)
           d == MarkExtracted(l, s, i)
<1>1. Writes(v, c) /\ c.runs = v.runs /\ <<"raw", s, i>> \in DOMAIN c.docs
  BY CapturedWrites
<1>2. Entry(v, s, i, run, found) = IF found = Fails THEN c ELSE d
  BY DEF Entry
<1> HIDE DEF c
<1>3. Sound(c)
  BY <1>1 DEF Writes
<1>4. Writes(c, l) /\ l.runs = c.runs /\ l.docs = c.docs
  BY <1>3, LeadsWrites
<1> HIDE DEF l
<1>5. Sound(l)
  BY <1>4 DEF Writes
<1>6. Writes(l, d) /\ d.runs = l.runs /\ EntryDone(d, s, i, {})
  BY <1>1, <1>4, <1>5, MarkWrites
<1> HIDE DEF d
<1>7. Writes(v, d)
  BY <1>1, <1>4, <1>6, <1>3, WritesOn
<1> QED
  BY <1>1, <1>2, <1>4, <1>6, <1>7

LEMMA ArticleWrites ==
    ASSUME NEW v, Sound(v), NEW s, NEW i, NEW run, NEW found, NEW silent,
           found = "silent" => i \in silent
    PROVE  LET d == Article(v, s, i, run, found)
           IN  /\ Writes(v, d) /\ d.runs = v.runs
               /\ found \notin {"unread", "fails"} => EntryDone(d, s, i, silent)
<1> DEFINE c == Captured(v, "article", s, i, run)
           row == [run |-> run]
           d == [c EXCEPT !.sigs = Inserted(@, {<<s, i>>}, row)]
<1>1. Writes(v, c) /\ c.runs = v.runs /\ <<"article", s, i>> \in DOMAIN c.docs
  BY CapturedWrites
<1>2. Article(v, s, i, run, found)
        = IF found = "unread" THEN v ELSE IF found \in {"fails", "silent"} THEN c ELSE d
  BY DEF Article
<1> HIDE DEF c
<1>3. Sound(c)
  BY <1>1 DEF Writes
<1>4. /\ d = [src |-> c.src, runs |-> c.runs, docs |-> c.docs, leads |-> c.leads,
              sigs |-> Inserted(c.sigs, {<<s, i>>}, row), companies |-> c.companies, jobs |-> c.jobs]
  BY <1>3 DEF Sound, Shaped
<1>5. /\ d.src = c.src /\ d.runs = c.runs /\ d.docs = c.docs /\ d.leads = c.leads /\ d.jobs = c.jobs
      /\ d = [src |-> d.src, runs |-> d.runs, docs |-> d.docs, leads |-> d.leads, sigs |-> d.sigs,
              companies |-> d.companies, jobs |-> d.jobs]
      /\ DOMAIN d.sigs = DOMAIN c.sigs \cup {<<s, i>>}
  BY <1>4 DEF Inserted
<1> HIDE DEF d
<1>6. Shaped(d)
  BY <1>3, <1>5 DEF Sound, Shaped
<1>7. Grown(c, d)
  <2>1. Len(c.runs) \in Nat
    BY <1>3, LenProperties DEF Sound, Shaped
  <2> QED
    BY <1>5, <2>1 DEF Grown
<1>8. Linked(d)
  BY <1>3, <1>5 DEF Sound, Linked
<1>9. Writes(c, d)
  BY <1>3, <1>5, <1>6, <1>7, <1>8, SameRuns
<1>10. Writes(v, d)
  BY <1>1, <1>9, WritesOn
<1>11. EntryDone(d, s, i, silent)
  BY <1>1, <1>5 DEF EntryDone
<1>12. found = "silent" => EntryDone(c, s, i, silent)
  BY <1>1 DEF EntryDone
<1> QED
  BY <1>1, <1>2, <1>5, <1>10, <1>11, <1>12, WritesNothing

\* A run that is finished as succeeded has all its entries done.
LEMMA RecordedWrites ==
    ASSUME NEW v, Sound(v), NEW s \in Ids, NEW status \in {"succeeded", "partial", "failed", "running"},
           NEW entries \in SUBSET Nat, NEW silent \in SUBSET Nat,
           status = "succeeded" => \A i \in entries : EntryDone(v, s, i, silent)
    PROVE  Writes(v, Recorded(v, s, status, entries, silent))
<1> DEFINE row == [src |-> s, status |-> status, entries |-> entries, silent |-> silent]
           d == Recorded(v, s, status, entries, silent)
<1>1. d = [src |-> v.src, runs |-> Append(v.runs, row), docs |-> v.docs, leads |-> v.leads,
           sigs |-> v.sigs, companies |-> v.companies, jobs |-> v.jobs]
  <2>1. v = [src |-> v.src, runs |-> v.runs, docs |-> v.docs, leads |-> v.leads, sigs |-> v.sigs,
             companies |-> v.companies, jobs |-> v.jobs]
    BY DEF Sound, Shaped
  <2>2. d = [v EXCEPT !.runs = Append(v.runs, row)]
    BY DEF Recorded
  <2> HIDE DEF row, d
  <2> QED
    BY <2>1, <2>2
<1>2. /\ d.src = v.src /\ d.docs = v.docs /\ d.leads = v.leads /\ d.sigs = v.sigs /\ d.jobs = v.jobs
      /\ d = [src |-> d.src, runs |-> d.runs, docs |-> d.docs, leads |-> d.leads, sigs |-> d.sigs,
              companies |-> d.companies, jobs |-> d.jobs]
      /\ d.runs = Append(v.runs, row)
  BY <1>1
<1> HIDE DEF d
<1>3. row \in RunRows /\ v.runs \in Seq(RunRows)
  BY DEF RunRows, Sound, Shaped
<1> HIDE DEF row
<1>4. /\ d.runs \in Seq(RunRows)
      /\ Len(v.runs) \in Nat /\ Len(d.runs) = Len(v.runs) + 1
      /\ \A n \in 1 .. Len(v.runs) : d.runs[n] = v.runs[n]
      /\ d.runs[Len(v.runs) + 1] = row
  BY <1>2, <1>3, AppendProperties, LenProperties
<1>5. Shaped(d)
  BY <1>2, <1>4 DEF Sound, Shaped
<1>6. Grown(v, d)
  BY <1>2, <1>4 DEF Grown
<1>7. Linked(d)
  BY <1>2 DEF Sound, Linked
<1>8. Complete(d)
  <2> SUFFICES ASSUME NEW n \in 1 .. Len(d.runs), d.runs[n].status = "succeeded",
                      NEW i \in d.runs[n].entries
               PROVE  EntryDone(d, d.runs[n].src, i, d.runs[n].silent)
    BY DEF Complete
  <2>1. CASE n \in 1 .. Len(v.runs)
    <3>1. EntryDone(v, d.runs[n].src, i, d.runs[n].silent)
      BY <2>1, <1>4 DEF Sound, Complete
    <3> QED
      BY <3>1, <1>6, DoneKept
  <2>2. CASE n = Len(v.runs) + 1
    <3>1. EntryDone(v, s, i, silent) /\ d.runs[n].src = s /\ d.runs[n].silent = silent
      BY <2>2, <1>4 DEF row
    <3> QED
      BY <3>1, <1>6, DoneKept
  <2> QED
    BY <2>1, <2>2, <1>4
<1>9. Writes(v, d)
  BY <1>5, <1>6, <1>7, <1>8 DEF Writes, Sound
<1> QED
  BY <1>9 DEF d

\* A job that is there keeps its id, and another one may come.
LEMMA ImportWrites ==
    ASSUME NEW v, Sound(v), NEW ident, NEW id
    PROVE  LET d == ImportJob(v, ident, id)
           IN  Writes(v, d) /\ d.runs = v.runs /\ d.leads = v.leads /\ ident \in DOMAIN d.jobs
<1> DEFINE row == [id |-> id]
           new == [v EXCEPT !.companies = Inserted(@, {"company"}, [id |-> 1]),
                            !.jobs = Inserted(@, {ident}, row)]
<1>1. ImportJob(v, ident, id) = IF ident \in DOMAIN v.jobs THEN v ELSE new
  BY DEF ImportJob
<1>2. new = [src |-> v.src, runs |-> v.runs, docs |-> v.docs, leads |-> v.leads, sigs |-> v.sigs,
             companies |-> Inserted(v.companies, {"company"}, [id |-> 1]),
             jobs |-> Inserted(v.jobs, {ident}, row)]
  <2>1. v = [src |-> v.src, runs |-> v.runs, docs |-> v.docs, leads |-> v.leads, sigs |-> v.sigs,
             companies |-> v.companies, jobs |-> v.jobs]
    BY DEF Sound, Shaped
  <2> DEFINE one == Inserted(v.companies, {"company"}, [id |-> 1])
             all == Inserted(v.jobs, {ident}, row)
             mid == [v EXCEPT !.companies = one]
  <2>2. new = [mid EXCEPT !.jobs = all]
    OBVIOUS
  <2> HIDE DEF one, all
  <2>3. mid = [src |-> v.src, runs |-> v.runs, docs |-> v.docs, leads |-> v.leads, sigs |-> v.sigs,
               companies |-> one, jobs |-> v.jobs]
    BY <2>1
  <2> HIDE DEF mid, new
  <2>4. new = [src |-> v.src, runs |-> v.runs, docs |-> v.docs, leads |-> v.leads, sigs |-> v.sigs,
               companies |-> one, jobs |-> all]
    BY <2>2, <2>3
  <2> QED
    BY <2>4 DEF one, all
<1>3. /\ new.src = v.src /\ new.runs = v.runs /\ new.docs = v.docs /\ new.leads = v.leads /\ new.sigs = v.sigs
      /\ new = [src |-> new.src, runs |-> new.runs, docs |-> new.docs, leads |-> new.leads,
                sigs |-> new.sigs, companies |-> new.companies, jobs |-> new.jobs]
      /\ new.jobs = Inserted(v.jobs, {ident}, row)
  BY <1>2
<1> HIDE DEF new
<1>4. /\ DOMAIN new.jobs = DOMAIN v.jobs \cup {ident}
      /\ \A j \in DOMAIN v.jobs : new.jobs[j] = v.jobs[j]
      /\ \A j \in DOMAIN new.jobs \ DOMAIN v.jobs : new.jobs[j] = row
  BY <1>3 DEF Inserted
<1>5. Shaped(new)
  <2>1. \A j \in DOMAIN new.jobs : new.jobs[j] = [id |-> new.jobs[j].id]
    BY <1>4 DEF Sound, Shaped
  <2> QED
    BY <1>3, <2>1 DEF Sound, Shaped
<1>6. Grown(v, new)
  <2>1. Len(v.runs) \in Nat
    BY LenProperties DEF Sound, Shaped
  <2>2. new.docs = v.docs /\ new.sigs = v.sigs /\ new.leads = v.leads /\ new.runs = v.runs
    BY <1>3
  <2> QED
    BY <1>4, <2>1, <2>2 DEF Grown
<1>7. Linked(new)
  BY <1>3, <1>4 DEF Sound, Linked
<1>8. Writes(v, new)
  BY <1>3, <1>5, <1>6, <1>7, SameRuns
<1> QED
  BY <1>1, <1>3, <1>4, <1>8, WritesNothing

\* A lead is set to a status, and linked to its identity's job or left as it is.
LEMMA LeadWrites ==
    ASSUME NEW v, Sound(v), NEW d, NEW k \in DOMAIN v.leads, NEW status, NEW job,
           d = [v EXCEPT !.leads[k] = [status |-> status, job |-> job]],
           \/ job = v.leads[k].job
           \/ Identity(k) \in DOMAIN v.jobs /\ v.jobs[Identity(k)].id = job
    PROVE  Writes(v, d)
<1> DEFINE row == [status |-> status, job |-> job]
<1>1. d = [src |-> v.src, runs |-> v.runs, docs |-> v.docs, leads |-> [v.leads EXCEPT ![k] = row],
           sigs |-> v.sigs, companies |-> v.companies, jobs |-> v.jobs]
  BY DEF Sound, Shaped
<1>2. /\ d.src = v.src /\ d.runs = v.runs /\ d.docs = v.docs /\ d.sigs = v.sigs /\ d.jobs = v.jobs
      /\ d = [src |-> d.src, runs |-> d.runs, docs |-> d.docs, leads |-> d.leads, sigs |-> d.sigs,
              companies |-> d.companies, jobs |-> d.jobs]
      /\ DOMAIN d.leads = DOMAIN v.leads /\ d.leads[k] = row
      /\ \A q \in DOMAIN v.leads \ {k} : d.leads[q] = v.leads[q]
  BY <1>1
<1>3. job # NoJob => Identity(k) \in DOMAIN v.jobs /\ v.jobs[Identity(k)].id = job
  BY DEF Sound, Linked
<1>4. v.leads[k].job # NoJob => job = v.leads[k].job
  BY DEF Sound, Linked
<1>5. Shaped(d)
  <2>1. \A q \in DOMAIN d.leads : d.leads[q] = [status |-> d.leads[q].status, job |-> d.leads[q].job]
    BY <1>2 DEF Sound, Shaped
  <2> QED
    BY <1>2, <2>1 DEF Sound, Shaped
<1>6. Grown(v, d)
  <2>1. Len(v.runs) \in Nat
    BY LenProperties DEF Sound, Shaped
  <2> QED
    BY <1>2, <1>4, <2>1 DEF Grown
<1>7. Linked(d)
  BY <1>2, <1>3 DEF Sound, Linked
<1> QED
  BY <1>2, <1>5, <1>6, <1>7, SameRuns

LEMMA ConvertedWrites ==
    ASSUME NEW v, Sound(v), NEW k \in DOMAIN v.leads, NEW id
    PROVE  Writes(v, Converted(v, k, id))
<1> DEFINE new == ImportJob(v, Identity(k), id)
           job == new.jobs[Identity(k)].id
           d == [new EXCEPT !.leads[k] = [status |-> "converted", job |-> job]]
<1>1. Writes(v, new) /\ new.leads = v.leads /\ Identity(k) \in DOMAIN new.jobs
  BY ImportWrites
<1> HIDE DEF new
<1>2. Writes(new, d)
  BY <1>1, LeadWrites DEF Writes
<1>3. Writes(v, d)
  BY <1>1, <1>2, WritesOn
<1> QED
  BY <1>3 DEF Converted, new

\* A source that is added or changed is nothing to the other tables.
LEMMA SourceWrites ==
    ASSUME NEW v, Sound(v), NEW d, NEW src, d = [v EXCEPT !.src = src], DOMAIN src \subseteq Ids
    PROVE  Writes(v, d)
<1>1. d = [src |-> src, runs |-> v.runs, docs |-> v.docs, leads |-> v.leads, sigs |-> v.sigs,
           companies |-> v.companies, jobs |-> v.jobs]
  BY DEF Sound, Shaped
<1>2. /\ d.src = src /\ d.runs = v.runs /\ d.docs = v.docs /\ d.leads = v.leads /\ d.sigs = v.sigs
      /\ d.jobs = v.jobs
      /\ d = [src |-> d.src, runs |-> d.runs, docs |-> d.docs, leads |-> d.leads, sigs |-> d.sigs,
              companies |-> d.companies, jobs |-> d.jobs]
  BY <1>1
<1>3. Shaped(d)
  BY <1>2 DEF Sound, Shaped
<1>4. Grown(v, d)
  <2>1. Len(v.runs) \in Nat
    BY LenProperties DEF Sound, Shaped
  <2> QED
    BY <1>2, <2>1 DEF Grown
<1>5. Linked(d)
  BY <1>2 DEF Sound, Linked
<1> QED
  BY <1>2, <1>3, <1>4, <1>5, SameRuns

----------------------------------------------------------------------------
(* The loops.                                                              *)

\* Induction, for a set of natural numbers: the least number that is not in it
\* would follow one that is.
LEMMA NatInduct ==
    ASSUME NEW S, 0 \in S, \A n \in Nat : n \in S => n + 1 \in S
    PROVE  \A n \in Nat : n \in S
<1> DEFINE Less == OpToRel(<, Nat)
           T == Nat \ S
<1> SUFFICES ASSUME T # {} PROVE FALSE
  OBVIOUS
<1>1. T \subseteq Nat /\ IsWellFoundedOn(Less, Nat)
  BY NatLessThanWellFounded
<1>2. \A x, y \in Nat : x < y => <<x, y>> \in Less
  BY DEF OpToRel
<1> HIDE DEF Less
<1>3. PICK x \in T : \A y \in T : ~ (<<y, x>> \in Less)
  BY <1>1, WFMin
<1>4. x \in Nat \ {0} /\ x - 1 \in Nat /\ (x - 1) + 1 = x
  OBVIOUS
<1>5. <<x - 1, x>> \in Less
  BY <1>2, <1>4
<1>6. x - 1 \notin T
  BY <1>3, <1>5
<1> QED
  BY <1>3, <1>4, <1>6

\* There are the tables after each number of entries.
AfterEntries(g, v, s, run, n, found) ==
    /\ g[0] = v
    /\ \A k \in 1 .. n : g[k] = Entry(g[k - 1], s, k, run, found[k])
    /\ EntriesStored(v, s, run, n, found) = g[n]

LEMMA EntriesStep ==
    ASSUME NEW v, NEW s, NEW run, NEW found, NEW n \in Nat
    PROVE  \E g : AfterEntries(g, v, s, run, n, found)
<1> DEFINE After(m, g) ==
             g = [k \in 0 .. m |-> IF k = 0 THEN v ELSE Entry(g[k - 1], s, k, run, found[k])]
           S == {m \in Nat : \E g : After(m, g)}
<1>1. 0 \in S
  <2> DEFINE g == [k \in 0 .. 0 |-> v]
  <2>1. After(0, g)
    OBVIOUS
  <2> HIDE DEF g
  <2> QED
    BY <2>1
<1>2. \A m \in Nat : m \in S => m + 1 \in S
  <2> SUFFICES ASSUME NEW m \in Nat, NEW g, After(m, g)
               PROVE  \E h : After(m + 1, h)
    OBVIOUS
  <2> DEFINE last == Entry(g[m], s, m + 1, run, found[m + 1])
             h == [k \in 0 .. m + 1 |-> IF k = m + 1 THEN last ELSE g[k]]
  <2>1. \A k \in 0 .. m + 1 : h[k] = IF k = 0 THEN v ELSE Entry(h[k - 1], s, k, run, found[k])
    <3> SUFFICES ASSUME NEW k \in 0 .. m + 1
                 PROVE  h[k] = IF k = 0 THEN v ELSE Entry(h[k - 1], s, k, run, found[k])
      OBVIOUS
    <3>1. CASE k = m + 1
      <4>1. h[k - 1] = g[m] /\ k # 0
        BY <3>1
      <4> QED
        BY <3>1, <4>1
    <3>2. CASE k \in 0 .. m
      <4>1. h[k] = g[k] /\ (k # 0 => h[k - 1] = g[k - 1])
        BY <3>2
      <4> QED
        BY <3>2, <4>1
    <3> QED
      BY <3>1, <3>2
  <2>2. h = [k \in 0 .. m + 1 |-> h[k]]
    OBVIOUS
  <2> HIDE DEF h
  <2>3. After(m + 1, h)
    BY <2>1, <2>2
  <2> QED
    BY <2>3
<1>3. n \in S
  <2> HIDE DEF S
  <2> QED
    BY <1>1, <1>2, NatInduct
<1>4. \E g : After(n, g)
  BY <1>3
<1> DEFINE f == CHOOSE g : After(n, g)
<1>5. After(n, f)
  BY <1>4
<1>6. EntriesStored(v, s, run, n, found) = f[n]
  BY DEF EntriesStored
<1> HIDE DEF f
<1>7. f[0] = v /\ \A k \in 1 .. n : f[k] = Entry(f[k - 1], s, k, run, found[k])
  BY <1>5
<1>8. AfterEntries(f, v, s, run, n, found)
  BY <1>6, <1>7 DEF AfterEntries
<1> QED
  BY <1>8

\* There are the tables after each number of articles.
AfterArticles(g, v, s, run, n, found) ==
    /\ g[0] = v
    /\ \A k \in 1 .. n : g[k] = Article(g[k - 1], s, k, run, found[k])
    /\ ArticlesStored(v, s, run, n, found) = g[n]

LEMMA ArticlesStep ==
    ASSUME NEW v, NEW s, NEW run, NEW found, NEW n \in Nat
    PROVE  \E g : AfterArticles(g, v, s, run, n, found)
<1> DEFINE After(m, g) ==
             g = [k \in 0 .. m |-> IF k = 0 THEN v ELSE Article(g[k - 1], s, k, run, found[k])]
           S == {m \in Nat : \E g : After(m, g)}
<1>1. 0 \in S
  <2> DEFINE g == [k \in 0 .. 0 |-> v]
  <2>1. After(0, g)
    OBVIOUS
  <2> HIDE DEF g
  <2> QED
    BY <2>1
<1>2. \A m \in Nat : m \in S => m + 1 \in S
  <2> SUFFICES ASSUME NEW m \in Nat, NEW g, After(m, g)
               PROVE  \E h : After(m + 1, h)
    OBVIOUS
  <2> DEFINE last == Article(g[m], s, m + 1, run, found[m + 1])
             h == [k \in 0 .. m + 1 |-> IF k = m + 1 THEN last ELSE g[k]]
  <2>1. \A k \in 0 .. m + 1 : h[k] = IF k = 0 THEN v ELSE Article(h[k - 1], s, k, run, found[k])
    <3> SUFFICES ASSUME NEW k \in 0 .. m + 1
                 PROVE  h[k] = IF k = 0 THEN v ELSE Article(h[k - 1], s, k, run, found[k])
      OBVIOUS
    <3>1. CASE k = m + 1
      <4>1. h[k - 1] = g[m] /\ k # 0
        BY <3>1
      <4> QED
        BY <3>1, <4>1
    <3>2. CASE k \in 0 .. m
      <4>1. h[k] = g[k] /\ (k # 0 => h[k - 1] = g[k - 1])
        BY <3>2
      <4> QED
        BY <3>2, <4>1
    <3> QED
      BY <3>1, <3>2
  <2>2. h = [k \in 0 .. m + 1 |-> h[k]]
    OBVIOUS
  <2> HIDE DEF h
  <2>3. After(m + 1, h)
    BY <2>1, <2>2
  <2> QED
    BY <2>3
<1>3. n \in S
  <2> HIDE DEF S
  <2> QED
    BY <1>1, <1>2, NatInduct
<1>4. \E g : After(n, g)
  BY <1>3
<1> DEFINE f == CHOOSE g : After(n, g)
<1>5. After(n, f)
  BY <1>4
<1>6. ArticlesStored(v, s, run, n, found) = f[n]
  BY DEF ArticlesStored
<1> HIDE DEF f
<1>7. f[0] = v /\ \A k \in 1 .. n : f[k] = Article(f[k - 1], s, k, run, found[k])
  BY <1>5
<1>8. AfterArticles(f, v, s, run, n, found)
  BY <1>6, <1>7 DEF AfterArticles
<1> QED
  BY <1>8

\* There are the tables after each number of sources.
AfterDue(g, v, q, run, n, found, site) ==
    /\ g[0] = v
    /\ \A k \in 1 .. Len(q) : g[k] = NextDue(v, g[k - 1], q[k], run, n, found, site)
    /\ DueSyncs(v, q, run, n, found, site) = g[Len(q)]

LEMMA DueStep ==
    ASSUME NEW v, NEW q, NEW run, NEW n, NEW found, NEW site, Len(q) \in Nat
    PROVE  \E g : AfterDue(g, v, q, run, n, found, site)
<1> DEFINE After(m, g) ==
             g = [k \in 0 .. m |-> IF k = 0 THEN v ELSE NextDue(v, g[k - 1], q[k], run, n, found, site)]
           S == {m \in Nat : \E g : After(m, g)}
<1>1. 0 \in S
  <2> DEFINE g == [k \in 0 .. 0 |-> v]
  <2>1. After(0, g)
    OBVIOUS
  <2> HIDE DEF g
  <2> QED
    BY <2>1
<1>2. \A m \in Nat : m \in S => m + 1 \in S
  <2> SUFFICES ASSUME NEW m \in Nat, NEW g, After(m, g)
               PROVE  \E h : After(m + 1, h)
    OBVIOUS
  <2> DEFINE last == NextDue(v, g[m], q[m + 1], run, n, found, site)
             h == [k \in 0 .. m + 1 |-> IF k = m + 1 THEN last ELSE g[k]]
  <2>1. \A k \in 0 .. m + 1 : h[k] = IF k = 0 THEN v ELSE NextDue(v, h[k - 1], q[k], run, n, found, site)
    <3> SUFFICES ASSUME NEW k \in 0 .. m + 1
                 PROVE  h[k] = IF k = 0 THEN v ELSE NextDue(v, h[k - 1], q[k], run, n, found, site)
      OBVIOUS
    <3>1. CASE k = m + 1
      <4>1. h[k - 1] = g[m] /\ k # 0
        BY <3>1
      <4> QED
        BY <3>1, <4>1
    <3>2. CASE k \in 0 .. m
      <4>1. h[k] = g[k] /\ (k # 0 => h[k - 1] = g[k - 1])
        BY <3>2
      <4> QED
        BY <3>2, <4>1
    <3> QED
      BY <3>1, <3>2
  <2>2. h = [k \in 0 .. m + 1 |-> h[k]]
    OBVIOUS
  <2> HIDE DEF h
  <2>3. After(m + 1, h)
    BY <2>1, <2>2
  <2> QED
    BY <2>3
<1>3. Len(q) \in S
  <2> HIDE DEF S
  <2> QED
    BY <1>1, <1>2, NatInduct
<1>4. \E g : After(Len(q), g)
  BY <1>3
<1> DEFINE f == CHOOSE g : After(Len(q), g)
<1>5. After(Len(q), f)
  BY <1>4
<1>6. DueSyncs(v, q, run, n, found, site) = f[Len(q)]
  BY DEF DueSyncs
<1> HIDE DEF f
<1>7. f[0] = v /\ \A k \in 1 .. Len(q) : f[k] = NextDue(v, f[k - 1], q[k], run, n, found, site)
  BY <1>5
<1>8. AfterDue(f, v, q, run, n, found, site)
  BY <1>6, <1>7 DEF AfterDue
<1> QED
  BY <1>8

\* A loop over entries leaves those done that it could extract.
LEMMA EntriesWrite ==
    ASSUME NEW v, Sound(v), NEW s, NEW run, NEW n \in Nat, NEW found
    PROVE  LET d == EntriesStored(v, s, run, n, found)
           IN  Writes(v, d) /\ \A k \in 1 .. n : found[k] # Fails => EntryDone(d, s, k, {})
<1>a. PICK g : AfterEntries(g, v, s, run, n, found)
  BY EntriesStep
<1>1. /\ g[0] = v
      /\ \A k \in 1 .. n : g[k] = Entry(g[k - 1], s, k, run, found[k])
      /\ EntriesStored(v, s, run, n, found) = g[n]
  BY <1>a DEF AfterEntries
<1> DEFINE Right(m) == Writes(v, g[m]) /\ \A k \in 1 .. m : found[k] # Fails => EntryDone(g[m], s, k, {})
           S == {m \in Nat : m <= n => Right(m)}
<1>2. 0 \in S
  <2>1. g[0] = v
    BY <1>1
  <2> QED
    BY <2>1, WritesNothing
<1>3. \A m \in Nat : m \in S => m + 1 \in S
  <2> SUFFICES ASSUME NEW m \in Nat, m + 1 <= n, Right(m)
               PROVE  Right(m + 1)
    OBVIOUS
  <2>1. g[m + 1] = Entry(g[m], s, m + 1, run, found[m + 1])
    BY <1>1
  <2>2. /\ Writes(g[m], g[m + 1])
        /\ found[m + 1] # Fails => EntryDone(g[m + 1], s, m + 1, {})
    BY <2>1, EntryWrites DEF Writes
  <2>3. Writes(v, g[m + 1])
    BY <2>2, WritesOn
  <2>4. \A k \in 1 .. m + 1 : found[k] # Fails => EntryDone(g[m + 1], s, k, {})
    <3> SUFFICES ASSUME NEW k \in 1 .. m + 1, found[k] # Fails
                 PROVE  EntryDone(g[m + 1], s, k, {})
      OBVIOUS
    <3>1. CASE k \in 1 .. m
      BY <3>1, <2>2, DoneKept DEF Writes
    <3>2. CASE k = m + 1
      BY <3>2, <2>2
    <3> QED
      BY <3>1, <3>2
  <2> QED
    BY <2>3, <2>4
<1>4. n \in S
  <2> HIDE DEF S
  <2> QED
    BY <1>2, <1>3, NatInduct
<1> QED
  BY <1>1, <1>4

\* A loop over articles leaves those done that gave a signal.
LEMMA ArticlesWrite ==
    ASSUME NEW v, Sound(v), NEW s, NEW run, NEW n \in Nat, NEW found, NEW silent,
           \A k \in 1 .. n : found[k] = "silent" => k \in silent
    PROVE  LET d == ArticlesStored(v, s, run, n, found)
           IN  /\ Writes(v, d)
               /\ \A k \in 1 .. n : found[k] \notin {"unread", "fails"} => EntryDone(d, s, k, silent)
<1>a. PICK g : AfterArticles(g, v, s, run, n, found)
  BY ArticlesStep
<1>1. /\ g[0] = v
      /\ \A k \in 1 .. n : g[k] = Article(g[k - 1], s, k, run, found[k])
      /\ ArticlesStored(v, s, run, n, found) = g[n]
  BY <1>a DEF AfterArticles
<1> DEFINE Right(m) == /\ Writes(v, g[m])
                       /\ \A k \in 1 .. m : found[k] \notin {"unread", "fails"} => EntryDone(g[m], s, k, silent)
           S == {m \in Nat : m <= n => Right(m)}
<1>2. 0 \in S
  <2>1. g[0] = v
    BY <1>1
  <2> QED
    BY <2>1, WritesNothing
<1>3. \A m \in Nat : m \in S => m + 1 \in S
  <2> SUFFICES ASSUME NEW m \in Nat, m + 1 <= n, Right(m)
               PROVE  Right(m + 1)
    OBVIOUS
  <2>1. g[m + 1] = Article(g[m], s, m + 1, run, found[m + 1])
    BY <1>1
  <2>2. /\ Writes(g[m], g[m + 1])
        /\ found[m + 1] \notin {"unread", "fails"} => EntryDone(g[m + 1], s, m + 1, silent)
    BY <2>1, m + 1 \in 1 .. n, ArticleWrites DEF Writes
  <2>3. Writes(v, g[m + 1])
    BY <2>2, WritesOn
  <2>4. \A k \in 1 .. m + 1 : found[k] \notin {"unread", "fails"} => EntryDone(g[m + 1], s, k, silent)
    <3> SUFFICES ASSUME NEW k \in 1 .. m + 1, found[k] \notin {"unread", "fails"}
                 PROVE  EntryDone(g[m + 1], s, k, silent)
      OBVIOUS
    <3>1. CASE k \in 1 .. m
      BY <3>1, <2>2, DoneKept DEF Writes
    <3>2. CASE k = m + 1
      BY <3>2, <2>2
    <3> QED
      BY <3>1, <3>2
  <2> QED
    BY <2>3, <2>4
<1>4. n \in S
  <2> HIDE DEF S
  <2> QED
    BY <1>2, <1>3, NatInduct
<1> QED
  BY <1>1, <1>4

LEMMA UniversityWrites ==
    ASSUME NEW v, Sound(v), NEW s \in Ids, NEW run, NEW n \in Nat, NEW found
    PROVE  Writes(v, UniversitySync(v, s, run, n, found))
<1> DEFINE d == EntriesStored(v, s, run, n, found)
           status == RunStatus({k \in 1 .. n : found[k] = Fails})
<1>1. Writes(v, d) /\ \A k \in 1 .. n : found[k] # Fails => EntryDone(d, s, k, {})
  BY EntriesWrite
<1>2. status \in {"succeeded", "partial"} /\ (status = "succeeded" => \A k \in 1 .. n : found[k] # Fails)
  BY DEF RunStatus
<1> HIDE DEF d, status
<1>3. Writes(d, Recorded(d, s, status, 1 .. n, {}))
  BY <1>1, <1>2, RecordedWrites DEF Writes
<1>4. Writes(v, Recorded(d, s, status, 1 .. n, {}))
  BY <1>1, <1>3, WritesOn
<1> QED
  BY <1>4 DEF UniversitySync, d, status

LEMMA WeChatWrites ==
    ASSUME NEW v, Sound(v), NEW s \in Ids, NEW run, NEW n \in Nat, NEW found
    PROVE  Writes(v, WeChatSync(v, s, run, n, found))
<1> DEFINE d == ArticlesStored(v, s, run, n, found)
           status == RunStatus({k \in 1 .. n : found[k] \in {"unread", "fails"}})
           silent == {k \in 1 .. n : found[k] = "silent"}
<1>0. silent \in SUBSET Nat /\ \A k \in 1 .. n : found[k] = "silent" => k \in silent
  OBVIOUS
<1> HIDE DEF silent
<1>1. Writes(v, d) /\ \A k \in 1 .. n : found[k] \notin {"unread", "fails"} => EntryDone(d, s, k, silent)
  BY <1>0, ArticlesWrite
<1>2. /\ status \in {"succeeded", "partial"}
      /\ status = "succeeded" => \A k \in 1 .. n : found[k] \notin {"unread", "fails"}
  BY DEF RunStatus
<1> HIDE DEF d, status
<1>3. Writes(d, Recorded(d, s, status, 1 .. n, silent))
  BY <1>0, <1>1, <1>2, RecordedWrites DEF Writes
<1>4. Writes(v, Recorded(d, s, status, 1 .. n, silent))
  BY <1>1, <1>3, WritesOn
<1> QED
  BY <1>4 DEF WeChatSync, d, status, silent

LEMMA FailedWrites ==
    ASSUME NEW v, Sound(v), NEW s \in Ids
    PROVE  Writes(v, Recorded(v, s, "failed", {}, {}))
<1>1. {} \in SUBSET Nat /\ "failed" # "succeeded"
  OBVIOUS
<1> QED
  BY <1>1, RecordedWrites

LEMMA OfficialWrites ==
    ASSUME NEW v, Sound(v), NEW s \in Ids, NEW run, NEW n \in Nat, NEW fails
    PROVE  Writes(v, OfficialSync(v, s, run, n, fails))
<1> DEFINE found == [k \in 1 .. n |-> {k}]
           d == EntriesStored(v, s, run, n, found)
<1>1. Writes(v, d) /\ \A k \in 1 .. n : found[k] # Fails => EntryDone(d, s, k, {})
  BY EntriesWrite
<1>2. \A k \in 1 .. n : found[k] # Fails
  <2> SUFFICES ASSUME NEW k \in 1 .. n
               PROVE  {k} # {0}
    BY DEF Fails
  <2> QED
    BY 0 \notin {k}
<1>3. OfficialSync(v, s, run, n, fails)
        = IF fails THEN Recorded(d, s, "failed", {}, {}) ELSE Recorded(d, s, "succeeded", 1 .. n, {})
  BY DEF OfficialSync
<1> HIDE DEF found, d
<1>4. Writes(d, Recorded(d, s, "failed", {}, {})) /\ Writes(d, Recorded(d, s, "succeeded", 1 .. n, {}))
  BY <1>1, <1>2, FailedWrites, RecordedWrites DEF Writes
<1>5. Writes(v, Recorded(d, s, "failed", {}, {})) /\ Writes(v, Recorded(d, s, "succeeded", 1 .. n, {}))
  BY <1>1, <1>4, WritesOn
<1> QED
  BY <1>3, <1>5

\* A sync that an exception ended kept what it had stored.
LEMMA RaisedWrites ==
    ASSUME NEW v, Sound(v), NEW s \in Ids, NEW run, NEW n \in Nat, NEW found
    PROVE  Writes(v, Recorded(EntriesStored(v, s, run, n, found), s, "running", {}, {}))
<1> DEFINE d == EntriesStored(v, s, run, n, found)
<1>1. Writes(v, d)
  BY EntriesWrite
<1> HIDE DEF d
<1>2. {} \in SUBSET Nat /\ "running" # "succeeded"
  OBVIOUS
<1>3. Writes(d, Recorded(d, s, "running", {}, {}))
  BY <1>1, <1>2, RecordedWrites DEF Writes
<1>4. Writes(v, Recorded(d, s, "running", {}, {}))
  BY <1>1, <1>3, WritesOn
<1> QED
  BY <1>4 DEF d

\* All that is due, source after source.
LEMMA DueWrites ==
    ASSUME NEW v, Sound(v), NEW q \in Seq(Ids), NEW run, NEW n \in Nat, NEW found, NEW site
    PROVE  Writes(v, DueSyncs(v, q, run, n, found, site))
<1>0. Len(q) \in Nat /\ \A k \in 1 .. Len(q) : q[k] \in Ids
  BY LenProperties, ElementOfSeq
<1>a. PICK g : AfterDue(g, v, q, run, n, found, site)
  BY <1>0, DueStep
<1>1. /\ g[0] = v
      /\ \A k \in 1 .. Len(q) : g[k] = NextDue(v, g[k - 1], q[k], run, n, found, site)
      /\ DueSyncs(v, q, run, n, found, site) = g[Len(q)]
  BY <1>a DEF AfterDue
<1> DEFINE S == {m \in Nat : m <= Len(q) => Writes(v, g[m])}
<1>2. 0 \in S
  <2>1. g[0] = v
    BY <1>0, <1>1
  <2> QED
    BY <2>1, WritesNothing
<1>3. \A m \in Nat : m \in S => m + 1 \in S
  <2> SUFFICES ASSUME NEW m \in Nat, m + 1 <= Len(q), Writes(v, g[m])
               PROVE  Writes(v, g[m + 1])
    BY <1>0
  <2> DEFINE at == run + Len(g[m].runs) - Len(v.runs)
             how == site[q[m + 1]]
  <2>a. m + 1 \in 1 .. Len(q) /\ (m + 1) - 1 = m
    BY <1>0
  <2>b. g[m + 1] = NextDue(v, g[m], q[m + 1], run, n, found, site)
    BY <1>1, <2>a
  <2>1. g[m + 1] = DueSync(g[m], q[m + 1], at, n, found, how)
    BY <2>b DEF NextDue
  <2> HIDE DEF at, how
  <2>2. Sound(g[m]) /\ q[m + 1] \in Ids
    BY <1>0 DEF Writes
  <2>3. Writes(g[m], g[m + 1])
    BY <2>1, <2>2, FailedWrites, UniversityWrites, RaisedWrites, WritesNothing
       DEF DueSync, Unsupported, FetchFailed
  <2> QED
    BY <2>3, WritesOn
<1>4. Len(q) \in S
  <2> HIDE DEF S
  <2> QED
    BY <1>0, <1>2, <1>3, NatInduct
<1> QED
  BY <1>0, <1>1, <1>4

----------------------------------------------------------------------------
(* A commit into tables that have grown since they were read.              *)

\* The rows of a table after a commit.
LEMMA RowsDomain ==
    ASSUME NEW cur, NEW old, NEW new
    PROVE  DOMAIN Rows(cur, old, new) = DOMAIN cur \cup DOMAIN new
  BY DEF Rows

LEMMA RowInserted ==
    ASSUME NEW cur, NEW old, NEW new, NEW x \in DOMAIN new, x \notin DOMAIN cur
    PROVE  Rows(cur, old, new)[x] = new[x]
  BY DEF Rows

LEMMA RowOfAnother ==
    ASSUME NEW cur, NEW old, NEW new, NEW x \in DOMAIN cur, x \notin DOMAIN old
    PROVE  Rows(cur, old, new)[x] = cur[x]
  BY DEF Rows

LEMMA RowWritten ==
    ASSUME NEW cur, NEW old, NEW new, NEW x \in DOMAIN cur, x \in DOMAIN old
    PROVE  Rows(cur, old, new)[x] = Columns(cur[x], old[x], new[x])
  BY DEF Rows

\* A run that both have is as it was, and the new ones follow.
LEMMA RunsMerged ==
    ASSUME NEW cur, NEW old, NEW new, Shaped(cur), Shaped(old), Shaped(new), Grown(old, cur), Grown(old, new)
    PROVE  NumberedRows(cur.runs, old.runs, new.runs)
             = cur.runs \o SubSeq(new.runs, Len(old.runs) + 1, Len(new.runs))
<1> DEFINE a == cur.runs
           b == old.runs
           c == SubSeq(new.runs, 1, Len(old.runs))
<1>1. a \in Seq(RunRows) /\ b \in Seq(RunRows) /\ new.runs \in Seq(RunRows)
  BY DEF Shaped
<1>2. /\ Len(a) \in Nat /\ Len(b) \in Nat /\ Len(new.runs) \in Nat
      /\ DOMAIN a = 1 .. Len(a) /\ DOMAIN b = 1 .. Len(b) /\ Len(b) <= Len(a) /\ Len(b) <= Len(new.runs)
  BY <1>1, LenProperties DEF Grown
<1>3. DOMAIN c = 1 .. Len(b) /\ \A k \in 1 .. Len(b) : c[k] = new.runs[k]
  BY <1>1, <1>2, SubSeqProperties
<1>4. \A k \in 1 .. Len(b) : a[k] = b[k] /\ c[k] = b[k]
  BY <1>3 DEF Grown
<1>5. \A k \in 1 .. Len(a) : a[k] = [src |-> a[k].src, status |-> a[k].status, entries |-> a[k].entries,
                                  silent |-> a[k].silent]
  <2> SUFFICES ASSUME NEW k \in 1 .. Len(a)
               PROVE  a[k] = [src |-> a[k].src, status |-> a[k].status, entries |-> a[k].entries,
                                  silent |-> a[k].silent]
    OBVIOUS
  <2>1. a[k] \in RunRows
    BY <1>1, ElementOfSeq
  <2> QED
    BY <2>1 DEF RunRows
<1> HIDE DEF a, b, c
<1>6. \A k \in 1 .. Len(a) : Rows(a, b, c)[k] = a[k]
  <2> SUFFICES ASSUME NEW k \in 1 .. Len(a)
               PROVE  Rows(a, b, c)[k] = a[k]
    OBVIOUS
  <2>1. CASE k \in DOMAIN b
    <3>1. Rows(a, b, c)[k] = Columns(a[k], a[k], a[k])
      BY <2>1, <1>2, <1>4, RowWritten
    <3> QED
      BY <3>1, <1>5 DEF Columns
  <2>2. CASE k \notin DOMAIN b
    BY <2>2, <1>2, RowOfAnother
  <2> QED
    BY <2>1, <2>2
<1>7. DOMAIN Rows(a, b, c) = 1 .. Len(a) /\ Rows(a, b, c) = [k \in DOMAIN Rows(a, b, c) |-> Rows(a, b, c)[k]]
  <2>1. DOMAIN Rows(a, b, c) = DOMAIN a \cup DOMAIN c
    BY RowsDomain
  <2>2. DOMAIN Rows(a, b, c) = 1 .. Len(a)
    BY <2>1, <1>2, <1>3
  <2>3. Rows(a, b, c) = [k \in DOMAIN Rows(a, b, c) |-> Rows(a, b, c)[k]]
    BY Zenon DEF Rows
  <2> QED
    BY <2>2, <2>3
<1>8. a = [k \in 1 .. Len(a) |-> a[k]]
  BY <1>1, <1>2, LenProperties DEF a
<1>9. Rows(a, b, c) = a
  BY <1>6, <1>7, <1>8
<1> QED
  BY <1>9 DEF NumberedRows, a, b, c

\* The four tables whose rows matter are keyed as the database keys them.
Free(cur, old, new) ==
    /\ KeysFree(cur.docs, old.docs, new.docs) /\ KeysFree(cur.sigs, old.sigs, new.sigs)
    /\ KeysFree(cur.leads, old.leads, new.leads) /\ KeysFree(cur.jobs, old.jobs, new.jobs)

TablesMerged(d, cur, old, new) ==
    /\ d = [src |-> d.src, runs |-> d.runs, docs |-> d.docs, leads |-> d.leads, sigs |-> d.sigs,
            companies |-> d.companies, jobs |-> d.jobs]
    /\ d.runs = cur.runs \o SubSeq(new.runs, Len(old.runs) + 1, Len(new.runs))
    /\ d.src = Rows(cur.src, old.src, new.src)
    /\ d.docs = Rows(cur.docs, old.docs, new.docs)
    /\ d.sigs = Rows(cur.sigs, old.sigs, new.sigs)
    /\ d.leads = Rows(cur.leads, old.leads, new.leads)
    /\ d.jobs = Rows(cur.jobs, old.jobs, new.jobs)

LEMMA MergedTables ==
    ASSUME NEW cur, NEW old, NEW new, Shaped(cur), Shaped(old), Shaped(new), Grown(old, cur), Grown(old, new)
    PROVE  TablesMerged(Merged(cur, old, new), cur, old, new)
<1> DEFINE d == Merged(cur, old, new)
<1>1. DOMAIN cur = {"src", "runs", "docs", "leads", "sigs", "companies", "jobs"}
  BY DEF Shaped
<1>2. d = [t \in {"src", "runs", "docs", "leads", "sigs", "companies", "jobs"} |->
             IF t = "runs" THEN NumberedRows(cur.runs, old.runs, new.runs)
             ELSE Rows(cur[t], old[t], new[t])]
  BY <1>1 DEF Merged
<1> HIDE DEF d
<1>3. d = [src |-> d.src, runs |-> d.runs, docs |-> d.docs, leads |-> d.leads, sigs |-> d.sigs,
           companies |-> d.companies, jobs |-> d.jobs]
  BY <1>2
<1>4. d.runs = cur.runs \o SubSeq(new.runs, Len(old.runs) + 1, Len(new.runs))
  BY <1>2, RunsMerged
<1>5. /\ d.src = Rows(cur.src, old.src, new.src)
      /\ d.docs = Rows(cur.docs, old.docs, new.docs)
      /\ d.sigs = Rows(cur.sigs, old.sigs, new.sigs)
      /\ d.leads = Rows(cur.leads, old.leads, new.leads)
      /\ d.jobs = Rows(cur.jobs, old.jobs, new.jobs)
  BY <1>2
<1> QED
  BY <1>3, <1>4, <1>5 DEF d, TablesMerged

\* A document that either has as extracted is extracted.
LEMMA DocsMerged ==
    ASSUME NEW cur, NEW old, NEW new, Shaped(cur), Shaped(old), Shaped(new), Grown(old, cur), Grown(old, new),
           Free(cur, old, new)
    PROVE  LET m == Rows(cur.docs, old.docs, new.docs)
           IN  /\ \A x \in DOMAIN m : /\ m[x] = [run |-> m[x].run, extracted |-> m[x].extracted]
                                      /\ m[x].extracted \in BOOLEAN
               /\ \A x \in DOMAIN cur.docs : x \in DOMAIN m /\ (cur.docs[x].extracted => m[x].extracted)
               /\ \A x \in DOMAIN new.docs : x \in DOMAIN m /\ (new.docs[x].extracted => m[x].extracted)
<1> DEFINE m == Rows(cur.docs, old.docs, new.docs)
           Fine(x) == /\ m[x] = [run |-> m[x].run, extracted |-> m[x].extracted]
                      /\ m[x].extracted \in BOOLEAN
                      /\ x \in DOMAIN cur.docs /\ cur.docs[x].extracted => m[x].extracted
                      /\ x \in DOMAIN new.docs /\ new.docs[x].extracted => m[x].extracted
<1>1. DOMAIN m = DOMAIN cur.docs \cup DOMAIN new.docs
  BY RowsDomain
<1>2. ASSUME NEW x \in DOMAIN m
      PROVE  Fine(x)
  <2>1. CASE x \notin DOMAIN cur.docs
    <3>1. x \in DOMAIN new.docs /\ m[x] = new.docs[x]
      BY <2>1, <1>1, RowInserted
    <3> QED
      BY <2>1, <3>1 DEF Shaped
  <2>2. CASE x \in DOMAIN cur.docs /\ x \notin DOMAIN old.docs
    <3>1. m[x] = cur.docs[x] /\ x \notin DOMAIN new.docs
      BY <2>2, RowOfAnother DEF Free, KeysFree
    <3> QED
      BY <2>2, <3>1 DEF Shaped
  <2>3. CASE x \in DOMAIN cur.docs /\ x \in DOMAIN old.docs
    <3> DEFINE a == cur.docs[x]
               b == old.docs[x]
               c == new.docs[x]
    <3>1. m[x] = Columns(a, b, c)
      BY <2>3, RowWritten
    <3>2. /\ a = [run |-> a.run, extracted |-> a.extracted] /\ a.extracted \in BOOLEAN
          /\ b.extracted \in BOOLEAN /\ c.extracted \in BOOLEAN
          /\ b.extracted => a.extracted /\ c.extracted
      BY <2>3 DEF Shaped, Grown
    <3> HIDE DEF a, b, c, m
    <3>3. m[x] = [run |-> IF c.run # b.run THEN c.run ELSE a.run,
                  extracted |-> IF c.extracted # b.extracted THEN c.extracted ELSE a.extracted]
      BY <3>1, <3>2 DEF Columns
    <3>4. /\ m[x] = [run |-> m[x].run, extracted |-> m[x].extracted]
          /\ m[x].extracted = IF c.extracted # b.extracted THEN c.extracted ELSE a.extracted
      BY <3>3
    <3>5. /\ m[x].extracted \in BOOLEAN
          /\ a.extracted => m[x].extracted
          /\ c.extracted => m[x].extracted
      BY <3>2, <3>4
    <3> QED
      BY <3>4, <3>5 DEF a, c
  <2> QED
    BY <2>1, <2>2, <2>3
<1> HIDE DEF m
<1> QED
  BY <1>1, <1>2 DEF m

\* A job is the same for both.
LEMMA JobsMerged ==
    ASSUME NEW cur, NEW old, NEW new, Shaped(cur), Shaped(old), Shaped(new), Grown(old, cur), Grown(old, new),
           Free(cur, old, new)
    PROVE  LET m == Rows(cur.jobs, old.jobs, new.jobs)
           IN  /\ \A j \in DOMAIN m : m[j] = [id |-> m[j].id]
               /\ \A j \in DOMAIN cur.jobs : j \in DOMAIN m /\ m[j] = cur.jobs[j]
               /\ \A j \in DOMAIN new.jobs : j \in DOMAIN m /\ m[j] = new.jobs[j]
<1> DEFINE m == Rows(cur.jobs, old.jobs, new.jobs)
           Fine(j) == /\ m[j] = [id |-> m[j].id]
                      /\ j \in DOMAIN cur.jobs => m[j] = cur.jobs[j]
                      /\ j \in DOMAIN new.jobs => m[j] = new.jobs[j]
<1>1. DOMAIN m = DOMAIN cur.jobs \cup DOMAIN new.jobs
  BY RowsDomain
<1>2. ASSUME NEW j \in DOMAIN m
      PROVE  Fine(j)
  <2>1. CASE j \notin DOMAIN cur.jobs
    <3>1. j \in DOMAIN new.jobs /\ m[j] = new.jobs[j]
      BY <2>1, <1>1, RowInserted
    <3> QED
      BY <2>1, <3>1 DEF Shaped
  <2>2. CASE j \in DOMAIN cur.jobs /\ j \notin DOMAIN old.jobs
    <3>1. m[j] = cur.jobs[j] /\ j \notin DOMAIN new.jobs
      BY <2>2, RowOfAnother DEF Free, KeysFree
    <3> QED
      BY <2>2, <3>1 DEF Shaped
  <2>3. CASE j \in DOMAIN cur.jobs /\ j \in DOMAIN old.jobs
    <3>1. /\ m[j] = Columns(cur.jobs[j], old.jobs[j], new.jobs[j])
          /\ old.jobs[j] = cur.jobs[j] /\ new.jobs[j] = cur.jobs[j]
      BY <2>3, RowWritten DEF Grown
    <3>2. cur.jobs[j] = [id |-> cur.jobs[j].id]
      BY <2>3 DEF Shaped
    <3>3. m[j] = cur.jobs[j]
      BY <3>1, <3>2 DEF Columns
    <3> QED
      BY <3>1, <3>2, <3>3
  <2> QED
    BY <2>1, <2>2, <2>3
<1> HIDE DEF m
<1> QED
  BY <1>1, <1>2 DEF m

\* A lead has the job that either gave it, and it is one job when both did.
LeadsFit(m, cur, new) ==
    /\ DOMAIN m = DOMAIN cur.leads \cup DOMAIN new.leads
    /\ \A k \in DOMAIN m : m[k] = [status |-> m[k].status, job |-> m[k].job]
    /\ \A k \in DOMAIN cur.leads : cur.leads[k].job # NoJob => m[k].job = cur.leads[k].job
    /\ \A k \in DOMAIN m : \/ m[k].job = NoJob
                           \/ k \in DOMAIN cur.leads /\ m[k].job = cur.leads[k].job
                           \/ k \in DOMAIN new.leads /\ m[k].job = new.leads[k].job

LEMMA LeadsMerged ==
    ASSUME NEW cur, NEW old, NEW new, Sound(cur), Sound(old), Sound(new), Grown(old, cur), Grown(old, new),
           Free(cur, old, new)
    PROVE  LeadsFit(Rows(cur.leads, old.leads, new.leads), cur, new)
<1> DEFINE m == Rows(cur.leads, old.leads, new.leads)
           Fine(k) == /\ m[k] = [status |-> m[k].status, job |-> m[k].job]
                      /\ k \in DOMAIN cur.leads /\ cur.leads[k].job # NoJob => m[k].job = cur.leads[k].job
                      /\ \/ m[k].job = NoJob
                         \/ k \in DOMAIN cur.leads /\ m[k].job = cur.leads[k].job
                         \/ k \in DOMAIN new.leads /\ m[k].job = new.leads[k].job
<1>1. DOMAIN m = DOMAIN cur.leads \cup DOMAIN new.leads
  BY RowsDomain
<1>2. ASSUME NEW k \in DOMAIN m
      PROVE  Fine(k)
  <2>1. CASE k \notin DOMAIN cur.leads
    <3>1. k \in DOMAIN new.leads /\ m[k] = new.leads[k]
      BY <2>1, <1>1, RowInserted
    <3> QED
      BY <2>1, <3>1 DEF Sound, Shaped
  <2>2. CASE k \in DOMAIN cur.leads /\ k \notin DOMAIN old.leads
    <3>1. m[k] = cur.leads[k]
      BY <2>2, RowOfAnother
    <3> QED
      BY <2>2, <3>1 DEF Sound, Shaped
  <2>3. CASE k \in DOMAIN cur.leads /\ k \in DOMAIN old.leads
    <3> DEFINE a == cur.leads[k]
               b == old.leads[k]
               c == new.leads[k]
    <3>1. m[k] = Columns(a, b, c) /\ k \in DOMAIN new.leads
      BY <2>3, RowWritten DEF Grown
    <3>2. /\ a = [status |-> a.status, job |-> a.job]
          /\ b.job # NoJob => a.job = b.job /\ c.job = b.job
      BY <2>3 DEF Sound, Shaped, Grown
    <3>3. a.job # NoJob /\ c.job # NoJob => a.job = c.job
      <4> SUFFICES ASSUME a.job # NoJob, c.job # NoJob
                   PROVE  a.job = c.job
        OBVIOUS
      <4>1. /\ Identity(k) \in DOMAIN cur.jobs /\ cur.jobs[Identity(k)].id = a.job
            /\ Identity(k) \in DOMAIN new.jobs /\ new.jobs[Identity(k)].id = c.job
        BY <2>3, <3>1 DEF Sound, Linked
      <4>2. Identity(k) \in DOMAIN old.jobs
        BY <4>1 DEF Free, KeysFree
      <4>3. cur.jobs[Identity(k)] = old.jobs[Identity(k)] /\ new.jobs[Identity(k)] = old.jobs[Identity(k)]
        BY <4>2 DEF Grown
      <4> QED
        BY <4>1, <4>3
    <3> HIDE DEF a, b, c, m
    <3>4. m[k] = [status |-> IF c.status # b.status THEN c.status ELSE a.status,
                  job |-> IF c.job # b.job THEN c.job ELSE a.job]
      BY <3>1, <3>2 DEF Columns
    <3>5. /\ m[k] = [status |-> m[k].status, job |-> m[k].job]
          /\ m[k].job = IF c.job # b.job THEN c.job ELSE a.job
      BY <3>4
    <3>6. /\ a.job # NoJob => m[k].job = a.job
          /\ m[k].job = NoJob \/ m[k].job = a.job \/ m[k].job = c.job
      BY <3>2, <3>3, <3>5
    <3> QED
      BY <2>3, <3>1, <3>5, <3>6 DEF a, c
  <2> QED
    BY <2>1, <2>2, <2>3
<1> HIDE DEF m
<1> QED
  BY <1>1, <1>2 DEF m, LeadsFit

LEMMA SuffixRows ==
    ASSUME NEW S, NEW s \in Seq(S), NEW m \in Nat, m <= Len(s)
    PROVE  /\ SubSeq(s, m + 1, Len(s)) \in Seq(S)
           /\ Len(SubSeq(s, m + 1, Len(s))) = Len(s) - m
           /\ \A k \in 1 .. Len(s) - m : SubSeq(s, m + 1, Len(s))[k] = s[m + k]
<1> DEFINE lo == m + 1
           hi == Len(s)
           b  == SubSeq(s, lo, hi)
<1>1. lo = m + 1 /\ lo \in Int /\ hi \in Nat /\ m <= hi
  BY LenProperties
<1>2. \A i \in lo .. hi : s[i] \in S
  BY <1>1, ElementOfSeq
<1> HIDE DEF lo, hi
<1>3. b \in Seq(S) /\ Len(b) = (IF lo <= hi THEN hi - lo + 1 ELSE 0)
      /\ \A i \in 1 .. hi - lo + 1 : b[i] = s[lo + i - 1]
  BY <1>1, <1>2, SubSeqProperties
<1> HIDE DEF b
<1>4. Len(b) = hi - m
  BY <1>1, <1>3
<1>5. ASSUME NEW k \in 1 .. hi - m
      PROVE  b[k] = s[m + k]
  <2>1. k \in 1 .. hi - lo + 1 /\ lo + k - 1 = m + k
    BY <1>1
  <2> QED
    BY <2>1, <1>3
<1>6. b \in Seq(S) /\ Len(b) = hi - m /\ \A k \in 1 .. hi - m : b[k] = s[m + k]
  BY <1>3, <1>4, <1>5
<1> QED
  BY <1>6 DEF b, lo, hi

\* The run rows after a commit: those of the tables, then the transaction's own.
RunsFit(q, cur, new) ==
    /\ q \in Seq(RunRows) /\ Len(cur.runs) <= Len(q)
    /\ \A n \in 1 .. Len(cur.runs) : q[n] = cur.runs[n]
    /\ \A n \in 1 .. Len(q) : \/ n \in 1 .. Len(cur.runs)
                             \/ \E k \in 1 .. Len(new.runs) : q[n] = new.runs[k]

LEMMA RunsOfBoth ==
    ASSUME NEW cur, NEW old, NEW new, Shaped(cur), Shaped(old), Shaped(new), Grown(old, cur), Grown(old, new)
    PROVE  RunsFit(cur.runs \o SubSeq(new.runs, Len(old.runs) + 1, Len(new.runs)), cur, new)
<1> DEFINE b == SubSeq(new.runs, Len(old.runs) + 1, Len(new.runs))
           q == cur.runs \o b
<1>1. cur.runs \in Seq(RunRows) /\ new.runs \in Seq(RunRows) /\ old.runs \in Seq(RunRows)
  BY DEF Shaped
<1>2. /\ Len(cur.runs) \in Nat /\ Len(new.runs) \in Nat /\ Len(old.runs) \in Nat
      /\ Len(old.runs) <= Len(new.runs)
  BY <1>1, LenProperties DEF Grown
<1>3. \A k \in Len(old.runs) + 1 .. Len(new.runs) : new.runs[k] \in RunRows
  BY <1>1, <1>2, ElementOfSeq
<1>4. /\ b \in Seq(RunRows) /\ Len(b) = Len(new.runs) - Len(old.runs)
      /\ \A k \in 1 .. Len(new.runs) - Len(old.runs) : b[k] = new.runs[Len(old.runs) + k]
  BY <1>1, <1>2, SuffixRows
<1> HIDE DEF b
<1>5. /\ q \in Seq(RunRows) /\ Len(q) = Len(cur.runs) + Len(b)
      /\ \A n \in 1 .. Len(cur.runs) + Len(b) :
             q[n] = IF n <= Len(cur.runs) THEN cur.runs[n] ELSE b[n - Len(cur.runs)]
  BY <1>1, <1>4, ConcatProperties
<1> HIDE DEF q
<1>6. Len(b) \in Nat
  BY <1>2, <1>4
<1>7. \A n \in 1 .. Len(cur.runs) : q[n] = cur.runs[n]
  BY <1>2, <1>5, <1>6
<1>8. ASSUME NEW n \in 1 .. Len(q), n \notin 1 .. Len(cur.runs)
      PROVE  \E k \in 1 .. Len(new.runs) : q[n] = new.runs[k]
  <2> DEFINE a == Len(cur.runs)
             o == Len(old.runs)
             w == Len(new.runs)
             j == n - a
  <2>1. a \in Nat /\ o \in Nat /\ w \in Nat /\ o <= w /\ n \in 1 .. a + (w - o) /\ n \notin 1 .. a
    BY <1>2, <1>4, <1>5, <1>8
  <2>2. \A x \in 1 .. w - o : b[x] = new.runs[o + x]
    BY <1>4
  <2>3. \A x \in 1 .. a + (w - o) : x > a => q[x] = b[x - a]
    <3>1. \A x \in 1 .. a + Len(b) : q[x] = IF x <= a THEN cur.runs[x] ELSE b[x - a]
      BY <1>5
    <3>2. Len(b) = w - o
      BY <1>4
    <3> HIDE DEF a, o, w
    <3> QED
      BY <2>1, <3>1, <3>2
  <2> HIDE DEF a, o, w
  <2>4. j \in 1 .. w - o /\ o + j \in 1 .. w /\ n > a
    BY <2>1
  <2>5. q[n] = new.runs[o + j]
    BY <2>1, <2>2, <2>3, <2>4
  <2> QED
    BY <2>4, <2>5 DEF w
<1>9. Len(cur.runs) <= Len(q)
  BY <1>2, <1>5, <1>6
<1> QED
  BY <1>5, <1>7, <1>8, <1>9 DEF q, b, RunsFit

\* A commit keeps what the tables have, and they stay sound.
LEMMA MergedWrites ==
    ASSUME NEW cur, NEW old, NEW new, Sound(cur), Sound(old), Sound(new), Grown(old, cur), Grown(old, new),
           Free(cur, old, new)
    PROVE  Writes(cur, Merged(cur, old, new))
<1> DEFINE d == Merged(cur, old, new)
           docs  == Rows(cur.docs, old.docs, new.docs)
           jobs  == Rows(cur.jobs, old.jobs, new.jobs)
           leads == Rows(cur.leads, old.leads, new.leads)
           sigs  == Rows(cur.sigs, old.sigs, new.sigs)
           runs  == cur.runs \o SubSeq(new.runs, Len(old.runs) + 1, Len(new.runs))
<1>1. Shaped(cur) /\ Shaped(old) /\ Shaped(new)
  BY DEF Sound
<1>2. TablesMerged(d, cur, old, new) /\ docs = Rows(cur.docs, old.docs, new.docs)
      /\ jobs = Rows(cur.jobs, old.jobs, new.jobs) /\ leads = Rows(cur.leads, old.leads, new.leads)
      /\ sigs = Rows(cur.sigs, old.sigs, new.sigs)
      /\ runs = cur.runs \o SubSeq(new.runs, Len(old.runs) + 1, Len(new.runs))
  BY <1>1, MergedTables
<1>3. /\ \A x \in DOMAIN docs : /\ docs[x] = [run |-> docs[x].run, extracted |-> docs[x].extracted]
                                /\ docs[x].extracted \in BOOLEAN
      /\ \A x \in DOMAIN cur.docs : x \in DOMAIN docs /\ (cur.docs[x].extracted => docs[x].extracted)
      /\ \A x \in DOMAIN new.docs : x \in DOMAIN docs /\ (new.docs[x].extracted => docs[x].extracted)
  BY <1>1, DocsMerged
<1>4. /\ \A j \in DOMAIN jobs : jobs[j] = [id |-> jobs[j].id]
      /\ \A j \in DOMAIN cur.jobs : j \in DOMAIN jobs /\ jobs[j] = cur.jobs[j]
      /\ \A j \in DOMAIN new.jobs : j \in DOMAIN jobs /\ jobs[j] = new.jobs[j]
  BY <1>1, JobsMerged
<1>5. LeadsFit(leads, cur, new)
  BY LeadsMerged
<1>6. DOMAIN sigs = DOMAIN cur.sigs \cup DOMAIN new.sigs
  BY RowsDomain
<1>7. RunsFit(runs, cur, new)
  BY <1>1, RunsOfBoth
<1> HIDE DEF d, docs, jobs, leads, sigs, runs
<1>8. /\ d = [src |-> d.src, runs |-> d.runs, docs |-> d.docs, leads |-> d.leads, sigs |-> d.sigs,
              companies |-> d.companies, jobs |-> d.jobs]
      /\ d.src = Rows(cur.src, old.src, new.src)
      /\ d.runs = runs /\ d.docs = docs /\ d.sigs = sigs /\ d.leads = leads /\ d.jobs = jobs
  BY <1>2 DEF TablesMerged
<1>a. DOMAIN d.src \subseteq Ids
  <2>1. DOMAIN d.src = DOMAIN cur.src \cup DOMAIN new.src
    <3>1. DOMAIN Rows(cur.src, old.src, new.src) = DOMAIN cur.src \cup DOMAIN new.src
      BY RowsDomain
    <3>2. d.src = Rows(cur.src, old.src, new.src)
      BY <1>8
    <3> QED
      BY <3>1, <3>2
  <2>2. DOMAIN cur.src \subseteq Ids /\ DOMAIN new.src \subseteq Ids
    BY <1>1 DEF Shaped
  <2> QED
    BY <2>1, <2>2
<1>9. Shaped(d)
  BY <1>8, <1>a, <1>3, <1>4, <1>5, <1>7 DEF Shaped, LeadsFit, RunsFit
<1>10. Grown(cur, d)
  BY <1>8, <1>3, <1>4, <1>5, <1>6, <1>7 DEF Grown, LeadsFit, RunsFit
<1>11. Linked(d)
  <2> SUFFICES ASSUME NEW k \in DOMAIN leads, leads[k].job # NoJob
               PROVE  Identity(k) \in DOMAIN jobs /\ jobs[Identity(k)].id = leads[k].job
    BY <1>8 DEF Linked
  <2>1. CASE k \in DOMAIN cur.leads /\ leads[k].job = cur.leads[k].job
    BY <2>1, <1>4 DEF Sound, Linked
  <2>2. CASE k \in DOMAIN new.leads /\ leads[k].job = new.leads[k].job
    BY <2>2, <1>4 DEF Sound, Linked
  <2> QED
    BY <2>1, <2>2, <1>5 DEF LeadsFit
<1>12. \A s, i, silent :
           EntryDone(cur, s, i, silent) \/ EntryDone(new, s, i, silent) => EntryDone(d, s, i, silent)
  BY <1>8, <1>3, <1>6 DEF EntryDone
<1>13. Complete(d)
  <2> SUFFICES ASSUME NEW n \in 1 .. Len(runs), runs[n].status = "succeeded", NEW i \in runs[n].entries
               PROVE  EntryDone(d, runs[n].src, i, runs[n].silent)
    BY <1>8 DEF Complete
  <2>1. CASE n \in 1 .. Len(cur.runs)
    BY <2>1, <1>7, <1>12 DEF Sound, Complete, RunsFit
  <2>2. CASE \E k \in 1 .. Len(new.runs) : runs[n] = new.runs[k]
    BY <2>2, <1>12 DEF Sound, Complete
  <2> QED
    BY <2>1, <2>2, <1>7 DEF RunsFit
<1> QED
  BY <1>9, <1>10, <1>11, <1>13 DEF Writes, Sound, d

----------------------------------------------------------------------------
(* The inductive invariant, action by action.                              *)

TxOk(r) == Sound(tx[r].db) /\ Grown(tx[r].db, db) /\ tx[r].due \subseteq Ids /\ IsFiniteSet(tx[r].due)

IInv ==
    /\ Sound(db)
    /\ due \subseteq Ids /\ IsFiniteSet(due)
    /\ tx = [r \in Requests |-> tx[r]]
    /\ \A r \in Requests : TxOk(r)

\* What an action of request r does: it commits what a transaction may make of what it read.
Doing(r) == \E new, synced : Writes(View(r), new) /\ Commit(r, new, synced)

LEMMA SoundEmpty ==
    Sound(Empty) /\ \A d : Sound(d) => Grown(Empty, d)
<1>1. /\ DOMAIN Empty.src = {} /\ DOMAIN Empty.docs = {} /\ DOMAIN Empty.leads = {}
      /\ DOMAIN Empty.sigs = {} /\ DOMAIN Empty.jobs = {} /\ Empty.runs = <<>>
  BY DEF Empty
<1>2. Len(<<>>) = 0 /\ <<>> \in Seq(RunRows)
  OBVIOUS
<1>3. Shaped(Empty)
  <2>1. Empty = [src |-> Empty.src, runs |-> Empty.runs, docs |-> Empty.docs, leads |-> Empty.leads,
                 sigs |-> Empty.sigs, companies |-> Empty.companies, jobs |-> Empty.jobs]
    BY DEF Empty
  <2> QED
    BY <1>1, <1>2, <2>1 DEF Shaped
<1>4. Complete(Empty) /\ Linked(Empty)
  BY <1>1, <1>2 DEF Complete, Linked
<1>5. ASSUME NEW d, Sound(d)
      PROVE  Grown(Empty, d)
  <2>1. Len(d.runs) \in Nat
    BY <1>5, LenProperties DEF Sound, Shaped
  <2> QED
    BY <1>1, <1>2, <2>1 DEF Grown
<1> QED
  BY <1>3, <1>4, <1>5 DEF Sound

LEMMA Initially ==
    Init => IInv
<1> SUFFICES ASSUME Init
             PROVE  IInv
  OBVIOUS
<1>1. PICK i \in Ids, n \in Names, k \in Kinds :
          /\ db = [Empty EXCEPT !.src = Inserted(@, {i}, [name |-> n, kind |-> k, enabled |-> TRUE])]
          /\ due = {i}
  BY DEF Init
<1>2. DOMAIN Inserted(Empty.src, {i}, [name |-> n, kind |-> k, enabled |-> TRUE]) \subseteq Ids
  BY DEF Inserted, Empty
<1>3. Sound(db)
  BY <1>1, <1>2, SoundEmpty, SourceWrites DEF Writes
<1>4. due \subseteq Ids /\ IsFiniteSet(due)
  BY <1>1, FS_Singleton
<1>5. \A r \in Requests : tx[r].db = Empty /\ tx[r].due = {}
  BY DEF Init, Idle
<1>6. tx = [r \in Requests |-> tx[r]]
  BY DEF Init
<1>7. \A r \in Requests : TxOk(r)
  BY <1>3, <1>5, SoundEmpty, FS_EmptySet DEF TxOk
<1> QED
  BY <1>3, <1>4, <1>6, <1>7 DEF IInv

LEMMA CommitKeeps ==
    ASSUME IInv, NEW r \in Requests, NEW new, NEW synced, Writes(View(r), new), Commit(r, new, synced)
    PROVE  IInv' /\ Grown(db, db')
<1>1. Sound(db) /\ \A q \in Requests : TxOk(q)
  BY DEF IInv
<1>2. Sound(tx[r].db) /\ Sound(new) /\ Grown(tx[r].db, db) /\ Grown(tx[r].db, new)
  BY <1>1 DEF TxOk, Writes, View
<1>3. DOMAIN db = {"src", "runs", "docs", "leads", "sigs", "companies", "jobs"}
  BY <1>1 DEF Sound, Shaped
<1>4. Free(db, tx[r].db, new)
  <2>1. \A t \in DOMAIN db \ {"runs"} : KeysFree(db[t], tx[r].db[t], new[t])
    BY DEF Commit
  <2>2. /\ "docs" \in DOMAIN db \ {"runs"} /\ "sigs" \in DOMAIN db \ {"runs"}
        /\ "leads" \in DOMAIN db \ {"runs"} /\ "jobs" \in DOMAIN db \ {"runs"}
    BY <1>3
  <2> QED
    BY <2>1, <2>2 DEF Free
<1>5. Writes(db, db')
  BY <1>1, <1>2, <1>4, MergedWrites DEF Commit
<1>6. due' \subseteq Ids /\ IsFiniteSet(due')
  <2>1. due' = due \ synced /\ due \subseteq Ids /\ IsFiniteSet(due)
    BY DEF Commit, IInv
  <2> QED
    BY <2>1, FS_Subset
<1>7. tx' = [tx EXCEPT ![r] = Idle] /\ tx = [q \in Requests |-> tx[q]]
  BY DEF Commit, IInv
<1>8. \A q \in Requests : tx'[q] = IF q = r THEN Idle ELSE tx[q]
  BY <1>7
<1>9. tx' = [q \in Requests |-> tx'[q]]
  BY <1>7
<1>10. ASSUME NEW q \in Requests
       PROVE  TxOk(q)'
  <2>1. CASE q = r
    <3>1. tx'[q].db = Empty /\ tx'[q].due = {}
      BY <1>8, <2>1 DEF Idle
    <3> QED
      BY <3>1, <1>5, SoundEmpty, FS_EmptySet DEF TxOk, Writes
  <2>2. CASE q # r
    <3>1. Grown(tx[q].db, db')
      BY <1>1, <1>5, GrownOn DEF TxOk, Writes, Sound
    <3> QED
      BY <1>1, <1>8, <2>2, <3>1 DEF TxOk
  <2> QED
    BY <2>1, <2>2
<1> QED
  BY <1>5, <1>6, <1>9, <1>10 DEF IInv, Writes

\* What does not commit.
LEMMA OtherKeeps ==
    ASSUME IInv, NEW r \in Requests, Begin(r) \/ RollBack(r) \/ IntervalPasses
    PROVE  IInv' /\ Grown(db, db')
<1>1. Sound(db) /\ \A q \in Requests : TxOk(q)
  BY DEF IInv
<1>2. db' = db
  BY DEF Begin, RollBack, IntervalPasses
<1>3. Grown(db, db)
  BY <1>1, WritesNothing DEF Writes
<1>4. due' \subseteq Ids /\ IsFiniteSet(due')
  <2>1. CASE due' = due
    BY <2>1 DEF IInv
  <2>2. CASE IntervalPasses
    <3>1. PICK i \in DOMAIN db.src : due' = due \cup {i}
      BY <2>2 DEF IntervalPasses
    <3>2. i \in Ids
      BY <1>1 DEF Sound, Shaped
    <3> QED
      BY <3>1, <3>2, FS_AddElement DEF IInv
  <2> QED
    BY <2>1, <2>2 DEF Begin, RollBack
<1>5. \/ tx' = tx
      \/ \E new : /\ tx' = [tx EXCEPT ![r] = new]
                  /\ Sound(new.db) /\ Grown(new.db, db) /\ new.due \subseteq Ids /\ IsFiniteSet(new.due)
  <2>1. CASE IntervalPasses
    BY <2>1 DEF IntervalPasses
  <2>2. CASE Begin(r)
    <3> DEFINE new == [open |-> TRUE, db |-> db, due |-> due]
    <3>1. new.db = db /\ new.due = due /\ tx' = [tx EXCEPT ![r] = new]
      BY <2>2 DEF Begin
    <3> HIDE DEF new
    <3> QED
      BY <1>1, <1>3, <3>1 DEF IInv
  <2>3. CASE RollBack(r)
    <3>1. Idle.db = Empty /\ Idle.due = {} /\ tx' = [tx EXCEPT ![r] = Idle]
      BY <2>3 DEF RollBack, Idle
    <3> QED
      BY <1>1, <3>1, SoundEmpty, FS_EmptySet
  <2> QED
    BY <2>1, <2>2, <2>3
<1>6. tx = [q \in Requests |-> tx[q]]
  BY DEF IInv
<1>7. CASE tx' = tx
  BY <1>1, <1>2, <1>3, <1>4, <1>7 DEF IInv, TxOk
<1>8. ASSUME NEW new, tx' = [tx EXCEPT ![r] = new],
             Sound(new.db), Grown(new.db, db), new.due \subseteq Ids, IsFiniteSet(new.due)
      PROVE  IInv' /\ Grown(db, db')
  <2>1. tx' = [q \in Requests |-> tx'[q]] /\ \A q \in Requests : tx'[q] = IF q = r THEN new ELSE tx[q]
    BY <1>6, <1>8
  <2>2. \A q \in Requests : TxOk(q)'
    BY <1>1, <1>2, <1>8, <2>1 DEF TxOk
  <2> QED
    BY <1>1, <1>2, <1>3, <1>4, <2>1, <2>2 DEF IInv
<1> QED
  BY <1>5, <1>7, <1>8

\* What a request has read.
LEMMA ViewSound ==
    ASSUME IInv, NEW r \in Requests
    PROVE  Sound(View(r)) /\ DOMAIN View(r).src \subseteq Ids
  BY DEF IInv, TxOk, View, Sound, Shaped

LEMMA CreateSourceDoes ==
    ASSUME IInv, NEW r \in Requests, CreateSource(r)
    PROVE  Doing(r)
<1> DEFINE v == View(r)
           row(n, k) == [name |-> n, kind |-> k, enabled |-> TRUE]
           same(n) == {i \in DOMAIN v.src : v.src[i].name = n}
<1>1. Sound(v) /\ DOMAIN v.src \subseteq Ids
  BY ViewSound
<1>2. PICK n \in Names, k \in Kinds :
          \/ \E i \in Ids \ DOMAIN db.src : /\ same(n) = {}
                                            /\ Commit(r, [v EXCEPT !.src = Inserted(@, {i}, row(n, k))], {})
          \/ \E i \in same(n) : Commit(r, IF v.src[i].enabled THEN v ELSE [v EXCEPT !.src[i] = row(n, k)], {})
  BY DEF CreateSource
<1> HIDE DEF v
<1>3. ASSUME NEW i \in Ids, Commit(r, [v EXCEPT !.src = Inserted(@, {i}, row(n, k))], {})
      PROVE  Doing(r)
  <2> DEFINE d == [v EXCEPT !.src = Inserted(v.src, {i}, row(n, k))]
  <2>1. DOMAIN Inserted(v.src, {i}, row(n, k)) \subseteq Ids
    BY <1>1 DEF Inserted
  <2>2. Writes(v, d)
    BY <1>1, <2>1, SourceWrites
  <2>3. Commit(r, d, {})
    BY <1>3
  <2> HIDE DEF d
  <2> QED
    BY <2>2, <2>3 DEF Doing, v
<1>4. ASSUME NEW i \in same(n), Commit(r, IF v.src[i].enabled THEN v ELSE [v EXCEPT !.src[i] = row(n, k)], {})
      PROVE  Doing(r)
  <2> DEFINE src == [v.src EXCEPT ![i] = row(n, k)]
             d == [v EXCEPT !.src = src]
  <2>1. Writes(v, v)
    BY <1>1, WritesNothing
  <2>2. Writes(v, d)
    BY <1>1, SourceWrites
  <2>3. Commit(r, v, {}) \/ Commit(r, d, {})
    BY <1>4
  <2> HIDE DEF d
  <2> QED
    BY <2>1, <2>2, <2>3 DEF Doing, v
<1> QED
  BY <1>2, <1>3, <1>4

LEMMA UpdateSourceDoes ==
    ASSUME IInv, NEW r \in Requests, UpdateSource(r) \/ DisableSource(r)
    PROVE  Doing(r)
<1> DEFINE v == View(r)
<1>1. Sound(v) /\ DOMAIN v.src \subseteq Ids
  BY ViewSound
<1>2. PICK i \in DOMAIN v.src : \E row : Commit(r, [v EXCEPT !.src[i] = row], {})
  <2>1. CASE UpdateSource(r)
    BY <2>1 DEF UpdateSource
  <2>2. CASE DisableSource(r)
    <3>1. PICK i \in DOMAIN View(r).src : Commit(r, [View(r) EXCEPT !.src[i].enabled = FALSE], {})
      BY <2>2 DEF DisableSource
    <3> DEFINE row == [v.src[i] EXCEPT !.enabled = FALSE]
    <3>2. Commit(r, [v EXCEPT !.src[i] = row], {})
      BY <3>1
    <3> HIDE DEF row
    <3> QED
      BY <3>2
  <2> QED
    BY <2>1, <2>2
<1>3. PICK row : Commit(r, [v EXCEPT !.src[i] = row], {})
  BY <1>2
<1> HIDE DEF v
<1> DEFINE d == [v EXCEPT !.src = [v.src EXCEPT ![i] = row]]
<1>4. Writes(v, d)
  BY <1>1, SourceWrites
<1>5. Commit(r, d, {})
  BY <1>3
<1> HIDE DEF d
<1> QED
  BY <1>4, <1>5 DEF Doing, v

LEMMA SyncSourceDoes ==
    ASSUME IInv, NEW r \in Requests, SyncSource(r)
    PROVE  Doing(r)
<1> DEFINE v == View(r)
<1>1. Sound(v) /\ DOMAIN v.src \subseteq Ids
  BY ViewSound
<1>2. PICK s \in DOMAIN v.src : \E new \in SyncOutcomes(v, s, RunId(r)) : Commit(r, new, {s})
  BY DEF SyncSource
<1>3. PICK new \in SyncOutcomes(v, s, RunId(r)) : Commit(r, new, {s})
  BY <1>2
<1> HIDE DEF v
<1> DEFINE run == RunId(r)
<1> HIDE DEF run
<1>4. s \in Ids
  BY <1>1
<1>5. \/ new = FetchFailed(v, s)
      \/ \E n \in Articles : \E f : new = WeChatSync(v, s, run, n, f)
      \/ \E n \in Openings : \E b : new = OfficialSync(v, s, run, n, b)
      \/ \E n \in CareerEntries : \E f : new = UniversitySync(v, s, run, n, f)
  BY <1>3 DEF SyncOutcomes, run
<1>6. Writes(v, new)
  <2>1. Articles \subseteq Nat /\ Openings \subseteq Nat /\ CareerEntries \subseteq Nat
    BY DEF Articles, Openings, CareerEntries
  <2> QED
    BY <1>1, <1>4, <1>5, <2>1, FailedWrites, WeChatWrites, OfficialWrites, UniversityWrites DEF FetchFailed
<1> QED
  BY <1>3, <1>6 DEF Doing, v

LEMMA SyncOfferioDoes ==
    ASSUME IInv, NEW r \in Requests, SyncOfferio(r)
    PROVE  Doing(r)
<1> DEFINE v == View(r)
<1>1. Sound(v) /\ DOMAIN v.src \subseteq Ids
  BY ViewSound
<1>2. PICK found \in OfferioSource(v), n \in Openings, fails \in BOOLEAN :
          Commit(r, OfficialSync(found[2], found[1], RunId(r), n, fails), {found[1]})
  BY DEF SyncOfferio
<1> HIDE DEF v
<1>3. found[1] \in Ids /\ Writes(v, found[2])
  <2> DEFINE row == [name |-> OfferioName, kind |-> "official", enabled |-> TRUE]
  <2>1. \/ \E i \in Ids : found = <<i, [v EXCEPT !.src = Inserted(@, {i}, row)]>>
        \/ \E i \in DOMAIN v.src : found = <<i, [v EXCEPT !.src[i].kind = "official", !.src[i].enabled = TRUE]>>
    BY DEF OfferioSource
  <2>2. ASSUME NEW i \in Ids, found = <<i, [v EXCEPT !.src = Inserted(@, {i}, row)]>>
        PROVE  found[1] \in Ids /\ Writes(v, found[2])
    <3> DEFINE d == [v EXCEPT !.src = Inserted(v.src, {i}, row)]
    <3>1. DOMAIN Inserted(v.src, {i}, row) \subseteq Ids
      BY <1>1 DEF Inserted
    <3>2. Writes(v, d)
      BY <1>1, <3>1, SourceWrites
    <3>3. found = <<i, d>>
      BY <2>2
    <3> HIDE DEF d
    <3> QED
      BY <3>2, <3>3
  <2>3. ASSUME NEW i \in DOMAIN v.src,
               found = <<i, [v EXCEPT !.src[i].kind = "official", !.src[i].enabled = TRUE]>>
        PROVE  found[1] \in Ids /\ Writes(v, found[2])
    <3> DEFINE d == [v EXCEPT !.src[i].kind = "official", !.src[i].enabled = TRUE]
               mid == [v EXCEPT !.src = [v.src EXCEPT ![i] = [v.src[i] EXCEPT !.kind = "official"]]]
               end == [mid EXCEPT !.src = [mid.src EXCEPT ![i] = [mid.src[i] EXCEPT !.enabled = TRUE]]]
    <3>1. d = end
      OBVIOUS
    <3>2. Writes(v, mid)
      BY <1>1, SourceWrites
    <3>3. DOMAIN mid.src = DOMAIN v.src
      BY <1>1 DEF Sound, Shaped
    <3> HIDE DEF mid
    <3>4. Writes(mid, end)
      BY <1>1, <3>2, <3>3, SourceWrites DEF Writes
    <3> HIDE DEF end
    <3>5. Writes(v, end)
      BY <1>1, <3>2, <3>4, WritesOn
    <3>6. found = <<i, d>>
      BY <2>3
    <3> HIDE DEF d
    <3> QED
      BY <1>1, <3>1, <3>5, <3>6
  <2> QED
    BY <2>1, <2>2, <2>3
<1>4. n \in Nat
  BY DEF Openings
<1> DEFINE new == OfficialSync(found[2], found[1], RunId(r), n, fails)
<1>5. Writes(found[2], new)
  BY <1>3, <1>4, OfficialWrites DEF Writes
<1>6. Commit(r, new, {found[1]})
  BY <1>2
<1> HIDE DEF new
<1>7. Writes(v, new)
  BY <1>1, <1>3, <1>5, WritesOn
<1> QED
  BY <1>6, <1>7 DEF Doing, v

LEMMA SyncDueDoes ==
    ASSUME IInv, NEW r \in Requests, SyncDueSources(r)
    PROVE  Doing(r)
<1> DEFINE v == View(r)
           S == DueSources(r)
<1>1. Sound(v) /\ DOMAIN v.src \subseteq Ids
  BY ViewSound
<1>2. PICK q \in SetToSeqs(S), n \in CareerEntries, site \in [S -> Sites] :
          \E f \in Extractions(n) : Commit(r, DueSyncs(v, q, RunId(r), n, f, site), Synced(v, q, site))
  BY DEF SyncDueSources
<1>3. PICK f : Commit(r, DueSyncs(v, q, RunId(r), n, f, site), Synced(v, q, site))
  BY <1>2
<1>4. S \subseteq Ids /\ Cardinality(S) \in Nat
  <2>1. S \subseteq tx[r].due /\ tx[r].due \subseteq Ids /\ IsFiniteSet(tx[r].due)
    BY DEF DueSources, IInv, TxOk
  <2> HIDE DEF S
  <2>2. IsFiniteSet(S)
    BY <2>1, FS_Subset
  <2> QED
    BY <2>1, <2>2, FS_CardinalityType
<1> HIDE DEF v, S
<1>5. q \in Seq(Ids)
  <2>1. q \in [1 .. Cardinality(S) -> S]
    BY DEF SetToSeqs
  <2> QED
    BY <1>4, <2>1
<1>6. n \in Nat
  BY DEF CareerEntries
<1> DEFINE new == DueSyncs(v, q, RunId(r), n, f, site)
<1>7. Writes(v, new)
  BY <1>1, <1>5, <1>6, DueWrites
<1>8. Commit(r, new, Synced(v, q, site))
  BY <1>3
<1> HIDE DEF new
<1> QED
  BY <1>7, <1>8 DEF Doing, v

LEMMA LeadsDo ==
    ASSUME IInv, NEW r \in Requests, ExtractLeads(r) \/ CaptureRaw(r) \/ CreateLead(r) \/ SyncJobs(r)
    PROVE  Doing(r)
<1> DEFINE v == View(r)
<1>1. Sound(v)
  BY ViewSound
<1>2. \/ \E s, i, found : Commit(r, Entry(v, s, i, 0, found), {})
      \/ \E s, i : Commit(r, Captured(v, "raw", s, i, 0), {})
      \/ \E s, h : Commit(r, LeadsCreated(v, s, {h}), {})
      \/ Commit(r, ImportJob(v, <<"api">>, FreshJob), {})
  BY DEF ExtractLeads, CaptureRaw, CreateLead, SyncJobs
<1> HIDE DEF v
<1>3. /\ \A s, i, found : Writes(v, Entry(v, s, i, 0, found))
      /\ \A s, i : Writes(v, Captured(v, "raw", s, i, 0))
      /\ \A s, h : Writes(v, LeadsCreated(v, s, {h}))
      /\ Writes(v, ImportJob(v, <<"api">>, FreshJob))
  BY <1>1, EntryWrites, CapturedWrites, LeadsWrites, ImportWrites
<1> QED
  BY <1>2, <1>3 DEF Doing, v

\* A reviewer or a tool sets the status of a lead.
LEMMA StatusDoes ==
    ASSUME IInv, NEW r \in Requests, VerifyLead(r) \/ DeleteLead(r)
    PROVE  Doing(r)
<1> DEFINE v == View(r)
<1>1. Sound(v)
  BY ViewSound
<1>2. PICK k \in DOMAIN v.leads : \E st : Commit(r, [v EXCEPT !.leads[k].status = st], {})
  BY DEF VerifyLead, DeleteLead
<1>3. PICK st : Commit(r, [v EXCEPT !.leads[k].status = st], {})
  BY <1>2
<1> HIDE DEF v
<1> DEFINE d == [v EXCEPT !.leads[k].status = st]
           row == [status |-> st, job |-> v.leads[k].job]
<1>4. v.leads[k] = [status |-> v.leads[k].status, job |-> v.leads[k].job]
  BY <1>1 DEF Sound, Shaped
<1>5. [v.leads[k] EXCEPT !.status = st] = row
  BY <1>4
<1>6. d = [v EXCEPT !.leads[k] = row]
  BY <1>5
<1> HIDE DEF row
<1>7. Writes(v, d)
  <2>1. d = [v EXCEPT !.leads[k] = [status |-> st, job |-> v.leads[k].job]]
    BY <1>6 DEF row
  <2> HIDE DEF d
  <2> QED
    BY <1>1, <2>1, LeadWrites
<1>8. Commit(r, d, {})
  BY <1>3
<1> HIDE DEF d
<1> QED
  BY <1>7, <1>8 DEF Doing, v

LEMMA ConvertDoes ==
    ASSUME IInv, NEW r \in Requests, ConvertLead(r) \/ VerifyAndConvert(r)
    PROVE  Doing(r)
<1> DEFINE v == View(r)
<1>1. Sound(v)
  BY ViewSound
<1>2. PICK k \in DOMAIN v.leads : Commit(r, v, {}) \/ Commit(r, Converted(v, k, FreshJob), {})
  BY DEF ConvertLead, VerifyAndConvert
<1> HIDE DEF v
<1>3. Writes(v, v) /\ Writes(v, Converted(v, k, FreshJob))
  BY <1>1, WritesNothing, ConvertedWrites
<1> QED
  BY <1>2, <1>3 DEF Doing, v

LEMMA StepKeeps ==
    ASSUME IInv, [Next]_vars
    PROVE  IInv' /\ Grown(db, db')
<1>1. CASE UNCHANGED vars
  <2>1. Grown(db, db)
    BY WritesNothing DEF IInv, Writes
  <2> QED
    BY <1>1, <2>1 DEF vars, IInv, TxOk
<1>2. CASE IntervalPasses /\ Requests = {}
  <2>1. due' \subseteq Ids /\ IsFiniteSet(due') /\ UNCHANGED <<db, tx>>
    <3>1. PICK i \in DOMAIN db.src : due' = due \cup {i}
      BY <1>2 DEF IntervalPasses
    <3>2. i \in Ids
      BY DEF IInv, Sound, Shaped
    <3> QED
      BY <1>2, <3>1, <3>2, FS_AddElement DEF IInv, IntervalPasses
  <2>2. Grown(db, db)
    BY WritesNothing DEF IInv, Writes
  <2> QED
    BY <1>2, <2>1, <2>2 DEF IInv
<1>3. ASSUME NEW r \in Requests, Begin(r) \/ RollBack(r) \/ IntervalPasses
      PROVE  IInv' /\ Grown(db, db')
  BY <1>3, OtherKeeps
<1>4. ASSUME NEW r \in Requests, Doing(r)
      PROVE  IInv' /\ Grown(db, db')
  BY <1>4, CommitKeeps DEF Doing
<1>5. ASSUME Next
      PROVE  \/ IntervalPasses
             \/ \E r \in Requests : Begin(r) \/ RollBack(r) \/ Doing(r)
  <2>1. ASSUME NEW r \in Requests,
               \/ CreateSource(r) \/ UpdateSource(r) \/ DisableSource(r)
               \/ SyncSource(r) \/ SyncOfferio(r) \/ SyncDueSources(r)
               \/ ExtractLeads(r) \/ CaptureRaw(r) \/ CreateLead(r)
               \/ VerifyLead(r) \/ DeleteLead(r) \/ ConvertLead(r) \/ VerifyAndConvert(r) \/ SyncJobs(r)
        PROVE  Doing(r)
    BY <2>1, CreateSourceDoes, UpdateSourceDoes, SyncSourceDoes, SyncOfferioDoes, SyncDueDoes,
       LeadsDo, StatusDoes, ConvertDoes
  <2> QED
    BY <1>5, <2>1 DEF Next
<1> QED
  BY <1>1, <1>2, <1>3, <1>4, <1>5

\* What is committed has its shape, every succeeded run is complete, and a lead
\* and its job agree.
THEOREM TablesStaySound == Spec => [](Sound(db))
<1>1. Init => IInv
  BY Initially
<1>2. IInv /\ [Next]_vars => IInv'
  BY StepKeeps
<1>3. IInv => Sound(db)
  BY DEF IInv
<1> QED
  BY <1>1, <1>2, <1>3, PTL DEF Spec

\* A run that succeeded left nothing half done (the end of each sync in
\* workflows/job_discovery.py), whatever was synchronised, extracted or
\* imported beside it.
THEOREM SucceededRunsAreComplete == Spec => []SucceededRunIsComplete
<1>1. Sound(db) => SucceededRunIsComplete
  BY DEF Sound, Complete, EntryDone, SucceededRunIsComplete
<1> QED
  BY <1>1, TablesStaySound, PTL

\* A lead that became a job stays that job (convert_verified_lead_to_job,
\* verify_and_convert, import_job), also when two requests convert it at once.
THEOREM JobsOfLeadsAreFinal == Spec => JobOfLeadIsFinal
<1>1. Init => IInv
  BY Initially
<1>2. IInv /\ [Next]_vars => IInv'
  BY StepKeeps
<1>3. IInv /\ [Next]_vars
        => [\A k \in DOMAIN db.leads : db.leads[k].job # NoJob => db.leads'[k].job = db.leads[k].job]_vars
  BY StepKeeps DEF Grown
<1> QED
  BY <1>1, <1>2, <1>3, PTL DEF Spec, JobOfLeadIsFinal

----------------------------------------------------------------------------
(* The paging.                                                             *)

LEMMA Products ==
    ASSUME NEW x \in Nat, NEW y \in Nat, NEW s \in Nat \ {0}
    PROVE  /\ x * s \in Nat
           /\ x <= y => x * s <= y * s
           /\ x * s < y * s => x < y
<1>1. \A d, z \in Nat : (z + d) * s = z * s + d * s /\ d * s \in Nat
  OBVIOUS
<1>2. x <= y => x * s <= y * s
  <2> SUFFICES ASSUME x <= y
               PROVE  x * s <= y * s
    OBVIOUS
  <2>1. y - x \in Nat /\ y = x + (y - x)
    OBVIOUS
  <2> QED
    BY <1>1, <2>1
<1>3. y <= x => y * s <= x * s
  <2> SUFFICES ASSUME y <= x
               PROVE  y * s <= x * s
    OBVIOUS
  <2>1. x - y \in Nat /\ x = y + (x - y)
    OBVIOUS
  <2> QED
    BY <1>1, <2>1
<1> QED
  BY <1>1, <1>2, <1>3

\* How many pages of s entries it takes for n.
LEMMA PagesFor ==
    ASSUME NEW n \in Nat, NEW s \in Nat \ {0}
    PROVE  LET a == (n + s - 1) \div s
           IN  a \in Nat /\ n <= a * s /\ a * s < n + s
<1> DEFINE m == n + s - 1
           a == m \div s
<1>1. m \in Nat
  OBVIOUS
<1> HIDE DEF m
<1>2. a \in Nat /\ a * s <= m /\ m < a * s + s
  BY <1>1
<1> HIDE DEF a
<1> QED
  BY <1>2 DEF m, a

\* What a service with pages of per entries must say.
Honest(told, per, size) == (told = "pages" /\ per <= size) \/ (told = "total" /\ per = size)

\* A page is the last one iff the entries end with it.
LEMMA LastPage ==
    ASSUME NEW n \in Nat, NEW per \in Nat \ {0}, NEW size \in Nat \ {0}, NEW told, NEW got, NEW p \in Nat \ {0},
           Honest(told, per, size)
    PROVE  p >= TotalPages(n, per, size, told, got) <=> n <= p * per
<1> DEFINE a == (n + per - 1) \div per
           b == (n + size - 1) \div size
<1>1. per \in Nat \ {0} /\ per <= size
  BY DEF Honest
<1>2. a \in Nat /\ n <= a * per /\ a * per < n + per
  BY <1>1, PagesFor
<1>3. b \in Nat /\ n <= b * size /\ b * size < n + size
  BY PagesFor
<1>4. TotalPages(n, per, size, told, got)
        = IF told = "pages" THEN IF n > size /\ a < b THEN b ELSE a
          ELSE IF n > size /\ 1 < b THEN b ELSE 1
  BY DEF TotalPages, Honest
<1> HIDE DEF a, b
<1>5. p >= a <=> n <= p * per
  <2>1. p >= a => a * per <= p * per
    BY <1>1, <1>2, Products
  <2>2. p * per + per = (p + 1) * per /\ p * per \in Nat /\ a * per \in Nat
    BY <1>1, <1>2
  <2>3. a * per < (p + 1) * per => a < p + 1
    BY <1>1, <1>2, Products
  <2> QED
    BY <1>1, <1>2, <2>1, <2>2, <2>3
<1>6. CASE told = "pages"
  <2>1. a * per <= a * size
    <3>1. a * size = a * per + a * (size - per) /\ a * (size - per) \in Nat
      BY <1>1, <1>2
    <3> QED
      BY <1>1, <1>2, <3>1
  <2>2. (a + 1) * size = a * size + size /\ a * size \in Nat /\ b * size \in Nat /\ a * per \in Nat
    BY <1>1, <1>2, <1>3
  <2>3. b * size < (a + 1) * size
    BY <1>1, <1>2, <1>3, <2>1, <2>2
  <2>4. b < a + 1
    BY <1>2, <1>3, <2>3, Products
  <2> QED
    BY <1>2, <1>3, <1>4, <1>5, <1>6, <2>4
<1>7. CASE told = "total" /\ per = size
  <2>1. per = size /\ told # "pages"
    BY <1>7
  <2>2. a = b
    BY <2>1 DEF a, b
  <2>3. CASE n > size
    <3>1. 1 * size < b * size
      BY <1>3, <2>3
    <3>2. 1 < b
      BY <1>3, <3>1, Products
    <3> QED
      BY <1>4, <1>5, <2>1, <2>2, <2>3, <3>2
  <2>4. CASE ~(n > size)
    <3>1. 1 * size <= p * size
      BY Products
    <3> QED
      BY <1>4, <2>1, <2>4, <3>1
  <2> QED
    BY <2>3, <2>4
<1> QED
  BY <1>6, <1>7 DEF Honest

\* What page p adds, and what the fetch returns from page p on when g says what
\* it returns from the next page on.
Got(n, per, p) == IF n <= (p - 1) * per THEN 0
                  ELSE IF n - (p - 1) * per < per THEN n - (p - 1) * per ELSE per

From(g, n, per, size, told, limit, p) ==
    IF Got(n, per, p) = 0 THEN (p - 1) * per
    ELSE IF (p - 1) * per + Got(n, per, p) >= limit THEN limit
    ELSE IF p >= TotalPages(n, per, size, told, Got(n, per, p)) THEN (p - 1) * per + Got(n, per, p)
    ELSE g[p + 1]

\* What is collected from page p on.
Collected(n, per, limit, p) == IF n <= (p - 1) * per THEN (p - 1) * per ELSE IF n < limit THEN n ELSE limit

LEMMA OnePage ==
    ASSUME NEW n \in Nat, NEW per \in Nat \ {0}, NEW size \in Nat \ {0}, NEW told, NEW limit \in Nat \ {0},
           Honest(told, per, size), NEW p \in 1 .. n + 2, NEW g,
           p \in 1 .. n + 1 => g[p + 1] = Collected(n, per, limit, p + 1)
    PROVE  From(g, n, per, size, told, limit, p) = Collected(n, per, limit, p)
<1> DEFINE before == (p - 1) * per
           got == Got(n, per, p)
           last == p >= TotalPages(n, per, size, told, got)
<1>1. per \in Nat \ {0} /\ p \in Nat \ {0} /\ p - 1 \in Nat
  OBVIOUS
<1>2. before \in Nat /\ p * per = before + per /\ (p + 1) - 1 = p
  BY <1>1
<1>3. got = IF n <= before THEN 0 ELSE IF n - before < per THEN n - before ELSE per
  BY DEF Got
<1>4. last <=> n <= before + per
  <2>1. last <=> n <= p * per
    <3> HIDE DEF got
    <3> QED
      BY <1>1, LastPage
  <2> QED
    BY <1>2, <2>1
<1>5. From(g, n, per, size, told, limit, p)
        = IF got = 0 THEN before ELSE IF before + got >= limit THEN limit
          ELSE IF last THEN before + got ELSE g[p + 1]
  BY DEF From
<1>6. Collected(n, per, limit, p) = IF n <= before THEN before ELSE IF n < limit THEN n ELSE limit
  BY DEF Collected
<1>7. p \in 1 .. n + 1 => g[p + 1] = IF n <= before + per THEN before + per ELSE IF n < limit THEN n ELSE limit
  BY <1>2 DEF Collected
<1>8. p = n + 2 => n <= before
  <2>1. p = n + 2 => 1 * (p - 1) <= per * (p - 1)
    BY <1>1, Products
  <2> QED
    BY <1>1, <2>1
<1> HIDE DEF before, got, last
<1> QED
  BY <1>1, <1>2, <1>3, <1>4, <1>5, <1>6, <1>7, <1>8

\* The fetch collects every entry up to the limit, from any service that says
\* how many pages it has, or gives its total and honours the page size.
THEOREM FetchIsComplete ==
    ASSUME NEW n \in Nat, NEW cap \in Nat \ {0}, NEW size \in Nat \ {0}, NEW told, NEW limit \in Nat \ {0},
           told = "pages" \/ (told = "total" /\ cap >= size)
    PROVE  FetchPages(n, cap, size, told, limit) = IF n < limit THEN n ELSE limit
<1> DEFINE per == IF cap < size THEN cap ELSE size
           Body(g, p) == From(g, n, per, size, told, limit, p)
           Right(g) == g = [p \in 1 .. n + 2 |-> Body(g, p)]
           c == [p \in 1 .. n + 2 |-> Collected(n, per, limit, p)]
           f == CHOOSE g : Right(g)
<1>0. per \in Nat \ {0} /\ Honest(told, per, size)
  BY DEF Honest
<1>1. \A p \in 1 .. n + 2 : Body(c, p) = c[p]
  <2> SUFFICES ASSUME NEW p \in 1 .. n + 2
               PROVE  Body(c, p) = c[p]
    OBVIOUS
  <2>1. c[p] = Collected(n, per, limit, p)
    OBVIOUS
  <2>2. p \in 1 .. n + 1 => c[p + 1] = Collected(n, per, limit, p + 1)
    OBVIOUS
  <2> HIDE DEF c, per
  <2> QED
    BY <1>0, <2>1, <2>2, OnePage
<1>2. c = [p \in 1 .. n + 2 |-> c[p]]
  OBVIOUS
<1>3. Right(c)
  <2> HIDE DEF c
  <2> QED
    BY <1>1, <1>2
<1>4. Right(f)
  <2> HIDE DEF c, Right
  <2> QED
    BY <1>3
<1>5. FetchPages(n, cap, size, told, limit) = f[1]
  BY DEF FetchPages, From, Got
<1> HIDE DEF f
<1>7. \A p \in 1 .. n + 2 : f[p] = Body(f, p)
  BY <1>4
<1> DEFINE S == {m \in Nat : m <= n + 1 => f[n + 2 - m] = Collected(n, per, limit, n + 2 - m)}
<1> HIDE DEF per
<1>8. 0 \in S
  <2>1. n + 2 \in 1 .. n + 2 /\ ~(n + 2 \in 1 .. n + 1) /\ n + 2 - 0 = n + 2
    OBVIOUS
  <2>2. Body(f, n + 2) = Collected(n, per, limit, n + 2)
    BY <1>0, <2>1, OnePage
  <2> QED
    BY <1>7, <2>1, <2>2
<1>9. \A m \in Nat : m \in S => m + 1 \in S
  <2> SUFFICES ASSUME NEW m \in Nat, m + 1 <= n + 1, f[n + 2 - m] = Collected(n, per, limit, n + 2 - m)
               PROVE  f[n + 2 - (m + 1)] = Collected(n, per, limit, n + 2 - (m + 1))
    OBVIOUS
  <2> DEFINE p == n + 2 - (m + 1)
  <2>1. p \in 1 .. n + 2 /\ p + 1 = n + 2 - m
    OBVIOUS
  <2> HIDE DEF p
  <2>2. f[p + 1] = Collected(n, per, limit, p + 1)
    BY <2>1
  <2>3. Body(f, p) = Collected(n, per, limit, p)
    BY <1>0, <2>1, <2>2, OnePage
  <2>4. f[p] = Collected(n, per, limit, p)
    BY <1>7, <2>1, <2>3
  <2> QED
    BY <2>4 DEF p
<1>10. n + 1 \in S
  <2> HIDE DEF S
  <2> QED
    BY <1>8, <1>9, NatInduct
<1>11. f[1] = Collected(n, per, limit, 1)
  <2>1. n + 2 - (n + 1) = 1
    OBVIOUS
  <2> QED
    BY <1>10, <2>1
<1>12. (1 - 1) * per = 0
  BY <1>0
<1> QED
  BY <1>5, <1>11, <1>12 DEF Collected

\* The paging of the services of the runs (_fetch_offerio_pages).
THEOREM PagesAreComplete == MCSpec => []PagesComplete
<1> DEFINE Asked == service \in Services \cup {NoService}
<1>1. MCInit => Asked
  BY DEF MCInit
<1>2. Asked /\ [MCNext]_<<vars, service>> => Asked'
  BY DEF MCNext
<1>3. Asked => PagesComplete
  <2> SUFFICES ASSUME Asked, service.told = "pages" \/ (service.told = "total" /\ service.cap >= service.size)
               PROVE  FetchPages(service.n, service.cap, service.size, service.told, service.limit)
                        = IF service.n < service.limit THEN service.n ELSE service.limit
    BY DEF PagesComplete
  <2>1. /\ service.n \in Nat /\ service.cap \in Nat \ {0} /\ service.size \in Nat \ {0}
        /\ service.limit \in Nat \ {0}
    <3>1. CASE service \in Services
      BY <3>1 DEF Services
    <3>2. CASE service = NoService
      BY <3>2 DEF NoService
    <3> QED
      BY <3>1, <3>2
  <2> QED
    BY <2>1, FetchIsComplete
<1> QED
  BY <1>1, <1>2, <1>3, PTL DEF MCSpec

=============================================================================
