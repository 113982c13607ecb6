------------------------- MODULE ApplicationsProofs -------------------------
(***************************************************************************)
(* Proofs about the application board and the mail that moves it, for any  *)
(* number of applications, events, mails, statuses and times, while        *)
(* requests come one at a time.                                            *)
(***************************************************************************)
EXTENDS Applications, SequenceTheorems, FiniteSetTheorems, WellFoundedInduction, TLAPS

----------------------------------------------------------------------------
(* The tables.                                                             *)

\* A posting of the board has a title; what a mail is about may have none.
Idents == {<<"board", c, t>> : c \in Companies, t \in Titles}
              \cup {<<"qq_mail", c, t>> : c \in Companies, t \in Titles \cup {NoTitle}}
JobRows == [source : {"board", "qq_mail"}, company : Companies, title : Titles \cup {NoTitle}]
AppRows == [job : Idents, status : Statuses]
Reviews == {"pending", "confirmed", "rejected", "synced", None}
EventRows == [app : Nat, kind : {"created", "status", "updated", "mail"},
              from : Statuses \cup {None}, to : Statuses \cup {None}, mail : Mails \cup {None},
              review : Reviews, target : Statuses \cup {None}, sched : Int, deadline : Int]

TypedBoard(d) ==
    /\ d = [jobs |-> d.jobs, apps |-> d.apps, events |-> d.events]
    /\ DOMAIN d.jobs \subseteq Idents /\ d.jobs \in [DOMAIN d.jobs -> JobRows]
    /\ d.apps \in Seq(AppRows)
    /\ d.events \in Seq(EventRows)

\* What a request writes is what it has read and more: no row goes away.
Grown(v, d) == /\ DOMAIN v.jobs \subseteq DOMAIN d.jobs
               /\ Len(v.apps) <= Len(d.apps)
               /\ Len(v.events) <= Len(d.events)

\* All columns of a row that is updated alone are as the request has them.
LEMMA AllColumns ==
    /\ \A c, n \in JobRows : Columns(c, c, n) = n
    /\ \A c, n \in AppRows : Columns(c, c, n) = n
    /\ \A c, n \in EventRows : Columns(c, c, n) = n
<1>1. \A c, n \in JobRows : Columns(c, c, n) = n
  BY DEF Columns, JobRows
<1>2. \A c, n \in AppRows : Columns(c, c, n) = n
  BY DEF Columns, AppRows
<1>3. \A c, n \in EventRows : Columns(c, c, n) = n
  BY DEF Columns, EventRows
<1> QED
  BY <1>1, <1>2, <1>3

\* A numbered table that nobody else has changed is replaced by what the request has.
LEMMA NumberedAlone ==
    ASSUME NEW S, NEW cur \in Seq(S), NEW new \in Seq(S), Len(cur) <= Len(new),
           \A c, n \in S : Columns(c, c, n) = n
    PROVE  NumberedRows(cur, cur, new) = new
<1> DEFINE n   == Len(cur)
           old == SubSeq(new, 1, n)
           add == SubSeq(new, n + 1, Len(new))
<1>1. n \in Nat /\ Len(new) \in Nat /\ n <= Len(new)
  BY LenProperties
<1>2. old \in Seq(S) /\ Len(old) = n /\ \A k \in 1 .. n : old[k] = new[k]
  BY <1>1, SubSeqProperties
<1>3. Rows(cur, cur, old) = [k \in 1 .. n |-> new[k]]
  <2>1. DOMAIN cur = 1 .. n /\ DOMAIN old = 1 .. n
    BY <1>2, LenProperties
  <2>2. \A k \in 1 .. n : cur[k] \in S /\ new[k] \in S
    BY <1>1, ElementOfSeq
  <2>3. \A k \in 1 .. n : Columns(cur[k], cur[k], old[k]) = new[k]
    BY <1>2, <2>2
  <2> HIDE DEF n, old
  <2> QED
    BY <2>1, <2>3 DEF Rows
<1>4. old = [k \in 1 .. n |-> new[k]]
  <2>1. old = [k \in 1 .. Len(old) |-> old[k]]
    BY <1>2, LenProperties
  <2> QED
    BY <1>2, <2>1
<1>5. old \o add = new
  <2>1. new \in Seq(S) /\ 1 \in 1 .. Len(new) + 1 /\ n \in 1 - 1 .. Len(new) /\ Len(new) \in n .. Len(new)
    BY <1>1
  <2>2. SubSeq(new, 1, n) \o SubSeq(new, n + 1, Len(new)) = SubSeq(new, 1, Len(new))
    BY <2>1, ConcatAdjacentSubSeq
  <2> QED
    BY <2>2, SubSeqFull
<1> QED
  BY <1>3, <1>4, <1>5 DEF NumberedRows

LEMMA MergedAlone ==
    ASSUME TypedBoard(db), NEW d, TypedBoard(d), Grown(db, d)
    PROVE  Merged(db, d) = d
<1>1. NumberedRows(db.apps, db.apps, d.apps) = d.apps
  BY NumberedAlone, AllColumns DEF TypedBoard, Grown
<1>2. NumberedRows(db.events, db.events, d.events) = d.events
  BY NumberedAlone, AllColumns DEF TypedBoard, Grown
<1>3. Rows(db.jobs, db.jobs, d.jobs) = d.jobs
  <2> DEFINE D == DOMAIN d.jobs
  <2>1. /\ DOMAIN db.jobs \cup D = D
        /\ d.jobs = [k \in D |-> d.jobs[k]]
    BY DEF TypedBoard, Grown
  <2>2. \A k \in DOMAIN db.jobs : db.jobs[k] \in JobRows /\ d.jobs[k] \in JobRows
    BY DEF TypedBoard, Grown
  <2>3. \A k \in DOMAIN db.jobs : Columns(db.jobs[k], db.jobs[k], d.jobs[k]) = d.jobs[k]
    BY <2>2, AllColumns
  <2> QED
    BY <2>1, <2>3 DEF Rows
<1> QED
  BY <1>1, <1>2, <1>3 DEF Merged, TypedBoard

----------------------------------------------------------------------------
(* The inductive invariant, of the committed tables and of every table a   *)
(* request builds on them.                                                 *)

\* The times that were synchronised are in order, as they are stored.
Timed(e) == e.review = "synced" => ValidTimes(Naive(e.sched), Naive(e.deadline))

\* Rows refer to rows that are there.
Stored(e) == e.kind = "mail" => e.mail \in Mails /\ Timed(e)
Filed(d) ==
    /\ \A i \in DOMAIN d.jobs : d.jobs[i] = [source |-> i[1], company |-> i[2], title |-> i[3]]
    /\ \A a \in 1 .. Len(d.apps) : d.apps[a].job \in DOMAIN d.jobs
    /\ \A n \in 1 .. Len(d.events) : d.events[n].app \in 1 .. Len(d.apps)
    /\ \A n \in 1 .. Len(d.events) : Stored(d.events[n])

ChangesIn(d, a) == {n \in 1 .. Len(d.events) : d.events[n].app = a /\ d.events[n].kind \in {"created", "status"}}

\* TimelineTellsStatus, of any tables.
ShowsLast(d, a) == \E last \in ChangesIn(d, a) : /\ \A n \in ChangesIn(d, a) : n <= last
                                                 /\ d.events[last].to = d.apps[a].status
Chained(d, a) == \A n \in ChangesIn(d, a) :
    \/ d.events[n].kind = "created" /\ \A m \in ChangesIn(d, a) : n <= m
    \/ /\ d.events[n].kind = "status"
       /\ \E before \in ChangesIn(d, a) : /\ before < n /\ d.events[n].from = d.events[before].to
                                         /\ \A m \in ChangesIn(d, a) : m < n => m <= before
Explains(d) == \A a \in 1 .. Len(d.apps) : ShowsLast(d, a) /\ Chained(d, a)

Board(d) == TypedBoard(d) /\ Filed(d) /\ Explains(d)

----------------------------------------------------------------------------
(* What a step writes on the board.                                        *)

\* One event is added to the timeline.
Later(v, w, e) == /\ Len(w.events) = Len(v.events) + 1
                  /\ \A n \in 1 .. Len(v.events) : w.events[n] = v.events[n]
                  /\ w.events[Len(v.events) + 1] = e

\* The applications are those there were, for the same jobs.
SameApps(v, w) == /\ Len(w.apps) = Len(v.apps)
                  /\ \A b \in 1 .. Len(v.apps) : w.apps[b].job = v.apps[b].job

\* The status of application a is e.to, or e says nothing of it.
Moved(v, w, a, e) ==
    /\ w.jobs = v.jobs /\ SameApps(v, w)
    /\ \A b \in 1 .. Len(v.apps) : b # a => w.apps[b].status = v.apps[b].status
    /\ Later(v, w, e) /\ e.app = a /\ ~(e.kind \in {"created", "mail"})
    /\ \/ e.kind = "status" /\ e.from = v.apps[a].status /\ e.to = w.apps[a].status
       \/ e.kind # "status" /\ w.apps[a].status = v.apps[a].status

\* An application is created, with its first event.
Added(v, w, e) ==
    /\ w.jobs = v.jobs /\ Len(w.apps) = Len(v.apps) + 1
    /\ \A b \in 1 .. Len(v.apps) : w.apps[b] = v.apps[b]
    /\ Later(v, w, e) /\ e.app = Len(v.apps) + 1 /\ e.kind = "created"
    /\ w.apps[e.app].status = e.to /\ w.apps[e.app].job \in DOMAIN v.jobs

\* Places on the timeline are numbers.
LEMMA Places ==
    ASSUME NEW d, TypedBoard(d)
    PROVE  /\ Len(d.events) \in Nat /\ Len(d.apps) \in Nat
           /\ \A n \in 1 .. Len(d.events) : n \in Nat /\ d.events[n] \in EventRows
           /\ \A a \in 1 .. Len(d.apps) : a \in Nat /\ d.apps[a] \in AppRows
  BY LenProperties, ElementOfSeq DEF TypedBoard

\* A change of application a is explained by the last one before it, and that of
\* every other application stays explained.
LEMMA MovedExplained ==
    ASSUME NEW v, NEW w, NEW a \in 1 .. Len(v.apps), NEW e,
           Board(v), TypedBoard(w), Moved(v, w, a, e)
    PROVE  Explains(w) /\ Grown(v, w)
<1> DEFINE N == Len(v.events)
<1>1. N \in Nat /\ Len(w.events) = N + 1 /\ Len(v.apps) \in Nat /\ Len(w.apps) = Len(v.apps)
  BY Places DEF Board, Moved, Later, SameApps
<1>2. Grown(v, w)
  BY <1>1 DEF Grown, Moved
<1>3. \A b \in 1 .. Len(v.apps), n \in 1 .. N : n \in ChangesIn(w, b) <=> n \in ChangesIn(v, b)
  BY <1>1 DEF ChangesIn, Moved, Later
<1>4. \A b \in 1 .. Len(v.apps) : /\ ChangesIn(w, b) \subseteq 1 .. N + 1
                                  /\ ChangesIn(v, b) \subseteq 1 .. N
                                  /\ N + 1 \in ChangesIn(w, b) <=> b = a /\ e.kind = "status"
  BY <1>1 DEF ChangesIn, Moved, Later
<1> HIDE DEF N
<1>5. ASSUME NEW b \in 1 .. Len(v.apps), ~(b = a /\ e.kind = "status")
      PROVE  ShowsLast(w, b) /\ Chained(w, b)
  <2>1. ChangesIn(w, b) = ChangesIn(v, b)
    <3>1. N + 1 \notin ChangesIn(w, b)
      BY <1>4, <1>5
    <3>2. ChangesIn(w, b) \subseteq 1 .. N
      BY <1>1, <1>4, <3>1
    <3> QED
      BY <1>3, <1>4, <3>2
  <2>2. w.apps[b].status = v.apps[b].status /\ \A n \in ChangesIn(v, b) : w.events[n] = v.events[n]
    BY <1>4, <1>5 DEF Moved, Later, N
  <2>3. ShowsLast(v, b) /\ Chained(v, b)
    BY DEF Board, Explains
  <2> QED
    BY <2>1, <2>2, <2>3 DEF ShowsLast, Chained
<1>6. ASSUME e.kind = "status"
      PROVE  ShowsLast(w, a) /\ Chained(w, a)
  <2>1. PICK last \in ChangesIn(v, a) : /\ \A n \in ChangesIn(v, a) : n <= last
                                        /\ v.events[last].to = v.apps[a].status
    BY DEF Board, Explains, ShowsLast
  <2>2. ChangesIn(w, a) = ChangesIn(v, a) \cup {N + 1}
    BY <1>1, <1>3, <1>4, <1>6
  <2>3. \A n \in ChangesIn(v, a) : n \in Nat /\ n < N + 1 /\ w.events[n] = v.events[n]
    BY <1>1, <1>4 DEF Moved, Later, N
  <2>4. w.events[N + 1] = e /\ e.from = v.apps[a].status /\ e.to = w.apps[a].status
    BY <1>6 DEF Moved, Later, N
  <2>5. ShowsLast(w, a)
    <3>1. \A n \in ChangesIn(w, a) : n <= N + 1
      BY <1>1, <2>2, <2>3
    <3> QED
      BY <2>2, <2>4, <3>1 DEF ShowsLast
  <2>6. ASSUME NEW n \in ChangesIn(v, a)
        PROVE  \/ w.events[n].kind = "created" /\ \A m \in ChangesIn(w, a) : n <= m
               \/ /\ w.events[n].kind = "status"
                  /\ \E before \in ChangesIn(w, a) :
                        /\ before < n /\ w.events[n].from = w.events[before].to
                        /\ \A m \in ChangesIn(w, a) : m < n => m <= before
    <3>1. Chained(v, a)
      BY DEF Board, Explains
    <3>2. CASE v.events[n].kind = "created" /\ \A m \in ChangesIn(v, a) : n <= m
      BY <3>2, <1>1, <2>2, <2>3
    <3>3. CASE /\ v.events[n].kind = "status"
               /\ \E before \in ChangesIn(v, a) :
                     /\ before < n /\ v.events[n].from = v.events[before].to
                     /\ \A m \in ChangesIn(v, a) : m < n => m <= before
      <4>1. PICK before \in ChangesIn(v, a) :
               /\ before < n /\ v.events[n].from = v.events[before].to
               /\ \A m \in ChangesIn(v, a) : m < n => m <= before
        BY <3>3
      <4>2. before \in ChangesIn(w, a) /\ w.events[n] = v.events[n] /\ w.events[before] = v.events[before]
        BY <2>2, <2>3
      <4>3. \A m \in ChangesIn(w, a) : m < n => m <= before
        BY <1>1, <2>2, <2>3, <4>1
      <4> QED
        BY <3>3, <4>1, <4>2, <4>3
    <3> QED
      BY <3>1, <3>2, <3>3 DEF Chained
  <2>7. /\ w.events[N + 1].kind = "status" /\ last < N + 1 /\ w.events[N + 1].from = w.events[last].to
        /\ \A m \in ChangesIn(w, a) : m < N + 1 => m <= last
    BY <1>1, <1>6, <2>1, <2>2, <2>3, <2>4
  <2> QED
    BY <2>1, <2>2, <2>5, <2>6, <2>7 DEF Chained
<1> QED
  BY <1>1, <1>2, <1>5, <1>6 DEF Explains

\* A new application begins its timeline.
LEMMA AddedExplained ==
    ASSUME NEW v, NEW w, NEW e, Board(v), TypedBoard(w), Added(v, w, e)
    PROVE  Explains(w) /\ Grown(v, w)
<1> DEFINE N == Len(v.events)
           A == Len(v.apps)
<1>1. N \in Nat /\ Len(w.events) = N + 1 /\ A \in Nat /\ Len(w.apps) = A + 1
  BY Places DEF Board, Added, Later
<1>2. Grown(v, w)
  BY <1>1 DEF Grown, Added
<1>3. \A n \in 1 .. N : w.events[n] = v.events[n] /\ v.events[n].app \in 1 .. A
  BY DEF Added, Later, Board, Filed
<1>4. \A b \in 1 .. A : w.apps[b] = v.apps[b]
  BY DEF Added
<1>5. /\ w.events[N + 1] = e /\ e.app = A + 1 /\ e.kind = "created"
      /\ w.apps[A + 1].status = e.to
  BY DEF Added, Later
<1>6. \A b \in 1 .. A : ShowsLast(v, b) /\ Chained(v, b)
  BY DEF Board, Explains
<1>7. \A b : ChangesIn(v, b) = {n \in 1 .. N : v.events[n].app = b /\ v.events[n].kind \in {"created", "status"}}
  BY DEF ChangesIn
<1> HIDE DEF N, A
<1>8. ASSUME NEW b \in 1 .. A
      PROVE  ShowsLast(w, b) /\ Chained(w, b)
  <2>1. ChangesIn(w, b) =
           {n \in 1 .. N + 1 : w.events[n].app = b /\ w.events[n].kind \in {"created", "status"}}
    BY <1>1 DEF ChangesIn
  <2>2. N + 1 \notin ChangesIn(w, b)
    BY <1>1, <1>5, <2>1
  <2>3. \A n \in 1 .. N : n \in ChangesIn(w, b) <=> n \in ChangesIn(v, b)
    BY <1>1, <1>3, <1>7, <2>1
  <2>4. ChangesIn(w, b) \subseteq 1 .. N
    BY <1>1, <2>1, <2>2
  <2>5. ChangesIn(w, b) = ChangesIn(v, b)
    BY <1>7, <2>3, <2>4
  <2>6. w.apps[b].status = v.apps[b].status /\ \A n \in ChangesIn(v, b) : w.events[n] = v.events[n]
    BY <1>3, <1>4, <1>7
  <2> QED
    BY <1>6, <2>5, <2>6 DEF ShowsLast, Chained
<1>9. ShowsLast(w, A + 1) /\ Chained(w, A + 1)
  <2>1. ChangesIn(w, A + 1) = {N + 1}
    BY <1>1, <1>3, <1>5 DEF ChangesIn
  <2> QED
    BY <1>1, <1>5, <2>1 DEF ShowsLast, Chained
<1> QED
  BY <1>1, <1>2, <1>8, <1>9 DEF Explains

\* Events that are no status changes leave the timeline as it reads.
LEMMA StoryKept ==
    ASSUME NEW v, NEW w, Board(v), TypedBoard(w),
           DOMAIN v.jobs \subseteq DOMAIN w.jobs, SameApps(v, w),
           \A b \in 1 .. Len(v.apps) : w.apps[b].status = v.apps[b].status,
           Len(v.events) <= Len(w.events),
           \A n \in 1 .. Len(v.events) :
              /\ w.events[n].app = v.events[n].app /\ w.events[n].kind = v.events[n].kind
              /\ w.events[n].from = v.events[n].from /\ w.events[n].to = v.events[n].to,
           \A n \in 1 .. Len(w.events) : n > Len(v.events) => w.events[n].kind = "mail"
    PROVE  Explains(w) /\ Grown(v, w)
<1> DEFINE N == Len(v.events)
<1>1. N \in Nat /\ Len(w.events) \in Nat /\ Len(v.apps) \in Nat /\ Len(w.apps) = Len(v.apps)
  BY Places DEF Board, SameApps
<1>2. Grown(v, w)
  BY <1>1 DEF Grown
<1>3. \A b : ChangesIn(w, b) = ChangesIn(v, b)
  BY <1>1 DEF ChangesIn
<1>4. \A b : \A n \in ChangesIn(v, b) : n \in 1 .. N
  BY DEF ChangesIn
<1>5. ASSUME NEW b \in 1 .. Len(v.apps)
      PROVE  ShowsLast(w, b) /\ Chained(w, b)
  <2>1. ShowsLast(v, b) /\ Chained(v, b)
    BY DEF Board, Explains
  <2>2. \A n \in ChangesIn(v, b) : /\ w.events[n].kind = v.events[n].kind
                                   /\ w.events[n].from = v.events[n].from /\ w.events[n].to = v.events[n].to
    BY <1>4
  <2>3. ShowsLast(w, b)
    BY <1>3, <2>1, <2>2 DEF ShowsLast
  <2>4. Chained(w, b)
    BY <1>3, <2>1, <2>2 DEF Chained
  <2> QED
    BY <2>3, <2>4
<1> QED
  BY <1>1, <1>2, <1>5 DEF Explains

----------------------------------------------------------------------------
(* The service's operations keep the board.                                *)

LEMMA EventTypes ==
    /\ \A app \in Nat, kind \in {"created", "status", "updated"}, from, to \in Statuses \cup {None},
          cause \in Mails \cup {None} :
          LET e == StatusEvent(app, kind, from, to, cause)
          IN  /\ e \in EventRows /\ e.app = app /\ e.kind = kind /\ e.from = from /\ e.to = to
              /\ e.mail = cause
    /\ \A app \in Nat, m \in Mails, review \in Reviews, to \in Statuses \cup {None}, s, d \in Int :
          LET e == MailEvent(app, m, review, to, s, d)
          IN  /\ e \in EventRows /\ e.app = app /\ e.kind = "mail" /\ e.mail = m
              /\ e.review = review /\ e.sched = s /\ e.deadline = d
  BY DEF StatusEvent, MailEvent, EventRows, Reviews

LEMMA ImportedBoard ==
    ASSUME NEW v, Board(v), NEW ident \in Idents
    PROVE  LET w == ImportJob(v, ident)
           IN  /\ Board(w) /\ Grown(v, w) /\ ident \in DOMAIN w.jobs
               /\ w.apps = v.apps /\ w.events = v.events
<1> DEFINE w == ImportJob(v, ident)
<1>1. CASE ident \in DOMAIN v.jobs
  BY <1>1, Places DEF ImportJob, Grown, Board
<1>2. CASE ident \notin DOMAIN v.jobs
  <2> DEFINE row  == [source |-> ident[1], company |-> ident[2], title |-> ident[3]]
             jobs == [i \in DOMAIN v.jobs \cup {ident} |->
                         IF i = ident THEN [source |-> i[1], company |-> i[2], title |-> i[3]] ELSE v.jobs[i]]
             D    == DOMAIN v.jobs \cup {ident}
  <2>1. row \in JobRows
    BY DEF Idents, JobRows
  <2>3. w = [v EXCEPT !.jobs = jobs]
    BY <1>2 DEF ImportJob
  <2>4. w = [jobs |-> jobs, apps |-> v.apps, events |-> v.events]
    <3> HIDE DEF jobs
    <3> QED
      BY <2>3 DEF Board, TypedBoard
  <2>5. /\ DOMAIN jobs = D /\ D \subseteq Idents /\ jobs \in [D -> JobRows]
        /\ \A i \in D : jobs[i] = [source |-> i[1], company |-> i[2], title |-> i[3]]
    BY <2>1 DEF Board, TypedBoard, Filed
  <2> HIDE DEF w, jobs
  <2>6. TypedBoard(w)
    BY <2>4, <2>5 DEF Board, TypedBoard
  <2>7. Filed(w)
    BY <2>4, <2>5 DEF Board, Filed
  <2>8. Explains(w) /\ Grown(v, w)
    BY <2>4, <2>5, Places DEF Board, Explains, ShowsLast, Chained, ChangesIn, Grown
  <2> QED
    BY <2>4, <2>5, <2>6, <2>7, <2>8 DEF Board, w
<1> QED
  BY <1>1, <1>2

LEMMA UpdatedBoard ==
    ASSUME NEW v, Board(v), NEW a \in 1 .. Len(v.apps), NEW to \in Statuses \cup {None},
           NEW cause \in Mails \cup {None}
    PROVE  LET w == Updated(v, a, to, cause)
           IN  /\ Board(w) /\ Grown(v, w)
               /\ \E e \in EventRows : Moved(v, w, a, e) /\ e.mail = cause
<1> DEFINE w    == Updated(v, a, to, cause)
           from == v.apps[a].status
           same == to \in {None, from}
           e    == IF same THEN StatusEvent(a, "updated", from, from, cause)
                   ELSE StatusEvent(a, "status", from, to, cause)
           row  == [v.apps[a] EXCEPT !.status = IF to = None THEN @ ELSE to]
           apps == [v.apps EXCEPT ![a] = row]
<1>1. a \in Nat /\ v.apps[a] \in AppRows /\ from \in Statuses /\ v.apps \in Seq(AppRows)
  BY Places DEF Board, TypedBoard, AppRows
<1>2. /\ e \in EventRows /\ e.app = a /\ e.mail = cause
      /\ IF same THEN e.kind = "updated" ELSE e.kind = "status" /\ e.from = from /\ e.to = to
  BY <1>1, EventTypes
<1>3. /\ row \in AppRows /\ row.job = v.apps[a].job
      /\ row.status = IF same THEN from ELSE to
  BY <1>1 DEF AppRows
<1>4. w = [jobs |-> v.jobs, apps |-> apps, events |-> Append(v.events, e)]
  <2>1. w = [v EXCEPT !.apps = apps, !.events = Append(v.events, e)]
    BY DEF Updated
  <2> HIDE DEF w, apps, e
  <2> QED
    BY <2>1 DEF Board, TypedBoard
<1> HIDE DEF w, e, row
<1>5. apps \in Seq(AppRows) /\ Len(apps) = Len(v.apps) /\ apps[a] = row
      /\ \A b \in 1 .. Len(v.apps) : b # a => apps[b] = v.apps[b]
  BY <1>1, <1>3, ExceptSeq
<1>6. /\ Append(v.events, e) \in Seq(EventRows) /\ Len(Append(v.events, e)) = Len(v.events) + 1
      /\ \A n \in 1 .. Len(v.events) : Append(v.events, e)[n] = v.events[n]
      /\ Append(v.events, e)[Len(v.events) + 1] = e
  BY <1>2, AppendProperties DEF Board, TypedBoard
<1> HIDE DEF apps
<1>7. TypedBoard(w)
  BY <1>4, <1>5, <1>6 DEF Board, TypedBoard
<1>8. Moved(v, w, a, e)
  BY <1>2, <1>3, <1>4, <1>5, <1>6 DEF Moved, SameApps, Later
<1>9. Explains(w) /\ Grown(v, w)
  BY <1>7, <1>8, MovedExplained
<1>10. Filed(w)
  <2>1. /\ \A b \in 1 .. Len(w.apps) : w.apps[b].job \in DOMAIN w.jobs
        /\ \A i \in DOMAIN w.jobs : w.jobs[i] = [source |-> i[1], company |-> i[2], title |-> i[3]]
    BY <1>3, <1>4, <1>5 DEF Board, Filed
  <2>2. \A n \in 1 .. Len(w.events) : n \in 1 .. Len(v.events) \/ n = Len(v.events) + 1
    BY <1>4, <1>6, Places DEF Board
  <2>3. e.kind # "mail"
    BY <1>2
  <2>4. Len(w.apps) = Len(v.apps)
    BY <1>4, <1>5
  <2>5. ASSUME NEW n \in 1 .. Len(w.events)
        PROVE  /\ w.events[n].app \in 1 .. Len(w.apps)
               /\ Stored(w.events[n])
    <3>1. CASE n \in 1 .. Len(v.events)
      BY <3>1, <1>4, <1>6, <2>4 DEF Board, Filed
    <3>2. CASE n = Len(v.events) + 1
      BY <3>2, <1>2, <1>4, <1>6, <2>3, <2>4 DEF Stored
    <3> QED
      BY <2>2, <3>1, <3>2
  <2> QED
    BY <2>1, <2>5 DEF Filed
<1> QED
  BY <1>2, <1>7, <1>8, <1>9, <1>10 DEF Board, w

LEMMA MoveBoard ==
    ASSUME NEW v, Board(v), NEW a \in 1 .. Len(v.apps), NEW to \in Statuses, NEW cause \in Mails \cup {None}
    PROVE  LET w == Move(v, a, to, cause)
           IN  /\ Board(w) /\ Grown(v, w)
               /\ w = v \/ \E e \in EventRows : Moved(v, w, a, e) /\ e.mail = cause
  BY UpdatedBoard, Places DEF Move, Board, Grown

LEMMA CreatedBoard ==
    ASSUME NEW v, Board(v), Len(v.apps) = Len(db.apps), NEW ident \in DOMAIN v.jobs,
           NEW to \in Statuses, NEW cause \in Mails \cup {None}
    PROVE  LET w == Created(v, ident, to, cause)
           IN  /\ Board(w) /\ Grown(v, w)
               /\ \E e \in EventRows : Added(v, w, e) /\ e.mail = cause
               /\ w.apps[NewApp].job = ident
<1> DEFINE w   == Created(v, ident, to, cause)
           A   == Len(v.apps)
           N   == Len(v.events)
           e   == StatusEvent(A + 1, "created", None, to, cause)
           row == [job |-> ident, status |-> to]
           apps == Append(v.apps, row)
           events == Append(v.events, e)
<1>1. A \in Nat /\ N \in Nat /\ ident \in Idents
  BY Places DEF Board, TypedBoard
<1>2. e \in EventRows /\ e.app = A + 1 /\ e.kind = "created" /\ e.to = to /\ e.mail = cause
  <2>1. A + 1 \in Nat /\ to \in Statuses \cup {None} /\ None \in Statuses \cup {None}
    BY <1>1
  <2> HIDE DEF A
  <2> QED
    BY <2>1 DEF StatusEvent, EventRows, Reviews
<1>3. row \in AppRows /\ row.job = ident /\ row.status = to
  BY <1>1 DEF AppRows
<1>4. w = [jobs |-> v.jobs, apps |-> apps, events |-> events]
  <2>1. w = [v EXCEPT !.apps = apps, !.events = events]
    BY DEF Created, NewApp
  <2> HIDE DEF w, apps, events
  <2> QED
    BY <2>1 DEF Board, TypedBoard
<1> HIDE DEF w, e, row
<1>5. /\ apps \in Seq(AppRows) /\ Len(apps) = A + 1 /\ apps[A + 1] = row
      /\ \A b \in 1 .. A : apps[b] = v.apps[b]
  BY <1>1, <1>3, AppendProperties DEF Board, TypedBoard
<1>6. /\ events \in Seq(EventRows) /\ Len(events) = N + 1 /\ events[N + 1] = e
      /\ \A n \in 1 .. N : events[n] = v.events[n]
  BY <1>1, <1>2, AppendProperties DEF Board, TypedBoard
<1>7. \A n \in 1 .. N : v.events[n].app \in 1 .. A + 1
  BY <1>1 DEF Board, Filed
<1> HIDE DEF apps, events
<1>8. TypedBoard(w)
  BY <1>4, <1>5, <1>6 DEF Board, TypedBoard
<1>9. Added(v, w, e)
  BY <1>2, <1>3, <1>4, <1>5, <1>6 DEF Added, Later
<1>10. Explains(w) /\ Grown(v, w)
  BY <1>8, <1>9, AddedExplained
<1>11. Filed(w)
  <2>1. \A b \in 1 .. A + 1 : apps[b].job \in DOMAIN v.jobs
    <3> SUFFICES ASSUME NEW b \in 1 .. A + 1 PROVE apps[b].job \in DOMAIN v.jobs
      OBVIOUS
    <3>1. b \in 1 .. A \/ b = A + 1
      BY <1>1
    <3> QED
      BY <3>1, <1>3, <1>5 DEF Board, Filed
  <2>2. ASSUME NEW n \in 1 .. N + 1
        PROVE  /\ events[n].app \in 1 .. A + 1
               /\ Stored(events[n])
    <3>1. CASE n \in 1 .. N
      BY <3>1, <1>6, <1>7 DEF Board, Filed
    <3>2. CASE n = N + 1
      BY <3>2, <1>1, <1>2, <1>6 DEF Stored
    <3> QED
      BY <1>1, <3>1, <3>2
  <2>3. \A i \in DOMAIN v.jobs : v.jobs[i] = [source |-> i[1], company |-> i[2], title |-> i[3]]
    BY DEF Board, Filed
  <2> HIDE DEF A, N
  <2> QED
    BY <1>4, <1>5, <1>6, <2>1, <2>2, <2>3 DEF Filed
<1>12. w.apps[NewApp].job = ident
  BY <1>3, <1>4, <1>5 DEF NewApp
<1> QED
  BY <1>2, <1>8, <1>9, <1>10, <1>11, <1>12 DEF Board, w

\* A notification is stored.
LEMMA MailedBoard ==
    ASSUME NEW v, Board(v), NEW e \in EventRows, e.kind = "mail", e.app \in 1 .. Len(v.apps),
           e.mail \in Mails, Timed(e)
    PROVE  LET w == [v EXCEPT !.events = Append(@, e)]
           IN  Board(w) /\ Grown(v, w) /\ Later(v, w, e) /\ w.apps = v.apps
<1> DEFINE w == [v EXCEPT !.events = Append(@, e)]
           N == Len(v.events)
           events == Append(v.events, e)
<1>1. N \in Nat
  BY Places DEF Board
<1>2. w = [jobs |-> v.jobs, apps |-> v.apps, events |-> events]
  <2>1. w = [v EXCEPT !.events = events]
    OBVIOUS
  <2> HIDE DEF w, events
  <2> QED
    BY <2>1 DEF Board, TypedBoard
<1>3. /\ events \in Seq(EventRows) /\ Len(events) = N + 1 /\ events[N + 1] = e
      /\ \A n \in 1 .. N : events[n] = v.events[n]
  BY <1>1, AppendProperties DEF Board, TypedBoard
<1> HIDE DEF w, events
<1>4. TypedBoard(w)
  BY <1>2, <1>3 DEF Board, TypedBoard
<1>5. Later(v, w, e)
  BY <1>2, <1>3 DEF Later
<1>6. SameApps(v, w)
  BY <1>2 DEF SameApps
<1>7. \A n \in 1 .. Len(w.events) : n > Len(v.events) => w.events[n].kind = "mail"
  BY <1>1, <1>2, <1>3
<1>8. Explains(w) /\ Grown(v, w)
  BY <1>1, <1>2, <1>3, <1>4, <1>6, <1>7, StoryKept
<1>9. Filed(w)
  <2>1. ASSUME NEW n \in 1 .. N + 1
        PROVE  /\ events[n].app \in 1 .. Len(v.apps)
               /\ Stored(events[n])
    <3>1. CASE n \in 1 .. N
      BY <3>1, <1>3 DEF Board, Filed
    <3>2. CASE n = N + 1
      BY <3>2, <1>1, <1>3 DEF Stored
    <3> QED
      BY <1>1, <3>1, <3>2
  <2> QED
    BY <1>2, <1>3, <2>1 DEF Board, Filed
<1> QED
  BY <1>2, <1>4, <1>5, <1>8, <1>9 DEF Board, w

\* Event n is replaced.
Edited(v, w, n, e) == /\ Len(w.events) = Len(v.events) /\ w.events[n] = e
                      /\ \A k \in 1 .. Len(v.events) : k # n => w.events[k] = v.events[k]

\* A stored notification is decided, edited or read again.
LEMMA EditedBoard ==
    ASSUME NEW v, Board(v), NEW n \in MailEvents(v), NEW e \in EventRows,
           e.kind = "mail", e.app = v.events[n].app, e.mail = v.events[n].mail,
           e.from = v.events[n].from, e.to = v.events[n].to, Timed(e)
    PROVE  LET w == [v EXCEPT !.events = [@ EXCEPT ![n] = e]]
           IN  Board(w) /\ Grown(v, w) /\ Edited(v, w, n, e) /\ w.apps = v.apps
<1> DEFINE w == [v EXCEPT !.events = [@ EXCEPT ![n] = e]]
           N == Len(v.events)
           events == [v.events EXCEPT ![n] = e]
<1>1. N \in Nat /\ n \in 1 .. N /\ v.events[n].kind = "mail"
  BY Places DEF Board, MailEvents
<1>2. w = [jobs |-> v.jobs, apps |-> v.apps, events |-> events]
  <2>1. w = [v EXCEPT !.events = events]
    OBVIOUS
  <2> HIDE DEF w, events
  <2> QED
    BY <2>1 DEF Board, TypedBoard
<1>3. /\ events \in Seq(EventRows) /\ Len(events) = N /\ events[n] = e
      /\ \A k \in 1 .. N : k # n => events[k] = v.events[k]
  BY <1>1, ExceptSeq DEF Board, TypedBoard
<1> HIDE DEF w, events
<1>4. TypedBoard(w)
  BY <1>2, <1>3 DEF Board, TypedBoard
<1>5. Edited(v, w, n, e)
  BY <1>2, <1>3 DEF Edited
<1>6. SameApps(v, w)
  BY <1>2 DEF SameApps
<1>7. Explains(w) /\ Grown(v, w)
  BY <1>1, <1>2, <1>3, <1>4, <1>6, StoryKept
<1>8. Filed(w)
  <2>1. ASSUME NEW k \in 1 .. N
        PROVE  /\ events[k].app \in 1 .. Len(v.apps)
               /\ Stored(events[k])
    <3>1. CASE k # n
      BY <3>1, <1>3 DEF Board, Filed
    <3>2. CASE k = n
      BY <3>2, <1>1, <1>3 DEF Board, Filed, Stored
    <3> QED
      BY <3>1, <3>2
  <2> QED
    BY <1>2, <1>3, <2>1 DEF Board, Filed
<1> QED
  BY <1>2, <1>4, <1>5, <1>7, <1>8 DEF Board, w

----------------------------------------------------------------------------
(* What mail did.  A change that a mail made is backed by an event of that *)
(* mail which was synchronised or confirmed.                               *)

ByMail(e) == e.kind \in {"created", "status"} /\ e.mail \in Mails
Acted == {"synced", "confirmed"}
SameKey(e, f) == e.app = f.app /\ e.mail = f.mail

Backed(d) == \A k \in 1 .. Len(d.events) : ByMail(d.events[k]) =>
    \E n \in MailEvents(d) : SameKey(d.events[n], d.events[k]) /\ d.events[n].review \in Acted
Once(d) == \A j, k \in 1 .. Len(d.events) :
    ByMail(d.events[j]) /\ ByMail(d.events[k]) /\ SameKey(d.events[j], d.events[k]) => j = k
Keyed(d) == \A j, k \in MailEvents(d) : SameKey(d.events[j], d.events[k]) => j = k

\* The places of a timeline that has one event more.
LEMMA LaterPlaces ==
    ASSUME NEW v, NEW w, NEW e, Board(v), Later(v, w, e)
    PROVE  /\ \A n \in 1 .. Len(w.events) : \/ n \in 1 .. Len(v.events) /\ w.events[n] = v.events[n]
                                            \/ n = Len(v.events) + 1 /\ w.events[n] = e
           /\ \A n \in 1 .. Len(v.events) : n \in 1 .. Len(w.events) /\ w.events[n] = v.events[n]
           /\ Len(v.events) + 1 \in 1 .. Len(w.events) /\ Len(v.events) + 1 \notin 1 .. Len(v.events)
           /\ w.events[Len(v.events) + 1] = e
<1>1. Len(v.events) \in Nat
  BY Places DEF Board
<1> QED
  BY <1>1 DEF Later

\* An event that is not the doing of a mail.
LEMMA LaterQuiet ==
    ASSUME NEW v, NEW w, NEW e, Board(v), Later(v, w, e), ~ByMail(e), Backed(v), Once(v)
    PROVE  Backed(w) /\ Once(w)
<1>1. Backed(w)
  <2> SUFFICES ASSUME NEW k \in 1 .. Len(w.events), ByMail(w.events[k])
               PROVE  \E n \in MailEvents(w) : /\ SameKey(w.events[n], w.events[k])
                                               /\ w.events[n].review \in Acted
    BY DEF Backed
  <2>1. k \in 1 .. Len(v.events) /\ w.events[k] = v.events[k]
    BY LaterPlaces
  <2>2. PICK n \in MailEvents(v) : SameKey(v.events[n], v.events[k]) /\ v.events[n].review \in Acted
    BY <2>1 DEF Backed
  <2>3. n \in MailEvents(w) /\ w.events[n] = v.events[n]
    BY LaterPlaces DEF MailEvents
  <2> QED
    BY <2>1, <2>2, <2>3
<1>2. Once(w)
  BY LaterPlaces DEF Once
<1> QED
  BY <1>1, <1>2

\* A notification that keeps its key, and has acted if it had before.
LEMMA EditedBacked ==
    ASSUME NEW v, NEW w, NEW n \in MailEvents(v), NEW e, Edited(v, w, n, e),
           e.kind = "mail", SameKey(e, v.events[n]), v.events[n].review \in Acted => e.review \in Acted,
           Backed(v), Once(v), Keyed(v)
    PROVE  Backed(w) /\ Once(w) /\ Keyed(w)
<1>1. /\ \A k \in 1 .. Len(w.events) : /\ k \in 1 .. Len(v.events) /\ SameKey(w.events[k], v.events[k])
                                       /\ w.events[k].kind = v.events[k].kind
                                       /\ v.events[k].review \in Acted => w.events[k].review \in Acted
      /\ MailEvents(w) = MailEvents(v)
      /\ Len(w.events) = Len(v.events)
  BY DEF Edited, MailEvents, SameKey
<1>2. Backed(w)
  <2> SUFFICES ASSUME NEW k \in 1 .. Len(w.events), ByMail(w.events[k])
               PROVE  \E j \in MailEvents(w) : /\ SameKey(w.events[j], w.events[k])
                                               /\ w.events[j].review \in Acted
    BY DEF Backed
  <2>1. k \in 1 .. Len(v.events) /\ ByMail(v.events[k])
    BY <1>1 DEF ByMail, SameKey
  <2>2. PICK j \in MailEvents(v) : SameKey(v.events[j], v.events[k]) /\ v.events[j].review \in Acted
    BY <2>1 DEF Backed
  <2> QED
    BY <1>1, <2>2 DEF SameKey, MailEvents
<1>3. Once(w)
  BY <1>1 DEF Once, ByMail, SameKey
<1>4. Keyed(w)
  BY <1>1 DEF Keyed, SameKey, MailEvents
<1> QED
  BY <1>2, <1>3, <1>4

\* The first and only change of a mail, next to an event of it that has acted.
LEMMA LaterByMail ==
    ASSUME NEW v, NEW w, NEW e, Board(v), Later(v, w, e), Backed(v), Once(v),
           \A k \in 1 .. Len(v.events) : ByMail(v.events[k]) => ~SameKey(v.events[k], e)
    PROVE  /\ Once(w)
           /\ \A k \in 1 .. Len(w.events) : ByMail(w.events[k]) /\ ~SameKey(w.events[k], e) =>
                 \E n \in MailEvents(w) : SameKey(w.events[n], w.events[k]) /\ w.events[n].review \in Acted
<1>1. Once(w)
  <2> SUFFICES ASSUME NEW j \in 1 .. Len(w.events), NEW k \in 1 .. Len(w.events),
                      ByMail(w.events[j]), ByMail(w.events[k]), SameKey(w.events[j], w.events[k])
               PROVE  j = k
    BY DEF Once
  <2>1. CASE j \in 1 .. Len(v.events) /\ k \in 1 .. Len(v.events)
    <3>1. w.events[j] = v.events[j] /\ w.events[k] = v.events[k]
      BY <2>1, LaterPlaces
    <3> QED
      BY <2>1, <3>1 DEF Once
  <2>2. \A n \in 1 .. Len(v.events) : ByMail(w.events[n]) => ~SameKey(w.events[n], e) /\ ~SameKey(e, w.events[n])
    BY LaterPlaces DEF SameKey
  <2>3. w.events[Len(v.events) + 1] = e
    BY LaterPlaces
  <2>4. CASE j = Len(v.events) + 1 /\ k \in 1 .. Len(v.events)
    BY <2>2, <2>3, <2>4
  <2>5. CASE k = Len(v.events) + 1 /\ j \in 1 .. Len(v.events)
    BY <2>2, <2>3, <2>5
  <2> QED
    BY <2>1, <2>4, <2>5, LaterPlaces
<1>2. ASSUME NEW k \in 1 .. Len(w.events), ByMail(w.events[k]), ~SameKey(w.events[k], e)
      PROVE  \E n \in MailEvents(w) : SameKey(w.events[n], w.events[k]) /\ w.events[n].review \in Acted
  <2>1. k \in 1 .. Len(v.events) /\ w.events[k] = v.events[k]
    BY <1>2, LaterPlaces DEF SameKey
  <2>2. PICK n \in MailEvents(v) : SameKey(v.events[n], v.events[k]) /\ v.events[n].review \in Acted
    BY <1>2, <2>1 DEF Backed
  <2>3. n \in MailEvents(w) /\ w.events[n] = v.events[n]
    BY LaterPlaces DEF MailEvents
  <2> QED
    BY <2>1, <2>2, <2>3
<1> QED
  BY <1>1, <1>2

\* A candidate that is confirmed moves the application for the first time.
LEMMA ConfirmedBacked ==
    ASSUME NEW v, NEW u, NEW w, NEW n \in MailEvents(v), NEW c, NEW e, Board(u),
           Backed(v), Once(v), Keyed(v), v.events[n].review \notin Acted,
           Edited(v, u, n, c), c.kind = "mail", SameKey(c, v.events[n]), c.review \in Acted,
           Later(u, w, e), SameKey(e, v.events[n])
    PROVE  Backed(w) /\ Once(w)
<1>1. Backed(u) /\ Once(u)
  BY EditedBacked
<1>2. ASSUME NEW k \in 1 .. Len(u.events), ByMail(u.events[k])
      PROVE  ~SameKey(u.events[k], e)
  <2>1. k # n /\ k \in 1 .. Len(v.events) /\ u.events[k] = v.events[k]
    BY <1>2 DEF Edited, ByMail
  <2>2. PICK j \in MailEvents(v) : SameKey(v.events[j], v.events[k]) /\ v.events[j].review \in Acted
    BY <1>2, <2>1 DEF Backed
  <2>3. j # n
    BY <2>2
  <2> QED
    BY <2>1, <2>2, <2>3 DEF Keyed, SameKey
<1>3. /\ Once(w)
      /\ \A k \in 1 .. Len(w.events) : ByMail(w.events[k]) /\ ~SameKey(w.events[k], e) =>
            \E j \in MailEvents(w) : SameKey(w.events[j], w.events[k]) /\ w.events[j].review \in Acted
  BY <1>1, <1>2, LaterByMail
<1>4. /\ n \in MailEvents(w) /\ SameKey(w.events[n], e) /\ w.events[n].review \in Acted
  BY LaterPlaces DEF MailEvents, Edited, SameKey
<1>5. Backed(w)
  <2> SUFFICES ASSUME NEW k \in 1 .. Len(w.events), ByMail(w.events[k])
               PROVE  \E j \in MailEvents(w) : /\ SameKey(w.events[j], w.events[k])
                                               /\ w.events[j].review \in Acted
    BY DEF Backed
  <2>1. CASE SameKey(w.events[k], e)
    BY <1>4, <2>1 DEF SameKey
  <2>2. CASE ~SameKey(w.events[k], e)
    BY <1>3, <2>2
  <2> QED
    BY <2>1, <2>2
<1> QED
  BY <1>3, <1>5

\* A mail nobody has seen moves or creates one application, and is stored with it.
LEMMA SyncedBacked ==
    ASSUME NEW v, NEW u, NEW w, NEW e, NEW m \in Mails, NEW f, Board(v), Board(u),
           Backed(v), Once(v), Seen(v, m) = {},
           Later(v, u, e), e.mail = m,
           Later(u, w, f), f.kind = "mail", SameKey(f, e), f.review \in Acted
    PROVE  Backed(w) /\ Once(w)
<1>1. \A k \in 1 .. Len(v.events) : ByMail(v.events[k]) => ~SameKey(v.events[k], e)
  BY DEF Backed, Seen, SameKey
<1>2. /\ Once(u)
      /\ \A k \in 1 .. Len(u.events) : ByMail(u.events[k]) /\ ~SameKey(u.events[k], e) =>
            \E j \in MailEvents(u) : SameKey(u.events[j], u.events[k]) /\ u.events[j].review \in Acted
  BY <1>1, LaterByMail
<1>3. Once(w)
  <2> SUFFICES ASSUME NEW j \in 1 .. Len(w.events), NEW k \in 1 .. Len(w.events),
                      ByMail(w.events[j]), ByMail(w.events[k]), SameKey(w.events[j], w.events[k])
               PROVE  j = k
    BY DEF Once
  <2>1. /\ j \in 1 .. Len(u.events) /\ w.events[j] = u.events[j]
        /\ k \in 1 .. Len(u.events) /\ w.events[k] = u.events[k]
    BY LaterPlaces DEF ByMail
  <2> QED
    BY <1>2, <2>1 DEF Once
<1>4. Backed(w)
  <2> SUFFICES ASSUME NEW k \in 1 .. Len(w.events), ByMail(w.events[k])
               PROVE  \E j \in MailEvents(w) : /\ SameKey(w.events[j], w.events[k])
                                               /\ w.events[j].review \in Acted
    BY DEF Backed
  <2>1. k \in 1 .. Len(u.events) /\ w.events[k] = u.events[k]
    BY LaterPlaces DEF ByMail
  <2>2. CASE SameKey(u.events[k], e)
    <3>1. Len(u.events) + 1 \in MailEvents(w) /\ w.events[Len(u.events) + 1] = f
      BY LaterPlaces DEF MailEvents
    <3> QED
      BY <2>1, <2>2, <3>1 DEF SameKey
  <2>3. CASE ~SameKey(u.events[k], e)
    <3>1. PICK j \in MailEvents(u) : SameKey(u.events[j], u.events[k]) /\ u.events[j].review \in Acted
      BY <1>2, <2>1, <2>3
    <3>2. j \in MailEvents(w) /\ w.events[j] = u.events[j]
      BY LaterPlaces DEF MailEvents
    <3> QED
      BY <2>1, <3>1, <3>2
  <2> QED
    BY <2>2, <2>3
<1> QED
  BY <1>3, <1>4

----------------------------------------------------------------------------
(* The requests.                                                           *)

\* The posting of this job has no application among those of v, provided that the
\* lookup lists all that its names are found in.
NewPosting(v, job) ==
    Cardinality(Matching(v, job[2], job[3])) <= MatchLimit =>
        \A b \in 1 .. Len(v.apps) : <<v.apps[b].job[2], v.apps[b].job[3]>> # <<job[2], job[3]>>

\* Mail adds no application for a posting that has one: MailJoinsApplication,
\* of a step from v to w.
Joined(v, w) == \A n \in Len(v.events) + 1 .. Len(w.events) : LET e == w.events[n] IN
    e.kind = "created" /\ e.mail # None => NewPosting(v, w.apps[e.app].job)

Settled(d) == Board(d) /\ Backed(d) /\ Once(d) /\ Keyed(d)

\* What a request may commit.
Sound(d) == Board(d) /\ Grown(db, d) /\ Backed(d) /\ Once(d) /\ Joined(db, d)

\* The inductive invariant: the tables are in order, and the one request that is
\* open has read them as they are.
Inv == /\ Settled(db)
       /\ DOMAIN tx = Requests
       /\ \A r \in Requests : tx[r].open => tx[r].db = db

\* The key of a mail event.
LEMMA KeysKept ==
    ASSUME NEW d, TypedBoard(d), MailKeysUnique(d)
    PROVE  Keyed(d)
<1> SUFFICES ASSUME NEW j \in MailEvents(d), NEW k \in MailEvents(d), SameKey(d.events[j], d.events[k]), j # k
             PROVE  FALSE
  BY DEF Keyed
<1>1. j \in Nat /\ k \in Nat /\ j \in 1 .. Len(d.events) /\ k \in 1 .. Len(d.events)
  BY Places DEF MailEvents
<1>2. CASE j < k
  BY <1>1, <1>2 DEF MailKeysUnique, MailEvents, SameKey
<1>3. CASE k < j
  BY <1>1, <1>3 DEF MailKeysUnique, MailEvents, SameKey
<1> QED
  BY <1>1, <1>2, <1>3

\* What a request that is alone commits is what the tables are then.
LEMMA CommitAlone ==
    ASSUME Inv, Alone, NEW r \in Requests, tx[r].open, NEW d, Sound(d), Commit(r, d)
    PROVE  Inv' /\ Joined(db, db')
<1>1. tx[r].db = db /\ Merged(db, d) = d
  BY MergedAlone DEF Inv, Settled, Board, Sound
<1>2. db' = d /\ MailKeysUnique(d) /\ tx' = [tx EXCEPT ![r] = Idle]
  BY <1>1 DEF Commit
<1>3. Keyed(d)
  BY <1>2, KeysKept DEF Sound, Board
<1>4. Settled(db)'
  BY <1>2, <1>3 DEF Sound, Settled
<1>5. DOMAIN tx' = Requests /\ \A q \in Requests : ~tx'[q].open
  BY <1>2 DEF Inv, Alone, Idle
<1> QED
  BY <1>2, <1>4, <1>5 DEF Inv, Sound

\* An event without a mail behind it, or one that stores a mail.
LEMMA QuietIsSound ==
    ASSUME Inv, NEW v, Board(v), v.events = db.events, Len(v.apps) = Len(db.apps), Grown(db, v),
           NEW w, Board(w), Grown(v, w), NEW e, Later(v, w, e),
           e.kind = "mail" \/ e.mail = None
    PROVE  Sound(w)
<1>1. Backed(v) /\ Once(v)
  BY DEF Inv, Settled, Backed, Once, MailEvents
<1>2. ~ByMail(e)
  BY NoneAssumption DEF ByMail
<1>3. Backed(w) /\ Once(w)
  BY <1>1, <1>2, LaterQuiet
<1>4. Grown(db, w)
  BY Places DEF Grown, Board, Inv, Settled
<1>5. Joined(db, w)
  <2>1. \A n \in Len(db.events) + 1 .. Len(w.events) : w.events[n] = e
    BY Places DEF Later, Board
  <2> QED
    BY <2>1 DEF Joined
<1> QED
  BY <1>3, <1>4, <1>5 DEF Sound

\* Tables that add no event.
LEMMA EditIsSound ==
    ASSUME Inv, NEW w, Board(w), Grown(db, w), Backed(w), Once(w), Len(w.events) = Len(db.events)
    PROVE  Sound(w)
<1>1. Joined(db, w)
  BY Places DEF Joined, Board
<1> QED
  BY <1>1 DEF Sound

LEMMA BoardIsSound == Inv => Sound(db)
<1> SUFFICES ASSUME Inv PROVE Sound(db)
  OBVIOUS
<1>1. Grown(db, db)
  BY Places DEF Grown, Inv, Settled, Board
<1> QED
  BY <1>1, EditIsSound DEF Inv, Settled

LEMMA CreateSound == ASSUME Inv, Alone, NEW r \in Requests, CreateApplication(r) PROVE Inv' /\ Joined(db, db')
<1>1. PICK j \in DOMAIN db.jobs, st \in Statuses : Commit(r, Created(db, j, st, None))
  BY DEF CreateApplication, Inv
<1> DEFINE w == Created(db, j, st, None)
<1>2. Board(db) /\ Grown(db, db)
  BY BoardIsSound DEF Sound
<1>3. Board(w) /\ Grown(db, w) /\ \E e \in EventRows : Added(db, w, e) /\ e.mail = None
  BY <1>2, CreatedBoard
<1> HIDE DEF w
<1>4. Sound(w)
  BY <1>2, <1>3, QuietIsSound DEF Added
<1> QED
  BY <1>1, <1>4, CommitAlone DEF CreateApplication, w

LEMMA FromJobSound == ASSUME Inv, Alone, NEW r \in Requests, FromJob(r) PROVE Inv' /\ Joined(db, db')
<1>1. PICK c \in Companies, t \in Titles, st \in Statuses :
         LET ident == <<"board", c, t>>
             v == ImportJob(db, ident)
         IN Commit(r, IF OfJob(v, ident) # {} THEN v ELSE Created(v, ident, st, None))
  BY DEF FromJob, Inv
<1> DEFINE ident == <<"board", c, t>>
           v == ImportJob(db, ident)
           w == Created(v, ident, st, None)
<1>2. ident \in Idents /\ Board(db)
  BY DEF Idents, Inv, Settled
<1>a. Commit(r, IF OfJob(v, ident) # {} THEN v ELSE w)
  BY <1>1
<1> HIDE DEF ident
<1>3. Board(v) /\ Grown(db, v) /\ ident \in DOMAIN v.jobs /\ v.apps = db.apps /\ v.events = db.events
  BY <1>2, ImportedBoard
<1> HIDE DEF v
<1>4. Board(w) /\ Grown(v, w) /\ \E e \in EventRows : Added(v, w, e) /\ e.mail = None
  BY <1>3, CreatedBoard
<1>5. Sound(v)
  <2>1. Backed(v) /\ Once(v)
    BY <1>3 DEF Inv, Settled, Backed, Once, MailEvents
  <2> QED
    BY <1>3, <2>1, EditIsSound
<1> HIDE DEF w
<1>6. Sound(w)
  BY <1>3, <1>4, QuietIsSound DEF Added
<1>7. Commit(r, v) \/ Commit(r, w)
  BY <1>a
<1> QED
  BY <1>5, <1>6, <1>7, CommitAlone DEF FromJob

LEMMA UpdateSound == ASSUME Inv, Alone, NEW r \in Requests, UpdateApplication(r) PROVE Inv' /\ Joined(db, db')
<1>1. PICK a \in 1 .. Len(db.apps), to \in Statuses \cup {None} : Commit(r, Updated(db, a, to, None))
  BY DEF UpdateApplication, Inv
<1> DEFINE w == Updated(db, a, to, None)
<1>2. Board(db) /\ Grown(db, db)
  BY BoardIsSound DEF Sound
<1>3. Board(w) /\ Grown(db, w) /\ \E e \in EventRows : Moved(db, w, a, e) /\ e.mail = None
  BY <1>2, UpdatedBoard
<1> HIDE DEF w
<1>4. Sound(w)
  BY <1>2, <1>3, QuietIsSound DEF Moved
<1> QED
  BY <1>1, <1>4, CommitAlone DEF UpdateApplication, w

\* A stored notification is a row, and in order if it was synchronised.
LEMMA Notification ==
    ASSUME NEW d, Board(d), NEW n \in MailEvents(d)
    PROVE  LET e == d.events[n]
           IN  /\ e \in EventRows /\ e.kind = "mail" /\ e.mail \in Mails /\ Timed(e)
               /\ e.app \in 1 .. Len(d.apps) /\ e.app \in Nat /\ n \in 1 .. Len(d.events)
  BY Places DEF MailEvents, Board, Filed, Stored

\* Clock times are numbers.
LEMMA WrittenClocks ==
    /\ \A s \in Written(Starts) : s.clock \in Int /\ \A z \in Zones : InZone(s, z) \in Int
    /\ \A d \in Written(Deadlines) : d.clock \in Int /\ \A z \in Zones : InZone(d, z) \in Int
<1>1. ASSUME NEW F \in SUBSET Nat, NEW t \in Written(F)
      PROVE  t.clock \in Int /\ \A z \in Zones : InZone(t, z) \in Int
  <2>1. Offsets \subseteq Int /\ Zones \subseteq Int
    BY ZonesAssumption
  <2>2. CASE \E c \in F : t = Naive(c)
    BY <2>2 DEF Naive, InZone
  <2>3. CASE t \in [clock : F \ {0}, aware : {TRUE}, offset : Offsets]
    <3>1. t.clock \in F /\ t.offset \in Offsets
      BY <2>3
    <3> QED
      <4>1. t.clock \in Int /\ t.offset \in Int
        <5>1. \A c \in F : c \in Nat
          OBVIOUS
        <5>2. t.clock \in Nat /\ t.offset \in Int
          BY <2>1, <3>1, <5>1
        <5> QED
          BY <5>2
      <4>2. \A z \in Zones : z \in Int
        BY <2>1
      <4> QED
        BY <4>1, <4>2 DEF InZone
  <2> QED
    BY <2>2, <2>3 DEF Written
<1>2. Starts \in SUBSET Nat /\ Deadlines \in SUBSET Nat
  BY BoundsAssumption
<1> QED
  BY <1>1, <1>2

LEMMA CreateCandidateSound ==
    ASSUME Inv, Alone, NEW r \in Requests, CreateCandidate(r)
    PROVE  Inv' /\ Joined(db, db')
<1>1. tx[r].open /\ tx[r].db = db
  BY DEF CreateCandidate, Inv
<1>2. PICK a \in 1 .. Len(db.apps), m \in Mails :
         \/ Commit(r, db)
         \/ \E to \in Statuses \cup {None}, s \in Written(Starts), d \in Written(Deadlines) :
               Commit(r, [db EXCEPT !.events = Append(@, MailEvent(a, m, "pending", to, s.clock, d.clock))])
  BY <1>1 DEF CreateCandidate
<1>3. CASE Commit(r, db)
  BY <1>1, <1>3, BoardIsSound, CommitAlone
<1>4. ASSUME NEW to \in Statuses \cup {None}, NEW s \in Written(Starts), NEW d \in Written(Deadlines),
             Commit(r, [db EXCEPT !.events = Append(@, MailEvent(a, m, "pending", to, s.clock, d.clock))])
      PROVE  Inv' /\ Joined(db, db')
  <2> DEFINE e == MailEvent(a, m, "pending", to, s.clock, d.clock)
             w == [db EXCEPT !.events = Append(@, e)]
  <2>1. Board(db) /\ Grown(db, db) /\ a \in Nat /\ "pending" \in Reviews
    BY BoardIsSound, Places DEF Sound, Board, Reviews
  <2>a. s.clock \in Int /\ d.clock \in Int
    BY WrittenClocks
  <2>2. /\ e \in EventRows /\ e.app = a /\ e.kind = "mail"
        /\ e.mail = m /\ Timed(e)
    BY <2>1, <2>a DEF Timed, MailEvent, EventRows
  <2> HIDE DEF e
  <2>3. Board(w) /\ Grown(db, w) /\ Later(db, w, e)
    BY <1>4, <2>1, <2>2, MailedBoard
  <2>4. Commit(r, w)
    BY <1>4 DEF e
  <2> HIDE DEF w
  <2>5. Sound(w)
    BY <2>1, <2>2, <2>3, QuietIsSound
  <2> QED
    BY <1>1, <2>4, <2>5, CommitAlone
<1> QED
  BY <1>2, <1>3, <1>4

\* A notification is replaced by one of the same key that has acted if it had.
LEMMA ReplaceSound ==
    ASSUME Inv, Alone, NEW r \in Requests, tx[r].open, NEW n \in MailEvents(db), NEW e \in EventRows,
           e.kind = "mail", SameKey(e, db.events[n]), Timed(e),
           e.from = db.events[n].from, e.to = db.events[n].to,
           db.events[n].review \in Acted => e.review \in Acted,
           Commit(r, [db EXCEPT !.events = [@ EXCEPT ![n] = e]])
    PROVE  Inv' /\ Joined(db, db')
<1> DEFINE w == [db EXCEPT !.events = [@ EXCEPT ![n] = e]]
<1>1. Board(db) /\ Backed(db) /\ Once(db) /\ Keyed(db)
  BY DEF Inv, Settled
<1>2. Board(w) /\ Grown(db, w) /\ Edited(db, w, n, e)
  BY <1>1, EditedBoard DEF SameKey
<1> HIDE DEF w
<1>3. Backed(w) /\ Once(w)
  BY <1>1, <1>2, EditedBacked
<1>4. Sound(w)
  BY <1>2, <1>3, EditIsSound DEF Edited
<1> QED
  BY <1>4, CommitAlone DEF w

LEMMA UpdateCandidateSound ==
    ASSUME Inv, Alone, NEW r \in Requests, UpdateCandidate(r)
    PROVE  Inv' /\ Joined(db, db')
<1>1. tx[r].open /\ tx[r].db = db /\ Board(db)
  BY DEF UpdateCandidate, Inv, Settled
<1>2. PICK n \in MailEvents(db) : \E to \in Statuses \cup {None},
             s \in Written(Starts) \cup {Naive(db.events[n].sched)},
             d \in Written(Deadlines) \cup {Naive(db.events[n].deadline)} :
         /\ db.events[n].review = "pending"
         /\ Commit(r, [db EXCEPT !.events[n] = [@ EXCEPT !.target = to, !.sched = s.clock, !.deadline = d.clock]])
  BY <1>1 DEF UpdateCandidate
<1>3. PICK to \in Statuses \cup {None},
           s \in Written(Starts) \cup {Naive(db.events[n].sched)},
           d \in Written(Deadlines) \cup {Naive(db.events[n].deadline)} :
         /\ db.events[n].review = "pending"
         /\ Commit(r, [db EXCEPT !.events[n] = [@ EXCEPT !.target = to, !.sched = s.clock, !.deadline = d.clock]])
  BY <1>2
<1> DEFINE start == s.clock
           end == d.clock
           e == [db.events[n] EXCEPT !.target = to, !.sched = start, !.deadline = end]
<1>4. db.events[n] \in EventRows /\ db.events[n].kind = "mail"
  BY <1>1, Notification
<1>5. start \in Int /\ end \in Int
  BY <1>4, WrittenClocks DEF EventRows, Naive
<1>6. Commit(r, [db EXCEPT !.events = [@ EXCEPT ![n] = e]]) /\ db.events[n].review = "pending"
  BY <1>3
<1> HIDE DEF start, end
<1>7. /\ e \in EventRows /\ e.kind = "mail" /\ SameKey(e, db.events[n])
      /\ e.review = db.events[n].review /\ Timed(e)
      /\ e.from = db.events[n].from /\ e.to = db.events[n].to
  BY <1>4, <1>5, <1>6 DEF EventRows, SameKey, Timed
<1> HIDE DEF e
<1> QED
  BY <1>1, <1>6, <1>7, ReplaceSound

LEMMA RejectSound ==
    ASSUME Inv, Alone, NEW r \in Requests, RejectCandidate(r)
    PROVE  Inv' /\ Joined(db, db')
<1>1. tx[r].open /\ tx[r].db = db /\ Board(db)
  BY DEF RejectCandidate, Inv, Settled
<1>2. PICK n \in MailEvents(db) :
         /\ db.events[n].review \notin Acted
         /\ Commit(r, [db EXCEPT !.events[n].review = "rejected"])
  BY <1>1 DEF RejectCandidate, ForAction, Acted
<1> DEFINE e == [db.events[n] EXCEPT !.review = "rejected"]
<1>3. db.events[n] \in EventRows /\ db.events[n].kind = "mail"
  BY <1>1, Notification
<1>4. /\ e \in EventRows /\ e.kind = "mail" /\ SameKey(e, db.events[n])
      /\ Timed(e)
      /\ e.from = db.events[n].from /\ e.to = db.events[n].to
  BY <1>3 DEF EventRows, SameKey, Reviews, Timed
<1>5. Commit(r, [db EXCEPT !.events = [@ EXCEPT ![n] = e]])
  BY <1>2
<1> HIDE DEF e
<1> QED
  BY <1>1, <1>2, <1>3, <1>4, <1>5, ReplaceSound

\* Notification n is read again, with these times.
Reread(r, v, n, zone, start, end, relative) ==
    LET e == Enriched(v.events[n], InZone(start, zone), InZone(end, zone), relative)
    IN /\ e = v.events[n] \/ ValidTimes(Naive(e.sched), Naive(e.deadline))
       /\ Commit(r, [v EXCEPT !.events[n] = e])

LEMMA SeenMailSound ==
    ASSUME Inv, Alone, NEW r \in Requests, SyncSeenMail(r)
    PROVE  Inv' /\ Joined(db, db')
<1>1. tx[r].open /\ tx[r].db = db /\ Board(db)
  BY DEF SyncSeenMail, Inv, Settled
<1>2. \E m \in Mails, zone \in Zones, start \in Written(Starts), end \in Written(Deadlines),
         relative \in Deadlines : \E n \in Seen(tx[r].db, m) : Reread(r, tx[r].db, n, zone, start, end, relative)
  BY DEF SyncSeenMail, Reread
<1>b. PICK zone \in Zones, start \in Written(Starts), end \in Written(Deadlines), relative \in Deadlines :
         \E n \in MailEvents(db) : Reread(r, db, n, zone, start, end, relative)
  <2>1. \A m : \A n \in Seen(db, m) : n \in MailEvents(db)
    BY DEF Seen
  <2>2. tx[r].db = db
    BY <1>1
  <2> QED
    BY <1>2, <2>1, <2>2
<1>3. PICK n \in MailEvents(db) : Reread(r, db, n, zone, start, end, relative)
  BY <1>b
<1> DEFINE s == InZone(start, zone)
           d == InZone(end, zone)
           e == Enriched(db.events[n], s, d, relative)
<1>4. /\ n \in MailEvents(db) /\ db.events[n] \in EventRows /\ db.events[n].kind = "mail"
      /\ Timed(db.events[n])
  BY <1>1, Notification
<1>5. s \in Int /\ d \in Int /\ relative \in Int
  BY WrittenClocks, BoundsAssumption
<1>6. /\ e = db.events[n] \/ ValidTimes(Naive(e.sched), Naive(e.deadline))
      /\ Commit(r, [db EXCEPT !.events = [@ EXCEPT ![n] = e]])
  BY <1>3 DEF Reread
<1> HIDE DEF s, d
<1>7. /\ e \in EventRows /\ e.kind = "mail" /\ SameKey(e, db.events[n])
      /\ e.review = db.events[n].review
      /\ e.from = db.events[n].from /\ e.to = db.events[n].to
  BY <1>4, <1>5 DEF EventRows, SameKey, Enriched
<1> HIDE DEF e
<1>8. Timed(e)
  BY <1>4, <1>6 DEF Timed
<1> QED
  BY <1>1, <1>4, <1>6, <1>7, <1>8, ReplaceSound

LEMMA ConfirmSound ==
    ASSUME Inv, Alone, NEW r \in Requests, ConfirmCandidate(r)
    PROVE  Inv' /\ Joined(db, db')
<1>1. tx[r].open /\ tx[r].db = db /\ Board(db) /\ Backed(db) /\ Once(db) /\ Keyed(db)
  BY DEF ConfirmCandidate, Inv, Settled
<1>2. PICK n \in MailEvents(db), chosen \in Statuses \cup {None} :
         LET e  == db.events[n]
             to == IF chosen # None THEN chosen ELSE e.target
             w  == [db EXCEPT !.events[n].review = "confirmed"]
         IN /\ ForAction(e)
            /\ Commit(r, IF e.review = "confirmed" THEN db ELSE IF to = None THEN w ELSE Move(w, e.app, to, e.mail))
  BY <1>1 DEF ConfirmCandidate
<1> DEFINE e  == db.events[n]
           to == IF chosen # None THEN chosen ELSE e.target
           c  == [e EXCEPT !.review = "confirmed"]
           u  == [db EXCEPT !.events = [@ EXCEPT ![n] = c]]
           w  == Move(u, e.app, to, e.mail)
<1>3. /\ e \in EventRows /\ e.kind = "mail"
      /\ e.app \in 1 .. Len(db.apps)
  BY <1>1, Notification
<1>4. /\ c \in EventRows /\ c.kind = "mail" /\ SameKey(c, e) /\ c.review = "confirmed"
      /\ Timed(c) /\ c.from = e.from /\ c.to = e.to
      /\ e.mail \in Mails \cup {None} /\ e.target \in Statuses \cup {None}
  BY <1>3 DEF EventRows, SameKey, Reviews, Timed
<1>5. \/ e.review = "confirmed" /\ Commit(r, db)
      \/ e.review \notin Acted /\ Commit(r, IF to = None THEN u ELSE w)
  <2> DEFINE new == IF e.review = "confirmed" THEN db ELSE IF to = None THEN u ELSE w
  <2>1. ForAction(e) /\ Commit(r, new)
    BY <1>2
  <2>2. e.review = "confirmed" => new = db
    OBVIOUS
  <2>3. e.review # "confirmed" => new = IF to = None THEN u ELSE w
    OBVIOUS
  <2> HIDE DEF new, u, w, to
  <2> QED
    BY <2>1, <2>2, <2>3 DEF ForAction, Acted
<1>6. CASE Commit(r, db)
  BY <1>1, <1>6, BoardIsSound, CommitAlone
<1>7. CASE e.review \notin Acted /\ to = None /\ Commit(r, u)
  <2> HIDE DEF c
  <2>1. Commit(r, [db EXCEPT !.events = [@ EXCEPT ![n] = c]])
    BY <1>7
  <2> QED
    BY <1>1, <1>3, <1>4, <1>7, <2>1, ReplaceSound
<1>8. CASE e.review \notin Acted /\ to # None /\ Commit(r, w)
  <2> HIDE DEF c
  <2>1. Board(u) /\ Grown(db, u) /\ Edited(db, u, n, c) /\ u.apps = db.apps
    BY <1>1, <1>3, <1>4, EditedBoard DEF SameKey
  <2> HIDE DEF u
  <2>2. to \in Statuses
    BY <1>4, <1>8
  <2> HIDE DEF to
  <2>3. /\ Board(w) /\ Grown(u, w)
        /\ w = u \/ \E x \in EventRows : Moved(u, w, e.app, x) /\ x.mail = e.mail
    BY <1>3, <1>4, <2>1, <2>2, MoveBoard
  <2> HIDE DEF w
  <2>4. CASE w = u
    <3>1. Backed(u) /\ Once(u)
      BY <1>1, <1>4, <2>1, EditedBacked DEF Acted
    <3>2. Sound(u)
      BY <2>1, <3>1, EditIsSound DEF Edited
    <3> QED
      BY <1>1, <1>8, <2>4, <3>2, CommitAlone
  <2>5. ASSUME NEW x \in EventRows, Moved(u, w, e.app, x), x.mail = e.mail
        PROVE  Inv' /\ Joined(db, db')
    <3>1. Later(u, w, x) /\ SameKey(x, e) /\ x.kind # "created"
      BY <2>5 DEF Moved, SameKey
    <3>2. Backed(w) /\ Once(w)
      BY <1>1, <1>4, <1>8, <2>1, <3>1, ConfirmedBacked DEF Acted
    <3>3. Grown(db, w)
      BY <2>1, <2>3, Places DEF Grown, Board
    <3>4. Joined(db, w)
      <4>1. \A k \in Len(db.events) + 1 .. Len(w.events) : w.events[k] = x
        BY <2>1, <3>1, Places DEF Later, Edited, Board
      <4> QED
        BY <3>1, <4>1 DEF Joined
    <3> QED
      BY <1>1, <1>8, <2>3, <3>2, <3>3, <3>4, CommitAlone DEF Sound
  <2> QED
    BY <2>3, <2>4, <2>5
<1> QED
  BY <1>5, <1>6, <1>7, <1>8

\* The newest of some applications is one of them.
LEMMA MaxIn ==
    ASSUME NEW N \in Nat, NEW S \in SUBSET (1 .. N), S # {}
    PROVE  Max(S) \in S
<1> DEFINE T == {N - a : a \in S}
<1>1. T \subseteq Nat /\ T # {}
  <2>1. \A a \in S : N - a \in Nat
    OBVIOUS
  <2>2. PICK a \in S : TRUE
    OBVIOUS
  <2> QED
    BY <2>1, <2>2
<1>2. PICK x \in T : \A y \in T : ~(<<y, x>> \in OpToRel(<, Nat))
  <2> HIDE DEF T
  <2> QED
    BY <1>1, NatLessThanWellFounded, WFMin
<1>3. PICK a \in S : x = N - a
  BY <1>2
<1>4. ASSUME NEW b \in S PROVE a >= b
  <2>1. N - b \in T /\ N - b \in Nat /\ x \in Nat
    OBVIOUS
  <2>2. ~(N - b < x)
    BY <1>2, <2>1 DEF OpToRel
  <2> QED
    BY <1>3, <2>2
<1> QED
  BY <1>4 DEF Max

\* Where few applications have the names of a mail, all of them are listed.
LEMMA ListedAll ==
    ASSUME NEW d, TypedBoard(d), NEW c, NEW title, NEW listed \in Listed(d, c, title)
    PROVE  /\ listed \subseteq 1 .. Len(d.apps)
           /\ Cardinality(Matching(d, c, title)) <= MatchLimit => listed = Matching(d, c, title)
<1> DEFINE L == Len(d.apps)
           F == Matching(d, c, title)
<1>1. L \in Nat /\ MatchLimit \in Nat
  BY Places, BoundsAssumption
<1>2. F \subseteq 1 .. L
  BY DEF Matching
<1>3. listed \in SUBSET F /\ Cardinality(listed) = Min({MatchLimit, Cardinality(F)})
  BY DEF Listed, kSubset
<1> HIDE DEF F
<1>4. IsFiniteSet(1 .. L)
  BY <1>1, FS_Interval
<1> HIDE DEF L
<1>5. IsFiniteSet(F) /\ Cardinality(F) \in Nat
  BY <1>2, <1>4, FS_Subset, FS_CardinalityType
<1>6. ASSUME Cardinality(F) <= MatchLimit PROVE listed = F
  <2>1. Min({MatchLimit, Cardinality(F)}) = Cardinality(F)
    BY <1>1, <1>5, <1>6 DEF Min
  <2> QED
    BY <1>3, <1>5, <2>1, FS_Subset
<1> QED
  BY <1>2, <1>3, <1>6 DEF F, L

\* The application a new mail is about, and the tables with its status.
LEMMA PlacedBoard ==
    ASSUME Inv, NEW m \in Mails, NEW co \in Companies, NEW title \in Titles \cup {NoTitle},
           NEW to \in Statuses, NEW listed \in Listed(db, co, title),
           NEW p \in Placed(db, listed, co, title, to, m)
    PROVE  LET u == IF p[1] = NewApp THEN p[2] ELSE Move(p[2], p[1], to, m)
           IN  /\ Board(u) /\ Grown(db, u) /\ p[1] \in 1 .. Len(u.apps)
               /\ \/ u.events = db.events /\ Len(u.apps) = Len(db.apps)
                  \/ \E x \in EventRows :
                        /\ Later(db, u, x) /\ x.mail = m /\ x.app = p[1]
                        /\ x.kind = "created" => NewPosting(db, u.apps[x.app].job)
<1> DEFINE ident == <<"qq_mail", co, title>>
           w     == ImportJob(db, ident)
           of    == OfJob(w, ident)
           A     == Len(db.apps)
           u     == IF p[1] = NewApp THEN p[2] ELSE Move(p[2], p[1], to, m)
<1>1. Board(db) /\ Grown(db, db) /\ A \in Nat /\ ident \in Idents
  BY BoardIsSound, Places DEF Sound, Board, Idents
<1>2. Board(w) /\ Grown(db, w) /\ ident \in DOMAIN w.jobs /\ w.apps = db.apps /\ w.events = db.events
  BY <1>1, ImportedBoard
<1>3. /\ listed \subseteq 1 .. A
      /\ Cardinality(Matching(db, co, title)) <= MatchLimit => listed = Matching(db, co, title)
  BY <1>1, ListedAll DEF Board
<1> HIDE DEF w
<1>4. ASSUME NEW a \in 1 .. A, NEW v, v = db \/ v = w, p[1] = a, p[2] = v
      PROVE  /\ Board(u) /\ Grown(db, u) /\ p[1] \in 1 .. Len(u.apps)
             /\ \/ u.events = db.events /\ Len(u.apps) = A
                \/ \E x \in EventRows : Later(db, u, x) /\ x.mail = m /\ x.app = a /\ x.kind # "created"
  <2>1. u = Move(v, a, to, m)
    BY <1>1, <1>4 DEF NewApp
  <2>2. Board(v) /\ Grown(db, v) /\ v.events = db.events /\ v.apps = db.apps
    BY <1>1, <1>2, <1>4
  <2>3. /\ Board(u) /\ Grown(v, u)
        /\ u = v \/ \E x \in EventRows : Moved(v, u, a, x) /\ x.mail = m
    BY <2>1, <2>2, MoveBoard
  <2> HIDE DEF u
  <2>4. Grown(db, u) /\ p[1] \in 1 .. Len(u.apps)
    BY <1>1, <1>4, <2>2, <2>3, Places DEF Grown, Board
  <2>5. ASSUME NEW x \in EventRows, Moved(v, u, a, x)
        PROVE  Later(db, u, x) /\ x.app = a /\ x.kind # "created"
    BY <2>2, <2>5 DEF Moved, Later
  <2> QED
    BY <2>2, <2>3, <2>4, <2>5
<1>5. CASE Exact(db, listed, co, title) # {}
  <2>1. PICK a \in Exact(db, listed, co, title) : p = <<a, db>>
    BY <1>5 DEF Placed
  <2>2. a \in 1 .. A /\ p[1] = a /\ p[2] = db
    BY <1>3, <2>1 DEF Exact
  <2> HIDE DEF u, A
  <2> QED
    BY <1>4, <2>2 DEF A, u
<1>6. CASE Exact(db, listed, co, title) = {} /\ of # {}
  <2>1. p = <<Max(of), w>>
    BY <1>6 DEF Placed, w
  <2>2. of \in SUBSET (1 .. A)
    BY <1>2 DEF OfJob
  <2>3. Max(of) \in 1 .. A /\ p[1] = Max(of) /\ p[2] = w
    <3> HIDE DEF of, A
    <3> QED
      BY <1>1, <1>6, <2>1, <2>2, MaxIn
  <2> HIDE DEF u, A, of
  <2> QED
    BY <1>4, <2>3 DEF A, u
<1>7. CASE Exact(db, listed, co, title) = {} /\ of = {}
  <2> DEFINE c == Created(w, ident, to, m)
  <2>1. p = <<NewApp, c>>
    BY <1>7 DEF Placed, w
  <2>2. p[1] = NewApp /\ u = c
    BY <2>1
  <2>3. /\ Board(c) /\ Grown(w, c) /\ c.apps[NewApp].job = ident
        /\ \E x \in EventRows : Added(w, c, x) /\ x.mail = m
    BY <1>2, CreatedBoard
  <2> HIDE DEF c, u
  <2>4. PICK x \in EventRows : Added(w, c, x) /\ x.mail = m
    BY <2>3
  <2>5. Later(db, c, x) /\ x.app = NewApp /\ Len(c.apps) = A + 1
    BY <1>2, <2>4 DEF Added, Later, NewApp
  <2>6. Grown(db, c) /\ NewApp \in 1 .. Len(c.apps)
    BY <1>1, <1>2, <2>3, <2>5, Places DEF Grown, Board, NewApp
  <2>7. ASSUME Cardinality(Matching(db, co, title)) <= MatchLimit, NEW b \in 1 .. A,
               db.apps[b].job[2] = co, db.apps[b].job[3] = title
        PROVE  FALSE
    <3> DEFINE job == db.apps[b].job
               row == db.jobs[job]
    <3>1. job \in Idents /\ row.source = job[1] /\ row.company = co /\ row.title = title
      BY <1>1, <2>7 DEF Board, TypedBoard, Filed
    <3>2. title = NoTitle => job[1] = "qq_mail"
      BY <2>7, <3>1, NoneAssumption DEF Idents
    <3> HIDE DEF job
    <3>3. b \in Matching(db, co, title)
      BY <3>1 DEF Matching, job, A
    <3>4. b \in listed
      BY <1>3, <2>7, <3>3
    <3>5. b \in Exact(db, listed, co, title)
      BY <3>1, <3>2, <3>4 DEF Exact, job
    <3> QED
      BY <1>7, <3>5
  <2>8. ident[2] = co /\ ident[3] = title
    OBVIOUS
  <2>9. NewPosting(db, ident)
    <3> HIDE DEF ident
    <3> QED
      BY <2>7, <2>8 DEF NewPosting, A
  <2> HIDE DEF ident, A
  <2> QED
    BY <2>2, <2>3, <2>4, <2>5, <2>6, <2>9 DEF A, u
<1> QED
  BY <1>5, <1>6, <1>7

LEMMA NewMailSound ==
    ASSUME Inv, Alone, NEW r \in Requests, SyncNewMail(r)
    PROVE  Inv' /\ Joined(db, db')
<1>1. tx[r].open /\ tx[r].db = db /\ Board(db) /\ Backed(db) /\ Once(db)
  BY DEF SyncNewMail, Inv, Settled
<1>2. PICK m \in Mails, co \in Companies, title \in Titles \cup {NoTitle}, to \in Statuses,
           zone \in Zones, start \in Written(Starts), end \in Written(Deadlines) :
         LET s == InZone(start, zone)
             d == InZone(end, zone)
         IN /\ Seen(db, m) = {} /\ ValidTimes(Naive(s), Naive(d))
            /\ \E listed \in Listed(db, co, title) :
               \E p \in Placed(db, listed, co, title, to, m) : Commit(r, Applied(p, m, to, s, d))
  BY <1>1 DEF SyncNewMail
<1> DEFINE s == InZone(start, zone)
           d == InZone(end, zone)
<1>a. Seen(db, m) = {} /\ ValidTimes(Naive(s), Naive(d)) /\ s \in Int /\ d \in Int
  BY <1>2, WrittenClocks
<1>3. PICK listed \in Listed(db, co, title) :
         \E p \in Placed(db, listed, co, title, to, m) : Commit(r, Applied(p, m, to, s, d))
  BY <1>2
<1> HIDE DEF s, d
<1>4. PICK p \in Placed(db, listed, co, title, to, m) : Commit(r, Applied(p, m, to, s, d))
  BY <1>3
<1> DEFINE u == IF p[1] = NewApp THEN p[2] ELSE Move(p[2], p[1], to, m)
           f == MailEvent(p[1], m, "synced", None, s, d)
           w == [u EXCEPT !.events = Append(@, f)]
<1>5. /\ Board(u) /\ Grown(db, u) /\ p[1] \in 1 .. Len(u.apps)
      /\ \/ u.events = db.events /\ Len(u.apps) = Len(db.apps)
         \/ \E x \in EventRows :
               /\ Later(db, u, x) /\ x.mail = m /\ x.app = p[1]
               /\ x.kind = "created" => NewPosting(db, u.apps[x.app].job)
  BY PlacedBoard
<1>6. Commit(r, w)
  BY <1>4 DEF Applied
<1> HIDE DEF u
<1>7. p[1] \in Nat /\ s \in Int /\ d \in Int /\ "synced" \in Reviews
  BY <1>5, <1>a, Places DEF Board, Reviews
<1>8. /\ f \in EventRows /\ f.kind = "mail" /\ f.app = p[1] /\ f.mail = m
      /\ f.review = "synced" /\ Timed(f)
  BY <1>7, <1>a DEF MailEvent, EventRows, Timed
<1> HIDE DEF f
<1>9. Board(w) /\ Grown(u, w) /\ Later(u, w, f) /\ w.apps = u.apps
  BY <1>5, <1>8, MailedBoard
<1> HIDE DEF w
<1>10. CASE u.events = db.events /\ Len(u.apps) = Len(db.apps)
  <2>1. Sound(w)
    BY <1>5, <1>8, <1>9, <1>10, QuietIsSound
  <2> QED
    BY <1>1, <1>6, <2>1, CommitAlone
<1>11. ASSUME NEW x \in EventRows, Later(db, u, x), x.mail = m, x.app = p[1],
              x.kind = "created" => NewPosting(db, u.apps[x.app].job)
       PROVE  Inv' /\ Joined(db, db')
  <2>1. Backed(w) /\ Once(w)
    <3>1. SameKey(f, x) /\ f.review \in Acted
      BY <1>8, <1>11 DEF SameKey, Acted
    <3> QED
      BY <1>1, <1>a, <1>5, <1>8, <1>9, <1>11, <3>1, SyncedBacked
  <2>2. Grown(db, w)
    BY <1>5, <1>9, Places DEF Grown, Board
  <2>3. Joined(db, w)
    <3>1. \A n \in Len(db.events) + 1 .. Len(w.events) : w.events[n] = x \/ w.events[n] = f
      BY <1>9, <1>11, <1>1, Places DEF Later, Board
    <3> QED
      BY <1>8, <1>9, <1>11, <3>1 DEF Joined
  <2> QED
    BY <1>1, <1>6, <1>9, <2>1, <2>2, <2>3, CommitAlone DEF Sound
<1> QED
  BY <1>5, <1>10, <1>11

----------------------------------------------------------------------------
(* The theorems.                                                           *)

LEMMA InvInit == Init => Inv
<1> SUFFICES ASSUME Init PROVE Inv
  OBVIOUS
<1>1. /\ db.apps = <<>> /\ db.events = <<>> /\ db.jobs = <<>>
      /\ db = [jobs |-> db.jobs, apps |-> db.apps, events |-> db.events]
      /\ tx = [r \in Requests |-> Idle]
  BY DEF Init, Empty
<1>2. /\ db.apps \in Seq(AppRows) /\ Len(db.apps) = 0
      /\ db.events \in Seq(EventRows) /\ Len(db.events) = 0
      /\ DOMAIN db.jobs = {} /\ db.jobs \in [{} -> JobRows]
  BY <1>1
<1>3. Board(db) /\ Backed(db) /\ Once(db) /\ Keyed(db)
  BY <1>1, <1>2 DEF Board, TypedBoard, Filed, Explains, Backed, Once, Keyed, MailEvents
<1> QED
  BY <1>1, <1>3 DEF Inv, Settled, Idle

\* Every step of requests that come one at a time.
LEMMA InvStep == Inv /\ Alone /\ [Next]_vars => Inv' /\ (Joined(db, db') \/ UNCHANGED db)
<1> SUFFICES ASSUME Inv, Alone, [Next]_vars PROVE Inv' /\ (Joined(db, db') \/ UNCHANGED db)
  OBVIOUS
<1>1. CASE UNCHANGED vars
  BY <1>1 DEF vars, Inv
<1>2. ASSUME NEW r \in Requests, Begin(r) PROVE Inv' /\ UNCHANGED db
  BY <1>2 DEF Begin, Inv
<1>3. ASSUME NEW r \in Requests, RollBack(r) PROVE Inv' /\ UNCHANGED db
  BY <1>3 DEF RollBack, Inv, Idle
<1> QED
  BY <1>1, <1>2, <1>3, CreateSound, FromJobSound, UpdateSound, CreateCandidateSound, UpdateCandidateSound,
     RejectSound, ConfirmSound, SeenMailSound, NewMailSound DEF Next, SyncMailApplication

\* While requests come one at a time, the tables are what the requests say they are.
THEOREM InvAlways == Spec /\ []Alone => []Inv
<1>1. Init => Inv
  BY InvInit
<1>2. Inv /\ Alone /\ [Next]_vars => Inv'
  BY InvStep
<1> QED
  BY <1>1, <1>2, PTL DEF Spec

\* The timeline explains the status of every application: it begins with the
\* creation, each change starts where the one before it ended, and the board shows
\* the last.
THEOREM TimelineTheorem == Spec /\ []Alone => []TimelineTellsStatus
<1>1. Inv => TimelineTellsStatus
  BY DEF Inv, Settled, Board, Explains, ShowsLast, Chained, ChangesIn, TimelineTellsStatus, Changes
<1> QED
  BY <1>1, InvAlways, PTL

\* A mail moves an application once, whichever way and however often it comes.
THEOREM AppliedOnceTheorem == Spec /\ []Alone => []MailAppliedOnce
<1>1. Inv => MailAppliedOnce
  BY DEF Inv, Settled, Once, ByMail, SameKey, MailAppliedOnce, Effects, Changes
<1> QED
  BY <1>1, InvAlways, PTL

\* What the user rejected never moves the application, also when the mail comes
\* again.
THEOREM RejectedTheorem == Spec /\ []Alone => []RejectedNeverApplied
<1>1. Inv => RejectedNeverApplied
  <2> SUFFICES ASSUME Inv, NEW n \in MailEvents(db), db.events[n].review = "rejected",
                      NEW k \in Effects(db.events[n].app, db.events[n].mail)
               PROVE  FALSE
    BY DEF RejectedNeverApplied
  <2>1. db.events[n].mail \in Mails
    BY Notification DEF Inv, Settled
  <2>2. k \in 1 .. Len(db.events) /\ ByMail(db.events[k]) /\ SameKey(db.events[k], db.events[n])
    BY <2>1 DEF Effects, Changes, ByMail, SameKey
  <2>3. PICK j \in MailEvents(db) : SameKey(db.events[j], db.events[k]) /\ db.events[j].review \in Acted
    BY <2>2 DEF Inv, Settled, Backed
  <2>4. j = n
    BY <2>2, <2>3 DEF Inv, Settled, Keyed, SameKey
  <2> QED
    BY <2>3, <2>4 DEF Acted
<1> QED
  BY <1>1, InvAlways, PTL

\* The deadline of a notification that was synchronised is not before its start,
\* however its times were written and filled in later.
THEOREM TimesTheorem == Spec /\ []Alone => []TimesOrdered
<1>1. Inv => TimesOrdered
  <2> SUFFICES ASSUME Inv, NEW n \in MailEvents(db), db.events[n].review = "synced",
                      db.events[n].sched # 0, db.events[n].deadline # 0
               PROVE  db.events[n].deadline >= db.events[n].sched
    BY DEF TimesOrdered
  <2> DEFINE s == db.events[n].sched
             d == db.events[n].deadline
  <2>1. s \in Int /\ d \in Int /\ ValidTimes(Naive(s), Naive(d))
    BY Notification DEF Inv, Settled, Timed, EventRows
  <2> HIDE DEF s, d
  <2>2. s # 0 /\ d # 0 => d - 0 >= s - 0
    BY <2>1 DEF ValidTimes, Naive
  <2> QED
    BY <2>1, <2>2 DEF s, d
<1> QED
  BY <1>1, InvAlways, PTL

\* Mail adds no second application for a posting that has one, where the lookup
\* lists all applications that have its names.
THEOREM JoinsTheorem == Spec /\ []Alone => MailJoinsApplication
<1>1. Inv /\ Alone /\ [Next]_vars =>
         [\A n \in Len(db.events) + 1 .. Len(db'.events) :
            LET e   == db'.events[n]
                job == db'.apps[e.app].job
            IN e.kind = "created" /\ e.mail # None
                   /\ Cardinality(Matching(db, job[2], job[3])) <= MatchLimit =>
                 \A b \in 1 .. Len(db.apps) : <<db.apps[b].job[2], db.apps[b].job[3]>> # <<job[2], job[3]>>]_vars
  <2> SUFFICES ASSUME Inv, Alone, [Next]_vars, vars' # vars PROVE Joined(db, db')
    BY DEF Joined, NewPosting
  <2>1. Len(db.events) \in Nat
    BY Places DEF Inv, Settled, Board
  <2> QED
    BY <2>1, InvStep DEF Joined
<1> QED
  BY <1>1, InvAlways, PTL DEF Spec, MailJoinsApplication
=============================================================================
