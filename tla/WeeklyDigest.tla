---------------------------- MODULE WeeklyDigest ----------------------------
(***************************************************************************)
(* The email digest of srv/jobs/report.go: BuildReport selects the postings *)
(* that were never emailed, collapses copies of the same job               *)
(* (srv/jobs/dedupe.go), takes the best ones and the ids to mark;          *)
(* WeeklyReport mails the text to every recipient and then marks the ids,   *)
(* one statement each, if at least one mail went out.  Meanwhile the owner  *)
(* may trash and restore postings, a manual email may run out of time and   *)
(* the process may die.  Fetching, ranking and purging hold the same slot   *)
(* and so happen only between emails.                                       *)
(*                                                                         *)
(* A posting is a number, a later one was first seen later.  Its url, org   *)
(* and title stand for what dedupe.go computes from them: the canonical     *)
(* URL, the normalised org and title, and Alike the pairs of titles whose   *)
(* token sets overlap.                                                      *)
(***************************************************************************)
EXTENDS Naturals, FiniteSets, Sequences, SequencesExt, UnionFind

CONSTANTS
    Postings, Url, Org, Title, Score, Source,
    Alike,       \* the pairs of titles that similar() accepts
    Blank,       \* the empty org or url
    Arriving,    \* bound: the postings that are ever found
    Trashable,   \* bound: the postings the owner trashes or restores
    Recipients,
    ReportMax, AlsoMax

ASSUME PostingsAssumption ==
    /\ Postings \subseteq Nat /\ IsFiniteSet(Postings)
    /\ Score \in [Postings -> 0..100]
    /\ Arriving \subseteq Postings /\ Trashable \subseteq Arriving
ASSUME RecipientsAssumption == IsFiniteSet(Recipients)
ASSUME CapsAssumption == ReportMax \in Nat /\ AlsoMax \in Nat

VARIABLES
    rows,       \* job_postings: the ranked postings in the table
    hidden,     \* the column hidden
    reported,   \* the rows with a reported_at
    pc,         \* "idle", "send", "mark"
    snapshot,   \* the rows Unreported returned
    todo,       \* the recipients not tried yet
    sent,       \* those whose mail was accepted
    unmarked,   \* the ids MarkReported has not reached yet
    ctx,        \* "none", or for a manual email "live" and then "over"
    delivered,  \* history: the keys shown in a mail that somebody got
    quiet,      \* history: the postings a mail stood for, to stay quiet about
    shown,      \* history: the postings shown in a mail that somebody got
    excused     \* history: the postings whose mark was lost: crash, timeout,
                \* refused statement, purge

table == <<rows, hidden, reported>>
email == <<pc, snapshot, todo, sent, unmarked, ctx>>
history == <<delivered, quiet, shown, excused>>
vars == <<table, email, history>>

ReportMinScore == 70
AlsoMin == 40
PurgeBelow == 50

-----------------------------------------------------------------------------
(* Dedupe: the groups of postings that are the same job. *)

\* The function itself; to compare it has TLC compute each of its values once.
Table(f) == CHOOSE t \in {f} : t = f

\* The order of List and Unreported: best score first, then the latest.
Before(p, q) == Score[p] > Score[q] \/ (Score[p] = Score[q] /\ p > q)

Key(p) == <<Org[p], Title[p]>>

\* The org, or the source of a posting without one.
Bucket(p) == IF Org[p] = Blank THEN <<"source", Source[p]>> ELSE <<"org", Org[p]>>

\* The three rules; rule 3 compares titles within one bucket.
SameJob(p, q) ==
    \/ Url[p] # Blank /\ Url[p] = Url[q]
    \/ Key(p) = Key(q)
    \/ Bucket(p) = Bucket(q) /\ {Title[p], Title[q]} \in Alike

\* For each set of rows, the group of each of them: all that the rules connect.
Groups ==
    Table([S \in SUBSET Postings |-> [p \in S |->
        {q \in S : \A C \in SUBSET S :
            (p \in C /\ \A a \in C, b \in S : SameJob(a, b) => b \in C) => q \in C}]])

Group(p, S) == Groups[S][p]

\* How Dedupe finds them.  The rows come best first; one pass joins each with
\* the first one of its url and the first one of its key (which may be itself,
\* as a row without a url always is), then the rows of each
\* bucket are compared in pairs, the buckets in the order the map gives them.
\* Each loop is a function of the number of its iterations.
Rows(S) ==
    [i \in 1..Cardinality(S) |-> CHOOSE p \in S : Cardinality({q \in S : Before(q, p)}) = i - 1]

byURL(row, i) ==
    IF Url[row[i]] = Blank THEN i
    ELSE CHOOSE j \in 1..i : Url[row[j]] = Url[row[i]] /\ \A k \in 1..(j - 1) : Url[row[k]] # Url[row[i]]

byKey(row, i) ==
    CHOOSE j \in 1..i : Key(row[j]) = Key(row[i]) /\ \A k \in 1..(j - 1) : Key(row[k]) # Key(row[i])

SameUrlOrKey(row, p) ==
    LET pass[i \in 0..Len(row)] ==
            IF i = 0 THEN p ELSE union(union(pass[i - 1], i, byURL(row, i)), i, byKey(row, i))
    IN  pass[Len(row)]

Compare(row, p, i, j) ==
    LET u == find(find(p, i), j)
    IN  IF Root(u)[i] # Root(u)[j] /\ {Title[row[i]], Title[row[j]]} \in Alike THEN union(u, i, j) ELSE u

\* Row i and the later ones of its bucket.
SimilarTo(row, p, i) ==
    LET pass[j \in 0..Len(row)] ==
            IF j = 0 THEN p
            ELSE IF i < j /\ Bucket(row[j]) = Bucket(row[i]) THEN Compare(row, pass[j - 1], i, j)
            ELSE pass[j - 1]
    IN  pass[Len(row)]

SimilarInBucket(row, p, bucket) ==
    LET pass[i \in 0..Len(row)] ==
            IF i = 0 THEN p
            ELSE IF Bucket(row[i]) = bucket THEN SimilarTo(row, pass[i - 1], i)
            ELSE pass[i - 1]
    IN  pass[Len(row)]

Dedupe(S, buckets) ==
    LET row == Rows(S)
        pass[k \in 0..Len(buckets)] ==
            IF k = 0 THEN SameUrlOrKey(row, newUF(Len(row)))
            ELSE SimilarInBucket(row, pass[k - 1], buckets[k])
    IN  pass[Len(buckets)]

\* The best row of each group stands for it.
Representatives(S) == {p \in S : \A q \in Group(p, S) : q = p \/ Before(p, q)}

\* merge gives a representative without an org the first one among its copies.
MergedOrg(p, S) ==
    LET named == {q \in Group(p, S) : Org[q] # Blank} IN
    IF Org[p] # Blank \/ named = {} THEN Org[p]
    ELSE Org[CHOOSE q \in named : \A o \in named : o = q \/ Before(q, o)]

\* For each set of rows: does Dedupe find the groups, with the best row as the
\* root, whatever the order of the buckets?
WellGrouped ==
    Table([S \in SUBSET Postings |->
        LET row == Rows(S) IN
        \A buckets \in SetToSeqs({Bucket(q) : q \in S}) :
            LET root == Root(Dedupe(S, buckets)) IN
            \A i, j \in DOMAIN row :
                /\ root[i] = root[j] <=> row[j] \in Group(row[i], S)
                /\ root[i] = i <=> row[i] \in Representatives(S)])

-----------------------------------------------------------------------------
(* BuildReport: picks, runners-up and the ids to mark. *)

Unreported == {p \in rows \ (hidden \cup reported) : Score[p] >= AlsoMin}

FirstOf(n, S) == {p \in S : Cardinality({q \in S : Before(q, p)}) < n}

Fresh(S) == FirstOf(ReportMax, {p \in Representatives(S) : Score[p] >= ReportMinScore})

Also(S) == FirstOf(AlsoMax, Representatives(S) \ Fresh(S))

\* For each set of unreported rows: what is shown, the keys that are picked,
\* and every row that has one of them.
Shown == Table([S \in SUBSET Postings |-> Fresh(S) \cup Also(S)])

Picked == Table([S \in SUBSET Postings |-> {<<MergedOrg(p, S), Title[p]>> : p \in Shown[S]}])

Ids == Table([S \in SUBSET Postings |-> {p \in S : Key(p) \in Picked[S]}])

-----------------------------------------------------------------------------
TypeOK ==
    /\ rows \in SUBSET Postings
    /\ hidden \in SUBSET rows
    /\ reported \in SUBSET rows
    /\ pc \in {"idle", "send", "mark"}
    /\ snapshot \in SUBSET rows
    /\ pc = "idle" => snapshot = {} /\ todo = {} /\ sent = {}
    /\ todo \in SUBSET Recipients
    /\ sent \in SUBSET Recipients
    /\ unmarked \in SUBSET snapshot
    /\ ctx \in {"none", "live", "over"}
    /\ delivered \in SUBSET {<<Org[p], Title[q]>> : p, q \in Postings}
    /\ quiet \in SUBSET Postings
    /\ excused \in SUBSET Postings
    /\ shown \in SUBSET quiet

Init ==
    /\ rows = {} /\ hidden = {} /\ reported = {}
    /\ pc = "idle" /\ snapshot = {} /\ todo = {} /\ sent = {} /\ unmarked = {} /\ ctx = "none"
    /\ delivered = {} /\ quiet = {} /\ shown = {} /\ excused = {}

EmailOver ==
    pc' = "idle" /\ snapshot' = {} /\ todo' = {} /\ sent' = {} /\ unmarked' = {} /\ ctx' = "none"

\* A fetch finds the posting and the ranking scores it.
Arrive(p) ==
    /\ pc = "idle"
    /\ p \in Arriving \ rows
    /\ rows' = rows \cup {p}
    /\ UNCHANGED <<hidden, reported, email, history>>

\* FetchAll purges rows that no source has listed for 90 days.
Purge(p) ==
    /\ pc = "idle"
    /\ p \in rows /\ Score[p] < PurgeBelow
    /\ rows' = rows \ {p}
    /\ hidden' = hidden \ {p}
    /\ reported' = reported \ {p}
    /\ excused' = excused \cup {p}
    /\ UNCHANGED <<email, delivered, quiet, shown>>

\* The owner trashes a posting, or takes it back, at any time.
Trash(p) ==
    /\ p \in rows
    /\ hidden' = IF p \in hidden THEN hidden \ {p} ELSE hidden \cup {p}
    /\ UNCHANGED <<rows, reported, email, history>>

\* A weekly email with nothing to show is skipped unless a funding deadline is
\* urgent; a manual one is forced, and has two minutes.
Build(force, urgent) ==
    /\ pc = "idle"
    /\ Ids[Unreported] # {} \/ force \/ urgent
    /\ pc' = "send"
    /\ snapshot' = Unreported
    /\ todo' = Recipients
    /\ ctx' = IF force THEN "live" ELSE "none"
    /\ UNCHANGED <<table, sent, unmarked, history>>

SendFails(r) ==
    /\ pc = "send" /\ r \in todo
    /\ todo' = todo \ {r}
    /\ UNCHANGED <<table, pc, snapshot, sent, unmarked, ctx, history>>

SendSucceeds(r) ==
    /\ pc = "send" /\ r \in todo
    /\ ctx # "over"
    /\ todo' = todo \ {r}
    /\ sent' = sent \cup {r}
    /\ delivered' = delivered \cup Picked[snapshot]
    /\ shown' = shown \cup Shown[snapshot]
    /\ quiet' = quiet \cup UNION {Group(p, snapshot) : p \in Shown[snapshot]}
    /\ UNCHANGED <<table, pc, snapshot, unmarked, ctx, excused>>

\* Mutant: the ids are marked although no mail went out.
SentAnyway ==
    /\ pc = "send" /\ todo = {}
    /\ pc' = "mark"
    /\ unmarked' = Ids[snapshot]
    /\ UNCHANGED <<table, snapshot, todo, sent, ctx, history>>

\* All recipients were tried: with no mail sent nothing is marked.
Sent ==
    /\ pc = "send" /\ todo = {}
    /\ \/ sent = {} /\ EmailOver
       \/ /\ sent # {}
          /\ pc' = "mark"
          /\ unmarked' = Ids[snapshot]
          /\ UNCHANGED <<snapshot, todo, sent, ctx>>
    /\ UNCHANGED <<table, history>>

\* Mutant: the statement marks nothing.
MarkNothing(p) ==
    /\ pc = "mark" /\ ctx # "over"
    /\ p \in unmarked
    /\ unmarked' = unmarked \ {p}
    /\ UNCHANGED <<table, pc, snapshot, todo, sent, ctx, history>>

\* MarkReported, one row at a time, in the order of Unreported.
Mark(p) ==
    /\ pc = "mark" /\ ctx # "over"
    /\ p \in unmarked /\ \A q \in unmarked : q = p \/ Before(p, q)
    /\ reported' = reported \cup {p}
    /\ unmarked' = unmarked \ {p}
    /\ excused' = excused \ {p}
    /\ UNCHANGED <<rows, hidden, pc, snapshot, todo, sent, ctx, delivered, quiet, shown>>

\* All are marked, or the first statement that fails, for the time or for a
\* locked database, ends MarkReported; its error is ignored.
Done ==
    /\ pc = "mark"
    /\ excused' = excused \cup unmarked
    /\ EmailOver
    /\ UNCHANGED <<table, delivered, quiet, shown>>

\* The two minutes of a manual email are over.
TimeUp ==
    /\ pc # "idle" /\ ctx = "live"
    /\ ctx' = "over"
    /\ UNCHANGED <<table, pc, snapshot, todo, sent, unmarked, history>>

\* The process dies; systemd restarts it.
Crash ==
    /\ pc # "idle"
    /\ excused' = IF sent = {} THEN excused ELSE excused \cup snapshot
    /\ EmailOver
    /\ UNCHANGED <<table, delivered, quiet, shown>>

Next ==
    \/ \E p \in Postings : Arrive(p) \/ Purge(p) \/ Mark(p)
    \/ \E p \in Trashable : Trash(p)
    \/ \E r \in Recipients : SendFails(r) \/ SendSucceeds(r)
    \/ \E force, urgent \in BOOLEAN : Build(force, urgent)
    \/ Sent
    \/ Done
    \/ TimeUp
    \/ Crash

(* Some Monday finds the slot free, and not every scheduled email is cut off *)
(* by a restart at the same point or refused: a mail gets through some day,  *)
(* and so does the mark of each row.                                         *)
Fairness ==
    /\ SF_vars(Build(FALSE, FALSE))
    /\ WF_vars(Sent \/ Done \/ \E p \in Postings : Mark(p))
    /\ SF_vars(ctx = "none" /\ sent # {} /\ Sent)
    /\ WF_vars(\E r \in Recipients : SendFails(r))
    /\ SF_vars(\E r \in Recipients : ctx = "none" /\ SendSucceeds(r))
    /\ SF_vars(\E r \in Recipients : ctx = "none" /\ sent # {} /\ (SendFails(r) \/ SendSucceeds(r)))
    /\ SF_vars(\E p \in Postings : ctx = "none" /\ Mark(p))

Spec == Init /\ [][Next]_vars /\ Fairness

-----------------------------------------------------------------------------
(* Nothing is silently dropped from the digest: a row is marked as reported  *)
(* only after a mail that showed its job reached at least one recipient,     *)
(* whatever failed, was cut off or crashed on the way.                       *)
NeverSilentlyDropped == \A p \in reported : p \in quiet \/ Key(p) \in delivered

(* With every org known, no posting is mailed as new a second time unless a  *)
(* crash, a timeout, a refused statement or a purge lost the mark of the     *)
(* mail before.                                                              *)
ShownOnce == [][sent = {} /\ sent' # {} => Shown[snapshot] \cap shown \subseteq excused]_vars

(* A posting of 70 or more is mailed some week, or trashed, however many     *)
(* others compete for the ten places: whoever is mailed makes room.          *)
TopPickMailed ==
    \A p \in {q \in Postings : Score[q] >= ReportMinScore} :
        p \in rows ~> (Key(p) \in delivered \/ p \in quiet \/ p \in hidden)

(* Dedupe's union-find joins exactly the rows that the three rules connect,   *)
(* and the best row of a group is its root, for the rows there are with any   *)
(* others beside them and in whatever order the map gives the buckets: the    *)
(* same postings are never grouped in two ways.                              *)
GroupsAreClosure == \A T \in SUBSET (Postings \ rows) : WellGrouped[rows \cup T]
=============================================================================
