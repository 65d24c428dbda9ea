------------------------------ MODULE SourceRun ------------------------------
(***************************************************************************)
(* A fetch run over the portals: FetchAll of srv/jobs/store.go, the sources  *)
(* one after the other, each read as its kind is (fetch.go, austria.go), its *)
(* postings enriched from their detail pages, matched and stored.            *)
(*                                                                         *)
(* The kinds differ in what a failed request means:                          *)
(*   a page    is one request, and the source fails with it;                 *)
(*   linkedin  reads page after page and keeps what it has when a later one   *)
(*             fails;                                                        *)
(*   bund-odata and talentlink read page after page and fail with any of     *)
(*             them, and what they have read is returned beside the error;   *)
(*   ted and tirol ask term by term, and fail only if nothing was found;      *)
(*   ktn       asks through the proxies, then a web archive.                 *)
(*                                                                         *)
(* A listing is taken apart in one step: one posting stands for the postings *)
(* of a page, and the regular expressions of the portals are left out.       *)
(***************************************************************************)
EXTENDS ProxyPool

CONSTANTS
    Sources,     \* the sources, in the order of the list
    Kind,        \* of a source
    Content,     \* of a source: "plain" postings match by their title, "bare"
                 \* ones only with the text of their detail page, "other" never
    MaxPages,    \* bound of linkedin, bund-odata and talentlink
    Terms,       \* of ted and tirol
    MaxAttempts, \* requests after a 429, 3 in the code
    MaxDetails,  \* detail pages of a source, 20 in the code
    MaxFaults    \* bound: the requests that fail, the writes that fail

\* How the function of a kind asks its portal: with one request, page after page,
\* term by term or through the proxies; whether a 429 is asked again; what a
\* failure on a later page means; and where the detail pages of its postings are
\* read, beside the listing or after it.
fetchLinkedIn   == [asks |-> "pages", again |-> TRUE,  later |-> "ends",  detail |-> "none"]
fetchRSS        == [asks |-> "once",  again |-> TRUE,  later |-> "fails", detail |-> "none"]
fetchTED        == [asks |-> "terms", again |-> FALSE, later |-> "skips", detail |-> "none"]
fetchUNDP       == [asks |-> "once",  again |-> TRUE,  later |-> "fails", detail |-> "none"]
fetchMCI        == [asks |-> "once",  again |-> TRUE,  later |-> "fails", detail |-> "none"]
fetchPage       == [asks |-> "once",  again |-> TRUE,  later |-> "fails", detail |-> "none"]
fetchOOE        == [asks |-> "once",  again |-> TRUE,  later |-> "fails", detail |-> "beside"]
fetchERecruiter == [asks |-> "once",  again |-> TRUE,  later |-> "fails", detail |-> "after"]
fetchBundOData  == [asks |-> "pages", again |-> TRUE,  later |-> "fails", detail |-> "beside"]
fetchNOE        == [asks |-> "once",  again |-> FALSE, later |-> "fails", detail |-> "after"]
fetchSoftgarden == [asks |-> "once",  again |-> TRUE,  later |-> "fails", detail |-> "after"]
fetchKTN        == [asks |-> "proxy", again |-> TRUE,  later |-> "fails", detail |-> "none"]
fetchOnlyfy     == [asks |-> "once",  again |-> TRUE,  later |-> "fails", detail |-> "after"]
fetchTalentLink == [asks |-> "pages", again |-> FALSE, later |-> "fails", detail |-> "none"]
fetchTirol      == [asks |-> "terms", again |-> TRUE,  later |-> "skips", detail |-> "after"]

Kinds == {"linkedin", "rss", "ted", "undp", "mci", "page", "ooe-api", "erecruiter", "bund-odata", "noe-rexx",
          "softgarden", "ktn", "onlyfy", "talentlink", "tirol"}

\* The switch on the kind.
Fetch == [kind \in Kinds |->
    CASE kind = "linkedin" -> fetchLinkedIn
      [] kind = "rss" -> fetchRSS
      [] kind = "ted" -> fetchTED
      [] kind = "undp" -> fetchUNDP
      [] kind = "mci" -> fetchMCI
      [] kind = "page" -> fetchPage
      [] kind = "ooe-api" -> fetchOOE
      [] kind = "erecruiter" -> fetchERecruiter
      [] kind = "bund-odata" -> fetchBundOData
      [] kind = "noe-rexx" -> fetchNOE
      [] kind = "softgarden" -> fetchSoftgarden
      [] kind = "ktn" -> fetchKTN
      [] kind = "onlyfy" -> fetchOnlyfy
      [] kind = "talentlink" -> fetchTalentLink
      [] kind = "tirol" -> fetchTirol]

ASSUME RunAssumption ==
    /\ Sources \in Seq(DOMAIN Kind) /\ IsInjective(Sources)
    /\ \A s \in DOMAIN Kind : Kind[s] \in Kinds /\ Content[s] \in {"plain", "bare", "other"}
    /\ MaxPages \in Nat \ {0} /\ Terms \in Nat \ {0} /\ MaxAttempts \in Nat
    /\ MaxDetails \in Nat /\ MaxFaults \in Nat

VARIABLES
    at,       \* the position of the source
    phase,    \* "next", "proxy", "list", "pause", "detail", "store" or "recorded"
    page,     \* the page or term of the listing that is asked for
    attempt,  \* how often it was asked again
    got,      \* the postings read: ps, then those still to be stored
    lastErr,  \* has a term failed?
    todo,     \* the postings whose detail page is to be read
    ended,    \* is the listing read?
    detailed, \* the postings whose detail page was read
    loaded,   \* history: every posting of the run that was read
    stored,   \* those in job_postings
    unwritten, \* history: those whose upsert failed
    ok, err,  \* the sources counted by sources_ok and sources_err
    reached,  \* history: the sources of which a request was answered
    booked,   \* is the run in job_runs?
    timeUp,   \* are the 20 minutes of the job over?
    faults

source == <<page, attempt, got, lastErr, todo, ended>>
record == <<detailed, loaded, stored, unwritten, ok, err, reached, booked>>
vars == <<pool, at, phase, source, record, timeUp, faults>>

Src == Sources[at]
How == Fetch[Kind[Src]]
Postings == (DOMAIN Kind) \X (1..(MaxPages + Terms))
-----------------------------------------------------------------------------
TypeOK ==
    /\ PoolTypeOK
    /\ at \in 1..(Len(Sources) + 1)
    /\ phase \in {"next", "proxy", "list", "pause", "detail", "store", "recorded"}
    /\ page \in 1..(MaxPages + Terms) /\ attempt \in 0..MaxAttempts
    /\ got \in Seq(Postings) /\ todo \in Seq(Postings)
    /\ lastErr \in BOOLEAN /\ ended \in BOOLEAN /\ timeUp \in BOOLEAN
    /\ detailed \cup stored \cup unwritten \subseteq loaded /\ loaded \subseteq Postings
    /\ ok \cup err \cup reached \subseteq DOMAIN Kind /\ ok \cap err = {}
    /\ booked => phase = "recorded"
    /\ call # "none" => phase = "proxy"
    /\ faults \in 0..MaxFaults

Fresh ==
    /\ page = 1 /\ attempt = 0 /\ got = <<>> /\ lastErr = FALSE /\ todo = <<>> /\ ended = FALSE

Clear ==
    /\ page' = 1 /\ attempt' = 0 /\ got' = <<>> /\ lastErr' = FALSE /\ todo' = <<>> /\ ended' = FALSE

Init ==
    /\ PoolInit
    /\ at = 1 /\ phase = "next" /\ Fresh
    /\ detailed = {} /\ loaded = {} /\ stored = {} /\ unwritten = {} /\ ok = {} /\ err = {} /\ reached = {}
    /\ booked = FALSE /\ timeUp = FALSE /\ faults = 0

\* Fetch of the next source: a switch on its kind.
Dispatch ==
    /\ phase = "next" /\ at <= Len(Sources)
    /\ Clear
    /\ IF How.asks = "proxy"
       THEN phase' = "proxy" /\ GetViaProxy(timeUp)
       ELSE phase' = "list" /\ UNCHANGED pool
    /\ UNCHANGED <<at, record, timeUp, faults>>

\* The source is counted as failed, and what was read of it is dropped.
Fail ==
    /\ phase' = "next" /\ at' = at + 1 /\ err' = err \cup {Src}
    /\ Clear
    /\ UNCHANGED <<detailed, stored, unwritten, ok, booked>>

\* The listing is read up to here: then the detail pages, then the store.
Continue(more, read) ==
    /\ got' = got \o read
    /\ todo' = IF Content[Src] # "bare" THEN <<>>
               ELSE IF How.detail = "beside" THEN read
               ELSE IF How.detail = "after" /\ ~more THEN FirstN(got', MaxDetails)
               ELSE <<>>
    /\ ended' = ~more
    /\ page' = IF more THEN page + 1 ELSE page
    /\ attempt' = 0
    /\ phase' = IF todo' # <<>> THEN "detail" ELSE IF more THEN "list" ELSE "store"
    /\ UNCHANGED <<at, detailed, stored, unwritten, ok, err, booked>>

\* What was read of the listing of the source.
Reads == {<<>>, <<<<Src, page>>>>}

\* A page with postings or without; a full one has another after it, up to the
\* bound, a term has the next one after it.
Answer ==
    /\ phase = "list" /\ ~timeUp
    /\ \E read \in Reads, more \in BOOLEAN :
        /\ CASE How.asks = "terms" -> more = (page < Terms)
             [] How.asks = "pages" -> more => page < MaxPages /\ (read # <<>> \/ How.later = "ends")
             [] OTHER -> ~more
        /\ loaded' = loaded \cup ToSet(read)
        /\ IF ~more /\ got \o read = <<>> /\ lastErr THEN Fail
           ELSE Continue(more, read) /\ UNCHANGED lastErr
    /\ reached' = reached \cup {Src}
    /\ UNCHANGED <<pool, timeUp, faults>>

\* Mutant: the attempts are not counted.
TooManyUncounted ==
    /\ phase = "list" /\ ~timeUp
    /\ How.again /\ attempt < MaxAttempts
    /\ phase' = "pause"
    /\ UNCHANGED <<pool, at, source, record, timeUp, faults>>

\* A 429: the same request again after a pause.
TooMany ==
    /\ phase = "list" /\ ~timeUp
    /\ How.again /\ attempt < MaxAttempts
    /\ attempt' = attempt + 1
    /\ phase' = "pause"
    /\ UNCHANGED <<pool, at, page, got, lastErr, todo, ended, record, timeUp, faults>>

PauseOver ==
    /\ phase = "pause" /\ ~timeUp
    /\ phase' = "list"
    /\ UNCHANGED <<pool, at, source, record, timeUp, faults>>

\* Mutant: an error is an error, on the first page or on a later one.
GiveUpKeepingNothing ==
    IF How.later = "skips"
    THEN /\ lastErr' = TRUE
         /\ Continue(page < Terms, <<>>)
    ELSE Fail

\* Mutant: a term that failed is like one that found nothing.
GiveUpQuietly ==
    \/ /\ How.later = "skips" \/ (How.later = "ends" /\ page > 1)
       /\ Continue(How.later = "skips" /\ page < Terms, <<>>)
       /\ UNCHANGED lastErr
    \/ /\ How.later = "fails" \/ (How.later = "ends" /\ page = 1)
       /\ Fail

\* What the kind makes of an error.
GiveUp ==
    \/ /\ How.later = "ends" /\ page > 1
       /\ Continue(FALSE, <<>>)
       /\ UNCHANGED lastErr
    \/ /\ How.later = "skips" /\ (page < Terms \/ got # <<>>)
       /\ lastErr' = TRUE
       /\ Continue(page < Terms, <<>>)
    \/ /\ CASE How.later = "skips" -> page = Terms /\ got = <<>>
             [] How.later = "ends" -> page = 1
             [] OTHER -> TRUE
       /\ Fail

\* No connection, a status of 400 or more (a 429 too often), a body that cannot
\* be decoded; and any request or pause when the time is up.
RequestFails ==
    /\ \/ phase = "list"
       \/ phase = "pause" /\ timeUp
    /\ \/ timeUp /\ UNCHANGED faults
       \/ ~timeUp /\ faults < MaxFaults /\ faults' = faults + 1
    /\ GiveUp
    /\ UNCHANGED <<pool, loaded, reached, timeUp>>

\* Through the proxies: the page, or a try with the archive.
ProxyEnds ==
    /\ phase = "proxy" /\ call = "none"
    /\ \/ /\ outcome = "body"
          /\ \E read \in Reads : Continue(FALSE, read) /\ loaded' = loaded \cup ToSet(read)
          /\ reached' = reached \cup {Src}
          /\ UNCHANGED lastErr
       \/ /\ outcome = "error" /\ phase' = "list"
          /\ UNCHANGED <<at, source, record>>
    /\ outcome' = "none" /\ answered' = FALSE
    /\ UNCHANGED <<good, cooled, now, late, calls, timeUp, faults>>

\* A detail page that cannot be read leaves its posting as it is.
Detail ==
    /\ phase = "detail"
    /\ todo' = Tail(todo)
    /\ \/ ~timeUp /\ detailed' = detailed \cup {Head(todo)} /\ UNCHANGED faults
       \/ timeUp /\ UNCHANGED <<detailed, faults>>
       \/ ~timeUp /\ faults < MaxFaults /\ faults' = faults + 1 /\ UNCHANGED detailed
    /\ phase' = IF todo' # <<>> THEN "detail" ELSE IF ended THEN "store" ELSE "list"
    /\ UNCHANGED <<pool, at, page, attempt, got, lastErr, ended, loaded, stored, unwritten,
                   ok, err, reached, booked, timeUp>>

Match(p) == Content[p[1]] = "plain" \/ (Content[p[1]] = "bare" /\ p \in detailed)

\* One posting after the other: those that match are upserted, and an upsert
\* that fails is logged only.
Store ==
    /\ phase = "store" /\ got # <<>>
    /\ got' = Tail(got)
    /\ \/ ~Match(Head(got)) /\ UNCHANGED <<stored, unwritten, faults>>
       \/ /\ Match(Head(got)) /\ ~timeUp
          /\ stored' = stored \cup {Head(got)}
          /\ UNCHANGED <<unwritten, faults>>
       \/ /\ Match(Head(got))
          /\ \/ timeUp /\ UNCHANGED faults
             \/ ~timeUp /\ faults < MaxFaults /\ faults' = faults + 1
          /\ unwritten' = unwritten \cup {Head(got)}
          /\ UNCHANGED stored
    /\ UNCHANGED <<pool, at, phase, page, attempt, lastErr, todo, ended, detailed, loaded,
                   ok, err, reached, booked, timeUp>>

SourceOK ==
    /\ phase = "store" /\ got = <<>>
    /\ ok' = ok \cup {Src}
    /\ at' = at + 1 /\ phase' = "next"
    /\ Clear
    /\ UNCHANGED <<pool, detailed, loaded, stored, unwritten, err, reached, booked, timeUp, faults>>

\* After the last source the record of the run is written, with the context
\* of the job: a run that ran out of time leaves none.
Record ==
    /\ phase = "next" /\ at > Len(Sources)
    /\ phase' = "recorded"
    /\ \/ booked' = ~timeUp /\ UNCHANGED faults
       \/ ~timeUp /\ faults < MaxFaults /\ faults' = faults + 1 /\ booked' = FALSE
    /\ UNCHANGED <<pool, at, source, detailed, loaded, stored, unwritten, ok, err, reached, timeUp>>

\* The next run starts with the proxies of this one.
NextRun ==
    /\ phase = "recorded" /\ calls < MaxCalls
    /\ at' = 1 /\ phase' = "next"
    /\ detailed' = {} /\ loaded' = {} /\ stored' = {} /\ unwritten' = {}
    /\ ok' = {} /\ err' = {} /\ reached' = {} /\ booked' = FALSE /\ timeUp' = FALSE
    /\ UNCHANGED <<pool, source, faults>>

TimeUp ==
    /\ phase # "recorded" /\ ~timeUp
    /\ timeUp' = TRUE
    /\ cancelled' = (cancelled \/ call # "none")
    /\ UNCHANGED <<good, cooled, call, order, next, running, results, late, outcome,
                   answered, calls, at, phase, source, record, faults>>

Pool(A) == A /\ UNCHANGED <<at, phase, source, record, timeUp, faults>>

Step ==
    \/ Dispatch \/ Answer \/ TooMany \/ PauseOver \/ RequestFails \/ ProxyEnds
    \/ Detail \/ Store \/ SourceOK \/ Record
    \/ Pool(CallStep)

Next ==
    \/ Step
    \/ NextRun \/ TimeUp
    \/ Pool(TimeOut)
    \/ \E p \in Proxies : Pool(LateEnd(p)) \/ (phase = "recorded" /\ Pool(CooldownOver(p)))

\* Every request has a client with a timeout, and every goroutine one request.
Spec == Init /\ [][Next]_vars /\ WF_vars(Step)
-----------------------------------------------------------------------------
(* Whatever fails, a posting that was read from a portal reaches the database *)
(* unless one of the known reasons says why: it does not match, or its detail *)
(* page could not be read or was one too many; its write failed; or it was    *)
(* read by one of the two portals that fail as a whole.                      *)
LossesExplained ==
    \A p \in loaded \ stored :
        \/ p[1] \notin ok \cup err
        \/ p[1] \in err /\ Fetch[Kind[p[1]]].asks = "pages" /\ Fetch[Kind[p[1]]].later = "fails"
        \/ p[1] \in ok /\ (~Match(p) \/ p \in unwritten)

(* A source that is counted as fetched has answered: the tolerance towards    *)
(* failed pages and terms never makes a portal that is down look empty.       *)
OkIsAnswered == ok \subseteq reached

(* The run over the portals comes to an end whatever they answer, with the    *)
(* retries, the pauses and the proxies.                                      *)
RunEnds == (phase = "next") ~> (phase = "recorded")
=============================================================================
