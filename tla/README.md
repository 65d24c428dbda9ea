# Verification of the Kohlschwarz job radar

This directory holds TLA+ specifications of the Go program in this repository, the TLC
configurations that check them on small instances, and proofs of the central theorems for
every value of the constants, checked by TLAPS. The program is a web server with an SQLite
database. Its largest part is a "job radar": it fetches job postings from many sources,
scores them with a language model, watches their pages, and mails a weekly digest. Beside it
run a funding radar, the owner's feedback on both, and a small showcase of web apps.

1. [The system](#the-system)
2. [Modules and how they correspond to the code](#modules-and-how-they-correspond-to-the-code)
3. [Runs, bounds and fairness](#runs-bounds-and-fairness)
4. [Proofs](#proofs)
5. [Where code and comments disagree](#where-code-and-comments-disagree)
6. [What is not modelled](#what-is-not-modelled)
7. [Plan](#plan)

## The system

One process serves HTTP, one goroutine per request, and runs one scheduler goroutine. The
data is in one SQLite file; `activity` is the only shared state in memory that decides what
may run. systemd restarts the process when it dies (`srv.service`).

| component | state | operations | talks to |
|---|---|---|---|
| background jobs (`srv/jobs/status.go`, `srv/jobs_handlers.go`, `Scheduler` in `report.go`) | `Activity.kind`, the goroutine of a manual job, the scheduler's next 04:00 | `Start`, `Switch`, `Finish`, the fetch, rank and email buttons, recovery of a panic, the daily and weekly turn | runs every other part of the job radar |
| source adapters (`fetch.go`, `austria.go`, `sources.go`, `proxy.go`, `match.go`, `FetchAll` in `store.go`) | the run over the sources; good and bad proxies and their cached list | read each source as its kind is, retry after a 429, race proxies, read detail pages, filter by keyword | yields listings for the store |
| posting store (`store.go`) | `job_postings`, `job_events`, `job_runs`, `settings` | `Upsert`, `AddEvent`, `Purge`, `MarkReported`, `SetHidden`, `GetCost`, `insertRun`, `ApplyVoucher` | read and written by all |
| ranking (`rank.go`) | work queue of rows with a retried flag each, batch size, money spent | `RankPending`, `rankBatch`, `Summarize` | language model, budget, store |
| briefing (`brief.go`) | as ranking, one posting per call | `BriefPending` | language model, budget, store |
| page check (`signals.go`) | `checked_at`, `closed_at`, the signal columns | `CheckPending`, `applySignals`, derived tags | posting pages, store |
| weekly digest (`report.go`, `dedupe.go`) | `reported_at`, the email under way | `BuildReport`, `Dedupe`, `WeeklyReport`, `SendEmail` | mail gateway, store |
| owner feedback (`srv/feedback`, `feedback_handlers.go`, `static/radar.js`) | votes, notes, hidden rows, the feedback log; the page's own copy | vote, note, trash, restore, reason; hints for the ranking | both radars, ranking prompt |
| funding radar (`srv/funding`) | the table `funding`, the curated list and its overrides in the code | seed at each start and on request, status changes, list by urgency | feedback, the weekly mail |
| configuration and login (`srv/config.go`, `requireAuth` in `srv/srv.go`) | viewer list, mail recipients, the browser at the login | add and remove viewers, permissions, login redirects | every handler |
| database (`db/db.go`, `db/migrations`) | `migrations`, the schema | open, run migrations | everything |
| web server and showcase (`srv/srv.go`) | `apps`, `visitors` | pages, edit, delete, seed | database |

What is hard about it, and what makes each part correct:

* **Background jobs.** Two buttons, a second admin and the 04:00 turn race for one slot; a
  panic must free it; between the daily run and the weekly email it is free for a moment; a
  restart forgets both slot and calendar. Correct: one job at a time, the status tells the
  phase that runs, no 04:00 is acted on twice, no day sees two scheduled emails, a Monday
  without an email has a reason.
* **Ranking.** Calls fail, time out and leave postings out; failed batches are halved,
  left-out postings queued again, and the budget or the deadline may end the run at any
  point. Correct: no posting is lost without a reason or paid for twice, and it ends.
* **Budget.** The cost of the month is read at the start of a run and booked at its end,
  under a context that may be over; the report page calls the model outside of the slot; a
  voucher is a read and a write. Correct: a bound on what a month can cost, and books that
  never show more than was charged.
* **Weekly digest.** Mails go out one by one, then rows are marked one by one; a mail may
  fail, the two minutes of a manual email may be over, the process may die in between; the
  marks follow keys, the collapse follows URLs and similar titles, too. Correct: nothing is
  marked that nobody was shown, nothing is shown twice as new, everything of 70 and more has
  its turn.
* **Posting history.** `Upsert` and `applySignals` write the same columns from two sources,
  statement by statement and without a transaction. A statement that fails is ignored or
  logged, and the next one runs. Correct: every change of the row is explained by an event,
  no event is recorded twice a day, dates do not run backwards, unless the database refused
  the very statement that would have seen to it.
* **Owner feedback.** The page paints a thumb at once and sends one request per click
  without waiting for the one before; handlers read a row, write one statement computed from
  it and log what they did, without a transaction; answers come in any order, late or never.
  Correct: once all is quiet page, row and log agree, unless requests overlapped or one
  failed; a late reason trashes nothing that was taken back; the ranking prompt has the reason
  the owner gave.
* **Sources.** Fifteen kinds of portals, each with its own idea of what a failed page means;
  a 429 is retried in a loop; up to 25 goroutines race through proxies for one page; the
  time of the job may run out at any request. Correct: a page that came through a proxy is
  not lost, a posting that was read is stored or there is a known reason why not, a source
  that answered nothing is not counted as fetched, and the run ends.
* **Funding radar and its mail.** The curated list is written over the table at each start
  and on request, row by row, beside the owner's clicks. The mail of Monday asks for the
  recipients, lists the deadlines, waits for the model, and then asks again whether anything
  is urgent. Correct: the owner's status survives, and every deadline is announced to
  everybody who should know although one Monday is lost.
* **Configuration and login.** One string that every change reads, edits and writes back; a
  browser that returns from the login without an identity. Correct: the list is what the
  owner was told unless changes overlapped, and nobody is redirected in a circle.
* **Start.** Migrations are statements without a transaction, with a crash between any two,
  and a start that fails is tried again for ever; the apps are seeded one by one. Correct:
  what is recorded is there, nothing is served on an incomplete schema, a start fails only
  where one was cut off. PRAGMAs are set on one connection of a pool.

`PROJECT.json` lists these hazards at their lines, each with the properties that watch it.

## Modules and how they correspond to the code

| module | what it models |
|---|---|
| `OneJobAtATime` | the promise of the slot: an abstract lock with one holder |
| `BackgroundJobs` | slot, manual jobs, scheduler, clock, panics, restarts; implements `OneJobAtATime` |
| `BackgroundJobs_proofs` | theorems about it |
| `RankQueue` | the loop of `RankPending` |
| `LlmBudget` | `GetCost`, `insertRun`, `ApplyVoucher` and all that spends |
| `LlmBudget_proofs` | theorems about it |
| `UnionFind` | the forest of `dedupe.go`, with path halving |
| `WeeklyDigest`, `MCWeeklyDigest` | `Unreported`, `Dedupe`, `BuildReport`, `WeeklyReport`, `MarkReported`, and the trash, purge and arrivals around them; uses `UnionFind` |
| `WeeklyDigest_proofs` | theorems about it and about `UnionFind` |
| `Startup`, `MCStartup` | `RunMigrations`, `New`, `seedApps`, saving and deleting apps, new releases |
| `Startup_proofs` | theorems about it |
| `PostingSignals` | one posting between `Upsert`, `AddEvent`, `CheckPending` and `applySignals` |
| `PostingTags`, `MCPostingSignals` | the tags and the verdict derived from it (`Signals`, `Verdict`) |
| `PostingSignals_proofs` | theorems about the two |
| `OwnerFeedback`, `MCOwnerFeedback` | the page's script, the feedback handlers, the log and `PromptHints` |
| `Ranking_proofs` | theorems about the ranking queue and about the owner feedback, which goes into the ranking prompt |
| `ProxyPool` | `getViaProxy`, `candidates` and the goroutines of a call |
| `SourceRun`, `MCSourceRun` | `FetchAll`, `Fetch` and its 15 kinds, `get`, `enrichAT`; composed with `ProxyPool` |
| `SourceRun_proofs` | theorems about the two |
| `FundingRadar` | `Seed`, `applyVerified`, `SetStatus`, `DaysLeft`, `Upcoming`, the urgency of `ReportSection` |
| `ViewerConfig` | `viewers`, `HandleAdminConfigViewers`, `reportRecipients` |
| `AdminLogin` | `requireAuth`, `requireViewer` and the browser; extends `ViewerConfig` |
| `WeeklyRadar`, `MCWeeklyRadar` | the last three and the mail of Monday that joins them |
| `WeeklyRadar_proofs` | theorems about the composition |

An operator whose comment begins with "Mutant:" is a plausible bug of the definition below
it. No specification uses one: it is there to show that a property notices the bug.

**`BackgroundJobs`.** `kind` is `Activity.kind`, "free" its empty string; `pc[r]` is where a
request or the scheduler stands. Every method of `Activity` runs under its mutex and is one
action: `Start`, `Switch`, `Finish`. `Request` is `startBackground`, which takes the slot or
is refused and then reads it once more for its answer (`BusyRedirect`). `NextPhase` walks
through the phases of a manual job, `Panic` is the deferred recovery. `Wake`,
`SchedulerPhase`, `Weekday` and `WeeklyEmailDone` are the body of the scheduler's loop, with
`due` the time it sleeps to; the skip at a taken slot and the gap between `Finish` and the
`Start` of the email are steps of their own. Time is a day and whether it is before or after
04:00. `Restart` loses all but the day, the hour and what the mail system has seen. The
refinement maps the holder of the abstract lock to the runner that works.

**`RankQueue`.** `pending`, `cur`, `batch` and `spent` are the variables of `RankPending`:
`pending` and `cur` are sequences of rows, each with its `retried` flag, cut and joined where
the code cuts and joins its slices. Postings are numbered in the order of `Unranked`. A call
either fails (`CallFails`: halve and put the batch back in front, or give up a batch of one
or an expired run) or scores any part of the batch (`CallAnswers`: `Missed` are the rows left
out that still have their second chance, in front of the queue again; the batch doubles). The
check of the budget is `MayCall` at the head of the loop and `Gate` before it.

**`LlmBudget`.** An actor is the job in the slot or a reader of the report page, which calls
`Summarize` in the request. `Begin` reads the cost, `Call` spends, `Unanswered` is a call
whose answer does not arrive or cannot be decoded (`chat` then reports no tokens although the
provider may charge them), `Book` is `insertRun` under the actor's context, `CutOff` the end
of that context, `Panic` the end of the actor.
`VoucherRead` and `VoucherWrite` are the two halves of `ApplyVoucher`; the key of the credit
is the month at the write. Money is counted in whole units; that `ApplyVoucher` writes the
credit with six decimals, and so may differ from the sum by less than a millionth of a
dollar, is left out. `RankQueue` looks into one run, `LlmBudget` at all of them.

**`WeeklyDigest`.** A posting has a URL, an org, a title, a source and a score. `Dedupe` is
the code's: one pass over the rows that joins each with the first one of its URL and the
first one of its key (`SameUrlOrKey`), then in each bucket every row with the later ones
whose titles are alike (`SimilarInBucket`, `SimilarTo`, `Compare`), in whatever order the
buckets come. Each loop is a recursive function of the number of its iterations, so that it
can be proved about. `Rows` is the order the query returns. `UnionFind` is the forest with
`find` halving paths. A URL or an org that is empty is `Blank` and joins nothing. `SameJob`
states the three rules as a relation, and `GroupsAreClosure` says that the forest computes
its transitive closure for every set of rows; the rest of the module uses the closure.
`MergedOrg` is what `merge` does to the key of a representative. `MarkReported` stops at the
first statement that fails, whether its context is over or not: `Done` may come before all
marks are set. `Build` is `BuildReport` and takes a snapshot, as the code does; `SendFails`,
`SendSucceeds`, `Sent`, `Mark` and `Done` are the rest of `WeeklyReport`. The slot keeps
fetching and purging out of an email under way, the trash button is not kept out. The action
`Build` is the scheduled email or (`force`) the manual one; only the latter has a time
limit, and both send an empty digest if a funding deadline is urgent. `Table` returns its
argument; by its form TLC computes what depends on a set of rows only once for each set.

**`PostingSignals`.** `stmts` is what is left of the SQL statements of the operation under
way: events first, then the row in `Upsert` and for a readable page, the row first for a
closed page. `Execute` runs the next one, `Crash` drops the rest. A single statement may fail
while the run goes on, as the code ignores or only logs the error: the lookup of `AddEvent`
counts no record then and the `INSERT` goes ahead, an `INSERT` that fails writes no record,
and when the `UPDATE` that closes a posting fails its closing is recorded all the same
(`Update`). `lost` is the history of these failures, each with its day and its change, so that
a property excuses exactly the change that was refused and no other. `AddEvent` looks back one
day; as only days are modelled, an equal event of yesterday may or may not be within 24
hours. A listing and a page hold dates as numbers; salary is its largest number. 0 stands
for a missing number: a count of 0 in the code ("be among the first 25 applicants") is then
one of the numbers below 25, which `Signals` treats alike. `PostingTags` derives
the tags from row and history for a posting that has no copies on other boards; a history
that cannot be read at one view of the page is left out.

**`Startup`.** `Script` is the content of `db/migrations`, each file a sequence of
statements of three sorts: those that may run twice (`CREATE ... IF NOT EXISTS`), those that
may not (`ALTER TABLE ... ADD COLUMN`), and the `INSERT OR IGNORE` that records the file.
`Start` reads `executed`, as `RunMigrations` does once, `NextMigration` is the head of its
loop, `Run` and `Fail` the outcomes of a statement; an error other than the column that
exists ends the process where a `Crash` would, which stands for it. `Migrated`, `Seed` and
`Serve` are `seedApps` as `New` calls it; `Crash` ends the process anywhere and may install
the next release. `half`, `failed` and `partly` are history.

**`OwnerFeedback`.** `page` is what one card of `radar.js` shows, `row` the owner's columns
of the item, `log` the feedback log. A click is a request that opens (`Thumb`, `SaveNote`,
`TrashButton`, `Select`, `Chip`), at most `Requests` at a time; its handler is `Read`,
`Write`, `Log`, each one statement, and `Answer` paints what came back. `Written`, `Entries`
and `AskReason` are the decisions of the four handlers, `Answered` and `Failed` those of the
page. `Lose` is an answer that does not arrive while the handler goes on, `Cut` a request
that never arrived or whose context is over, and a statement may be refused; the handlers
ignore that everywhere but for a grant's status. The same module is the job radar and the
funding radar, `radar` says which; a grant that is skipped or rejected is out, and one that
is won behaves like one that is applied for. `Hint` is the line that `PromptHints` makes of
the item's own log when its entry is within the limit: `Newest` picks the newest entry with
one of some actions. That the code takes the newest 40 entries only, keeps one entry for all
items of one title and org, and skips an empty title is not modelled, so the module says
nothing of whether an item gets a line; it has one property of the line, that it carries the
reason, and only for postings.

**`ProxyPool`.** One call at a time, as the slot has one job. `Launch` is an iteration of the
loop (take a place of the semaphore, start a goroutine; a call that is over may skip a
proxy), `Poll` the look into the channel after it, `Waited`, `Received` and `Closed` the
three returns. `results` holds at most one body; `Found` hands it over or drops it.
Goroutines may outlive their call (`late`) and then still put their proxy on a cooldown;
proxies that were cancelled are put on one, too, as in the code. The half-hour cache of
`candidates` is any set of proxies.

**`SourceRun`.** `phase` is where the run stands in a source. What the fifteen functions do
is one record each, named as they are: how the portal is asked (once, page after page, term
by term, through proxies), whether `get` is used and so a 429 is asked again, what an error
on a later page means, and where detail pages are read. `Answer`, `TooMany`, `PauseOver` and
`RequestFails` are the outcomes of a request, `GiveUp` what the kind makes of an error,
`Detail` one detail page, `Store` one posting through `Match` and `Upsert`. One posting
stands for those of a page. The time of the job (`TimeUp`) makes every later request, wait
and write fail. `Purge` at the end of `FetchAll` deletes rows that were not seen for 90 days;
it is `Purge` of `WeeklyDigest`. The detail pages of a source that failed are read by the
code, too, and thrown away with the rest; none of the kinds that read them returns postings
beside an error, so the model leaves that out.

**`FundingRadar`.** A row has a score, a deadline and the owner's status; the curated columns
that nothing depends on are left out. `Seed` writes the next row of the list, as the loop
does, and `SeedFails` or a restart ends it anywhere. Rows of entries that a release drops
stay in the table, and are announced. `DaysLeft` is the code's rounding: today and tomorrow
are both 1, yesterday is 0. Times of day are left out, and so is the reason of a status
(`OwnerFeedback`). **`ViewerConfig`.** A request reads the list and later writes it back as a
whole (`setSetting`); a failing read counts as an empty list. **`AdminLogin`.** One browser:
`Answer` is the decision of `requireAuth` and `requireViewer`, with the mark `li` of the
redirect and `basic` of the link to the password. **`WeeklyRadar`.** `Address`, `BuildReport`,
`Decide` and `Send` are the four moments of the mail of Monday at which the code reads or
acts, with edits possible between them. Whether there are job picks is free. A manual email
also goes to the recipients and announces deadlines; the property is about the scheduled
one alone, so the model has no other.

## Runs, bounds and fairness

Every bound is a constant or lies in the MC module.

| run | what it shows | bounds |
|---|---|---|
| `BackgroundJobs` | one job at a time, honest label, calendar without repetition or unexplained gap, refinement of the lock, the scheduler always returns to its wait | two requests, weeks of two days, four days, one restart |
| `RankQueue` | no posting in two places of the queue or queued with a score, a reason for each unranked posting, less than one call over the budget, termination | five postings, batches of up to four, budget of three calls |
| `LlmBudget` | the month's bound for the slot alone and with readers; balanced books; vouchers that forgive only what was booked | slot and one reader, two months, five units in all, budget two |
| `LlmBudget_unbooked` (violated) | the summary of a reader who leaves is paid and never booked | the same |
| `WeeklyDigest` | no mark without a mail, nothing shown twice, every top posting is mailed or trashed; the loops of `Dedupe` over the union-find compute the closure of the three rules, for every set of rows and order of the buckets | four postings of every score class, joined by a URL and by alike titles or apart, two recipients, one place and one runner-up; for the groups three more, with alike titles in a second bucket, a URL across buckets, one key in two buckets, two without a URL |
| `WeeklyDigest_blankorg` (violated) | a posting whose org was merged in is mailed again | one of the copies without an org |
| `PostingSignals` | events explain each change, once a day, and the tags tell of a posting that came back | days 1, 2, 5, 16: within a day, within the check interval, beyond it, beyond the ten days of absence; no run begins with three events; one statement that fails, beside any crashes |
| `Startup` | true records, complete schema, failure only where cut off, every start serves or has failed, whole showcase | five migrations with the statements of 001, 002, 003, 005 and 012 (whose columns and tables count once), three releases, two seeded apps and one of the owner, four crashes |
| `OwnerFeedback` | page, row and log agree once all is quiet; a reason trashes nothing | one item of either radar, three clicks, two requests at once, one fault, one reason |
| `OwnerFeedback_reason` (violated) | the prompt does not carry the reason that was given | the same |
| `SourceRun` | no answer of a proxy lost, losses explained, fetched means answered, the run ends | four sources, one of each way of asking; two pages or terms, one retry, one detail page, two proxies, one fault, the time running out anywhere, two runs |
| `WeeklyRadar` | deadlines announced, status kept, allowlist as told, no login circle | two entries in two releases, three Mondays and four days between, an account and a typo, three edits, two visits, two faults, two changes, three of all of these together |

*Why the bounds are enough.* Two requests are the least that can collide with each other
while a third party, the scheduler, wants the slot. With weeks of two days and four days,
two Mondays and the days between them occur, before and after a restart. Five postings are
one more than a batch takes, so that the queue holds rows behind the batch when it is put
back, and let a batch be halved twice, grow again and leave postings out of a batch of each
size. Five units of money are one more than a month can cost with one reader and a budget of
two, so that the bound could be passed. The digest's places are scaled from ten and eight to
one and one: competition begins with two postings. The events of a posting are capped at the
begin of an operation, so none is cut off by the bound. In `PostingSignals` one failing
statement breaks each property but for its excuse, and a crash or another run may come
before and after it; the proofs are for any number of failures. Of the four postings of
`WeeklyDigest` that arrive three compete, or two when the fourth joins two of them. The
groups are compared for every subset of seven postings, in four buckets of which two merge
titles, so that the order of the buckets matters to the forest. `Arriving` keeps the other
three out of the table, where they would only multiply the states. The five migrations have
every shape that occurs: tables only, one column, several columns, columns and a table; four
crashes let a start be cut off, fail, be cut off elsewhere and go through to a third
release. Three clicks are a trash, a reason and an undo, or two that overlap and a third
after them. Two proxies are the least that race, two calls the least that use what the first
one learnt. In `WeeklyRadar` the deadlines of the first release are on a Monday and after
one, and the second release moves the one that the first has announced; two faults lose both
Mondays of a deadline or one each, and a third event is the edit between. `MaxEvents` bounds
visits, edits, changes and faults together: they touch different parts of the state, and
three of any kind meet in every order.

*Fairness.* `BackgroundJobs`: a phase ends, as each is a loop over a finite list whose calls
have timeouts, and the scheduler is a goroutine that Go runs; pressing buttons, panics,
restarts and the clock are free. `RankQueue`: the loop goes on, and a call returns because
its HTTP client has a timeout. `WeeklyDigest`: some Monday finds the slot free and the
scheduled emails are not cut off by a crash at the same point for ever; that is an
assumption about the world (strong fairness), and so is that the mail gateway accepts some
mail one day. `Startup`: systemd restarts the process whatever its exit (`Restart=always`)
and the start goes on by itself; crashes are free, but at most four. `SourceRun`: the
run goes on by itself, as every request has a client with a timeout and every goroutine one
request; time-outs, late goroutines and the next run are free. No fairness is assumed of
`LlmBudget`, `PostingSignals`, `OwnerFeedback` and `WeeklyRadar`: their properties are about
safety only.

`SourceRun` and `WeeklyRadar` stop when their bounds are used up, so deadlock is not checked
there; everywhere else it is.

The clock of `BackgroundJobs` waits for a scheduler whose time has come, and at most one
half day passes in a manual job (its deadline is 20 minutes). The scheduled run has no
deadline in the code; that it is over by midnight is an assumption of the model.

## Proofs

Checked by `tlapm`, for any set of requests, any length of the week and any bound of the
clock and the restarts; for any finite set of postings, any batch size and any budget; for
any migrations and releases; for any sources, kinds, pages and proxies; for any entries,
accounts and days; for any budget, price of a call, readers and months; for any listings,
pages and numbers of events; for any reasons, requests and clicks; for forests of any size.

* `BackgroundJobs_proofs`. `TypeCorrect` is the type invariant. `SlotInvariant` proves
  `SlotExclusive` and `LabelIsPhase` together: neither is inductive alone, since only the
  label tells `Start` that nobody works, and only exclusion tells that the worker that
  finishes was the last. `OneTurn`, `OneEmail` and `SkippedWhenTaken` follow from
  the calendar invariant, `SchedulerInv`: the scheduler is idle with a future 04:00, or runs
  on the morning of the very day it acts on; all days in its history lie before, and every
  Monday before has its email or its excuse. That a restart in the morning computes the next
  day's 04:00 is what keeps it. `ImplementsLock` shows that every step is a step of
  `OneJobAtATime` or a stutter: the holder is the one worker of `SlotInvariant`.
* `Startup_proofs`. `LoopInv` says where the loop stands: all migrations behind it are
  recorded, the statements of the current one have had their effect, and only what it came
  past was recorded since the start. That and `RecordsTrue` give `ServedSchemaComplete`.
  `ColumnsInv` gives every existing column an owner: a recorded migration, one that was cut
  off, or the current one above the statement that is next. A statement that fails finds its
  column; as columns are added once and the current migration is not recorded, it was cut
  off (`FailedWasCutOff`). `SeededWhole` is proved from `SeedInv`: as long as nothing is cut
  off all apps are there or none is, or the missing ones are still in `seeds`.
* `LlmBudget_proofs`. `VoucherCovered` is inductive with what a voucher has read: an amount
  that was booked stays booked, and a month that ends between read and write is in `lost`.
  `HardForTheSlotCorrect` is the first half of `SpendingBounded`. `SlotInv` says of a month
  without readers and losses that the books and what the slot's job has not booked make up
  what was charged, and that the job's view of the month, with the voucher, is not less than
  the books; it needs `VoucherCovered`, since a credit that could shrink would make the view
  stale. `BooksBalance` is inductive once an idle actor owes nothing. The other half of
  `SpendingBounded` is `TwiceTheBudgetCorrect`. Its invariant, `Twice`, counts a reader that
  has seen room and not called yet as owing a whole call (`Due`), so that calls and bookings
  of readers never raise what the month costs once all that is owed is booked (`Over`). Two
  things are left: a reader that begins saw books below the budget, so that only what the
  slot has not booked, less than the budget and one call, lies between the books and `Over`;
  and a call of the slot was allowed under a view below the budget, with nothing added to
  `Over` since the slot took it but its own calls. Hence twice the budget, and one call
  each. Sums over the actors need an induction, and so do the loops of
  `WeeklyDigest_proofs`. The library's rules for it take a predicate, which no prover here
  can instantiate; `NatInductionOnSet` and `FiniteInduction` state the rule with a set in
  the place of the predicate, which they can. From it follow that the sum of the community
  modules is defined on every finite domain (`AddingExists`), does not depend on the order
  in which it is added up (`AddingSplit`), and what a change of one value, a bound and a
  comparison do to it (`SumChanges`, `SumBounded`, `SumMonotone`).
* `WeeklyDigest_proofs`. `MailInv` says that what is still to be marked is known to those who
  got the mail; `NeverSilentlyDropped` follows. `ShownOnce` is proved under the assumption
  that every posting has an org, which makes what is shown part of what is marked, and
  `MarkInv`: what was shown is marked, being marked, or excused.
  `GroupsAreClosure` is a statement about `Dedupe` for every set of rows. In a forest whose
  parents come before their children a walk up ends (`ClimbExists`), at a root that is not
  above the row (`RootIsRoot`); halving a path leaves all roots where they are
  (`HalvingKeepsRoots`); so `union` joins two groups under the better root and touches no
  other (`UnionJoins`). `Advances` says of a step that it takes no group apart, and joins only
  what an equivalence relates if that was so before; every body of the four loops is such a
  step, and the work of one iteration is still there at the end of its loop (`LoopAdvances`).
  The equivalence is the closure of the rules (`GroupsAreClasses`), which gives one direction;
  the other is that two rows of one URL or key are joined by way of the first such row, which
  the maps find (`FirstsAreSame`), that each pair of a bucket is compared once, and that the
  sequence of buckets has each of them (`EveryBucket`). The best row is the root because the
  query sorts the rows (`RowsAreSorted`).
* `SourceRun_proofs`. `AnswerInv` says that a body found is in the channel as long as the loop
  has not seen it: `NoAnswerLost`. `SourceInv` says where the run stands in a source and what
  it holds of it. With it `ReachedInv` gives `OkIsAnswered` (whatever is held came from an
  answer) and `LossInv` gives `LossesExplained`: every posting read is held, stored, or of a
  source that is done, and a source is counted once because it is listed once.
* `WeeklyRadar_proofs`. `ConfigInv` adds to the types that an edit under way has read the
  current list, unless there was a clash: `AccessAsTold`. `LoginInv` says that a browser at
  the login was marked: `NoLoginLoop`. `TableInv` gives `ChoiceKept`. `DeadlineAnnounced`
  rests on `AnnouncedInv`: every past Monday that was not lost told all its readers of what
  was due then and has not changed since, and the mail under way will. An entry that is
  edited between the listing and the second look at the urgency carries today's date in
  `since`, and so is not one the property speaks of for this Monday; everything else that is
  due is still urgent when `Decide` asks (`DueIsUrgent`), so that the mail is not skipped.
  That two Mondays lie in the last fourteen days is what one lost Monday leaves room for.
* `Ranking_proofs`. `QueueInv` says where each posting is: waiting, in the call, scored, or
  given up because it failed alone, was left out twice, or time was up; and that a call in
  flight began within the budget. `NothingTwice` and `UnrankedForAReason` need its account
  of the postings, `OneCallOver` its account of the call. `QueueCorrect` proves it, the
  other theorems follow. `FeedbackInv` is the invariant of the feedback: as long as nothing
  is muddled one request at most is under way, and it says of that request what its handler
  has read, what the row became and what was logged, and what the page shows meanwhile.
  `LogInv` is its account of the log, for a log of any length: the newest entry of each kind
  stands for the row's vote, note and status, but for the one that is about to be logged.
  `PageTellsRow` and `LogTellsRow` are what it says of a quiet page. `ReasonNeverTrashes`
  needs that a reason is only asked for in an item that is out.
* `PostingSignals_proofs`. `HistoryInv` says of each statement that is left what came before
  it: a write of the row stands behind the events that tell of its changes, those that are
  recorded, those that are still to be, and those that were refused today. `HistoryExplains`
  is that account at the moment of the write. `OncePerDay` needs that an equal event of the
  same day is always found by the look back of `AddEvent`, or the failing lookup is in
  `lost`. `ReopenedWasClosed` and `ReopenedIsTold` rest on `ClosedInv`: a closed row has its
  event or lost it on the day of its closing, unless that is the next statement; no recorded
  closing is later than the day the row was closed; and each is followed by a recorded
  return, by one that was refused and undid no earlier closing, or is of a day on which the
  row's own update was refused, unless the row is closed.

The assumptions are the ones the modules name: nobody is a request, the scheduler is not a
request, bounds are natural numbers, the postings are finitely many, a batch holds at least
one; a migration records itself with its last statement and only there, adds columns that
no other statement adds, and no release takes a migration back; each source is listed once
and has one of the fifteen kinds; the owner's address is well-formed; scores lie between 0
and 100; the days of the model contain every Monday up to the last of them.

Model-checked only: liveness (`RunEnds`, `SchedulerReturns`, `TopPickMailed`, `StartServes`,
the fairness half of the refinement), which is out of the prover's reach. Every other
property of a passing run is proved. The type invariants of `BackgroundJobs`,
`RankQueue`, `Startup` and `PostingSignals` are proved, as parts of inductive invariants or by
themselves; the one of `WeeklyRadar` is proved and checked.

## Where code and comments disagree

Shown by a run:

* `Summarize` is said to book its cost; a reader of the report page who leaves after the
  model has answered cancels the booking but not the bill (`SummaryBooked`). What holds is
  `BooksBalance`.
* Copies of a mailed posting are said not to resurface; a representative that inherits the
  org of a copy is itself mailed again (`ShownOnce` with blank orgs).
* The ranking prompt is said to list what the owner trashed "with reason". The page asks for
  the reason after the trash, and the handler logs it as an entry `reason` of its own, which
  `PromptHints` does not look at (`HintCarriesReason`).

Met on the way, and visible in the models without a run of their own:

* `Scheduler` promises a weekly email; a manual job that holds the slot at 04:00 or takes it
  in the gap before the email costs the owner that week's digest. What does hold is
  `SkippedOnlyWhenTaken`, and `DeadlineAnnounced` for the deadlines.
* Copies of a mailed posting that were collapsed by URL or by similar titles are not marked
  and may come back as new in a later week; `ShownOnce` is about each row by itself.
* A deadline event is meant for a deadline that moved; a listing and a page that disagree
  for good produce one at each turn, and the posting counts as hard to fill.
* The monthly budget is called hard (`rank.go:31`), but page views of the report spend beside
  the slot and go past it: the two halves of `SpendingBounded`.
* A migration that is cut off after an `ALTER TABLE` makes every later start fail until
  somebody repairs the database, the exception in `StartServes`; a showcase whose seeding was
  cut off stays incomplete, the exception in `SeededWhole`.
* The daily run is commented as "no LLM cost" but ranks and briefs (`Following`); one timeout
  leaves a posting unranked when it was alone in its batch (`SplitAgain`); a voucher applied
  across the end of a month credits the new month with the old one's spend (the second case
  of `VoucherCovered`).
* `bund-odata` and `talentlink` return what they have read beside an error, as if it were to
  be kept, and `FetchAll` drops it (the second case of `LossesExplained`); a run whose time
  is over leaves no record (`Record`).
* A proxy that was cancelled because another one was faster is put on a cooldown of six
  hours as if it were bad (`Refused`).
* A `viewer_emails` that cannot be read counts as an empty list, and the next change writes
  that list back (`clash` of `ViewerConfig`); the same failure at 04:00 sends the mail to the
  owner alone (`Address`).
* `DaysLeft` gives a deadline of yesterday 0 days and both today and tomorrow 1, so that
  `Expired` begins two days late; the queries compare dates and are right.
* `AddEvent` only logs an `INSERT` that fails, and the row changes all the same: with a
  database that is locked for one statement a deadline moves without a trace, a posting
  counts as re-opened that was never recorded as closed, or returns without the owner's
  knowing. `lost` names each case in the properties of `PostingSignals`.
* A chip clicked late sends a posting to the trash again that another page has restored
  meanwhile (`stale` in `ReasonNeverTrashes`).

## What is not modelled

* Parsing of source pages, prompts, wording of emails and pages, styling: text in, text out.
  So are `Match` and the detection of page states on regular expressions: the models have
  their outcome as data.
* Reads of the database that fail while the context is live, outside of `WeeklyRadar` and the
  lookup of `AddEvent`.
  `GetCost` ignores its query errors and then sees a month without costs; this is listed as
  a hazard. `seedApps` takes a failed `ListApps` for an empty table.
* For the source `ktn` an answer of the Wayback Machine counts like one of the portal
  (`fetchKTN`), in the code and so in `OkIsAnswered`: fetched means that a request made for
  the source was answered, not that the portal itself was reached.
* Which lines `PromptHints` renders at all: its limit of 40 entries, its keys of title and
  org, empty titles. Only the reason within a line is modelled.
* Which connection of the pool a statement gets, and so the PRAGMAs of `Open`.
* Two processes that start at once on one database; two vouchers applied at the same moment;
  more than one posting per history, and so whether each of many is checked again.
* The manual email in `WeeklyRadar`, and the reposts of one job on several boards in
  `PostingTags`.
* Visitor counters, the statistics of the feedback page, generated code (`db/dbgen`) and
  seed data.

## Plan

In the order of what matters most to the owner:

1. `RecheckRotation`: whether each of many postings is checked again.
2. The poll of the status beside the clicks, with two chains of it.
