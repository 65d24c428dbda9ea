----------------------------- MODULE LlmBudget -----------------------------
(***************************************************************************)
(* The monthly budget of the language model (srv/jobs/rank.go, brief.go,   *)
(* store.go): everyone who calls the model first reads what the month has  *)
(* cost (GetCost), adds up what its own calls cost, and books the sum as a *)
(* row of job_runs when it is done.  The rank, brief and email phases run  *)
(* one after the other in the activity slot; the report page               *)
(* (HandleAdminJobsReport) summarises outside of it, in as many requests   *)
(* as there are readers.  A voucher credits the month with what it has     *)
(* cost so far.                                                            *)
(*                                                                         *)
(* Money is counted in units.  Budget is MaxMonthUSD.                      *)
(***************************************************************************)
EXTENDS Integers, FiniteSets, Functions

CONSTANTS
    Slot,         \* the job in the activity slot
    Readers,      \* the requests for the report page that may be in flight
    Budget,       \* MaxMonthUSD
    MaxCallCost,  \* bound: what one call can cost
    MaxMonth,     \* bound: the last month
    MaxCharge     \* bound: what all calls together may cost

ASSUME ActorsAssumption == Slot \notin Readers /\ IsFiniteSet(Readers)
ASSUME MoneyAssumption == Budget \in Nat /\ MaxCallCost \in Nat
ASSUME BoundsAssumption == MaxMonth \in Nat /\ MaxCharge \in Nat

VARIABLES
    month,     \* the calendar month
    recorded,  \* by month: the sum of llm_cost_usd over its job_runs
    credit,    \* by month: the voucher in the settings, 0 if there is none
    step,      \* "idle", the run that each actor is in, or "summarised"
    since,     \* the month its run started in
    snapshot,  \* the MonthUSD it read at the start
    spent,     \* what its calls have cost so far
    ctx,       \* "live" or "over"
    voucher,   \* the amount ApplyVoucher has read and not yet written
    charged,   \* history: by month, what the calls really cost
    outside,   \* history: the months in which a reader's call cost something
    lost       \* history: the months that lost a booking or the cost of a call, or
               \* that began while a voucher was being applied

actor == <<step, since, snapshot, spent, ctx>>
books == <<recorded, credit>>
vars == <<month, books, actor, voucher, charged, outside, lost>>

Actors == {Slot} \cup Readers
Months == 0..MaxMonth
Runs == {"rank", "brief", "summary"}
NoVoucher == [read |-> FALSE, amount |-> 0]

TypeOK ==
    /\ month \in Months
    /\ recorded \in [Months -> Nat]
    /\ credit \in [Months -> Nat]
    /\ step \in [Actors -> Runs \cup {"idle", "summarised"}]
    /\ since \in [Actors -> Months]
    /\ snapshot \in [Actors -> Nat]
    /\ spent \in [Actors -> Nat]
    /\ ctx \in [Actors -> {"live", "over"}]
    /\ voucher \in [read : BOOLEAN, amount : Nat]
    /\ charged \in [Months -> Nat]
    /\ outside \in SUBSET Months
    /\ lost \in SUBSET Months

Init ==
    /\ month = 0
    /\ recorded = [m \in Months |-> 0]
    /\ credit = [m \in Months |-> 0]
    /\ step = [a \in Actors |-> "idle"]
    /\ since = [a \in Actors |-> 0]
    /\ snapshot = [a \in Actors |-> 0]
    /\ spent = [a \in Actors |-> 0]
    /\ ctx = [a \in Actors |-> "live"]
    /\ voucher = NoVoucher
    /\ charged = [m \in Months |-> 0]
    /\ outside = {} /\ lost = {}

\* GetCost: this month's spend less this month's voucher, not below zero.
MonthUSD == IF recorded[month] > credit[month] THEN recorded[month] - credit[month] ELSE 0

\* The actor is idle again; what it knew is gone.
Idle(a) ==
    /\ step' = [step EXCEPT ![a] = "idle"]
    /\ since' = [since EXCEPT ![a] = 0]
    /\ snapshot' = [snapshot EXCEPT ![a] = 0]
    /\ spent' = [spent EXCEPT ![a] = 0]
    /\ ctx' = [ctx EXCEPT ![a] = "live"]

\* RankPending, BriefPending or Summarize begins by reading the cost.
Begin(a, run) ==
    /\ step[a] = "idle"
    /\ a \in Readers => run = "summary"
    /\ step' = [step EXCEPT ![a] = run]
    /\ since' = [since EXCEPT ![a] = month]
    /\ snapshot' = [snapshot EXCEPT ![a] = MonthUSD]
    /\ UNCHANGED <<month, books, spent, ctx, voucher, charged, outside, lost>>

\* Mutant: the run forgets what it has spent itself.
MayCallForgetful(a) ==
    /\ step[a] \in Runs
    /\ snapshot[a] < Budget
    /\ step[a] = "brief" => ctx[a] = "live"

\* Rank and brief stop when their view of the month reaches the budget; a
\* summary is one call.  A briefing whose deadline has passed stops, too.
MayCall(a) ==
    /\ step[a] \in Runs
    /\ snapshot[a] + spent[a] < Budget
    /\ step[a] = "brief" => ctx[a] = "live"

\* A summary is one call.
NextStep(a) == [step EXCEPT ![a] = IF @ = "summary" THEN "summarised" ELSE @]

\* One call, whose answer tells what it cost; with a context that is over the
\* request is not even sent.
Call(a, cost) ==
    /\ MayCall(a)
    /\ cost + SumFunction(charged) <= MaxCharge
    /\ ctx[a] = "over" => cost = 0
    /\ spent' = [spent EXCEPT ![a] = @ + cost]
    /\ step' = NextStep(a)
    /\ charged' = [charged EXCEPT ![since[a]] = @ + cost]
    /\ outside' = IF a \in Readers /\ cost > 0 THEN outside \cup {since[a]} ELSE outside
    /\ UNCHANGED <<month, books, since, snapshot, ctx, voucher, lost>>

\* A call that times out, is cut off on its way or is answered with what cannot
\* be decoded: it may have cost something, but counts as free.
Unanswered(a, cost) ==
    /\ MayCall(a)
    /\ cost + SumFunction(charged) <= MaxCharge
    /\ ctx[a] = "live"
    /\ step' = NextStep(a)
    /\ charged' = [charged EXCEPT ![since[a]] = @ + cost]
    /\ outside' = IF a \in Readers /\ cost > 0 THEN outside \cup {since[a]} ELSE outside
    /\ lost' = IF cost > 0 THEN lost \cup {since[a]} ELSE lost
    /\ UNCHANGED <<month, books, since, snapshot, spent, ctx, voucher>>

\* Mutant: a run is booked call by call and once more at its end.
BookTwice(a) ==
    /\ step[a] # "idle"
    /\ recorded' = [recorded EXCEPT ![since[a]] = @ + 2 * spent[a]]
    /\ Idle(a)
    /\ UNCHANGED <<month, credit, voucher, charged, outside, lost>>

\* What actor a has spent is never booked.
Lose(a) == lost' = IF spent[a] > 0 THEN lost \cup {since[a]} ELSE lost

\* insertRun books the run, under the same context as the calls.
Book(a) ==
    /\ step[a] # "idle"
    /\ \/ /\ ctx[a] = "live"
          /\ recorded' = [recorded EXCEPT ![since[a]] = @ + spent[a]]
          /\ UNCHANGED lost
       \/ ctx[a] = "over" /\ Lose(a) /\ UNCHANGED recorded
    /\ Idle(a)
    /\ UNCHANGED <<month, credit, voucher, charged, outside>>

\* The deadline of a manual job passes, or a reader closes the page.
CutOff(a) ==
    /\ step[a] # "idle" /\ ctx[a] = "live"
    /\ ctx' = [ctx EXCEPT ![a] = "over"]
    /\ UNCHANGED <<month, books, step, since, snapshot, spent, voucher, charged, outside, lost>>

\* A panic ends one job or request before it books.
Panic(a) ==
    /\ step[a] # "idle"
    /\ Lose(a)
    /\ Idle(a)
    /\ UNCHANGED <<month, books, voucher, charged, outside>>

\* ApplyVoucher reads the month's spend and then writes it under CreditKey,
\* the key of the month it is by then.
VoucherRead ==
    /\ ~voucher.read
    /\ voucher' = [read |-> TRUE, amount |-> recorded[month]]
    /\ UNCHANGED <<month, books, actor, charged, outside, lost>>

\* Mutant: a second voucher adds to the first.
VoucherWriteAdding ==
    /\ voucher.read
    /\ credit' = [credit EXCEPT ![month] = @ + voucher.amount]
    /\ voucher' = NoVoucher
    /\ UNCHANGED <<month, recorded, actor, charged, outside, lost>>

VoucherWrite ==
    /\ voucher.read
    /\ credit' = [credit EXCEPT ![month] = voucher.amount]
    /\ voucher' = NoVoucher
    /\ UNCHANGED <<month, recorded, actor, charged, outside, lost>>

NextMonth ==
    /\ month < MaxMonth
    /\ month' = month + 1
    /\ lost' = IF voucher.read THEN lost \cup {month'} ELSE lost
    /\ UNCHANGED <<books, actor, voucher, charged, outside>>

Next ==
    \/ \E a \in Actors :
         \/ \E run \in Runs : Begin(a, run)
         \/ \E cost \in 0..MaxCallCost : Call(a, cost) \/ Unanswered(a, cost)
         \/ Book(a)
         \/ CutOff(a)
         \/ Panic(a)
    \/ VoucherRead
    \/ VoucherWrite
    \/ NextMonth

Spec == Init /\ [][Next]_vars

-----------------------------------------------------------------------------
\* What the calls of month m cost beyond its voucher.
Net(m) == IF charged[m] > credit[m] THEN charged[m] - credit[m] ELSE 0

WithinBudget(m, bound) == Net(m) < bound \/ Net(m) = 0

(* "the hard monthly LLM budget ...; LLM steps stop when exceeded": what runs *)
(* in the activity slot never costs a month more than the budget and the      *)
(* call that reaches it, beyond what a voucher forgave, as each phase reads   *)
(* the cost after the phase before it has booked its own.  A cost that is     *)
(* never booked, or a reader of the report page, breaks it.                   *)
HardForTheSlot ==
    \A m \in Months \ (outside \cup lost) : WithinBudget(m, Budget + MaxCallCost)

(* Readers of the report page are outside of the slot and read a cost that   *)
(* leaves out what a job has not booked yet.  As long as every call is       *)
(* booked, a month still costs less than the budget twice, once for what the *)
(* slot had not booked and once for the rest, and one call per actor.        *)
TwiceTheBudget ==
    \A m \in Months \ lost : WithinBudget(m, 2 * Budget - 1 + (Cardinality(Readers) + 1) * MaxCallCost)

(* What language models can cost a month: with nothing but jobs, and with     *)
(* readers as well.                                                          *)
SpendingBounded == HardForTheSlot /\ TwiceTheBudget

(* Whatever is cut off or dies, a cost is booked at most once and in its own *)
(* month: the books and what is still to be booked never exceed what was     *)
(* charged, and they show all of it unless a booking was lost.               *)
Unbooked(m, a) == IF step[a] # "idle" /\ since[a] = m THEN spent[a] ELSE 0
BooksBalance ==
    \A m \in Months :
        LET known == recorded[m] + SumFunction([a \in Actors |-> Unbooked(m, a)])
        IN known <= charged[m] /\ (m \notin lost => known = charged[m])

(* A voucher forgives no more than was booked in its month, or in an earlier *)
(* month if that one ended between ApplyVoucher's read and its write.        *)
VoucherCovered ==
    \A m \in Months :
        credit[m] <= recorded[m] \/ (m \in lost /\ \E n \in 0..(m - 1) : credit[m] <= recorded[n])

-----------------------------------------------------------------------------
(* Comment of Summarize: it "books its cost as a "summary" run".  Then the    *)
(* summary of a reader of the report page, which comes to its booking with    *)
(* what the model has charged for the answer, leaves the books that much      *)
(* higher.                                                                    *)
SummaryBooked ==
    [][\A r \in Readers :
        Book(r) => recorded'[since[r]] = recorded[since[r]] + spent[r]]_vars
=============================================================================
