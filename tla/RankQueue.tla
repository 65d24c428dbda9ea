----------------------------- MODULE RankQueue -----------------------------
(***************************************************************************)
(* RankPending of srv/jobs/rank.go: the work queue that scores unranked    *)
(* postings in batches with a language model, halves a batch that failed,  *)
(* gives a posting the reply left out a second chance, and stops when the  *)
(* month's budget is reached.                                              *)
(*                                                                         *)
(* The queue and the batch are slices of rows, each with a retried flag of  *)
(* its own; postings are numbered in the order in which Unranked returns    *)
(* them.  The conversation with the model is its outcome: an error, or the *)
(* postings it scored; either costs.                                       *)
(***************************************************************************)
EXTENDS Integers, Sequences, FiniteSets

CONSTANTS
    Unranked,     \* how many postings have no score, at most maxItems
    MaxBatch,     \* 12 in the code
    Budget,       \* MaxMonthUSD
    MaxCallCost   \* bound: what one call can cost

ASSUME UnrankedAssumption == Unranked \in Nat
ASSUME BatchAssumption == MaxBatch \in Nat \ {0}
ASSUME MoneyAssumption == Budget \in Nat /\ MaxCallCost \in Nat

VARIABLES
    phase,       \* "gate", "loop", "call", "done"
    pending,     \* the queue, a sequence of rows
    cur,         \* the batch of the call in flight, a sequence of rows
    batch,       \* the size the next batch may have
    month,       \* GetCost at the start: what the month had cost
    spent,       \* what this run has cost
    ctx,         \* "live", or "expired" once the job's deadline has passed
    scored,      \* the postings with a score in the database
    alone,       \* history: the postings whose call failed with no other in it
    misses       \* history: how many replies left out each posting

queueVars == <<phase, pending, cur, batch, month, spent, ctx, scored, alone, misses>>

Postings == 1..Unranked
QueueRow == [id : Postings, retried : BOOLEAN]

Ids(rows) == {rows[i].id : i \in DOMAIN rows}

Least(a, b) == IF a <= b THEN a ELSE b
Greatest(a, b) == IF a >= b THEN a ELSE b

QueueTypeOK ==
    /\ phase \in {"gate", "loop", "call", "done"}
    /\ pending \in Seq(QueueRow)
    /\ cur \in Seq(QueueRow)
    /\ batch \in 1..MaxBatch
    /\ month \in Nat
    /\ spent \in Nat
    /\ ctx \in {"live", "expired"}
    /\ scored \in SUBSET Postings
    /\ alone \in SUBSET Postings
    /\ misses \in [Postings -> Nat]

\* Mutant: only what was spent before this run counts.
MayCallMonthOnly == month < Budget
\* The check at the head of the loop: the month as it was, and this run.
MayCall == month + spent < Budget

\* Mutants: a failed batch is given up; a failed posting is tried for ever.
GiveUp == FALSE
SplitForEver == ctx = "live"
\* A failed batch goes back to the queue.
SplitAgain == Len(cur) > 1 /\ ctx = "live"

\* Mutant: the queue is cut one row too early.
RestOffByOne(n) == SubSeq(pending, n, Len(pending))
\* The queue without the n rows of the next batch.
Rest(n) == SubSeq(pending, n + 1, Len(pending))

\* Where in the batch are rows the reply left out that still have their second chance?
Unanswered(answered) == {i \in DOMAIN cur : cur[i].id \notin answered /\ ~cur[i].retried}

\* The position in I that k - 1 others precede.
Nth(I, k) == CHOOSE i \in I : Cardinality({j \in I : j < i}) = k - 1

\* Those rows, in their order, flagged as having had it.
Missed(answered) ==
    LET I == Unanswered(answered)
    IN [k \in 1..Cardinality(I) |-> [id |-> cur[Nth(I, k)].id, retried |-> TRUE]]

\* The batch grows back after a success.
Grown == Least(MaxBatch, 2 * batch)

QueueInit ==
    /\ phase = "gate"
    /\ pending = [p \in Postings |-> [id |-> p, retried |-> FALSE]]
    /\ cur = <<>>
    /\ batch = MaxBatch
    /\ month \in 0..Budget
    /\ spent = 0
    /\ ctx = "live"
    /\ scored = {}
    /\ alone = {}
    /\ misses = [p \in Postings |-> 0]

\* The budget is checked before the first posting is read.
Gate ==
    /\ phase = "gate"
    /\ phase' = IF month >= Budget THEN "done" ELSE "loop"
    /\ UNCHANGED <<pending, cur, batch, month, spent, ctx, scored, alone, misses>>

\* The loop ends when the queue is empty or the budget is reached mid-run.
Leave ==
    /\ phase = "loop"
    /\ pending = <<>> \/ ~MayCall
    /\ phase' = "done"
    /\ UNCHANGED <<pending, cur, batch, month, spent, ctx, scored, alone, misses>>

\* rankBatch sends the next batch.
Send ==
    /\ phase = "loop"
    /\ pending # <<>>
    /\ MayCall
    /\ LET n == Least(batch, Len(pending))
       IN cur' = SubSeq(pending, 1, n) /\ pending' = Rest(n)
    /\ phase' = "call"
    /\ UNCHANGED <<batch, month, spent, ctx, scored, alone, misses>>

\* The call fails, or its reply holds no object: half the batch is tried next,
\* unless the batch was of one or the deadline has passed.
CallFails(c) ==
    /\ phase = "call"
    /\ spent' = spent + c
    /\ \/ SplitAgain /\ batch' = Greatest(1, Len(cur) \div 2) /\ pending' = cur \o pending
       \/ ~SplitAgain /\ UNCHANGED <<batch, pending>>
    /\ alone' = IF Len(cur) = 1 THEN alone \cup Ids(cur) ELSE alone
    /\ cur' = <<>>
    /\ phase' = "loop"
    /\ UNCHANGED <<month, ctx, scored, misses>>

\* The reply scores some of the batch (ids that were not sent are ignored, and
\* an update that fails leaves its posting out).  The others are queued again,
\* once each, and the batch grows.
CallAnswers(c, answered) ==
    /\ phase = "call"
    /\ answered \subseteq Ids(cur)
    /\ ctx = "expired" => answered = {}
    /\ spent' = spent + c
    /\ scored' = scored \cup answered
    /\ pending' = Missed(answered) \o pending
    /\ misses' = [p \in Postings |-> IF p \in Ids(cur) \ answered THEN misses[p] + 1 ELSE misses[p]]
    /\ batch' = Grown
    /\ cur' = <<>>
    /\ phase' = "loop"
    /\ UNCHANGED <<month, ctx, alone>>

\* The deadline of a manual job passes (the scheduler's run has none).
Expire ==
    /\ ctx = "live"
    /\ phase # "done"
    /\ ctx' = "expired"
    /\ UNCHANGED <<phase, pending, cur, batch, month, spent, scored, alone, misses>>

Call ==
    \E c \in 0..MaxCallCost :
       CallFails(c) \/ \E answered \in SUBSET Ids(cur) : CallAnswers(c, answered)

Finished == phase = "done" /\ UNCHANGED queueVars

QueueNext == Gate \/ Leave \/ Send \/ Call \/ Expire \/ Finished

(* The loop goes on by itself, and a call returns: its client has a timeout. *)
QueueFairness == WF_queueVars(Gate \/ Leave \/ Send \/ Call)

QueueSpec == QueueInit /\ [][QueueNext]_queueVars /\ QueueFairness

-----------------------------------------------------------------------------
\* The rows that are paid for in this call or may be in a later one.
Queue == cur \o pending

(* However batches are cut off the queue, halved, put back in front of it and *)
(* picked over for what a reply left out, no posting is in the batch and the  *)
(* queue twice, so none is paid for in two places of one pass, and none that  *)
(* has its score already is queued to be paid for again.                      *)
NothingTwice ==
    /\ \A i, j \in DOMAIN Queue : Queue[i].id = Queue[j].id => i = j
    /\ Ids(Queue) \cap scored = {}

(* "a failed batch is split in half and retried", "Items the model silently  *)
(* dropped go back to the queue once": a run that had money and time left    *)
(* leaves a posting without a score only if its own call, with no other       *)
(* posting in it, failed, or two replies left it out.                        *)
UnrankedForAReason ==
    (phase = "done" /\ month + spent < Budget /\ ctx = "live") =>
        \A p \in Postings \ scored : p \in alone \/ misses[p] = 2

(* "go back to the queue once": no posting is left out by a third reply.     *)
RequeuedOnce == \A p \in Postings : misses[p] <= 2

(* A run exceeds the budget by less than one call: it never starts a call    *)
(* with the budget reached.                                                  *)
OneCallOver == month + spent < Budget + MaxCallCost \/ (month >= Budget /\ spent = 0)

(* Where each posting of the run is, as an inductive invariant: waiting, in  *)
(* the call, scored, or given up for one of the three reasons; the flag of a *)
(* row tells of its first miss; a call in flight was within the budget.      *)
Accounted ==
    /\ phase # "call" => cur = <<>>
    /\ phase = "call" => Len(cur) \in 1..batch /\ MayCall
    /\ phase = "done" => pending = <<>> \/ ~MayCall
    /\ phase = "gate" => spent = 0
    /\ \A i \in DOMAIN Queue : misses[Queue[i].id] = IF Queue[i].retried THEN 1 ELSE 0
    /\ \A p \in Postings :
         p \in Ids(Queue) \cup scored \cup alone \/ misses[p] = 2 \/ ctx = "expired"

(* However the calls fail, the queue is worked off: halving reaches one, and *)
(* a posting that failed alone or was left out twice does not come back.     *)
RunEnds == <>(phase = "done")

=============================================================================
