------------------------------ MODULE ProxyPool ------------------------------
(***************************************************************************)
(* The pool of free proxies of srv/jobs/proxy.go, through which the portal  *)
(* that refuses cloud addresses is read.  A call orders the proxies that    *)
(* worked before and the candidates that are not cooling down, tries them   *)
(* in parallel, a bounded number at a time, and takes the first body that   *)
(* is the page it asked for.  The goroutine of a proxy hands its body over  *)
(* through a channel that holds one, and gives up if it is taken.           *)
(* The calls come from the one job in the slot, so there is one at a time;   *)
(* goroutines of a call that is over may linger.                            *)
(***************************************************************************)
EXTENDS Naturals, Sequences, FiniteSets, SequencesExt

CONSTANTS
    Proxies,   \* those the public lists may name
    Parallel,  \* the capacity of sem, 25 in the code
    MaxOrder,  \* the proxies that one call tries, 150
    MaxGood,   \* the proxies that are remembered, 10
    MaxCalls   \* bound: the calls

ASSUME PoolAssumption ==
    /\ IsFiniteSet(Proxies)
    /\ Parallel \in Nat \ {0} /\ MaxOrder \in Nat \ {0} /\ MaxGood \in Nat \ {0} /\ MaxCalls \in Nat

VARIABLES
    good,      \* proxies that worked, tried first
    cooled,    \* bad: those on a cooldown
    call,      \* "none", "launch", "poll", "wait" or "drain"
    order,     \* the proxies of the call
    next,      \* the first one that has not been launched
    running,   \* the positions in order whose goroutine is under way
    results,   \* the channel
    cancelled, \* is the context of the call over
    late,      \* proxies whose goroutine outlived its call
    outcome,   \* of the last call: "none", "body" or "error"
    answered,  \* history: a proxy of this call has found the page
    calls

now == <<call, order, next, running, results, cancelled>>
pool == <<good, cooled, now, late, outcome, answered, calls>>

FirstN(seq, n) == SubSeq(seq, 1, IF Len(seq) < n THEN Len(seq) ELSE n)

-----------------------------------------------------------------------------
PoolTypeOK ==
    /\ good \in Seq(Proxies)
    /\ cooled \subseteq Proxies /\ late \subseteq Proxies
    /\ call \in {"none", "launch", "poll", "wait", "drain"}
    /\ order \in Seq(Proxies)
    /\ next \in 1..(Len(order) + 1)
    /\ running \subseteq 1..(next - 1)
    /\ Cardinality(running) <= Parallel
    /\ results \in Seq(Proxies) /\ Len(results) <= 1
    /\ call = "none" => order = <<>> /\ running = {} /\ results = <<>> /\ ~cancelled
    /\ cancelled \in BOOLEAN /\ answered \in BOOLEAN
    /\ outcome \in {"none", "body", "error"}
    /\ calls \in 0..MaxCalls

PoolInit ==
    /\ good = <<>> /\ cooled = {}
    /\ call = "none" /\ order = <<>> /\ next = 1 /\ running = {} /\ results = <<>>
    /\ cancelled = FALSE /\ late = {} /\ outcome = "none" /\ answered = FALSE /\ calls = 0

\* Those that worked, then the candidates in any order, without those cooling down.
Order(fresh) ==
    {IF Len(good) >= MaxOrder THEN good \o FirstN(s, 1) ELSE FirstN(good \o s, MaxOrder) :
        s \in SetToSeqs(fresh \ cooled)}

\* The candidates are what the public lists name, which are read again when they
\* are half an hour old, and a list that cannot be read is left out.
\* over: is the context of the caller over already?
GetViaProxy(over) ==
    /\ call = "none" /\ calls < MaxCalls
    /\ calls' = calls + 1
    /\ \E cands \in SUBSET Proxies : order' \in Order(cands)
    /\ next' = 1 /\ results' = <<>> /\ cancelled' = (over /\ order' # <<>>) /\ answered' = FALSE
    /\ IF order' = <<>> THEN call' = "none" /\ outcome' = "error"
       ELSE call' = "launch" /\ outcome' = "none"
    /\ UNCHANGED <<good, cooled, running, late>>

\* The next proxy gets a goroutine as soon as one of the places is free; a
\* call that is over may skip it.
Launch ==
    /\ call = "launch" /\ next <= Len(order)
    /\ \/ cancelled /\ running' = running
       \/ Cardinality(running) < Parallel /\ running' = running \cup {next}
    /\ next' = next + 1
    /\ call' = "poll"
    /\ UNCHANGED <<good, cooled, order, results, cancelled, late, outcome, answered, calls>>

\* After each launch a look at the channel: a body ends the loop, and the
\* other requests are cancelled and waited for.
Poll ==
    /\ call = "poll"
    /\ IF results = <<>>
       THEN /\ call' = "launch"
            /\ UNCHANGED <<good, results, cancelled>>
       ELSE /\ call' = "wait"
            /\ good' = FirstN(results \o good, MaxGood)
            /\ results' = <<>>
            /\ cancelled' = TRUE
    /\ UNCHANGED <<cooled, order, next, running, late, outcome, answered, calls>>

\* The call returns, and what it had for itself is gone.
Return(how) ==
    /\ call' = "none" /\ outcome' = how
    /\ order' = <<>> /\ next' = 1 /\ running' = {} /\ results' = <<>> /\ cancelled' = FALSE
    /\ UNCHANGED <<answered, calls>>

Waited ==
    /\ call = "wait" /\ running = {}
    /\ Return("body")
    /\ UNCHANGED <<good, cooled, late>>

AllLaunched ==
    /\ call = "launch" /\ next > Len(order)
    /\ call' = "drain"
    /\ UNCHANGED <<good, cooled, order, next, running, results, cancelled, late, outcome, answered, calls>>

\* Then the first body ends the call, which does not wait for the others.
Received ==
    /\ call = "drain" /\ results # <<>>
    /\ good' = results \o good
    /\ late' = late \cup {order[i] : i \in running}
    /\ Return("body")
    /\ UNCHANGED cooled

\* When all goroutines have ended the channel is closed, and nothing was in it.
Closed ==
    /\ call = "drain" /\ running = {} /\ results = <<>>
    /\ Return("error")
    /\ UNCHANGED <<good, cooled, late>>

\* Mutant: the channel has no place for a body, so that one that is not
\* received at once is dropped.
FoundUnbuffered(i) ==
    /\ i \in running
    /\ running' = running \ {i}
    /\ results' = IF call = "drain" THEN <<order[i]>> ELSE results
    /\ answered' = TRUE
    /\ UNCHANGED <<good, cooled, call, order, next, cancelled, late, outcome, calls>>

\* The page came through a proxy: it is handed over, or dropped when there is
\* one in the channel already.
Found(i) ==
    /\ i \in running
    /\ running' = running \ {i}
    /\ results' = IF results = <<>> THEN <<order[i]>> ELSE results
    /\ answered' = TRUE
    /\ UNCHANGED <<good, cooled, call, order, next, cancelled, late, outcome, calls>>

\* A proxy that failed, gave another page or was cancelled gets a cooldown.
Refused(i) ==
    /\ i \in running
    /\ running' = running \ {i}
    /\ cooled' = cooled \cup {order[i]}
    /\ UNCHANGED <<good, call, order, next, results, cancelled, late, outcome, answered, calls>>

\* A goroutine that outlived its call.
LateEnd(p) ==
    /\ p \in late
    /\ late' = late \ {p}
    /\ cooled' \in {cooled, cooled \cup {p}}
    /\ UNCHANGED <<good, now, outcome, answered, calls>>

\* The 90 seconds of the call are over.
TimeOut ==
    /\ call \in {"launch", "poll", "drain"} /\ ~cancelled
    /\ cancelled' = TRUE
    /\ UNCHANGED <<good, cooled, call, order, next, running, results, late, outcome, answered, calls>>

\* Six hours later.
CooldownOver(p) ==
    /\ p \in cooled /\ call = "none"
    /\ cooled' = cooled \ {p}
    /\ UNCHANGED <<good, now, late, outcome, answered, calls>>

\* What a call does by itself once it has begun.
CallStep ==
    \/ Launch \/ Poll \/ Waited \/ AllLaunched \/ Received \/ Closed
    \/ \E i \in running : Found(i) \/ Refused(i)

-----------------------------------------------------------------------------
(* A call fails only if none of its proxies has found the page: no body that *)
(* came in time is lost between the goroutines, the channel and the loop.    *)
NoAnswerLost == outcome = "error" => ~answered
=============================================================================
