--------------------------- MODULE SourceRun_proofs ---------------------------
(***************************************************************************)
(* Proofs about SourceRun for any list of sources, any number of proxies,    *)
(* pages, terms and failures.                                               *)
(***************************************************************************)
EXTENDS SourceRun, TLAPS

-----------------------------------------------------------------------------
(* The proxies. *)

(* A body that was found is in the channel until the loop takes it, and only a *)
(* call that is over has an outcome.                                         *)
AnswerInv ==
    /\ call \in {"none", "launch", "poll", "wait", "drain"}
    /\ call \in {"launch", "poll", "drain"} /\ answered => results # <<>>
    /\ call # "none" => outcome = "none"
    /\ call = "none" => running = {}
    /\ outcome = "error" => ~answered

(* What a step is for the pool. *)
PoolStep ==
    \/ GetViaProxy(timeUp) \/ CallStep \/ TimeOut
    \/ \E p \in Proxies : LateEnd(p) \/ CooldownOver(p)
    \/ outcome' = "none" /\ answered' = FALSE /\ UNCHANGED <<call, results, running>> /\ call = "none"
    \/ UNCHANGED <<call, results, running, outcome, answered>>

LEMMA PoolParts == [Next]_vars => PoolStep
<1> SUFFICES ASSUME [Next]_vars PROVE PoolStep
  OBVIOUS
<1>1. CASE Dispatch
  BY <1>1 DEF Dispatch, PoolStep, pool, now
<1>2. CASE ProxyEnds
  BY <1>2 DEF ProxyEnds, PoolStep, now
<1>3. CASE Answer \/ TooMany \/ PauseOver \/ RequestFails \/ Detail \/ Store \/ SourceOK \/ Record \/ NextRun
  BY <1>3 DEF Answer, TooMany, PauseOver, RequestFails, Detail, Store, SourceOK, Record, NextRun, PoolStep, pool, now
<1>4. CASE TimeUp
  BY <1>4 DEF TimeUp, PoolStep
<1>5. CASE Pool(CallStep) \/ Pool(TimeOut)
  BY <1>5 DEF Pool, PoolStep
<1>6. CASE \E p \in Proxies : Pool(LateEnd(p)) \/ (phase = "recorded" /\ Pool(CooldownOver(p)))
  BY <1>6 DEF Pool, PoolStep
<1>7. CASE UNCHANGED vars
  BY <1>7 DEF vars, pool, now, PoolStep
<1> QED
  BY <1>1, <1>2, <1>3, <1>4, <1>5, <1>6, <1>7 DEF Next, Step

LEMMA AnswerStep == AnswerInv /\ PoolStep => AnswerInv'
<1> SUFFICES ASSUME AnswerInv, PoolStep PROVE AnswerInv'
  OBVIOUS
<1>1. CASE GetViaProxy(timeUp)
  BY <1>1 DEF GetViaProxy, AnswerInv
<1>2. CASE Launch
  BY <1>2 DEF Launch, AnswerInv
<1>3. CASE Poll
  BY <1>3 DEF Poll, AnswerInv
<1>4. CASE Waited
  BY <1>4 DEF Waited, Return, AnswerInv
<1>5. CASE AllLaunched
  BY <1>5 DEF AllLaunched, AnswerInv
<1>6. CASE Received
  BY <1>6 DEF Received, Return, AnswerInv
<1>7. CASE Closed
  BY <1>7 DEF Closed, Return, AnswerInv
<1>8. ASSUME NEW i \in running, Found(i) PROVE AnswerInv'
  <2>1. <<order[i]>> # <<>>
    OBVIOUS
  <2> QED
    BY <1>8, <2>1 DEF Found, AnswerInv
<1>9. ASSUME NEW i \in running, Refused(i) PROVE AnswerInv'
  BY <1>9 DEF Refused, AnswerInv
<1>10. CASE TimeOut
  BY <1>10 DEF TimeOut, AnswerInv
<1>11. ASSUME NEW p \in Proxies, LateEnd(p) \/ CooldownOver(p) PROVE AnswerInv'
  BY <1>11 DEF LateEnd, CooldownOver, AnswerInv, now
<1>12. CASE \/ outcome' = "none" /\ answered' = FALSE /\ UNCHANGED <<call, results, running>> /\ call = "none"
            \/ UNCHANGED <<call, results, running, outcome, answered>>
  BY <1>12 DEF AnswerInv
<1> QED
  BY <1>1, <1>2, <1>3, <1>4, <1>5, <1>6, <1>7, <1>8, <1>9, <1>10, <1>11, <1>12 DEF PoolStep, CallStep

(* However the goroutines, the channel, the loop and the timeouts of a call    *)
(* come together, for any number of proxies: an answer is never lost.         *)
THEOREM NoAnswerLostCorrect == Spec => []NoAnswerLost
<1>1. Init => AnswerInv
  BY DEF Init, PoolInit, AnswerInv
<1>2. AnswerInv /\ [Next]_vars => AnswerInv'
  BY AnswerStep, PoolParts
<1>3. AnswerInv => NoAnswerLost
  BY DEF AnswerInv, NoAnswerLost
<1> QED
  BY <1>1, <1>2, <1>3, PTL DEF Spec
-----------------------------------------------------------------------------
(* The sources. *)

Posted == (DOMAIN Kind) \X Nat

(* What the functions of the kinds have in common. *)
LEMMA KindOf ==
    ASSUME NEW k \in Kinds
    PROVE  /\ Fetch[k].later \in {"ends", "skips", "fails"}
           /\ Fetch[k].later = "ends" => Fetch[k].asks = "pages"
           /\ Fetch[k].later = "skips" => Fetch[k].asks = "terms"
           /\ Fetch[k].asks = "terms" => Fetch[k].later = "skips"
           /\ Fetch[k].asks \in {"once", "pages", "terms", "proxy"}
  BY DEF Kinds, Fetch, fetchLinkedIn, fetchRSS, fetchTED, fetchUNDP, fetchMCI, fetchPage, fetchOOE,
         fetchERecruiter, fetchBundOData, fetchNOE, fetchSoftgarden, fetchKTN, fetchOnlyfy,
         fetchTalentLink, fetchTirol

Working == phase \in {"proxy", "list", "pause", "detail", "store"}

(* How far the source under way is, and what is read of it so far. *)
SourceInv ==
    /\ at \in Nat \ {0} /\ page \in Nat \ {0}
    /\ phase \in {"next", "proxy", "list", "pause", "detail", "store", "recorded"}
    /\ got \in Seq(Posted) /\ todo \in Seq(Posted)
    /\ \A i \in DOMAIN got : got[i][1] = Src
    /\ \A i \in DOMAIN todo : todo[i][1] = Src
    /\ Working => at <= Len(Sources)
    /\ ~Working => page = 1 /\ got = <<>> /\ lastErr = FALSE /\ todo = <<>> /\ ended = FALSE
    /\ phase \in {"proxy", "list", "pause"} /\ page = 1 => got = <<>>
    /\ phase = "detail" => todo # <<>> /\ (page > 1 \/ ended)
    /\ phase = "proxy" => page = 1
    /\ How.asks \in {"once", "proxy"} => page = 1

LEMMA SrcKind == SourceInv /\ at <= Len(Sources) => Src \in DOMAIN Kind /\ Kind[Src] \in Kinds
  BY RunAssumption DEF SourceInv, Src

LEMMA OneMore ==
    ASSUME NEW S, NEW s \in Seq(S), NEW x \in S
    PROVE  /\ s \o <<x>> \in Seq(S)
           /\ ToSet(s \o <<x>>) = ToSet(s) \cup {x}
           /\ \A i \in DOMAIN (s \o <<x>>) : (s \o <<x>>)[i] = x \/ \E j \in DOMAIN s : (s \o <<x>>)[i] = s[j]
<1> DEFINE t == s \o <<x>>
<1>1. t \in Seq(S) /\ Len(t) = Len(s) + 1
  OBVIOUS
<1>2. \A i \in 1..Len(s) : t[i] = s[i]
  OBVIOUS
<1>3. t[Len(s) + 1] = x
  OBVIOUS
<1>4. DOMAIN t = 1..(Len(s) + 1) /\ DOMAIN s = 1..Len(s) /\ Len(s) \in Nat
  BY <1>1
<1> HIDE DEF t
<1>5. ToSet(t) = ToSet(s) \cup {x}
  BY <1>2, <1>3, <1>4 DEF ToSet
<1>6. \A i \in DOMAIN t : t[i] = x \/ \E j \in DOMAIN s : t[i] = s[j]
  BY <1>2, <1>3, <1>4
<1> QED
  BY <1>1, <1>5, <1>6 DEF t

LEMMA Reading ==
    ASSUME SourceInv, at <= Len(Sources), NEW read \in Reads
    PROVE  /\ got \o read \in Seq(Posted) /\ read \in Seq(Posted)
           /\ \A i \in DOMAIN (got \o read) : (got \o read)[i][1] = Src
           /\ \A i \in DOMAIN read : read[i][1] = Src
           /\ ToSet(got \o read) = ToSet(got) \cup ToSet(read)
           /\ \A p \in ToSet(read) : p[1] = Src
<1>1. CASE read = <<>>
  BY <1>1 DEF SourceInv, ToSet
<1>2. CASE read = <<<<Src, page>>>>
  <2> DEFINE x == <<Src, page>>
  <2>1. x \in Posted /\ x[1] = Src
    BY SrcKind DEF Posted, SourceInv
  <2>2. got \in Seq(Posted) /\ \A i \in DOMAIN got : got[i][1] = Src
    BY DEF SourceInv
  <2>3. read = <<x>>
    BY <1>2
  <2> HIDE DEF x
  <2>4. /\ got \o <<x>> \in Seq(Posted)
        /\ ToSet(got \o <<x>>) = ToSet(got) \cup {x}
        /\ \A i \in DOMAIN (got \o <<x>>) : (got \o <<x>>)[i] = x \/ \E j \in DOMAIN got : (got \o <<x>>)[i] = got[j]
    BY <2>1, <2>2, OneMore
  <2>5. <<x>> \in Seq(Posted) /\ ToSet(<<x>>) = {x} /\ DOMAIN <<x>> = {1} /\ <<x>>[1] = x
    BY <2>1 DEF ToSet
  <2>6. \A i \in DOMAIN (got \o <<x>>) : (got \o <<x>>)[i][1] = Src
    BY <2>1, <2>2, <2>4
  <2> QED
    BY <2>1, <2>3, <2>4, <2>5, <2>6
<1> QED
  BY <1>1, <1>2 DEF Reads

(* The listing goes on, or on to the detail pages or the store. *)
LEMMA ContinueKeeps ==
    ASSUME SourceInv, phase \in {"proxy", "list", "pause"}, NEW more \in BOOLEAN, NEW read \in Reads,
           Continue(more, read), more => How.asks \in {"pages", "terms"}
    PROVE  SourceInv'
<1>1. at <= Len(Sources) /\ at' = at /\ Src' = Src /\ How' = How
  BY DEF SourceInv, Working, Continue, Src, How
<1>2. got' \in Seq(Posted) /\ \A i \in DOMAIN got' : got'[i][1] = Src
  BY <1>1, Reading DEF Continue
<1>3. todo' \in Seq(Posted) /\ \A i \in DOMAIN todo' : todo'[i][1] = Src
  <2>1. todo' \in {<<>>, read, FirstN(got', MaxDetails)}
    BY DEF Continue
  <2>2. CASE todo' = <<>>
    BY <2>2
  <2>3. CASE todo' = read
    BY <1>1, <2>3, Reading
  <2>4. CASE todo' = FirstN(got', MaxDetails)
    <3>1. MaxDetails \in Nat
      BY RunAssumption
    <3> QED
      BY <1>2, <2>4, <3>1 DEF FirstN
  <2> QED
    BY <2>1, <2>2, <2>3, <2>4
<1>4. /\ page' = IF more THEN page + 1 ELSE page
      /\ ended' = ~more
      /\ phase' = IF todo' # <<>> THEN "detail" ELSE IF more THEN "list" ELSE "store"
  BY DEF Continue
<1>5. page' \in Nat \ {0} /\ (more => page' > 1) /\ (How.asks \in {"once", "proxy"} => page' = 1)
  BY <1>4 DEF SourceInv
<1>6. ended' \in BOOLEAN /\ (ended' \/ more)
  BY <1>4
<1>7. phase' \in {"detail", "list", "store"} /\ (phase' = "detail" => todo' # <<>>)
      /\ (phase' = "list" => more)
  BY <1>4
<1> QED
  BY <1>1, <1>2, <1>3, <1>5, <1>6, <1>7 DEF SourceInv, Working

LEMMA ClearKeeps ==
    ASSUME SourceInv, at <= Len(Sources), Clear, at' = at + 1, phase' = "next"
    PROVE  SourceInv'
  BY DEF SourceInv, Clear, Working

LEMMA GiveUpKeeps ==
    ASSUME SourceInv, phase \in {"list", "pause"}, GiveUp
    PROVE  SourceInv'
<1>1. at <= Len(Sources)
  BY DEF SourceInv, Working
<1>2. How.later = "skips" => How.asks = "terms"
  BY <1>1, SrcKind, KindOf DEF How
<1>3. <<>> \in Reads
  BY DEF Reads
<1>4. CASE Continue(FALSE, <<>>)
  BY <1>3, <1>4, ContinueKeeps
<1>5. CASE How.later = "skips" /\ Continue(page < Terms, <<>>)
  <2>1. (page < Terms) \in BOOLEAN
    OBVIOUS
  <2> QED
    BY <1>2, <1>3, <1>5, <2>1, ContinueKeeps
<1>6. CASE Fail
  BY <1>1, <1>6, ClearKeeps DEF Fail
<1> QED
  BY <1>4, <1>5, <1>6 DEF GiveUp

LEMMA SourceStep == SourceInv /\ [Next]_vars => SourceInv'
<1> SUFFICES ASSUME SourceInv, [Next]_vars PROVE SourceInv'
  OBVIOUS
<1>1. CASE Dispatch
  <2>1. phase' \in {"proxy", "list"} /\ at' = at /\ at <= Len(Sources) /\ Clear
    BY <1>1 DEF Dispatch
  <2> QED
    BY <2>1 DEF SourceInv, Clear, Working
<1>2. CASE Answer
  <2>1. PICK read \in Reads, more \in BOOLEAN :
          /\ CASE How.asks = "terms" -> more = (page < Terms)
               [] How.asks = "pages" -> more => page < MaxPages /\ (read # <<>> \/ How.later = "ends")
               [] OTHER -> ~more
          /\ Fail \/ Continue(more, read)
    BY <1>2 DEF Answer
  <2>2. more => How.asks \in {"pages", "terms"}
    BY <2>1
  <2>3. phase = "list" /\ at <= Len(Sources)
    BY <1>2 DEF Answer, SourceInv, Working
  <2>4. CASE Fail
    BY <2>3, <2>4, ClearKeeps DEF Fail
  <2>5. CASE Continue(more, read)
    BY <2>2, <2>3, <2>5, ContinueKeeps
  <2> QED
    BY <2>1, <2>4, <2>5
<1>3. CASE TooMany \/ PauseOver
  BY <1>3 DEF TooMany, PauseOver, source, SourceInv, Working, Src, How
<1>4. CASE RequestFails
  BY <1>4, GiveUpKeeps DEF RequestFails
<1>5. CASE ProxyEnds
  <2>1. ASSUME NEW read \in Reads, Continue(FALSE, read) PROVE SourceInv'
    BY <1>5, <2>1, ContinueKeeps DEF ProxyEnds
  <2>2. CASE phase' = "list" /\ UNCHANGED <<at, source, record>>
    BY <1>5, <2>2 DEF ProxyEnds, source, SourceInv, Working, Src, How
  <2> QED
    BY <1>5, <2>1, <2>2 DEF ProxyEnds
<1>6. CASE Detail
  <2>1. /\ phase = "detail" /\ todo' = Tail(todo) /\ UNCHANGED <<at, page, got, lastErr, ended>>
        /\ phase' = IF todo' # <<>> THEN "detail" ELSE IF ended THEN "store" ELSE "list"
    BY <1>6 DEF Detail
  <2>2. todo' \in Seq(Posted) /\ \A i \in DOMAIN todo' : todo'[i][1] = Src
    BY <2>1 DEF SourceInv
  <2> QED
    BY <2>1, <2>2 DEF SourceInv, Working, Src, How
<1>7. CASE Store
  <2>1. phase = "store" /\ got # <<>> /\ got' = Tail(got) /\ UNCHANGED <<at, phase, page, lastErr, todo, ended>>
    BY <1>7 DEF Store
  <2>2. got' \in Seq(Posted) /\ \A i \in DOMAIN got' : got'[i][1] = Src
    BY <2>1 DEF SourceInv
  <2> QED
    BY <2>1, <2>2 DEF SourceInv, Working, Src, How
<1>8. CASE SourceOK
  BY <1>8, ClearKeeps DEF SourceOK, SourceInv, Working
<1>9. CASE Record
  BY <1>9 DEF Record, source, SourceInv, Working, Src, How
<1>10. CASE NextRun
  BY <1>10 DEF NextRun, source, SourceInv, Working
<1>11. CASE UNCHANGED <<at, phase, source>>
  BY <1>11 DEF source, SourceInv, Working, Src, How
<1>12. CASE TimeUp \/ UNCHANGED vars
  BY <1>11, <1>12 DEF TimeUp, vars
<1>13. CASE \/ Pool(CallStep) \/ Pool(TimeOut)
            \/ \E p \in Proxies : Pool(LateEnd(p)) \/ (phase = "recorded" /\ Pool(CooldownOver(p)))
  BY <1>11, <1>13 DEF Pool
<1> QED
  BY <1>1, <1>2, <1>3, <1>4, <1>5, <1>6, <1>7, <1>8, <1>9, <1>10, <1>12, <1>13 DEF Next, Step

LEMMA SourceInit == Init => SourceInv
<1> SUFFICES ASSUME Init PROVE SourceInv
  OBVIOUS
<1>1. at = 1 /\ page = 1 /\ phase = "next" /\ got = <<>> /\ todo = <<>> /\ lastErr = FALSE /\ ended = FALSE
  BY DEF Init, Fresh
<1> QED
  BY <1>1 DEF SourceInv, Working

-----------------------------------------------------------------------------
(* What is counted as fetched. *)

ReachedInv ==
    /\ ok \subseteq reached
    /\ got # <<>> \/ ended \/ phase = "store" => Src \in reached
    /\ How.later = "ends" /\ page > 1 => Src \in reached

(* A failure goes on with what an answer has brought before. *)
LEMMA ReachedAfterGiveUp ==
    ASSUME SourceInv, ReachedInv, phase \in {"list", "pause"}, GiveUp, reached' = reached
    PROVE  ReachedInv'
<1>1. at <= Len(Sources)
  BY DEF SourceInv, Working
<1>2. got \o <<>> = got
  BY DEF SourceInv
<1>3. CASE Fail
  BY <1>3 DEF Fail, Clear, ReachedInv
<1>4. CASE How.later = "ends" /\ page > 1 /\ Continue(FALSE, <<>>)
  <2>1. Src \in reached /\ Src' = Src /\ ok' = ok
    BY <1>4 DEF ReachedInv, Continue, Src
  <2> QED
    BY <2>1 DEF ReachedInv
<1>5. CASE How.later = "skips" /\ (page < Terms \/ got # <<>>) /\ Continue(page < Terms, <<>>)
  <2>1. /\ Src' = Src /\ How' = How /\ ok' = ok /\ got' = got
        /\ ended' = ~(page < Terms)
        /\ phase' = "store" => ended'
    BY <1>2, <1>5 DEF Continue, Src, How
  <2> QED
    BY <1>5, <2>1 DEF ReachedInv
<1> QED
  BY <1>3, <1>4, <1>5 DEF GiveUp

LEMMA ReachedStep == SourceInv /\ ReachedInv /\ [Next]_vars => ReachedInv'
<1> SUFFICES ASSUME SourceInv, ReachedInv, [Next]_vars PROVE ReachedInv'
  OBVIOUS
<1>1. CASE Dispatch
  BY <1>1 DEF Dispatch, Clear, ReachedInv, record
<1>2. CASE Answer
  <2>1. reached' = reached \cup {Src}
    BY <1>2 DEF Answer
  <2>2. CASE Fail
    BY <2>1, <2>2 DEF Fail, Clear, ReachedInv
  <2>3. ASSUME NEW more, NEW read, Continue(more, read) PROVE ReachedInv'
    BY <2>1, <2>3 DEF Continue, ReachedInv, Src
  <2> QED
    BY <1>2, <2>2, <2>3 DEF Answer
<1>3. CASE TooMany \/ PauseOver
  BY <1>3 DEF TooMany, PauseOver, source, record, ReachedInv, Src, How
<1>4. CASE RequestFails
  BY <1>4, ReachedAfterGiveUp DEF RequestFails
<1>5. CASE ProxyEnds
  <2>1. ASSUME NEW read, Continue(FALSE, read), reached' = reached \cup {Src} PROVE ReachedInv'
    BY <2>1 DEF Continue, ReachedInv, Src
  <2>2. CASE phase' = "list" /\ UNCHANGED <<at, source, record>>
    BY <2>2 DEF source, record, ReachedInv, Src, How
  <2> QED
    BY <1>5, <2>1, <2>2 DEF ProxyEnds
<1>6. CASE Detail
  BY <1>6 DEF Detail, ReachedInv, Src, How
<1>7. CASE Store
  BY <1>7 DEF Store, ReachedInv, Src, How
<1>8. CASE SourceOK
  BY <1>8 DEF SourceOK, Clear, ReachedInv
<1>9. CASE Record
  BY <1>9 DEF Record, source, ReachedInv, Src, How
<1>10. CASE NextRun
  <2>1. page' = 1 /\ got' = <<>> /\ ended' = FALSE /\ phase' = "next" /\ ok' = {} /\ reached' = {}
    BY <1>10 DEF NextRun, source, SourceInv, Working
  <2> QED
    BY <2>1 DEF ReachedInv
<1>11. CASE UNCHANGED <<at, phase, source, record>>
  BY <1>11 DEF source, record, ReachedInv, Src, How
<1>12. CASE TimeUp \/ UNCHANGED vars
  BY <1>11, <1>12 DEF TimeUp, vars
<1>13. CASE \/ Pool(CallStep) \/ Pool(TimeOut)
            \/ \E p \in Proxies : Pool(LateEnd(p)) \/ (phase = "recorded" /\ Pool(CooldownOver(p)))
  BY <1>11, <1>13 DEF Pool
<1> QED
  BY <1>1, <1>2, <1>3, <1>4, <1>5, <1>6, <1>7, <1>8, <1>9, <1>10, <1>12, <1>13 DEF Next, Step

(* No portal that never answered is counted as fetched, for any list of        *)
(* sources and kinds, any number of pages, terms and proxies.                 *)
THEOREM OkIsAnsweredCorrect == Spec => []OkIsAnswered
<1>1. Init => SourceInv /\ ReachedInv
  <2>1. Init => ReachedInv
    BY DEF Init, Fresh, ReachedInv
  <2> QED
    BY <2>1, SourceInit
<1>2. SourceInv /\ ReachedInv /\ [Next]_vars => SourceInv' /\ ReachedInv'
  BY SourceStep, ReachedStep
<1>3. SourceInv /\ ReachedInv => OkIsAnswered
  BY DEF ReachedInv, OkIsAnswered
<1> QED
  BY <1>1, <1>2, <1>3, PTL DEF Spec

-----------------------------------------------------------------------------
(* What becomes of a posting. *)

LossExplained(p) ==
    \/ p[1] \in err /\ Fetch[Kind[p[1]]].asks = "pages" /\ Fetch[Kind[p[1]]].later = "fails"
    \/ p[1] \in ok /\ (~Match(p) \/ p \in unwritten)

LossInv ==
    /\ \A s \in ok \cup err : \E i \in 1..(at - 1) : s = Sources[i]
    /\ \A p \in loaded : p[1] \in ok \cup err \/ (Working /\ p[1] = Src)
    /\ \A p \in loaded \ stored : p[1] \in ok \cup err => LossExplained(p)
    /\ \A p \in loaded : Working /\ p[1] = Src =>
          \/ p \in ToSet(got)
          \/ phase = "store" /\ (p \in stored \/ p \in unwritten \/ ~Match(p))

(* The source under way has not been counted, as every source is listed once.  *)
LEMMA SrcIsNew ==
    ASSUME SourceInv, LossInv, at <= Len(Sources)
    PROVE  Src \notin ok \cup err
<1> SUFFICES ASSUME NEW i \in 1..(at - 1), Src = Sources[i] PROVE FALSE
  BY DEF LossInv
<1>1. i \in DOMAIN Sources /\ at \in DOMAIN Sources /\ i # at
  BY RunAssumption DEF SourceInv
<1> QED
  BY <1>1, RunAssumption DEF Src, IsInjective

(* A source is counted as failed either before anything was read of it, or      *)
(* because it is one of those that fail as a whole.                           *)
LEMMA LossAfterFail ==
    ASSUME SourceInv, LossInv, at <= Len(Sources), Working, phase # "store", Fail, loaded' = loaded,
           got = <<>> \/ (How.asks = "pages" /\ How.later = "fails")
    PROVE  LossInv'
<1>1. /\ at' = at + 1 /\ err' = err \cup {Src} /\ phase' = "next"
      /\ UNCHANGED <<detailed, stored, unwritten, ok>>
  BY DEF Fail
<1>2. Src \notin ok \cup err
  BY SrcIsNew
<1>3. \A s \in ok' \cup err' : \E i \in 1..(at' - 1) : s = Sources[i]
  BY <1>1 DEF LossInv, SourceInv, Src
<1>4. \A p \in loaded : p[1] \in ok' \cup err'
  BY <1>1 DEF LossInv
<1>5. \A p \in loaded : p[1] = Src => How.asks = "pages" /\ How.later = "fails"
  <2>1. ToSet(<<>>) = {}
    BY DEF ToSet
  <2> QED
    BY <2>1 DEF LossInv
<1>6. \A p : Match(p)' = Match(p)
  BY <1>1 DEF Match
<1>7. \A p \in loaded \ stored : p[1] \in ok' \cup err' => LossExplained(p)'
  BY <1>1, <1>2, <1>5, <1>6 DEF LossInv, LossExplained, How
<1> QED
  BY <1>1, <1>3, <1>4, <1>7 DEF LossInv, Working

LEMMA LossAfterContinue ==
    ASSUME SourceInv, LossInv, at <= Len(Sources), Working, phase # "store", NEW read \in Reads, NEW more,
           Continue(more, read), loaded' = loaded \cup ToSet(read)
    PROVE  LossInv'
<1>1. /\ at' = at /\ Src' = Src /\ Working' /\ got' = got \o read
      /\ UNCHANGED <<detailed, stored, unwritten, ok, err>>
  BY DEF Continue, Src, Working
<1>2. ToSet(got') = ToSet(got) \cup ToSet(read) /\ \A p \in ToSet(read) : p[1] = Src
  BY <1>1, Reading
<1>3. Src \notin ok \cup err
  BY SrcIsNew
<1>4. \A p : LossExplained(p)' = LossExplained(p)
  BY <1>1 DEF LossExplained, Match
<1>5. \A p \in loaded' : p[1] = Src => p \in ToSet(got')
  BY <1>2 DEF LossInv
<1>6. \A p \in loaded' : p[1] \in ok \cup err \/ p[1] = Src
  BY <1>2 DEF LossInv
<1>7. \A p \in loaded' \ stored : p[1] \in ok \cup err => LossExplained(p)
  BY <1>2, <1>3 DEF LossInv
<1> QED
  BY <1>1, <1>4, <1>5, <1>6, <1>7 DEF LossInv

LEMMA LossAfterGiveUp ==
    ASSUME SourceInv, LossInv, phase \in {"list", "pause"}, GiveUp, loaded' = loaded
    PROVE  LossInv'
<1>1. at <= Len(Sources) /\ Working /\ phase # "store"
  BY DEF SourceInv, Working
<1>2. <<>> \in Reads /\ ToSet(<<>>) = {}
  BY DEF Reads, ToSet
<1>3. ASSUME NEW more, Continue(more, <<>>) PROVE LossInv'
  BY <1>1, <1>2, <1>3, LossAfterContinue
<1>4. CASE /\ CASE How.later = "skips" -> page = Terms /\ got = <<>>
                [] How.later = "ends" -> page = 1
                [] OTHER -> TRUE
           /\ Fail
  <2>1. /\ How.later \in {"ends", "skips", "fails"}
        /\ How.later = "skips" \/ How.later = "ends" \/ How.asks \in {"once", "pages", "proxy"}
    BY <1>1, SrcKind, KindOf DEF How
  <2>2. page = 1 => got = <<>>
    BY DEF SourceInv
  <2>3. got = <<>> \/ (How.asks = "pages" /\ How.later = "fails")
    BY <1>4, <2>1, <2>2 DEF SourceInv
  <2> QED
    BY <1>1, <1>4, <2>3, LossAfterFail
<1> QED
  BY <1>3, <1>4 DEF GiveUp

LEMMA LossStep == SourceInv /\ LossInv /\ [Next]_vars => LossInv'
<1> SUFFICES ASSUME SourceInv, LossInv, [Next]_vars PROVE LossInv'
  OBVIOUS
<1>0. phase \in {"proxy", "list", "pause", "detail", "store"} => at <= Len(Sources) /\ Working
  BY DEF SourceInv, Working
<1>1. CASE Dispatch
  <2>1. /\ phase = "next" /\ phase' \in {"proxy", "list"} /\ at' = at
        /\ UNCHANGED <<detailed, loaded, stored, unwritten, ok, err>>
    BY <1>1 DEF Dispatch, record
  <2>2. \A p : LossExplained(p)' = LossExplained(p)
    BY <2>1 DEF LossExplained, Match
  <2>3. \A p \in loaded : p[1] \in ok \cup err
    BY <2>1 DEF LossInv, Working
  <2>4. at <= Len(Sources) /\ Src' = Src
    BY <1>1 DEF Dispatch, Src
  <2>5. \A p \in loaded : p[1] # Src
    BY <2>3, <2>4, SrcIsNew
  <2> QED
    BY <2>1, <2>2, <2>3, <2>4, <2>5 DEF LossInv
<1>2. CASE Answer
  <2>1. PICK read \in Reads, more \in BOOLEAN :
          /\ loaded' = loaded \cup ToSet(read)
          /\ (Fail /\ got \o read = <<>>) \/ Continue(more, read)
    BY <1>2 DEF Answer
  <2>2. phase = "list"
    BY <1>2 DEF Answer
  <2>3. CASE Fail /\ got \o read = <<>>
    <3>0. ToSet(<<>>) = {}
      BY DEF ToSet
    <3>1. ToSet(got \o read) = ToSet(got) \cup ToSet(read)
      BY <1>0, <2>2, Reading
    <3>2. ToSet(got) = {} /\ ToSet(read) = {}
      BY <2>3, <3>0, <3>1
    <3>3. got = <<>>
      <4>1. SUFFICES ASSUME got # <<>> PROVE FALSE
        OBVIOUS
      <4>2. got[1] \in ToSet(got)
        BY <4>1 DEF SourceInv, ToSet
      <4> QED
        BY <3>2, <4>2
    <3> QED
      BY <1>0, <2>1, <2>2, <2>3, <3>2, <3>3, LossAfterFail
  <2>4. CASE Continue(more, read)
    BY <1>0, <2>1, <2>2, <2>4, LossAfterContinue
  <2> QED
    BY <2>1, <2>3, <2>4
<1>3. CASE UNCHANGED <<at, got, record>> /\ (Working' <=> Working) /\ (phase' = "store" <=> phase = "store")
  <2>1. \A p : LossExplained(p)' = LossExplained(p) /\ Match(p)' = Match(p)
    BY <1>3 DEF LossExplained, Match, record
  <2> QED
    BY <1>3, <2>1 DEF LossInv, Src, record
<1>4. CASE TooMany \/ PauseOver
  BY <1>3, <1>4 DEF TooMany, PauseOver, source, Working
<1>5. CASE RequestFails
  BY <1>5, LossAfterGiveUp DEF RequestFails
<1>6. CASE ProxyEnds
  <2>1. ASSUME NEW read \in Reads, Continue(FALSE, read), loaded' = loaded \cup ToSet(read) PROVE LossInv'
    BY <1>0, <1>6, <2>1, LossAfterContinue DEF ProxyEnds
  <2>2. CASE phase' = "list" /\ UNCHANGED <<at, source, record>>
    BY <1>3, <1>6, <2>2 DEF ProxyEnds, source, Working
  <2> QED
    BY <1>6, <2>1, <2>2 DEF ProxyEnds
<1>7. CASE Detail
  <2>1. /\ phase = "detail" /\ phase' \in {"detail", "store", "list"} /\ todo # <<>>
        /\ UNCHANGED <<at, got, loaded, stored, unwritten, ok, err>>
        /\ detailed' \in {detailed, detailed \cup {Head(todo)}}
    BY <1>7 DEF Detail, SourceInv
  <2>2. Head(todo)[1] = Src
    BY <2>1 DEF SourceInv
  <2>3. Src \notin ok \cup err
    BY <1>0, <2>1, SrcIsNew
  <2>4. \A p : p[1] # Src => Match(p)' = Match(p)
    BY <2>1, <2>2 DEF Match
  <2>5. \A p : p[1] \in ok \cup err => LossExplained(p)' = LossExplained(p)
    BY <2>1, <2>3, <2>4 DEF LossExplained
  <2>6. Working /\ Working' /\ Src' = Src /\ phase # "store"
    BY <2>1 DEF Working, Src
  <2> QED
    BY <2>1, <2>5, <2>6 DEF LossInv
<1>8. CASE Store
  <2>1. /\ phase = "store" /\ got # <<>> /\ got' = Tail(got)
        /\ UNCHANGED <<at, phase, detailed, loaded, ok, err>>
        /\ stored \subseteq stored' /\ unwritten \subseteq unwritten'
        /\ Head(got) \in stored' \/ Head(got) \in unwritten' \/ ~Match(Head(got))
    BY <1>8 DEF Store
  <2>2. \A p : Match(p)' = Match(p)
    BY <2>1 DEF Match
  <2>3. \A p : LossExplained(p) => LossExplained(p)'
    BY <2>1, <2>2 DEF LossExplained
  <2>4. \A p \in ToSet(got) : p = Head(got) \/ p \in ToSet(got')
    <3>1. Len(got) \in Nat \ {0} /\ Len(got') = Len(got) - 1 /\ DOMAIN got = 1..Len(got) /\ DOMAIN got' = 1..Len(got')
          /\ \A i \in 1..Len(got') : got'[i] = got[i + 1]
      BY <2>1 DEF SourceInv
    <3>2. ASSUME NEW i \in 1..Len(got), i # 1 PROVE i - 1 \in 1..Len(got') /\ got'[i - 1] = got[i]
      BY <3>1, <3>2
    <3>3. Head(got) = got[1]
      BY <2>1 DEF SourceInv
    <3> QED
      BY <3>1, <3>2, <3>3 DEF ToSet
  <2>5. Working /\ Working' /\ Src' = Src
    BY <2>1 DEF Working, Src
  <2> QED
    BY <2>1, <2>2, <2>3, <2>4, <2>5 DEF LossInv
<1>9. CASE SourceOK
  <2>1. /\ phase = "store" /\ got = <<>> /\ ok' = ok \cup {Src} /\ at' = at + 1 /\ phase' = "next"
        /\ UNCHANGED <<detailed, loaded, stored, unwritten, err>>
    BY <1>9 DEF SourceOK
  <2>2. \A p : Match(p)' = Match(p) /\ (LossExplained(p) => LossExplained(p)')
    BY <2>1 DEF Match, LossExplained
  <2>3. \A s \in ok' \cup err' : \E i \in 1..(at' - 1) : s = Sources[i]
    BY <2>1 DEF LossInv, SourceInv, Src
  <2>4. ToSet(got) = {}
    BY <2>1 DEF ToSet
  <2>5. \A p \in loaded \ stored : p[1] = Src => LossExplained(p)'
    BY <1>0, <2>1, <2>2, <2>4 DEF LossInv, LossExplained
  <2> QED
    BY <2>1, <2>2, <2>3, <2>5 DEF LossInv, Working
<1>10. CASE Record
  BY <1>3, <1>10 DEF Record, source, record, LossInv, LossExplained, Match, Src, Working
<1>11. CASE NextRun
  BY <1>11 DEF NextRun, LossInv
<1>12. CASE TimeUp \/ UNCHANGED vars
  BY <1>3, <1>12 DEF TimeUp, vars, source, Working
<1>13. CASE \/ Pool(CallStep) \/ Pool(TimeOut)
            \/ \E p \in Proxies : Pool(LateEnd(p)) \/ (phase = "recorded" /\ Pool(CooldownOver(p)))
  BY <1>3, <1>13 DEF Pool, source, Working
<1> QED
  BY <1>1, <1>2, <1>4, <1>5, <1>6, <1>7, <1>8, <1>9, <1>10, <1>11, <1>12, <1>13 DEF Next, Step

(* Every posting that was read is stored or has one of the known reasons, for   *)
(* any list of sources, whatever fails and wherever the time runs out.        *)
THEOREM LossesExplainedCorrect == Spec => []LossesExplained
<1>1. Init => SourceInv /\ LossInv
  <2>1. Init => LossInv
    BY DEF Init, LossInv
  <2> QED
    BY <2>1, SourceInit
<1>2. SourceInv /\ LossInv /\ [Next]_vars => SourceInv' /\ LossInv'
  BY SourceStep, LossStep
<1>3. SourceInv /\ LossInv => LossesExplained
  BY DEF LossInv, LossExplained, LossesExplained
<1> QED
  BY <1>1, <1>2, <1>3, PTL DEF Spec
=============================================================================
