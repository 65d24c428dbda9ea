-------------------------- MODULE WeeklyRadar_proofs --------------------------
(***************************************************************************)
(* Proofs about WeeklyRadar for any list of grants, any accounts and any     *)
(* number of requests.  A step of the whole is a step of each of its parts   *)
(* or leaves it alone, so that each part has an inductive invariant of its   *)
(* own.                                                                    *)
(***************************************************************************)
EXTENDS WeeklyRadar, FiniteSetTheorems, TLAPS

-----------------------------------------------------------------------------
(* The parts. *)

ConfigStep ==
    \/ \E r \in Requests, op \in Ops, email \in Accounts, cur \in {ReadViewers, {}} :
          HandleAdminConfigViewers(r, op, email, cur)
    \/ \E r \in Requests : setSetting(r) \/ SaveFails(r)
    \/ edit' = [r \in Requests |-> NoEdit] /\ UNCHANGED <<viewers, intended, clash, edits>>
    \/ UNCHANGED config

FundingStep ==
    \/ Seed \/ SeedFails \/ HandleAdminFundingReseed
    \/ \E k \in Keys, status \in Statuses : SetStatus(k, status)
    \/ \E r \in DOMAIN Seeds : Restart(r)
    \/ Tomorrow
    \/ UNCHANGED funding

LoginStep ==
    \/ \E page \in {"admin", "radar"}, who \in Accounts \cup {Nobody}, proxied \in BOOLEAN :
          Open(page, who, proxied)
    \/ Answer \/ ContinueWithPassword \/ RetryLogin \/ GiveUp
    \/ \E who \in Accounts \cup {Nobody} : LoginReturns(who)
    \/ \E password \in {"wrong", "right"} : EnterPassword(password)
    \/ UNCHANGED login

(* What a step is for each part. *)
LEMMA Parts == [Next]_vars => ConfigStep /\ FundingStep /\ LoginStep
<1> SUFFICES ASSUME [Next]_vars PROVE ConfigStep /\ FundingStep /\ LoginStep
  OBVIOUS
<1>1. CASE Morning
  BY <1>1 DEF Morning, ConfigStep, FundingStep, LoginStep
<1>2. CASE Curate
  BY <1>2 DEF Curate, ConfigStep, FundingStep, LoginStep
<1>3. CASE Configure
  BY <1>3 DEF Configure, ConfigStep, FundingStep, LoginStep
<1>4. CASE Browse
  BY <1>4 DEF Browse, ConfigStep, FundingStep, LoginStep
<1>5. CASE \E r \in DOMAIN Seeds : Deploy(r)
  BY <1>5 DEF Deploy, ConfigStep, FundingStep, LoginStep
<1>6. CASE UNCHANGED <<funding, config, login>>
  BY <1>6 DEF ConfigStep, FundingStep, LoginStep
<1> QED
  BY <1>1, <1>2, <1>3, <1>4, <1>5, <1>6 DEF Next, vars

-----------------------------------------------------------------------------
(* The allowlist. *)

(* While no two requests were under way at once, the one that is has read the *)
(* list as it still is.                                                      *)
ReadIsCurrent ==
    ~clash => /\ viewers = intended
              /\ \A r \in Requests : edit[r] # NoEdit => edit[r].cur = viewers
              /\ \A r, q \in Requests : edit[r] # NoEdit /\ edit[q] # NoEdit => r = q

ConfigInv == ConfigTypeOK /\ ReadIsCurrent

LEMMA InitConfig == ConfigInit => ConfigInv
<1> SUFFICES ASSUME ConfigInit PROVE ConfigInv
  OBVIOUS
<1>1. NoEdit \in [op : Ops \cup {"none"}, email : Emails \cup {Owner}, cur : SUBSET Emails]
  BY DEF NoEdit, Ops
<1>2. \A r \in Requests : edit[r] = NoEdit
  BY DEF ConfigInit
<1>3. edit \in [Requests -> [op : Ops \cup {"none"}, email : Emails \cup {Owner}, cur : SUBSET Emails]]
  BY <1>1 DEF ConfigInit
<1>4. ConfigTypeOK
  <2>1. \A r \in Requests : edit[r].cur \cap (Malformed \cup {Owner}) = {}
    <3>1. NoEdit.cur = {}
      BY DEF NoEdit
    <3> QED
      BY <1>2, <3>1
  <2>2. viewers = {} /\ intended = {} /\ clash \in BOOLEAN
    BY DEF ConfigInit
  <2>3. edits \in 0..MaxEdits
    BY EmailsAssumption DEF ConfigInit
  <2> QED
    BY <1>3, <2>1, <2>2, <2>3 DEF ConfigTypeOK
<1>5. \A r \in Requests : ~(edit[r] # NoEdit)
  BY <1>2
<1>6. ReadIsCurrent
  BY <1>5 DEF ConfigInit, ReadIsCurrent
<1> QED
  BY <1>4, <1>6 DEF ConfigInv

LEMMA StepConfig == ConfigInv /\ ConfigStep => ConfigInv'
<1> SUFFICES ASSUME ConfigTypeOK, ReadIsCurrent, ConfigStep PROVE ConfigTypeOK' /\ ReadIsCurrent'
  BY DEF ConfigInv
<1>0. ReadViewers = viewers
  BY DEF ReadViewers, ConfigTypeOK
<1>1. ASSUME NEW r \in Requests, NEW op \in Ops, NEW email \in Accounts, NEW cur \in {ReadViewers, {}},
             HandleAdminConfigViewers(r, op, email, cur)
      PROVE  ConfigTypeOK' /\ ReadIsCurrent'
  <2>1. [op |-> op, email |-> email, cur |-> cur]
            \in [op : Ops \cup {"none"}, email : Emails \cup {Owner}, cur : SUBSET Emails]
    BY <1>0 DEF Accounts, ConfigTypeOK
  <2>2. ConfigTypeOK'
    BY <1>0, <1>1, <2>1, EmailsAssumption DEF HandleAdminConfigViewers, ConfigTypeOK
  <2>3. ReadIsCurrent'
    BY <1>0, <1>1 DEF HandleAdminConfigViewers, ReadIsCurrent, ConfigTypeOK
  <2> QED
    BY <2>2, <2>3
<1>2. ASSUME NEW r \in Requests, setSetting(r) PROVE ConfigTypeOK' /\ ReadIsCurrent'
  <2>1. /\ edit[r].email \in Emails \cup {Owner}
        /\ edit[r].cur \subseteq Emails \ (Malformed \cup {Owner})
    BY DEF ConfigTypeOK
  <2>2. NoEdit \in [op : Ops \cup {"none"}, email : Emails \cup {Owner}, cur : SUBSET Emails]
    BY DEF NoEdit, Ops
  <2>3. NoEdit.cur = {}
    BY DEF NoEdit
  <2>4. Accepted(edit[r]) => /\ Written(edit[r]) \subseteq Emails \ (Malformed \cup {Owner})
                             /\ Changed(edit[r], intended) \subseteq Emails
    BY <2>1 DEF Accepted, Written, Changed, ConfigTypeOK
  <2>5. /\ viewers' \subseteq Emails \ (Malformed \cup {Owner})
        /\ intended' \subseteq Emails
    BY <1>2, <2>4 DEF setSetting, ConfigTypeOK
  <2>6. ConfigTypeOK'
    BY <1>2, <2>2, <2>3, <2>5 DEF setSetting, ConfigTypeOK
  <2>7. ReadIsCurrent'
    BY <1>2 DEF setSetting, ReadIsCurrent, Written, ConfigTypeOK
  <2> QED
    BY <2>6, <2>7
<1>3. ASSUME NEW r \in Requests, SaveFails(r) PROVE ConfigTypeOK' /\ ReadIsCurrent'
  <2>1. ConfigTypeOK'
    BY <1>3 DEF SaveFails, ConfigTypeOK, NoEdit, Ops
  <2>2. ReadIsCurrent'
    BY <1>3 DEF SaveFails, ReadIsCurrent, ConfigTypeOK
  <2> QED
    BY <2>1, <2>2
<1>4. CASE edit' = [r \in Requests |-> NoEdit] /\ UNCHANGED <<viewers, intended, clash, edits>>
  <2>1. ConfigTypeOK'
    BY <1>4 DEF ConfigTypeOK, NoEdit, Ops
  <2>2. ReadIsCurrent'
    BY <1>4 DEF ReadIsCurrent
  <2> QED
    BY <2>1, <2>2
<1>5. CASE UNCHANGED config
  BY <1>5 DEF config, ConfigTypeOK, ReadIsCurrent
<1> QED
  BY <1>1, <1>2, <1>3, <1>4, <1>5 DEF ConfigStep

(* Who may read the radars is what the owner was told, for any accounts and   *)
(* any number of requests, restarts and failing writes in between.           *)
THEOREM AccessAsToldCorrect == Spec => []AccessAsTold
<1>1. Init => ConfigInv
  BY InitConfig DEF Init
<1>2. ConfigInv /\ [Next]_vars => ConfigInv'
  BY StepConfig, Parts
<1>3. ConfigInv => AccessAsTold
  BY DEF ConfigInv, ReadIsCurrent, AccessAsTold
<1> QED
  BY <1>1, <1>2, <1>3, PTL DEF Spec

-----------------------------------------------------------------------------
(* The login. *)

(* A browser that was sent to the login bears a mark, until it goes on with a  *)
(* password, and with the mark of that it is not sent there.                  *)
Marked ==
    /\ visit.hops \in 0..1
    /\ visit.hops = 1 => visit.li \/ visit.basic

LoginInv == LoginTypeOK /\ Marked

Visits == [at : {"none", "request", "login", "explained", "challenged"},
           page : {"admin", "radar"}, who : Emails \cup {Owner, Nobody},
           proxied : BOOLEAN, li : BOOLEAN, basic : BOOLEAN,
           password : {"none", "wrong", "right"}, hops : Nat]

LEMMA NoVisitIsOne == NoVisit \in Visits /\ NoVisit.hops = 0
  BY DEF NoVisit, Visits

LEMMA InitLogin == LoginInit => LoginInv
<1>1. LoginInit => visits \in 0..MaxVisits
  BY VisitsAssumption DEF LoginInit
<1> QED
  BY <1>1, NoVisitIsOne DEF LoginInit, LoginInv, LoginTypeOK, Marked, Visits

LEMMA StepLogin == LoginInv /\ LoginStep => LoginInv'
<1> SUFFICES ASSUME visit \in Visits, visits \in 0..MaxVisits, Marked, LoginStep
             PROVE  visit' \in Visits /\ visits' \in 0..MaxVisits /\ Marked'
  BY DEF LoginInv, LoginTypeOK, Visits
<1>1. ASSUME NEW page \in {"admin", "radar"}, NEW who \in Accounts \cup {Nobody}, NEW proxied \in BOOLEAN,
             Open(page, who, proxied)
      PROVE  visit' \in Visits /\ visits' \in 0..MaxVisits /\ Marked'
  <2>1. visits' \in 0..MaxVisits
    BY <1>1, VisitsAssumption DEF Open
  <2>2. visit' \in Visits /\ visit'.hops = NoVisit.hops
    BY <1>1, NoVisitIsOne DEF Open, Visits, Accounts
  <2> QED
    BY <2>1, <2>2, NoVisitIsOne DEF Marked
<1>2. CASE Answer
  <2>1. visits' \in 0..MaxVisits
    BY <1>2 DEF Answer
  <2>2. CASE visit' = NoVisit
    BY <2>1, <2>2, NoVisitIsOne DEF Marked
  <2>3. CASE Redirected /\ visit' = [visit EXCEPT !.at = "login", !.li = TRUE, !.hops = @ + 1]
    <3>1. ~visit.li /\ ~visit.basic
      BY <2>3 DEF Redirected
    <3>2. visit.hops = 0
      BY <3>1 DEF Marked
    <3>3. visit' = [visit EXCEPT !.at = "login", !.li = TRUE, !.hops = 1]
      BY <2>3, <3>2
    <3>4. visit' \in Visits /\ visit'.hops = 1
      BY <3>3 DEF Visits
    <3>5. visit'.li = TRUE
      BY <3>3 DEF Visits
    <3> QED
      BY <2>1, <3>4, <3>5 DEF Marked
  <2>4. CASE \E at \in {"explained", "challenged"} : visit' = [visit EXCEPT !.at = at]
    BY <2>1, <2>4 DEF Marked, Visits
  <2> QED
    BY <1>2, <2>2, <2>3, <2>4 DEF Answer
<1>3. CASE ContinueWithPassword
  BY <1>3 DEF ContinueWithPassword, Visits, Marked
<1>4. CASE RetryLogin
  <2>1. visits' \in 0..MaxVisits
    BY <1>4, VisitsAssumption DEF RetryLogin
  <2>2. visit' \in Visits /\ visit'.hops = 0
    BY <1>4 DEF RetryLogin, Visits
  <2> QED
    BY <2>1, <2>2 DEF Marked
<1>5. CASE GiveUp
  BY <1>5, NoVisitIsOne DEF GiveUp, Marked
<1>6. ASSUME NEW who \in Accounts \cup {Nobody}, LoginReturns(who)
      PROVE  visit' \in Visits /\ visits' \in 0..MaxVisits /\ Marked'
  BY <1>6 DEF LoginReturns, Visits, Marked, Accounts
<1>7. ASSUME NEW password \in {"wrong", "right"}, EnterPassword(password)
      PROVE  visit' \in Visits /\ visits' \in 0..MaxVisits /\ Marked'
  <2>1. visits' \in 0..MaxVisits
    BY <1>7, VisitsAssumption DEF EnterPassword
  <2>2. visit' \in Visits /\ Marked'
    BY <1>7 DEF EnterPassword, Visits, Marked
  <2> QED
    BY <2>1, <2>2
<1>8. CASE UNCHANGED login
  BY <1>8 DEF login, Marked
<1> QED
  BY <1>1, <1>2, <1>3, <1>4, <1>5, <1>6, <1>7, <1>8 DEF LoginStep

(* No page sends a browser to the login twice, whoever opens pages, follows    *)
(* links and comes back from the login with or without an identity.           *)
THEOREM NoLoginLoopCorrect == Spec => []NoLoginLoop
<1>1. Init => LoginInv
  BY InitLogin DEF Init
<1>2. LoginInv /\ [Next]_vars => LoginInv'
  BY StepLogin, Parts
<1>3. LoginInv => NoLoginLoop
  BY DEF LoginInv, LoginTypeOK, Marked, NoLoginLoop
<1> QED
  BY <1>1, <1>2, <1>3, PTL DEF Spec

-----------------------------------------------------------------------------
(* Sequences that hold each element of a finite set, and tables. *)

LEMMA SetToSeqType ==
    ASSUME NEW S, IsFiniteSet(S)
    PROVE  SetToSeq(S) \in Seq(S)
<1>1. Cardinality(S) \in Nat /\ ExistsBijection(1..Cardinality(S), S)
  BY FS_CardinalityType
<1>2. PICK f \in [1..Cardinality(S) -> S] : IsInjective(f)
  BY <1>1 DEF ExistsBijection, Bijection, Injection, IsInjective
<1>3. SetToSeq(S) \in [1..Cardinality(S) -> S]
  BY <1>2 DEF SetToSeq
<1> QED
  BY <1>1, <1>3

(* The curated list of a release, by the assumption on what the code holds.   *)
LEMMA ApplyVerifiedType ==
    ASSUME NEW r \in DOMAIN Seeds, NEW k \in DOMAIN Seeds[r]
    PROVE  applyVerified(r, k).score \in 0..100 /\ applyVerified(r, k).deadline \in Nat
<1>1. \A f \in {Seeds[r], Verified[r]} : \A j \in DOMAIN f : f[j] \in [score : 0..100, deadline : Nat]
  BY SeedsAssumption
<1> QED
  BY <1>1 DEF applyVerified

LEMMA SeedOrderType ==
    ASSUME NEW r \in DOMAIN Seeds
    PROVE  SeedOrder(r) \in Seq(DOMAIN Seeds[r]) /\ DOMAIN Seeds[r] \subseteq Keys
<1>1. DOMAIN Seeds[r] \subseteq Keys
  BY SeedsAssumption
<1>2. IsFiniteSet(DOMAIN Seeds[r])
  BY <1>1, KeysAssumption, FS_Subset
<1> QED
  BY <1>1, <1>2, SetToSeqType DEF SeedOrder

-----------------------------------------------------------------------------
(* The grants. *)

Rows == [score : 0..100, deadline : Nat, status : Statuses]

(* FundingTypeOK without the days, and what the owner chose is in the table.  *)
TableInv ==
    /\ release \in DOMAIN Seeds
    /\ DOMAIN table \subseteq Keys
    /\ \A k \in DOMAIN table : table[k] \in Rows
    /\ seeding \in Seq(DOMAIN Seeds[release])
    /\ \A k \in DOMAIN chosen : k \in DOMAIN table /\ chosen[k] \in Statuses
    /\ \A k \in DOMAIN chosen : table[k].status = chosen[k]
    /\ changes \in 0..MaxFunding

(* Every row but the one that is written stays, and with it the choice.       *)
LEMMA TouchedKeeps ==
    ASSUME TableInv, NEW k \in Keys, NEW row \in Rows, Touched(k, row)
    PROVE  /\ DOMAIN table' \subseteq Keys
           /\ DOMAIN table' = DOMAIN table \cup {k}
           /\ \A j \in DOMAIN table' : table'[j] \in Rows
           /\ table'[k] = row
           /\ \A j \in DOMAIN table : j # k => table'[j] = table[j]
  BY DEF TableInv, Touched, Put

LEMMA InitTable == FundingInit => TableInv
<1> SUFFICES ASSUME FundingInit PROVE TableInv
  OBVIOUS
<1>1. 1 \in DOMAIN Seeds
  BY SeedsAssumption
<1> QED
  BY <1>1, SeedOrderType, KeysAssumption DEF FundingInit, TableInv

LEMMA StepFunding == TableInv /\ FundingStep => TableInv'
<1> SUFFICES ASSUME TableInv, FundingStep PROVE TableInv'
  OBVIOUS
<1>1. CASE Seed
  <2> DEFINE k == Head(seeding)
  <2>1. k \in DOMAIN Seeds[release] /\ Tail(seeding) \in Seq(DOMAIN Seeds[release])
    BY <1>1 DEF Seed, TableInv
  <2>2. k \in Keys
    BY <2>1, SeedOrderType DEF TableInv
  <2>3. Seeded(k) \in Rows
    BY <2>1, ApplyVerifiedType DEF Seeded, TableInv, Rows, Statuses
  <2>4. k \in DOMAIN table => Seeded(k).status = table[k].status
    BY DEF Seeded
  <2>5. Touched(k, Seeded(k))
    BY <1>1 DEF Seed
  <2>6. \A j \in DOMAIN chosen : j \in DOMAIN table' /\ table'[j].status = chosen[j]
    BY <2>2, <2>3, <2>4, <2>5, TouchedKeeps DEF TableInv
  <2> QED
    BY <1>1, <2>1, <2>2, <2>3, <2>5, <2>6, TouchedKeeps DEF Seed, TableInv
<1>2. CASE SeedFails
  <2>1. seeding' \in Seq(DOMAIN Seeds[release])
    BY <1>2 DEF SeedFails
  <2>2. changes' \in 0..MaxFunding
    BY <1>2, KeysAssumption DEF SeedFails, TableInv
  <2> QED
    BY <1>2, <2>1, <2>2 DEF SeedFails, TableInv
<1>3. CASE HandleAdminFundingReseed
  BY <1>3, KeysAssumption, SeedOrderType DEF HandleAdminFundingReseed, TableInv
<1>4. ASSUME NEW k \in Keys, NEW status \in Statuses, SetStatus(k, status) PROVE TableInv'
  <2> DEFINE row == [table[k] EXCEPT !.status = status]
  <2>1. row \in Rows /\ row.status = status
    BY <1>4 DEF SetStatus, TableInv, Rows
  <2>2. Touched(k, row)
    BY <1>4 DEF SetStatus
  <2>3. chosen' = Put(chosen, k, status)
    BY <1>4 DEF SetStatus
  <2>4. DOMAIN chosen' = DOMAIN chosen \cup {k} /\ chosen'[k] = status
        /\ \A j \in DOMAIN chosen : j # k => chosen'[j] = chosen[j]
    BY <2>3 DEF Put
  <2>5. \A j \in DOMAIN chosen' : /\ j \in DOMAIN table' /\ chosen'[j] \in Statuses
                                  /\ table'[j].status = chosen'[j]
    <3>1. /\ DOMAIN table' = DOMAIN table \cup {k}
          /\ table'[k] = row
          /\ \A j \in DOMAIN table : j # k => table'[j] = table[j]
      BY <2>1, <2>2, TouchedKeeps
    <3>2. SUFFICES ASSUME NEW j \in DOMAIN chosen'
                   PROVE  j \in DOMAIN table' /\ chosen'[j] \in Statuses /\ table'[j].status = chosen'[j]
      OBVIOUS
    <3>3. CASE j = k
      BY <2>1, <2>4, <3>1, <3>3
    <3>4. CASE j # k
      BY <2>4, <3>1, <3>4 DEF TableInv
    <3> QED
      BY <3>3, <3>4
  <2>6. changes' \in 0..MaxFunding
    BY <1>4, KeysAssumption DEF SetStatus, TableInv
  <2> QED
    BY <1>4, <2>1, <2>2, <2>5, <2>6, TouchedKeeps DEF SetStatus, TableInv
<1>5. ASSUME NEW r \in DOMAIN Seeds, Restart(r) PROVE TableInv'
  <2>1. seeding' \in Seq(DOMAIN Seeds[release']) /\ release' \in DOMAIN Seeds
    BY <1>5, SeedOrderType DEF Restart
  <2>2. changes' \in 0..MaxFunding
    BY <1>5, KeysAssumption DEF Restart, TableInv
  <2> QED
    BY <1>5, <2>1, <2>2 DEF Restart, TableInv
<1>6. CASE Tomorrow
  BY <1>6 DEF Tomorrow, TableInv
<1>7. CASE UNCHANGED funding
  BY <1>7 DEF funding, TableInv
<1> QED
  BY <1>1, <1>2, <1>3, <1>4, <1>5, <1>6, <1>7 DEF FundingStep

(* The owner's status of an entry outlives every reseed, restart and release,  *)
(* whatever the lists of the releases say and wherever a Seed is cut off.     *)
THEOREM ChoiceKeptCorrect == Spec => []ChoiceKept
<1>1. Init => TableInv
  BY InitTable DEF Init
<1>2. TableInv /\ [Next]_vars => TableInv'
  BY StepFunding, Parts
<1>3. TableInv => ChoiceKept
  BY DEF TableInv, ChoiceKept
<1> QED
  BY <1>1, <1>2, <1>3, PTL DEF Spec
-----------------------------------------------------------------------------
(* The mail of Monday. *)

DaysInv ==
    /\ day \in Days /\ day \in Nat
    /\ DOMAIN since = DOMAIN table /\ \A k \in DOMAIN table : since[k] \in 0..day
    /\ DOMAIN member = viewers /\ \A v \in viewers : member[v] \in 0..day

Mails == [at : {"none", "due", "addressed", "built", "sending"},
          to : SUBSET Accounts, listed : SUBSET (Keys \X Nat)]

PostInv ==
    /\ mail \in Mails
    /\ warned \subseteq Keys \X Nat \X Accounts
    /\ lost \subseteq 0..day
    /\ faults \in 0..MaxFaults

(* A step on the day either leaves a row and its date alone, or dates it today. *)
LEMMA CurateDates ==
    ASSUME TableInv, DaysInv, Curate
    PROVE  /\ day' = day /\ UNCHANGED <<viewers, member, mail, warned, lost, faults>>
           /\ DOMAIN since' = DOMAIN table'
           /\ \A k \in DOMAIN table' :
                  \/ since'[k] = day
                  \/ k \in DOMAIN table /\ table'[k] = table[k] /\ since'[k] = since[k]
<1>0. UNCHANGED <<viewers, member, mail, warned, lost, faults>>
  BY DEF Curate, config, posting
<1>1. ASSUME NEW k, NEW row, Touched(k, row)
      PROVE  /\ DOMAIN since' = DOMAIN table'
             /\ \A j \in DOMAIN table' :
                  \/ since'[j] = day
                  \/ j \in DOMAIN table /\ table'[j] = table[j] /\ since'[j] = since[j]
  BY <1>1 DEF Touched, Put, DaysInv
<1>2. CASE Seed
  BY <1>0, <1>1, <1>2 DEF Seed
<1>3. CASE SeedFails \/ HandleAdminFundingReseed
  BY <1>0, <1>3 DEF SeedFails, HandleAdminFundingReseed, DaysInv
<1>4. CASE \E k \in Keys, status \in Statuses : SetStatus(k, status)
  BY <1>0, <1>1, <1>4 DEF SetStatus
<1> QED
  BY <1>2, <1>3, <1>4 DEF Curate

LEMMA StepDays == TableInv /\ DaysInv /\ [Next]_vars => DaysInv'
<1> SUFFICES ASSUME TableInv, DaysInv, [Next]_vars PROVE DaysInv'
  OBVIOUS
<1>1. CASE Morning
  <2>1. day' \in Days /\ day' > day /\ day' \in Nat
    BY <1>1, DaysAssumption DEF Morning, Tomorrow
  <2> QED
    BY <1>1, <2>1 DEF Morning, Tomorrow, DaysInv, config
<1>2. CASE Curate
  BY <1>2, CurateDates DEF DaysInv
<1>3. CASE Configure
  BY <1>3 DEF Configure, DaysInv, funding
<1>4. CASE UNCHANGED <<day, table, since, viewers, member>>
  BY <1>4 DEF DaysInv
<1>5. CASE Browse
  BY <1>4, <1>5 DEF Browse, funding, config
<1>6. CASE \E r \in DOMAIN Seeds : Deploy(r)
  BY <1>4, <1>6 DEF Deploy, Restart
<1>7. CASE Monday /\ UNCHANGED <<funding, config, login, member>>
  BY <1>4, <1>7 DEF funding, config
<1>8. CASE UNCHANGED vars
  BY <1>4, <1>8 DEF vars, funding, config
<1> QED
  BY <1>1, <1>2, <1>3, <1>5, <1>6, <1>7, <1>8 DEF Next

LEMMA FaultType ==
    ASSUME PostInv, DaysInv, NEW failed \in BOOLEAN, Fault(failed), day' = day
    PROVE  lost' \subseteq 0..day' /\ faults' \in 0..MaxFaults /\ lost \subseteq lost' /\ (failed => day \in lost')
  BY FaultsAssumption DEF Fault, PostInv, DaysInv

LEMMA UpcomingType ==
    ASSUME TableInv
    PROVE  {<<k, table[k].deadline>> : k \in Upcoming} \subseteq Keys \X Nat
  BY DEF TableInv, Rows, Upcoming

LEMMA StepPost == TableInv /\ DaysInv /\ ConfigInv /\ PostInv /\ [Next]_vars => PostInv'
<1> SUFFICES ASSUME TableInv, DaysInv, ConfigTypeOK, PostInv, [Next]_vars PROVE PostInv'
  BY DEF ConfigInv
<1>0. NoMail \in Mails
  BY DEF NoMail, Mails
<1>1. CASE Morning
  <2>1. day' \in Nat /\ day' > day
    BY <1>1, DaysAssumption DEF Morning, Tomorrow
  <2>2. lost' \subseteq 0..day'
    BY <1>1, <2>1 DEF Morning, PostInv, DaysInv
  <2>3. mail' \in Mails
    BY <1>0, <1>1 DEF Morning, Mails
  <2> QED
    BY <1>1, <2>2, <2>3 DEF Morning, PostInv
<1>2. CASE UNCHANGED <<day, mail, warned, lost, faults>>
  BY <1>2 DEF PostInv
<1>3. CASE Curate \/ Configure \/ Browse \/ UNCHANGED vars
  BY <1>2, <1>3, CurateDates DEF Configure, Browse, vars, funding, posting
<1>4. CASE \E r \in DOMAIN Seeds : Deploy(r)
  <2>1. /\ day' = day /\ mail' = NoMail /\ warned' = warned /\ faults' = faults
        /\ lost' \subseteq lost \cup {day}
    BY <1>4 DEF Deploy, Restart
  <2>2. lost' \subseteq 0..day'
    BY <2>1 DEF PostInv, DaysInv
  <2> QED
    BY <1>0, <2>1, <2>2 DEF PostInv
<1>5. CASE Monday /\ UNCHANGED <<funding, config, login, member>>
  <2>0. day' = day
    BY <1>5 DEF funding
  <2>1. CASE TurnSkipped
    BY <1>0, <2>0, <2>1, FaultType DEF TurnSkipped, PostInv
  <2>2. ASSUME NEW fails \in BOOLEAN, Address(fails) PROVE PostInv'
    <3>1. mail' \in Mails
      BY <2>2 DEF Address, PostInv, Mails, Accounts, reportRecipients, ReadViewers, ConfigTypeOK
    <3> QED
      BY <2>0, <2>2, <3>1, FaultType DEF Address, PostInv
  <2>3. ASSUME NEW fails \in BOOLEAN, BuildReport(fails) PROVE PostInv'
    <3>1. mail' \in Mails
      BY <2>3, UpcomingType DEF BuildReport, PostInv, Mails
    <3> QED
      BY <2>0, <2>3, <3>1, FaultType DEF BuildReport, PostInv
  <2>4. ASSUME NEW fails \in BOOLEAN, NEW picks \in BOOLEAN, Decide(picks, fails) PROVE PostInv'
    <3>1. mail' \in Mails
      BY <1>0, <2>4 DEF Decide, PostInv, Mails
    <3> QED
      BY <2>0, <2>4, <3>1, FaultType DEF Decide, PostInv
  <2>5. ASSUME NEW got \in SUBSET Accounts, Send(got) PROVE PostInv'
    <3>1. warned' \subseteq Keys \X Nat \X Accounts
      BY <2>5 DEF Send, PostInv, Mails
    <3>2. (got # mail.to) \in BOOLEAN
      OBVIOUS
    <3> QED
      BY <1>0, <2>0, <2>5, <3>1, <3>2, FaultType DEF Send, PostInv
  <2> QED
    BY <1>5, <2>1, <2>2, <2>3, <2>4, <2>5 DEF Monday
<1> QED
  BY <1>1, <1>3, <1>4, <1>5 DEF Next
-----------------------------------------------------------------------------
(* The deadlines. *)

(* The mail of day m is to name the entry, and went to those it was to go to.  *)
Due(k, m) ==
    /\ table[k].status = "open" /\ table[k].score >= 40
    /\ table[k].deadline # NoDate
    /\ table[k].deadline >= m /\ table[k].deadline <= m + 13
    /\ since[k] < m

Readers(m) == {Owner} \cup {v \in viewers : member[v] < m}

Told(m) == \A k \in DOMAIN table : Due(k, m) => \A a \in Readers(m) : <<k, table[k].deadline, a>> \in warned

(* Every Monday that is over and was not lost has told; the one under way has  *)
(* the readers, and then the entries, that it is to tell of.                 *)
AnnouncedInv ==
    /\ \A m \in 0..day : m % 7 = 0 /\ m \notin lost /\ (m < day \/ mail.at = "none") => Told(m)
    /\ mail.at \in {"addressed", "built", "sending"} /\ day \notin lost => Readers(day) \subseteq mail.to
    /\ mail.at \in {"built", "sending"} /\ day \notin lost =>
          \A k \in DOMAIN table : Due(k, day) => <<k, table[k].deadline>> \in mail.listed

(* An entry that is due is open, and is both listed and urgent.               *)
LEMMA DueIsUrgent ==
    ASSUME TableInv, DaysInv, NEW k \in DOMAIN table, Due(k, day)
    PROVE  k \in Upcoming /\ Urgent
<1>1. table[k].deadline \in Nat /\ table[k].score \in 0..100 /\ day \in Nat
  BY DEF TableInv, DaysInv, Rows
<1>2. k \in Upcoming
  BY <1>1 DEF Due, Upcoming
<1>3. DaysLeft(table[k].deadline, day) <= 14
  BY <1>1 DEF Due, DaysLeft, NoDate
<1> QED
  BY <1>2, <1>3 DEF Due, Urgent

(* What is edited on a day is not due on a Monday before it, nor on that day.  *)
LEMMA ToldStays ==
    ASSUME DaysInv, NEW m \in 0..day, day' = day, warned \subseteq warned',
           \A k \in DOMAIN table' :
                  \/ since'[k] = day
                  \/ k \in DOMAIN table /\ table'[k] = table[k] /\ since'[k] = since[k],
           \A v \in viewers' : member'[v] = day \/ (v \in viewers /\ member'[v] = member[v])
    PROVE  /\ Readers(m)' \subseteq Readers(m)
           /\ \A k \in DOMAIN table' :
                 Due(k, m)' => k \in DOMAIN table /\ table'[k] = table[k] /\ Due(k, m)
           /\ Told(m) => Told(m)'
<1>0. day \in Nat
  BY DEF DaysInv
<1>1. Readers(m)' \subseteq Readers(m)
  BY <1>0 DEF Readers
<1>2. ASSUME NEW k \in DOMAIN table', Due(k, m)'
      PROVE  k \in DOMAIN table /\ table'[k] = table[k] /\ Due(k, m)
  <2>1. since'[k] # day
    BY <1>0, <1>2 DEF Due
  <2> QED
    BY <1>2, <2>1 DEF Due
<1>3. Told(m) => Told(m)'
  BY <1>1, <1>2 DEF Told
<1> QED
  BY <1>1, <1>2, <1>3

(* A step within the day that is not one of the mail's.                       *)
LEMMA EditedInBetween ==
    ASSUME DaysInv, AnnouncedInv, UNCHANGED <<day, mail, warned, lost>>,
           \A k \in DOMAIN table' :
                  \/ since'[k] = day
                  \/ k \in DOMAIN table /\ table'[k] = table[k] /\ since'[k] = since[k],
           \A v \in viewers' : member'[v] = day \/ (v \in viewers /\ member'[v] = member[v])
    PROVE  AnnouncedInv'
<1>0. day \in 0..day
  BY DEF DaysInv
<1>1. \A m \in 0..day : Told(m) => Told(m)'
  BY ToldStays
<1>2. /\ Readers(day)' \subseteq Readers(day)
      /\ \A k \in DOMAIN table' : Due(k, day)' => k \in DOMAIN table /\ table'[k] = table[k] /\ Due(k, day)
  <2>1. \A m \in 0..day : m = day => /\ Readers(m)' \subseteq Readers(m)
                /\ \A k \in DOMAIN table' : Due(k, m)' => k \in DOMAIN table /\ table'[k] = table[k] /\ Due(k, m)
    BY ToldStays
  <2> QED
    BY <1>0, <2>1 DEF Readers, Due
<1> QED
  BY <1>1, <1>2 DEF AnnouncedInv

(* A step of the mail: nothing but the mail, what was lost and who was warned. *)
LEMMA MailStep ==
    ASSUME DaysInv, AnnouncedInv, UNCHANGED <<day, table, since, viewers, member>>,
           warned \subseteq warned', lost \subseteq lost',
           mail'.at = "none" /\ day % 7 = 0 /\ day \notin lost' => Told(day)',
           mail'.at \in {"addressed", "built", "sending"} /\ day \notin lost' => Readers(day) \subseteq mail'.to,
           mail'.at \in {"built", "sending"} /\ day \notin lost' =>
              \A k \in DOMAIN table : Due(k, day) => <<k, table[k].deadline>> \in mail'.listed
    PROVE  AnnouncedInv'
<1>1. \A m \in 0..day : Told(m) => Told(m)'
  BY DEF Told, Readers, Due
<1>2. Readers(day)' = Readers(day) /\ \A k : Due(k, day)' = Due(k, day)
  BY DEF Readers, Due
<1>3. ASSUME NEW m \in 0..day, m % 7 = 0, m \notin lost', m < day \/ mail'.at = "none"
      PROVE  Told(m)'
  <2>1. CASE m < day
    BY <1>1, <1>3, <2>1 DEF AnnouncedInv
  <2>2. CASE m = day /\ mail'.at = "none"
    BY <1>3, <2>2
  <2> QED
    BY <1>3, <2>1, <2>2 DEF DaysInv
<1> QED
  BY <1>2, <1>3 DEF AnnouncedInv
LEMMA StepAnnounced ==
    TableInv /\ DaysInv /\ ConfigInv /\ PostInv /\ AnnouncedInv /\ [Next]_vars => AnnouncedInv'
<1> SUFFICES ASSUME TableInv, DaysInv, ConfigTypeOK, PostInv, AnnouncedInv, [Next]_vars PROVE AnnouncedInv'
  BY DEF ConfigInv
<1>0. day \in Nat /\ day \in 0..day
  BY DEF DaysInv
<1>1. CASE Morning
  <2>1. /\ day' \in Days /\ day' \in Nat /\ day' > day /\ mail.at = "none"
        /\ \A d \in Days : d > day => d >= day'
        /\ UNCHANGED <<table, since, viewers, member, warned, lost>>
    BY <1>1, DaysAssumption DEF Morning, Tomorrow, config
  <2>2. /\ mail'.at \in {"none", "due"}
        /\ mail'.at = "none" => day' % 7 # 0
    BY <1>1 DEF Morning, NoMail
  <2>3. \A m \in 0..day : Told(m) => Told(m)'
    BY <2>1 DEF Told, Readers, Due
  <2>4. ASSUME NEW m \in 0..day', m % 7 = 0, m \notin lost', m < day' \/ mail'.at = "none"
        PROVE  Told(m)'
    <3>1. m # day'
      <4>1. SUFFICES ASSUME m = day' PROVE FALSE
        OBVIOUS
      <4>2. mail'.at = "none"
        BY <2>1, <2>4, <4>1
      <4>3. day' % 7 = 0
        BY <2>4, <4>1
      <4> QED
        BY <2>2, <4>2, <4>3
    <3>2. m \in Days
      BY <2>1, <2>4, DaysAssumption
    <3>3. m <= day
      BY <1>0, <2>1, <3>1, <3>2
    <3> QED
      BY <2>1, <2>3, <2>4, <3>3 DEF AnnouncedInv
  <2> QED
    BY <2>2, <2>4 DEF AnnouncedInv
<1>2. CASE Curate
  <2>1. UNCHANGED <<day, mail, warned, lost, viewers, member>>
    BY <1>2, CurateDates
  <2> QED
    BY <1>2, <2>1, CurateDates, EditedInBetween
<1>3. CASE Configure
  <2>1. UNCHANGED <<day, mail, warned, lost, table, since>>
    BY <1>3 DEF Configure, funding, posting
  <2>2. \A v \in viewers' : member'[v] = day \/ (v \in viewers /\ member'[v] = member[v])
    BY <1>3 DEF Configure
  <2> QED
    BY <2>1, <2>2, EditedInBetween DEF DaysInv
<1>4. CASE UNCHANGED <<day, mail, warned, lost, table, since, viewers, member>>
  BY <1>4, EditedInBetween DEF DaysInv
<1>5. CASE Browse \/ UNCHANGED vars
  BY <1>4, <1>5 DEF Browse, vars, funding, config, posting
<1>6. CASE \E r \in DOMAIN Seeds : Deploy(r)
  <2>1. /\ UNCHANGED <<day, table, since, viewers, member, warned>>
        /\ mail' = NoMail /\ lost \subseteq lost' /\ (mail.at # "none" => day \in lost')
    BY <1>6 DEF Deploy, Restart
  <2>2. mail'.at = "none"
    BY <2>1 DEF NoMail
  <2>3. day % 7 = 0 /\ day \notin lost' => Told(day)'
    <3>1. Told(day) => Told(day)'
      BY <2>1 DEF Told, Readers, Due
    <3> QED
      BY <1>0, <2>1, <3>1 DEF AnnouncedInv
  <2> QED
    BY <2>1, <2>2, <2>3, MailStep
<1>7. CASE Monday /\ UNCHANGED <<funding, config, login, member>>
  <2>0. UNCHANGED <<day, table, since, viewers, member>>
    BY <1>7 DEF funding, config
  <2>1. CASE TurnSkipped
    <3>1. day \in lost' /\ lost \subseteq lost' /\ mail'.at = "none" /\ warned' = warned
      BY <2>1 DEF TurnSkipped, Fault, NoMail
    <3> QED
      BY <2>0, <3>1, MailStep
  <2>2. ASSUME NEW fails \in BOOLEAN, Address(fails) PROVE AnnouncedInv'
    <3>1. warned' = warned /\ lost \subseteq lost' /\ (fails => day \in lost')
      BY <2>2 DEF Address, Fault
    <3>2. mail'.at = "addressed"
      BY <2>2 DEF Address, PostInv, Mails
    <3>3. ~fails => mail'.to = {Owner} \cup viewers
      BY <2>2 DEF Address, PostInv, Mails, reportRecipients, ReadViewers, ConfigTypeOK
    <3>4. Readers(day) \subseteq {Owner} \cup viewers
      BY DEF Readers
    <3> QED
      BY <2>0, <3>1, <3>2, <3>3, <3>4, MailStep
  <2>3. ASSUME NEW fails \in BOOLEAN, BuildReport(fails) PROVE AnnouncedInv'
    <3>1. warned' = warned /\ lost \subseteq lost' /\ (fails => day \in lost')
      BY <2>3 DEF BuildReport, Fault
    <3>2. mail.at = "addressed" /\ mail'.at = "built" /\ mail'.to = mail.to
      BY <2>3 DEF BuildReport, PostInv, Mails
    <3>3. ~fails => mail'.listed = {<<k, table[k].deadline>> : k \in Upcoming}
      BY <2>3 DEF BuildReport, PostInv, Mails
    <3>4. ~fails => \A k \in DOMAIN table : Due(k, day) => <<k, table[k].deadline>> \in mail'.listed
      BY <3>3, DueIsUrgent
    <3>5. day \notin lost' => Readers(day) \subseteq mail'.to
      BY <3>1, <3>2 DEF AnnouncedInv
    <3> QED
      BY <2>0, <3>1, <3>2, <3>4, <3>5, MailStep
  <2>4. ASSUME NEW fails \in BOOLEAN, NEW picks \in BOOLEAN, Decide(picks, fails) PROVE AnnouncedInv'
    <3>1. warned' = warned /\ lost \subseteq lost' /\ (fails => day \in lost')
      BY <2>4 DEF Decide, Fault
    <3>2. CASE mail' = [mail EXCEPT !.at = "sending"]
      <4>1. mail.at = "built" /\ mail'.at = "sending" /\ mail'.to = mail.to /\ mail'.listed = mail.listed
        BY <2>4, <3>2 DEF Decide, PostInv, Mails
      <4> QED
        BY <2>0, <3>1, <4>1, MailStep DEF AnnouncedInv
    <3>3. CASE mail' = NoMail /\ ~(picks \/ (Urgent /\ ~fails))
      <4>1. mail'.at = "none"
        BY <3>3 DEF NoMail
      <4>2. ~fails => \A k \in DOMAIN table : ~Due(k, day)
        BY <3>3, DueIsUrgent
      <4>3. ~fails => Told(day)'
        BY <2>0, <4>2 DEF Told, Due
      <4> QED
        BY <2>0, <3>1, <4>1, <4>3, MailStep
    <3> QED
      BY <2>4, <3>2, <3>3 DEF Decide
  <2>5. ASSUME NEW got \in SUBSET Accounts, Send(got) PROVE AnnouncedInv'
    <3>1. /\ mail.at = "sending" /\ mail'.at = "none"
          /\ warned' = warned \cup {<<l[1], l[2], a>> : l \in mail.listed, a \in got}
          /\ lost \subseteq lost' /\ (got # mail.to => day \in lost')
      BY <2>5 DEF Send, Fault, NoMail
    <3>2. ASSUME day \notin lost' PROVE Told(day)'
      <4>1. /\ got = mail.to /\ Readers(day) \subseteq got
            /\ \A k \in DOMAIN table : Due(k, day) => <<k, table[k].deadline>> \in mail.listed
        BY <3>1, <3>2 DEF AnnouncedInv
      <4>2. \A l \in mail.listed, a \in got : <<l[1], l[2], a>> \in warned'
        BY <3>1
      <4>3. \A k \in DOMAIN table : Due(k, day) => \A a \in Readers(day) : <<k, table[k].deadline, a>> \in warned'
        BY <4>1, <4>2
      <4> QED
        BY <2>0, <4>3 DEF Told, Due, Readers
    <3> QED
      BY <2>0, <3>1, <3>2, MailStep
  <2> QED
    BY <1>7, <2>1, <2>2, <2>3, <2>4, <2>5 DEF Monday
<1> QED
  BY <1>1, <1>2, <1>3, <1>5, <1>6, <1>7 DEF Next

(* The invariants of all parts together. *)
WholeInv == TableInv /\ DaysInv /\ ConfigInv /\ LoginInv /\ PostInv /\ AnnouncedInv

LEMMA InitWhole == Init => WholeInv
<1> SUFFICES ASSUME Init PROVE WholeInv
  OBVIOUS
<1>1. TableInv
  BY InitTable DEF Init
<1>2. ConfigInv /\ LoginInv
  BY InitConfig, InitLogin DEF Init
<1>3. DaysInv
  BY DaysAssumption DEF Init, FundingInit, ConfigInit, DaysInv
<1>4. PostInv
  <2>1. faults \in 0..MaxFaults
    BY FaultsAssumption DEF Init
  <2>2. mail \in Mails
    BY DEF Init, NoMail, Mails
  <2> QED
    BY <2>1, <2>2 DEF Init, PostInv
<1>5. AnnouncedInv
  <2>1. day = 0 /\ DOMAIN table = {} /\ mail.at = "none"
    BY DEF Init, FundingInit, NoMail
  <2> QED
    BY <2>1 DEF AnnouncedInv, Told
<1> QED
  BY <1>1, <1>2, <1>3, <1>4, <1>5 DEF WholeInv

(* An entry whose deadline comes near is announced on a Monday that was not    *)
(* lost, for any releases, any days and any edits between the steps of the     *)
(* mail: what is edited on the way cannot have stood long enough to be due.    *)
THEOREM DeadlineAnnouncedCorrect == Spec => []DeadlineAnnounced
<1>1. Init => WholeInv
  BY InitWhole
<1>2. WholeInv /\ [Next]_vars => WholeInv'
  BY StepFunding, StepDays, StepConfig, StepLogin, StepPost, StepAnnounced, Parts DEF WholeInv
<1>3. WholeInv => DeadlineAnnounced
  <2> SUFFICES ASSUME TableInv, DaysInv, PostInv, AnnouncedInv, NEW k \in DOMAIN table,
                      table[k].status = "open", table[k].score >= 40,
                      table[k].deadline # NoDate, table[k].deadline < day,
                      since[k] < table[k].deadline - 13,
                      ~(Mondays(table[k].deadline - 13, table[k].deadline) \subseteq lost),
                      NEW a \in {Owner} \cup {v \in viewers : member[v] < table[k].deadline - 13}
               PROVE  <<k, table[k].deadline, a>> \in warned
    BY DEF WholeInv, DeadlineAnnounced
  <2>1. table[k].deadline \in Nat /\ day \in Nat /\ since[k] \in 0..day /\ \A v \in viewers : member[v] \in 0..day
    BY DEF TableInv, DaysInv, Rows
  <2>2. PICK m \in (table[k].deadline - 13)..table[k].deadline : m % 7 = 0 /\ m \notin lost
    BY DEF Mondays
  <2>3. m \in 0..day /\ m < day
    BY <2>1, <2>2
  <2>4. Told(m)
    BY <2>2, <2>3 DEF AnnouncedInv
  <2>5. Due(k, m)
    BY <2>1, <2>2 DEF Due
  <2>6. a \in Readers(m)
    BY <2>1, <2>2 DEF Readers
  <2> QED
    BY <2>4, <2>5, <2>6 DEF Told
<1> QED
  BY <1>1, <1>2, <1>3, PTL DEF Spec

LEMMA StartingSeeds == Spec => [](starting => seeding # <<>>)
<1>1. Init => (starting => seeding # <<>>)
  BY DEF Init, FundingInit
<1>2. (starting => seeding # <<>>) /\ [Next]_vars => (starting => seeding # <<>>)'
  <2> SUFFICES ASSUME starting => seeding # <<>>, FundingStep PROVE starting' => seeding' # <<>>
    BY Parts
  <2> QED
    BY DEF FundingStep, Seed, SeedFails, HandleAdminFundingReseed, SetStatus, Restart, Tomorrow, funding
<1> QED
  BY <1>1, <1>2, PTL DEF Spec

(* The accounts, the entries, the browser and the mail keep their types.       *)
THEOREM TypeCorrect == Spec => []TypeOK
<1>1. Init => WholeInv
  BY InitWhole
<1>2. WholeInv /\ [Next]_vars => WholeInv'
  BY StepFunding, StepDays, StepConfig, StepLogin, StepPost, StepAnnounced, Parts DEF WholeInv
<1>3. WholeInv /\ (starting => seeding # <<>>) => TypeOK
  <2> SUFFICES ASSUME WholeInv, starting => seeding # <<>> PROVE TypeOK
    OBVIOUS
  <2>1. FundingTypeOK
    BY DEF WholeInv, TableInv, DaysInv, Rows, FundingTypeOK
  <2>2. ConfigTypeOK /\ LoginTypeOK
    BY DEF WholeInv, ConfigInv, LoginInv
  <2>3. /\ mail.at \in {"none", "due", "addressed", "built", "sending"}
        /\ mail.to \subseteq Accounts /\ mail.listed \subseteq Keys \X Nat
    BY DEF WholeInv, PostInv, Mails
  <2> QED
    BY <2>1, <2>2, <2>3 DEF WholeInv, PostInv, DaysInv, TypeOK
<1> QED
  BY <1>1, <1>2, <1>3, StartingSeeds, PTL DEF Spec
=============================================================================
