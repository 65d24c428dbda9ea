----------------------------- MODULE WeeklyRadar -----------------------------
(***************************************************************************)
(* The radar as its readers meet it: the entries of FundingRadar, the         *)
(* accounts of ViewerConfig and AdminLogin, and the mail of Monday that joins *)
(* them.  The scheduler asks for the recipients, BuildReport lists the        *)
(* deadlines and then waits for the summary of the model, and only then       *)
(* WeeklyReport asks once more whether one is urgent; in between the owner    *)
(* goes on editing.  Whether there are job picks is left open, WeeklyDigest   *)
(* is about them.                                                           *)
(***************************************************************************)
EXTENDS FundingRadar, AdminLogin

CONSTANTS
    MaxFaults,  \* bound: Mondays without the slot, reads and mails that fail
    MaxEvents   \* bound: visits, edits, changes and faults together

ASSUME FaultsAssumption == MaxFaults \in Nat

VARIABLES
    mail,       \* how far the mail of this Monday is, to whom, and what it lists
    warned,     \* history: <<entry, deadline, account>> of the mails delivered
    lost,       \* history: the Mondays on which somebody may have got no mail
    member,     \* history: the day on which an account came to the list
    faults

posting == <<mail, warned, lost, faults>>
vars == <<funding, config, login, posting, member>>

NoMail == [at |-> "none", to |-> {}, listed |-> {}]

Accounts == Emails \cup {Owner}

TypeOK ==
    /\ FundingTypeOK /\ ConfigTypeOK /\ LoginTypeOK
    /\ mail.at \in {"none", "due", "addressed", "built", "sending"}
    /\ mail.to \subseteq Accounts
    /\ mail.listed \subseteq Keys \X Nat
    /\ warned \subseteq Keys \X Nat \X Accounts
    /\ lost \subseteq 0..day
    /\ DOMAIN member = viewers /\ \A v \in viewers : member[v] \in 0..day
    /\ faults \in 0..MaxFaults

Init ==
    /\ FundingInit /\ ConfigInit /\ LoginInit
    /\ mail = NoMail /\ warned = {} /\ lost = {} /\ member = <<>> /\ faults = 0

-----------------------------------------------------------------------------
(* The mail of Monday. *)

\* Does an answer of the database, of the mail gateway or of the slot fail?
Fault(failed) ==
    /\ failed => faults < MaxFaults
    /\ faults' = IF failed THEN faults + 1 ELSE faults
    /\ lost' = IF failed THEN lost \cup {day} ELSE lost

\* The slot is taken, or the time of the turn is missed.
TurnSkipped ==
    /\ mail.at = "due"
    /\ mail' = NoMail /\ Fault(TRUE)
    /\ UNCHANGED warned

\* The recipients are those of this moment; a list that cannot be read is empty.
Address(fails) ==
    /\ mail.at = "due"
    /\ mail' = [mail EXCEPT !.at = "addressed", !.to = IF fails THEN {Owner} ELSE reportRecipients]
    /\ Fault(fails)
    /\ UNCHANGED warned

\* ReportSection ignores a query that fails.
BuildReport(fails) ==
    /\ mail.at = "addressed"
    /\ mail' = [mail EXCEPT !.at = "built",
                            !.listed = IF fails THEN {} ELSE {<<k, table[k].deadline>> : k \in Upcoming}]
    /\ Fault(fails)
    /\ UNCHANGED warned

\* After the summary: with no picks and nothing urgent the mail is skipped.
Decide(picks, fails) ==
    /\ mail.at = "built"
    /\ mail' = IF picks \/ (Urgent /\ ~fails) THEN [mail EXCEPT !.at = "sending"] ELSE NoMail
    /\ Fault(fails)
    /\ UNCHANGED warned

\* Some mails may fail; the others go out.
Send(got) ==
    /\ mail.at = "sending"
    /\ got \subseteq mail.to
    /\ warned' = warned \cup {<<l[1], l[2], a>> : l \in mail.listed, a \in got}
    /\ mail' = NoMail /\ Fault(got # mail.to)

Monday ==
    \/ TurnSkipped
    \/ \E fails \in BOOLEAN : Address(fails) \/ BuildReport(fails) \/ \E picks \in BOOLEAN : Decide(picks, fails)
    \/ \E got \in SUBSET Accounts : Send(got)

-----------------------------------------------------------------------------
\* A day is long: what has begun is over before the next one.
Morning ==
    /\ seeding = <<>> /\ mail.at = "none"
    /\ \A r \in Requests : edit[r] = NoEdit
    /\ Tomorrow
    /\ mail' = IF day' % 7 = 0 THEN [NoMail EXCEPT !.at = "due"] ELSE NoMail
    /\ UNCHANGED <<config, login, warned, lost, member, faults>>

\* The process starts anew: requests and the mail under way are over.
Deploy(r) ==
    /\ Restart(r)
    /\ edit' = [q \in Requests |-> NoEdit]
    /\ mail' = NoMail
    /\ lost' = IF mail.at = "none" THEN lost ELSE lost \cup {day}
    /\ UNCHANGED <<viewers, intended, clash, edits, login, warned, member, faults>>

Curate ==
    /\ \/ Seed \/ SeedFails \/ HandleAdminFundingReseed
       \/ \E k \in Keys, status \in Statuses : SetStatus(k, status)
    /\ UNCHANGED <<config, login, posting, member>>

Configure ==
    /\ ~starting
    /\ \E r \in Requests :
        \/ \E op \in Ops, email \in Accounts, cur \in {ReadViewers, {}} :
              HandleAdminConfigViewers(r, op, email, cur)
        \/ setSetting(r) \/ SaveFails(r)
    /\ member' = [v \in viewers' |-> IF v \in viewers THEN member[v] ELSE day]
    /\ UNCHANGED <<funding, login, posting>>

Browse ==
    /\ ~starting
    /\ \/ \E page \in {"admin", "radar"}, who \in Accounts \cup {Nobody}, proxied \in BOOLEAN :
              Open(page, who, proxied)
       \/ Answer \/ ContinueWithPassword \/ RetryLogin \/ GiveUp
       \/ \E who \in Accounts \cup {Nobody} : LoginReturns(who)
       \/ \E password \in {"wrong", "right"} : EnterPassword(password)
    /\ UNCHANGED <<funding, config, posting, member>>

Next ==
    /\ \/ Morning \/ Curate \/ Configure \/ Browse
       \/ \E r \in DOMAIN Seeds : Deploy(r)
       \/ Monday /\ UNCHANGED <<funding, config, login, member>>
    /\ visits' + edits' + changes' + faults' <= MaxEvents

Spec == Init /\ [][Next]_vars

-----------------------------------------------------------------------------
Mondays(first, last) == {m \in first..last : m % 7 = 0}

(* An open entry of 40 points and more that did not change in its last two     *)
(* weeks has been announced when its deadline is over, to the owner and to     *)
(* everybody who was on the list all that time, also when there were no job    *)
(* picks, and also when one of its two Mondays was lost to a taken slot, a     *)
(* restart, a read or a mail that failed.                                    *)
DeadlineAnnounced ==
    \A k \in DOMAIN table :
        LET row == table[k]
            from == row.deadline - 13
        IN  /\ row.status = "open" /\ row.score >= 40
            /\ row.deadline # NoDate /\ row.deadline < day
            /\ since[k] < from
            /\ ~(Mondays(from, row.deadline) \subseteq lost)
            => \A a \in {Owner} \cup {v \in viewers : member[v] < from} : <<k, row.deadline, a>> \in warned
=============================================================================
