---------------------------- MODULE OwnerFeedback ----------------------------
(***************************************************************************)
(* The owner's reactions to one item of a radar, a job posting or a grant:  *)
(* votes, notes, trash or status, and the reason for it.  The page          *)
(* (srv/static/radar.js) paints a vote at once, sends each click as a        *)
(* request and paints the answer when it comes; it does not wait for one    *)
(* request before it sends the next.  A handler (srv/feedback_handlers.go)   *)
(* reads the row, writes one statement computed from what it has read and    *)
(* logs what it did (srv/feedback/feedback.go), without a transaction and    *)
(* with errors ignored.  A request may get lost, be cut off when the owner   *)
(* leaves, or have a statement refused by a locked database.                *)
(*                                                                         *)
(* The column hidden of a posting and the column status of a grant are both *)
(* the status of the item; a reason is given or None.                       *)
(***************************************************************************)
EXTENDS Integers, Sequences

CONSTANTS
    Reasons,    \* the keys of feedback.Reasons
    Requests,   \* bound: the requests that are open at the same time
    MaxClicks,  \* bound: the requests of the owner
    MaxFaults   \* bound: the answers lost, requests cut off and statements refused

ASSUME BoundsAssumption == MaxClicks \in Nat /\ MaxFaults \in Nat
ASSUME ReasonsAssumption == "none" \notin Reasons

VARIABLES
    radar,   \* "job" or "grant"
    row,     \* the owner's columns of the item's row
    log,     \* feedback_log
    page,    \* what the page shows
    sent,    \* what each open request asks for
    pc,      \* where its handler stands, "idle" when it is over
    seen,    \* the row the handler has read
    heard,   \* does the page still wait for its answer
    clicks, faults,
    stale,   \* history: since the page was loaded requests overlapped or one failed
    muddled  \* history: requests overlapped, or a statement after a read failed

request == <<sent, pc, seen, heard>>
vars == <<radar, row, log, page, request, clicks, faults, stale, muddled>>

None == "none"
Votes == {-1, 0, 1}
Statuses == [job |-> {"listed", "hidden"}, grant |-> {"open", "applied", "skip", "rejected"}]
Trashed == {"hidden", "skip", "rejected"}
First == [job |-> "listed", grant |-> "open"]

\* A note that is too long is cut when it is stored, not in the answer.
Notes == {"empty", "long"}
Stored(note) == IF note = "long" THEN "cut" ELSE note

Busy == \E i \in Requests : pc[i] # "idle"
NoRequest == [kind |-> "none"]
Fresh == [vote |-> 0, note |-> "empty", status |-> First[radar], reason |-> None]

-----------------------------------------------------------------------------
(* The handlers: q is a request, x the row it has read. *)

Toggle(q, x) == IF q.vote = x.vote THEN 0 ELSE q.vote

VoteAction(v) == CASE v = 1 -> "up" [] v = -1 -> "down" [] OTHER -> "clear"

\* A note that is the one of the row is neither written nor logged.
Nothing(q, x) == q.kind = "note" /\ q.note = x.note

\* A reason is kept unless another one is given.
Given(q, now) == IF q.reason = None THEN now.reason ELSE q.reason

\* The row after the statement, which changes its own columns only.
Written(q, x, now) ==
    CASE q.kind = "vote" -> [now EXCEPT !.vote = Toggle(q, x)]
      [] q.kind = "note" -> [now EXCEPT !.note = Stored(q.note)]
      [] q.kind = "item" -> [now EXCEPT !.status = q.status, !.reason = Given(q, now)]

\* HandleAdminJobsHide logs a reason for a posting in the trash, trash or
\* restore; HandleAdminFundingStatus a reason, trash, another status or nothing.
StatusEntry(q, x) ==
    LET same == q.status = x.status
        again == same /\ q.reason = None /\ radar = "job"
        out == q.status \in Trashed
    IN  CASE same /\ q.reason # None -> <<"reason">>
          [] same /\ q.reason = None /\ radar = "grant" -> <<>>
          [] (~ same \/ again) /\ out -> <<"trash">>
          [] (~ same \/ again) /\ ~ out -> IF radar = "job" THEN <<"restore">> ELSE <<"status">>

\* What is logged: nothing or one entry.
Entries(q, x) ==
    LET actions == CASE q.kind = "vote" -> <<VoteAction(Toggle(q, x))>>
                     [] q.kind = "note" -> <<"note">>
                     [] q.kind = "item" -> StatusEntry(q, x)
    IN  [k \in DOMAIN actions |->
            [action |-> actions[k],
             to |-> CASE q.kind = "vote" -> Toggle(q, x)
                      [] q.kind = "note" -> Stored(q.note)
                      [] q.kind = "item" -> q.status,
             reason |-> IF q.kind = "item" THEN q.reason ELSE None]]

\* The answer asks for a reason when the row had none and got none.
AskReason(q, x) ==
    /\ q.status \in Trashed /\ q.reason = None /\ x.reason = None
    /\ radar = "grant" => q.status # x.status

-----------------------------------------------------------------------------
(* The page. *)

\* The page as it is loaded.
Loaded(x) == [vote |-> x.vote, note |-> x.note, status |-> x.status, select |-> x.status, why |-> FALSE]

\* Mutant: the thumb that was clicked is painted, not the vote that was stored.
AnsweredAsClicked(q, x) ==
    CASE q.kind = "vote" -> [page EXCEPT !.vote = q.vote]
      [] q.kind = "note" -> [page EXCEPT !.note = q.note]
      [] q.kind = "item" /\ q.reason # None -> [page EXCEPT !.why = FALSE]
      [] q.kind = "item" /\ q.reason = None ->
            [page EXCEPT !.status = q.status, !.why = AskReason(q, x)]

\* Mutant: an open question stays open when the item is taken back.
AnsweredStillAsking(q, x) ==
    CASE q.kind = "vote" -> [page EXCEPT !.vote = Toggle(q, x)]
      [] q.kind = "note" -> [page EXCEPT !.note = q.note]
      [] q.kind = "item" /\ q.reason # None -> [page EXCEPT !.why = FALSE]
      [] q.kind = "item" /\ q.reason = None ->
            [page EXCEPT !.status = q.status, !.why = page.why \/ AskReason(q, x)]

\* What the answer makes of the page; the answer to a chip only closes the
\* question.
Answered(q, x) ==
    CASE q.kind = "vote" -> [page EXCEPT !.vote = Toggle(q, x)]
      [] q.kind = "note" -> [page EXCEPT !.note = q.note]
      [] q.kind = "item" /\ q.reason # None -> [page EXCEPT !.why = FALSE]
      [] q.kind = "item" /\ q.reason = None ->
            [page EXCEPT !.status = q.status, !.why = AskReason(q, x)]

\* What a failure makes of it: the old vote and the old status are back.
Failed(q) ==
    CASE q.kind = "vote" -> [page EXCEPT !.vote = q.cur]
      [] q.kind = "item" /\ q.reason = None -> [page EXCEPT !.select = page.status]
      [] OTHER -> page

-----------------------------------------------------------------------------
TypeOK ==
    /\ radar \in {"job", "grant"}
    /\ row \in [vote : Votes, note : {"empty", "cut"}, status : Statuses[radar], reason : Reasons \cup {None}]
    /\ page \in [vote : Votes, note : Notes \cup {"cut"}, status : Statuses[radar],
                 select : Statuses[radar], why : BOOLEAN]
    /\ pc \in [Requests -> {"idle", "sent", "read", "written", "answered"}]
    /\ \A i \in Requests : pc[i] = "idle" <=> sent[i] = NoRequest
    /\ heard \in [Requests -> BOOLEAN]
    /\ clicks \in 0..MaxClicks /\ faults \in 0..MaxFaults
    /\ Len(log) <= clicks
    /\ stale \in BOOLEAN /\ muddled \in BOOLEAN

Init ==
    /\ radar \in {"job", "grant"}
    /\ row = Fresh
    /\ page = Loaded(row)
    /\ log = <<>>
    /\ sent = [i \in Requests |-> NoRequest]
    /\ pc = [i \in Requests |-> "idle"]
    /\ seen = [i \in Requests |-> Fresh]
    /\ heard = [i \in Requests |-> FALSE]
    /\ clicks = 0 /\ faults = 0
    /\ stale = FALSE /\ muddled = FALSE

Click(q) ==
    /\ clicks < MaxClicks
    /\ clicks' = clicks + 1
    /\ \E i \in Requests :
        /\ pc[i] = "idle"
        /\ sent' = [sent EXCEPT ![i] = q]
        /\ pc' = [pc EXCEPT ![i] = "sent"]
        /\ heard' = [heard EXCEPT ![i] = TRUE]
    /\ stale' = (stale \/ Busy)
    /\ muddled' = (muddled \/ Busy)
    /\ UNCHANGED <<radar, row, log, seen, faults>>

\* These requests are over.
Close(done) ==
    /\ sent' = [i \in Requests |-> IF i \in done THEN NoRequest ELSE sent[i]]
    /\ pc' = [i \in Requests |-> IF i \in done THEN "idle" ELSE pc[i]]
    /\ seen' = [i \in Requests |-> IF i \in done THEN Fresh ELSE seen[i]]

\* One more thing went wrong, or not.
Fault(wrong) ==
    /\ wrong => faults < MaxFaults
    /\ faults' = IF wrong THEN faults + 1 ELSE faults

\* A thumb is painted at once.
Thumb(v) ==
    /\ Click([kind |-> "vote", vote |-> v, cur |-> page.vote])
    /\ page' = [page EXCEPT !.vote = IF v = page.vote THEN 0 ELSE v]

\* The note is sent when it differs from the last one known to be saved.
SaveNote(note) ==
    /\ note # page.note
    /\ Click([kind |-> "note", note |-> note])
    /\ UNCHANGED page

\* The trash button of a posting is a restore button when the posting is hidden.
TrashButton ==
    /\ radar = "job"
    /\ Click([kind |-> "item", reason |-> None,
              status |-> IF page.status = "hidden" THEN "listed" ELSE "hidden"])
    /\ UNCHANGED page

Select(s) ==
    /\ radar = "grant" /\ s # page.select
    /\ Click([kind |-> "item", reason |-> None, status |-> s])
    /\ page' = [page EXCEPT !.select = s]

\* A reason; a posting is sent to the trash with it, a grant keeps what is selected.
Chip(reason) ==
    /\ page.why
    /\ Click([kind |-> "item", reason |-> reason,
              status |-> IF radar = "job" THEN "hidden" ELSE page.select])
    /\ UNCHANGED page

SkipReason ==
    /\ page.why
    /\ page' = [page EXCEPT !.why = FALSE]
    /\ UNCHANGED <<radar, row, log, request, clicks, faults, stale, muddled>>

\* The owner reloads the page, or the end of a job does; what is under way
\* goes on without a reader.
Reload ==
    LET answered == {i \in Requests : pc[i] = "answered"} IN
    /\ page' = Loaded(row)
    /\ heard' = [i \in Requests |-> FALSE]
    /\ Close(answered)
    /\ stale' = \E i \in Requests \ answered : pc[i] # "idle"
    /\ UNCHANGED <<radar, row, log, clicks, faults, muddled>>

Read(i) ==
    /\ pc[i] = "sent"
    /\ seen' = [seen EXCEPT ![i] = row]
    /\ pc' = [pc EXCEPT ![i] = IF Nothing(sent[i], row) THEN "answered" ELSE "read"]
    /\ UNCHANGED <<radar, row, log, page, sent, heard, clicks, faults, stale, muddled>>

\* A statement that fails is not noticed, but for the status of a grant.
Write(i, ok) ==
    /\ pc[i] = "read"
    /\ ok \/ radar = "job" \/ sent[i].kind # "item"
    /\ Fault(~ok)
    /\ row' = IF ok THEN Written(sent[i], seen[i], row) ELSE row
    /\ pc' = [pc EXCEPT ![i] = "written"]
    /\ stale' = (stale \/ ~ok)
    /\ muddled' = (muddled \/ ~ok)
    /\ UNCHANGED <<radar, log, page, sent, seen, heard, clicks>>

\* Mutant: the handler reads the row once more for its entry.
LogReadAgain(i, ok) ==
    /\ pc[i] = "written"
    /\ Fault(~ok)
    /\ log' = IF ok THEN log \o Entries(sent[i], row) ELSE log
    /\ pc' = [pc EXCEPT ![i] = "answered"]
    /\ muddled' = (muddled \/ ~ok)
    /\ UNCHANGED <<radar, row, page, sent, seen, heard, clicks, stale>>

Log(i, ok) ==
    /\ pc[i] = "written"
    /\ Fault(~ok)
    /\ log' = IF ok THEN log \o Entries(sent[i], seen[i]) ELSE log
    /\ pc' = [pc EXCEPT ![i] = "answered"]
    /\ muddled' = (muddled \/ ~ok)
    /\ UNCHANGED <<radar, row, page, sent, seen, heard, clicks, stale>>

\* Answers may arrive in any order; one that nobody waits for is dropped.
Answer(i) ==
    /\ pc[i] = "answered"
    /\ Close({i})
    /\ heard' = [heard EXCEPT ![i] = FALSE]
    /\ page' = IF heard[i] THEN Answered(sent[i], seen[i]) ELSE page
    /\ UNCHANGED <<radar, row, log, clicks, faults, stale, muddled>>

\* The page sees its request fail, although the handler may go on.
Lose(i) ==
    /\ pc[i] # "idle" /\ heard[i]
    /\ Fault(TRUE)
    /\ heard' = [heard EXCEPT ![i] = FALSE]
    /\ page' = Failed(sent[i])
    /\ stale' = TRUE
    /\ UNCHANGED <<radar, row, log, sent, pc, seen, clicks, muddled>>

\* A request that nobody waits for is cut off: it never arrived, or its
\* context is over and its statements fail.
Cut(i) ==
    /\ pc[i] \in {"sent", "read", "written"} /\ ~heard[i]
    /\ Close({i})
    /\ muddled' = (muddled \/ pc[i] = "written")
    /\ UNCHANGED <<radar, row, log, page, heard, clicks, faults, stale>>

Next ==
    \/ \E v \in {-1, 1} : Thumb(v)
    \/ \E note \in Notes : SaveNote(note)
    \/ TrashButton
    \/ \E s \in Statuses["grant"] : Select(s)
    \/ \E reason \in Reasons : Chip(reason)
    \/ SkipReason
    \/ Reload
    \/ \E i \in Requests : Read(i) \/ Answer(i) \/ Lose(i) \/ Cut(i)
    \/ \E i \in Requests, ok \in BOOLEAN : Write(i, ok) \/ Log(i, ok)

Spec == Init /\ [][Next]_vars

-----------------------------------------------------------------------------
\* The newest entry of the item with one of these actions, if there is any.
Kept(actions) == {k \in DOMAIN log : log[k].action \in actions}
Newest(actions) == log[CHOOSE k \in Kept(actions) : \A j \in Kept(actions) : j <= k]

\* What PromptHints makes of a posting whose title no other posting of its
\* employer has and whose entry is among the 40 newest: it looks at the newest
\* of these entries.  (Entries under the same title and employer are taken for
\* the same posting, and those beyond the 40 are not read.)
Judging == {"up", "down", "trash"}
Hint ==
    IF Kept(Judging) = {} THEN [verdict |-> "unknown", reason |-> None]
    ELSE [verdict |-> IF Newest(Judging).action = "up" THEN "liked" ELSE "rejected",
          reason |-> Newest(Judging).reason]

-----------------------------------------------------------------------------
(* When all is quiet the page shows what the row holds, and asks for a       *)
(* reason only where one is missing, unless requests overlapped or failed    *)
(* since the page was loaded.                                                *)
PageTellsRow ==
    ~Busy /\ ~stale =>
        /\ page.vote = row.vote
        /\ page.status = row.status
        /\ radar = "grant" => page.select = row.status
        /\ Stored(page.note) = row.note
        /\ page.why => row.reason = None /\ row.status \in Trashed

\* The value the last entry with one of these actions stands for.
LastLogged(actions, default) ==
    IF Kept(actions) = {} THEN default ELSE Newest(actions).to

(* When all is quiet the log, from which the ranking learns, and the row      *)
(* agree on the vote, the status and the note, whether the page heard the    *)
(* answers or not, unless requests overlapped or a statement failed.         *)
LogTellsRow ==
    ~Busy /\ ~muddled =>
        /\ LastLogged({"up", "down", "clear"}, 0) = row.vote
        /\ LastLogged({"trash", "restore", "status", "reason"}, First[radar]) = row.status
        /\ LastLogged({"note"}, "empty") = row.note

(* To give a reason does not send an item to the trash that was taken back,  *)
(* unless the page was stale.                                                *)
ReasonNeverTrashes ==
    [][\A i \in Requests :
        pc[i] = "read" /\ pc'[i] = "written" /\ row.status \notin Trashed /\ row'.status \in Trashed
            => sent[i].reason = None \/ stale]_vars

(* Comment of PromptHints: the prompt lists what the owner trashed, "with     *)
(* reason".  The ranking calls it for postings only.                         *)
HintCarriesReason ==
    ~Busy /\ ~muddled /\ radar = "job" /\ row.status \in Trashed /\ row.reason # None
        /\ Hint.verdict = "rejected"
        => Hint.reason # None
=============================================================================
