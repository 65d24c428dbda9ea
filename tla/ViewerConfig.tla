----------------------------- MODULE ViewerConfig -----------------------------
(***************************************************************************)
(* The allowlist of srv/config.go: the owner adds and removes the accounts    *)
(* that may read the radars, who are also those that the weekly mail goes to. *)
(* The list is one value of the table settings, which a request reads,        *)
(* changes and writes back; two requests may do so at the same time.          *)
(* An email is taken in lower case and without blanks, and once.             *)
(***************************************************************************)
EXTENDS Naturals, FiniteSets

CONSTANTS
    Emails,      \* that the owner may type; some are not addresses
    Malformed,
    Owner,       \* adminEmail()
    Requests,    \* those that may be under way at once
    MaxEdits     \* bound

ASSUME EmailsAssumption == Malformed \subseteq Emails /\ Owner \notin Malformed /\ MaxEdits \in Nat

VARIABLES
    viewers,     \* the value of viewer_emails
    edit,        \* of each request: what it is to do, and the list it has read
    intended,    \* history: the list that the answers to the owner speak of
    clash,       \* history: were two requests under way at once, or a read failed?
    edits

config == <<viewers, edit, intended, clash, edits>>

Ops == {"add", "remove", "empty"}
NoEdit == [op |-> "none", email |-> Owner, cur |-> {}]

\* The list never holds the owner, nor what is no address.
ConfigTypeOK ==
    /\ viewers \subseteq Emails \ (Malformed \cup {Owner})
    /\ intended \subseteq Emails
    /\ edit \in [Requests -> [op : Ops \cup {"none"}, email : Emails \cup {Owner}, cur : SUBSET Emails]]
    /\ \A r \in Requests : edit[r].cur \cap (Malformed \cup {Owner}) = {}
    /\ clash \in BOOLEAN /\ edits \in 0..MaxEdits

ConfigInit ==
    /\ viewers = {} /\ intended = {} /\ clash = FALSE /\ edits = 0
    /\ edit = [r \in Requests |-> NoEdit]

\* The owner's own address is left out when the list is read.
ReadViewers == viewers \ {Owner}

reportRecipients == {Owner} \cup ReadViewers

\* A request reads the list first; one that cannot be read is taken for empty.
HandleAdminConfigViewers(r, op, email, cur) ==
    /\ edit[r] = NoEdit /\ edits < MaxEdits
    /\ op = "empty" => email = Owner
    /\ cur \in {ReadViewers, {}}
    /\ edits' = edits + 1
    /\ edit' = [edit EXCEPT ![r] = [op |-> op, email |-> email, cur |-> cur]]
    /\ clash' = (clash \/ cur # ReadViewers \/ \E q \in Requests \ {r} : edit[q] # NoEdit)
    /\ UNCHANGED <<viewers, intended>>

\* Mutant: the email is not looked at.
AcceptedAsTyped(e) == e.op = "add" => e.email \notin e.cur

\* Does the request get as far as the write?  One without a form value changes
\* nothing and writes the list all the same.
Accepted(e) == e.op = "add" => e.email \notin Malformed \cup {Owner} \cup e.cur

\* What a request does to a list.
Changed(e, list) ==
    CASE e.op = "add" -> list \cup {e.email}
      [] e.op = "remove" -> list \ {e.email}
      [] OTHER -> list

\* Mutant: the list that was read is what is written.
WrittenUnchanged(e) == e.cur

Written(e) == Changed(e, e.cur)

\* The list is written as a whole, and the owner is told what was done.
setSetting(r) ==
    /\ edit[r] # NoEdit
    /\ IF Accepted(edit[r])
       THEN viewers' = Written(edit[r]) /\ intended' = Changed(edit[r], intended)
       ELSE UNCHANGED <<viewers, intended>>
    /\ edit' = [edit EXCEPT ![r] = NoEdit]
    /\ UNCHANGED <<clash, edits>>

\* The write fails, and the owner is told so.
SaveFails(r) ==
    /\ edit[r] # NoEdit
    /\ edit' = [edit EXCEPT ![r] = NoEdit]
    /\ UNCHANGED <<viewers, intended, clash, edits>>

-----------------------------------------------------------------------------
(* Who may read the radars and gets the weekly mail is what the owner was      *)
(* told: an added account is on the list and a removed one is not, unless two  *)
(* changes were under way at the same time, of which the later write undoes    *)
(* the earlier one, or a failing read passed for an empty list.               *)
AccessAsTold == ~clash => viewers = intended
=============================================================================
