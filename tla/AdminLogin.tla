------------------------------ MODULE AdminLogin ------------------------------
(***************************************************************************)
(* How a browser gets past requireAuth and requireViewer of srv/srv.go and   *)
(* srv/config.go: with the identity header of the exe.dev login, which a      *)
(* page that is asked for without it sends the browser to, or with a          *)
(* password.  The login may come back without the header, when the browser    *)
(* does not send its cookie to this site.                                    *)
(***************************************************************************)
EXTENDS ViewerConfig

CONSTANT MaxVisits  \* bound

ASSUME VisitsAssumption == MaxVisits \in Nat

VARIABLES
    visit,   \* what the browser is doing
    visits

login == <<visit, visits>>

Nobody == "nobody"

NoVisit == [at |-> "none", page |-> "admin", who |-> Nobody, proxied |-> FALSE, li |-> FALSE,
            basic |-> FALSE, password |-> "none", hops |-> 0]

LoginTypeOK ==
    /\ visit \in [at : {"none", "request", "login", "explained", "challenged"},
                  page : {"admin", "radar"}, who : Emails \cup {Owner, Nobody},
                  proxied : BOOLEAN, li : BOOLEAN, basic : BOOLEAN,
                  password : {"none", "wrong", "right"}, hops : Nat]
    /\ visits \in 0..MaxVisits

LoginInit == visit = NoVisit /\ visits = 0

\* A page is opened, by somebody logged in or not; proxied: with a GET and
\* through the proxy of exe.dev.
Open(page, who, proxied) ==
    /\ visit.at = "none" /\ visits < MaxVisits
    /\ visits' = visits + 1
    /\ visit' = [NoVisit EXCEPT !.at = "request", !.page = page, !.who = who, !.proxied = proxied]

Admitted == visit.who = Owner \/ (visit.page = "radar" /\ visit.who \in ReadViewers)

\* Mutant: the mark of a browser that was at the login already is not looked at.
RedirectAlways == visit.who = Nobody /\ visit.password = "none" /\ ~visit.basic /\ visit.proxied

\* requireAuth: is the browser sent to the login?
Redirected ==
    /\ visit.who = Nobody /\ visit.password = "none" /\ ~visit.basic /\ visit.proxied
    /\ ~visit.li

Explained ==
    /\ visit.who = Nobody /\ visit.password = "none" /\ ~visit.basic /\ visit.proxied
    /\ ~Redirected

Answer ==
    /\ visit.at = "request"
    /\ UNCHANGED visits
    /\ \/ /\ Admitted \/ (visit.who = Nobody /\ visit.password = "right")
          /\ visit' = NoVisit
       \/ /\ ~Admitted /\ visit.who # Nobody           \* forbidden
          /\ visit' = NoVisit
       \/ /\ Redirected
          /\ visit' = [visit EXCEPT !.at = "login", !.li = TRUE, !.hops = @ + 1]
       \/ /\ Explained
          /\ visit' = [visit EXCEPT !.at = "explained"]
       \/ /\ visit.who = Nobody /\ visit.password # "right"
          /\ ~Redirected /\ ~Explained
          /\ visit' = [visit EXCEPT !.at = "challenged"]

\* exe.dev sends the browser back to the page, with the header or without.
LoginReturns(who) ==
    /\ visit.at = "login"
    /\ visit' = [visit EXCEPT !.at = "request", !.who = who]
    /\ UNCHANGED visits

\* The two links of the explanation, the second without any mark.
ContinueWithPassword ==
    /\ visit.at = "explained"
    /\ visit' = [visit EXCEPT !.at = "request", !.li = FALSE, !.basic = TRUE]
    /\ UNCHANGED visits

RetryLogin ==
    /\ visit.at = "explained" /\ visits < MaxVisits
    /\ visits' = visits + 1
    /\ visit' = [visit EXCEPT !.at = "login", !.li = FALSE, !.hops = 0]

EnterPassword(password) ==
    /\ visit.at = "challenged" /\ visits < MaxVisits
    /\ visits' = visits + 1
    /\ visit' = [visit EXCEPT !.at = "request", !.password = password]

GiveUp ==
    /\ visit.at \in {"login", "explained", "challenged"}
    /\ visit' = NoVisit
    /\ UNCHANGED visits

-----------------------------------------------------------------------------
(* A browser that cannot carry the login through is not sent there in a       *)
(* circle: at most once for each page that is opened or link that is followed. *)
NoLoginLoop == visit.hops <= 1
=============================================================================
