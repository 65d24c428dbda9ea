--------------------------- MODULE MCWeeklyDigest ---------------------------
(***************************************************************************)
(* WeeklyDigest on seven postings, of which four are found.  1, 2 and 4      *)
(* compete for the one place of the digest and the one of a runner-up; 3     *)
(* scored low and may be purged: while it is there its url connects it with  *)
(* 1 and its title with 2.  5 is to 4 what 3 is to 2, in another             *)
(* organisation; a url joins 4 with 6; 6 and 7 have one key in two buckets,  *)
(* as they have no org.  5 and 7 have no url.                               *)
(***************************************************************************)
EXTENDS WeeklyDigest

MCPostings == 1..7
MCUrl == <<"u1", "u2", "u1", "u4", "none", "u4", "none">>
MCOrg == <<"apn", "apn", "apn", "wwf", "wwf", "none", "none">>
MCTitle == <<"warden", "director", "directeur", "directeur", "director", "officer", "officer">>
MCSource == <<"apn", "linkedin", "linkedin", "wwf", "wwf", "linkedin", "idealist">>
MCScore == <<80, 90, 45, 85, 60, 55, 50>>
MCAlike == {{"director", "directeur"}}

\* 1 and 2 are one LinkedIn posting found by two sources, one without an org;
\* 3 is the same job under another title, 4 a runner-up elsewhere.
MCPostingsBlank == 1..4
MCUrlBlank == <<"u1", "u1", "u3", "u4">>
MCOrgBlank == <<"apn", "none", "apn", "wwf">>
MCTitleBlank == <<"director", "director", "directeur", "advisor">>
MCSourceBlank == <<"linkedin", "linkedin", "apn", "wwf">>
MCScoreBlank == <<80, 90, 75, 45>>
=============================================================================
