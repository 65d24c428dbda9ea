----------------------------- MODULE MCStartup -----------------------------
(***************************************************************************)
(* Startup with the shapes of the migrations 001, 002, 003 and 005, of     *)
(* which a later release brings the last two, and of 012.                  *)
(***************************************************************************)
EXTENDS Startup

Create(object) == [op |-> "create", object |-> object]
Alter(object) == [op |-> "alter", object |-> object]
Record == [op |-> "record"]

MCScript ==
    << <<Create("migrations"), Create("visitors"), Record>>,
       <<Create("apps"), Record>>,
       <<Alter("apps.prompt"), Record>>,
       <<Alter("apps.featured"), Alter("apps.description_de"), Record>>,
       <<Alter("apps.vote"), Create("feedback_log"), Record>> >>
MCReleases == <<2, 4, 5>>
MCSeedData == <<"siedler", "subsidies">>
MCOwnApps == {"own"}
============================================================================
