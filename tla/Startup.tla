------------------------------ MODULE Startup ------------------------------
(***************************************************************************)
(* From the start of the process to its first request: RunMigrations       *)
(* (db/db.go) and seedApps (srv/srv.go), which New runs one after the      *)
(* other, with a crash between any two statements, new releases that bring *)
(* more migrations, and the owner's edits of the apps while it serves.     *)
(*                                                                         *)
(* A migration file is handed to the database as a whole, which runs its   *)
(* statements one by one, without a transaction: each is committed on its  *)
(* own, and the first that fails ends the file.  Its last statement        *)
(* records the migration.                                                  *)
(***************************************************************************)
EXTENDS Naturals, Sequences, FiniteSets

CONSTANTS
    Script,      \* the migrations in numeric order, each a sequence of statements
    Releases,    \* by release: how many migrations it brings, never fewer
    SeedData,    \* the apps of seedApps, in order
    OwnApps,     \* other apps that the owner may add
    MaxCrashes   \* bound: how often the process dies or is stopped

Migrations == DOMAIN Script
Statement == [op : {"create", "alter"}, object : STRING] \cup [op : {"record"}]

ASSUME ScriptAssumption ==
    /\ Script \in Seq(Seq(Statement))
    /\ \A n \in Migrations : \A i \in DOMAIN Script[n] :
          (Script[n][i].op = "record") <=> (i = Len(Script[n]))
    /\ \A n \in Migrations : Script[n] # <<>>
    \* No column is added twice, or is part of another statement.
    /\ \A n, m \in Migrations : \A i \in 1..(Len(Script[n]) - 1), j \in 1..(Len(Script[m]) - 1) :
          Script[n][i].op = "alter" /\ Script[n][i].object = Script[m][j].object
             => n = m /\ i = j
ASSUME ReleasesAssumption ==
    /\ Releases \in Seq(Migrations) /\ Releases # <<>>
    /\ \A i, j \in DOMAIN Releases : i <= j => Releases[i] <= Releases[j]

Seeded == {SeedData[i] : i \in DOMAIN SeedData}
Apps == Seeded \cup OwnApps
ASSUME SeedAssumption == SeedData \in Seq(Seeded)

ASSUME BoundsAssumption == MaxCrashes \in Nat

VARIABLES
    schema,     \* the tables and columns that exist
    recorded,   \* the rows of the table migrations
    apps,       \* the rows of the table apps
    release,    \* the release that is installed
    pc,         \* "down", "migrate", "seed", "serve"
    executed,   \* the map RunMigrations filled at the start
    current,    \* the migration the loop has come to, 0 before the first
    at,         \* which of its statements is next, 0 if none is left
    seeds,      \* the apps seedApps has still to create
    crashes,
    half,       \* history: the migrations that were cut off between two statements
    failed,     \* history: the migrations that have failed
    partly      \* history: seedApps was cut off or could not create an app, or
                \* the owner has deleted one

process == <<pc, executed, current, at, seeds>>
history == <<half, failed, partly>>
vars == <<schema, recorded, apps, release, process, crashes, history>>

Objects(n) == {Script[n][i].object : i \in 1..(Len(Script[n]) - 1)}

TypeOK ==
    /\ schema \in SUBSET UNION {Objects(n) : n \in Migrations}
    /\ recorded \in SUBSET Migrations
    /\ apps \in SUBSET Apps
    /\ release \in DOMAIN Releases
    /\ pc \in {"down", "migrate", "seed", "serve"}
    /\ executed \in SUBSET Migrations
    /\ current \in 0..Releases[release]
    /\ at \in 0..(IF current = 0 THEN 0 ELSE Len(Script[current]))
    /\ seeds \in Seq(Seeded)
    /\ crashes \in 0..MaxCrashes
    /\ half \in SUBSET Migrations
    /\ failed \in SUBSET Migrations
    /\ partly \in BOOLEAN

Init ==
    /\ schema = {} /\ recorded = {} /\ apps = {}
    /\ release = 1
    /\ pc = "down" /\ executed = {} /\ current = 0 /\ at = 0 /\ seeds = <<>>
    /\ crashes = 0
    /\ half = {} /\ failed = {} /\ partly = FALSE

\* The process is gone, and with it what it knew.
Ended == pc' = "down" /\ executed' = {} /\ current' = 0 /\ at' = 0 /\ seeds' = <<>>

-----------------------------------------------------------------------------
\* Mutant: the migrations that were executed are not looked up.
StartForgetful ==
    /\ pc = "down"
    /\ pc' = "migrate"
    /\ UNCHANGED <<schema, recorded, apps, release, executed, current, at, seeds, crashes, history>>

\* systemd starts the process; RunMigrations reads what was executed, which is
\* nothing as long as there is no table migrations.
Start ==
    /\ pc = "down"
    /\ pc' = "migrate"
    /\ executed' = recorded
    /\ UNCHANGED <<schema, recorded, apps, release, current, at, seeds, crashes, history>>

\* The loop goes on to the next file and skips it if it was executed.
NextMigration ==
    /\ pc = "migrate" /\ at = 0 /\ current < Releases[release]
    /\ current' = current + 1
    /\ at' = IF current' \in executed THEN 0 ELSE 1
    /\ UNCHANGED <<schema, recorded, apps, release, pc, executed, seeds, crashes, history>>

\* "CREATE ... IF NOT EXISTS" and "INSERT OR IGNORE" may run again.
Run ==
    /\ pc = "migrate" /\ at # 0
    /\ LET s == Script[current][at] IN
         \/ /\ s.op = "record"
            /\ recorded' = recorded \cup {current} /\ UNCHANGED schema
         \/ /\ s.op = "create" \/ (s.op = "alter" /\ s.object \notin schema)
            /\ schema' = schema \cup {s.object} /\ UNCHANGED recorded
    /\ at' = IF at = Len(Script[current]) THEN 0 ELSE at + 1
    /\ UNCHANGED <<apps, release, pc, executed, current, seeds, crashes, history>>

\* Mutant: the error of a migration is logged and the next one is tried.
FailAndGoOn ==
    /\ pc = "migrate" /\ at # 0
    /\ Script[current][at].op = "alter" /\ Script[current][at].object \in schema
    /\ at' = 0
    /\ UNCHANGED <<schema, recorded, apps, release, pc, executed, current, seeds, crashes, history>>

\* Mutant: a migration that fails is tried again, for ever.
FailRetry ==
    /\ pc = "migrate" /\ at # 0
    /\ Script[current][at].op = "alter" /\ Script[current][at].object \in schema
    /\ UNCHANGED vars

\* "ALTER TABLE ... ADD COLUMN" of a column that exists fails; New returns the
\* error and the process ends.  Any other error ends it at the same statement and
\* leaves what a Crash there leaves, which stands for it.
Fail ==
    /\ pc = "migrate" /\ at # 0
    /\ Script[current][at].op = "alter" /\ Script[current][at].object \in schema
    /\ failed' = failed \cup {current}
    /\ Ended
    /\ UNCHANGED <<schema, recorded, apps, release, crashes, half, partly>>

\* All migrations are done; seedApps begins unless there are apps.
Migrated ==
    /\ pc = "migrate" /\ at = 0 /\ current = Releases[release]
    /\ \/ apps = {} /\ pc' = "seed" /\ seeds' = SeedData
       \/ apps # {} /\ pc' = "serve" /\ UNCHANGED seeds
    /\ UNCHANGED <<schema, recorded, apps, release, executed, current, at, crashes, history>>

\* Mutant: the first app that was created ends the seeding.
SeedOne ==
    /\ pc = "seed" /\ seeds # <<>>
    /\ apps' = apps \cup {Head(seeds)}
    /\ seeds' = <<>>
    /\ UNCHANGED <<schema, recorded, release, pc, executed, current, at, crashes, history>>

\* CreateApp, one statement for each app; one that fails is skipped.
Seed ==
    /\ pc = "seed" /\ seeds # <<>>
    /\ \/ apps' = apps \cup {Head(seeds)} /\ UNCHANGED partly
       \/ UNCHANGED apps /\ partly' = TRUE
    /\ seeds' = Tail(seeds)
    /\ UNCHANGED <<schema, recorded, release, pc, executed, current, at, crashes, half, failed>>

Serve ==
    /\ pc = "seed" /\ seeds = <<>>
    /\ pc' = "serve"
    /\ UNCHANGED <<schema, recorded, apps, release, executed, current, at, seeds, crashes, history>>

-----------------------------------------------------------------------------
\* HandleAdminSave of a new app and HandleAdminDelete, while the process serves.
Save(a) ==
    /\ pc = "serve" /\ a \notin apps
    /\ apps' = apps \cup {a}
    /\ UNCHANGED <<schema, recorded, release, process, crashes, history>>

Delete(a) ==
    /\ pc = "serve" /\ a \in apps
    /\ apps' = apps \ {a}
    /\ partly' = TRUE
    /\ UNCHANGED <<schema, recorded, release, process, crashes, half, failed>>

\* The process dies or is stopped, perhaps for a new release.
Crash(next) ==
    /\ pc # "down"
    /\ crashes < MaxCrashes
    /\ crashes' = crashes + 1
    /\ next \in {release, release + 1} \cap DOMAIN Releases
    /\ release' = next
    /\ half' = IF at > 1 THEN half \cup {current} ELSE half
    /\ partly' = (partly \/ (pc = "seed" /\ seeds # <<>> /\ apps # {}))
    /\ Ended
    /\ UNCHANGED <<schema, recorded, apps, failed>>

Next ==
    \/ Start \/ NextMigration \/ Run \/ Fail \/ Migrated \/ Seed \/ Serve
    \/ \E a \in Apps : Save(a) \/ Delete(a)
    \/ \E next \in DOMAIN Releases : Crash(next)

(* systemd restarts the process, and New goes on by itself. *)
Fairness == WF_vars(Start \/ NextMigration \/ Run \/ Fail \/ Migrated \/ Seed \/ Serve)

Spec == Init /\ [][Next]_vars /\ Fairness

-----------------------------------------------------------------------------
(* The migration records tell the truth after any crash: what is recorded    *)
(* exists in the schema with all of its tables and columns, and no migration *)
(* is recorded before all earlier ones are.                                  *)
RecordsTrue ==
    \A n \in recorded : Objects(n) \subseteq schema /\ 1..n \subseteq recorded

(* No request is served, and no app seeded, on a schema that lacks a         *)
(* migration of the installed release.                                       *)
ServedSchemaComplete ==
    pc \in {"seed", "serve"} => 1..Releases[release] \subseteq recorded

(* A start fails only where an earlier one was cut off within the very same   *)
(* migration: a start after a clean stop or a crash elsewhere goes through.   *)
(* Once it has failed the migration can never be completed by restarting.    *)
FailsWhereCutOff ==
    [][failed' # failed => failed' \subseteq half /\ current \notin recorded]_vars

(* Every start leads to serving, however often the process died before,      *)
(* unless a migration has failed.                                            *)
StartServes == pc = "down" ~> (pc = "serve" \/ failed # {})

(* Unless seedApps was cut off between two apps or could not create one, all *)
(* apps of the showcase are there when the process serves, until the owner   *)
(* deletes one; what was cut off is not made up for.                         *)
SeededWhole == pc = "serve" /\ ~partly => Seeded \subseteq apps
=============================================================================
