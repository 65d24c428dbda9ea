--------------------------- MODULE Startup_proofs ---------------------------
(***************************************************************************)
(* Proofs about Startup, for any migrations that record themselves last    *)
(* and add each column once, any releases and any number of crashes.       *)
(***************************************************************************)
EXTENDS Startup, TLAPS

USE DEF Migrations

(* Shapes of the constants that every step needs: a release brings at least *)
(* one migration, and each migration has at least one statement.            *)
LEMMA Shapes ==
    /\ \A i \in DOMAIN Releases :
          Releases[i] \in Nat \ {0} /\ 1..Releases[i] \subseteq Migrations
    /\ \A n \in Migrations : n \in Nat \ {0} /\ 1..n \subseteq Migrations
    /\ \A n \in Migrations :
          Len(Script[n]) \in Nat \ {0} /\ DOMAIN Script[n] = 1..Len(Script[n])
    /\ 1 \in DOMAIN Releases
<1>1. /\ Script \in Seq(Seq(Statement))
      /\ \A n \in Migrations : Script[n] # <<>>
  BY ScriptAssumption DEF ScriptAssumption
<1>2. Releases \in Seq(Migrations) /\ Releases # <<>>
  BY ReleasesAssumption DEF ReleasesAssumption
<1>3. Migrations = 1..Len(Script) /\ Len(Script) \in Nat
  BY <1>1
<1>4. \A n \in Migrations : Script[n] \in Seq(Statement)
  BY <1>1
<1>5. \A n \in Migrations :
        Len(Script[n]) \in Nat \ {0} /\ DOMAIN Script[n] = 1..Len(Script[n])
  BY <1>1, <1>4
<1>6. \A n \in Migrations : n \in Nat \ {0} /\ 1..n \subseteq Migrations
  BY <1>3
<1>7. \A i \in DOMAIN Releases : Releases[i] \in Migrations
  BY <1>2
<1>8. 1 \in DOMAIN Releases
  BY <1>2
<1>9. QED
  BY <1>5, <1>6, <1>7, <1>8

(* The last statement of a migration, and only that, is its record. *)
LEMMA RecordIsLast ==
    \A n \in Migrations : \A i \in 1..Len(Script[n]) :
        (Script[n][i].op = "record") <=> (i = Len(Script[n]))
  BY Shapes, ScriptAssumption DEF ScriptAssumption

-----------------------------------------------------------------------------
(* The initial state has its types. *)
LEMMA InitType == Init => TypeOK
<1> SUFFICES ASSUME Init PROVE TypeOK
  OBVIOUS
<1>1. release \in DOMAIN Releases /\ current \in 0..Releases[release]
  BY Shapes DEF Init
<1>2. at \in 0..(IF current = 0 THEN 0 ELSE Len(Script[current]))
  BY DEF Init
<1>3. seeds \in Seq(Seeded) /\ crashes \in 0..MaxCrashes
  BY BoundsAssumption DEF Init, BoundsAssumption
<1>4. QED
  BY <1>1, <1>2, <1>3 DEF Init, TypeOK

(* Every step keeps the types. *)
LEMMA TypeStep == TypeOK /\ [Next]_vars => TypeOK'
<1> SUFFICES ASSUME TypeOK, [Next]_vars PROVE TypeOK'
  OBVIOUS
<1> USE Shapes
<1>1. CASE Start
  BY <1>1 DEF Start, TypeOK, history
<1>2. CASE NextMigration
  <2>1. current' \in 1..Releases[release] /\ current' \in Migrations
    BY <1>2 DEF NextMigration, TypeOK
  <2>2. at' \in 0..Len(Script[current'])
    BY <1>2, <2>1 DEF NextMigration
  <2>3. QED
    BY <1>2, <2>1, <2>2 DEF NextMigration, TypeOK, history
<1>3. CASE Run
  <2>1. /\ current \in Migrations /\ at \in 1..Len(Script[current])
        /\ current # 0
    BY <1>3 DEF Run, TypeOK
  <2>2. schema' \in SUBSET UNION {Objects(n) : n \in Migrations}
    <3>1. CASE UNCHANGED schema
      BY <3>1 DEF TypeOK
    <3>2. CASE /\ Script[current][at].op # "record"
               /\ schema' = schema \cup {Script[current][at].object}
      <4>1. at \in 1..(Len(Script[current]) - 1)
        BY <2>1, <3>2, RecordIsLast
      <4>2. Script[current][at].object \in Objects(current)
        BY <4>1 DEF Objects
      <4>3. QED
        BY <2>1, <3>2, <4>2 DEF TypeOK
    <3>3. QED
      BY <1>3, <3>1, <3>2 DEF Run
  <2>3. recorded' \in SUBSET Migrations
    BY <1>3, <2>1 DEF Run, TypeOK
  <2>4. at' \in 0..Len(Script[current])
    BY <1>3, <2>1 DEF Run
  <2>5. UNCHANGED <<apps, release, pc, executed, current, seeds, crashes, half, failed, partly>>
    BY <1>3 DEF Run, history
  <2>6. QED
    BY <2>1, <2>2, <2>3, <2>4, <2>5 DEF TypeOK
<1>4. CASE Fail
  <2>1. current \in Migrations
    BY <1>4 DEF Fail, TypeOK
  <2>2. /\ pc' = "down" /\ executed' = {} /\ current' = 0 /\ at' = 0
        /\ seeds' = <<>>
        /\ UNCHANGED <<schema, recorded, apps, release, crashes, half, partly>>
    BY <1>4 DEF Fail, Ended
  <2>3. failed' \in SUBSET Migrations
    BY <1>4, <2>1 DEF Fail, TypeOK
  <2>4. QED
    BY <2>1, <2>2, <2>3 DEF TypeOK
<1>5. CASE Migrated
  BY <1>5, SeedAssumption DEF Migrated, TypeOK, history, SeedAssumption
<1>6. CASE Seed
  <2>1. Head(seeds) \in Seeded /\ Tail(seeds) \in Seq(Seeded)
    BY <1>6 DEF Seed, TypeOK
  <2>2. QED
    BY <1>6, <2>1 DEF Seed, TypeOK, Apps
<1>7. CASE Serve
  BY <1>7 DEF Serve, TypeOK, history
<1>8. ASSUME NEW a \in Apps, Save(a) \/ Delete(a) PROVE TypeOK'
  BY <1>8 DEF Save, Delete, TypeOK, process, history
<1>9. ASSUME NEW next \in DOMAIN Releases, Crash(next) PROVE TypeOK'
  <2>1. /\ pc' = "down" /\ executed' = {} /\ current' = 0 /\ at' = 0
        /\ seeds' = <<>>
        /\ UNCHANGED <<schema, recorded, apps, failed>>
    BY <1>9 DEF Crash, Ended
  <2>2. release' \in DOMAIN Releases /\ crashes' \in 0..MaxCrashes
    BY <1>9, BoundsAssumption DEF Crash, TypeOK, BoundsAssumption
  <2>3. half' \in SUBSET Migrations /\ failed' \in SUBSET Migrations
    BY <1>9, <2>1 DEF Crash, TypeOK
  <2>4. partly' \in BOOLEAN
    BY <1>9 DEF Crash, TypeOK
  <2>5. QED
    BY <2>1, <2>2, <2>3, <2>4 DEF TypeOK
<1>10. CASE UNCHANGED vars
  BY <1>10 DEF TypeOK, vars, process, history
<1>11. QED
  BY <1>1, <1>2, <1>3, <1>4, <1>5, <1>6, <1>7, <1>8, <1>9, <1>10 DEF Next

(* The type invariant holds for all scripts and releases. *)
THEOREM TypeCorrect == Spec => []TypeOK
  BY InitType, TypeStep, PTL DEF Spec

-----------------------------------------------------------------------------
(* Where the loop of RunMigrations stands: what lies behind it is recorded, *)
(* the statements of the current file that were run have had their effect,  *)
(* and nothing has been recorded since the start but what it came past.     *)
LoopInv ==
    /\ executed \subseteq recorded
    /\ pc # "migrate" => at = 0
    /\ pc = "down" => current = 0
    /\ pc = "migrate" =>
         /\ \A n \in Migrations : n < current => n \in recorded
         /\ at = 0 /\ current # 0 => current \in recorded
         /\ at # 0 => /\ current # 0 /\ current \notin recorded
                      /\ \A i \in 1..(at - 1) : Script[current][i].object \in schema
         /\ \A n \in recorded : n \in executed \/ n <= current

(* Whose the columns are that exist: of a recorded migration, of one that   *)
(* was cut off, or of the current one and already added by this start.      *)
ColumnsInv ==
    /\ failed \subseteq half
    /\ \A n \in Migrations : \A i \in 1..(Len(Script[n]) - 1) :
          Script[n][i].op = "alter" /\ Script[n][i].object \in schema
            => \/ n \in recorded
               \/ n \in half
               \/ pc = "migrate" /\ current = n /\ i < at

StartupInv == TypeOK /\ LoopInv /\ RecordsTrue /\ ServedSchemaComplete /\ ColumnsInv

(* The lemma of the failing start: the column that exists already can only   *)
(* come from an earlier start that was cut off within this migration.        *)
LEMMA FailedWasCutOff ==
    StartupInv /\ Fail => current \in half /\ current \notin recorded
<1> SUFFICES ASSUME StartupInv, Fail PROVE current \in half /\ current \notin recorded
  OBVIOUS
<1> USE Shapes
<1>1. /\ pc = "migrate" /\ at # 0
      /\ Script[current][at].op = "alter" /\ Script[current][at].object \in schema
  BY DEF Fail
<1>2. current \in Migrations /\ at \in 1..Len(Script[current])
  BY <1>1 DEF StartupInv, TypeOK
<1>3. at \in 1..(Len(Script[current]) - 1)
  BY <1>1, <1>2, RecordIsLast
<1>4. current \notin recorded
  BY <1>1 DEF StartupInv, LoopInv
<1>5. QED
  BY <1>1, <1>2, <1>3, <1>4 DEF StartupInv, ColumnsInv

(* The first start finds an empty database. *)
LEMMA InitStartup == Init => StartupInv
  BY InitType DEF Init, StartupInv, LoopInv, RecordsTrue, ServedSchemaComplete, ColumnsInv

(* Every step keeps the invariant: only NextMigration, Run and Crash disturb *)
(* more than a conjunct of it.                                               *)
LEMMA StepStartup == StartupInv /\ [Next]_vars => StartupInv'
<1> SUFFICES ASSUME StartupInv, [Next]_vars PROVE StartupInv'
  OBVIOUS
<1> USE Shapes
<1>0. TypeOK /\ TypeOK'
  BY TypeStep DEF StartupInv
<1>1. CASE Start
  <2>1. /\ UNCHANGED <<schema, recorded, release, current, at, half, failed>>
        /\ pc = "down" /\ pc' = "migrate" /\ executed' = recorded
    BY <1>1 DEF Start, history
  <2>2. at = 0 /\ current = 0
    BY <2>1 DEF StartupInv, LoopInv
  <2>3. LoopInv'
    BY <2>1, <2>2 DEF LoopInv
  <2>4. QED
    BY <1>0, <2>1, <2>2, <2>3 DEF StartupInv, RecordsTrue, ServedSchemaComplete, ColumnsInv
<1>2. CASE NextMigration
  <2>1. /\ UNCHANGED <<schema, recorded, release, pc, executed, half, failed>>
        /\ pc = "migrate" /\ at = 0 /\ current' = current + 1
        /\ at' = IF current' \in executed THEN 0 ELSE 1
    BY <1>2 DEF NextMigration, history
  <2>2. current \in Nat /\ executed \subseteq Migrations /\ recorded \subseteq Migrations
    BY <1>0 DEF TypeOK
  <2>3. LoopInv'
    BY <2>1, <2>2 DEF StartupInv, LoopInv
  <2>4. RecordsTrue' /\ ServedSchemaComplete'
    BY <2>1 DEF StartupInv, RecordsTrue, ServedSchemaComplete
  <2>5. ColumnsInv'
    BY <2>1 DEF StartupInv, ColumnsInv
  <2>6. QED
    BY <1>0, <2>3, <2>4, <2>5 DEF StartupInv
<1>3. CASE Run
  <2>0. /\ pc = "migrate" /\ at # 0
        /\ UNCHANGED <<release, pc, executed, current, half, failed>>
        /\ at' = IF at = Len(Script[current]) THEN 0 ELSE at + 1
    BY <1>3 DEF Run, history
  <2>1. /\ current \in Migrations /\ at \in 1..Len(Script[current]) /\ current # 0
        /\ recorded \subseteq Migrations
    BY <1>0, <2>0 DEF TypeOK
  <2>2. CASE at = Len(Script[current])
    <3>1. recorded' = recorded \cup {current} /\ schema' = schema /\ at' = 0
      BY <1>3, <2>0, <2>1, <2>2, RecordIsLast DEF Run
    <3>2. Objects(current) \subseteq schema
      BY <2>0, <2>1, <2>2 DEF StartupInv, LoopInv, Objects
    <3>3. 1..current \subseteq recorded'
      BY <2>0, <2>1, <3>1 DEF StartupInv, LoopInv
    <3>4. RecordsTrue'
      BY <3>1, <3>2, <3>3 DEF StartupInv, RecordsTrue
    <3>5. LoopInv'
      BY <2>0, <2>1, <3>1 DEF StartupInv, LoopInv
    <3>6. ServedSchemaComplete' /\ ColumnsInv'
      BY <2>0, <2>1, <3>1 DEF StartupInv, ServedSchemaComplete, ColumnsInv
    <3>7. QED
      BY <1>0, <3>4, <3>5, <3>6 DEF StartupInv
  <2>3. CASE at # Len(Script[current])
    <3>1. /\ schema' = schema \cup {Script[current][at].object}
          /\ recorded' = recorded /\ at' = at + 1
          /\ at \in 1..(Len(Script[current]) - 1)
      BY <1>3, <2>0, <2>1, <2>3, RecordIsLast DEF Run
    <3>2. RecordsTrue' /\ ServedSchemaComplete'
      BY <2>0, <3>1 DEF StartupInv, RecordsTrue, ServedSchemaComplete
    <3>3. LoopInv'
      <4>1. \A i \in 1..(at' - 1) : Script[current][i].object \in schema'
        BY <2>0, <2>1, <3>1 DEF StartupInv, LoopInv
      <4>2. QED
        BY <2>0, <2>1, <3>1, <4>1 DEF StartupInv, LoopInv
    <3>4. ColumnsInv'
      <4> SUFFICES ASSUME NEW n \in Migrations, NEW i \in 1..(Len(Script[n]) - 1),
                          Script[n][i].op = "alter", Script[n][i].object \in schema'
                   PROVE  \/ n \in recorded' \/ n \in half'
                          \/ pc' = "migrate" /\ current' = n /\ i < at'
        BY <2>0 DEF StartupInv, ColumnsInv
      <4>1. CASE Script[n][i].object \in schema
        BY <2>0, <2>1, <3>1, <4>1 DEF StartupInv, ColumnsInv
      <4>2. CASE Script[n][i].object = Script[current][at].object
        <5>1. n = current /\ i = at
          BY <2>1, <3>1, <4>2, ScriptAssumption DEF ScriptAssumption
        <5>2. QED
          BY <2>0, <2>1, <3>1, <5>1
      <4>3. QED
        BY <3>1, <4>1, <4>2
    <3>5. QED
      BY <1>0, <3>2, <3>3, <3>4 DEF StartupInv
  <2>4. QED
    BY <2>2, <2>3
<1>4. CASE Fail
  <2>1. /\ pc = "migrate" /\ at # 0 /\ pc' = "down" /\ at' = 0 /\ executed' = {}
        /\ current' = 0
        /\ UNCHANGED <<schema, recorded, half>>
        /\ failed' = failed \cup {current}
    BY <1>4 DEF Fail, Ended
  <2>2. current \in half
    BY <1>0, <1>4, FailedWasCutOff DEF StartupInv
  <2>3. ColumnsInv'
    <3>1. failed' \subseteq half'
      BY <2>1, <2>2 DEF StartupInv, ColumnsInv
    <3>2. \A n \in Migrations : current = n => n \in half'
      BY <2>1, <2>2
    <3>3. QED
      BY <2>1, <3>1, <3>2 DEF StartupInv, ColumnsInv
  <2>4. QED
    BY <1>0, <2>1, <2>3 DEF StartupInv, LoopInv, RecordsTrue, ServedSchemaComplete
<1>5. CASE Migrated
  <2>1. /\ UNCHANGED <<schema, recorded, release, executed, current, at, half, failed>>
        /\ pc = "migrate" /\ at = 0 /\ pc' \in {"seed", "serve"}
        /\ current = Releases[release]
    BY <1>5 DEF Migrated, history
  <2>2. 1..Releases[release] \subseteq recorded
    BY <1>0, <2>1 DEF StartupInv, LoopInv, TypeOK
  <2>3. ServedSchemaComplete' /\ RecordsTrue'
    BY <2>1, <2>2 DEF StartupInv, ServedSchemaComplete, RecordsTrue
  <2>4. LoopInv'
    BY <2>1 DEF StartupInv, LoopInv
  <2>5. ColumnsInv'
    BY <2>1 DEF StartupInv, ColumnsInv
  <2>6. QED
    BY <1>0, <2>3, <2>4, <2>5 DEF StartupInv
<1>6. CASE Seed \/ Serve
  <2>1. /\ UNCHANGED <<schema, recorded, release, executed, current, at, half, failed>>
        /\ pc = "seed" /\ pc' \in {"seed", "serve"}
    BY <1>6 DEF Seed, Serve, history
  <2>2. QED
    BY <1>0, <2>1 DEF StartupInv, LoopInv, RecordsTrue, ServedSchemaComplete, ColumnsInv
<1>7. ASSUME NEW a \in Apps, Save(a) \/ Delete(a) PROVE StartupInv'
  <2>1. UNCHANGED <<schema, recorded, release, pc, executed, current, at, half, failed>>
    BY <1>7 DEF Save, Delete, process, history
  <2>2. QED
    BY <1>0, <2>1 DEF StartupInv, LoopInv, RecordsTrue, ServedSchemaComplete, ColumnsInv
<1>8. ASSUME NEW next \in DOMAIN Releases, Crash(next) PROVE StartupInv'
  <2>1. /\ pc' = "down" /\ at' = 0 /\ executed' = {}
        /\ current' = 0
        /\ UNCHANGED <<schema, recorded, failed>>
        /\ half' = IF at > 1 THEN half \cup {current} ELSE half
    BY <1>8 DEF Crash, Ended
  <2>2. ColumnsInv'
    <3>1. at \in Nat
      BY <1>0 DEF TypeOK
    <3>2. half \subseteq half' /\ (at > 1 => current \in half')
      BY <2>1
    <3>3. QED
      BY <2>1, <3>1, <3>2 DEF StartupInv, ColumnsInv
  <2>3. QED
    BY <1>0, <2>1, <2>2 DEF StartupInv, LoopInv, RecordsTrue, ServedSchemaComplete
<1>9. CASE UNCHANGED vars
  BY <1>0, <1>9 DEF StartupInv, LoopInv, RecordsTrue, ServedSchemaComplete, ColumnsInv, vars, process, history
<1>10. QED
  BY <1>1, <1>2, <1>3, <1>4, <1>5, <1>6, <1>7, <1>8, <1>9 DEF Next

(* The inductive invariant holds. *)
THEOREM StartupCorrect == Spec => []StartupInv
  BY InitStartup, StepStartup, PTL DEF Spec

(* What is recorded is in the schema, in order and without a gap. *)
THEOREM RecordsTrueCorrect == Spec => []RecordsTrue
  BY StartupCorrect, PTL DEF StartupInv

(* Nothing is served on a schema that lacks a migration. *)
THEOREM ServedSchemaCompleteCorrect == Spec => []ServedSchemaComplete
  BY StartupCorrect, PTL DEF StartupInv

(* Only a migration that was cut off itself makes a start fail. *)
THEOREM FailsWhereCutOffCorrect == Spec => FailsWhereCutOff
<1>1. StartupInv /\ StartupInv' /\ [Next]_vars
        => [failed' # failed => failed' \subseteq half /\ current \notin recorded]_vars
  <2> SUFFICES ASSUME StartupInv, StartupInv', Next, failed' # failed
               PROVE  failed' \subseteq half /\ current \notin recorded
    BY DEF vars, history
  <2>1. Fail
    BY DEF Next, Start, NextMigration, Run, Migrated, Seed, Serve, Save, Delete, Crash, history
  <2>2. current \in half /\ current \notin recorded
    BY <2>1, FailedWasCutOff
  <2>3. QED
    BY <2>1, <2>2 DEF Fail, StartupInv, ColumnsInv
<1>2. QED
  BY <1>1, StartupCorrect, PTL DEF Spec, FailsWhereCutOff

-----------------------------------------------------------------------------
(* Which apps of the showcase there are: as long as nothing was cut off, all *)
(* or none, and while they are created the missing ones are still to come.  *)
SeedInv ==
    ~partly =>
        /\ pc = "seed" => \A a \in Seeded : a \in apps \/ \E i \in DOMAIN seeds : seeds[i] = a
        /\ pc = "serve" => Seeded \subseteq apps
        /\ pc # "seed" /\ apps # {} => Seeded \subseteq apps

(* The seeds that are left are a sequence, and none are left while it serves. *)
LEMMA StepSeed == TypeOK /\ SeedInv /\ [Next]_vars => SeedInv'
<1> SUFFICES ASSUME TypeOK, SeedInv, [Next]_vars, ~partly' PROVE SeedInv'
  BY DEF SeedInv
<1>1. CASE Start \/ NextMigration \/ Run
  BY <1>1 DEF Start, NextMigration, Run, SeedInv, history
<1>2. CASE Fail
  BY <1>2 DEF Fail, Ended, SeedInv
<1>3. CASE Migrated
  <2>1. CASE apps = {} /\ pc' = "seed" /\ seeds' = SeedData
    <3>1. \A a \in Seeded : \E i \in DOMAIN SeedData : SeedData[i] = a
      BY DEF Seeded
    <3>2. QED
      BY <1>3, <2>1, <3>1 DEF Migrated, SeedInv
  <2>2. CASE apps # {} /\ pc' = "serve"
    BY <1>3, <2>2 DEF Migrated, SeedInv, history
  <2>3. QED
    BY <1>3, <2>1, <2>2 DEF Migrated
<1>4. CASE Seed
  <2>1. /\ pc = "seed" /\ pc' = "seed" /\ seeds # <<>> /\ ~partly
        /\ apps' = apps \cup {Head(seeds)} /\ seeds' = Tail(seeds)
    BY <1>4 DEF Seed, TypeOK
  <2>2. seeds \in Seq(Seeded)
    BY DEF TypeOK
  <2>3. ASSUME NEW a \in Seeded, a \notin apps'
        PROVE  \E i \in DOMAIN seeds' : seeds'[i] = a
    <3>1. PICK i \in DOMAIN seeds : seeds[i] = a
      BY <2>1, <2>3 DEF SeedInv
    <3>2. i # 1
      BY <2>1, <2>2, <2>3, <3>1
    <3>3. i - 1 \in DOMAIN Tail(seeds) /\ Tail(seeds)[i - 1] = a
      BY <2>1, <2>2, <3>1, <3>2
    <3>4. QED
      BY <2>1, <3>3
  <2>4. QED
    BY <2>1, <2>3 DEF SeedInv
<1>5. CASE Serve
  <2>1. UNCHANGED apps /\ seeds = <<>> /\ pc = "seed" /\ pc' = "serve" /\ ~partly
    BY <1>5 DEF Serve, history
  <2>2. DOMAIN seeds = {}
    BY <2>1
  <2>3. QED
    BY <2>1, <2>2 DEF SeedInv
<1>6. ASSUME NEW a \in Apps, Save(a) PROVE SeedInv'
  BY <1>6 DEF Save, process, history, SeedInv
<1>7. ASSUME NEW a \in Apps, Delete(a) PROVE SeedInv'
  BY <1>7 DEF Delete
<1>8. ASSUME NEW next \in DOMAIN Releases, Crash(next) PROVE SeedInv'
  <2>1. /\ UNCHANGED apps /\ pc' = "down" /\ ~partly
        /\ ~(pc = "seed" /\ seeds # <<>> /\ apps # {})
    BY <1>8 DEF Crash, Ended, TypeOK
  <2>2. CASE pc = "seed" /\ seeds = <<>>
    <3>1. DOMAIN seeds = {}
      BY <2>2
    <3>2. QED
      BY <2>1, <2>2, <3>1 DEF SeedInv
  <2>3. QED
    BY <2>1, <2>2 DEF SeedInv
<1>9. CASE UNCHANGED vars
  BY <1>9 DEF vars, process, history, SeedInv
<1>10. QED
  BY <1>1, <1>2, <1>3, <1>4, <1>5, <1>6, <1>7, <1>8, <1>9 DEF Next

(* Without a cut in the seeding the whole showcase is served. *)
THEOREM SeededWholeCorrect == Spec => []SeededWhole
<1>1. Init => SeedInv
  BY DEF Init, SeedInv
<1>2. SeedInv => SeededWhole
  BY DEF SeedInv, SeededWhole
<1>3. QED
  BY <1>1, <1>2, StepSeed, TypeCorrect, PTL DEF Spec
=============================================================================
