------------------------------- MODULE Update -------------------------------
(***************************************************************************)
(* The versioned installation and its update: the version pointer, the     *)
(* version directories, the database with its schema and its backups, the  *)
(* one running application, the launcher, the update service inside the    *)
(* application and the updater, a process of its own that outlives the     *)
(* application which has started it (release/updater.py,                   *)
(* database_upgrade.py, launcher.py, update_service.py).  Every step of    *)
(* the updater may fail, and the updater, the machine or the user may stop *)
(* or start anything between two steps.                                    *)
(***************************************************************************)
EXTENDS Naturals, FiniteSets

CONSTANTS
    Versions,   \* releases, ordered as their version numbers are
    Schema,     \* version -> number of the migration that is its head
    Carries,    \* versions whose directory holds an updater of its own
    Updaters,   \* updater processes
    MaxWork,    \* bound: how often the user changes the database
    NoVersion

ASSUME VersionsAssumption == Versions \subseteq Nat /\ IsFiniteSet(Versions)
ASSUME FirstAssumption == \E v \in Versions : \A w \in Versions : v <= w
ASSUME SchemaAssumption ==
    /\ Schema \in [Versions -> Nat]
    /\ \A v, w \in Versions : v < w => Schema[v] <= Schema[w]
ASSUME NoVersionAssumption == NoVersion \notin Versions
ASSUME MaxWorkAssumption == MaxWork \in Nat

VARIABLES
    pointer,    \* current.json
    complete,   \* the directories under versions/
    db,         \* dahe.sqlite3
    backups,    \* the published copies under backups/
    app,        \* the process that holds the mutex of the data directory
    spawned,    \* versions whose process has started and has no mutex yet
    service,    \* update-status.json, available-manifest.json and the import
    up,         \* the updaters
    done,       \* how often the user has changed the database
    kept        \* what the database held when the application left

vars == <<pointer, complete, db, backups, app, spawned, service, up, done, kept>>

First == CHOOSE v \in Versions : \A w \in Versions : v <= w
MaybeVersion == Versions \cup {NoVersion}
Database == [schema: Nat, half: BOOLEAN, work: SUBSET (1..MaxWork)]

\* Where an updater is.  "refused" ended before its try block, "broken" inside
\* its exception handler; neither writes a result.  "gone" was killed.
Working == {"staging", "waiting", "placing", "backing", "migrating", "midway",
            "pointing", "launching", "awaiting", "reporting"}
Handling == {"failing", "restoring", "relaunching", "reawaiting", "apologizing"}
Ended == {"refused", "succeeded", "failed", "broken", "gone"}

TypeOK ==
    /\ pointer \in Versions
    /\ complete \subseteq Versions
    /\ db \in Database
    /\ backups \subseteq Database
    /\ app \in [version: MaybeVersion,
                life: {"off", "booting", "migrating", "open", "ready"}]
    /\ app.life = "off" <=> app.version = NoVersion
    /\ spawned \subseteq Versions
    /\ service \in [by: MaybeVersion, offer: MaybeVersion,
                    manifest: MaybeVersion, file: MaybeVersion]
    /\ up \in [Updaters -> [pc: {"idle", "launched"} \cup Working \cup Handling \cup Ended,
                            own: BOOLEAN, waits: BOOLEAN, file: MaybeVersion,
                            from: MaybeVersion, to: MaybeVersion,
                            stopped: BOOLEAN, backup: Database,
                            migrated: BOOLEAN, switched: BOOLEAN]]
    /\ done \in 0..MaxWork
    /\ kept \subseteq 1..done

-----------------------------------------------------------------------------
(***************************************************************************)
(* The database.  A revision is several statements that SQLite commits one *)
(* by one, and then its number: a migration that stops leaves the schema   *)
(* between two revisions ("half") or at one that neither release knows.    *)
(***************************************************************************)

\* A release opens the database at its own head, or migrates up to it; it
\* refuses a revision that it does not know, and it cannot repeat the
\* statements of a half-applied revision.
Opens(v, d) == d.schema = Schema[v] \/ (d.schema < Schema[v] /\ ~d.half)

\* What a migration does next.
NextRevision(d) == IF d.half THEN [d EXCEPT !.schema = @ + 1, !.half = FALSE]
                             ELSE [d EXCEPT !.half = TRUE]

IsOpen == app.life \in {"migrating", "open", "ready"}

-----------------------------------------------------------------------------
(***************************************************************************)
(* The application and the launcher.                                       *)
(***************************************************************************)

\* Seeded fault: any application that is ready will do.
ServesAny(v) == app.life = "ready"

Serves(v) == app.life = "ready" /\ app.version = v

\* Seeded fault: the launcher starts the version on offer.
SpawnedOffered == IF Serves(pointer) THEN spawned ELSE spawned \cup {service.offer}

\* run_launcher: a version that already answers is only shown, otherwise its
\* process is started.
Spawned == IF Serves(pointer) THEN spawned ELSE spawned \cup {pointer}

UserStarts ==
    /\ ~Serves(pointer)
    /\ spawned' = Spawned
    /\ UNCHANGED <<pointer, complete, db, backups, app, service, up, done, kept>>

\* The update service of a version reads only the status that this version
\* has written, and an import only if it is the one on offer.
Loaded(v) ==
    LET offer == IF service.by = v THEN service.offer ELSE NoVersion
    IN [service EXCEPT !.by = v, !.offer = offer,
                       !.file = IF offer = @ THEN @ ELSE NoVersion]

\* SingleInstanceGuard: the second process of a data directory ends.
TakesMutex(v) ==
    /\ v \in spawned
    /\ spawned' = spawned \ {v}
    /\ IF app.life = "off"
       THEN /\ app' = [version |-> v, life |-> "booting"]
            /\ service' = Loaded(v)
       ELSE UNCHANGED <<app, service>>
    /\ UNCHANGED <<pointer, complete, db, backups, up, done, kept>>

\* A process that has not come so far dies, or its launcher terminates it.
SpawnDies(v) ==
    /\ v \in spawned
    /\ spawned' = spawned \ {v}
    /\ UNCHANGED <<pointer, complete, db, backups, app, service, up, done, kept>>

\* SqliteRuntime: at its own head the application opens the database; below
\* it, the application backs it up and migrates.
AppOpens ==
    /\ app.life = "booting"
    /\ Opens(app.version, db)
    /\ IF db.schema = Schema[app.version]
       THEN app' = [app EXCEPT !.life = "open"] /\ UNCHANGED <<db, backups>>
       ELSE /\ app' = [app EXCEPT !.life = "migrating"]
            /\ backups' = backups \cup {db}
            /\ db' = NextRevision(db)
    /\ UNCHANGED <<pointer, complete, spawned, service, up, done, kept>>

AppMigrates ==
    /\ app.life = "migrating"
    /\ IF db.schema = Schema[app.version]
       THEN app' = [app EXCEPT !.life = "open"] /\ UNCHANGED db
       ELSE db' = NextRevision(db) /\ UNCHANGED app
    /\ UNCHANGED <<pointer, complete, backups, spawned, service, up, done, kept>>

AppReady ==
    /\ app.life = "open"
    /\ app' = [app EXCEPT !.life = "ready"]
    /\ UNCHANGED <<pointer, complete, db, backups, spawned, service, up, done, kept>>

\* An updater has copied the database and is not done with it.
InHand(u) ==
    up[u].pc \in {"migrating", "midway", "pointing", "launching", "awaiting",
                  "reporting", "failing", "restoring"}

\* The application leaves for an update, and its database is its own: no other
\* updater has copied it or left it at a schema that the application does not
\* know (a user can start the old version again while an updater works).
LeavesInOrder ==
    /\ \E u \in Updaters : up[u].waits
    /\ \A u \in Updaters : InHand(u) => up[u].waits
    /\ Opens(app.version, db)

\* The application ends: it refuses the database, its migration fails, the
\* user or the update has asked it to, its watchdog or its launcher stops it,
\* it crashes.  An updater that waits for it may go on.
AppEnds ==
    /\ app.life # "off"
    /\ app' = [version |-> NoVersion, life |-> "off"]
    /\ up' = [u \in Updaters |-> [up[u] EXCEPT !.waits = FALSE]]
    /\ kept' = IF LeavesInOrder THEN db.work ELSE kept
    /\ UNCHANGED <<pointer, complete, db, backups, spawned, service, done>>

UserWorks ==
    /\ app.life = "ready"
    /\ done < MaxWork
    /\ done' = done + 1
    /\ db' = [db EXCEPT !.work = @ \cup {done + 1}]
    /\ UNCHANGED <<pointer, complete, backups, app, spawned, service, up, kept>>

-----------------------------------------------------------------------------
(***************************************************************************)
(* The update service of a running application.                            *)
(***************************************************************************)

\* check: a newer release is offered and replaces an import; an older, an
\* equal or an unreachable one withdraws the offer.
Check ==
    /\ app.life = "ready"
    /\ \/ \E v \in Versions :
            /\ v > app.version
            /\ service' = [service EXCEPT !.offer = v, !.manifest = v, !.file = NoVersion]
       \/ service' = [service EXCEPT !.offer = NoVersion]
    /\ UNCHANGED <<pointer, complete, db, backups, app, spawned, up, done, kept>>

\* create_import and upload_import: the operator brings manifest and archive.
Import ==
    /\ app.life = "ready"
    /\ \E v \in Versions :
         /\ v > app.version
         /\ service' = [service EXCEPT !.offer = v, !.manifest = v, !.file = v]
    /\ UNCHANGED <<pointer, complete, db, backups, app, spawned, up, done, kept>>

\* install: starts the updater of the version's own directory if there is one.
\* The application serves on until its shutdown timer fires (AppEnds).
Install(u) ==
    /\ app.life = "ready"
    /\ service.offer # NoVersion
    /\ up[u].pc = "idle"
    /\ up' = [up EXCEPT ![u].pc = "launched", ![u].own = app.version \in Carries,
                        ![u].waits = TRUE, ![u].file = service.file]
    /\ service' = [service EXCEPT !.offer = NoVersion]
    /\ UNCHANGED <<pointer, complete, db, backups, app, spawned, done, kept>>

-----------------------------------------------------------------------------
(***************************************************************************)
(* The updater: UpdateInstaller.install.                                   *)
(***************************************************************************)

Idle == [pc |-> "idle", own |-> FALSE, waits |-> FALSE, file |-> NoVersion,
         from |-> NoVersion, to |-> NoVersion, stopped |-> FALSE,
         backup |-> [schema |-> 0, half |-> FALSE, work |-> {}],
         migrated |-> FALSE, switched |-> FALSE]

Goes(u, pc) == up' = [up EXCEPT ![u].pc = pc]

\* The process is gone, and what it knew with it.
Ends(u, pc) == up' = [up EXCEPT ![u] = [Idle EXCEPT !.pc = pc]]

\* The directory of the updater is taken for the installation: an updater in a
\* version's directory finds no pointer there.  A release that is not newer
\* than the pointer is refused as well.
Enters(u) ==
    /\ up[u].pc = "launched"
    /\ IF ~up[u].own /\ service.manifest > pointer
       THEN up' = [up EXCEPT ![u].pc = "staging", ![u].from = pointer,
                             ![u].to = service.manifest]
       ELSE Ends(u, "refused")
    /\ UNCHANGED <<pointer, complete, db, backups, app, spawned, service, done, kept>>

\* Download or import, extraction, identity, and the migration of a copy.
Stages(u) ==
    /\ up[u].pc = "staging"
    /\ up[u].file \in {NoVersion, up[u].to}
    /\ Opens(up[u].to, db)
    /\ Goes(u, "waiting")
    /\ UNCHANGED <<pointer, complete, db, backups, app, spawned, service, done, kept>>

\* Seeded fault: the updater does not wait for the application.
WaitsForNobody(u) ==
    /\ up[u].pc = "waiting"
    /\ up' = [up EXCEPT ![u].pc = "placing", ![u].stopped = TRUE]
    /\ UNCHANGED <<pointer, complete, db, backups, app, spawned, service, done, kept>>

\* process_waiter: the process that has started the updater is gone.
Waits(u) ==
    /\ up[u].pc = "waiting"
    /\ ~up[u].waits
    /\ up' = [up EXCEPT ![u].pc = "placing", ![u].stopped = TRUE]
    /\ UNCHANGED <<pointer, complete, db, backups, app, spawned, service, done, kept>>

\* Seeded fault: the tree stays where it was extracted.
PlacesNothing(u) ==
    /\ up[u].pc = "placing"
    /\ up[u].to \notin complete
    /\ Goes(u, "backing")
    /\ UNCHANGED <<pointer, complete, db, backups, app, spawned, service, done, kept>>

\* The verified tree is renamed into place; a directory of that name is left
\* alone.
Places(u) ==
    /\ up[u].pc = "placing"
    /\ up[u].to \notin complete
    /\ complete' = complete \cup {up[u].to}
    /\ Goes(u, "backing")
    /\ UNCHANGED <<pointer, db, backups, app, spawned, service, done, kept>>

\* create_pre_migration_backup publishes a copy by renaming it.
BacksUp(u) ==
    /\ up[u].pc = "backing"
    /\ db.schema <= Schema[up[u].to]
    /\ backups' = backups \cup {db}
    /\ up' = [up EXCEPT ![u].pc = "migrating", ![u].backup = db]
    /\ UNCHANGED <<pointer, complete, db, app, spawned, service, done, kept>>

\* SqliteRuntime of the new release on the formal database.
Migrates(u) ==
    LET to == up[u].to
    IN /\ up[u].pc = "midway" \/ (up[u].pc = "migrating" /\ Opens(to, db))
       /\ IF db.schema = Schema[to]
          THEN /\ up' = [up EXCEPT ![u].pc = "pointing", ![u].migrated = TRUE]
               /\ UNCHANGED <<db, backups>>
          ELSE /\ db' = NextRevision(db)
               /\ backups' = IF up[u].pc = "migrating" THEN backups \cup {db} ELSE backups
               /\ Goes(u, "midway")
    /\ UNCHANGED <<pointer, complete, app, spawned, service, done, kept>>

Points(u) ==
    /\ up[u].pc = "pointing"
    /\ pointer' = up[u].to
    /\ up' = [up EXCEPT ![u].pc = "launching", ![u].switched = TRUE]
    /\ UNCHANGED <<complete, db, backups, app, spawned, service, done, kept>>

\* launch_and_wait, in the try block and again in the handler.
Launches(u) ==
    /\ \/ up[u].pc = "launching" /\ Goes(u, "awaiting")
       \/ up[u].pc = "relaunching" /\ up[u].stopped /\ Goes(u, "reawaiting")
    /\ spawned' = Spawned
    /\ UNCHANGED <<pointer, complete, db, backups, app, service, done, kept>>

\* The launcher has seen the version that it has started.
Answers(u) ==
    /\ \/ up[u].pc = "awaiting" /\ Serves(up[u].to) /\ Goes(u, "reporting")
       \/ up[u].pc = "reawaiting" /\ Serves(pointer) /\ Goes(u, "apologizing")
    /\ UNCHANGED <<pointer, complete, db, backups, app, spawned, service, done, kept>>

Reports(u) ==
    /\ \/ up[u].pc = "reporting" /\ Ends(u, "succeeded")
       \/ up[u].pc = "apologizing" /\ Ends(u, "failed")
    /\ UNCHANGED <<pointer, complete, db, backups, app, spawned, service, done, kept>>

\* An exception in the try block: a check that does not hold, a full disk, a
\* locked database, a launcher that refuses or that 120 seconds do not suffice.
Fails(u) ==
    /\ up[u].pc \in Working
    /\ Goes(u, "failing")
    /\ UNCHANGED <<pointer, complete, db, backups, app, spawned, service, done, kept>>

\* Seeded fault: the handler leaves the pointer as it is.
PointsBackNever(u) ==
    /\ up[u].pc = "failing"
    /\ Goes(u, "restoring")
    /\ UNCHANGED <<pointer, complete, db, backups, app, spawned, service, done, kept>>

\* The handler puts the pointer back, whatever else it has done.
PointsBack(u) ==
    /\ up[u].pc = "failing"
    /\ pointer' = IF up[u].switched THEN up[u].from ELSE pointer
    /\ Goes(u, "restoring")
    /\ UNCHANGED <<complete, db, backups, app, spawned, service, done, kept>>

\* The backup comes back only if apply has returned it, if it has the schema of
\* the version that the updater has found, and if nobody has the database open
\* (an open file is not replaced on Windows).
Restores(u) ==
    /\ up[u].pc = "restoring"
    /\ IF ~up[u].migrated THEN Goes(u, "relaunching") /\ UNCHANGED db
       ELSE /\ up[u].backup.schema = Schema[up[u].from]
            /\ ~IsOpen
            /\ db' = up[u].backup
            /\ Goes(u, "relaunching")
    /\ UNCHANGED <<pointer, complete, backups, app, spawned, service, done, kept>>

\* Nothing is started for an application that was never stopped, or if the
\* launcher refuses at once.
SkipsLaunch(u) ==
    /\ up[u].pc = "relaunching"
    /\ Goes(u, "apologizing")
    /\ UNCHANGED <<pointer, complete, db, backups, app, spawned, service, done, kept>>

\* An exception in what the handler does, the second launcher's timeout included.
Breaks(u) ==
    /\ \/ up[u].pc = "failing" /\ up[u].switched
       \/ up[u].pc = "restoring" /\ up[u].migrated
       \/ up[u].pc = "relaunching" /\ up[u].stopped
       \/ up[u].pc \in {"reawaiting", "apologizing"}
    /\ Ends(u, "broken")
    /\ UNCHANGED <<pointer, complete, db, backups, app, spawned, service, done, kept>>

\* The updater is killed, or the machine stops; the application is another
\* process (AppEnds).
Crashes(u) ==
    /\ up[u].pc \in {"launched"} \cup Working \cup Handling
    /\ Ends(u, "gone")
    /\ UNCHANGED <<pointer, complete, db, backups, app, spawned, service, done, kept>>

-----------------------------------------------------------------------------
Init ==
    /\ pointer = First
    /\ complete = {First}
    /\ db = [schema |-> Schema[First], half |-> FALSE, work |-> {}]
    /\ backups = {}
    /\ app = [version |-> NoVersion, life |-> "off"]
    /\ spawned = {}
    /\ service = [by |-> NoVersion, offer |-> NoVersion,
                  manifest |-> NoVersion, file |-> NoVersion]
    /\ up = [u \in Updaters |-> Idle]
    /\ done = 0
    /\ kept = {}

Next ==
    \/ UserStarts
    \/ \E v \in Versions : TakesMutex(v) \/ SpawnDies(v)
    \/ AppOpens \/ AppMigrates \/ AppReady \/ AppEnds \/ UserWorks
    \/ Check \/ Import
    \/ \E u \in Updaters :
         \/ Install(u) \/ Enters(u) \/ Stages(u) \/ Waits(u) \/ Places(u)
         \/ BacksUp(u) \/ Migrates(u) \/ Points(u) \/ Launches(u)
         \/ Answers(u) \/ Reports(u)
         \/ Fails(u) \/ PointsBack(u) \/ Restores(u) \/ SkipsLaunch(u)
         \/ Breaks(u) \/ Crashes(u)

Spec == Init /\ [][Next]_vars

-----------------------------------------------------------------------------
\* The pointer always names a version whose verified directory is in place, so
\* that a machine that stops anywhere can start what the pointer names
\* (the order of rename and write_version_pointer_atomic, and the handler).
PointerComplete ==
    /\ pointer \in complete
    /\ app.life # "off" => app.version \in complete
    /\ spawned \subseteq complete

\* Whatever stops or fails, what the user had done when the application left
\* for the update is in a database that the version of the pointer opens: the
\* database itself, or a published backup (apply makes its backup first, and
\* the handler restores nothing older).
Recoverable ==
    \E d \in {db} \cup backups : Opens(pointer, d) /\ kept \subseteq d.work

\* An update counts as successful only if the pointer, the application that
\* answers and the database it has open are all the new version's, although the
\* old version may have been started again meanwhile.
SuccessIsWhole ==
    [][\A u \in Updaters :
         up[u].pc = "awaiting" /\ up'[u].pc = "reporting" =>
             /\ pointer' = up[u].to
             /\ app'.version = up[u].to
             /\ db'.schema = Schema[up[u].to]]_vars

\* When the handler puts a backup back, the pointer names the old version again,
\* the database has its schema, and nothing is missing of what the user had
\* done when the application left.
RestoreIsWhole ==
    [][\A u \in Updaters :
         up[u].pc = "restoring" /\ up'[u].pc = "relaunching" /\ up[u].migrated =>
             /\ pointer' = up[u].from
             /\ db'.schema = Schema[up[u].from]
             /\ kept \subseteq db'.work]_vars

\* ADR-067: a failed update leaves a version that can open its database.
FailureLeavesUsable ==
    \A u \in Updaters : up[u].pc \in {"failed", "broken"} => Opens(pointer, db)
=============================================================================
