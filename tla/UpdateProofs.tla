---------------------------- MODULE UpdateProofs ----------------------------
(***************************************************************************)
(* What holds of Update for every set of versions, every schema history    *)
(* and every number of updaters: its types, that the version pointer never *)
(* names a directory that is not there, and that the database never loses  *)
(* what the user had done when the application left.  And what holds of    *)
(* one update, from a first release to a second: recovery, and that a      *)
(* success and a restored backup are whole.                                *)
(***************************************************************************)
EXTENDS Update, TLAPS

---------------------------------------------------------------------------
(* The inductive invariant.                                                *)

UpType == [pc: {"idle", "launched"} \cup Working \cup Handling \cup Ended,
           own: BOOLEAN, waits: BOOLEAN, file: MaybeVersion,
           from: MaybeVersion, to: MaybeVersion,
           stopped: BOOLEAN, backup: Database,
           migrated: BOOLEAN, switched: BOOLEAN]

Busy == Working \cup Handling

\* The updater has its directory in place and has not failed.
Placed == {"backing", "migrating", "midway", "pointing", "launching",
           "awaiting", "reporting"}

\* An offer is backed by a manifest, so that an updater knows its release.
ManifestKnown ==
    /\ service.offer # NoVersion => service.manifest \in Versions
    /\ \A u \in Updaters : up[u].pc = "launched" => service.manifest \in Versions

\* What an updater may put into the pointer is in place.
UpdaterKnows(u) ==
    /\ up[u].pc \in Busy => up[u].to \in Versions /\ up[u].from \in complete
    /\ up[u].pc \in Placed => up[u].to \in complete

\* A copy of the database holds nothing that the user has not done.
WorkCounted ==
    /\ db.work \subseteq 1 .. done
    /\ \A u \in Updaters : up[u].backup.work \subseteq 1 .. done

PointerInv ==
    /\ TypeOK
    /\ WorkCounted
    /\ PointerComplete
    /\ ManifestKnown
    /\ \A u \in Updaters : UpdaterKnows(u)

---------------------------------------------------------------------------
(* Helpers.                                                                *)

LEMMA FirstTyped == First \in Versions /\ NoVersion \notin Versions
BY FirstAssumption, NoVersionAssumption DEF First

\* A migration step keeps the database typed.
LEMMA NextRevisionTyped ==
    ASSUME NEW d \in Database
    PROVE  NextRevision(d) \in Database
<1>1. CASE d.half
    <2>1. d.schema + 1 \in Nat
        BY DEF Database
    <2>2. ASSUME NEW n \in Nat
          PROVE  [d EXCEPT !.schema = n, !.half = FALSE] \in Database
        BY DEF Database
    <2>3. [d EXCEPT !.schema = d.schema + 1, !.half = FALSE] \in Database
        BY <2>1, <2>2
    <2> QED BY <1>1, <2>3 DEF NextRevision
<1>2. CASE ~d.half
    <2>1. [d EXCEPT !.half = TRUE] \in Database
        BY DEF Database
    <2> QED BY <1>2, <2>1 DEF NextRevision
<1> QED BY <1>1, <1>2

\* and its content as it is.
LEMMA NextRevisionKeepsWork ==
    ASSUME NEW d \in Database
    PROVE  NextRevision(d).work = d.work
BY DEF NextRevision, Database

LEMMA IdleTyped == Idle \in UpType
<1>1. [schema |-> 0, half |-> FALSE, work |-> {}] \in Database
    BY DEF Database
<1>2. NoVersion \in MaybeVersion
    BY DEF MaybeVersion
<1> QED BY <1>1, <1>2 DEF Idle, UpType

LEMMA InitPointer == Init => PointerInv
<1> SUFFICES ASSUME Init PROVE PointerInv
    OBVIOUS
<1>1. First \in Versions /\ NoVersion \in MaybeVersion /\ 0 \in 0 .. MaxWork
    BY FirstTyped, MaxWorkAssumption DEF MaybeVersion
<1>2. db \in Database
    BY <1>1, SchemaAssumption DEF Init, Database
<1>3. up \in [Updaters -> UpType]
    BY IdleTyped DEF Init
<1>4. app \in [version: MaybeVersion,
               life: {"off", "booting", "migrating", "open", "ready"}]
    BY <1>1 DEF Init
<1>5. service \in [by: MaybeVersion, offer: MaybeVersion,
                   manifest: MaybeVersion, file: MaybeVersion]
    BY <1>1 DEF Init
<1>6. TypeOK
    BY <1>1, <1>2, <1>3, <1>4, <1>5 DEF Init, TypeOK, UpType
<1>7. PointerComplete
    BY DEF Init, PointerComplete
<1>8. \A u \in Updaters : up[u].pc = "idle"
    BY DEF Init, Idle
<1>9. ManifestKnown /\ \A u \in Updaters : UpdaterKnows(u)
    BY <1>8 DEF Init, ManifestKnown, UpdaterKnows, Busy, Working, Handling, Placed
<1>10. WorkCounted
    BY DEF Init, WorkCounted, Idle
<1> QED BY <1>6, <1>7, <1>9, <1>10 DEF PointerInv

---------------------------------------------------------------------------
(* Steps outside the updaters.                                             *)

\* Steps that leave pointer, directories, service and updaters alone.
LEMMA QuietStep ==
    ASSUME PointerInv, UNCHANGED <<pointer, complete, service, up, kept>>,
           db' \in Database, backups' \subseteq Database,
           app' \in [version: MaybeVersion,
                     life: {"off", "booting", "migrating", "open", "ready"}],
           app'.life = "off" <=> app'.version = NoVersion,
           app'.life # "off" => app'.version \in complete,
           spawned' \subseteq complete,
           done' \in 0 .. MaxWork, done <= done', db'.work \subseteq 1 .. done'
    PROVE  PointerInv'
<1>0. done \in Nat /\ done' \in Nat /\ 1 .. done \subseteq 1 .. done'
    BY MaxWorkAssumption DEF PointerInv, TypeOK
<1>1. TypeOK'
    BY <1>0 DEF PointerInv, TypeOK
<1>2. PointerComplete'
    BY DEF PointerInv, PointerComplete
<1>3. ManifestKnown'
    BY DEF PointerInv, ManifestKnown
<1>4. \A u \in Updaters : UpdaterKnows(u)'
    BY DEF PointerInv, UpdaterKnows
<1>5. WorkCounted'
    BY <1>0 DEF PointerInv, WorkCounted
<1> QED BY <1>1, <1>2, <1>3, <1>4, <1>5 DEF PointerInv

LEMMA ApplicationStep ==
    ASSUME PointerInv,
           UserStarts \/ (\E v \in Versions : SpawnDies(v)) \/ AppOpens
               \/ AppMigrates \/ AppReady \/ UserWorks
    PROVE  PointerInv'
<1> USE DEF PointerInv
<1>0. /\ db \in Database /\ backups \subseteq Database
      /\ app \in [version: MaybeVersion,
                  life: {"off", "booting", "migrating", "open", "ready"}]
      /\ app.life = "off" <=> app.version = NoVersion
      /\ app.life # "off" => app.version \in complete
      /\ spawned \subseteq complete /\ pointer \in complete
      /\ done \in 0 .. MaxWork /\ done \in Nat /\ db.work \subseteq 1 .. done
    BY MaxWorkAssumption DEF TypeOK, PointerComplete, WorkCounted
<1>1. CASE UserStarts
    BY <1>0, <1>1, QuietStep DEF UserStarts, Spawned
<1>2. CASE \E v \in Versions : SpawnDies(v)
    BY <1>0, <1>2, QuietStep DEF SpawnDies
<1>3. CASE AppOpens
    <2>1. NextRevision(db) \in Database /\ NextRevision(db).work = db.work
        BY <1>0, NextRevisionTyped, NextRevisionKeepsWork
    <2>2. db' \in Database /\ backups' \subseteq Database /\ db'.work = db.work
        BY <1>0, <1>3, <2>1 DEF AppOpens
    <2>3. /\ app' \in [version: MaybeVersion,
                       life: {"off", "booting", "migrating", "open", "ready"}]
          /\ app'.life # "off" /\ app'.version = app.version
        BY <1>0, <1>3 DEF AppOpens
    <2>4. app.life # "off"
        BY <1>3 DEF AppOpens
    <2> QED BY <1>0, <1>3, <2>2, <2>3, <2>4, QuietStep DEF AppOpens
<1>4. CASE AppMigrates
    <2>1. NextRevision(db) \in Database /\ NextRevision(db).work = db.work
        BY <1>0, NextRevisionTyped, NextRevisionKeepsWork
    <2>2. db' \in Database /\ backups' \subseteq Database /\ db'.work = db.work
        BY <1>0, <1>4, <2>1 DEF AppMigrates
    <2>3. /\ app' \in [version: MaybeVersion,
                       life: {"off", "booting", "migrating", "open", "ready"}]
          /\ app'.life # "off" /\ app'.version = app.version
        BY <1>0, <1>4 DEF AppMigrates
    <2>4. app.life # "off"
        BY <1>4 DEF AppMigrates
    <2> QED BY <1>0, <1>4, <2>2, <2>3, <2>4, QuietStep DEF AppMigrates
<1>5. CASE AppReady
    <2>3. /\ app' \in [version: MaybeVersion,
                       life: {"off", "booting", "migrating", "open", "ready"}]
          /\ app'.life # "off" /\ app'.version = app.version /\ app.life # "off"
        BY <1>0, <1>5 DEF AppReady
    <2> QED BY <1>0, <1>5, <2>3, QuietStep DEF AppReady
<1>6. CASE UserWorks
    <2>1. done' \in 0 .. MaxWork /\ done <= done' /\ done + 1 \in 1 .. done'
          /\ 1 .. done \subseteq 1 .. done' /\ done + 1 \in 1 .. MaxWork
        BY <1>0, <1>6, MaxWorkAssumption DEF UserWorks
    <2> DEFINE more == db.work \cup {done + 1}
    <2>2. more \in SUBSET (1 .. MaxWork) /\ more \subseteq 1 .. done'
        BY <1>0, <2>1 DEF Database
    <2>3. ASSUME NEW w \in SUBSET (1 .. MaxWork)
          PROVE  [db EXCEPT !.work = w] \in Database /\ [db EXCEPT !.work = w].work = w
        BY <1>0 DEF Database
    <2>4. db' = [db EXCEPT !.work = more]
        BY <1>6 DEF UserWorks
    <2>5. db' \in Database /\ db'.work \subseteq 1 .. done'
        BY <2>2, <2>3, <2>4
    <2> QED BY <1>0, <1>6, <2>1, <2>5, QuietStep DEF UserWorks
<1> QED BY <1>1, <1>2, <1>3, <1>4, <1>5, <1>6

\* Steps that change the updaters, and neither the database nor what a user did.
LEMMA UpdatersStep ==
    ASSUME PointerInv, UNCHANGED <<app, done>>,
           db' \in Database, backups' \subseteq Database,
           pointer' \in complete', complete \subseteq complete',
           complete' \subseteq Versions, spawned' \subseteq complete',
           service' \in [by: MaybeVersion, offer: MaybeVersion,
                        manifest: MaybeVersion, file: MaybeVersion],
           up' \in [Updaters -> UpType], UNCHANGED kept,
           WorkCounted', ManifestKnown', \A u \in Updaters : UpdaterKnows(u)'
    PROVE  PointerInv'
<1>1. TypeOK'
    BY DEF PointerInv, TypeOK, UpType
<1>2. PointerComplete'
    BY DEF PointerInv, PointerComplete
<1> QED BY <1>1, <1>2 DEF PointerInv

LEMMA TakesMutexStep ==
    ASSUME PointerInv, NEW v \in Versions, TakesMutex(v)
    PROVE  PointerInv'
<1>0. /\ v \in complete /\ spawned' \subseteq complete /\ pointer \in complete
      /\ complete \subseteq Versions
    BY DEF PointerInv, PointerComplete, TypeOK, TakesMutex
<1>1. CASE app.life # "off"
    <2> UNCHANGED <<pointer, complete, db, backups, app, service, up, done, kept>>
        BY <1>1 DEF TakesMutex
    <2>1. done \in 0 .. MaxWork /\ done <= done /\ db.work \subseteq 1 .. done
        BY MaxWorkAssumption DEF PointerInv, TypeOK, WorkCounted
    <2> QED BY <1>0, <2>1, QuietStep DEF PointerInv, TypeOK, PointerComplete
<1>2. CASE app.life = "off"
    <2> DEFINE offer == IF service.by = v THEN service.offer ELSE NoVersion
    <2>1. /\ UNCHANGED <<pointer, complete, db, backups, up, done, kept>>
          /\ app' = [version |-> v, life |-> "booting"]
          /\ service' = [service EXCEPT !.by = v, !.offer = offer,
                           !.file = IF offer = service.file THEN service.file ELSE NoVersion]
        BY <1>2 DEF TakesMutex, Loaded
    <2>2. v \in MaybeVersion /\ offer \in MaybeVersion /\ NoVersion \in MaybeVersion
        BY DEF PointerInv, TypeOK, MaybeVersion
    <2>3. /\ service' \in [by: MaybeVersion, offer: MaybeVersion,
                           manifest: MaybeVersion, file: MaybeVersion]
          /\ service'.manifest = service.manifest /\ service'.offer = offer
        BY <2>1, <2>2 DEF PointerInv, TypeOK
    <2>4. /\ app' \in [version: MaybeVersion,
                       life: {"off", "booting", "migrating", "open", "ready"}]
          /\ app'.life # "off" /\ app'.version = v
        BY <2>1, <2>2
    <2>5. app'.version # NoVersion
        BY <2>4, NoVersionAssumption
    <2>6. TypeOK'
        BY <1>0, <2>1, <2>3, <2>4, <2>5 DEF PointerInv, TypeOK
    <2>7. PointerComplete'
        BY <1>0, <2>1, <2>4 DEF PointerComplete
    <2>8. ManifestKnown'
        BY <2>1, <2>3 DEF PointerInv, ManifestKnown
    <2>9. \A u \in Updaters : UpdaterKnows(u)'
        BY <2>1 DEF PointerInv, UpdaterKnows
    <2>10. WorkCounted'
        BY <2>1 DEF PointerInv, WorkCounted
    <2> QED BY <2>6, <2>7, <2>8, <2>9, <2>10 DEF PointerInv
<1> QED BY <1>1, <1>2

LEMMA AppEndsStep ==
    ASSUME PointerInv, AppEnds
    PROVE  PointerInv'
<1>1. /\ UNCHANGED <<pointer, complete, db, backups, spawned, service, done>>
      /\ app' = [version |-> NoVersion, life |-> "off"]
      /\ up' = [u \in Updaters |-> [up[u] EXCEPT !.waits = FALSE]]
    BY DEF AppEnds
<1>2. up \in [Updaters -> UpType]
    BY DEF PointerInv, TypeOK, UpType
<1>3. /\ up' \in [Updaters -> UpType]
      /\ \A u \in Updaters : up'[u].pc = up[u].pc /\ up'[u].to = up[u].to
                               /\ up'[u].from = up[u].from
                               /\ up'[u].backup = up[u].backup
    <2> SUFFICES ASSUME NEW u \in Updaters
                 PROVE  /\ up'[u] \in UpType
                        /\ up'[u].pc = up[u].pc /\ up'[u].to = up[u].to
                        /\ up'[u].from = up[u].from
                        /\ up'[u].backup = up[u].backup
        BY <1>1
    <2>1. up[u] \in UpType
        BY <1>2
    <2> QED BY <1>1, <2>1 DEF UpType
<1>4. app' \in [version: MaybeVersion,
                life: {"off", "booting", "migrating", "open", "ready"}]
    BY <1>1 DEF MaybeVersion
<1>5. app'.life = "off" /\ app'.version = NoVersion
    BY <1>1
<1>6. kept' \subseteq 1 .. done'
    BY DEF AppEnds, PointerInv, TypeOK, WorkCounted
<1>7. TypeOK'
    BY <1>1, <1>3, <1>4, <1>5, <1>6 DEF PointerInv, TypeOK, UpType
<1>8. PointerComplete'
    BY <1>1, <1>5 DEF PointerInv, PointerComplete
<1>9. ManifestKnown'
    BY <1>1, <1>3 DEF PointerInv, ManifestKnown
<1>10. \A u \in Updaters : UpdaterKnows(u)'
    BY <1>1, <1>3 DEF PointerInv, UpdaterKnows
<1>11. WorkCounted'
    BY <1>1, <1>3 DEF PointerInv, WorkCounted
<1> QED BY <1>7, <1>8, <1>9, <1>10, <1>11 DEF PointerInv

---------------------------------------------------------------------------
(* Steps of one updater.                                                   *)

\* An updater that goes on with a record of its own, the others as they were.
LEMMA OneUpdater ==
    ASSUME PointerInv, NEW u \in Updaters, NEW r \in UpType,
           up' = [up EXCEPT ![u] = r], UNCHANGED <<app, service, done, kept>>,
           db' \in Database, db'.work \subseteq 1 .. done, backups' \subseteq Database,
           pointer' \in complete', complete \subseteq complete',
           complete' \subseteq Versions, spawned' \subseteq complete',
           r.pc # "launched", r.backup.work \subseteq 1 .. done,
           r.pc \in Busy => r.to \in Versions /\ r.from \in complete',
           r.pc \in Placed => r.to \in complete'
    PROVE  PointerInv'
<1>1. up \in [Updaters -> UpType]
    BY DEF PointerInv, TypeOK, UpType
<1>2. /\ up' \in [Updaters -> UpType]
      /\ \A w \in Updaters : up'[w] = IF w = u THEN r ELSE up[w]
    BY <1>1
<1>3. WorkCounted'
    BY <1>2 DEF PointerInv, WorkCounted
<1>4. ManifestKnown'
    BY <1>2 DEF PointerInv, ManifestKnown
<1>5. \A w \in Updaters : UpdaterKnows(w)'
    BY <1>2 DEF PointerInv, UpdaterKnows
<1>6. service' \in [by: MaybeVersion, offer: MaybeVersion,
                    manifest: MaybeVersion, file: MaybeVersion]
    BY DEF PointerInv, TypeOK
<1> QED BY <1>2, <1>3, <1>4, <1>5, <1>6, UpdatersStep

\* An updater at work that reaches its next line.
LEMMA GoesStep ==
    ASSUME PointerInv, NEW u \in Updaters, NEW pc \in Busy, Goes(u, pc),
           up[u].pc \in Busy, pc \in Placed => up[u].to \in complete',
           UNCHANGED <<app, service, done, kept>>,
           db' \in Database, db'.work \subseteq 1 .. done, backups' \subseteq Database,
           pointer' \in complete', complete \subseteq complete',
           complete' \subseteq Versions, spawned' \subseteq complete'
    PROVE  PointerInv'
<1> DEFINE r == [up[u] EXCEPT !.pc = pc]
<1>1. up \in [Updaters -> UpType] /\ up[u] \in UpType
    BY DEF PointerInv, TypeOK, UpType
<1>2. /\ r \in UpType /\ r.pc = pc /\ r.to = up[u].to /\ r.from = up[u].from
      /\ r.backup = up[u].backup
    BY <1>1 DEF UpType, Busy
<1>3. up' = [up EXCEPT ![u] = r]
    BY DEF Goes
<1>4. r.pc # "launched"
    BY <1>2 DEF Busy, Working, Handling
<1>5. r.backup.work \subseteq 1 .. done
    BY <1>2 DEF PointerInv, WorkCounted
<1>6. r.to \in Versions /\ r.from \in complete'
    BY <1>2 DEF PointerInv, UpdaterKnows
<1>7. r.pc \in Placed => r.to \in complete'
    BY <1>2
<1> HIDE DEF r
<1> QED BY <1>2, <1>3, <1>4, <1>5, <1>6, <1>7, OneUpdater

\* An updater that ends.
LEMMA EndsStep ==
    ASSUME PointerInv, NEW u \in Updaters, NEW pc \in Ended, Ends(u, pc),
           UNCHANGED <<pointer, complete, db, backups, app, spawned, service, done, kept>>
    PROVE  PointerInv'
<1> DEFINE r == [Idle EXCEPT !.pc = pc]
<1>1. r \in UpType /\ r.pc = pc /\ r.backup = Idle.backup
    BY IdleTyped DEF UpType
<1>2. up' = [up EXCEPT ![u] = r]
    BY DEF Ends
<1>3. r.pc # "launched" /\ r.pc \notin Busy /\ r.pc \notin Placed
    BY <1>1 DEF Ended, Busy, Working, Handling, Placed
<1>4. r.backup.work \subseteq 1 .. done
    BY <1>1 DEF Idle
<1>5. /\ db' \in Database /\ db'.work \subseteq 1 .. done /\ backups' \subseteq Database
      /\ pointer' \in complete' /\ complete \subseteq complete'
      /\ complete' \subseteq Versions /\ spawned' \subseteq complete'
      /\ UNCHANGED <<app, service, done, kept>>
    BY DEF PointerInv, TypeOK, WorkCounted, PointerComplete
<1> HIDE DEF r
<1> QED BY <1>1, <1>2, <1>3, <1>4, <1>5, OneUpdater

\* What a step needs to know of the state that it leaves alone.
LEMMA Known ==
    ASSUME PointerInv
    PROVE  /\ db \in Database /\ db.work \subseteq 1 .. done /\ backups \subseteq Database
           /\ pointer \in complete /\ complete \subseteq Versions
           /\ spawned \subseteq complete
           /\ service \in [by: MaybeVersion, offer: MaybeVersion,
                           manifest: MaybeVersion, file: MaybeVersion]
           /\ up \in [Updaters -> UpType]
           /\ \A u \in Updaters : /\ UpdaterKnows(u)
                                  /\ up[u].backup.work \subseteq 1 .. done
BY DEF PointerInv, TypeOK, PointerComplete, WorkCounted, UpType

\* The update service names only releases.
LEMMA ServiceStep ==
    ASSUME PointerInv, Check \/ Import
    PROVE  PointerInv'
<1>0. NoVersion \in MaybeVersion /\ Versions \subseteq MaybeVersion
    BY DEF MaybeVersion
<1>1. /\ UNCHANGED <<pointer, complete, db, backups, app, spawned, up, done, kept>>
    BY DEF Check, Import
<1>2. /\ service' \in [by: MaybeVersion, offer: MaybeVersion,
                       manifest: MaybeVersion, file: MaybeVersion]
      /\ \/ service'.manifest \in Versions
         \/ service'.manifest = service.manifest /\ service'.offer = NoVersion
    <2>1. CASE service' = [service EXCEPT !.offer = NoVersion]
        BY <1>0, <2>1, Known
    <2>2. CASE \E v \in Versions :
                 service' = [service EXCEPT !.offer = v, !.manifest = v, !.file = NoVersion]
        BY <1>0, <2>2, Known
    <2>3. CASE \E v \in Versions :
                 service' = [service EXCEPT !.offer = v, !.manifest = v, !.file = v]
        BY <1>0, <2>3, Known
    <2> QED BY <2>1, <2>2, <2>3 DEF Check, Import
<1>3. ManifestKnown'
    BY <1>1, <1>2 DEF PointerInv, ManifestKnown
<1>4. WorkCounted' /\ \A u \in Updaters : UpdaterKnows(u)'
    BY <1>1 DEF PointerInv, WorkCounted, UpdaterKnows
<1> QED BY <1>1, <1>2, <1>3, <1>4, Known, UpdatersStep

\* The updater that an application starts knows nothing yet.
LEMMA InstallStep ==
    ASSUME PointerInv, NEW u \in Updaters, Install(u)
    PROVE  PointerInv'
<1> DEFINE r == [up[u] EXCEPT !.pc = "launched", !.own = app.version \in Carries,
                              !.waits = TRUE, !.file = service.file]
<1>1. /\ UNCHANGED <<pointer, complete, db, backups, app, spawned, done, kept>>
      /\ up' = [up EXCEPT ![u] = r]
      /\ service' = [service EXCEPT !.offer = NoVersion]
      /\ service.manifest \in Versions
    BY DEF Install, PointerInv, ManifestKnown
<1>2. r \in UpType /\ r.pc = "launched" /\ r.backup = up[u].backup
    <2>1. service.file \in MaybeVersion /\ (app.version \in Carries) \in BOOLEAN
        BY Known
    <2>2. up[u] \in UpType
        BY Known
    <2>3. ASSUME NEW b \in BOOLEAN, NEW f \in MaybeVersion
          PROVE  LET q == [up[u] EXCEPT !.pc = "launched", !.own = b,
                                        !.waits = TRUE, !.file = f]
                 IN q \in UpType /\ q.pc = "launched" /\ q.backup = up[u].backup
        BY <2>2 DEF UpType
    <2> QED BY <2>1, <2>3
<1> HIDE DEF r
<1>3. /\ up' \in [Updaters -> UpType]
      /\ \A w \in Updaters : up'[w] = IF w = u THEN r ELSE up[w]
    BY <1>1, <1>2, Known
<1>4. /\ service' \in [by: MaybeVersion, offer: MaybeVersion,
                       manifest: MaybeVersion, file: MaybeVersion]
      /\ service'.manifest \in Versions
    BY <1>1, Known DEF MaybeVersion
<1>5. ManifestKnown'
    BY <1>4 DEF ManifestKnown
<1>6. WorkCounted'
    BY <1>1, <1>2, <1>3, Known DEF WorkCounted
<1>7. \A w \in Updaters : UpdaterKnows(w)'
    <2>1. r.pc \notin Busy /\ r.pc \notin Placed
        BY <1>2 DEF Busy, Working, Handling, Placed
    <2> QED BY <1>1, <1>3, <2>1, Known DEF UpdaterKnows
<1> QED BY <1>1, <1>3, <1>4, <1>5, <1>6, <1>7, Known, UpdatersStep

\* An updater that enters takes the pointer and the manifest that it finds.
LEMMA EntersStep ==
    ASSUME PointerInv, NEW u \in Updaters, Enters(u)
    PROVE  PointerInv'
<1>1. UNCHANGED <<pointer, complete, db, backups, app, spawned, service, done, kept>>
    BY DEF Enters
<1>2. CASE ~up[u].own /\ service.manifest > pointer
    <2> DEFINE r == [up[u] EXCEPT !.pc = "staging", !.from = pointer, !.to = service.manifest]
    <2>1. service.manifest \in Versions
        BY DEF Enters, PointerInv, ManifestKnown
    <2>2. up' = [up EXCEPT ![u] = r]
        BY <1>2 DEF Enters
    <2>3. /\ r \in UpType /\ r.pc = "staging" /\ r.from = pointer
          /\ r.to = service.manifest /\ r.backup = up[u].backup
        <3>1. up[u] \in UpType /\ pointer \in MaybeVersion /\ service.manifest \in MaybeVersion
            BY <2>1, Known DEF MaybeVersion
        <3>2. ASSUME NEW f \in MaybeVersion, NEW t \in MaybeVersion
              PROVE  LET q == [up[u] EXCEPT !.pc = "staging", !.from = f, !.to = t]
                     IN /\ q \in UpType /\ q.pc = "staging" /\ q.from = f
                        /\ q.to = t /\ q.backup = up[u].backup
            BY <3>1 DEF UpType, Working
        <3> QED BY <3>1, <3>2
    <2> HIDE DEF r
    <2>4. r.pc # "launched" /\ r.pc \notin Placed
        BY <2>3 DEF Placed
    <2> QED BY <1>1, <2>1, <2>2, <2>3, <2>4, Known, OneUpdater
<1>3. CASE ~(~up[u].own /\ service.manifest > pointer)
    <2>1. Ends(u, "refused") /\ "refused" \in Ended
        BY <1>3 DEF Enters, Ended
    <2> QED BY <1>1, <2>1, EndsStep
<1> QED BY <1>2, <1>3

\* Steps that only take an updater to its next line.
LEMMA PlainStep ==
    ASSUME PointerInv, NEW u \in Updaters,
           Stages(u) \/ Launches(u) \/ Answers(u) \/ Fails(u) \/ SkipsLaunch(u)
    PROVE  PointerInv'
<1>0. /\ {"waiting", "awaiting", "reawaiting", "reporting", "apologizing", "failing"}
            \subseteq Busy
      /\ {"staging", "launching", "relaunching", "awaiting", "reawaiting"} \subseteq Busy
      /\ Working \subseteq Busy
      /\ {"waiting", "reawaiting", "apologizing", "failing"} \cap Placed = {}
      /\ "launching" \in Placed /\ "awaiting" \in Placed
    BY DEF Busy, Working, Handling, Placed
<1>1. UNCHANGED <<pointer, complete, db, backups, app, service, done, kept>>
    BY DEF Stages, Launches, Answers, Fails, SkipsLaunch
<1>2. spawned' \subseteq complete
    BY Known DEF Stages, Launches, Answers, Fails, SkipsLaunch, Spawned
<1>3. PICK pc \in Busy : /\ Goes(u, pc) /\ up[u].pc \in Busy
                         /\ pc \in Placed => up[u].pc \in Placed
    <2>1. CASE Stages(u)
        BY <1>0, <2>1 DEF Stages
    <2>2. CASE Launches(u)
        BY <1>0, <2>2 DEF Launches
    <2>3. CASE Answers(u)
        BY <1>0, <2>3 DEF Answers
    <2>4. CASE Fails(u)
        BY <1>0, <2>4 DEF Fails
    <2>5. CASE SkipsLaunch(u)
        BY <1>0, <2>5 DEF SkipsLaunch
    <2> QED BY <2>1, <2>2, <2>3, <2>4, <2>5
<1>4. pc \in Placed => up[u].to \in complete
    BY <1>3, Known DEF UpdaterKnows
<1> QED BY <1>1, <1>2, <1>3, <1>4, Known, GoesStep

\* Steps with which an updater is over.
LEMMA LastStep ==
    ASSUME PointerInv, NEW u \in Updaters, Reports(u) \/ Breaks(u) \/ Crashes(u)
    PROVE  PointerInv'
<1>1. PICK pc \in Ended : Ends(u, pc)
    BY DEF Reports, Breaks, Crashes, Ended
<1>2. UNCHANGED <<pointer, complete, db, backups, app, spawned, service, done, kept>>
    BY DEF Reports, Breaks, Crashes
<1> QED BY <1>1, <1>2, EndsStep

LEMMA WaitsStep ==
    ASSUME PointerInv, NEW u \in Updaters, Waits(u)
    PROVE  PointerInv'
<1> DEFINE r == [up[u] EXCEPT !.pc = "placing", !.stopped = TRUE]
<1>1. /\ UNCHANGED <<pointer, complete, db, backups, app, spawned, service, done, kept>>
      /\ up' = [up EXCEPT ![u] = r] /\ up[u].pc \in Busy
    BY DEF Waits, Busy, Working
<1>2. /\ r \in UpType /\ r.pc = "placing" /\ r.to = up[u].to /\ r.from = up[u].from
      /\ r.backup = up[u].backup
    BY Known DEF UpType, Working
<1>3. r.pc # "launched" /\ r.pc \notin Placed
    BY <1>2 DEF Placed
<1> HIDE DEF r
<1> QED BY <1>1, <1>2, <1>3, Known, OneUpdater DEF UpdaterKnows

LEMMA PlacesStep ==
    ASSUME PointerInv, NEW u \in Updaters, Places(u)
    PROVE  PointerInv'
<1>1. /\ UNCHANGED <<pointer, db, backups, app, spawned, service, done, kept>>
      /\ complete' = complete \cup {up[u].to} /\ Goes(u, "backing")
      /\ up[u].pc \in Busy /\ "backing" \in Busy
    BY DEF Places, Busy, Working
<1>2. up[u].to \in Versions
    BY <1>1, Known DEF UpdaterKnows
<1> QED BY <1>1, <1>2, Known, GoesStep

LEMMA BacksUpStep ==
    ASSUME PointerInv, NEW u \in Updaters, BacksUp(u)
    PROVE  PointerInv'
<1> DEFINE r == [up[u] EXCEPT !.pc = "migrating", !.backup = db]
<1>1. /\ UNCHANGED <<pointer, complete, db, app, spawned, service, done, kept>>
      /\ backups' = backups \cup {db}
      /\ up' = [up EXCEPT ![u] = r] /\ up[u].pc \in Busy /\ up[u].pc \in Placed
    BY DEF BacksUp, Busy, Working, Placed
<1>2. /\ r \in UpType /\ r.pc = "migrating" /\ r.to = up[u].to /\ r.from = up[u].from
      /\ r.backup = db
    BY Known DEF UpType, Working
<1>3. r.pc # "launched"
    BY <1>2
<1> HIDE DEF r
<1> QED BY <1>1, <1>2, <1>3, Known, OneUpdater DEF UpdaterKnows

LEMMA MigratesStep ==
    ASSUME PointerInv, NEW u \in Updaters, Migrates(u)
    PROVE  PointerInv'
<1>1. /\ UNCHANGED <<pointer, complete, app, spawned, service, done, kept>>
      /\ up[u].pc \in Busy /\ up[u].pc \in Placed
    BY DEF Migrates, Busy, Working, Placed
<1>2. up[u].to \in complete
    BY <1>1, Known DEF UpdaterKnows
<1>3. CASE db.schema = Schema[up[u].to]
    <2> DEFINE r == [up[u] EXCEPT !.pc = "pointing", !.migrated = TRUE]
    <2>1. up' = [up EXCEPT ![u] = r] /\ UNCHANGED <<db, backups>>
        BY <1>3 DEF Migrates
    <2>2. /\ r \in UpType /\ r.pc = "pointing" /\ r.to = up[u].to /\ r.from = up[u].from
          /\ r.backup = up[u].backup
        BY Known DEF UpType, Working
    <2>3. r.pc # "launched"
        BY <2>2
    <2> HIDE DEF r
    <2> QED BY <1>1, <1>2, <2>1, <2>2, <2>3, Known, OneUpdater DEF UpdaterKnows
<1>4. CASE db.schema # Schema[up[u].to]
    <2>1. /\ db' = NextRevision(db) /\ backups' \subseteq backups \cup {db}
          /\ Goes(u, "midway") /\ "midway" \in Busy
        BY <1>4 DEF Migrates, Busy, Working
    <2>2. db' \in Database /\ db'.work = db.work
        BY <2>1, Known, NextRevisionTyped, NextRevisionKeepsWork
    <2> QED BY <1>1, <1>2, <2>1, <2>2, Known, GoesStep
<1> QED BY <1>3, <1>4

LEMMA PointsStep ==
    ASSUME PointerInv, NEW u \in Updaters, Points(u)
    PROVE  PointerInv'
<1> DEFINE r == [up[u] EXCEPT !.pc = "launching", !.switched = TRUE]
<1>1. /\ UNCHANGED <<complete, db, backups, app, spawned, service, done, kept>>
      /\ pointer' = up[u].to
      /\ up' = [up EXCEPT ![u] = r] /\ up[u].pc \in Busy /\ up[u].pc \in Placed
    BY DEF Points, Busy, Working, Placed
<1>2. /\ r \in UpType /\ r.pc = "launching" /\ r.to = up[u].to /\ r.from = up[u].from
      /\ r.backup = up[u].backup
    BY Known DEF UpType, Working
<1>3. r.pc # "launched"
    BY <1>2
<1> HIDE DEF r
<1> QED BY <1>1, <1>2, <1>3, Known, OneUpdater DEF UpdaterKnows

\* The handler's steps: the pointer that it puts back named a directory that is
\* still there, and the copy that it restores is one of the database.
LEMMA HandlerStep ==
    ASSUME PointerInv, NEW u \in Updaters, PointsBack(u) \/ Restores(u)
    PROVE  PointerInv'
<1>0. UNCHANGED <<complete, backups, app, spawned, service, done, kept>>
    BY DEF PointsBack, Restores
<1>1. CASE PointsBack(u)
    <2>1. /\ Goes(u, "restoring") /\ "restoring" \in Busy /\ "restoring" \notin Placed
          /\ up[u].pc \in Busy /\ UNCHANGED db
          /\ pointer' = up[u].from \/ pointer' = pointer
        BY <1>1 DEF PointsBack, Busy, Handling, Placed
    <2>2. pointer' \in complete
        BY <2>1, Known DEF UpdaterKnows
    <2> QED BY <1>0, <2>1, <2>2, Known, GoesStep
<1>2. CASE Restores(u)
    <2>1. /\ Goes(u, "relaunching") /\ "relaunching" \in Busy /\ "relaunching" \notin Placed
          /\ up[u].pc \in Busy /\ UNCHANGED pointer
          /\ db' = up[u].backup \/ db' = db
        BY <1>2 DEF Restores, Busy, Handling, Placed
    <2>2. db' \in Database /\ db'.work \subseteq 1 .. done
        BY <2>1, Known DEF UpType
    <2> QED BY <1>0, <2>1, <2>2, Known, GoesStep
<1> QED BY <1>1, <1>2

---------------------------------------------------------------------------
(* The theorems.                                                           *)

LEMMA NextPointer == PointerInv /\ [Next]_vars => PointerInv'
<1> SUFFICES ASSUME PointerInv, [Next]_vars PROVE PointerInv'
    OBVIOUS
<1>1. CASE UserStarts \/ AppOpens \/ AppMigrates \/ AppReady \/ UserWorks
    BY <1>1, ApplicationStep
<1>2. ASSUME NEW v \in Versions, TakesMutex(v) \/ SpawnDies(v)
      PROVE  PointerInv'
    BY <1>2, TakesMutexStep, ApplicationStep
<1>3. CASE AppEnds
    BY <1>3, AppEndsStep
<1>4. CASE Check \/ Import
    BY <1>4, ServiceStep
<1>5. ASSUME NEW u \in Updaters,
             Install(u) \/ Enters(u) \/ Stages(u) \/ Waits(u) \/ Places(u)
               \/ BacksUp(u) \/ Migrates(u) \/ Points(u) \/ Launches(u)
               \/ Answers(u) \/ Reports(u)
               \/ Fails(u) \/ PointsBack(u) \/ Restores(u) \/ SkipsLaunch(u)
               \/ Breaks(u) \/ Crashes(u)
      PROVE  PointerInv'
    BY <1>5, InstallStep, EntersStep, PlainStep, WaitsStep, PlacesStep, BacksUpStep,
       MigratesStep, PointsStep, HandlerStep, LastStep
<1>6. CASE UNCHANGED vars
    BY <1>6 DEF vars, PointerInv, TypeOK, WorkCounted, PointerComplete, ManifestKnown,
       UpdaterKnows
<1> QED BY <1>1, <1>2, <1>3, <1>4, <1>5, <1>6 DEF Next

LEMMA PointerInvariant == Spec => []PointerInv
BY InitPointer, NextPointer, PTL DEF Spec

\* Everything that the installation keeps has its type: an updater never waits,
\* restores or reports with a release, a backup or a schema that is none.
THEOREM UpdateTyped == Spec => []TypeOK
<1>1. PointerInv => TypeOK
    BY DEF PointerInv
<1> QED BY <1>1, PointerInvariant, PTL

\* For every number of releases, schema changes and updaters: wherever the machine
\* stops, current.json names a version whose verified directory is in place, and
\* so does every process that was started from it.
THEOREM PointerIsComplete == Spec => []PointerComplete
<1>1. PointerInv => PointerComplete
    BY DEF PointerInv
<1> QED BY <1>1, PointerInvariant, PTL

---------------------------------------------------------------------------
(* What an updater remembers of its own steps.                             *)

Migrated == {"pointing", "launching", "awaiting", "reporting"}
Switched == {"launching", "awaiting", "reporting"}

\* Its copy of the database may still come back.
HasBackup(r) ==
    \/ r.pc \in Placed \ {"backing"}
    \/ r.pc \in {"failing", "restoring"} /\ r.migrated

\* It waits for the application only before it has done anything, and its flags say
\* how far it has come.
Ordered(r) ==
    /\ r.waits => r.pc \in {"launched", "staging", "waiting"} \cup Handling /\ ~r.migrated
    /\ r.migrated => r.pc \in Migrated \cup Handling
    /\ r.pc \in Migrated => r.migrated
    /\ r.switched => r.migrated
    /\ r.pc \in Switched => r.switched
    /\ r.pc = "pointing" => ~r.switched

AllOrdered == \A u \in Updaters : Ordered(up[u])

\* What the database held when the application left is in the database, and in every
\* copy of it that may come back.
WorkKept ==
    /\ kept \subseteq db.work
    /\ \A u \in Updaters : HasBackup(up[u]) => kept \subseteq up[u].backup.work

UpdateInv == PointerInv /\ AllOrdered /\ WorkKept

---------------------------------------------------------------------------
(* What the steps of an updater do to its record.                          *)

Alone(u) == \A w \in Updaters : w # u => up'[w] = up[w]
KeepsFlags(u) ==
    /\ up'[u].waits = up[u].waits
    /\ up'[u].migrated = up[u].migrated
    /\ up'[u].switched = up[u].switched
KeepsRoute(u) == up'[u].from = up[u].from /\ up'[u].to = up[u].to
KeepsCopy(u) == up'[u].backup = up[u].backup

LEMMA RecordTyped == ASSUME PointerInv, NEW u \in Updaters PROVE up[u] \in UpType
BY Known

LEMMA RecordSet ==
    ASSUME PointerInv, NEW u \in Updaters, NEW r, up' = [up EXCEPT ![u] = r]
    PROVE  up'[u] = r /\ Alone(u)
BY Known DEF Alone

LEMMA GoesSets ==
    ASSUME PointerInv, NEW u \in Updaters, NEW pc, Goes(u, pc)
    PROVE  /\ up'[u].pc = pc
           /\ Alone(u) /\ KeepsFlags(u) /\ KeepsRoute(u) /\ KeepsCopy(u)
<1> DEFINE r == [up[u] EXCEPT !.pc = pc]
<1>1. up' = [up EXCEPT ![u] = r]
    BY DEF Goes
<1>2. r.pc = pc /\ r.waits = up[u].waits /\ r.migrated = up[u].migrated
      /\ r.switched = up[u].switched /\ r.from = up[u].from /\ r.to = up[u].to
      /\ r.backup = up[u].backup
    BY RecordTyped DEF UpType
<1> HIDE DEF r
<1>3. up'[u] = r /\ Alone(u)
    BY <1>1, RecordSet
<1> QED BY <1>2, <1>3 DEF KeepsFlags, KeepsRoute, KeepsCopy

LEMMA EndsSets ==
    ASSUME PointerInv, NEW u \in Updaters, NEW pc, Ends(u, pc)
    PROVE  /\ up'[u].pc = pc /\ Alone(u)
           /\ ~up'[u].waits /\ ~up'[u].migrated /\ ~up'[u].switched
<1> DEFINE r == [Idle EXCEPT !.pc = pc]
<1>1. up' = [up EXCEPT ![u] = r]
    BY DEF Ends
<1>2. r.pc = pc /\ ~r.waits /\ ~r.migrated /\ ~r.switched
    BY DEF Idle
<1> HIDE DEF r
<1> QED BY <1>1, <1>2, RecordSet

LEMMA InstallSets ==
    ASSUME PointerInv, NEW u \in Updaters, Install(u)
    PROVE  /\ up'[u].pc = "launched" /\ Alone(u)
           /\ up'[u].migrated = up[u].migrated /\ up'[u].switched = up[u].switched
<1> DEFINE r == [up[u] EXCEPT !.pc = "launched", !.own = app.version \in Carries,
                              !.waits = TRUE, !.file = service.file]
<1>1. up' = [up EXCEPT ![u] = r]
    BY DEF Install
<1>2. r.pc = "launched" /\ r.migrated = up[u].migrated /\ r.switched = up[u].switched
    BY RecordTyped DEF UpType
<1> HIDE DEF r
<1> QED BY <1>1, <1>2, RecordSet

LEMMA EntersSets ==
    ASSUME PointerInv, NEW u \in Updaters, Enters(u)
    PROVE  /\ Alone(u)
           /\ \/ Ends(u, "refused")
              \/ /\ up'[u].pc = "staging" /\ KeepsFlags(u)
                 /\ service.manifest > pointer
                 /\ up'[u].from = pointer /\ up'[u].to = service.manifest
<1> DEFINE r == [up[u] EXCEPT !.pc = "staging", !.from = pointer, !.to = service.manifest]
<1>1. CASE Ends(u, "refused")
    BY <1>1, EndsSets
<1>2. CASE up' = [up EXCEPT ![u] = r] /\ service.manifest > pointer
    <2>1. r.pc = "staging" /\ r.waits = up[u].waits /\ r.migrated = up[u].migrated
          /\ r.switched = up[u].switched /\ r.from = pointer /\ r.to = service.manifest
        BY RecordTyped DEF UpType
    <2> HIDE DEF r
    <2> QED BY <1>2, <2>1, RecordSet DEF KeepsFlags
<1> QED BY <1>1, <1>2 DEF Enters

LEMMA WaitsSets ==
    ASSUME PointerInv, NEW u \in Updaters, Waits(u)
    PROVE  /\ up'[u].pc = "placing" /\ Alone(u) /\ KeepsFlags(u) /\ KeepsRoute(u)
           /\ KeepsCopy(u)
<1> DEFINE r == [up[u] EXCEPT !.pc = "placing", !.stopped = TRUE]
<1>1. up' = [up EXCEPT ![u] = r]
    BY DEF Waits
<1>2. r.pc = "placing" /\ r.waits = up[u].waits /\ r.migrated = up[u].migrated
      /\ r.switched = up[u].switched /\ r.from = up[u].from /\ r.to = up[u].to
      /\ r.backup = up[u].backup
    BY RecordTyped DEF UpType
<1> HIDE DEF r
<1>3. up'[u] = r /\ Alone(u)
    BY <1>1, RecordSet
<1> QED BY <1>2, <1>3 DEF KeepsFlags, KeepsRoute, KeepsCopy

LEMMA BacksUpSets ==
    ASSUME PointerInv, NEW u \in Updaters, BacksUp(u)
    PROVE  /\ up'[u].pc = "migrating" /\ Alone(u) /\ KeepsFlags(u) /\ KeepsRoute(u)
           /\ up'[u].backup = db
<1> DEFINE r == [up[u] EXCEPT !.pc = "migrating", !.backup = db]
<1>1. up' = [up EXCEPT ![u] = r]
    BY DEF BacksUp
<1>2. r.pc = "migrating" /\ r.waits = up[u].waits /\ r.migrated = up[u].migrated
      /\ r.switched = up[u].switched /\ r.from = up[u].from /\ r.to = up[u].to
      /\ r.backup = db
    BY RecordTyped DEF UpType
<1> HIDE DEF r
<1>3. up'[u] = r /\ Alone(u)
    BY <1>1, RecordSet
<1> QED BY <1>2, <1>3 DEF KeepsFlags, KeepsRoute

LEMMA MigratesSets ==
    ASSUME PointerInv, NEW u \in Updaters, Migrates(u)
    PROVE  /\ Alone(u) /\ KeepsRoute(u) /\ KeepsCopy(u)
           /\ \/ /\ db.schema = Schema[up[u].to] /\ UNCHANGED <<db, backups>>
                 /\ up'[u].pc = "pointing" /\ up'[u].migrated
                 /\ up'[u].waits = up[u].waits /\ up'[u].switched = up[u].switched
              \/ /\ db' = NextRevision(db)
                 /\ backups' = IF up[u].pc = "migrating" THEN backups \cup {db} ELSE backups
                 /\ up'[u].pc = "midway" /\ KeepsFlags(u)
<1>1. CASE db.schema = Schema[up[u].to]
    <2> DEFINE r == [up[u] EXCEPT !.pc = "pointing", !.migrated = TRUE]
    <2>1. up' = [up EXCEPT ![u] = r] /\ UNCHANGED <<db, backups>>
        BY <1>1 DEF Migrates
    <2>2. r.pc = "pointing" /\ r.waits = up[u].waits /\ r.migrated
          /\ r.switched = up[u].switched /\ r.from = up[u].from /\ r.to = up[u].to
          /\ r.backup = up[u].backup
        BY RecordTyped DEF UpType
    <2> HIDE DEF r
    <2>3. up'[u] = r /\ Alone(u)
        BY <2>1, RecordSet
    <2> QED BY <1>1, <2>1, <2>2, <2>3 DEF KeepsRoute, KeepsCopy
<1>2. CASE db.schema # Schema[up[u].to]
    <2>1. /\ Goes(u, "midway") /\ db' = NextRevision(db)
          /\ backups' = IF up[u].pc = "migrating" THEN backups \cup {db} ELSE backups
        BY <1>2 DEF Migrates
    <2> QED BY <2>1, GoesSets
<1> QED BY <1>1, <1>2

LEMMA PointsSets ==
    ASSUME PointerInv, NEW u \in Updaters, Points(u)
    PROVE  /\ up'[u].pc = "launching" /\ Alone(u) /\ KeepsRoute(u) /\ KeepsCopy(u)
           /\ up'[u].switched
           /\ up'[u].waits = up[u].waits /\ up'[u].migrated = up[u].migrated
<1> DEFINE r == [up[u] EXCEPT !.pc = "launching", !.switched = TRUE]
<1>1. up' = [up EXCEPT ![u] = r]
    BY DEF Points
<1>2. r.pc = "launching" /\ r.waits = up[u].waits /\ r.migrated = up[u].migrated
      /\ r.switched /\ r.from = up[u].from /\ r.to = up[u].to /\ r.backup = up[u].backup
    BY RecordTyped DEF UpType
<1> HIDE DEF r
<1>3. up'[u] = r /\ Alone(u)
    BY <1>1, RecordSet
<1> QED BY <1>2, <1>3 DEF KeepsRoute, KeepsCopy

LEMMA AppEndsSets ==
    ASSUME PointerInv, AppEnds, NEW u \in Updaters
    PROVE  /\ up'[u].pc = up[u].pc /\ ~up'[u].waits
           /\ up'[u].migrated = up[u].migrated /\ up'[u].switched = up[u].switched
           /\ KeepsRoute(u) /\ KeepsCopy(u)
<1>1. up'[u] = [up[u] EXCEPT !.waits = FALSE]
    BY DEF AppEnds
<1> QED BY <1>1, RecordTyped DEF UpType, KeepsRoute, KeepsCopy

\* Everything that an updater does, and everything else.
Updating(u) ==
    \/ Install(u) \/ Enters(u) \/ Stages(u) \/ Waits(u) \/ Places(u)
    \/ BacksUp(u) \/ Migrates(u) \/ Points(u) \/ Launches(u)
    \/ Answers(u) \/ Reports(u)
    \/ Fails(u) \/ PointsBack(u) \/ Restores(u) \/ SkipsLaunch(u)
    \/ Breaks(u) \/ Crashes(u)
Around ==
    \/ UserStarts \/ AppOpens \/ AppMigrates \/ AppReady \/ UserWorks \/ Check \/ Import
    \/ \E v \in Versions : TakesMutex(v) \/ SpawnDies(v)

LEMMA NextKinds == Next => Around \/ AppEnds \/ \E u \in Updaters : Updating(u)
BY DEF Next, Around, Updating

LEMMA AroundKeeps ==
    ASSUME PointerInv, Around
    PROVE  /\ UNCHANGED <<pointer, complete, up, kept>>
           /\ backups \subseteq backups' /\ db.work \subseteq db'.work
<1>1. UNCHANGED <<pointer, complete, up, kept>> /\ backups \subseteq backups'
    BY DEF Around, UserStarts, AppOpens, AppMigrates, AppReady, UserWorks, Check, Import,
       TakesMutex, SpawnDies
<1>2. \/ UNCHANGED db \/ db' = NextRevision(db)
      \/ db' = [db EXCEPT !.work = db.work \cup {done + 1}]
    BY DEF Around, UserStarts, AppOpens, AppMigrates, AppReady, UserWorks, Check, Import,
       TakesMutex, SpawnDies
<1>3. db' = [db EXCEPT !.work = db.work \cup {done + 1}] => db.work \subseteq db'.work
    BY Known DEF Database
<1> QED BY <1>1, <1>2, <1>3, Known, NextRevisionKeepsWork

LEMMA UpdatingAlone ==
    ASSUME PointerInv, NEW u \in Updaters, Updating(u)
    PROVE  Alone(u) /\ UNCHANGED <<app, kept>> /\ complete \subseteq complete'
                    /\ backups \subseteq backups'
<1>1. UNCHANGED <<app, kept>> /\ complete \subseteq complete' /\ backups \subseteq backups'
    BY DEF Updating, Install, Enters, Stages, Waits, Places, BacksUp, Migrates, Points,
       Launches, Answers, Reports, Fails, PointsBack, Restores, SkipsLaunch, Breaks, Crashes
<1>2. CASE Install(u) \/ Enters(u) \/ Waits(u) \/ BacksUp(u) \/ Migrates(u) \/ Points(u)
    BY <1>1, <1>2, InstallSets, EntersSets, WaitsSets, BacksUpSets, MigratesSets, PointsSets
<1>3. CASE \E pc : Goes(u, pc) \/ Ends(u, pc)
    BY <1>1, <1>3, GoesSets, EndsSets
<1> QED BY <1>1, <1>2, <1>3 DEF Updating, Stages, Places, Launches, Answers, Reports, Fails,
        PointsBack, Restores, SkipsLaunch, Breaks, Crashes

---------------------------------------------------------------------------
(* Flags and work.                                                         *)

LEMMA OrderedMoves ==
    ASSUME PointerInv, AllOrdered, NEW u \in Updaters, Updating(u)
    PROVE  Ordered(up'[u])
<1>0. Ordered(up[u])
    BY DEF AllOrdered
<1>1. CASE \E pc \in Ended : Ends(u, pc)
    BY <1>1, EndsSets DEF Ordered, Ended, Migrated, Switched, Handling
<1>2. CASE Install(u)
    <2>1. up[u].pc = "idle"
        BY <1>2 DEF Install
    <2>2. ~up[u].migrated /\ ~up[u].switched
        BY <1>0, <2>1 DEF Ordered, Migrated, Handling
    <2> QED BY <1>2, <2>2, InstallSets DEF Ordered, Migrated, Switched, Handling
<1>3. CASE Enters(u) /\ ~Ends(u, "refused")
    <2>1. up[u].pc = "launched" /\ up'[u].pc = "staging" /\ KeepsFlags(u)
        BY <1>3, EntersSets DEF Enters
    <2> QED BY <1>0, <2>1 DEF Ordered, KeepsFlags, Migrated, Switched, Handling
<1>4. CASE Stages(u) \/ Waits(u) \/ Places(u) \/ BacksUp(u)
    <2>1. /\ KeepsFlags(u)
          /\ << up[u].pc, up'[u].pc >> \in { << "staging", "waiting" >>,
                 << "waiting", "placing" >>, << "placing", "backing" >>,
                 << "backing", "migrating" >> }
          /\ up'[u].waits => up'[u].pc = "waiting"
        <3>1. CASE Stages(u)
            BY <3>1, GoesSets DEF Stages
        <3>2. CASE Waits(u)
            BY <3>2, WaitsSets DEF Waits, KeepsFlags
        <3>3. CASE Places(u)
            BY <1>0, <3>3, GoesSets DEF Places, KeepsFlags, Ordered, Handling
        <3>4. CASE BacksUp(u)
            BY <1>0, <3>4, BacksUpSets DEF BacksUp, KeepsFlags, Ordered, Handling
        <3> QED BY <1>4, <3>1, <3>2, <3>3, <3>4
    <2> QED BY <1>0, <2>1 DEF Ordered, KeepsFlags, Migrated, Switched, Handling
<1>5. CASE Migrates(u)
    <2>1. up[u].pc \in {"migrating", "midway"}
        BY <1>5 DEF Migrates
    <2>2. ~up[u].waits /\ ~up[u].migrated /\ ~up[u].switched
        BY <1>0, <2>1 DEF Ordered, Migrated, Handling
    <2> QED BY <1>5, <2>2, MigratesSets DEF Ordered, KeepsFlags, Migrated, Switched, Handling
<1>6. CASE Points(u)
    <2>1. up[u].pc = "pointing"
        BY <1>6 DEF Points
    <2>2. ~up[u].waits /\ up[u].migrated
        BY <1>0, <2>1 DEF Ordered, Migrated, Handling
    <2> QED BY <1>6, <2>2, PointsSets DEF Ordered, Migrated, Switched, Handling
<1>7. CASE Launches(u) \/ Answers(u)
    <2>1. PICK pc : Goes(u, pc) /\ << up[u].pc, pc >> \in {
                 << "launching", "awaiting" >>, << "awaiting", "reporting" >>,
                 << "relaunching", "reawaiting" >>, << "reawaiting", "apologizing" >> }
        BY <1>7 DEF Launches, Answers
    <2>2. up'[u].pc = pc /\ KeepsFlags(u)
        BY <2>1, GoesSets
    <2> QED BY <1>0, <2>1, <2>2 DEF Ordered, KeepsFlags, Migrated, Switched, Handling
<1>8. CASE Fails(u) \/ PointsBack(u) \/ Restores(u) \/ SkipsLaunch(u)
    <2>1. PICK pc \in Handling : Goes(u, pc)
        BY <1>8 DEF Fails, PointsBack, Restores, SkipsLaunch, Handling
    <2>2. up'[u].pc \in Handling /\ KeepsFlags(u)
        BY <2>1, GoesSets
    <2> QED BY <1>0, <2>2 DEF Ordered, KeepsFlags, Migrated, Switched, Handling
<1> QED BY <1>1, <1>2, <1>3, <1>4, <1>5, <1>6, <1>7, <1>8 DEF Updating, Reports, Breaks,
        Crashes, Ended

LEMMA OrderedStep == ASSUME PointerInv, AllOrdered, Next PROVE AllOrdered'
<1>1. CASE Around
    BY <1>1, AroundKeeps DEF AllOrdered
<1>2. CASE AppEnds
    BY <1>2, AppEndsSets DEF AllOrdered, Ordered
<1>3. CASE \E u \in Updaters : Updating(u)
    BY <1>3, OrderedMoves, UpdatingAlone DEF AllOrdered, Alone
<1> QED BY <1>1, <1>2, <1>3, NextKinds

\* Who has a copy in hand does not wait any more, so that no application leaves for it.
LEMMA CopyInHand ==
    ASSUME AllOrdered, NEW u \in Updaters, HasBackup(up[u])
    PROVE  InHand(u) /\ ~up[u].waits
<1>1. Ordered(up[u])
    BY DEF AllOrdered
<1> QED BY <1>1 DEF HasBackup, InHand, Ordered, Placed, Handling

\* A copy is made of the database, and stays with the updater until it is restored or
\* of no use any more.
LEMMA CopyMade ==
    ASSUME PointerInv, AllOrdered, NEW u \in Updaters, Updating(u), HasBackup(up'[u])
    PROVE  \/ HasBackup(up[u]) /\ KeepsCopy(u)
           \/ BacksUp(u) /\ up'[u].backup = db
<1>0. Ordered(up[u])
    BY DEF AllOrdered
<1>1. CASE \E pc \in Ended : Ends(u, pc)
    BY <1>1, EndsSets DEF HasBackup, Ended, Placed
<1>2. CASE Install(u)
    BY <1>2, InstallSets DEF HasBackup, Placed
<1>3. CASE Enters(u) /\ ~Ends(u, "refused")
    BY <1>3, EntersSets DEF HasBackup, Placed
<1>4. CASE Stages(u) \/ Waits(u) \/ Places(u)
    <2>1. up'[u].pc \in {"waiting", "placing", "backing"}
        BY <1>4, GoesSets, WaitsSets DEF Stages, Places
    <2> QED BY <2>1 DEF HasBackup, Placed
<1>5. CASE BacksUp(u)
    BY <1>5, BacksUpSets
<1>6. CASE Migrates(u) \/ Points(u)
    BY <1>6, MigratesSets, PointsSets DEF Migrates, Points, HasBackup, Placed
<1>7. CASE Launches(u) \/ Answers(u)
    <2>1. PICK pc : Goes(u, pc) /\ << up[u].pc, pc >> \in {
                 << "launching", "awaiting" >>, << "awaiting", "reporting" >>,
                 << "relaunching", "reawaiting" >>, << "reawaiting", "apologizing" >> }
        BY <1>7 DEF Launches, Answers
    <2> QED BY <2>1, GoesSets DEF HasBackup, Placed
<1>8. CASE Fails(u)
    <2>1. up[u].pc \in Working /\ Goes(u, "failing")
        BY <1>8 DEF Fails
    <2>2. up'[u].pc = "failing" /\ KeepsFlags(u) /\ KeepsCopy(u)
        BY <2>1, GoesSets
    <2>3. up[u].migrated
        BY <2>2 DEF HasBackup, Placed, KeepsFlags
    <2>4. up[u].pc \in Migrated
        BY <1>0, <2>1, <2>3 DEF Ordered, Working, Handling
    <2> QED BY <2>2, <2>4 DEF HasBackup, Migrated, Placed
<1>9. CASE PointsBack(u) \/ Restores(u) \/ SkipsLaunch(u)
    <2>1. PICK pc : Goes(u, pc) /\ << up[u].pc, pc >> \in {
                 << "failing", "restoring" >>, << "restoring", "relaunching" >>,
                 << "relaunching", "apologizing" >> }
        BY <1>9 DEF PointsBack, Restores, SkipsLaunch
    <2> QED BY <2>1, GoesSets DEF HasBackup, Placed, KeepsFlags
<1> QED BY <1>1, <1>2, <1>3, <1>4, <1>5, <1>6, <1>7, <1>8, <1>9 DEF Updating, Reports, Breaks,
        Crashes, Ended

\* What an updater does to the database.
LEMMA DatabaseMoves ==
    ASSUME PointerInv, NEW u \in Updaters, Updating(u)
    PROVE  \/ UNCHANGED db
           \/ Migrates(u) /\ db' = NextRevision(db)
           \/ /\ Restores(u) /\ up[u].migrated /\ up[u].pc = "restoring"
              /\ db' = up[u].backup /\ db'.schema = Schema[up[u].from]
<1>1. CASE Restores(u) \/ Migrates(u)
    BY <1>1 DEF Restores, Migrates
<1> QED BY <1>1 DEF Updating, Install, Enters, Stages, Waits, Places, BacksUp, Points,
        Launches, Answers, Reports, Fails, PointsBack, SkipsLaunch, Breaks, Crashes

LEMMA WorkStep == ASSUME UpdateInv, Next PROVE WorkKept'
<1>0. PointerInv /\ AllOrdered /\ WorkKept
    BY DEF UpdateInv
<1>1. CASE Around
    BY <1>0, <1>1, AroundKeeps DEF WorkKept
<1>2. CASE AppEnds
    <2>1. UNCHANGED db /\ kept' = IF LeavesInOrder THEN db.work ELSE kept
        BY <1>2 DEF AppEnds
    <2>2. \A u \in Updaters : HasBackup(up'[u]) => HasBackup(up[u]) /\ KeepsCopy(u)
        BY <1>0, <1>2, AppEndsSets DEF HasBackup
    <2>3. \A u \in Updaters : HasBackup(up[u]) => ~LeavesInOrder
        BY <1>0, CopyInHand DEF LeavesInOrder
    <2> QED BY <1>0, <2>1, <2>2, <2>3 DEF WorkKept, KeepsCopy
<1>3. CASE \E u \in Updaters : Updating(u)
    <2>1. PICK u \in Updaters : Updating(u)
        BY <1>3
    <2>2. Alone(u) /\ UNCHANGED kept
        BY <1>0, <2>1, UpdatingAlone
    <2>3. up[u].migrated /\ up[u].pc = "restoring" => HasBackup(up[u])
        BY DEF HasBackup
    <2>4. kept \subseteq db'.work
        BY <1>0, <2>1, <2>3, DatabaseMoves, Known, NextRevisionKeepsWork DEF WorkKept
    <2>5. HasBackup(up'[u]) => kept \subseteq up'[u].backup.work
        BY <1>0, <2>1, CopyMade DEF WorkKept, KeepsCopy
    <2> QED BY <1>0, <2>2, <2>4, <2>5 DEF WorkKept, Alone
<1> QED BY <1>1, <1>2, <1>3, NextKinds

LEMMA InitUpdate == Init => UpdateInv
<1> SUFFICES ASSUME Init PROVE UpdateInv
    OBVIOUS
<1>1. \A u \in Updaters : up[u] = Idle
    BY DEF Init
<1>2. AllOrdered
    BY <1>1 DEF AllOrdered, Ordered, Idle, Migrated, Switched
<1>3. WorkKept
    BY <1>1 DEF WorkKept, HasBackup, Idle, Placed, Init
<1> QED BY <1>2, <1>3, InitPointer DEF UpdateInv

LEMMA NextUpdate == UpdateInv /\ [Next]_vars => UpdateInv'
<1>1. UpdateInv /\ UNCHANGED vars => UpdateInv'
    <2> SUFFICES ASSUME UpdateInv, UNCHANGED vars PROVE UpdateInv'
        OBVIOUS
    <2>1. PointerInv'
        BY NextPointer DEF UpdateInv
    <2> QED BY <2>1 DEF UpdateInv, vars, AllOrdered, WorkKept
<1>2. UpdateInv /\ Next => UpdateInv'
    BY NextPointer, OrderedStep, WorkStep DEF UpdateInv
<1> QED BY <1>1, <1>2

\* For every number of releases and of updaters, however they overlap, fail and die: what
\* the database held when an application left in order for an update is never lost
\* from it, neither by a migration nor by a handler that puts its copy back.
THEOREM WorkNeverLost == Spec => [](kept \subseteq db.work)
<1>1. UpdateInv => kept \subseteq db.work
    BY DEF UpdateInv, WorkKept
<1> QED BY <1>1, InitUpdate, NextUpdate, PTL DEF Spec

---------------------------------------------------------------------------
(* One update: with two releases.  Then at most one updater ever gets as far *)
(* as the database, whatever is started and how often.                      *)

TwoReleases == \A v, w \in Versions : v # First /\ w # First => v = w

\* It has put its release in place and may have changed the database.
Owns(r) == r.pc \in Placed \/ r.migrated

\* An updater at work goes from the first release to the other.
Routed ==
    \A u \in Updaters : up[u].pc \in Busy => up[u].from = First /\ up[u].to # First

OneOwner ==
    /\ \A u \in Updaters : Owns(up[u]) => up[u].to \in complete
    /\ \A u, w \in Updaters : Owns(up[u]) /\ Owns(up[w]) => u = w

\* An application offers what is newer, and an updater waits for one that could.
Offering ==
    /\ app.life # "off" => service.by = app.version
    /\ service.offer # NoVersion =>
           service.by \in Versions /\ service.offer \in Versions
           /\ service.offer > service.by
    /\ \A u \in Updaters : up[u].waits => app.version = First

\* The pointer is where the updater has left it, and before that nobody has the new
\* release running.
Early == {"backing", "migrating", "midway", "pointing"}
AfterSwitch(r) == r.pc \in Switched \/ (r.pc = "failing" /\ r.switched)
BeforeSwitch(r) ==
    \/ r.pc \in Early
    \/ r.migrated /\ (r.pc = "restoring" \/ (r.pc = "failing" /\ ~r.switched))
Unstarted == pointer = First /\ spawned \subseteq {First} /\ app.version \in {First, NoVersion}

PointerFollows ==
    \A u \in Updaters :
        /\ AfterSwitch(up[u]) => pointer # First
        /\ BeforeSwitch(up[u]) => pointer = First
        /\ up[u].pc \in Early => Unstarted

\* The schema is never below the first release's, and the new one's when needed; the
\* first release never migrates.
SchemaFollows ==
    /\ pointer # First => db.schema = Schema[pointer]
    /\ \A u \in Updaters : up[u].pc = "pointing" => db.schema = Schema[up[u].to]
    /\ db.schema >= Schema[First]
    /\ app.life = "migrating" => app.version # First

\* A published copy that the first release opens.
HasCopy == \E d \in backups : Opens(First, d) /\ kept \subseteq d.work
Rescue == Opens(First, db) \/ HasCopy

\* There is something to go back to, as long as somebody may have to.
Rescued ==
    /\ pointer = First => Rescue
    /\ \A u \in Updaters : HasBackup(up[u]) => Rescue
    /\ app.life = "migrating" => HasCopy
    /\ \A u \in Updaters : up[u].pc = "midway" => HasCopy

PairInv == UpdateInv /\ Routed /\ OneOwner /\ Offering /\ PointerFollows
                     /\ SchemaFollows /\ Rescued

LEMMA Two ==
    ASSUME TwoReleases
    PROVE  /\ First \in Versions /\ Versions \subseteq Nat
           /\ \A v \in Versions : First <= v /\ Schema[v] \in Nat /\ Schema[First] <= Schema[v]
           /\ \A v, w \in Versions : v < w => v = First /\ w # First
           /\ \A v, w \in Versions : v # First /\ w # First => v = w
<1>1. First \in Versions /\ Versions \subseteq Nat
    BY FirstTyped, VersionsAssumption
<1>2. \A w \in Versions : First <= w
    BY FirstAssumption DEF First
<1>3. \A v \in Versions : Schema[v] \in Nat /\ Schema[First] <= Schema[v]
    <2> SUFFICES ASSUME NEW v \in Versions
                 PROVE  Schema[v] \in Nat /\ Schema[First] <= Schema[v]
        OBVIOUS
    <2>1. Schema[v] \in Nat /\ Schema[First] \in Nat
        BY <1>1, SchemaAssumption
    <2>2. v = First \/ First < v
        BY <1>1, <1>2
    <2> QED BY <1>1, <2>1, <2>2, SchemaAssumption
<1>4. \A v, w \in Versions : v # First /\ w # First => v = w
    BY DEF TwoReleases
<1>5. \A v, w \in Versions : v < w => v = First /\ w # First
    BY <1>1, <1>2, <1>4
<1> QED BY <1>1, <1>2, <1>3, <1>4, <1>5

\* Who owns the update is at work on it.
LEMMA OwnerBusy ==
    ASSUME PointerInv, AllOrdered, Routed, NEW u \in Updaters, Owns(up[u])
    PROVE  /\ up[u].pc \in Busy /\ up[u].from = First
           /\ up[u].to \in Versions /\ up[u].to # First
<1>1. Ordered(up[u])
    BY DEF AllOrdered
<1>2. up[u].pc \in Busy
    BY <1>1 DEF Owns, Ordered, Placed, Busy, Working, Handling, Migrated
<1> QED BY <1>2, Known DEF Routed, UpdaterKnows

LEMMA Owners ==
    ASSUME AllOrdered, NEW u \in Updaters
    PROVE  /\ HasBackup(up[u]) => Owns(up[u])
           /\ AfterSwitch(up[u]) => Owns(up[u])
           /\ BeforeSwitch(up[u]) => Owns(up[u])
           /\ up[u].pc \in Early => BeforeSwitch(up[u]) /\ Owns(up[u])
           /\ up[u].migrated \/ up[u].switched => Owns(up[u])
<1>1. Ordered(up[u])
    BY DEF AllOrdered
<1> QED BY <1>1 DEF Ordered, HasBackup, AfterSwitch, BeforeSwitch, Early, Owns, Placed, Switched

LEMMA RoutedStep ==
    ASSUME TwoReleases, PairInv, Next
    PROVE  Routed'
<1>0. PointerInv /\ AllOrdered /\ Routed
    BY DEF PairInv, UpdateInv
<1>1. CASE Around
    BY <1>0, <1>1, AroundKeeps DEF Routed
<1>2. CASE AppEnds
    BY <1>0, <1>2, AppEndsSets DEF Routed, KeepsRoute
<1>3. ASSUME NEW u \in Updaters, Updating(u) PROVE Routed'
    <2>0. Alone(u)
        BY <1>0, <1>3, UpdatingAlone
    <2> SUFFICES up'[u].pc \in Busy => up'[u].from = First /\ up'[u].to # First
        BY <1>0, <2>0 DEF Routed, Alone
    <2>1. CASE \E pc \in Ended : Ends(u, pc)
        BY <1>0, <2>1, EndsSets DEF Ended, Busy, Working, Handling
    <2>2. CASE Install(u)
        BY <1>0, <2>2, InstallSets DEF Busy, Working, Handling
    <2>3. CASE Enters(u) /\ ~Ends(u, "refused")
        <3>1. /\ service.manifest > pointer /\ up'[u].from = pointer
              /\ up'[u].to = service.manifest /\ up[u].pc = "launched"
            BY <1>0, <2>3, EntersSets DEF Enters
        <3>2. service.manifest \in Versions /\ pointer \in Versions
            BY <1>0, <3>1, Known DEF PointerInv, ManifestKnown
        <3>3. pointer < service.manifest
            BY <3>1, <3>2, VersionsAssumption
        <3> QED BY <3>1, <3>2, <3>3, Two
    <2>4. CASE up[u].pc \in Busy /\ KeepsRoute(u)
        BY <1>0, <2>4 DEF Routed, KeepsRoute
    <2>5. CASE up[u].pc \in Busy /\ \E pc : Goes(u, pc)
        BY <1>0, <2>4, <2>5, GoesSets
    <2>6. CASE Waits(u) \/ BacksUp(u) \/ Migrates(u) \/ Points(u)
        <3>1. up[u].pc \in Busy
            BY <2>6 DEF Waits, BacksUp, Migrates, Points, Busy, Working
        <3> QED BY <1>0, <2>4, <2>6, <3>1, WaitsSets, BacksUpSets, MigratesSets, PointsSets
    <2> QED BY <1>3, <2>1, <2>2, <2>3, <2>5, <2>6 DEF Updating, Stages, Places, Launches,
            Answers, Reports, Fails, PointsBack, Restores, SkipsLaunch, Breaks, Crashes,
            Ended, Busy, Working, Handling
<1> QED BY <1>1, <1>2, <1>3, NextKinds

LEMMA OfferingStep ==
    ASSUME TwoReleases, PairInv, Next
    PROVE  Offering'
<1>0. PointerInv /\ AllOrdered /\ Offering
    BY DEF PairInv, UpdateInv
<1>1. /\ service \in [by: MaybeVersion, offer: MaybeVersion,
                      manifest: MaybeVersion, file: MaybeVersion]
      /\ app.version \in MaybeVersion
      /\ app.life # "off" => app.version \in Versions
      /\ app.life = "off" => app.version = NoVersion
      /\ NoVersion \notin Versions
    BY <1>0, NoVersionAssumption DEF PointerInv, TypeOK, MaybeVersion
<1>2. CASE UNCHANGED <<up, service>> /\ app'.version = app.version /\ app.life # "off"
    BY <1>0, <1>2 DEF Offering
<1>3. CASE UNCHANGED <<up, service, app>>
    BY <1>0, <1>3 DEF Offering
<1>4. CASE UserStarts \/ UserWorks \/ \E v \in Versions : SpawnDies(v)
    BY <1>3, <1>4 DEF UserStarts, UserWorks, SpawnDies
<1>5. CASE AppOpens \/ AppMigrates \/ AppReady
    <2>1. app'.version = app.version
        BY <1>0, <1>5 DEF AppOpens, AppMigrates, AppReady, PointerInv, TypeOK
    <2> QED BY <1>2, <1>5, <2>1 DEF AppOpens, AppMigrates, AppReady
<1>6. CASE Check \/ Import
    <2>1. /\ UNCHANGED <<app, up>> /\ app.life # "off"
          /\ \/ service' = [service EXCEPT !.offer = NoVersion]
             \/ \E v \in Versions, f \in MaybeVersion :
                   /\ v > app.version
                   /\ service' = [service EXCEPT !.offer = v, !.manifest = v, !.file = f]
        BY <1>6 DEF Check, Import, MaybeVersion
    <2>2. service'.by = service.by
        BY <1>1, <2>1
    <2>3. \/ service'.offer = NoVersion
          \/ service'.offer \in Versions /\ service'.offer > app.version
        BY <1>1, <2>1
    <2> QED BY <1>0, <1>1, <2>1, <2>2, <2>3 DEF Offering
<1>7. ASSUME NEW v \in Versions, TakesMutex(v) PROVE Offering'
    <2>1. CASE app.life = "off"
        <3>1. /\ UNCHANGED up
              /\ app' = [version |-> v, life |-> "booting"]
              /\ service' = Loaded(v)
            BY <1>7, <2>1 DEF TakesMutex
        <3>2. /\ service'.by = v
              /\ service'.offer = IF service.by = v THEN service.offer ELSE NoVersion
            BY <1>1, <3>1 DEF Loaded
        <3>3. app.version # First
            BY <1>1, <2>1, FirstTyped
        <3>4. \A u \in Updaters : ~up[u].waits
            BY <1>0, <3>3 DEF Offering
        <3>5. service'.offer # NoVersion =>
                  service'.by \in Versions /\ service'.offer \in Versions
                  /\ service'.offer > service'.by
            BY <1>0, <3>2 DEF Offering
        <3> QED BY <3>1, <3>2, <3>4, <3>5 DEF Offering
    <2>2. CASE app.life # "off"
        BY <1>3, <1>7, <2>2 DEF TakesMutex
    <2> QED BY <2>1, <2>2
<1>8. CASE AppEnds
    <2>1. UNCHANGED service /\ app' = [version |-> NoVersion, life |-> "off"]
        BY <1>8 DEF AppEnds
    <2>2. \A u \in Updaters : ~up'[u].waits
        BY <1>0, <1>8, AppEndsSets
    <2> QED BY <1>0, <2>1, <2>2 DEF Offering
<1>9. ASSUME NEW u \in Updaters, Updating(u) PROVE Offering'
    <2>0. Alone(u) /\ UNCHANGED app
        BY <1>0, <1>9, UpdatingAlone
    <2>1. CASE Install(u)
        <3>1. /\ app.life # "off" /\ service.offer # NoVersion
              /\ service' = [service EXCEPT !.offer = NoVersion]
            BY <2>1 DEF Install
        <3>2. service.offer \in Versions /\ service.by \in Versions
              /\ service.by < service.offer /\ service.by = app.version
            BY <1>0, <3>1, VersionsAssumption DEF Offering
        <3>3. app.version = First
            BY <3>2, Two
        <3>4. service'.by = service.by /\ service'.offer = NoVersion
            BY <1>1, <3>1
        <3> QED BY <1>0, <2>0, <3>3, <3>4 DEF Offering, Alone
    <2>2. CASE ~Install(u)
        <3>1. UNCHANGED service
            BY <1>9, <2>2 DEF Updating, Enters, Stages, Waits, Places, BacksUp, Migrates, Points,
               Launches, Answers, Reports, Fails, PointsBack, Restores, SkipsLaunch, Breaks,
               Crashes
        <3>2. up'[u].waits => up[u].waits
            <4>1. CASE \E pc : Goes(u, pc) \/ Ends(u, pc)
                BY <1>0, <4>1, GoesSets, EndsSets DEF KeepsFlags
            <4>2. CASE Enters(u) \/ Waits(u) \/ BacksUp(u) \/ Migrates(u) \/ Points(u)
                BY <1>0, <4>1, <4>2, EntersSets, WaitsSets, BacksUpSets, MigratesSets,
                   PointsSets DEF KeepsFlags
            <4> QED BY <1>9, <2>2, <4>1, <4>2 DEF Updating, Stages, Places, Launches, Answers,
                    Reports, Fails, PointsBack, Restores, SkipsLaunch, Breaks, Crashes
        <3> QED BY <1>0, <2>0, <3>1, <3>2 DEF Offering, Alone
    <2> QED BY <2>1, <2>2
<1> QED BY <1>4, <1>5, <1>6, <1>7, <1>8, <1>9, NextKinds DEF Around

\* Somebody else's step does not touch an owner, and a place is taken once.
LEMMA OwnerStep ==
    ASSUME TwoReleases, PairInv, Next
    PROVE  OneOwner'
<1>0. PointerInv /\ AllOrdered /\ Routed /\ OneOwner
    BY DEF PairInv, UpdateInv
<1>1. CASE Around
    BY <1>0, <1>1, AroundKeeps DEF OneOwner, Owns
<1>2. CASE AppEnds
    <2>1. UNCHANGED complete
        BY <1>2 DEF AppEnds
    <2>2. \A u \in Updaters : (Owns(up'[u]) <=> Owns(up[u])) /\ up'[u].to = up[u].to
        BY <1>0, <1>2, AppEndsSets DEF Owns, KeepsRoute
    <2> QED BY <1>0, <2>1, <2>2 DEF OneOwner
<1>3. ASSUME NEW u \in Updaters, Updating(u) PROVE OneOwner'
    <2>0. Alone(u) /\ complete \subseteq complete'
        BY <1>0, <1>3, UpdatingAlone
    <2>1. CASE Owns(up'[u]) => Owns(up[u]) /\ KeepsRoute(u)
        BY <1>0, <2>0, <2>1 DEF OneOwner, Alone, KeepsRoute
    <2>2. CASE Places(u)
        <3>1. /\ up[u].pc = "placing" /\ up[u].to \notin complete
              /\ complete' = complete \cup {up[u].to} /\ Goes(u, "backing")
            BY <2>2 DEF Places
        <3>2. up'[u].to = up[u].to
            BY <1>0, <3>1, GoesSets DEF KeepsRoute
        <3>3. up[u].to \in Versions /\ up[u].to # First
            BY <1>0, <3>1, Known DEF UpdaterKnows, Routed, Busy, Working
        <3>4. \A w \in Updaters : ~Owns(up[w])
            BY <1>0, <3>1, <3>3, Two, OwnerBusy DEF OneOwner
        <3> QED BY <2>0, <3>1, <3>2, <3>4 DEF OneOwner, Alone
    <2>3. CASE \E pc \in Ended : Ends(u, pc)
        BY <1>0, <2>1, <2>3, EndsSets DEF Owns, Ended, Placed
    <2>4. CASE Install(u) \/ (Enters(u) /\ ~Ends(u, "refused"))
        <3>1. Ordered(up[u]) /\ up[u].pc \in {"idle", "launched"}
            BY <1>0, <2>4 DEF AllOrdered, Install, Enters
        <3>2. ~up[u].migrated
            BY <3>1 DEF Ordered, Migrated, Handling
        <3>3. up'[u].pc \in {"launched", "staging"} /\ up'[u].migrated = up[u].migrated
            BY <1>0, <2>4, InstallSets, EntersSets DEF KeepsFlags
        <3> QED BY <2>1, <3>2, <3>3 DEF Owns, Placed
    <2>5. CASE Stages(u) \/ Waits(u)
        <3>1. up'[u].pc \in {"waiting", "placing"} /\ KeepsFlags(u) /\ KeepsRoute(u)
            BY <1>0, <2>5, GoesSets, WaitsSets DEF Stages
        <3> QED BY <2>1, <3>1 DEF Owns, Placed, KeepsFlags
    <2>6. CASE BacksUp(u) \/ Migrates(u) \/ Points(u)
        <3>1. Owns(up[u])
            BY <2>6 DEF BacksUp, Migrates, Points, Owns, Placed
        <3>2. KeepsRoute(u)
            BY <1>0, <2>6, BacksUpSets, MigratesSets, PointsSets
        <3> QED BY <2>1, <3>1, <3>2
    <2>7. CASE Launches(u) \/ Answers(u) \/ Fails(u) \/ PointsBack(u) \/ Restores(u)
                 \/ SkipsLaunch(u)
        <3>1. PICK pc : /\ Goes(u, pc)
                        /\ pc \in Placed => up[u].pc \in Placed
            BY <2>7 DEF Launches, Answers, Fails, PointsBack, Restores, SkipsLaunch, Placed
        <3>2. up'[u].pc = pc /\ KeepsFlags(u) /\ KeepsRoute(u)
            BY <1>0, <3>1, GoesSets
        <3> QED BY <2>1, <3>1, <3>2 DEF Owns, KeepsFlags
    <2> QED BY <1>3, <2>2, <2>3, <2>4, <2>5, <2>6, <2>7 DEF Updating, Reports, Breaks, Crashes,
            Ended
<1> QED BY <1>1, <1>2, <1>3, NextKinds

\* Where an updater may be before it is somewhere on its way with the pointer.
LEMMA EarlyMoves ==
    ASSUME PairInv, NEW u \in Updaters, Updating(u), up'[u].pc \in Early
    PROVE  up[u].pc \in Early \/ Places(u)
<1>0. PointerInv
    BY DEF PairInv, UpdateInv
<1>1. CASE \E pc \in Ended \cup Handling : Goes(u, pc) \/ Ends(u, pc)
    BY <1>0, <1>1, GoesSets, EndsSets DEF Early, Ended, Handling
<1>2. CASE Install(u) \/ Enters(u) \/ Waits(u) \/ Points(u)
    BY <1>0, <1>1, <1>2, InstallSets, EntersSets, WaitsSets, PointsSets DEF Early, Ended
<1>3. CASE Stages(u)
    BY <1>0, <1>3, GoesSets DEF Stages, Early
<1>4. CASE BacksUp(u) \/ Migrates(u)
    BY <1>4 DEF BacksUp, Migrates, Early
<1>5. CASE Launches(u) \/ Answers(u)
    <2>1. \E pc \in {"awaiting", "reawaiting", "reporting", "apologizing"} : Goes(u, pc)
        BY <1>5 DEF Launches, Answers
    <2> QED BY <1>0, <2>1, GoesSets DEF Early
<1> QED BY <1>1, <1>2, <1>3, <1>4, <1>5 DEF Updating, Reports, Fails, PointsBack, Restores,
        SkipsLaunch, Breaks, Crashes, Ended, Handling

\* While the new release is not in place, or nobody has put it into the pointer, only
\* the first one is started.
LEMMA UnstartedPlaced ==
    ASSUME TwoReleases, PairInv, NEW u \in Updaters, Places(u)
    PROVE  Unstarted'
<1>0. PointerInv /\ Routed
    BY DEF PairInv, UpdateInv
<1>1. /\ up[u].to \notin complete /\ up[u].to \in Versions /\ up[u].to # First
      /\ UNCHANGED <<pointer, app, spawned>>
    BY <1>0, Known DEF Places, UpdaterKnows, Routed, Busy, Working
<1>2. \A v \in complete : v = First
    BY <1>0, <1>1, Two, Known
<1>3. pointer \in complete /\ spawned \subseteq complete
      /\ (app.version \in complete \/ app.version = NoVersion)
    BY <1>0 DEF PointerInv, TypeOK, PointerComplete
<1> QED BY <1>1, <1>2, <1>3 DEF Unstarted

LEMMA UnstartedStays ==
    ASSUME PairInv, Unstarted, Next, UNCHANGED pointer
    PROVE  Unstarted'
<1>0. PointerInv
    BY DEF PairInv, UpdateInv
<1>1. spawned' \subseteq spawned \cup {pointer}
    BY DEF Next, UserStarts, AppOpens, AppMigrates, AppReady, UserWorks, Check, Import,
       TakesMutex, SpawnDies, AppEnds, Spawned, Install, Enters, Stages, Waits, Places,
       BacksUp, Migrates, Points, Launches, Answers, Reports, Fails, PointsBack, Restores,
       SkipsLaunch, Breaks, Crashes
<1>2. app'.version \in {app.version, NoVersion} \cup spawned
    <2>1. CASE UNCHANGED app
        BY <2>1
    <2>2. CASE AppOpens \/ AppMigrates \/ AppReady
        BY <1>0, <2>2 DEF AppOpens, AppMigrates, AppReady, PointerInv, TypeOK
    <2>3. CASE AppEnds \/ \E v \in Versions : TakesMutex(v)
        BY <2>3 DEF AppEnds, TakesMutex
    <2>4. CASE \E u \in Updaters : Updating(u)
        BY <1>0, <2>4, UpdatingAlone
    <2> QED BY <2>1, <2>2, <2>3, <2>4, NextKinds DEF Around, UserStarts, UserWorks, Check,
            Import, SpawnDies
<1> QED BY <1>1, <1>2 DEF Unstarted

LEMMA PointerStep ==
    ASSUME TwoReleases, PairInv, Next
    PROVE  PointerFollows'
<1>0. PointerInv /\ AllOrdered /\ Routed /\ OneOwner /\ PointerFollows
    BY DEF PairInv, UpdateInv
<1>1. CASE Around
    <2>1. UNCHANGED <<pointer, up>>
        BY <1>0, <1>1, AroundKeeps
    <2> QED BY <1>0, <2>1, UnstartedStays DEF PointerFollows
<1>2. CASE AppEnds
    <2>1. UNCHANGED pointer
        BY <1>2 DEF AppEnds
    <2>2. \A u \in Updaters :
              /\ AfterSwitch(up'[u]) <=> AfterSwitch(up[u])
              /\ BeforeSwitch(up'[u]) <=> BeforeSwitch(up[u])
              /\ up'[u].pc = up[u].pc
        BY <1>0, <1>2, AppEndsSets DEF AfterSwitch, BeforeSwitch
    <2> QED BY <1>0, <2>1, <2>2, UnstartedStays DEF PointerFollows
<1>3. ASSUME NEW u \in Updaters, Updating(u) PROVE PointerFollows'
    <2>0. Alone(u)
        BY <1>0, <1>3, UpdatingAlone
    \* Nobody else is on the way when an owner moves the pointer.
    <2>1. ASSUME Owns(up[u]), NEW w \in Updaters, w # u
          PROVE  ~Owns(up'[w]) /\ ~AfterSwitch(up'[w]) /\ ~BeforeSwitch(up'[w])
                 /\ up'[w].pc \notin Early
        <3>1. up'[w] = up[w] /\ ~Owns(up[w])
            BY <1>0, <2>0, <2>1 DEF Alone, OneOwner
        <3> QED BY <1>0, <3>1, Owners
    <2>2. CASE Points(u)
        <3>1. up[u].pc = "pointing" /\ pointer' = up[u].to
            BY <2>2 DEF Points
        <3>2. Owns(up[u])
            BY <3>1 DEF Owns, Placed
        <3>3. pointer' # First
            BY <1>0, <3>1, <3>2, OwnerBusy
        <3>4. up'[u].pc = "launching"
            BY <1>0, <2>2, PointsSets
        <3>5. AfterSwitch(up'[u]) /\ ~BeforeSwitch(up'[u]) /\ up'[u].pc \notin Early
            BY <3>4 DEF AfterSwitch, BeforeSwitch, Early, Switched
        <3> QED BY <2>1, <3>2, <3>3, <3>5 DEF PointerFollows
    <2>3. CASE PointsBack(u)
        <3>0. up[u].pc = "failing" /\ Goes(u, "restoring")
              /\ pointer' = IF up[u].switched THEN up[u].from ELSE pointer
            BY <2>3 DEF PointsBack
        <3>1. up'[u].pc = "restoring" /\ KeepsFlags(u)
            BY <1>0, <3>0, GoesSets
        <3>2. ~AfterSwitch(up'[u]) /\ up'[u].pc \notin Early
              /\ (BeforeSwitch(up'[u]) => up[u].migrated)
            BY <3>1 DEF AfterSwitch, BeforeSwitch, Early, Switched, KeepsFlags
        <3>3. CASE up[u].switched
            <4>1. Owns(up[u])
                BY <1>0, <3>3, Owners
            <4>2. pointer' = First
                BY <1>0, <3>0, <3>3, <4>1, OwnerBusy
            <4> QED BY <2>1, <3>2, <4>1, <4>2 DEF PointerFollows
        <3>4. CASE ~up[u].switched
            <4>1. UNCHANGED pointer
                BY <3>0, <3>4
            <4>2. up[u].migrated => BeforeSwitch(up[u])
                BY <3>0, <3>4 DEF BeforeSwitch
            <4> QED BY <1>0, <2>0, <3>2, <4>1, <4>2, UnstartedStays DEF PointerFollows, Alone
        <3> QED BY <3>3, <3>4
    <2>4. CASE ~Points(u) /\ ~PointsBack(u)
        <3>1. UNCHANGED pointer
            BY <1>3, <2>4 DEF Updating, Install, Enters, Stages, Waits, Places, BacksUp, Migrates,
               Launches, Answers, Reports, Fails, Restores, SkipsLaunch, Breaks, Crashes
        <3> SUFFICES /\ AfterSwitch(up'[u]) => AfterSwitch(up[u])
                     /\ BeforeSwitch(up'[u]) => BeforeSwitch(up[u]) \/ Places(u)
                     /\ up'[u].pc \in Early => up[u].pc \in Early \/ Places(u)
            BY <1>0, <2>0, <3>1, UnstartedStays, UnstartedPlaced DEF PointerFollows, Alone, Unstarted
        <3>2. up'[u].pc \in Early => up[u].pc \in Early \/ Places(u)
            BY <1>3, EarlyMoves
        <3>3. CASE \E pc \in Ended : Ends(u, pc)
            BY <1>0, <3>2, <3>3, EndsSets DEF AfterSwitch, BeforeSwitch, Ended, Switched, Early
        <3>4. CASE Fails(u)
            <4>1. up'[u].pc = "failing" /\ KeepsFlags(u) /\ up[u].pc \in Working
                BY <1>0, <3>4, GoesSets DEF Fails
            <4>2. Ordered(up[u])
                BY <1>0 DEF AllOrdered
            <4>3. /\ up[u].switched => up[u].pc \in Switched
                  /\ up[u].migrated /\ ~up[u].switched => up[u].pc = "pointing"
                BY <4>1, <4>2 DEF Ordered, Working, Handling, Migrated, Switched
            <4> QED BY <3>2, <4>1, <4>3 DEF AfterSwitch, BeforeSwitch, Early, Switched, KeepsFlags
        <3>5. CASE Install(u) \/ (Enters(u) /\ ~Ends(u, "refused")) \/ Stages(u) \/ Waits(u)
                    \/ Places(u) \/ BacksUp(u) \/ Migrates(u)
            <4>1. up'[u].pc \in Early \cup {"launched", "staging", "waiting", "placing"}
                BY <1>0, <3>5, InstallSets, EntersSets, GoesSets, WaitsSets, BacksUpSets,
                   MigratesSets DEF Stages, Places, Early
            <4>2. ~AfterSwitch(up'[u]) /\ (BeforeSwitch(up'[u]) => up'[u].pc \in Early)
                BY <4>1 DEF AfterSwitch, BeforeSwitch, Early, Switched
            <4> QED BY <3>2, <4>2 DEF BeforeSwitch
        <3>6. CASE Launches(u) \/ Answers(u) \/ Restores(u) \/ SkipsLaunch(u)
            <4>1. PICK pc : /\ Goes(u, pc)
                            /\ pc \in {"awaiting", "reporting", "reawaiting", "apologizing",
                                       "relaunching"}
                            /\ pc \in Switched => up[u].pc \in Switched
                BY <3>6 DEF Launches, Answers, Restores, SkipsLaunch, Switched
            <4>2. up'[u].pc = pc
                BY <1>0, <4>1, GoesSets
            <4> QED BY <3>2, <4>1, <4>2 DEF AfterSwitch, BeforeSwitch, Early, Switched
        <3> QED BY <1>3, <2>4, <3>3, <3>4, <3>5, <3>6 DEF Updating, Reports, Breaks, Crashes,
                Ended
    <2> QED BY <2>2, <2>3, <2>4
<1> QED BY <1>1, <1>2, <1>3, NextKinds

\* The database is changed by an application that migrates, by the one updater that
\* migrates, and by the one that restores.
LEMMA SchemaMoves ==
    ASSUME PointerInv, Next
    PROVE  \/ db'.schema = db.schema /\ db'.half = db.half
           \/ /\ AppOpens \/ AppMigrates
              /\ db' = NextRevision(db) /\ db.schema # Schema[app.version]
           \/ \E u \in Updaters : Migrates(u) /\ db' = NextRevision(db)
           \/ \E u \in Updaters : /\ Restores(u) /\ up[u].migrated /\ up[u].pc = "restoring"
                                  /\ db' = up[u].backup /\ db'.schema = Schema[up[u].from]
<1>1. CASE \E u \in Updaters : Updating(u)
    BY <1>1, DatabaseMoves
<1>2. CASE UserWorks
    BY <1>2, Known DEF UserWorks, Database
<1>3. CASE AppOpens \/ AppMigrates
    BY <1>3 DEF AppOpens, AppMigrates
<1> QED BY <1>1, <1>2, <1>3, NextKinds DEF Around, UserStarts, AppReady, Check, Import,
        TakesMutex, SpawnDies, AppEnds

LEMMA NextRevisionUp ==
    ASSUME NEW d \in Database
    PROVE  NextRevision(d).schema \in {d.schema, d.schema + 1}
BY DEF NextRevision, Database

\* An application that changes the schema is the new release's, and the pointer does
\* not name it yet or any more.
LEMMA AppChanges ==
    ASSUME TwoReleases, PairInv, AppOpens \/ AppMigrates, db.schema # Schema[app.version]
    PROVE  app.version # First /\ pointer = First /\ \A u \in Updaters : up[u].pc \notin Early
<1>0. PointerInv /\ PointerFollows /\ SchemaFollows
    BY DEF PairInv, UpdateInv
<1>1. app.version \in Versions /\ pointer \in Versions /\ app.version # NoVersion
      /\ db.schema \in Nat
    <2>1. app.life # "off"
        BY DEF AppOpens, AppMigrates
    <2> QED BY <1>0, <2>1, NoVersionAssumption DEF PointerInv, TypeOK, MaybeVersion, Database
<1>2. app.version # First
    <2>1. CASE AppMigrates
        BY <1>0, <2>1 DEF AppMigrates, SchemaFollows
    <2>2. CASE AppOpens
        <3>1. db.schema < Schema[app.version]
            BY <2>2 DEF AppOpens, Opens
        <3>2. Schema[First] \in Nat /\ db.schema >= Schema[First]
            BY <1>0, Two DEF SchemaFollows
        <3> QED BY <1>1, <3>1, <3>2
    <2> QED BY <2>1, <2>2
<1>3. pointer = First
    <2>1. pointer # First => pointer = app.version
        BY <1>1, <1>2 DEF TwoReleases
    <2> QED BY <1>0, <2>1 DEF SchemaFollows
<1>4. \A u \in Updaters : up[u].pc \notin Early
    BY <1>0, <1>1, <1>2 DEF PointerFollows, Unstarted
<1> QED BY <1>2, <1>3, <1>4

LEMMA SchemaStep ==
    ASSUME TwoReleases, PairInv, Next
    PROVE  SchemaFollows'
<1>0. PointerInv /\ AllOrdered /\ Routed /\ OneOwner /\ PointerFollows /\ SchemaFollows
    BY DEF PairInv, UpdateInv
<1>01. db \in Database /\ db.schema \in Nat /\ Schema[First] \in Nat /\ First \in Versions
    BY <1>0, Known, Two DEF Database
    \* The first release never migrates.
<1>1. app'.life = "migrating" => app'.version # First
    <2>1. CASE UNCHANGED app
        BY <1>0, <2>1 DEF SchemaFollows
    <2>2. CASE AppOpens \/ AppMigrates
        <3>1. app'.version = app.version
            BY <1>0, <2>2 DEF AppOpens, AppMigrates, PointerInv, TypeOK
        <3>2. app'.life = "migrating" => app.life = "migrating" \/ db.schema # Schema[app.version]
            BY <1>0, <2>2 DEF AppOpens, AppMigrates, PointerInv, TypeOK
        <3> QED BY <1>0, <2>2, <3>1, <3>2, AppChanges DEF SchemaFollows
    <2>3. CASE AppEnds \/ AppReady \/ \E v \in Versions : TakesMutex(v)
        BY <1>0, <2>1, <2>3 DEF AppEnds, AppReady, TakesMutex, PointerInv, TypeOK
    <2>4. CASE \E u \in Updaters : Updating(u)
        BY <1>0, <2>1, <2>4, UpdatingAlone
    <2> QED BY <2>1, <2>2, <2>3, <2>4, NextKinds DEF Around, UserStarts, UserWorks, Check,
            Import, SpawnDies
<1>2. db'.schema >= Schema[First]
    <2>1. CASE db'.schema = db.schema
        BY <1>0, <2>1 DEF SchemaFollows
    <2>2. CASE db' = NextRevision(db)
        BY <1>0, <1>01, <2>2, NextRevisionUp DEF SchemaFollows
    <2>3. CASE \E u \in Updaters : up[u].migrated /\ db'.schema = Schema[up[u].from]
        BY <1>0, <1>01, <2>3, Owners, OwnerBusy
    <2> QED BY <1>0, <2>1, <2>2, <2>3, SchemaMoves
    \* Who migrates or restores finds the first release in the pointer.
<1>3. ASSUME pointer # First
      PROVE  db'.schema = db.schema
    <2>1. ~ \E u \in Updaters : Migrates(u)
        BY <1>0, <1>3 DEF Migrates, PointerFollows, BeforeSwitch, Early
    <2>2. ~ \E u \in Updaters : up[u].migrated /\ up[u].pc = "restoring"
        BY <1>0, <1>3 DEF PointerFollows, BeforeSwitch
    <2> QED BY <1>0, <1>3, <2>1, <2>2, SchemaMoves, AppChanges
<1>4. ASSUME pointer' # First
      PROVE  db'.schema = Schema[pointer']
    <2>1. CASE UNCHANGED pointer
        BY <1>0, <1>3, <1>4, <2>1 DEF SchemaFollows
    <2>2. CASE \E u \in Updaters : Points(u)
        BY <1>0, <2>2 DEF Points, SchemaFollows
    <2>3. CASE \E u \in Updaters : PointsBack(u)
        <3>1. PICK u \in Updaters : PointsBack(u)
            BY <2>3
        <3>2. up[u].switched => up[u].from = First
            BY <1>0, Owners, OwnerBusy
        <3> QED BY <1>4, <2>1, <3>1, <3>2 DEF PointsBack
    <2>4. CASE \E u \in Updaters : Updating(u) /\ ~Points(u) /\ ~PointsBack(u)
        BY <2>1, <2>4 DEF Updating, Install, Enters, Stages, Waits, Places, BacksUp, Migrates,
           Launches, Answers, Reports, Fails, Restores, SkipsLaunch, Breaks, Crashes
    <2>5. CASE Around \/ AppEnds
        BY <1>0, <2>1, <2>5, AroundKeeps DEF AppEnds
    <2> QED BY <2>2, <2>3, <2>4, <2>5, NextKinds
    \* An updater that is about to move the pointer has the schema for it.
<1>5. ASSUME NEW u \in Updaters, up'[u].pc = "pointing"
      PROVE  db'.schema = Schema[up'[u].to]
    <2>1. CASE up[u].pc = "pointing" /\ up'[u].to = up[u].to
        <3>1. Owns(up[u]) /\ up[u].pc \in Early
            BY <2>1 DEF Owns, Placed, Early
        <3>2. ~ \E w \in Updaters : Migrates(w)
            BY <1>0, <2>1, <3>1 DEF Migrates, OneOwner, Owns, Placed
        <3>3. ~ \E w \in Updaters : up[w].migrated /\ up[w].pc = "restoring"
            BY <1>0, <2>1, <3>1 DEF OneOwner, Owns
        <3>4. db'.schema = db.schema
            BY <1>0, <3>1, <3>2, <3>3, SchemaMoves, AppChanges
        <3> QED BY <1>0, <2>1, <3>4 DEF SchemaFollows
    <2>2. CASE Migrates(u)
        BY <1>0, <1>5, <2>2, MigratesSets DEF KeepsRoute
    <2>3. CASE Around \/ AppEnds
        BY <1>0, <1>5, <2>1, <2>3, AroundKeeps, AppEndsSets DEF KeepsRoute
    <2>4. CASE \E w \in Updaters : Updating(w) /\ w # u
        BY <1>0, <1>5, <2>1, <2>4, UpdatingAlone DEF Alone
    <2>5. CASE Updating(u) /\ ~Migrates(u)
        <3>1. \E pc \in (Working \cup Handling \cup Ended) \ {"pointing"} :
                  Goes(u, pc) \/ Ends(u, pc) \/ up'[u].pc \in {"launched", pc}
            <4>1. CASE Install(u) \/ Waits(u) \/ BacksUp(u) \/ Points(u)
                BY <1>0, <4>1, InstallSets, WaitsSets, BacksUpSets, PointsSets DEF Working
            <4>2. CASE Enters(u)
                BY <1>0, <4>2, EntersSets DEF Working, Ended
            <4> QED BY <2>5, <4>1, <4>2 DEF Updating, Stages, Places, Launches, Answers, Reports,
                    Fails, PointsBack, Restores, SkipsLaunch, Breaks, Crashes, Working,
                    Handling, Ended
        <3> QED BY <1>0, <1>5, <3>1, GoesSets, EndsSets
    <2> QED BY <2>2, <2>3, <2>4, <2>5, NextKinds
<1> QED BY <1>1, <1>2, <1>4, <1>5 DEF SchemaFollows

LEMMA CopyStays ==
    ASSUME backups \subseteq backups', UNCHANGED kept, HasCopy
    PROVE  HasCopy'
BY DEF HasCopy, Opens

\* What is copied before it is changed can be gone back to.
LEMMA CopyTaken ==
    ASSUME UpdateInv, Rescue, db \in backups', backups \subseteq backups', UNCHANGED kept
    PROVE  HasCopy'
<1>1. kept' \subseteq db.work
    BY DEF UpdateInv, WorkKept
<1>2. CASE Opens(First, db)
    BY <1>1, <1>2 DEF HasCopy, Opens
<1> QED BY <1>2, CopyStays DEF Rescue

LEMMA RescueStays ==
    ASSUME TwoReleases, PairInv, Next, ~AppEnds, Rescue
    PROVE  Rescue'
<1>0. PointerInv /\ AllOrdered /\ Routed /\ Rescued /\ UpdateInv
    BY DEF PairInv, UpdateInv
<1>1. UNCHANGED kept /\ backups \subseteq backups'
    BY <1>0, NextKinds, AroundKeeps, UpdatingAlone
<1>2. CASE db'.schema = db.schema /\ db'.half = db.half
    BY <1>1, <1>2, CopyStays DEF Rescue, Opens
<1>3. CASE (AppOpens \/ AppMigrates) /\ db' = NextRevision(db) /\ db.schema # Schema[app.version]
    BY <1>0, <1>1, <1>3, CopyTaken, CopyStays DEF AppOpens, AppMigrates, Rescued, Rescue
<1>4. CASE \E u \in Updaters : Migrates(u) /\ db' = NextRevision(db)
    <2>1. PICK u \in Updaters : Migrates(u) /\ db' = NextRevision(db)
        BY <1>4
    <2>2. CASE up[u].pc = "midway"
        BY <1>0, <1>1, <2>2, CopyStays DEF Rescued, Rescue
    <2>3. CASE up[u].pc = "migrating" /\ ~ UNCHANGED db
        BY <1>0, <1>1, <2>1, <2>3, MigratesSets, CopyTaken DEF Rescue
    <2>4. CASE UNCHANGED db
        BY <1>2, <2>4
    <2> QED BY <2>1, <2>2, <2>3, <2>4 DEF Migrates
<1>5. CASE \E u \in Updaters : up[u].migrated /\ db'.schema = Schema[up[u].from]
    <2>1. db'.schema = Schema[First]
        BY <1>0, <1>5, Owners, OwnerBusy
    <2> QED BY <2>1 DEF Rescue, Opens
<1> QED BY <1>0, <1>2, <1>3, <1>4, <1>5, SchemaMoves

LEMMA RescueStep ==
    ASSUME TwoReleases, PairInv, Next
    PROVE  Rescued'
<1>0. /\ PointerInv /\ AllOrdered /\ Routed /\ Rescued /\ UpdateInv /\ Offering
      /\ PointerFollows /\ SchemaFollows
    BY DEF PairInv, UpdateInv
<1>1. CASE AppEnds
    <2>1. /\ UNCHANGED <<pointer, db, backups>> /\ app'.life = "off"
          /\ kept' = IF LeavesInOrder THEN db.work ELSE kept
        BY <1>1 DEF AppEnds
    <2>2. \A u \in Updaters : /\ up'[u].pc = up[u].pc
                              /\ HasBackup(up'[u]) <=> HasBackup(up[u])
        BY <1>0, <1>1, AppEndsSets DEF HasBackup
    <2>3. CASE UNCHANGED kept
        <3>1. (Rescue <=> Rescue') /\ (HasCopy <=> HasCopy')
            BY <2>1, <2>3 DEF Rescue, HasCopy, Opens
        <3> QED BY <1>0, <2>1, <2>2, <3>1 DEF Rescued
    <2>4. CASE LeavesInOrder
        <3>1. \A u \in Updaters : ~HasBackup(up[u])
            BY <1>0, <2>4, CopyInHand DEF LeavesInOrder
        <3>2. \A u \in Updaters : up[u].pc # "midway"
            BY <3>1 DEF HasBackup, Placed
        <3>3. Opens(First, db)
            BY <1>0, <2>4 DEF LeavesInOrder, Offering
        <3>4. Rescue'
            BY <2>1, <3>3 DEF Rescue, Opens
        <3> QED BY <2>1, <2>2, <3>1, <3>2, <3>4 DEF Rescued
    <2> QED BY <2>1, <2>3, <2>4
<1>2. CASE ~AppEnds
    <2>0. UNCHANGED kept /\ backups \subseteq backups'
        BY <1>0, <1>2, NextKinds, AroundKeeps, UpdatingAlone
    <2>1. Rescue => Rescue'
        BY <1>2, RescueStays
    \* The pointer comes back only from an updater that has a copy.
    <2>2. pointer' = First => Rescue'
        <3>1. CASE UNCHANGED pointer
            BY <1>0, <2>1, <3>1 DEF Rescued
        <3>2. CASE \E u \in Updaters : Points(u) \/ PointsBack(u)
            <4>1. PICK u \in Updaters : Points(u) \/ PointsBack(u)
                BY <3>2
            <4>2. Ordered(up[u])
                BY <1>0 DEF AllOrdered
            <4>3. HasBackup(up[u]) \/ UNCHANGED pointer
                BY <4>1, <4>2 DEF Points, PointsBack, HasBackup, Placed, Ordered
            <4> QED BY <1>0, <2>1, <3>1, <4>3 DEF Rescued
        <3>3. CASE \E u \in Updaters : Updating(u) /\ ~Points(u) /\ ~PointsBack(u)
            BY <3>1, <3>3 DEF Updating, Install, Enters, Stages, Waits, Places, BacksUp,
               Migrates, Launches, Answers, Reports, Fails, Restores, SkipsLaunch, Breaks,
               Crashes
        <3> QED BY <1>0, <1>2, <3>1, <3>2, <3>3, NextKinds, AroundKeeps
    <2>3. ASSUME NEW u \in Updaters, HasBackup(up'[u]) PROVE Rescue'
        <3>1. CASE HasBackup(up[u])
            BY <1>0, <2>1, <3>1 DEF Rescued
        <3>2. CASE BacksUp(u)
            <4>1. BeforeSwitch(up[u])
                BY <3>2 DEF BacksUp, BeforeSwitch, Early
            <4> QED BY <1>0, <2>1, <4>1 DEF PointerFollows, Rescued
        <3>3. CASE Around
            BY <1>0, <2>3, <3>1, <3>3, AroundKeeps
        <3>4. CASE \E w \in Updaters : Updating(w) /\ w # u
            BY <1>0, <2>3, <3>1, <3>4, UpdatingAlone DEF Alone
        <3> QED BY <1>0, <1>2, <2>3, <3>1, <3>2, <3>3, <3>4, CopyMade, NextKinds
    \* An application migrates only what it has copied.
    <2>4. app'.life = "migrating" => HasCopy'
        <3> SUFFICES ASSUME app'.life = "migrating" PROVE HasCopy'
            OBVIOUS
        <3>1. CASE app.life = "migrating"
            BY <1>0, <2>0, <3>1, CopyStays DEF Rescued
        <3>2. CASE AppOpens
            <4>1. db.schema # Schema[app.version] /\ db \in backups'
                BY <1>0, <3>2 DEF AppOpens, PointerInv, TypeOK
            <4>2. Rescue
                BY <1>0, <3>2, <4>1, AppChanges DEF Rescued
            <4> QED BY <1>0, <2>0, <4>1, <4>2, CopyTaken
        <3>3. CASE UNCHANGED app
            BY <3>1, <3>3
        <3>4. CASE AppMigrates \/ AppReady \/ \E v \in Versions : TakesMutex(v)
            BY <1>0, <3>1, <3>3, <3>4 DEF AppMigrates, AppReady, TakesMutex, PointerInv, TypeOK
        <3>5. CASE \E u \in Updaters : Updating(u)
            BY <1>0, <3>3, <3>5, UpdatingAlone
        <3> QED BY <1>2, <3>2, <3>3, <3>4, <3>5, NextKinds DEF Around, UserStarts, UserWorks,
                Check, Import, SpawnDies
    <2>5. ASSUME NEW u \in Updaters, up'[u].pc = "midway" PROVE HasCopy'
        <3>1. CASE up[u].pc = "midway"
            BY <1>0, <2>0, <3>1, CopyStays DEF Rescued
        <3>2. CASE Migrates(u) /\ up[u].pc = "migrating"
            <4>1. HasBackup(up[u])
                BY <3>2 DEF HasBackup, Placed
            <4>2. db \in backups'
                BY <1>0, <2>5, <3>2, MigratesSets
            <4> QED BY <1>0, <2>0, <4>1, <4>2, CopyTaken DEF Rescued
        <3>3. CASE Around
            BY <1>0, <2>5, <3>1, <3>3, AroundKeeps
        <3>4. CASE \E w \in Updaters : Updating(w) /\ w # u
            BY <1>0, <2>5, <3>1, <3>4, UpdatingAlone DEF Alone
        <3>5. CASE Updating(u) /\ ~Migrates(u)
            <4>1. \E pc \in (Working \cup Handling \cup Ended) \ {"midway"} :
                      Goes(u, pc) \/ Ends(u, pc) \/ up'[u].pc \in {"launched", pc}
                <5>1. CASE Install(u) \/ Waits(u) \/ BacksUp(u) \/ Points(u)
                    BY <1>0, <5>1, InstallSets, WaitsSets, BacksUpSets, PointsSets DEF Working
                <5>2. CASE Enters(u)
                    BY <1>0, <5>2, EntersSets DEF Working, Ended
                <5> QED BY <3>5, <5>1, <5>2 DEF Updating, Stages, Places, Launches, Answers,
                        Reports, Fails, PointsBack, Restores, SkipsLaunch, Breaks, Crashes,
                        Working, Handling, Ended
            <4> QED BY <1>0, <2>5, <4>1, GoesSets, EndsSets
        <3> QED BY <1>2, <3>1, <3>2, <3>3, <3>4, <3>5, NextKinds DEF Migrates
    <2> QED BY <2>2, <2>3, <2>4, <2>5 DEF Rescued
<1> QED BY <1>1, <1>2

---------------------------------------------------------------------------
LEMMA InitPair == ASSUME TwoReleases PROVE Init => PairInv
<1> SUFFICES ASSUME Init PROVE PairInv
    OBVIOUS
<1>1. \A u \in Updaters : up[u] = Idle
    BY DEF Init
<1>2. UpdateInv
    BY InitUpdate
<1>3. /\ ~Idle.waits /\ ~Idle.migrated /\ Idle.pc = "idle"
      /\ ~Owns(Idle) /\ ~HasBackup(Idle) /\ ~AfterSwitch(Idle) /\ ~BeforeSwitch(Idle)
      /\ Idle.pc \notin Early /\ Idle.pc \notin Busy
    BY DEF Idle, Owns, HasBackup, AfterSwitch, BeforeSwitch, Placed, Switched, Early, Busy,
       Working, Handling
<1>4. Routed /\ OneOwner /\ PointerFollows
    BY <1>1, <1>3 DEF Routed, OneOwner, PointerFollows
<1>5. Offering
    <2>1. app.life = "off" /\ service.offer = NoVersion
        BY DEF Init
    <2> QED BY <1>1, <1>3, <2>1 DEF Offering
<1>6. pointer = First /\ app.life = "off"
      /\ db = [schema |-> Schema[First], half |-> FALSE, work |-> {}] /\ kept = {}
    BY DEF Init
<1>7. db.schema = Schema[First] /\ Schema[First] \in Nat
    BY <1>6, Two
<1>8. SchemaFollows
    BY <1>1, <1>3, <1>6, <1>7 DEF SchemaFollows
<1>9. Rescued
    <2>1. Rescue
        BY <1>7 DEF Rescue, Opens
    <2> QED BY <1>1, <1>3, <1>6, <2>1 DEF Rescued
<1> QED BY <1>2, <1>4, <1>5, <1>8, <1>9 DEF PairInv

LEMMA NextPair ==
    ASSUME TwoReleases
    PROVE  PairInv /\ [Next]_vars => PairInv'
<1>1. PairInv /\ UNCHANGED vars => PairInv'
    <2> SUFFICES ASSUME PairInv, UNCHANGED vars PROVE PairInv'
        OBVIOUS
    <2>1. UpdateInv'
        BY NextUpdate DEF PairInv
    <2>2. Routed' /\ OneOwner' /\ Offering'
        BY DEF PairInv, vars, Routed, OneOwner, Offering
    <2>3. PointerFollows' /\ SchemaFollows'
        BY DEF PairInv, vars, PointerFollows, Unstarted, SchemaFollows
    <2>4. Rescued'
        BY DEF PairInv, vars, Rescued, Rescue, HasCopy, Opens
    <2> QED BY <2>1, <2>2, <2>3, <2>4 DEF PairInv
<1>2. ASSUME PairInv, Next PROVE PairInv'
    <2>1. UpdateInv'
        BY <1>2, NextUpdate DEF PairInv
    <2> QED BY <1>2, <2>1, RoutedStep, OwnerStep, OfferingStep, PointerStep, SchemaStep,
            RescueStep DEF PairInv
<1> QED BY <1>1, <1>2

\* Two releases, any number of updaters and starts, and a stop anywhere: what the user
\* had done when the application left for the update is in a database that the version
\* of the pointer opens (the backup before the migration, the pointer after it, and a
\* handler that puts the pointer back before the backup).
THEOREM UpdateRecoverable ==
    ASSUME TwoReleases
    PROVE  Spec => []Recoverable
<1>1. ASSUME PairInv PROVE Recoverable
    <2>0. PointerInv /\ WorkKept /\ SchemaFollows /\ Rescued
        BY <1>1 DEF PairInv, UpdateInv
    <2>1. CASE pointer # First
        <3>1. Opens(pointer, db) /\ kept \subseteq db.work
            BY <2>0, <2>1 DEF SchemaFollows, Opens, WorkKept
        <3> QED BY <3>1 DEF Recoverable
    <2>2. CASE pointer = First /\ Opens(First, db)
        BY <2>0, <2>2 DEF Recoverable, WorkKept
    <2>3. CASE pointer = First /\ HasCopy
        BY <2>3 DEF Recoverable, HasCopy
    <2> QED BY <2>0, <2>1, <2>2, <2>3 DEF Rescued, Rescue
<1> QED BY <1>1, InitPair, NextPair, PTL DEF Spec

\* Who takes this step: an updater whose place changes is the one that steps.
LEMMA OwnStep ==
    ASSUME PointerInv, Next, NEW u \in Updaters, up'[u].pc # up[u].pc
    PROVE  Updating(u) /\ UNCHANGED <<app, kept>>
<1>1. ~Around
    BY AroundKeeps
<1>2. ~AppEnds
    BY AppEndsSets
<1>3. PICK w \in Updaters : Updating(w)
    BY <1>1, <1>2, NextKinds
<1>4. Alone(w) /\ UNCHANGED <<app, kept>>
    BY <1>3, UpdatingAlone
<1>5. u = w
    BY <1>4 DEF Alone
<1> QED BY <1>3, <1>4, <1>5

\* An updater reports a success only when its release has answered.
Succeeds(u) ==
    up[u].pc = "awaiting" /\ up'[u].pc = "reporting" =>
        /\ pointer' = up[u].to
        /\ app'.version = up[u].to
        /\ db'.schema = Schema[up[u].to]

LEMMA SucceedsStep ==
    ASSUME TwoReleases, PairInv, Next, NEW u \in Updaters
    PROVE  Succeeds(u)
<1>0. /\ PointerInv /\ AllOrdered /\ Routed /\ PointerFollows /\ SchemaFollows
    BY DEF PairInv, UpdateInv
<1> SUFFICES ASSUME up[u].pc = "awaiting", up'[u].pc = "reporting"
             PROVE  /\ pointer' = up[u].to
                    /\ app'.version = up[u].to
                    /\ db'.schema = Schema[up[u].to]
    BY DEF Succeeds
<1>1. Updating(u) /\ UNCHANGED <<app, kept>>
    BY <1>0, OwnStep
<1>2. Answers(u)
    <2>1. CASE \E pc \in Ended : Ends(u, pc)
        BY <1>0, <2>1, EndsSets DEF Ended
    <2>2. CASE Fails(u)
        BY <1>0, <2>2, GoesSets DEF Fails
    <2> QED BY <1>1, <2>1, <2>2 DEF Updating, Install, Enters, Stages, Waits, Places, BacksUp,
            Migrates, Points, Launches, Reports, PointsBack, Restores, SkipsLaunch, Breaks,
            Crashes, Ended
<1>3. UNCHANGED <<pointer, db, app>> /\ app.version = up[u].to
    <2>1. ~(up[u].pc = "reawaiting" /\ Serves(pointer) /\ Goes(u, "apologizing"))
        OBVIOUS
    <2> QED BY <1>2, <2>1 DEF Answers, Serves
<1>4. AfterSwitch(up[u])
    BY DEF AfterSwitch, Switched
<1>5. pointer # First /\ Owns(up[u])
    BY <1>0, <1>4, Owners DEF PointerFollows
<1>6. up[u].to \in Versions /\ up[u].to # First
    BY <1>0, <1>5, OwnerBusy
<1>7. pointer = up[u].to
    BY <1>0, <1>5, <1>6, Known, Two
<1> QED BY <1>0, <1>3, <1>5, <1>7 DEF SchemaFollows

\* A successful update is whole, whoever else has started what meanwhile: the pointer,
\* the application that answers and the database are the new release's.
THEOREM UpdateSuccessWhole ==
    ASSUME TwoReleases
    PROVE  Spec => SuccessIsWhole
<1>1. PairInv /\ [Next]_vars =>
          [\A u \in Updaters :
             up[u].pc = "awaiting" /\ up'[u].pc = "reporting" =>
                 /\ pointer' = up[u].to
                 /\ app'.version = up[u].to
                 /\ db'.schema = Schema[up[u].to]]_vars
    BY SucceedsStep DEF Succeeds
<1> QED BY <1>1, InitPair, NextPair, PTL DEF Spec, SuccessIsWhole

\* A backup that comes back is the one of the version that the pointer names again.
ComesBack(u) ==
    up[u].pc = "restoring" /\ up'[u].pc = "relaunching" /\ up[u].migrated =>
        /\ pointer' = up[u].from
        /\ db'.schema = Schema[up[u].from]
        /\ kept \subseteq db'.work

LEMMA ComesBackStep ==
    ASSUME TwoReleases, PairInv, Next, NEW u \in Updaters
    PROVE  ComesBack(u)
<1>0. /\ PointerInv /\ AllOrdered /\ Routed /\ PointerFollows /\ WorkKept
    BY DEF PairInv, UpdateInv
<1> SUFFICES ASSUME up[u].pc = "restoring", up'[u].pc = "relaunching", up[u].migrated
             PROVE  /\ pointer' = up[u].from
                    /\ db'.schema = Schema[up[u].from]
                    /\ kept \subseteq db'.work
    BY DEF ComesBack
<1>1. Updating(u) /\ UNCHANGED <<app, kept>>
    BY <1>0, OwnStep
<1>2. Restores(u)
    <2>1. CASE \E pc \in Ended : Ends(u, pc)
        BY <1>0, <2>1, EndsSets DEF Ended
    <2>2. CASE Fails(u)
        BY <1>0, <2>2, GoesSets DEF Fails
    <2> QED BY <1>1, <2>1, <2>2 DEF Updating, Install, Enters, Stages, Waits, Places, BacksUp,
            Migrates, Points, Launches, Answers, Reports, PointsBack, SkipsLaunch, Breaks,
            Crashes, Ended
<1>3. /\ UNCHANGED pointer /\ db' = up[u].backup
      /\ up[u].backup.schema = Schema[up[u].from]
    BY <1>2 DEF Restores
<1>4. BeforeSwitch(up[u]) /\ HasBackup(up[u]) /\ Owns(up[u])
    BY DEF BeforeSwitch, HasBackup, Owns
<1>5. pointer = First /\ up[u].from = First
    BY <1>0, <1>4, OwnerBusy DEF PointerFollows
<1> QED BY <1>0, <1>3, <1>4, <1>5 DEF WorkKept

\* A backup comes back only under the pointer and the schema of the version that it was
\* made of, and with everything that the user had done when the application left.
THEOREM UpdateRestoreWhole ==
    ASSUME TwoReleases
    PROVE  Spec => RestoreIsWhole
<1>1. PairInv /\ [Next]_vars =>
          [\A u \in Updaters :
             up[u].pc = "restoring" /\ up'[u].pc = "relaunching" /\ up[u].migrated =>
                 /\ pointer' = up[u].from
                 /\ db'.schema = Schema[up[u].from]
                 /\ kept \subseteq db'.work]_vars
    BY ComesBackStep DEF ComesBack
<1> QED BY <1>1, InitPair, NextPair, PTL DEF Spec, RestoreIsWhole

=============================================================================
