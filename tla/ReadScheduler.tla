--------------------------- MODULE ReadScheduler ---------------------------
(***************************************************************************)
(* The scheduler of the browser-bound business reads (settlement and daily *)
(* captures): one process of the application at a time, one SQLite         *)
(* database that outlives it, one platform_browser slot, one scheduler     *)
(* thread, one executor thread per kind of read, and an operator who       *)
(* starts, pauses, resumes and cancels jobs while all of these run.        *)
(*                                                                         *)
(* Every database transaction of the code is one action here (the commit   *)
(* gate serialises them); everything a crash loses is a variable of its    *)
(* own (memVars).  A job has exactly one work item, as every settlement    *)
(* and daily job has.                                                      *)
(***************************************************************************)
EXTENDS Integers, FiniteSets

CONSTANTS
    Jobs,         \* identities of the jobs that may be created
    Daily,        \* those that are daily reads; the others are settlement reads
    Operational,  \* those with run_mode "operational"; the others are "shadow"
    Keys, KeyOf,  \* conflict keys, and the key each job asks for
    LastStage,    \* number of stages of a shadow daily read
    MaxGrants,    \* bound: grants of the browser slot
    MaxEpoch,     \* bound: lives of the process
    AllowPause,   \* whether the operator uses the pause endpoint
    MaySuspend,   \* whether the machine may sleep longer than a lease lives
    NoJob

ASSUME ConstantsAssumption ==
    /\ Daily \subseteq Jobs
    /\ Operational \subseteq Jobs
    /\ KeyOf \in [Jobs -> Keys]
    /\ LastStage \in Nat \ {0}
    /\ MaxGrants \in Nat
    /\ MaxEpoch \in Nat
    /\ AllowPause \in BOOLEAN
    /\ MaySuspend \in BOOLEAN
    /\ NoJob \notin Jobs

Settlement == Jobs \ Daily
Tokens == 1 .. MaxGrants

VARIABLES
    \* ------------------------------------------------ the database
    job,        \* jobs.status
    item,       \* work_items.status of the job's only item
    at,         \* work_items.current_stage
    inv,        \* status of the capture invocation
    next,       \* the invocation's next_stage
    window,     \* the invocation's platform access window
    holds,      \* jobs whose conflict key row is theirs and active
    att,        \* stage attempt and lease of each grant of the slot
    issued,     \* grants made so far
    latestRun,  \* settlement job of the capture run completed last
    review,     \* the offline review job made from a capture, and its link
    \* ------------------------------------------------ the process
    phase,      \* where the process is in its life
    me,         \* its instance number
    explicit,   \* explicit_shutdown_requested
    \* ------------------------------------------------ its memory
    runner,     \* the scheduler thread
    grants,     \* raw grants this process holds
    out,        \* executor future of each grant
    cleanup     \* jobs whose terminal cleanup is pending

jobVars == <<job, item, at, holds>>
invVars == <<inv, next, window, latestRun>>
slotVars == <<att, issued>>
procVars == <<phase, me, explicit>>
memVars == <<runner, grants, out, cleanup>>
vars == <<jobVars, invVars, slotVars, review, procVars, memVars>>

---------------------------------------------------------------------------
TerminalJob == {"cancelled", "succeeded", "failed"}
ScheduledJob == {"queued", "running", "waiting_resource"}
ControlledJob == {"pause_requested", "cancel_requested"}
JobStatus == {"absent", "paused"} \cup ScheduledJob \cup ControlledJob
                \cup TerminalJob

ReadyItem == {"queued", "waiting_resource"}
EndedItem == {"cancelled", "succeeded", "failed"}
ItemStatus == {"absent", "running", "waiting_external"} \cup ReadyItem
                \cup EndedItem

\* "open" is ready or collecting, "done" is succeeded, selected or
\* operational_ready, "failed" is failed or selection_blocked.
InvStatus == {"absent", "open", "sealed", "done", "failed"}
WindowStatus == {"absent", "open", "expired", "consumed"}
AttemptStatus == {"none", "running", "succeeded", "failed", "abandoned"}
LeaseStatus == {"none", "active", "released"}

\* A future is not submitted, in the hands of the executor, or has a result.
Executing == {"submitted", "reading", "selecting"}
Result == {"stage", "complete", "retry", "waiting_external", "failed"}

Attempt == [status : AttemptStatus, lease : LeaseStatus,
            job : Jobs \cup {NoJob}, stage : 1 .. LastStage,
            by : 0 .. MaxEpoch, fresh : BOOLEAN]

NoAttempt == [status |-> "none", lease |-> "none", job |-> NoJob,
              stage |-> 1, by |-> 0, fresh |-> FALSE]

TypeOK ==
    /\ job \in [Jobs -> JobStatus]
    /\ item \in [Jobs -> ItemStatus]
    /\ at \in [Jobs -> 1 .. LastStage]
    /\ inv \in [Jobs -> InvStatus]
    /\ next \in [Jobs -> 1 .. LastStage]
    /\ window \in [Jobs -> WindowStatus]
    /\ holds \subseteq Jobs
    /\ att \in [Tokens -> Attempt]
    /\ issued \in 0 .. MaxGrants
    /\ latestRun \in Jobs \cup {NoJob}
    /\ review \in [Jobs -> {"none", "created", "linked"}]
    /\ phase \in {"off", "booting", "recovered", "interrupted", "serving",
                  "closing", "joined", "drained", "abandoned"}
    /\ me \in 0 .. MaxEpoch
    /\ explicit \in BOOLEAN
    /\ runner \in {"idle", "scan", "dispatch", "cleanup", "dead"}
    /\ grants \subseteq Tokens
    /\ out \in [Tokens -> {"none"} \cup Executing \cup Result]
    /\ cleanup \subseteq Jobs

Init ==
    /\ job = [j \in Jobs |-> "absent"]
    /\ item = [j \in Jobs |-> "absent"]
    /\ at = [j \in Jobs |-> 1]
    /\ inv = [j \in Jobs |-> "absent"]
    /\ next = [j \in Jobs |-> 1]
    /\ window = [j \in Jobs |-> "absent"]
    /\ holds = {}
    /\ att = [t \in Tokens |-> NoAttempt]
    /\ issued = 0
    /\ latestRun = NoJob
    /\ review = [j \in Jobs |-> "none"]
    /\ phase = "off"
    /\ me = 0
    /\ explicit = FALSE
    /\ runner = "idle"
    /\ grants = {}
    /\ out = [t \in Tokens |-> "none"]
    /\ cleanup = {}

Active(t) == att[t].lease = "active"
Terminal(j) == job[j] \in TerminalJob
Exists(j) == job[j] # "absent"

---------------------------------------------------------------------------
(* The operator: requests are answered only while the lifespan is open.    *)

\* Seeded fault: the key of an active job is handed out.
KeyIgnored(j) == TRUE

KeyIsFree(j) == \A k \in holds : KeyOf[k] = KeyOf[j] => Terminal(k)

CreateJob(j) ==
    /\ phase = "serving"
    /\ ~ Exists(j)
    /\ KeyIsFree(j)
    /\ job' = [job EXCEPT ![j] = "queued"]
    /\ item' = [item EXCEPT ![j] = "queued"]
    /\ holds' = {k \in holds : KeyOf[k] # KeyOf[j]} \cup {j}
    /\ UNCHANGED at

OpenInvocation(j) ==
    /\ inv' = [inv EXCEPT ![j] = "open"]
    /\ window' = [window EXCEPT ![j] = "open"]
    /\ UNCHANGED <<next, latestRun>>

\* Job, item, access window and invocation in one transaction.
StartSettlement(j) ==
    /\ j \in Settlement
    /\ CreateJob(j)
    /\ OpenInvocation(j)
    /\ UNCHANGED <<slotVars, review, procVars, memVars>>

\* A daily read gets its job first and its invocation in later transactions,
\* in the same request or in a repeated one that attaches to the job.
StartDaily(j) ==
    /\ j \in Daily
    /\ CreateJob(j)
    /\ UNCHANGED <<invVars, slotVars, review, procVars, memVars>>

InvokeDaily(j) ==
    /\ phase = "serving"
    /\ j \in Daily
    /\ Exists(j) /\ ~ Terminal(j)
    /\ inv[j] = "absent"
    /\ OpenInvocation(j)
    /\ UNCHANGED <<jobVars, slotVars, review, procVars, memVars>>

SetJob(j, status) ==
    /\ job' = [job EXCEPT ![j] = status]
    /\ UNCHANGED <<at, holds, invVars, slotVars, review, procVars, memVars>>

Pause(j) ==
    /\ phase = "serving"
    /\ AllowPause
    /\ job[j] \in ScheduledJob
    /\ SetJob(j, "pause_requested")
    /\ UNCHANGED item

Requeue(j) ==
    /\ job[j] = "paused"
    /\ SetJob(j, "queued")
    /\ item' = [item EXCEPT ![j] =
                    IF @ = "waiting_external" THEN "queued" ELSE @]

\* "resume", and the return of the login a waiting job was paused for.
Resume(j) == phase = "serving" /\ Requeue(j)

Cancel(j) ==
    /\ phase = "serving"
    /\ Exists(j) /\ ~ Terminal(j)
    /\ job[j] # "cancel_requested"
    /\ SetJob(j, "cancel_requested")
    /\ UNCHANGED item

\* A new access window for a paused read whose window can no longer be used.
Rebind(j) ==
    /\ phase = "serving"
    /\ window[j] \in {"expired", "consumed"}
    /\ job[j] = "paused"
    /\ inv[j] = "open"
    /\ j \in Daily => item[j] = "waiting_external" /\ at[j] = next[j]
    /\ window' = [window EXCEPT ![j] = "open"]
    /\ UNCHANGED <<jobVars, inv, next, latestRun, slotVars, review, procVars,
                   memVars>>

Unfinished == {j \in Operational : Exists(j) /\ ~ Terminal(j)}

\* Every active operational read, with its item and its key, whatever its
\* attempt and its lease are doing.
TerminalizeReads(status) ==
    /\ job' = [j \in Jobs |-> IF j \in Unfinished THEN status ELSE job[j]]
    /\ item' = [j \in Jobs |->
                    IF j \in Unfinished /\ item[j] \notin EndedItem
                    THEN status ELSE item[j]]
    /\ holds' = holds \ Unfinished
    /\ UNCHANGED at

\* "Exit": the reads are cancelled at once, the lifespan ends a little later.
RequestShutdown ==
    /\ phase = "serving"
    /\ ~ explicit
    /\ explicit' = TRUE
    /\ TerminalizeReads("cancelled")
    /\ UNCHANGED <<invVars, slotVars, review, phase, me, memVars>>

---------------------------------------------------------------------------
(* Time.                                                                   *)

WindowExpires(j) ==
    /\ window[j] = "open"
    /\ window' = [window EXCEPT ![j] = "expired"]
    /\ UNCHANGED <<jobVars, inv, next, latestRun, slotVars, review, procVars,
                   memVars>>

\* A running scheduler thread renews its leases several times a second.
Renewed(t) ==
    phase \in {"serving", "closing"} /\ runner # "dead" /\ t \in grants

LeaseLapses(t) ==
    /\ Active(t) /\ att[t].fresh
    /\ Renewed(t) => MaySuspend
    /\ att' = [att EXCEPT ![t].fresh = FALSE]
    /\ UNCHANGED <<jobVars, invVars, issued, review, procVars, memVars>>

---------------------------------------------------------------------------
(* The executor threads.  They commit to the invocation tables on their    *)
(* own, and read neither the job's status nor the lease.                   *)

Executor(t) ==
    /\ phase \in {"serving", "closing", "joined"}
    /\ out[t] \in Executing

Answer(t, result) ==
    /\ out' = [out EXCEPT ![t] = result]
    /\ UNCHANGED <<jobVars, slotVars, review, procVars, runner, grants,
                   cleanup>>

\* The window is presented and the browser taken; an unusable window waits
\* for the operator, an unready browser is tried again.
ReadBegins(t) ==
    LET j == att[t].job IN
    /\ Executor(t) /\ out[t] = "submitted"
    /\ inv[j] = "open"
    /\ \/ window[j] = "open" /\ (Answer(t, "reading") \/ Answer(t, "retry"))
       \/ window[j] # "open" /\ Answer(t, "waiting_external")
    /\ UNCHANGED invVars

\* A sealed manifest needs no browser; a prerequisite that has been withdrawn
\* since it was sealed ends the read as failed.
SelectionBegins(t) ==
    /\ Executor(t) /\ out[t] = "submitted"
    /\ inv[att[t].job] = "sealed"
    /\ Answer(t, "selecting") \/ Answer(t, "failed")
    /\ UNCHANGED invVars

Reading(t) == Executor(t) /\ out[t] = "reading" /\ inv[att[t].job] = "open"

\* A checkpoint short of the end; only a shadow daily read has several stages.
ReadPartial(t) ==
    LET j == att[t].job IN
    /\ Reading(t)
    /\ IF j \in Daily \ Operational
       THEN /\ next[j] < LastStage
            /\ next' = [next EXCEPT ![j] = @ + 1]
       ELSE UNCHANGED next
    /\ Answer(t, "stage")
    /\ UNCHANGED <<inv, window, latestRun>>

\* The rows of a settlement run are complete before the run is published.
RunCaptured(t) ==
    LET j == att[t].job IN
    /\ Reading(t)
    /\ j \in Settlement \cap Operational
    /\ latestRun # j
    /\ latestRun' = j
    /\ UNCHANGED <<jobVars, inv, next, window, slotVars, review, procVars,
                   memVars>>

ReadPublished(t) ==
    LET j == att[t].job IN
    /\ Reading(t)
    /\ j \in Settlement \cap Operational => latestRun = j
    /\ j \in Daily \ Operational => next[j] = LastStage
    /\ IF j \in Settlement \ Operational
       THEN inv' = [inv EXCEPT ![j] = "sealed"] /\ Answer(t, "selecting")
       ELSE inv' = [inv EXCEPT ![j] = "done"] /\ Answer(t, "complete")
    /\ UNCHANGED <<next, window, latestRun>>

\* A refusal by the platform, an abort or an error; a daily failure is
\* committed to the invocation before it is reported.
ReadRefused(t) ==
    LET j == att[t].job IN
    /\ Reading(t)
    /\ \/ Answer(t, "retry") /\ UNCHANGED inv
       \/ Answer(t, "waiting_external") /\ UNCHANGED inv
       \/ /\ Answer(t, "failed")
          /\ inv' = IF j \in Daily THEN [inv EXCEPT ![j] = "failed"] ELSE inv
    /\ UNCHANGED <<next, window, latestRun>>

SelectionEnds(t) ==
    LET j == att[t].job IN
    /\ Executor(t) /\ out[t] = "selecting" /\ inv[j] = "sealed"
    /\ \/ Answer(t, "complete") /\ inv' = [inv EXCEPT ![j] = "done"]
       \/ Answer(t, "failed") /\ inv' = [inv EXCEPT ![j] = "failed"]
       \/ Answer(t, "retry") /\ UNCHANGED inv
    /\ UNCHANGED <<next, window, latestRun>>

---------------------------------------------------------------------------
(* The scheduler thread.                                                   *)

\* Seeded fault: the two status columns are exchanged.
EndedSwapped(attempt, status) ==
    [attempt EXCEPT !.status = "released", !.lease = status, !.fresh = FALSE]

\* Seeded fault: the lease outlives its attempt.
EndedKeepingLease(attempt, status) == [attempt EXCEPT !.status = status]

\* An attempt ends, and its lease with it, whoever ends it.
Ended(attempt, status) ==
    [attempt EXCEPT !.status = status, !.lease = "released", !.fresh = FALSE]

\* Seeded fault: any expired lease is taken, even our own.
AbandonableByExpiry ==
    {t \in Tokens : att[t].status = "running" /\ (Active(t) => ~ att[t].fresh)}

\* Seeded fault: a lease protects its attempt for ever.
AbandonableUnleased ==
    {t \in Tokens : att[t].status = "running" /\ ~ Active(t)}

\* Attempts that recovery takes from their owner: an owner other than this
\* process is known to have crashed, but its lease must have run out too.
Abandonable ==
    {t \in Tokens : /\ att[t].status = "running"
                    /\ Active(t) => att[t].by # me /\ ~ att[t].fresh}

Abandon(T) ==
    /\ att' = [t \in Tokens |->
                 IF t \in T THEN Ended(att[t], "abandoned") ELSE att[t]]
    /\ LET Lost(j) == {t \in T : att[t].job = j /\ item[j] = "running"}
       IN /\ item' = [j \in Jobs |->
                        IF Lost(j) # {} THEN "queued" ELSE item[j]]
          /\ at' = [j \in Jobs |->
                        IF Lost(j) # {}
                        THEN att[CHOOSE t \in Lost(j) : TRUE].stage
                        ELSE at[j]]
    /\ UNCHANGED <<job, holds, issued>>

\* Seeded fault: a requested control is not work.
HasAutomaticWorkUncontrolled ==
    \/ cleanup # {}
    \/ \E t \in Tokens : Active(t)
    \/ \E j \in Jobs : job[j] \in ScheduledJob

HasAutomaticWork ==
    \/ cleanup # {}
    \/ \E t \in Tokens : Active(t)
    \/ \E j \in Jobs : job[j] \in ScheduledJob \cup ControlledJob

StartTick ==
    /\ phase = "serving"
    /\ runner = "idle"
    /\ HasAutomaticWork
    /\ Abandon(Abandonable)
    /\ runner' = "scan"
    /\ UNCHANGED <<invVars, review, procVars, grants, out, cleanup>>

RenewLeases ==
    /\ phase = "serving"
    /\ runner = "idle"
    /\ \A t \in grants : Active(t) /\ out[t] \notin Result
    /\ att' = [t \in Tokens |-> IF t \in grants
                                THEN [att[t] EXCEPT !.fresh = TRUE]
                                ELSE att[t]]
    /\ UNCHANGED <<jobVars, invVars, issued, review, procVars, memVars>>

(* One scan is one transaction over every job.  Its passes are operators   *)
(* from a job's row to its next row, in the order of the code: results,    *)
(* committed invocations, controls, the grant and the aggregates.          *)

Row(j) == [job |-> job[j], item |-> item[j], at |-> at[j], inv |-> inv[j],
           window |-> window[j]]

Done == {t \in grants : out[t] \in Result}
Delivered(j) == {t \in Done : att[t].job = j}

\* What a result may find in the invocation it reports on.
Agrees(result, j) ==
    CASE result = "stage" -> inv[j] = "open"
      [] result = "complete" -> inv[j] = "done"
      [] result = "retry" -> \/ inv[j] = "open" /\ next[j] = at[j]
                             \/ inv[j] = "sealed"
      [] result = "waiting_external" -> inv[j] = "open" /\ next[j] = at[j]
      [] result = "failed" -> /\ inv[j] # "done"
                              /\ j \in Settlement => inv[j] # "sealed"

Fenced ==
    /\ \A t \in grants : att[t].status = "running" /\ Active(t)
                            /\ att[t].by = me
    /\ \A t \in Done :
          LET j == att[t].job IN
          /\ att[t].fresh
          /\ item[j] = "running" /\ at[j] = att[t].stage
          /\ Agrees(out[t], j)

\* The window of a settlement read ends with it, a daily one in the cleanup.
Retired(j, row) == IF j \in Settlement
                   THEN [row EXCEPT !.window = "consumed"]
                   ELSE row

ExternalWait(row) == [row EXCEPT !.item = "waiting_external", !.job = "paused"]

WithResult(result, j, row) ==
    CASE result = "stage" -> [row EXCEPT !.item = "queued", !.at = next[j]]
      [] result = "complete" -> [Retired(j, row) EXCEPT !.item = "succeeded"]
      [] result = "retry" -> [row EXCEPT !.item = "queued"]
      [] result = "waiting_external" -> ExternalWait(row)
      [] result = "failed" ->
            [Retired(j, row) EXCEPT !.item = "failed",
                !.inv = IF j \in Daily THEN "failed" ELSE @]

\* Seeded fault: every result counts as the last one.
FinishedWhateverTheOutcome(j) ==
    IF Delivered(j) = {} THEN Row(j) ELSE WithResult("complete", j, Row(j))

Finished(j) ==
    IF Delivered(j) = {}
    THEN Row(j)
    ELSE WithResult(out[CHOOSE t \in Delivered(j) : TRUE], j, Row(j))

\* A committed invocation whose result never reached the scheduler.
Reconciled(j, row) ==
    IF row.job \notin ScheduledJob \cup ControlledJob
        \/ row.item \notin ReadyItem
    THEN row
    ELSE CASE row.inv = "done" ->
                [Retired(j, row) EXCEPT !.item = "succeeded"]
           [] row.inv = "failed" ->
                [Retired(j, row) EXCEPT !.item = "failed"]
           [] row.inv = "open" /\ j \in Daily /\ next[j] # row.at ->
                [row EXCEPT !.item = "queued", !.at = next[j]]
           [] OTHER -> row

\* Seeded fault: controls do not wait for the stage in flight.
NeverLeased(j) == FALSE

StillLeased(j) == \E t \in Tokens \ Done : Active(t) /\ att[t].job = j

\* A control takes effect between two stages of its job.
Controlled(j, row) ==
    CASE row.job = "cancel_requested" /\ ~ StillLeased(j) ->
            [Retired(j, row) EXCEPT !.job = "cancelled",
                !.item = IF @ \in EndedItem THEN @ ELSE "cancelled"]
      [] row.job = "pause_requested" /\ ~ StillLeased(j) ->
            [row EXCEPT !.job = "paused",
                !.item = IF @ \in {"running", "waiting_resource"}
                         THEN "queued" ELSE @]
      [] OTHER -> row

Settled(j) == Controlled(j, Reconciled(j, Finished(j)))

\* Seeded fault: every released grant queues a cleanup.
EndsWhenReleased(j) == Delivered(j) # {}

EndsNow(j) ==
    \/ item[j] \notin EndedItem /\ Settled(j).item \in EndedItem
    \/ job[j] # "cancelled" /\ Settled(j).job = "cancelled"

\* Jobs that could be given the slot.
Candidate(j) ==
    LET row == Settled(j) IN
    /\ row.job \in ScheduledJob
    /\ row.item \in ReadyItem
    /\ \/ j \in Daily /\ row.inv = "open" /\ next[j] = row.at
       \/ j \in Settlement /\ row.inv = "open" /\ row.window = "open"
       \/ j \in Settlement /\ row.inv = "sealed"

\* Fair rotation: the candidate whose last grant is oldest.
LongestUnserved(j) ==
    \A k \in Jobs : Candidate(k) =>
        \A t \in Tokens : att[t].job = j =>
            \E u \in Tokens : u >= t /\ att[u].job = k

\* Seeded fault: the slot is granted without looking at leases.
SlotIsFreeUnchecked ==
    /\ cleanup = {}
    /\ ~ \E j \in Jobs : EndsNow(j)
    /\ issued < MaxGrants

SlotIsFree ==
    /\ cleanup = {}
    /\ ~ \E j \in Jobs : EndsNow(j)
    /\ ~ \E t \in Tokens \ Done : Active(t)
    /\ issued < MaxGrants

Chosen(j) == SlotIsFree /\ Candidate(j) /\ LongestUnserved(j)

\* What the grant to g leaves of a candidate's row; g is NoJob for no grant.
Placed(j, g) ==
    LET row == Settled(j) IN
    IF g = NoJob \/ ~ Candidate(j) THEN row
    ELSE [row EXCEPT !.item = IF j = g THEN "running" ELSE "waiting_resource"]

\* Seeded fault: cancelled jobs are aggregated again.
AggregatedCancelled(row) ==
    IF row.job \in {"absent", "pause_requested", "paused", "cancel_requested"}
    THEN row
    ELSE [row EXCEPT !.job =
            IF row.item \in ScheduledJob \cup {"failed", "succeeded"}
            THEN row.item ELSE "queued"]

Aggregated(row) ==
    IF row.job \in {"absent", "pause_requested", "paused",
                    "cancel_requested", "cancelled"}
    THEN row
    ELSE [row EXCEPT !.job =
            IF row.item \in ScheduledJob \cup {"failed", "succeeded"}
            THEN row.item ELSE "queued"]

Scanned(j, g) == Aggregated(Placed(j, g))

\* Seeded fault: the stage is read before the passes of the scan.
NewAttemptFromOldRow(g) ==
    [status |-> "running", lease |-> "active", job |-> g, stage |-> at[g],
     by |-> me, fresh |-> TRUE]

NewAttempt(g) ==
    [status |-> "running", lease |-> "active", job |-> g,
     stage |-> Settled(g).at, by |-> me, fresh |-> TRUE]

AttemptAfter(t, g) ==
    CASE t \in Done ->
            Ended(att[t], IF out[t] \in {"stage", "complete"}
                          THEN "succeeded" ELSE "failed")
      [] t \in grants \ Done -> [att[t] EXCEPT !.fresh = TRUE]
      [] t \notin grants /\ g # NoJob /\ t = issued + 1 ->
            NewAttempt(g)
      [] OTHER -> att[t]

ScanGranting(g) ==
    /\ runner = "scan"
    /\ Fenced
    /\ job' = [j \in Jobs |-> Scanned(j, g).job]
    /\ item' = [j \in Jobs |-> Scanned(j, g).item]
    /\ at' = [j \in Jobs |-> Scanned(j, g).at]
    /\ inv' = [j \in Jobs |-> Scanned(j, g).inv]
    /\ window' = [j \in Jobs |-> Scanned(j, g).window]
    /\ holds' = {j \in holds : Scanned(j, g).job \notin TerminalJob}
    /\ att' = [t \in Tokens |-> AttemptAfter(t, g)]
    /\ out' = [t \in Tokens |-> IF t \in Done THEN "none" ELSE out[t]]
    /\ cleanup' = cleanup \cup {j \in Jobs : EndsNow(j)}
    /\ runner' = "dispatch"
    /\ UNCHANGED <<next, latestRun, review, procVars>>

ScanOnly ==
    /\ ~ \E j \in Jobs : Chosen(j)
    /\ ScanGranting(NoJob)
    /\ grants' = grants \ Done
    /\ UNCHANGED issued

ScanAndGrant ==
    \E j \in Jobs :
        /\ Chosen(j)
        /\ ScanGranting(j)
        /\ grants' = (grants \ Done) \cup {issued + 1}
        /\ issued' = issued + 1

\* A fencing error rolls the transaction back and ends the scheduler thread.
ScanFails ==
    /\ runner = "scan"
    /\ ~ Fenced
    /\ runner' = "dead"
    /\ UNCHANGED <<jobVars, invVars, slotVars, review, procVars, grants, out,
                   cleanup>>

Dispatch ==
    /\ runner = "dispatch"
    /\ out' = [t \in Tokens |->
                 IF t \in grants /\ out[t] = "none" THEN "submitted"
                 ELSE out[t]]
    /\ runner' = "cleanup"
    /\ UNCHANGED <<jobVars, invVars, slotVars, review, procVars, grants,
                   cleanup>>

(* Terminal cleanup: retire the window, release the browser and, for a     *)
(* published operational read, create the offline review and link it.      *)

MayClose(j) ==
    \/ Terminal(j)
    \/ inv[j] \in {"done", "failed"}
    \/ window[j] \in {"expired", "consumed"}

Consumed(w) == IF w = "absent" THEN w ELSE "consumed"

NeedsReview(j) == inv[j] = "done" /\ j \in Operational

\* The whole of close_terminal_job for the jobs of S.
CloseAll(S) ==
    /\ window' = [j \in Jobs |-> IF j \in S THEN Consumed(window[j])
                                 ELSE window[j]]
    /\ review' = [j \in Jobs |-> IF j \in S /\ NeedsReview(j) THEN "linked"
                                 ELSE review[j]]

Close(j) ==
    /\ runner = "cleanup"
    /\ j \in cleanup
    /\ MayClose(j)
    /\ CloseAll({j})
    /\ cleanup' = cleanup \ {j}
    /\ UNCHANGED <<jobVars, inv, next, latestRun, slotVars, procVars, runner,
                   grants, out>>

\* The cleanup of j raises between two of its transactions; j stays pending.
CloseFails(j) ==
    /\ runner = "cleanup"
    /\ j \in cleanup
    /\ MayClose(j)
    /\ \E r \in {review[j], "created", "linked"} :
          /\ r # review[j] => NeedsReview(j) /\ review[j] # "linked"
          /\ j \in Settlement => r # "linked" \/ r = review[j]
          /\ review' = [review EXCEPT ![j] = r]
    /\ \/ window' = [window EXCEPT ![j] = Consumed(@)]
       \/ j \in Daily /\ UNCHANGED window
    /\ UNCHANGED <<jobVars, inv, next, latestRun, slotVars, procVars, memVars>>

EndTick ==
    /\ runner = "cleanup"
    /\ runner' = "idle"
    /\ UNCHANGED <<jobVars, invVars, slotVars, review, procVars, grants, out,
                   cleanup>>

---------------------------------------------------------------------------
(* The life of the process.                                                *)

Enter(p) == phase' = p /\ UNCHANGED <<me, explicit>>

Forget ==
    /\ runner' = "idle"
    /\ grants' = {}
    /\ out' = [t \in Tokens |-> "none"]
    /\ cleanup' = {}

\* The instance lock is taken and every earlier instance marked crashed.
Boot ==
    /\ phase = "off"
    /\ me < MaxEpoch
    /\ phase' = "booting"
    /\ me' = me + 1
    /\ explicit' = FALSE
    /\ UNCHANGED <<jobVars, invVars, slotVars, review, memVars>>

BootRecovers ==
    /\ phase = "booting"
    /\ Abandon(Abandonable)
    /\ Enter("recovered")
    /\ UNCHANGED <<invVars, review, memVars>>

BootInterruptsReads ==
    /\ phase = "recovered"
    /\ TerminalizeReads("failed")
    /\ Enter("interrupted")
    /\ UNCHANGED <<invVars, slotVars, review, memVars>>

\* Windows of ended settlement reads are retired; the newest published
\* settlement run and every ended daily read get their whole cleanup.
EndedReads == {j \in Jobs : Exists(j) /\ MayClose(j)}

\* Seeded fault: start-up does not look at the newest run.
NewestForgotten == {}

Newest == Settlement \cap {latestRun}

\* Seeded fault: start-up retires windows and does nothing else.
BootRetires(S) ==
    /\ window' = [j \in Jobs |-> IF j \in S THEN Consumed(window[j])
                                 ELSE window[j]]
    /\ UNCHANGED <<review, inv, next, latestRun>>

BootCloses(S) ==
    /\ window' = [j \in Jobs |-> IF j \in S THEN Consumed(window[j])
                                 ELSE window[j]]
    /\ review' = [j \in Jobs |->
                    IF j \in S \cap (Daily \cup Newest) /\ NeedsReview(j)
                    THEN "linked" ELSE review[j]]
    /\ UNCHANGED <<inv, next, latestRun>>

Orphans == {j \in Daily : inv[j] = "absent" /\ Exists(j) /\ ~ Terminal(j)}

\* A daily job whose start was reserved and never completed is failed too;
\* one that never reached its reservation stays.
BootReconciles ==
    /\ phase = "interrupted"
    /\ Newest \subseteq EndedReads
    /\ BootCloses(EndedReads)
    /\ \E S \in SUBSET Orphans :
          /\ job' = [j \in Jobs |-> IF j \in S THEN "failed" ELSE job[j]]
          /\ item' = [j \in Jobs |-> IF j \in S THEN "failed" ELSE item[j]]
          /\ holds' = holds \ S
    /\ Enter("serving")
    /\ UNCHANGED <<at, slotVars, memVars>>

\* A start-up step raises, the reconciliation perhaps halfway: the shutdown
\* steps run all the same.
BootFails ==
    /\ \/ phase \in {"booting", "recovered"} /\ UNCHANGED <<invVars, review>>
       \/ phase = "interrupted" /\ \E S \in SUBSET EndedReads : BootCloses(S)
    /\ Enter("closing")
    /\ UNCHANGED <<jobVars, slotVars, memVars>>

Shutdown ==
    /\ phase = "serving"
    /\ Enter("closing")
    /\ UNCHANGED <<jobVars, invVars, slotVars, review, memVars>>

\* close() joins the scheduler thread, which first finishes its tick.
JoinRunner ==
    /\ phase = "closing"
    /\ runner \in {"idle", "dead"}
    /\ Enter("joined")
    /\ UNCHANGED <<jobVars, invVars, slotVars, review, memVars>>

\* Seeded fault: the executors are not waited for.
DrainAtOnce ==
    /\ phase = "joined"
    /\ Enter("drained")
    /\ UNCHANGED <<jobVars, invVars, slotVars, review, memVars>>

\* The executors are closed after the future they are working on.
Drain ==
    /\ phase = "joined"
    /\ \A t \in Tokens : out[t] \notin Executing
    /\ Enter("drained")
    /\ UNCHANGED <<jobVars, invVars, slotVars, review, memVars>>

AbandonOwn ==
    /\ phase = "drained"
    /\ Abandon({t \in Tokens : /\ att[t].status = "running"
                               /\ Active(t) /\ att[t].by = me})
    /\ Enter("abandoned")
    /\ UNCHANGED <<invVars, review, memVars>>

Stop ==
    /\ phase = "abandoned"
    /\ IF explicit THEN TerminalizeReads("cancelled") ELSE UNCHANGED jobVars
    /\ Enter("off")
    /\ Forget
    /\ UNCHANGED <<invVars, slotVars, review>>

Crash ==
    /\ phase # "off"
    /\ Enter("off")
    /\ Forget
    /\ UNCHANGED <<jobVars, invVars, slotVars, review>>

---------------------------------------------------------------------------
Operator(j) ==
    \/ StartSettlement(j) \/ StartDaily(j) \/ InvokeDaily(j)
    \/ Pause(j) \/ Resume(j) \/ Cancel(j) \/ Rebind(j)

Execute(t) ==
    \/ ReadBegins(t) \/ SelectionBegins(t) \/ ReadPartial(t)
    \/ RunCaptured(t) \/ ReadPublished(t) \/ ReadRefused(t)
    \/ SelectionEnds(t)

Tick ==
    \/ StartTick \/ ScanOnly \/ ScanAndGrant \/ ScanFails \/ Dispatch
    \/ \E j \in Jobs : Close(j) \/ CloseFails(j)
    \/ EndTick

Booting == Boot \/ BootRecovers \/ BootInterruptsReads \/ BootReconciles
              \/ BootFails

Closing == JoinRunner \/ Drain \/ AbandonOwn \/ Stop

Next ==
    \/ \E j \in Jobs : Operator(j) \/ WindowExpires(j)
    \/ \E t \in Tokens : Execute(t) \/ LeaseLapses(t)
    \/ RequestShutdown
    \/ Tick
    \/ RenewLeases
    \/ Booting \/ Shutdown \/ Closing
    \/ Crash

Spec == Init /\ [][Next]_vars

\* The scheduler thread keeps ticking while there is work, every browser
\* command has a deadline, leases that nobody renews run out, and start-up
\* and shutdown finish.  Nothing is assumed of the operator, of crashes or of
\* which answer the platform gives.
FairSpec ==
    /\ Spec
    /\ WF_vars(Tick)
    /\ \A t \in Tokens : WF_vars(Execute(t))
    /\ \A t \in Tokens : WF_vars(~ Renewed(t) /\ LeaseLapses(t))
    /\ WF_vars(Booting) /\ WF_vars(Closing)

---------------------------------------------------------------------------
(* Properties.                                                             *)

\* One browser, one lease: over any number of crashes and restarts at most
\* one grant of the platform_browser slot is active.
SlotExclusive ==
    \A t, u \in Tokens : Active(t) /\ Active(u) => t = u

\* No browser work without an authority in the database: a future belongs to
\* a running attempt whose lease this process holds, through cancellation,
\* lease expiry, recovery and shutdown, until the shutdown sequence abandons
\* the results nobody collected; by then nothing executes.
FuturesAreLeased ==
    \A t \in Tokens :
        out[t] \in Executing \/ (out[t] \in Result /\ phase # "abandoned") =>
            /\ t \in grants /\ Active(t)
            /\ att[t].status = "running" /\ att[t].by = me

\* A lease is active exactly as long as its attempt is running: no recovery
\* path releases one without ending the other.
AttemptsAndLeases ==
    \A t \in Tokens : Active(t) <=> att[t].status = "running"

\* A subject is read by one job at a time, and the job that may still run is
\* the one the conflict key points to.
KeyGuard ==
    \A j \in Jobs : Exists(j) /\ ~ Terminal(j) =>
        /\ j \in holds
        /\ \A k \in Jobs \ {j} :
              KeyOf[k] = KeyOf[j] => ~ Exists(k) \/ Terminal(k)

\* A cancelled read is no longer being read, unless the operator is leaving
\* the program.
CancelBoundary ==
    \A j \in Jobs, t \in Tokens :
        job[j] = "cancelled" /\ att[t].job = j /\ Active(t) =>
            explicit \/ att[t].by # me

\* A job is reported as succeeded only when its capture is published.
SucceededMeansPublished ==
    \A j \in Jobs : item[j] = "succeeded" \/ job[j] = "succeeded" =>
        inv[j] = "done"

\* A published operational capture gets its offline review although the work
\* list of the cleanup lives in memory: while the application serves, it is
\* linked, pending, or about to be found by the next scan.
ReviewNotLost ==
    phase = "serving" =>
        \A j \in Jobs : NeedsReview(j) =>
            \/ review[j] = "linked"
            \/ j \in cleanup
            \/ \E t \in grants : att[t].job = j /\ out[t] = "complete"
            \/ job[j] \in ScheduledJob \cup ControlledJob

\* Pending cleanup withholds the browser slot from every job, so it must not
\* wait for something that cannot be closed.
CleanupCanClose ==
    \A j \in cleanup : MayClose(j)

\* The fencing checks never stop the scheduler of a healthy process: only
\* leaving the program, a suspended machine or a withdrawn prerequisite of a
\* sealed selection does.
SchedulerSurvives ==
    runner = "dead" =>
        \/ explicit \/ MaySuspend
        \/ \E t \in grants : out[t] = "failed" /\ inv[att[t].job] = "sealed"

\* The stage an executor works on is the one the invocation is at: a stage
\* whose checkpoint is committed is not granted again after a crash.
NoStageTwice ==
    \A t \in Tokens :
        out[t] \in Executing /\ inv[att[t].job] = "open" =>
            att[t].stage = next[att[t].job]

\* A job that has ended keeps its outcome.
TerminalStays ==
    [][\A j \in Jobs : Terminal(j) => job'[j] = job[j]]_vars

\* A cancellation is answered while the application keeps running.
CancelAnswered ==
    \A j \in Jobs :
        job[j] = "cancel_requested" ~>
            job[j] # "cancel_requested" \/ phase # "serving"
                \/ runner = "dead"

\* The lease of a crashed process does not block the browser for ever.
DeadLeaseFreed ==
    \A t \in Tokens :
        phase = "serving" /\ Active(t) /\ att[t].by # me ~>
            ~ Active(t) \/ phase # "serving" \/ runner = "dead"

---------------------------------------------------------------------------
(* The contract of the browser slot.                                       *)

Slot == INSTANCE BrowserSlot
            WITH holder <- {t \in Tokens : Active(t)},
                 working <- {t \in Tokens : out[t] \in Executing},
                 used <- 1 .. issued

\* The leases, grants and futures of the code implement the slot: every token
\* is granted once, and no lease is released, abandoned or replaced while an
\* executor is at work under it.
ImplementsSlot == Slot!Spec

---------------------------------------------------------------------------
(* What the documents say, and the code does not do.                       *)

\* ADR-052: a read orphaned by a crash is failed as interrupted by the next
\* start; it should not be reported as a success afterwards.
FailedStays ==
    [][\A j \in Jobs : job[j] = "failed" => job'[j] = "failed"]_vars

=============================================================================
