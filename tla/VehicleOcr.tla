---------------------------- MODULE VehicleOcr -----------------------------
(***************************************************************************)
(* The recognition of the tickets of a vehicle in an offline audit.        *)
(*                                                                         *)
(* A work item is a vehicle with up to two ticket images.  The artifact of *)
(* an image on a runtime is produced once, by shared evidence work, and    *)
(* used by every vehicle that shows the image.  A scan of the scheduler    *)
(* leases a slot of a runtime to a vehicle for its batch of images; when   *)
(* the GPU fails, every vehicle that waits for the image starts over on    *)
(* the CPU.                                                                *)
(*                                                                         *)
(* A scan is one transaction and one action; its passes are operators on   *)
(* the record of the database, composed in the order of scheduler_tick.    *)
(***************************************************************************)
EXTENDS Integers, FiniteSets

CONSTANTS
    Jobs,         \* audits with local recognition that may be created
    Business,     \* those of job_kind "business"; the others only observe
    Loop8,        \* those of scope "loop8-offline-v1"
    Items, JobOf, \* vehicles, and the audit each belongs to
    Images, ImageOf, NoImage, \* the ticket of a vehicle in each role
    Compositions, \* sets of runtimes a start of the process may find usable
    MayShrink,    \* whether a start may find fewer than the one before
    MaxEpoch      \* bound: lives of the process

Roles == {"loading", "unloading"}
Runtimes == {"gpu", "cpu"}

ASSUME ConstantsAssumption ==
    /\ Business \subseteq Jobs
    /\ Loop8 \subseteq Business
    /\ JobOf \in [Items -> Jobs]
    /\ NoImage \notin Images
    /\ ImageOf \in [Items -> [Roles -> Images \cup {NoImage}]]
    /\ Compositions \subseteq (SUBSET Runtimes) \ {{}}
    /\ MayShrink \in BOOLEAN
    /\ MaxEpoch \in Nat \ {0}

VARIABLES
    db,      \* the tables below, which outlive the process
    up,      \* the process runs
    epoch,   \* its instance number
    avail,   \* the runtimes of its execution backend
    runner,  \* whether its scheduler thread is alive
    fut      \* the future of each slot: at most one, as a slot has one lease

(* The tables, one field for each column that decides something:           *)
(*   job      jobs.status        ("active": queued, running or             *)
(*                                waiting_resource, which no guard here    *)
(*                                tells apart)                             *)
(*   item     work_items.status  ("ready": queued or waiting_resource)     *)
(*   done     roles whose *_ocr_complete is 1                              *)
(*   gen, rt  status and next_runtime_kind of the item's run generation    *)
(*   out      runtime whose output the generation holds for a role         *)
(*   shared   shared_evidence_work.status of an image on a runtime;        *)
(*            "fallen" is "failed" with a diagnostic that permits the CPU  *)
(*   cons     shared_evidence_consumers.status                             *)
(*   lease    active lease of a runtime's slot; mine: of this process      *)
vars == <<db, up, epoch, avail, runner, fut>>
procVars == <<up, epoch, avail, runner>>

---------------------------------------------------------------------------
ControlledJob == {"pause_requested", "cancel_requested"}
TerminalJob == {"cancelled", "succeeded", "failed"}
JobStatus == {"absent", "active", "paused", "waiting_user"}
                \cup ControlledJob \cup TerminalJob
EndedItem == {"cancelled", "succeeded", "failed"}
ItemStatus == {"absent", "ready", "running", "waiting_user"} \cup EndedItem
GenStatus == {"none", "queued", "running", "fallback_wait", "succeeded"}
ActiveConsumer == {"waiting", "paused"}
ConsumerStatus == {"none", "consumed", "cancelled", "failed"}
                    \cup ActiveConsumer
FailedWork == {"failed", "fallen"}
WorkStatus == {"absent", "queued", "paused", "cancelled", "running",
               "succeeded"} \cup FailedWork
Verdicts == {"succeeded", "waiting_user", "failed"}
Results == {"ok", "eligible", "fatal"}

NoLease == [held |-> FALSE]
Leases == [held : {TRUE}, item : Items, batch : (SUBSET Roles) \ {{}},
           mine : BOOLEAN]

ItemsOf(j) == {i \in Items : JobOf[i] = j}
Shows(i) == {r \in Roles : ImageOf[i][r] # NoImage}
PendingUnloading(i) == Shows(i) = {"loading"}
AlreadyComplete(i) == IF PendingUnloading(i) THEN {"unloading"} ELSE {}

\* The batch is ordered, loading first; its first image owns the attempt.
Lead(roles) == IF "loading" \in roles THEN "loading" ELSE "unloading"

Primary == IF "gpu" \in avail THEN "gpu" ELSE "cpu"
FallbackExists == Runtimes \subseteq avail

Work(d, i, r, k) == d.shared[ImageOf[i][r]][k]
Leased(d, k) == d.lease[k].held
LeasedJob(d, k) == JobOf[d.lease[k].item]
\* Seeded fault: a control does not look for leases.
NeverLeased(d, j) == FALSE

IsLeased(d, j) == \E k \in Runtimes : Leased(d, k) /\ LeasedJob(d, k) = j

Init ==
    /\ db = [job |-> [j \in Jobs |-> "absent"],
             item |-> [i \in Items |-> "absent"],
             done |-> [i \in Items |-> {}],
             gen |-> [i \in Items |-> "none"],
             rt |-> [i \in Items |-> "cpu"],
             out |-> [i \in Items |-> [r \in Roles |-> "none"]],
             shared |-> [m \in Images |-> [k \in Runtimes |-> "absent"]],
             cons |-> [i \in Items |->
                         [r \in Roles |-> [k \in Runtimes |-> "none"]]],
             lease |-> [k \in Runtimes |-> NoLease]]
    /\ up = TRUE
    /\ epoch = 1
    /\ avail \in Compositions
    /\ runner = "alive"
    /\ fut = [k \in Runtimes |-> "none"]

---------------------------------------------------------------------------
(* The operator *)

StartJob(j) ==
    /\ up
    /\ db.job[j] = "absent"
    /\ db' = [db EXCEPT !.job[j] = "active",
                        !.item = [i \in Items |-> IF JobOf[i] = j
                                                  THEN "ready" ELSE @[i]]]
    /\ UNCHANGED <<procVars, fut>>

Pause(j) ==
    /\ up
    /\ db.job[j] = "active"
    /\ db' = [db EXCEPT !.job[j] = "pause_requested"]
    /\ UNCHANGED <<procVars, fut>>

\* cons with the consumers of the items that are in one of the states from
\* moved to the state to.
Moved(cons, items, from, to) ==
    [i \in Items |-> [r \in Roles |-> [k \in Runtimes |->
        IF i \in items /\ cons[i][r][k] \in from
        THEN to ELSE cons[i][r][k]]]]

\* Seeded fault: resuming forgets the consumers.
ResumeJobOnly(j) ==
    /\ up
    /\ db.job[j] = "paused"
    /\ db' = [db EXCEPT !.job[j] = "active"]
    /\ UNCHANGED <<procVars, fut>>

Resume(j) ==
    /\ up
    /\ db.job[j] = "paused"
    /\ db' = [db EXCEPT
                !.job[j] = "active",
                !.cons = Moved(@, ItemsOf(j), {"paused"}, "waiting")]
    /\ UNCHANGED <<procVars, fut>>

Cancel(j) ==
    /\ up
    /\ db.job[j] \notin {"absent"} \cup TerminalJob
    /\ db' = [db EXCEPT !.job[j] = "cancel_requested"]
    /\ UNCHANGED <<procVars, fut>>

---------------------------------------------------------------------------
(* Registration of vehicles as consumers of their images on a runtime *)

\* Seeded fault: the state of the shared work is not looked at.
RegistrationBlind(d, i, r, k) == IF r \in Shows(i) THEN "waiting" ELSE "none"

\* What the rows of vehicle i on runtime k become.  Roles are registered in
\* order; a failed artifact fails the vehicle, cancels what it waits for and
\* ends its registration.
Registration(d, i, r, k) ==
    LET failing == {q \in Shows(i) : Work(d, i, q, k) \in FailedWork}
    IN  IF r \notin Shows(i) THEN "none"
        ELSE IF failing = {} THEN "waiting"
        ELSE IF r = Lead(failing) THEN "failed"
        ELSE IF r = "loading" THEN "cancelled" ELSE "none"

\* Seeded fault: the shared work is inserted anew each time.
RegisteredAfresh(d, items, k) ==
    [d EXCEPT
       !.cons = [i \in Items |-> [r \in Roles |->
                   IF i \in items /\ r \in Shows(i)
                   THEN [@[i][r] EXCEPT ![k] = "waiting"] ELSE @[i][r]]],
       !.shared = [m \in Images |->
                     IF \E i \in items, r \in Roles : ImageOf[i][r] = m
                     THEN [@[m] EXCEPT ![k] = "queued"] ELSE @[m]]]

Registered(d, items, k) ==
    LET creates(i, m) == \E r \in Shows(i) :
                            /\ ImageOf[i][r] = m
                            /\ Registration(d, i, r, k) # "none"
        fails(i) == \E r \in Roles : Registration(d, i, r, k) = "failed"
    IN  [d EXCEPT
           !.cons = [i \in Items |-> [r \in Roles |->
                       IF i \in items
                       THEN [@[i][r] EXCEPT ![k] = Registration(d, i, r, k)]
                       ELSE @[i][r]]],
           !.item = [i \in Items |-> IF i \in items /\ fails(i)
                                     THEN "failed" ELSE @[i]],
           !.shared = [m \in Images |->
                         IF /\ @[m][k] = "absent"
                            /\ \E i \in items : creates(i, m)
                         THEN [@[m] EXCEPT ![k] = "queued"] ELSE @[m]]]

---------------------------------------------------------------------------
(* Results of the executor *)

\* Seeded fault: cancelled consumers are counted.
ExpectsCancelled(d, i, m, k) ==
    {r \in Shows(i) : /\ ImageOf[i][r] = m
                      /\ d.cons[i][r][k] \in ActiveConsumer \cup {"cancelled"}}

\* Roles in which vehicle i still counts on image m of runtime k.
Expects(d, i, m, k) == {r \in Shows(i) : /\ ImageOf[i][r] = m
                                         /\ d.cons[i][r][k] \in ActiveConsumer}

\* Seeded fault: the consumers fail, their vehicles do not.
PropagatedConsumersOnly(d, m, k) ==
    [d EXCEPT !.cons = [i \in Items |-> [r \in Roles |->
        IF r \notin Expects(d, i, m, k) THEN @[i][r]
        ELSE [@[i][r] EXCEPT ![k] = "failed"]]]]

\* The failure ends every vehicle that counts on the image.  A vehicle that
\* shows it in both roles has ended when its second row is looked at.
Propagated(d, m, k) ==
    LET hit(i) == Expects(d, i, m, k)
    IN  [d EXCEPT
           !.cons = [i \in Items |-> [r \in Roles |->
                       IF r \notin hit(i) THEN @[i][r]
                       ELSE [@[i][r] EXCEPT ![k] =
                               IF d.item[i] \in EndedItem \/ r # Lead(hit(i))
                               THEN "cancelled" ELSE "failed"]]],
           !.item = [i \in Items |->
                       IF hit(i) = {} \/ @[i] \in EndedItem
                       THEN @[i] ELSE "failed"]]

\* Seeded fault: what the GPU has already delivered is kept.
RestartedKeepingOutputs(d, m) ==
    LET items == {i \in Items : Expects(d, i, m, "gpu") # {}}
        Over(old, new(_)) == [i \in Items |-> IF i \in items
                                              THEN new(i) ELSE old[i]]
    IN  Registered(
          [d EXCEPT !.cons = Moved(@, items, ActiveConsumer, "cancelled"),
                    !.gen = Over(@, LAMBDA i : "fallback_wait"),
                    !.rt = Over(@, LAMBDA i : "cpu"),
                    !.item = Over(@, LAMBDA i : "ready"),
                    !.done = Over(@, AlreadyComplete)], items, "cpu")

\* Seeded fault: the rows on the GPU stay active.
RestartedKeepingConsumers(d, m) ==
    LET items == {i \in Items : Expects(d, i, m, "gpu") # {}}
        Over(old, new(_)) == [i \in Items |-> IF i \in items
                                              THEN new(i) ELSE old[i]]
    IN  Registered(
          [d EXCEPT !.gen = Over(@, LAMBDA i : "fallback_wait"),
                    !.rt = Over(@, LAMBDA i : "cpu"),
                    !.out = Over(@, LAMBDA i : [r \in Roles |-> "none"]),
                    !.item = Over(@, LAMBDA i : "ready"),
                    !.done = Over(@, AlreadyComplete)], items, "cpu")

\* The vehicles that count on image m of the GPU drop everything they have
\* from the GPU and register on the CPU, whatever has become of them.
RestartedOnCpu(d, m) ==
    LET items == {i \in Items : /\ Expects(d, i, m, "gpu") # {}
                                /\ d.rt[i] = "gpu"
                                /\ d.gen[i] \in {"queued", "running"}}
        Over(old, new(_)) == [i \in Items |-> IF i \in items
                                              THEN new(i) ELSE old[i]]
        dropped == [d EXCEPT
            !.cons = [i \in Items |-> [r \in Roles |->
                        IF /\ i \in items
                           /\ @[i][r].gpu \in ActiveConsumer \cup {"consumed"}
                        THEN [@[i][r] EXCEPT !.gpu = "cancelled"]
                        ELSE @[i][r]]],
            !.gen = Over(@, LAMBDA i : "fallback_wait"),
            !.rt = Over(@, LAMBDA i : "cpu"),
            !.out = Over(@, LAMBDA i : [r \in Roles |-> "none"]),
            !.item = Over(@, LAMBDA i : "ready"),
            !.done = Over(@, AlreadyComplete)]
    IN  Registered(dropped, items, "cpu")

Released(d, k) == [d EXCEPT !.lease[k] = NoLease]

\* Seeded fault: what one runtime cannot read is put down for both.
DeliveredEverywhere(d, k, result) ==
    LET l == d.lease[k]
        led == ImageOf[l.item][Lead(l.batch)]
        failed == [Released(d, k) EXCEPT !.shared[led] =
                      [q \in Runtimes |-> "failed"]]
    IN  IF result = "ok"
        THEN [Released(d, k) EXCEPT !.shared = [m \in Images |->
                IF \E r \in l.batch : ImageOf[l.item][r] = m
                THEN [@[m] EXCEPT ![k] = "succeeded"] ELSE @[m]]]
        ELSE Propagated(failed, led, k)

\* The artifacts of a batch are stored together; a failure is that of the
\* lead image, the other ones stay queued.
Delivered(d, k, result) ==
    LET l == d.lease[k]
        led == ImageOf[l.item][Lead(l.batch)]
        failed == [Released(d, k) EXCEPT !.shared[led][k] =
                      IF result = "eligible" THEN "fallen" ELSE "failed"]
    IN  IF result = "ok"
        THEN [Released(d, k) EXCEPT !.shared = [m \in Images |->
                IF \E r \in l.batch : ImageOf[l.item][r] = m
                THEN [@[m] EXCEPT ![k] = "succeeded"] ELSE @[m]]]
        ELSE IF k = "gpu" /\ result = "eligible" /\ FallbackExists
        THEN RestartedOnCpu(failed, led)
        ELSE Propagated(failed, led, k)

\* The check before a result is committed.
Intact(d, k) ==
    LET l == d.lease[k]
    IN  \A r \in l.batch : Work(d, l.item, r, k) =
            (IF r = Lead(l.batch) THEN "running" ELSE "queued")

Taken(k, ds) ==
    {IF fut[k] \in Results THEN Delivered(d, k, fut[k]) ELSE d : d \in ds}

\* The results are taken in the order of their random attempt identities.
Collected == Taken("gpu", Taken("cpu", {db})) \cup Taken("cpu", Taken("gpu", {db}))

---------------------------------------------------------------------------
(* The other passes of a scan *)

\* A pause or a cancellation waits until the job holds no lease.
Controlled(d) ==
    LET now(s) == {j \in Jobs : d.job[j] = s /\ ~IsLeased(d, j)}
        cancel == {i \in Items : JobOf[i] \in now("cancel_requested")}
        pause == {i \in Items : JobOf[i] \in now("pause_requested")}
    IN  [d EXCEPT
           !.job = [j \in Jobs |->
                      IF j \in now("cancel_requested") THEN "cancelled"
                      ELSE IF j \in now("pause_requested") THEN "paused"
                      ELSE @[j]],
           !.item = [i \in Items |->
                       IF i \in cancel /\ @[i] \notin EndedItem
                       THEN "cancelled"
                       ELSE IF i \in pause /\ @[i] = "running"
                       THEN "ready" ELSE @[i]],
           !.cons = Moved(Moved(@, cancel, ActiveConsumer, "cancelled"),
                          pause, {"waiting"}, "paused")]

\* A vehicle whose loading ticket is missing goes to a person at once.
Prepared(d) ==
    LET new == {i \in Items : /\ d.job[JobOf[i]] = "active"
                              /\ d.item[i] = "ready"
                              /\ d.gen[i] = "none"}
        run == {i \in new : "loading" \in Shows(i)}
    IN  Registered(
          [d EXCEPT
             !.item = [i \in Items |-> IF i \in new \ run
                                       THEN "waiting_user" ELSE @[i]],
             !.gen = [i \in Items |-> IF i \in run THEN "queued" ELSE @[i]],
             !.rt = [i \in Items |-> IF i \in run THEN Primary ELSE @[i]],
             !.done = [i \in Items |-> IF i \in run
                                       THEN AlreadyComplete(i) ELSE @[i]]],
          run, Primary)

\* Work is queued while a vehicle waits for it, paused while all its
\* vehicles are paused, and cancelled when none is left.
Refreshed(d) ==
    LET shown(m) == {p \in Items \X Roles : ImageOf[p[1]][p[2]] = m}
        states(m, k) == {d.cons[p[1]][p[2]][k] : p \in shown(m)} \ {"none"}
    IN  [d EXCEPT !.shared = [m \in Images |-> [k \in Runtimes |->
            IF @[m][k] \notin {"queued", "paused", "cancelled"} THEN @[m][k]
            ELSE IF states(m, k) \subseteq {"cancelled"} THEN "cancelled"
            ELSE IF "waiting" \in states(m, k) THEN "queued"
            ELSE "paused"]]]

\* Roles of vehicle i whose artifact from runtime k is ready for it.
Consumable(d, i, k) ==
    IF /\ d.item[i] \in {"ready", "running"}
       /\ d.job[JobOf[i]] \notin ControlledJob \cup {"paused", "cancelled"}
    THEN {r \in Shows(i) : /\ d.cons[i][r][k] = "waiting"
                           /\ Work(d, i, r, k) = "succeeded"}
    ELSE {}

\* Seeded fault: the loading output completes a generation.
ConsumedHalf(d) ==
    LET C(i) == Consumable(d, i, d.rt[i])
    IN  [d EXCEPT
           !.done = [i \in Items |-> @[i] \cup C(i)],
           !.out = [i \in Items |-> [r \in Roles |->
                      IF r \in C(i) THEN d.rt[i] ELSE @[i][r]]],
           !.gen = [i \in Items |-> IF "loading" \in C(i)
                                    THEN "succeeded" ELSE @[i]],
           !.cons = [i \in Items |-> [r \in Roles |->
                       IF r \in C(i)
                       THEN [@[i][r] EXCEPT ![d.rt[i]] = "consumed"]
                       ELSE @[i][r]]]]

\* The generation is complete when it holds both outputs, or the loading
\* output of a vehicle whose unloading ticket is still to come.
Consumed(d) ==
    LET C(i) == Consumable(d, i, d.rt[i])
        some == {i \in Items : C(i) # {}}
        done == [i \in Items |-> d.done[i] \cup C(i)]
        out == [i \in Items |-> [r \in Roles |->
                  IF r \in C(i) THEN d.rt[i] ELSE d.out[i][r]]]
        complete(i) == /\ out[i]["loading"] # "none"
                       /\ "unloading" \in done[i]
    IN  [d EXCEPT
           !.done = done,
           !.out = out,
           !.gen = [i \in Items |-> IF i \notin some THEN @[i]
                                    ELSE IF complete(i) THEN "succeeded"
                                    ELSE "running"],
           !.item = [i \in Items |-> IF i \in some THEN "ready" ELSE @[i]],
           !.cons = [i \in Items |-> [r \in Roles |->
                       IF r \in C(i)
                       THEN [@[i][r] EXCEPT ![d.rt[i]] = "consumed"]
                       ELSE @[i][r]]]]

Recognized(d) == {i \in Items : /\ d.gen[i] = "succeeded"
                                /\ d.done[i] = Roles
                                /\ d.item[i] = "ready"}

\* The evaluator compares the weights of a business vehicle: it agrees, asks
\* a person or fails.
Finalized(d, verdict) ==
    [d EXCEPT !.item = [i \in Items |->
        IF i \notin Recognized(d) THEN @[i]
        ELSE IF JobOf[i] \notin Business THEN "succeeded"
        ELSE IF PendingUnloading(i) THEN "waiting_user"
        ELSE verdict[i]]]

\* Seeded fault: the status of a vehicle is written into the audit.
AggregatedUnmapped(d) ==
    [d EXCEPT !.job = [j \in Jobs |->
        IF \E i \in ItemsOf(j) : d.item[i] = "running" THEN "running" ELSE @[j]]]

Aggregated(d) ==
    LET states(j) == {d.item[i] : i \in ItemsOf(j)}
        status(j) ==
          IF states(j) \cap {"ready", "running"} # {} THEN "active"
          ELSE IF j \notin Loop8 /\ "failed" \in states(j) THEN "failed"
          ELSE IF /\ states(j) \subseteq Verdicts
                  /\ "waiting_user" \in states(j) THEN "waiting_user"
          ELSE IF "failed" \in states(j) THEN "failed"
          ELSE IF states(j) = {"succeeded"} THEN "succeeded"
          ELSE "active"
    IN  [d EXCEPT !.job = [j \in Jobs |->
           IF @[j] \in ControlledJob \cup {"absent", "paused", "cancelled"}
           THEN @[j] ELSE status(j)]]

---------------------------------------------------------------------------
(* Grants *)

\* Rows of the candidate query: a queued image that a vehicle waits for.
Rows(d, k) == {p \in Items \X Roles :
                 /\ p[2] \in Shows(p[1]) \ d.done[p[1]]
                 /\ d.cons[p[1]][p[2]][k] = "waiting"
                 /\ Work(d, p[1], p[2], k) = "queued"
                 /\ d.item[p[1]] = "ready"
                 /\ d.job[JobOf[p[1]]] = "active"}

SameImage(p, q) == ImageOf[p[1]][p[2]] = ImageOf[q[1]][q[2]]

\* Seeded fault: an image may be twice in a batch.
BatchesTwice(d, k, i) ==
    {batch \in (SUBSET Roles) \ {{}} : \A r \in batch : <<i, r>> \in Rows(d, k)}

\* The rows come in any order and the first one of an image claims it: a
\* batch of vehicle i has each of its images once, and leaves out only those
\* that another row claims.
Batches(d, k, i) ==
    {batch \in (SUBSET {r \in Roles : <<i, r>> \in Rows(d, k)}) \ {{}} :
       /\ \A q, r \in batch : SameImage(<<i, q>>, <<i, r>>) => q = r
       /\ \A r \in Roles \ batch : <<i, r>> \in Rows(d, k) =>
            \E p \in Rows(d, k) :
               /\ SameImage(p, <<i, r>>)
               /\ IF p[1] = i THEN p[2] \in batch ELSE TRUE}

\* Every generation that waits for the lead image counts as running.
Granted(d, k, i, batch) ==
    LET led == ImageOf[i][Lead(batch)]
        waits(e) == \E r \in Shows(e) : /\ ImageOf[e][r] = led
                                        /\ d.cons[e][r][k] = "waiting"
    IN  [d EXCEPT
           !.lease[k] = [held |-> TRUE, item |-> i, batch |-> batch,
                         mine |-> TRUE],
           !.item[i] = "running",
           !.shared[led][k] = "running",
           !.gen = [e \in Items |-> IF /\ waits(e)
                                       /\ @[e] \in {"queued", "fallback_wait"}
                                    THEN "running" ELSE @[e]]]

\* Seeded fault: the slot is not looked at.
SlotIsFreeUnchecked(d, k) == TRUE

SlotIsFree(d, k) == ~Leased(d, k)

\* Outcomes of the attempt to lease slot k: which candidate is chosen is a
\* matter of fairness and left open.
Grants(d, k) ==
    IF SlotIsFree(d, k) /\ Rows(d, k) # {}
    THEN {Granted(d, k, pick[1], pick[2]) :
            pick \in {c \in {p[1] : p \in Rows(d, k)}
                              \X ((SUBSET Roles) \ {{}}) :
                        c[2] \in Batches(d, k, c[1])}}
    ELSE {d}

---------------------------------------------------------------------------
(* The scheduler thread *)

HasAutomaticWork ==
    \/ \E j \in Jobs : db.job[j] \in {"active"} \cup ControlledJob
    \/ \E k \in Runtimes : Leased(db, k)

Ticks == up /\ runner = "alive" /\ HasAutomaticWork

Through(Pass(_), ds) == {Pass(d) : d \in ds}

\* The passes up to the evaluation of recognized vehicles.
Advanced == Through(Consumed, Through(Refreshed, Through(Prepared,
                Through(Controlled, Collected))))

\* An artifact that is ready for a vehicle must be of its runtime, and a
\* slot is leased under the identity of a runtime that this process has.
Raises(d) ==
    \/ \E i \in Items, k \in Runtimes : /\ k # d.rt[i]
                                        /\ Consumable(d, i, k) # {}
    \/ \E k \in Runtimes \ avail : Leased(d, k) = FALSE /\ Rows(d, k) # {}

Uncommittable ==
    \/ \E k \in Runtimes : fut[k] \in Results /\ ~Intact(db, k)
    \/ \E d \in Advanced : Raises(d)

\* The future of a slot after a scan: submitted once the scan has committed.
Submitted(k, d) ==
    IF ~Leased(d, k) THEN "none"
    ELSE IF ~Leased(db, k) \/ fut[k] \in Results THEN "working"
    ELSE fut[k]

Scan ==
    /\ Ticks
    /\ ~Uncommittable
    /\ \E d \in Advanced :
         \E verdict \in [Recognized(d) -> Verdicts] :
         \E f \in {Finalized(d, verdict)} :
         \E g \in Grants(f, "gpu") :
         \E h \in Grants(g, "cpu") :
            /\ db' = Aggregated(h)
            /\ fut' = [k \in Runtimes |-> Submitted(k, h)]
    /\ UNCHANGED procVars

\* Nothing catches what a scan raises: the transaction is rolled back and
\* the thread ends.
ScanFails ==
    /\ Ticks
    /\ Uncommittable
    /\ runner' = "dead"
    /\ UNCHANGED <<db, up, epoch, avail, fut>>

\* Seeded fault: the image of an attempt that is given up is forgotten.
AbandonedVehicleOnly(d, k) ==
    LET l == d.lease[k]
    IN  IF ~l.held THEN d
        ELSE [Released(d, k) EXCEPT
                !.item[l.item] = IF @ = "running" THEN "ready" ELSE @]

\* An attempt whose owner is gone is given up: its vehicle and its lead
\* image go back to the queue.
Abandoned(d, k) ==
    LET l == d.lease[k]
        led == ImageOf[l.item][Lead(l.batch)]
    IN  IF ~l.held THEN d
        ELSE [Released(d, k) EXCEPT
                !.item[l.item] = IF @ = "running" THEN "ready" ELSE @,
                !.shared[led][k] = IF @ = "running" THEN "queued" ELSE @]

\* A tick that finds the lease of an earlier process expired recovers first.
Recover(k) ==
    /\ Ticks
    /\ Leased(db, k)
    /\ ~db.lease[k].mine
    /\ db' = Abandoned(db, k)
    /\ UNCHANGED <<procVars, fut>>

---------------------------------------------------------------------------
(* The executor and the process *)

Execute(k) ==
    /\ up
    /\ fut[k] = "working"
    /\ \E result \in Results : fut' = [fut EXCEPT ![k] = result]
    /\ UNCHANGED <<db, procVars>>

Idle == [k \in Runtimes |-> "none"]

\* The thread is joined, the executor drained and its results discarded.
Stop ==
    /\ up
    /\ up' = FALSE
    /\ fut' = Idle
    /\ db' = LET give(d, k) == IF Leased(d, k) /\ d.lease[k].mine
                               THEN Abandoned(d, k) ELSE d
             IN  give(give(db, "gpu"), "cpu")
    /\ UNCHANGED <<epoch, avail, runner>>

Crash ==
    /\ up
    /\ up' = FALSE
    /\ fut' = Idle
    /\ db' = [db EXCEPT !.lease = [k \in Runtimes |->
                IF @[k].held THEN [@[k] EXCEPT !.mine = FALSE] ELSE @[k]]]
    /\ UNCHANGED <<epoch, avail, runner>>

Boot ==
    /\ ~up
    /\ epoch < MaxEpoch
    /\ up' = TRUE
    /\ epoch' = epoch + 1
    /\ avail' \in {c \in Compositions : MayShrink \/ avail \subseteq c}
    /\ runner' = "alive"
    /\ UNCHANGED <<db, fut>>

---------------------------------------------------------------------------
Operator == \E j \in Jobs : StartJob(j) \/ Pause(j) \/ Resume(j) \/ Cancel(j)

Next ==
    \/ Operator
    \/ Scan
    \/ ScanFails
    \/ \E k \in Runtimes : Recover(k) \/ Execute(k)
    \/ Stop
    \/ Crash
    \/ Boot

Spec == Init /\ [][Next]_vars

\* The thread polls while there is work, leases of dead processes expire,
\* every recognition has a deadline, and the program is started again.
FairSpec ==
    /\ Spec
    /\ WF_vars(Scan \/ ScanFails)
    /\ \A k \in Runtimes : WF_vars(Recover(k)) /\ WF_vars(Execute(k))

---------------------------------------------------------------------------
(* Properties *)

TypeOK ==
    /\ db \in [job : [Jobs -> JobStatus],
               item : [Items -> ItemStatus],
               done : [Items -> SUBSET Roles],
               gen : [Items -> GenStatus],
               rt : [Items -> Runtimes],
               out : [Items -> [Roles -> Runtimes \cup {"none"}]],
               shared : [Images -> [Runtimes -> WorkStatus]],
               cons : [Items -> [Roles -> [Runtimes -> ConsumerStatus]]],
               lease : [Runtimes -> Leases \cup {NoLease}]]
    /\ up \in BOOLEAN
    /\ epoch \in 1 .. MaxEpoch
    /\ avail \in Compositions
    /\ runner \in {"alive", "dead"}
    /\ fut \in [Runtimes -> Results \cup {"none", "working"}]

\* The batch of a leased vehicle stays what it was when it was granted: its
\* lead image running, the other one queued, both awaited by the vehicle,
\* which runs.  And nothing runs without a lease.
BatchIntact ==
    /\ \A k \in Runtimes : Leased(db, k) =>
         LET l == db.lease[k]
         IN  /\ Intact(db, k)
             /\ db.item[l.item] = "running"
             /\ \A r \in l.batch : db.cons[l.item][r][k] = "waiting"
    /\ \A m \in Images, k \in Runtimes : db.shared[m][k] = "running" =>
         Leased(db, k) /\ ImageOf[db.lease[k].item][Lead(db.lease[k].batch)] = m

\* A vehicle never mixes runtimes: each output that it holds is the stored
\* artifact of the runtime it is on, consumed once; it is recognized when it
\* holds one for each ticket, and succeeds only when it is recognized.
OneRuntime == \A i \in Items :
    /\ \A r \in Roles : db.out[i][r] # "none" =>
         /\ db.out[i][r] = db.rt[i]
         /\ db.cons[i][r][db.rt[i]] = "consumed"
         /\ Work(db, i, r, db.rt[i]) = "succeeded"
    /\ db.gen[i] = "succeeded" => \A r \in Shows(i) : db.out[i][r] # "none"
    /\ db.item[i] = "succeeded" => db.gen[i] = "succeeded"

\* An unfinished vehicle waits for every ticket it has not got, for work on
\* its runtime that can still end; it is put off only with its audit.
NeverStranded == \A i \in Items :
    db.item[i] \in {"ready", "running"} /\ db.gen[i] # "none" =>
      \A r \in Shows(i) \ db.done[i] :
        /\ db.cons[i][r][db.rt[i]] \in ActiveConsumer
        /\ Work(db, i, r, db.rt[i]) \notin FailedWork \cup {"absent"}
        /\ db.cons[i][r][db.rt[i]] = "paused" =>
             db.job[JobOf[i]] \in {"paused", "cancel_requested"}

\* Pause and cancellation take effect between vehicles: an audit at rest has
\* no leased and no running vehicle.
VehicleBoundary == \A j \in Jobs :
    db.job[j] \in {"paused", "waiting_user"} \cup TerminalJob =>
      /\ \A k \in Runtimes : Leased(db, k) => LeasedJob(db, k) # j
      /\ \A i \in ItemsOf(j) : db.item[i] # "running"

\* The scheduler thread lives.
SchedulerSurvives == runner = "alive"

\* What has ended stays as it ended, except that a failed vehicle may start
\* over on the CPU once, with the audit it belongs to.
EndedStays == [][\A i \in Items : db.item[i] \in EndedItem \cup {"waiting_user"} =>
    \/ db'.item[i] = db.item[i]
    \/ db.item[i] = "waiting_user" /\ db'.item[i] = "cancelled"
    \/ db.item[i] = "failed" /\ db.rt[i] = "gpu" /\ db'.rt[i] = "cpu"]_vars

\* An artifact is produced once: it stays, and is not produced again.
ArtifactStays == [][\A m \in Images, k \in Runtimes :
    db.shared[m][k] \in {"succeeded"} \cup FailedWork =>
      db'.shared[m][k] = db.shared[m][k]]_vars

\* The store of artifacts behind the tables.
BatchOn(d, k) == IF Leased(d, k)
                 THEN {ImageOf[d.lease[k].item][r] : r \in d.lease[k].batch} ELSE {}
StoredOn(d, k) == {m \in Images : d.shared[m][k] = "succeeded"}
RefusedOn(d, k) == {m \in Images : d.shared[m][k] \in FailedWork}

Store == INSTANCE ArtifactStore WITH
    batch <- [k \in Runtimes |-> BatchOn(db, k)],
    stored <- [k \in Runtimes |-> StoredOn(db, k)],
    refused <- [k \in Runtimes |-> RefusedOn(db, k)]

\* The work on an image is done once on each runtime, in the batch that holds
\* it: no scan, restart, recovery or registration settles anything else, or
\* takes up what is settled.
ImplementsStore == Store!Spec

\* A vehicle of an audit that is at work is answered, unless the audit is
\* put off or the process ends.
VehicleAnswered == \A i \in Items :
    (up /\ db.job[JobOf[i]] = "active" /\ db.item[i] \in {"ready", "running"})
      ~> \/ db.item[i] \in EndedItem \cup {"waiting_user"}
         \/ db.job[JobOf[i]] # "active"
         \/ ~up
=============================================================================
