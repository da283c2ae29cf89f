-------------------------- MODULE VehicleRunProofs --------------------------
(***************************************************************************)
(* Why the recognition of vehicles goes on: the scheduler thread has no    *)
(* reason to raise, and no unfinished vehicle waits for what cannot come.  *)
(* And why it repeats nothing: the tables implement ArtifactStore.         *)
(***************************************************************************)
EXTENDS VehicleOcrProofs

---------------------------------------------------------------------------
(* What the passes of a scan do to the columns that the results do not.    *)

\* Work that a vehicle can wait for no longer, or that is nobody's.
Useless == FailedWork \cup {"absent"}

\* One consumer is moved.
LEMMA MovedSets ==
    ASSUME NEW cons \in ConsumerTable, NEW items, NEW from, NEW to,
           NEW i \in Items, NEW r \in Roles, NEW k \in Runtimes
    PROVE  Moved(cons, items, from, to)[i][r][k] =
               IF i \in items /\ cons[i][r][k] \in from THEN to ELSE cons[i][r][k]
BY DEF Moved

\* Registration writes the rows of its vehicles on its runtime and nothing else.
RegisteredFor(d, e, k, i) ==
    /\ \A r \in Roles, q \in Runtimes :
           e.cons[i][r][q] = IF q = k THEN Registration(d, i, r, k) ELSE d.cons[i][r][q]
    /\ e.item[i] = IF \E r \in Roles : Registration(d, i, r, k) = "failed"
                   THEN "failed" ELSE d.item[i]
    /\ \A r \in Shows(i) : Registration(d, i, r, k) # "none" =>
                               Work(e, i, r, k) # "absent"
SameRows(d, e, i) ==
    /\ \A r \in Roles, q \in Runtimes : e.cons[i][r][q] = d.cons[i][r][q]
    /\ e.item[i] = d.item[i]
SameProgress(d, e, i) ==
    /\ e.done[i] = d.done[i] /\ e.gen[i] = d.gen[i]
    /\ e.rt[i] = d.rt[i] /\ e.out[i] = d.out[i]

LEMMA RegisteredSets ==
    ASSUME NEW d \in Databases, NEW items, NEW k \in Runtimes, NEW i \in Items
    PROVE  /\ Registered(d, items, k).job = d.job
           /\ SameProgress(d, Registered(d, items, k), i)
           /\ i \in items => RegisteredFor(d, Registered(d, items, k), k, i)
           /\ i \notin items => SameRows(d, Registered(d, items, k), i)
<1> DEFINE e == Registered(d, items, k)
<1>1. e.job = d.job /\ SameProgress(d, e, i)
    BY DEF Registered, Databases, SameProgress
<1>2. \A r \in Roles, q \in Runtimes :
          e.cons[i][r][q] = IF i \in items /\ q = k THEN Registration(d, i, r, k)
                            ELSE d.cons[i][r][q]
    BY Fields DEF Registered, Databases, ConsumerTable
<1>3. e.item[i] = IF i \in items /\ \E r \in Roles : Registration(d, i, r, k) = "failed"
                  THEN "failed" ELSE d.item[i]
    BY Fields DEF Registered, Databases
<1>4. ASSUME i \in items, NEW r \in Shows(i), Registration(d, i, r, k) # "none"
      PROVE  Work(e, i, r, k) # "absent"
    <2>1. ImageOf[i][r] \in Images
        BY ShownImages
    <2>2. e.shared[ImageOf[i][r]][k] = IF d.shared[ImageOf[i][r]][k] = "absent" THEN "queued"
                                       ELSE d.shared[ImageOf[i][r]][k]
        BY <1>4, <2>1, Fields DEF Registered, Databases, WorkTable
    <2> QED BY <2>2 DEF Work
<1> QED BY <1>1, <1>2, <1>3, <1>4 DEF RegisteredFor, SameRows

\* A registration fails the vehicle, or lets it wait for each of its tickets.
LEMMA RegistrationIs ==
    ASSUME NEW d, NEW i, NEW k
    PROVE  \/ /\ \E r \in Roles : Registration(d, i, r, k) = "failed"
              /\ \A r \in Roles : Registration(d, i, r, k) \notin ActiveConsumer
           \/ /\ \A r \in Shows(i) : Registration(d, i, r, k) = "waiting"
                                     /\ Work(d, i, r, k) \notin FailedWork
              /\ \A r \in Roles \ Shows(i) : Registration(d, i, r, k) = "none"
<1> DEFINE failing == {q \in Shows(i) : Work(d, i, q, k) \in FailedWork}
<1>1. CASE failing = {}
    BY <1>1 DEF Registration
<1>2. CASE failing # {}
    <2>1. Lead(failing) \in failing /\ failing \subseteq Shows(i) /\ Shows(i) \subseteq Roles
        BY <1>2 DEF Lead, Shows, Roles
    <2>2. Registration(d, i, Lead(failing), k) = "failed"
        BY <1>2, <2>1 DEF Registration
    <2>3. \A r \in Roles : Registration(d, i, r, k) \in {"none", "failed", "cancelled"}
        BY <1>2 DEF Registration
    <2> QED BY <2>1, <2>2, <2>3 DEF ActiveConsumer
<1> QED BY <1>1, <1>2

\* A vehicle that was ready is registered: it has failed, or waits for all its tickets.
Enrolled(e, i, k) ==
    \/ /\ e.item[i] = "failed"
       /\ \A r \in Roles : e.cons[i][r][k] \notin ActiveConsumer
    \/ /\ e.item[i] = "ready"
       /\ \A r \in Shows(i) : e.cons[i][r][k] = "waiting" /\ Work(e, i, r, k) \notin Useless

LEMMA RegisteredEnrolls ==
    ASSUME NEW d \in Databases, NEW items, NEW k \in Runtimes, NEW i \in Items, i \in items,
           d.item[i] = "ready"
    PROVE  Enrolled(Registered(d, items, k), i, k)
<1> DEFINE e == Registered(d, items, k)
<1>1. RegisteredFor(d, e, k, i) /\ Grown(d, e, k)
    BY RegisteredSets, RegisteredStep
<1> HIDE DEF e
<1>4. \A r \in Roles : e.cons[i][r][k] = Registration(d, i, r, k)
    BY <1>1 DEF RegisteredFor
<1>5. e.item[i] = IF \E r \in Roles : Registration(d, i, r, k) = "failed"
                  THEN "failed" ELSE "ready"
    BY <1>1 DEF RegisteredFor
<1>2. CASE /\ \E r \in Roles : Registration(d, i, r, k) = "failed"
           /\ \A r \in Roles : Registration(d, i, r, k) \notin ActiveConsumer
    <2>1. e.item[i] = "failed"
        BY <1>2, <1>5
    <2>2. \A r \in Roles : e.cons[i][r][k] \notin ActiveConsumer
        BY <1>2, <1>4
    <2> QED BY <2>1, <2>2 DEF Enrolled, e
<1>3. CASE /\ \A r \in Shows(i) : Registration(d, i, r, k) = "waiting"
                                  /\ Work(d, i, r, k) \notin FailedWork
           /\ \A r \in Roles \ Shows(i) : Registration(d, i, r, k) = "none"
    <2>1. e.item[i] = "ready"
        BY <1>3, <1>5 DEF Shows
    <2>2. ASSUME NEW r \in Shows(i)
          PROVE  e.cons[i][r][k] = "waiting" /\ Work(e, i, r, k) \notin Useless
        <3>1. r \in Roles /\ ImageOf[i][r] \in Images
            BY ShownImages DEF Shows
        <3>2. Work(e, i, r, k) \in {Work(d, i, r, k), "queued"}
            BY <1>1, <3>1 DEF Grown, Work
        <3>3. Work(e, i, r, k) # "absent"
            BY <1>1, <1>3 DEF RegisteredFor
        <3> QED BY <1>3, <1>4, <3>1, <3>2, <3>3 DEF Useless, FailedWork
    <2> QED BY <2>1, <2>2 DEF Enrolled, e
<1> QED BY <1>2, <1>3, RegistrationIs DEF e

\* The vehicles that a failure of the GPU restarts.
Restarting(d, m) == {i \in Items : /\ Expects(d, i, m, "gpu") # {}
                                   /\ d.rt[i] = "gpu"
                                   /\ d.gen[i] \in {"queued", "running"}}

\* They have nothing but what they wait for on the CPU.
Restarted(d, e, i) ==
    /\ e.gen[i] = "fallback_wait" /\ e.rt[i] = "cpu"
    /\ e.done[i] = AlreadyComplete(i)
    /\ \A r \in Roles : e.out[i][r] = "none"
    /\ \A r \in Roles : e.cons[i][r]["gpu"] \notin ActiveConsumer
    /\ Enrolled(e, i, "cpu")

LEMMA RestartedSets ==
    ASSUME NEW d \in Databases, NEW m, NEW i \in Items
    PROVE  /\ RestartedOnCpu(d, m).job = d.job
           /\ i \in Restarting(d, m) => Restarted(d, RestartedOnCpu(d, m), i)
           /\ i \notin Restarting(d, m) => /\ SameRows(d, RestartedOnCpu(d, m), i)
                                           /\ SameProgress(d, RestartedOnCpu(d, m), i)
<1> DEFINE items == Restarting(d, m)
           c == [h \in Items |-> [r \in Roles |->
                        IF /\ h \in items
                           /\ d.cons[h][r].gpu \in ActiveConsumer \cup {"consumed"}
                        THEN [d.cons[h][r] EXCEPT !.gpu = "cancelled"]
                        ELSE d.cons[h][r]]]
           g == [h \in Items |-> IF h \in items THEN "fallback_wait" ELSE d.gen[h]]
           rt == [h \in Items |-> IF h \in items THEN "cpu" ELSE d.rt[h]]
           o == [h \in Items |-> IF h \in items THEN [r \in Roles |-> "none"] ELSE d.out[h]]
           it == [h \in Items |-> IF h \in items THEN "ready" ELSE d.item[h]]
           dn == [h \in Items |-> IF h \in items THEN AlreadyComplete(h) ELSE d.done[h]]
           dropped == [d EXCEPT !.cons = c, !.gen = g, !.rt = rt, !.out = o,
                                !.item = it, !.done = dn]
           e == RestartedOnCpu(d, m)
<1>1. "cancelled" \in ConsumerStatus /\ "fallback_wait" \in GenStatus
      /\ "cancelled" \notin ActiveConsumer
      /\ "cpu" \in Runtimes /\ "gpu" \in Runtimes /\ "ready" \in ItemStatus /\ "cpu" # "gpu"
      /\ \A h : AlreadyComplete(h) \in SUBSET Roles
    BY DEF ConsumerStatus, ActiveConsumer, GenStatus, Runtimes, ItemStatus, AlreadyComplete,
       Roles
<1>2. c \in ConsumerTable
    <2>1. d.cons \in ConsumerTable
        BY Fields
    <2> HIDE DEF items
    <2> QED BY <1>1, <2>1 DEF ConsumerTable
<1>3. /\ g \in [Items -> GenStatus] /\ rt \in [Items -> Runtimes]
      /\ o \in [Items -> [Roles -> Runtimes \cup {"none"}]]
      /\ it \in [Items -> ItemStatus] /\ dn \in [Items -> SUBSET Roles]
    <2> HIDE DEF items
    <2> QED BY <1>1, Fields
<1>4. e = Registered(dropped, items, "cpu")
    BY DEF RestartedOnCpu, Databases, Restarting
<1>5. /\ i \in items => /\ it[i] = "ready" /\ g[i] = "fallback_wait" /\ rt[i] = "cpu"
                         /\ dn[i] = AlreadyComplete(i) /\ \A r \in Roles : o[i][r] = "none"
      /\ i \notin items => /\ it[i] = d.item[i] /\ g[i] = d.gen[i] /\ rt[i] = d.rt[i]
                            /\ dn[i] = d.done[i] /\ o[i] = d.out[i]
                            /\ \A r \in Roles : c[i][r] = d.cons[i][r]
    <2> HIDE DEF items
    <2> QED OBVIOUS
<1>6. i \in items => \A r \in Roles : c[i][r]["gpu"] \notin ActiveConsumer
    <2> HIDE DEF items
    <2> QED BY <1>1, Fields DEF ConsumerTable
<1> HIDE DEF c, g, rt, o, it, dn, items
<1>7. /\ dropped \in Databases /\ dropped.job = d.job /\ dropped.item = it
      /\ dropped.cons = c /\ dropped.rt = rt /\ dropped.gen = g /\ dropped.out = o
      /\ dropped.done = dn
    BY <1>2, <1>3 DEF Databases, ConsumerTable
<1> HIDE DEF dropped, e
<1>8. /\ e.job = dropped.job /\ SameProgress(dropped, e, i)
      /\ i \in items => RegisteredFor(dropped, e, "cpu", i)
      /\ i \notin items => SameRows(dropped, e, i)
    BY <1>1, <1>4, <1>7, RegisteredSets
<1>9. CASE i \in items
    <2>1. Enrolled(e, i, "cpu")
        BY <1>1, <1>4, <1>5, <1>7, <1>9, RegisteredEnrolls
    <2>2. \A r \in Roles : e.cons[i][r]["gpu"] \notin ActiveConsumer
        BY <1>1, <1>6, <1>7, <1>8, <1>9 DEF RegisteredFor
    <2>3. e.gen[i] = "fallback_wait" /\ e.rt[i] = "cpu" /\ e.done[i] = AlreadyComplete(i)
          /\ \A r \in Roles : e.out[i][r] = "none"
        BY <1>5, <1>7, <1>8, <1>9 DEF SameProgress
    <2> QED BY <1>7, <1>8, <1>9, <2>1, <2>2, <2>3 DEF Restarted, items, e
<1>10. CASE i \notin items
    BY <1>5, <1>7, <1>8, <1>10 DEF SameRows, SameProgress, items, e
<1> QED BY <1>9, <1>10

\* The vehicles that are new, and those of them that can be recognized.
New(d) == {i \in Items : /\ d.job[JobOf[i]] = "active"
                         /\ d.item[i] = "ready"
                         /\ d.gen[i] = "none"}
Begun(d) == {i \in New(d) : "loading" \in Shows(i)}

Begins(d, e, i) ==
    /\ e.gen[i] = "queued" /\ e.rt[i] = Primary
    /\ e.done[i] = AlreadyComplete(i) /\ e.out[i] = d.out[i]
    /\ \A r \in Roles, q \in Runtimes \ {Primary} : e.cons[i][r][q] = d.cons[i][r][q]
    /\ Enrolled(e, i, Primary)

LEMMA PreparedSets ==
    ASSUME NEW d \in Databases, NEW i \in Items
    PROVE  /\ Prepared(d).job = d.job
           /\ i \in Begun(d) => Begins(d, Prepared(d), i)
           /\ i \notin Begun(d) =>
                /\ SameProgress(d, Prepared(d), i)
                /\ \A r \in Roles, q \in Runtimes :
                       Prepared(d).cons[i][r][q] = d.cons[i][r][q]
                /\ Prepared(d).item[i] = IF i \in New(d) THEN "waiting_user" ELSE d.item[i]
<1> DEFINE new == New(d)
           run == Begun(d)
           it == [h \in Items |-> IF h \in new \ run THEN "waiting_user" ELSE d.item[h]]
           g == [h \in Items |-> IF h \in run THEN "queued" ELSE d.gen[h]]
           rt == [h \in Items |-> IF h \in run THEN Primary ELSE d.rt[h]]
           dn == [h \in Items |-> IF h \in run THEN AlreadyComplete(h) ELSE d.done[h]]
           f == [d EXCEPT !.item = it, !.gen = g, !.rt = rt, !.done = dn]
           e == Prepared(d)
<1>1. "waiting_user" \in ItemStatus /\ "queued" \in GenStatus /\ Primary \in Runtimes
      /\ \A h : AlreadyComplete(h) \in SUBSET Roles
    BY DEF GenStatus, Runtimes, ItemStatus, AlreadyComplete, Roles, Primary
<1>2. /\ g \in [Items -> GenStatus] /\ rt \in [Items -> Runtimes]
      /\ it \in [Items -> ItemStatus] /\ dn \in [Items -> SUBSET Roles]
    <2> HIDE DEF new, run
    <2> QED BY <1>1, Fields
<1>3. e = Registered(f, run, Primary)
    BY DEF Prepared, Databases, New, Begun
<1>4. /\ i \in run => /\ i \in new /\ d.item[i] = "ready"
                       /\ g[i] = "queued" /\ rt[i] = Primary /\ dn[i] = AlreadyComplete(i)
      /\ i \notin run => g[i] = d.gen[i] /\ rt[i] = d.rt[i] /\ dn[i] = d.done[i]
      /\ it[i] = IF i \in new \ run THEN "waiting_user" ELSE d.item[i]
    BY DEF New, Begun
<1> HIDE DEF g, rt, it, dn, new, run
<1>5. /\ f \in Databases /\ f.job = d.job /\ f.item = it /\ f.cons = d.cons
      /\ f.rt = rt /\ f.gen = g /\ f.done = dn /\ f.out = d.out
    BY <1>2 DEF Databases
<1> HIDE DEF f, e
<1>6. /\ e.job = f.job /\ SameProgress(f, e, i)
      /\ i \in run => RegisteredFor(f, e, Primary, i)
      /\ i \notin run => SameRows(f, e, i)
    BY <1>1, <1>3, <1>5, RegisteredSets
<1>7. CASE i \in run
    <2>1. Enrolled(e, i, Primary)
        BY <1>1, <1>3, <1>4, <1>5, <1>7, RegisteredEnrolls
    <2>2. \A r \in Roles, q \in Runtimes \ {Primary} : e.cons[i][r][q] = d.cons[i][r][q]
        BY <1>5, <1>6, <1>7 DEF RegisteredFor
    <2> QED BY <1>4, <1>5, <1>6, <1>7, <2>1, <2>2 DEF SameProgress, Begins, run, e
<1>8. CASE i \notin run
    BY <1>4, <1>5, <1>6, <1>8 DEF SameRows, SameProgress, run, new, e
<1> QED BY <1>7, <1>8

---------------------------------------------------------------------------
(* The scheduler thread.  A vehicle waits only for a runtime of this        *)
(* process.                                                                 *)

Backed(d) == \A i \in Items, r \in Roles, k \in Runtimes :
    d.cons[i][r][k] \in ActiveConsumer => k \in avail

\* No consumer begins to wait.
Fewer(d, e) == \A i \in Items, r \in Roles, k \in Runtimes :
    e.cons[i][r][k] \in ActiveConsumer => d.cons[i][r][k] \in ActiveConsumer

LEMMA FewerBacked == ASSUME NEW d, NEW e, Backed(d), Fewer(d, e) PROVE Backed(e)
BY DEF Backed, Fewer

LEMMA RegisteredBacked ==
    ASSUME NEW d \in Databases, Backed(d), NEW items, NEW k \in Runtimes, k \in avail
    PROVE  Backed(Registered(d, items, k))
<1> DEFINE e == Registered(d, items, k)
<1> SUFFICES ASSUME NEW i \in Items, NEW r \in Roles, NEW q \in Runtimes,
                    e.cons[i][r][q] \in ActiveConsumer, q # k
             PROVE  d.cons[i][r][q] \in ActiveConsumer
    BY DEF Backed
<1>1. \/ RegisteredFor(d, e, k, i)
      \/ SameRows(d, e, i)
    BY RegisteredSets
<1> HIDE DEF e
<1> QED BY <1>1 DEF RegisteredFor, SameRows

LEMMA PropagatedFewer ==
    ASSUME NEW d \in Databases, NEW m, NEW k \in Runtimes
    PROVE  Fewer(d, Propagated(d, m, k))
<1> SUFFICES ASSUME NEW i \in Items, NEW r \in Roles, NEW q \in Runtimes
             PROVE  Propagated(d, m, k).cons[i][r][q]
                        \in {d.cons[i][r][q], "cancelled", "failed"}
    BY DEF Fewer, ActiveConsumer
<1> QED BY Fields DEF Propagated, Databases, ConsumerTable

LEMMA RestartedBacked ==
    ASSUME NEW d \in Databases, Backed(d), NEW m, "cpu" \in avail
    PROVE  Backed(RestartedOnCpu(d, m))
<1> SUFFICES ASSUME NEW i \in Items, NEW r \in Roles, NEW q \in Runtimes, q # "cpu",
                    RestartedOnCpu(d, m).cons[i][r][q] \in ActiveConsumer
             PROVE  d.cons[i][r][q] \in ActiveConsumer
    BY DEF Backed
<1>1. q = "gpu"
    BY DEF Runtimes
<1> QED BY <1>1, RestartedSets DEF Restarted, SameRows

LEMMA PrimaryUsable == avail \in Compositions => Primary \in avail /\ Primary \in Runtimes
BY ConstantsAssumption DEF Primary, Runtimes

LEMMA PreparedBacked ==
    ASSUME NEW d \in Databases, Backed(d), avail \in Compositions
    PROVE  Backed(Prepared(d))
<1> SUFFICES ASSUME NEW i \in Items, NEW r \in Roles, NEW q \in Runtimes, q # Primary,
                    Prepared(d).cons[i][r][q] \in ActiveConsumer
             PROVE  d.cons[i][r][q] \in ActiveConsumer
    BY PrimaryUsable DEF Backed
<1> QED BY PreparedSets DEF Begins

LEMMA SameBacked ==
    ASSUME NEW d, NEW e, Backed(d), e.cons = d.cons PROVE Backed(e)
BY DEF Backed

\* The other columns of a lease or a result are not those of vehicles.
LEMMA DeliveredBacked ==
    ASSUME NEW d, Orderly(d), Backed(d), NEW k \in Runtimes, NEW result \in Results,
           Leased(d, k)
    PROVE  Backed(Delivered(d, k, result))
<1>0. d \in Databases /\ Led(d, k) \in Images
    BY LedImage DEF Orderly
<1>1. CASE Delivered(d, k, result) = Stored(d, k)
    <2>1. Stored(d, k).cons = d.cons
        BY <1>0, StoredStep DEF Free
    <2> QED BY <1>1, <2>1, SameBacked
<1>2. ASSUME NEW word \in FailedWork
      PROVE  Marked(d, k, word) \in Databases /\ Backed(Marked(d, k, word))
    <2>1. Marked(d, k, word) \in Databases /\ Free(d, Marked(d, k, word), k)
        BY <1>0, <1>2, MarkedStep
    <2>2. Marked(d, k, word).cons = d.cons
        BY <2>1 DEF Free
    <2> QED BY <2>1, <2>2, SameBacked
<1>3. ASSUME NEW word \in FailedWork,
             Delivered(d, k, result) = Propagated(Marked(d, k, word), Led(d, k), k)
      PROVE  Backed(Delivered(d, k, result))
    BY <1>2, <1>3, PropagatedFewer, FewerBacked
<1>4. ASSUME NEW word \in FailedWork, FallbackExists,
             Delivered(d, k, result) = RestartedOnCpu(Marked(d, k, word), Led(d, k))
      PROVE  Backed(Delivered(d, k, result))
    <2>1. "cpu" \in avail
        BY <1>4 DEF FallbackExists, Runtimes
    <2> QED BY <1>2, <1>4, <2>1, RestartedBacked
<1>5. \/ Delivered(d, k, result) = Stored(d, k)
      \/ \E word \in FailedWork :
            \/ Delivered(d, k, result) = Propagated(Marked(d, k, word), Led(d, k), k)
            \/ /\ FallbackExists
               /\ Delivered(d, k, result) = RestartedOnCpu(Marked(d, k, word), Led(d, k))
    <2>1. Released(d, k).shared = d.shared
        BY <1>0 DEF Released, Databases
    <2>2. {"failed", "fallen"} \subseteq FailedWork
        BY DEF FailedWork
    <2> QED BY <2>1, <2>2 DEF Delivered, Stored, Marked, Led, InBatch
<1> QED BY <1>1, <1>3, <1>4, <1>5

LEMMA TakenBacked ==
    ASSUME NEW d, Orderly(d), Backed(d), NEW k \in Runtimes,
           fut[k] \in Results => Leased(d, k), NEW e \in Taken(k, {d})
    PROVE  Backed(e)
<1>1. e = IF fut[k] \in Results THEN Delivered(d, k, fut[k]) ELSE d
    BY DEF Taken
<1> QED BY <1>1, DeliveredBacked

\* Controls, consumption, evaluation, grants and aggregates begin no wait.
LEMMA ControlledFewer == ASSUME NEW d \in Databases PROVE Fewer(d, Controlled(d))
<1> SUFFICES ASSUME NEW i \in Items, NEW r \in Roles, NEW k \in Runtimes
             PROVE  Controlled(d).cons[i][r][k] \in ActiveConsumer =>
                        d.cons[i][r][k] \in ActiveConsumer
    BY DEF Fewer
<1>1. PICK a, b : Controlled(d).cons =
          Moved(Moved(d.cons, a, ActiveConsumer, "cancelled"), b, {"waiting"}, "paused")
    BY DEF Controlled, Databases
<1> DEFINE c == Moved(d.cons, a, ActiveConsumer, "cancelled")
<1>2. c \in ConsumerTable
    <2>1. "cancelled" \in ConsumerStatus
        BY DEF ConsumerStatus
    <2> QED BY <2>1, Fields, MovedTyped DEF ConsumerTable
<1>3. c[i][r][k] \in {d.cons[i][r][k], "cancelled"}
    BY Fields, MovedSets
<1> HIDE DEF c
<1>4. Controlled(d).cons[i][r][k] = c[i][r][k] \/ c[i][r][k] = "waiting"
    BY <1>1, <1>2, MovedSets DEF c
<1> QED BY <1>3, <1>4 DEF ActiveConsumer

LEMMA ConsumedFewer == ASSUME NEW d \in Databases PROVE Fewer(d, Consumed(d))
<1> SUFFICES ASSUME NEW i \in Items, NEW r \in Roles, NEW k \in Runtimes
             PROVE  Consumed(d).cons[i][r][k] \in {d.cons[i][r][k], "consumed"}
    BY DEF Fewer, ActiveConsumer
<1> QED BY Fields DEF Consumed, Databases, ConsumerTable

LEMMA GrantsCons ==
    ASSUME NEW d \in Databases, NEW k \in Runtimes, NEW e \in Grants(d, k)
    PROVE  e.cons = d.cons
BY DEF Grants, Granted, Databases

LEMMA AdvancedBacked ==
    ASSUME Orderly(db), OcrInv, Backed(db), NEW d \in Advanced
    PROVE  Backed(d) /\ Orderly(d)
<1>1. \A k \in Runtimes : fut[k] \in Results => Leased(db, k)
    BY DEF OcrInv, FuturesMine, Results
<1>2. ASSUME NEW e \in Collected PROVE Orderly(e) /\ Backed(e)
    <2>1. PICK p \in Runtimes, q \in Runtimes : p # q /\ e \in Taken(p, Taken(q, {db}))
        <3>1. "gpu" \in Runtimes /\ "cpu" \in Runtimes /\ "gpu" # "cpu"
            BY DEF Runtimes
        <3> QED BY <1>2, <3>1 DEF Collected
    <2>2. PICK c \in Taken(q, {db}) : e \in Taken(p, {c})
        BY <2>1 DEF Taken
    <2>3. Orderly(c) /\ c.lease[p] = db.lease[p] /\ Backed(c)
        BY <1>1, <2>1, <2>2, TakenOrderly, TakenBacked
    <2>4. fut[p] \in Results => Leased(c, p)
        BY <1>1, <2>3 DEF Leased
    <2> QED BY <2>2, <2>3, <2>4, TakenOrderly, TakenBacked
<1>3. PICK c \in Collected : d = Consumed(Refreshed(Prepared(Controlled(c))))
    BY DEF Advanced, Through
<1>4. Orderly(c) /\ Orderly(Controlled(c)) /\ Orderly(Prepared(Controlled(c)))
      /\ Orderly(Refreshed(Prepared(Controlled(c))))
    BY <1>2, ControlledOrderly, PreparedOrderly, RefreshedOrderly
<1>5. avail \in Compositions
    BY DEF OcrInv, Others
<1>6. Backed(Controlled(c)) /\ Backed(Prepared(Controlled(c)))
    BY <1>2, <1>4, <1>5, ControlledFewer, FewerBacked, PreparedBacked DEF Orderly
<1>7. Backed(Refreshed(Prepared(Controlled(c))))
    <2> DEFINE b == Prepared(Controlled(c))
    <2>1. b \in Databases /\ Backed(b)
        BY <1>4, <1>6 DEF Orderly
    <2> HIDE DEF b
    <2>2. Refreshed(b).cons = b.cons
        BY <2>1 DEF Refreshed, Databases
    <2> QED BY <2>1, <2>2 DEF Backed, b
<1>8. Orderly(d)
    BY AdvancedOrderly
<1> QED BY <1>3, <1>4, <1>7, <1>8, ConsumedFewer, FewerBacked DEF Orderly

\* Whatever has been collected and prepared, no vehicle finds an artifact of another
\* runtime, and no slot that this process lacks is asked for.
LEMMA NothingRaises ==
    ASSUME Orderly(db), OcrInv, Backed(db)
    PROVE  ~Uncommittable
<1>1. ASSUME NEW k \in Runtimes, fut[k] \in Results, ~Intact(db, k) PROVE FALSE
    <2>1. Leased(db, k)
        BY <1>1 DEF OcrInv, FuturesMine, Results
    <2> QED BY <1>1, <2>1 DEF Orderly, Served, ServedAt
<1>2. ASSUME NEW d \in Advanced, Raises(d) PROVE FALSE
    <2>0. Orderly(d) /\ Backed(d)
        BY AdvancedBacked
    <2>1. ASSUME NEW i \in Items, NEW k \in Runtimes, k # d.rt[i], Consumable(d, i, k) # {}
          PROVE  FALSE
        <3>1. PICK r \in Shows(i) : d.cons[i][r][k] = "waiting"
            BY <2>1 DEF Consumable
        <3> QED BY <2>0, <2>1, <3>1 DEF Orderly, Affine, ActiveConsumer, Shows
    <2>2. ASSUME NEW k \in Runtimes \ avail, Rows(d, k) # {} PROVE FALSE
        <3>1. PICK i \in Items, r \in Roles : d.cons[i][r][k] = "waiting"
            BY <2>2 DEF Rows
        <3> QED BY <2>0, <2>2, <3>1 DEF Backed, ActiveConsumer
    <2> QED BY <1>2, <2>1, <2>2 DEF Raises
<1> QED BY <1>1, <1>2 DEF Uncommittable

\* What is known at a scan that commits.
LEMMA ScanBacked ==
    ASSUME Orderly(db), OcrInv, Backed(db), Scan
    PROVE  Backed(db')
<1>1. PICK d \in Advanced : \E verdict \in [Recognized(d) -> Verdicts] :
          \E g \in Grants(Finalized(d, verdict), "gpu") :
          \E h \in Grants(g, "cpu") : db' = Aggregated(h)
    BY DEF Scan
<1>2. Backed(d) /\ Orderly(d) /\ Digested(d)
    BY AdvancedBacked, AdvancedOrderly
<1>3. PICK verdict \in [Recognized(d) -> Verdicts] :
          \E g \in Grants(Finalized(d, verdict), "gpu") :
          \E h \in Grants(g, "cpu") : db' = Aggregated(h)
    BY <1>1
<1>4. Orderly(Finalized(d, verdict)) /\ Digested(Finalized(d, verdict))
    BY <1>2, FinalizedOrderly
<1>5. PICK g \in Grants(Finalized(d, verdict), "gpu") :
          \E h \in Grants(g, "cpu") : db' = Aggregated(h)
    BY <1>3
<1>6. Orderly(g) /\ Digested(g)
    BY <1>4, GrantsOrderly DEF Runtimes
<1>7. PICK h \in Grants(g, "cpu") : db' = Aggregated(h)
    BY <1>5
<1>8. Orderly(h)
    BY <1>6, GrantsOrderly DEF Runtimes
<1>9. Finalized(d, verdict).cons = d.cons /\ g.cons = Finalized(d, verdict).cons
      /\ h.cons = g.cons
    <2>1. Finalized(d, verdict).cons = d.cons
        BY <1>2 DEF Finalized, Orderly, Databases
    <2> QED BY <1>4, <1>6, <2>1, GrantsCons DEF Orderly, Runtimes
<1>10. db'.cons = h.cons
    BY <1>7, <1>8 DEF Aggregated, Orderly, Databases
<1> QED BY <1>2, <1>9, <1>10 DEF Backed

\* The operator makes wait only what was put off.
LEMMA OperatorFewer ==
    ASSUME OcrInv, Operator PROVE Fewer(db, db')
<1> PICK j \in Jobs : StartJob(j) \/ Pause(j) \/ Resume(j) \/ Cancel(j)
    BY DEF Operator
<1>0. db \in Databases
    BY DEF OcrInv
<1>1. CASE Resume(j)
    <2>1. db'.cons = Moved(db.cons, ItemsOf(j), {"paused"}, "waiting")
        BY <1>0, <1>1 DEF Resume, Databases
    <2>2. db.cons \in ConsumerTable
        BY <1>0, Fields
    <2>3. ASSUME NEW i \in Items, NEW r \in Roles, NEW k \in Runtimes
          PROVE  \/ db'.cons[i][r][k] = db.cons[i][r][k]
                 \/ db.cons[i][r][k] = "paused"
        BY <2>1, <2>2, MovedSets
    <2> QED BY <2>3 DEF Fewer, ActiveConsumer
<1>2. CASE StartJob(j) \/ Pause(j) \/ Cancel(j)
    <2>1. db'.cons = db.cons
        BY <1>0, <1>2 DEF StartJob, Pause, Cancel, Databases
    <2> QED BY <2>1 DEF Fewer
<1> QED BY <1>1, <1>2

\* The process and the executor leave the consumers alone.
LEMMA ProcessCons ==
    ASSUME OcrInv,
           \/ ScanFails \/ Stop \/ Crash \/ Boot
           \/ \E k \in Runtimes : Recover(k) \/ Execute(k)
    PROVE  db'.cons = db.cons
<1>0. db \in Databases /\ LeasesSound(db)
    BY DEF OcrInv
<1>1. ASSUME NEW d \in Databases, NEW k \in Runtimes, LeasesSound(d)
      PROVE  /\ Abandoned(d, k).cons = d.cons
             /\ Abandoned(d, k) \in Databases /\ LeasesSound(Abandoned(d, k))
    <2>1. Abandoned(d, k).cons = d.cons
        BY <1>1 DEF Abandoned, Released, Databases
    <2> QED BY <1>1, <2>1, AbandonedStep
<1>2. ASSUME NEW k \in Runtimes, Recover(k) PROVE db'.cons = db.cons
    BY <1>0, <1>1, <1>2 DEF Recover
<1>3. CASE Stop
    <2> DEFINE give(d, k) == IF Leased(d, k) /\ d.lease[k].mine THEN Abandoned(d, k) ELSE d
               same(d) == d \in Databases /\ LeasesSound(d) /\ d.cons = db.cons
    <2>1. \A d : \A k \in Runtimes : same(d) => same(give(d, k))
        BY <1>1
    <2>2. db' = give(give(db, "gpu"), "cpu")
        BY <1>3 DEF Stop
    <2>3. same(db)
        BY <1>0
    <2> HIDE DEF give, same
    <2>4. same(db')
        BY <2>1, <2>2, <2>3 DEF Runtimes
    <2> QED BY <2>4 DEF same
<1>4. CASE Crash
    BY <1>0, <1>4 DEF Crash, Databases
<1>5. CASE ScanFails \/ Boot \/ \E k \in Runtimes : Execute(k)
    BY <1>5 DEF ScanFails, Boot, Execute
<1> QED BY <1>2, <1>3, <1>4, <1>5

\* While no start finds fewer runtimes, every step preserves it.
LEMMA NextBacked ==
    ASSUME ~ MayShrink, OcrInv, Orderly(db), Backed(db), [Next]_vars
    PROVE  Backed(db)' /\ (runner = "alive" => runner' = "alive")
<1>1. avail \subseteq avail'
    BY DEF Next, Operator, StartJob, Pause, Resume, Cancel, Scan, ScanFails, Recover,
           Execute, Stop, Crash, Boot, procVars, vars
<1>2. Backed(db')
    <2>1. CASE UNCHANGED vars
        BY <2>1 DEF vars
    <2>2. CASE Operator
        BY <2>2, OperatorFewer, FewerBacked
    <2>3. CASE Scan
        BY <2>3, ScanBacked
    <2>4. CASE \/ ScanFails \/ Stop \/ Crash \/ Boot
               \/ \E k \in Runtimes : Recover(k) \/ Execute(k)
        <3>1. db'.cons = db.cons
            BY <2>4, ProcessCons
        <3> QED BY <3>1 DEF Backed
    <2> QED BY <2>1, <2>2, <2>3, <2>4 DEF Next
<1>3. ~ ScanFails
    BY NothingRaises DEF ScanFails
<1>4. runner = "alive" => runner' = "alive"
    BY <1>3 DEF Next, Operator, StartJob, Pause, Resume, Cancel, Scan, Recover,
           Execute, Stop, Crash, Boot, procVars, vars
<1>5. Backed(db)'
    BY <1>1, <1>2 DEF Backed
<1> QED BY <1>4, <1>5

LEMMA InitBacked == Init => Backed(db)
BY DEF Init, Backed, ActiveConsumer

\* As long as every start of the process finds the runtimes of the one before, no scan
\* raises: whatever audits share images, whatever fails and is restarted on the CPU, and
\* whatever is paused, cancelled, crashed and recovered, no result arrives for a batch
\* that is no longer intact, no artifact comes due to a vehicle of another runtime, and
\* no slot is asked of a runtime that the process has not.  With a runtime lost between
\* two starts the scheduler thread does end (the run gpu_lost).
THEOREM VehicleThreadSurvives ==
    ASSUME ~ MayShrink PROVE Spec => []SchedulerSurvives
<1>1. Init => SchedulerSurvives
    BY DEF Init, SchedulerSurvives
<1>2. OcrInv /\ Orderly(db) /\ Backed(db) /\ SchedulerSurvives /\ [Next]_vars
          => Backed(db)' /\ SchedulerSurvives'
    BY NextBacked DEF SchedulerSurvives
<1> QED BY <1>1, <1>2, InitOcr, NextOcr, InitOrderly, NextOrderly, InitBacked, PTL DEF Spec

---------------------------------------------------------------------------
(* What a vehicle is owed.  While it is unfinished, every ticket that it    *)
(* has not got is awaited.                                                  *)

\* Vehicle i counts on its ticket r, for work that can still end, and is put off only
\* with its audit.
Awaited(d, i, r) ==
    /\ d.cons[i][r][d.rt[i]] \in ActiveConsumer
    /\ Work(d, i, r, d.rt[i]) \notin Useless
    /\ d.cons[i][r][d.rt[i]] = "paused" => d.job[JobOf[i]] \in {"paused", "cancel_requested"}

Unfinished(d, i) == d.item[i] \in {"ready", "running"} /\ d.gen[i] # "none"
AllAwaited(d, i) == Unfinished(d, i) => \A r \in Shows(i) \ d.done[i] : Awaited(d, i, r)
GenerationFits(d, i) ==
    /\ \A r \in Roles : d.out[i][r] # "none" => r \in d.done[i]
    /\ d.gen[i] = "fallback_wait" => d.rt[i] = "cpu"
    /\ d.gen[i] = "succeeded" => Shows(i) \subseteq d.done[i]
StatusFits(d, i) ==
    /\ d.item[i] = "cancelled" =>
         \A r \in Roles, k \in Runtimes : d.cons[i][r][k] \notin ActiveConsumer
    /\ d.item[i] = "waiting_user" => d.gen[i] \in {"none", "succeeded"}
    /\ d.item[i] = "failed" => d.gen[i] # "none"
    /\ d.job[JobOf[i]] = "absent" => d.item[i] = "absent" /\ d.gen[i] = "none"

TendedAt(d, i) == AllAwaited(d, i) /\ GenerationFits(d, i) /\ StatusFits(d, i)
Tended(d) == \A i \in Items : TendedAt(d, i)

\* From d to e vehicle i leaves no end that it has reached, save that one which failed
\* on the GPU starts over on the CPU, which it never leaves again.
Steady(d, e, i) ==
    /\ d.gen[i] # "none" => e.gen[i] # "none" /\ e.rt[i] \in {d.rt[i], "cpu"}
    /\ d.item[i] \in EndedItem \cup {"waiting_user"} =>
         \/ e.item[i] = d.item[i]
         \/ d.item[i] = "waiting_user" /\ e.item[i] = "cancelled"
         \/ d.item[i] = "failed" /\ d.rt[i] = "gpu" /\ e.rt[i] = "cpu"

Tends(d, e) == \A i \in Items : TendedAt(e, i) /\ Steady(d, e, i)

LEMMA SteadySame ==
    ASSUME NEW d, NEW e, NEW i,
           d.gen[i] # "none" => e.gen[i] # "none", e.rt[i] = d.rt[i],
           d.item[i] \in EndedItem \cup {"waiting_user"} => e.item[i] = d.item[i]
    PROVE  Steady(d, e, i)
BY DEF Steady

LEMMA TendsChain ==
    ASSUME NEW c, NEW d \in Databases, NEW e, Tended(c), Tends(c, d), Tends(d, e)
    PROVE  Tends(c, e) /\ Tended(d)
<1> SUFFICES ASSUME NEW i \in Items PROVE Steady(c, e, i)
    BY DEF Tends, Tended
<1>1. Steady(c, d, i) /\ Steady(d, e, i) /\ StatusFits(c, i)
    BY DEF Tends, Tended, TendedAt
<1>2. {"failed", "cancelled", "waiting_user"} \subseteq EndedItem \cup {"waiting_user"}
      /\ "cancelled" \notin {"failed", "waiting_user"} /\ "failed" # "waiting_user"
      /\ "gpu" # "cpu"
    BY DEF EndedItem
<1>3. c.gen[i] # "none" => e.gen[i] # "none" /\ e.rt[i] \in {c.rt[i], "cpu"}
    BY <1>1 DEF Steady
<1>4. ASSUME c.item[i] \in EndedItem \cup {"waiting_user"}
      PROVE  \/ e.item[i] = c.item[i]
             \/ c.item[i] = "waiting_user" /\ e.item[i] = "cancelled"
             \/ c.item[i] = "failed" /\ c.rt[i] = "gpu" /\ e.rt[i] = "cpu"
    <2>1. CASE d.item[i] = c.item[i]
        <3>1. CASE d.item[i] = "failed" /\ d.rt[i] = "gpu" /\ e.rt[i] = "cpu"
            <4>1. c.gen[i] # "none"
                BY <1>1, <2>1, <3>1 DEF StatusFits
            <4>2. c.rt[i] = "gpu"
                BY <1>1, <1>2, <3>1, <4>1 DEF Steady
            <4> QED BY <2>1, <3>1, <4>2
        <3> QED BY <1>1, <1>4, <2>1, <3>1 DEF Steady
    <2>2. CASE c.item[i] = "waiting_user" /\ d.item[i] = "cancelled"
        <3>1. e.item[i] = "cancelled"
            BY <1>1, <1>2, <2>2 DEF Steady
        <3> QED BY <2>2, <3>1
    <2>3. CASE c.item[i] = "failed" /\ c.rt[i] = "gpu" /\ d.rt[i] = "cpu"
        <3>1. c.gen[i] # "none" /\ d.gen[i] # "none"
            BY <1>1, <2>3 DEF StatusFits, Steady
        <3>2. e.rt[i] = "cpu"
            BY <1>1, <2>3, <3>1 DEF Steady
        <3> QED BY <2>3, <3>2
    <2> QED BY <1>1, <1>4, <2>1, <2>2, <2>3 DEF Steady
<1> QED BY <1>3, <1>4 DEF Steady

\* A vehicle that counts on nothing, and one that has got everything.
LEMMA SucceededIdle ==
    ASSUME NEW d \in Databases, Affine(d), NEW i \in Items, WholeAt(d, i),
           d.gen[i] = "succeeded", NEW r \in Shows(i), NEW k \in Runtimes
    PROVE  d.cons[i][r][k] \notin ActiveConsumer
<1>1. r \in Roles /\ d.out[i][r] # "none"
    BY DEF WholeAt, Shows
<1>2. d.cons[i][r][d.rt[i]] = "consumed"
    BY <1>1 DEF WholeAt
<1> QED BY <1>1, <1>2, NotConsumed DEF Affine

\* A step that leaves vehicle i as it is, up to its start, and its work useful.
Quiet(d, e, i) ==
    /\ e.rt[i] = d.rt[i] /\ e.done[i] = d.done[i]
    /\ \A r \in Roles : e.out[i][r] = d.out[i][r]
    /\ \A r \in Roles, k \in Runtimes : e.cons[i][r][k] = d.cons[i][r][k]
    /\ \/ e.gen[i] = d.gen[i]
       \/ d.gen[i] \in {"queued", "fallback_wait"} /\ e.gen[i] = "running"
    /\ \/ e.item[i] = d.item[i]
       \/ {d.item[i], e.item[i]} \subseteq {"ready", "running"}
    /\ d.job[JobOf[i]] \in {"paused", "cancel_requested"} =>
          e.job[JobOf[i]] \in {"paused", "cancel_requested"}
    /\ e.job[JobOf[i]] = "absent" => d.job[JobOf[i]] = "absent"
    /\ \A r \in Shows(i) :
          /\ d.cons[i][r][d.rt[i]] \in ActiveConsumer
          /\ Work(d, i, r, d.rt[i]) \notin Useless
          => Work(e, i, r, d.rt[i]) \notin Useless

LEMMA QuietTended ==
    ASSUME NEW d \in Databases, NEW e, NEW i \in Items, TendedAt(d, i), Quiet(d, e, i)
    PROVE  TendedAt(e, i) /\ Steady(d, e, i)
<1>0. d.rt[i] \in Runtimes
    BY Fields
<1>1. {"ready", "running"} \cap ({"absent", "waiting_user"} \cup EndedItem) = {}
    BY DEF EndedItem
<1>2. d.gen[i] # "none" <=> e.gen[i] # "none"
    BY DEF Quiet
<1>3. AllAwaited(e, i)
    <2> SUFFICES ASSUME Unfinished(e, i), NEW r \in Shows(i) \ e.done[i] PROVE Awaited(e, i, r)
        BY DEF AllAwaited
    <2>1. Unfinished(d, i) /\ r \in Shows(i) \ d.done[i] /\ r \in Roles
        BY <1>2 DEF Quiet, Unfinished, Shows
    <2>2. Awaited(d, i, r)
        BY <2>1 DEF TendedAt, AllAwaited
    <2>3. e.rt[i] = d.rt[i] /\ e.cons[i][r][d.rt[i]] = d.cons[i][r][d.rt[i]]
        BY <1>0, <2>1 DEF Quiet
    <2>4. Work(e, i, r, d.rt[i]) \notin Useless
        BY <2>1, <2>2 DEF Awaited, Quiet
    <2>5. d.job[JobOf[i]] \in {"paused", "cancel_requested"} =>
              e.job[JobOf[i]] \in {"paused", "cancel_requested"}
        BY DEF Quiet
    <2> QED BY <2>2, <2>3, <2>4, <2>5 DEF Awaited
<1>4. GenerationFits(e, i)
    BY DEF TendedAt, GenerationFits, Quiet
<1>5. StatusFits(e, i)
    <2>1. e.item[i] \notin {"ready", "running"} => e.item[i] = d.item[i]
        BY DEF Quiet
    <2>2. e.item[i] = "cancelled" =>
              \A r \in Roles, k \in Runtimes : e.cons[i][r][k] \notin ActiveConsumer
        BY <2>1 DEF TendedAt, StatusFits, Quiet
    <2>3. e.item[i] = "waiting_user" => e.gen[i] \in {"none", "succeeded"}
        BY <2>1 DEF TendedAt, StatusFits, Quiet
    <2>4. e.item[i] = "failed" => e.gen[i] # "none"
        BY <1>2, <2>1 DEF TendedAt, StatusFits
    <2>5. e.job[JobOf[i]] = "absent" => e.item[i] = "absent" /\ e.gen[i] = "none"
        BY <1>2 DEF TendedAt, StatusFits, Quiet
    <2> QED BY <2>2, <2>3, <2>4, <2>5 DEF StatusFits
<1>6. Steady(d, e, i)
    BY <1>1, <1>2, SteadySame DEF Quiet
<1> QED BY <1>3, <1>4, <1>5, <1>6 DEF TendedAt

---------------------------------------------------------------------------
(* What the results do to what is owed.                                     *)

Good(d) == Orderly(d) /\ Whole(d) /\ Tended(d)

\* A step of all that is quiet for all.
LEMMA AllQuiet ==
    ASSUME NEW d \in Databases, NEW e, Tended(d), \A i \in Items : Quiet(d, e, i)
    PROVE  Tends(d, e)
BY QuietTended DEF Tends, Tended

\* Nothing but the work changes.
Untouched(d, e) ==
    /\ e.item = d.item /\ e.cons = d.cons /\ e.job = d.job /\ e.rt = d.rt
    /\ e.gen = d.gen /\ e.done = d.done /\ e.out = d.out

LEMMA UntouchedQuiet ==
    ASSUME NEW d, NEW e, Untouched(d, e), NEW i \in Items,
           \A r \in Shows(i) :
              /\ d.cons[i][r][d.rt[i]] \in ActiveConsumer
              /\ Work(d, i, r, d.rt[i]) \notin Useless
              => Work(e, i, r, d.rt[i]) \notin Useless
    PROVE  Quiet(d, e, i)
BY DEF Untouched, Quiet

LEMMA StoredTends ==
    ASSUME NEW d \in Databases, Tended(d), NEW k \in Runtimes
    PROVE  Tends(d, Stored(d, k))
<1> DEFINE e == Stored(d, k)
<1>1. Free(d, e, k) /\ \A m \in Images, q \in Runtimes :
          e.shared[m][q] \in {"succeeded", d.shared[m][q]}
    BY StoredStep
<1>2. e.done = d.done /\ e.out = d.out
    BY DEF Stored, Released, Databases
<1> HIDE DEF e
<1>3. Untouched(d, e)
    BY <1>1, <1>2 DEF Free, Untouched
<1>4. ASSUME NEW i \in Items PROVE Quiet(d, e, i)
    <2>1. d.rt[i] \in Runtimes
        BY Fields
    <2>2. \A r \in Shows(i) : Work(e, i, r, d.rt[i]) \in {"succeeded", Work(d, i, r, d.rt[i])}
        BY <1>1, <2>1, ShownImages DEF Work
    <2>3. "succeeded" \notin Useless
        BY DEF Useless, FailedWork
    <2> QED BY <1>3, <2>2, <2>3, UntouchedQuiet
<1> QED BY <1>4, AllQuiet DEF e

\* A vehicle that counts on the image of a failure has a generation on its runtime that
\* is not complete.
LEMMA HitIs ==
    ASSUME NEW d, Good(d), NEW i \in Items, NEW m, NEW k \in Runtimes,
           Expects(d, i, m, k) # {}
    PROVE  /\ k = d.rt[i] /\ d.gen[i] \in {"queued", "running", "fallback_wait"}
           /\ d.item[i] \notin {"waiting_user", "cancelled", "succeeded"}
           /\ d.job[JobOf[i]] # "absent"
<1>0. d \in Databases /\ Affine(d) /\ WholeAt(d, i) /\ StatusFits(d, i)
    BY DEF Good, Orderly, Whole, Tended, TendedAt
<1>1. PICK r \in Shows(i) : d.cons[i][r][k] \in ActiveConsumer
    BY DEF Expects
<1>2. r \in Roles
    BY DEF Shows
<1>3. k = d.rt[i] /\ d.gen[i] # "none"
    BY <1>0, <1>1, <1>2 DEF Affine
<1>4. d.gen[i] # "succeeded"
    BY <1>0, <1>1, SucceededIdle
<1>5. d.gen[i] \in GenStatus
    BY <1>0, Fields
<1>6. d.item[i] \notin {"waiting_user", "cancelled"} /\ d.job[JobOf[i]] # "absent"
    BY <1>0, <1>1, <1>2, <1>3, <1>4 DEF StatusFits
<1>7. d.item[i] # "succeeded"
    BY <1>0, <1>4 DEF WholeAt
<1> QED BY <1>3, <1>4, <1>5, <1>6, <1>7 DEF GenStatus

\* The failure of an image is put down in the shared work first.
LEMMA MarkedLeaves ==
    ASSUME NEW d \in Databases, NEW k \in Runtimes, Led(d, k) \in Images,
           NEW word \in FailedWork
    PROVE  /\ Marked(d, k, word) \in Databases /\ Untouched(d, Marked(d, k, word))
           /\ \A m \in Images, q \in Runtimes :
                  \/ Marked(d, k, word).shared[m][q] = d.shared[m][q]
                  \/ m = Led(d, k) /\ q = k
<1> DEFINE b == Marked(d, k, word)
<1>1. /\ b \in Databases /\ Free(d, b, k)
      /\ \A m \in Images, q \in Runtimes :
             b.shared[m][q] = d.shared[m][q] \/ (m = Led(d, k) /\ q = k)
    BY MarkedStep
<1>2. b.done = d.done /\ b.out = d.out
    BY DEF Marked, Released, Databases
<1> HIDE DEF b
<1> QED BY <1>1, <1>2 DEF Free, Untouched, b

\* A vehicle that does not count on the image has its work left as it was, and what a
\* restart registers for others does it no harm.
LEMMA UnhitQuiet ==
    ASSUME NEW d \in Databases, NEW k \in Runtimes, NEW b, NEW e, NEW i \in Items,
           NEW m,
           Untouched(d, b),
           \A n \in Images, q \in Runtimes :
               b.shared[n][q] = d.shared[n][q] \/ (n = m /\ q = k),
           \A n \in Images, q \in Runtimes :
               e.shared[n][q] \in {b.shared[n][q], "queued"},
           e.job = b.job, SameRows(b, e, i), SameProgress(b, e, i),
           Expects(d, i, m, k) = {}
    PROVE  Quiet(d, e, i)
<1>1. d.rt[i] \in Runtimes
    BY Fields
<1>2. ASSUME NEW r \in Shows(i), d.cons[i][r][d.rt[i]] \in ActiveConsumer,
             Work(d, i, r, d.rt[i]) \notin Useless
      PROVE  Work(e, i, r, d.rt[i]) \notin Useless
    <2>1. ImageOf[i][r] # m \/ d.rt[i] # k
        BY <1>2 DEF Expects
    <2>2. e.shared[ImageOf[i][r]][d.rt[i]] \in {d.shared[ImageOf[i][r]][d.rt[i]], "queued"}
        <3> DEFINE n == ImageOf[i][r]
        <3>1. n \in Images
            BY ShownImages
        <3> HIDE DEF n
        <3>2. b.shared[n][d.rt[i]] = d.shared[n][d.rt[i]] \/ (n = m /\ d.rt[i] = k)
            BY <1>1, <3>1
        <3>3. e.shared[n][d.rt[i]] \in {b.shared[n][d.rt[i]], "queued"}
            BY <1>1, <3>1
        <3> QED BY <2>1, <3>2, <3>3 DEF n
    <2>3. "queued" \notin Useless
        BY DEF Useless, FailedWork
    <2> QED BY <1>2, <2>2, <2>3 DEF Work
<1>3. /\ e.rt[i] = d.rt[i] /\ e.done[i] = d.done[i] /\ e.gen[i] = d.gen[i]
      /\ e.item[i] = d.item[i] /\ e.out[i] = d.out[i] /\ e.job = d.job
      /\ \A r \in Roles, q \in Runtimes : e.cons[i][r][q] = d.cons[i][r][q]
    BY DEF Untouched, SameRows, SameProgress
<1> QED BY <1>2, <1>3 DEF Quiet

LEMMA PropagatedTends ==
    ASSUME NEW d, Good(d), NEW k \in Runtimes, Led(d, k) \in Images, NEW word \in FailedWork
    PROVE  Tends(d, Propagated(Marked(d, k, word), Led(d, k), k))
<1> DEFINE m == Led(d, k)
           b == Marked(d, k, word)
           e == Propagated(b, m, k)
<1>0. d \in Databases /\ Tended(d)
    BY DEF Good, Orderly
<1>1. /\ b \in Databases /\ Untouched(d, b)
      /\ \A n \in Images, q \in Runtimes :
             b.shared[n][q] = d.shared[n][q] \/ (n = m /\ q = k)
    BY <1>0, MarkedLeaves
<1> HIDE DEF b, m
<1>2. e.shared = b.shared
    BY <1>1, PropagatedStep
<1>3. /\ e.job = b.job /\ e.rt = b.rt /\ e.gen = b.gen /\ e.done = b.done /\ e.out = b.out
    BY <1>1 DEF Propagated, Databases
<1>4. \A i \in Items : Expects(b, i, m, k) = Expects(d, i, m, k)
    BY <1>1 DEF Untouched, Expects
<1>5. \A i \in Items : e.item[i] = IF Expects(b, i, m, k) = {} \/ b.item[i] \in EndedItem
                                   THEN b.item[i] ELSE "failed"
    BY <1>1 DEF Propagated, Databases
<1>6. \A i \in Items, r \in Roles, q \in Runtimes :
          Expects(b, i, m, k) = {} => e.cons[i][r][q] = b.cons[i][r][q]
    BY <1>1 DEF Propagated, Databases
<1> HIDE DEF e
<1> SUFFICES ASSUME NEW i \in Items PROVE TendedAt(e, i) /\ Steady(d, e, i)
    BY DEF Tends, e, m, b
<1>7. TendedAt(d, i)
    BY <1>0 DEF Tended
<1>8. CASE Expects(d, i, m, k) = {}
    <2>1. SameRows(b, e, i) /\ SameProgress(b, e, i)
        BY <1>3, <1>4, <1>5, <1>6, <1>8 DEF SameRows, SameProgress
    <2>2. Quiet(d, e, i)
        BY <1>0, <1>1, <1>2, <1>3, <1>8, <2>1, UnhitQuiet
    <2> QED BY <1>0, <1>7, <2>2, QuietTended
<1>9. CASE Expects(d, i, m, k) # {}
    <2>1. /\ d.gen[i] \in {"queued", "running", "fallback_wait"}
          /\ d.item[i] \notin {"waiting_user", "cancelled", "succeeded"}
          /\ d.job[JobOf[i]] # "absent"
        BY <1>9, HitIs
    <2>2. /\ e.job = d.job /\ e.rt = d.rt /\ e.gen = d.gen /\ e.done = d.done
          /\ e.out = d.out
        BY <1>1, <1>3 DEF Untouched
    <2>3. e.item[i] = "failed"
        BY <1>1, <1>4, <1>5, <1>9, <2>1 DEF Untouched, EndedItem
    <2>4. d.item[i] \in EndedItem \cup {"waiting_user"} => e.item[i] = d.item[i]
        BY <2>1, <2>3 DEF EndedItem
    <2>5. TendedAt(e, i)
        BY <1>7, <2>1, <2>2, <2>3 DEF TendedAt, AllAwaited, Unfinished, GenerationFits,
           StatusFits
    <2> QED BY <2>2, <2>4, <2>5, SteadySame
<1> QED BY <1>8, <1>9

\* A vehicle that is newly registered and has nothing awaits all its tickets.
LEMMA EnrolledAwaits ==
    ASSUME NEW e, NEW i \in Items, Enrolled(e, i, e.rt[i])
    PROVE  AllAwaited(e, i) /\ e.item[i] \in {"failed", "ready"}
<1>1. {"ready", "running"} \cap {"failed"} = {} /\ "waiting" \in ActiveConsumer
      /\ "waiting" # "paused"
    BY DEF ActiveConsumer
<1> QED BY <1>1 DEF Enrolled, AllAwaited, Unfinished, Awaited

LEMMA RestartedTends ==
    ASSUME NEW d, Good(d), Led(d, "gpu") \in Images, NEW word \in FailedWork
    PROVE  Tends(d, RestartedOnCpu(Marked(d, "gpu", word), Led(d, "gpu")))
<1> DEFINE m == Led(d, "gpu")
           b == Marked(d, "gpu", word)
           e == RestartedOnCpu(b, m)
<1>0. d \in Databases /\ Tended(d) /\ "gpu" \in Runtimes
    BY DEF Good, Orderly, Runtimes
<1>1. /\ b \in Databases /\ Untouched(d, b)
      /\ \A n \in Images, q \in Runtimes :
             b.shared[n][q] = d.shared[n][q] \/ (n = m /\ q = "gpu")
    BY <1>0, MarkedLeaves
<1> HIDE DEF b, m
<1>2. \A n \in Images, q \in Runtimes : e.shared[n][q] \in {b.shared[n][q], "queued"}
    BY <1>1, RestartedStep DEF Grown
<1>3. /\ e.job = b.job
      /\ \A i \in Items : /\ i \in Restarting(b, m) => Restarted(b, e, i)
                          /\ i \notin Restarting(b, m) => SameRows(b, e, i)
                                                          /\ SameProgress(b, e, i)
    <2>1. ASSUME NEW i \in Items
          PROVE  /\ e.job = b.job
                 /\ i \in Restarting(b, m) => Restarted(b, e, i)
                 /\ i \notin Restarting(b, m) => SameRows(b, e, i) /\ SameProgress(b, e, i)
        BY <1>1, RestartedSets
    <2>2. e.job = b.job
        BY <1>1 DEF RestartedOnCpu, Registered, Databases
    <2> QED BY <2>1, <2>2
<1> HIDE DEF e
<1> SUFFICES ASSUME NEW i \in Items PROVE TendedAt(e, i) /\ Steady(d, e, i)
    BY DEF Tends, e, m, b
<1>4. TendedAt(d, i)
    BY <1>0 DEF Tended
<1>5. Expects(b, i, m, "gpu") = Expects(d, i, m, "gpu")
    BY <1>1 DEF Untouched, Expects
<1>6. CASE Expects(d, i, m, "gpu") = {}
    <2>1. SameRows(b, e, i) /\ SameProgress(b, e, i)
        BY <1>3, <1>5, <1>6 DEF Restarting
    <2>2. Quiet(d, e, i)
        BY <1>0, <1>1, <1>2, <1>3, <1>6, <2>1, UnhitQuiet
    <2> QED BY <1>0, <1>4, <2>2, QuietTended
<1>7. CASE Expects(d, i, m, "gpu") # {}
    <2>1. /\ d.gen[i] \in {"queued", "running", "fallback_wait"} /\ d.rt[i] = "gpu"
          /\ d.item[i] \notin {"waiting_user", "cancelled", "succeeded"}
          /\ d.job[JobOf[i]] # "absent"
        BY <1>0, <1>7, HitIs
    <2>2. d.gen[i] # "fallback_wait"
        BY <1>4, <2>1 DEF TendedAt, GenerationFits
    <2>3. Restarted(b, e, i)
        BY <1>1, <1>3, <1>5, <1>7, <2>1, <2>2 DEF Restarting, Untouched
    <2>4. AllAwaited(e, i) /\ e.item[i] \in {"failed", "ready"}
        BY <2>3, EnrolledAwaits DEF Restarted
    <2>5. e.job = d.job
        BY <1>1, <1>3 DEF Untouched
    <2>6. GenerationFits(e, i) /\ StatusFits(e, i)
        BY <2>1, <2>3, <2>4, <2>5 DEF Restarted, GenerationFits, StatusFits
    <2>7. Steady(d, e, i)
        BY <2>1, <2>3, <2>4 DEF Restarted, Steady, EndedItem
    <2> QED BY <2>4, <2>6, <2>7 DEF TendedAt
<1> QED BY <1>6, <1>7

LEMMA DeliveredTends ==
    ASSUME NEW d, Good(d), NEW k \in Runtimes, NEW result \in Results, Leased(d, k)
    PROVE  Tends(d, Delivered(d, k, result))
<1>1. d \in Databases /\ LeasesSound(d) /\ Tended(d)
    BY DEF Good, Orderly
<1>2. Led(d, k) \in Images
    BY <1>1, LedImage
<1>3. Tends(d, Stored(d, k))
    BY <1>1, StoredTends
<1>4. \A word \in FailedWork :
          /\ Tends(d, Propagated(Marked(d, k, word), Led(d, k), k))
          /\ k = "gpu" => Tends(d, RestartedOnCpu(Marked(d, k, word), Led(d, k)))
    BY <1>2, PropagatedTends, RestartedTends
<1> QED BY <1>1, <1>3, <1>4, DeliveredCases

LEMMA UnchangedTends ==
    ASSUME NEW d, Good(d) PROVE Tends(d, d)
BY DEF Good, Tended, Tends, Steady

LEMMA TakenTends ==
    ASSUME NEW d, Good(d), NEW k \in Runtimes,
           fut[k] \in Results => Leased(d, k), NEW e \in Taken(k, {d})
    PROVE  Good(e) /\ Tends(d, e)
<1>1. e = IF fut[k] \in Results THEN Delivered(d, k, fut[k]) ELSE d
    BY DEF Taken
<1>2. Tends(d, e)
    BY <1>1, DeliveredTends, UnchangedTends
<1>3. Orderly(e) /\ Whole(e)
    BY TakenOrderly, TakenWhole DEF Good
<1> QED BY <1>2, <1>3 DEF Good, Tends, Tended

---------------------------------------------------------------------------
(* What the other passes do to what is owed.                                *)

LEMMA ControlledTends ==
    ASSUME NEW d \in Databases, Tended(d)
    PROVE  Tends(d, Controlled(d))
<1> DEFINE e == Controlled(d)
           off(s) == {j \in Jobs : d.job[j] = s /\ ~IsLeased(d, j)}
           cancel == {i \in Items : JobOf[i] \in off("cancel_requested")}
           pause == {i \in Items : JobOf[i] \in off("pause_requested")}
           c == Moved(d.cons, cancel, ActiveConsumer, "cancelled")
<1>1. e.rt = d.rt /\ e.gen = d.gen /\ e.done = d.done /\ e.out = d.out /\ e.shared = d.shared
    BY DEF Controlled, Databases
<1>2. \A i \in Items : e.job[JobOf[i]] = IF i \in cancel THEN "cancelled"
                                         ELSE IF i \in pause THEN "paused" ELSE d.job[JobOf[i]]
    BY ConstantsAssumption DEF Controlled, Databases
<1>3. \A i \in Items : e.item[i] = IF i \in cancel /\ d.item[i] \notin EndedItem
                                   THEN "cancelled"
                                   ELSE IF i \in pause /\ d.item[i] = "running"
                                   THEN "ready" ELSE d.item[i]
    BY DEF Controlled, Databases
<1>4. c \in ConsumerTable
    <2>1. "cancelled" \in ConsumerStatus
        BY DEF ConsumerStatus
    <2> QED BY <2>1, Fields, MovedTyped DEF ConsumerTable
<1>5. e.cons = Moved(c, pause, {"waiting"}, "paused")
    BY DEF Controlled, Databases
<1>6. \A i \in Items, r \in Roles, k \in Runtimes :
          c[i][r][k] = IF i \in cancel /\ d.cons[i][r][k] \in ActiveConsumer
                       THEN "cancelled" ELSE d.cons[i][r][k]
    BY Fields, MovedSets
<1>7. \A i \in Items : i \in cancel => i \notin pause /\ d.job[JobOf[i]] = "cancel_requested"
    OBVIOUS
<1>8. \A i \in Items : i \in pause => d.job[JobOf[i]] = "pause_requested"
    OBVIOUS
<1> HIDE DEF e, c, cancel, pause
<1>9. \A i \in Items, r \in Roles, k \in Runtimes :
          e.cons[i][r][k] = IF i \in pause /\ c[i][r][k] = "waiting"
                            THEN "paused" ELSE c[i][r][k]
    BY <1>4, <1>5, MovedSets
<1> SUFFICES ASSUME NEW i \in Items PROVE TendedAt(e, i) /\ Steady(d, e, i)
    BY DEF Tends, e
<1>10. TendedAt(d, i) /\ d.rt[i] \in Runtimes
    BY Fields DEF Tended
<1>11. GenerationFits(e, i)
    BY <1>1, <1>10 DEF TendedAt, GenerationFits
<1>12. CASE i \in cancel
    <2>1. e.job[JobOf[i]] = "cancelled" /\ e.item[i] \in EndedItem
          /\ (d.item[i] \in EndedItem => e.item[i] = d.item[i])
          /\ (d.item[i] \notin EndedItem => e.item[i] = "cancelled")
        BY <1>2, <1>3, <1>7, <1>12 DEF EndedItem
    <2>2. \A r \in Roles, k \in Runtimes : e.cons[i][r][k] \notin ActiveConsumer
        BY <1>6, <1>7, <1>9, <1>12 DEF ActiveConsumer
    <2>3. AllAwaited(e, i)
        BY <2>1 DEF AllAwaited, Unfinished, EndedItem
    <2>4. StatusFits(e, i)
        BY <1>1, <1>10, <2>1, <2>2 DEF TendedAt, StatusFits, EndedItem
    <2>5. Steady(d, e, i)
        BY <1>1, <2>1 DEF Steady, EndedItem
    <2> QED BY <1>11, <2>3, <2>4, <2>5 DEF TendedAt
<1>13. CASE i \in pause
    <2>1. e.job[JobOf[i]] = "paused"
          /\ e.item[i] = IF d.item[i] = "running" THEN "ready" ELSE d.item[i]
        BY <1>2, <1>3, <1>7, <1>13
    <2>2. \A r \in Roles, k \in Runtimes :
              e.cons[i][r][k] \in ActiveConsumer <=> d.cons[i][r][k] \in ActiveConsumer
        BY <1>6, <1>7, <1>9, <1>13 DEF ActiveConsumer
    <2>3. AllAwaited(e, i)
        <3> SUFFICES ASSUME Unfinished(e, i), NEW r \in Shows(i) \ e.done[i]
                     PROVE  Awaited(e, i, r)
            BY DEF AllAwaited
        <3>1. Unfinished(d, i) /\ r \in Shows(i) \ d.done[i] /\ r \in Roles
            BY <1>1, <2>1 DEF Unfinished, Shows
        <3>2. Awaited(d, i, r)
            BY <1>10, <3>1 DEF TendedAt, AllAwaited
        <3> QED BY <1>1, <1>10, <2>1, <2>2, <3>1, <3>2 DEF Awaited, Work
    <2>4. StatusFits(e, i)
        BY <1>1, <1>10, <2>1, <2>2 DEF TendedAt, StatusFits
    <2>5. Steady(d, e, i)
        BY <1>1, <2>1, SteadySame DEF EndedItem
    <2> QED BY <1>11, <2>3, <2>4, <2>5 DEF TendedAt
<1>14. CASE i \notin cancel /\ i \notin pause
    <2>1. /\ e.job[JobOf[i]] = d.job[JobOf[i]] /\ e.item[i] = d.item[i]
          /\ \A r \in Roles, k \in Runtimes : e.cons[i][r][k] = d.cons[i][r][k]
        BY <1>2, <1>3, <1>6, <1>9, <1>14
    <2>2. Quiet(d, e, i)
        BY <1>1, <2>1 DEF Quiet, Work
    <2> QED BY <1>10, <2>2, QuietTended
<1> QED BY <1>12, <1>13, <1>14

LEMMA PreparedTends ==
    ASSUME NEW d \in Databases, Whole(d), Tended(d)
    PROVE  Tends(d, Prepared(d))
<1> DEFINE e == Prepared(d)
<1>1. \A n \in Images, q \in Runtimes : e.shared[n][q] \in {d.shared[n][q], "queued"}
    BY PreparedStep DEF Grown
<1>2. ASSUME NEW i \in Items
      PROVE  /\ e.job = d.job
             /\ i \in Begun(d) => Begins(d, e, i)
             /\ i \notin Begun(d) =>
                  /\ SameProgress(d, e, i)
                  /\ \A r \in Roles, q \in Runtimes : e.cons[i][r][q] = d.cons[i][r][q]
                  /\ e.item[i] = IF i \in New(d) THEN "waiting_user" ELSE d.item[i]
    BY PreparedSets
<1> HIDE DEF e
<1> SUFFICES ASSUME NEW i \in Items PROVE TendedAt(e, i) /\ Steady(d, e, i)
    BY DEF Tends, e
<1>3. TendedAt(d, i) /\ WholeAt(d, i) /\ d.rt[i] \in Runtimes
    BY Fields DEF Tended, Whole
<1>4. ASSUME i \in New(d)
      PROVE  d.job[JobOf[i]] = "active" /\ d.item[i] = "ready" /\ d.gen[i] = "none"
             /\ \A r \in Roles : d.out[i][r] = "none"
    BY <1>3, <1>4 DEF New, WholeAt
<1>5. CASE i \in Begun(d)
    <2>1. Begins(d, e, i) /\ i \in New(d)
        BY <1>2, <1>5 DEF Begun
    <2>2. AllAwaited(e, i) /\ e.item[i] \in {"failed", "ready"}
        BY <2>1, EnrolledAwaits DEF Begins
    <2>3. GenerationFits(e, i)
        BY <1>4, <2>1 DEF Begins, GenerationFits
    <2>4. StatusFits(e, i)
        BY <1>2, <1>4, <2>1, <2>2 DEF Begins, StatusFits
    <2>5. Steady(d, e, i)
        BY <1>4, <2>1 DEF Steady, EndedItem
    <2> QED BY <2>2, <2>3, <2>4, <2>5 DEF TendedAt
<1>6. CASE i \in New(d) /\ i \notin Begun(d)
    <2>1. e.item[i] = "waiting_user" /\ SameProgress(d, e, i) /\ e.job = d.job
        BY <1>2, <1>6
    <2>2. AllAwaited(e, i)
        BY <2>1 DEF AllAwaited, Unfinished
    <2>3. GenerationFits(e, i)
        BY <1>3, <2>1 DEF SameProgress, TendedAt, GenerationFits
    <2>4. StatusFits(e, i)
        BY <1>4, <1>6, <2>1 DEF SameProgress, StatusFits
    <2>5. Steady(d, e, i)
        BY <1>4, <1>6 DEF Steady, EndedItem
    <2> QED BY <2>2, <2>3, <2>4, <2>5 DEF TendedAt
<1>7. CASE i \notin New(d)
    <2>1. i \notin Begun(d)
        BY <1>7 DEF Begun
    <2>2. /\ SameProgress(d, e, i) /\ e.item[i] = d.item[i] /\ e.job = d.job
          /\ \A r \in Roles, q \in Runtimes : e.cons[i][r][q] = d.cons[i][r][q]
        BY <1>2, <1>7, <2>1
    <2>3. \A r \in Shows(i) : Work(e, i, r, d.rt[i]) \in {Work(d, i, r, d.rt[i]), "queued"}
        BY <1>1, <1>3, ShownImages DEF Work
    <2>4. "queued" \notin Useless
        BY DEF Useless, FailedWork
    <2>5. Quiet(d, e, i)
        BY <2>2, <2>3, <2>4 DEF SameProgress, Quiet
    <2> QED BY <1>3, <2>5, QuietTended
<1> QED BY <1>5, <1>6, <1>7

LEMMA RefreshedTends ==
    ASSUME NEW d \in Databases, Tended(d)
    PROVE  Tends(d, Refreshed(d))
<1> DEFINE e == Refreshed(d)
<1>1. \A m \in Images, k \in Runtimes :
          e.shared[m][k] \in {d.shared[m][k], "cancelled", "paused", "queued"}
    BY DEF Refreshed, Databases
<1>2. Untouched(d, e)
    BY DEF Refreshed, Databases, Untouched
<1> HIDE DEF e
<1>3. {"cancelled", "paused", "queued"} \cap Useless = {}
    BY DEF Useless, FailedWork
<1>4. ASSUME NEW i \in Items PROVE Quiet(d, e, i)
    <2>1. d.rt[i] \in Runtimes
        BY Fields
    <2>2. \A r \in Shows(i) :
              Work(e, i, r, d.rt[i]) \in {Work(d, i, r, d.rt[i]), "cancelled", "paused", "queued"}
        BY <1>1, <2>1, ShownImages DEF Work
    <2> QED BY <1>2, <1>3, <2>2, UntouchedQuiet
<1> QED BY <1>4, AllQuiet DEF e

LEMMA ConsumedTends ==
    ASSUME NEW d \in Databases, Affine(d), Tended(d)
    PROVE  Tends(d, Consumed(d))
<1> DEFINE e == Consumed(d)
           C(i) == Consumable(d, i, d.rt[i])
<1>1. e.rt = d.rt /\ e.job = d.job /\ e.shared = d.shared
    BY DEF Consumed, Databases
<1>2. \A i \in Items, r \in Roles :
          e.out[i][r] = IF r \in C(i) THEN d.rt[i] ELSE d.out[i][r]
    BY DEF Consumed, Databases
<1>3. \A i \in Items : e.done[i] = d.done[i] \cup C(i)
    BY DEF Consumed, Databases
<1>4. \A i \in Items :
          /\ C(i) = {} => e.gen[i] = d.gen[i] /\ e.item[i] = d.item[i]
          /\ C(i) # {} => /\ e.item[i] = "ready"
                          /\ \/ e.gen[i] = "running"
                             \/ /\ e.gen[i] = "succeeded"
                                /\ e.out[i]["loading"] # "none"
                                /\ "unloading" \in e.done[i]
    BY DEF Consumed, Databases
<1>5. \A i \in Items, r \in Roles, k \in Runtimes :
          r \notin C(i) => e.cons[i][r][k] = d.cons[i][r][k]
    BY DEF Consumed, Databases
<1>6. \A i \in Items : \A r \in C(i) :
          /\ r \in Shows(i) /\ r \in Roles /\ d.item[i] \in {"ready", "running"}
          /\ d.cons[i][r][d.rt[i]] = "waiting"
    BY DEF Consumable, Shows
<1> HIDE DEF e, C
<1> SUFFICES ASSUME NEW i \in Items PROVE TendedAt(e, i) /\ Steady(d, e, i)
    BY DEF Tends, e
<1>7. TendedAt(d, i) /\ d.rt[i] \in Runtimes
    BY Fields DEF Tended
<1>8. CASE C(i) = {}
    <2>1. /\ e.done[i] = d.done[i] /\ e.gen[i] = d.gen[i] /\ e.item[i] = d.item[i]
          /\ \A r \in Roles : e.out[i][r] = d.out[i][r]
          /\ \A r \in Roles, k \in Runtimes : e.cons[i][r][k] = d.cons[i][r][k]
        <3>1. e.done[i] = d.done[i]
            BY <1>3, <1>8
        <3>2. e.gen[i] = d.gen[i] /\ e.item[i] = d.item[i]
            BY <1>4, <1>8
        <3>3. \A r \in Roles : e.out[i][r] = d.out[i][r]
            BY <1>2, <1>8
        <3>4. \A r \in Roles, k \in Runtimes : e.cons[i][r][k] = d.cons[i][r][k]
            BY <1>5, <1>8
        <3> QED BY <3>1, <3>2, <3>3, <3>4
    <2>2. \A r, k : Work(e, i, r, k) = Work(d, i, r, k)
        BY <1>1 DEF Work
    <2>3. Quiet(d, e, i)
        BY <1>1, <2>1, <2>2 DEF Quiet
    <2> QED BY <1>7, <2>3, QuietTended
<1>9. CASE C(i) # {}
    <2>1. d.gen[i] # "none" /\ d.item[i] \in {"ready", "running"}
        BY <1>6, <1>7, <1>9 DEF Affine, ActiveConsumer
    <2>2. d.job[JobOf[i]] # "absent"
        BY <1>7, <2>1 DEF TendedAt, StatusFits
    <2>3. e.item[i] = "ready" /\ e.gen[i] \in {"running", "succeeded"}
        BY <1>4, <1>9
    <2>4. AllAwaited(e, i)
        <3> SUFFICES ASSUME NEW r \in Shows(i) \ e.done[i] PROVE Awaited(e, i, r)
            BY DEF AllAwaited
        <3>1. r \notin C(i) /\ r \in Shows(i) \ d.done[i] /\ r \in Roles
            BY <1>3 DEF Shows
        <3>2. Awaited(d, i, r)
            BY <1>7, <2>1, <3>1 DEF TendedAt, AllAwaited, Unfinished
        <3>3. e.cons[i][r][d.rt[i]] = d.cons[i][r][d.rt[i]]
            BY <1>5, <1>7, <3>1
        <3> QED BY <1>1, <3>2, <3>3 DEF Awaited, Work
    <2>5. \A r \in Roles : e.out[i][r] # "none" => r \in e.done[i]
        BY <1>2, <1>3, <1>7 DEF TendedAt, GenerationFits
    <2>6. e.gen[i] = "succeeded" => Shows(i) \subseteq e.done[i]
        BY <1>4, <1>9, <2>5 DEF Shows, Roles
    <2>7. GenerationFits(e, i)
        BY <2>3, <2>5, <2>6 DEF GenerationFits
    <2>8. StatusFits(e, i)
        BY <1>1, <2>2, <2>3 DEF StatusFits
    <2>9. Steady(d, e, i)
        BY <1>1, <2>1, <2>3 DEF Steady, EndedItem
    <2> QED BY <2>4, <2>7, <2>8, <2>9 DEF TendedAt
<1> QED BY <1>8, <1>9

LEMMA FinalizedTends ==
    ASSUME NEW d \in Databases, Tended(d), NEW verdict \in [Recognized(d) -> Verdicts]
    PROVE  Tends(d, Finalized(d, verdict))
<1> DEFINE e == Finalized(d, verdict)
<1>1. /\ e.rt = d.rt /\ e.job = d.job /\ e.shared = d.shared /\ e.gen = d.gen
      /\ e.done = d.done /\ e.out = d.out /\ e.cons = d.cons
    BY DEF Finalized, Databases
<1>2. \A i \in Items : \/ e.item[i] = d.item[i]
                       \/ i \in Recognized(d) /\ e.item[i] \in Verdicts
    BY DEF Finalized, Databases, Verdicts
<1> HIDE DEF e
<1> SUFFICES ASSUME NEW i \in Items PROVE TendedAt(e, i) /\ Steady(d, e, i)
    BY DEF Tends, e
<1>3. TendedAt(d, i)
    BY DEF Tended
<1>4. CASE e.item[i] = d.item[i]
    <2>1. Quiet(d, e, i)
        BY <1>1, <1>4 DEF Quiet, Work
    <2> QED BY <1>3, <2>1, QuietTended
<1>5. CASE i \in Recognized(d) /\ e.item[i] \in Verdicts
    <2>1. d.gen[i] = "succeeded" /\ d.item[i] = "ready"
        BY <1>5 DEF Recognized
    <2>2. AllAwaited(e, i)
        BY <1>5 DEF AllAwaited, Unfinished, Verdicts
    <2>3. GenerationFits(e, i)
        BY <1>1, <1>3 DEF TendedAt, GenerationFits
    <2>4. StatusFits(e, i)
        BY <1>1, <1>3, <1>5, <2>1 DEF TendedAt, StatusFits, Verdicts
    <2>5. Steady(d, e, i)
        BY <1>1, <2>1 DEF Steady, EndedItem
    <2> QED BY <2>2, <2>3, <2>4, <2>5 DEF TendedAt
<1> QED BY <1>2, <1>4, <1>5

LEMMA GrantedTends ==
    ASSUME NEW d \in Databases, Tended(d), NEW k \in Runtimes,
           NEW p \in Rows(d, k), NEW b \in (SUBSET Roles) \ {{}}
    PROVE  Tends(d, Granted(d, k, p[1], b))
<1> DEFINE i == p[1]
           e == Granted(d, k, i, b)
<1>1. GrantLeaves(d, e, k, i, b)
    BY GrantedFields
<1>2. /\ e.done = d.done /\ e.out = d.out
      /\ \A h \in Items : \/ e.gen[h] = d.gen[h]
                          \/ d.gen[h] \in {"queued", "fallback_wait"} /\ e.gen[h] = "running"
    BY DEF Granted, Databases
<1>3. i \in Items /\ d.item[i] = "ready"
    BY DEF Rows
<1> HIDE DEF e, i
<1>4. \A h \in Items : e.item[h] = d.item[h]
                       \/ {d.item[h], e.item[h]} \subseteq {"ready", "running"}
    BY <1>1, <1>3, Fields DEF GrantLeaves
<1>5. \A m \in Images, q \in Runtimes : e.shared[m][q] \in {d.shared[m][q], "running"}
    BY <1>1, Fields DEF GrantLeaves, WorkTable
<1>6. "running" \notin Useless
    BY DEF Useless, FailedWork
<1>7. ASSUME NEW h \in Items PROVE Quiet(d, e, h)
    <2>1. d.rt[h] \in Runtimes
        BY Fields
    <2>2. \A r \in Shows(h) : Work(e, h, r, d.rt[h]) \in {Work(d, h, r, d.rt[h]), "running"}
        BY <1>5, <2>1, ShownImages DEF Work
    <2>3. e.rt = d.rt /\ e.cons = d.cons /\ e.job = d.job
        BY <1>1 DEF GrantLeaves
    <2> QED BY <1>2, <1>4, <1>6, <1>7, <2>2, <2>3 DEF Quiet
<1> QED BY <1>7, AllQuiet DEF e, i

LEMMA GrantsTends ==
    ASSUME NEW d \in Databases, Tended(d), NEW k \in Runtimes, NEW e \in Grants(d, k)
    PROVE  Tends(d, e)
<1>1. e = d \/ \E p \in Rows(d, k), b \in (SUBSET Roles) \ {{}} : e = Granted(d, k, p[1], b)
    <2>1. e = d \/ \E pick \in {p[1] : p \in Rows(d, k)} \X ((SUBSET Roles) \ {{}}) :
                        e = Granted(d, k, pick[1], pick[2])
        BY DEF Grants
    <2> QED BY <2>1
<1>2. Tends(d, d)
    BY DEF Tended, Tends, Steady
<1> QED BY <1>1, <1>2, GrantedTends

LEMMA AggregatedTends ==
    ASSUME NEW d \in Databases, Tended(d)
    PROVE  Tends(d, Aggregated(d))
<1> DEFINE e == Aggregated(d)
<1>1. /\ e.rt = d.rt /\ e.item = d.item /\ e.shared = d.shared /\ e.gen = d.gen
      /\ e.done = d.done /\ e.out = d.out /\ e.cons = d.cons
    BY DEF Aggregated, Databases
<1>2. \A i \in Items :
          /\ JobOf[i] \in Jobs
          /\ d.job[JobOf[i]] \in ControlledJob \cup {"absent", "paused", "cancelled"} =>
                 e.job[JobOf[i]] = d.job[JobOf[i]]
          /\ d.job[JobOf[i]] # "absent" => e.job[JobOf[i]] # "absent"
    BY ConstantsAssumption DEF Aggregated, Databases
<1> HIDE DEF e
<1>3. ASSUME NEW i \in Items PROVE Quiet(d, e, i)
    BY <1>1, <1>2 DEF Quiet, Work, ControlledJob
<1> QED BY <1>3, AllQuiet DEF e

\* A whole scan: what is owed stays owed, and what has ended stays ended.
LEMMA ScanTends ==
    ASSUME Good(db), OcrInv, Scan
    PROVE  Tends(db, db')
<1>0. \A k \in Runtimes : fut[k] \in Results => Leased(db, k)
    BY DEF OcrInv, FuturesMine, Results
<1> DEFINE Far(d) == Good(d) /\ Tends(db, d)
<1>1. ASSUME NEW d, Far(d), NEW e \in Databases, Tends(d, e), Orderly(e), Whole(e)
      PROVE  Far(e)
    <2>1. d \in Databases
        BY <1>1 DEF Good, Orderly
    <2>2. Tends(db, e)
        BY <1>1, <2>1, TendsChain DEF Good
    <2> QED BY <1>1, <2>2 DEF Good, Tends, Tended
<1>2. ASSUME NEW e \in Collected PROVE Far(e)
    <2>1. PICK p \in Runtimes, q \in Runtimes : p # q /\ e \in Taken(p, Taken(q, {db}))
        <3>1. "gpu" \in Runtimes /\ "cpu" \in Runtimes /\ "gpu" # "cpu"
            BY DEF Runtimes
        <3> QED BY <1>2, <3>1 DEF Collected
    <2>2. PICK c \in Taken(q, {db}) : e \in Taken(p, {c})
        BY <2>1 DEF Taken
    <2>3. Good(c) /\ Tends(db, c) /\ c.lease[p] = db.lease[p]
        BY <1>0, <2>1, <2>2, TakenOrderly, TakenTends DEF Good
    <2>4. fut[p] \in Results => Leased(c, p)
        BY <1>0, <2>3 DEF Leased
    <2>5. Good(e) /\ Tends(c, e)
        BY <2>2, <2>3, <2>4, TakenTends
    <2> QED BY <1>1, <2>3, <2>5 DEF Good, Orderly
<1> HIDE DEF Far
<1>3. ASSUME NEW d, Far(d) PROVE d \in Databases /\ Orderly(d) /\ Whole(d) /\ Tended(d)
    BY <1>3 DEF Far, Good, Orderly
<1>4. ASSUME NEW d, Far(d)
      PROVE  Far(Controlled(d)) /\ Far(Prepared(d)) /\ Far(Refreshed(d)) /\ Far(Consumed(d))
    <2>0. d \in Databases /\ Orderly(d) /\ Whole(d) /\ Tended(d) /\ Affine(d)
        BY <1>3, <1>4 DEF Orderly
    <2>1. Orderly(Controlled(d)) /\ Whole(Controlled(d)) /\ Tends(d, Controlled(d))
        BY <2>0, ControlledOrderly, ControlledWhole, ControlledTends
    <2>2. Orderly(Prepared(d)) /\ Whole(Prepared(d)) /\ Tends(d, Prepared(d))
        BY <2>0, PreparedOrderly, PreparedWhole, PreparedTends
    <2>3. Orderly(Refreshed(d)) /\ Whole(Refreshed(d)) /\ Tends(d, Refreshed(d))
        BY <2>0, RefreshedOrderly, RefreshedWhole, RefreshedTends
    <2>4. Orderly(Consumed(d)) /\ Whole(Consumed(d)) /\ Tends(d, Consumed(d))
        BY <2>0, ConsumedOrderly, ConsumedWhole, ConsumedTends
    <2>5. Controlled(d) \in Databases /\ Prepared(d) \in Databases
          /\ Refreshed(d) \in Databases /\ Consumed(d) \in Databases
        BY <2>1, <2>2, <2>3, <2>4 DEF Orderly
    <2> QED BY <1>1, <1>4, <2>1, <2>2, <2>3, <2>4, <2>5
<1>5. PICK d \in Advanced : \E verdict \in [Recognized(d) -> Verdicts] :
          \E g \in Grants(Finalized(d, verdict), "gpu") :
          \E h \in Grants(g, "cpu") : db' = Aggregated(h)
    BY DEF Scan
<1>6. Far(d) /\ Digested(d)
    <2>1. PICK c \in Collected : d = Consumed(Refreshed(Prepared(Controlled(c))))
        BY <1>5 DEF Advanced, Through
    <2>2. Far(Controlled(c))
        BY <1>2, <1>4
    <2>3. Far(Prepared(Controlled(c)))
        BY <1>4, <2>2
    <2>4. Far(Refreshed(Prepared(Controlled(c))))
        BY <1>4, <2>3
    <2>5. Far(Consumed(Refreshed(Prepared(Controlled(c)))))
        BY <1>4, <2>4
    <2>6. Digested(d)
        BY AdvancedOrderly DEF Good
    <2> QED BY <2>1, <2>5, <2>6
<1>7. PICK verdict \in [Recognized(d) -> Verdicts] :
          \E g \in Grants(Finalized(d, verdict), "gpu") :
          \E h \in Grants(g, "cpu") : db' = Aggregated(h)
    BY <1>5
<1>8. Far(Finalized(d, verdict)) /\ Digested(Finalized(d, verdict))
    <2> DEFINE f == Finalized(d, verdict)
    <2>1. Orderly(f) /\ Digested(f) /\ Whole(f) /\ Tends(d, f)
        BY <1>3, <1>6, FinalizedOrderly, FinalizedWhole, FinalizedTends
    <2> HIDE DEF f
    <2>2. f \in Databases
        BY <2>1 DEF Orderly
    <2> QED BY <1>1, <1>6, <2>1, <2>2 DEF f
<1>9. "gpu" \in Runtimes /\ "cpu" \in Runtimes
    BY DEF Runtimes
<1>10. ASSUME NEW f, Far(f), Digested(f), NEW k \in Runtimes, NEW g \in Grants(f, k)
       PROVE  Far(g) /\ Digested(g)
    <2>1. f \in Databases /\ Orderly(f) /\ Whole(f) /\ Tended(f) /\ LeasesSound(f)
        BY <1>3, <1>10 DEF Orderly
    <2>2. Orderly(g) /\ Digested(g) /\ Whole(g) /\ Tends(f, g)
        BY <1>10, <2>1, GrantsOrderly, GrantsWhole, GrantsTends
    <2>3. g \in Databases
        BY <2>2 DEF Orderly
    <2> QED BY <1>1, <1>10, <2>2, <2>3
<1>11. PICK g \in Grants(Finalized(d, verdict), "gpu") :
           \E h \in Grants(g, "cpu") : db' = Aggregated(h)
    BY <1>7
<1>12. Far(g) /\ Digested(g)
    BY <1>8, <1>9, <1>10
<1>13. PICK h \in Grants(g, "cpu") : db' = Aggregated(h)
    BY <1>11
<1>14. Far(h)
    BY <1>9, <1>10, <1>12
<1>15. Tends(h, Aggregated(h)) /\ h \in Databases /\ Tended(db) /\ Tends(db, h)
    BY <1>3, <1>14, AggregatedTends DEF Far, Good
<1>16. Tends(db, Aggregated(h))
    BY <1>15, TendsChain
<1> QED BY <1>13, <1>16

\* The operator puts off and takes up whole audits.
LEMMA OperatorTends ==
    ASSUME Tended(db), OcrInv, Operator
    PROVE  Tends(db, db')
<1> PICK j \in Jobs : StartJob(j) \/ Pause(j) \/ Resume(j) \/ Cancel(j)
    BY DEF Operator
<1>0. db \in Databases
    BY DEF OcrInv
<1> SUFFICES ASSUME NEW i \in Items PROVE TendedAt(db', i) /\ Steady(db, db', i)
    BY DEF Tends
<1>1. TendedAt(db, i) /\ db.rt[i] \in Runtimes /\ JobOf[i] \in Jobs
    BY <1>0, Fields, ConstantsAssumption DEF Tended
<1>2. /\ db'.rt = db.rt /\ db'.gen = db.gen /\ db'.done = db.done /\ db'.out = db.out
      /\ db'.shared = db.shared
    BY <1>0 DEF StartJob, Pause, Resume, Cancel, Databases
<1>3. \A h \in Jobs : h # j => db'.job[h] = db.job[h]
    <2>1. \E s : db'.job = [db.job EXCEPT ![j] = s]
        BY <1>0 DEF StartJob, Pause, Resume, Cancel, Databases
    <2> QED BY <1>0, <2>1, Fields
<1>4. JobOf[i] # j \/ ~StartJob(j) => db'.item[i] = db.item[i]
    <2>1. CASE StartJob(j)
        BY <1>0, <2>1 DEF StartJob, Databases
    <2>2. CASE Pause(j) \/ Resume(j) \/ Cancel(j)
        BY <1>0, <2>2 DEF Pause, Resume, Cancel, Databases
    <2> QED BY <2>1, <2>2
<1>5. JobOf[i] # j \/ ~Resume(j) =>
          \A r \in Roles, k \in Runtimes : db'.cons[i][r][k] = db.cons[i][r][k]
    <2>1. CASE Resume(j)
        <3>1. db'.cons = Moved(db.cons, ItemsOf(j), {"paused"}, "waiting")
            BY <1>0, <2>1 DEF Resume, Databases
        <3>2. db.cons \in ConsumerTable
            BY <1>0, Fields
        <3> QED BY <2>1, <3>1, <3>2, MovedSets DEF ItemsOf
    <2>2. CASE StartJob(j) \/ Pause(j) \/ Cancel(j)
        BY <1>0, <2>2 DEF StartJob, Pause, Cancel, Databases
    <2> QED BY <2>1, <2>2
<1>6. \A r, k : Work(db', i, r, k) = Work(db, i, r, k)
    BY <1>2 DEF Work
<1>7. CASE JobOf[i] # j
    <2>1. Quiet(db, db', i)
        BY <1>1, <1>2, <1>3, <1>4, <1>5, <1>6, <1>7 DEF Quiet
    <2> QED BY <1>0, <1>1, <2>1, QuietTended
<1>8. CASE JobOf[i] = j /\ (Pause(j) \/ Cancel(j))
    <2>1. /\ db'.job[j] \in {"pause_requested", "cancel_requested"}
          /\ db.job[j] # "absent"
          /\ db.job[j] \in {"paused", "cancel_requested"} => db'.job[j] = "cancel_requested"
          /\ db'.item = db.item /\ db'.cons = db.cons
        BY <1>0, <1>8 DEF Pause, Cancel, Databases
    <2>2. Quiet(db, db', i)
        BY <1>2, <1>6, <1>8, <2>1 DEF Quiet
    <2> QED BY <1>0, <1>1, <2>2, QuietTended
<1>9. CASE JobOf[i] = j /\ StartJob(j)
    <2>1. db.job[j] = "absent" /\ db'.job[j] = "active" /\ db'.item[i] = "ready"
        BY <1>0, <1>9 DEF StartJob, Databases
    <2>2. db.gen[i] = "none" /\ db.item[i] = "absent"
        BY <1>1, <1>9, <2>1 DEF TendedAt, StatusFits
    <2>3. AllAwaited(db', i)
        BY <1>2, <2>2 DEF AllAwaited, Unfinished
    <2>4. GenerationFits(db', i)
        BY <1>1, <1>2 DEF TendedAt, GenerationFits
    <2>5. StatusFits(db', i)
        BY <1>9, <2>1 DEF StatusFits
    <2>6. Steady(db, db', i)
        BY <2>2 DEF Steady, EndedItem
    <2> QED BY <2>3, <2>4, <2>5, <2>6 DEF TendedAt
<1>10. CASE JobOf[i] = j /\ Resume(j)
    <2>1. /\ db.job[j] = "paused" /\ db'.job[j] = "active" /\ db'.item = db.item
          /\ db'.cons = Moved(db.cons, ItemsOf(j), {"paused"}, "waiting")
        BY <1>0, <1>10 DEF Resume, Databases
    <2>2. db.cons \in ConsumerTable /\ i \in ItemsOf(j)
        BY <1>0, <1>10, Fields DEF ItemsOf
    <2>3. \A r \in Roles, k \in Runtimes :
              db'.cons[i][r][k] = IF db.cons[i][r][k] = "paused" THEN "waiting"
                                  ELSE db.cons[i][r][k]
        BY <2>1, <2>2, MovedSets
    <2>4. \A r \in Roles, k \in Runtimes :
              /\ db'.cons[i][r][k] # "paused"
              /\ db'.cons[i][r][k] \in ActiveConsumer <=> db.cons[i][r][k] \in ActiveConsumer
        BY <2>3 DEF ActiveConsumer
    <2>5. AllAwaited(db', i)
        <3> SUFFICES ASSUME Unfinished(db', i), NEW r \in Shows(i) \ db'.done[i]
                     PROVE  Awaited(db', i, r)
            BY DEF AllAwaited
        <3>1. Unfinished(db, i) /\ r \in Shows(i) \ db.done[i] /\ r \in Roles
            BY <1>2, <2>1 DEF Unfinished, Shows
        <3>2. Awaited(db, i, r)
            BY <1>1, <3>1 DEF TendedAt, AllAwaited
        <3> QED BY <1>1, <1>2, <1>6, <2>4, <3>1, <3>2 DEF Awaited
    <2>6. GenerationFits(db', i)
        BY <1>1, <1>2 DEF TendedAt, GenerationFits
    <2>7. StatusFits(db', i)
        BY <1>1, <1>2, <1>10, <2>1, <2>4 DEF TendedAt, StatusFits
    <2>8. Steady(db, db', i)
        BY <1>2, <2>1, SteadySame
    <2> QED BY <2>5, <2>6, <2>7, <2>8 DEF TendedAt
<1> QED BY <1>7, <1>8, <1>9, <1>10

\* What is given up goes back to the queue, and its vehicle with it.
LEMMA AbandonedTends ==
    ASSUME NEW d \in Databases, LeasesSound(d), Tended(d), NEW k \in Runtimes
    PROVE  Tends(d, Abandoned(d, k))
<1> DEFINE e == Abandoned(d, k)
<1>1. /\ e.rt = d.rt /\ e.gen = d.gen /\ e.done = d.done /\ e.out = d.out
      /\ e.cons = d.cons /\ e.job = d.job
    BY DEF Abandoned, Released, Databases
<1>2. \A i \in Items : e.item[i] = d.item[i]
                       \/ {d.item[i], e.item[i]} \subseteq {"ready", "running"}
    BY Fields DEF Abandoned, Released, Databases
<1>3. \A m \in Images, q \in Runtimes : e.shared[m][q] \in {d.shared[m][q], "queued"}
    <2> DEFINE led == ImageOf[d.lease[k].item][Lead(d.lease[k].batch)]
    <2>1. \/ e.shared = d.shared
          \/ e.shared = [d.shared EXCEPT ![led][k] =
                                IF @ = "running" THEN "queued" ELSE @]
        BY DEF Abandoned, Released, Databases
    <2> HIDE DEF e, led
    <2> QED BY <2>1, Fields DEF WorkTable
<1> HIDE DEF e
<1>4. "queued" \notin Useless
    BY DEF Useless, FailedWork
<1>5. ASSUME NEW i \in Items PROVE Quiet(d, e, i)
    <2>1. d.rt[i] \in Runtimes
        BY Fields
    <2>2. \A r \in Shows(i) : Work(e, i, r, d.rt[i]) \in {Work(d, i, r, d.rt[i]), "queued"}
        BY <1>3, <2>1, ShownImages DEF Work
    <2> QED BY <1>1, <1>2, <1>4, <2>2 DEF Quiet
<1> QED BY <1>5, AllQuiet DEF e

LEMMA ProcessTends ==
    ASSUME Tended(db), OcrInv,
           \/ ScanFails \/ Stop \/ Crash \/ Boot
           \/ \E k \in Runtimes : Recover(k) \/ Execute(k)
    PROVE  Tends(db, db')
<1>0. db \in Databases /\ LeasesSound(db) /\ Tends(db, db)
    BY DEF OcrInv, Tended, Tends, Steady
<1>1. CASE UNCHANGED db
    BY <1>0, <1>1
<1>2. ASSUME NEW k \in Runtimes, Recover(k) PROVE Tends(db, db')
    BY <1>0, <1>2, AbandonedTends DEF Recover
<1>3. CASE Stop
    <2> DEFINE give(d, k) == IF Leased(d, k) /\ d.lease[k].mine THEN Abandoned(d, k) ELSE d
               fine(d) == d \in Databases /\ LeasesSound(d) /\ Tended(d) /\ Tends(db, d)
    <2>1. ASSUME NEW d, NEW k \in Runtimes, fine(d) PROVE fine(give(d, k))
        <3>1. Tends(d, Abandoned(d, k)) /\ Abandoned(d, k) \in Databases
              /\ LeasesSound(Abandoned(d, k))
            BY <2>1, AbandonedTends, AbandonedStep
        <3>2. Tends(db, Abandoned(d, k))
            BY <2>1, <3>1, TendsChain
        <3>3. Tended(Abandoned(d, k))
            BY <3>1 DEF Tends, Tended
        <3> QED BY <2>1, <3>1, <3>2, <3>3
    <2>2. db' = give(give(db, "gpu"), "cpu")
        BY <1>3 DEF Stop
    <2>3. fine(db)
        BY <1>0
    <2> HIDE DEF give, fine
    <2>4. fine(db')
        BY <2>1, <2>2, <2>3 DEF Runtimes
    <2> QED BY <2>4 DEF fine
<1>4. CASE Crash
    <2>1. /\ Untouched(db, db') /\ db'.shared = db.shared
        BY <1>0, <1>4 DEF Crash, Databases, Untouched
    <2>2. \A i \in Items : Quiet(db, db', i)
        BY <2>1 DEF Untouched, Quiet, Work
    <2> QED BY <1>0, <2>2, AllQuiet
<1> QED BY <1>1, <1>2, <1>3, <1>4 DEF ScanFails, Boot, Execute

\* Every step.
LEMMA NextTends ==
    ASSUME OcrInv, Orderly(db), Whole(db), Tended(db), Next
    PROVE  Tends(db, db')
BY OperatorTends, ScanTends, ProcessTends DEF Next, Good

LEMMA NextTended ==
    OcrInv /\ Orderly(db) /\ Whole(db) /\ Tended(db) /\ [Next]_vars => Tended(db)'
<1> SUFFICES ASSUME OcrInv, Orderly(db), Whole(db), Tended(db), [Next]_vars PROVE Tended(db')
    OBVIOUS
<1>1. CASE UNCHANGED vars
    BY <1>1 DEF vars
<1>2. CASE Next
    BY <1>2, NextTends DEF Tends, Tended
<1> QED BY <1>1, <1>2

\* At first no audit is there.
LEMMA InitTended == Init => Tended(db)
BY DEF Init, Tended, TendedAt, AllAwaited, Unfinished, GenerationFits, StatusFits, EndedItem

\* For any number of audits that share any images, and through every failure, restart on
\* the CPU, pause, resumption, cancellation, crash and recovery: an unfinished vehicle
\* counts on each ticket that it has not got, for work of its own runtime that can still
\* end, and is put off only with its audit.
THEOREM VehicleNeverStranded == Spec => []NeverStranded
<1>1. Tended(db) => NeverStranded
    BY DEF Tended, TendedAt, AllAwaited, Unfinished, Awaited, Useless, NeverStranded
<1> QED BY <1>1, InitOcr, NextOcr, InitOrderly, NextOrderly, InitWhole, NextWhole,
           InitTended, NextTended, PTL DEF Spec

\* A vehicle that has ended, or was left to a person, stays so in every step, for any
\* number of audits and images: the one exception is a failure on the GPU, after which
\* it may start over on the CPU with those that share its image.
THEOREM VehicleEndsOnce == Spec => EndedStays
<1> DEFINE Stays == \A i \in Items : db.item[i] \in EndedItem \cup {"waiting_user"} =>
                \/ db'.item[i] = db.item[i]
                \/ db.item[i] = "waiting_user" /\ db'.item[i] = "cancelled"
                \/ db.item[i] = "failed" /\ db.rt[i] = "gpu" /\ db'.rt[i] = "cpu"
<1>1. OcrInv /\ Orderly(db) /\ Whole(db) /\ Tended(db) /\ [Next]_vars => [Stays]_vars
    <2> SUFFICES ASSUME OcrInv, Orderly(db), Whole(db), Tended(db), Next PROVE Stays
        OBVIOUS
    <2> QED BY NextTends DEF Tends, Steady
<1> QED BY <1>1, InitOcr, NextOcr, InitOrderly, NextOrderly, InitWhole, NextWhole,
           InitTended, NextTended, PTL DEF Spec, EndedStays

---------------------------------------------------------------------------
(* The store of artifacts.                                                  *)

SettledOn(d, k) == StoredOn(d, k) \cup RefusedOn(d, k)
SameSettled(d, e, k) == StoredOn(e, k) = StoredOn(d, k) /\ RefusedOn(e, k) = RefusedOn(d, k)
\* A result: the batch is stored, or one of its images refused.
Ended(d, e, k) ==
    \/ /\ StoredOn(e, k) = StoredOn(d, k) \cup BatchOn(d, k)
       /\ RefusedOn(e, k) = RefusedOn(d, k)
    \/ \E m \in BatchOn(d, k) : /\ StoredOn(e, k) = StoredOn(d, k)
                                /\ RefusedOn(e, k) = RefusedOn(d, k) \cup {m}
\* Nothing in the batch is settled.
Fresh(e, k) == BatchOn(e, k) \subseteq Images \ SettledOn(e, k)

\* The turn of a runtime, as ArtifactStore has it.
Turn(d, e, k) ==
    \/ SameSettled(d, e, k) /\ BatchOn(e, k) \in {BatchOn(d, k), {}}
    \/ SameSettled(d, e, k) /\ BatchOn(d, k) = {} /\ Fresh(e, k)
    \/ Ended(d, e, k) /\ Fresh(e, k)

LEMMA SettledBy ==
    ASSUME NEW d, NEW e, NEW k,
           \A m \in Images : \/ e.shared[m][k] = d.shared[m][k]
                             \/ {d.shared[m][k], e.shared[m][k]} \cap Final = {}
    PROVE  SameSettled(d, e, k)
BY DEF SameSettled, StoredOn, RefusedOn, Final

LEMMA SettledChain ==
    ASSUME NEW c, NEW d, NEW e, NEW k, SameSettled(c, d, k), SameSettled(d, e, k)
    PROVE  SameSettled(c, e, k)
BY DEF SameSettled

LEMMA SharedSettled ==
    ASSUME NEW d, NEW e, e.shared = d.shared, NEW k
    PROVE  SameSettled(d, e, k)
BY DEF SameSettled, StoredOn, RefusedOn

LEMMA GrownSettled ==
    ASSUME NEW d, NEW e, NEW q, Grown(d, e, q), NEW k \in Runtimes
    PROVE  SameSettled(d, e, k)
<1>1. {"absent", "queued"} \cap Final = {}
    BY DEF Final, FailedWork
<1> QED BY <1>1, SettledBy DEF Grown

LEMMA RefreshedSettled ==
    ASSUME NEW d \in Databases, NEW k \in Runtimes
    PROVE  SameSettled(d, Refreshed(d), k)
<1>1. \A m \in Images :
          \/ Refreshed(d).shared[m][k] = d.shared[m][k]
          \/ {d.shared[m][k], Refreshed(d).shared[m][k]}
                \subseteq {"cancelled", "paused", "queued"}
    BY DEF Refreshed, Databases
<1>2. {"cancelled", "paused", "queued"} \cap Final = {}
    BY DEF Final, FailedWork
<1> QED BY <1>1, <1>2, SettledBy

\* A batch holds images, its lead first.
LEMMA BatchIs ==
    ASSUME NEW d \in Databases, LeasesSound(d), NEW k \in Runtimes, Leased(d, k)
    PROVE  /\ \A m : m \in BatchOn(d, k) <=> InBatch(d, k, m)
           /\ BatchOn(d, k) \subseteq Images
           /\ Led(d, k) \in BatchOn(d, k)
<1>1. \A r \in d.lease[k].batch : ImageOf[d.lease[k].item][r] \in Images
    BY LeasedRecord, ShownImages DEF LeasesSound
<1>2. Lead(d.lease[k].batch) \in d.lease[k].batch
    BY LedImage
<1> QED BY <1>1, <1>2 DEF BatchOn, InBatch, Led

LEMMA IntactBatch ==
    ASSUME NEW d \in Databases, LeasesSound(d), NEW k \in Runtimes, Leased(d, k), Intact(d, k),
           NEW m \in BatchOn(d, k)
    PROVE  d.shared[m][k] \notin Final
<1>1. PICK r \in d.lease[k].batch : m = ImageOf[d.lease[k].item][r]
    BY BatchIs DEF InBatch
<1>2. d.shared[m][k] \in {"running", "queued"}
    BY <1>1 DEF Intact, Work
<1> QED BY <1>2 DEF Final, FailedWork

\* A result settles what it says, on its own runtime.
LEMMA DeliveredSettles ==
    ASSUME NEW d \in Databases, LeasesSound(d), NEW k \in Runtimes, NEW result \in Results,
           Leased(d, k), Intact(d, k)
    PROVE  /\ Ended(d, Delivered(d, k, result), k)
           /\ \A q \in Runtimes \ {k} : SameSettled(d, Delivered(d, k, result), q)
<1>0. /\ BatchOn(d, k) \subseteq Images /\ Led(d, k) \in BatchOn(d, k)
      /\ \A m : m \in BatchOn(d, k) <=> InBatch(d, k, m)
      /\ \A m \in BatchOn(d, k) : d.shared[m][k] \notin Final
    BY BatchIs, IntactBatch
<1>1. ASSUME NEW e, e = Stored(d, k)
      PROVE  Ended(d, e, k) /\ \A q \in Runtimes \ {k} : SameSettled(d, e, q)
    <2>1. \A m \in Images, q \in Runtimes :
              e.shared[m][q] = IF InBatch(d, k, m) /\ q = k THEN "succeeded" ELSE d.shared[m][q]
        BY <1>1, StoredStep
    <2>2. StoredOn(e, k) = StoredOn(d, k) \cup BatchOn(d, k)
        BY <1>0, <2>1 DEF StoredOn
    <2>3. RefusedOn(e, k) = RefusedOn(d, k)
        BY <1>0, <2>1 DEF RefusedOn, Final, FailedWork
    <2>4. \A q \in Runtimes \ {k} : SameSettled(d, e, q)
        BY <2>1, SettledBy
    <2> QED BY <2>2, <2>3, <2>4 DEF Ended
<1>2. ASSUME NEW word \in FailedWork, NEW e,
             \A q \in Runtimes : SameSettled(Marked(d, k, word), e, q)
      PROVE  Ended(d, e, k) /\ \A q \in Runtimes \ {k} : SameSettled(d, e, q)
    <2> DEFINE b == Marked(d, k, word)
    <2>1. \A m \in Images, q \in Runtimes :
              b.shared[m][q] = IF m = Led(d, k) /\ q = k THEN word ELSE d.shared[m][q]
        BY <1>0, MarkedStep
    <2>2. \A q \in Runtimes : SameSettled(b, e, q)
        BY <1>2
    <2> HIDE DEF b
    <2>3. "succeeded" \notin FailedWork
        BY DEF FailedWork
    <2>4. StoredOn(b, k) = StoredOn(d, k)
        BY <1>0, <2>1, <2>3 DEF StoredOn, Final
    <2>5. RefusedOn(b, k) = RefusedOn(d, k) \cup {Led(d, k)}
        BY <1>0, <2>1 DEF RefusedOn
    <2>6. \A q \in Runtimes \ {k} : SameSettled(d, b, q)
        BY <2>1, SettledBy
    <2>7. \A q \in Runtimes \ {k} : SameSettled(d, e, q)
        BY <2>2, <2>6, SettledChain
    <2>8. Ended(d, e, k)
        BY <1>0, <2>2, <2>4, <2>5 DEF SameSettled, Ended
    <2> QED BY <2>7, <2>8
<1>3. ASSUME NEW word \in FailedWork
      PROVE  \A q \in Runtimes :
                /\ SameSettled(Marked(d, k, word), Propagated(Marked(d, k, word), Led(d, k), k), q)
                /\ SameSettled(Marked(d, k, word), RestartedOnCpu(Marked(d, k, word), Led(d, k)), q)
    <2> DEFINE b == Marked(d, k, word)
    <2>1. b \in Databases
        BY <1>0, MarkedStep
    <2> HIDE DEF b
    <2> QED BY <2>1, PropagatedStep, RestartedStep, SharedSettled, GrownSettled DEF b
<1> QED BY <1>1, <1>2, <1>3, DeliveredCases


\* What happens to runtime k from the start of a scan: the result that has come is
\* taken, and nothing else settles anything.
Came(d, e, k) == IF fut[k] \in Results THEN Ended(d, e, k) ELSE SameSettled(d, e, k)

LEMMA CameChain ==
    ASSUME NEW c, NEW d, NEW e, NEW k, Came(c, d, k), SameSettled(d, e, k)
    PROVE  Came(c, e, k)
<1>1. CASE fut[k] \in Results
    BY <1>1 DEF Came, Ended, SameSettled
<1>2. CASE fut[k] \notin Results
    BY <1>2, SettledChain DEF Came
<1> QED BY <1>1, <1>2

LEMMA CameLater ==
    ASSUME NEW c, NEW d, NEW e, NEW k, SameSettled(c, d, k), Came(d, e, k),
           d.lease[k] = c.lease[k]
    PROVE  Came(c, e, k)
<1>1. BatchOn(d, k) = BatchOn(c, k)
    BY DEF BatchOn, Leased
<1>2. CASE fut[k] \in Results
    BY <1>1, <1>2 DEF Came, Ended, SameSettled
<1>3. CASE fut[k] \notin Results
    BY <1>3, SettledChain DEF Came
<1> QED BY <1>2, <1>3

LEMMA TakenSettles ==
    ASSUME NEW d, Orderly(d), NEW k \in Runtimes, fut[k] \in Results => Leased(d, k),
           NEW e \in Taken(k, {d})
    PROVE  /\ Came(d, e, k)
           /\ \A q \in Runtimes \ {k} : SameSettled(d, e, q)
<1>0. d \in Databases /\ LeasesSound(d) /\ \A q \in Runtimes : Leased(d, q) => Intact(d, q)
    BY DEF Orderly, Served, ServedAt
<1>1. e = IF fut[k] \in Results THEN Delivered(d, k, fut[k]) ELSE d
    BY DEF Taken
<1>2. CASE fut[k] \in Results
    BY <1>0, <1>1, <1>2, DeliveredSettles DEF Came
<1>3. CASE fut[k] \notin Results
    BY <1>1, <1>3 DEF Came, SameSettled
<1> QED BY <1>2, <1>3

\* Whichever result is taken first.
LEMMA CollectedSettles ==
    ASSUME Orderly(db), OcrInv, NEW e \in Collected
    PROVE  Orderly(e) /\ \A k \in Runtimes : Came(db, e, k)
<1>1. \A k \in Runtimes : fut[k] \in Results => Leased(db, k)
    BY DEF OcrInv, FuturesMine, Results
<1>2. PICK p \in Runtimes, q \in Runtimes :
          p # q /\ Runtimes = {p, q} /\ e \in Taken(p, Taken(q, {db}))
    BY DEF Collected, Runtimes
<1>3. PICK c \in Taken(q, {db}) : e \in Taken(p, {c})
    BY <1>2 DEF Taken
<1>4. /\ Orderly(c) /\ c.lease[p] = db.lease[p]
      /\ Came(db, c, q) /\ SameSettled(db, c, p)
    BY <1>1, <1>2, <1>3, TakenOrderly, TakenSettles
<1>5. fut[p] \in Results => Leased(c, p)
    BY <1>1, <1>4 DEF Leased
<1>6. Orderly(e) /\ Came(c, e, p) /\ SameSettled(c, e, q)
    BY <1>2, <1>3, <1>4, <1>5, TakenOrderly, TakenSettles
<1>7. Came(db, e, p)
    BY <1>4, <1>6, CameLater
<1>8. Came(db, e, q)
    BY <1>4, <1>6, CameChain
<1> QED BY <1>2, <1>6, <1>7, <1>8

LEMMA AdvancedSettles ==
    ASSUME Orderly(db), OcrInv, NEW d \in Advanced
    PROVE  \A k \in Runtimes : Came(db, d, k)
<1> SUFFICES ASSUME NEW k \in Runtimes PROVE Came(db, d, k)
    OBVIOUS
<1>1. PICK c \in Collected : d = Consumed(Refreshed(Prepared(Controlled(c))))
    BY DEF Advanced, Through
<1> DEFINE c1 == Controlled(c) c2 == Prepared(c1) c3 == Refreshed(c2)
<1>2. Orderly(c) /\ Came(db, c, k)
    BY CollectedSettles
<1>3. c1 \in Databases /\ SameSettled(c, c1, k)
    BY <1>2, ControlledStep, SharedSettled DEF Orderly
<1> HIDE DEF c1
<1>4. c2 \in Databases /\ SameSettled(c1, c2, k)
    BY <1>3, PreparedStep, GrownSettled
<1> HIDE DEF c2
<1>5. c3 \in Databases /\ SameSettled(c2, c3, k)
    BY <1>4, RefreshedStep, RefreshedSettled
<1> HIDE DEF c3
<1>6. SameSettled(c3, Consumed(c3), k)
    BY <1>5, ConsumedStep, SharedSettled
<1>7. d = Consumed(c3)
    BY <1>1 DEF c1, c2, c3
<1> QED BY <1>2, <1>3, <1>4, <1>5, <1>6, <1>7, CameChain

\* A grant settles nothing, and leases a free slot for images that are not settled.
Leasing(d, e, k) == e.lease[k] = d.lease[k] \/ (~Leased(d, k) /\ Fresh(e, k))

LEMMA GrantsSettle ==
    ASSUME NEW d \in Databases, NEW k \in Runtimes, NEW e \in Grants(d, k)
    PROVE  \A q \in Runtimes : SameSettled(d, e, q) /\ Leasing(d, e, q)
<1>1. e = d \/ (~Leased(d, k) /\ \E p \in Rows(d, k), b \in (SUBSET Roles) \ {{}} :
                    b \in Batches(d, k, p[1]) /\ e = Granted(d, k, p[1], b))
    <2>1. e = d \/ (~Leased(d, k) /\ \E pick \in {p[1] : p \in Rows(d, k)}
                                                  \X ((SUBSET Roles) \ {{}}) :
                        pick[2] \in Batches(d, k, pick[1])
                        /\ e = Granted(d, k, pick[1], pick[2]))
        BY DEF Grants, SlotIsFree
    <2> QED BY <2>1
<1>2. CASE e = d
    BY <1>2, SharedSettled DEF Leasing
<1>3. ASSUME ~Leased(d, k), NEW p \in Rows(d, k), NEW b \in (SUBSET Roles) \ {{}},
             b \in Batches(d, k, p[1]), e = Granted(d, k, p[1], b)
      PROVE  \A q \in Runtimes : SameSettled(d, e, q) /\ Leasing(d, e, q)
    <2> DEFINE i == p[1]
               led == ImageOf[i][Lead(b)]
               l == [held |-> TRUE, item |-> i, batch |-> b, mine |-> TRUE]
    <2>1. i \in Items
        BY DEF Rows
    <2>2. GrantLeaves(d, e, k, i, b)
        BY <1>3, GrantedFields
    <2>3. \A r \in b : ImageOf[i][r] \in Images /\ d.shared[ImageOf[i][r]][k] = "queued"
        <3> SUFFICES ASSUME NEW r \in b
                     PROVE  ImageOf[i][r] \in Images /\ d.shared[ImageOf[i][r]][k] = "queued"
            OBVIOUS
        <3>1. <<i, r>> \in Rows(d, k)
            BY <1>3 DEF Batches
        <3> HIDE DEF i
        <3> QED BY <2>1, <3>1, RowIs, ShownImages DEF Work
    <2>4. Lead(b) \in b
        BY DEF Lead, Roles
    <2> HIDE DEF i
    <2>5. led \in Images /\ d.shared[led][k] = "queued"
        BY <2>3, <2>4
    <2>6. /\ e.lease = [d.lease EXCEPT ![k] = l]
          /\ e.shared = [d.shared EXCEPT ![led][k] = "running"]
        BY <2>2 DEF GrantLeaves
    <2>7. e.lease[k] = l /\ \A q \in Runtimes \ {k} : e.lease[q] = d.lease[q]
        BY <2>6, Fields
    <2> HIDE DEF led
    <2>8. \A m \in Images, q \in Runtimes :
              e.shared[m][q] = IF m = led /\ q = k THEN "running" ELSE d.shared[m][q]
        <3>1. d.shared \in WorkTable /\ "running" \in WorkStatus
            BY Fields DEF WorkStatus
        <3> QED BY <2>5, <2>6, <3>1, WorkWritten
    <2>9. {"queued", "running"} \cap Final = {}
        BY DEF Final, FailedWork
    <2>10. \A q \in Runtimes : SameSettled(d, e, q)
        <3> SUFFICES ASSUME NEW q \in Runtimes PROVE SameSettled(d, e, q)
            OBVIOUS
        <3>1. \A m \in Images : \/ e.shared[m][q] = d.shared[m][q]
                                \/ {d.shared[m][q], e.shared[m][q]} \cap Final = {}
            BY <2>5, <2>8, <2>9
        <3> QED BY <3>1, SettledBy
    <2>11. Fresh(e, k)
        <3>1. BatchOn(e, k) = {ImageOf[i][r] : r \in b}
            BY <2>7 DEF BatchOn, Leased
        <3>2. SettledOn(e, k) = SettledOn(d, k)
            BY <2>10 DEF SameSettled, SettledOn
        <3>3. \A m : d.shared[m][k] = "queued" => m \notin SettledOn(d, k)
            BY <2>9 DEF SettledOn, StoredOn, RefusedOn, Final
        <3> QED BY <2>3, <3>1, <3>2, <3>3 DEF Fresh
    <2> QED BY <1>3, <2>7, <2>10, <2>11 DEF Leasing
<1> QED BY <1>1, <1>2, <1>3

LEMMA LeasingChain ==
    ASSUME NEW c, NEW d, NEW e, NEW k,
           Leasing(c, d, k), Leasing(d, e, k), SameSettled(d, e, k)
    PROVE  Leasing(c, e, k)
<1>1. CASE e.lease[k] = d.lease[k] /\ Fresh(d, k)
    <2>1. BatchOn(e, k) = BatchOn(d, k)
        BY <1>1 DEF BatchOn, Leased
    <2>2. Fresh(e, k)
        BY <1>1, <2>1 DEF Fresh, SettledOn, SameSettled
    <2> QED BY <1>1, <2>2 DEF Leasing
<1>2. CASE e.lease[k] = d.lease[k] /\ ~Fresh(d, k)
    BY <1>2 DEF Leasing
<1>3. CASE ~Leased(d, k) /\ Fresh(e, k)
    BY <1>3 DEF Leasing, Leased
<1> QED BY <1>1, <1>2, <1>3 DEF Leasing

\* A scan is a turn of each runtime.
LEMMA ScanTurn ==
    ASSUME Orderly(db), OcrInv, Scan
    PROVE  \A k \in Runtimes : Turn(db, db', k)
<1> SUFFICES ASSUME NEW k \in Runtimes PROVE Turn(db, db', k)
    OBVIOUS
<1>1. PICK d \in Advanced : \E verdict \in [Recognized(d) -> Verdicts] :
          \E g \in Grants(Finalized(d, verdict), "gpu") :
          \E h \in Grants(g, "cpu") : db' = Aggregated(h)
    BY DEF Scan
<1>2. PICK verdict \in [Recognized(d) -> Verdicts] :
          \E g \in Grants(Finalized(d, verdict), "gpu") :
          \E h \in Grants(g, "cpu") : db' = Aggregated(h)
    BY <1>1
<1> DEFINE f == Finalized(d, verdict)
<1>3. PICK g \in Grants(f, "gpu") : \E h \in Grants(g, "cpu") : db' = Aggregated(h)
    BY <1>2
<1>4. PICK h \in Grants(g, "cpu") : db' = Aggregated(h)
    BY <1>3
<1>5. Committable(db)
    <2>1. \A q \in Runtimes : fut[q] \in Results => Leased(db, q)
        BY DEF OcrInv, FuturesMine, Results
    <2> QED BY <2>1 DEF Committable, Orderly, Served, ServedAt
<1>6. /\ d \in Databases /\ LeasesSound(d) /\ Came(db, d, k)
      /\ d.lease[k] = IF fut[k] \in Results THEN NoLease ELSE db.lease[k]
    BY <1>5, AdvancedStep, AdvancedSettles
<1>7. f \in Databases /\ LeasesSound(f) /\ f.lease = d.lease /\ SameSettled(d, f, k)
    BY <1>6, FinalizedStep, SharedSettled DEF LeasesSound, Leased
<1> HIDE DEF f
<1>8. g \in Databases /\ LeasesSound(g) /\ SameSettled(f, g, k) /\ Leasing(f, g, k)
    <2>1. "gpu" \in Runtimes
        BY DEF Runtimes
    <2>2. g \in Databases /\ LeasesSound(g)
        BY <1>3, <1>7, <2>1, GrantsStep
    <2> QED BY <1>3, <1>7, <2>1, <2>2, GrantsSettle
<1>9. h \in Databases /\ SameSettled(g, h, k) /\ Leasing(g, h, k)
    <2>1. "cpu" \in Runtimes
        BY DEF Runtimes
    <2>2. h \in Databases
        BY <1>4, <1>8, <2>1, GrantsStep
    <2> QED BY <1>4, <1>8, <2>1, <2>2, GrantsSettle
<1>10. db'.lease = h.lease /\ SameSettled(h, db', k)
    BY <1>4, <1>9, AggregatedStep, SharedSettled
<1>11. Came(db, db', k)
    BY <1>6, <1>7, <1>8, <1>9, <1>10, CameChain
<1>12. Leasing(f, db', k)
    <2>1. Leasing(h, db', k)
        BY <1>10 DEF Leasing
    <2> QED BY <1>8, <1>9, <1>10, <2>1, LeasingChain
<1>13. CASE Leased(f, k)
    <2>1. fut[k] \notin Results /\ db'.lease[k] = db.lease[k]
        BY <1>6, <1>7, <1>12, <1>13 DEF Leasing, Leased, NoLease
    <2>2. BatchOn(db', k) = BatchOn(db, k)
        BY <2>1 DEF BatchOn, Leased
    <2> QED BY <1>11, <2>1, <2>2 DEF Came, Turn
<1>14. CASE ~Leased(f, k)
    <2>1. Fresh(db', k)
        <3>1. CASE db'.lease[k] = f.lease[k]
            BY <1>14, <3>1 DEF Fresh, BatchOn, Leased
        <3> QED BY <1>12, <3>1 DEF Leasing
    <2>2. fut[k] \notin Results => BatchOn(db, k) = {}
        BY <1>6, <1>7, <1>14 DEF BatchOn, Leased
    <2> QED BY <1>11, <2>1, <2>2 DEF Came, Turn
<1> QED BY <1>13, <1>14

\* Work goes on, or is given up.
Rested(d, e, k) == SameSettled(d, e, k) /\ BatchOn(e, k) \in {BatchOn(d, k), {}}

LEMMA AbandonedRests ==
    ASSUME NEW d \in Databases, LeasesSound(d), NEW k \in Runtimes, NEW q \in Runtimes
    PROVE  Rested(d, Abandoned(d, k), q)
<1> DEFINE e == Abandoned(d, k)
           led == ImageOf[d.lease[k].item][Lead(d.lease[k].batch)]
<1>1. \/ e.shared = d.shared
      \/ e.shared = [d.shared EXCEPT ![led][k] = IF @ = "running" THEN "queued" ELSE @]
    BY DEF Abandoned, Released, Databases
<1>2. e.lease = [d.lease EXCEPT ![k] = NoLease] \/ e = d
    BY AbandonedStep
<1> HIDE DEF e, led
<1>3. \A m \in Images : \/ e.shared[m][q] = d.shared[m][q]
                        \/ d.shared[m][q] = "running" /\ e.shared[m][q] = "queued"
    <2> DEFINE w == IF d.shared[led][k] = "running" THEN "queued" ELSE d.shared[led][k]
    <2>1. e.shared = d.shared \/ e.shared = [d.shared EXCEPT ![led][k] = w]
        BY <1>1
    <2>2. led \notin Images => [d.shared EXCEPT ![led][k] = w] = d.shared
        BY Fields DEF WorkTable
    <2>3. ASSUME led \in Images, NEW t, t = [d.shared EXCEPT ![led][k] = w]
          PROVE  \A m \in Images : t[m][q] = IF m = led /\ q = k THEN w ELSE d.shared[m][q]
        <3>1. d.shared \in WorkTable
            BY Fields
        <3>2. w \in WorkStatus
            BY <2>3, <3>1 DEF WorkTable, WorkStatus
        <3> HIDE DEF w
        <3> QED BY <2>3, <3>1, <3>2, WorkWritten
    <2>4. \/ w = d.shared[led][k]
          \/ d.shared[led][k] = "running" /\ w = "queued"
        OBVIOUS
    <2> HIDE DEF w
    <2> QED BY <2>1, <2>2, <2>3, <2>4
<1>4. {"running", "queued"} \cap Final = {}
    BY DEF Final, FailedWork
<1>5. SameSettled(d, e, q)
    BY <1>3, <1>4, SettledBy
<1>6. e.lease[q] \in {d.lease[q], NoLease}
    BY <1>2, Fields
<1>7. BatchOn(e, q) \in {BatchOn(d, q), {}}
    BY <1>6 DEF BatchOn, Leased, NoLease
<1> QED BY <1>5, <1>7 DEF Rested, e

LEMMA RestedChain ==
    ASSUME NEW c, NEW d, NEW e, NEW k, Rested(c, d, k), Rested(d, e, k)
    PROVE  Rested(c, e, k)
BY SettledChain DEF Rested

\* The operator, the process and the executor settle nothing.
LEMMA OthersRest ==
    ASSUME OcrInv, NEW k \in Runtimes,
           \/ Operator \/ ScanFails \/ Stop \/ Crash \/ Boot \/ UNCHANGED vars
           \/ \E q \in Runtimes : Recover(q) \/ Execute(q)
    PROVE  Rested(db, db', k)
<1>0. db \in Databases /\ LeasesSound(db)
    BY DEF OcrInv
<1>1. CASE UNCHANGED db
    BY <1>1, SharedSettled DEF Rested
<1>2. CASE Operator
    <2>1. db'.shared = db.shared /\ db'.lease = db.lease
        BY <1>0, <1>2 DEF Operator, StartJob, Pause, Resume, Cancel, Databases
    <2> QED BY <2>1, SharedSettled DEF Rested, BatchOn, Leased
<1>3. ASSUME NEW q \in Runtimes, Recover(q) PROVE Rested(db, db', k)
    BY <1>0, <1>3, AbandonedRests DEF Recover
<1>4. CASE Stop
    <2> DEFINE give(d, q) == IF Leased(d, q) /\ d.lease[q].mine THEN Abandoned(d, q) ELSE d
               fine(d) == d \in Databases /\ LeasesSound(d) /\ Rested(db, d, k)
    <2>1. ASSUME NEW d, NEW q \in Runtimes, fine(d) PROVE fine(give(d, q))
        <3>1. Rested(d, Abandoned(d, q), k) /\ Abandoned(d, q) \in Databases
              /\ LeasesSound(Abandoned(d, q))
            BY <2>1, AbandonedRests, AbandonedStep
        <3> QED BY <2>1, <3>1, RestedChain
    <2>2. db' = give(give(db, "gpu"), "cpu")
        BY <1>4 DEF Stop
    <2>3. fine(db)
        BY <1>0, SharedSettled DEF Rested
    <2> HIDE DEF give, fine
    <2>4. fine(db')
        BY <2>1, <2>2, <2>3 DEF Runtimes
    <2> QED BY <2>4 DEF fine
<1>5. CASE Crash
    <2>1. db'.shared = db.shared
        BY <1>0, <1>5 DEF Crash, Databases
    <2>2. db'.lease[k] = IF db.lease[k].held THEN [db.lease[k] EXCEPT !.mine = FALSE]
                         ELSE db.lease[k]
        BY <1>0, <1>5 DEF Crash, Databases
    <2>3. db.lease[k] \in Leases \/ db.lease[k] = NoLease
        BY <1>0, Fields
    <2>4. /\ db'.lease[k].held = db.lease[k].held
          /\ db.lease[k].held => /\ db'.lease[k].item = db.lease[k].item
                                 /\ db'.lease[k].batch = db.lease[k].batch
        BY <2>2, <2>3 DEF Leases, NoLease
    <2>5. BatchOn(db', k) = BatchOn(db, k)
        BY <2>4 DEF BatchOn, Leased
    <2> QED BY <2>1, <2>5, SharedSettled DEF Rested
<1> QED BY <1>1, <1>2, <1>3, <1>4, <1>5 DEF ScanFails, Boot, Execute, vars

LEMMA NextTurn ==
    ASSUME OcrInv, Orderly(db), [Next]_vars, NEW k \in Runtimes
    PROVE  Turn(db, db', k)
<1>1. CASE Scan
    BY <1>1, ScanTurn
<1>2. CASE Rested(db, db', k)
    BY <1>2 DEF Rested, Turn
<1> QED BY <1>1, <1>2, OthersRest DEF Next

\* A turn of every runtime is a step of the store.
LEMMA StoreStep ==
    ASSUME \A k \in Runtimes : Turn(db, db', k)
    PROVE  Store!Next
<1> SUFFICES ASSUME NEW k \in Runtimes
             PROVE  \/ Store!Rests(k) \/ Store!GivesUp(k) \/ Store!Begins(k)
                    \/ Store!Succeeds(k) \/ Store!Fails(k)
    BY DEF Store!Next
<1>0. Turn(db, db', k)
    OBVIOUS
<1>1. CASE SameSettled(db, db', k) /\ BatchOn(db', k) = BatchOn(db, k)
    <2>1. Store!Rests(k)
        BY <1>1 DEF Store!Rests, Store!Gains, SameSettled, BatchOn, StoredOn, RefusedOn, Leased
    <2> QED BY <2>1
<1>2. CASE SameSettled(db, db', k) /\ BatchOn(db', k) = {}
    <2>1. Store!GivesUp(k)
        BY <1>2 DEF Store!GivesUp, Store!Gains, SameSettled, BatchOn, StoredOn, RefusedOn, Leased
    <2> QED BY <2>1
<1>3. CASE SameSettled(db, db', k) /\ BatchOn(db, k) = {} /\ Fresh(db', k)
    <2>1. Store!Begins(k)
        BY <1>3 DEF Store!Begins, Store!Gains, Store!Takes, Store!Settled, Fresh, SettledOn,
                    SameSettled, BatchOn, StoredOn, RefusedOn, Leased
    <2> QED BY <2>1
<1>4. CASE Ended(db, db', k) /\ Fresh(db', k)
    <2>1. Store!Takes(k)
        BY <1>4 DEF Store!Takes, Store!Settled, Fresh, SettledOn,
                    BatchOn, StoredOn, RefusedOn, Leased
    <2>2. CASE /\ StoredOn(db', k) = StoredOn(db, k) \cup BatchOn(db, k)
               /\ RefusedOn(db', k) = RefusedOn(db, k)
        BY <2>1, <2>2 DEF Store!Succeeds, Store!Gains, BatchOn, StoredOn, RefusedOn, Leased
    <2>3. ASSUME NEW m \in BatchOn(db, k), StoredOn(db', k) = StoredOn(db, k),
                 RefusedOn(db', k) = RefusedOn(db, k) \cup {m}
          PROVE  Store!Fails(k)
        BY <2>1, <2>3 DEF Store!Fails, Store!Gains, BatchOn, StoredOn, RefusedOn, Leased
    <2> QED BY <1>4, <2>2, <2>3 DEF Ended
<1> QED BY <1>0, <1>1, <1>2, <1>3, <1>4 DEF Turn

\* For any number of audits, vehicles, images and lives of the process, in whatever
\* order results are collected and whatever is restarted, recovered, paused or
\* cancelled: the tables are a store of artifacts in which the work on an image is
\* done once on each runtime, by the batch that holds it.
THEOREM StoreImplemented == Spec => ImplementsStore
<1>1. Init => Store!Init
    BY DEF Init, Store!Init, BatchOn, StoredOn, RefusedOn, Leased, NoLease, FailedWork
<1>2. OcrInv /\ Orderly(db) /\ [Next]_vars => [Store!Next]_Store!store
    BY NextTurn, StoreStep
<1> QED BY <1>1, <1>2, InitOcr, NextOcr, InitOrderly, NextOrderly,
           PTL DEF Spec, ImplementsStore, Store!Spec
=============================================================================
