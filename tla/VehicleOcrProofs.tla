-------------------------- MODULE VehicleOcrProofs --------------------------
(***************************************************************************)
(* What holds of VehicleOcr for any number of audits, vehicles, images and *)
(* lives of the process: its types, and that artifacts stay, that batches  *)
(* stay as they were granted, that controls take effect between vehicles,  *)
(* and that a vehicle never mixes runtimes.                                *)
(*                                                                         *)
(* A scan is one step of a dozen passes.  Each pass is an operator on the  *)
(* record of the database and has a lemma for every part of the invariant; *)
(* the scan and the other steps are put together from those.               *)
(***************************************************************************)
EXTENDS VehicleOcr, TLAPS

-------------------------------------------------------------------------------
(* Types, and what each pass does to shared work and leases. *)

\* The tables, typed.
Databases ==
    [job : [Jobs -> JobStatus],
     item : [Items -> ItemStatus],
     done : [Items -> SUBSET Roles],
     gen : [Items -> GenStatus],
     rt : [Items -> Runtimes],
     out : [Items -> [Roles -> Runtimes \cup {"none"}]],
     shared : [Images -> [Runtimes -> WorkStatus]],
     cons : [Items -> [Roles -> [Runtimes -> ConsumerStatus]]],
     lease : [Runtimes -> Leases \cup {NoLease}]]

\* Work that is over.
Final == {"succeeded"} \cup FailedWork

\* From d to e no artifact that is there is lost.
Kept(d, e) ==
    \A m \in Images, k \in Runtimes :
        d.shared[m][k] \in Final => e.shared[m][k] = d.shared[m][k]

\* The columns shared and cons.
WorkTable == [Images -> [Runtimes -> WorkStatus]]
ConsumerTable == [Items -> [Roles -> [Runtimes -> ConsumerStatus]]]

\* The types of the columns.
LEMMA Fields ==
    ASSUME NEW d \in Databases
    PROVE  /\ d.job \in [Jobs -> JobStatus] /\ d.item \in [Items -> ItemStatus]
           /\ d.done \in [Items -> SUBSET Roles] /\ d.gen \in [Items -> GenStatus]
           /\ d.rt \in [Items -> Runtimes]
           /\ d.out \in [Items -> [Roles -> Runtimes \cup {"none"}]]
           /\ d.shared \in WorkTable /\ d.cons \in ConsumerTable
           /\ d.lease \in [Runtimes -> Leases \cup {NoLease}]
BY DEF Databases, WorkTable, ConsumerTable

\* One entry of the table of shared work is written.
LEMMA WorkWritten ==
    ASSUME NEW t \in WorkTable, NEW x \in Images, NEW k \in Runtimes, NEW w \in WorkStatus
    PROVE  /\ [t EXCEPT ![x][k] = w] \in WorkTable
           /\ \A m \in Images, q \in Runtimes :
                  [t EXCEPT ![x][k] = w][m][q] = IF m = x /\ q = k THEN w ELSE t[m][q]
<1>1. t[x] \in [Runtimes -> WorkStatus] /\ t \in [Images -> [Runtimes -> WorkStatus]]
    BY DEF WorkTable
<1> DEFINE row == [t[x] EXCEPT ![k] = w]
<1>2. row \in [Runtimes -> WorkStatus]
      /\ \A q \in Runtimes : row[q] = IF q = k THEN w ELSE t[x][q]
    BY <1>1
<1> HIDE DEF row
<1>3. [t EXCEPT ![x] = row] \in WorkTable
    BY <1>1, <1>2 DEF WorkTable
<1>4. \A m \in Images, q \in Runtimes :
          [t EXCEPT ![x] = row][m][q] = IF m = x /\ q = k THEN w ELSE t[m][q]
    BY <1>1, <1>2
<1> QED BY <1>3, <1>4 DEF row

\* Moving consumers keeps their table typed.
LEMMA MovedTyped ==
    ASSUME NEW cons \in [Items -> [Roles -> [Runtimes -> ConsumerStatus]]],
           NEW items, NEW from, NEW to \in ConsumerStatus
    PROVE  Moved(cons, items, from, to) \in [Items -> [Roles -> [Runtimes -> ConsumerStatus]]]
<1>1. \A i \in Items, r \in Roles, k \in Runtimes :
          (IF i \in items /\ cons[i][r][k] \in from THEN to ELSE cons[i][r][k])
              \in ConsumerStatus
    BY SMTT(40)
<1> QED BY <1>1 DEF Moved

\* Controls leave shared work and leases alone.
LEMMA ControlledStep ==
    ASSUME NEW d \in Databases
    PROVE  /\ Controlled(d) \in Databases
           /\ Controlled(d).shared = d.shared /\ Controlled(d).lease = d.lease
<1>1. \A s \in {"cancelled", "paused"} : s \in JobStatus /\ s \in ConsumerStatus
    BY DEF JobStatus, TerminalJob, ConsumerStatus, ActiveConsumer
<1>2. {"cancelled", "ready"} \subseteq ItemStatus
    BY DEF ItemStatus, EndedItem
<1>3. \A a, b : Moved(Moved(d.cons, a, ActiveConsumer, "cancelled"), b, {"waiting"}, "paused")
                \in [Items -> [Roles -> [Runtimes -> ConsumerStatus]]]
    BY <1>1, MovedTyped DEF Databases
<1> QED BY <1>1, <1>2, <1>3 DEF Controlled, Databases

\* Recounting changes no final work.
LEMMA RefreshedStep ==
    ASSUME NEW d \in Databases
    PROVE  /\ Refreshed(d) \in Databases
           /\ Kept(d, Refreshed(d)) /\ Refreshed(d).lease = d.lease
<1>1. {"cancelled", "paused", "queued"} \subseteq WorkStatus
    BY DEF WorkStatus
<1>2. {"cancelled", "paused", "queued"} \cap Final = {}
    BY DEF Final, FailedWork
<1>3. \A m \in Images, k \in Runtimes :
          Refreshed(d).shared[m][k] \in {d.shared[m][k], "cancelled", "paused", "queued"}
    BY DEF Refreshed, Databases
<1>4. \A m \in Images, k \in Runtimes :
          \/ d.shared[m][k] \in {"cancelled", "paused", "queued"}
          \/ Refreshed(d).shared[m][k] = d.shared[m][k]
    BY DEF Refreshed, Databases
<1>5. Kept(d, Refreshed(d))
    BY <1>2, <1>4 DEF Kept
<1>6. /\ Refreshed(d) = [d EXCEPT !.shared = Refreshed(d).shared]
      /\ Refreshed(d).shared \in WorkTable
    <2> DEFINE s == Refreshed(d).shared
    <2>1. /\ s = [m \in Images |-> s[m]]
          /\ \A m \in Images : s[m] = [k \in Runtimes |-> s[m][k]]
        BY DEF Refreshed, Databases
    <2>2. \A m \in Images, k \in Runtimes : s[m][k] \in WorkStatus
        BY <1>1, <1>3, Fields DEF WorkTable
    <2>3. Refreshed(d) = [d EXCEPT !.shared = s]
        BY DEF Refreshed, Databases
    <2> HIDE DEF s
    <2>4. s \in WorkTable
        BY <2>1, <2>2 DEF WorkTable
    <2> QED BY <2>3, <2>4 DEF s
<1> HIDE DEF Refreshed
<1> DEFINE s == Refreshed(d).shared
<1>7. Refreshed(d) = [d EXCEPT !.shared = s] /\ s \in WorkTable
    BY <1>6
<1> HIDE DEF s
<1> QED BY <1>5, <1>7 DEF Databases, WorkTable

\* Evaluation changes no work at all.
LEMMA FinalizedStep ==
    ASSUME NEW d \in Databases, NEW verdict \in [Recognized(d) -> Verdicts]
    PROVE  /\ Finalized(d, verdict) \in Databases
           /\ Finalized(d, verdict).shared = d.shared
           /\ Finalized(d, verdict).lease = d.lease
<1>1. Verdicts \subseteq ItemStatus /\ {"succeeded", "waiting_user"} \subseteq ItemStatus
    BY DEF Verdicts, ItemStatus, EndedItem
<1> QED BY <1>1 DEF Finalized, Databases

\* The status of audits is derived and nothing else changes.
LEMMA AggregatedStep ==
    ASSUME NEW d \in Databases
    PROVE  /\ Aggregated(d) \in Databases
           /\ Aggregated(d).shared = d.shared
           /\ Aggregated(d).lease = d.lease
<1>1. {"active", "failed", "waiting_user", "succeeded"} \subseteq JobStatus
    BY DEF JobStatus, TerminalJob
<1> QED BY <1>1 DEF Aggregated, Databases

\* From d to e only work of runtime k that was not there has appeared.
Grown(d, e, k) ==
    \A m \in Images, q \in Runtimes :
        \/ e.shared[m][q] = d.shared[m][q]
        \/ q = k /\ d.shared[m][q] = "absent" /\ e.shared[m][q] = "queued"

\* Registration only adds work of its runtime.
LEMMA RegisteredStep ==
    ASSUME NEW d \in Databases, NEW items, NEW k \in Runtimes
    PROVE  /\ Registered(d, items, k) \in Databases
           /\ Grown(d, Registered(d, items, k), k)
           /\ Registered(d, items, k).lease = d.lease
<1> DEFINE e == Registered(d, items, k)
<1>1. \A i, r : Registration(d, i, r, k) \in ConsumerStatus
    BY DEF Registration, ConsumerStatus, ActiveConsumer
<1>2. "failed" \in ItemStatus /\ "queued" \in WorkStatus
    BY DEF ItemStatus, EndedItem, WorkStatus
<1>3. e.item \in [Items -> ItemStatus]
    BY <1>2, Fields DEF Registered, Databases
<1>4. e.cons \in ConsumerTable
    BY <1>1, Fields DEF Registered, Databases, ConsumerTable
<1>5. e.shared \in WorkTable
    BY <1>2, Fields DEF Registered, Databases, WorkTable
<1>6. e = [d EXCEPT !.cons = e.cons, !.item = e.item, !.shared = e.shared]
    BY DEF Registered, Databases
<1>7. Grown(d, e, k)
    BY Fields DEF Registered, Databases, Grown, WorkTable
<1> HIDE DEF e
<1> DEFINE c == e.cons it == e.item sh == e.shared
<1>8. e = [d EXCEPT !.cons = c, !.item = it, !.shared = sh]
      /\ c \in ConsumerTable /\ it \in [Items -> ItemStatus] /\ sh \in WorkTable
    BY <1>3, <1>4, <1>5, <1>6
<1> HIDE DEF c, it, sh
<1>9. e \in Databases /\ e.lease = d.lease
    BY <1>8 DEF Databases, ConsumerTable, WorkTable
<1> QED BY <1>7, <1>9 DEF e

\* A propagated failure changes no work.
LEMMA PropagatedStep ==
    ASSUME NEW d \in Databases, NEW m, NEW k \in Runtimes
    PROVE  /\ Propagated(d, m, k) \in Databases
           /\ Propagated(d, m, k).shared = d.shared
           /\ Propagated(d, m, k).lease = d.lease
<1> DEFINE e == Propagated(d, m, k)
<1>1. {"failed", "cancelled"} \subseteq ConsumerStatus /\ "failed" \in ItemStatus
    BY DEF ConsumerStatus, ItemStatus, EndedItem
<1>2. e.item \in [Items -> ItemStatus]
    BY <1>1, Fields DEF Propagated, Databases
<1>3. e.cons \in ConsumerTable
    BY <1>1, Fields DEF Propagated, Databases, ConsumerTable
<1>4. e = [d EXCEPT !.cons = e.cons, !.item = e.item]
    BY DEF Propagated, Databases
<1> HIDE DEF e
<1> DEFINE c == e.cons it == e.item
<1>5. e = [d EXCEPT !.cons = c, !.item = it]
      /\ c \in ConsumerTable /\ it \in [Items -> ItemStatus]
    BY <1>2, <1>3, <1>4
<1> HIDE DEF c, it
<1>6. e \in Databases /\ e.lease = d.lease /\ e.shared = d.shared
    BY <1>5 DEF Databases, ConsumerTable, WorkTable
<1> QED BY <1>6 DEF e

\* A restart only adds work of the CPU.
LEMMA RestartedStep ==
    ASSUME NEW d \in Databases, NEW m
    PROVE  /\ RestartedOnCpu(d, m) \in Databases
           /\ Grown(d, RestartedOnCpu(d, m), "cpu")
           /\ RestartedOnCpu(d, m).lease = d.lease
<1> DEFINE items == {i \in Items : /\ Expects(d, i, m, "gpu") # {}
                                   /\ d.rt[i] = "gpu"
                                   /\ d.gen[i] \in {"queued", "running"}}
           c == [i \in Items |-> [r \in Roles |->
                        IF /\ i \in items
                           /\ d.cons[i][r].gpu \in ActiveConsumer \cup {"consumed"}
                        THEN [d.cons[i][r] EXCEPT !.gpu = "cancelled"]
                        ELSE d.cons[i][r]]]
           g == [i \in Items |-> IF i \in items THEN "fallback_wait" ELSE d.gen[i]]
           rt == [i \in Items |-> IF i \in items THEN "cpu" ELSE d.rt[i]]
           o == [i \in Items |-> IF i \in items THEN [r \in Roles |-> "none"] ELSE d.out[i]]
           it == [i \in Items |-> IF i \in items THEN "ready" ELSE d.item[i]]
           dn == [i \in Items |-> IF i \in items THEN AlreadyComplete(i) ELSE d.done[i]]
           dropped == [d EXCEPT !.cons = c, !.gen = g, !.rt = rt, !.out = o,
                                !.item = it, !.done = dn]
<1>1. "cancelled" \in ConsumerStatus /\ "fallback_wait" \in GenStatus
      /\ "cpu" \in Runtimes /\ "ready" \in ItemStatus
      /\ \A i : AlreadyComplete(i) \in SUBSET Roles
    BY DEF ConsumerStatus, GenStatus, Runtimes, ItemStatus, AlreadyComplete, Roles
<1>2. c \in ConsumerTable
    <2>1. d.cons \in ConsumerTable
        BY Fields
    <2> HIDE DEF items
    <2> QED BY <1>1, <2>1 DEF ConsumerTable
<1>3. /\ g \in [Items -> GenStatus] /\ rt \in [Items -> Runtimes]
      /\ o \in [Items -> [Roles -> Runtimes \cup {"none"}]]
      /\ it \in [Items -> ItemStatus] /\ dn \in [Items -> SUBSET Roles]
    BY <1>1, Fields
<1>4. RestartedOnCpu(d, m) = Registered(dropped, items, "cpu")
    BY DEF RestartedOnCpu, Databases
<1> HIDE DEF c, g, rt, o, it, dn, items
<1>5. dropped \in Databases /\ dropped.shared = d.shared /\ dropped.lease = d.lease
    BY <1>2, <1>3 DEF Databases, ConsumerTable
<1> HIDE DEF dropped
<1> QED BY <1>1, <1>4, <1>5, RegisteredStep DEF Grown

\* New generations only add work of the primary runtime.
LEMMA PreparedStep ==
    ASSUME NEW d \in Databases
    PROVE  /\ Prepared(d) \in Databases
           /\ Grown(d, Prepared(d), Primary)
           /\ Prepared(d).lease = d.lease
<1> DEFINE new == {i \in Items : /\ d.job[JobOf[i]] = "active"
                                 /\ d.item[i] = "ready"
                                 /\ d.gen[i] = "none"}
           run == {i \in new : "loading" \in Shows(i)}
           it == [i \in Items |-> IF i \in new \ run THEN "waiting_user" ELSE d.item[i]]
           g == [i \in Items |-> IF i \in run THEN "queued" ELSE d.gen[i]]
           rt == [i \in Items |-> IF i \in run THEN Primary ELSE d.rt[i]]
           dn == [i \in Items |-> IF i \in run THEN AlreadyComplete(i) ELSE d.done[i]]
           e == [d EXCEPT !.item = it, !.gen = g, !.rt = rt, !.done = dn]
<1>1. "waiting_user" \in ItemStatus /\ "queued" \in GenStatus /\ Primary \in Runtimes
      /\ \A i : AlreadyComplete(i) \in SUBSET Roles
    BY DEF GenStatus, Runtimes, ItemStatus, AlreadyComplete, Roles, Primary
<1>2. /\ g \in [Items -> GenStatus] /\ rt \in [Items -> Runtimes]
      /\ it \in [Items -> ItemStatus] /\ dn \in [Items -> SUBSET Roles]
    BY <1>1, Fields
<1>3. Prepared(d) = Registered(e, run, Primary)
    BY DEF Prepared, Databases
<1> HIDE DEF g, rt, it, dn, new, run
<1>4. e \in Databases /\ e.shared = d.shared /\ e.lease = d.lease
    BY <1>2 DEF Databases
<1> HIDE DEF e
<1> QED BY <1>1, <1>3, <1>4, RegisteredStep DEF Grown

\* Consuming changes no work.
LEMMA ConsumedStep ==
    ASSUME NEW d \in Databases
    PROVE  /\ Consumed(d) \in Databases
           /\ Consumed(d).shared = d.shared /\ Consumed(d).lease = d.lease
<1> DEFINE e == Consumed(d)
<1>1. /\ {"succeeded", "running"} \subseteq GenStatus /\ "ready" \in ItemStatus
      /\ "consumed" \in ConsumerStatus
    BY DEF GenStatus, ItemStatus, ConsumerStatus
<1>2. \A i : Consumable(d, i, d.rt[i]) \in SUBSET Roles
    BY DEF Consumable, Shows
<1>3. e.done \in [Items -> SUBSET Roles]
    BY <1>2, Fields DEF Consumed, Databases
<1>4. e.out \in [Items -> [Roles -> Runtimes \cup {"none"}]]
    BY Fields DEF Consumed, Databases
<1>5. e.gen \in [Items -> GenStatus] /\ e.item \in [Items -> ItemStatus]
    BY <1>1, Fields DEF Consumed, Databases
<1>6. e.cons \in ConsumerTable
    BY <1>1, Fields DEF Consumed, Databases, ConsumerTable
<1>7. e = [d EXCEPT !.done = e.done, !.out = e.out, !.gen = e.gen, !.item = e.item,
                    !.cons = e.cons]
    BY DEF Consumed, Databases
<1> HIDE DEF e
<1> DEFINE c == e.cons it == e.item dn == e.done o == e.out g == e.gen
<1>8. /\ e = [d EXCEPT !.done = dn, !.out = o, !.gen = g, !.item = it, !.cons = c]
      /\ c \in ConsumerTable /\ it \in [Items -> ItemStatus] /\ g \in [Items -> GenStatus]
      /\ o \in [Items -> [Roles -> Runtimes \cup {"none"}]]
      /\ dn \in [Items -> SUBSET Roles]
    BY <1>3, <1>4, <1>5, <1>6, <1>7
<1> HIDE DEF c, it, dn, o, g
<1>9. e \in Databases /\ e.lease = d.lease /\ e.shared = d.shared
    BY <1>8 DEF Databases, ConsumerTable, WorkTable
<1> QED BY <1>9 DEF e

-------------------------------------------------------------------------------
(* Results. *)

\* A lease names images that its vehicle shows.
LeasesSound(d) ==
    \A k \in Runtimes : Leased(d, k) => d.lease[k].batch \subseteq Shows(d.lease[k].item)

\* A lease has a vehicle and a batch that its lead image belongs to.
LEMMA LeasedRecord ==
    ASSUME NEW d \in Databases, NEW k \in Runtimes, Leased(d, k)
    PROVE  /\ d.lease[k] \in Leases
           /\ d.lease[k].item \in Items
           /\ d.lease[k].batch \subseteq Roles /\ d.lease[k].batch # {}
           /\ Lead(d.lease[k].batch) \in d.lease[k].batch
<1>1. d.lease[k] \in Leases
    BY Fields DEF Leased, NoLease
<1>2. \A b \in (SUBSET Roles) \ {{}} : Lead(b) \in b
    BY DEF Lead, Roles
<1> QED BY <1>1, <1>2 DEF Leases

\* What a vehicle shows is an image.
LEMMA ShownImages ==
    ASSUME NEW i \in Items, NEW r \in Shows(i)
    PROVE  ImageOf[i][r] \in Images
BY ConstantsAssumption DEF Shows

\* The columns of the other runtimes only grow.
Apart(d, e, k) ==
    \A m \in Images, q \in Runtimes \ {k} :
        e.shared[m][q] = d.shared[m][q] \/ d.shared[m][q] = "absent"

\* The tables once the result of slot k is written: the batch is stored, or the lead
\* image marked.
Led(d, k) == ImageOf[d.lease[k].item][Lead(d.lease[k].batch)]
InBatch(d, k, m) == \E r \in d.lease[k].batch : ImageOf[d.lease[k].item][r] = m
Stored(d, k) == [Released(d, k) EXCEPT !.shared = [m \in Images |->
                    IF InBatch(d, k, m) THEN [@[m] EXCEPT ![k] = "succeeded"] ELSE @[m]]]
Marked(d, k, word) == [Released(d, k) EXCEPT !.shared[Led(d, k)][k] = word]

Free(d, e, k) ==
    /\ e.item = d.item /\ e.cons = d.cons /\ e.job = d.job
    /\ e.rt = d.rt /\ e.gen = d.gen
    /\ e.lease = [d.lease EXCEPT ![k] = NoLease]

\* Storing a batch changes just the work of the batch and the lease.
LEMMA StoredStep ==
    ASSUME NEW d \in Databases, NEW k \in Runtimes
    PROVE  /\ Stored(d, k) \in Databases /\ Free(d, Stored(d, k), k)
           /\ \A m \in Images, q \in Runtimes :
                  Stored(d, k).shared[m][q] =
                      IF InBatch(d, k, m) /\ q = k THEN "succeeded" ELSE d.shared[m][q]
<1> DEFINE le == [d.lease EXCEPT ![k] = NoLease]
           s == [m \in Images |-> IF InBatch(d, k, m)
                                  THEN [d.shared[m] EXCEPT ![k] = "succeeded"] ELSE d.shared[m]]
<1>1. le \in [Runtimes -> Leases \cup {NoLease}]
    BY Fields
<1>2. s \in WorkTable
    <2>1. "succeeded" \in WorkStatus
        BY DEF WorkStatus
    <2> QED BY <2>1, Fields DEF WorkTable
<1>3. \A m \in Images, q \in Runtimes :
          s[m][q] = IF InBatch(d, k, m) /\ q = k THEN "succeeded" ELSE d.shared[m][q]
    BY Fields DEF WorkTable
<1>4. Stored(d, k) = [d EXCEPT !.lease = le, !.shared = s]
    BY DEF Stored, Released, Databases
<1> HIDE DEF s
<1>5. Free(d, Stored(d, k), k) /\ Stored(d, k).shared = s
    BY <1>4 DEF Free, Databases
<1> HIDE DEF le
<1>6. Stored(d, k) \in Databases
    BY <1>1, <1>2, <1>4 DEF Databases, WorkTable
<1> QED BY <1>3, <1>5, <1>6

\* Marking a failure changes just the work of the lead image and the lease.
LEMMA MarkedStep ==
    ASSUME NEW d \in Databases, NEW k \in Runtimes, Led(d, k) \in Images,
           NEW word \in FailedWork
    PROVE  /\ Marked(d, k, word) \in Databases /\ Free(d, Marked(d, k, word), k)
           /\ \A m \in Images, q \in Runtimes :
                  Marked(d, k, word).shared[m][q] =
                      IF m = Led(d, k) /\ q = k THEN word ELSE d.shared[m][q]
<1> DEFINE le == [d.lease EXCEPT ![k] = NoLease]
           s == [d.shared EXCEPT ![Led(d, k)][k] = word]
<1>1. le \in [Runtimes -> Leases \cup {NoLease}]
    BY Fields
<1>2. s \in WorkTable
    <2>1. word \in WorkStatus
        BY DEF WorkStatus
    <2> QED BY <2>1, Fields, WorkWritten
<1>3. \A m \in Images, q \in Runtimes :
          s[m][q] = IF m = Led(d, k) /\ q = k THEN word ELSE d.shared[m][q]
    BY Fields DEF WorkTable
<1>4. Marked(d, k, word) = [d EXCEPT !.lease = le, !.shared = s]
    BY DEF Marked, Released, Databases
<1> HIDE DEF s
<1>5. Free(d, Marked(d, k, word), k) /\ Marked(d, k, word).shared = s
    BY <1>4 DEF Free, Databases
<1> HIDE DEF le
<1>6. Marked(d, k, word) \in Databases
    BY <1>1, <1>2, <1>4 DEF Databases, WorkTable
<1> QED BY <1>3, <1>5, <1>6

\* The lead image is an image of the batch.
LEMMA LedImage ==
    ASSUME NEW d \in Databases, LeasesSound(d), NEW k \in Runtimes, Leased(d, k)
    PROVE  /\ Led(d, k) \in Images
           /\ Led(d, k) = ImageOf[d.lease[k].item][Lead(d.lease[k].batch)]
           /\ Lead(d.lease[k].batch) \in d.lease[k].batch
<1>1. /\ Lead(d.lease[k].batch) \in d.lease[k].batch /\ d.lease[k].item \in Items
      /\ d.lease[k].batch \subseteq Shows(d.lease[k].item)
    BY LeasedRecord DEF LeasesSound
<1>2. ImageOf[d.lease[k].item][Lead(d.lease[k].batch)] \in Images
    BY <1>1, ShownImages
<1> QED BY <1>1, <1>2 DEF Led

\* A result is stored, or marked and then propagated or answered by a restart.
LEMMA DeliveredCases ==
    ASSUME NEW d \in Databases, NEW k \in Runtimes, NEW result \in Results
    PROVE  \/ Delivered(d, k, result) = Stored(d, k)
           \/ \E word \in FailedWork :
                 \/ Delivered(d, k, result) = Propagated(Marked(d, k, word), Led(d, k), k)
                 \/ /\ k = "gpu"
                    /\ Delivered(d, k, result) = RestartedOnCpu(Marked(d, k, word), Led(d, k))
<1>1. Released(d, k).shared = d.shared
    BY DEF Released, Databases
<1>2. {"failed", "fallen"} \subseteq FailedWork
    BY DEF FailedWork
<1> QED BY <1>1, <1>2 DEF Delivered, Stored, Marked, Led, InBatch

\* A result that is committed releases its slot, loses no artifact and leaves the work of
\* the other runtime to the other slot.
LEMMA DeliveredStep ==
    ASSUME NEW d \in Databases, NEW k \in Runtimes, NEW result \in Results,
           Leased(d, k), LeasesSound(d), Intact(d, k)
    PROVE  /\ Delivered(d, k, result) \in Databases
           /\ Kept(d, Delivered(d, k, result))
           /\ Apart(d, Delivered(d, k, result), k)
           /\ Delivered(d, k, result).lease = [d.lease EXCEPT ![k] = NoLease]
<1>1. \A r \in d.lease[k].batch :
          d.shared[ImageOf[d.lease[k].item][r]][k] \in {"running", "queued"}
    BY DEF Intact, Work
<1>2. Led(d, k) \in Images /\ d.shared[Led(d, k)][k] \in {"running", "queued"}
    BY <1>1, LedImage
<1>3. {"running", "queued", "absent"} \cap Final = {}
    BY DEF FailedWork, Final
<1>4. CASE Delivered(d, k, result) = Stored(d, k)
    <2>1. Kept(d, Stored(d, k)) /\ Apart(d, Stored(d, k), k)
        BY <1>1, <1>3, StoredStep DEF Kept, Apart, InBatch
    <2> QED BY <1>4, <2>1, StoredStep DEF Free
<1>5. ASSUME NEW word \in FailedWork
      PROVE  LET e == Marked(d, k, word) IN
             /\ e \in Databases /\ Kept(d, e) /\ Apart(d, e, k)
             /\ e.lease = [d.lease EXCEPT ![k] = NoLease]
    BY <1>2, <1>3, MarkedStep DEF Kept, Apart, Free
<1>6. ASSUME NEW word \in FailedWork,
             Delivered(d, k, result) = Propagated(Marked(d, k, word), Led(d, k), k)
      PROVE  /\ Delivered(d, k, result) \in Databases
             /\ Kept(d, Delivered(d, k, result))
             /\ Apart(d, Delivered(d, k, result), k)
             /\ Delivered(d, k, result).lease = [d.lease EXCEPT ![k] = NoLease]
    BY <1>5, <1>6, PropagatedStep DEF Kept, Apart
<1>7. ASSUME NEW word \in FailedWork, k = "gpu",
             Delivered(d, k, result) = RestartedOnCpu(Marked(d, k, word), Led(d, k))
      PROVE  /\ Delivered(d, k, result) \in Databases
             /\ Kept(d, Delivered(d, k, result))
             /\ Apart(d, Delivered(d, k, result), k)
             /\ Delivered(d, k, result).lease = [d.lease EXCEPT ![k] = NoLease]
    <2> DEFINE e == Marked(d, k, word)
               f == RestartedOnCpu(e, Led(d, k))
    <2>1. e \in Databases /\ Kept(d, e) /\ Apart(d, e, k)
          /\ e.lease = [d.lease EXCEPT ![k] = NoLease]
        BY <1>5
    <2>2. f \in Databases /\ Grown(e, f, "cpu") /\ f.lease = e.lease
        BY <2>1, RestartedStep
    <2> HIDE DEF f, e
    <2>3. Kept(d, f) /\ Apart(d, f, k)
        BY <1>3, <2>1, <2>2 DEF Kept, Apart, Grown
    <2> QED BY <1>7, <2>1, <2>2, <2>3 DEF f, e
<1> QED BY <1>4, <1>6, <1>7, DeliveredCases

\* Passes that lose nothing compose.
LEMMA KeptChain ==
    ASSUME NEW a, NEW b, NEW c, Kept(a, b), Kept(b, c)
    PROVE  Kept(a, c)
BY DEF Kept

\* Adding loses nothing.
LEMMA GrownKept ==
    ASSUME NEW d, NEW e, NEW k, Grown(d, e, k)
    PROVE  Kept(d, e)
<1>1. "absent" \notin Final
    BY DEF Final, FailedWork
<1> QED BY <1>1 DEF Grown, Kept

\* What holds of the tables at the start of a scan whose results can be committed.
Committable(d) ==
    /\ d \in Databases /\ LeasesSound(d)
    /\ \A k \in Runtimes : fut[k] \in Results => Leased(d, k) /\ Intact(d, k)

\* One slot: its result, if it has one, is taken.
LEMMA TakenStep ==
    ASSUME NEW k \in Runtimes, NEW d \in Databases, LeasesSound(d),
           fut[k] \in Results => Leased(d, k) /\ Intact(d, k),
           NEW e \in Taken(k, {d})
    PROVE  /\ e \in Databases /\ Kept(d, e) /\ Apart(d, e, k) /\ LeasesSound(e)
           /\ e.lease = IF fut[k] \in Results THEN [d.lease EXCEPT ![k] = NoLease]
                        ELSE d.lease
<1>1. e = IF fut[k] \in Results THEN Delivered(d, k, fut[k]) ELSE d
    BY DEF Taken
<1>2. CASE fut[k] \in Results
    <2>1. /\ e \in Databases /\ Kept(d, e) /\ Apart(d, e, k)
          /\ e.lease = [d.lease EXCEPT ![k] = NoLease]
        BY <1>1, <1>2, DeliveredStep
    <2>2. LeasesSound(e)
        BY <2>1, Fields DEF LeasesSound, Leased, NoLease
    <2> QED BY <1>2, <2>1, <2>2
<1>3. CASE fut[k] \notin Results
    BY <1>1, <1>3 DEF Kept, Apart
<1> QED BY <1>2, <1>3

\* Both results, one after the other.
LEMMA BothTaken ==
    ASSUME Committable(db), NEW p \in Runtimes, NEW q \in Runtimes, p # q,
           NEW e \in Taken(p, Taken(q, {db}))
    PROVE  /\ e \in Databases /\ Kept(db, e) /\ LeasesSound(e)
           /\ \A k \in Runtimes : e.lease[k] = IF fut[k] \in Results THEN NoLease
                                               ELSE db.lease[k]
<1>1. PICK c \in Taken(q, {db}) : e \in Taken(p, {c})
    BY DEF Taken
<1>2. /\ c \in Databases /\ Kept(db, c) /\ Apart(db, c, q) /\ LeasesSound(c)
      /\ c.lease = IF fut[q] \in Results THEN [db.lease EXCEPT ![q] = NoLease] ELSE db.lease
    BY TakenStep DEF Committable
<1>3. c.lease[p] = db.lease[p]
    BY <1>2
<1>4. fut[p] \in Results => Leased(c, p) /\ Intact(c, p)
    <2> SUFFICES ASSUME fut[p] \in Results PROVE Leased(c, p) /\ Intact(c, p)
        OBVIOUS
    <2>1. Leased(db, p) /\ Intact(db, p) /\ LeasesSound(db) /\ db \in Databases
        BY DEF Committable
    <2>2. Leased(c, p)
        BY <1>3, <2>1 DEF Leased
    <2> DEFINE l == db.lease[p]
    <2>3. \A r \in l.batch : ImageOf[l.item][r] \in Images
        BY <2>1, LeasedRecord, ShownImages DEF LeasesSound
    <2>4. \A r \in l.batch :
              db.shared[ImageOf[l.item][r]][p] =
                  IF r = Lead(l.batch) THEN "running" ELSE "queued"
        BY <2>1 DEF Intact, Work
    <2> HIDE DEF l
    <2>5. \A r \in l.batch : c.shared[ImageOf[l.item][r]][p] = db.shared[ImageOf[l.item][r]][p]
        BY <1>2, <2>3, <2>4 DEF Apart
    <2>6. Intact(c, p)
        BY <1>3, <2>4, <2>5 DEF Intact, Work, l
    <2> QED BY <2>2, <2>6
<1>5. /\ e \in Databases /\ Kept(c, e) /\ LeasesSound(e)
      /\ e.lease = IF fut[p] \in Results THEN [c.lease EXCEPT ![p] = NoLease] ELSE c.lease
    BY <1>1, <1>2, <1>4, TakenStep
<1>6. Runtimes = {p, q}
    BY DEF Runtimes
<1>7. Kept(db, e)
    BY <1>2, <1>5, KeptChain
<1>8. db.lease \in [Runtimes -> Leases \cup {NoLease}]
    BY Fields DEF Committable
<1>9. \A k \in Runtimes : e.lease[k] = IF fut[k] \in Results THEN NoLease ELSE db.lease[k]
    BY <1>2, <1>5, <1>6, <1>8
<1> QED BY <1>5, <1>7, <1>9

\* In whichever order the results come.
LEMMA CollectedStep ==
    ASSUME Committable(db), NEW e \in Collected
    PROVE  /\ e \in Databases /\ Kept(db, e) /\ LeasesSound(e)
           /\ \A k \in Runtimes : e.lease[k] = IF fut[k] \in Results THEN NoLease
                                               ELSE db.lease[k]
<1>1. "gpu" \in Runtimes /\ "cpu" \in Runtimes
    BY DEF Runtimes
<1>2. e \in Taken("gpu", Taken("cpu", {db})) \/ e \in Taken("cpu", Taken("gpu", {db}))
    BY DEF Collected
<1> QED BY <1>1, <1>2, BothTaken

\* And through the passes up to the evaluation.
LEMMA AdvancedStep ==
    ASSUME Committable(db), NEW e \in Advanced
    PROVE  /\ e \in Databases /\ Kept(db, e) /\ LeasesSound(e)
           /\ \A k \in Runtimes : e.lease[k] = IF fut[k] \in Results THEN NoLease
                                               ELSE db.lease[k]
<1>1. PICK c \in Collected : e = Consumed(Refreshed(Prepared(Controlled(c))))
    BY DEF Advanced, Through
<1> DEFINE c1 == Controlled(c) c2 == Prepared(c1) c3 == Refreshed(c2)
<1>2. /\ c \in Databases /\ Kept(db, c) /\ LeasesSound(c)
      /\ \A k \in Runtimes : c.lease[k] = IF fut[k] \in Results THEN NoLease ELSE db.lease[k]
    BY CollectedStep
<1>3. c1 \in Databases /\ Kept(c, c1) /\ c1.lease = c.lease
    BY <1>2, ControlledStep DEF Kept
<1> HIDE DEF c1
<1>4. c2 \in Databases /\ Kept(c1, c2) /\ c2.lease = c.lease
    BY <1>3, PreparedStep, GrownKept
<1> HIDE DEF c2
<1>5. c3 \in Databases /\ Kept(c2, c3) /\ c3.lease = c.lease
    BY <1>4, RefreshedStep
<1> HIDE DEF c3
<1>6. Consumed(c3) \in Databases /\ Kept(c3, Consumed(c3)) /\ Consumed(c3).lease = c.lease
    BY <1>5, ConsumedStep DEF Kept
<1>7. e = Consumed(c3)
    BY <1>1 DEF c1, c2, c3
<1>8. Kept(db, e)
    BY <1>2, <1>3, <1>4, <1>5, <1>6, <1>7, KeptChain
<1> QED BY <1>2, <1>6, <1>7, <1>8 DEF LeasesSound, Leased

-------------------------------------------------------------------------------
(* Grants. *)

\* What a row of the candidate query says.
LEMMA RowIs ==
    ASSUME NEW d, NEW k, NEW i, NEW r, <<i, r>> \in Rows(d, k)
    PROVE  /\ i \in Items /\ r \in Roles /\ r \in Shows(i)
           /\ d.cons[i][r][k] = "waiting" /\ Work(d, i, r, k) = "queued"
           /\ d.item[i] = "ready" /\ d.job[JobOf[i]] = "active"
BY DEF Rows

\* A grant touches only queued work and a free slot.
LEMMA GrantsStep ==
    ASSUME NEW d \in Databases, LeasesSound(d), NEW k \in Runtimes, NEW e \in Grants(d, k)
    PROVE  /\ e \in Databases /\ Kept(d, e) /\ LeasesSound(e)
           /\ \A q \in Runtimes \ {k} : e.lease[q] = d.lease[q]
           /\ Leased(d, k) => e.lease[k] = d.lease[k]
           /\ Leased(e, k) => Leased(d, k) \/ e.lease[k].mine
<1>1. CASE e = d
    BY <1>1 DEF Kept
<1>2. CASE ~Leased(d, k) /\ \E p \in Rows(d, k), b \in (SUBSET Roles) \ {{}} :
                                b \in Batches(d, k, p[1]) /\ e = Granted(d, k, p[1], b)
    <2>1. PICK p \in Rows(d, k), b \in (SUBSET Roles) \ {{}} :
                   b \in Batches(d, k, p[1]) /\ e = Granted(d, k, p[1], b)
        BY <1>2
    <2> DEFINE i == p[1]
               led == ImageOf[i][Lead(b)]
               l == [held |-> TRUE, item |-> i, batch |-> b, mine |-> TRUE]
    <2>2. i \in Items /\ \A r \in b : <<i, r>> \in Rows(d, k)
        BY <2>1 DEF Rows, Batches
    <2>3. Lead(b) \in b
        BY DEF Lead, Roles
    <2>4. b \subseteq Shows(i)
        BY <2>2 DEF Rows
    <2>5. led \in Images /\ d.shared[led][k] = "queued"
        <3>1. \A r \in b : d.shared[ImageOf[i][r]][k] = "queued"
            <4> HIDE DEF i
            <4>1. SUFFICES ASSUME NEW r \in b
                           PROVE  d.shared[ImageOf[i][r]][k] = "queued"
                OBVIOUS
            <4>2. <<i, r>> \in Rows(d, k)
                BY <2>2, <4>1
            <4>3. Work(d, i, r, k) = "queued"
                BY <4>2, RowIs
            <4> QED BY <4>3 DEF Work
        <3>2. \A r \in b : ImageOf[i][r] \in Images
            BY <2>2, <2>4, ShownImages
        <3> QED BY <2>3, <3>1, <3>2
    <2>6. l \in Leases
        BY <2>2 DEF Leases
    <2> HIDE DEF i, led
    <2> DEFINE le == [d.lease EXCEPT ![k] = l]
               it == [d.item EXCEPT ![i] = "running"]
               s == [d.shared EXCEPT ![led][k] = "running"]
               g == e.gen
    <2>7. le \in [Runtimes -> Leases \cup {NoLease}]
        BY <2>6, Fields
    <2>8. it \in [Items -> ItemStatus]
        BY Fields DEF ItemStatus
    <2>9. s \in WorkTable
        BY <2>5, Fields, WorkWritten DEF WorkStatus
    <2>10. e = [d EXCEPT !.lease = le, !.item = it, !.shared = s, !.gen = g]
        BY <2>1 DEF Granted, Databases, i, led
    <2>11. g \in [Items -> GenStatus]
        BY <2>1, Fields DEF Granted, Databases, GenStatus
    <2>12. \A m \in Images, q \in Runtimes :
               s[m][q] = d.shared[m][q] \/ d.shared[m][q] = "queued"
        BY <2>5, Fields DEF WorkTable
    <2>13. le[k] = l /\ \A q \in Runtimes \ {k} : le[q] = d.lease[q]
        BY Fields
    <2> HIDE DEF le, it, s, g
    <2>14. e \in Databases /\ e.lease = le /\ e.shared = s
        BY <2>7, <2>8, <2>9, <2>10, <2>11 DEF Databases, WorkTable
    <2>15. Kept(d, e)
        BY <2>12, <2>14 DEF Kept, Final, FailedWork
    <2>16. LeasesSound(e)
        BY <2>4, <2>13, <2>14 DEF LeasesSound, Leased
    <2> QED BY <1>2, <2>13, <2>14, <2>15, <2>16
<1>3. SlotIsFree(d, k) <=> ~Leased(d, k)
    BY DEF SlotIsFree
<1>4. e \in {d} \/ (~Leased(d, k) /\ \E pick \in {p[1] : p \in Rows(d, k)} \X ((SUBSET Roles) \ {{}}) :
                         pick[2] \in Batches(d, k, pick[1]) /\ e = Granted(d, k, pick[1], pick[2]))
    BY <1>3 DEF Grants
<1> QED BY <1>1, <1>2, <1>4

-------------------------------------------------------------------------------
(* The steps. *)

\* Work in hand is this process's own, under a lease.
FuturesMine == \A k \in Runtimes : fut[k] # "none" => Leased(db, k) /\ db.lease[k].mine

Others ==
    /\ up \in BOOLEAN
    /\ epoch \in 1 .. MaxEpoch
    /\ avail \in Compositions
    /\ runner \in {"alive", "dead"}
    /\ fut \in [Runtimes -> Results \cup {"none", "working"}]

OcrInv == db \in Databases /\ Others /\ FuturesMine /\ LeasesSound(db)

\* A step that touches no lease and no shared work.
LEMMA RowsStep ==
    ASSUME OcrInv, db' \in Databases, db'.lease = db.lease, db'.shared = db.shared,
           UNCHANGED << procVars, fut >>
    PROVE  OcrInv' /\ Kept(db, db')
BY DEF OcrInv, Others, FuturesMine, LeasesSound, Leased, Kept, procVars

\* The operator changes no work and no lease.
LEMMA OperatorStep ==
    ASSUME OcrInv, Operator
    PROVE  OcrInv' /\ Kept(db, db')
<1> PICK j \in Jobs : StartJob(j) \/ Pause(j) \/ Resume(j) \/ Cancel(j)
    BY DEF Operator
<1>0. db \in Databases
    BY DEF OcrInv
<1>1. UNCHANGED << procVars, fut >>
    BY DEF StartJob, Pause, Resume, Cancel
<1>2. {"active", "pause_requested", "cancel_requested"} \subseteq JobStatus
      /\ "ready" \in ItemStatus /\ "waiting" \in ConsumerStatus
    BY DEF JobStatus, ControlledJob, ItemStatus, ConsumerStatus, ActiveConsumer
<1>3. CASE StartJob(j)
    <2> DEFINE it == [i \in Items |-> IF JobOf[i] = j THEN "ready" ELSE db.item[i]]
               jb == [db.job EXCEPT ![j] = "active"]
    <2>1. it \in [Items -> ItemStatus] /\ jb \in [Jobs -> JobStatus]
        BY <1>0, <1>2, Fields
    <2>2. db' = [db EXCEPT !.job = jb, !.item = it]
        BY <1>0, <1>3 DEF StartJob, Databases
    <2> HIDE DEF it, jb
    <2>3. db' \in Databases /\ db'.lease = db.lease /\ db'.shared = db.shared
        BY <1>0, <2>1, <2>2 DEF Databases
    <2> QED BY <1>1, <2>3, RowsStep
<1>4. CASE Resume(j)
    <2> DEFINE c == Moved(db.cons, ItemsOf(j), {"paused"}, "waiting")
               jb == [db.job EXCEPT ![j] = "active"]
    <2>1. c \in ConsumerTable /\ jb \in [Jobs -> JobStatus]
        BY <1>0, <1>2, Fields, MovedTyped DEF ConsumerTable
    <2>2. db' = [db EXCEPT !.job = jb, !.cons = c]
        BY <1>0, <1>4 DEF Resume, Databases
    <2> HIDE DEF c, jb
    <2>3. db' \in Databases /\ db'.lease = db.lease /\ db'.shared = db.shared
        BY <1>0, <2>1, <2>2 DEF Databases, ConsumerTable
    <2> QED BY <1>1, <2>3, RowsStep
<1>5. CASE Pause(j) \/ Cancel(j)
    <2>1. PICK s \in JobStatus : db' = [db EXCEPT !.job[j] = s]
        BY <1>2, <1>5 DEF Pause, Cancel
    <2>2. db' \in Databases /\ db'.lease = db.lease /\ db'.shared = db.shared
        BY <1>0, <2>1 DEF Databases
    <2> QED BY <1>1, <2>2, RowsStep
<1> QED BY <1>3, <1>4, <1>5

\* A whole scan.
LEMMA ScanStep ==
    ASSUME OcrInv, Scan
    PROVE  OcrInv' /\ Kept(db, db')
<1>1. Committable(db)
    <2>1. \A k \in Runtimes : fut[k] \in Results => Leased(db, k)
        BY DEF OcrInv, FuturesMine, Results
    <2>2. \A k \in Runtimes : fut[k] \in Results => Intact(db, k)
        BY DEF Scan, Uncommittable
    <2> QED BY <2>1, <2>2 DEF Committable, OcrInv
<1>2. PICK d \in Advanced : \E verdict \in [Recognized(d) -> Verdicts] :
          \E g \in Grants(Finalized(d, verdict), "gpu") :
          \E h \in Grants(g, "cpu") :
            /\ db' = Aggregated(h)
            /\ fut' = [k \in Runtimes |-> Submitted(k, h)]
    BY DEF Scan
<1>2a. PICK verdict \in [Recognized(d) -> Verdicts] :
          \E g \in Grants(Finalized(d, verdict), "gpu") :
          \E h \in Grants(g, "cpu") :
            /\ db' = Aggregated(h)
            /\ fut' = [k \in Runtimes |-> Submitted(k, h)]
    BY <1>2
<1> DEFINE f == Finalized(d, verdict)
<1>3. PICK g \in Grants(f, "gpu") : \E h \in Grants(g, "cpu") :
            /\ db' = Aggregated(h)
            /\ fut' = [k \in Runtimes |-> Submitted(k, h)]
    BY <1>2a
<1>4. PICK h \in Grants(g, "cpu") :
            /\ db' = Aggregated(h)
            /\ fut' = [k \in Runtimes |-> Submitted(k, h)]
    BY <1>3
<1>5. /\ d \in Databases /\ Kept(db, d) /\ LeasesSound(d)
      /\ \A k \in Runtimes : d.lease[k] = IF fut[k] \in Results THEN NoLease ELSE db.lease[k]
    BY <1>1, AdvancedStep
<1>6. f \in Databases /\ Kept(d, f) /\ f.lease = d.lease /\ LeasesSound(f)
    BY <1>5, FinalizedStep DEF Kept, LeasesSound, Leased
<1> HIDE DEF f
<1>7. "gpu" \in Runtimes /\ "cpu" \in Runtimes /\ Runtimes = {"gpu", "cpu"} /\ "gpu" # "cpu"
    BY DEF Runtimes
<1>8. /\ g \in Databases /\ Kept(f, g) /\ LeasesSound(g)
      /\ g.lease["cpu"] = f.lease["cpu"]
      /\ Leased(f, "gpu") => g.lease["gpu"] = f.lease["gpu"]
      /\ Leased(g, "gpu") => Leased(f, "gpu") \/ g.lease["gpu"].mine
    BY <1>6, <1>7, GrantsStep
<1>9. /\ h \in Databases /\ Kept(g, h) /\ LeasesSound(h)
      /\ h.lease["gpu"] = g.lease["gpu"]
      /\ Leased(g, "cpu") => h.lease["cpu"] = g.lease["cpu"]
      /\ Leased(h, "cpu") => Leased(g, "cpu") \/ h.lease["cpu"].mine
    BY <1>7, <1>8, GrantsStep
<1>10. \A k \in Runtimes : Leased(h, k) =>
           h.lease[k].mine \/ (h.lease[k] = db.lease[k] /\ Leased(db, k) /\ fut[k] \notin Results)
    <2>1. ~NoLease.held
        BY DEF NoLease
    <2>2. \A k \in Runtimes : Leased(h, k) => h.lease[k].mine \/ (Leased(f, k) /\ h.lease[k] = f.lease[k])
        BY <1>7, <1>8, <1>9 DEF Leased
    <2> QED BY <1>5, <1>6, <2>1, <2>2 DEF Leased
<1>11. db' \in Databases /\ Kept(h, db') /\ db'.lease = h.lease
    BY <1>4, <1>9, AggregatedStep DEF Kept
<1>12. Kept(db, db')
    BY <1>5, <1>6, <1>8, <1>9, <1>11, KeptChain
<1>13. LeasesSound(db)'
    BY <1>9, <1>11 DEF LeasesSound, Leased
<1>14. Others'
    <2>1. \A k \in Runtimes : Submitted(k, h) \in Results \cup {"none", "working"}
        BY DEF Submitted, OcrInv, Others
    <2> QED BY <1>4, <2>1 DEF Scan, OcrInv, Others, procVars
<1>15. FuturesMine'
    <2> SUFFICES ASSUME NEW k \in Runtimes, fut'[k] # "none"
                 PROVE  Leased(db', k) /\ db'.lease[k].mine
        BY DEF FuturesMine, Leased
    <2>1. Submitted(k, h) # "none"
        BY <1>4
    <2>2. Leased(h, k) /\ (~Leased(db, k) \/ fut[k] \in Results \/ fut[k] # "none")
        BY <2>1 DEF Submitted
    <2>3. h.lease[k].mine
        BY <1>10, <2>2 DEF OcrInv, FuturesMine
    <2> QED BY <1>11, <2>2, <2>3 DEF Leased
<1> QED BY <1>11, <1>12, <1>13, <1>14, <1>15 DEF OcrInv

\* An attempt that is given up only puts running work back.
LEMMA AbandonedStep ==
    ASSUME NEW d \in Databases, LeasesSound(d), NEW k \in Runtimes
    PROVE  /\ Abandoned(d, k) \in Databases /\ Kept(d, Abandoned(d, k))
           /\ Abandoned(d, k).lease = [d.lease EXCEPT ![k] = NoLease] \/ Abandoned(d, k) = d
           /\ LeasesSound(Abandoned(d, k))
<1>1. CASE ~Leased(d, k)
    <2>1. Abandoned(d, k) = d
        BY <1>1 DEF Abandoned, Leased
    <2> QED BY <2>1 DEF Kept
<1>2. CASE Leased(d, k)
    <2> DEFINE e == Abandoned(d, k)
               l == d.lease[k]
               led == ImageOf[l.item][Lead(l.batch)]
               le == [d.lease EXCEPT ![k] = NoLease]
               it == [d.item EXCEPT ![l.item] = IF @ = "running" THEN "ready" ELSE @]
               s == [d.shared EXCEPT ![led][k] = IF @ = "running" THEN "queued" ELSE @]
    <2>1. led \in Images /\ l.item \in Items
        BY <1>2, LeasedRecord, ShownImages DEF LeasesSound
    <2>2. le \in [Runtimes -> Leases \cup {NoLease}]
        BY Fields
    <2>3. it \in [Items -> ItemStatus]
        BY Fields DEF ItemStatus
    <2>4. s \in WorkTable
        <3> DEFINE w == IF d.shared[led][k] = "running" THEN "queued" ELSE d.shared[led][k]
        <3>1. s = [d.shared EXCEPT ![led][k] = w]
            OBVIOUS
        <3> HIDE DEF led, s
        <3>2. w \in WorkStatus
            <4>1. d.shared \in WorkTable
                BY Fields
            <4>2. d.shared[led][k] \in WorkStatus
                BY <2>1, <4>1 DEF WorkTable
            <4> QED BY <4>2 DEF WorkStatus
        <3> HIDE DEF w
        <3>3. d.shared \in WorkTable
            BY Fields
        <3> QED BY <2>1, <3>1, <3>2, <3>3, WorkWritten
    <2>5. e = [d EXCEPT !.lease = le, !.item = it, !.shared = s]
        BY <1>2, SMTT(40) DEF Abandoned, Released, Databases, Leased
    <2>6. \A m \in Images, q \in Runtimes :
              s[m][q] = d.shared[m][q] \/ d.shared[m][q] = "running"
        BY <2>1, Fields DEF WorkTable
    <2>7. le[k] = NoLease /\ \A q \in Runtimes \ {k} : le[q] = d.lease[q]
        BY Fields
    <2>8. e \in Databases /\ e.lease = le /\ e.shared = s
        <3> HIDE DEF le, it, s, e
        <3> QED BY <2>2, <2>3, <2>4, <2>5 DEF Databases, WorkTable
    <2> HIDE DEF it, s, e
    <2>9. Kept(d, e)
        BY <2>6, <2>8 DEF Kept, Final, FailedWork
    <2>10. e.lease = [d.lease EXCEPT ![k] = NoLease]
        BY <2>8
    <2> HIDE DEF le
    <2>11. LeasesSound(e)
        BY <2>7, <2>8 DEF LeasesSound, Leased, NoLease
    <2> QED BY <2>8, <2>9, <2>10, <2>11 DEF e
<1> QED BY <1>1, <1>2

\* The process and the executor.
LEMMA ProcessStep ==
    ASSUME OcrInv, \/ ScanFails \/ Stop \/ Crash \/ Boot
                   \/ \E k \in Runtimes : Recover(k) \/ Execute(k)
    PROVE  OcrInv' /\ Kept(db, db')
<1>0. db \in Databases /\ LeasesSound(db)
    BY DEF OcrInv
<1>1. CASE ScanFails \/ Boot
    <2>1. UNCHANGED << db, fut >>
        BY <1>1 DEF ScanFails, Boot
    <2>2. Others'
        <3>1. CASE ScanFails
            BY <3>1 DEF ScanFails, OcrInv, Others
        <3>2. CASE Boot
            BY <3>2, ConstantsAssumption DEF Boot, OcrInv, Others
        <3> QED BY <1>1, <3>1, <3>2
    <2> QED BY <2>1, <2>2 DEF OcrInv, FuturesMine, LeasesSound, Leased, Kept
<1>2. ASSUME NEW k \in Runtimes, Execute(k)
      PROVE  OcrInv' /\ Kept(db, db')
    <2>1. UNCHANGED << db, procVars >> /\ fut[k] = "working"
          /\ \E result \in Results : fut' = [fut EXCEPT ![k] = result]
        BY <1>2 DEF Execute
    <2>2. Others'
        BY <2>1 DEF OcrInv, Others, procVars
    <2>3. FuturesMine'
        BY <2>1 DEF OcrInv, Others, FuturesMine, Leased
    <2> QED BY <2>1, <2>2, <2>3 DEF OcrInv, LeasesSound, Leased, Kept
<1>3. ASSUME NEW k \in Runtimes, Recover(k)
      PROVE  OcrInv' /\ Kept(db, db')
    <2>1. /\ Leased(db, k) /\ ~db.lease[k].mine /\ UNCHANGED << procVars, fut >>
          /\ db' = Abandoned(db, k)
        BY <1>3 DEF Recover
    <2>2. /\ db' \in Databases /\ Kept(db, db') /\ LeasesSound(db')
          /\ \A q \in Runtimes \ {k} : db'.lease[q] = db.lease[q]
        <3> DEFINE e == Abandoned(db, k)
        <3>1. /\ e \in Databases /\ Kept(db, e) /\ LeasesSound(e)
              /\ e.lease = [db.lease EXCEPT ![k] = NoLease] \/ e = db
            BY <1>0, AbandonedStep
        <3>2. db' = e
            BY <2>1
        <3> HIDE DEF e
        <3> QED BY <1>0, <3>1, <3>2, Fields DEF LeasesSound, Leased
    <2>3. FuturesMine'
        BY <2>1, <2>2 DEF OcrInv, FuturesMine, Leased
    <2> QED BY <2>1, <2>2, <2>3 DEF OcrInv, Others, procVars, LeasesSound, Leased
<1>4. CASE Stop
    <2> DEFINE give(d, k) == IF Leased(d, k) /\ d.lease[k].mine THEN Abandoned(d, k) ELSE d
    <2>1. \A d \in Databases, k \in Runtimes : LeasesSound(d) =>
              give(d, k) \in Databases /\ Kept(d, give(d, k)) /\ LeasesSound(give(d, k))
        <3> TAKE d \in Databases, k \in Runtimes
        <3> HAVE LeasesSound(d)
        <3>1. CASE give(d, k) = d
            BY <3>1 DEF Kept
        <3>2. CASE give(d, k) = Abandoned(d, k)
            BY <3>2, AbandonedStep
        <3> QED BY <3>1, <3>2
    <2>2. db' = give(give(db, "gpu"), "cpu")
        BY <1>4 DEF Stop
    <2> HIDE DEF give
    <2>3. db' \in Databases /\ Kept(db, db') /\ LeasesSound(db')
        BY <1>0, <2>1, <2>2, KeptChain DEF Runtimes
    <2>4. Others' /\ FuturesMine'
        BY <1>4 DEF Stop, OcrInv, Others, FuturesMine, Idle
    <2> QED BY <2>3, <2>4 DEF OcrInv, LeasesSound, Leased
<1>5. CASE Crash
    <2> DEFINE le == [k \in Runtimes |->
                        IF db.lease[k].held THEN [db.lease[k] EXCEPT !.mine = FALSE]
                        ELSE db.lease[k]]
    <2>1. le \in [Runtimes -> Leases \cup {NoLease}]
        <3>1. \A k \in Runtimes : le[k] \in Leases \cup {NoLease}
            <4> TAKE k \in Runtimes
            <4>1. CASE db.lease[k] \in Leases
                BY <4>1 DEF Leases
            <4>2. CASE db.lease[k] = NoLease
                BY <4>2 DEF NoLease
            <4> QED BY <1>0, <4>1, <4>2, Fields
        <3> QED BY <3>1
    <2>2. \A k \in Runtimes : le[k].held =>
              db.lease[k].held /\ le[k].item = db.lease[k].item /\ le[k].batch = db.lease[k].batch
        <3> TAKE k \in Runtimes
        <3>1. db.lease[k] \in Leases \/ db.lease[k] = NoLease
            BY <1>0, Fields
        <3> QED BY <3>1 DEF Leases, NoLease
    <2>3. db' = [db EXCEPT !.lease = le]
        BY <1>0, <1>5 DEF Crash, Databases
    <2> HIDE DEF le
    <2>4. db' \in Databases /\ db'.shared = db.shared /\ db'.lease = le
        BY <1>0, <2>1, <2>3 DEF Databases
    <2>5. LeasesSound(db')
        BY <1>0, <2>2, <2>4 DEF LeasesSound, Leased
    <2>6. Others' /\ FuturesMine'
        BY <1>5 DEF Crash, OcrInv, Others, FuturesMine, Idle
    <2> QED BY <2>4, <2>5, <2>6 DEF OcrInv, LeasesSound, Leased, Kept
<1> QED BY <1>1, <1>2, <1>3, <1>4, <1>5

-------------------------------------------------------------------------------
(* The first theorems: types and artifacts. *)

\* The types hold at first.
LEMMA InitOcr == Init => OcrInv
<1> SUFFICES ASSUME Init PROVE OcrInv
    OBVIOUS
<1>1. db \in Databases
    <2>1. /\ [j \in Jobs |-> "absent"] \in [Jobs -> JobStatus]
          /\ [i \in Items |-> "absent"] \in [Items -> ItemStatus]
          /\ [i \in Items |-> {}] \in [Items -> SUBSET Roles]
          /\ [i \in Items |-> "none"] \in [Items -> GenStatus]
          /\ [i \in Items |-> "cpu"] \in [Items -> Runtimes]
          /\ [i \in Items |-> [r \in Roles |-> "none"]]
                \in [Items -> [Roles -> Runtimes \cup {"none"}]]
        BY DEF JobStatus, ItemStatus, GenStatus, Runtimes
    <2>2. /\ [m \in Images |-> [k \in Runtimes |-> "absent"]] \in WorkTable
          /\ [i \in Items |-> [r \in Roles |-> [k \in Runtimes |-> "none"]]] \in ConsumerTable
        BY DEF WorkTable, WorkStatus, ConsumerTable, ConsumerStatus
    <2>3. [k \in Runtimes |-> NoLease] \in [Runtimes -> Leases \cup {NoLease}]
        OBVIOUS
    <2> QED BY <2>1, <2>2, <2>3 DEF Init, Databases, WorkTable, ConsumerTable
<1>2. Others
    BY ConstantsAssumption DEF Init, Others
<1>3. FuturesMine
    BY DEF Init, FuturesMine
<1>4. LeasesSound(db)
    BY DEF Init, LeasesSound, Leased, NoLease
<1> QED BY <1>1, <1>2, <1>3, <1>4 DEF OcrInv

\* Every step preserves them, and loses no artifact.
LEMMA NextOcr == OcrInv /\ [Next]_vars => OcrInv' /\ (Kept(db, db') \/ UNCHANGED vars)
<1> SUFFICES ASSUME OcrInv, [Next]_vars PROVE OcrInv' /\ (Kept(db, db') \/ UNCHANGED vars)
    OBVIOUS
<1>1. CASE UNCHANGED vars
    BY <1>1 DEF vars, procVars, OcrInv, Others, FuturesMine, LeasesSound, Leased
<1>2. CASE Next
    BY <1>2, OperatorStep, ScanStep, ProcessStep DEF Next
<1> QED BY <1>1, <1>2

\* The tables, the process and the work in hand have their types.
THEOREM VehicleTyped == Spec => []TypeOK
<1>1. OcrInv => TypeOK
    BY DEF OcrInv, Others, Databases, TypeOK
<1> QED BY <1>1, InitOcr, NextOcr, PTL DEF Spec

\* For any number of audits, vehicles, images and lives of the process, whatever a scan
\* collects, restarts and registers in one transaction: the artifact of an image on a
\* runtime, once stored or failed, is neither replaced nor produced again.
THEOREM ArtifactOnce == Spec => ArtifactStays
<1>1. OcrInv /\ [Next]_vars =>
        [\A m \in Images, k \in Runtimes :
            db.shared[m][k] \in {"succeeded"} \cup FailedWork =>
              db'.shared[m][k] = db.shared[m][k]]_vars
    BY NextOcr DEF Kept, Final
<1> QED BY <1>1, InitOcr, NextOcr, PTL DEF Spec, ArtifactStays

-------------------------------------------------------------------------------
(* Vehicles, leases and shared work, pass by pass. *)

AtWork == {"active"} \cup ControlledJob

\* A vehicle counts on the work of its own runtime only.
Affine(d) ==
    \A i \in Items, r \in Roles, k \in Runtimes :
        d.cons[i][r][k] \in ActiveConsumer => k = d.rt[i] /\ d.gen[i] # "none"

\* The leased vehicle runs in an audit at work, awaits each image of its batch, and has
\* nothing to consume until the result is in.
ServedAt(d, k) ==
    LET l == d.lease[k] IN
    /\ Intact(d, k)
    /\ d.item[l.item] = "running"
    /\ \A r \in l.batch : d.cons[l.item][r][k] = "waiting"
    /\ d.job[JobOf[l.item]] \in AtWork
    /\ \A r \in Shows(l.item) : d.cons[l.item][r][k] = "waiting" =>
                                   Work(d, l.item, r, k) # "succeeded"
Served(d) == \A k \in Runtimes : Leased(d, k) => ServedAt(d, k)

\* Nothing is produced without a lease.
Producing(d) ==
    \A m \in Images, k \in Runtimes : d.shared[m][k] = "running" =>
        Leased(d, k) /\ ImageOf[d.lease[k].item][Lead(d.lease[k].batch)] = m

RunsAtWork(d) == \A i \in Items : d.item[i] = "running" => d.job[JobOf[i]] \in AtWork

Orderly(d) ==
    /\ d \in Databases /\ LeasesSound(d)
    /\ Affine(d) /\ Served(d) /\ Producing(d) /\ RunsAtWork(d)

\* The same, of vehicle i and its batch b.
Serving(d, k, i, b) ==
    /\ d.item[i] = "running" /\ d.job[JobOf[i]] \in AtWork
    /\ \A r \in b : /\ d.cons[i][r][k] = "waiting"
                     /\ d.shared[ImageOf[i][r]][k] =
                          (IF r = Lead(b) THEN "running" ELSE "queued")
    /\ \A r \in Shows(i) : d.cons[i][r][k] = "waiting" =>
                               d.shared[ImageOf[i][r]][k] # "succeeded"

LEMMA ServedIs ==
    ASSUME NEW d, NEW k
    PROVE  ServedAt(d, k) <=> Serving(d, k, d.lease[k].item, d.lease[k].batch)
BY DEF ServedAt, Serving, Intact, Work

LEMMA ServingSame ==
    ASSUME NEW d, NEW e, e.job = d.job, e.item = d.item, e.cons = d.cons,
           e.shared = d.shared, NEW k, NEW i, NEW b, Serving(d, k, i, b)
    PROVE  Serving(e, k, i, b)
BY DEF Serving

LEMMA LeasedOrder ==
    ASSUME NEW d, Orderly(d), NEW k \in Runtimes, Leased(d, k),
           NEW i, i = d.lease[k].item, NEW b, b = d.lease[k].batch
    PROVE  /\ i \in Items /\ b \subseteq Roles /\ b \subseteq Shows(i) /\ Lead(b) \in b
           /\ JobOf[i] \in Jobs
           /\ \A r \in Shows(i) : ImageOf[i][r] \in Images /\ r \in Roles
           /\ Serving(d, k, i, b)
<1>1. /\ i \in Items /\ b \subseteq Roles /\ b \subseteq Shows(i) /\ Lead(b) \in b
    BY LeasedRecord DEF Orderly, LeasesSound
<1>2. JobOf[i] \in Jobs /\ \A r \in Shows(i) : ImageOf[i][r] \in Images /\ r \in Roles
    BY <1>1, ShownImages, ConstantsAssumption DEF Shows
<1>3. Serving(d, k, i, b)
    BY ServedIs DEF Orderly, Served
<1> QED BY <1>1, <1>2, <1>3

\* The same of a leased runtime's own record.
LEMMA LeasedServing ==
    ASSUME NEW d, Orderly(d), NEW k \in Runtimes, Leased(d, k)
    PROVE  Serving(d, k, d.lease[k].item, d.lease[k].batch)
BY ServedIs DEF Orderly, Served

\* The leased vehicle has a generation on the runtime of the slot.
LEMMA LeasedRuntime ==
    ASSUME NEW d, Orderly(d), NEW k \in Runtimes, Leased(d, k)
    PROVE  /\ d.rt[d.lease[k].item] = k
           /\ d.lease[k].item \in Items
           /\ d.gen[d.lease[k].item] # "none"
<1>1. /\ d.lease[k].item \in Items
      /\ Lead(d.lease[k].batch) \in d.lease[k].batch /\ d.lease[k].batch \subseteq Roles
    BY LeasedRecord DEF Orderly
<1>2. d.cons[d.lease[k].item][Lead(d.lease[k].batch)][k] \in ActiveConsumer
    BY <1>1 DEF Orderly, Served, ServedAt, ActiveConsumer
<1> QED BY <1>1, <1>2 DEF Orderly, Affine

\* A step that leaves a lease, its vehicle and its images as they are.
LEMMA ServedKept ==
    ASSUME NEW d, Orderly(d), NEW e \in Databases, NEW k \in Runtimes,
           Leased(d, k), e.lease[k] = d.lease[k],
           e.item[d.lease[k].item] = d.item[d.lease[k].item],
           \A r \in Roles : e.cons[d.lease[k].item][r][k] = d.cons[d.lease[k].item][r][k],
           e.job[JobOf[d.lease[k].item]] \in AtWork,
           \A m \in Images : \/ e.shared[m][k] = d.shared[m][k]
                             \/ d.shared[m][k] = "absent" /\ e.shared[m][k] = "queued"
    PROVE  ServedAt(e, k)
<1> DEFINE i == d.lease[k].item
           b == d.lease[k].batch
<1>1. i = e.lease[k].item /\ b = e.lease[k].batch
    OBVIOUS
<1>2. /\ i \in Items /\ b \subseteq Roles /\ b \subseteq Shows(i)
      /\ \A r \in Shows(i) : ImageOf[i][r] \in Images /\ r \in Roles
      /\ Serving(d, k, i, b)
    BY LeasedOrder
<1>3. /\ e.item[i] = d.item[i] /\ e.job[JobOf[i]] \in AtWork
      /\ \A r \in Roles : e.cons[i][r][k] = d.cons[i][r][k]
    OBVIOUS
<1> HIDE DEF i, b
<1>4. \A r \in b : e.shared[ImageOf[i][r]][k] = d.shared[ImageOf[i][r]][k]
    <2>1. \A r \in b : d.shared[ImageOf[i][r]][k] # "absent" /\ ImageOf[i][r] \in Images
        BY <1>2 DEF Serving
    <2> QED BY <2>1
<1>5. \A r \in Shows(i) : e.cons[i][r][k] = "waiting" => e.shared[ImageOf[i][r]][k] # "succeeded"
    <2>1. \A m \in Images : e.shared[m][k] = "succeeded" => d.shared[m][k] = "succeeded"
        OBVIOUS
    <2> QED BY <1>2, <1>3, <2>1 DEF Serving
<1>6. Serving(e, k, i, b)
    <2>1. e.item[i] = "running" /\ e.job[JobOf[i]] \in AtWork
        BY <1>2, <1>3 DEF Serving
    <2>2. ASSUME NEW r \in b
          PROVE  /\ e.cons[i][r][k] = "waiting"
                 /\ e.shared[ImageOf[i][r]][k] =
                        (IF r = Lead(b) THEN "running" ELSE "queued")
        <3>1. /\ d.cons[i][r][k] = "waiting"
              /\ d.shared[ImageOf[i][r]][k] =
                     (IF r = Lead(b) THEN "running" ELSE "queued")
            BY <1>2 DEF Serving
        <3>2. r \in Roles
            BY <1>2
        <3> QED BY <1>3, <1>4, <3>1, <3>2
    <2> QED BY <1>5, <2>1, <2>2 DEF Serving
<1>7. Serving(e, k, e.lease[k].item, e.lease[k].batch)
    BY <1>1, <1>6
<1> QED BY <1>7, ServedIs

\* Work that only appears.
LEMMA ProducingKept ==
    ASSUME NEW d, Orderly(d), NEW e, e.lease = d.lease,
           \A m \in Images, k \in Runtimes :
               e.shared[m][k] = d.shared[m][k] \/ e.shared[m][k] # "running"
    PROVE  Producing(e)
BY DEF Orderly, Producing, Leased

\* Pauses and cancellations wait for leased vehicles.
LEMMA ControlledOrderly ==
    ASSUME NEW d, Orderly(d)
    PROVE  Orderly(Controlled(d))
<1> DEFINE e == Controlled(d)
<1>0. d \in Databases
    BY DEF Orderly
<1>1. e \in Databases /\ e.shared = d.shared /\ e.lease = d.lease
    BY <1>0, ControlledStep
<1>2. e.rt = d.rt /\ e.gen = d.gen
    BY <1>0 DEF Controlled, Databases
<1>3. \A j \in Jobs :
          \/ e.job[j] = d.job[j]
          \/ ~IsLeased(d, j) /\ \A i \in Items : JobOf[i] = j => e.item[i] # "running"
    <2>1. "running" \notin {"cancelled", "ready"} \cup EndedItem
        BY DEF EndedItem
    <2> QED BY <1>0, <2>1, ConstantsAssumption DEF Controlled, Databases, ControlledJob
<1>4. \A i \in Items : e.item[i] = d.item[i]
                       \/ (~IsLeased(d, JobOf[i]) /\ e.item[i] # "running")
    BY <1>0, ConstantsAssumption DEF Controlled, Databases
<1>5. \A i \in Items, r \in Roles, k \in Runtimes :
          \/ e.cons[i][r][k] = d.cons[i][r][k]
          \/ ~IsLeased(d, JobOf[i]) /\ d.cons[i][r][k] \in ActiveConsumer
    <2>1. "waiting" \in ActiveConsumer
        BY DEF ActiveConsumer
    <2> QED BY <1>0, <2>1, ConstantsAssumption DEF Controlled, Databases, Moved
<1> HIDE DEF e
<1>6. \A k \in Runtimes : Leased(d, k) => IsLeased(d, JobOf[d.lease[k].item])
    BY DEF IsLeased, LeasedJob
<1>7. Affine(e)
    BY <1>2, <1>5 DEF Orderly, Affine
<1>8. Served(e)
    <2> SUFFICES ASSUME NEW k \in Runtimes, Leased(e, k) PROVE ServedAt(e, k)
        BY DEF Served
    <2>1. Leased(d, k) /\ d.lease[k].item \in Items /\ JobOf[d.lease[k].item] \in Jobs
        BY <1>1, LeasedRuntime, ConstantsAssumption DEF Leased
    <2>2. d.job[JobOf[d.lease[k].item]] \in AtWork
        BY <2>1 DEF Orderly, Served, ServedAt
    <2> QED BY <1>1, <1>3, <1>4, <1>5, <1>6, <2>1, <2>2, ServedKept
<1>9. Producing(e)
    BY <1>1, ProducingKept
<1>10. RunsAtWork(e)
    BY <1>3, <1>4, ConstantsAssumption DEF Orderly, RunsAtWork
<1>11. LeasesSound(e)
    BY <1>1 DEF Orderly, LeasesSound, Leased
<1> QED BY <1>1, <1>7, <1>8, <1>9, <1>10, <1>11 DEF Orderly, e

\* A pass that touches no lease, no audit, and only vehicles that are not leased, none of
\* which it starts.
LEMMA PassOrderly ==
    ASSUME NEW d, Orderly(d), NEW e \in Databases, NEW items,
           e.job = d.job, e.lease = d.lease,
           \A k \in Runtimes : Leased(d, k) => d.lease[k].item \notin items,
           \A i \in Items : e.item[i] = d.item[i] \/ (i \in items /\ e.item[i] # "running"),
           \A i \in Items \ items, r \in Roles, k \in Runtimes :
               e.cons[i][r][k] = d.cons[i][r][k],
           \A m \in Images, k \in Runtimes :
               \/ e.shared[m][k] = d.shared[m][k]
               \/ d.shared[m][k] = "absent" /\ e.shared[m][k] = "queued",
           Affine(e)
    PROVE  Orderly(e)
<1>1. Served(e)
    <2> SUFFICES ASSUME NEW k \in Runtimes, Leased(e, k) PROVE ServedAt(e, k)
        BY DEF Served
    <2>1. Leased(d, k) /\ d.lease[k].item \in Items /\ d.lease[k].item \notin items
        BY LeasedRuntime DEF Leased
    <2>2. e.job[JobOf[d.lease[k].item]] \in AtWork
        BY <2>1, LeasedOrder DEF Serving
    <2> QED BY <2>1, <2>2, ServedKept, SMTT(40)
<1>2. Producing(e)
    BY ProducingKept
<1>3. RunsAtWork(e)
    BY DEF Orderly, RunsAtWork
<1>4. LeasesSound(e)
    BY DEF Orderly, LeasesSound, Leased
<1> QED BY <1>1, <1>2, <1>3, <1>4 DEF Orderly

\* Vehicles that hold no slot may be registered on their runtime.
LEMMA RegisteredOrderly ==
    ASSUME NEW d, Orderly(d), NEW k \in Runtimes, NEW items \in SUBSET Items,
           \A i \in items : d.rt[i] = k /\ d.gen[i] # "none",
           \A q \in Runtimes : Leased(d, q) => d.lease[q].item \notin items
    PROVE  Orderly(Registered(d, items, k))
<1> DEFINE e == Registered(d, items, k)
<1>0. d \in Databases
    BY DEF Orderly
<1>1. e \in Databases /\ Grown(d, e, k) /\ e.lease = d.lease
    BY <1>0, RegisteredStep
<1>2. e.job = d.job /\ e.rt = d.rt /\ e.gen = d.gen
    BY <1>0 DEF Registered, Databases
<1>3. \A i \in Items : e.item[i] = d.item[i] \/ (i \in items /\ e.item[i] # "running")
    BY <1>0 DEF Registered, Databases
<1>4. \A i \in Items, r \in Roles, q \in Runtimes :
          e.cons[i][r][q] = d.cons[i][r][q] \/ (i \in items /\ q = k)
    BY <1>0 DEF Registered, Databases
<1> HIDE DEF e
<1>5. Affine(e)
    BY <1>2, <1>4 DEF Orderly, Affine
<1>6. \A m \in Images, q \in Runtimes :
               \/ e.shared[m][q] = d.shared[m][q]
               \/ d.shared[m][q] = "absent" /\ e.shared[m][q] = "queued"
    BY <1>1 DEF Grown
<1> QED BY <1>1, <1>2, <1>3, <1>4, <1>5, <1>6, PassOrderly DEF e

\* A failure on a runtime ends no vehicle that holds a slot: it is on another runtime, or the
\* slot has just been released.
LEMMA PropagatedOrderly ==
    ASSUME NEW d, Orderly(d), NEW m, NEW k \in Runtimes, ~Leased(d, k)
    PROVE  Orderly(Propagated(d, m, k))
<1> DEFINE e == Propagated(d, m, k)
           items == {i \in Items : Expects(d, i, m, k) # {}}
<1>0. d \in Databases
    BY DEF Orderly
<1>1. e \in Databases /\ e.shared = d.shared /\ e.lease = d.lease
    BY <1>0, PropagatedStep
<1>2. e.job = d.job /\ e.rt = d.rt /\ e.gen = d.gen
    BY <1>0 DEF Propagated, Databases
<1>3. \A i \in Items : e.item[i] = d.item[i] \/ (i \in items /\ e.item[i] # "running")
    BY <1>0 DEF Propagated, Databases
<1>4. \A i \in Items, r \in Roles, q \in Runtimes :
          \/ e.cons[i][r][q] = d.cons[i][r][q]
          \/ i \in items /\ e.cons[i][r][q] \notin ActiveConsumer
    <2>1. {"cancelled", "failed"} \cap ActiveConsumer = {}
        BY DEF ActiveConsumer
    <2> QED BY <1>0, <2>1 DEF Propagated, Databases
<1>5. \A i \in items : d.rt[i] = k
    BY DEF Orderly, Affine, Expects, Shows
<1> HIDE DEF e, items
<1>6. Affine(e)
    BY <1>2, <1>4 DEF Orderly, Affine
<1>7. \A q \in Runtimes : Leased(d, q) => d.lease[q].item \notin items
    BY <1>5, LeasedRuntime
<1> QED BY <1>1, <1>2, <1>3, <1>4, <1>6, <1>7, PassOrderly DEF e

\* Nor does a restart, for the same reason.
LEMMA RestartedOrderly ==
    ASSUME NEW d, Orderly(d), NEW m, ~Leased(d, "gpu")
    PROVE  Orderly(RestartedOnCpu(d, m))
<1> DEFINE items == {i \in Items : /\ Expects(d, i, m, "gpu") # {}
                                   /\ d.rt[i] = "gpu"
                                   /\ d.gen[i] \in {"queued", "running"}}
           c == [i \in Items |-> [r \in Roles |->
                        IF /\ i \in items
                           /\ d.cons[i][r].gpu \in ActiveConsumer \cup {"consumed"}
                        THEN [d.cons[i][r] EXCEPT !.gpu = "cancelled"]
                        ELSE d.cons[i][r]]]
           g == [i \in Items |-> IF i \in items THEN "fallback_wait" ELSE d.gen[i]]
           rt == [i \in Items |-> IF i \in items THEN "cpu" ELSE d.rt[i]]
           o == [i \in Items |-> IF i \in items THEN [r \in Roles |-> "none"] ELSE d.out[i]]
           it == [i \in Items |-> IF i \in items THEN "ready" ELSE d.item[i]]
           dn == [i \in Items |-> IF i \in items THEN AlreadyComplete(i) ELSE d.done[i]]
           dropped == [d EXCEPT !.cons = c, !.gen = g, !.rt = rt, !.out = o,
                                !.item = it, !.done = dn]
<1>0. d \in Databases
    BY DEF Orderly
<1>1. "cancelled" \in ConsumerStatus /\ "fallback_wait" \in GenStatus
      /\ "cancelled" \notin ActiveConsumer
      /\ "cpu" \in Runtimes /\ "gpu" \in Runtimes /\ "ready" \in ItemStatus
      /\ \A i : AlreadyComplete(i) \in SUBSET Roles
    BY DEF ConsumerStatus, ActiveConsumer, GenStatus, Runtimes, ItemStatus, AlreadyComplete,
       Roles
<1>2. c \in ConsumerTable
    <2>1. d.cons \in ConsumerTable
        BY <1>0, Fields
    <2> HIDE DEF items
    <2> QED BY <1>1, <2>1 DEF ConsumerTable
<1>3. /\ g \in [Items -> GenStatus] /\ rt \in [Items -> Runtimes]
      /\ o \in [Items -> [Roles -> Runtimes \cup {"none"}]]
      /\ it \in [Items -> ItemStatus] /\ dn \in [Items -> SUBSET Roles]
    BY <1>0, <1>1, Fields
<1>4. RestartedOnCpu(d, m) = Registered(dropped, items, "cpu")
    BY <1>0 DEF RestartedOnCpu, Databases
<1>5. \A i \in Items : it[i] = d.item[i] \/ (i \in items /\ it[i] # "running")
    OBVIOUS
<1>6. \A i \in Items \ items, r \in Roles, k \in Runtimes : c[i][r][k] = d.cons[i][r][k]
    OBVIOUS
<1>7. \A i \in items, r \in Roles, k \in Runtimes : c[i][r][k] \notin ActiveConsumer
    <2> TAKE i \in items, r \in Roles, k \in Runtimes
    <2>1. d.rt[i] = "gpu" /\ i \in Items
        OBVIOUS
    <2>2. CASE k = "gpu"
        BY <1>0, <1>1, <2>1, <2>2, Fields DEF ConsumerTable
    <2>3. CASE k # "gpu"
        <3>1. c[i][r][k] = d.cons[i][r][k]
            BY <1>0, <1>1, <2>1, <2>3, Fields DEF ConsumerTable
        <3> QED BY <2>1, <2>3, <3>1 DEF Orderly, Affine
    <2> QED BY <2>2, <2>3
<1>8. \A i \in Items : /\ i \in items => rt[i] = "cpu" /\ g[i] # "none" /\ d.rt[i] = "gpu"
                       /\ i \notin items => rt[i] = d.rt[i] /\ g[i] = d.gen[i]
    OBVIOUS
<1>9. items \in SUBSET Items
    OBVIOUS
<1> HIDE DEF c, g, rt, o, it, dn, items
<1>10. /\ dropped \in Databases /\ dropped.shared = d.shared /\ dropped.lease = d.lease
       /\ dropped.job = d.job /\ dropped.item = it /\ dropped.cons = c
       /\ dropped.rt = rt /\ dropped.gen = g
    BY <1>0, <1>2, <1>3 DEF Databases, ConsumerTable
<1> HIDE DEF dropped
<1>11. Affine(dropped)
    BY <1>6, <1>7, <1>8, <1>10 DEF Orderly, Affine
<1>12. \A q \in Runtimes : Leased(d, q) => d.lease[q].item \notin items
    BY <1>8, <1>9, LeasedRuntime DEF Runtimes
<1>13. Orderly(dropped)
    BY <1>5, <1>6, <1>10, <1>11, <1>12, PassOrderly
<1>14. \A q \in Runtimes : Leased(dropped, q) => dropped.lease[q].item \notin items
    BY <1>10, <1>12 DEF Leased
<1> QED BY <1>1, <1>4, <1>8, <1>9, <1>10, <1>13, <1>14, RegisteredOrderly

\* A vehicle without a generation holds no slot.
LEMMA PreparedOrderly ==
    ASSUME NEW d, Orderly(d)
    PROVE  Orderly(Prepared(d))
<1> DEFINE new == {i \in Items : /\ d.job[JobOf[i]] = "active"
                                 /\ d.item[i] = "ready"
                                 /\ d.gen[i] = "none"}
           run == {i \in new : "loading" \in Shows(i)}
           it == [i \in Items |-> IF i \in new \ run THEN "waiting_user" ELSE d.item[i]]
           g == [i \in Items |-> IF i \in run THEN "queued" ELSE d.gen[i]]
           rt == [i \in Items |-> IF i \in run THEN Primary ELSE d.rt[i]]
           dn == [i \in Items |-> IF i \in run THEN AlreadyComplete(i) ELSE d.done[i]]
           e == [d EXCEPT !.item = it, !.gen = g, !.rt = rt, !.done = dn]
<1>0. d \in Databases
    BY DEF Orderly
<1>1. "waiting_user" \in ItemStatus /\ "queued" \in GenStatus /\ Primary \in Runtimes
      /\ \A i : AlreadyComplete(i) \in SUBSET Roles
    BY DEF GenStatus, Runtimes, ItemStatus, AlreadyComplete, Roles, Primary
<1>2. /\ g \in [Items -> GenStatus] /\ rt \in [Items -> Runtimes]
      /\ it \in [Items -> ItemStatus] /\ dn \in [Items -> SUBSET Roles]
    BY <1>0, <1>1, Fields
<1>3. Prepared(d) = Registered(e, run, Primary)
    BY <1>0 DEF Prepared, Databases
<1>4. \A i \in Items : it[i] = d.item[i] \/ (i \in new /\ it[i] # "running")
    OBVIOUS
<1>5. \A i \in Items : /\ i \in run => rt[i] = Primary /\ g[i] # "none" /\ d.gen[i] = "none"
                       /\ i \notin run => rt[i] = d.rt[i] /\ g[i] = d.gen[i]
    OBVIOUS
<1>6. run \in SUBSET Items /\ run \subseteq new /\ \A i \in new : d.gen[i] = "none"
    OBVIOUS
<1> HIDE DEF g, rt, it, dn, new, run
<1>7. /\ e \in Databases /\ e.shared = d.shared /\ e.lease = d.lease /\ e.cons = d.cons
      /\ e.job = d.job /\ e.item = it /\ e.rt = rt /\ e.gen = g
    BY <1>0, <1>2 DEF Databases
<1> HIDE DEF e
<1>8. Affine(e)
    BY <1>5, <1>7 DEF Orderly, Affine
<1>9. \A q \in Runtimes : Leased(d, q) => d.lease[q].item \notin new
    BY <1>6, LeasedRuntime
<1>10. Orderly(e)
    BY <1>4, <1>7, <1>8, <1>9, PassOrderly
<1>11. \A q \in Runtimes : Leased(e, q) => e.lease[q].item \notin run
    BY <1>6, <1>7, <1>9 DEF Leased
<1> QED BY <1>1, <1>3, <1>5, <1>6, <1>7, <1>10, <1>11, RegisteredOrderly

\* The slot is free and its images are answered: no other lease notices.
LEMMA FreedOrderly ==
    ASSUME NEW d, Orderly(d), NEW k \in Runtimes, Leased(d, k),
           NEW e \in Databases, Free(d, e, k),
           \A m \in Images, q \in Runtimes \ {k} : e.shared[m][q] = d.shared[m][q],
           \A m \in Images : e.shared[m][k] # "running"
    PROVE  Orderly(e) /\ ~Leased(e, k)
<1>0. d.lease \in [Runtimes -> Leases \cup {NoLease}]
    BY Fields DEF Orderly
<1>1. ~Leased(e, k) /\ \A q \in Runtimes \ {k} : e.lease[q] = d.lease[q]
    BY <1>0 DEF Free, Leased, NoLease
<1>2. LeasesSound(e)
    BY <1>1 DEF Orderly, LeasesSound, Leased
<1>3. Served(e)
    <2> SUFFICES ASSUME NEW q \in Runtimes, Leased(e, q) PROVE ServedAt(e, q)
        BY DEF Served
    <2>1. q # k /\ Leased(d, q) /\ e.lease[q] = d.lease[q]
        BY <1>1 DEF Leased
    <2>2. e.job[JobOf[d.lease[q].item]] \in AtWork
        BY <2>1 DEF Orderly, Served, ServedAt, Free
    <2>3. e.item = d.item /\ e.cons = d.cons
        BY DEF Free
    <2> QED BY <2>1, <2>2, <2>3, ServedKept
<1>4. Producing(e)
    BY <1>1 DEF Orderly, Producing, Leased
<1>5. Affine(e) /\ RunsAtWork(e)
    BY DEF Orderly, Affine, RunsAtWork, Free
<1> QED BY <1>1, <1>2, <1>3, <1>4, <1>5 DEF Orderly

\* A result leaves the other slot in order.
LEMMA DeliveredOrderly ==
    ASSUME NEW d, Orderly(d), NEW k \in Runtimes, NEW result \in Results, Leased(d, k)
    PROVE  Orderly(Delivered(d, k, result))
<1>0. d \in Databases
    BY DEF Orderly
<1>1. Led(d, k) \in Images /\ InBatch(d, k, Led(d, k))
    BY <1>0, LeasedRecord, ShownImages DEF Orderly, LeasesSound, Led, InBatch
<1>2. \A m \in Images : d.shared[m][k] = "running" => m = Led(d, k)
    BY DEF Orderly, Producing, Led
<1>3. Orderly(Stored(d, k))
    BY <1>0, <1>1, <1>2, StoredStep, FreedOrderly
<1>4. ASSUME NEW word \in FailedWork
      PROVE  Orderly(Marked(d, k, word)) /\ ~Leased(Marked(d, k, word), k)
    <2>1. word # "running"
        BY DEF FailedWork
    <2> QED BY <1>0, <1>1, <1>2, <2>1, MarkedStep, FreedOrderly
<1>5. \A word \in FailedWork : Orderly(Propagated(Marked(d, k, word), Led(d, k), k))
    BY <1>4, PropagatedOrderly
<1>6. k = "gpu" => \A word \in FailedWork :
                       Orderly(RestartedOnCpu(Marked(d, k, word), Led(d, k)))
    BY <1>4, RestartedOrderly
<1> QED BY <1>0, <1>3, <1>5, <1>6, DeliveredCases

\* Work that a leased vehicle waits for stays queued.
LEMMA RefreshedOrderly ==
    ASSUME NEW d, Orderly(d)
    PROVE  Orderly(Refreshed(d))
<1> DEFINE e == Refreshed(d)
           shown(m) == {p \in Items \X Roles : ImageOf[p[1]][p[2]] = m}
           states(m, k) == {d.cons[p[1]][p[2]][k] : p \in shown(m)} \ {"none"}
<1>0. d \in Databases
    BY DEF Orderly
<1>1. e \in Databases /\ e.lease = d.lease
    BY <1>0, RefreshedStep
<1>2. e.job = d.job /\ e.item = d.item /\ e.cons = d.cons /\ e.rt = d.rt /\ e.gen = d.gen
    BY <1>0 DEF Refreshed, Databases
<1>3. \A m \in Images, k \in Runtimes :
          e.shared[m][k] =
            (IF d.shared[m][k] \notin {"queued", "paused", "cancelled"} THEN d.shared[m][k]
             ELSE IF states(m, k) \subseteq {"cancelled"} THEN "cancelled"
             ELSE IF "waiting" \in states(m, k) THEN "queued"
             ELSE "paused")
    BY <1>0 DEF Refreshed, Databases
<1> HIDE DEF e
<1>4. Served(e)
    <2> SUFFICES ASSUME NEW k \in Runtimes, Leased(e, k) PROVE ServedAt(e, k)
        BY DEF Served
    <2> DEFINE i == d.lease[k].item
               b == d.lease[k].batch
    <2>1. Leased(d, k) /\ i = e.lease[k].item /\ b = e.lease[k].batch
        BY <1>1 DEF Leased
    <2>2. /\ i \in Items /\ b \subseteq Roles /\ b \subseteq Shows(i)
          /\ \A r \in Shows(i) : ImageOf[i][r] \in Images /\ r \in Roles
          /\ Serving(d, k, i, b)
        BY <2>1, LeasedOrder, SMTT(40)
    <2> HIDE DEF i, b
    <2>3. ASSUME NEW r \in b
          PROVE  e.shared[ImageOf[i][r]][k] = d.shared[ImageOf[i][r]][k]
        <3> DEFINE m == ImageOf[i][r]
        <3>1. m \in Images /\ d.shared[m][k] \in {"running", "queued"}
            BY <2>2 DEF Serving
        <3>2. <<i, r>> \in shown(m) /\ d.cons[i][r][k] = "waiting"
            BY <2>2 DEF Serving
        <3>3. "waiting" \in states(m, k)
            BY <3>2
        <3>4. ~(states(m, k) \subseteq {"cancelled"})
            BY <3>3
        <3> HIDE DEF states, m
        <3>5. e.shared[m][k] = d.shared[m][k]
            BY <1>3, <3>1, <3>3, <3>4
        <3> QED BY <3>5 DEF m
    <2>4. \A r \in Shows(i) : e.cons[i][r][k] = "waiting" =>
                                  e.shared[ImageOf[i][r]][k] # "succeeded"
        <3>1. \A m \in Images : e.shared[m][k] = "succeeded" => d.shared[m][k] = "succeeded"
            BY <1>3
        <3> QED BY <1>2, <2>2, <3>1 DEF Serving
    <2>5. Serving(e, k, i, b)
        BY <1>2, <2>2, <2>3, <2>4 DEF Serving
    <2> QED BY <2>1, <2>5, ServedIs
<1>5. Producing(e)
    <2>1. \A m \in Images, k \in Runtimes :
              e.shared[m][k] = d.shared[m][k] \/ e.shared[m][k] # "running"
        BY <1>3
    <2> QED BY <1>1, <2>1, ProducingKept
<1>6. Affine(e) /\ RunsAtWork(e) /\ LeasesSound(e)
    BY <1>1, <1>2 DEF Orderly, Affine, RunsAtWork, LeasesSound, Leased
<1> QED BY <1>1, <1>4, <1>5, <1>6 DEF Orderly, e

\* Nothing that a vehicle at work could consume is left.
Digested(d) ==
    \A i \in Items : d.item[i] = "ready" /\ d.job[JobOf[i]] = "active" =>
        \A r \in Shows(i) : d.cons[i][r][d.rt[i]] = "waiting" =>
                                Work(d, i, r, d.rt[i]) # "succeeded"

\* A leased vehicle has nothing to consume, so it is not made ready; afterwards no vehicle at
\* work has anything left.
LEMMA ConsumedOrderly ==
    ASSUME NEW d, Orderly(d)
    PROVE  Orderly(Consumed(d)) /\ Digested(Consumed(d))
<1> DEFINE e == Consumed(d)
           C(i) == Consumable(d, i, d.rt[i])
           some == {i \in Items : C(i) # {}}
<1>0. d \in Databases
    BY DEF Orderly
<1>1. e \in Databases /\ e.shared = d.shared /\ e.lease = d.lease
    BY <1>0, ConsumedStep
<1>2. e.job = d.job /\ e.rt = d.rt
    BY <1>0 DEF Consumed, Databases
<1>3. \A i \in Items : /\ i \in some => e.item[i] = "ready" /\ e.gen[i] # "none"
                       /\ i \notin some => e.item[i] = d.item[i] /\ e.gen[i] = d.gen[i]
    BY <1>0 DEF Consumed, Databases
<1>4. \A i \in Items, r \in Roles, q \in Runtimes :
          /\ r \in C(i) /\ q = d.rt[i] => e.cons[i][r][q] = "consumed"
          /\ ~(r \in C(i) /\ q = d.rt[i]) => e.cons[i][r][q] = d.cons[i][r][q]
    BY <1>0, Fields DEF Consumed, Databases, ConsumerTable
<1>5. \A i \in Items : \A r \in C(i) :
          /\ d.item[i] \in {"ready", "running"} /\ r \in Shows(i)
          /\ d.cons[i][r][d.rt[i]] = "waiting" /\ Work(d, i, r, d.rt[i]) = "succeeded"
    BY DEF Consumable
<1>6. Digested(e)
    <2> SUFFICES ASSUME NEW i \in Items, e.item[i] = "ready", e.job[JobOf[i]] = "active",
                        NEW r \in Shows(i), e.cons[i][r][e.rt[i]] = "waiting",
                        Work(e, i, r, e.rt[i]) = "succeeded"
                 PROVE  FALSE
        BY DEF Digested
    <2>1. d.rt[i] \in Runtimes /\ r \in Roles
        BY <1>0, Fields DEF Shows
    <2>2. r \notin C(i) /\ d.cons[i][r][d.rt[i]] = "waiting"
        BY <1>2, <1>4, <2>1
    <2>3. d.item[i] \in {"ready", "running"}
        BY <1>3, <1>5
    <2>4. d.job[JobOf[i]] \notin ControlledJob \cup {"paused", "cancelled"}
        BY <1>2 DEF ControlledJob
    <2>5. Work(d, i, r, d.rt[i]) = "succeeded"
        BY <1>1, <1>2 DEF Work
    <2> QED BY <2>2, <2>3, <2>4, <2>5 DEF Consumable
<1> HIDE DEF e, C
<1>7. Affine(e)
    <2>1. "consumed" \notin ActiveConsumer
        BY DEF ActiveConsumer
    <2> QED BY <1>2, <1>3, <1>4, <2>1 DEF Orderly, Affine
<1>8. \A k \in Runtimes : Leased(d, k) => d.lease[k].item \notin some
    <2> SUFFICES ASSUME NEW k \in Runtimes, Leased(d, k), d.lease[k].item \in some PROVE FALSE
        OBVIOUS
    <2>1. ServedAt(d, k) /\ d.rt[d.lease[k].item] = k /\ d.lease[k].item \in Items
        BY LeasedRuntime DEF Orderly, Served
    <2>2. PICK r : r \in C(d.lease[k].item)
        OBVIOUS
    <2> QED BY <1>5, <2>1, <2>2 DEF ServedAt
<1>9. \A i \in Items : e.item[i] = d.item[i] \/ (i \in some /\ e.item[i] # "running")
    BY <1>3
<1>10. \A i \in Items \ some, r \in Roles, k \in Runtimes : e.cons[i][r][k] = d.cons[i][r][k]
    BY <1>4
<1> QED BY <1>1, <1>2, <1>6, <1>7, <1>8, <1>9, <1>10, PassOrderly DEF e

\* A leased vehicle runs and is not evaluated.
LEMMA FinalizedOrderly ==
    ASSUME NEW d, Orderly(d), Digested(d), NEW verdict \in [Recognized(d) -> Verdicts]
    PROVE  Orderly(Finalized(d, verdict)) /\ Digested(Finalized(d, verdict))
<1> DEFINE e == Finalized(d, verdict)
           items == Recognized(d)
<1>0. d \in Databases
    BY DEF Orderly
<1>1. e \in Databases /\ e.shared = d.shared /\ e.lease = d.lease
    BY <1>0, FinalizedStep
<1>2. e.job = d.job /\ e.rt = d.rt /\ e.cons = d.cons /\ e.gen = d.gen
    BY <1>0 DEF Finalized, Databases
<1>3. \A i \in Items : \/ e.item[i] = d.item[i]
                       \/ i \in items /\ e.item[i] \notin {"running", "ready"}
    BY <1>0 DEF Finalized, Databases, Verdicts
<1>4. \A k \in Runtimes : Leased(d, k) => d.lease[k].item \notin items
    BY DEF Orderly, Served, ServedAt, Recognized
<1> HIDE DEF e, items
<1>5. Affine(e)
    BY <1>2 DEF Orderly, Affine
<1>6. Orderly(e)
    BY <1>1, <1>2, <1>3, <1>4, <1>5, PassOrderly
<1>7. Digested(e)
    BY <1>1, <1>2, <1>3 DEF Digested, Work
<1> QED BY <1>6, <1>7 DEF e

\* An audit with a running vehicle stays at work.
LEMMA AggregatedOrderly ==
    ASSUME NEW d, Orderly(d)
    PROVE  Orderly(Aggregated(d))
<1> DEFINE e == Aggregated(d)
<1>0. d \in Databases
    BY DEF Orderly
<1>1. e \in Databases /\ e.shared = d.shared /\ e.lease = d.lease
    BY <1>0, AggregatedStep
<1>2. e.item = d.item /\ e.rt = d.rt /\ e.cons = d.cons /\ e.gen = d.gen
    BY <1>0 DEF Aggregated, Databases
<1>3. \A i \in Items : d.item[i] = "running" =>
          e.job[JobOf[i]] = d.job[JobOf[i]] \/ e.job[JobOf[i]] = "active"
    <2> SUFFICES ASSUME NEW i \in Items, d.item[i] = "running"
                 PROVE  e.job[JobOf[i]] = d.job[JobOf[i]] \/ e.job[JobOf[i]] = "active"
        OBVIOUS
    <2>1. JobOf[i] \in Jobs /\ i \in ItemsOf(JobOf[i])
        BY ConstantsAssumption DEF ItemsOf
    <2>2. {d.item[h] : h \in ItemsOf(JobOf[i])} \cap {"ready", "running"} # {}
        BY <2>1
    <2> QED BY <1>0, <2>1, <2>2 DEF Aggregated, Databases
<1> HIDE DEF e
<1>4. RunsAtWork(e)
    BY <1>2, <1>3 DEF Orderly, RunsAtWork, AtWork
<1>5. Served(e)
    <2> SUFFICES ASSUME NEW k \in Runtimes, Leased(e, k) PROVE ServedAt(e, k)
        BY DEF Served
    <2>1. Leased(d, k) /\ d.lease[k].item \in Items
        BY <1>1, LeasedRuntime DEF Leased
    <2>2. e.job[JobOf[d.lease[k].item]] \in AtWork
        BY <1>2, <1>4, <2>1 DEF Orderly, Served, ServedAt, RunsAtWork
    <2> QED BY <1>1, <1>2, <2>1, <2>2, ServedKept
<1>6. Producing(e)
    BY <1>1, ProducingKept
<1>7. Affine(e) /\ LeasesSound(e)
    BY <1>1, <1>2 DEF Orderly, Affine, LeasesSound, Leased
<1> QED BY <1>1, <1>4, <1>5, <1>6, <1>7 DEF Orderly, e

\* The columns after a grant.
GrantLeaves(d, e, k, i, b) ==
    /\ e.job = d.job /\ e.rt = d.rt /\ e.cons = d.cons
    /\ e.item = [d.item EXCEPT ![i] = "running"]
    /\ e.lease = [d.lease EXCEPT ![k] =
         [held |-> TRUE, item |-> i, batch |-> b, mine |-> TRUE]]
    /\ e.shared = [d.shared EXCEPT ![ImageOf[i][Lead(b)]][k] = "running"]
    /\ \A h \in Items : e.gen[h] \in {d.gen[h], "running"}

LEMMA GrantedFields ==
    ASSUME NEW d \in Databases, NEW k, NEW i, NEW b
    PROVE  GrantLeaves(d, Granted(d, k, i, b), k, i, b)
<1> DEFINE e == Granted(d, k, i, b)
           led == ImageOf[i][Lead(b)]
           l == [held |-> TRUE, item |-> i, batch |-> b, mine |-> TRUE]
           waits(h) == \E r \in Shows(h) : ImageOf[h][r] = led /\ d.cons[h][r][k] = "waiting"
           g == [h \in Items |-> IF /\ waits(h)
                                   /\ d.gen[h] \in {"queued", "fallback_wait"}
                                THEN "running" ELSE d.gen[h]]
<1>1. e = [d EXCEPT !.lease[k] = l, !.item[i] = "running", !.shared[led][k] = "running",
                    !.gen = g]
    BY DEF Granted, Databases
<1>2. \A h \in Items : g[h] \in {d.gen[h], "running"}
    OBVIOUS
<1> HIDE DEF e, led, l, g
<1>3. /\ e.job = d.job /\ e.rt = d.rt /\ e.cons = d.cons
      /\ e.item = [d.item EXCEPT ![i] = "running"]
      /\ e.lease = [d.lease EXCEPT ![k] = l]
      /\ e.shared = [d.shared EXCEPT ![led][k] = "running"]
      /\ e.gen = g
    BY <1>1 DEF Databases
<1> QED BY <1>2, <1>3 DEF GrantLeaves, e, led, l

\* A grant makes a batch that is in order, since nothing else claims its images.
LEMMA GrantedOrderly ==
    ASSUME NEW d, Orderly(d), Digested(d), NEW k \in Runtimes, ~Leased(d, k),
           NEW p \in Rows(d, k), NEW b \in (SUBSET Roles) \ {{}}, b \in Batches(d, k, p[1]),
           NEW e \in Databases, e = Granted(d, k, p[1], b), LeasesSound(e)
    PROVE  Orderly(e) /\ Digested(e)
<1> DEFINE i == p[1]
           led == ImageOf[i][Lead(b)]
           l == [held |-> TRUE, item |-> i, batch |-> b, mine |-> TRUE]
<1>0. d \in Databases
    BY DEF Orderly
<1>1. i \in Items /\ d.item[i] = "ready" /\ d.job[JobOf[i]] = "active"
    BY DEF Rows
<1>2. /\ b \subseteq Shows(i) /\ b \subseteq Roles
      /\ \A r \in b : d.cons[i][r][k] = "waiting" /\ Work(d, i, r, k) = "queued"
      /\ \A q, r \in b : ImageOf[i][q] = ImageOf[i][r] => q = r
    <2>1. \A r \in b : <<i, r>> \in Rows(d, k)
        BY DEF Batches
    <2>2. \A q, r \in b : ImageOf[i][q] = ImageOf[i][r] => q = r
        BY DEF Batches, SameImage
    <2> QED BY <2>1, <2>2 DEF Rows
<1>3. Lead(b) \in b
    BY DEF Lead, Roles
<1>4. led \in Images
    BY <1>1, <1>2, <1>3, ShownImages
<1>5. d.rt[i] = k /\ d.gen[i] # "none"
    BY <1>1, <1>2, <1>3 DEF Orderly, Affine, ActiveConsumer
<1>5a. GrantLeaves(d, e, k, i, b)
    BY <1>0, GrantedFields
<1>6. e.job = d.job /\ e.rt = d.rt /\ e.cons = d.cons
    BY <1>5a DEF GrantLeaves
<1>7. e.item = [d.item EXCEPT ![i] = "running"] /\ e.lease = [d.lease EXCEPT ![k] = l]
    BY <1>5a DEF GrantLeaves
<1>8. e.shared = [d.shared EXCEPT ![led][k] = "running"]
      /\ \A h \in Items : e.gen[h] \in {d.gen[h], "running"}
    BY <1>5a DEF GrantLeaves
<1>9. e.item[i] = "running" /\ \A h \in Items \ {i} : e.item[h] = d.item[h]
    BY <1>0, <1>1, <1>7, Fields
<1>10. e.lease[k] = l /\ \A q \in Runtimes \ {k} : e.lease[q] = d.lease[q]
    BY <1>0, <1>7, Fields
<1>11. \A m \in Images, q \in Runtimes :
           e.shared[m][q] = IF m = led /\ q = k THEN "running" ELSE d.shared[m][q]
    <2>1. d.shared \in [Images -> [Runtimes -> WorkStatus]]
        BY <1>0, Fields DEF WorkTable
    <2> HIDE DEF led
    <2> QED BY <1>4, <1>8, <2>1
<1>12. l.item = i /\ l.batch = b /\ l.held
    OBVIOUS
<1> HIDE DEF i, led, l
<1>13. Affine(e)
    BY <1>6, <1>8 DEF Orderly, Affine
<1>14. Served(e)
    <2> SUFFICES ASSUME NEW q \in Runtimes, Leased(e, q) PROVE ServedAt(e, q)
        BY DEF Served
    <2>1. CASE q # k
        <3>1. Leased(d, q) /\ e.lease[q] = d.lease[q]
            BY <1>10, <2>1 DEF Leased
        <3>2. d.lease[q].item \in Items /\ d.lease[q].item # i
              /\ d.job[JobOf[d.lease[q].item]] \in AtWork
            BY <1>1, <3>1, LeasedOrder DEF Serving
        <3>3. \A m \in Images : e.shared[m][q] = d.shared[m][q]
            BY <1>11, <2>1
        <3> QED BY <1>6, <1>9, <3>1, <3>2, <3>3, ServedKept
    <2>2. CASE q = k
        <3>1. \A r \in b : ImageOf[i][r] \in Images
            BY <1>1, <1>2, ShownImages
        <3>2. \A r \in b : e.shared[ImageOf[i][r]][k] =
                               IF r = Lead(b) THEN "running" ELSE "queued"
            BY <1>2, <1>3, <1>11, <3>1 DEF Work, led
        <3>3. \A r \in Shows(i) : e.cons[i][r][k] = "waiting" =>
                                      e.shared[ImageOf[i][r]][k] # "succeeded"
            <4>1. \A r \in Shows(i) : ImageOf[i][r] \in Images
                BY <1>1, ShownImages
            <4>2. \A r \in Shows(i) : d.cons[i][r][k] = "waiting" =>
                                          d.shared[ImageOf[i][r]][k] # "succeeded"
                BY <1>1, <1>5 DEF Digested, Work
            <4> QED BY <1>6, <1>11, <4>1, <4>2
        <3>4. Serving(e, k, i, b)
            BY <1>1, <1>2, <1>6, <1>9, <3>2, <3>3 DEF Serving, AtWork
        <3> QED BY <1>10, <1>12, <2>2, <3>4, ServedIs
    <2> QED BY <2>1, <2>2
<1>15. Producing(e)
    <2> SUFFICES ASSUME NEW m \in Images, NEW q \in Runtimes, e.shared[m][q] = "running"
                 PROVE  /\ Leased(e, q)
                        /\ ImageOf[e.lease[q].item][Lead(e.lease[q].batch)] = m
        BY DEF Producing
    <2>1. CASE m = led /\ q = k
        BY <1>10, <1>12, <2>1 DEF Leased, led
    <2>2. CASE ~(m = led /\ q = k)
        <3>1. d.shared[m][q] = "running"
            BY <1>11, <2>2
        <3>2. Leased(d, q) /\ ImageOf[d.lease[q].item][Lead(d.lease[q].batch)] = m
            BY <3>1 DEF Orderly, Producing
        <3>3. q # k
            BY <3>2
        <3> QED BY <1>10, <3>2, <3>3 DEF Leased
    <2> QED BY <2>1, <2>2
<1>16. RunsAtWork(e)
    BY <1>1, <1>6, <1>9 DEF Orderly, RunsAtWork, AtWork
<1>17. Digested(e)
    <2> SUFFICES ASSUME NEW h \in Items, e.item[h] = "ready", e.job[JobOf[h]] = "active",
                        NEW r \in Shows(h), e.cons[h][r][e.rt[h]] = "waiting"
                 PROVE  Work(e, h, r, e.rt[h]) # "succeeded"
        BY DEF Digested
    <2>1. Work(d, h, r, d.rt[h]) # "succeeded" /\ ImageOf[h][r] \in Images
        BY <1>6, <1>9, ShownImages DEF Digested
    <2>2. d.rt[h] \in Runtimes
        BY <1>0, Fields
    <2> QED BY <1>6, <1>11, <2>1, <2>2 DEF Work
<1> QED BY <1>13, <1>14, <1>15, <1>16, <1>17 DEF Orderly

\* So the outcome of an attempt to grant is in order.
LEMMA GrantsOrderly ==
    ASSUME NEW d, Orderly(d), Digested(d), NEW k \in Runtimes, NEW e \in Grants(d, k)
    PROVE  Orderly(e) /\ Digested(e)
<1>1. e \in Databases /\ LeasesSound(e)
    BY GrantsStep DEF Orderly
<1>2. e = d \/ (~Leased(d, k) /\ \E p \in Rows(d, k), b \in (SUBSET Roles) \ {{}} :
                    b \in Batches(d, k, p[1]) /\ e = Granted(d, k, p[1], b))
    <2>1. e = d \/ (~Leased(d, k) /\ \E pick \in {p[1] : p \in Rows(d, k)}
                                                  \X ((SUBSET Roles) \ {{}}) :
                        pick[2] \in Batches(d, k, pick[1])
                        /\ e = Granted(d, k, pick[1], pick[2]))
        BY DEF Grants, SlotIsFree
    <2> QED BY <2>1
<1> QED BY <1>1, <1>2, GrantedOrderly

\* Taking a result keeps the order and the other lease.
LEMMA TakenOrderly ==
    ASSUME NEW d, Orderly(d), NEW k \in Runtimes, fut[k] \in Results => Leased(d, k),
           NEW e \in Taken(k, {d})
    PROVE  /\ Orderly(e)
           /\ \A q \in Runtimes \ {k} : e.lease[q] = d.lease[q]
<1>1. e = IF fut[k] \in Results THEN Delivered(d, k, fut[k]) ELSE d
    BY DEF Taken
<1>2. CASE fut[k] \in Results
    <2>1. Intact(d, k) /\ LeasesSound(d) /\ d \in Databases
        BY <1>2 DEF Orderly, Served, ServedAt
    <2>2. e.lease = [d.lease EXCEPT ![k] = NoLease]
        BY <1>1, <1>2, <2>1, DeliveredStep
    <2>3. Orderly(e)
        BY <1>1, <1>2, DeliveredOrderly
    <2> QED BY <2>1, <2>2, <2>3, Fields
<1>3. CASE fut[k] \notin Results
    BY <1>1, <1>3
<1> QED BY <1>2, <1>3

\* The passes up to the evaluation, whichever result is taken first.
LEMMA AdvancedOrderly ==
    ASSUME Orderly(db), OcrInv, NEW d \in Advanced
    PROVE  Orderly(d) /\ Digested(d)
<1>1. \A k \in Runtimes : fut[k] \in Results => Leased(db, k)
    BY DEF OcrInv, FuturesMine, Results
<1>2. ASSUME NEW e \in Collected PROVE Orderly(e)
    <2>1. PICK p \in Runtimes, q \in Runtimes : p # q /\ e \in Taken(p, Taken(q, {db}))
        <3>1. "gpu" \in Runtimes /\ "cpu" \in Runtimes /\ "gpu" # "cpu"
            BY DEF Runtimes
        <3> QED BY <1>2, <3>1 DEF Collected
    <2>2. PICK c \in Taken(q, {db}) : e \in Taken(p, {c})
        BY <2>1 DEF Taken
    <2>3. Orderly(c) /\ c.lease[p] = db.lease[p]
        BY <1>1, <2>1, <2>2, TakenOrderly
    <2> QED BY <1>1, <2>2, <2>3, TakenOrderly DEF Leased
<1>3. PICK c \in Collected : d = Consumed(Refreshed(Prepared(Controlled(c))))
    BY DEF Advanced, Through
<1>4. Orderly(Refreshed(Prepared(Controlled(c))))
    BY <1>2, ControlledOrderly, PreparedOrderly, RefreshedOrderly
<1> QED BY <1>3, <1>4, ConsumedOrderly

\* A whole scan.
LEMMA ScanOrderly ==
    ASSUME Orderly(db), OcrInv, Scan
    PROVE  Orderly(db')
<1>1. PICK d \in Advanced : \E verdict \in [Recognized(d) -> Verdicts] :
          \E g \in Grants(Finalized(d, verdict), "gpu") :
          \E h \in Grants(g, "cpu") : db' = Aggregated(h)
    BY DEF Scan
<1>2. PICK verdict \in [Recognized(d) -> Verdicts] :
          \E g \in Grants(Finalized(d, verdict), "gpu") :
          \E h \in Grants(g, "cpu") : db' = Aggregated(h)
    BY <1>1
<1>3. Orderly(Finalized(d, verdict)) /\ Digested(Finalized(d, verdict))
    BY AdvancedOrderly, FinalizedOrderly
<1>4. PICK g \in Grants(Finalized(d, verdict), "gpu") :
          \E h \in Grants(g, "cpu") : db' = Aggregated(h)
    BY <1>2
<1>5. Orderly(g) /\ Digested(g)
    BY <1>3, GrantsOrderly DEF Runtimes
<1>6. PICK h \in Grants(g, "cpu") : db' = Aggregated(h)
    BY <1>4
<1>7. Orderly(h)
    BY <1>5, GrantsOrderly DEF Runtimes
<1> QED BY <1>6, <1>7, AggregatedOrderly

\* An attempt that is given up leaves the other one in order.
LEMMA AbandonedOrderly ==
    ASSUME NEW d, Orderly(d), NEW k \in Runtimes
    PROVE  Orderly(Abandoned(d, k))
<1>0. d \in Databases
    BY DEF Orderly
<1>1. CASE ~Leased(d, k)
    BY <1>1 DEF Abandoned, Leased
<1>2. CASE Leased(d, k)
    <2> DEFINE e == Abandoned(d, k)
               i == d.lease[k].item
               it == [d.item EXCEPT ![i] = IF @ = "running" THEN "ready" ELSE @]
               f == [e EXCEPT !.item = d.item]
    <2>1. /\ i \in Items /\ d.item[i] = "running" /\ d.rt[i] = k
          /\ Led(d, k) \in Images /\ d.shared[Led(d, k)][k] = "running"
        <3>1. Led(d, k) \in Images
            BY <1>0, <1>2, LedImage DEF Orderly
        <3>2. d.shared[Led(d, k)][k] = "running"
            BY <1>2, LeasedOrder, SMTT(40) DEF Serving, Led
        <3> QED BY <1>2, <3>1, <3>2, LeasedRuntime, LeasedOrder DEF Serving
    <2>2. /\ e.job = d.job /\ e.rt = d.rt /\ e.cons = d.cons /\ e.gen = d.gen
          /\ e.lease = [d.lease EXCEPT ![k] = NoLease]
          /\ e.item = it
        BY <1>0, <1>2 DEF Abandoned, Released, Databases, Leased
    <2>3. e.shared = [d.shared EXCEPT ![Led(d, k)][k] = IF @ = "running" THEN "queued" ELSE @]
        BY <1>0, <1>2 DEF Abandoned, Released, Databases, Leased, Led
    <2>4. e \in Databases
        BY <1>0, AbandonedStep DEF Orderly
    <2> HIDE DEF e
    <2>5. /\ f \in Databases /\ f.item = d.item /\ f.job = d.job /\ f.rt = d.rt
          /\ f.cons = d.cons /\ f.gen = d.gen /\ f.shared = e.shared /\ f.lease = e.lease
          /\ e = [f EXCEPT !.item = e.item]
        <3>1. d.item \in [Items -> ItemStatus]
            BY <1>0, Fields
        <3> QED BY <2>2, <2>4, <3>1 DEF Databases
    <2> HIDE DEF f
    <2>6. \A m \in Images, q \in Runtimes :
              e.shared[m][q] = IF m = Led(d, k) /\ q = k THEN "queued" ELSE d.shared[m][q]
        <3>1. d.shared \in [Images -> [Runtimes -> WorkStatus]]
            BY <1>0, Fields DEF WorkTable
        <3> QED BY <2>1, <2>3, <3>1
    <2>7. \A m \in Images : e.shared[m][k] # "running"
        BY <2>6 DEF Orderly, Producing, Led
    <2>8. Free(d, f, k)
        BY <2>2, <2>5 DEF Free
    <2>9. Orderly(f) /\ ~Leased(f, k)
        BY <1>2, <2>5, <2>6, <2>7, <2>8, FreedOrderly
    <2>10. \A q \in Runtimes : Leased(f, q) => f.lease[q].item \notin {i}
        BY <2>1, <2>5, <2>9, LeasedRuntime
    <2>11. \A h \in Items : e.item[h] = f.item[h] \/ (h \in {i} /\ e.item[h] # "running")
        BY <1>0, <2>1, <2>2, <2>5, Fields
    <2>12. Affine(e)
        BY <2>2 DEF Orderly, Affine
    <2>13. /\ e.job = f.job /\ e.lease = f.lease /\ e.cons = f.cons /\ e.shared = f.shared
        BY <2>2, <2>5
    <2> QED BY <2>4, <2>9, <2>10, <2>11, <2>12, <2>13, PassOrderly DEF e
<1> QED BY <1>1, <1>2

\* The operator only brings audits to work, or asks them to stop.
LEMMA OperatorOrderly ==
    ASSUME Orderly(db), OcrInv', Operator
    PROVE  Orderly(db')
<1> PICK j \in Jobs : StartJob(j) \/ Pause(j) \/ Resume(j) \/ Cancel(j)
    BY DEF Operator
<1>0. db \in Databases /\ db' \in Databases
    BY DEF Orderly, OcrInv
<1>1. /\ db'.lease = db.lease /\ db'.shared = db.shared /\ db'.rt = db.rt /\ db'.gen = db.gen
    BY <1>0 DEF StartJob, Pause, Resume, Cancel, Databases
<1>2. \A h \in Jobs : db'.job[h] = db.job[h]
                      \/ db'.job[h] \in AtWork
    <2>1. \E s \in AtWork : db'.job = [db.job EXCEPT ![j] = s]
        <3>1. {"active", "pause_requested", "cancel_requested"} \subseteq AtWork
            BY DEF AtWork, ControlledJob
        <3>2. CASE StartJob(j)
            BY <1>0, <3>1, <3>2 DEF StartJob, Databases
        <3>3. CASE Pause(j)
            BY <1>0, <3>1, <3>3 DEF Pause, Databases
        <3>4. CASE Resume(j)
            BY <1>0, <3>1, <3>4 DEF Resume, Databases
        <3>5. CASE Cancel(j)
            BY <1>0, <3>1, <3>5 DEF Cancel, Databases
        <3> QED BY <3>2, <3>3, <3>4, <3>5
    <2>2. db.job \in [Jobs -> JobStatus]
        BY <1>0, Fields
    <2> QED BY <2>1, <2>2
<1>3. \A i \in Items : \/ db'.item[i] = db.item[i]
                       \/ db.job[JobOf[i]] = "absent" /\ db'.item[i] = "ready"
    <2>1. CASE StartJob(j)
        BY <1>0, <2>1 DEF StartJob, Databases
    <2>2. CASE Pause(j) \/ Resume(j) \/ Cancel(j)
        BY <1>0, <2>2 DEF Pause, Resume, Cancel, Databases
    <2> QED BY <2>1, <2>2
<1>4. \A i \in Items, r \in Roles, k \in Runtimes :
          \/ db'.cons[i][r][k] = db.cons[i][r][k]
          \/ db.job[JobOf[i]] = "paused" /\ db.cons[i][r][k] = "paused"
    <2>1. db.cons \in ConsumerTable
        BY <1>0, Fields
    <2>2. CASE Resume(j)
        <3>1. db'.cons = Moved(db.cons, ItemsOf(j), {"paused"}, "waiting")
            BY <1>0, <2>2 DEF Resume, Databases
        <3> QED BY <2>1, <2>2, <3>1 DEF Moved, ItemsOf, Resume
    <2>3. CASE StartJob(j) \/ Pause(j) \/ Cancel(j)
        BY <1>0, <2>3 DEF StartJob, Pause, Cancel, Databases
    <2> QED BY <2>2, <2>3
<1>5. "absent" \notin AtWork /\ "paused" \notin AtWork
    BY DEF AtWork, ControlledJob
<1>6. Served(db')
    <2> SUFFICES ASSUME NEW k \in Runtimes, Leased(db', k) PROVE ServedAt(db', k)
        BY DEF Served
    <2>1. /\ Leased(db, k) /\ db.lease[k].item \in Items
          /\ JobOf[db.lease[k].item] \in Jobs
          /\ db.job[JobOf[db.lease[k].item]] \in AtWork
        <3>1. Leased(db, k)
            BY <1>1 DEF Leased
        <3> QED BY <3>1, LeasedOrder DEF Serving
    <2>2. db'.job[JobOf[db.lease[k].item]] \in AtWork
        BY <1>2, <2>1
    <2> QED BY <1>0, <1>1, <1>3, <1>4, <1>5, <2>1, <2>2, ServedKept, SMTT(40)
<1>7. Producing(db')
    BY <1>1, ProducingKept
<1>8. Affine(db')
    BY <1>1, <1>4 DEF Orderly, Affine, ActiveConsumer
<1>9. RunsAtWork(db')
    BY <1>2, <1>3, ConstantsAssumption DEF Orderly, RunsAtWork
<1> QED BY <1>6, <1>7, <1>8, <1>9 DEF Orderly, OcrInv

\* The process and the executor.
LEMMA ProcessOrderly ==
    ASSUME Orderly(db), OcrInv',
           \/ ScanFails \/ Stop \/ Crash \/ Boot
           \/ \E k \in Runtimes : Recover(k) \/ Execute(k)
    PROVE  Orderly(db')
<1>1. CASE UNCHANGED db
    BY <1>1
<1>2. ASSUME NEW k \in Runtimes, Recover(k) PROVE Orderly(db')
    BY <1>2, AbandonedOrderly DEF Recover
<1>3. CASE Stop
    <2> DEFINE give(d, k) == IF Leased(d, k) /\ d.lease[k].mine THEN Abandoned(d, k) ELSE d
    <2>1. \A d : \A k \in Runtimes : Orderly(d) => Orderly(give(d, k))
        BY AbandonedOrderly
    <2>2. db' = give(give(db, "gpu"), "cpu")
        BY <1>3 DEF Stop
    <2> HIDE DEF give
    <2> QED BY <2>1, <2>2 DEF Runtimes
<1>4. CASE Crash
    <2>0. db \in Databases
        BY DEF Orderly
    <2>1. /\ db'.job = db.job /\ db'.item = db.item /\ db'.cons = db.cons
          /\ db'.rt = db.rt /\ db'.gen = db.gen /\ db'.shared = db.shared
        BY <1>4, <2>0 DEF Crash, Databases
    <2>2. \A k \in Runtimes : /\ Leased(db', k) <=> Leased(db, k)
                              /\ Leased(db, k) => db'.lease[k].item = db.lease[k].item
                                                  /\ db'.lease[k].batch = db.lease[k].batch
        <3> TAKE k \in Runtimes
        <3>1. db'.lease[k] = IF db.lease[k].held THEN [db.lease[k] EXCEPT !.mine = FALSE]
                             ELSE db.lease[k]
            BY <1>4, <2>0 DEF Crash, Databases
        <3>2. CASE db.lease[k] \in Leases
            BY <3>1, <3>2 DEF Leases, Leased
        <3>3. CASE db.lease[k] = NoLease
            BY <3>1, <3>3 DEF NoLease, Leased
        <3> QED BY <2>0, <3>2, <3>3, Fields
    <2>3. Served(db')
        <3> SUFFICES ASSUME NEW k \in Runtimes, Leased(db', k) PROVE ServedAt(db', k)
            BY DEF Served
        <3>1. Serving(db, k, db'.lease[k].item, db'.lease[k].batch)
            <4>1. Leased(db, k) /\ db.lease[k].item = db'.lease[k].item
                  /\ db.lease[k].batch = db'.lease[k].batch
                BY <2>2
            <4>2. Serving(db, k, db.lease[k].item, db.lease[k].batch)
                BY <4>1, LeasedServing
            <4> QED BY <4>1, <4>2
        <3>2. Serving(db', k, db'.lease[k].item, db'.lease[k].batch)
            BY <2>1, <3>1, ServingSame
        <3> QED BY <3>2, ServedIs
    <2>4. Producing(db')
        BY <2>1, <2>2 DEF Orderly, Producing
    <2>5. Affine(db') /\ RunsAtWork(db')
        BY <2>1 DEF Orderly, Affine, RunsAtWork
    <2> QED BY <2>3, <2>4, <2>5 DEF Orderly, OcrInv
<1> QED BY <1>1, <1>2, <1>3, <1>4 DEF ScanFails, Boot, Execute

-------------------------------------------------------------------------------
(* The theorems about batches and controls. *)

\* Everything is in order at first.
LEMMA InitOrderly == Init => Orderly(db)
<1> SUFFICES ASSUME Init PROVE Orderly(db)
    OBVIOUS
<1>1. db \in Databases /\ LeasesSound(db)
    BY InitOcr DEF OcrInv
<1>2. Affine(db) /\ Producing(db) /\ RunsAtWork(db)
    BY DEF Init, Affine, Producing, RunsAtWork, ActiveConsumer
<1>3. Served(db)
    BY DEF Init, Served, Leased, NoLease
<1> QED BY <1>1, <1>2, <1>3 DEF Orderly

\* Every step preserves the order.
LEMMA NextOrderly == OcrInv /\ OcrInv' /\ Orderly(db) /\ [Next]_vars => Orderly(db)'
<1> SUFFICES ASSUME OcrInv, OcrInv', Orderly(db), [Next]_vars PROVE Orderly(db')
    OBVIOUS
<1>1. CASE UNCHANGED vars
    BY <1>1 DEF vars
<1>2. CASE Next
    BY <1>2, OperatorOrderly, ScanOrderly, ProcessOrderly DEF Next
<1> QED BY <1>1, <1>2

\* For any number of audits, vehicles and images, and whatever pauses, cancellations,
\* failures of the other runtime, crashes and recoveries come between the grant and the
\* result: the batch of a leased vehicle is what it was when it was granted, and nothing
\* counts as being produced without a lease.
THEOREM BatchStays == Spec => []BatchIntact
<1>1. OcrInv /\ Orderly(db) => BatchIntact
    BY DEF OcrInv, Orderly, Served, ServedAt, Producing, BatchIntact
<1> QED BY <1>1, InitOcr, NextOcr, InitOrderly, NextOrderly, PTL DEF Spec

\* An audit that is paused, waits for a person or has ended has no vehicle on a slot and
\* none that runs, for any number of audits and vehicles.
THEOREM BoundaryHolds == Spec => []VehicleBoundary
<1>1. Orderly(db) => VehicleBoundary
    <2> SUFFICES ASSUME Orderly(db), NEW j \in Jobs,
                        db.job[j] \in {"paused", "waiting_user"} \cup TerminalJob
                 PROVE  /\ \A k \in Runtimes : Leased(db, k) => LeasedJob(db, k) # j
                        /\ \A i \in ItemsOf(j) : db.item[i] # "running"
        BY DEF VehicleBoundary
    <2>1. db.job[j] \notin AtWork
        BY DEF AtWork, ControlledJob, TerminalJob
    <2> QED BY <2>1 DEF Orderly, Served, ServedAt, RunsAtWork, LeasedJob, ItemsOf
<1> QED BY <1>1, InitOcr, NextOcr, InitOrderly, NextOrderly, PTL DEF Spec

-------------------------------------------------------------------------------
(* What a vehicle has got, pass by pass. *)

\* Each output of vehicle i is the stored artifact of its runtime, consumed; what counts as
\* done has an output; a recognized vehicle has them all and only such a one succeeds.
WholeAt(d, i) ==
    /\ \A r \in Roles : d.out[i][r] # "none" =>
         /\ r \in Shows(i) /\ d.gen[i] # "none"
         /\ d.out[i][r] = d.rt[i]
         /\ d.cons[i][r][d.rt[i]] = "consumed"
         /\ Work(d, i, r, d.rt[i]) = "succeeded"
    /\ \A r \in Shows(i) \cap d.done[i] : d.out[i][r] # "none"
    /\ d.gen[i] = "succeeded" => \A r \in Shows(i) : d.out[i][r] # "none"
    /\ d.item[i] = "succeeded" => d.gen[i] = "succeeded"

Whole(d) == \A i \in Items : WholeAt(d, i)

\* A step that takes nothing from vehicle i that it has got.
LEMMA WholeKept ==
    ASSUME NEW d \in Databases, NEW e \in Databases, NEW i \in Items, WholeAt(d, i),
           Kept(d, e),
           e.out[i] = d.out[i], e.done[i] = d.done[i], e.rt[i] = d.rt[i],
           \/ e.gen[i] = d.gen[i]
           \/ d.gen[i] # "succeeded" /\ e.gen[i] \notin {"none", "succeeded"},
           \/ e.item[i] = d.item[i] \/ e.item[i] # "succeeded",
           \A r \in Roles, k \in Runtimes :
               d.cons[i][r][k] = "consumed" => e.cons[i][r][k] = "consumed"
    PROVE  WholeAt(e, i)
<1>1. d.rt[i] \in Runtimes
    BY Fields
<1>2. \A r \in Roles : d.out[i][r] # "none" =>
          /\ r \in Shows(i) /\ d.gen[i] # "none"
          /\ d.out[i][r] = d.rt[i]
          /\ d.cons[i][r][d.rt[i]] = "consumed"
          /\ d.shared[ImageOf[i][r]][d.rt[i]] = "succeeded"
    BY DEF WholeAt, Work
<1>3. \A r \in Roles : d.out[i][r] # "none" =>
          /\ e.cons[i][r][d.rt[i]] = "consumed"
          /\ e.shared[ImageOf[i][r]][d.rt[i]] = "succeeded"
    BY <1>1, <1>2, ShownImages DEF Kept, Final
<1>4. \A r \in Roles : e.out[i][r] # "none" =>
         /\ r \in Shows(i) /\ e.gen[i] # "none"
         /\ e.out[i][r] = e.rt[i]
         /\ e.cons[i][r][e.rt[i]] = "consumed"
         /\ Work(e, i, r, e.rt[i]) = "succeeded"
    BY <1>2, <1>3 DEF Work
<1>5. \A r \in Shows(i) \cap e.done[i] : e.out[i][r] # "none"
    BY DEF WholeAt
<1>6. e.gen[i] = "succeeded" => \A r \in Shows(i) : e.out[i][r] # "none"
    BY DEF WholeAt
<1>7. e.item[i] = "succeeded" => e.gen[i] = "succeeded"
    BY DEF WholeAt
<1> QED BY <1>4, <1>5, <1>6, <1>7 DEF WholeAt

\* Registration takes nothing from a vehicle that has nothing.
LEMMA RegisteredWhole ==
    ASSUME NEW d \in Databases, NEW items \in SUBSET Items, NEW k \in Runtimes, Whole(d),
           \A i \in items : \A r \in Roles : d.out[i][r] = "none"
    PROVE  Whole(Registered(d, items, k))
<1> DEFINE e == Registered(d, items, k)
<1>1. e \in Databases /\ Kept(d, e)
    BY RegisteredStep, GrownKept
<1>2. e.out = d.out /\ e.done = d.done /\ e.rt = d.rt /\ e.gen = d.gen
    BY DEF Registered, Databases
<1>3. \A i \in Items : e.item[i] = d.item[i] \/ e.item[i] # "succeeded"
    BY DEF Registered, Databases
<1>4. \A i \in Items \ items : e.cons[i] = d.cons[i]
    BY DEF Registered, Databases
<1> HIDE DEF e
<1>5. ASSUME NEW i \in Items \ items PROVE WholeAt(e, i)
    <2>1. \A r \in Roles, q \in Runtimes : d.cons[i][r][q] = "consumed" => e.cons[i][r][q] = "consumed"
        BY <1>4, Fields
    <2> QED BY <1>1, <1>2, <1>3, <2>1, WholeKept DEF Whole
<1>6. ASSUME NEW i \in items PROVE WholeAt(e, i)
    <2>1. WholeAt(d, i) /\ \A r \in Roles : d.out[i][r] = "none"
        BY DEF Whole
    <2>2. e.item[i] = d.item[i] \/ e.item[i] # "succeeded"
        BY <1>3
    <2> QED BY <1>2, <2>1, <2>2 DEF WholeAt
<1> QED BY <1>5, <1>6 DEF Whole, e

\* A step that changes neither what a vehicle has got nor its generation.
LEMMA QuietWhole ==
    ASSUME NEW d \in Databases, NEW e \in Databases, Whole(d), Kept(d, e),
           e.out = d.out, e.done = d.done, e.rt = d.rt,
           \A i \in Items : \/ e.gen[i] = d.gen[i]
                            \/ d.gen[i] # "succeeded" /\ e.gen[i] \notin {"none", "succeeded"},
           \A i \in Items : e.item[i] = d.item[i] \/ e.item[i] # "succeeded",
           \A i \in Items, r \in Roles, k \in Runtimes :
               d.cons[i][r][k] = "consumed" => e.cons[i][r][k] = "consumed"
    PROVE  Whole(e)
BY WholeKept DEF Whole

\* What has been consumed is not active.
LEMMA NotConsumed == "consumed" \notin ActiveConsumer
BY DEF ActiveConsumer

\* A failure ends only consumers that have not consumed.
LEMMA PropagatedWhole ==
    ASSUME NEW d \in Databases, Whole(d), NEW m, NEW k \in Runtimes
    PROVE  Whole(Propagated(d, m, k))
<1> DEFINE e == Propagated(d, m, k)
<1>1. e \in Databases /\ Kept(d, e)
    BY PropagatedStep DEF Kept
<1>2. e.out = d.out /\ e.done = d.done /\ e.rt = d.rt /\ e.gen = d.gen
    BY DEF Propagated, Databases
<1>3. \A i \in Items : e.item[i] = d.item[i] \/ e.item[i] # "succeeded"
    BY DEF Propagated, Databases
<1>4. \A i \in Items, r \in Roles, q \in Runtimes :
          d.cons[i][r][q] = "consumed" => e.cons[i][r][q] = "consumed"
    <2>1. \A i \in Items, r \in Roles : r \in Expects(d, i, m, k) => d.cons[i][r][k] # "consumed"
        BY NotConsumed DEF Expects
    <2> QED BY <2>1, Fields DEF Propagated, Databases, ConsumerTable
<1> HIDE DEF e
<1> QED BY <1>1, <1>2, <1>3, <1>4, QuietWhole DEF e

\* What is done from the start is a ticket that the vehicle does not show.
LEMMA AlreadyUnshown == \A i \in Items : Shows(i) \cap AlreadyComplete(i) = {}
BY DEF AlreadyComplete, PendingUnloading

\* A restarted vehicle drops all it has, so it has nothing of the runtime it leaves.
LEMMA RestartedWhole ==
    ASSUME NEW d \in Databases, Whole(d), NEW m
    PROVE  Whole(RestartedOnCpu(d, m))
<1> DEFINE items == {i \in Items : /\ Expects(d, i, m, "gpu") # {}
                                   /\ d.rt[i] = "gpu"
                                   /\ d.gen[i] \in {"queued", "running"}}
           c == [i \in Items |-> [r \in Roles |->
                        IF /\ i \in items
                           /\ d.cons[i][r].gpu \in ActiveConsumer \cup {"consumed"}
                        THEN [d.cons[i][r] EXCEPT !.gpu = "cancelled"]
                        ELSE d.cons[i][r]]]
           g == [i \in Items |-> IF i \in items THEN "fallback_wait" ELSE d.gen[i]]
           rt == [i \in Items |-> IF i \in items THEN "cpu" ELSE d.rt[i]]
           o == [i \in Items |-> IF i \in items THEN [r \in Roles |-> "none"] ELSE d.out[i]]
           it == [i \in Items |-> IF i \in items THEN "ready" ELSE d.item[i]]
           dn == [i \in Items |-> IF i \in items THEN AlreadyComplete(i) ELSE d.done[i]]
           dropped == [d EXCEPT !.cons = c, !.gen = g, !.rt = rt, !.out = o,
                                !.item = it, !.done = dn]
<1>1. "cancelled" \in ConsumerStatus /\ "fallback_wait" \in GenStatus
      /\ "cpu" \in Runtimes /\ "ready" \in ItemStatus
      /\ \A i : AlreadyComplete(i) \in SUBSET Roles
    BY DEF ConsumerStatus, GenStatus, Runtimes, ItemStatus, AlreadyComplete, Roles
<1>2. c \in ConsumerTable
    <2>1. d.cons \in ConsumerTable
        BY Fields
    <2> HIDE DEF items
    <2> QED BY <1>1, <2>1 DEF ConsumerTable
<1>3. /\ g \in [Items -> GenStatus] /\ rt \in [Items -> Runtimes]
      /\ o \in [Items -> [Roles -> Runtimes \cup {"none"}]]
      /\ it \in [Items -> ItemStatus] /\ dn \in [Items -> SUBSET Roles]
    BY <1>1, Fields
<1>4. RestartedOnCpu(d, m) = Registered(dropped, items, "cpu")
    BY DEF RestartedOnCpu, Databases
<1>5. /\ \A i \in items : /\ \A r \in Roles : o[i][r] = "none"
                          /\ g[i] = "fallback_wait" /\ it[i] = "ready"
                          /\ dn[i] = AlreadyComplete(i)
      /\ \A i \in Items \ items : /\ o[i] = d.out[i] /\ g[i] = d.gen[i] /\ it[i] = d.item[i]
                                  /\ dn[i] = d.done[i] /\ rt[i] = d.rt[i]
                                  /\ \A r \in Roles : c[i][r] = d.cons[i][r]
      /\ items \in SUBSET Items
    OBVIOUS
<1> HIDE DEF c, g, rt, o, it, dn, items
<1>6. /\ dropped \in Databases /\ dropped.shared = d.shared
      /\ dropped.item = it /\ dropped.cons = c /\ dropped.done = dn
      /\ dropped.rt = rt /\ dropped.gen = g /\ dropped.out = o
    BY <1>2, <1>3 DEF Databases, ConsumerTable
<1> HIDE DEF dropped
<1>7. ASSUME NEW i \in items PROVE WholeAt(dropped, i)
    <2>1. Shows(i) \cap dn[i] = {}
        BY <1>5, AlreadyUnshown
    <2> QED BY <1>5, <1>6, <2>1 DEF WholeAt
<1>8. ASSUME NEW i \in Items \ items PROVE WholeAt(dropped, i)
    <2>1. Kept(d, dropped)
        BY <1>6 DEF Kept
    <2> QED BY <1>5, <1>6, <2>1, WholeKept DEF Whole
<1>9. Whole(dropped)
    BY <1>5, <1>7, <1>8 DEF Whole
<1> QED BY <1>1, <1>4, <1>5, <1>6, <1>9, RegisteredWhole

\* A vehicle without a generation has nothing.
LEMMA PreparedWhole ==
    ASSUME NEW d \in Databases, Whole(d)
    PROVE  Whole(Prepared(d))
<1> DEFINE new == {i \in Items : /\ d.job[JobOf[i]] = "active"
                                 /\ d.item[i] = "ready"
                                 /\ d.gen[i] = "none"}
           run == {i \in new : "loading" \in Shows(i)}
           it == [i \in Items |-> IF i \in new \ run THEN "waiting_user" ELSE d.item[i]]
           g == [i \in Items |-> IF i \in run THEN "queued" ELSE d.gen[i]]
           rt == [i \in Items |-> IF i \in run THEN Primary ELSE d.rt[i]]
           dn == [i \in Items |-> IF i \in run THEN AlreadyComplete(i) ELSE d.done[i]]
           e == [d EXCEPT !.item = it, !.gen = g, !.rt = rt, !.done = dn]
<1>1. "waiting_user" \in ItemStatus /\ "queued" \in GenStatus /\ Primary \in Runtimes
      /\ \A i : AlreadyComplete(i) \in SUBSET Roles
    BY DEF GenStatus, Runtimes, ItemStatus, AlreadyComplete, Roles, Primary
<1>2. /\ g \in [Items -> GenStatus] /\ rt \in [Items -> Runtimes]
      /\ it \in [Items -> ItemStatus] /\ dn \in [Items -> SUBSET Roles]
    BY <1>1, Fields
<1>3. Prepared(d) = Registered(e, run, Primary)
    BY DEF Prepared, Databases
<1>4. /\ run \in SUBSET Items
      /\ \A i \in run : /\ d.gen[i] = "none" /\ d.item[i] = "ready" /\ g[i] = "queued"
                        /\ dn[i] = AlreadyComplete(i) /\ it[i] = d.item[i]
      /\ \A i \in Items \ run : g[i] = d.gen[i] /\ dn[i] = d.done[i] /\ rt[i] = d.rt[i]
      /\ \A i \in Items : it[i] = d.item[i] \/ it[i] # "succeeded"
    OBVIOUS
<1> HIDE DEF g, rt, it, dn, new, run
<1>5. /\ e \in Databases /\ e.shared = d.shared /\ e.cons = d.cons /\ e.out = d.out
      /\ e.item = it /\ e.rt = rt /\ e.gen = g /\ e.done = dn
    BY <1>2 DEF Databases
<1> HIDE DEF e
<1>6. \A i \in run : \A r \in Roles : d.out[i][r] = "none"
    BY <1>4 DEF Whole, WholeAt
<1>7. ASSUME NEW i \in run PROVE WholeAt(e, i)
    <2>1. Shows(i) \cap dn[i] = {}
        BY <1>4, AlreadyUnshown
    <2> QED BY <1>4, <1>5, <1>6, <2>1 DEF WholeAt
<1>8. ASSUME NEW i \in Items \ run PROVE WholeAt(e, i)
    <2>1. Kept(d, e)
        BY <1>5 DEF Kept
    <2> QED BY <1>4, <1>5, <2>1, WholeKept DEF Whole
<1>9. Whole(e)
    BY <1>4, <1>7, <1>8 DEF Whole
<1> QED BY <1>1, <1>3, <1>4, <1>5, <1>6, <1>9, RegisteredWhole

\* Controls take nothing from a vehicle.
LEMMA ControlledWhole ==
    ASSUME NEW d \in Databases, Whole(d)
    PROVE  Whole(Controlled(d))
<1> DEFINE e == Controlled(d)
<1>1. e \in Databases /\ Kept(d, e)
    BY ControlledStep DEF Kept
<1>2. e.out = d.out /\ e.done = d.done /\ e.rt = d.rt /\ e.gen = d.gen
    BY DEF Controlled, Databases
<1>3. \A i \in Items : e.item[i] = d.item[i] \/ e.item[i] # "succeeded"
    BY DEF Controlled, Databases
<1>4. \A i \in Items, r \in Roles, q \in Runtimes :
          d.cons[i][r][q] = "consumed" => e.cons[i][r][q] = "consumed"
    BY NotConsumed DEF Controlled, Databases, Moved
<1> HIDE DEF e
<1> QED BY <1>1, <1>2, <1>3, <1>4, QuietWhole DEF e

\* Nor does recounting.
LEMMA RefreshedWhole ==
    ASSUME NEW d \in Databases, Whole(d)
    PROVE  Whole(Refreshed(d))
<1> DEFINE e == Refreshed(d)
<1>1. e \in Databases /\ Kept(d, e)
    BY RefreshedStep
<1>2. /\ e.out = d.out /\ e.done = d.done /\ e.rt = d.rt /\ e.gen = d.gen
      /\ e.item = d.item /\ e.cons = d.cons
    BY DEF Refreshed, Databases
<1> HIDE DEF e
<1> QED BY <1>1, <1>2, QuietWhole DEF e

\* What is consumed is stored, of the runtime of the vehicle, and recorded with it; a
\* generation is complete only with an output for each ticket.
LEMMA ConsumedWhole ==
    ASSUME NEW d \in Databases, Whole(d)
    PROVE  Whole(Consumed(d))
<1> DEFINE e == Consumed(d)
           C(i) == Consumable(d, i, d.rt[i])
<1>1. e \in Databases /\ e.shared = d.shared /\ e.rt = d.rt
    <2>1. e.rt = d.rt
        BY DEF Consumed, Databases
    <2> HIDE DEF e
    <2>2. e \in Databases /\ e.shared = d.shared
        BY ConsumedStep DEF e
    <2> QED BY <2>1, <2>2
<1>2. \A i \in Items, r \in Roles :
          e.out[i][r] = IF r \in C(i) THEN d.rt[i] ELSE d.out[i][r]
    BY DEF Consumed, Databases
<1>3. \A i \in Items : e.done[i] = d.done[i] \cup C(i)
    BY DEF Consumed, Databases
<1>4. \A i \in Items :
          /\ C(i) = {} => e.gen[i] = d.gen[i] /\ e.item[i] = d.item[i]
          /\ C(i) # {} => /\ e.item[i] = "ready"
                          /\ \/ e.gen[i] = "running"
                             \/ /\ e.gen[i] = "succeeded"
                                /\ e.out[i]["loading"] # "none"
                                /\ "unloading" \in e.done[i]
    BY DEF Consumed, Databases
<1>5. \A i \in Items, r \in Roles :
          e.cons[i][r][d.rt[i]] = IF r \in C(i) THEN "consumed" ELSE d.cons[i][r][d.rt[i]]
    BY Fields DEF Consumed, Databases, ConsumerTable
<1>6. \A i \in Items : \A r \in C(i) :
          r \in Shows(i) /\ Work(d, i, r, d.rt[i]) = "succeeded"
    BY DEF Consumable
<1>7. \A i \in Items : d.rt[i] # "none"
    BY Fields DEF Runtimes
<1> HIDE DEF e, C
<1>8. ASSUME NEW i \in Items PROVE WholeAt(e, i)
    <2>0. WholeAt(d, i)
        BY DEF Whole
    <2>1. ASSUME NEW r \in Roles, e.out[i][r] # "none"
          PROVE  /\ r \in Shows(i) /\ e.gen[i] # "none"
                 /\ e.out[i][r] = e.rt[i]
                 /\ e.cons[i][r][e.rt[i]] = "consumed"
                 /\ Work(e, i, r, e.rt[i]) = "succeeded"
        <3>1. CASE r \in C(i)
            BY <1>1, <1>2, <1>4, <1>5, <1>6, <3>1 DEF Work
        <3>2. CASE r \notin C(i)
            <4>1. d.out[i][r] # "none" /\ e.out[i][r] = d.out[i][r]
                BY <1>2, <2>1, <3>2
            <4>2. d.gen[i] # "none" /\ e.gen[i] # "none"
                BY <1>4, <2>0, <4>1 DEF WholeAt
            <4> QED BY <1>1, <1>5, <2>0, <3>2, <4>1, <4>2 DEF WholeAt, Work
        <3> QED BY <3>1, <3>2
    <2>2. \A r \in Shows(i) \cap e.done[i] : e.out[i][r] # "none"
        BY <1>2, <1>3, <1>7, <2>0 DEF WholeAt, Shows
    <2>3. e.gen[i] = "succeeded" => \A r \in Shows(i) : e.out[i][r] # "none"
        <3>1. CASE C(i) = {}
            BY <1>2, <1>4, <2>0, <3>1 DEF WholeAt, Shows
        <3>2. CASE C(i) # {}
            BY <1>4, <2>2, <3>2 DEF Shows, Roles
        <3> QED BY <3>1, <3>2
    <2>4. e.item[i] = "succeeded" => e.gen[i] = "succeeded"
        BY <1>4, <2>0 DEF WholeAt
    <2> QED BY <2>1, <2>2, <2>3, <2>4 DEF WholeAt
<1> QED BY <1>8 DEF Whole, e

\* Only recognized vehicles are evaluated.
LEMMA FinalizedWhole ==
    ASSUME NEW d \in Databases, Whole(d), NEW verdict \in [Recognized(d) -> Verdicts]
    PROVE  Whole(Finalized(d, verdict))
<1> DEFINE e == Finalized(d, verdict)
<1>1. /\ e.out = d.out /\ e.done = d.done /\ e.rt = d.rt /\ e.gen = d.gen
      /\ e.cons = d.cons /\ e.shared = d.shared
    BY DEF Finalized, Databases
<1>2. \A i \in Items : e.item[i] = d.item[i] \/ d.gen[i] = "succeeded"
    BY DEF Finalized, Databases, Recognized
<1> HIDE DEF e
<1> QED BY <1>1, <1>2 DEF Whole, WholeAt, Work, e

\* The status of audits takes nothing from a vehicle.
LEMMA AggregatedWhole ==
    ASSUME NEW d \in Databases, Whole(d)
    PROVE  Whole(Aggregated(d))
<1> DEFINE e == Aggregated(d)
<1>1. /\ e.out = d.out /\ e.done = d.done /\ e.rt = d.rt /\ e.gen = d.gen
      /\ e.cons = d.cons /\ e.shared = d.shared /\ e.item = d.item
    BY DEF Aggregated, Databases
<1> HIDE DEF e
<1> QED BY <1>1 DEF Whole, WholeAt, Work, e

\* A grant takes nothing from a vehicle, and wakes only generations that wait.
LEMMA GrantsWhole ==
    ASSUME NEW d \in Databases, LeasesSound(d), Whole(d), NEW k \in Runtimes,
           NEW e \in Grants(d, k)
    PROVE  Whole(e)
<1>1. e \in Databases /\ Kept(d, e)
    BY GrantsStep
<1>2. e = d \/ \E i \in Items, b \in (SUBSET Roles) \ {{}} : e = Granted(d, k, i, b)
    <2>1. \A p \in Rows(d, k) : p[1] \in Items
        BY DEF Rows
    <2>2. e = d \/ \E pick \in {p[1] : p \in Rows(d, k)} \X ((SUBSET Roles) \ {{}}) :
                        e = Granted(d, k, pick[1], pick[2])
        BY DEF Grants
    <2> QED BY <2>1, <2>2
<1>3. ASSUME NEW i \in Items, NEW b \in (SUBSET Roles) \ {{}}, e = Granted(d, k, i, b)
      PROVE  Whole(e)
    <2>1. e.out = d.out /\ e.done = d.done /\ e.rt = d.rt /\ e.cons = d.cons
        BY <1>3 DEF Granted, Databases
    <2>2. \A h \in Items : \/ e.gen[h] = d.gen[h]
                           \/ d.gen[h] # "succeeded" /\ e.gen[h] \notin {"none", "succeeded"}
        BY <1>3 DEF Granted, Databases
    <2>3. \A h \in Items : e.item[h] = d.item[h] \/ e.item[h] # "succeeded"
        <3>1. e.item = [d.item EXCEPT ![i] = "running"]
            BY <1>3 DEF Granted, Databases
        <3> QED BY <3>1, Fields
    <2> QED BY <1>1, <2>1, <2>2, <2>3, QuietWhole
<1> QED BY <1>2, <1>3

\* A result takes nothing from those that it does not restart.
LEMMA DeliveredWhole ==
    ASSUME NEW d, Orderly(d), Whole(d), NEW k \in Runtimes, NEW result \in Results,
           Leased(d, k)
    PROVE  Whole(Delivered(d, k, result))
<1>0. d \in Databases /\ LeasesSound(d) /\ Intact(d, k)
    BY DEF Orderly, Served, ServedAt
<1>1. \A r \in d.lease[k].batch :
          d.shared[ImageOf[d.lease[k].item][r]][k] \in {"running", "queued"}
    BY <1>0 DEF Intact, Work
<1>2. Led(d, k) \in Images /\ d.shared[Led(d, k)][k] \in {"running", "queued"}
    BY <1>0, <1>1, LedImage
<1>3. {"running", "queued"} \cap Final = {}
    BY DEF FailedWork, Final
<1>4. Whole(Stored(d, k))
    <2>1. Kept(d, Stored(d, k)) /\ Stored(d, k) \in Databases
        BY <1>0, <1>1, <1>3, StoredStep DEF Kept, InBatch
    <2>2. Stored(d, k).out = d.out /\ Stored(d, k).done = d.done
        BY <1>0 DEF Stored, Released, Databases
    <2>3. Free(d, Stored(d, k), k)
        BY <1>0, StoredStep
    <2> QED BY <1>0, <2>1, <2>2, <2>3, QuietWhole DEF Free
<1>5. ASSUME NEW word \in FailedWork
      PROVE  Marked(d, k, word) \in Databases /\ Whole(Marked(d, k, word))
    <2>1. Kept(d, Marked(d, k, word)) /\ Marked(d, k, word) \in Databases
        BY <1>0, <1>2, <1>3, MarkedStep DEF Kept
    <2>2. Marked(d, k, word).out = d.out /\ Marked(d, k, word).done = d.done
        BY <1>0 DEF Marked, Released, Databases
    <2>3. Free(d, Marked(d, k, word), k)
        BY <1>0, <1>2, MarkedStep
    <2> QED BY <1>0, <2>1, <2>2, <2>3, QuietWhole DEF Free
<1>6. \A word \in FailedWork : /\ Whole(Propagated(Marked(d, k, word), Led(d, k), k))
                               /\ Whole(RestartedOnCpu(Marked(d, k, word), Led(d, k)))
    BY <1>5, PropagatedWhole, RestartedWhole
<1> QED BY <1>0, <1>4, <1>6, DeliveredCases

\* The same of taking a result.
LEMMA TakenWhole ==
    ASSUME NEW d, Orderly(d), Whole(d), NEW k \in Runtimes,
           fut[k] \in Results => Leased(d, k), NEW e \in Taken(k, {d})
    PROVE  Whole(e)
<1>1. e = IF fut[k] \in Results THEN Delivered(d, k, fut[k]) ELSE d
    BY DEF Taken
<1> QED BY <1>1, DeliveredWhole

\* A whole scan.
LEMMA ScanWhole ==
    ASSUME Whole(db), Orderly(db), OcrInv, Scan
    PROVE  Whole(db')
<1>1. \A k \in Runtimes : fut[k] \in Results => Leased(db, k)
    BY DEF OcrInv, FuturesMine, Results
<1>2. ASSUME NEW e \in Collected PROVE Orderly(e) /\ Whole(e)
    <2>1. PICK p \in Runtimes, q \in Runtimes : p # q /\ e \in Taken(p, Taken(q, {db}))
        <3>1. "gpu" \in Runtimes /\ "cpu" \in Runtimes /\ "gpu" # "cpu"
            BY DEF Runtimes
        <3> QED BY <1>2, <3>1 DEF Collected
    <2>2. PICK c \in Taken(q, {db}) : e \in Taken(p, {c})
        BY <2>1 DEF Taken
    <2>3. Orderly(c) /\ c.lease[p] = db.lease[p] /\ Whole(c)
        BY <1>1, <2>1, <2>2, TakenOrderly, TakenWhole
    <2> QED BY <1>1, <2>2, <2>3, TakenOrderly, TakenWhole DEF Leased
<1>3. ASSUME NEW d \in Advanced PROVE Orderly(d) /\ Digested(d) /\ Whole(d)
    <2>1. PICK c \in Collected : d = Consumed(Refreshed(Prepared(Controlled(c))))
        BY <1>3 DEF Advanced, Through
    <2>2. Orderly(Controlled(c)) /\ Whole(Controlled(c))
        BY <1>2, ControlledOrderly, ControlledWhole DEF Orderly
    <2>3. Orderly(Prepared(Controlled(c))) /\ Whole(Prepared(Controlled(c)))
        BY <2>2, PreparedOrderly, PreparedWhole DEF Orderly
    <2>4. Orderly(Refreshed(Prepared(Controlled(c)))) /\ Whole(Refreshed(Prepared(Controlled(c))))
        BY <2>3, RefreshedOrderly, RefreshedWhole DEF Orderly
    <2> QED BY <2>1, <2>4, ConsumedOrderly, ConsumedWhole DEF Orderly
<1>4. PICK d \in Advanced : \E verdict \in [Recognized(d) -> Verdicts] :
          \E g \in Grants(Finalized(d, verdict), "gpu") :
          \E h \in Grants(g, "cpu") : db' = Aggregated(h)
    BY DEF Scan
<1>5. PICK verdict \in [Recognized(d) -> Verdicts] :
          \E g \in Grants(Finalized(d, verdict), "gpu") :
          \E h \in Grants(g, "cpu") : db' = Aggregated(h)
    BY <1>4
<1>6. /\ Orderly(Finalized(d, verdict)) /\ Digested(Finalized(d, verdict))
      /\ Whole(Finalized(d, verdict))
    BY <1>3, FinalizedOrderly, FinalizedWhole DEF Orderly
<1>7. PICK g \in Grants(Finalized(d, verdict), "gpu") :
          \E h \in Grants(g, "cpu") : db' = Aggregated(h)
    BY <1>5
<1>8. "gpu" \in Runtimes /\ "cpu" \in Runtimes
    BY DEF Runtimes
<1>9. Orderly(g) /\ Digested(g) /\ Whole(g)
    BY <1>6, <1>8, GrantsOrderly, GrantsWhole DEF Orderly
<1>10. PICK h \in Grants(g, "cpu") : db' = Aggregated(h)
    BY <1>7
<1>11. h \in Databases /\ Whole(h)
    BY <1>8, <1>9, GrantsOrderly, GrantsWhole DEF Orderly
<1> QED BY <1>10, <1>11, AggregatedWhole

\* Giving up an attempt takes nothing from its vehicle.
LEMMA AbandonedWhole ==
    ASSUME NEW d \in Databases, LeasesSound(d), Whole(d), NEW k \in Runtimes
    PROVE  Whole(Abandoned(d, k)) /\ Abandoned(d, k) \in Databases
                                  /\ LeasesSound(Abandoned(d, k))
<1> DEFINE e == Abandoned(d, k)
<1>1. e \in Databases /\ Kept(d, e) /\ LeasesSound(e)
    BY AbandonedStep
<1>2. /\ e.out = d.out /\ e.done = d.done /\ e.rt = d.rt /\ e.gen = d.gen
      /\ e.cons = d.cons
    BY DEF Abandoned, Released, Databases
<1>3. \A i \in Items : e.item[i] = d.item[i] \/ e.item[i] # "succeeded"
    BY Fields DEF Abandoned, Released, Databases
<1> HIDE DEF e
<1> QED BY <1>1, <1>2, <1>3, QuietWhole DEF e

\* The operator takes nothing from a vehicle.
LEMMA OperatorWhole ==
    ASSUME Whole(db), OcrInv, Operator
    PROVE  Whole(db')
<1> PICK j \in Jobs : StartJob(j) \/ Pause(j) \/ Resume(j) \/ Cancel(j)
    BY DEF Operator
<1>0. db \in Databases
    BY DEF OcrInv
<1>1. db'.out = db.out /\ db'.done = db.done /\ db'.rt = db.rt /\ db'.gen = db.gen
    BY <1>0 DEF StartJob, Pause, Resume, Cancel, Databases
<1>2. \A i \in Items : db'.item[i] = db.item[i] \/ db'.item[i] # "succeeded"
    <2>1. CASE StartJob(j)
        BY <1>0, <2>1 DEF StartJob, Databases
    <2>2. CASE Pause(j) \/ Resume(j) \/ Cancel(j)
        BY <1>0, <2>2 DEF Pause, Resume, Cancel, Databases
    <2> QED BY <2>1, <2>2
<1>3. \A i \in Items, r \in Roles, k \in Runtimes :
          db.cons[i][r][k] = "consumed" => db'.cons[i][r][k] = "consumed"
    <2>1. CASE Resume(j)
        <3>1. db'.cons = Moved(db.cons, ItemsOf(j), {"paused"}, "waiting")
            BY <1>0, <2>1 DEF Resume, Databases
        <3> QED BY <3>1 DEF Moved
    <2>2. CASE StartJob(j) \/ Pause(j) \/ Cancel(j)
        BY <1>0, <2>2 DEF StartJob, Pause, Cancel, Databases
    <2> QED BY <2>1, <2>2
<1>4. db' \in Databases /\ Kept(db, db')
    BY OperatorStep DEF OcrInv
<1> QED BY <1>0, <1>4, <1>1, <1>2, <1>3, QuietWhole

\* The process and the executor.
LEMMA ProcessWhole ==
    ASSUME Whole(db), OcrInv,
           \/ ScanFails \/ Stop \/ Crash \/ Boot
           \/ \E k \in Runtimes : Recover(k) \/ Execute(k)
    PROVE  Whole(db')
<1>0. db \in Databases /\ LeasesSound(db)
    BY DEF OcrInv
<1>1. CASE UNCHANGED db
    BY <1>1
<1>2. ASSUME NEW k \in Runtimes, Recover(k) PROVE Whole(db')
    BY <1>0, <1>2, AbandonedWhole DEF Recover
<1>3. CASE Stop
    <2> DEFINE give(d, k) == IF Leased(d, k) /\ d.lease[k].mine THEN Abandoned(d, k) ELSE d
               sound(d) == d \in Databases /\ LeasesSound(d) /\ Whole(d)
    <2>1. \A d : \A k \in Runtimes : sound(d) => sound(give(d, k))
        BY AbandonedWhole
    <2>2. db' = give(give(db, "gpu"), "cpu")
        BY <1>3 DEF Stop
    <2>3. sound(db)
        BY <1>0
    <2> HIDE DEF give, sound
    <2>4. sound(db')
        BY <2>1, <2>2, <2>3 DEF Runtimes
    <2> QED BY <2>4 DEF sound
<1>4. CASE Crash
    <2>1. /\ db'.item = db.item /\ db'.cons = db.cons /\ db'.out = db.out
          /\ db'.rt = db.rt /\ db'.gen = db.gen /\ db'.shared = db.shared
          /\ db'.done = db.done
        BY <1>0, <1>4 DEF Crash, Databases
    <2> QED BY <2>1 DEF Whole, WholeAt, Work
<1> QED BY <1>1, <1>2, <1>3, <1>4 DEF ScanFails, Boot, Execute

\* No vehicle has anything at first.
LEMMA InitWhole == Init => Whole(db)
BY DEF Init, Whole, WholeAt

\* Every step preserves what is had.
LEMMA NextWhole == OcrInv /\ Orderly(db) /\ Whole(db) /\ [Next]_vars => Whole(db)'
<1> SUFFICES ASSUME OcrInv, Orderly(db), Whole(db), [Next]_vars PROVE Whole(db')
    OBVIOUS
<1>1. CASE UNCHANGED vars
    BY <1>1 DEF vars
<1>2. CASE Next
    BY <1>2, OperatorWhole, ScanWhole, ProcessWhole DEF Next
<1> QED BY <1>1, <1>2

\* Whatever the GPU fails at and whenever: no vehicle holds an output of a runtime that it
\* is not on, or one whose artifact is not stored; and none succeeds, or counts as
\* recognized, without an output for each of its tickets.
THEOREM RuntimeNeverMixed == Spec => []OneRuntime
<1>1. OcrInv /\ Whole(db) => OneRuntime
    BY DEF Whole, WholeAt, OneRuntime
<1> QED BY <1>1, InitOcr, NextOcr, InitOrderly, NextOrderly, InitWhole, NextWhole, PTL DEF Spec

=============================================================================
