------------------------ MODULE ReadSchedulerProofs ------------------------
(***************************************************************************)
(* What holds of ReadScheduler for every set of jobs, every number of      *)
(* grants, stages and process lives: its types, and the agreement between  *)
(* the leases in the database, the raw grants in the memory of the         *)
(* process and the futures of its executors.                               *)
(***************************************************************************)
EXTENDS ReadScheduler, TLAPS

---------------------------------------------------------------------------
(* Types.                                                                  *)

RowType == [job : JobStatus, item : ItemStatus, at : 1 .. LastStage,
            inv : InvStatus, window : WindowStatus]

\* The row a job enters a scan with is typed.
LEMMA RowTyped ==
    ASSUME TypeOK, NEW j \in Jobs
    PROVE  Row(j) \in RowType
BY DEF TypeOK, Row, RowType

\* Retiring the window of a read keeps its row typed.
LEMMA RetiredTyped ==
    ASSUME NEW j, NEW row \in RowType
    PROVE  Retired(j, row) \in RowType
BY DEF Retired, RowType, WindowStatus

\* A delivered result leaves a typed row.
LEMMA FinishedTyped ==
    ASSUME TypeOK, NEW j \in Jobs
    PROVE  Finished(j) \in RowType
<1>1. CASE Delivered(j) = {}
    BY <1>1, RowTyped DEF Finished
<1>2. CASE Delivered(j) # {}
    <2> DEFINE t == CHOOSE t \in Delivered(j) : TRUE
    <2>1. t \in Delivered(j)
        BY <1>2
    <2>2. out[t] \in Result
        BY <2>1 DEF Delivered, Done
    <2>3. Row(j) \in RowType /\ Retired(j, Row(j)) \in RowType
        BY RowTyped, RetiredTyped
    <2>4. next[j] \in 1 .. LastStage
        BY DEF TypeOK
    <2>5. WithResult(out[t], j, Row(j)) \in RowType
        <3> DEFINE row == Row(j)
                   ret == Retired(j, Row(j))
        <3> row \in RowType /\ ret \in RowType
            BY <2>3
        <3> HIDE DEF row, ret, t
        <3>1. CASE out[t] = "stage"
            <4>1. [row EXCEPT !.item = "queued", !.at = next[j]] \in RowType
                BY <2>4 DEF RowType, ItemStatus, ReadyItem
            <4> QED BY <3>1, <4>1 DEF WithResult, row
        <3>2. CASE out[t] = "complete"
            <4>1. [ret EXCEPT !.item = "succeeded"] \in RowType
                BY DEF RowType, ItemStatus, EndedItem
            <4> QED BY <3>2, <4>1 DEF WithResult, row, ret
        <3>3. CASE out[t] = "retry"
            <4>1. [row EXCEPT !.item = "queued"] \in RowType
                BY DEF RowType, ItemStatus, ReadyItem
            <4> QED BY <3>3, <4>1 DEF WithResult, row
        <3>4. CASE out[t] = "waiting_external"
            <4>1. ExternalWait(row) \in RowType
                BY DEF ExternalWait, RowType, ItemStatus, JobStatus
            <4> QED BY <3>4, <4>1 DEF WithResult, row
        <3>5. CASE out[t] = "failed"
            <4>1. [ret EXCEPT !.item = "failed",
                        !.inv = IF j \in Daily THEN "failed" ELSE @] \in RowType
                BY DEF RowType, ItemStatus, EndedItem, InvStatus
            <4> QED BY <3>5, <4>1 DEF WithResult, row, ret
        <3> QED BY <2>2, <3>1, <3>2, <3>3, <3>4, <3>5 DEF Result
    <2> QED BY <1>2, <2>5 DEF Finished
<1> QED BY <1>1, <1>2

\* Reconciliation with a committed invocation leaves a typed row.
LEMMA ReconciledTyped ==
    ASSUME TypeOK, NEW j \in Jobs, NEW row \in RowType
    PROVE  Reconciled(j, row) \in RowType
<1> DEFINE ret == Retired(j, row)
<1>1. ret \in RowType
    BY RetiredTyped
<1>2. next[j] \in 1 .. LastStage
    BY DEF TypeOK
<1> HIDE DEF ret
<1>3. [ret EXCEPT !.item = "succeeded"] \in RowType
    BY <1>1 DEF RowType, ItemStatus, EndedItem
<1>4. [ret EXCEPT !.item = "failed"] \in RowType
    BY <1>1 DEF RowType, ItemStatus, EndedItem
<1>5. [row EXCEPT !.item = "queued", !.at = next[j]] \in RowType
    BY <1>2 DEF RowType, ItemStatus, ReadyItem
<1> QED BY <1>3, <1>4, <1>5 DEF Reconciled, ret

\* A control leaves a typed row.
LEMMA ControlledTyped ==
    ASSUME NEW j, NEW row \in RowType
    PROVE  Controlled(j, row) \in RowType
<1> DEFINE ret == Retired(j, row)
<1>1. ret \in RowType
    BY RetiredTyped
<1> HIDE DEF ret
<1>2. [ret EXCEPT !.job = "cancelled",
            !.item = IF @ \in EndedItem THEN @ ELSE "cancelled"] \in RowType
    BY <1>1 DEF RowType, ItemStatus, EndedItem, JobStatus, TerminalJob
<1>3. [row EXCEPT !.job = "paused",
            !.item = IF @ \in {"running", "waiting_resource"}
                     THEN "queued" ELSE @] \in RowType
    BY DEF RowType, ItemStatus, ReadyItem, JobStatus
<1> QED BY <1>2, <1>3 DEF Controlled, ret

\* The passes of a scan before the grant leave a typed row.
LEMMA SettledTyped ==
    ASSUME TypeOK, NEW j \in Jobs
    PROVE  Settled(j) \in RowType
BY FinishedTyped, ReconciledTyped, ControlledTyped DEF Settled

\* The grant leaves a typed row.
LEMMA PlacedTyped ==
    ASSUME TypeOK, NEW j \in Jobs, NEW g
    PROVE  Placed(j, g) \in RowType
<1> DEFINE row == Settled(j)
<1>1. row \in RowType
    BY SettledTyped
<1> HIDE DEF row
<1>2. [row EXCEPT !.item = IF j = g THEN "running" ELSE "waiting_resource"]
        \in RowType
    BY <1>1 DEF RowType, ItemStatus, ReadyItem
<1> QED BY <1>1, <1>2 DEF Placed, row

\* A whole scan leaves a typed row.
LEMMA ScannedTyped ==
    ASSUME TypeOK, NEW j \in Jobs, NEW g
    PROVE  Scanned(j, g) \in RowType
<1>1. \A row \in RowType : Aggregated(row) \in RowType
    BY DEF Aggregated, RowType, JobStatus, ScheduledJob, TerminalJob
<1> QED BY <1>1, PlacedTyped DEF Scanned

\* TerminalizeReads, the one step of start-up and of both shutdown steps that
\* ends many jobs, keeps the job table typed.
LEMMA TerminalizeTyped ==
    ASSUME TypeOK, NEW status \in {"cancelled", "failed"},
           TerminalizeReads(status)
    PROVE  /\ job' \in [Jobs -> JobStatus]
           /\ item' \in [Jobs -> ItemStatus]
           /\ at' \in [Jobs -> 1 .. LastStage]
           /\ holds' \subseteq Jobs
BY DEF TypeOK, TerminalizeReads, JobStatus, ItemStatus, TerminalJob, EndedItem

\* Ending an attempt keeps it typed.
LEMMA EndedTyped ==
    ASSUME NEW a \in Attempt, NEW status \in AttemptStatus
    PROVE  Ended(a, status) \in Attempt
BY DEF Ended, Attempt, LeaseStatus

\* Abandoning attempts keeps the tables typed.
LEMMA AbandonTyped ==
    ASSUME TypeOK, NEW T \in SUBSET Tokens, Abandon(T)
    PROVE  /\ job' \in [Jobs -> JobStatus]
           /\ item' \in [Jobs -> ItemStatus]
           /\ at' \in [Jobs -> 1 .. LastStage]
           /\ holds' \subseteq Jobs
           /\ att' \in [Tokens -> Attempt]
           /\ issued' \in 0 .. MaxGrants
<1> DEFINE Lost(j) == {t \in T : att[t].job = j /\ item[j] = "running"}
<1>1. item' \in [Jobs -> ItemStatus]
    BY DEF Abandon, TypeOK, ItemStatus, ReadyItem
<1>2. \A t \in Tokens : att[t].stage \in 1 .. LastStage
    BY DEF TypeOK, Attempt
<1>3. at' = [j \in Jobs |-> IF Lost(j) # {}
                            THEN att[CHOOSE t \in Lost(j) : TRUE].stage
                            ELSE at[j]]
    BY DEF Abandon
<1>4. \A j \in Jobs : at'[j] \in 1 .. LastStage
    <2> TAKE j \in Jobs
    <2>1. CASE Lost(j) # {}
        <3>1. (CHOOSE t \in Lost(j) : TRUE) \in Tokens
            BY <2>1
        <3>2. at'[j] = att[CHOOSE t \in Lost(j) : TRUE].stage
            BY <1>3, <2>1
        <3> QED BY <3>1, <3>2, <1>2
    <2>2. CASE Lost(j) = {}
        BY <2>2, <1>3 DEF TypeOK
    <2> QED BY <2>1, <2>2
<1>5. at' \in [Jobs -> 1 .. LastStage]
    BY <1>3, <1>4
<1>6. att' \in [Tokens -> Attempt]
    BY EndedTyped DEF Abandon, TypeOK, AttemptStatus
<1> QED BY <1>1, <1>5, <1>6 DEF Abandon, TypeOK

\* A grant writes a typed attempt.
LEMMA NewAttemptTyped ==
    ASSUME TypeOK, NEW g \in Jobs
    PROVE  NewAttempt(g) \in Attempt
<1>1. Settled(g).at \in 1 .. LastStage
    BY SettledTyped DEF RowType
<1> QED BY <1>1 DEF NewAttempt, Attempt, AttemptStatus, LeaseStatus, TypeOK

\* A scan, with a grant or without, keeps the tables and the memory typed.
LEMMA ScanTyped ==
    ASSUME TypeOK, NEW g \in Jobs \cup {NoJob}, ScanGranting(g)
    PROVE  /\ job' \in [Jobs -> JobStatus]
           /\ item' \in [Jobs -> ItemStatus]
           /\ at' \in [Jobs -> 1 .. LastStage]
           /\ inv' \in [Jobs -> InvStatus]
           /\ window' \in [Jobs -> WindowStatus]
           /\ holds' \subseteq Jobs
           /\ att' \in [Tokens -> Attempt]
           /\ out' \in [Tokens -> {"none"} \cup Executing \cup Result]
           /\ cleanup' \subseteq Jobs
           /\ runner' = "dispatch"
<1>1. \A j \in Jobs : Scanned(j, g) \in RowType
    BY ScannedTyped
<1>2. \A j \in Jobs : /\ Scanned(j, g).job \in JobStatus
                      /\ Scanned(j, g).item \in ItemStatus
                      /\ Scanned(j, g).at \in 1 .. LastStage
                      /\ Scanned(j, g).inv \in InvStatus
                      /\ Scanned(j, g).window \in WindowStatus
    BY <1>1 DEF RowType
<1>3. \A t \in Tokens : AttemptAfter(t, g) \in Attempt
    <2> TAKE t \in Tokens
    <2>1. att[t] \in Attempt
        BY DEF TypeOK
    <2>2. Ended(att[t], IF out[t] \in {"stage", "complete"}
                        THEN "succeeded" ELSE "failed") \in Attempt
        BY <2>1, EndedTyped DEF AttemptStatus
    <2>3. [att[t] EXCEPT !.fresh = TRUE] \in Attempt
        BY <2>1 DEF Attempt
    <2>4. g # NoJob => NewAttempt(g) \in Attempt
        BY NewAttemptTyped
    <2> QED BY <2>1, <2>2, <2>3, <2>4 DEF AttemptAfter
<1>4. out' \in [Tokens -> {"none"} \cup Executing \cup Result]
    BY DEF ScanGranting, TypeOK
<1> QED BY <1>2, <1>3, <1>4 DEF ScanGranting, TypeOK

\* An answer of an executor keeps its futures typed.
LEMMA AnswerTyped ==
    ASSUME TypeOK, NEW t \in Tokens,
           NEW result \in Executing \cup Result, Answer(t, result)
    PROVE  /\ out' \in [Tokens -> {"none"} \cup Executing \cup Result]
           /\ UNCHANGED <<jobVars, slotVars, review, procVars, runner, grants,
                          cleanup>>
BY DEF Answer, TypeOK

\* Every action of an operator keeps the types.
LEMMA OperatorTyped ==
    ASSUME TypeOK, NEW j \in Jobs, Operator(j)
    PROVE  TypeOK'
<1> USE DEF TypeOK, jobVars, invVars, slotVars, procVars, memVars,
            JobStatus, ItemStatus, InvStatus, WindowStatus, ScheduledJob,
            ControlledJob, ReadyItem
<1>1. CASE StartSettlement(j)
    BY <1>1 DEF StartSettlement, CreateJob, OpenInvocation
<1>2. CASE StartDaily(j)
    BY <1>2 DEF StartDaily, CreateJob
<1>3. CASE InvokeDaily(j)
    BY <1>3 DEF InvokeDaily, OpenInvocation
<1>4. CASE Pause(j)
    BY <1>4 DEF Pause, SetJob
<1>5. CASE Resume(j)
    BY <1>5 DEF Resume, Requeue, SetJob
<1>6. CASE Cancel(j)
    BY <1>6 DEF Cancel, SetJob
<1>7. CASE Rebind(j)
    BY <1>7 DEF Rebind
<1> QED BY <1>1, <1>2, <1>3, <1>4, <1>5, <1>6, <1>7 DEF Operator

\* Every step of an executor keeps the types.
LEMMA ExecuteTyped ==
    ASSUME TypeOK, NEW t \in Tokens, Execute(t)
    PROVE  TypeOK'
<1> USE ConstantsAssumption DEF TypeOK, jobVars, invVars, slotVars, procVars, memVars, InvStatus,
            Executing, Result
<1>1. CASE ReadBegins(t)
    BY <1>1, AnswerTyped DEF ReadBegins
<1>2. CASE SelectionBegins(t)
    BY <1>2, AnswerTyped DEF SelectionBegins
<1>3. CASE ReadPartial(t)
    <2>1. next' \in [Jobs -> 1 .. LastStage]
        BY <1>3 DEF ReadPartial
    <2> QED BY <1>3, <2>1, AnswerTyped DEF ReadPartial
<1>4. CASE RunCaptured(t)
    BY <1>4 DEF RunCaptured, Settlement
<1>5. CASE ReadPublished(t)
    BY <1>5, AnswerTyped DEF ReadPublished
<1>6. CASE ReadRefused(t)
    BY <1>6, AnswerTyped DEF ReadRefused
<1>7. CASE SelectionEnds(t)
    BY <1>7, AnswerTyped DEF SelectionEnds
<1> QED BY <1>1, <1>2, <1>3, <1>4, <1>5, <1>6, <1>7 DEF Execute

\* Every step of the scheduler thread keeps the types.
LEMMA TickTyped ==
    ASSUME TypeOK, Tick
    PROVE  TypeOK'
<1> USE DEF jobVars, invVars, slotVars, procVars, memVars
<1>1. CASE StartTick
    <2>1. Abandonable \in SUBSET Tokens
        BY DEF Abandonable
    <2> QED BY <1>1, <2>1, AbandonTyped DEF StartTick, TypeOK
<1>2. CASE ScanOnly
    BY <1>2, ScanTyped DEF ScanOnly, ScanGranting, TypeOK
<1>3. CASE ScanAndGrant
    <2>1. PICK g \in Jobs : /\ Chosen(g) /\ ScanGranting(g)
                            /\ grants' = (grants \ Done) \cup {issued + 1}
                            /\ issued' = issued + 1
        BY <1>3 DEF ScanAndGrant
    <2>2. issued + 1 \in Tokens
        BY <2>1, ConstantsAssumption
           DEF Chosen, SlotIsFree, TypeOK, Tokens, ConstantsAssumption
    <2>3. grants' \subseteq Tokens /\ issued' \in 0 .. MaxGrants
        <3>1. grants' \subseteq Tokens
            BY <2>1, <2>2 DEF TypeOK
        <3>2. issued' \in 0 .. MaxGrants
            BY <2>1, <2>2, ConstantsAssumption DEF Tokens, ConstantsAssumption, TypeOK
        <3> QED BY <3>1, <3>2
    <2>4. /\ me' = me /\ phase' = phase /\ explicit' = explicit
          /\ next' = next /\ latestRun' = latestRun /\ review' = review
        BY <2>1 DEF ScanGranting
    <2> QED BY <2>1, <2>3, <2>4, ScanTyped DEF TypeOK
<1>4. CASE ScanFails
    BY <1>4 DEF ScanFails, TypeOK
<1>5. CASE Dispatch
    BY <1>5 DEF Dispatch, TypeOK, Executing
<1>6. ASSUME NEW j \in Jobs, Close(j) \/ CloseFails(j)
      PROVE  TypeOK'
    BY <1>6 DEF Close, CloseAll, CloseFails, Consumed, TypeOK, WindowStatus
<1>7. CASE EndTick
    BY <1>7 DEF EndTick, TypeOK
<1> QED BY <1>1, <1>2, <1>3, <1>4, <1>5, <1>6, <1>7 DEF Tick

\* Every step of start-up and of shutdown keeps the types.
LEMMA LifeTyped ==
    ASSUME TypeOK, Booting \/ Shutdown \/ Closing \/ Crash
    PROVE  TypeOK'
<1> USE DEF jobVars, invVars, slotVars, procVars, memVars, Enter
<1>1. CASE Boot
    <2>1. me' \in 0 .. MaxEpoch
        BY <1>1, ConstantsAssumption DEF Boot, TypeOK, ConstantsAssumption
    <2> QED BY <1>1, <2>1 DEF Boot, TypeOK
<1>2. CASE BootRecovers
    <2>1. Abandonable \in SUBSET Tokens
        BY DEF Abandonable
    <2> QED BY <1>2, <2>1, AbandonTyped DEF BootRecovers, TypeOK
<1>3. CASE BootInterruptsReads
    BY <1>3, TerminalizeTyped DEF BootInterruptsReads, TypeOK
<1>4. \A S : BootCloses(S) => /\ window' \in [Jobs -> WindowStatus]
                              /\ review' \in [Jobs -> {"none", "created",
                                                       "linked"}]
                              /\ UNCHANGED <<inv, next, latestRun>>
    BY DEF BootCloses, Consumed, TypeOK, WindowStatus
<1>5. CASE BootReconciles
    <2>1. /\ job' \in [Jobs -> JobStatus]
          /\ item' \in [Jobs -> ItemStatus]
          /\ holds' \subseteq Jobs
        BY <1>5 DEF BootReconciles, TypeOK, JobStatus, ItemStatus,
                    TerminalJob, EndedItem
    <2> QED BY <1>4, <1>5, <2>1 DEF BootReconciles, TypeOK
<1>6. CASE BootFails
    BY <1>4, <1>6 DEF BootFails, TypeOK
<1>7. CASE Shutdown \/ JoinRunner \/ Drain
    BY <1>7 DEF Shutdown, JoinRunner, Drain, TypeOK
<1>8. CASE AbandonOwn
    <2> DEFINE T == {t \in Tokens : /\ att[t].status = "running"
                                    /\ Active(t) /\ att[t].by = me}
    <2>1. T \in SUBSET Tokens /\ Abandon(T)
        BY <1>8 DEF AbandonOwn
    <2> HIDE DEF T
    <2> QED BY <1>8, <2>1, AbandonTyped DEF AbandonOwn, TypeOK
<1>9. CASE Stop
    <2>1. explicit => TerminalizeReads("cancelled")
        BY <1>9 DEF Stop
    <2>2. /\ job' \in [Jobs -> JobStatus]
          /\ item' \in [Jobs -> ItemStatus]
          /\ at' \in [Jobs -> 1 .. LastStage]
          /\ holds' \subseteq Jobs
        BY <1>9, <2>1, TerminalizeTyped DEF Stop, TypeOK
    <2> QED BY <1>9, <2>2 DEF Stop, Forget, TypeOK
<1>10. CASE Crash
    BY <1>10 DEF Crash, Forget, TypeOK
<1> QED BY <1>1, <1>2, <1>3, <1>5, <1>6, <1>7, <1>8, <1>9, <1>10
        DEF Booting, Closing

\* Every step keeps the types.
LEMMA TypeStep ==
    ASSUME TypeOK, [Next]_vars
    PROVE  TypeOK'
<1>1. ASSUME NEW j \in Jobs, Operator(j) PROVE TypeOK'
    BY <1>1, OperatorTyped
<1>2. ASSUME NEW j \in Jobs, WindowExpires(j) PROVE TypeOK'
    BY <1>2 DEF WindowExpires, TypeOK, WindowStatus, jobVars, slotVars,
                procVars, memVars
<1>3. ASSUME NEW t \in Tokens, Execute(t) PROVE TypeOK'
    BY <1>3, ExecuteTyped
<1>4. ASSUME NEW t \in Tokens, LeaseLapses(t) PROVE TypeOK'
    <2>1. att' \in [Tokens -> Attempt]
        <3>1. att' = [att EXCEPT ![t].fresh = FALSE]
            BY <1>4 DEF LeaseLapses
        <3>2. att \in [Tokens -> Attempt] /\ att[t] \in Attempt
            BY DEF TypeOK
        <3>3. [att[t] EXCEPT !.fresh = FALSE] \in Attempt
            BY <3>2 DEF Attempt
        <3> QED BY <3>1, <3>2, <3>3
    <2> QED BY <1>4, <2>1 DEF LeaseLapses, TypeOK, jobVars, invVars,
                               procVars, memVars
<1>5. CASE RequestShutdown
    BY <1>5, TerminalizeTyped
       DEF RequestShutdown, TypeOK, invVars, slotVars, memVars
<1>6. CASE Tick
    BY <1>6, TickTyped
<1>7. CASE RenewLeases
    <2>1. att' \in [Tokens -> Attempt]
        <3>1. att' = [u \in Tokens |-> IF u \in grants
                                       THEN [att[u] EXCEPT !.fresh = TRUE]
                                       ELSE att[u]]
            BY <1>7 DEF RenewLeases
        <3>2. ASSUME NEW u \in Tokens
              PROVE  att[u] \in Attempt
                        /\ [att[u] EXCEPT !.fresh = TRUE] \in Attempt
            <4>1. att[u] \in Attempt
                BY DEF TypeOK
            <4> QED BY <4>1 DEF Attempt
        <3> QED BY <3>1, <3>2
    <2> QED BY <1>7, <2>1 DEF RenewLeases, TypeOK, jobVars, invVars,
                               procVars, memVars
<1>8. CASE Booting \/ Shutdown \/ Closing \/ Crash
    BY <1>8, LifeTyped
<1>9. CASE UNCHANGED vars
    BY <1>9 DEF vars, jobVars, invVars, slotVars, procVars, memVars, TypeOK
<1> QED BY <1>1, <1>2, <1>3, <1>4, <1>5, <1>6, <1>7, <1>8, <1>9 DEF Next

\* The initial state is typed.
LEMMA InitTyped ==
    ASSUME Init
    PROVE  TypeOK
<1>1. 1 \in 1 .. LastStage /\ 0 \in 0 .. MaxEpoch /\ 0 \in 0 .. MaxGrants
    BY ConstantsAssumption DEF ConstantsAssumption
<1>2. NoAttempt \in Attempt
    BY <1>1 DEF NoAttempt, Attempt, AttemptStatus, LeaseStatus
<1> QED BY <1>1, <1>2 DEF Init, TypeOK, JobStatus, ItemStatus, InvStatus,
                          WindowStatus

\* The types hold in every reachable state.
THEOREM TypeCorrect == Spec => []TypeOK
<1>1. Init => TypeOK
    BY InitTyped
<1>2. TypeOK /\ [Next]_vars => TypeOK'
    BY TypeStep
<1> QED BY <1>1, <1>2, PTL DEF Spec

---------------------------------------------------------------------------
(* Leases, grants and futures.  The properties are not inductive: that a   *)
(* new lease is the only one rests on the numbering of the grants, that a  *)
(* future is covered by a lease on what the process remembers of its       *)
(* grants in each phase of its life.                                       *)

\* The life-cycle half of the argument: who may remember a grant, and when
\* the scheduler thread and the executors have come to rest.
AtRest ==
    /\ phase \in {"off", "booting", "recovered", "interrupted"} => grants = {}
    /\ runner \in {"scan", "dispatch", "cleanup"} =>
            phase \in {"serving", "closing"}
    /\ phase \in {"drained", "abandoned"} =>
            \A t \in Tokens : out[t] \notin Executing

\* The lease half: only issued grants are leased, what the process remembers
\* it owns, and only remembered grants have futures.
Covered ==
    /\ \A t \in Tokens : Active(t) => t <= issued
    /\ phase # "abandoned" =>
            \A t \in grants : Active(t) /\ att[t].by = me
    /\ \A t \in Tokens : out[t] # "none" => t \in grants

LeaseInv ==
    /\ TypeOK
    /\ AttemptsAndLeases
    /\ SlotExclusive
    /\ AtRest
    /\ Covered

\* What is left to show of a step once its types are known.
Rest == AttemptsAndLeases /\ SlotExclusive /\ AtRest /\ Covered

\* A step that touches neither leases, grants, futures nor the life-cycle.
LEMMA Untouched ==
    ASSUME LeaseInv,
           UNCHANGED <<slotVars, phase, me, runner, grants, out>>
    PROVE  Rest'
BY DEF LeaseInv, Rest, AttemptsAndLeases, SlotExclusive, AtRest, Covered,
       Active, slotVars

\* Abandoning attempts ends their leases and leaves the others alone.
LEMMA AbandonEnds ==
    ASSUME LeaseInv, NEW T \in SUBSET Tokens, Abandon(T)
    PROVE  /\ \A t \in T : att'[t].status = "abandoned"
                              /\ att'[t].lease = "released"
           /\ \A t \in Tokens \ T : att'[t] = att[t]
           /\ \A t \in Tokens : Active(t)' => Active(t) /\ t \notin T
           /\ issued' = issued
           /\ AttemptsAndLeases'
           /\ SlotExclusive'
<1>1. \A t \in T : att'[t] = Ended(att[t], "abandoned")
    BY DEF Abandon
<1>2. \A t \in T : att[t] \in Attempt
    BY DEF LeaseInv, TypeOK
<1>3. \A t \in T : att'[t].status = "abandoned" /\ att'[t].lease = "released"
    BY <1>1, <1>2 DEF Ended, Attempt
<1>4. \A t \in Tokens \ T : att'[t] = att[t]
    BY DEF Abandon
<1>5. \A t \in Tokens : Active(t)' => Active(t) /\ t \notin T
    BY <1>3, <1>4 DEF Active
<1>6. AttemptsAndLeases'
    BY <1>3, <1>4 DEF AttemptsAndLeases, LeaseInv, Active
<1>7. SlotExclusive'
    BY <1>5 DEF SlotExclusive, LeaseInv
<1>8. issued' = issued
    BY DEF Abandon
<1> QED BY <1>3, <1>4, <1>5, <1>6, <1>7, <1>8

\* Recovery never takes an attempt this process still remembers.
LEMMA RecoveryIsForeign ==
    ASSUME LeaseInv, phase # "abandoned"
    PROVE  Abandonable \cap grants = {}
BY DEF Abandonable, LeaseInv, Covered

\* An executor works on one future and touches no lease.
LEMMA ExecuteLeases ==
    ASSUME LeaseInv, NEW t \in Tokens, Execute(t)
    PROVE  Rest'
<1>1. Executor(t)
    BY DEF Execute, ReadBegins, SelectionBegins, ReadPartial, RunCaptured,
           ReadPublished, ReadRefused, SelectionEnds, Reading
<1>2. UNCHANGED <<att, issued, phase, me, runner, grants>>
    BY DEF Execute, ReadBegins, SelectionBegins, ReadPartial, RunCaptured,
           ReadPublished, ReadRefused, SelectionEnds, Answer, slotVars,
           procVars, memVars
<1>3. \A u \in Tokens \ {t} : out'[u] = out[u]
    BY DEF Execute, ReadBegins, SelectionBegins, ReadPartial, RunCaptured,
           ReadPublished, ReadRefused, SelectionEnds, Answer, memVars,
           LeaseInv, TypeOK
<1>4. t \in grants
    BY <1>1 DEF Executor, Executing, LeaseInv, Covered
<1>5. AttemptsAndLeases' /\ SlotExclusive'
    BY <1>2 DEF LeaseInv, AttemptsAndLeases, SlotExclusive, Active
<1>6. AtRest'
    BY <1>1, <1>2 DEF LeaseInv, AtRest, Executor
<1>7. Covered'
    BY <1>2, <1>3, <1>4 DEF LeaseInv, Covered, Active
<1> QED BY <1>5, <1>6, <1>7 DEF Rest

\* What a scan does to the slot: it takes results only of its own grants,
\* ends those, keeps the others, and makes at most one attempt, with a number
\* never used before.
ScanOutcome(g, new) ==
    /\ new = issued + 1 /\ issued \in Nat /\ new \notin grants
    /\ g # NoJob => new \in Tokens /\ Chosen(g)
    /\ runner' = "dispatch" /\ phase \in {"serving", "closing"}
    /\ phase' = phase /\ me' = me
    /\ out' = [t \in Tokens |-> IF t \in Done THEN "none" ELSE out[t]]
    /\ \/ g = NoJob /\ grants' = grants \ Done /\ issued' = issued
       \/ /\ g # NoJob /\ grants' = (grants \ Done) \cup {new}
          /\ issued' = new
    /\ Done \subseteq grants
    /\ \A t \in grants : Active(t) /\ att[t].by = me
    /\ \A t \in Done : att'[t].status # "running" /\ ~ Active(t)'
    /\ \A t \in grants \ Done :
        /\ att'[t].status = att[t].status /\ Active(t)'
        /\ att'[t].by = me
    /\ \A t \in Tokens \ grants : t # new \/ g = NoJob =>
        att'[t] = att[t]
    /\ g # NoJob => /\ att'[new].status = "running"
                    /\ att'[new].lease = "active" /\ att'[new].by = me

\* Every scan has such an outcome.
LEMMA ScanEffect ==
    ASSUME LeaseInv, ScanOnly \/ ScanAndGrant
    PROVE  \E g \in Jobs \cup {NoJob}, new \in Nat : ScanOutcome(g, new)
<1>1. PICK g \in Jobs \cup {NoJob} :
        /\ ScanGranting(g)
        /\ \/ g = NoJob /\ grants' = grants \ Done /\ issued' = issued
           \/ /\ g \in Jobs /\ Chosen(g)
              /\ grants' = (grants \ Done) \cup {issued + 1}
              /\ issued' = issued + 1
    BY DEF ScanOnly, ScanAndGrant
<1>0. PICK new \in Nat : new = issued + 1
    BY ConstantsAssumption DEF LeaseInv, TypeOK, ConstantsAssumption
<1>a. g \in Jobs <=> g # NoJob
    BY ConstantsAssumption DEF ConstantsAssumption
<1>2. /\ issued \in Nat /\ Tokens \subseteq Nat
      /\ g # NoJob => new \in Tokens /\ Chosen(g)
    BY <1>0, <1>1, ConstantsAssumption
       DEF LeaseInv, TypeOK, Tokens, ConstantsAssumption, Chosen, SlotIsFree
<1>3. /\ runner = "scan" /\ runner' = "dispatch"
      /\ phase \in {"serving", "closing"} /\ phase' = phase /\ me' = me
      /\ Done \subseteq grants /\ grants \subseteq Tokens
    BY <1>1 DEF ScanGranting, procVars, LeaseInv, AtRest, Done, TypeOK
<1>4. \A t \in grants : Active(t) /\ att[t].by = me
    BY <1>3 DEF LeaseInv, Covered
<1>5. \A t \in Tokens : att[t] \in Attempt /\ att'[t] = AttemptAfter(t, g)
    BY <1>1 DEF ScanGranting, LeaseInv, TypeOK
<1>6. new \notin grants
    <2>1. \A t \in grants : t \in Nat /\ t <= issued
        BY <1>2, <1>3, <1>4 DEF LeaseInv, Covered
    <2> QED BY <2>1, <1>0, <1>2
<1>7. ASSUME NEW t \in Done
      PROVE  att'[t].status # "running" /\ ~ Active(t)'
    <2>1. att[t] \in Attempt
        BY <1>3, <1>5
    <2>2. PICK s \in {"succeeded", "failed"} : att'[t] = Ended(att[t], s)
        BY <1>3, <1>5 DEF AttemptAfter
    <2>3. /\ att'[t].status = s
          /\ att'[t].lease = "released"
        BY <2>1, <2>2 DEF Ended, Attempt
    <2> QED BY <2>3 DEF Active
<1>8. ASSUME NEW t \in grants \ Done
      PROVE  /\ att'[t].status = att[t].status /\ Active(t)'
             /\ att'[t].by = me
    <2>1. att[t] \in Attempt /\ Active(t) /\ att[t].by = me
        BY <1>3, <1>4, <1>5
    <2>2. att'[t] = [att[t] EXCEPT !.fresh = TRUE]
        BY <1>3, <1>5 DEF AttemptAfter
    <2> QED BY <2>1, <2>2 DEF Attempt, Active
<1>9. \A t \in Tokens \ grants : t # new \/ g = NoJob => att'[t] = att[t]
    BY <1>0, <1>3, <1>5 DEF AttemptAfter
<1>10. g # NoJob => /\ att'[new].status = "running"
                    /\ att'[new].lease = "active" /\ att'[new].by = me
    <2> SUFFICES ASSUME g # NoJob
                 PROVE  /\ att'[new].status = "running"
                        /\ att'[new].lease = "active" /\ att'[new].by = me
        OBVIOUS
    <2>1. att'[new] = NewAttempt(g)
        BY <1>0, <1>2, <1>3, <1>5, <1>6 DEF AttemptAfter
    <2> QED BY <2>1 DEF NewAttempt
<1>11. \/ g = NoJob /\ grants' = grants \ Done /\ issued' = issued
       \/ /\ g # NoJob /\ grants' = (grants \ Done) \cup {new}
          /\ issued' = new
    BY <1>0, <1>1, <1>a
<1>12. out' = [t \in Tokens |-> IF t \in Done THEN "none" ELSE out[t]]
    BY <1>1 DEF ScanGranting
<1> QED BY <1>0, <1>2, <1>3, <1>4, <1>6, <1>7, <1>8, <1>9, <1>10, <1>11,
           <1>12 DEF ScanOutcome

\* A scan releases the leases of the results it takes, keeps the others, and
\* leases the slot anew only when none is left.
LEMMA ScanLeases ==
    ASSUME LeaseInv, ScanOnly \/ ScanAndGrant
    PROVE  Rest'
<1>1. PICK g \in Jobs \cup {NoJob}, new \in Nat : ScanOutcome(g, new)
    BY ScanEffect
<1>2. AttemptsAndLeases'
    <2> SUFFICES ASSUME NEW t \in Tokens
                 PROVE  Active(t)' <=> att'[t].status = "running"
        BY DEF AttemptsAndLeases
    <2>1. Active(t) <=> att[t].status = "running"
        BY DEF LeaseInv, AttemptsAndLeases
    <2>2. CASE t \in Done
        BY <2>2, <1>1 DEF ScanOutcome
    <2>3. CASE t \in grants \ Done
        BY <2>1, <2>3, <1>1 DEF ScanOutcome
    <2>4. CASE t \notin grants /\ (t # new \/ g = NoJob)
        BY <2>1, <2>4, <1>1 DEF ScanOutcome, Active
    <2>5. CASE t = new /\ g # NoJob
        BY <2>5, <1>1 DEF ScanOutcome, Active
    <2> QED BY <2>2, <2>3, <2>4, <2>5
<1>3. \A t \in Tokens : Active(t)' => \/ Active(t) /\ t \notin Done
                                      \/ t = new /\ g # NoJob
    BY <1>1 DEF ScanOutcome, Active
<1>4. SlotExclusive'
    <2>1. CASE g = NoJob
        BY <2>1, <1>3 DEF LeaseInv, SlotExclusive
    <2>2. CASE g # NoJob
        <3>1. \A t \in Tokens \ Done : ~ Active(t)
            BY <2>2, <1>1 DEF ScanOutcome, Chosen, SlotIsFree
        <3> QED BY <3>1, <1>3 DEF SlotExclusive
    <2> QED BY <2>1, <2>2
<1>5. AtRest'
    BY <1>1 DEF ScanOutcome, AtRest
<1>6. \A t \in Tokens : Active(t)' => t <= issued'
    <2> SUFFICES ASSUME NEW t \in Tokens, Active(t)' PROVE t <= issued'
        OBVIOUS
    <2>1. t \in Nat
        BY ConstantsAssumption DEF Tokens, ConstantsAssumption
    <2>2. CASE Active(t)
        <3>1. t <= issued
            BY <2>2 DEF LeaseInv, Covered
        <3>2. issued' = issued \/ issued' = issued + 1
            BY <1>1 DEF ScanOutcome
        <3>3. issued \in Nat
            BY <1>1 DEF ScanOutcome
        <3> QED BY <2>1, <3>1, <3>2, <3>3
    <2>3. CASE t = new /\ g # NoJob
        BY <2>1, <2>3, <1>1 DEF ScanOutcome
    <2> QED BY <2>2, <2>3, <1>3
<1>7. \A t \in grants' : Active(t)' /\ att'[t].by = me'
    <2>1. \A t \in grants' : \/ t \in grants \ Done
                             \/ t = new /\ g # NoJob
        BY <1>1 DEF ScanOutcome
    <2> QED BY <2>1, <1>1 DEF ScanOutcome, Active
<1>8. \A t \in Tokens : out'[t] # "none" => t \in grants'
    <2>1. \A t \in Tokens : out[t] # "none" => t \in grants
        BY DEF LeaseInv, Covered
    <2> QED BY <2>1, <1>1 DEF ScanOutcome
<1> QED BY <1>2, <1>4, <1>5, <1>6, <1>7, <1>8 DEF Rest, Covered

\* The other steps of the scheduler thread.
LEMMA TickLeases ==
    ASSUME LeaseInv, TypeOK', Tick
    PROVE  Rest'
<1>1. CASE StartTick
    <2>1. Abandonable \in SUBSET Tokens /\ Abandon(Abandonable)
        BY <1>1 DEF Abandonable, StartTick
    <2>2. /\ phase = "serving" /\ phase' = "serving" /\ me' = me
          /\ grants' = grants /\ out' = out
        BY <1>1 DEF StartTick, procVars
    <2>3. Abandonable \cap grants = {} /\ grants \subseteq Tokens
        BY <2>2, RecoveryIsForeign DEF LeaseInv, TypeOK
    <2>4. /\ AttemptsAndLeases' /\ SlotExclusive' /\ issued' = issued
          /\ \A t \in Tokens \ Abandonable : att'[t] = att[t]
          /\ \A t \in Tokens : Active(t)' => Active(t)
        BY <2>1, AbandonEnds
    <2>5. AtRest'
        BY <2>2 DEF AtRest
    <2>6. Covered'
        BY <2>2, <2>3, <2>4 DEF Covered, LeaseInv, Active
    <2> QED BY <2>4, <2>5, <2>6 DEF Rest
<1>2. CASE ScanOnly \/ ScanAndGrant
    BY <1>2, ScanLeases
<1>3. CASE Dispatch
    <2>1. /\ runner = "dispatch" /\ phase' = phase /\ me' = me
          /\ grants' = grants /\ att' = att /\ issued' = issued
          /\ \A t \in Tokens : out'[t] # "none" =>
                out[t] # "none" \/ t \in grants
        BY <1>3 DEF Dispatch, procVars, slotVars
    <2>2. phase \in {"serving", "closing"}
        BY <2>1 DEF LeaseInv, AtRest
    <2>3. AtRest'
        BY <2>1, <2>2 DEF AtRest
    <2> QED BY <2>1, <2>3 DEF Rest, LeaseInv, AttemptsAndLeases,
                               SlotExclusive, Covered, Active
<1>4. CASE ScanFails \/ EndTick
    <2>1. UNCHANGED <<att, issued, phase, me, grants, out>>
          /\ runner' \in {"idle", "dead"}
        BY <1>4 DEF ScanFails, EndTick, slotVars, procVars
    <2> QED BY <2>1 DEF Rest, LeaseInv, AttemptsAndLeases, SlotExclusive,
                        AtRest, Covered, Active
<1>5. ASSUME NEW j \in Jobs, Close(j) \/ CloseFails(j) PROVE Rest'
    <2>1. UNCHANGED <<slotVars, phase, me, runner, grants, out>>
        BY <1>5 DEF Close, CloseFails, slotVars, procVars, memVars
    <2> QED BY <2>1, Untouched
<1> QED BY <1>1, <1>2, <1>3, <1>4, <1>5 DEF Tick

\* Start-up, shutdown and crashes.
LEMMA LifeLeases ==
    ASSUME LeaseInv, TypeOK', Booting \/ Shutdown \/ Closing \/ Crash
    PROVE  Rest'
<1>1. CASE Boot
    <2>1. /\ grants = {} /\ phase' = "booting"
          /\ UNCHANGED <<att, issued, runner, grants, out>>
        BY <1>1 DEF Boot, LeaseInv, AtRest, slotVars, memVars
    <2>2. runner \notin {"scan", "dispatch", "cleanup"}
        BY <1>1 DEF Boot, LeaseInv, AtRest
    <2> QED BY <2>1, <2>2 DEF Rest, LeaseInv, AttemptsAndLeases,
                              SlotExclusive, AtRest, Covered, Active
<1>2. CASE BootRecovers
    <2>1. /\ Abandonable \in SUBSET Tokens /\ Abandon(Abandonable)
          /\ phase = "booting" /\ phase' = "recovered" /\ me' = me
          /\ UNCHANGED <<runner, grants, out>>
        BY <1>2 DEF Abandonable, BootRecovers, Enter, memVars
    <2>2. grants = {} /\ runner \notin {"scan", "dispatch", "cleanup"}
        BY <2>1 DEF LeaseInv, AtRest
    <2>3. /\ AttemptsAndLeases' /\ SlotExclusive' /\ issued' = issued
          /\ \A t \in Tokens : Active(t)' => Active(t)
        BY <2>1, AbandonEnds
    <2> QED BY <2>1, <2>2, <2>3 DEF Rest, LeaseInv, AtRest, Covered
<1>3. CASE BootInterruptsReads \/ BootReconciles \/ BootFails
    <2>1. /\ phase \in {"booting", "recovered", "interrupted"} /\ me' = me
          /\ phase' \in {"interrupted", "serving", "closing"}
          /\ UNCHANGED <<att, issued, runner, grants, out>>
        BY <1>3 DEF BootInterruptsReads, BootReconciles, BootFails, Enter,
                    slotVars, memVars
    <2>2. grants = {} /\ runner \notin {"scan", "dispatch", "cleanup"}
        BY <2>1 DEF LeaseInv, AtRest
    <2> QED BY <2>1, <2>2 DEF Rest, LeaseInv, AttemptsAndLeases,
                              SlotExclusive, AtRest, Covered, Active
<1>4. CASE Shutdown \/ JoinRunner
    <2>1. /\ phase \in {"serving", "closing"} /\ me' = me
          /\ \/ phase' = "closing"
             \/ phase' = "joined" /\ runner \in {"idle", "dead"}
          /\ UNCHANGED <<att, issued, runner, grants, out>>
        BY <1>4 DEF Shutdown, JoinRunner, Enter, slotVars, memVars
    <2> QED BY <2>1 DEF Rest, LeaseInv, AttemptsAndLeases, SlotExclusive,
                        AtRest, Covered, Active
<1>5. CASE Drain
    <2>1. /\ phase = "joined" /\ phase' = "drained" /\ me' = me
          /\ \A t \in Tokens : out[t] \notin Executing
          /\ UNCHANGED <<att, issued, runner, grants, out>>
        BY <1>5 DEF Drain, Enter, slotVars, memVars
    <2>2. runner \notin {"scan", "dispatch", "cleanup"}
        BY <2>1 DEF LeaseInv, AtRest
    <2> QED BY <2>1, <2>2 DEF Rest, LeaseInv, AttemptsAndLeases,
                              SlotExclusive, AtRest, Covered, Active
<1>6. CASE AbandonOwn
    <2> DEFINE T == {t \in Tokens : /\ att[t].status = "running"
                                    /\ Active(t) /\ att[t].by = me}
    <2>1. /\ T \in SUBSET Tokens /\ Abandon(T)
          /\ phase = "drained" /\ phase' = "abandoned"
          /\ UNCHANGED <<runner, grants, out>>
        BY <1>6 DEF AbandonOwn, Enter, memVars
    <2> HIDE DEF T
    <2>2. /\ AttemptsAndLeases' /\ SlotExclusive' /\ issued' = issued
          /\ \A t \in Tokens : Active(t)' => Active(t)
        BY <2>1, AbandonEnds
    <2>3. AtRest'
        BY <2>1 DEF LeaseInv, AtRest
    <2>4. Covered'
        BY <2>1, <2>2 DEF LeaseInv, Covered
    <2> QED BY <2>2, <2>3, <2>4 DEF Rest
<1>7. CASE Stop \/ Crash
    <2>1. /\ phase' = "off" /\ runner' = "idle" /\ grants' = {}
          /\ out' = [t \in Tokens |-> "none"]
          /\ UNCHANGED <<att, issued>>
        BY <1>7 DEF Stop, Crash, Forget, Enter, slotVars
    <2> QED BY <2>1 DEF Rest, LeaseInv, AttemptsAndLeases, SlotExclusive,
                        AtRest, Covered, Active
<1> QED BY <1>1, <1>2, <1>3, <1>4, <1>5, <1>6, <1>7 DEF Booting, Closing

\* The invariant is inductive.
LEMMA LeaseStep ==
    ASSUME LeaseInv, [Next]_vars
    PROVE  LeaseInv'
<1>1. TypeOK'
    BY TypeStep DEF LeaseInv
<1>2. SUFFICES Rest'
    BY <1>1 DEF LeaseInv, Rest
<1>3. ASSUME NEW j \in Jobs, Operator(j) \/ WindowExpires(j) PROVE Rest'
    <2>1. UNCHANGED <<slotVars, phase, me, runner, grants, out>>
        BY <1>3 DEF Operator, StartSettlement, StartDaily, InvokeDaily, Pause,
                    Resume, Cancel, Rebind, Requeue, SetJob, WindowExpires,
                    slotVars, procVars, memVars
    <2> QED BY <2>1, Untouched
<1>4. ASSUME NEW t \in Tokens, Execute(t) PROVE Rest'
    BY <1>4, ExecuteLeases
<1>5. ASSUME NEW t \in Tokens, LeaseLapses(t) PROVE Rest'
    <2>1. UNCHANGED <<issued, phase, me, runner, grants, out>>
        BY <1>5 DEF LeaseLapses, procVars, memVars
    <2>2. \A u \in Tokens : /\ att'[u].lease = att[u].lease
                            /\ att'[u].status = att[u].status
                            /\ att'[u].by = att[u].by
        BY <1>5 DEF LeaseLapses, LeaseInv, TypeOK, Attempt
    <2>3. grants \subseteq Tokens
        BY DEF LeaseInv, TypeOK
    <2> QED BY <2>1, <2>2, <2>3 DEF Rest, LeaseInv, AttemptsAndLeases,
                                   SlotExclusive, AtRest, Covered, Active
<1>6. CASE RequestShutdown
    <2>1. UNCHANGED <<slotVars, phase, me, runner, grants, out>>
        BY <1>6 DEF RequestShutdown, slotVars, memVars
    <2> QED BY <2>1, Untouched
<1>7. CASE Tick
    BY <1>1, <1>7, TickLeases
<1>8. CASE RenewLeases
    <2>1. UNCHANGED <<issued, phase, me, runner, grants, out>>
        BY <1>8 DEF RenewLeases, procVars, memVars
    <2>2. \A u \in Tokens : /\ att'[u].lease = att[u].lease
                            /\ att'[u].status = att[u].status
                            /\ att'[u].by = att[u].by
        BY <1>8 DEF RenewLeases, LeaseInv, TypeOK, Attempt
    <2>3. grants \subseteq Tokens
        BY DEF LeaseInv, TypeOK
    <2> QED BY <2>1, <2>2, <2>3 DEF Rest, LeaseInv, AttemptsAndLeases,
                                   SlotExclusive, AtRest, Covered, Active
<1>9. CASE Booting \/ Shutdown \/ Closing \/ Crash
    BY <1>1, <1>9, LifeLeases
<1>10. CASE UNCHANGED vars
    <2>1. UNCHANGED <<slotVars, phase, me, runner, grants, out>>
        BY <1>10 DEF vars, slotVars, procVars, memVars
    <2> QED BY <2>1, Untouched
<1> QED BY <1>3, <1>4, <1>5, <1>6, <1>7, <1>8, <1>9, <1>10 DEF Next

\* Leases, grants and futures agree in every reachable state.
THEOREM LeasesAgree == Spec => []LeaseInv
<1>1. Init => LeaseInv
    <2> SUFFICES ASSUME Init PROVE LeaseInv
        OBVIOUS
    <2>1. TypeOK
        BY InitTyped
    <2>2. /\ phase = "off" /\ runner = "idle" /\ grants = {}
          /\ att = [t \in Tokens |-> NoAttempt]
          /\ out = [t \in Tokens |-> "none"]
        BY DEF Init
    <2>3. \A t \in Tokens : ~ Active(t) /\ att[t].status = "none"
        BY <2>2 DEF Active, NoAttempt
    <2> QED BY <2>1, <2>2, <2>3 DEF LeaseInv, AttemptsAndLeases,
                SlotExclusive, AtRest, Covered, Executing
<1>2. LeaseInv /\ [Next]_vars => LeaseInv'
    BY LeaseStep
<1> QED BY <1>1, <1>2, PTL DEF Spec

\* For any number of jobs, grants and process lives there is never more than
\* one active lease of the browser.
THEOREM SlotIsExclusive == Spec => []SlotExclusive
<1>1. LeaseInv => SlotExclusive
    BY DEF LeaseInv
<1> QED BY <1>1, LeasesAgree, PTL

\* No recovery path separates a lease from its attempt.
THEOREM LeasesFollowAttempts == Spec => []AttemptsAndLeases
<1>1. LeaseInv => AttemptsAndLeases
    BY DEF LeaseInv
<1> QED BY <1>1, LeasesAgree, PTL

\* Whatever is still executing, or waits to be collected, is covered by a
\* lease that this process holds.
THEOREM FuturesLeased == Spec => []FuturesAreLeased
<1>1. LeaseInv => FuturesAreLeased
    <2> SUFFICES ASSUME LeaseInv, NEW t \in Tokens,
                        \/ out[t] \in Executing
                        \/ out[t] \in Result /\ phase # "abandoned"
                 PROVE  /\ t \in grants /\ Active(t)
                        /\ att[t].status = "running" /\ att[t].by = me
        BY DEF FuturesAreLeased
    <2>1. phase # "abandoned"
        BY DEF LeaseInv, AtRest
    <2>2. out[t] # "none"
        BY DEF Executing, Result
    <2>3. t \in grants /\ Active(t) /\ att[t].by = me
        BY <2>1, <2>2 DEF LeaseInv, Covered
    <2> QED BY <2>3 DEF LeaseInv, AttemptsAndLeases
<1> QED BY <1>1, LeasesAgree, PTL

---------------------------------------------------------------------------
(* The contract of the slot.                                               *)

\* A step that leaves leases and futures alone is a stutter of the slot.
LEMMA SlotStutters ==
    ASSUME TypeOK, issued' = issued,
           \A t \in Tokens : att'[t].lease = att[t].lease,
           \A t \in Tokens : out'[t] \in Executing <=> out[t] \in Executing
    PROVE  UNCHANGED Slot!slot
BY DEF Slot!slot, Active

\* A lease taken from an attempt that nobody works on is a release.
LEMMA SlotReleases ==
    ASSUME LeaseInv, out' = out, NEW T \in SUBSET Tokens, Abandon(T),
           \A t \in T : Active(t) =>
                \A u \in Tokens : out[u] \notin Executing
    PROVE  [Slot!Next]_Slot!slot
<1>1. /\ \A t \in T : ~ Active(t)'
      /\ \A t \in Tokens \ T : att'[t] = att[t]
      /\ issued' = issued
    BY AbandonEnds DEF Active
<1>2. CASE \A t \in T : ~ Active(t)
    <2>1. {t \in Tokens : Active(t)}' = {t \in Tokens : Active(t)}
        BY <1>1, <1>2 DEF Active
    <2> QED BY <1>1, <2>1 DEF Slot!slot
<1>3. CASE \E t \in T : Active(t)
    <2>1. \A t \in Tokens : ~ Active(t)'
        BY <1>1, <1>3 DEF LeaseInv, SlotExclusive, Active
    <2>2. {t \in Tokens : out[t] \in Executing} = {}
        BY <1>3
    <2> QED BY <1>1, <2>1, <2>2 DEF Slot!Next, Slot!Release
<1> QED BY <1>2, <1>3

\* A scan grants the slot, releases it or leaves it.
LEMMA SlotScans ==
    ASSUME LeaseInv, ScanOnly \/ ScanAndGrant
    PROVE  [Slot!Next]_Slot!slot
<1> DEFINE holder == {t \in Tokens : Active(t)}
           working == {t \in Tokens : out[t] \in Executing}
<1>1. PICK g \in Jobs \cup {NoJob}, new \in Nat : ScanOutcome(g, new)
    BY ScanEffect
<1>2. working' = working
    BY <1>1 DEF ScanOutcome, Done, Executing, Result
<1>3. working \subseteq holder \ Done
    BY <1>1 DEF ScanOutcome, LeaseInv, Covered, Executing, Done, Result
<1>4. CASE g = NoJob
    <2>1. holder' = holder \ Done /\ issued' = issued
        BY <1>1, <1>4 DEF ScanOutcome, Active
    <2>2. CASE Done = {}
        BY <1>2, <2>1, <2>2 DEF Slot!slot
    <2>3. CASE Done # {}
        <3>1. holder \ Done = {}
            BY <2>3, <1>1 DEF ScanOutcome, LeaseInv, SlotExclusive, TypeOK
        <3> QED BY <1>2, <1>3, <2>1, <3>1 DEF Slot!Next, Slot!Release
    <2> QED BY <2>2, <2>3
<1>5. CASE g # NoJob
    <2>1. holder \ Done = {}
        BY <1>1, <1>5 DEF ScanOutcome, Chosen, SlotIsFree
    <2>2. holder' = {new}
        BY <1>1, <1>5, <2>1 DEF ScanOutcome, Active
    <2>3. /\ new \in Tokens /\ new \notin 1 .. issued
          /\ 1 .. issued' = (1 .. issued) \cup {new}
        BY <1>1, <1>5 DEF ScanOutcome
    <2> QED BY <1>2, <1>3, <2>1, <2>2, <2>3 DEF Slot!Next, Slot!Grant
<1> QED BY <1>4, <1>5

\* Every step of the scheduler is a step of the slot or a stutter.
LEMMA SlotStep ==
    ASSUME LeaseInv, [Next]_vars
    PROVE  [Slot!Next]_Slot!slot
<1> DEFINE working == {t \in Tokens : out[t] \in Executing}
<1>1. TypeOK
    BY DEF LeaseInv
<1>2. ASSUME NEW j \in Jobs, Operator(j) \/ WindowExpires(j)
      PROVE  [Slot!Next]_Slot!slot
    <2>1. UNCHANGED <<att, issued, out>>
        BY <1>2 DEF Operator, StartSettlement, StartDaily, InvokeDaily, Pause,
                    Resume, Cancel, Rebind, Requeue, SetJob, WindowExpires,
                    slotVars, memVars
    <2> QED BY <1>1, <2>1, SlotStutters
<1>3. ASSUME NEW t \in Tokens, Execute(t) PROVE [Slot!Next]_Slot!slot
    <2>1. UNCHANGED <<att, issued>> /\ out[t] \in Executing
        BY <1>3 DEF Execute, ReadBegins, SelectionBegins, ReadPartial,
                    RunCaptured, ReadPublished, ReadRefused, SelectionEnds,
                    Answer, slotVars, Reading, Executor
    <2>2. \A u \in Tokens \ {t} : out'[u] = out[u]
        BY <1>1, <1>3 DEF Execute, ReadBegins, SelectionBegins, ReadPartial,
                    RunCaptured, ReadPublished, ReadRefused, SelectionEnds,
                    Answer, memVars, TypeOK
    <2>3. CASE out'[t] \in Executing
        BY <1>1, <2>1, <2>2, <2>3, SlotStutters
    <2>4. CASE out'[t] \notin Executing
        <3>1. working' = working \ {t}
            BY <2>2, <2>4
        <3> QED BY <2>1, <3>1 DEF Slot!Next, Slot!End, Active
    <2> QED BY <2>3, <2>4
<1>4. ASSUME NEW t \in Tokens, LeaseLapses(t) PROVE [Slot!Next]_Slot!slot
    <2>1. UNCHANGED <<issued, out>>
        BY <1>4 DEF LeaseLapses, memVars
    <2>2. \A u \in Tokens : att'[u].lease = att[u].lease
        BY <1>1, <1>4 DEF LeaseLapses, TypeOK, Attempt
    <2> QED BY <1>1, <2>1, <2>2, SlotStutters
<1>5. CASE RenewLeases
    <2>1. UNCHANGED <<issued, out>>
        BY <1>5 DEF RenewLeases, memVars
    <2>2. \A u \in Tokens : att'[u].lease = att[u].lease
        BY <1>1, <1>5 DEF RenewLeases, TypeOK, Attempt
    <2> QED BY <1>1, <2>1, <2>2, SlotStutters
<1>6. CASE StartTick \/ BootRecovers
    <2>1. /\ Abandonable \in SUBSET Tokens /\ Abandon(Abandonable)
          /\ out' = out /\ phase # "abandoned"
        BY <1>6 DEF Abandonable, StartTick, BootRecovers, memVars
    <2>2. ASSUME NEW t \in Abandonable, Active(t), NEW u \in Tokens
          PROVE  out[u] \notin Executing
        <3>1. SUFFICES ASSUME out[u] \in Executing PROVE FALSE
            OBVIOUS
        <3>2. Active(u) /\ u \in grants
            BY <2>1, <3>1 DEF LeaseInv, Covered, Executing
        <3>3. u = t
            BY <2>1, <2>2, <3>2 DEF LeaseInv, SlotExclusive
        <3> QED BY <2>1, <3>2, <3>3, RecoveryIsForeign
    <2> QED BY <2>1, <2>2, SlotReleases
<1>7. CASE ScanOnly \/ ScanAndGrant
    BY <1>7, SlotScans
<1>8. CASE Dispatch
    <2> DEFINE begun == {t \in grants : out[t] = "none"}
    <2>1. /\ UNCHANGED <<att, issued, grants>>
          /\ phase \in {"serving", "closing"}
          /\ out' = [t \in Tokens |-> IF t \in grants /\ out[t] = "none"
                                      THEN "submitted" ELSE out[t]]
        BY <1>8 DEF Dispatch, slotVars, LeaseInv, AtRest
    <2>2. /\ grants \subseteq Tokens
          /\ \A t \in grants : Active(t)
        BY <2>1 DEF LeaseInv, Covered, TypeOK
    <2>3. working' = working \cup begun
        BY <2>1, <2>2 DEF Executing
    <2>4. CASE begun = {}
        BY <2>1, <2>3, <2>4 DEF Slot!slot, Active
    <2>5. CASE begun # {}
        <3>1. PICK t \in begun : begun = {t}
            BY <2>2, <2>5 DEF LeaseInv, SlotExclusive
        <3> QED BY <2>1, <2>2, <2>3, <3>1 DEF Slot!Next, Slot!Begin, Active
    <2> QED BY <2>4, <2>5
<1>9. ASSUME \/ ScanFails \/ EndTick \/ RequestShutdown
             \/ \E j \in Jobs : Close(j) \/ CloseFails(j)
      PROVE  [Slot!Next]_Slot!slot
    <2>1. UNCHANGED <<att, issued, out>>
        BY <1>9 DEF ScanFails, EndTick, RequestShutdown, Close, CloseFails,
                    slotVars, memVars
    <2> QED BY <1>1, <2>1, SlotStutters
<1>10. ASSUME \/ Boot \/ BootInterruptsReads \/ BootReconciles \/ BootFails
              \/ Shutdown \/ JoinRunner \/ Drain
       PROVE  [Slot!Next]_Slot!slot
    <2>1. UNCHANGED <<att, issued, out>>
        BY <1>10 DEF Boot, BootInterruptsReads, BootReconciles, BootFails,
                     Shutdown, JoinRunner, Drain, slotVars, memVars
    <2> QED BY <1>1, <2>1, SlotStutters
<1>11. CASE AbandonOwn
    <2> DEFINE T == {t \in Tokens : /\ att[t].status = "running"
                                    /\ Active(t) /\ att[t].by = me}
    <2>1. /\ T \in SUBSET Tokens /\ Abandon(T) /\ out' = out
          /\ \A u \in Tokens : out[u] \notin Executing
        BY <1>11 DEF AbandonOwn, memVars, LeaseInv, AtRest
    <2> HIDE DEF T
    <2> QED BY <2>1, SlotReleases
<1>12. CASE Stop \/ Crash
    <2>1. UNCHANGED <<att, issued>> /\ out' = [t \in Tokens |-> "none"]
        BY <1>12 DEF Stop, Crash, Forget, slotVars
    <2>2. working' = {}
        BY <2>1 DEF Executing
    <2> QED BY <2>1, <2>2 DEF Slot!Next, Slot!Crash, Active
<1>13. CASE UNCHANGED vars
    <2>1. UNCHANGED <<att, issued, out>>
        BY <1>13 DEF vars, slotVars, memVars
    <2> QED BY <1>1, <2>1, SlotStutters
<1> QED BY <1>2, <1>3, <1>4, <1>5, <1>6, <1>7, <1>8, <1>9, <1>10, <1>11,
           <1>12, <1>13 DEF Next, Tick, Booting, Closing

\* The scheduler implements the browser slot.
THEOREM SlotImplemented == Spec => ImplementsSlot
<1>1. Init => Slot!Init
    <2> SUFFICES ASSUME Init PROVE Slot!Init
        OBVIOUS
    <2>1. /\ \A t \in Tokens : ~ Active(t) /\ out[t] \notin Executing
          /\ 1 .. issued = {}
        BY DEF Init, Active, NoAttempt, Executing
    <2> QED BY <2>1 DEF Slot!Init
<1>2. LeaseInv /\ [Next]_vars => [Slot!Next]_Slot!slot
    BY SlotStep
<1> QED BY <1>1, <1>2, LeasesAgree, PTL DEF Spec, ImplementsSlot, Slot!Spec

---------------------------------------------------------------------------
(* Conflict keys.  That the key of a job which may still run is never      *)
(* handed out depends on no ended job coming back to life, in particular   *)
(* not when a scan derives the status of every job from its item again.    *)

\* What keeps the derived status of an ended job ended.
RowOK(row) ==
    /\ row.job \in {"failed", "succeeded"} =>
            row.item \in {"failed", "succeeded"}
    /\ row.job = "cancelled" => row.item \in EndedItem
    /\ row.item = "cancelled" => row.job = "cancelled"
    /\ row.job = "absent" <=> row.item = "absent"

KeyInv ==
    /\ TypeOK
    /\ \A j \in Jobs : RowOK(Row(j))
    /\ \A j \in Jobs : Exists(j) /\ ~ Terminal(j) => j \in holds
    /\ \A j, k \in holds : KeyOf[j] = KeyOf[k] => j = k

\* A pass of the scan neither revives an ended job nor creates one.
Keeps(r, q) ==
    /\ RowOK(q)
    /\ r.job \in TerminalJob => q.job \in TerminalJob
    /\ r.job = "absent" <=> q.job = "absent"

\* A result only arrives for a running item, whose job has not ended.
LEMMA FinishedKeeps ==
    ASSUME KeyInv, Fenced, NEW j \in Jobs
    PROVE  Keeps(Row(j), Finished(j))
<1>1. RowOK(Row(j)) /\ Row(j) \in RowType
    BY RowTyped DEF KeyInv
<1>2. CASE Delivered(j) = {}
    BY <1>1, <1>2 DEF Finished, Keeps
<1>3. CASE Delivered(j) # {}
    <2> DEFINE t == CHOOSE t \in Delivered(j) : TRUE
               row == Row(j)
               ret == Retired(j, row)
    <2>1. t \in Done /\ att[t].job = j /\ out[t] \in Result
        BY <1>3 DEF Delivered, Done
    <2>2. row.item = "running" /\ row.job \notin TerminalJob \cup {"absent"}
        <3>1. item[j] = "running"
            BY <2>1 DEF Fenced
        <3> QED BY <3>1, <1>1 DEF RowOK, Row, TerminalJob, EndedItem
    <2>3. /\ ret \in RowType /\ ret.job = row.job /\ ret.item = row.item
        BY <1>1, RetiredTyped DEF Retired, RowType
    <2>4. Finished(j) = WithResult(out[t], j, row)
        BY <1>3 DEF Finished
    <2>5. row \in RowType
        BY <1>1
    <2> HIDE DEF t, ret, row
    <2>6. WithResult(out[t], j, row).job \in {row.job, "paused"}
        BY <2>1, <2>3, <2>5
           DEF WithResult, Result, RowType, ExternalWait, ret
    <2>7. WithResult(out[t], j, row).item \in
                {"queued", "succeeded", "waiting_external", "failed"}
        BY <2>1, <2>3, <2>5
           DEF WithResult, Result, RowType, ExternalWait, ret
    <2> QED BY <2>2, <2>4, <2>6, <2>7 DEF Keeps, RowOK, TerminalJob, row
<1> QED BY <1>2, <1>3

LEMMA ReconciledKeeps ==
    ASSUME NEW j \in Jobs, NEW row \in RowType, RowOK(row)
    PROVE  Keeps(row, Reconciled(j, row))
<1> DEFINE q == Reconciled(j, row)
<1>1. CASE row.job \notin ScheduledJob \cup ControlledJob
            \/ row.item \notin ReadyItem
    BY <1>1 DEF Reconciled, Keeps
<1>2. CASE row.job \in ScheduledJob \cup ControlledJob
            /\ row.item \in ReadyItem
    <2> DEFINE ret == Retired(j, row)
    <2>1. ret \in RowType /\ ret.job = row.job /\ ret.item = row.item
        BY RetiredTyped DEF Retired, RowType
    <2> HIDE DEF ret
    <2>2. q.job = row.job
        BY <1>2, <2>1 DEF Reconciled, RowType, ret
    <2>3. q.item \in {row.item, "succeeded", "failed", "queued"}
        BY <1>2, <2>1 DEF Reconciled, RowType, ret
    <2> HIDE DEF q
    <2> QED BY <1>2, <2>2, <2>3 DEF Keeps, RowOK, ScheduledJob,
                ControlledJob, ReadyItem, TerminalJob, q
<1> QED BY <1>1, <1>2

LEMMA ControlledKeeps ==
    ASSUME NEW j \in Jobs, NEW row \in RowType, RowOK(row)
    PROVE  Keeps(row, Controlled(j, row))
<1> DEFINE q == Controlled(j, row)
           ret == Retired(j, row)
<1>1. ret \in RowType /\ ret.job = row.job /\ ret.item = row.item
    BY RetiredTyped DEF Retired, RowType
<1> HIDE DEF ret
<1>2. CASE row.job = "cancel_requested" /\ ~ StillLeased(j)
    <2>1. q.job = "cancelled" /\ q.item \in EndedItem
        BY <1>1, <1>2 DEF Controlled, RowType, EndedItem, ret
    <2> HIDE DEF q
    <2> QED BY <1>2, <2>1 DEF Keeps, RowOK, TerminalJob, EndedItem, q
<1>3. CASE row.job = "pause_requested" /\ ~ StillLeased(j)
    <2>1. q.job = "paused" /\ q.item \in {row.item, "queued"}
        BY <1>3 DEF Controlled, RowType
    <2> HIDE DEF q
    <2> QED BY <1>3, <2>1 DEF Keeps, RowOK, TerminalJob, q
<1>4. CASE /\ ~ (row.job = "cancel_requested" /\ ~ StillLeased(j))
           /\ ~ (row.job = "pause_requested" /\ ~ StillLeased(j))
    BY <1>4 DEF Controlled, Keeps
<1> QED BY <1>2, <1>3, <1>4

LEMMA PlacedKeeps ==
    ASSUME NEW j \in Jobs, NEW g, Settled(j) \in RowType, RowOK(Settled(j))
    PROVE  Keeps(Settled(j), Placed(j, g))
<1> DEFINE row == Settled(j)
           q == Placed(j, g)
<1>1. CASE g = NoJob \/ ~ Candidate(j)
    BY <1>1 DEF Placed, Keeps
<1>2. CASE ~ (g = NoJob \/ ~ Candidate(j))
    <2>1. row.job \in ScheduledJob /\ row.item \in ReadyItem
        BY <1>2 DEF Candidate
    <2> HIDE DEF row
    <2>2. q.job = row.job /\ q.item \in {"running", "waiting_resource"}
        BY <1>2 DEF Placed, RowType, row
    <2> HIDE DEF q
    <2> QED BY <2>1, <2>2 DEF Keeps, RowOK, ScheduledJob, ReadyItem,
                              TerminalJob, q, row
<1> QED BY <1>1, <1>2

LEMMA AggregatedKeeps ==
    ASSUME NEW row \in RowType, RowOK(row)
    PROVE  Keeps(row, Aggregated(row))
<1> DEFINE q == Aggregated(row)
<1>1. CASE row.job \in {"absent", "pause_requested", "paused",
                        "cancel_requested", "cancelled"}
    BY <1>1 DEF Aggregated, Keeps
<1>2. CASE row.job \notin {"absent", "pause_requested", "paused",
                           "cancel_requested", "cancelled"}
    <2>1. /\ q.item = row.item
          /\ q.job = IF row.item \in ScheduledJob \cup {"failed", "succeeded"}
                     THEN row.item ELSE "queued"
        BY <1>2 DEF Aggregated, RowType
    <2>2. row.item # "cancelled" /\ row.item # "absent"
        BY <1>2 DEF RowOK
    <2> HIDE DEF q
    <2> QED BY <1>2, <2>1, <2>2 DEF Keeps, RowOK, ScheduledJob, TerminalJob, q
<1> QED BY <1>1, <1>2

\* A whole scan revives no job.
LEMMA ScannedKeeps ==
    ASSUME KeyInv, Fenced, NEW j \in Jobs, NEW g
    PROVE  Keeps(Row(j), Scanned(j, g))
<1>1. TypeOK
    BY DEF KeyInv
<1>2. Finished(j) \in RowType /\ Keeps(Row(j), Finished(j))
    BY <1>1, FinishedTyped, FinishedKeeps
<1> DEFINE fin == Finished(j)
           rec == Reconciled(j, fin)
<1>3. rec \in RowType /\ Keeps(fin, rec)
    BY <1>1, <1>2, ReconciledTyped, ReconciledKeeps DEF Keeps
<1>4. Settled(j) \in RowType /\ Keeps(rec, Settled(j))
    BY <1>3, ControlledTyped, ControlledKeeps DEF Keeps, Settled
<1>5. Placed(j, g) \in RowType /\ Keeps(Settled(j), Placed(j, g))
    BY <1>1, <1>4, PlacedTyped, PlacedKeeps DEF Keeps
<1>6. Keeps(Placed(j, g), Scanned(j, g))
    BY <1>5, AggregatedKeeps DEF Keeps, Scanned
<1> QED BY <1>2, <1>3, <1>4, <1>5, <1>6 DEF Keeps

\* What is left of KeyInv once the types are known.
KeyRest ==
    /\ \A j \in Jobs : RowOK(Row(j))
    /\ \A j \in Jobs : Exists(j) /\ ~ Terminal(j) => j \in holds
    /\ \A j, k \in holds : KeyOf[j] = KeyOf[k] => j = k

\* RowOK only looks at the status of the job and of its item.
JobOK(status, itemStatus) ==
    /\ status \in {"failed", "succeeded"} =>
            itemStatus \in {"failed", "succeeded"}
    /\ status = "cancelled" => itemStatus \in EndedItem
    /\ itemStatus = "cancelled" => status = "cancelled"
    /\ status = "absent" <=> itemStatus = "absent"

\* A step that keeps the keys, ends no job without its item and revives none.
LEMMA KeysKept ==
    ASSUME KeyInv, holds' = holds,
           \A j \in Jobs : JobOK(job'[j], item'[j]),
           \A j \in Jobs : job'[j] \notin TerminalJob \cup {"absent"} =>
                              job[j] \notin TerminalJob \cup {"absent"}
    PROVE  KeyRest'
BY DEF KeyInv, KeyRest, RowOK, JobOK, Row, Exists, Terminal

\* The rows of the jobs before the step.
LEMMA RowsOK ==
    ASSUME KeyInv
    PROVE  \A j \in Jobs : JobOK(job[j], item[j])
BY DEF KeyInv, RowOK, JobOK, Row

\* Creating a job moves its key from an ended job to it.
LEMMA CreateKeys ==
    ASSUME KeyInv, NEW j \in Jobs, CreateJob(j)
    PROVE  KeyRest'
<1>1. /\ job' = [job EXCEPT ![j] = "queued"]
      /\ item' = [item EXCEPT ![j] = "queued"]
      /\ holds' = {k \in holds : KeyOf[k] # KeyOf[j]} \cup {j}
      /\ job \in [Jobs -> JobStatus] /\ item \in [Jobs -> ItemStatus]
    BY DEF CreateJob, KeyInv, TypeOK
<1>2. \A k \in Jobs : JobOK(job'[k], item'[k])
    BY <1>1, RowsOK DEF JobOK, EndedItem
<1>3. \A k \in Jobs : k # j /\ Exists(k) /\ ~ Terminal(k) =>
            k \in holds /\ KeyOf[k] # KeyOf[j]
    BY DEF CreateJob, KeyIsFree, KeyInv
<1>4. \A k \in Jobs : Exists(k)' /\ ~ Terminal(k)' => k \in holds'
    BY <1>1, <1>3 DEF Exists, Terminal
<1>5. \A k, l \in holds' : KeyOf[k] = KeyOf[l] => k = l
    BY <1>1 DEF KeyInv
<1> QED BY <1>2, <1>4, <1>5 DEF KeyRest, RowOK, JobOK, Row

\* Terminalizing reads ends them with their items and frees their keys.
LEMMA TerminalizeKeys ==
    ASSUME KeyInv, NEW status \in {"cancelled", "failed"},
           TerminalizeReads(status)
    PROVE  KeyRest'
<1>1. /\ job' = [j \in Jobs |-> IF j \in Unfinished THEN status ELSE job[j]]
      /\ item' = [j \in Jobs |->
                    IF j \in Unfinished /\ item[j] \notin EndedItem
                    THEN status ELSE item[j]]
      /\ holds' = holds \ Unfinished
    BY DEF TerminalizeReads
<1>2. \A j \in Jobs : JobOK(job'[j], item'[j])
    <2> TAKE j \in Jobs
    <2>1. JobOK(job[j], item[j])
        BY RowsOK
    <2>2. CASE j \notin Unfinished
        BY <1>1, <2>1, <2>2
    <2>3. CASE j \in Unfinished
        <3>1. job[j] \notin TerminalJob \cup {"absent"}
            BY <2>3 DEF Unfinished, Exists, Terminal
        <3> QED BY <1>1, <2>1, <2>3, <3>1 DEF JobOK, EndedItem, TerminalJob
    <2> QED BY <2>2, <2>3
<1>3. \A j \in Jobs : Exists(j)' /\ ~ Terminal(j)' => j \in holds'
    <2>1. \A j \in Jobs : Exists(j)' /\ ~ Terminal(j)' =>
                j \notin Unfinished /\ Exists(j) /\ ~ Terminal(j)
        BY <1>1 DEF Exists, Terminal, TerminalJob
    <2> QED BY <1>1, <2>1 DEF KeyInv
<1>4. \A k, l \in holds' : KeyOf[k] = KeyOf[l] => k = l
    BY <1>1 DEF KeyInv
<1> QED BY <1>2, <1>3, <1>4 DEF KeyRest, RowOK, JobOK, Row

\* Abandoning an attempt queues its running item again and nothing else.
LEMMA AbandonKeys ==
    ASSUME KeyInv, NEW T, Abandon(T)
    PROVE  KeyRest'
<1>1. job' = job /\ holds' = holds
    BY DEF Abandon
<1>2. \A j \in Jobs : \/ item'[j] = item[j]
                      \/ item[j] = "running" /\ item'[j] = "queued"
    BY DEF Abandon
<1>3. \A j \in Jobs : JobOK(job'[j], item'[j])
    BY <1>1, <1>2, RowsOK DEF JobOK, EndedItem
<1> QED BY <1>1, <1>3, KeysKept

\* A scan frees the keys of the jobs it ends and of no other.
LEMMA ScanKeys ==
    ASSUME KeyInv, NEW g, ScanGranting(g)
    PROVE  KeyRest'
<1>1. \A j \in Jobs : /\ job'[j] = Scanned(j, g).job
                      /\ item'[j] = Scanned(j, g).item
    BY DEF ScanGranting
<1>2. holds' = {j \in holds : Scanned(j, g).job \notin TerminalJob}
    BY DEF ScanGranting
<1>3. \A j \in Jobs : Keeps(Row(j), Scanned(j, g))
    BY ScannedKeeps DEF ScanGranting
<1>4. \A j \in Jobs : JobOK(job'[j], item'[j])
    BY <1>1, <1>3 DEF Keeps, RowOK, JobOK
<1>5. \A j \in Jobs : Exists(j)' /\ ~ Terminal(j)' => j \in holds'
    <2> SUFFICES ASSUME NEW j \in Jobs, Exists(j)', ~ Terminal(j)'
                 PROVE  j \in holds'
        OBVIOUS
    <2>1. Scanned(j, g).job \notin TerminalJob \cup {"absent"}
        BY <1>1 DEF Exists, Terminal
    <2>2. job[j] \notin TerminalJob \cup {"absent"}
        BY <2>1, <1>3 DEF Keeps, Row
    <2> QED BY <1>2, <2>1, <2>2 DEF KeyInv, Exists, Terminal
<1>6. \A k, l \in holds' : KeyOf[k] = KeyOf[l] => k = l
    BY <1>2 DEF KeyInv
<1> QED BY <1>4, <1>5, <1>6 DEF KeyRest, RowOK, JobOK, Row

\* The invariant is inductive.
LEMMA KeyStep ==
    ASSUME KeyInv, [Next]_vars
    PROVE  KeyInv'
<1>1. TypeOK'
    BY TypeStep DEF KeyInv
<1>2. SUFFICES KeyRest'
    BY <1>1 DEF KeyInv, KeyRest
<1>3. job \in [Jobs -> JobStatus] /\ item \in [Jobs -> ItemStatus]
    BY DEF KeyInv, TypeOK
<1>4. ASSUME UNCHANGED <<job, item, holds>> PROVE KeyRest'
    BY <1>4, RowsOK, KeysKept
<1>5. ASSUME NEW j \in Jobs, Operator(j) PROVE KeyRest'
    <2>1. CASE StartSettlement(j) \/ StartDaily(j)
        BY <2>1, CreateKeys DEF StartSettlement, StartDaily
    <2>2. CASE InvokeDaily(j) \/ Rebind(j)
        BY <2>2, <1>4 DEF InvokeDaily, Rebind, jobVars
    <2>3. CASE Pause(j) \/ Resume(j) \/ Cancel(j)
        <3>1. /\ job[j] \notin TerminalJob \cup {"absent"}
              /\ \E status \in {"pause_requested", "queued",
                                "cancel_requested"} :
                    job' = [job EXCEPT ![j] = status]
              /\ holds' = holds
              /\ \A k \in Jobs \ {j} : item'[k] = item[k]
              /\ item'[j] = item[j] \/ item'[j] = "queued"
            BY <1>3, <2>3 DEF Pause, Resume, Cancel, Requeue, SetJob,
                ScheduledJob, TerminalJob, Exists, Terminal
        <3>2. \A k \in Jobs : JobOK(job'[k], item'[k])
            BY <1>3, <3>1, RowsOK DEF JobOK, EndedItem, TerminalJob
        <3> QED BY <1>3, <3>1, <3>2, KeysKept
    <2> QED BY <1>5, <2>1, <2>2, <2>3 DEF Operator
<1>6. ASSUME NEW j \in Jobs, WindowExpires(j) PROVE KeyRest'
    BY <1>4, <1>6 DEF WindowExpires, jobVars
<1>7. ASSUME NEW t \in Tokens, Execute(t) \/ LeaseLapses(t) PROVE KeyRest'
    BY <1>4, <1>7 DEF Execute, ReadBegins, SelectionBegins, ReadPartial,
        RunCaptured, ReadPublished, ReadRefused, SelectionEnds, Answer,
        LeaseLapses, jobVars
<1>8. CASE RequestShutdown
    BY <1>8, TerminalizeKeys DEF RequestShutdown
<1>9. CASE Tick
    <2>1. CASE StartTick
        BY <2>1, AbandonKeys DEF StartTick
    <2>2. CASE ScanOnly \/ ScanAndGrant
        BY <2>2, ScanKeys DEF ScanOnly, ScanAndGrant
    <2>3. CASE ScanFails \/ Dispatch \/ EndTick
        BY <1>4, <2>3 DEF ScanFails, Dispatch, EndTick, jobVars
    <2>4. ASSUME NEW j \in Jobs, Close(j) \/ CloseFails(j) PROVE KeyRest'
        BY <1>4, <2>4 DEF Close, CloseFails, jobVars
    <2> QED BY <1>9, <2>1, <2>2, <2>3, <2>4 DEF Tick
<1>10. CASE Booting
    <2>1. CASE Boot \/ BootFails
        BY <1>4, <2>1 DEF Boot, BootFails, jobVars
    <2>2. CASE BootRecovers
        BY <2>2, AbandonKeys DEF BootRecovers
    <2>3. CASE BootInterruptsReads
        BY <2>3, TerminalizeKeys DEF BootInterruptsReads
    <2>4. CASE BootReconciles
        <3>1. PICK S \in SUBSET Orphans :
                /\ job' = [j \in Jobs |-> IF j \in S THEN "failed" ELSE job[j]]
                /\ item' = [j \in Jobs |->
                                IF j \in S THEN "failed" ELSE item[j]]
                /\ holds' = holds \ S
            BY <2>4 DEF BootReconciles
        <3>2. \A j \in Jobs : JobOK(job'[j], item'[j])
            BY <3>1, RowsOK DEF JobOK, EndedItem
        <3>3. \A j \in Jobs : Exists(j)' /\ ~ Terminal(j)' => j \in holds'
            BY <3>1 DEF KeyInv, Exists, Terminal, TerminalJob
        <3>4. \A k, l \in holds' : KeyOf[k] = KeyOf[l] => k = l
            BY <3>1 DEF KeyInv
        <3> QED BY <3>2, <3>3, <3>4 DEF KeyRest, RowOK, JobOK, Row
    <2> QED BY <1>10, <2>1, <2>2, <2>3, <2>4 DEF Booting
<1>11. CASE RenewLeases \/ Shutdown \/ JoinRunner \/ Drain \/ Crash
    BY <1>4, <1>11 DEF RenewLeases, Shutdown, JoinRunner, Drain, Crash, jobVars
<1>12. CASE AbandonOwn
    BY <1>12, AbandonKeys DEF AbandonOwn
<1>13. CASE Stop
    BY <1>4, <1>13, TerminalizeKeys DEF Stop, jobVars
<1>14. CASE UNCHANGED vars
    BY <1>4, <1>14 DEF vars, jobVars
<1> QED BY <1>5, <1>6, <1>7, <1>8, <1>9, <1>10, <1>11, <1>12, <1>13, <1>14
        DEF Next, Closing

\* Jobs, items and keys agree in every reachable state.
THEOREM KeysAgree == Spec => []KeyInv
<1>1. Init => KeyInv
    <2> SUFFICES ASSUME Init PROVE KeyInv
        OBVIOUS
    <2>1. TypeOK
        BY InitTyped
    <2>2. \A j \in Jobs : job[j] = "absent" /\ item[j] = "absent"
        BY DEF Init
    <2>3. holds = {}
        BY DEF Init
    <2> QED BY <2>1, <2>2, <2>3 DEF KeyInv, RowOK, Row, Exists
<1>2. KeyInv /\ [Next]_vars => KeyInv'
    BY KeyStep
<1> QED BY <1>1, <1>2, PTL DEF Spec

\* For any number of jobs and keys, a subject is read by one job at a time.
THEOREM KeysGuarded == Spec => []KeyGuard
<1>1. KeyInv => KeyGuard
    BY DEF KeyInv, KeyGuard
<1> QED BY <1>1, KeysAgree, PTL

=============================================================================
