-------------------------- MODULE ReadOutcomeProofs --------------------------
(***************************************************************************)
(* What becomes of the reads of ReadScheduler, for every set of jobs and   *)
(* every number of grants, stages and process lives: when one is reported  *)
(* as succeeded, when a cancelled one is no longer read, that the cleanup  *)
(* of an ended one can be finished, and that a published one gets its      *)
(* review.                                                                 *)
(***************************************************************************)
EXTENDS ReadWorkProofs

---------------------------------------------------------------------------
(* Success.  The statuses of a job are derived from its item again and     *)
(* again; what makes a success true is that no pass and no other step      *)
(* writes one without a published capture, or takes a capture back.        *)

PublishedInv == \A j \in Jobs : Published(Row(j))

\* A step that reports no new success and takes no published capture back.
LEMMA PublishedFrame ==
    ASSUME PublishedInv,
           \A j \in Jobs : item'[j] = "succeeded" \/ job'[j] = "succeeded" =>
                /\ item[j] = "succeeded" \/ job[j] = "succeeded"
                /\ inv[j] = "done" => inv'[j] = "done"
    PROVE  PublishedInv'
BY DEF PublishedInv, Published, Row

\* The invariant is inductive.
LEMMA PublishedStep ==
    ASSUME KeyInv, PublishedInv, [Next]_vars
    PROVE  PublishedInv'
<1>1. /\ job \in [Jobs -> JobStatus] /\ item \in [Jobs -> ItemStatus]
      /\ inv \in [Jobs -> InvStatus]
    BY DEF KeyInv, TypeOK
<1>2. ASSUME NEW j \in Jobs, Operator(j) PROVE PublishedInv'
    <2>1. CASE StartSettlement(j)
        BY <1>1, <2>1, PublishedFrame DEF StartSettlement, CreateJob, OpenInvocation
    <2>2. CASE StartDaily(j)
        BY <1>1, <2>2, PublishedFrame DEF StartDaily, CreateJob, invVars
    <2>3. CASE InvokeDaily(j)
        BY <1>1, <2>3, PublishedFrame DEF InvokeDaily, OpenInvocation, jobVars
    <2>4. CASE Pause(j) \/ Cancel(j)
        BY <1>1, <2>4, PublishedFrame DEF Pause, Cancel, SetJob, invVars
    <2>5. CASE Resume(j)
        BY <1>1, <2>5, PublishedFrame DEF Resume, Requeue, SetJob, invVars
    <2>6. CASE Rebind(j)
        BY <2>6, PublishedFrame DEF Rebind, jobVars
    <2> QED BY <1>2, <2>1, <2>2, <2>3, <2>4, <2>5, <2>6 DEF Operator
<1>3. ASSUME UNCHANGED <<job, item, inv>> PROVE PublishedInv'
    BY <1>3, PublishedFrame
<1>4. ASSUME NEW t \in Tokens, Execute(t) PROVE PublishedInv'
    <2> DEFINE j == att[t].job
    <2>1. UNCHANGED <<job, item>>
        BY <1>4 DEF Execute, ReadBegins, SelectionBegins, ReadPartial, RunCaptured,
               ReadPublished, ReadRefused, SelectionEnds, Answer, jobVars
    <2>2. inv' = inv \/ inv[j] \in {"open", "sealed"}
        BY <1>4 DEF Execute, ReadBegins, SelectionBegins, ReadPartial, RunCaptured,
               ReadPublished, ReadRefused, SelectionEnds, Reading, invVars
    <2>3. \A k \in Jobs : k # j => inv'[k] = inv[k]
        BY <1>1, <1>4 DEF Execute, ReadBegins, SelectionBegins, ReadPartial, RunCaptured,
               ReadPublished, ReadRefused, SelectionEnds, Reading, invVars
    <2> QED BY <2>1, <2>2, <2>3, PublishedFrame
<1>5. ASSUME NEW g, ScanGranting(g) PROVE PublishedInv'
    <2>1. Fenced /\ \A j \in Jobs : /\ job'[j] = Scanned(j, g).job
                                    /\ item'[j] = Scanned(j, g).item
                                    /\ inv'[j] = Scanned(j, g).inv
        BY <1>5 DEF ScanGranting
    <2>2. \A j \in Jobs : Published(Scanned(j, g))
        BY <2>1, ScannedFollows DEF PublishedInv
    <2> QED BY <2>1, <2>2 DEF PublishedInv, Published, Row
<1>6. ASSUME NEW status \in {"cancelled", "failed"}, TerminalizeReads(status), inv' = inv
      PROVE  PublishedInv'
    BY <1>6, PublishedFrame DEF TerminalizeReads
<1>7. ASSUME NEW T, Abandon(T), inv' = inv PROVE PublishedInv'
    <2>1. job' = job /\ \A j \in Jobs : item'[j] \in {item[j], "queued"}
        BY <1>7 DEF Abandon
    <2> QED BY <1>7, <2>1, PublishedFrame
<1>8. CASE RequestShutdown
    BY <1>6, <1>8 DEF RequestShutdown, invVars
<1>9. CASE Tick
    <2>1. CASE StartTick
        BY <1>7, <2>1 DEF StartTick, invVars
    <2>2. CASE ScanOnly \/ ScanAndGrant
        BY <1>5, <2>2 DEF ScanOnly, ScanAndGrant
    <2>3. CASE ScanFails \/ Dispatch \/ EndTick
        BY <1>3, <2>3 DEF ScanFails, Dispatch, EndTick, jobVars, invVars
    <2>4. ASSUME NEW j \in Jobs, Close(j) \/ CloseFails(j) PROVE PublishedInv'
        BY <1>3, <2>4 DEF Close, CloseFails, jobVars
    <2> QED BY <1>9, <2>1, <2>2, <2>3, <2>4 DEF Tick
<1>10. CASE Booting
    <2>1. CASE Boot
        BY <1>3, <2>1 DEF Boot, jobVars, invVars
    <2>2. CASE BootFails
        BY <1>3, <2>2 DEF BootFails, BootCloses, jobVars, invVars
    <2>3. CASE BootRecovers
        BY <1>7, <2>3 DEF BootRecovers, invVars
    <2>4. CASE BootInterruptsReads
        BY <1>6, <2>4 DEF BootInterruptsReads, invVars
    <2>5. CASE BootReconciles
        <3>1. /\ inv' = inv
              /\ \E S \in SUBSET Orphans :
                    /\ job' = [j \in Jobs |-> IF j \in S THEN "failed" ELSE job[j]]
                    /\ item' = [j \in Jobs |-> IF j \in S THEN "failed" ELSE item[j]]
            BY <2>5 DEF BootReconciles, BootCloses
        <3>2. \A j \in Jobs : job'[j] \in {job[j], "failed"} /\ item'[j] \in {item[j], "failed"}
            BY <3>1
        <3> QED BY <3>1, <3>2, PublishedFrame
    <2> QED BY <1>10, <2>1, <2>2, <2>3, <2>4, <2>5 DEF Booting
<1>11. CASE AbandonOwn
    BY <1>7, <1>11 DEF AbandonOwn, invVars
<1>12. CASE Stop
    BY <1>3, <1>6, <1>12 DEF Stop, jobVars, invVars
<1>13. ASSUME \/ RenewLeases \/ Shutdown \/ JoinRunner \/ Drain \/ Crash \/ UNCHANGED vars
              \/ \E t \in Tokens : LeaseLapses(t)
              \/ \E j \in Jobs : WindowExpires(j)
       PROVE  PublishedInv'
    <2>1. UNCHANGED <<job, item, inv>>
        BY <1>13 DEF RenewLeases, Shutdown, JoinRunner, Drain, Crash, vars, LeaseLapses,
                     WindowExpires, jobVars, invVars
    <2> QED BY <1>3, <2>1
<1> QED BY <1>2, <1>4, <1>8, <1>9, <1>10, <1>11, <1>12, <1>13 DEF Next, Closing

\* Through results, committed invocations whose result was lost, controls,
\* restarts and the aggregates derived from all of them, no job is reported as
\* succeeded whose capture is not published.
THEOREM SuccessIsPublished == Spec => []SucceededMeansPublished
<1>1. Init => PublishedInv
    BY DEF Init, PublishedInv, Published, Row
<1>2. KeyInv /\ PublishedInv /\ [Next]_vars => PublishedInv'
    BY PublishedStep
<1>3. PublishedInv => SucceededMeansPublished
    BY DEF PublishedInv, Published, Row, SucceededMeansPublished
<1> QED BY <1>1, <1>2, <1>3, KeysAgree, PTL DEF Spec

---------------------------------------------------------------------------
(* Cancellation.  A cancelled job with a lease in force can only be one    *)
(* the operator has left the program over, or one of another life.         *)

\* A step of one life that cancels nothing and leases nothing.
LEMMA BoundaryFrame ==
    ASSUME CancelBoundary, me' = me, explicit => explicit',
           \A j \in Jobs : job'[j] = "cancelled" => job[j] = "cancelled",
           \A t \in Tokens : Active(t)' =>
                Active(t) /\ att'[t].job = att[t].job /\ att'[t].by = att[t].by
    PROVE  CancelBoundary'
BY DEF CancelBoundary

\* A scan cancels what is not leased, and never grants what is cancelled.
LEMMA BoundaryScan ==
    ASSUME WorkInv, CancelBoundary, ScanOnly \/ ScanAndGrant
    PROVE  CancelBoundary'
<1>1. LeaseInv /\ KeyInv /\ TypeOK
    BY DEF WorkInv, LeaseInv
<1>2. PICK g \in Jobs \cup {NoJob} : ScanGranting(g) /\ ScanSlot(g)
    BY <1>1, ScanSlots
<1>3. Fenced /\ \A j \in Jobs : job'[j] = Scanned(j, g).job
    BY <1>2 DEF ScanGranting
<1>4. \A j \in Jobs : job'[j] = "cancelled" => job[j] = "cancelled" \/ ~ StillLeased(j)
    BY <1>1, <1>3, ScannedFollows
<1>5. g # NoJob => job'[g] # "cancelled"
    <2> SUFFICES ASSUME g # NoJob PROVE Scanned(g, g).job # "cancelled"
        BY <1>2, <1>3 DEF ScanSlot
    <2>1. g \in Jobs /\ Candidate(g)
        BY <1>2 DEF ScanSlot, Chosen
    <2>2. Settled(g) \in RowType /\ Settled(g).job \in ScheduledJob
        BY <1>1, <2>1, SettledTyped DEF Candidate
    <2>3. Placed(g, g) = [Settled(g) EXCEPT !.item = "running"]
        BY <2>1 DEF Placed
    <2>4. Placed(g, g).job \in ScheduledJob
        BY <2>2, <2>3 DEF RowType
    <2>5. Placed(g, g) \in RowType /\ Follows(g, Placed(g, g), Scanned(g, g))
        BY <1>1, <2>1, PlacedTyped, AggregatedFollows DEF Scanned
    <2>6. Aggregated(Placed(g, g)).job # "cancelled"
        BY <2>4, <2>5 DEF Aggregated, RowType, ScheduledJob
    <2> QED BY <2>6 DEF Scanned
<1> SUFFICES ASSUME NEW j \in Jobs, NEW t \in Tokens,
                    job'[j] = "cancelled", att'[t].job = j, Active(t)'
             PROVE  explicit' \/ att'[t].by # me'
    BY DEF CancelBoundary
<1>6. me' = me /\ explicit' = explicit
    BY <1>2 DEF ScanSlot
<1>7. CASE /\ Active(t) /\ t \notin Done /\ att'[t].job = att[t].job
           /\ att'[t].stage = att[t].stage /\ att'[t].by = att[t].by
    <2>1. StillLeased(j)
        BY <1>7 DEF StillLeased
    <2>2. job[j] = "cancelled"
        BY <1>4, <2>1
    <2> QED BY <1>6, <1>7, <2>2 DEF CancelBoundary
<1>8. CASE g # NoJob /\ att'[t] = NewAttempt(g)
    BY <1>5, <1>8 DEF NewAttempt
<1> QED BY <1>2, <1>7, <1>8 DEF ScanSlot

\* The property is inductive together with the agreement of the work.
LEMMA BoundaryStep ==
    ASSUME WorkInv, CancelBoundary, [Next]_vars
    PROVE  CancelBoundary'
<1>1. LeaseInv /\ LeasedWork /\ TypeOK
    BY DEF WorkInv, LeaseInv, WorkRest
<1>2. ASSUME \/ \E j \in Jobs : Operator(j) \/ WindowExpires(j)
             \/ \E t \in Tokens : Execute(t)
             \/ ScanFails \/ Dispatch \/ EndTick
             \/ \E j \in Jobs : Close(j) \/ CloseFails(j)
             \/ BootFails \/ Shutdown \/ JoinRunner \/ Drain \/ Crash
             \/ UNCHANGED vars
      PROVE  CancelBoundary'
    <2>1. UNCHANGED <<att, me, explicit>>
        BY <1>2 DEF Operator, StartSettlement, StartDaily, InvokeDaily, Pause, Resume,
            Requeue, Cancel, Rebind, SetJob, WindowExpires, Execute, ReadBegins,
            SelectionBegins, ReadPartial, RunCaptured, ReadPublished, ReadRefused,
            SelectionEnds, Answer, ScanFails, Dispatch, EndTick, Close, CloseFails,
            BootFails, Shutdown, JoinRunner, Drain, Crash, Enter, vars, slotVars, procVars
    <2>2. \A j \in Jobs : job'[j] = "cancelled" => job[j] = "cancelled"
        <3>1. CASE job' = job
            BY <3>1
        <3>2. CASE \E j \in Jobs : Operator(j)
            <4>1. job \in [Jobs -> JobStatus]
                BY <1>1 DEF TypeOK
            <4>2. \E j \in Jobs : \E s \in {"queued", "pause_requested", "cancel_requested"} :
                        job' = job \/ job' = [job EXCEPT ![j] = s]
                BY <3>2 DEF Operator, StartSettlement, StartDaily, CreateJob, InvokeDaily,
                    Pause, Resume, Requeue, Cancel, Rebind, SetJob, jobVars
            <4> QED BY <4>1, <4>2
        <3>3. CASE ~ \E j \in Jobs : Operator(j)
            <4>1. job' = job
                BY <1>2, <3>3 DEF WindowExpires, Execute, ReadBegins,
                    SelectionBegins, ReadPartial, RunCaptured, ReadPublished, ReadRefused,
                    SelectionEnds, Answer, ScanFails, Dispatch, EndTick, Close, CloseFails,
                    BootFails, Shutdown, JoinRunner, Drain, Crash, vars, jobVars
            <4> QED BY <4>1
        <3> QED BY <3>2, <3>3
    <2> QED BY <2>1, <2>2, BoundaryFrame DEF Active
<1>3. ASSUME UNCHANGED <<job, me, explicit>>,
             \A t \in Tokens : /\ att'[t].lease = att[t].lease
                               /\ att'[t].job = att[t].job /\ att'[t].by = att[t].by
      PROVE  CancelBoundary'
    BY <1>3, BoundaryFrame DEF Active
<1>4. ASSUME RenewLeases \/ \E t \in Tokens : LeaseLapses(t) PROVE CancelBoundary'
    <2>1. UNCHANGED <<job, me, explicit>>
        BY <1>4 DEF RenewLeases, LeaseLapses, jobVars, procVars
    <2>2. \A u \in Tokens : /\ att'[u].lease = att[u].lease
                            /\ att'[u].job = att[u].job /\ att'[u].by = att[u].by
        <3> TAKE u \in Tokens
        <3>1. att[u] \in Attempt /\ att'[u] \in {att[u], [att[u] EXCEPT !.fresh = TRUE],
                                               [att[u] EXCEPT !.fresh = FALSE]}
            BY <1>1, <1>4 DEF RenewLeases, LeaseLapses, TypeOK
        <3> QED BY <3>1 DEF Attempt
    <2> QED BY <1>3, <2>1, <2>2
<1>5. ASSUME NEW T \in SUBSET Tokens, Abandon(T), me' = me, explicit' = explicit
      PROVE  CancelBoundary'
    <2>1. /\ job' = job
          /\ \A t \in Tokens : Active(t)' => Active(t) /\ att'[t] = att[t]
        BY <1>1, <1>5, AbandonEnds DEF Abandon
    <2> QED BY <1>5, <2>1, BoundaryFrame
<1>6. CASE StartTick \/ BootRecovers
    BY <1>5, <1>6 DEF StartTick, BootRecovers, Enter, procVars, Abandonable
<1>7. CASE AbandonOwn
    BY <1>5, <1>7 DEF AbandonOwn, Enter
<1>8. CASE ScanOnly \/ ScanAndGrant
    BY <1>8, BoundaryScan
<1>9. CASE RequestShutdown
    BY <1>9 DEF RequestShutdown, CancelBoundary
<1>10. CASE Boot
    <2>1. /\ UNCHANGED <<job, att>> /\ me' = me + 1
        BY <1>10 DEF Boot, jobVars, slotVars
    <2>2. \A t \in Tokens : Active(t) => att[t].by \in Nat /\ me \in Nat /\ att[t].by <= me
        BY <1>1, ConstantsAssumption DEF LeasedWork, TypeOK, Attempt, ConstantsAssumption
    <2>3. \A t \in Tokens : Active(t)' => att'[t].by # me'
        BY <2>1, <2>2 DEF Active
    <2> QED BY <2>3 DEF CancelBoundary
<1>11. CASE BootInterruptsReads
    <2>1. UNCHANGED <<att, me, explicit>> /\ TerminalizeReads("failed")
        BY <1>11 DEF BootInterruptsReads, Enter, slotVars
    <2>2. \A j \in Jobs : job'[j] = "cancelled" => job[j] = "cancelled"
        BY <2>1 DEF TerminalizeReads
    <2> QED BY <2>1, <2>2, BoundaryFrame DEF Active
<1>12. CASE BootReconciles
    <2>1. /\ UNCHANGED <<att, me, explicit>>
          /\ \A j \in Jobs : job'[j] \in {job[j], "failed"}
        BY <1>12 DEF BootReconciles, Enter, slotVars
    <2> QED BY <2>1, BoundaryFrame DEF Active
<1>13. CASE Stop
    <2>1. UNCHANGED <<att, me, explicit>>
        BY <1>13 DEF Stop, Enter, slotVars
    <2>2. explicit \/ job' = job
        BY <1>13 DEF Stop, jobVars
    <2>3. CASE explicit
        BY <2>1, <2>3 DEF CancelBoundary
    <2>4. CASE job' = job
        BY <2>1, <2>4, BoundaryFrame DEF Active
    <2> QED BY <2>2, <2>3, <2>4
<1> QED BY <1>2, <1>4, <1>6, <1>7, <1>8, <1>9, <1>10, <1>11, <1>12, <1>13
        DEF Next, Tick, Booting, Closing

\* A control takes effect between two stages: while the program is not being
\* left, this process holds no lease on a read that is reported as cancelled.
THEOREM CancelledNotRead == Spec => []CancelBoundary
<1>1. Init => CancelBoundary
    BY DEF Init, CancelBoundary, Active, NoAttempt
<1>2. WorkInv /\ CancelBoundary /\ [Next]_vars => CancelBoundary'
    BY BoundaryStep
<1> QED BY <1>1, <1>2, WorkAgrees, PTL DEF Spec

---------------------------------------------------------------------------
(* Cleanup.  A pending cleanup withholds the browser slot, and waits for a *)
(* job that has ended.  Where nobody pauses, what is pending has ended for *)
(* good: only a read that waits for the operator is paused.                *)

\* A row of a job that nobody has paused.
Unpaused(row) ==
    /\ row.job # "pause_requested"
    /\ row.job = "paused" => row.item = "waiting_external"

CleanInv ==
    /\ \A j \in cleanup : Terminal(j)
    /\ \A j \in Jobs : Unpaused(Row(j))

\* Every pass of a scan leaves such a row.
LEMMA FinishedUnpaused ==
    ASSUME TypeOK, Fenced, NEW j \in Jobs, Unpaused(Row(j))
    PROVE  Unpaused(Finished(j))
<1> DEFINE row == Row(j)
           ret == Retired(j, row)
           t == CHOOSE t \in Delivered(j) : TRUE
<1>1. CASE Delivered(j) = {}
    BY <1>1 DEF Finished
<1>2. CASE Delivered(j) # {}
    <2>1. t \in Done /\ att[t].job = j /\ out[t] \in Result
        BY <1>2 DEF Delivered, Done
    <2>2. row \in RowType /\ row.item = "running"
        BY <2>1, RowTyped DEF Fenced, Row
    <2>3. ret \in RowType /\ ret.job = row.job
        BY <2>2, RetiredTyped DEF Retired, RowType
    <2>4. Finished(j) = WithResult(out[t], j, row)
        BY <1>2 DEF Finished
    <2> HIDE DEF t, ret, row
    <2>5. \/ WithResult(out[t], j, row).job = row.job
          \/ /\ WithResult(out[t], j, row).job = "paused"
             /\ WithResult(out[t], j, row).item = "waiting_external"
        BY <2>1, <2>2, <2>3 DEF WithResult, Result, RowType, ExternalWait, ret
    <2>6. row.job # "pause_requested" /\ row.job # "paused"
        BY <2>2 DEF Unpaused, row
    <2> QED BY <2>4, <2>5, <2>6 DEF Unpaused
<1> QED BY <1>1, <1>2

LEMMA ReconciledUnpaused ==
    ASSUME NEW j \in Jobs, NEW row \in RowType, Unpaused(row)
    PROVE  Unpaused(Reconciled(j, row))
<1> DEFINE q == Reconciled(j, row)
           ret == Retired(j, row)
<1>1. ret \in RowType /\ ret.job = row.job
    BY RetiredTyped DEF Retired, RowType
<1> HIDE DEF ret
<1>2. CASE row.job \notin ScheduledJob \cup ControlledJob
    BY <1>2 DEF Reconciled
<1>3. CASE row.job \in ScheduledJob \cup ControlledJob
    <2>1. q.job = row.job
        BY <1>1 DEF Reconciled, RowType, ret
    <2>2. row.job # "paused" /\ row.job # "pause_requested"
        BY <1>3 DEF Unpaused, ScheduledJob, ControlledJob
    <2> HIDE DEF q
    <2> QED BY <2>1, <2>2 DEF Unpaused, q
<1> QED BY <1>2, <1>3

LEMMA ControlledUnpaused ==
    ASSUME NEW j \in Jobs, NEW row \in RowType, Unpaused(row)
    PROVE  /\ Unpaused(Controlled(j, row))
           /\ \/ Controlled(j, row) = row
              \/ Controlled(j, row).job = "cancelled"
<1>1. Retired(j, row) \in RowType
    BY RetiredTyped
<1>2. Controlled(j, row) = row \/ Controlled(j, row).job = "cancelled"
    BY <1>1 DEF Controlled, Unpaused, RowType
<1> QED BY <1>2 DEF Unpaused

LEMMA AggregatedUnpaused ==
    ASSUME NEW row \in RowType, Unpaused(row)
    PROVE  Unpaused(Aggregated(row))
BY DEF Aggregated, Unpaused, RowType, ScheduledJob

\* A whole scan does, and a job whose cleanup it makes pending has ended.
LEMMA ScanUnpaused ==
    ASSUME WorkInv, CleanInv, Fenced, NEW j \in Jobs, NEW g
    PROVE  /\ Unpaused(Scanned(j, g))
           /\ EndsNow(j) => Scanned(j, g).job \in TerminalJob
<1>1. LeaseInv /\ LeasedWork /\ KeyInv /\ TypeOK /\ Unpaused(Row(j)) /\ RowOK(Row(j))
    BY DEF WorkInv, WorkRest, LeaseInv, CleanInv, KeyInv
<1> DEFINE fin == Finished(j)
           rec == Reconciled(j, fin)
           con == Settled(j)
           pla == Placed(j, g)
<1>2. fin \in RowType /\ rec \in RowType /\ con \in RowType /\ pla \in RowType
    BY <1>1, FinishedTyped, ReconciledTyped, SettledTyped, PlacedTyped
<1>3. Unpaused(fin) /\ Keeps(Row(j), fin)
    BY <1>1, FinishedUnpaused, FinishedKeeps
<1>4. Unpaused(rec) /\ Keeps(fin, rec)
    BY <1>2, <1>3, ReconciledUnpaused, ReconciledKeeps DEF Keeps
<1>5. Unpaused(con) /\ Keeps(rec, con)
    BY <1>2, <1>4, ControlledUnpaused, ControlledKeeps DEF Keeps, Settled
<1>6. \/ pla = con
      \/ /\ con.job \in ScheduledJob /\ con.item \in ReadyItem
         /\ pla.job = con.job
    <2> HIDE DEF con
    <2> QED BY <1>2 DEF Placed, Candidate, RowType, con
<1>7. Unpaused(pla)
    <2> HIDE DEF pla, con
    <2> QED BY <1>5, <1>6 DEF Unpaused, ScheduledJob
<1>8. Unpaused(Scanned(j, g))
    BY <1>2, <1>7, AggregatedUnpaused DEF Scanned
<1>9. ASSUME EndsNow(j) PROVE Scanned(j, g).job \in TerminalJob
    <2>1. con.job # "pause_requested"
        BY <1>5 DEF Unpaused
    <2>2. CASE con.job = "cancelled"
        <3>1. pla = con
            BY <1>6, <2>2 DEF ScheduledJob
        <3>2. Scanned(j, g) = Aggregated(con)
            BY <3>1 DEF Scanned
        <3> HIDE DEF con
        <3> QED BY <2>2, <3>2 DEF Aggregated, TerminalJob
    <2>3. CASE con.job # "cancelled"
        <3>1. item[j] \notin EndedItem /\ con.item \in EndedItem
            BY <1>9, <2>3 DEF EndsNow
        <3>2. con.job # "paused" /\ con.job # "absent"
            BY <1>5, <3>1 DEF Unpaused, Keeps, RowOK, EndedItem
        <3>3. con.job # "cancel_requested"
            <4> SUFFICES ASSUME con.job = "cancel_requested" PROVE FALSE
                OBVIOUS
            <4>1. StillLeased(j)
                <5> SUFFICES ASSUME ~ StillLeased(j) PROVE FALSE
                    OBVIOUS
                <5>1. con = Controlled(j, rec)
                    BY DEF Settled
                <5> HIDE DEF con, rec
                <5>2. con = rec
                    BY <1>2, <1>4, <2>3, <5>1, ControlledUnpaused
                <5>3. Controlled(j, rec).job = "cancelled"
                    <6>1. Retired(j, rec) \in RowType
                        BY <1>2, RetiredTyped
                    <6> QED BY <5>2, <6>1 DEF Controlled, RowType
                <5> QED BY <2>3, <5>1, <5>3
            <4>2. PICK t \in Tokens \ Done : Active(t) /\ att[t].job = j
                BY <4>1 DEF StillLeased
            <4>3. con = Row(j)
                BY <1>1, <4>2, LeasedRow
            <4> QED BY <3>1, <4>3 DEF Row
        <3>4. pla = con
            BY <1>6, <3>1 DEF ReadyItem, EndedItem
        <3>5. Scanned(j, g) = Aggregated(con)
            BY <3>4 DEF Scanned
        <3>6. con.item # "cancelled"
            BY <1>5, <2>3 DEF Keeps, RowOK
        <3> HIDE DEF con
        <3>7. Aggregated(con).job = con.item
            BY <1>2, <2>1, <2>3, <3>1, <3>2, <3>3, <3>6
               DEF Aggregated, RowType, EndedItem
        <3> QED BY <3>1, <3>5, <3>7 DEF TerminalJob, EndedItem
    <2> QED BY <2>2, <2>3
<1> QED BY <1>8, <1>9

\* A step that pauses nothing, revives nothing and makes no cleanup pending.
LEMMA CleanFrame ==
    ASSUME CleanInv, cleanup' \subseteq cleanup,
           \A j \in Jobs : job[j] \in TerminalJob => job'[j] \in TerminalJob,
           \A j \in Jobs :
               \/ job'[j] \notin {"paused", "pause_requested"}
               \/ /\ job'[j] = job[j]
                  /\ item[j] = "waiting_external" => item'[j] = "waiting_external",
           TypeOK
    PROVE  CleanInv'
<1>1. \A j \in cleanup' : Terminal(j)'
    BY DEF CleanInv, Terminal, TypeOK
<1>2. \A j \in Jobs : Unpaused(Row(j))'
    BY DEF CleanInv, Unpaused, Row
<1> QED BY <1>1, <1>2 DEF CleanInv

\* The invariant is inductive as long as nobody pauses.
LEMMA CleanStep ==
    ASSUME WorkInv, CleanInv, ~ AllowPause, [Next]_vars
    PROVE  CleanInv'
<1>1. LeaseInv /\ KeyInv /\ TypeOK /\ job \in [Jobs -> JobStatus]
    BY DEF WorkInv, LeaseInv, TypeOK
<1>2. ASSUME UNCHANGED <<job, item, cleanup>> PROVE CleanInv'
    BY <1>1, <1>2, CleanFrame
<1>3. ASSUME NEW j \in Jobs, Operator(j) PROVE CleanInv'
    <2>1. CASE InvokeDaily(j) \/ Rebind(j)
        BY <1>2, <2>1 DEF InvokeDaily, Rebind, jobVars, memVars
    <2>2. CASE ~ (InvokeDaily(j) \/ Rebind(j))
        <3>1. /\ job[j] \notin TerminalJob /\ cleanup' = cleanup
              /\ \E s \in {"queued", "cancel_requested"} : job' = [job EXCEPT ![j] = s]
              /\ \A k \in Jobs \ {j} : item'[k] = item[k]
            BY <1>1, <1>3, <2>2 DEF Operator, StartSettlement, StartDaily, CreateJob,
                Pause, Resume, Requeue, Cancel, SetJob, Exists, Terminal, memVars,
                TerminalJob, TypeOK
        <3> QED BY <1>1, <3>1, CleanFrame
    <2> QED BY <2>1, <2>2
<1>4. ASSUME NEW status \in {"cancelled", "failed"}, TerminalizeReads(status),
             cleanup' \subseteq cleanup
      PROVE  CleanInv'
    <2>1. \A j \in Jobs : \/ job'[j] = status
                          \/ job'[j] = job[j] /\ item'[j] = item[j]
        BY <1>4 DEF TerminalizeReads
    <2> QED BY <1>1, <1>4, <2>1, CleanFrame DEF TerminalJob
<1>5. ASSUME NEW T, Abandon(T), cleanup' = cleanup PROVE CleanInv'
    <2>1. job' = job
        BY <1>5 DEF Abandon
    <2>2. \A j \in Jobs : item'[j] = item[j] \/ item[j] = "running"
        BY <1>5 DEF Abandon
    <2> QED BY <1>1, <1>5, <2>1, <2>2, CleanFrame
<1>6. ASSUME NEW g, ScanGranting(g) PROVE CleanInv'
    <2>1. /\ Fenced
          /\ cleanup' = cleanup \cup {j \in Jobs : EndsNow(j)}
          /\ \A j \in Jobs : job'[j] = Scanned(j, g).job /\ item'[j] = Scanned(j, g).item
        BY <1>6 DEF ScanGranting
    <2>2. \A j \in Jobs : Unpaused(Row(j))'
        BY <2>1, ScanUnpaused DEF Unpaused, Row
    <2>3. ASSUME NEW j \in cleanup' PROVE Terminal(j)'
        <3>1. CASE j \in cleanup
            <4>1. j \in Jobs /\ job[j] \in TerminalJob
                BY <1>1, <3>1 DEF TypeOK, CleanInv, Terminal
            <4>2. Scanned(j, g).job \in TerminalJob
                BY <1>1, <2>1, <4>1, ScannedKeeps DEF Keeps, Row
            <4> QED BY <2>1, <4>1, <4>2 DEF Terminal
        <3>2. CASE j \notin cleanup
            <4>1. j \in Jobs /\ EndsNow(j)
                BY <2>1, <2>3, <3>2
            <4>2. Scanned(j, g).job \in TerminalJob
                BY <2>1, <4>1, ScanUnpaused
            <4> QED BY <2>1, <4>1, <4>2 DEF Terminal
        <3> QED BY <3>1, <3>2
    <2> QED BY <2>2, <2>3 DEF CleanInv
<1>7. CASE RequestShutdown
    BY <1>4, <1>7 DEF RequestShutdown, memVars
<1>8. CASE Tick
    <2>1. CASE StartTick
        BY <1>5, <2>1 DEF StartTick
    <2>2. CASE ScanOnly \/ ScanAndGrant
        BY <1>6, <2>2 DEF ScanOnly, ScanAndGrant
    <2>3. CASE ScanFails \/ Dispatch \/ EndTick
        BY <1>2, <2>3 DEF ScanFails, Dispatch, EndTick, jobVars
    <2>4. ASSUME NEW j \in Jobs, Close(j) \/ CloseFails(j) PROVE CleanInv'
        <3>1. UNCHANGED <<job, item>> /\ cleanup' \subseteq cleanup
            BY <2>4 DEF Close, CloseFails, jobVars, memVars
        <3> QED BY <1>1, <3>1, CleanFrame
    <2> QED BY <1>8, <2>1, <2>2, <2>3, <2>4 DEF Tick
<1>9. CASE Booting
    <2>1. CASE Boot \/ BootFails
        BY <1>2, <2>1 DEF Boot, BootFails, jobVars, memVars
    <2>2. CASE BootRecovers
        BY <1>5, <2>2 DEF BootRecovers, memVars
    <2>3. CASE BootInterruptsReads
        BY <1>4, <2>3 DEF BootInterruptsReads, memVars
    <2>4. CASE BootReconciles
        <3>1. cleanup' = cleanup
            BY <2>4 DEF BootReconciles, memVars
        <3>2. PICK S \in SUBSET Orphans :
                /\ job' = [j \in Jobs |-> IF j \in S THEN "failed" ELSE job[j]]
                /\ item' = [j \in Jobs |-> IF j \in S THEN "failed" ELSE item[j]]
            BY <2>4 DEF BootReconciles
        <3>3. \A j \in Jobs : \/ job'[j] = "failed"
                              \/ job'[j] = job[j] /\ item'[j] = item[j]
            BY <3>2
        <3> QED BY <1>1, <3>1, <3>3, CleanFrame DEF TerminalJob
    <2> QED BY <1>9, <2>1, <2>2, <2>3, <2>4 DEF Booting
<1>10. CASE AbandonOwn
    BY <1>5, <1>10 DEF AbandonOwn, memVars
<1>11. CASE Stop
    <2>1. cleanup' = {}
        BY <1>11 DEF Stop, Forget
    <2>2. TerminalizeReads("cancelled") \/ UNCHANGED <<job, item>>
        BY <1>11 DEF Stop, jobVars
    <2> QED BY <1>1, <1>4, <2>1, <2>2, CleanFrame
<1>12. CASE Crash
    <2>1. UNCHANGED <<job, item>> /\ cleanup' = {}
        BY <1>12 DEF Crash, Forget, jobVars
    <2> QED BY <1>1, <2>1, CleanFrame
<1>13. ASSUME \/ RenewLeases \/ Shutdown \/ JoinRunner \/ Drain \/ UNCHANGED vars
              \/ \E t \in Tokens : Execute(t) \/ LeaseLapses(t)
              \/ \E j \in Jobs : WindowExpires(j)
       PROVE  CleanInv'
    <2>1. UNCHANGED <<job, item, cleanup>>
        BY <1>13 DEF RenewLeases, Shutdown, JoinRunner, Drain, vars, Execute, ReadBegins,
            SelectionBegins, ReadPartial, RunCaptured, ReadPublished, ReadRefused,
            SelectionEnds, Answer, LeaseLapses, WindowExpires, jobVars, memVars
    <2> QED BY <1>2, <2>1
<1> QED BY <1>3, <1>7, <1>8, <1>9, <1>10, <1>11, <1>12, <1>13 DEF Next, Closing

\* Without pauses, everything whose cleanup is pending has ended and can be
\* closed: nothing withholds the browser slot for ever.  With pauses this is
\* false: a failed read that is paused and given a new window is the case.
THEOREM CleanupCloses ==
    ASSUME ~ AllowPause
    PROVE  Spec => []CleanupCanClose
<1>1. Init => CleanInv
    BY DEF Init, CleanInv, Unpaused, Row
<1>2. WorkInv /\ CleanInv /\ [Next]_vars => CleanInv'
    BY CleanStep
<1>3. CleanInv => CleanupCanClose
    BY DEF CleanInv, CleanupCanClose, MayClose
<1> QED BY <1>1, <1>2, <1>3, WorkAgrees, PTL DEF Spec

\* An item and its job end together, and the same way.
EndedInv ==
    /\ \A j \in Jobs : item[j] \in EndedItem => Terminal(j)
    /\ \A j \in Jobs : job[j] \in {"failed", "succeeded"} => item[j] = job[j]

\* A step that keeps the outcome of what has ended, and ends jobs with items.
KeepsOutcomes ==
    /\ EndedInv'
    /\ \A j \in Jobs : Terminal(j) => job'[j] = job[j]

LEMMA OutcomeFrame ==
    ASSUME EndedInv,
           \A j \in Jobs :
               \/ job'[j] = job[j] /\ item'[j] = item[j]
               \/ /\ job[j] \notin TerminalJob
                  /\ job'[j] \in TerminalJob /\ item'[j] = job'[j]
               \/ /\ job[j] \notin TerminalJob
                  /\ job'[j] \notin TerminalJob /\ item'[j] \in {item[j], "queued"}
    PROVE  KeepsOutcomes
BY DEF EndedInv, KeepsOutcomes, Terminal, EndedItem, TerminalJob

\* No pass of a scan touches the row of a job that has ended.
LEMMA OutcomeScan ==
    ASSUME WorkInv, CleanInv, EndedInv, NEW g, ScanGranting(g)
    PROVE  KeepsOutcomes
<1>1. KeyInv /\ TypeOK /\ Fenced
    BY DEF WorkInv, KeyInv, ScanGranting
<1>2. \A j \in Jobs : job'[j] = Scanned(j, g).job /\ item'[j] = Scanned(j, g).item
    BY DEF ScanGranting
<1>3. ASSUME NEW j \in Jobs, Terminal(j) PROVE job'[j] = job[j]
    <2> DEFINE row == Row(j)
    <2>1. /\ row \in RowType /\ row.job = job[j] /\ row.item = item[j]
          /\ job[j] \in TerminalJob
        BY <1>1, <1>3, RowTyped DEF Row, Terminal
    <2>2. item[j] \in EndedItem
        BY <1>1, <2>1 DEF KeyInv, RowOK, TerminalJob, EndedItem
    <2>3. Delivered(j) = {}
        <3>1. \A t \in Done : item[att[t].job] = "running"
            BY <1>1 DEF Fenced
        <3> QED BY <2>2, <3>1 DEF Delivered, EndedItem
    <2>4. Finished(j) = row
        BY <2>3 DEF Finished
    <2> HIDE DEF row
    <2>5. Reconciled(j, row) = row
        BY <2>1 DEF Reconciled, TerminalJob, ScheduledJob, ControlledJob
    <2>6. Controlled(j, row) = row
        BY <2>1 DEF Controlled, TerminalJob
    <2>7. Settled(j) = row
        BY <2>4, <2>5, <2>6 DEF Settled
    <2>8. Placed(j, g) = row
        BY <2>1, <2>7 DEF Placed, Candidate, TerminalJob, ScheduledJob
    <2>9. job[j] = "cancelled" \/ item[j] = job[j]
        BY <2>1 DEF EndedInv, TerminalJob
    <2>10. Aggregated(row).job = job[j]
        BY <2>1, <2>9 DEF Aggregated, RowType, TerminalJob
    <2> QED BY <1>2, <2>8, <2>10 DEF Scanned
<1>4. ASSUME NEW j \in Jobs, item'[j] \in EndedItem PROVE Terminal(j)'
    <2>1. Settled(j) \in RowType /\ Placed(j, g) \in RowType
        BY <1>1, SettledTyped, PlacedTyped
    <2>2. Scanned(j, g).item = Placed(j, g).item
        BY <2>1 DEF Scanned, Aggregated, RowType
    <2>3. Settled(j).item \in EndedItem
        BY <1>2, <1>4, <2>1, <2>2 DEF Placed, RowType, EndedItem
    <2>4. CASE item[j] \in EndedItem
        <3>1. Terminal(j)
            BY <2>4 DEF EndedInv
        <3> QED BY <1>3, <3>1 DEF Terminal
    <2>5. CASE item[j] \notin EndedItem
        <3>1. EndsNow(j)
            BY <2>3, <2>5 DEF EndsNow
        <3>2. Scanned(j, g).job \in TerminalJob
            BY <1>1, <3>1, ScanUnpaused
        <3> QED BY <1>2, <3>2 DEF Terminal
    <2> QED BY <2>4, <2>5
<1>5. ASSUME NEW j \in Jobs, job'[j] \in {"failed", "succeeded"} PROVE item'[j] = job'[j]
    <2>1. Placed(j, g) \in RowType
        BY <1>1, PlacedTyped
    <2>2. Scanned(j, g).job \in {"failed", "succeeded"} =>
                Scanned(j, g).item = Scanned(j, g).job
        BY <2>1 DEF Scanned, Aggregated, RowType
    <2> QED BY <1>2, <1>5, <2>2
<1> QED BY <1>3, <1>4, <1>5 DEF KeepsOutcomes, EndedInv

LEMMA OutcomeStep ==
    ASSUME WorkInv, CleanInv, EndedInv, [Next]_vars
    PROVE  KeepsOutcomes
<1>1. /\ TypeOK /\ job \in [Jobs -> JobStatus] /\ item \in [Jobs -> ItemStatus]
      /\ \A j \in Jobs : item[j] = "running" => job[j] \notin TerminalJob
    BY DEF WorkInv, LeaseInv, TypeOK, KeyInv, RowOK, Row, TerminalJob, EndedItem
<1>2. ASSUME UNCHANGED <<job, item>> PROVE KeepsOutcomes
    BY <1>2, OutcomeFrame
<1>3. ASSUME NEW j \in Jobs, Operator(j) PROVE KeepsOutcomes
    <2>1. CASE InvokeDaily(j) \/ Rebind(j)
        BY <1>2, <2>1 DEF InvokeDaily, Rebind, jobVars
    <2>2. CASE ~ (InvokeDaily(j) \/ Rebind(j))
        <3>1. /\ job[j] \notin TerminalJob
              /\ \E s \in {"queued", "pause_requested", "cancel_requested"} :
                    job' = [job EXCEPT ![j] = s]
              /\ \A k \in Jobs \ {j} : item'[k] = item[k]
              /\ item'[j] \in {item[j], "queued"}
            BY <1>1, <1>3, <2>2 DEF Operator, StartSettlement, StartDaily, CreateJob,
                Pause, Resume, Requeue, Cancel, SetJob, Exists, Terminal,
                TerminalJob, ScheduledJob
        <3>2. \A k \in Jobs \ {j} : job'[k] = job[k]
            BY <1>1, <3>1
        <3>3. job'[j] \notin TerminalJob
            BY <1>1, <3>1 DEF TerminalJob
        <3> QED BY <3>1, <3>2, <3>3, OutcomeFrame
    <2> QED BY <2>1, <2>2
<1>4. ASSUME NEW status \in {"cancelled", "failed"}, TerminalizeReads(status)
      PROVE  KeepsOutcomes
    <2>1. \A j \in Jobs : \/ job'[j] = job[j] /\ item'[j] = item[j]
                          \/ /\ job[j] \notin TerminalJob /\ job'[j] = status
                             /\ item'[j] = status
        BY <1>4 DEF TerminalizeReads, EndedInv, Unfinished, Terminal
    <2> QED BY <2>1, OutcomeFrame DEF TerminalJob
<1>5. ASSUME NEW T, Abandon(T) PROVE KeepsOutcomes
    <2>1. job' = job
        BY <1>5 DEF Abandon
    <2>2. \A j \in Jobs : \/ item'[j] = item[j]
                          \/ item[j] = "running" /\ item'[j] = "queued"
        BY <1>5 DEF Abandon
    <2> QED BY <1>1, <2>1, <2>2, OutcomeFrame
<1>6. CASE RequestShutdown
    BY <1>4, <1>6 DEF RequestShutdown
<1>7. CASE Tick
    <2>1. CASE StartTick
        BY <1>5, <2>1 DEF StartTick
    <2>2. CASE ScanOnly \/ ScanAndGrant
        BY <2>2, OutcomeScan DEF ScanOnly, ScanAndGrant
    <2>3. CASE ScanFails \/ Dispatch \/ EndTick
        BY <1>2, <2>3 DEF ScanFails, Dispatch, EndTick, jobVars
    <2>4. ASSUME NEW j \in Jobs, Close(j) \/ CloseFails(j) PROVE KeepsOutcomes
        BY <1>2, <2>4 DEF Close, CloseFails, jobVars
    <2> QED BY <1>7, <2>1, <2>2, <2>3, <2>4 DEF Tick
<1>8. CASE Booting
    <2>1. CASE Boot \/ BootFails
        BY <1>2, <2>1 DEF Boot, BootFails, jobVars
    <2>2. CASE BootRecovers
        BY <1>5, <2>2 DEF BootRecovers
    <2>3. CASE BootInterruptsReads
        BY <1>4, <2>3 DEF BootInterruptsReads
    <2>4. CASE BootReconciles
        <3>1. PICK S \in SUBSET Orphans :
                /\ job' = [j \in Jobs |-> IF j \in S THEN "failed" ELSE job[j]]
                /\ item' = [j \in Jobs |-> IF j \in S THEN "failed" ELSE item[j]]
            BY <2>4 DEF BootReconciles
        <3>2. \A j \in S : job[j] \notin TerminalJob
            BY DEF Orphans, Terminal
        <3> QED BY <3>1, <3>2, OutcomeFrame DEF TerminalJob
    <2> QED BY <1>8, <2>1, <2>2, <2>3, <2>4 DEF Booting
<1>9. CASE AbandonOwn
    BY <1>5, <1>9 DEF AbandonOwn
<1>10. CASE Stop
    BY <1>2, <1>4, <1>10 DEF Stop, jobVars
<1>11. ASSUME \/ RenewLeases \/ Shutdown \/ JoinRunner \/ Drain \/ Crash \/ UNCHANGED vars
              \/ \E t \in Tokens : Execute(t) \/ LeaseLapses(t)
              \/ \E j \in Jobs : WindowExpires(j)
       PROVE  KeepsOutcomes
    <2>1. UNCHANGED <<job, item>>
        BY <1>11 DEF RenewLeases, Shutdown, JoinRunner, Drain, Crash, vars, Execute,
            ReadBegins, SelectionBegins, ReadPartial, RunCaptured, ReadPublished,
            ReadRefused, SelectionEnds, Answer, LeaseLapses, WindowExpires, jobVars
    <2> QED BY <1>2, <2>1
<1> QED BY <1>3, <1>6, <1>7, <1>8, <1>9, <1>10, <1>11 DEF Next, Closing

\* Without pauses a job that has ended keeps its outcome, although every scan
\* derives the outcome again and start-up and exit end jobs beside it.
THEOREM OutcomeStays ==
    ASSUME ~ AllowPause
    PROVE  Spec => TerminalStays
<1>1. Init => CleanInv /\ EndedInv
    BY DEF Init, CleanInv, Unpaused, Row, EndedInv, EndedItem
<1>2. WorkInv /\ CleanInv /\ [Next]_vars => CleanInv'
    BY CleanStep
<1>3. WorkInv /\ CleanInv /\ EndedInv /\ [Next]_vars => EndedInv'
    BY OutcomeStep DEF KeepsOutcomes
<1>4. WorkInv /\ CleanInv /\ EndedInv /\ [Next]_vars =>
            [\A j \in Jobs : Terminal(j) => job'[j] = job[j]]_vars
    BY OutcomeStep DEF KeepsOutcomes
<1> QED BY <1>1, <1>2, <1>3, <1>4, WorkAgrees, PTL DEF Spec, TerminalStays

---------------------------------------------------------------------------
(* Reviews.  The list of pending cleanups lives in memory only.  That a    *)
(* published capture is not forgotten rests on three facts: a process at   *)
(* work knows of every one; while there is one no other read has been      *)
(* granted; and so the one a crash leaves is of the run published last,    *)
(* which is the only settlement run start-up looks at.                     *)

\* A published operational capture that has no offline review yet.
Unlinked(j) == NeedsReview(j) /\ review[j] # "linked"

\* A process at work has it pending or is about to collect its result.
Known ==
    phase = "serving" \/ runner # "idle" \/ grants # {} =>
        \A j \in Jobs : Unlinked(j) =>
            \/ j \in cleanup
            \/ \E t \in grants : att[t].job = j /\ out[t] = "complete"

\* Start-up finds it.
Findable == \A j \in Settlement : Unlinked(j) => latestRun = j

\* Nothing else has been granted meanwhile.
Undisturbed ==
    phase # "abandoned" =>
        \A j \in Jobs : Unlinked(j) =>
            \A t \in grants : att[t].job = j /\ out[t] = "complete"

ReviewInv == Known /\ Findable /\ Undisturbed

\* A step that publishes nothing and forgets nothing.
LEMMA ReviewFrame ==
    ASSUME ReviewInv, latestRun' = latestRun, grants' = grants, cleanup' = cleanup,
           \A t \in grants : att'[t].job = att[t].job,
           \A t \in grants : out[t] = "complete" => out'[t] = "complete",
           \A j \in Jobs : inv'[j] = "done" => inv[j] = "done",
           \A j \in Jobs : review[j] = "linked" => review'[j] = "linked",
           phase' = "serving" \/ runner' # "idle" => phase = "serving" \/ runner # "idle",
           phase = "abandoned" => phase' = "abandoned"
    PROVE  ReviewInv'
<1>1. \A j \in Jobs : Unlinked(j)' => Unlinked(j)
    BY DEF Unlinked, NeedsReview
<1>2. Known'
    <2> SUFFICES ASSUME phase' = "serving" \/ runner' # "idle" \/ grants' # {},
                        NEW j \in Jobs, Unlinked(j)'
                 PROVE  \/ j \in cleanup
                        \/ \E t \in grants : att'[t].job = j /\ out'[t] = "complete"
        BY DEF Known
    <2>1. \/ j \in cleanup
          \/ \E t \in grants : att[t].job = j /\ out[t] = "complete"
        BY <1>1 DEF ReviewInv, Known
    <2> QED BY <2>1
<1>3. Findable'
    BY <1>1 DEF ReviewInv, Findable, Settlement
<1>4. Undisturbed'
    BY <1>1 DEF ReviewInv, Undisturbed
<1> QED BY <1>2, <1>3, <1>4 DEF ReviewInv

\* A process that is not at work.
LEMMA ReviewRests ==
    ASSUME Findable, latestRun' = latestRun, grants' = {}, runner' = "idle",
           phase' # "serving",
           \A j \in Jobs : inv'[j] = "done" => inv[j] = "done",
           \A j \in Jobs : review[j] = "linked" => review'[j] = "linked"
    PROVE  ReviewInv'
<1>1. \A j \in Jobs : Unlinked(j)' => Unlinked(j)
    BY DEF Unlinked, NeedsReview
<1>2. Findable'
    BY <1>1 DEF Findable, Settlement
<1> QED BY <1>2 DEF ReviewInv, Known, Undisturbed

\* An executor that is at work has the process to itself: nothing is unlinked
\* until it publishes, and then its own capture is, as the newest run.
LEMMA ReviewExecutes ==
    ASSUME WorkInv, ReviewInv, NEW t \in Tokens, Execute(t)
    PROVE  ReviewInv'
<1> DEFINE j == att[t].job
<1>1. Executor(t)
    BY DEF Execute, ReadBegins, SelectionBegins, ReadPartial, RunCaptured,
           ReadPublished, ReadRefused, SelectionEnds, Reading
<1>2. UNCHANGED <<att, review, phase, runner, grants, cleanup>>
    BY DEF Execute, ReadBegins, SelectionBegins, ReadPartial, RunCaptured,
           ReadPublished, ReadRefused, SelectionEnds, Answer, slotVars,
           procVars, memVars
<1>3. /\ LeaseInv /\ InvocationsKnown /\ LeasedWork /\ inv \in [Jobs -> InvStatus]
      /\ out \in [Tokens -> {"none"} \cup Executing \cup Result]
    BY DEF WorkInv, WorkRest, LeaseInv, TypeOK
<1>4. /\ t \in grants /\ Active(t) /\ phase # "abandoned" /\ grants = {t}
      /\ out[t] # "complete" /\ j \in Jobs
    <2>1. t \in grants /\ phase # "abandoned" /\ out[t] # "complete"
        BY <1>1, <1>3 DEF Executor, Executing, LeaseInv, Covered
    <2>2. Active(t) /\ grants = {t}
        BY <1>3, <2>1, GrantsActive DEF LeaseInv, SlotExclusive
    <2> QED BY <1>3, <2>1, <2>2 DEF LeasedWork
<1>5. \A k \in Jobs : ~ Unlinked(k)
    BY <1>4 DEF ReviewInv, Undisturbed
<1>6. \/ \A k \in Jobs : inv'[k] = "done" /\ k \in Operational => inv[k] = "done"
      \/ /\ \A k \in Jobs : k # j /\ inv'[k] = "done" => inv[k] = "done"
         /\ out'[t] = "complete"
         /\ latestRun' = latestRun
         /\ j \in Settlement => latestRun = j \/ j \notin Operational
    <2>1. CASE ReadBegins(t) \/ SelectionBegins(t) \/ ReadPartial(t) \/ RunCaptured(t)
        BY <2>1 DEF ReadBegins, SelectionBegins, ReadPartial, RunCaptured, invVars
    <2>2. CASE ReadPublished(t)
        <3>1. /\ j \in Settlement \cap Operational => latestRun = j
              /\ latestRun' = latestRun
              /\ \/ inv' = [inv EXCEPT ![j] = "sealed"]
                 \/ inv' = [inv EXCEPT ![j] = "done"] /\ Answer(t, "complete")
            BY <2>2 DEF ReadPublished
        <3>2. Answer(t, "complete") => out'[t] = "complete"
            BY <1>3 DEF Answer
        <3> QED BY <1>3, <1>4, <3>1, <3>2
    <2>3. CASE ReadRefused(t)
        BY <1>3, <2>3 DEF ReadRefused
    <2>4. CASE SelectionEnds(t)
        <3>1. j \notin Operational
            BY <1>3, <1>4, <2>4 DEF SelectionEnds, InvocationsKnown
        <3>2. \A k \in Jobs : k # j => inv'[k] = inv[k]
            BY <1>3, <2>4 DEF SelectionEnds
        <3> QED BY <3>1, <3>2
    <2> QED BY <2>1, <2>2, <2>3, <2>4 DEF Execute
<1>7. CASE \A k \in Jobs : inv'[k] = "done" /\ k \in Operational => inv[k] = "done"
    <2>1. \A k \in Jobs : ~ Unlinked(k)'
        BY <1>2, <1>5, <1>7 DEF Unlinked, NeedsReview
    <2> QED BY <2>1 DEF ReviewInv, Known, Findable, Undisturbed, Settlement
<1>8. CASE /\ \A k \in Jobs : k # j /\ inv'[k] = "done" => inv[k] = "done"
           /\ out'[t] = "complete"
           /\ latestRun' = latestRun
           /\ j \in Settlement => latestRun = j \/ j \notin Operational
    <2>1. \A k \in Jobs : Unlinked(k)' => k = j
        BY <1>2, <1>5, <1>8 DEF Unlinked, NeedsReview
    <2>2. Known' /\ Undisturbed'
        BY <1>2, <1>4, <1>8, <2>1 DEF Known, Undisturbed
    <2>3. Findable'
        <3>1. \A k \in Settlement : Unlinked(k)' => k = j /\ j \in Operational
            BY <2>1 DEF Settlement, Unlinked, NeedsReview
        <3> QED BY <1>8, <3>1 DEF Findable
    <2> QED BY <2>2, <2>3 DEF ReviewInv
<1> QED BY <1>6, <1>7, <1>8

\* Collecting the result of a published read makes its cleanup pending.
LEMMA CompleteEnds ==
    ASSUME KeyInv, Fenced, NEW j \in Jobs, NEW t \in grants,
           att[t].job = j, out[t] = "complete",
           \A u \in grants : out[u] = "complete"
    PROVE  EndsNow(j)
<1>1. t \in Done /\ Delivered(j) # {}
    BY DEF Done, Delivered, Result
<1>2. item[j] = "running" /\ TypeOK
    BY <1>1 DEF Fenced, KeyInv
<1>3. Row(j) \in RowType /\ Retired(j, Row(j)) \in RowType
    BY <1>2, RowTyped, RetiredTyped
<1> DEFINE u == CHOOSE u \in Delivered(j) : TRUE
           fin == Finished(j)
           rec == Reconciled(j, fin)
<1>4. out[u] = "complete"
    BY <1>1 DEF Delivered, Done
<1>5. fin = [Retired(j, Row(j)) EXCEPT !.item = "succeeded"]
    BY <1>1, <1>4 DEF Finished, WithResult
<1>6. fin.item = "succeeded" /\ fin \in RowType
    BY <1>2, <1>3, <1>5, FinishedTyped DEF RowType
<1>7. Settled(j) = Controlled(j, rec)
    BY DEF Settled
<1> HIDE DEF fin
<1>8. rec = fin
    BY <1>6 DEF Reconciled, ReadyItem
<1> HIDE DEF rec
<1>9. Retired(j, rec) \in RowType /\ Retired(j, rec).item = "succeeded"
    BY <1>6, <1>8, RetiredTyped DEF Retired, RowType
<1>10. Settled(j).item = "succeeded" \/ Settled(j).job = "cancelled"
    BY <1>6, <1>7, <1>8, <1>9 DEF Controlled, RowType, EndedItem
<1>11. Settled(j).item \in EndedItem
    BY <1>6, <1>7, <1>8, <1>9 DEF Controlled, RowType, EndedItem
<1> QED BY <1>2, <1>11 DEF EndsNow, EndedItem

\* A scan passes every result on to the cleanup, and grants nothing meanwhile.
LEMMA ReviewScans ==
    ASSUME WorkInv, ReviewInv, ScanOnly \/ ScanAndGrant
    PROVE  ReviewInv'
<1>1. LeaseInv /\ KeyInv
    BY DEF WorkInv
<1>2. PICK g \in Jobs \cup {NoJob} : ScanGranting(g) /\ ScanSlot(g)
    BY <1>1, ScanSlots
<1>3. /\ Fenced /\ phase # "abandoned" /\ runner # "idle"
      /\ UNCHANGED <<latestRun, review>>
      /\ cleanup' = cleanup \cup {j \in Jobs : EndsNow(j)}
      /\ \A j \in Jobs : inv'[j] = Scanned(j, g).inv
    BY <1>2 DEF ScanGranting, ScanSlot
<1>4. \A j \in Jobs : inv'[j] = "done" => inv[j] = "done"
    <2> TAKE j \in Jobs
    <2>1. inv'[j] = inv[j] \/ inv'[j] = "failed"
        BY <1>1, <1>3, ScannedFollows
    <2> QED BY <2>1
<1>5. \A j \in Jobs : Unlinked(j)' => Unlinked(j)
    BY <1>3, <1>4 DEF Unlinked, NeedsReview
<1>6. \A j \in Jobs : Unlinked(j) => j \in cleanup \/ EndsNow(j)
    <2> SUFFICES ASSUME NEW j \in Jobs, Unlinked(j), j \notin cleanup PROVE EndsNow(j)
        OBVIOUS
    <2>1. PICK t \in grants : att[t].job = j /\ out[t] = "complete"
        BY <1>3 DEF ReviewInv, Known
    <2>2. \A u \in grants : out[u] = "complete"
        BY <1>3 DEF ReviewInv, Undisturbed
    <2> QED BY <1>1, <1>3, <2>1, <2>2, CompleteEnds
<1>7. Known'
    BY <1>3, <1>5, <1>6 DEF Known
<1>8. Findable'
    BY <1>3, <1>5 DEF ReviewInv, Findable, Settlement
<1>9. Undisturbed'
    <2> SUFFICES ASSUME NEW j \in Jobs, Unlinked(j), NEW t \in grants' PROVE FALSE
        BY <1>5 DEF Undisturbed
    <2>1. CASE t \in grants \ Done
        <3>1. out[t] = "complete"
            BY <1>3, <2>1 DEF ReviewInv, Undisturbed
        <3> QED BY <2>1, <3>1 DEF Done, Result
    <2>2. CASE g # NoJob
        <3>1. SlotIsFree
            BY <1>2, <2>2 DEF ScanSlot, Chosen
        <3> QED BY <1>6, <3>1 DEF SlotIsFree
    <2> QED BY <1>2, <2>1, <2>2 DEF ScanSlot
<1> QED BY <1>7, <1>8, <1>9 DEF ReviewInv

\* Start-up links every published capture of a daily read and the newest of
\* the settlement reads, which are all there are.
LEMMA ReviewBoots ==
    ASSUME WorkInv, ReviewInv, BootReconciles
    PROVE  ReviewInv'
<1>1. /\ Newest \subseteq EndedReads /\ BootCloses(EndedReads)
      /\ phase = "interrupted" /\ UNCHANGED <<grants, cleanup>>
    BY DEF BootReconciles, memVars
<1>2. UNCHANGED <<inv, latestRun>>
    BY <1>1 DEF BootCloses
<1>3. \A j \in Jobs : inv[j] = "done" => j \in EndedReads
    BY DEF WorkInv, WorkRest, InvocationsKnown, EndedReads, MayClose
<1>4. \A j \in Jobs : ~ Unlinked(j)'
    <2> SUFFICES ASSUME NEW j \in Jobs, Unlinked(j)' PROVE FALSE
        OBVIOUS
    <2>1. NeedsReview(j) /\ j \in EndedReads
        BY <1>2, <1>3 DEF Unlinked, NeedsReview
    <2>2. j \notin Daily \cup Newest /\ review'[j] = review[j]
        BY <1>1, <2>1 DEF BootCloses, Unlinked
    <2>3. j \in Settlement /\ Unlinked(j)
        BY <2>1, <2>2 DEF Unlinked, Settlement
    <2>4. latestRun = j
        BY <2>3 DEF ReviewInv, Findable
    <2> QED BY <2>2, <2>3, <2>4 DEF Newest
<1> QED BY <1>4 DEF ReviewInv, Known, Findable, Undisturbed, Settlement

\* The invariant is inductive.
LEMMA ReviewStep ==
    ASSUME WorkInv, ReviewInv, [Next]_vars
    PROVE  ReviewInv'
<1>1. /\ LeaseInv /\ KeyInv /\ TypeOK /\ InvocationsKnown
      /\ Known /\ Findable /\ Undisturbed
    BY DEF WorkInv, WorkRest, LeaseInv, ReviewInv
<1>2. ASSUME NEW j \in Jobs, Operator(j) PROVE ReviewInv'
    <2>1. UNCHANGED <<latestRun, att, review, phase, runner, grants, out, cleanup>>
        BY <1>2 DEF Operator, StartSettlement, StartDaily, CreateJob, OpenInvocation,
            InvokeDaily, Pause, Resume, Requeue, Cancel, Rebind, SetJob, slotVars,
            invVars, procVars, memVars
    <2>2. inv' = inv \/ inv' = [inv EXCEPT ![j] = "open"]
        BY <1>2 DEF Operator, StartSettlement, StartDaily, OpenInvocation,
            InvokeDaily, Pause, Resume, Requeue, Cancel, Rebind, SetJob, invVars
    <2>3. \A k \in Jobs : inv'[k] = "done" => inv[k] = "done"
        BY <1>1, <2>2 DEF TypeOK
    <2> QED BY <2>1, <2>3, ReviewFrame
<1>3. ASSUME NEW t \in Tokens, LeaseLapses(t) PROVE ReviewInv'
    <2>1. UNCHANGED <<inv, latestRun, review, phase, runner, grants, out, cleanup>>
        BY <1>3 DEF LeaseLapses, invVars, procVars, memVars
    <2>2. \A u \in grants : att'[u].job = att[u].job
        BY <1>1, <1>3 DEF LeaseLapses, TypeOK, Attempt
    <2> QED BY <2>1, <2>2, ReviewFrame
<1>4. CASE RenewLeases
    <2>1. UNCHANGED <<inv, latestRun, review, phase, runner, grants, out, cleanup>>
        BY <1>4 DEF RenewLeases, invVars, procVars, memVars
    <2>2. \A u \in grants : att'[u].job = att[u].job
        BY <1>1, <1>4 DEF RenewLeases, TypeOK, Attempt
    <2> QED BY <2>1, <2>2, ReviewFrame
<1>5. CASE RequestShutdown \/ UNCHANGED vars \/ \E j \in Jobs : WindowExpires(j)
    <2>1. UNCHANGED <<inv, latestRun, att, review, phase, runner, grants, out, cleanup>>
        BY <1>5 DEF RequestShutdown, vars, WindowExpires, invVars, slotVars, procVars, memVars
    <2> QED BY <2>1, ReviewFrame
<1>6. ASSUME NEW T \in SUBSET Tokens, Abandon(T) PROVE \A u \in grants : att'[u].job = att[u].job
    <2>1. \A u \in grants : u \in Tokens /\ att[u] \in Attempt
        BY <1>1 DEF TypeOK
    <2>2. \A u \in grants : att'[u] \in {att[u], Ended(att[u], "abandoned")}
        BY <1>6, <2>1 DEF Abandon
    <2> QED BY <2>1, <2>2 DEF Ended, Attempt
<1>7. CASE Tick
    <2>1. CASE StartTick
        <3>1. /\ UNCHANGED <<inv, latestRun, review, phase, grants, out, cleanup>>
              /\ phase = "serving" /\ Abandon(Abandonable)
            BY <2>1 DEF StartTick, invVars, procVars
        <3>2. \A u \in grants : att'[u].job = att[u].job
            BY <1>6, <3>1 DEF Abandonable
        <3> QED BY <3>1, <3>2, ReviewFrame
    <2>2. CASE ScanOnly \/ ScanAndGrant
        BY <2>2, ReviewScans
    <2>3. CASE ScanFails \/ EndTick
        <3>1. /\ UNCHANGED <<inv, latestRun, att, review, phase, grants, out, cleanup>>
              /\ runner # "idle"
            BY <2>3 DEF ScanFails, EndTick, invVars, slotVars, procVars
        <3> QED BY <3>1, ReviewFrame
    <2>4. CASE Dispatch
        <3>1. /\ UNCHANGED <<inv, latestRun, att, review, phase, grants, cleanup>>
              /\ runner # "idle"
            BY <2>4 DEF Dispatch, invVars, slotVars, procVars
        <3>2. \A t \in grants : out[t] = "complete" => out'[t] = "complete"
            BY <1>1, <2>4 DEF Dispatch, TypeOK
        <3> QED BY <3>1, <3>2, ReviewFrame
    <2>5. ASSUME NEW j \in Jobs, Close(j) PROVE ReviewInv'
        <3>1. /\ UNCHANGED <<inv, latestRun, att, phase, runner, grants, out>>
              /\ cleanup' = cleanup \ {j} /\ runner # "idle"
              /\ review' = [k \in Jobs |-> IF k \in {j} /\ NeedsReview(k) THEN "linked"
                                           ELSE review[k]]
            BY <2>5 DEF Close, CloseAll, slotVars, procVars
        <3>2. \A k \in Jobs : Unlinked(k)' => Unlinked(k) /\ k # j
            BY <3>1 DEF Unlinked, NeedsReview
        <3>3. Known'
            BY <1>1, <3>1, <3>2 DEF Known
        <3>4. Findable' /\ Undisturbed'
            BY <1>1, <3>1, <3>2 DEF Findable, Undisturbed, Settlement
        <3> QED BY <3>3, <3>4 DEF ReviewInv
    <2>6. ASSUME NEW j \in Jobs, CloseFails(j) PROVE ReviewInv'
        <3>1. UNCHANGED <<inv, latestRun, att, phase, runner, grants, out, cleanup>>
            BY <2>6 DEF CloseFails, slotVars, procVars, memVars
        <3>2. PICK r \in {review[j], "created", "linked"} :
                /\ r # review[j] => NeedsReview(j) /\ review[j] # "linked"
                /\ review' = [review EXCEPT ![j] = r]
            BY <2>6 DEF CloseFails
        <3>3. \A k \in Jobs : review[k] = "linked" => review'[k] = "linked"
            BY <1>1, <3>2 DEF TypeOK
        <3> QED BY <3>1, <3>3, ReviewFrame
    <2> QED BY <1>7, <2>1, <2>2, <2>3, <2>4, <2>5, <2>6 DEF Tick
<1>8. ASSUME phase \in {"off", "booting", "recovered", "interrupted"}
      PROVE  runner = "idle" /\ grants = {}
    BY <1>1, <1>8 DEF LeaseInv, AtRest, WorkInv, WorkRest, ThreadRuns
<1>9. CASE Boot \/ BootRecovers \/ BootInterruptsReads
    <2>1. /\ UNCHANGED <<inv, latestRun, review, runner, grants>>
          /\ phase \in {"off", "booting", "recovered"} /\ phase' # "serving"
        BY <1>9 DEF Boot, BootRecovers, BootInterruptsReads, Enter, invVars, memVars
    <2> QED BY <1>1, <1>8, <2>1, ReviewRests
<1>10. CASE BootReconciles
    BY <1>10, ReviewBoots
<1>11. CASE BootFails
    <2>1. /\ UNCHANGED <<inv, latestRun, runner, grants>>
          /\ phase \in {"booting", "recovered", "interrupted"} /\ phase' # "serving"
        BY <1>11 DEF BootFails, BootCloses, Enter, invVars, memVars
    <2>2. \A j \in Jobs : review[j] = "linked" => review'[j] = "linked"
        BY <1>11 DEF BootFails, BootCloses
    <2> QED BY <1>1, <1>8, <2>1, <2>2, ReviewRests
<1>12. CASE Shutdown \/ JoinRunner \/ Drain
    <2>1. /\ UNCHANGED <<inv, latestRun, att, review, runner, grants, out, cleanup>>
          /\ phase # "abandoned" /\ phase' # "serving"
        BY <1>12 DEF Shutdown, JoinRunner, Drain, Enter, invVars, slotVars, memVars
    <2> QED BY <2>1, ReviewFrame
<1>13. CASE AbandonOwn
    <2>1. /\ UNCHANGED <<inv, latestRun, review, runner, grants, out, cleanup>>
          /\ phase' = "abandoned"
          /\ Abandon({t \in Tokens : /\ att[t].status = "running"
                                     /\ Active(t) /\ att[t].by = me})
        BY <1>13 DEF AbandonOwn, Enter, invVars, memVars
    <2>2. \A u \in grants : att'[u].job = att[u].job
        BY <1>6, <2>1
    <2> QED BY <2>1, <2>2, ReviewFrame
<1>14. CASE Stop \/ Crash
    <2>1. /\ UNCHANGED <<inv, latestRun, review>>
          /\ grants' = {} /\ runner' = "idle" /\ phase' # "serving"
        BY <1>14 DEF Stop, Crash, Forget, Enter, invVars
    <2> QED BY <1>1, <2>1, ReviewRests
<1>15. ASSUME NEW t \in Tokens, Execute(t) PROVE ReviewInv'
    BY <1>15, ReviewExecutes
<1> QED BY <1>2, <1>3, <1>4, <1>5, <1>7, <1>9, <1>10, <1>11, <1>12, <1>13, <1>14, <1>15
        DEF Next, Booting, Closing

\* Over any number of crashes, lost results and failed cleanups, a capture that
\* is published is linked to its review or on its way while the program serves.
THEOREM ReviewsKept == Spec => []ReviewNotLost
<1>1. Init => ReviewInv
    BY DEF Init, ReviewInv, Known, Findable, Undisturbed, Unlinked, NeedsReview, Settlement
<1>2. WorkInv /\ ReviewInv /\ [Next]_vars => ReviewInv'
    BY ReviewStep
<1>3. ReviewInv => ReviewNotLost
    BY DEF ReviewInv, Known, Unlinked, ReviewNotLost
<1> QED BY <1>1, <1>2, <1>3, WorkAgrees, PTL DEF Spec

=============================================================================
