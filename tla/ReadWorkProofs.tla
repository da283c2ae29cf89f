--------------------------- MODULE ReadWorkProofs ---------------------------
(***************************************************************************)
(* What holds of the work of ReadScheduler for every set of jobs, every    *)
(* number of grants, stages and process lives: that the results executors  *)
(* give agree with the invocations they have committed, and what follows   *)
(* for the stages that are granted, the thread that checks them, the jobs  *)
(* that are reported as ended and the reviews that are created from them.  *)
(***************************************************************************)
EXTENDS ReadSchedulerProofs

---------------------------------------------------------------------------
(* The invariant of the work.                                              *)

\* Only a shadow daily read has a second stage.
OneStage == Jobs \ (Daily \ Operational)

\* An invocation belongs to a job, a job with one stage is at it, and only a
\* shadow settlement read has a selection left when its pages are read.
InvocationsKnown ==
    /\ \A j \in Jobs : inv[j] # "absent" => Exists(j)
    /\ \A j \in Jobs : inv[j] = "sealed" => j \in Settlement \ Operational
    /\ \A j \in OneStage : at[j] = 1 /\ next[j] = 1

\* A leased job has been granted with an invocation, by a process that has
\* lived, and its item is not queued a second time meanwhile.
LeasedWork ==
    \A t \in Tokens : Active(t) =>
        /\ att[t].by <= me
        /\ att[t].job \in Jobs
        /\ inv[att[t].job] # "absent"
        /\ item[att[t].job] \in {"running"} \cup EndedItem
        /\ att[t].job \in OneStage => att[t].stage = 1

\* What a result says is what the executor has committed, except that a
\* sealed selection may be found without its prerequisite.
Told(t) ==
    \/ Agrees(out[t], att[t].job)
    \/ out[t] = "failed" /\ inv[att[t].job] = "sealed"

\* One grant of this process: it is at the stage of its item and of its
\* invocation, and only leaving the program ends the item under it.
Working(t) ==
    /\ at[att[t].job] = att[t].stage
    /\ item[att[t].job] = "running" \/ explicit
    /\ out[t] # "stage" /\ inv[att[t].job] = "open" =>
            next[att[t].job] = att[t].stage
    /\ out[t] \in Result => Told(t)

OwnWork == phase # "abandoned" => \A t \in grants : Working(t)

\* A scheduler thread that runs keeps its leases fresh, and a process that is
\* only starting has none that could have ended.
ThreadRuns ==
    /\ ~ MaySuspend /\ runner # "dead" /\ phase \in {"serving", "closing"} =>
            \A t \in grants : att[t].fresh
    /\ phase \in {"off", "booting", "recovered", "interrupted"} =>
            runner = "idle"

WorkRest ==
    /\ InvocationsKnown
    /\ LeasedWork
    /\ OwnWork
    /\ ThreadRuns
    /\ SchedulerSurvives

WorkInv == LeaseInv /\ KeyInv /\ WorkRest

---------------------------------------------------------------------------
(* What a scan makes of a row.                                             *)

\* A row that is reported as succeeded is one whose capture is published.
Published(row) ==
    row.item = "succeeded" \/ row.job = "succeeded" => row.inv = "done"

\* A pass after the first keeps the invocation, moves the stage only to the
\* invocation's, and reports no success that is not published.
Follows(j, r, q) ==
    /\ q.inv = r.inv
    /\ q.at \in {r.at, next[j]}
    /\ Published(r) => Published(q)
    /\ q.job = "cancelled" => r.job = "cancelled" \/ ~ StillLeased(j)

LEMMA ReconciledFollows ==
    ASSUME NEW j \in Jobs, NEW row \in RowType
    PROVE  Follows(j, row, Reconciled(j, row))
<1> DEFINE q == Reconciled(j, row)
           ret == Retired(j, row)
<1>1. CASE q = row
    BY <1>1 DEF Follows
<1>2. CASE q # row
    <2>1. ret \in RowType /\ ret.job = row.job /\ ret.item = row.item
          /\ ret.at = row.at /\ ret.inv = row.inv
        BY RetiredTyped DEF Retired, RowType
    <2>2. \/ row.inv = "done" /\ q = [ret EXCEPT !.item = "succeeded"]
          \/ row.inv = "failed" /\ q = [ret EXCEPT !.item = "failed"]
          \/ q = [row EXCEPT !.item = "queued", !.at = next[j]]
        BY <1>2 DEF Reconciled
    <2>3. /\ q.inv = row.inv /\ q.job = row.job /\ q.at \in {row.at, next[j]}
          /\ q.item = "succeeded" => row.inv = "done"
        <3> HIDE DEF ret, q
        <3>1. row \in RowType
            OBVIOUS
        <3> QED BY <2>1, <2>2, <3>1 DEF RowType
    <2> HIDE DEF q
    <2> QED BY <2>3 DEF Follows, Published, q
<1> QED BY <1>1, <1>2

LEMMA ControlledFollows ==
    ASSUME NEW j \in Jobs, NEW row \in RowType
    PROVE  Follows(j, row, Controlled(j, row))
<1> DEFINE q == Controlled(j, row)
           ret == Retired(j, row)
<1>1. ret \in RowType /\ ret.job = row.job /\ ret.item = row.item
      /\ ret.at = row.at /\ ret.inv = row.inv
    BY RetiredTyped DEF Retired, RowType
<1> HIDE DEF ret
<1>2. CASE row.job = "cancel_requested" /\ ~ StillLeased(j)
    <2>1. q = [ret EXCEPT !.job = "cancelled",
                   !.item = IF @ \in EndedItem THEN @ ELSE "cancelled"]
        BY <1>2 DEF Controlled, ret
    <2>2. q.inv = row.inv /\ q.at = row.at /\ q.job = "cancelled"
          /\ q.item \in {row.item, "cancelled"}
        BY <1>1, <2>1 DEF RowType
    <2> HIDE DEF q
    <2> QED BY <1>2, <2>2 DEF Follows, Published, q
<1>3. CASE row.job = "pause_requested" /\ ~ StillLeased(j)
    <2>1. q.inv = row.inv /\ q.at = row.at /\ q.job = "paused"
          /\ q.item \in {row.item, "queued"}
        BY <1>3 DEF Controlled, RowType
    <2> HIDE DEF q
    <2> QED BY <2>1 DEF Follows, Published, q
<1>4. CASE ~ (row.job \in {"cancel_requested", "pause_requested"} /\ ~ StillLeased(j))
    <2>1. q = row
        BY <1>4 DEF Controlled
    <2> QED BY <2>1 DEF Follows
<1> QED BY <1>2, <1>3, <1>4

LEMMA PlacedFollows ==
    ASSUME NEW j \in Jobs, NEW g, Settled(j) \in RowType
    PROVE  Follows(j, Settled(j), Placed(j, g))
<1> DEFINE row == Settled(j)
           q == Placed(j, g)
<1>1. CASE g = NoJob \/ ~ Candidate(j)
    BY <1>1 DEF Placed, Follows
<1>2. CASE ~ (g = NoJob \/ ~ Candidate(j))
    <2>1. row.job \in ScheduledJob
        BY <1>2 DEF Candidate
    <2> HIDE DEF row
    <2>2. q.job = row.job /\ q.inv = row.inv /\ q.at = row.at
          /\ q.item \in {"running", "waiting_resource"}
        BY <1>2 DEF Placed, RowType, row
    <2> HIDE DEF q
    <2>3. q.job \notin {"succeeded", "cancelled"}
        BY <2>1, <2>2 DEF ScheduledJob
    <2> QED BY <2>2, <2>3 DEF Follows, Published, q, row
<1> QED BY <1>1, <1>2

LEMMA AggregatedFollows ==
    ASSUME NEW j \in Jobs, NEW row \in RowType
    PROVE  Follows(j, row, Aggregated(row))
<1> DEFINE q == Aggregated(row)
<1>1. /\ q.inv = row.inv /\ q.at = row.at /\ q.item = row.item
      /\ q.job \in {row.job, "queued"} \/ q.job = row.item
      /\ q.job = "cancelled" => row.job = "cancelled"
    BY DEF Aggregated, RowType, ScheduledJob
<1> HIDE DEF q
<1> QED BY <1>1 DEF Follows, Published, q

\* The first pass takes results that agree with their invocations; a failed
\* daily read is failed once more.
LEMMA FinishedFollows ==
    ASSUME TypeOK, Fenced, NEW j \in Jobs,
           RowOK(Row(j))
    PROVE  /\ \/ Finished(j).inv = inv[j]
              \/ Delivered(j) # {} /\ inv[j] # "done" /\ Finished(j).inv = "failed"
           /\ Finished(j).at \in {at[j], next[j]}
           /\ Published(Row(j)) => Published(Finished(j))
           /\ Finished(j).job = "cancelled" => job[j] = "cancelled"
<1> DEFINE row == Row(j)
<1>1. row \in RowType /\ row.inv = inv[j] /\ row.at = at[j] /\ row.job = job[j]
      /\ row.item = item[j]
    BY RowTyped DEF Row
<1>2. CASE Delivered(j) = {}
    BY <1>1, <1>2 DEF Finished
<1>3. CASE Delivered(j) # {}
    <2> DEFINE t == CHOOSE t \in Delivered(j) : TRUE
               ret == Retired(j, row)
               q == Finished(j)
    <2>1. t \in Done /\ att[t].job = j /\ out[t] \in Result
        BY <1>3 DEF Delivered, Done
    <2>2. Agrees(out[t], j) /\ item[j] = "running"
        BY <2>1 DEF Fenced
    <2>3. q = WithResult(out[t], j, row)
        BY <1>3 DEF Finished
    <2>4. ret \in RowType /\ ret.job = row.job /\ ret.item = row.item
          /\ ret.at = row.at /\ ret.inv = row.inv
        BY <1>1, RetiredTyped DEF Retired, RowType
    <2>5. row.job # "succeeded"
        BY <1>1, <2>2 DEF RowOK
    <2> HIDE DEF t, ret, row, q
    <2>6. CASE out[t] = "stage"
        <3>1. q = [row EXCEPT !.item = "queued", !.at = next[j]]
            BY <2>3, <2>6 DEF WithResult
        <3>2. q.inv = row.inv /\ q.at = next[j] /\ q.job = row.job /\ q.item = "queued"
            BY <1>1, <3>1 DEF RowType
        <3> QED BY <1>1, <2>5, <3>2 DEF Published, q
    <2>7. CASE out[t] = "complete"
        <3>1. q = [ret EXCEPT !.item = "succeeded"]
            BY <2>3, <2>7 DEF WithResult, ret
        <3>2. q.inv = row.inv /\ q.at = row.at /\ q.job = row.job
            BY <2>4, <3>1 DEF RowType
        <3>3. inv[j] = "done"
            BY <2>2, <2>7 DEF Agrees
        <3> QED BY <1>1, <3>2, <3>3 DEF Published, q
    <2>8. CASE out[t] = "retry"
        <3>1. q = [row EXCEPT !.item = "queued"]
            BY <2>3, <2>8 DEF WithResult
        <3>2. q.inv = row.inv /\ q.at = row.at /\ q.job = row.job /\ q.item = "queued"
            BY <1>1, <3>1 DEF RowType
        <3> QED BY <1>1, <2>5, <3>2 DEF Published, q
    <2>9. CASE out[t] = "waiting_external"
        <3>1. q = [row EXCEPT !.item = "waiting_external", !.job = "paused"]
            BY <2>3, <2>9 DEF WithResult, ExternalWait
        <3>2. q.inv = row.inv /\ q.at = row.at /\ q.job = "paused"
              /\ q.item = "waiting_external"
            BY <1>1, <3>1 DEF RowType
        <3> QED BY <1>1, <3>2 DEF Published, q
    <2>10. CASE out[t] = "failed"
        <3>1. q = [ret EXCEPT !.item = "failed",
                              !.inv = IF j \in Daily THEN "failed" ELSE @]
            BY <2>3, <2>10 DEF WithResult, ret
        <3>2. q.inv \in {row.inv, "failed"} /\ q.at = row.at /\ q.job = row.job
              /\ q.item = "failed"
            BY <2>4, <3>1 DEF RowType
        <3>3. inv[j] # "done"
            BY <2>2, <2>10 DEF Agrees
        <3> QED BY <1>1, <1>3, <2>5, <3>2, <3>3 DEF Published, q
    <2> QED BY <2>1, <2>6, <2>7, <2>8, <2>9, <2>10 DEF Result
<1> QED BY <1>2, <1>3

\* What a scan leaves of a row.
LEMMA ScannedFollows ==
    ASSUME KeyInv, Fenced, NEW j \in Jobs, NEW g
    PROVE  /\ \/ Scanned(j, g).inv = inv[j]
              \/ Delivered(j) # {} /\ inv[j] # "done" /\ Scanned(j, g).inv = "failed"
           /\ Scanned(j, g).inv = Settled(j).inv
           /\ Settled(j).at \in {at[j], next[j]}
           /\ Scanned(j, g).at \in {at[j], next[j]}
           /\ Published(Row(j)) => Published(Scanned(j, g))
           /\ Scanned(j, g).job = "cancelled" => job[j] = "cancelled" \/ ~ StillLeased(j)
<1>1. TypeOK /\ RowOK(Row(j))
    BY DEF KeyInv
<1> DEFINE fin == Finished(j)
           rec == Reconciled(j, fin)
           con == Settled(j)
           pla == Placed(j, g)
           agg == Scanned(j, g)
<1>2. fin \in RowType /\ rec \in RowType /\ con \in RowType /\ pla \in RowType
    BY <1>1, FinishedTyped, ReconciledTyped, SettledTyped, PlacedTyped
<1>3. Follows(j, fin, rec)
    BY <1>2, ReconciledFollows
<1>4. Follows(j, rec, con)
    BY <1>2, ControlledFollows DEF Settled
<1>5. Follows(j, con, pla)
    BY <1>2, PlacedFollows
<1>6. Follows(j, pla, agg)
    BY <1>2, AggregatedFollows DEF Scanned
<1>7. /\ \/ fin.inv = inv[j]
         \/ Delivered(j) # {} /\ inv[j] # "done" /\ fin.inv = "failed"
      /\ fin.at \in {at[j], next[j]}
      /\ Published(Row(j)) => Published(fin)
      /\ fin.job = "cancelled" => job[j] = "cancelled"
    BY <1>1, FinishedFollows
<1> HIDE DEF fin, rec, con, pla, agg
<1>8. agg.inv = fin.inv /\ agg.inv = con.inv
    BY <1>3, <1>4, <1>5, <1>6 DEF Follows
<1>9. con.at \in {at[j], next[j]} /\ agg.at \in {at[j], next[j]}
    BY <1>3, <1>4, <1>5, <1>6, <1>7 DEF Follows
<1>10. Published(fin) => Published(agg)
    BY <1>3, <1>4, <1>5, <1>6 DEF Follows
<1>11. agg.job = "cancelled" => fin.job = "cancelled" \/ ~ StillLeased(j)
    BY <1>3, <1>4, <1>5, <1>6 DEF Follows
<1> QED BY <1>7, <1>8, <1>9, <1>10, <1>11 DEF con, agg

\* A read that is in flight, or whose lease another life left, is left alone.
LEMMA LeasedRow ==
    ASSUME LeaseInv, LeasedWork, Fenced, NEW t \in Tokens \ Done, Active(t), NEW j,
           att[t].job = j
    PROVE  /\ Delivered(j) = {}
           /\ Settled(j) = Row(j) /\ ~ Candidate(j) /\ StillLeased(j)
<1>1. \A u \in Done : Active(u) /\ u \in Tokens
    BY DEF Done, Fenced, LeaseInv, TypeOK
<1>2. Delivered(j) = {}
    BY <1>1 DEF Delivered, LeaseInv, SlotExclusive
<1>3. Finished(j) = Row(j)
    BY <1>2 DEF Finished
<1>4. item[j] \in {"running"} \cup EndedItem
    BY DEF LeasedWork
<1>5. Row(j).item = item[j] /\ item[j] \notin ReadyItem
    BY <1>4 DEF Row, ReadyItem, EndedItem
<1>6. Reconciled(j, Row(j)) = Row(j)
    BY <1>5 DEF Reconciled
<1>7. StillLeased(j)
    BY DEF StillLeased
<1>8. Controlled(j, Row(j)) = Row(j)
    BY <1>7 DEF Controlled
<1>9. Settled(j) = Row(j)
    BY <1>3, <1>6, <1>8 DEF Settled
<1>10. ~ Candidate(j)
    BY <1>5, <1>9 DEF Candidate
<1> QED BY <1>2, <1>7, <1>9, <1>10

\* What the scan writes for it.
LEMMA LeasedScanned ==
    ASSUME LeaseInv, LeasedWork, Fenced, NEW t \in Tokens \ Done, Active(t),
           NEW g, ScanGranting(g)
    PROVE  /\ item'[att[t].job] = item[att[t].job]
           /\ at'[att[t].job] = at[att[t].job]
           /\ inv'[att[t].job] = inv[att[t].job]
<1> DEFINE j == att[t].job
<1>1. j \in Jobs
    BY DEF LeasedWork
<1>2. Settled(j) = Row(j) /\ ~ Candidate(j)
    BY LeasedRow
<1>3. Placed(j, g) = Row(j)
    BY <1>2 DEF Placed
<1>4. Row(j) \in RowType
    BY <1>1, RowTyped DEF LeaseInv
<1>5. Scanned(j, g).item = item[j] /\ Scanned(j, g).at = at[j] /\ Scanned(j, g).inv = inv[j]
    <2>1. Scanned(j, g) = Aggregated(Row(j))
        BY <1>3 DEF Scanned
    <2>2. /\ Aggregated(Row(j)).item = Row(j).item
          /\ Aggregated(Row(j)).at = Row(j).at
          /\ Aggregated(Row(j)).inv = Row(j).inv
        BY <1>4 DEF Aggregated, RowType
    <2> QED BY <2>1, <2>2 DEF Row
<1> QED BY <1>1, <1>5 DEF ScanGranting

\* The attempts after a scan that grants to g, or to nobody.
ScanSlot(g) ==
    /\ phase \in {"serving", "closing"} /\ phase' = phase /\ me' = me
    /\ explicit' = explicit /\ next' = next /\ runner = "scan" /\ runner' = "dispatch"
    /\ \A t \in grants : Active(t) /\ att[t].by = me
    /\ g # NoJob => g \in Jobs /\ Chosen(g)
    /\ \A t \in Tokens : Active(t)' =>
          \/ /\ Active(t) /\ t \notin Done /\ att'[t].job = att[t].job
             /\ att'[t].stage = att[t].stage /\ att'[t].by = att[t].by
          \/ g # NoJob /\ att'[t] = NewAttempt(g)
    /\ \A t \in grants' :
          \/ /\ t \in grants \ Done /\ out'[t] = out[t] /\ att'[t].fresh
             /\ att'[t].job = att[t].job /\ att'[t].stage = att[t].stage
          \/ g # NoJob /\ att'[t] = NewAttempt(g) /\ out'[t] = "none"
    /\ g = NoJob => grants' = grants \ Done

LEMMA ScanSlots ==
    ASSUME LeaseInv, ScanOnly \/ ScanAndGrant
    PROVE  \E g \in Jobs \cup {NoJob} : ScanGranting(g) /\ ScanSlot(g)
<1>1. PICK g \in Jobs \cup {NoJob} :
        /\ ScanGranting(g)
        /\ \/ g = NoJob /\ grants' = grants \ Done
           \/ g \in Jobs /\ Chosen(g) /\ grants' = (grants \ Done) \cup {issued + 1}
    BY DEF ScanOnly, ScanAndGrant
<1>a. g \in Jobs <=> g # NoJob
    BY ConstantsAssumption DEF ConstantsAssumption
<1>b. PICK new : new = issued + 1
    OBVIOUS
<1>2. /\ phase \in {"serving", "closing"} /\ phase' = phase /\ me' = me
      /\ explicit' = explicit /\ next' = next /\ runner = "scan" /\ runner' = "dispatch"
    BY <1>1 DEF ScanGranting, procVars, LeaseInv, AtRest
<1>3. \A t \in grants : Active(t) /\ att[t].by = me /\ t \in Tokens
    BY <1>2 DEF LeaseInv, Covered, TypeOK
<1>4. \A t \in Tokens : att[t] \in Attempt /\ att'[t] = AttemptAfter(t, g)
                       /\ out'[t] = (IF t \in Done THEN "none" ELSE out[t])
    BY <1>1 DEF ScanGranting, LeaseInv, TypeOK
<1>5. Done \subseteq grants
    BY DEF Done
<1>6. issued \in Nat /\ Tokens \subseteq Nat /\ new \notin grants
    <2>1. issued \in Nat /\ Tokens \subseteq Nat
        BY ConstantsAssumption DEF LeaseInv, TypeOK, Tokens, ConstantsAssumption
    <2>2. \A t \in grants : t \in Nat /\ t <= issued
        BY <1>3, <2>1 DEF LeaseInv, Covered
    <2> QED BY <1>b, <2>1, <2>2
<1>7. ASSUME NEW t \in Done PROVE ~ Active(t)'
    <2>1. PICK s \in {"succeeded", "failed"} : att'[t] = Ended(att[t], s)
        BY <1>3, <1>4, <1>5 DEF AttemptAfter
    <2>2. att'[t].lease = "released"
        BY <1>3, <1>4, <1>5, <2>1 DEF Ended, Attempt
    <2> QED BY <2>2 DEF Active
<1>8. ASSUME NEW t \in grants \ Done
      PROVE  /\ att'[t].job = att[t].job /\ att'[t].stage = att[t].stage
             /\ att'[t].by = att[t].by /\ att'[t].fresh
    <2>1. att'[t] = [att[t] EXCEPT !.fresh = TRUE] /\ att[t] \in Attempt
        BY <1>3, <1>4 DEF AttemptAfter
    <2> QED BY <2>1 DEF Attempt
<1>9. ASSUME NEW t \in Tokens \ grants
      PROVE  \/ att'[t] = att[t]
             \/ g # NoJob /\ t = new /\ att'[t] = NewAttempt(g)
    <2>1. CASE t = new /\ g # NoJob
        BY <1>b, <1>4, <1>5, <2>1 DEF AttemptAfter
    <2>2. CASE t # new \/ g = NoJob
        <3>1. ~ (g # NoJob /\ t = issued + 1)
            BY <1>b, <2>2
        <3>2. t \notin Done /\ t \notin grants \ Done /\ t \in Tokens
            BY <1>5
        <3>3. AttemptAfter(t, g) = att[t]
            BY <3>1, <3>2 DEF AttemptAfter
        <3> QED BY <1>4, <3>2, <3>3
    <2> QED BY <2>1, <2>2
<1>10. ASSUME NEW t \in Tokens, Active(t)'
       PROVE  \/ /\ Active(t) /\ t \notin Done /\ att'[t].job = att[t].job
                 /\ att'[t].stage = att[t].stage /\ att'[t].by = att[t].by
              \/ g # NoJob /\ att'[t] = NewAttempt(g)
    <2>1. t \notin Done
        BY <1>7, <1>10
    <2>2. CASE t \in grants
        BY <1>3, <1>8, <2>1, <2>2
    <2>3. CASE t \notin grants
        BY <1>9, <1>10, <2>1, <2>3 DEF Active
    <2> QED BY <2>2, <2>3
<1>11. ASSUME NEW t \in grants'
       PROVE  \/ /\ t \in grants \ Done /\ out'[t] = out[t] /\ att'[t].fresh
                 /\ att'[t].job = att[t].job /\ att'[t].stage = att[t].stage
              \/ g # NoJob /\ att'[t] = NewAttempt(g) /\ out'[t] = "none"
    <2>1. CASE t \in grants \ Done
        BY <1>3, <1>4, <1>8, <2>1
    <2>2. CASE t \notin grants \ Done
        <3>1. g \in Jobs /\ Chosen(g) /\ t = new
            BY <1>1, <1>b, <1>11, <2>2
        <3>2. g # NoJob
            BY <1>a, <3>1
        <3>3. t \in Tokens
            BY <1>b, <1>6, <3>1, ConstantsAssumption
               DEF Chosen, SlotIsFree, Tokens, LeaseInv, TypeOK, ConstantsAssumption
        <3>4. t \notin grants /\ out[t] = "none"
            BY <1>6, <3>1, <3>3 DEF LeaseInv, Covered
        <3> QED BY <1>b, <1>4, <1>5, <3>1, <3>2, <3>3, <3>4 DEF AttemptAfter
    <2> QED BY <2>1, <2>2
<1>12. g # NoJob => g \in Jobs /\ Chosen(g)
    BY <1>1
<1>13. g = NoJob => grants' = grants \ Done
    BY <1>1, <1>a
<1>14. ScanSlot(g)
    BY <1>2, <1>3, <1>10, <1>11, <1>12, <1>13 DEF ScanSlot
<1> QED BY <1>1, <1>14

---------------------------------------------------------------------------
(* The invariant is inductive.                                             *)

\* A step that touches neither a leased job nor what the process remembers.
LEMMA WorkFrame ==
    ASSUME WorkRest, TypeOK, UNCHANGED <<at, next, me, explicit, grants, out>>,
           runner' = runner \/ runner' \in {"idle", "scan"},
           runner' # "idle" => phase' \notin {"off", "booting", "recovered", "interrupted"},
           phase' = "abandoned" \/ phase # "abandoned",
           phase' \in {"serving", "closing"} /\ runner' # "dead" =>
                \/ phase \in {"serving", "closing"} /\ runner # "dead"
                \/ grants = {},
           \A j \in Jobs : inv'[j] # "absent" => Exists(j)',
           \A j \in Jobs : inv'[j] = "sealed" => inv[j] = "sealed",
           \A t \in Tokens : /\ att'[t].lease = att[t].lease /\ att'[t].job = att[t].job
                             /\ att'[t].stage = att[t].stage /\ att'[t].by = att[t].by,
           \A t \in grants : att[t].fresh => att'[t].fresh,
           \A t \in Tokens : Active(t) \/ t \in grants =>
                /\ inv'[att[t].job] = inv[att[t].job]
                /\ item'[att[t].job] = item[att[t].job]
    PROVE  WorkRest'
<1>1. InvocationsKnown'
    BY DEF WorkRest, InvocationsKnown
<1>2. LeasedWork'
    BY DEF WorkRest, LeasedWork, Active
<1>3. OwnWork'
    <2> SUFFICES ASSUME phase' # "abandoned", NEW t \in grants PROVE Working(t)'
        BY DEF OwnWork
    <2>1. t \in Tokens
        BY DEF TypeOK
    <2>2. Working(t)
        BY DEF WorkRest, OwnWork
    <2>3. /\ att'[t].job = att[t].job /\ att'[t].stage = att[t].stage
          /\ inv'[att[t].job] = inv[att[t].job] /\ item'[att[t].job] = item[att[t].job]
        BY <2>1
    <2>4. Told(t) => Told(t)'
        BY <2>3 DEF Told, Agrees
    <2> QED BY <2>2, <2>3, <2>4 DEF Working
<1>4. ThreadRuns'
    BY DEF WorkRest, ThreadRuns
<1>5. SchedulerSurvives'
    <2> SUFFICES ASSUME runner' = "dead", ~ explicit', ~ MaySuspend
                 PROVE  \E t \in grants : out[t] = "failed" /\ inv'[att'[t].job] = "sealed"
        BY DEF SchedulerSurvives
    <2>1. PICK t \in grants : out[t] = "failed" /\ inv[att[t].job] = "sealed"
        BY DEF WorkRest, SchedulerSurvives
    <2>2. t \in Tokens
        BY DEF TypeOK
    <2> QED BY <2>1, <2>2
<1> QED BY <1>1, <1>2, <1>3, <1>4, <1>5 DEF WorkRest

\* Own grants are active as long as the process has not abandoned them.
LEMMA GrantsActive ==
    ASSUME LeaseInv, phase # "abandoned"
    PROVE  \A t \in grants : t \in Tokens /\ Active(t)
BY DEF LeaseInv, TypeOK, Covered

\* The operator, with a job that has no invocation yet or that is not leased.
LEMMA OperatorWork ==
    ASSUME WorkInv, NEW j \in Jobs, Operator(j) \/ WindowExpires(j)
    PROVE  WorkRest'
<1>0. /\ WorkRest /\ TypeOK /\ LeaseInv
      /\ job \in [Jobs -> JobStatus] /\ item \in [Jobs -> ItemStatus]
      /\ inv \in [Jobs -> InvStatus]
    BY DEF WorkInv, LeaseInv, TypeOK
<1>1. CASE WindowExpires(j)
    <2>1. UNCHANGED <<job, item, at, inv, next, att, phase, me, explicit, runner, grants, out>>
        BY <1>1 DEF WindowExpires, jobVars, slotVars, procVars, memVars
    <2> QED BY <1>0, <2>1, WorkFrame DEF WorkRest, InvocationsKnown, ThreadRuns, Exists
<1>2. CASE Operator(j)
    <2>1. /\ phase = "serving"
          /\ UNCHANGED <<at, next, att, phase, me, explicit, runner, grants, out>>
        BY <1>2 DEF Operator, StartSettlement, StartDaily, CreateJob, OpenInvocation,
            InvokeDaily, Pause, Resume, Requeue, Cancel, Rebind, SetJob, jobVars, slotVars,
            invVars, procVars, memVars
    <2>2. \A t \in Tokens : Active(t) =>
              /\ Exists(att[t].job) /\ att[t].job \in Jobs /\ inv[att[t].job] # "absent"
              /\ item[att[t].job] # "waiting_external"
        BY <1>0 DEF WorkRest, LeasedWork, InvocationsKnown, EndedItem
    <2>3. /\ \A k \in Jobs \ {j} : inv'[k] = inv[k] /\ item'[k] = item[k] /\ job'[k] = job[k]
          /\ job'[j] # "absent"
          /\ \/ inv'[j] = inv[j]
             \/ inv'[j] = "open" /\ (inv[j] = "absent" \/ ~ Exists(j))
          /\ item'[j] = item[j] \/ item[j] = "waiting_external" \/ ~ Exists(j)
        <3>1. CASE StartSettlement(j)
            BY <1>0, <3>1 DEF StartSettlement, CreateJob, OpenInvocation
        <3>2. CASE StartDaily(j)
            BY <1>0, <3>2 DEF StartDaily, CreateJob, invVars
        <3>3. CASE InvokeDaily(j)
            BY <1>0, <3>3 DEF InvokeDaily, OpenInvocation, jobVars, Exists
        <3>4. CASE Pause(j) \/ Cancel(j)
            BY <1>0, <3>4 DEF Pause, Cancel, SetJob, invVars
        <3>5. CASE Resume(j)
            BY <1>0, <3>5 DEF Resume, Requeue, SetJob, invVars
        <3>6. CASE Rebind(j)
            BY <1>0, <3>6 DEF Rebind, jobVars
        <3> QED BY <1>2, <3>1, <3>2, <3>3, <3>4, <3>5, <3>6 DEF Operator
    <2>4. \A k \in Jobs : inv'[k] # "absent" => Exists(k)'
        BY <1>0, <2>3 DEF WorkRest, InvocationsKnown, Exists
    <2>5. \A k \in Jobs : inv'[k] = "sealed" => inv[k] = "sealed"
        BY <2>3
    <2>6. \A t \in Tokens : Active(t) \/ t \in grants =>
              inv'[att[t].job] = inv[att[t].job] /\ item'[att[t].job] = item[att[t].job]
        BY <1>0, <2>1, <2>2, <2>3, GrantsActive
    <2> QED BY <1>0, <2>1, <2>4, <2>5, <2>6, WorkFrame
<1> QED BY <1>1, <1>2

\* An executor commits to the invocation of its own grant, which is the only
\* one that is leased, and says what it has committed.
LEMMA ExecuteWork ==
    ASSUME WorkInv, NEW t \in Tokens, Execute(t)
    PROVE  WorkRest'
<1> DEFINE j == att[t].job
<1>1. Executor(t)
    BY DEF Execute, ReadBegins, SelectionBegins, ReadPartial, RunCaptured,
           ReadPublished, ReadRefused, SelectionEnds, Reading
<1>2. UNCHANGED <<job, item, at, att, phase, me, explicit, runner, grants>>
    BY DEF Execute, ReadBegins, SelectionBegins, ReadPartial, RunCaptured,
           ReadPublished, ReadRefused, SelectionEnds, Answer, slotVars,
           jobVars, procVars, memVars
<1>3. /\ LeaseInv /\ TypeOK /\ InvocationsKnown /\ LeasedWork /\ OwnWork /\ ThreadRuns
      /\ SchedulerSurvives
    BY DEF WorkInv, LeaseInv, WorkRest
<1>4. t \in grants /\ Active(t) /\ phase # "abandoned" /\ grants = {t}
    <2>1. t \in grants /\ phase # "abandoned"
        BY <1>1, <1>3 DEF Executor, Executing, LeaseInv, Covered
    <2> QED BY <1>3, <2>1, GrantsActive DEF LeaseInv, SlotExclusive
<1>5. /\ j \in Jobs /\ inv[j] # "absent" /\ Working(t)
      /\ j \in OneStage => att[t].stage = 1
    BY <1>3, <1>4 DEF LeasedWork, OwnWork
<1>6. /\ inv \in [Jobs -> InvStatus] /\ next \in [Jobs -> 1 .. LastStage]
      /\ out \in [Tokens -> {"none"} \cup Executing \cup Result]
    BY <1>3 DEF TypeOK
<1>7. /\ \A k \in Jobs \ {j} : inv'[k] = inv[k] /\ next'[k] = next[k]
      /\ inv'[j] # "absent"
      /\ inv'[j] = "sealed" => j \in Settlement \ Operational
      /\ next'[j] = next[j] \/ j \notin OneStage
      /\ out'[t] # "stage" /\ inv'[j] = "open" => inv[j] = "open" /\ next'[j] = next[j]
      /\ out'[t] \in Result => Told(t)'
    <2>0. out[t] # "stage" /\ at[j] = att[t].stage /\ (inv[j] = "sealed" => j \in Settlement \ Operational)
          /\ (inv[j] = "open" => next[j] = at[j])
        BY <1>1, <1>3, <1>5 DEF Executor, Executing, Working, InvocationsKnown
    <2> HIDE DEF j
    <2>a. att'[t].job = j /\ at' = at
        BY <1>2 DEF j
    <2>b. \A r : Answer(t, r) => out'[t] = r
        BY <1>6 DEF Answer
    <2>1. CASE ReadBegins(t)
        <3>1. /\ inv' = inv /\ next' = next /\ inv[j] = "open"
              /\ out'[t] \in {"reading", "retry", "waiting_external"}
            BY <2>1, <2>b DEF ReadBegins, invVars, j
        <3>2. out'[t] \in Result => Told(t)'
            BY <2>0, <2>a, <3>1 DEF Told, Agrees, Result
        <3> QED BY <1>5, <2>0, <3>1, <3>2
    <2>2. CASE SelectionBegins(t)
        <3>1. inv' = inv /\ next' = next /\ inv[j] = "sealed" /\ out'[t] \in {"selecting", "failed"}
            BY <2>2, <2>b DEF SelectionBegins, invVars, j
        <3>2. out'[t] \in Result => Told(t)'
            BY <2>a, <3>1 DEF Told, Result
        <3> QED BY <2>0, <3>1, <3>2
    <2>3. CASE ReadPartial(t)
        <3>1. /\ inv' = inv /\ inv[j] = "open" /\ out'[t] = "stage"
              /\ \A k \in Jobs \ {j} : next'[k] = next[k]
              /\ next'[j] = next[j] \/ j \in Daily \ Operational
            BY <1>6, <2>3, <2>b DEF ReadPartial, Reading, j
        <3>2. Told(t)'
            BY <2>a, <3>1 DEF Told, Agrees
        <3> QED BY <3>1, <3>2 DEF OneStage
    <2>4. CASE RunCaptured(t)
        <3>1. inv' = inv /\ next' = next /\ out'[t] = out[t]
            BY <2>4 DEF RunCaptured, memVars
        <3>2. out[t] \notin Result
            BY <1>1 DEF Executor, Executing, Result
        <3> QED BY <1>5, <2>0, <3>1, <3>2 DEF j
    <2>5. CASE ReadPublished(t)
        <3>1. /\ next' = next
              /\ \A k \in Jobs \ {j} : inv'[k] = inv[k]
              /\ \/ j \in Settlement \ Operational /\ inv'[j] = "sealed" /\ out'[t] = "selecting"
                 \/ inv'[j] = "done" /\ out'[t] = "complete"
            BY <1>5, <1>6, <2>5, <2>b DEF ReadPublished, j
        <3>2. out'[t] \in Result => Told(t)'
            BY <2>a, <3>1 DEF Told, Agrees, Result
        <3> QED BY <3>1, <3>2
    <2>6. CASE ReadRefused(t)
        <3>1. /\ next' = next /\ inv[j] = "open"
              /\ \A k \in Jobs \ {j} : inv'[k] = inv[k]
              /\ \/ out'[t] \in {"retry", "waiting_external"} /\ inv'[j] = inv[j]
                 \/ out'[t] = "failed" /\ inv'[j] \in {"open", "failed"}
            BY <1>5, <1>6, <2>6, <2>b DEF ReadRefused, Reading, j
        <3>2. Told(t)'
            BY <2>0, <2>a, <3>1 DEF Told, Agrees
        <3> QED BY <2>0, <3>1, <3>2
    <2>7. CASE SelectionEnds(t)
        <3>1. /\ next' = next /\ inv[j] = "sealed"
              /\ \A k \in Jobs \ {j} : inv'[k] = inv[k]
              /\ \/ out'[t] = "complete" /\ inv'[j] = "done"
                 \/ out'[t] = "failed" /\ inv'[j] = "failed"
                 \/ out'[t] = "retry" /\ inv'[j] = inv[j]
            BY <1>5, <1>6, <2>7, <2>b DEF SelectionEnds, j
        <3>2. Told(t)'
            BY <2>a, <3>1 DEF Told, Agrees
        <3> QED BY <2>0, <3>1, <3>2
    <2> QED BY <2>1, <2>2, <2>3, <2>4, <2>5, <2>6, <2>7 DEF Execute
<1>8. InvocationsKnown'
    BY <1>2, <1>3, <1>5, <1>7 DEF InvocationsKnown, Exists, OneStage
<1>9. LeasedWork'
    BY <1>2, <1>3, <1>7 DEF LeasedWork, Active
<1>10. OwnWork'
    <2>1. Working(t)'
        <3>1. att'[t].job = j /\ at'[j] = att'[t].stage /\ (item'[j] = "running" \/ explicit')
            BY <1>2, <1>5 DEF Working
        <3>2. out'[t] # "stage" /\ inv'[j] = "open" => next'[j] = att'[t].stage
            <4>1. inv[j] = "open" => next[j] = att[t].stage
                BY <1>1, <1>5 DEF Working, Executor, Executing
            <4> QED BY <1>2, <1>7, <4>1
        <3> QED BY <1>7, <3>1, <3>2 DEF Working
    <2> QED BY <1>2, <1>4, <2>1 DEF OwnWork
<1>11. ThreadRuns'
    BY <1>2, <1>3 DEF ThreadRuns
<1>12. SchedulerSurvives'
    <2>1. out[t] # "failed"
        BY <1>1 DEF Executor, Executing
    <2> QED BY <1>2, <1>3, <1>4, <2>1 DEF SchedulerSurvives
<1> QED BY <1>8, <1>9, <1>10, <1>11, <1>12 DEF WorkRest

\* Abandoning an attempt ends the only lease there is, or changes nothing.
LEMMA AbandonWork ==
    ASSUME WorkInv, NEW T \in SUBSET Tokens, \A t \in T : att[t].status = "running",
           Abandon(T), UNCHANGED <<inv, next, me>>
    PROVE  /\ InvocationsKnown' /\ LeasedWork' /\ job' = job
           /\ \/ item' = item /\ at' = at /\ att' = att
              \/ \A t \in Tokens : ~ Active(t)'
<1>1. /\ LeaseInv /\ TypeOK /\ InvocationsKnown /\ LeasedWork
    BY DEF WorkInv, LeaseInv, WorkRest
<1> DEFINE Lost(j) == {t \in T : att[t].job = j /\ item[j] = "running"}
<1>2. /\ job' = job
      /\ item' = [j \in Jobs |-> IF Lost(j) # {} THEN "queued" ELSE item[j]]
      /\ at' = [j \in Jobs |-> IF Lost(j) # {}
                               THEN att[CHOOSE t \in Lost(j) : TRUE].stage ELSE at[j]]
      /\ att' = [t \in Tokens |-> IF t \in T THEN Ended(att[t], "abandoned") ELSE att[t]]
    BY DEF Abandon
<1>3. /\ item \in [Jobs -> ItemStatus] /\ at \in [Jobs -> 1 .. LastStage]
      /\ att \in [Tokens -> Attempt]
    BY <1>1 DEF TypeOK
<1>4. \A t \in T : Active(t)
    BY <1>1 DEF LeaseInv, AttemptsAndLeases
<1>5. \A j \in OneStage : at'[j] = 1
    <2> TAKE j \in OneStage
    <2>1. j \in Jobs /\ at[j] = 1
        BY <1>1 DEF OneStage, InvocationsKnown
    <2>2. CASE Lost(j) = {}
        BY <1>2, <2>1, <2>2
    <2>3. CASE Lost(j) # {}
        <3> DEFINE t == CHOOSE t \in Lost(j) : TRUE
        <3>1. t \in T /\ att[t].job = j
            BY <2>3
        <3>2. at'[j] = att[t].stage
            BY <1>2, <2>1, <2>3
        <3> HIDE DEF t
        <3>3. att[t].stage = 1
            BY <1>1, <1>4, <3>1 DEF LeasedWork
        <3> QED BY <3>2, <3>3
    <2> QED BY <2>2, <2>3
<1>6. InvocationsKnown'
    BY <1>1, <1>2, <1>5 DEF InvocationsKnown, Exists
<1>7. \A t \in Tokens : Active(t)' => Active(t) /\ t \notin T
    BY AbandonEnds, <1>1
<1>8. CASE T = {}
    <2>1. \A j \in Jobs : Lost(j) = {}
        BY <1>8
    <2>2. item' = item /\ at' = at /\ att' = att
        BY <1>2, <1>3, <1>8, <2>1
    <2>3. LeasedWork'
        BY <1>1, <2>2 DEF LeasedWork, Active
    <2> QED BY <1>2, <1>6, <2>2, <2>3
<1>9. CASE T # {}
    <2>1. \A t \in Tokens : ~ Active(t)'
        BY <1>1, <1>4, <1>7, <1>9 DEF LeaseInv, SlotExclusive
    <2>2. LeasedWork'
        BY <2>1 DEF LeasedWork
    <2> QED BY <1>2, <1>6, <2>1, <2>2
<1> QED BY <1>8, <1>9

\* Ending reads from outside the scheduler: when nothing is remembered, or when
\* the operator leaves the program.
LEMMA TerminalizeWork ==
    ASSUME WorkInv, NEW status \in {"cancelled", "failed"}, TerminalizeReads(status),
           UNCHANGED <<inv, next, att, me>>
    PROVE  /\ InvocationsKnown' /\ LeasedWork' /\ at' = at
<1>1. /\ TypeOK /\ InvocationsKnown /\ LeasedWork
    BY DEF WorkInv, LeaseInv, WorkRest
<1>2. /\ \A j \in Jobs : job'[j] = IF j \in Unfinished THEN status ELSE job[j]
      /\ \A j \in Jobs : item'[j] = item[j] \/ item'[j] = status
      /\ at' = at
    BY DEF TerminalizeReads
<1>3. \A j \in Jobs : Exists(j) => Exists(j)'
    BY <1>2 DEF Exists
<1>4. InvocationsKnown'
    BY <1>1, <1>2, <1>3 DEF InvocationsKnown
<1>5. LeasedWork'
    BY <1>1, <1>2 DEF LeasedWork, Active, EndedItem
<1> QED BY <1>2, <1>4, <1>5

\* A scan passes only with results that agree, leaves leased rows alone and
\* grants a job at the stage of its invocation.
LEMMA ScanWork ==
    ASSUME WorkInv, ScanOnly \/ ScanAndGrant
    PROVE  WorkRest'
<1>1. /\ LeaseInv /\ KeyInv /\ TypeOK /\ InvocationsKnown /\ LeasedWork /\ OwnWork
    BY DEF WorkInv, LeaseInv, WorkRest
<1>2. PICK g \in Jobs \cup {NoJob} : ScanGranting(g) /\ ScanSlot(g)
    BY <1>1, ScanSlots
<1>3. Fenced
    BY <1>2 DEF ScanGranting
<1>4. \A t \in Tokens \ Done : Active(t) =>
          /\ item'[att[t].job] = item[att[t].job]
          /\ at'[att[t].job] = at[att[t].job]
          /\ inv'[att[t].job] = inv[att[t].job]
    BY <1>1, <1>2, <1>3, LeasedScanned
<1>5. \A j \in Jobs : /\ job'[j] = Scanned(j, g).job /\ item'[j] = Scanned(j, g).item
                      /\ at'[j] = Scanned(j, g).at /\ inv'[j] = Scanned(j, g).inv
    BY <1>2 DEF ScanGranting
<1>6. \A j \in Jobs :
          /\ \/ inv'[j] = inv[j]
             \/ inv[j] # "absent" /\ inv'[j] = "failed"
          /\ at'[j] \in {at[j], next[j]}
          /\ Exists(j)' <=> Exists(j)
    <2> TAKE j \in Jobs
    <2>1. \/ inv'[j] = inv[j]
          \/ Delivered(j) # {} /\ inv'[j] = "failed"
        BY <1>1, <1>3, <1>5, ScannedFollows
    <2>2. Delivered(j) # {} => inv[j] # "absent"
        <3>1. \A t \in Done : t \in Tokens /\ Active(t)
            BY <1>1, <1>2 DEF Done, ScanSlot, TypeOK
        <3> QED BY <1>1, <3>1 DEF Delivered, LeasedWork
    <2>3. at'[j] \in {at[j], next[j]}
        BY <1>1, <1>3, <1>5, ScannedFollows
    <2>4. Exists(j)' <=> Exists(j)
        BY <1>1, <1>3, <1>5, ScannedKeeps DEF Keeps, Row, Exists
    <2> QED BY <2>1, <2>2, <2>3, <2>4
<1>7. InvocationsKnown'
    <2>1. next' = next
        BY <1>2 DEF ScanSlot
    <2> QED BY <1>1, <1>6, <2>1 DEF InvocationsKnown, OneStage
<1>8. ASSUME g # NoJob
      PROVE  /\ g \in Jobs /\ item'[g] = "running"
             /\ at'[g] = Settled(g).at /\ inv'[g] \in {"open", "sealed"}
             /\ inv'[g] = "open" => next[g] = Settled(g).at
             /\ g \in OneStage => Settled(g).at = 1
    <2>1. g \in Jobs /\ Candidate(g)
        BY <1>2, <1>8 DEF ScanSlot, Chosen
    <2>2. Settled(g) \in RowType
        BY <1>1, <2>1, SettledTyped
    <2>3. Placed(g, g) = [Settled(g) EXCEPT !.item = "running"]
        BY <1>8, <2>1 DEF Placed
    <2>4. /\ Scanned(g, g).item = "running" /\ Scanned(g, g).at = Settled(g).at
          /\ Scanned(g, g).inv = Settled(g).inv
        BY <2>2, <2>3 DEF Scanned, Aggregated, RowType
    <2>5. Settled(g).at \in {at[g], next[g]}
        BY <1>1, <1>3, <2>1, ScannedFollows
    <2>6. g \in OneStage => Settled(g).at = 1 /\ next[g] = 1
        BY <1>1, <2>5 DEF InvocationsKnown
    <2>7. /\ Settled(g).inv \in {"open", "sealed"}
          /\ Settled(g).inv = "open" => next[g] = Settled(g).at \/ g \in Settlement
        BY <2>1 DEF Candidate
    <2>8. g \in Settlement => g \in OneStage
        BY DEF Settlement, OneStage
    <2> QED BY <1>5, <2>1, <2>4, <2>6, <2>7, <2>8
<1>9. LeasedWork'
    <2> SUFFICES ASSUME NEW t \in Tokens, Active(t)'
                 PROVE  /\ att'[t].by <= me' /\ att'[t].job \in Jobs
                        /\ inv'[att'[t].job] # "absent"
                        /\ item'[att'[t].job] \in {"running"} \cup EndedItem
                        /\ att'[t].job \in OneStage => att'[t].stage = 1
        BY DEF LeasedWork
    <2>0. me' = me
        BY <1>2 DEF ScanSlot
    <2>1. CASE /\ Active(t) /\ t \notin Done /\ att'[t].job = att[t].job
               /\ att'[t].stage = att[t].stage /\ att'[t].by = att[t].by
        BY <1>1, <1>4, <2>0, <2>1 DEF LeasedWork
    <2>2. CASE g # NoJob /\ att'[t] = NewAttempt(g)
        <3>1. att'[t].by = me /\ att'[t].job = g /\ att'[t].stage = Settled(g).at
            BY <2>2 DEF NewAttempt
        <3>2. me <= me
            BY <1>1, ConstantsAssumption DEF TypeOK, ConstantsAssumption
        <3> QED BY <1>8, <2>0, <2>2, <3>1, <3>2
    <2> QED BY <1>2, <2>1, <2>2 DEF ScanSlot
<1>10. ASSUME NEW t \in grants' PROVE Working(t)' /\ att'[t].fresh
    <2>0. phase # "abandoned" /\ next' = next /\ explicit' = explicit
        BY <1>2 DEF ScanSlot
    <2>1. CASE /\ t \in grants \ Done /\ out'[t] = out[t] /\ att'[t].fresh
               /\ att'[t].job = att[t].job /\ att'[t].stage = att[t].stage
        <3>1. t \in Tokens /\ Active(t) /\ Working(t)
            BY <1>1, <2>0, <2>1, GrantsActive DEF OwnWork
        <3>2. /\ item'[att[t].job] = item[att[t].job] /\ at'[att[t].job] = at[att[t].job]
              /\ inv'[att[t].job] = inv[att[t].job]
            BY <1>4, <2>1, <3>1
        <3>3. out[t] \notin Result
            BY <2>1 DEF Done
        <3> QED BY <2>0, <2>1, <3>1, <3>2, <3>3 DEF Working
    <2>2. CASE g # NoJob /\ att'[t] = NewAttempt(g) /\ out'[t] = "none"
        <3>1. att'[t].fresh /\ att'[t].job = g /\ att'[t].stage = Settled(g).at
            BY <2>2 DEF NewAttempt
        <3> QED BY <1>8, <2>0, <2>2, <3>1 DEF Working, Result
    <2> QED BY <1>2, <2>1, <2>2 DEF ScanSlot
<1>11. OwnWork' /\ ThreadRuns' /\ SchedulerSurvives'
    BY <1>2, <1>10 DEF OwnWork, ThreadRuns, SchedulerSurvives, ScanSlot
<1> QED BY <1>7, <1>9, <1>11 DEF WorkRest

\* A scan that is refused has found a machine that slept, a program that is
\* left, or a selection whose prerequisite was withdrawn.
LEMMA RefusedScan ==
    ASSUME WorkInv, ScanFails
    PROVE  \/ explicit \/ MaySuspend
           \/ \E t \in grants : out[t] = "failed" /\ inv[att[t].job] = "sealed"
<1>1. /\ LeaseInv /\ OwnWork /\ ThreadRuns /\ runner = "scan" /\ ~ Fenced
    BY DEF WorkInv, WorkRest, ScanFails
<1>2. phase \in {"serving", "closing"}
    BY <1>1 DEF LeaseInv, AtRest
<1>3. \A t \in grants : att[t].status = "running" /\ Active(t) /\ att[t].by = me
    BY <1>1, <1>2 DEF LeaseInv, Covered, AttemptsAndLeases, TypeOK
<1>4. PICK t \in Done : \/ ~ att[t].fresh \/ item[att[t].job] # "running"
                        \/ at[att[t].job] # att[t].stage
                        \/ ~ Agrees(out[t], att[t].job)
    BY <1>1, <1>3 DEF Fenced
<1>5. t \in grants /\ Working(t) /\ out[t] \in Result
    BY <1>1, <1>2, <1>4 DEF Done, OwnWork
<1>6. ~ MaySuspend => att[t].fresh
    BY <1>1, <1>2, <1>5 DEF ThreadRuns
<1> QED BY <1>4, <1>5, <1>6 DEF Working, Told

\* The scheduler thread.
LEMMA TickWork ==
    ASSUME WorkInv, Tick
    PROVE  WorkRest'
<1>1. /\ LeaseInv /\ TypeOK /\ WorkRest
    BY DEF WorkInv, LeaseInv
<1>2. CASE StartTick
    <2>1. /\ phase = "serving" /\ phase' = phase /\ runner = "idle" /\ runner' = "scan"
          /\ UNCHANGED <<inv, next, me, explicit, grants, out>>
          /\ Abandon(Abandonable)
        BY <1>2 DEF StartTick, invVars, procVars
    <2>2. /\ Abandonable \in SUBSET Tokens
          /\ \A t \in Abandonable : att[t].status = "running"
        BY DEF Abandonable
    <2>3. /\ InvocationsKnown' /\ LeasedWork'
          /\ \/ item' = item /\ at' = at /\ att' = att
             \/ \A t \in Tokens : ~ Active(t)'
        BY <2>1, <2>2, AbandonWork
    <2>4. \A t \in grants : t \in Tokens /\ t \notin Abandonable /\ Active(t)
        BY <1>1, <2>1, RecoveryIsForeign, GrantsActive
    <2>5. \A t \in grants : Active(t)'
        BY <1>1, <2>1, <2>2, <2>4, AbandonEnds DEF Active
    <2>6. OwnWork' /\ ThreadRuns'
        <3>1. CASE grants = {}
            BY <2>1, <3>1 DEF OwnWork, ThreadRuns
        <3>2. CASE item' = item /\ at' = at /\ att' = att
            BY <1>1, <2>1, <3>2 DEF WorkRest, OwnWork, ThreadRuns, Working, Told, Agrees
        <3> QED BY <2>3, <2>4, <2>5, <3>1, <3>2
    <2>7. SchedulerSurvives'
        BY <2>1 DEF SchedulerSurvives
    <2> QED BY <2>3, <2>6, <2>7 DEF WorkRest
<1>3. CASE ScanOnly \/ ScanAndGrant
    BY <1>3, ScanWork
<1>4. CASE ScanFails
    <2>1. /\ runner = "scan" /\ runner' = "dead"
          /\ UNCHANGED <<job, item, at, inv, next, att, phase, me, explicit, grants, out>>
        BY <1>4 DEF ScanFails, jobVars, invVars, slotVars, procVars
    <2>2. InvocationsKnown' /\ LeasedWork' /\ OwnWork'
        BY <1>1, <2>1 DEF WorkRest, InvocationsKnown, LeasedWork, OwnWork, Exists, Active,
                          Working, Told, Agrees
    <2>3. ThreadRuns'
        BY <1>1, <2>1 DEF WorkRest, ThreadRuns
    <2>4. SchedulerSurvives'
        BY <1>4, <2>1, RefusedScan DEF SchedulerSurvives
    <2> QED BY <2>2, <2>3, <2>4 DEF WorkRest
<1>5. CASE Dispatch
    <2>1. /\ runner = "dispatch" /\ runner' = "cleanup"
          /\ UNCHANGED <<job, item, at, inv, next, att, phase, me, explicit, grants>>
          /\ \A t \in grants : \/ out'[t] = out[t]
                              \/ /\ out[t] = "none"
                                 /\ out'[t] = "submitted"
        BY <1>1, <1>5 DEF Dispatch, jobVars, invVars, slotVars, procVars, TypeOK
    <2>2. InvocationsKnown' /\ LeasedWork'
        BY <1>1, <2>1 DEF WorkRest, InvocationsKnown, LeasedWork, Exists, Active
    <2>3. OwnWork'
        <3> SUFFICES ASSUME phase # "abandoned", NEW t \in grants PROVE Working(t)'
            BY <2>1 DEF OwnWork
        <3>1. Working(t)
            BY <1>1 DEF WorkRest, OwnWork
        <3>2. CASE out'[t] = out[t]
            BY <2>1, <3>1, <3>2 DEF Working, Told, Agrees
        <3>3. CASE out[t] = "none" /\ out'[t] = "submitted"
            BY <2>1, <3>1, <3>3 DEF Working, Result
        <3> QED BY <2>1, <3>2, <3>3
    <2>4. ThreadRuns' /\ SchedulerSurvives'
        BY <1>1, <2>1 DEF WorkRest, ThreadRuns, SchedulerSurvives
    <2> QED BY <2>2, <2>3, <2>4 DEF WorkRest
<1>6. ASSUME EndTick \/ \E j \in Jobs : Close(j) \/ CloseFails(j)
      PROVE  WorkRest'
    <2>1. /\ runner = "cleanup" /\ runner' \in {"cleanup", "idle"}
          /\ UNCHANGED <<job, item, at, inv, next, att, phase, me, explicit, grants, out>>
        BY <1>6 DEF EndTick, Close, CloseFails, jobVars, invVars, slotVars, procVars, memVars
    <2>2. phase \in {"serving", "closing"}
        BY <1>1, <2>1 DEF LeaseInv, AtRest
    <2> QED BY <1>1, <2>1, <2>2, WorkFrame DEF WorkRest, InvocationsKnown, Exists
<1> QED BY <1>2, <1>3, <1>4, <1>5, <1>6 DEF Tick

\* A process that remembers no grant, and whose thread has not failed.
LEMMA WorkRested ==
    ASSUME InvocationsKnown', LeasedWork', grants' = {}, runner' = "idle"
    PROVE  WorkRest'
BY DEF WorkRest, OwnWork, ThreadRuns, SchedulerSurvives

\* Start-up, shutdown and crashes.
LEMMA LifeWork ==
    ASSUME WorkInv, Booting \/ Shutdown \/ Closing \/ Crash
    PROVE  WorkRest'
<1>1. /\ LeaseInv /\ TypeOK /\ WorkRest /\ InvocationsKnown /\ LeasedWork
    BY DEF WorkInv, LeaseInv, WorkRest
<1>2. ASSUME phase \in {"off", "booting", "recovered", "interrupted"}
      PROVE  runner = "idle" /\ grants = {}
    BY <1>1, <1>2 DEF LeaseInv, AtRest, WorkRest, ThreadRuns
<1>3. CASE Boot
    <2>1. /\ phase = "off" /\ me' = me + 1
          /\ UNCHANGED <<job, item, at, inv, next, att, runner, grants, out>>
        BY <1>3 DEF Boot, jobVars, invVars, slotVars, memVars
    <2>2. InvocationsKnown'
        BY <1>1, <2>1 DEF InvocationsKnown, Exists
    <2>3. \A t \in Tokens : att[t].by \in Nat /\ me \in Nat
        BY <1>1, ConstantsAssumption DEF TypeOK, Attempt, ConstantsAssumption
    <2>4. LeasedWork'
        BY <1>1, <2>1, <2>3 DEF LeasedWork, Active
    <2> QED BY <1>2, <2>1, <2>2, <2>4, WorkRested
<1>4. CASE BootRecovers
    <2>1. /\ phase = "booting" /\ Abandon(Abandonable)
          /\ UNCHANGED <<inv, next, me, runner, grants>>
        BY <1>4 DEF BootRecovers, Enter, invVars, memVars
    <2>2. /\ Abandonable \in SUBSET Tokens
          /\ \A t \in Abandonable : att[t].status = "running"
        BY DEF Abandonable
    <2>3. InvocationsKnown' /\ LeasedWork'
        BY <2>1, <2>2, AbandonWork
    <2> QED BY <1>2, <2>1, <2>3, WorkRested
<1>5. CASE BootInterruptsReads
    <2>1. /\ phase = "recovered" /\ TerminalizeReads("failed")
          /\ UNCHANGED <<inv, next, att, me, runner, grants>>
        BY <1>5 DEF BootInterruptsReads, Enter, invVars, slotVars, memVars
    <2>2. InvocationsKnown' /\ LeasedWork'
        BY <2>1, TerminalizeWork
    <2> QED BY <1>2, <2>1, <2>2, WorkRested
<1>6. CASE BootReconciles
    <2>1. /\ phase = "interrupted"
          /\ UNCHANGED <<at, inv, next, att, me, runner, grants>>
        BY <1>6 DEF BootReconciles, BootCloses, Enter, slotVars, memVars
    <2>2. PICK S \in SUBSET Orphans :
              /\ job' = [j \in Jobs |-> IF j \in S THEN "failed" ELSE job[j]]
              /\ item' = [j \in Jobs |-> IF j \in S THEN "failed" ELSE item[j]]
        BY <1>6 DEF BootReconciles
    <2>3. \A j \in Jobs : Exists(j) => Exists(j)'
        BY <2>2 DEF Exists
    <2>4. InvocationsKnown'
        BY <1>1, <2>1, <2>3 DEF InvocationsKnown
    <2>5. \A j \in Jobs : item'[j] \in {item[j], "failed"}
        BY <2>2
    <2>6. LeasedWork'
        BY <1>1, <2>1, <2>5 DEF LeasedWork, Active, EndedItem
    <2> QED BY <1>2, <2>1, <2>4, <2>6, WorkRested
<1>7. CASE BootFails
    <2>1. /\ phase \in {"booting", "recovered", "interrupted"}
          /\ UNCHANGED <<job, item, at, inv, next, att, me, runner, grants>>
        BY <1>7 DEF BootFails, BootCloses, Enter, jobVars, invVars, slotVars, memVars
    <2>2. InvocationsKnown' /\ LeasedWork'
        BY <1>1, <2>1 DEF InvocationsKnown, LeasedWork, Exists, Active
    <2> QED BY <1>2, <2>1, <2>2, WorkRested
<1>8. CASE Shutdown \/ JoinRunner \/ Drain
    <2>1. /\ phase \in {"serving", "closing", "joined"}
          /\ phase' \in {"closing", "joined", "drained"}
          /\ phase' = "closing" => phase = "serving"
          /\ UNCHANGED <<job, item, at, inv, next, att, me, explicit, runner, grants, out>>
        BY <1>8 DEF Shutdown, JoinRunner, Drain, Enter, jobVars, invVars, slotVars, memVars
    <2> QED BY <1>1, <2>1, WorkFrame DEF InvocationsKnown, Exists
<1>9. CASE AbandonOwn
    <2> DEFINE T == {t \in Tokens : /\ att[t].status = "running"
                                    /\ Active(t) /\ att[t].by = me}
    <2>1. /\ phase' = "abandoned" /\ Abandon(T)
          /\ UNCHANGED <<inv, next, me, explicit, runner, grants, out>>
        BY <1>9 DEF AbandonOwn, Enter, invVars, memVars
    <2>2. T \in SUBSET Tokens /\ \A t \in T : att[t].status = "running"
        OBVIOUS
    <2> HIDE DEF T
    <2>3. InvocationsKnown' /\ LeasedWork'
        BY <2>1, <2>2, AbandonWork
    <2>4. \A t \in grants : att'[t].job = att[t].job
        BY <1>1, <2>1 DEF Abandon, Ended, TypeOK, Attempt
    <2>5. SchedulerSurvives'
        BY <1>1, <2>1, <2>4 DEF WorkRest, SchedulerSurvives
    <2>6. OwnWork' /\ ThreadRuns'
        BY <2>1 DEF OwnWork, ThreadRuns
    <2> QED BY <2>3, <2>5, <2>6 DEF WorkRest
<1>10. CASE Stop
    <2>1. /\ grants' = {} /\ runner' = "idle"
          /\ UNCHANGED <<inv, next, att, me>>
          /\ TerminalizeReads("cancelled") \/ UNCHANGED <<job, item, at>>
        BY <1>10 DEF Stop, Forget, Enter, invVars, slotVars, jobVars
    <2>2. InvocationsKnown' /\ LeasedWork'
        <3>1. CASE TerminalizeReads("cancelled")
            BY <2>1, <3>1, TerminalizeWork
        <3>2. CASE UNCHANGED <<job, item, at>>
            BY <1>1, <2>1, <3>2 DEF InvocationsKnown, LeasedWork, Exists, Active
        <3> QED BY <2>1, <3>1, <3>2
    <2> QED BY <2>1, <2>2, WorkRested
<1>11. CASE Crash
    <2>1. /\ grants' = {} /\ runner' = "idle"
          /\ UNCHANGED <<job, item, at, inv, next, att, me>>
        BY <1>11 DEF Crash, Forget, Enter, invVars, slotVars, jobVars
    <2>2. InvocationsKnown' /\ LeasedWork'
        BY <1>1, <2>1 DEF InvocationsKnown, LeasedWork, Exists, Active
    <2> QED BY <2>1, <2>2, WorkRested
<1> QED BY <1>3, <1>4, <1>5, <1>6, <1>7, <1>8, <1>9, <1>10, <1>11 DEF Booting, Closing

\* The invariant is inductive.
LEMMA WorkStep ==
    ASSUME WorkInv, [Next]_vars
    PROVE  WorkInv'
<1>1. LeaseInv /\ KeyInv /\ TypeOK /\ WorkRest
    BY DEF WorkInv, LeaseInv
<1>2. LeaseInv' /\ KeyInv'
    BY <1>1, LeaseStep, KeyStep
<1>3. SUFFICES WorkRest'
    BY <1>2 DEF WorkInv
<1>4. ASSUME NEW j \in Jobs, Operator(j) \/ WindowExpires(j) PROVE WorkRest'
    BY <1>4, OperatorWork
<1>5. ASSUME NEW t \in Tokens, Execute(t) PROVE WorkRest'
    BY <1>5, ExecuteWork
<1>6. ASSUME NEW t \in Tokens, LeaseLapses(t) PROVE WorkRest'
    <2>1. UNCHANGED <<job, item, at, inv, next, phase, me, explicit, runner, grants, out>>
        BY <1>6 DEF LeaseLapses, jobVars, invVars, procVars, memVars
    <2>2. \A u \in Tokens : /\ att'[u].lease = att[u].lease /\ att'[u].job = att[u].job
                            /\ att'[u].stage = att[u].stage /\ att'[u].by = att[u].by
                            /\ u # t => att'[u] = att[u]
        BY <1>1, <1>6 DEF LeaseLapses, TypeOK, Attempt
    <2>3. grants \subseteq Tokens
        BY <1>1 DEF TypeOK
    <2>4. InvocationsKnown' /\ LeasedWork'
        BY <1>1, <2>1, <2>2 DEF WorkRest, InvocationsKnown, LeasedWork, Exists, Active
    <2>5. OwnWork'
        <3> SUFFICES ASSUME phase # "abandoned", NEW u \in grants PROVE Working(u)'
            BY <2>1 DEF OwnWork
        <3>1. Working(u) /\ u \in Tokens
            BY <1>1, <2>3 DEF WorkRest, OwnWork
        <3>2. att'[u].job = att[u].job /\ att'[u].stage = att[u].stage
            BY <2>2, <3>1
        <3> QED BY <2>1, <3>1, <3>2 DEF Working, Told, Agrees
    <2>6. ThreadRuns'
        BY <1>1, <1>6, <2>1, <2>2, <2>3 DEF WorkRest, ThreadRuns, LeaseLapses, Renewed
    <2>7. SchedulerSurvives'
        BY <1>1, <2>1, <2>2, <2>3 DEF WorkRest, SchedulerSurvives
    <2> QED BY <2>4, <2>5, <2>6, <2>7 DEF WorkRest
<1>7. CASE RequestShutdown
    <2>1. /\ explicit' /\ TerminalizeReads("cancelled")
          /\ UNCHANGED <<inv, next, att, phase, me, runner, grants, out>>
        BY <1>7 DEF RequestShutdown, invVars, slotVars, memVars
    <2>2. InvocationsKnown' /\ LeasedWork' /\ at' = at
        BY <2>1, TerminalizeWork
    <2>3. OwnWork'
        BY <1>1, <2>1, <2>2 DEF WorkRest, OwnWork, Working, Told, Agrees
    <2>4. ThreadRuns' /\ SchedulerSurvives'
        BY <1>1, <2>1 DEF WorkRest, ThreadRuns, SchedulerSurvives
    <2> QED BY <2>2, <2>3, <2>4 DEF WorkRest
<1>8. CASE Tick
    BY <1>8, TickWork
<1>9. CASE RenewLeases
    <2>1. UNCHANGED <<job, item, at, inv, next, phase, me, explicit, runner, grants, out>>
        BY <1>9 DEF RenewLeases, jobVars, invVars, procVars, memVars
    <2>2. \A u \in Tokens : /\ att'[u].lease = att[u].lease /\ att'[u].job = att[u].job
                            /\ att'[u].stage = att[u].stage /\ att'[u].by = att[u].by
        BY <1>1, <1>9 DEF RenewLeases, TypeOK, Attempt
    <2>3. \A u \in grants : att[u].fresh => att'[u].fresh
        BY <1>1, <1>9 DEF RenewLeases, TypeOK, Attempt
    <2>4. \A j \in Jobs : inv'[j] # "absent" => Exists(j)'
        BY <1>1, <2>1 DEF WorkRest, InvocationsKnown, Exists
    <2>5. runner = "idle" /\ phase = "serving"
        BY <1>9 DEF RenewLeases
    <2> QED BY <1>1, <2>1, <2>2, <2>3, <2>4, <2>5, WorkFrame
<1>10. CASE Booting \/ Shutdown \/ Closing \/ Crash
    BY <1>10, LifeWork
<1>11. CASE UNCHANGED vars
    <2>1. UNCHANGED <<job, item, at, inv, next, att, phase, me, explicit, runner, grants, out>>
        BY <1>11 DEF vars, jobVars, invVars, slotVars, procVars, memVars
    <2> QED BY <1>1, <2>1 DEF WorkRest, InvocationsKnown, LeasedWork, OwnWork, ThreadRuns,
                SchedulerSurvives, Exists, Active, Working, Told, Agrees
<1> QED BY <1>4, <1>5, <1>6, <1>7, <1>8, <1>9, <1>10, <1>11 DEF Next

\* Results, items, stages and invocations agree in every reachable state.
THEOREM WorkAgrees == Spec => []WorkInv
<1>1. Init => WorkRest
    <2> SUFFICES ASSUME Init PROVE WorkRest
        OBVIOUS
    <2>1. /\ \A j \in Jobs : inv[j] = "absent" /\ at[j] = 1 /\ next[j] = 1
          /\ \A t \in Tokens : ~ Active(t)
          /\ grants = {} /\ runner = "idle"
        BY DEF Init, Active, NoAttempt
    <2>2. InvocationsKnown
        BY <2>1 DEF InvocationsKnown, OneStage
    <2>3. LeasedWork /\ OwnWork
        BY <2>1 DEF LeasedWork, OwnWork
    <2>4. ThreadRuns /\ SchedulerSurvives
        BY <2>1 DEF ThreadRuns, SchedulerSurvives
    <2> QED BY <2>2, <2>3, <2>4 DEF WorkRest
<1>2. WorkRest /\ LeaseInv /\ KeyInv /\ [Next]_vars => WorkRest'
    BY WorkStep DEF WorkInv
<1>3. LeaseInv /\ KeyInv /\ WorkRest => WorkInv
    BY DEF WorkInv
<1>4. Spec => []KeyInv
    BY KeysAgree
<1> QED BY <1>1, <1>2, <1>3, <1>4, LeasesAgree, PTL DEF Spec

\* For any number of stages, grants and lives, an executor is only ever at work
\* on the stage its invocation is at: what has been committed is not read again.
THEOREM StageReadOnce == Spec => []NoStageTwice
<1>1. WorkInv => NoStageTwice
    <2> SUFFICES ASSUME WorkInv, NEW t \in Tokens, out[t] \in Executing,
                        inv[att[t].job] = "open"
                 PROVE  att[t].stage = next[att[t].job]
        BY DEF NoStageTwice
    <2>1. t \in grants /\ phase # "abandoned"
        BY DEF WorkInv, LeaseInv, Covered, AtRest, Executing
    <2>2. Working(t)
        BY <2>1 DEF WorkInv, WorkRest, OwnWork
    <2> QED BY <2>2 DEF Working, Executing
<1> QED BY <1>1, WorkAgrees, PTL

\* No interleaving of results, controls, recovery and restarts makes the checks
\* of a scan end the thread of a process that is well.
THEOREM ThreadSurvives == Spec => []SchedulerSurvives
<1>1. WorkInv => SchedulerSurvives
    BY DEF WorkInv, WorkRest
<1> QED BY <1>1, WorkAgrees, PTL

=============================================================================
