------------------------ MODULE BrowserSessionProofs ------------------------
(***************************************************************************)
(* Whoever closes, rebuilds, loses or restarts the browser: for any number *)
(* of windows, of readers and of lives of the process, none reads with a   *)
(* browser that a person has had since it was started, and a row under     *)
(* automated control names a reader that is at work, or a shadow read that *)
(* outlives its process.                                                   *)
(***************************************************************************)
EXTENDS BrowserSession, TLAPS

-------------------------------------------------------------------------------
(* The inductive invariant. *)

\* A browser that a person has had is alive, and the row says that the person has
\* it still or that it is to be closed.
HandedIsMarked ==
    handled => /\ running
               /\ Serving
               /\ ctl.mode = "human_handoff" \/ ctl.life = "recovering"

\* What the session route saw missing has been started by nobody else since,
\* unless the row has moved on.
MissingIsClean == "get" \in current => ~handled

OnlyReadyIsTaken == ctl.life # "ready" => ctl.mode = "idle"

RowInv == HandedIsMarked /\ MissingIsClean /\ OnlyReadyIsTaken

\* A rebuild that has closed the browser and is about to start it.
Rebuilding == lock.by = "rebuild" /\ lock.at = "start"

LockInv ==
    /\ lock = [by |-> lock.by, at |-> lock.at, w |-> lock.w]
    /\ Rebuilding => ~handled

HandedInv == RowInv /\ LockInv

-------------------------------------------------------------------------------
(* Helpers. *)

LEMMA Rows ==
    /\ Stopped.life = "stopped" /\ Stopped.mode = "idle"
    /\ ReadyIdle.life = "ready" /\ ReadyIdle.mode = "idle"
    /\ \A r, w : Automated(r, w).life = "ready" /\ Automated(r, w).mode = "automated"
    /\ \A m, w : Human(m, w).life = "ready" /\ Human(m, w).mode = m
    /\ \A w : Recovering(w).life = "recovering" /\ Recovering(w).mode = "idle"
BY DEF Stopped, ReadyIdle, Automated, Human, Recovering

LEMMA ReadersAreNotRoutes == "get" \notin Readers /\ Executor \in Readers
BY SessionAssumption

\* A row that keeps a person's trace, and one that is well formed.
Marked(row) == row.mode = "human_handoff" \/ row.life = "recovering"
Sound(row) == row.life # "ready" => row.mode = "idle"

\* What a party that is neither the session route nor its reading does to current.
Unread == "get" \in current' => "get" \in current

\* A step in which the browser is closed, whatever it makes of the row.
LEMMA ClosingStep ==
    ASSUME RowInv, Closes, Sound(ctl')
    PROVE  RowInv'
BY DEF RowInv, HandedIsMarked, MissingIsClean, OnlyReadyIsTaken, Sound, Closes

\* A step that hands the browser to nobody and lets no row forget a person.
LEMMA KeepingStep ==
    ASSUME RowInv, handled' = handled, running => running', Serving => Serving',
           Sound(ctl'), handled /\ Marked(ctl) => Marked(ctl'),
           Unread
    PROVE  RowInv'
BY DEF RowInv, HandedIsMarked, MissingIsClean, OnlyReadyIsTaken, Marked, Sound, Unread

LEMMA InitHanded == Init => HandedInv
BY Rows DEF Init, HandedInv, RowInv, LockInv, Rebuilding, Free, HandedIsMarked,
   MissingIsClean, OnlyReadyIsTaken

-------------------------------------------------------------------------------
(* The lock. *)

\* Nobody but the rebuild itself gets to its start, and only in the step that has
\* closed the browser; nobody is handed the browser and keeps the lock.
LockMoves ==
    /\ lock' = [by |-> lock'.by, at |-> lock'.at, w |-> lock'.w]
    /\ Rebuilding' => Rebuilding \/ ~handled'
    /\ handled' => handled \/ lock' = Free

LEMMA LockStep ==
    ASSUME LockInv, LockMoves
    PROVE  LockInv'
<1>1. lock' = Free => ~Rebuilding'
    <2>1. Free.by # "rebuild"
        BY DEF Free
    <2> QED BY <2>1 DEF Rebuilding
<1>2. Rebuilding' => ~handled'
    BY <1>1 DEF LockInv, LockMoves
<1> QED BY <1>2 DEF LockInv, LockMoves

\* The ways in which a step may move the lock.
LEMMA LockEnters ==
    ASSUME NEW h, NEW at, NEW w, Enter(h, at, w), h # "rebuild" \/ at # "start"
    PROVE  /\ lock' = [by |-> lock'.by, at |-> lock'.at, w |-> lock'.w]
           /\ ~Rebuilding'
BY DEF Enter, Rebuilding

LEMMA LockGoes ==
    ASSUME LockInv, NEW at, Goes(at)
    PROVE  /\ lock' = [by |-> lock'.by, at |-> lock'.at, w |-> lock'.w]
           /\ lock'.by = lock.by /\ lock'.at = at
<1>1. lock' = [by |-> lock.by, at |-> at, w |-> lock.w]
    BY DEF LockInv, Goes
<1> QED BY <1>1

LEMMA LockLeaves ==
    ASSUME Leaves
    PROVE  /\ lock' = [by |-> lock'.by, at |-> lock'.at, w |-> lock'.w]
           /\ ~Rebuilding'
BY DEF Leaves, Rebuilding, Free

LEMMA LockStays ==
    ASSUME LockInv, UNCHANGED lock
    PROVE  /\ lock' = [by |-> lock'.by, at |-> lock'.at, w |-> lock'.w]
           /\ Rebuilding' => Rebuilding
BY DEF LockInv, Rebuilding

-------------------------------------------------------------------------------
(* The steps. *)

LEMMA EnvironmentStep ==
    ASSUME HandedInv,
           \/ \E w \in Windows : \/ Issue(w) \/ Connect(w) \/ BusinessRead(w)
                                \/ Expires(w) \/ JobEnds(w) \/ ReadBegins(w)
           \/ BrowserDies \/ SessionLooks \/ SessionStops \/ SessionCloses
    PROVE  HandedInv'
<1> USE DEF HandedInv
<1>0. UNCHANGED lock /\ (handled' => handled)
    <2>1. CASE \E w \in Windows : Issue(w) \/ Connect(w) \/ BusinessRead(w)
        <3>1. UNCHANGED << lock, handled >>
            BY <2>1 DEF Issue, Connect, BusinessRead, IssueRest
        <3> QED BY <3>1
    <2>2. CASE \E w \in Windows : Expires(w) \/ JobEnds(w) \/ ReadBegins(w)
        BY <2>2 DEF Expires, JobEnds, ReadBegins, KeepBrowser
    <2>3. CASE BrowserDies \/ SessionLooks \/ SessionStops \/ SessionCloses
        BY <2>3 DEF BrowserDies, SessionLooks, SessionStops, SessionCloses, Env, Rest,
           KeepBrowser, Closes
    <2> QED BY <2>1, <2>2, <2>3
<1>1. LockInv'
    BY <1>0, LockStays, LockStep DEF LockMoves
<1>2. RowInv'
    <2>1. CASE \/ \E w \in Windows : \/ Issue(w) \/ Connect(w) \/ BusinessRead(w)
                                      \/ Expires(w) \/ JobEnds(w)
               \/ SessionCloses
        <3>1. UNCHANGED << ctl, current, running, handled, up >>
            BY <2>1 DEF Issue, Connect, BusinessRead, IssueRest, Expires, JobEnds,
               SessionCloses, KeepRow, KeepBrowser, Env, Rest
        <3> QED BY <3>1, KeepingStep DEF RowInv, OnlyReadyIsTaken, Sound, Marked, Serving,
            Unread
    <2>2. CASE \E w \in Windows : ReadBegins(w)
        <3>1. /\ UNCHANGED << ctl, running, handled, up >>
              /\ current' \in {current, current \cup {Executor}}
            BY <2>2 DEF ReadBegins, Others, KeepRow, KeepBrowser, Reads
        <3>2. Unread
            BY <3>1, ReadersAreNotRoutes DEF Unread
        <3> QED BY <3>1, <3>2, KeepingStep DEF RowInv, OnlyReadyIsTaken, Sound, Marked,
            Serving
    <2>3. CASE BrowserDies
        <3>1. UNCHANGED ctl
            BY <2>3 DEF BrowserDies
        <3> QED BY <2>3, <3>1, ClosingStep DEF BrowserDies, RowInv, OnlyReadyIsTaken, Sound
    <2>4. CASE SessionLooks
        BY <2>4 DEF SessionLooks, Reads, Serving, RowInv, HandedIsMarked, MissingIsClean,
           OnlyReadyIsTaken
    <2>5. CASE SessionStops
        BY <2>5, Rows DEF SessionStops, Serving, Write, LastWrite, KeepRow, RowInv,
           HandedIsMarked, MissingIsClean, OnlyReadyIsTaken
    <2> QED BY <2>1, <2>2, <2>3, <2>4, <2>5
<1> QED BY <1>1, <1>2

LEMMA PersonStep ==
    ASSUME HandedInv, Person
    PROVE  HandedInv'
<1> USE DEF HandedInv
<1> PICK w \in Windows : LoginEnters(w) \/ DiscoveryStarts(w) \/ LoginReturns(w)
                          \/ CloseEnters(w) \/ DisconnectEnters(w) \/ RebuildEnters(w)
    BY DEF Person
<1>0. \A mode : \/ Returned(mode).life = "recovering" /\ Returned(mode).mode = "idle"
                \/ mode # "human_handoff" /\ Returned(mode) = ReadyIdle
    BY Rows DEF Returned
<1>1. CASE LoginEnters(w)
    <2>1. /\ UNCHANGED << running, handled, up >>
          /\ ctl.life \in {"ready", "stopped"} /\ ctl.mode = "idle"
          /\ ctl' \in {ctl, Stopped}
          /\ Unread
        BY <1>1 DEF LoginEnters, KeepBrowser, Env, Rest, Write, LastWrite, Reads, Idle, Unread
    <2>2. RowInv'
        BY <2>1, Rows, KeepingStep DEF Sound, Marked, Serving
    <2>3. Enter("login", "start", w)
        BY <1>1 DEF LoginEnters
    <2> QED BY <2>1, <2>2, <2>3, LockEnters, LockStep DEF LockMoves
<1>2. CASE DiscoveryStarts(w)
    <2>1. /\ ctl' = Human("human_handoff", w) /\ current' = {} /\ running'
          /\ up' = "up" /\ UNCHANGED lock /\ lock = Free
        BY <1>2 DEF DiscoveryStarts, Env, Rest, Write, LastWrite
    <2>2. RowInv'
        BY <2>1, Rows DEF RowInv, HandedIsMarked, MissingIsClean, OnlyReadyIsTaken, Serving
    <2> QED BY <2>1, <2>2, LockStays, LockStep DEF LockMoves
<1>3. CASE LoginReturns(w)
    <2>1. /\ UNCHANGED lock /\ (handled' => handled)
          /\ Unread /\ UNCHANGED up
          /\ Sound(ctl')
        BY <1>3, Rows DEF LoginReturns, Env, Rest, Write, LastWrite, Closes, KeepBrowser,
           Unread, Sound
    <2>2. RowInv'
        <3>1. CASE Closes
            BY <2>1, <3>1, ClosingStep
        <3>2. CASE ~Closes
            <4>1. /\ UNCHANGED << running, handled >>
                  /\ ctl.mode = "human_login" /\ ctl' = ReadyIdle
                BY <1>3, <3>2 DEF LoginReturns, KeepBrowser, Write, LastWrite
            <4>2. ~(handled /\ Marked(ctl))
                BY <4>1 DEF RowInv, OnlyReadyIsTaken, Marked
            <4> QED BY <2>1, <4>1, <4>2, KeepingStep DEF Serving
        <3> QED BY <3>1, <3>2
    <2> QED BY <2>1, <2>2, LockStays, LockStep DEF LockMoves
<1>4. CASE CloseEnters(w) \/ DisconnectEnters(w) \/ RebuildEnters(w)
    <2>1. /\ UNCHANGED << running, handled, up >>
          /\ \/ ctl' = ctl
             \/ ctl.mode \in {"human_login", "human_handoff"} /\ ctl' = Returned(ctl.mode)
          /\ Unread
        BY <1>4 DEF CloseEnters, DisconnectEnters, RebuildEnters, KeepBrowser, Env, Rest,
           Write, LastWrite, Reads, HumanMode, Unread
    <2>2. Sound(ctl')
        BY <1>0, <2>1, Rows DEF RowInv, OnlyReadyIsTaken, Sound
    <2>3. handled /\ Marked(ctl) => Marked(ctl')
        BY <1>0, <2>1 DEF RowInv, OnlyReadyIsTaken, Marked
    <2>4. RowInv'
        BY <2>1, <2>2, <2>3, KeepingStep DEF Serving
    <2>5. \/ Enter("close", "consume", w) \/ Enter("disconnect", "stop", w)
          \/ Enter("disconnect", "retire", w) \/ Enter("rebuild", "stop", w)
        BY <1>4 DEF CloseEnters, DisconnectEnters, RebuildEnters
    <2> QED BY <2>1, <2>4, <2>5, LockEnters, LockStep DEF LockMoves
<1> QED BY <1>1, <1>2, <1>3, <1>4

LEMMA HandlersStep ==
    ASSUME HandedInv, Handlers
    PROVE  HandedInv'
<1> USE DEF HandedInv
<1>0. /\ UNCHANGED up /\ Unread /\ (handled' => handled)
    BY DEF Handlers, LoginStarts, LoginTakes, CloseConsumes, CloseStops, DisconnectStops,
       RebuildStops, RebuildStarts, Env, Rest, Write, LastWrite, KeepRow, KeepBrowser,
       Starts, Closes, Unread
<1>1. Sound(ctl')
    <2>1. ctl' \in {ctl, Stopped, ReadyIdle, Human("human_login", lock.w)}
        BY DEF Handlers, LoginStarts, LoginTakes, CloseConsumes, CloseStops,
           DisconnectStops, RebuildStops, RebuildStarts, Write, LastWrite, KeepRow
    <2> QED BY <2>1, Rows DEF RowInv, OnlyReadyIsTaken, Sound
<1>2. RowInv'
    <2>1. CASE Closes
        BY <1>1, <2>1, ClosingStep
    <2>2. CASE ~Closes /\ LoginStarts
        <3>1. /\ running' /\ UNCHANGED handled
              /\ ctl' = ctl \/ ctl.life = "stopped"
            BY <2>2 DEF LoginStarts, Starts, Write, LastWrite, KeepRow
        <3>2. Marked(ctl) => Marked(ctl')
            BY <3>1 DEF RowInv, OnlyReadyIsTaken, Marked
        <3> QED BY <1>0, <1>1, <3>1, <3>2, KeepingStep DEF Serving
    <2>3. CASE ~Closes /\ LoginTakes
        <3>1. UNCHANGED << running, handled >> /\ ctl = ReadyIdle
            BY <2>3 DEF LoginTakes, KeepBrowser
        <3>2. ~Marked(ctl)
            BY <3>1, Rows DEF Marked
        <3> QED BY <1>0, <1>1, <3>1, <3>2, KeepingStep DEF Serving
    <2>4. CASE CloseConsumes
        <3>1. UNCHANGED << ctl, running, handled >>
            BY <2>4 DEF CloseConsumes, KeepRow, KeepBrowser
        <3> QED BY <1>0, <1>1, <3>1, KeepingStep DEF Serving
    <2>5. CASE ~Closes /\ RebuildStarts
        <3>1. running' /\ UNCHANGED handled /\ Rebuilding
            BY <2>5 DEF RebuildStarts, Starts, Inside, Rebuilding
        <3>2. ~handled
            BY <3>1 DEF LockInv
        <3> QED BY <1>0, <1>1, <3>1, <3>2, KeepingStep DEF Serving
    <2> QED BY <2>1, <2>2, <2>3, <2>4, <2>5
        DEF Handlers, CloseStops, DisconnectStops, RebuildStops
<1>3. LockMoves
    <2>1. CASE Leaves
        BY <1>0, <2>1, LockLeaves DEF LockMoves
    <2>2. CASE \/ LoginStarts /\ Goes("take")
               \/ CloseConsumes /\ Goes("stop")
        <3>1. \/ Goes("take") \/ Goes("stop")
            BY <2>2
        <3> QED BY <1>0, <3>1, LockGoes DEF LockMoves, Rebuilding
    <2>3. CASE RebuildStops /\ Goes("start")
        <3>1. ~handled' /\ Goes("start")
            BY <2>3 DEF RebuildStops, Closes
        <3> QED BY <1>0, <3>1, LockGoes DEF LockMoves
    <2> QED BY <2>1, <2>2, <2>3 DEF Handlers, LoginStarts, LoginTakes, CloseConsumes,
        CloseStops, DisconnectStops, RebuildStops, RebuildStarts
<1> QED BY <1>2, <1>3, LockStep

\* A row that nobody has, or that a reader has, holds no trace of a person.
LEMMA UnmarkedRows ==
    ASSUME RowInv, ctl = ReadyIdle \/ ctl = Stopped \/ ctl.mode = "automated"
                   \/ ctl.mode = "human_login" \/ ctl.life = "stopped"
    PROVE  ~Marked(ctl)
BY Rows DEF RowInv, OnlyReadyIsTaken, Marked

LEMMA ExecutingStep ==
    ASSUME HandedInv, Executing
    PROVE  HandedInv'
<1> USE DEF HandedInv
<1>0. /\ (Serving => Serving')
      /\ Closes \/ (UNCHANGED handled /\ (running => running'))
    BY DEF Executing, ReadinessEnters, ReadinessStarts, ReadinessMarks, Acquire, Release,
       ExecutorCloses, RecoverBegins, RecoverStops, ReadSeals, Env, Rest,
       RecoverRest, MarkStopped, Others, KeepBrowser, Starts, Serving
<1>1. current' \in {current, {}, {"lock"}, {Executor}, current \cup {"lock"},
                    current \cup {Executor}, current \ {Executor}}
    BY DEF Executing, ReadinessEnters, ReadinessStarts, ReadinessMarks, Acquire, Release,
       ExecutorCloses, RecoverBegins, RecoverStops, ReadSeals, Env, Rest,
       RecoverRest, MarkStopped, Write, LastWrite, KeepRow, Reads
<1>2. Unread
    BY <1>1, ReadersAreNotRoutes DEF Unread
<1>3. \/ UNCHANGED ctl
      \/ ~Marked(ctl) /\ ctl' \in {Stopped, ReadyIdle, Automated(Executor, rd[Executor].w),
                                  Recovering(rd[Executor].w)}
      \/ Closes /\ ctl' = Stopped
    <2>1. CASE ReadinessEnters \/ ReadinessStarts \/ ExecutorCloses \/ ReadSeals
        BY <2>1 DEF ReadinessEnters, ReadinessStarts, ExecutorCloses, ReadSeals, KeepRow,
           Reads
    <2>2. CASE ReadinessMarks
        BY <2>2, UnmarkedRows DEF ReadinessMarks, Write, LastWrite
    <2>3. CASE Acquire
        BY <2>3, UnmarkedRows DEF Acquire, Takes, Write, LastWrite, KeepRow
    <2>4. CASE Release
        BY <2>4, UnmarkedRows DEF Release, Holds, Write, LastWrite, KeepRow
    <2>5. CASE RecoverBegins
        BY <2>5, UnmarkedRows DEF RecoverBegins, Holds, Write, LastWrite, KeepRow
    <2>6. CASE RecoverStops
        BY <2>6 DEF RecoverStops, MarkStopped, Write, LastWrite, KeepRow
    <2> QED BY <2>1, <2>2, <2>3, <2>4, <2>5, <2>6 DEF Executing
<1>4. Sound(ctl')
    BY <1>3, Rows DEF RowInv, OnlyReadyIsTaken, Sound
<1>5. RowInv'
    <2>1. CASE Closes
        BY <1>4, <2>1, ClosingStep
    <2>2. CASE ~Closes
        BY <1>0, <1>2, <1>3, <1>4, <2>2, KeepingStep
    <2> QED BY <2>1, <2>2
<1>6. handled' => handled
    BY <1>0 DEF Closes
<1>7. \/ UNCHANGED lock \/ Leaves \/ Goes("mark")
      \/ \E w : Enter("readiness", "start", w) \/ Enter("recover", "stop", w)
    BY DEF Executing, ReadinessEnters, ReadinessStarts, ReadinessMarks, Acquire, Release,
       ExecutorCloses, RecoverBegins, RecoverStops, ReadSeals, Env, Rest,
       RecoverRest, MarkStopped
<1>8. LockMoves
    <2>1. CASE \E w : Enter("readiness", "start", w) \/ Enter("recover", "stop", w)
        BY <1>6, <2>1, LockEnters DEF LockMoves
    <2>2. CASE Goes("mark")
        BY <1>6, <2>2, LockGoes DEF LockMoves, Rebuilding
    <2> QED BY <1>6, <1>7, <2>1, <2>2, LockLeaves, LockStays DEF LockMoves
<1> QED BY <1>5, <1>8, LockStep

LEMMA ProbingStep ==
    ASSUME HandedInv, Probing
    PROVE  HandedInv'
<1> USE DEF HandedInv
<1>0. /\ UNCHANGED up
      /\ Closes \/ UNCHANGED << running, handled >>
    BY DEF Probing, ProbeEnds, ValidationTakes, ValidationReturns, ProbeBegins,
       ValidationLooks, ValidationStops, Others, Env, Rest, KeepBrowser
<1>1. \/ current' \in {current, {}, {"lock"}}
      \/ \E r \in Readers : current' \in {{r}, current \cup {r}}
    BY DEF Probing, ProbeEnds, ValidationTakes, ValidationReturns, ProbeBegins,
       ValidationLooks, ValidationStops, Write, LastWrite, KeepRow, Reads
<1>2. Unread
    BY <1>1, ReadersAreNotRoutes DEF Unread
<1>3. \/ UNCHANGED ctl
      \/ ~Marked(ctl) /\ \/ ctl' = ReadyIdle
                          \/ \E r \in Readers : \E w : ctl' = Automated(r, w)
      \/ Closes /\ ctl' = Stopped
    <2>1. CASE \E r \in Readers : ProbeEnds(r) \/ ValidationReturns(r)
        BY <2>1, UnmarkedRows DEF ProbeEnds, ValidationReturns, Holds, Write, LastWrite,
           KeepRow
    <2>2. CASE \E r \in Readers : ValidationTakes(r)
        BY <2>2, UnmarkedRows DEF ValidationTakes, Takes, Write, LastWrite, KeepRow
    <2>3. CASE \E r \in Readers, w \in Windows : ProbeBegins(r, w)
        BY <2>3, UnmarkedRows DEF ProbeBegins, Write, LastWrite
    <2>4. CASE \E r \in Readers, w \in Windows : ValidationLooks(r, w)
        BY <2>4 DEF ValidationLooks, Reads
    <2>5. CASE ValidationStops
        BY <2>5 DEF ValidationStops, Write, LastWrite, KeepRow
    <2> QED BY <2>1, <2>2, <2>3, <2>4, <2>5 DEF Probing
<1>4. Sound(ctl')
    BY <1>3, Rows DEF RowInv, OnlyReadyIsTaken, Sound
<1>5. RowInv'
    <2>1. CASE Closes
        BY <1>4, <2>1, ClosingStep
    <2>2. CASE ~Closes
        BY <1>0, <1>2, <1>3, <1>4, <2>2, KeepingStep DEF Serving
    <2> QED BY <2>1, <2>2
<1>6. handled' => handled
    BY <1>0 DEF Closes
<1>7. \/ UNCHANGED lock \/ Leaves
      \/ \E w : Enter("validate", "stop", w) \/ Enter("validate", "close", w)
    <2>1. CASE \E r \in Readers : ValidationReturns(r)
        BY <2>1 DEF ValidationReturns
    <2> QED BY <2>1 DEF Probing, ProbeEnds, ValidationTakes, ProbeBegins, ValidationLooks,
        ValidationStops
<1>8. LockMoves
    <2>1. CASE \E w : Enter("validate", "stop", w) \/ Enter("validate", "close", w)
        BY <1>6, <2>1, LockEnters DEF LockMoves
    <2> QED BY <1>6, <1>7, <2>1, LockLeaves, LockStays DEF LockMoves
<1> QED BY <1>5, <1>8, LockStep

LEMMA ReconcilingStep ==
    ASSUME HandedInv, Reconciling
    PROVE  HandedInv'
<1> USE DEF HandedInv
<1>0. /\ UNCHANGED up
      /\ Closes \/ UNCHANGED << running, handled >>
    BY DEF Reconciling, ReconcilerLooks, ReconcilerSkips, ReconcilerEnters, ReconcilerCloses,
       ReconcilerExpels, ReconcilerRetires, ReconcilerRest, KeepBrowser
<1>1. current' \in {current, {}, {"lock"}, current \cup {"lock"}}
    BY DEF Reconciling, ReconcilerLooks, ReconcilerSkips, ReconcilerEnters, ReconcilerCloses,
       ReconcilerExpels, ReconcilerRetires, MarkStopped, Write, LastWrite, KeepRow, Reads
<1>2. Unread
    BY <1>1 DEF Unread
<1>3. \/ UNCHANGED ctl
      \/ ~Marked(ctl) /\ ctl' = Recovering(latest)
      \/ Closes /\ ctl' = Stopped
    <2>1. CASE ReconcilerEnters
        BY <2>1, UnmarkedRows DEF ReconcilerEnters, Write, LastWrite, Reads
    <2>2. CASE ReconcilerCloses \/ ReconcilerExpels
        BY <2>2 DEF ReconcilerCloses, ReconcilerExpels, MarkStopped, Write, LastWrite, KeepRow
    <2> QED BY <2>1, <2>2 DEF Reconciling, ReconcilerLooks, ReconcilerSkips,
        ReconcilerRetires, KeepRow
<1>4. Sound(ctl')
    BY <1>3, Rows DEF RowInv, OnlyReadyIsTaken, Sound
<1>5. RowInv'
    <2>1. CASE Closes
        BY <1>4, <2>1, ClosingStep
    <2>2. CASE ~Closes
        BY <1>0, <1>2, <1>3, <1>4, <2>2, KeepingStep DEF Serving
    <2> QED BY <2>1, <2>2
<1>6. handled' => handled
    BY <1>0 DEF Closes
<1>7. \/ UNCHANGED lock \/ Leaves \/ Goes("retire")
      \/ \E at : Enter("reconcile", at, latest)
    BY DEF Reconciling, ReconcilerLooks, ReconcilerSkips, ReconcilerEnters, ReconcilerCloses,
       ReconcilerExpels, ReconcilerRetires
<1>8. LockMoves
    <2>1. CASE \E at : Enter("reconcile", at, latest)
        BY <1>6, <2>1, LockEnters DEF LockMoves
    <2>2. CASE Goes("retire")
        BY <1>6, <2>2, LockGoes DEF LockMoves, Rebuilding
    <2> QED BY <1>6, <1>7, <2>1, <2>2, LockLeaves, LockStays DEF LockMoves
<1> QED BY <1>5, <1>8, LockStep

\* The cleanup that hands the browser over is the only one that marks it.
LEMMA HandoffStep ==
    ASSUME HandedInv, HandoffTakes
    PROVE  HandedInv'
<1> USE DEF HandedInv
<1>0. UNCHANGED up /\ Serving
    BY DEF HandoffTakes, CleanupRest, Inside
<1>1. CASE Goes("fail")
    <2>1. UNCHANGED << ctl, current, running, handled >> \/ Leaves
        BY DEF HandoffTakes, KeepRow, KeepBrowser
    <2>2. ~Leaves
        <3>1. lock'.at = "fail"
            BY <1>1, LockGoes
        <3>2. Free.at # "fail"
            BY DEF Free
        <3> QED BY <3>1, <3>2 DEF Leaves
    <2>3. RowInv'
        BY <1>0, <2>1, <2>2, KeepingStep DEF Serving, Unread, RowInv, OnlyReadyIsTaken, Sound
    <2> QED BY <1>1, <2>1, <2>2, <2>3, LockGoes, LockStep DEF LockMoves, Rebuilding
<1>2. CASE ~Goes("fail")
    <2>1. /\ ctl' = Human("human_handoff", lock.w) /\ current' = {}
          /\ running' /\ Leaves
        BY <1>2 DEF HandoffTakes, Write, LastWrite
    <2>2. RowInv'
        BY <1>0, <2>1, Rows DEF RowInv, HandedIsMarked, MissingIsClean, OnlyReadyIsTaken,
           Serving
    <2>3. lock' = Free
        BY <2>1 DEF Leaves
    <2> QED BY <2>1, <2>2, <2>3, LockLeaves, LockStep DEF LockMoves
<1> QED BY <1>1, <1>2

LEMMA CleaningStep ==
    ASSUME HandedInv, Cleaning
    PROVE  HandedInv'
<1> USE DEF HandedInv
<1> SUFFICES ASSUME ~HandoffTakes PROVE HandedInv'
    BY HandoffStep
<1>0. /\ UNCHANGED up
      /\ Closes \/ UNCHANGED << running, handled >>
    BY DEF Cleaning, CleanupRetires, CleanupEnters, CleanupPasses, HandoffEnters,
       CleanupStops, HandoffFails, CleanupRest, KeepBrowser
<1>1. current' \in {current, {}, {"lock"}, current \cup {"lock"}}
    BY DEF Cleaning, CleanupRetires, CleanupEnters, CleanupPasses, HandoffEnters,
       CleanupStops, HandoffFails, MarkStopped, Write, LastWrite, KeepRow, Reads
<1>2. Unread
    BY <1>1 DEF Unread
<1>3. \/ UNCHANGED ctl
      \/ ~Marked(ctl) /\ \E w \in Windows : ctl' = Recovering(w)
      \/ Closes /\ ctl' = Stopped
    <2>1. CASE \E w \in Windows : CleanupEnters(w) \/ CleanupPasses(w) \/ HandoffEnters(w)
        BY <2>1, UnmarkedRows DEF CleanupEnters, CleanupPasses, HandoffEnters, Own, Write,
           LastWrite, KeepRow, Reads
    <2>2. CASE CleanupStops
        <3>1. CASE lock.at = "human" /\ ~Fresh
            BY <2>2, <3>1 DEF CleanupStops, Inside, KeepRow
        <3>2. CASE ~(lock.at = "human" /\ ~Fresh)
            BY <2>2, <3>2 DEF CleanupStops, MarkStopped, Write, LastWrite, KeepRow
        <3> QED BY <3>1, <3>2
    <2>3. CASE HandoffFails
        BY <2>3 DEF HandoffFails, Write, LastWrite, KeepRow
    <2>4. CASE \E w \in Windows : CleanupRetires(w)
        BY <2>4 DEF CleanupRetires, KeepRow
    <2> QED BY <2>1, <2>2, <2>3, <2>4 DEF Cleaning
<1>4. Sound(ctl')
    BY <1>3, Rows DEF RowInv, OnlyReadyIsTaken, Sound
<1>5. RowInv'
    <2>1. CASE Closes
        BY <1>4, <2>1, ClosingStep
    <2>2. CASE ~Closes
        BY <1>0, <1>2, <1>3, <1>4, <2>2, KeepingStep DEF Serving
    <2> QED BY <2>1, <2>2
<1>6. handled' => handled
    BY <1>0 DEF Closes
<1>7. \/ UNCHANGED lock \/ Leaves
      \/ \E at, w : Enter("clean", at, w)
    BY DEF Cleaning, CleanupRetires, CleanupEnters, CleanupPasses, HandoffEnters,
       CleanupStops, HandoffFails
<1>8. LockMoves
    <2>1. CASE \E at, w : Enter("clean", at, w)
        BY <1>6, <2>1, LockEnters DEF LockMoves
    <2> QED BY <1>6, <1>7, <2>1, LockLeaves, LockStays DEF LockMoves
<1> QED BY <1>5, <1>8, LockStep

\* The end of a process closes its browser, and the next one has none yet.
LEMMA LivesStep ==
    ASSUME HandedInv, Crash \/ Exit \/ Boot
    PROVE  HandedInv'
<1> USE DEF HandedInv
<1>1. CASE Crash \/ Exit
    <2>1. Closes /\ ctl' \in {ctl, Stopped} /\ lock' = Free
        BY <1>1 DEF Crash, Exit, Gone
    <2>2. Sound(ctl')
        BY <2>1, Rows DEF RowInv, OnlyReadyIsTaken, Sound
    <2>3. RowInv'
        BY <2>1, <2>2, ClosingStep
    <2>4. Leaves
        BY <2>1 DEF Leaves
    <2>5. handled' => handled
        BY <2>1 DEF Closes
    <2> QED BY <2>3, <2>4, <2>5, LockLeaves, LockStep DEF LockMoves
<1>2. CASE Boot
    <2>1. UNCHANGED << current, running, handled, lock >> /\ ~Serving
        BY <1>2 DEF Boot, Serving
    <2>2. ~handled
        BY <2>1 DEF RowInv, HandedIsMarked
    <2>3. Sound(BootRow(ctl))
        BY Rows DEF BootRow, RowInv, OnlyReadyIsTaken, Sound
    <2>4. ctl' = BootRow(ctl)
        BY <1>2 DEF Boot
    <2>5. RowInv'
        BY <2>1, <2>2, <2>3, <2>4, KeepingStep DEF Unread
    <2> QED BY <2>1, <2>5, LockStays, LockStep DEF LockMoves
<1> QED BY <1>1, <1>2

-------------------------------------------------------------------------------
(* The theorem. *)

LEMMA NextHanded == HandedInv /\ [Next]_vars => HandedInv'
<1> SUFFICES ASSUME HandedInv, [Next]_vars PROVE HandedInv'
    OBVIOUS
<1>1. CASE UNCHANGED vars
    BY <1>1 DEF vars, HandedInv, RowInv, LockInv, Rebuilding, HandedIsMarked, MissingIsClean,
       OnlyReadyIsTaken, Serving
<1>2. CASE Next
    BY <1>2, EnvironmentStep, PersonStep, HandlersStep, ExecutingStep, ProbingStep,
       ReconcilingStep, CleaningStep, LivesStep DEF Next
<1> QED BY <1>1, <1>2

\* For any number of windows, readers and lives of the process: nothing reads with
\* a browser that a person has had in hand since it was started, whichever of the
\* handlers, the executor, the cleanup, the reconciler, the session route or a new
\* start has closed, rebuilt or released it in between.
THEOREM BrowserRebuilt == Spec => []RebuiltAfterPerson
<1>1. HandedInv => RebuiltAfterPerson
    BY DEF HandedInv, RowInv, HandedIsMarked, OnlyReadyIsTaken, RebuiltAfterPerson
<1> QED BY <1>1, InitHanded, NextHanded, PTL DEF Spec

-------------------------------------------------------------------------------
(* Automated control and its reader. *)

HolderKnown ==
    ctl.mode = "automated" =>
        ctl.by \in Readers \/ (ctl.by = None /\ kind[ctl.job] = "shadow")

\* Inside the lock, the executor waits for the handler that works for it, and what it
\* recovers is not its own any more.
ExecutorWaits ==
    /\ lock.by = "readiness" /\ lock.w # None => rd[Executor].at = "wait"
    /\ lock.by = "recover" => /\ rd[Executor].at = "recover"
                              /\ ~(ctl.mode = "automated" /\ ctl.by = Executor)

LockIsRecord == lock = [by |-> lock.by, at |-> lock.at, w |-> lock.w]

ReaderInv ==
    /\ rd = [r \in Readers |-> rd[r]]
    /\ LockIsRecord
    /\ HolderKnown
    /\ HolderReads
    /\ ExecutorWaits

LEMMA InitReader == Init => ReaderInv
<1> SUFFICES ASSUME Init PROVE ReaderInv
    OBVIOUS
<1>1. ctl.mode = "idle"
    BY Rows DEF Init
<1>2. lock.by = "free" /\ LockIsRecord
    BY DEF Init, LockIsRecord, Free
<1>3. rd = [r \in Readers |-> rd[r]]
    BY DEF Init
<1> QED BY <1>1, <1>2, <1>3 DEF ReaderInv, HolderKnown, HolderReads, ExecutorWaits

\* A step that leaves the two handlers that serve the executor alone.
LockQuiet ==
    /\ LockIsRecord'
    /\ lock'.by \in {"readiness", "recover"} => lock'.by = lock.by /\ lock'.w = lock.w

LEMMA FreeIsQuiet == ASSUME lock' = Free PROVE LockQuiet
<1>1. /\ Free.by \notin {"readiness", "recover"}
      /\ Free = [by |-> Free.by, at |-> Free.at, w |-> Free.w]
    BY DEF Free
<1> QED BY <1>1 DEF LockQuiet, LockIsRecord

LEMMA EnteredIsQuiet ==
    ASSUME NEW h, NEW at, NEW w, Enter(h, at, w), h \notin {"readiness", "recover"}
    PROVE  LockQuiet
BY DEF Enter, LockQuiet, LockIsRecord

LEMMA GoneOnIsQuiet ==
    ASSUME LockIsRecord, NEW at, Goes(at)
    PROVE  LockQuiet
<1>1. lock' = [by |-> lock.by, at |-> at, w |-> lock.w]
    BY DEF LockIsRecord, Goes
<1> QED BY <1>1 DEF LockQuiet, LockIsRecord

LEMMA NoneIsNoReader == None \notin Readers
BY SessionAssumption

\* A step of somebody else: no reader moves, and control is nobody's new.
LEMMA OthersStep ==
    ASSUME ReaderInv, UNCHANGED << rd, kind >>, Serving' => Serving, LockQuiet,
           ctl' = ctl \/ ctl'.mode # "automated"
    PROVE  ReaderInv'
<1>1. HolderKnown'
    BY DEF ReaderInv, HolderKnown
<1>2. HolderReads'
    BY DEF ReaderInv, HolderReads
<1>3. ExecutorWaits'
    BY DEF ReaderInv, ExecutorWaits, LockQuiet
<1> QED BY <1>1, <1>2, <1>3 DEF ReaderInv, LockQuiet

LEMMA EnvironmentKeepsReader ==
    ASSUME ReaderInv,
           \/ \E w \in Windows : \/ Issue(w) \/ Connect(w) \/ BusinessRead(w)
                                \/ Expires(w) \/ JobEnds(w)
           \/ BrowserDies \/ SessionLooks \/ SessionStops \/ SessionCloses \/ ReadSeals
    PROVE  ReaderInv'
<1>1. UNCHANGED << rd, kind, lock, up >>
    BY DEF Issue, Connect, BusinessRead, IssueRest, Expires, JobEnds, BrowserDies,
       SessionLooks, SessionStops, SessionCloses, ReadSeals, Env, Rest
<1>2. ctl' \in {ctl, Stopped}
    BY DEF Issue, Connect, BusinessRead, IssueRest, Expires, JobEnds, BrowserDies,
       SessionLooks, SessionStops, SessionCloses, ReadSeals, LastWrite, KeepRow, Reads,
       Env, Rest
<1>3. LockQuiet
    BY <1>1 DEF LockQuiet, LockIsRecord, ReaderInv
<1> QED BY <1>1, <1>2, <1>3, Rows, OthersStep DEF Serving

LEMMA PersonKeepsReader ==
    ASSUME ReaderInv, Person
    PROVE  ReaderInv'
<1> PICK w \in Windows : LoginEnters(w) \/ DiscoveryStarts(w) \/ LoginReturns(w)
                          \/ CloseEnters(w) \/ DisconnectEnters(w) \/ RebuildEnters(w)
    BY DEF Person
<1>1. UNCHANGED << rd, kind, up >>
    BY DEF LoginEnters, DiscoveryStarts, LoginReturns, CloseEnters, DisconnectEnters,
       RebuildEnters, Env, Rest
<1>2. \/ ctl' \in {ctl, Stopped, ReadyIdle, Human("human_handoff", w)}
      \/ ctl' = Returned(ctl.mode)
    BY DEF LoginEnters, DiscoveryStarts, LoginReturns, CloseEnters, DisconnectEnters,
       RebuildEnters, Write, LastWrite, Reads
<1>3. \A mode : Returned(mode).mode = "idle"
    BY Rows DEF Returned
<1>4. ctl' = ctl \/ ctl'.mode # "automated"
    BY <1>2, <1>3, Rows
<1>5. \/ UNCHANGED lock
      \/ \E h \in {"login", "close", "disconnect", "rebuild"} : \E at : Enter(h, at, w)
    BY DEF LoginEnters, DiscoveryStarts, LoginReturns, CloseEnters, DisconnectEnters,
       RebuildEnters, Env, Rest
<1>6. LockQuiet
    <2>1. CASE UNCHANGED lock
        BY <2>1 DEF LockQuiet, LockIsRecord, ReaderInv
    <2>2. CASE \E h \in {"login", "close", "disconnect", "rebuild"} : \E at : Enter(h, at, w)
        BY <2>2, EnteredIsQuiet
    <2> QED BY <1>5, <2>1, <2>2
<1> QED BY <1>1, <1>4, <1>6, OthersStep DEF Serving

LEMMA HandlersKeepReader ==
    ASSUME ReaderInv, Handlers
    PROVE  ReaderInv'
<1>1. UNCHANGED << rd, kind, up >>
    BY DEF Handlers, LoginStarts, LoginTakes, CloseConsumes, CloseStops, DisconnectStops,
       RebuildStops, RebuildStarts, Env, Rest
<1>2. ctl' \in {ctl, Stopped, ReadyIdle, Human("human_login", lock.w)}
    BY DEF Handlers, LoginStarts, LoginTakes, CloseConsumes, CloseStops, DisconnectStops,
       RebuildStops, RebuildStarts, Write, LastWrite, KeepRow
<1>3. \/ lock' = Free \/ Goes("take") \/ Goes("stop") \/ Goes("start")
    BY DEF Handlers, LoginStarts, LoginTakes, CloseConsumes, CloseStops, DisconnectStops,
       RebuildStops, RebuildStarts, Leaves
<1>4. LockQuiet
    BY <1>3, FreeIsQuiet, GoneOnIsQuiet DEF ReaderInv
<1> QED BY <1>1, <1>2, <1>4, Rows, OthersStep DEF Serving

LEMMA ReconcilerKeepsReader ==
    ASSUME ReaderInv, Reconciling
    PROVE  ReaderInv'
<1>1. UNCHANGED << rd, kind, up >>
    BY DEF Reconciling, ReconcilerLooks, ReconcilerSkips, ReconcilerEnters, ReconcilerCloses,
       ReconcilerExpels, ReconcilerRetires, ReconcilerRest
<1>2. ctl' \in {ctl, Stopped, Recovering(latest)}
    BY DEF Reconciling, ReconcilerLooks, ReconcilerSkips, ReconcilerEnters, ReconcilerCloses,
       ReconcilerExpels, ReconcilerRetires, MarkStopped, Write, LastWrite, KeepRow, Reads
<1>3. \/ UNCHANGED lock \/ lock' = Free \/ Goes("retire")
      \/ \E at : Enter("reconcile", at, latest)
    BY DEF Reconciling, ReconcilerLooks, ReconcilerSkips, ReconcilerEnters, ReconcilerCloses,
       ReconcilerExpels, ReconcilerRetires, Leaves
<1>4. LockQuiet
    <2>1. CASE UNCHANGED lock
        BY <2>1 DEF LockQuiet, LockIsRecord, ReaderInv
    <2>2. CASE \E at : Enter("reconcile", at, latest)
        BY <2>2, EnteredIsQuiet
    <2> QED BY <1>3, <2>1, <2>2, FreeIsQuiet, GoneOnIsQuiet DEF ReaderInv
<1> QED BY <1>1, <1>2, <1>4, Rows, OthersStep DEF Serving

LEMMA CleanupKeepsReader ==
    ASSUME ReaderInv, Cleaning
    PROVE  ReaderInv'
<1>1. UNCHANGED << rd, kind, up >>
    BY DEF Cleaning, CleanupRetires, CleanupEnters, CleanupPasses, HandoffEnters,
       CleanupStops, HandoffTakes, HandoffFails, CleanupRest
<1>2. \/ ctl' \in {ctl, Stopped, Human("human_handoff", lock.w)}
      \/ \E w \in Windows : ctl' = Recovering(w)
    BY DEF Cleaning, CleanupRetires, CleanupEnters, CleanupPasses, HandoffEnters,
       CleanupStops, HandoffTakes, HandoffFails, MarkStopped, Write, LastWrite, KeepRow, Reads
<1>3. \/ UNCHANGED lock \/ lock' = Free \/ Goes("fail")
      \/ \E at, w : Enter("clean", at, w)
    BY DEF Cleaning, CleanupRetires, CleanupEnters, CleanupPasses, HandoffEnters,
       CleanupStops, HandoffTakes, HandoffFails, Leaves
<1>4. LockQuiet
    <2>1. CASE UNCHANGED lock
        BY <2>1 DEF LockQuiet, LockIsRecord, ReaderInv
    <2>2. CASE \E at, w : Enter("clean", at, w)
        BY <2>2, EnteredIsQuiet
    <2> QED BY <1>3, <2>1, <2>2, FreeIsQuiet, GoneOnIsQuiet DEF ReaderInv
<1> QED BY <1>1, <1>2, <1>4, Rows, OthersStep DEF Serving

\* A reader's own step, as long as the lock serves the executor as before.
LEMMA OneReader ==
    ASSUME ReaderInv, NEW r \in Readers, NEW x, rd' = [rd EXCEPT ![r] = x], UNCHANGED kind,
           Serving, Serving',
           LockQuiet, lock'.by = "readiness" => r # Executor \/ lock'.w = None,
           lock'.by = "recover" => r # Executor,
           \/ ctl' = ctl /\ ~(ctl.mode = "automated" /\ ctl.by = r)
           \/ ctl'.mode # "automated"
           \/ /\ ctl' = Automated(r, x.w) \/ ctl' = ctl
              /\ x.at \in {"reading", "recover", "validating"}
              /\ x.w = ctl'.job
              /\ lock'.by = "recover" => r # Executor
    PROVE  ReaderInv'
<1>1. /\ rd' = [q \in Readers |-> rd'[q]]
      /\ \A q \in Readers : rd'[q] = IF q = r THEN x ELSE rd[q]
    BY DEF ReaderInv
<1>2. Automated(r, x.w).by = r
    BY DEF Automated
<1>3. HolderKnown'
    BY <1>2 DEF ReaderInv, HolderKnown
<1>4. HolderReads'
    <2> SUFFICES ASSUME ctl'.mode = "automated"
                 PROVE  \/ /\ ctl'.by \in Readers
                           /\ rd'[ctl'.by].at \in {"reading", "recover", "validating"}
                           /\ rd'[ctl'.by].w = ctl'.job
                        \/ ctl'.by = None /\ kind'[ctl'.job] = "shadow"
        BY DEF HolderReads
    <2>1. CASE ctl'.by = r
        BY <1>1, <2>1, NoneIsNoReader
    <2>2. CASE ctl'.by # r
        <3>1. ctl' = ctl
            BY <1>2, <2>2
        <3> QED BY <1>1, <2>2, <3>1 DEF ReaderInv, HolderReads
    <2> QED BY <2>1, <2>2
<1>5. ExecutorWaits'
    <2>1. Executor \in Readers
        BY SessionAssumption
    <2>2. lock'.by \in {"readiness", "recover"} /\ (lock'.by = "recover" \/ lock'.w # None)
             => rd'[Executor] = rd[Executor]
        BY <1>1, <2>1
    <2>3. lock'.by = "recover" => ~(ctl'.mode = "automated" /\ ctl'.by = Executor)
        BY <1>2 DEF ReaderInv, ExecutorWaits, LockQuiet
    <2> QED BY <2>2, <2>3 DEF ReaderInv, ExecutorWaits, LockQuiet
<1> QED BY <1>1, <1>3, <1>4, <1>5 DEF ReaderInv, LockQuiet

LEMMA ExecutorIsReader == Executor \in Readers
BY SessionAssumption

\* What the executor does tells what it may hold and who is in the lock.
LEMMA ExecutorFree ==
    ASSUME ReaderInv, Serving
    PROVE  /\ rd[Executor].at \notin {"reading", "recover", "validating"}
                => ~(ctl.mode = "automated" /\ ctl.by = Executor)
           /\ ctl.mode = "automated" /\ ctl.by = Executor => Holds(Executor)
           /\ rd[Executor].at # "wait" /\ lock.by = "readiness" => lock.w = None
           /\ rd[Executor].at # "recover" => lock.by # "recover"
BY NoneIsNoReader, ExecutorIsReader DEF ReaderInv, HolderReads, ExecutorWaits, Holds

LEMMA LockKept ==
    ASSUME ReaderInv, UNCHANGED lock
    PROVE  LockQuiet
BY DEF ReaderInv, LockQuiet, LockIsRecord

LEMMA ReadBeginsKeepsReader ==
    ASSUME ReaderInv, NEW w \in Windows, ReadBegins(w)
    PROVE  ReaderInv'
<1> DEFINE x == [at |-> IF Operational(w) THEN "ready?" ELSE "take", w |-> w]
<1>1. /\ rd[Executor].at = "no" /\ Serving /\ Serving'
      /\ UNCHANGED << kind, lock, ctl >> /\ rd' = [rd EXCEPT ![Executor] = x]
    BY DEF ReadBegins, Serving, KeepRow, Reads, Reader, Others
<1> HIDE DEF x
<1>2. ~(ctl.mode = "automated" /\ ctl.by = Executor)
    BY <1>1, ExecutorFree
<1>3. (lock'.by = "readiness" => lock'.w = None) /\ lock'.by # "recover"
    BY <1>1, ExecutorFree
<1> QED BY <1>1, <1>2, <1>3, ExecutorIsReader, LockKept, OneReader

LEMMA ReadinessKeepsReader ==
    ASSUME ReaderInv, ReadinessEnters
    PROVE  ReaderInv'
<1>1. UNCHANGED << kind, ctl >> /\ Serving' /\ lock = Free
    BY DEF ReadinessEnters, KeepRow, Reads, Serving, Others
<1>2. CASE UNCHANGED << rd, lock >>
    <2>1. Serving
        BY <1>1, <1>2 DEF ReadinessEnters, Enter
    <2> QED BY <1>1, <1>2, <2>1, LockKept, OthersStep
<1>3. CASE UNCHANGED lock /\ Quits(Executor)
    <2>1. Serving
        BY <1>1, <1>3 DEF ReadinessEnters, Enter
    <2>2. lock'.by \notin {"readiness", "recover"}
        <3>1. Free.by \notin {"readiness", "recover"}
            BY DEF Free
        <3> QED BY <1>1, <1>3, <3>1
    <2>3. CASE rd[Executor].at = "ready?"
        <3>1. ~(ctl.mode = "automated" /\ ctl.by = Executor)
            BY <2>1, <2>3, ExecutorFree
        <3> QED BY <1>1, <1>3, <2>1, <2>2, <3>1, ExecutorIsReader, LockKept, OneReader DEF
            Quits
    <2>4. CASE rd[Executor].at # "ready?"
        <3>1. UNCHANGED rd
            BY <2>4 DEF ReadinessEnters
        <3> QED BY <1>1, <1>2, <1>3, <3>1
    <2> QED BY <2>3, <2>4
<1> DEFINE Begins(w) ==
             /\ Enter("readiness", "start", w)
             /\ \/ w = None /\ UNCHANGED rd
                \/ rd[Executor].at = "ready?" /\ Reader(Executor, "wait", w)
<1>4. CASE \E w : Begins(w)
    <2> PICK w : Begins(w)
        BY <1>4
    <2>1. /\ Serving /\ LockIsRecord' /\ lock'.by = "readiness" /\ lock'.w = w
        BY DEF Enter, LockIsRecord
    <2>2. /\ rd' = [q \in Readers |-> rd'[q]]
          /\ \A q \in Readers \ {Executor} : rd'[q] = rd[q]
          /\ w = None \/ rd'[Executor].at = "wait"
        BY ExecutorIsReader DEF ReaderInv, Reader
    <2>3. HolderKnown'
        BY <1>1 DEF ReaderInv, HolderKnown
    <2>4. HolderReads'
        <3>1. CASE UNCHANGED rd
            BY <1>1, <2>1, <3>1 DEF ReaderInv, HolderReads
        <3>2. CASE rd[Executor].at = "ready?"
            <4>1. ~(ctl.mode = "automated" /\ ctl.by = Executor)
                BY <2>1, <3>2, ExecutorFree
            <4> QED BY <1>1, <2>1, <2>2, <4>1 DEF ReaderInv, HolderReads, HolderKnown
        <3> QED BY <3>1, <3>2
    <2>5. ExecutorWaits'
        BY <2>1, <2>2 DEF ExecutorWaits, Reader
    <2> QED BY <2>1, <2>2, <2>3, <2>4, <2>5 DEF ReaderInv
<1>5. CASE up = "starting"
    <2>1. UNCHANGED << rd, lock >> \/ Begins(None)
        BY <1>5 DEF ReadinessEnters
    <2> QED BY <1>2, <1>4, <2>1
<1>6. CASE up # "starting"
    <2>1. \/ UNCHANGED lock /\ Quits(Executor)
          \/ Begins(rd[Executor].w)
        BY <1>6 DEF ReadinessEnters
    <2> QED BY <1>3, <1>4, <2>1
<1> QED BY <1>5, <1>6

\* A step that ends what the executor does, without the lock or at its end.
LEMMA ExecutorQuits ==
    ASSUME ReaderInv, Quits(Executor), Serving, Serving',
           UNCHANGED kind, ~(ctl.mode = "automated" /\ ctl.by = Executor),
           ctl' = ctl \/ ctl'.mode # "automated",
           \/ lock' = Free
           \/ UNCHANGED lock /\ rd[Executor].at \notin {"wait", "recover"}
    PROVE  ReaderInv'
<1>1. LockQuiet
    BY FreeIsQuiet, LockKept
<1>2. Free.by \notin {"readiness", "recover"}
    BY DEF Free
<1>3. (lock'.by = "readiness" => lock'.w = None) /\ lock'.by # "recover"
    BY <1>2, ExecutorFree
<1> QED BY <1>1, <1>3, ExecutorIsReader, OneReader DEF Quits

LEMMA ReadinessServed ==
    ASSUME ReaderInv, ReadinessStarts \/ ReadinessMarks
    PROVE  ReaderInv'
<1>0. Serving /\ Serving' /\ lock.by = "readiness" /\ UNCHANGED kind
    BY DEF ReadinessStarts, ReadinessMarks, Inside, Serving, Others
<1>1. lock.w # None => ~(ctl.mode = "automated" /\ ctl.by = Executor)
    <2>1. lock.w # None => rd[Executor].at = "wait"
        BY <1>0 DEF ReaderInv, ExecutorWaits
    <2> QED BY <1>0, <2>1, ExecutorFree
<1>2. ctl' \in {ctl, ReadyIdle}
    BY DEF ReadinessStarts, ReadinessMarks, KeepRow, Write, LastWrite
<1>3. ctl' = ctl \/ ctl'.mode # "automated"
    BY <1>2, Rows
<1>4. CASE UNCHANGED rd
    <2>1. lock' = Free \/ Goes("mark")
        BY DEF ReadinessStarts, ReadinessMarks, Leaves
    <2>2. LockQuiet
        BY <2>1, FreeIsQuiet, GoneOnIsQuiet DEF ReaderInv
    <2> QED BY <1>0, <1>3, <1>4, <2>2, OthersStep
<1>5. CASE lock.w # None /\ lock' = Free /\ Quits(Executor)
    BY <1>0, <1>1, <1>3, <1>5, ExecutorQuits
<1>6. CASE lock.w # None /\ lock' = Free /\ Reader(Executor, "take", lock.w)
    <2>1. lock'.by \notin {"readiness", "recover"}
        <3>1. Free.by \notin {"readiness", "recover"}
            BY DEF Free
        <3> QED BY <1>6, <3>1
    <2> QED BY <1>0, <1>1, <1>3, <1>6, <2>1, FreeIsQuiet, ExecutorIsReader, OneReader
        DEF Reader
<1> QED BY <1>4, <1>5, <1>6 DEF ReadinessStarts, ReadinessMarks, Leaves

LEMMA AcquireKeepsReader ==
    ASSUME ReaderInv, Acquire
    PROVE  ReaderInv'
<1> DEFINE x == [at |-> "reading", w |-> rd[Executor].w]
<1>1. /\ Serving /\ Serving' /\ rd[Executor].at = "take" /\ UNCHANGED << kind, lock >>
      /\ \/ ctl' = Automated(Executor, x.w) /\ rd' = [rd EXCEPT ![Executor] = x]
         \/ UNCHANGED ctl /\ Quits(Executor)
    BY DEF Acquire, Serving, LastWrite, KeepRow, Reader, Others
<1>2. ~(ctl.mode = "automated" /\ ctl.by = Executor)
    BY <1>1, ExecutorFree
<1>3. CASE Quits(Executor)
    <2>1. ctl' = ctl \/ rd' = [rd EXCEPT ![Executor] = x]
        BY <1>1
    <2>2. rd'[Executor] = NoRead
        BY <1>3, ExecutorIsReader DEF Quits, ReaderInv
    <2>3. NoRead # x
        BY DEF NoRead
    <2>4. ctl' = ctl
        BY <2>1, <2>2, <2>3, ExecutorIsReader DEF ReaderInv
    <2> QED BY <1>1, <1>2, <1>3, <2>4, ExecutorQuits
<1>4. CASE ctl' = Automated(Executor, x.w) /\ rd' = [rd EXCEPT ![Executor] = x]
    <2>1. ctl'.job = x.w
        BY <1>4 DEF Automated
    <2>2. x.at \in {"reading", "recover", "validating"}
        OBVIOUS
    <2>3. (lock'.by = "readiness" => lock'.w = None) /\ lock'.by # "recover"
        BY <1>1, ExecutorFree
    <2> HIDE DEF x
    <2> QED BY <1>1, <1>4, <2>1, <2>2, <2>3, ExecutorIsReader, LockKept, OneReader
<1> QED BY <1>1, <1>3, <1>4

LEMMA ReleaseKeepsReader ==
    ASSUME ReaderInv, Release
    PROVE  ReaderInv'
<1>1. Serving /\ Serving' /\ rd[Executor].at = "reading" /\ UNCHANGED << kind, lock >>
    BY DEF Release, Serving, Others
<1>2. (lock'.by = "readiness" => lock'.w = None) /\ lock'.by # "recover"
    BY <1>1, ExecutorFree
<1>3. CASE ctl' = ReadyIdle
    <2>1. PICK x : rd' = [rd EXCEPT ![Executor] = x]
        BY DEF Release, Reader, Quits
    <2>2. ctl'.mode # "automated"
        BY <1>3, Rows
    <2> QED BY <1>1, <1>2, <2>1, <2>2, ExecutorIsReader, LockKept, OneReader
<1>4. CASE UNCHANGED ctl /\ Reader(Executor, "recover", rd[Executor].w)
    <2> DEFINE x == [at |-> "recover", w |-> rd[Executor].w]
    <2>1. rd' = [rd EXCEPT ![Executor] = x] /\ x.at = "recover" /\ x.w = rd[Executor].w
        BY <1>4 DEF Reader
    <2> HIDE DEF x
    <2>2. CASE ctl.mode = "automated" /\ ctl.by = Executor
        <3>1. x.w = ctl'.job
            BY <1>1, <1>4, <2>1, <2>2, ExecutorFree DEF Holds
        <3> QED BY <1>1, <1>2, <1>4, <2>1, <3>1, ExecutorIsReader, LockKept, OneReader
    <2>3. CASE ~(ctl.mode = "automated" /\ ctl.by = Executor)
        BY <1>1, <1>2, <1>4, <2>1, <2>3, ExecutorIsReader, LockKept, OneReader
    <2> QED BY <2>2, <2>3
<1> QED BY <1>3, <1>4 DEF Release, Write, LastWrite, KeepRow

LEMMA RecoveryKeepsReader ==
    ASSUME ReaderInv, ExecutorCloses \/ RecoverBegins \/ RecoverStops
    PROVE  ReaderInv'
<1>0. Serving /\ Serving' /\ UNCHANGED kind
    BY DEF ExecutorCloses, RecoverBegins, RecoverStops, Inside, Serving, Others, RecoverRest
<1>1. CASE ExecutorCloses
    <2>1. UNCHANGED << ctl, lock >> /\ Quits(Executor) /\ rd[Executor].at = "closing"
        BY <1>1 DEF ExecutorCloses, KeepRow
    <2>2. ~(ctl.mode = "automated" /\ ctl.by = Executor)
        BY <1>0, <2>1, ExecutorFree
    <2> QED BY <1>0, <2>1, <2>2, ExecutorQuits
<1>2. CASE RecoverBegins /\ ~Holds(Executor)
    <2>1. UNCHANGED ctl /\ Quits(Executor) /\ lock' = Free
        BY <1>2 DEF RecoverBegins, KeepRow
    <2>2. ~(ctl.mode = "automated" /\ ctl.by = Executor)
        BY <1>0, <1>2, ExecutorFree
    <2> QED BY <1>0, <2>1, <2>2, ExecutorQuits
<1>3. CASE RecoverBegins /\ Holds(Executor)
    <2>1. /\ Enter("recover", "stop", rd[Executor].w) /\ UNCHANGED rd
          /\ ctl' = Recovering(rd[Executor].w) /\ rd[Executor].at = "recover"
        BY <1>3 DEF RecoverBegins, Write, LastWrite
    <2>2. LockIsRecord' /\ lock'.by = "recover" /\ ctl'.mode = "idle"
        BY <2>1, Rows DEF Enter, LockIsRecord
    <2> QED BY <1>0, <2>1, <2>2 DEF ReaderInv, HolderKnown, HolderReads, ExecutorWaits
<1>4. CASE RecoverStops
    <2>1. Quits(Executor) /\ lock' = Free /\ lock.by = "recover" /\ ctl' \in {ctl, Stopped}
        BY <1>4 DEF RecoverStops, MarkStopped, Leaves, Inside, Write, LastWrite, KeepRow
    <2>2. ~(ctl.mode = "automated" /\ ctl.by = Executor)
        BY <2>1 DEF ReaderInv, ExecutorWaits
    <2> QED BY <1>0, <2>1, <2>2, Rows, ExecutorQuits
<1> QED BY <1>1, <1>2, <1>3, <1>4

LEMMA ProbingKeepsReader ==
    ASSUME ReaderInv, Probing
    PROVE  ReaderInv'
<1>1. ASSUME NEW r \in Readers, Serving
      PROVE  ctl.mode = "automated" /\ ctl.by = r
                => Holds(r) /\ rd[r].at \in {"reading", "recover", "validating"}
    BY <1>1, NoneIsNoReader DEF ReaderInv, HolderReads, Holds
<1>0. UNCHANGED kind
    BY DEF Probing, ProbeEnds, ValidationTakes, ValidationReturns, ProbeBegins,
       ValidationLooks, ValidationStops, Others, Env, Rest
<1>2. ASSUME NEW r \in Readers, ProbeEnds(r)
      PROVE  ReaderInv'
    <2>1. Serving /\ Serving' /\ r # Executor /\ UNCHANGED lock /\ Quits(r)
        BY <1>2 DEF ProbeEnds, Serving
    <2>2. CASE Holds(r)
        <3>1. ctl'.mode # "automated"
            BY <1>2, <2>2, Rows DEF ProbeEnds, Write, LastWrite
        <3> QED BY <1>0, <2>1, <3>1, LockKept, OneReader DEF Quits
    <2>3. CASE ~Holds(r)
        <3>1. ctl' = ctl
            BY <1>2, <2>3 DEF ProbeEnds, KeepRow
        <3> QED BY <1>0, <1>1, <2>1, <2>3, <3>1, LockKept, OneReader DEF Quits
    <2> QED BY <2>2, <2>3
<1>3. ASSUME NEW r \in Readers, ValidationTakes(r)
      PROVE  ReaderInv'
    <2> DEFINE x == [at |-> "validating", w |-> rd[r].w]
    <2>1. /\ Serving /\ Serving' /\ r # Executor /\ UNCHANGED lock /\ rd[r].at = "take"
          /\ x.at = "validating" /\ x.w = rd[r].w
        BY <1>3 DEF ValidationTakes, Serving
    <2>2. CASE Takes(r)
        <3>1. ctl' = Automated(r, x.w) /\ rd' = [rd EXCEPT ![r] = x]
            BY <1>3, <2>2 DEF ValidationTakes, Write, LastWrite, Reader
        <3>2. ctl'.job = x.w
            BY <3>1 DEF Automated
        <3> HIDE DEF x
        <3> QED BY <1>0, <2>1, <3>1, <3>2, LockKept, OneReader
    <2>3. CASE ~Takes(r)
        <3>1. ctl' = ctl /\ Quits(r)
            BY <1>3, <2>3 DEF ValidationTakes, KeepRow
        <3> QED BY <1>0, <1>1, <2>1, <3>1, LockKept, OneReader DEF Quits
    <2> QED BY <2>2, <2>3
<1>4. ASSUME NEW r \in Readers, ValidationReturns(r)
      PROVE  ReaderInv'
    <2>1. Serving /\ Serving' /\ Quits(r)
        BY <1>4 DEF ValidationReturns, Serving
    <2>2. LockQuiet /\ lock'.by = "validate"
        BY <1>4, EnteredIsQuiet DEF ValidationReturns, Enter
    <2>3. (ctl' = ctl /\ ~Holds(r)) \/ ctl'.mode # "automated"
        BY <1>4, Rows DEF ValidationReturns, Write, LastWrite, KeepRow
    <2> QED BY <1>0, <1>1, <2>1, <2>2, <2>3, OneReader DEF Quits
<1>5. ASSUME NEW r \in Readers, NEW w \in Windows, ProbeBegins(r, w)
      PROVE  ReaderInv'
    <2> DEFINE x == [at |-> "reading", w |-> w]
    <2>1. /\ Serving /\ Serving' /\ r # Executor /\ UNCHANGED lock
          /\ x.at = "reading" /\ x.w = w
          /\ ctl' = Automated(r, x.w) /\ rd' = [rd EXCEPT ![r] = x]
        BY <1>5 DEF ProbeBegins, Serving, Write, LastWrite, Reader
    <2>2. ctl'.job = x.w
        BY <2>1 DEF Automated
    <2> HIDE DEF x
    <2> QED BY <1>0, <2>1, <2>2, LockKept, OneReader
<1>6. ASSUME NEW r \in Readers, NEW w \in Windows, ValidationLooks(r, w)
      PROVE  ReaderInv'
    <2>1. /\ Serving /\ Serving' /\ r # Executor /\ UNCHANGED << lock, ctl >>
          /\ rd[r].at = "no" /\ rd' = [rd EXCEPT ![r] = [at |-> "take", w |-> w]]
        BY <1>6 DEF ValidationLooks, Serving, Reads, Reader
    <2> QED BY <1>0, <1>1, <2>1, LockKept, OneReader
<1>7. CASE ValidationStops
    <2>1. UNCHANGED << rd, kind, up >> /\ lock' = Free /\ ctl' \in {ctl, Stopped}
        BY <1>7 DEF ValidationStops, Env, Rest, Leaves, Write, LastWrite, KeepRow
    <2> QED BY <1>0, <2>1, Rows, FreeIsQuiet, OthersStep DEF Serving
<1> QED BY <1>2, <1>3, <1>4, <1>5, <1>6, <1>7 DEF Probing

\* Start-up keeps the row, stops it, or turns a holder into a recovering row or into
\* one whose process is gone.
LEMMA BootRowKinds ==
    \/ BootRow(ctl) \in {ctl, Stopped}
    \/ ctl.mode = "automated" /\ BootRow(ctl) = Recovering(ctl.job)
    \/ /\ ctl.mode = "automated" /\ kind[ctl.job] = "shadow"
       /\ BootRow(ctl) = Automated(None, ctl.job)
<1> DEFINE row == BootRow(ctl)
           stop == IF << "terminal", ctl.job >> \in spent THEN Recovering(ctl.job) ELSE Stopped
<1>1. stop \in {Recovering(ctl.job), Stopped}
    OBVIOUS
<1>2. CASE ctl.mode # "automated"
    <2>1. row \in {ctl, Stopped}
        BY <1>2 DEF BootRow
    <2> QED BY <2>1
<1>3. CASE ctl.mode = "automated"
    <2>1. \/ row = stop \/ row \in {ctl, Stopped}
          \/ kind[ctl.job] = "shadow" /\ row = Automated(None, ctl.job)
        BY <1>3 DEF BootRow
    <2> QED BY <1>1, <1>3, <2>1
<1> QED BY <1>2, <1>3

LEMMA LivesKeepReader ==
    ASSUME ReaderInv, Crash \/ Exit \/ Boot
    PROVE  ReaderInv'
<1>0. UNCHANGED kind
    BY DEF Crash, Exit, Gone, Boot
<1>1. CASE Crash \/ Exit
    <2>1. /\ lock' = Free /\ up' = "down" /\ rd' = [r \in Readers |-> NoRead]
          /\ ctl' \in {ctl, Stopped}
        BY <1>1 DEF Crash, Exit, Gone
    <2>2. ~Serving'
        BY <2>1 DEF Serving
    <2>3. lock'.by \notin {"readiness", "recover"}
        <3>1. Free.by \notin {"readiness", "recover"}
            BY DEF Free
        <3> QED BY <2>1, <3>1
    <2>4. LockIsRecord'
        BY <2>1, FreeIsQuiet DEF LockQuiet
    <2>5. HolderKnown'
        BY <1>0, <2>1, Rows DEF ReaderInv, HolderKnown
    <2>6. rd' = [r \in Readers |-> rd'[r]]
        BY <2>1
    <2> QED BY <2>2, <2>3, <2>4, <2>5, <2>6 DEF ReaderInv, HolderReads, ExecutorWaits
<1>2. CASE Boot
    <2>1. UNCHANGED << rd, lock >> /\ ctl' = BootRow(ctl)
        BY <1>2 DEF Boot
    <2> DEFINE Ghost(row) == row.by = None /\ kind[row.job] = "shadow"
    <2>2. BootRow(ctl) = ctl \/ BootRow(ctl).mode # "automated" \/ Ghost(BootRow(ctl))
        <3>1. \A w : Automated(None, w).by = None /\ Automated(None, w).job = w
            BY DEF Automated
        <3>2. Stopped.mode # "automated" /\ Recovering(ctl.job).mode # "automated"
            BY Rows
        <3> QED BY <3>1, <3>2, BootRowKinds
    <2>3. Serving' => BootRow(ctl).mode # "automated" \/ Ghost(BootRow(ctl))
        <3>1. Serving' => ctl.mode # "automated" \/ InJobs(ctl.job)
            BY <1>2 DEF Boot, Serving
        <3>2. ctl.mode = "automated" /\ InJobs(ctl.job)
                 => BootRow(ctl).mode # "automated" \/ Ghost(BootRow(ctl))
            <4>1. ctl.mode = "automated" /\ InJobs(ctl.job)
                     => \/ BootRow(ctl).mode = "idle"
                        \/ BootRow(ctl) = Automated(None, ctl.job) /\ kind[ctl.job] = "shadow"
                BY Rows DEF BootRow, InJobs, Operational
            <4> QED BY <4>1 DEF Automated
        <3> QED BY <2>2, <3>1, <3>2
    <2>4. HolderKnown'
        BY <1>0, <2>1, <2>2 DEF ReaderInv, HolderKnown
    <2>5. HolderReads'
        BY <1>0, <2>1, <2>3 DEF HolderReads
    <2>6. ExecutorWaits'
        <3>1. ctl'.mode = "automated" /\ ctl'.by = Executor => ctl' = ctl
            BY <2>1, <2>2, NoneIsNoReader, ExecutorIsReader
        <3> QED BY <2>1, <3>1 DEF ReaderInv, ExecutorWaits
    <2> QED BY <2>1, <2>4, <2>5, <2>6 DEF ReaderInv, LockIsRecord
<1> QED BY <1>1, <1>2

LEMMA NextReader == ReaderInv /\ [Next]_vars => ReaderInv'
<1> SUFFICES ASSUME ReaderInv, [Next]_vars PROVE ReaderInv'
    OBVIOUS
<1>1. CASE UNCHANGED vars
    BY <1>1 DEF vars, ReaderInv, LockIsRecord, HolderKnown, HolderReads, ExecutorWaits,
       Serving
<1>2. CASE Executing
    BY <1>2, EnvironmentKeepsReader, ReadinessKeepsReader, ReadinessServed,
       AcquireKeepsReader, ReleaseKeepsReader, RecoveryKeepsReader DEF Executing
<1>3. CASE \E w \in Windows : ReadBegins(w)
    BY <1>3, ReadBeginsKeepsReader
<1>4. CASE Next
    BY <1>2, <1>3, <1>4, EnvironmentKeepsReader, PersonKeepsReader, HandlersKeepReader,
       ProbingKeepsReader, ReconcilerKeepsReader, CleanupKeepsReader, LivesKeepReader
    DEF Next
<1> QED BY <1>1, <1>4

\* For any number of windows, readers and lives of the process: whenever the process
\* serves and the row says automated, the reader that the row names is reading for the
\* job that the row names, or start-up has left the row to a shadow read that is not
\* over; no failed, recovered, expired or crashed read of another kind leaves a row
\* that nobody gives back.
THEOREM HolderIsReading == Spec => []HolderReads
<1>1. ReaderInv => HolderReads
    BY DEF ReaderInv
<1> QED BY <1>1, InitReader, NextReader, PTL DEF Spec

=============================================================================
