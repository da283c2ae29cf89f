---------------------------- MODULE BrowserSession ----------------------------
(***************************************************************************)
(* Who controls the one logged-in browser: the durable control row, the    *)
(* access windows that authorise its use, the physical browser, and the    *)
(* parties that move them: HTTP handlers, the executor of a read, the      *)
(* terminal cleanup and the expiry reconciler.                             *)
(*                                                                         *)
(* Only the steps inside the process-local lifecycle lock are serialised   *)
(* (lock); the executor's acquire and release, the session route and the   *)
(* closing of the window by a person happen at any time. Each change of    *)
(* the row is one transaction. record_version is only ever compared with   *)
(* a value read before: current holds the parties whose reading is still   *)
(* the row's version. A grant (epoch, token, worker) is its reader.        *)
(* Each access window is issued for one job, so a window stands for both,  *)
(* and a business session for the window that its operator logs in with.   *)
(* Its record_version is one more than the windows that it owns.           *)
(***************************************************************************)
EXTENDS FiniteSets

CONSTANTS
    Windows,        \* access windows that may be issued, and their jobs
    Mixes,          \* the kinds of the windows of an instance, in each case of it
    Readers,        \* threads that take automated control
    Executor,       \* the one of them that serves the platform_browser slot
    None

AllKinds == {"discovery", "login", "formal", "shadow", "settlement", "daily"}
ASSUME SessionAssumption ==
    /\ Executor \in Readers
    /\ None \notin Windows \cup Readers
    /\ {"lock", "get"} \cap Readers = {}
    /\ Mixes \subseteq [Windows -> AllKinds]

VARIABLES
    kind,       \* window -> kind of its purpose and job
    win,        \* window -> [issued, used, late]
    latest,     \* window issued last
    owner,      \* window -> business session it belongs to
    biz,        \* the active business session
    ended,      \* windows whose job is terminal
    ctl,        \* row of browser_control_sessions
    current,    \* parties whose reading of the row has its record_version
    running,    \* the physical browser is alive
    handled,    \* it has been handed to a person since it was started
    lock,       \* the handler inside the lifecycle lock and where it is
    rd,         \* reader -> what it is doing, and for which window
    peek,       \* what the session route has read
    saw,        \* window the reconciler has read, and whether it was used
    spent,      \* idempotency keys of mark_stopped that have been recorded
    pend,       \* _pending_operational_handoffs
    tidy,       \* window -> progress of the terminal cleanup of its job
    up          \* "starting", "up", "down" or "failed"

vars == << kind, win, latest, owner, biz, ended, ctl, current, running, handled, lock, rd, peek,
           saw, spent, pend, tidy, up >>

Parties == Readers \cup {"lock", "get"}
TidyPhases == {"no", "due", "wasOpen", "wasUsed", "handoff"}

\* The record a handler leaves in the row.
Stopped == [life |-> "stopped", mode |-> "idle", by |-> None, job |-> None]
ReadyIdle == [Stopped EXCEPT !.life = "ready"]
Automated(r, w) == [life |-> "ready", mode |-> "automated", by |-> r, job |-> w]
Human(mode, w) == [life |-> "ready", mode |-> mode, by |-> w, job |-> None]
Recovering(w) == [Stopped EXCEPT !.life = "recovering", !.job = w]

Free == [by |-> "free", at |-> "out", w |-> None]
NoRead == [at |-> "no", w |-> None]
Unseen == [w |-> None, used |-> FALSE]
NotSeen == [at |-> "no", w |-> None, owned |-> {}]
Idle == ctl.mode = "idle"
HumanMode == ctl.mode \in {"human_login", "human_handoff"}
Operational(w) == kind[w] \in {"settlement", "daily"}
\* Discovery, login and formal windows name a job that is no row of jobs.
InJobs(w) == kind[w] \in {"shadow", "settlement", "daily"}
Serving == up \in {"starting", "up"}

\* authorize_access_window: issued, not consumed, not expired.
Valid(w) == win[w].issued /\ ~win[w].used /\ ~win[w].late

Init ==
    /\ kind \in Mixes
    /\ win = [w \in Windows |-> [issued |-> FALSE, used |-> FALSE, late |-> FALSE]]
    /\ latest = None
    /\ owner = [w \in Windows |-> None]
    /\ biz = None
    /\ ended = {}
    /\ ctl = Stopped
    /\ current = {}
    /\ running = FALSE /\ handled = FALSE
    /\ lock = Free
    /\ rd = [r \in Readers |-> NoRead]
    /\ peek = NotSeen
    /\ saw = Unseen
    /\ spent = {}
    /\ pend = {}
    /\ tidy = [w \in Windows |-> "no"]
    /\ up = "starting"

-------------------------------------------------------------------------------
(* Writing the row, holding the lock *)

\* A transaction of party p on the row: the version moves on, p knows the new one.
Write(p, row) == ctl' = row /\ current' = {p}
\* ... and the last one, after which nobody has a reading that counts.
LastWrite(row) == ctl' = row /\ current' = {}
KeepRow == UNCHANGED << ctl, current >>
Reads(p) == current' = current \cup {p} /\ UNCHANGED ctl

Enter(h, at, w) ==
    /\ Serving /\ lock = Free
    /\ lock' = [by |-> h, at |-> at, w |-> w]
Inside(h, at) == Serving /\ lock.by = h /\ lock.at = at
Goes(at) == lock' = [lock EXCEPT !.at = at]
Leaves == lock' = Free
Fresh == "lock" \in current

\* The browser is closed, started, or left as it is.
Closes == running' = FALSE /\ handled' = FALSE
Starts == running' = TRUE /\ UNCHANGED handled
KeepBrowser == UNCHANGED << running, handled >>

\* retire and consume: the window is invalid from here on.
Retired(w) == [win EXCEPT ![w].used = TRUE]

\* mark_stopped by the party inside the lock: its key answers a repeated call
\* without touching the row; else the row must be idle and as it was read.
MarkStopped(key) ==
    \/ key \in spent /\ KeepRow /\ UNCHANGED spent
    \/ key \notin spent /\ Fresh /\ Idle
       /\ LastWrite(Stopped) /\ spent' = spent \cup {key}
CannotStop(key) == key \notin spent /\ ~(Fresh /\ Idle)

Sessions == << owner, biz >>
Rest == << kind, latest, Sessions, ended, rd, peek, saw, tidy, pend, up >>
Env == << Rest, spent >>

-------------------------------------------------------------------------------
(* Access windows and time *)

Open(v) == win[v].issued /\ ~win[v].used

\* A window needs the browser session to itself, but operational reads overlap.
Admits(w, open) ==
    open # {} => \A v \in open \cup {w} : Operational(v) \/ (v = w /\ kind[w] = "login")

Opens(w, before) ==
    /\ ~win[w].issued
    /\ win' = [before EXCEPT ![w].issued = TRUE]
    /\ latest' = w
Owned(b) == {v \in Windows : owner[v] = b}
Joins(w, b) == biz' = b /\ owner' = [owner EXCEPT ![w] = b]

\* A session started by a login expires with its login window, one started by a read
\* not before the window of that read.
MayLast == biz # None /\ (win[biz].late => kind[biz] # "login")
MayStart == biz # None => win[biz].late

IssueRest == << kind, ended, ctl, current, running, handled, lock, rd, peek, saw, spent,
                pend, tidy, up >>

\* A window is issued, in the lock for the checks of the contracts. An operational
\* settlement read may start a business session of its own.
Issue(w) ==
    /\ up = "up" /\ kind[w] # "login"
    /\ kind[w] \in {"discovery", "formal"} => lock = Free
    /\ Admits(w, {v \in Windows : Open(v)})
    /\ Opens(w, win)
    /\ \/ UNCHANGED Sessions
       \/ kind[w] = "settlement" /\ MayStart /\ Joins(w, w)
    /\ UNCHANGED IssueRest

\* The operator starts a business session: the login window is issued, and stays when
\* the session is refused because another one is active.
Connect(w) ==
    /\ up = "up" /\ kind[w] = "login"
    /\ lock = Free /\ ctl = Stopped /\ ~running
    /\ Admits(w, {v \in Windows : Open(v)})
    /\ Opens(w, win)
    /\ \/ MayStart /\ Joins(w, w)
       \/ MayLast /\ UNCHANGED Sessions
    /\ UNCHANGED IssueRest

\* The business session b has no read that goes on.
AtRest(b) == \A v \in Owned(b) : InJobs(v) => v \in ended

\* A read of the business session, on a ready browser: the login window is retired,
\* then the window of the read is issued, or refused.
BusinessRead(w) ==
    /\ up = "up" /\ kind[w] = "settlement" /\ ~win[w].issued
    /\ MayLast /\ AtRest(biz)
    /\ lock = Free /\ ctl = ReadyIdle /\ running
    /\ \/ /\ Admits(w, {v \in Windows \ {biz} : Open(v)})
          /\ Opens(w, Retired(biz))
          /\ Joins(w, biz)
       \/ win' = Retired(biz) /\ UNCHANGED << latest, Sessions >>
    /\ UNCHANGED IssueRest

\* Time passes the expiry of a window.
Expires(w) ==
    /\ win[w].issued /\ ~win[w].late
    /\ win' = [win EXCEPT ![w].late = TRUE]
    /\ UNCHANGED << Env, ctl, current, running, handled, lock >>

\* The job of a read becomes terminal; the scheduler remembers its cleanup.
JobEnds(w) ==
    /\ up = "up"
    /\ win[w].issued /\ InJobs(w) /\ w \notin ended
    /\ rd[Executor].w # w
    /\ ended' = ended \cup {w}
    /\ tidy' = [tidy EXCEPT ![w] = "due"]
    /\ UNCHANGED << kind, win, latest, Sessions, ctl, current, running, handled, lock, rd,
                    peek, saw, spent, pend, up >>

-------------------------------------------------------------------------------
(* The person at the browser, and the routes that serve them *)

\* The person closes the window, or the browser dies.
BrowserDies ==
    /\ running
    /\ Closes
    /\ UNCHANGED << Env, win, ctl, current, lock >>

\* The session route looks at the row, the browser and the business session, outside
\* the lock. What it has read of a row that is nobody's matters while it is current.
SessionLooks ==
    LET owned == HumanMode /\ biz # None /\ owner[ctl.by] = biz IN
    /\ up = "up" /\ peek = NotSeen /\ "get" \notin current /\ ~running
    /\ ctl.life = "ready"
    /\ Idle \/ (HumanMode /\ ctl.by = latest)
    /\ peek' = IF owned THEN [at |-> "missing", w |-> ctl.by, owned |-> Owned(biz)]
                ELSE NotSeen
    /\ Reads("get")
    /\ UNCHANGED << kind, win, latest, Sessions, ended, running, handled, lock, rd, saw,
                    spent, pend, tidy, up >>

\* ... and stops the row of a browser that it saw missing, unless the row changed.
SessionStops ==
    /\ up = "up" /\ (peek.at = "missing" \/ "get" \in current)
    /\ IF "get" \in current THEN LastWrite(Stopped) ELSE KeepRow
    /\ peek' = IF peek.at = "no" THEN NotSeen ELSE [peek EXCEPT !.at = "stopped"]
    /\ UNCHANGED << kind, win, latest, Sessions, ended, running, handled, lock, rd, saw,
                    spent, pend, tidy, up >>

\* Whether it did or not, the person's business session is closed, unless that
\* changed, and the person's window is retired.
SessionCloses ==
    /\ up = "up" /\ peek.at = "stopped"
    /\ biz' = IF biz = owner[peek.w] /\ Owned(biz) = peek.owned THEN None ELSE biz
    /\ win' = Retired(peek.w)
    /\ peek' = NotSeen
    /\ KeepRow /\ KeepBrowser
    /\ UNCHANGED << kind, latest, owner, ended, lock, rd, saw, spent, pend, tidy, up >>

\* Opening the login page: the browser is started, the row becomes ready, the
\* person takes control. Whatever fails closes the browser again.
LoginEnters(w) ==
    /\ up = "up" /\ Valid(w)
    /\ ctl.life \in {"ready", "stopped"} /\ Idle
    /\ Enter("login", "start", w)
    /\ IF ctl.life = "ready" /\ ~running THEN Write("lock", Stopped) ELSE Reads("lock")
    /\ KeepBrowser
    /\ UNCHANGED << Env, win >>

LoginStarts ==
    /\ Inside("login", "start")
    /\ \/ /\ Goes("take") /\ Starts
          /\ ctl.life = "stopped" /\ Fresh /\ Write("lock", ReadyIdle)
       \/ /\ Goes("take") /\ Starts
          /\ ctl.life # "stopped" /\ KeepRow
       \/ /\ Leaves /\ Closes
          /\ IF ctl = ReadyIdle /\ Fresh THEN LastWrite(Stopped) ELSE KeepRow
    /\ UNCHANGED << Env, win >>

LoginTakes ==
    /\ Inside("login", "take")
    /\ Leaves
    /\ IF Fresh /\ ctl = ReadyIdle
       THEN LastWrite(Human("human_login", lock.w)) /\ KeepBrowser
       ELSE KeepRow /\ Closes
    /\ UNCHANGED << Env, win >>

\* Contract discovery: a person browses under a handoff, which cannot go back to
\* automated reading without rebuilding the browser.
DiscoveryStarts(w) ==
    /\ Valid(w) /\ kind[w] = "discovery"
    /\ up = "up" /\ lock = Free
    /\ ctl = ReadyIdle /\ running
    /\ LastWrite(Human("human_handoff", w))
    /\ handled' = TRUE
    /\ UNCHANGED << Env, win, running, lock >>

\* Seeded faults: a handoff is returned like a login; its mode stays in the row.
ReturnedLikeLogin(mode) == ReadyIdle
ReturnedInMode(mode) == [Recovering(None) EXCEPT !.mode = mode]

\* What a returned row looks like.
Returned(mode) == IF mode = "human_handoff" THEN Recovering(None) ELSE ReadyIdle

\* Login is done: the page is frozen and control returns; a page that cannot be
\* frozen is closed, and the row of one that is gone is stopped.
LoginReturns(w) ==
    /\ Valid(w) /\ up = "up" /\ lock = Free
    /\ ctl.mode = "human_login" /\ ctl.by = w
    /\ \/ running /\ LastWrite(ReadyIdle) /\ KeepBrowser
       \/ LastWrite(Stopped) /\ Closes
    /\ UNCHANGED << Env, win, lock >>

\* The operator closes the session of window w, or ends its contract discovery:
\* return, consume, close, stop.
CloseEnters(w) ==
    /\ up = "up"
    /\ win[w].issued
    /\ HumanMode => ctl.by = w
    /\ Enter("close", "consume", w)
    /\ IF HumanMode THEN Write("lock", Returned(ctl.mode)) ELSE Reads("lock")
    /\ KeepBrowser
    /\ UNCHANGED << Env, win >>

\* consume raises when the window has expired: the handler ends there.
CloseConsumes ==
    /\ Inside("close", "consume")
    /\ \/ win[lock.w].late /\ ~win[lock.w].used /\ UNCHANGED win /\ Leaves
       \/ (win[lock.w].late => win[lock.w].used) /\ win' = Retired(lock.w) /\ Goes("stop")
    /\ KeepRow /\ KeepBrowser
    /\ UNCHANGED Env

CloseStops ==
    /\ Inside("close", "stop")
    /\ Closes
    /\ IF Fresh /\ Idle THEN LastWrite(Stopped) ELSE KeepRow
    /\ Leaves
    /\ UNCHANGED << Env, win >>

\* The operator closes the business session w, between reads; what has no browser has
\* nothing to stop.
DisconnectEnters(w) ==
    /\ up = "up"
    /\ w = biz /\ AtRest(w)
    /\ ctl.mode # "automated"
    /\ HumanMode => owner[ctl.by] = w
    /\ Enter("disconnect", IF ctl.life = "stopped" THEN "retire" ELSE "stop", w)
    /\ IF HumanMode THEN Write("lock", Returned(ctl.mode)) ELSE Reads("lock")
    /\ KeepBrowser
    /\ UNCHANGED << Env, win >>

DisconnectStops ==
    /\ Inside("disconnect", "stop") \/ Inside("disconnect", "retire")
    /\ Closes /\ Leaves
    /\ IF lock.at = "stop" /\ Fresh /\ Idle THEN LastWrite(Stopped) ELSE KeepRow
    /\ IF lock.at = "stop" => Fresh /\ Idle
       THEN win' = Retired(lock.w) /\ biz' = IF biz = lock.w THEN None ELSE biz
       ELSE UNCHANGED << win, biz >>
    /\ UNCHANGED << kind, latest, owner, ended, rd, peek, saw, tidy, pend, up, spent >>

\* The next business read takes the browser back from a person of its business session
\* and rebuilds it.
RebuildEnters(w) ==
    /\ up = "up"
    /\ ctl.mode = "human_handoff" /\ ctl.by = w
    /\ MayLast /\ AtRest(biz) /\ owner[w] = biz
    /\ Enter("rebuild", "stop", w)
    /\ Write("lock", Returned(ctl.mode))
    /\ KeepBrowser
    /\ UNCHANGED << Env, win >>

RebuildStops ==
    /\ Inside("rebuild", "stop")
    /\ Closes
    /\ IF Fresh THEN Write("lock", Stopped) /\ Goes("start") ELSE KeepRow /\ Leaves
    /\ UNCHANGED << Env, win >>

RebuildStarts ==
    /\ Inside("rebuild", "start")
    /\ \/ Starts /\ Fresh /\ LastWrite(ReadyIdle)
       \/ Closes /\ KeepRow
    /\ Leaves
    /\ UNCHANGED << Env, win >>

-------------------------------------------------------------------------------
(* Automated readers *)

Reader(r, at, w) == rd' = [rd EXCEPT ![r] = [at |-> at, w |-> w]]
Quits(r) == rd' = [rd EXCEPT ![r] = NoRead]
Others == << kind, win, latest, Sessions, ended, peek, saw, spent, tidy >>

\* A stage begins: its window is authorised. An operational read first makes the
\* browser ready, the others take the row as it is.
ReadBegins(w) ==
    /\ up = "up" /\ rd[Executor].at = "no"
    /\ Valid(w) /\ InJobs(w) /\ w \notin ended
    /\ \A v \in Windows : tidy[v] = "no"
    /\ Reader(Executor, IF Operational(w) THEN "ready?" ELSE "take", w)
    /\ IF Operational(w) THEN KeepRow ELSE Reads(Executor)
    /\ KeepBrowser
    /\ UNCHANGED << Others, lock, pend, up >>

\* reconcile_operational_browser_readiness, for a read or for the visible browser
\* that start-up opens; a row that is taken or recovering is left as it is.
ReadinessEnters ==
    LET starting == up = "starting"
        ready == Idle /\ ctl.life \in {"stopped", "ready"}
    IN
    /\ starting \/ rd[Executor].at = "ready?"
    /\ lock = Free
    /\ up' = "up"
    /\ IF ready
       THEN /\ Enter("readiness", "start", IF starting THEN None ELSE rd[Executor].w)
            /\ Reads("lock")
            /\ IF starting THEN UNCHANGED rd ELSE Reader(Executor, "wait", rd[Executor].w)
       ELSE /\ Serving /\ KeepRow /\ UNCHANGED lock
            /\ IF starting THEN UNCHANGED rd ELSE Quits(Executor)
    /\ pend' = IF ~ready /\ ctl.life = "ready" THEN pend \ {rd[Executor].w} ELSE pend
    /\ KeepBrowser
    /\ UNCHANGED Others

ReadinessStarts ==
    /\ Inside("readiness", "start")
    /\ \/ Starts /\ Goes("mark") /\ UNCHANGED rd
       \/ /\ ~running /\ KeepBrowser /\ Leaves
          /\ IF lock.w = None THEN UNCHANGED rd ELSE Quits(Executor)
    /\ KeepRow
    /\ UNCHANGED << Others, pend, up >>

\* The reading that acquire will use is the one made here.
ReadinessMarks ==
    /\ Inside("readiness", "mark")
    /\ Leaves
    /\ \/ lock.w = None /\ UNCHANGED << rd, pend >>
       \/ /\ lock.w # None
          /\ pend' = pend \ {lock.w}
          /\ Reader(Executor, "take", lock.w)
          /\ ctl.life # "stopped" \/ Fresh
       \/ /\ lock.w # None
          /\ Quits(Executor) /\ UNCHANGED pend
          /\ ctl.life = "stopped" /\ ~Fresh
    /\ IF ctl.life = "stopped" /\ Fresh
       THEN Write(Executor, ReadyIdle)
       ELSE /\ UNCHANGED ctl
            /\ current' = IF Fresh THEN current \cup {Executor} ELSE current \ {Executor}
    /\ KeepBrowser
    /\ UNCHANGED << Others, up >>

\* Seeded fault: the version that was read is not compared.
TakesUnchecked(r) == ctl.life = "ready" /\ ctl.mode # "automated"

\* acquire_automated takes the row only as it was read, ready and idle.
Takes(r) == r \in current /\ ctl = ReadyIdle

\* The executor acquires outside the lock. The preparation that follows notes an
\* operational settlement read for the handoff, unless it fails.
Acquire ==
    LET w == rd[Executor].w IN
    /\ up = "up" /\ rd[Executor].at = "take"
    /\ IF Takes(Executor) /\ running
       THEN /\ LastWrite(Automated(Executor, w))
            /\ Reader(Executor, "reading", w)
            /\ \/ kind[w] = "settlement" /\ pend' = pend \cup {w}
               \/ UNCHANGED pend
       ELSE KeepRow /\ Quits(Executor) /\ UNCHANGED pend
    /\ KeepBrowser
    /\ UNCHANGED << Others, lock, up >>

\* A diagnostic probe takes the browser inside the lock.
ProbeBegins(r, w) ==
    /\ up = "up" /\ lock = Free
    /\ r # Executor /\ rd[r].at = "no"
    /\ Valid(w) /\ kind[w] # "discovery"
    /\ ctl = ReadyIdle /\ running
    /\ LastWrite(Automated(r, w))
    /\ Reader(r, "reading", w)
    /\ KeepBrowser
    /\ UNCHANGED << Others, lock, pend, up >>

Holds(r) == ctl.mode = "automated" /\ ctl.by = r /\ ctl.job = rd[r].w

\* The read is over. An executor gives the row back, closing the browser afterwards
\* when it has found it broken; control that it has lost, or that a failed shadow
\* read holds, is recovered instead.
Release ==
    LET w == rd[Executor].w IN
    /\ up = "up" /\ rd[Executor].at = "reading"
    /\ \/ /\ Holds(Executor)
          /\ LastWrite(ReadyIdle)
          /\ \/ Quits(Executor) /\ UNCHANGED pend
             \/ Operational(w) /\ Reader(Executor, "closing", w) /\ pend' = pend \ {w}
       \/ /\ ~(Holds(Executor) /\ Operational(w))
          /\ KeepRow /\ Reader(Executor, "recover", w) /\ UNCHANGED pend
    /\ KeepBrowser
    /\ UNCHANGED << Others, lock, up >>

\* A broken browser is closed, without the lock.
ExecutorCloses ==
    /\ up = "up" /\ rd[Executor].at = "closing"
    /\ Closes /\ Quits(Executor) /\ KeepRow
    /\ UNCHANGED << Others, lock, pend, up >>

\* _recover_failed_release: begin_automatic_recovery, then close and stop. A daily
\* read that holds nothing any more closes the browser all the same.
RecoverBegins ==
    LET w == rd[Executor].w IN
    /\ up = "up" /\ rd[Executor].at = "recover"
    /\ IF Holds(Executor)
       THEN Enter("recover", "stop", w) /\ Write("lock", Recovering(w)) /\ UNCHANGED rd
            /\ KeepBrowser
       ELSE /\ lock = Free /\ UNCHANGED lock /\ KeepRow /\ Quits(Executor)
            /\ IF kind[w] = "daily" THEN Closes ELSE KeepBrowser
    /\ UNCHANGED << Others, pend, up >>

RecoverRest == << kind, win, latest, Sessions, ended, peek, saw, tidy, pend, up >>

\* A daily read stops the row under the key of its terminal cleanup.
RecoverStops ==
    LET key == << "terminal", lock.w >>
        stops == Fresh /\ Idle
    IN
    /\ Inside("recover", "stop")
    /\ Closes /\ Leaves /\ Quits(Executor)
    /\ IF kind[lock.w] = "daily"
       THEN MarkStopped(key) \/ (CannotStop(key) /\ KeepRow /\ UNCHANGED spent)
       ELSE (IF stops THEN LastWrite(Stopped) ELSE KeepRow) /\ UNCHANGED spent
    /\ UNCHANGED RecoverRest

\* A shadow read that is complete seals what it has read, and consumes its window.
ReadSeals ==
    LET w == rd[Executor].w IN
    /\ up = "up" /\ rd[Executor].at = "reading"
    /\ Valid(w) /\ kind[w] = "shadow"
    /\ win' = Retired(w)
    /\ KeepRow /\ KeepBrowser
    /\ UNCHANGED << Env, lock >>

\* The validation of a contract under a formal window, and the discovery of the daily
\* one under a discovery window, read the row and take it unlocked.
ValidationLooks(r, w) ==
    /\ up = "up" /\ r # Executor /\ rd[r].at = "no"
    /\ Valid(w) /\ kind[w] \in {"formal", "discovery"}
    /\ ctl = ReadyIdle /\ running
    /\ Reads(r) /\ Reader(r, "take", w)
    /\ KeepBrowser
    /\ UNCHANGED << Others, lock, pend, up >>

ValidationTakes(r) ==
    /\ up = "up" /\ r # Executor /\ rd[r].at = "take"
    /\ IF Takes(r) THEN LastWrite(Automated(r, rd[r].w)) /\ Reader(r, "validating", rd[r].w)
       ELSE KeepRow /\ Quits(r)
    /\ KeepBrowser
    /\ UNCHANGED << Others, lock, pend, up >>

\* It ends inside the lock: release, consume, close, and stop what it released.
ValidationReturns(r) ==
    /\ up = "up" /\ rd[r].at = "validating"
    /\ Enter("validate", IF Holds(r) THEN "stop" ELSE "close", rd[r].w)
    /\ IF Holds(r) THEN Write("lock", ReadyIdle) ELSE KeepRow
    /\ win' = IF Valid(rd[r].w) THEN Retired(rd[r].w) ELSE win
    /\ Quits(r) /\ KeepBrowser
    /\ UNCHANGED << kind, latest, Sessions, ended, peek, saw, spent, pend, tidy, up >>

ValidationStops ==
    /\ Inside("validate", "stop") \/ Inside("validate", "close")
    /\ Closes /\ Leaves
    /\ IF lock.at = "stop" /\ Fresh /\ Idle THEN LastWrite(Stopped) ELSE KeepRow
    /\ UNCHANGED << Env, win >>

\* A probe gives the row back inside the lock, or closes the browser.
ProbeEnds(r) ==
    /\ up = "up" /\ lock = Free
    /\ r # Executor /\ rd[r].at = "reading"
    /\ Quits(r)
    /\ IF Holds(r) THEN LastWrite(ReadyIdle) /\ KeepBrowser ELSE KeepRow /\ Closes
    /\ UNCHANGED << Others, lock, pend, up >>

-------------------------------------------------------------------------------
(* The expiry reconciler: once a second, the latest window if it has expired *)

ReconcilerLooks ==
    /\ up = "up" /\ saw = Unseen
    /\ latest # None /\ win[latest].late
    /\ saw' = [w |-> latest, used |-> win[latest].used]
    /\ KeepRow /\ KeepBrowser
    /\ UNCHANGED << kind, win, latest, Sessions, ended, lock, rd, peek, spent, pend, tidy,
                    up >>

\* Seeded fault: what was read before the lock is not compared with what is there.
SeenEarlier == TRUE

\* Inside the lock the same window is still the latest, as it was, and expired.
SeenAgain == latest = saw.w /\ win[latest].used = saw.used /\ win[latest].late

\* Seeded fault: the holder is not compared.
MatchesAnyone(w) == ctl.life = "ready" \/ ctl = Recovering(w) \/ (ctl = Stopped /\ ~running)

\* _control_matches: the row is the expired window's, or nobody's.
Matches(w) ==
    \/ HumanMode /\ ctl.by = w
    \/ ctl.mode = "automated" /\ ctl.job = w
    \/ ctl = ReadyIdle
    \/ ctl = Recovering(w)
    \/ ctl = Stopped /\ ~running

ReconcilerRest == << kind, win, latest, Sessions, ended, rd, peek, pend, tidy, up >>

\* Nothing to do, or not the window's to do.
ReconcilerSkips ==
    /\ up = "up" /\ lock = Free /\ saw # Unseen
    /\ \/ ~SeenAgain
       \/ win[latest].used /\ ctl = Stopped /\ ~running
       \/ ~Matches(latest)
    /\ saw' = Unseen
    /\ KeepRow /\ KeepBrowser
    /\ UNCHANGED << ReconcilerRest, lock, spent >>

ReconcilerEnters ==
    LET w == latest IN
    /\ up = "up" /\ saw # Unseen
    /\ SeenAgain /\ Matches(w)
    /\ ~(win[w].used /\ ctl = Stopped /\ ~running)
    /\ IF ctl.mode = "automated" THEN Write("lock", Recovering(w)) ELSE Reads("lock")
    /\ Enter("reconcile", CASE HumanMode -> "human"
                            [] ctl = Stopped -> "retire"
                            [] OTHER -> "close", w)
    /\ KeepBrowser
    /\ UNCHANGED << ReconcilerRest, saw, spent >>

\* The browser is closed and the row stopped, a person's too; when the row has
\* changed meanwhile the reconciler gives up until its next turn.
ReconcilerCloses ==
    /\ Inside("reconcile", "close")
    /\ Closes
    /\ \/ MarkStopped(<< "expiry", lock.w >>) /\ Goes("retire") /\ UNCHANGED saw
       \/ CannotStop(<< "expiry", lock.w >>) /\ KeepRow /\ Leaves /\ saw' = Unseen
          /\ UNCHANGED spent
    /\ UNCHANGED ReconcilerRest

ReconcilerExpels ==
    /\ Inside("reconcile", "human")
    /\ Closes
    /\ \/ Fresh /\ LastWrite(Stopped) /\ Goes("retire") /\ UNCHANGED saw
       \/ ~Fresh /\ KeepRow /\ Leaves /\ saw' = Unseen
    /\ UNCHANGED << ReconcilerRest, spent >>

ReconcilerRetires ==
    /\ Inside("reconcile", "retire")
    /\ win' = Retired(lock.w)
    /\ Leaves /\ saw' = Unseen
    /\ KeepRow /\ KeepBrowser
    /\ UNCHANGED << kind, latest, Sessions, ended, rd, peek, spent, pend, tidy, up >>

-------------------------------------------------------------------------------
(* Terminal cleanup of a job, by the scheduler thread, repeated until it works *)

Tidy(w, phase) == tidy' = [tidy EXCEPT ![w] = phase]
CleanupRest == << kind, latest, Sessions, ended, rd, peek, saw, up >>

CleanupRetires(w) ==
    /\ up = "up" /\ tidy[w] = "due"
    /\ \A v \in Windows : tidy[v] \in {"no", "due"}
    /\ Tidy(w, IF win[w].used THEN "wasUsed" ELSE "wasOpen")
    /\ win' = Retired(w)
    /\ KeepRow /\ KeepBrowser
    /\ UNCHANGED << CleanupRest, lock, spent, pend >>

Tidying(w) == up = "up" /\ tidy[w] \in {"wasOpen", "wasUsed"}
\* Seeded fault: any automated holder is taken for the job's own.
OwnAny(w) == ctl.mode = "automated"

Own(w) == ctl.mode = "automated" /\ ctl.job = w
OwnPerson(w) == HumanMode /\ ctl.by = w

\* The browser that this cleanup closes, and the row it stops: its own, or for a
\* shadow read, or a daily read whose window was open, an idle one.
MustStop(w) ==
    CASE kind[w] = "settlement" -> Own(w) /\ ~running
      [] kind[w] = "shadow" -> Own(w) \/ OwnPerson(w)
                               \/ (Idle /\ ctl.life \in {"ready", "recovering"})
      [] kind[w] = "daily" -> \/ OwnPerson(w)
                              \/ /\ ~running
                                 /\ \/ Own(w) \/ ctl = Recovering(w)
                                    \/ ctl = ReadyIdle /\ tidy[w] = "wasOpen"

CleanupEnters(w) ==
    /\ Tidying(w) /\ MustStop(w)
    /\ Enter("clean", IF HumanMode THEN "human" ELSE "stop", w)
    /\ IF Own(w) THEN Write("lock", Recovering(w)) ELSE Reads("lock")
    /\ KeepBrowser
    /\ UNCHANGED << CleanupRest, win, spent, pend, tidy >>

\* The browser of a settlement read in a business session goes to the person.
AfterStop(w) ==
    IF kind[w] = "settlement" /\ w \in pend /\ owner[w] # None THEN "handoff" ELSE "no"

\* Ends the cleanup, or leads to the handoff.
Ends(w, phase) ==
    Tidy(w, phase) /\ pend' = IF phase = "no" THEN pend \ {w} ELSE pend

CleanupStops ==
    LET w == lock.w
        key == << "terminal", w >>
    IN
    /\ \/ /\ Inside("clean", "stop")
          /\ \/ MarkStopped(key) /\ Ends(w, AfterStop(w))
             \/ CannotStop(key) /\ KeepRow /\ UNCHANGED spent /\ Ends(w, "due")
       \/ /\ Inside("clean", "human")
          /\ UNCHANGED spent
          /\ \/ Fresh /\ LastWrite(Stopped) /\ Ends(w, "no")
             \/ ~Fresh /\ KeepRow /\ Ends(w, "due")
    /\ IF lock.at = "human" /\ kind[w] = "daily" /\ ~Fresh THEN KeepBrowser ELSE Closes
    /\ Leaves
    /\ UNCHANGED << CleanupRest, win >>

\* The browser stays, warm: after a settlement read outside a business session, and
\* after a daily read whose browser lives.
Parks(w) ==
    \/ kind[w] = "settlement" /\ w \in pend /\ owner[w] = None /\ ctl = ReadyIdle
    \/ /\ kind[w] = "daily" /\ running
       /\ Own(w) \/ ctl = Recovering(w) \/ (ctl = ReadyIdle /\ tidy[w] = "wasOpen")

\* Nothing of its own to stop: a warm browser is parked, which fails without one and
\* may close it, a browser behind a stopped row closed; a shadow read that meets
\* another authority tries again.
CleanupPasses(w) ==
    LET stray == ctl = Stopped /\ running
                 /\ (kind[w] = "shadow" \/ (kind[w] = "daily" /\ tidy[w] = "wasOpen"))
    IN
    /\ Tidying(w) /\ ~MustStop(w) /\ lock = Free
    /\ IF kind[w] = "daily" /\ Own(w) THEN LastWrite(Recovering(w)) ELSE KeepRow
    /\ \/ /\ Parks(w) => running
          /\ IF stray THEN Closes ELSE KeepBrowser
          /\ Ends(w, IF kind[w] = "shadow" /\ ctl # Stopped THEN "due" ELSE AfterStop(w))
       \/ Parks(w) /\ Closes /\ Ends(w, "due")
    /\ UNCHANGED << CleanupRest, win, lock, spent >>

\* The browser of an operational settlement read is handed to the person. A job that
\* has been handed over leaves pend with it, so it is never found handed over here.
HandoffEnters(w) ==
    /\ up = "up" /\ tidy[w] = "handoff"
    /\ Enter("clean", IF ctl = ReadyIdle /\ running THEN "hand" ELSE "fail", w)
    /\ IF Own(w) THEN Write("lock", Recovering(w)) ELSE Reads("lock")
    /\ KeepBrowser
    /\ UNCHANGED << CleanupRest, win, spent, pend, tidy >>

HandoffTakes ==
    LET w == lock.w IN
    /\ Inside("clean", "hand")
    /\ \/ /\ Fresh /\ running
          /\ LastWrite(Human("human_handoff", w))
          /\ handled' = TRUE /\ UNCHANGED running
          /\ Tidy(w, "no") /\ pend' = pend \ {w}
          /\ Leaves
       \/ Goes("fail") /\ KeepRow /\ KeepBrowser /\ UNCHANGED << pend, tidy >>
    /\ UNCHANGED << CleanupRest, win, spent >>

\* Whatever went wrong, the browser is closed, an idle row stopped, and the
\* cleanup is due again.
HandoffFails ==
    LET key == << "terminal", lock.w >> IN
    /\ Inside("clean", "fail")
    /\ Closes /\ Leaves
    /\ IF Idle /\ ctl.life \in {"ready", "recovering"} /\ key \notin spent
       THEN LastWrite(Stopped) /\ spent' = spent \cup {key}
       ELSE KeepRow /\ UNCHANGED spent
    /\ Tidy(lock.w, "due")
    /\ UNCHANGED << CleanupRest, win, pend >>

-------------------------------------------------------------------------------
(* The end of a process and the start of the next *)

Gone ==
    /\ up' = "down"
    /\ Closes
    /\ lock' = Free
    /\ current' = {}
    /\ rd' = [r \in Readers |-> NoRead]
    /\ peek' = NotSeen /\ saw' = Unseen
    /\ pend' = {}
    /\ tidy' = [w \in Windows |-> "no"]
    /\ UNCHANGED << kind, latest, owner, spent >>

Crash == Serving /\ Gone /\ UNCHANGED << ctl, win, biz, ended >>

\* An orderly exit joins its threads, and cancels the operational reads if it was asked
\* for. A business session ends, and with it its login window and a person's control.
Exit ==
    /\ up = "up"
    /\ lock = Free /\ \A r \in Readers : rd[r].at = "no"
    /\ Gone
    /\ \/ UNCHANGED ended
       \/ ended' = ended \cup {w \in Windows : win[w].issued /\ Operational(w)}
    /\ IF biz = None
       THEN UNCHANGED << ctl, win, biz >>
       ELSE /\ ctl' = IF HumanMode THEN Stopped ELSE ctl
            /\ win' = Retired(biz)
            /\ biz' = None

\* Seeded fault: start-up leaves the row alone.
BootForgets(row) == row

\* What start-up makes of the row it finds: the holder of an ended read has lost
\* its browser, and a daily read ends an idle row too. A shadow read that goes on
\* keeps the row, held by a process that is gone.
BootRow(row) ==
    LET daily == {v \in Windows : win[v].issued /\ kind[v] = "daily"}
        \* the row is left as begin_automatic_recovery made it if its stop is a replay
        stop(w) == IF << "terminal", w >> \in spent THEN Recovering(w) ELSE Stopped
    IN
    CASE row.mode = "automated" /\ (Operational(row.job) \/ row.job \in ended)
           -> stop(row.job)
      [] row.mode = "automated" /\ kind[row.job] = "shadow" /\ row.job \notin ended
           -> Automated(None, row.job)
      [] \E v \in daily : row.by = v /\ row.mode # "automated" -> Stopped
      [] \E v \in daily : << "terminal", v >> \notin spent
                          /\ (row = Recovering(v) \/ (row = ReadyIdle /\ ~win[v].used))
           -> Stopped
      [] OTHER -> row

\* Every operational read that was interrupted has failed; windows of ended reads, and
\* those of shadow reads that are over, are retired. A holder whose job is no row of
\* jobs makes get_job raise: start-up fails.
Boot ==
    LET failed == {w \in Windows : win[w].issued /\ Operational(w)}
        over == {w \in Windows : kind[w] = "shadow" /\ (w \in ended \/ win[w].late)}
    IN
    /\ up \in {"down", "failed"}
    /\ ended' = ended \cup failed
    /\ win' = [w \in Windows |-> IF w \in failed \cup over THEN [win[w] EXCEPT !.used = TRUE]
                                 ELSE win[w]]
    /\ ctl' = BootRow(ctl)
    /\ up' = IF ctl.mode = "automated" /\ ~InJobs(ctl.job) THEN "failed" ELSE "starting"
    /\ UNCHANGED << kind, latest, Sessions, current, running, handled, lock, rd, peek, saw,
                    spent, pend, tidy >>

-------------------------------------------------------------------------------
Person == \E w \in Windows : LoginEnters(w) \/ DiscoveryStarts(w) \/ LoginReturns(w)
                             \/ CloseEnters(w) \/ DisconnectEnters(w)
                             \/ RebuildEnters(w)
Handlers == LoginStarts \/ LoginTakes \/ CloseConsumes \/ CloseStops
            \/ DisconnectStops \/ RebuildStops \/ RebuildStarts
Executing == \/ ReadinessEnters \/ ReadinessStarts \/ ReadinessMarks \/ Acquire
             \/ ReadSeals \/ Release \/ ExecutorCloses \/ RecoverBegins \/ RecoverStops
Probing == \/ \E r \in Readers : \/ ProbeEnds(r) \/ ValidationTakes(r)
                                 \/ ValidationReturns(r)
                                 \/ \E w \in Windows : \/ ProbeBegins(r, w)
                                                       \/ ValidationLooks(r, w)
           \/ ValidationStops
Reconciling == \/ ReconcilerLooks \/ ReconcilerSkips \/ ReconcilerEnters
               \/ ReconcilerCloses \/ ReconcilerExpels \/ ReconcilerRetires
Cleaning == \/ \E w \in Windows : \/ CleanupRetires(w) \/ CleanupEnters(w)
                                  \/ CleanupPasses(w) \/ HandoffEnters(w)
            \/ CleanupStops \/ HandoffTakes \/ HandoffFails

Next ==
    \/ \E w \in Windows : \/ Issue(w) \/ Connect(w) \/ BusinessRead(w)
                          \/ Expires(w) \/ JobEnds(w) \/ ReadBegins(w)
    \/ BrowserDies \/ SessionLooks \/ SessionStops \/ SessionCloses
    \/ Person \/ Handlers
    \/ Executing \/ Probing
    \/ Reconciling \/ Cleaning
    \/ Crash \/ Exit \/ Boot

Spec == Init /\ [][Next]_vars

-------------------------------------------------------------------------------
TypeOK ==
    /\ kind \in Mixes
    /\ win \in [Windows -> [issued : BOOLEAN, used : BOOLEAN, late : BOOLEAN]]
    /\ latest \in Windows \cup {None}
    /\ owner \in [Windows -> Windows \cup {None}]
    /\ biz \in Windows \cup {None}
    /\ ended \subseteq Windows
    /\ ctl \in {Stopped, ReadyIdle}
               \cup {Recovering(w) : w \in Windows \cup {None}}
               \cup {Automated(r, w) : r \in Readers \cup {None}, w \in Windows}
               \cup {Human(m, w) : m \in {"human_login", "human_handoff"}, w \in Windows}
    /\ current \subseteq Parties
    /\ running \in BOOLEAN /\ handled \in BOOLEAN
    /\ lock \in [by : {"free", "login", "close", "disconnect", "rebuild", "readiness",
                       "recover", "validate", "reconcile", "clean"},
                 at : {"out", "start", "take", "consume", "stop", "mark", "close", "human",
                       "retire", "hand", "fail"},
                 w : Windows \cup {None}]
    /\ rd \in [Readers -> [at : {"no", "ready?", "wait", "take", "reading", "recover",
                                 "closing", "validating"},
                           w : Windows \cup {None}]]
    /\ peek \in [at : {"no", "missing", "stopped"}, w : Windows \cup {None},
                 owned : SUBSET Windows]
    /\ peek.at # "no" => peek.w # None
    /\ saw \in [w : Windows \cup {None}, used : BOOLEAN]
    /\ spent \subseteq {"expiry", "terminal"} \X Windows
    /\ pend \subseteq Windows
    /\ tidy \in [Windows -> TidyPhases]
    /\ up \in {"starting", "up", "down", "failed"}

\* Automated control and what its reader does agree, in every life of the process:
\* the row is left to a reader that is gone, or released by another one, never, except
\* that a shadow read which outlives its process keeps its row until it is over.
HolderReads ==
    Serving /\ ctl.mode = "automated" =>
        \/ /\ ctl.by \in Readers
           /\ rd[ctl.by].at \in {"reading", "recover", "validating"}
           /\ rd[ctl.by].w = ctl.job
        \/ ctl.by = None /\ kind[ctl.job] = "shadow"

\* A browser that has been handed to a person is closed before anything reads with
\* it, whoever closes, rebuilds or restarts it in between.
RebuiltAfterPerson == ctl.mode = "automated" => ~handled

Operator == \E w \in Windows : LoginReturns(w) \/ CloseEnters(w) \/ DisconnectEnters(w)
                                \/ RebuildEnters(w)

\* Control is only taken from a person by that person, when the browser is gone,
\* at the exit, when the person's window has expired, or with the end of the read
\* that the person's window was issued for.
PersonKeepsControl ==
    [][ HumanMode /\ ctl' # ctl =>
            \/ Operator \/ ~running \/ ~Serving'
            \/ win[ctl.by].late \/ ctl.by \in ended ]_vars

\* Control is only taken from a reader by itself, when its window has expired, its
\* job has ended, or its process has.
ReaderKeepsControl ==
    [][ ctl.mode = "automated" /\ ctl' # ctl =>
            \/ \E r \in Readers : ctl.by = r /\ rd'[r] # rd[r]
            \/ RecoverBegins
            \/ win[ctl.job].late \/ ctl.job \in ended \/ ~Serving ]_vars

\* A window whose time is not over and whose job goes on is invalidated by nobody but
\* the read, the validation or the discovery that is done with it, the operator who
\* closes its session, what ends or first uses the login of a business session, and the
\* session route that saw the browser of its person gone. The reconciler, the cleanup,
\* start-up and what goes on under other windows spare it.
WindowSpared ==
    [][ \A w \in Windows : win'[w].used /\ ~win[w].used =>
            \/ win[w].late \/ w \in ended'
            \/ \E r \in Readers : rd[r].w = w /\ (ValidationReturns(r) \/ ReadSeals)
            \/ lock.by \in {"close", "disconnect"} /\ lock.w = w
            \/ w = biz /\ (~Serving' \/ \E v \in Windows : BusinessRead(v))
            \/ peek.at = "stopped" /\ peek.w = w ]_vars

\* ADR-042: the expiry of a window does not close a browser that a person holds.
ExpiryLeavesPerson ==
    [][ HumanMode /\ running /\ lock.by = "reconcile" => ctl'.by = ctl.by ]_vars

\* ADR-052: the start after a process that disappeared releases its authority over
\* the browser; it does not itself fail on it.
StartupReturns == up # "failed"

=============================================================================
