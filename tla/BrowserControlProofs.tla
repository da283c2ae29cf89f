------------------------ MODULE BrowserControlProofs ------------------------
(***************************************************************************)
(* Who may take the browser from whom.  For any number of windows, readers *)
(* and lives of the process: types, and the three action properties of     *)
(* BrowserSession, on taking control from a person, on taking it from a    *)
(* reader, and on invalidating a window.                                   *)
(***************************************************************************)
EXTENDS BrowserSessionProofs

-------------------------------------------------------------------------------
(* Types, one part per variable.  A party in the lock, at work or seen by the *)
(* reconciler names a window, except a readiness check at start-up.           *)

Holders == {"login", "close", "disconnect", "rebuild", "readiness", "recover",
            "validate", "reconcile", "clean"}
Places == {"out", "start", "take", "consume", "stop", "mark", "close", "human", "retire",
           "hand", "fail"}
Activities == {"no", "ready?", "wait", "take", "reading", "recover", "closing",
               "validating"}

WinTyped == win \in [Windows -> [issued : BOOLEAN, used : BOOLEAN, late : BOOLEAN]]

\* What the row may be.
ControlRow(row) ==
    \/ row = Stopped
    \/ row = ReadyIdle
    \/ \E w \in Windows \cup {None} : row = Recovering(w)
    \/ \E r \in Readers \cup {None}, w \in Windows : row = Automated(r, w)
    \/ \E m \in {"human_login", "human_handoff"}, w \in Windows : row = Human(m, w)

LockTyped ==
    /\ lock \in [by : {"free"} \cup Holders, at : Places, w : Windows \cup {None}]
    /\ lock.by \notin {"free", "readiness"} => lock.w \in Windows

ReadersTyped ==
    /\ rd \in [Readers -> [at : Activities, w : Windows \cup {None}]]
    /\ \A r \in Readers : rd[r].at # "no" => rd[r].w \in Windows

SawTyped ==
    /\ saw \in [w : Windows \cup {None}, used : BOOLEAN]
    /\ saw # Unseen => saw.w \in Windows

TidyTyped == tidy \in [Windows -> TidyPhases]
BrowserTyped == running \in BOOLEAN /\ handled \in BOOLEAN
SetsTyped ==
    /\ ended \subseteq Windows /\ pend \subseteq Windows /\ current \subseteq Parties
    /\ spent \subseteq {"expiry", "terminal"} \X Windows
RestTyped ==
    /\ kind \in Mixes /\ latest \in Windows \cup {None}
    /\ owner \in [Windows -> Windows \cup {None}] /\ biz \in Windows \cup {None}
    /\ peek \in [at : {"no", "missing", "stopped"}, w : Windows \cup {None},
                 owned : SUBSET Windows]
    /\ peek.at # "no" => peek.w # None
    /\ up \in {"starting", "up", "down", "failed"}

Typed ==
    /\ WinTyped /\ ControlRow(ctl) /\ LockTyped /\ ReadersTyped /\ SawTyped /\ TidyTyped
    /\ BrowserTyped /\ SetsTyped /\ RestTyped

LEMMA TypedIsTypeOK == Typed => TypeOK
<1> SUFFICES ASSUME Typed PROVE TypeOK
    OBVIOUS
<1>1. ctl \in {Stopped, ReadyIdle}
               \cup {Recovering(w) : w \in Windows \cup {None}}
               \cup {Automated(r, w) : r \in Readers \cup {None}, w \in Windows}
               \cup {Human(m, w) : m \in {"human_login", "human_handoff"}, w \in Windows}
    BY DEF Typed, ControlRow
<1>2. lock \in [by : {"free", "login", "close", "disconnect", "rebuild", "readiness",
                       "recover", "validate", "reconcile", "clean"},
                 at : {"out", "start", "take", "consume", "stop", "mark", "close", "human",
                       "retire", "hand", "fail"},
                 w : Windows \cup {None}]
    BY DEF Typed, LockTyped, Holders, Places
<1>3. rd \in [Readers -> [at : {"no", "ready?", "wait", "take", "reading", "recover",
                                 "closing", "validating"},
                           w : Windows \cup {None}]]
    BY DEF Typed, ReadersTyped, Activities
<1> QED BY <1>1, <1>2, <1>3 DEF Typed, TypeOK, WinTyped, SawTyped, TidyTyped, BrowserTyped,
   SetsTyped, RestTyped

-------------------------------------------------------------------------------
(* What the helpers of the model leave typed. *)

LEMMA RowsTyped ==
    /\ ControlRow(Stopped) /\ ControlRow(ReadyIdle)
    /\ \A w \in Windows \cup {None} : ControlRow(Recovering(w))
    /\ \A r \in Readers \cup {None}, w \in Windows : ControlRow(Automated(r, w))
    /\ \A w \in Windows : /\ ControlRow(Human("human_login", w))
                          /\ ControlRow(Human("human_handoff", w))
    /\ \A m : ControlRow(Returned(m))
BY DEF ControlRow, Returned

LEMMA RowWritten ==
    ASSUME Typed, NEW p \in Parties, NEW row, ControlRow(row), Write(p, row) \/ LastWrite(row)
    PROVE  ControlRow(ctl') /\ current' \subseteq Parties
BY DEF Write, LastWrite

LEMMA RowRead ==
    ASSUME Typed, NEW p \in Parties, Reads(p)
    PROVE  ControlRow(ctl') /\ current' \subseteq Parties
<1>1. UNCHANGED ctl /\ current' = current \cup {p}
    BY DEF Reads
<1>2. ControlRow(ctl)
    BY DEF Typed
<1>3. ControlRow(ctl')
    BY <1>1, <1>2
<1> QED BY <1>1, <1>3 DEF Typed, SetsTyped

LEMMA RowKept ==
    ASSUME Typed, UNCHANGED << ctl, current >>
    PROVE  ControlRow(ctl') /\ current' \subseteq Parties
<1>1. ControlRow(ctl)
    BY DEF Typed
<1>2. ControlRow(ctl')
    BY <1>1
<1> QED BY <1>2 DEF Typed, SetsTyped

LEMMA PartiesKnown ==
    /\ "lock" \in Parties /\ "get" \in Parties /\ Executor \in Parties
    /\ \A r \in Readers : r \in Parties
BY SessionAssumption DEF Parties

LEMMA Entered ==
    ASSUME NEW h \in Holders, NEW at \in Places, NEW w \in Windows \cup {None},
           Enter(h, at, w), h # "readiness" => w \in Windows
    PROVE  LockTyped'
<1>1. lock' = [by |-> h, at |-> at, w |-> w]
    BY DEF Enter
<1> QED BY <1>1 DEF LockTyped

LEMMA GoneOn ==
    ASSUME LockTyped, NEW at \in Places, Goes(at)
    PROVE  LockTyped'
<1>1. lock' = [lock EXCEPT !.at = at]
    BY DEF Goes
<1> QED BY <1>1 DEF LockTyped

LEMMA Left == ASSUME lock' = Free PROVE LockTyped'
BY DEF LockTyped, Free, Places

LEMMA LockSame == ASSUME LockTyped, UNCHANGED lock PROVE LockTyped'
BY DEF LockTyped

LEMMA WinSame == ASSUME WinTyped, UNCHANGED win PROVE WinTyped'
BY DEF WinTyped

\* What retiring a window does to the table.
LEMMA RetiredWindow ==
    ASSUME WinTyped, NEW w, win' = Retired(w)
    PROVE  /\ WinTyped'
           /\ \A v \in Windows : win'[v].issued = win[v].issued /\ win'[v].late = win[v].late
           /\ \A v \in Windows : v # w => win'[v] = win[v]
<1>1. win' = [win EXCEPT ![w].used = TRUE]
    BY DEF Retired
<1>2. \A v \in Windows : win[v] \in [issued : BOOLEAN, used : BOOLEAN, late : BOOLEAN]
    BY DEF WinTyped
<1>3. \A v \in Windows : win'[v] = IF v = w THEN [win[v] EXCEPT !.used = TRUE] ELSE win[v]
    BY <1>1 DEF WinTyped
<1>4. DOMAIN win' = Windows /\ win' = [v \in Windows |-> win'[v]]
    BY <1>1 DEF WinTyped
<1>5. ASSUME NEW v \in Windows
      PROVE  win'[v] \in [issued : BOOLEAN, used : BOOLEAN, late : BOOLEAN]
    <2>1. win[v] \in [issued : BOOLEAN, used : BOOLEAN, late : BOOLEAN]
        BY <1>2
    <2>2. [win[v] EXCEPT !.used = TRUE] \in [issued : BOOLEAN, used : BOOLEAN, late : BOOLEAN]
        BY <2>1
    <2>3. win'[v] \in {win[v], [win[v] EXCEPT !.used = TRUE]}
        BY <1>3
    <2> QED BY <2>1, <2>2, <2>3
<1>6. WinTyped'
    BY <1>4, <1>5 DEF WinTyped
<1> QED BY <1>2, <1>3, <1>6

\* What issuing one does, when the login of a business session may be retired for it.
LEMMA OpenedWindow ==
    ASSUME WinTyped, NEW w \in Windows, NEW before \in {win, Retired(biz)},
           Opens(w, before)
    PROVE  /\ WinTyped' /\ latest' = w
           /\ \A v \in Windows : win'[v].late = win[v].late
           /\ \A v \in Windows : win[v].issued => win'[v].issued
           /\ \A v \in Windows : win'[v].used /\ ~win[v].used => v = biz /\ before # win
<1> DEFINE Entry == [issued : BOOLEAN, used : BOOLEAN, late : BOOLEAN]
<1>1. win \in [Windows -> Entry]
    BY DEF WinTyped
<1>2. \A v \in Windows : before[v] = win[v]
                           \/ (v = biz /\ before[v] = [win[v] EXCEPT !.used = TRUE])
    BY <1>1 DEF Retired
<1>3. DOMAIN before = Windows /\ before = [v \in Windows |-> before[v]]
    BY <1>1 DEF Retired
<1>4. ASSUME NEW v \in Windows
      PROVE  /\ before[v] \in Entry
             /\ before[v].late = win[v].late /\ before[v].issued = win[v].issued
             /\ before[v].used /\ ~win[v].used => v = biz
    <2>1. win[v] \in Entry
        BY <1>1
    <2>2. CASE before[v] = win[v]
        BY <2>1, <2>2
    <2>3. CASE v = biz /\ before[v] = [win[v] EXCEPT !.used = TRUE]
        <3>1. before[v] = [issued |-> win[v].issued, used |-> TRUE, late |-> win[v].late]
            BY <2>1, <2>3
        <3>2. win[v].issued \in BOOLEAN /\ win[v].late \in BOOLEAN
            BY <2>1
        <3>3. v = biz
            BY <2>3
        <3>4. /\ before[v] \in Entry
              /\ before[v].late = win[v].late /\ before[v].issued = win[v].issued
            BY <3>1, <3>2
        <3> QED BY <3>3, <3>4
    <2> QED BY <1>2, <2>2, <2>3
<1>5. before \in [Windows -> Entry]
    BY <1>3, <1>4
<1>6. win' = [before EXCEPT ![w].issued = TRUE] /\ latest' = w
    BY DEF Opens
<1>7. ASSUME NEW v \in Windows
      PROVE  /\ win'[v] \in Entry
             /\ win'[v].late = before[v].late /\ win'[v].used = before[v].used
             /\ before[v].issued => win'[v].issued
    BY <1>4, <1>5, <1>6
<1>8. win' \in [Windows -> Entry]
    BY <1>5, <1>6, <1>7
<1>9. \A v \in Windows : win'[v].used /\ ~win[v].used => v = biz /\ before # win
    BY <1>4, <1>7
<1>10. \A v \in Windows : /\ win'[v].late = win[v].late
                          /\ win[v].issued => win'[v].issued
    BY <1>4, <1>7
<1>11. WinTyped' /\ latest' = w
    BY <1>6, <1>8 DEF WinTyped
<1> QED BY <1>9, <1>10, <1>11

\* The three ways to issue a window.
Issues(w) == Issue(w) \/ Connect(w) \/ BusinessRead(w)

LEMMA IssuesHow ==
    ASSUME NEW w \in Windows, Issues(w)
    PROVE  /\ UNCHANGED IssueRest
           /\ \/ Opens(w, win)
              \/ biz # None /\ BusinessRead(w) /\ Opens(w, Retired(biz))
              \/ biz # None /\ BusinessRead(w) /\ win' = Retired(biz) /\ latest' = latest
           /\ UNCHANGED Sessions \/ (\E b \in {w, biz} : Joins(w, b))
BY DEF Issues, Issue, Connect, BusinessRead, MayLast, Sessions

LEMMA ReadersSame == ASSUME ReadersTyped, UNCHANGED rd PROVE ReadersTyped'
BY DEF ReadersTyped

\* A reader's step leaves the others as they are.
LEMMA ReaderMoved ==
    ASSUME ReadersTyped, NEW r \in Readers, NEW at \in Activities, NEW w \in Windows,
           Reader(r, at, w)
    PROVE  /\ ReadersTyped'
           /\ rd'[r] = [at |-> at, w |-> w]
           /\ \A q \in Readers : q # r => rd'[q] = rd[q]
BY DEF ReadersTyped, Reader

LEMMA ReaderQuit ==
    ASSUME ReadersTyped, NEW r \in Readers, Quits(r)
    PROVE  /\ ReadersTyped'
           /\ rd'[r].at = "no"
           /\ \A q \in Readers : q # r => rd'[q] = rd[q]
BY DEF ReadersTyped, Quits, NoRead, Activities

LEMMA BrowserMoved ==
    ASSUME BrowserTyped, Closes \/ Starts \/ KeepBrowser
    PROVE  BrowserTyped'
BY DEF BrowserTyped, Closes, Starts, KeepBrowser

LEMMA SawSame == ASSUME SawTyped, UNCHANGED saw PROVE SawTyped'
BY DEF SawTyped

LEMMA SawNothing == ASSUME saw' = Unseen PROVE SawTyped'
BY DEF SawTyped, Unseen

LEMMA TidySame == ASSUME TidyTyped, UNCHANGED tidy PROVE TidyTyped'
BY DEF TidyTyped

LEMMA Tidied ==
    ASSUME TidyTyped, NEW w \in Windows, NEW phase \in TidyPhases, Tidy(w, phase)
    PROVE  /\ TidyTyped' /\ tidy'[w] = phase
           /\ \A v \in Windows : v # w => tidy'[v] = tidy[v]
BY DEF TidyTyped, Tidy

LEMMA RestSame ==
    ASSUME RestTyped, UNCHANGED << kind, latest, owner, biz, peek, up >>
    PROVE  RestTyped'
BY DEF RestTyped

LEMMA SetsSame ==
    ASSUME SetsTyped, UNCHANGED << ended, pend, spent >>, current' \subseteq Parties
    PROVE  SetsTyped'
BY DEF SetsTyped

-------------------------------------------------------------------------------
(* Every step keeps the types. *)

LEMMA IssuesTyped ==
    ASSUME Typed, NEW w \in Windows, Issues(w)
    PROVE  Typed'
<1>1. /\ UNCHANGED << kind, ended, ctl, current, running, handled, lock, rd, peek, saw, spent,
                      pend, tidy, up >>
      /\ UNCHANGED << owner, biz >> \/ (\E b \in {w, biz} : Joins(w, b))
    BY IssuesHow DEF IssueRest, Sessions
<1>2. WinTyped' /\ latest' \in Windows \cup {None}
    BY IssuesHow, OpenedWindow, RetiredWindow DEF Typed, RestTyped
<1>3. owner' \in [Windows -> Windows \cup {None}] /\ biz' \in Windows \cup {None}
    BY <1>1 DEF Joins, Typed, RestTyped
<1>4. ControlRow(ctl') /\ current' \subseteq Parties
    BY <1>1, RowKept
<1>5. RestTyped' /\ SetsTyped' /\ BrowserTyped'
    BY <1>1, <1>2, <1>3, <1>4 DEF Typed, RestTyped, SetsTyped, BrowserTyped
<1>6. LockTyped' /\ ReadersTyped' /\ SawTyped' /\ TidyTyped'
    BY <1>1, LockSame, ReadersSame, SawSame, TidySame DEF Typed
<1> QED BY <1>2, <1>4, <1>5, <1>6 DEF Typed

LEMMA EnvironmentTyped ==
    ASSUME Typed,
           \/ \E w \in Windows : Expires(w) \/ JobEnds(w)
           \/ BrowserDies \/ ReadSeals
    PROVE  Typed'
<1> USE DEF Typed
<1>1. UNCHANGED << lock, rd, saw, kind, spent, pend, latest, owner, biz, peek, up, ctl,
                   current >>
    BY DEF Expires, JobEnds, BrowserDies, ReadSeals, KeepRow, Env, Rest, Sessions
<1>2. WinTyped'
    <2>1. CASE \E w \in Windows : Expires(w)
        <3> PICK w \in Windows : win' = [win EXCEPT ![w].late = TRUE]
            BY <2>1 DEF Expires
        <3> QED BY DEF WinTyped
    <2>2. CASE UNCHANGED win
        BY <2>2, WinSame
    <2>3. CASE ReadSeals
        BY <2>3, RetiredWindow DEF ReadSeals
    <2> QED BY <2>1, <2>2, <2>3 DEF JobEnds, BrowserDies
<1>3. ControlRow(ctl') /\ current' \subseteq Parties
    BY <1>1, RowKept
<1>4. TidyTyped' /\ ended' \subseteq Windows
    BY DEF Expires, JobEnds, BrowserDies, ReadSeals, Env, Rest, TidyTyped, TidyPhases,
       SetsTyped
<1>5. BrowserTyped'
    BY DEF Expires, JobEnds, BrowserDies, ReadSeals, KeepBrowser, Closes, BrowserTyped
<1>6. RestTyped'
    BY <1>1, RestSame
<1>7. LockTyped' /\ ReadersTyped' /\ SawTyped'
    BY <1>1, LockSame, ReadersSame, SawSame
<1>8. SetsTyped'
    BY <1>1, <1>3, <1>4 DEF SetsTyped
<1> QED BY <1>2, <1>3, <1>4, <1>5, <1>6, <1>7, <1>8

LEMMA SessionRouteTyped ==
    ASSUME Typed, SessionLooks \/ SessionStops \/ SessionCloses
    PROVE  Typed'
<1>1. /\ UNCHANGED << kind, latest, owner, ended, running, handled, lock, rd, saw, spent, pend,
                      tidy, up >>
      /\ biz' \in {biz, None}
    BY DEF SessionLooks, SessionStops, SessionCloses, KeepBrowser, Sessions
<1>2. WinTyped'
    BY WinSame, RetiredWindow DEF SessionLooks, SessionStops, SessionCloses, Typed
<1>3. ControlRow(ctl') /\ current' \subseteq Parties
    <2>1. UNCHANGED << ctl, current >> \/ Reads("get") \/ LastWrite(Stopped)
        BY DEF SessionLooks, SessionStops, SessionCloses, KeepRow
    <2> QED BY <2>1, RowKept, RowRead, RowWritten, RowsTyped, PartiesKnown
<1>4. /\ peek' \in [at : {"no", "missing", "stopped"}, w : Windows \cup {None},
                    owned : SUBSET Windows]
      /\ peek'.at # "no" => peek'.w # None
    <2>1. CASE peek' = NotSeen
        BY <2>1 DEF NotSeen
    <2>2. CASE SessionLooks /\ peek' # NotSeen
        <3>1. /\ HumanMode
              /\ peek' = [at |-> "missing", w |-> ctl.by, owned |-> Owned(biz)]
            BY <2>2 DEF SessionLooks
        <3>2. ctl.by \in Windows
            BY <3>1, Rows DEF Typed, ControlRow, HumanMode, Human
        <3>3. Owned(biz) \subseteq Windows
            BY DEF Owned
        <3> QED BY <3>1, <3>2, <3>3, SessionAssumption
    <2>3. CASE SessionStops /\ peek' # NotSeen
        <3>1. peek.at # "no" /\ peek' = [peek EXCEPT !.at = "stopped"]
            BY <2>3 DEF SessionStops
        <3> QED BY <3>1 DEF Typed, RestTyped
    <2> QED BY <2>1, <2>2, <2>3 DEF SessionCloses
<1>5. RestTyped'
    BY <1>1, <1>4 DEF Typed, RestTyped
<1>6. SetsTyped' /\ BrowserTyped'
    BY <1>1, <1>3 DEF Typed, SetsTyped, BrowserTyped
<1>7. LockTyped' /\ ReadersTyped' /\ SawTyped' /\ TidyTyped'
    BY <1>1, LockSame, ReadersSame, SawSame, TidySame DEF Typed
<1> QED BY <1>2, <1>3, <1>5, <1>6, <1>7 DEF Typed

\* A step that moves only windows, row, browser and lock.
LEMMA HandlerTyped ==
    ASSUME Typed, UNCHANGED Env, WinTyped', ControlRow(ctl'), current' \subseteq Parties,
           LockTyped', Closes \/ Starts \/ KeepBrowser
    PROVE  Typed'
<1>1. UNCHANGED << kind, latest, owner, biz, ended, rd, peek, saw, tidy, pend, up, spent >>
    BY DEF Env, Rest, Sessions
<1>2. ReadersTyped' /\ SawTyped' /\ TidyTyped' /\ RestTyped' /\ SetsTyped'
    BY <1>1, ReadersSame, SawSame, TidySame, RestSame, SetsSame DEF Typed
<1> QED BY <1>2, BrowserMoved DEF Typed

LEMMA HoldersAndPlaces ==
    /\ {"login", "close", "disconnect", "rebuild", "readiness", "recover",
        "validate", "reconcile", "clean"} \subseteq Holders
    /\ {"start", "take", "consume", "stop", "mark", "close", "human", "retire",
        "hand", "fail"} \subseteq Places
BY DEF Holders, Places

LEMMA PersonTyped ==
    ASSUME Typed, NEW w \in Windows,
           LoginEnters(w) \/ LoginReturns(w) \/ CloseEnters(w) \/ DisconnectEnters(w)
           \/ RebuildEnters(w)
    PROVE  Typed'
<1>1. UNCHANGED Env /\ UNCHANGED win
    BY DEF LoginEnters, LoginReturns, CloseEnters, DisconnectEnters, RebuildEnters
<1>2. \/ Write("lock", Stopped) \/ Reads("lock") \/ LastWrite(ReadyIdle)
      \/ LastWrite(Stopped) \/ Write("lock", Returned(ctl.mode))
    BY DEF LoginEnters, LoginReturns, CloseEnters, DisconnectEnters, RebuildEnters
<1>3. ControlRow(ctl') /\ current' \subseteq Parties
    BY <1>2, RowRead, RowWritten, RowsTyped, PartiesKnown
<1>4. LockTyped'
    <2>1. \/ UNCHANGED lock \/ Enter("login", "start", w) \/ Enter("close", "consume", w)
          \/ Enter("disconnect", "stop", w) \/ Enter("disconnect", "retire", w)
          \/ Enter("rebuild", "stop", w)
        BY DEF LoginEnters, LoginReturns, CloseEnters, DisconnectEnters, RebuildEnters
    <2>2. CASE UNCHANGED lock
        BY <2>2, LockSame DEF Typed
    <2>3. CASE \/ Enter("login", "start", w) \/ Enter("close", "consume", w)
               \/ Enter("disconnect", "stop", w) \/ Enter("disconnect", "retire", w)
               \/ Enter("rebuild", "stop", w)
        BY <2>3, HoldersAndPlaces, Entered
    <2> QED BY <2>1, <2>2, <2>3
<1>5. Closes \/ KeepBrowser
    BY DEF LoginEnters, LoginReturns, CloseEnters, DisconnectEnters, RebuildEnters
<1> QED BY <1>1, <1>3, <1>4, <1>5, WinSame, HandlerTyped DEF Typed

LEMMA DiscoveryTyped ==
    ASSUME Typed, NEW w \in Windows, DiscoveryStarts(w)
    PROVE  Typed'
<1>1. /\ UNCHANGED << win, lock, running >> /\ UNCHANGED Env /\ handled' = TRUE
      /\ LastWrite(Human("human_handoff", w))
    BY DEF DiscoveryStarts
<1>2. UNCHANGED << kind, latest, owner, biz, ended, rd, peek, saw, tidy, pend, up, spent >>
    BY <1>1 DEF Env, Rest, Sessions
<1>3. ControlRow(ctl') /\ current' \subseteq Parties
    BY <1>1, RowWritten, RowsTyped, PartiesKnown
<1>4. ReadersTyped' /\ SawTyped' /\ TidyTyped' /\ RestTyped' /\ SetsTyped'
    BY <1>2, <1>3, ReadersSame, SawSame, TidySame, RestSame, SetsSame DEF Typed
<1>5. WinTyped' /\ LockTyped'
    BY <1>1, WinSame, LockSame DEF Typed
<1>6. BrowserTyped'
    BY <1>1 DEF Typed, BrowserTyped
<1> QED BY <1>3, <1>4, <1>5, <1>6 DEF Typed

\* Who is in the lock has a window, but for a readiness check.
LEMMA InsideNamed ==
    ASSUME Typed, NEW h, NEW at, Inside(h, at), h # "free", h # "readiness"
    PROVE  lock.w \in Windows
BY DEF Typed, LockTyped, Inside

LEMMA HandlersTyped ==
    ASSUME Typed, Handlers
    PROVE  Typed'
<1>1. /\ UNCHANGED << kind, latest, owner, ended, rd, peek, saw, tidy, pend, up, spent >>
      /\ biz' \in {biz, None}
    BY DEF Handlers, LoginStarts, LoginTakes, CloseConsumes, CloseStops, DisconnectStops,
       RebuildStops, RebuildStarts, Env, Rest, Sessions
<1>2. WinTyped'
    <2>1. UNCHANGED win \/ win' = Retired(lock.w)
        BY DEF Handlers, LoginStarts, LoginTakes, CloseConsumes, CloseStops, DisconnectStops,
           RebuildStops, RebuildStarts
    <2> QED BY <2>1, WinSame, RetiredWindow DEF Typed
<1>3. ControlRow(ctl') /\ current' \subseteq Parties
    <2>1. \/ UNCHANGED << ctl, current >> \/ Write("lock", Stopped) \/ LastWrite(Stopped)
          \/ Write("lock", ReadyIdle) \/ LastWrite(ReadyIdle)
          \/ LoginTakes /\ LastWrite(Human("human_login", lock.w))
        BY DEF Handlers, LoginStarts, LoginTakes, CloseConsumes, CloseStops, DisconnectStops,
           RebuildStops, RebuildStarts, KeepRow
    <2>2. LoginTakes => lock.w \in Windows
        BY InsideNamed DEF LoginTakes
    <2> QED BY <2>1, <2>2, RowKept, RowWritten, RowsTyped, PartiesKnown
<1>4. LockTyped'
    <2>1. Leaves \/ Goes("take") \/ Goes("stop") \/ Goes("start")
        BY DEF Handlers, LoginStarts, LoginTakes, CloseConsumes, CloseStops, DisconnectStops,
           RebuildStops, RebuildStarts
    <2> QED BY <2>1, HoldersAndPlaces, Left, GoneOn DEF Typed, Leaves
<1>5. Closes \/ Starts \/ KeepBrowser
    BY DEF Handlers, LoginStarts, LoginTakes, CloseConsumes, CloseStops, DisconnectStops,
       RebuildStops, RebuildStarts
<1>6. ReadersTyped' /\ SawTyped' /\ TidyTyped'
    BY <1>1, ReadersSame, SawSame, TidySame DEF Typed
<1>7. RestTyped' /\ SetsTyped'
    BY <1>1, <1>3 DEF Typed, RestTyped, SetsTyped
<1> QED BY <1>2, <1>3, <1>4, <1>5, <1>6, <1>7, BrowserMoved DEF Typed

\* What an executor or a probe that is at work is at work for.
LEMMA AtWorkNamed ==
    ASSUME Typed, NEW r \in Readers, rd[r].at # "no"
    PROVE  rd[r].w \in Windows
BY DEF Typed, ReadersTyped

\* mark_stopped keeps the row and its keys typed.
LEMMA StopTyped ==
    ASSUME Typed, NEW w \in Windows, NEW by \in {"expiry", "terminal"},
           MarkStopped(<< by, w >>)
    PROVE  /\ ControlRow(ctl') /\ current' \subseteq Parties
           /\ spent' \subseteq {"expiry", "terminal"} \X Windows
<1>1. \/ UNCHANGED << ctl, current, spent >>
      \/ LastWrite(Stopped) /\ spent' = spent \cup {<< by, w >>}
    BY DEF MarkStopped, KeepRow
<1>2. spent \subseteq {"expiry", "terminal"} \X Windows
    BY DEF Typed, SetsTyped
<1>3. << by, w >> \in {"expiry", "terminal"} \X Windows
    OBVIOUS
<1>4. spent' \subseteq {"expiry", "terminal"} \X Windows
    BY <1>1, <1>2, <1>3 DEF Write, LastWrite
<1> QED BY <1>1, <1>4, RowKept, RowWritten, RowsTyped, PartiesKnown

\* A step that moves a reader, the row, the browser and what is to be handed over.
LEMMA ReadingTyped ==
    ASSUME Typed, UNCHANGED << kind, win, latest, owner, biz, ended, peek, saw, tidy >>,
           up' \in {up, "up"}, pend' \subseteq Windows,
           spent' \subseteq {"expiry", "terminal"} \X Windows,
           ControlRow(ctl'), current' \subseteq Parties, LockTyped', ReadersTyped',
           Closes \/ Starts \/ KeepBrowser
    PROVE  Typed'
<1>1. WinTyped' /\ SawTyped' /\ TidyTyped' /\ BrowserTyped'
    BY WinSame, SawSame, TidySame, BrowserMoved DEF Typed
<1>2. SetsTyped' /\ RestTyped'
    BY DEF Typed, SetsTyped, RestTyped
<1> QED BY <1>1, <1>2 DEF Typed

LEMMA ReadBeginsTyped ==
    ASSUME Typed, NEW w \in Windows, ReadBegins(w)
    PROVE  Typed'
<1>1. /\ UNCHANGED << kind, win, latest, owner, biz, ended, peek, saw, spent, tidy >>
      /\ UNCHANGED << lock, pend, up >> /\ KeepBrowser
      /\ Reader(Executor, "ready?", w) \/ Reader(Executor, "take", w)
      /\ UNCHANGED << ctl, current >> \/ Reads(Executor)
    BY DEF ReadBegins, Others, Sessions, KeepRow
<1>2. ControlRow(ctl') /\ current' \subseteq Parties
    BY <1>1, RowKept, RowRead, PartiesKnown
<1>3. LockTyped'
    BY <1>1, LockSame DEF Typed
<1>4. ReadersTyped'
    BY <1>1, ExecutorIsReader, ReaderMoved DEF Typed, Activities
<1>5. pend' \subseteq Windows /\ spent' \subseteq {"expiry", "terminal"} \X Windows
    BY <1>1 DEF Typed, SetsTyped
<1> QED BY <1>1, <1>2, <1>3, <1>4, <1>5, ReadingTyped

LEMMA ReadinessTyped ==
    ASSUME Typed, ReadinessEnters \/ ReadinessStarts \/ ReadinessMarks
    PROVE  Typed'
<1>1. /\ UNCHANGED << kind, win, latest, owner, biz, ended, peek, saw, spent, tidy >>
      /\ up' \in {up, "up"}
      /\ Starts \/ KeepBrowser
    BY DEF ReadinessEnters, ReadinessStarts, ReadinessMarks, Others, Sessions
<1>2. pend' \subseteq Windows /\ spent' \subseteq {"expiry", "terminal"} \X Windows
    <2>1. pend' \in {pend, pend \ {rd[Executor].w}, pend \ {lock.w}}
        BY DEF ReadinessEnters, ReadinessStarts, ReadinessMarks
    <2> QED BY <1>1, <2>1 DEF Typed, SetsTyped
<1>3. ControlRow(ctl') /\ current' \subseteq Parties
    <2>1. \/ UNCHANGED << ctl, current >> \/ Reads("lock") \/ Write(Executor, ReadyIdle)
          \/ /\ UNCHANGED ctl
             /\ current' \in {current \cup {Executor}, current \ {Executor}}
        BY DEF ReadinessEnters, ReadinessStarts, ReadinessMarks, KeepRow
    <2>2. CASE UNCHANGED ctl /\ current' \in {current \cup {Executor}, current \ {Executor}}
        <3>1. ControlRow(ctl)
            BY DEF Typed
        <3>2. ControlRow(ctl')
            BY <2>2, <3>1
        <3> QED BY <2>2, <3>2, PartiesKnown DEF Typed, SetsTyped
    <2> QED BY <2>1, <2>2, RowKept, RowRead, RowWritten, RowsTyped, PartiesKnown
<1>4. LockTyped'
    <2>1. \/ UNCHANGED lock \/ Leaves \/ Goes("mark")
          \/ Enter("readiness", "start", None)
          \/ Enter("readiness", "start", rd[Executor].w)
        BY DEF ReadinessEnters, ReadinessStarts, ReadinessMarks
    <2>2. rd[Executor].w \in Windows \cup {None}
        BY ExecutorIsReader DEF Typed, ReadersTyped
    <2>3. CASE Enter("readiness", "start", None)
               \/ Enter("readiness", "start", rd[Executor].w)
        BY <2>2, <2>3, HoldersAndPlaces, Entered
    <2>4. CASE UNCHANGED lock \/ Leaves \/ Goes("mark")
        BY <2>4, HoldersAndPlaces, LockSame, Left, GoneOn DEF Typed, Leaves
    <2> QED BY <2>1, <2>3, <2>4
<1>5. ReadersTyped'
    <2>1. CASE UNCHANGED rd \/ Quits(Executor)
        BY <2>1, ReadersSame, ReaderQuit, ExecutorIsReader DEF Typed
    <2>2. CASE rd[Executor].at = "ready?" /\ Reader(Executor, "wait", rd[Executor].w)
        <3>1. rd[Executor].w \in Windows
            BY <2>2, ExecutorIsReader, AtWorkNamed
        <3> QED BY <2>2, <3>1, ReaderMoved, ExecutorIsReader DEF Typed, Activities
    <2>3. CASE lock.w # None /\ Reader(Executor, "take", lock.w)
        <3>1. lock.w \in Windows
            BY <2>3 DEF Typed, LockTyped
        <3> QED BY <2>3, <3>1, ReaderMoved, ExecutorIsReader DEF Typed, Activities
    <2> QED BY <2>1, <2>2, <2>3 DEF ReadinessEnters, ReadinessStarts, ReadinessMarks
<1> QED BY <1>1, <1>2, <1>3, <1>4, <1>5, ReadingTyped

LEMMA ExecutorTyped ==
    ASSUME Typed, Acquire \/ Release \/ ExecutorCloses \/ RecoverBegins
    PROVE  Typed'
<1> DEFINE w == rd[Executor].w
<1>1. /\ UNCHANGED << kind, win, latest, owner, biz, ended, peek, saw, tidy, spent, up >>
      /\ Closes \/ KeepBrowser
    BY DEF Acquire, Release, ExecutorCloses, RecoverBegins, Others, Sessions
<1>2. w \in Windows
    BY ExecutorIsReader, AtWorkNamed DEF Acquire, Release, ExecutorCloses, RecoverBegins
<1>3. pend' \subseteq Windows /\ spent' \subseteq {"expiry", "terminal"} \X Windows
    <2>1. pend' \in {pend, pend \ {w}, pend \cup {w}}
        BY DEF Acquire, Release, ExecutorCloses, RecoverBegins
    <2> QED BY <1>1, <1>2, <2>1 DEF Typed, SetsTyped
<1>4. ControlRow(ctl') /\ current' \subseteq Parties
    <2>1. \/ UNCHANGED << ctl, current >> \/ LastWrite(ReadyIdle)
          \/ LastWrite(Automated(Executor, w)) \/ Write("lock", Recovering(w))
        BY DEF Acquire, Release, ExecutorCloses, RecoverBegins, KeepRow
    <2> HIDE DEF w
    <2> QED BY <1>2, <2>1, RowKept, RowWritten, RowsTyped, PartiesKnown, ExecutorIsReader
<1>5. LockTyped'
    <2>1. UNCHANGED lock \/ Enter("recover", "stop", w)
        BY DEF Acquire, Release, ExecutorCloses, RecoverBegins
    <2> HIDE DEF w
    <2>2. CASE Enter("recover", "stop", w)
        BY <1>2, <2>2, HoldersAndPlaces, Entered
    <2> QED BY <2>1, <2>2, LockSame DEF Typed
<1>6. ReadersTyped'
    <2>1. \/ UNCHANGED rd \/ Quits(Executor)
          \/ Reader(Executor, "reading", w) \/ Reader(Executor, "closing", w)
          \/ Reader(Executor, "recover", w)
        BY DEF Acquire, Release, ExecutorCloses, RecoverBegins
    <2> HIDE DEF w
    <2> QED BY <1>2, <2>1, ReadersSame, ReaderQuit, ReaderMoved, ExecutorIsReader
        DEF Typed, Activities
<1> HIDE DEF w
<1> QED BY <1>1, <1>3, <1>4, <1>5, <1>6, ReadingTyped

LEMMA RecoverStopsTyped ==
    ASSUME Typed, RecoverStops
    PROVE  Typed'
<1> DEFINE key == << "terminal", lock.w >>
<1>1. /\ UNCHANGED << kind, win, latest, owner, biz, ended, peek, saw, tidy, pend, up >>
      /\ Closes /\ Leaves /\ Quits(Executor)
    BY DEF RecoverStops, RecoverRest, Sessions
<1>2. lock.w \in Windows
    BY InsideNamed DEF RecoverStops
<1>3. \/ MarkStopped(key)
      \/ UNCHANGED spent /\ (LastWrite(Stopped) \/ UNCHANGED << ctl, current >>)
    BY DEF RecoverStops, KeepRow
<1> HIDE DEF key
<1>4. /\ ControlRow(ctl') /\ current' \subseteq Parties
      /\ spent' \subseteq {"expiry", "terminal"} \X Windows
    <2>1. CASE MarkStopped(key)
        BY <1>2, <2>1, StopTyped DEF key
    <2>2. CASE UNCHANGED spent /\ (LastWrite(Stopped) \/ UNCHANGED << ctl, current >>)
        BY <2>2, RowKept, RowWritten, RowsTyped, PartiesKnown DEF Typed, SetsTyped
    <2> QED BY <1>3, <2>1, <2>2
<1>5. LockTyped' /\ ReadersTyped' /\ pend' \subseteq Windows
    BY <1>1, Left, ReaderQuit, ExecutorIsReader DEF Leaves, Typed, SetsTyped
<1> QED BY <1>1, <1>4, <1>5, ReadingTyped

LEMMA ProbesTyped ==
    ASSUME Typed, NEW r \in Readers, NEW v \in Windows,
           ProbeEnds(r) \/ ValidationTakes(r) \/ ProbeBegins(r, v) \/ ValidationLooks(r, v)
    PROVE  Typed'
<1> DEFINE w == rd[r].w
<1>1. /\ UNCHANGED << kind, win, latest, owner, biz, ended, peek, saw, spent, tidy >>
      /\ UNCHANGED << lock, pend, up >>
      /\ Closes \/ KeepBrowser
    BY DEF ProbeEnds, ValidationTakes, ProbeBegins, ValidationLooks, Others, Sessions
<1>2. ValidationTakes(r) => w \in Windows
    BY AtWorkNamed DEF ValidationTakes
<1>3. ControlRow(ctl') /\ current' \subseteq Parties
    <2>1. \/ UNCHANGED << ctl, current >> \/ LastWrite(ReadyIdle) \/ Reads(r)
          \/ LastWrite(Automated(r, v))
          \/ w \in Windows /\ LastWrite(Automated(r, w))
        BY <1>2 DEF ProbeEnds, ValidationTakes, ProbeBegins, ValidationLooks, KeepRow
    <2> HIDE DEF w
    <2> QED BY <2>1, RowKept, RowRead, RowWritten, RowsTyped, PartiesKnown
<1>4. ReadersTyped'
    <2>1. \/ Quits(r) \/ Reader(r, "reading", v) \/ Reader(r, "take", v)
          \/ w \in Windows /\ Reader(r, "validating", w)
        BY <1>2 DEF ProbeEnds, ValidationTakes, ProbeBegins, ValidationLooks
    <2> HIDE DEF w
    <2> QED BY <2>1, ReaderQuit, ReaderMoved DEF Typed, Activities
<1>5. /\ LockTyped' /\ pend' \subseteq Windows
      /\ spent' \subseteq {"expiry", "terminal"} \X Windows
    BY <1>1, LockSame DEF Typed, SetsTyped
<1> HIDE DEF w
<1> QED BY <1>1, <1>3, <1>4, <1>5, ReadingTyped

LEMMA ValidationTyped ==
    ASSUME Typed, ValidationStops \/ \E r \in Readers : ValidationReturns(r)
    PROVE  Typed'
<1>1. CASE ValidationStops
    <2>1. /\ UNCHANGED Env /\ UNCHANGED win /\ Closes /\ Leaves
          /\ UNCHANGED << ctl, current >> \/ LastWrite(Stopped)
        BY <1>1 DEF ValidationStops, KeepRow
    <2>2. ControlRow(ctl') /\ current' \subseteq Parties
        BY <2>1, RowKept, RowWritten, RowsTyped, PartiesKnown
    <2> QED BY <2>1, <2>2, WinSame, Left, HandlerTyped DEF Typed, Leaves
<1>2. CASE \E r \in Readers : ValidationReturns(r)
    <2> PICK r \in Readers : ValidationReturns(r)
        BY <1>2
    <2>1. /\ rd[r].at = "validating" /\ Quits(r) /\ KeepBrowser
          /\ UNCHANGED << kind, latest, owner, biz, ended, peek, saw, spent, pend, tidy, up >>
          /\ UNCHANGED << ctl, current >> \/ Write("lock", ReadyIdle)
          /\ UNCHANGED win \/ win' = Retired(rd[r].w)
          /\ Enter("validate", "stop", rd[r].w) \/ Enter("validate", "close", rd[r].w)
        BY DEF ValidationReturns, KeepRow, Sessions
    <2>2. rd[r].w \in Windows
        BY <2>1, AtWorkNamed
    <2>3. ControlRow(ctl') /\ current' \subseteq Parties
        BY <2>1, RowKept, RowWritten, RowsTyped, PartiesKnown
    <2>4. LockTyped'
        BY <2>1, <2>2, HoldersAndPlaces, Entered
    <2>5. ReadersTyped' /\ WinTyped'
        BY <2>1, ReaderQuit, WinSame, RetiredWindow DEF Typed
    <2>6. SawTyped' /\ TidyTyped' /\ BrowserTyped' /\ SetsTyped' /\ RestTyped'
        BY <2>1, <2>3, SawSame, TidySame, BrowserMoved, SetsSame, RestSame DEF Typed
    <2> QED BY <2>3, <2>4, <2>5, <2>6 DEF Typed
<1> QED BY <1>1, <1>2

LEMMA ReconcilerTyped ==
    ASSUME Typed, Reconciling
    PROVE  Typed'
<1>1. UNCHANGED << kind, latest, owner, biz, ended, rd, peek, pend, tidy, up >>
    BY DEF Reconciling, ReconcilerLooks, ReconcilerSkips, ReconcilerEnters, ReconcilerCloses,
       ReconcilerExpels, ReconcilerRetires, ReconcilerRest, Sessions
<1>2. WinTyped'
    <2>1. UNCHANGED win \/ win' = Retired(lock.w)
        BY DEF Reconciling, ReconcilerLooks, ReconcilerSkips, ReconcilerEnters,
           ReconcilerCloses, ReconcilerExpels, ReconcilerRetires, ReconcilerRest, Sessions
    <2> QED BY <2>1, WinSame, RetiredWindow DEF Typed
<1>3. /\ ControlRow(ctl') /\ current' \subseteq Parties
      /\ spent' \subseteq {"expiry", "terminal"} \X Windows
    <2>1. spent \subseteq {"expiry", "terminal"} \X Windows
        BY DEF Typed, SetsTyped
    <2>2. CASE UNCHANGED << ctl, current, spent >>
        BY <2>1, <2>2, RowKept
    <2>3. CASE /\ UNCHANGED spent
               /\ Reads("lock") \/ LastWrite(Stopped) \/ Write("lock", Recovering(latest))
        <3>1. latest \in Windows \cup {None}
            BY DEF Typed, RestTyped
        <3> QED BY <2>1, <2>3, <3>1, RowRead, RowWritten, RowsTyped, PartiesKnown
    <2>4. CASE lock.w \in Windows /\ MarkStopped(<< "expiry", lock.w >>)
        BY <2>4, StopTyped
    <2>5. ReconcilerCloses => lock.w \in Windows
        BY InsideNamed DEF ReconcilerCloses
    <2> QED BY <2>2, <2>3, <2>4, <2>5 DEF Reconciling, ReconcilerLooks, ReconcilerSkips,
       ReconcilerEnters, ReconcilerCloses, ReconcilerExpels, ReconcilerRetires, KeepRow
<1>4. LockTyped'
    <2>1. CASE ReconcilerEnters
        <3>1. latest \in Windows
            BY <2>1 DEF ReconcilerEnters, SeenAgain, Typed, SawTyped
        <3>2. PICK at \in {"human", "retire", "close"} : Enter("reconcile", at, latest)
            BY <2>1 DEF ReconcilerEnters
        <3> QED BY <3>1, <3>2, HoldersAndPlaces, Entered
    <2>2. CASE UNCHANGED lock \/ Leaves \/ Goes("retire")
        BY <2>2, HoldersAndPlaces, LockSame, Left, GoneOn DEF Typed, Leaves
    <2> QED BY <2>1, <2>2 DEF Reconciling, ReconcilerLooks, ReconcilerSkips, ReconcilerCloses,
       ReconcilerExpels, ReconcilerRetires
<1>5. SawTyped'
    <2>1. CASE ReconcilerLooks
        <3>1. /\ latest \in Windows /\ saw' = [w |-> latest, used |-> win[latest].used]
            BY <2>1 DEF ReconcilerLooks, Typed, RestTyped
        <3>2. win[latest].used \in BOOLEAN
            BY <3>1 DEF Typed, WinTyped
        <3> QED BY <3>1, <3>2 DEF SawTyped
    <2>2. UNCHANGED saw \/ saw' = Unseen \/ ReconcilerLooks
        BY DEF Reconciling, ReconcilerSkips, ReconcilerEnters, ReconcilerCloses,
           ReconcilerExpels, ReconcilerRetires
    <2> QED BY <2>1, <2>2, SawSame, SawNothing DEF Typed
<1>6. BrowserTyped'
    <2>1. Closes \/ KeepBrowser
        BY DEF Reconciling, ReconcilerLooks, ReconcilerSkips, ReconcilerEnters,
           ReconcilerCloses, ReconcilerExpels, ReconcilerRetires
    <2> QED BY <2>1, BrowserMoved DEF Typed
<1>7. ReadersTyped' /\ TidyTyped' /\ RestTyped'
    BY <1>1, ReadersSame, TidySame, RestSame DEF Typed
<1>8. SetsTyped'
    BY <1>1, <1>3 DEF Typed, SetsTyped
<1> QED BY <1>2, <1>3, <1>4, <1>5, <1>6, <1>7, <1>8 DEF Typed

LEMMA PhasesKnown ==
    /\ {"no", "due", "wasOpen", "wasUsed", "handoff"} \subseteq TidyPhases
    /\ \A w : AfterStop(w) \in TidyPhases
BY DEF TidyPhases, AfterStop

LEMMA CleanupTyped ==
    ASSUME Typed, Cleaning
    PROVE  Typed'
<1>1. UNCHANGED << kind, latest, owner, biz, ended, rd, peek, saw, up >>
    BY DEF Cleaning, CleanupRetires, CleanupEnters, CleanupPasses, Ends, HandoffEnters,
       CleanupStops, HandoffTakes, HandoffFails, CleanupRest, Sessions
<1>2. CleanupStops \/ HandoffTakes \/ HandoffFails => lock.w \in Windows
    BY InsideNamed DEF CleanupStops, Ends, HandoffTakes, HandoffFails
<1>3. WinTyped'
    <2>1. UNCHANGED win \/ \E w \in Windows : win' = Retired(w)
        BY DEF Cleaning, CleanupRetires, CleanupEnters, CleanupPasses, Ends, HandoffEnters,
           CleanupStops, HandoffTakes, HandoffFails
    <2> QED BY <2>1, WinSame, RetiredWindow DEF Typed
<1>4. /\ ControlRow(ctl') /\ current' \subseteq Parties
      /\ spent' \subseteq {"expiry", "terminal"} \X Windows
    <2>1. spent \subseteq {"expiry", "terminal"} \X Windows
        BY DEF Typed, SetsTyped
    <2>2. CASE UNCHANGED << ctl, current, spent >>
        BY <2>1, <2>2, RowKept
    <2>3. CASE /\ UNCHANGED spent
               /\ \/ Reads("lock") \/ LastWrite(Stopped)
                  \/ \E w \in Windows : \/ Write("lock", Recovering(w))
                                        \/ LastWrite(Recovering(w))
                                        \/ LastWrite(Human("human_handoff", w))
        BY <2>1, <2>3, RowRead, RowWritten, RowsTyped, PartiesKnown
    <2>4. CASE CleanupStops
        BY <1>2, <2>2, <2>3, <2>4, StopTyped DEF CleanupStops, Ends, KeepRow
    <2>5. CASE HandoffFails
        <3>1. \/ UNCHANGED << ctl, current, spent >>
              \/ LastWrite(Stopped) /\ spent' = spent \cup {<< "terminal", lock.w >>}
            BY <2>5 DEF HandoffFails, KeepRow
        <3>2. << "terminal", lock.w >> \in {"expiry", "terminal"} \X Windows
            BY <1>2, <2>5
        <3>3. spent' \subseteq {"expiry", "terminal"} \X Windows
            BY <2>1, <3>1, <3>2
        <3> QED BY <3>1, <3>3, RowKept, RowWritten, RowsTyped, PartiesKnown
    <2>6. CASE HandoffTakes
        BY <1>2, <2>2, <2>3, <2>6 DEF HandoffTakes, KeepRow
    <2>7. CASE \E w \in Windows : CleanupRetires(w) \/ CleanupEnters(w)
                                  \/ CleanupPasses(w) \/ HandoffEnters(w)
        BY <2>2, <2>3, <2>7 DEF CleanupRetires, CleanupEnters, CleanupPasses, Ends,
           HandoffEnters, KeepRow
    <2> QED BY <2>4, <2>5, <2>6, <2>7 DEF Cleaning
<1>5. LockTyped'
    <2>1. CASE UNCHANGED lock \/ Leaves \/ Goes("fail")
        BY <2>1, HoldersAndPlaces, LockSame, Left, GoneOn DEF Typed, Leaves
    <2>2. CASE \E w \in Windows, at \in {"human", "stop", "hand", "fail"} : Enter("clean", at, w)
        BY <2>2, HoldersAndPlaces, Entered
    <2>3. CASE \E w \in Windows : CleanupRetires(w) \/ CleanupEnters(w)
                                  \/ CleanupPasses(w) \/ HandoffEnters(w)
        BY <2>1, <2>2, <2>3 DEF CleanupRetires, CleanupEnters, CleanupPasses, Ends,
           HandoffEnters
    <2> QED BY <2>1, <2>3 DEF Cleaning, CleanupStops, Ends, HandoffTakes, HandoffFails
<1>6. TidyTyped'
    <2>1. CASE UNCHANGED tidy
        BY <2>1, TidySame DEF Typed
    <2>2. CASE \E w \in Windows, phase \in TidyPhases : Tidy(w, phase)
        BY <2>2, Tidied DEF Typed
    <2>3. CASE \E w \in Windows : CleanupRetires(w) \/ CleanupEnters(w)
                                  \/ CleanupPasses(w) \/ HandoffEnters(w)
        BY <2>1, <2>2, <2>3, PhasesKnown DEF CleanupRetires, CleanupEnters, CleanupPasses,
           Ends, HandoffEnters
    <2>4. CASE CleanupStops \/ HandoffTakes \/ HandoffFails
        BY <1>2, <2>1, <2>2, <2>4, PhasesKnown DEF CleanupStops, Ends, HandoffTakes,
           HandoffFails
    <2> QED BY <2>3, <2>4 DEF Cleaning
<1>7. BrowserTyped'
    BY DEF Cleaning, CleanupRetires, CleanupEnters, CleanupPasses, Ends, HandoffEnters,
       CleanupStops, HandoffTakes, HandoffFails, Closes, KeepBrowser, Typed, BrowserTyped
<1>8. pend' \subseteq Windows
    <2>1. pend' \subseteq pend
        BY DEF Cleaning, CleanupRetires, CleanupEnters, CleanupPasses, Ends, HandoffEnters,
           CleanupStops, HandoffTakes, HandoffFails
    <2> QED BY <2>1 DEF Typed, SetsTyped
<1>9. ReadersTyped' /\ SawTyped' /\ RestTyped' /\ SetsTyped'
    BY <1>1, <1>4, <1>8, ReadersSame, SawSame, RestSame DEF Typed, SetsTyped
<1> QED BY <1>3, <1>4, <1>5, <1>6, <1>7, <1>9 DEF Typed

LEMMA LivesTyped ==
    ASSUME Typed, Crash \/ Exit \/ Boot
    PROVE  Typed'
<1>1. CASE Crash \/ Exit
    <2>1. /\ Gone /\ ctl' \in {ctl, Stopped} /\ biz' \in {biz, None}
          /\ UNCHANGED win \/ win' = Retired(biz)
          /\ ended' \subseteq Windows
        BY <1>1 DEF Crash, Exit, Typed, SetsTyped
    <2>2. ControlRow(ctl')
        <3>1. ControlRow(ctl) /\ ControlRow(Stopped)
            BY RowsTyped DEF Typed
        <3> QED BY <2>1, <3>1
    <2>3. LockTyped' /\ SawTyped'
        BY <2>1, Left, SawNothing DEF Gone
    <2>4. ReadersTyped' /\ TidyTyped'
        BY <2>1 DEF Gone, ReadersTyped, TidyTyped, TidyPhases, NoRead, Activities
    <2>5. BrowserTyped' /\ SetsTyped'
        BY <2>1 DEF Gone, Closes, Typed, BrowserTyped, SetsTyped
    <2>6. RestTyped'
        BY <2>1 DEF Gone, NotSeen, Typed, RestTyped
    <2>7. WinTyped'
        BY <2>1, WinSame, RetiredWindow DEF Typed
    <2> QED BY <2>2, <2>3, <2>4, <2>5, <2>6, <2>7 DEF Typed
<1>2. CASE Boot
    <2>1. UNCHANGED << kind, latest, owner, biz, current, running, handled, lock, rd, peek,
                       saw, spent, pend, tidy >>
        BY <1>2 DEF Boot, Sessions
    <2>2. PICK R \in SUBSET Windows :
              win' = [w \in Windows |-> IF w \in R THEN [win[w] EXCEPT !.used = TRUE]
                                       ELSE win[w]]
        BY <1>2 DEF Boot
    <2>3. WinTyped'
        <3>1. \A w \in Windows : win[w] \in [issued : BOOLEAN, used : BOOLEAN, late : BOOLEAN]
            BY DEF Typed, WinTyped
        <3>2. \A w \in Windows : win'[w] \in [issued : BOOLEAN, used : BOOLEAN, late : BOOLEAN]
            BY <2>2, <3>1
        <3> QED BY <2>2, <3>2 DEF WinTyped
    <2>4. ControlRow(ctl')
        <3>1. ControlRow(ctl)
            BY DEF Typed
        <3>2. \A r, w : Automated(r, w).job = w
            BY DEF Automated
        <3>3. ctl.mode = "automated" => ctl.job \in Windows
            BY <3>1, <3>2, Rows DEF ControlRow
        <3>4. ControlRow(BootRow(ctl))
            BY <3>1, <3>3, BootRowKinds, RowsTyped
        <3> QED BY <1>2, <3>4 DEF Boot
    <2>5. SetsTyped' /\ RestTyped'
        BY <1>2, <2>1 DEF Boot, Typed, SetsTyped, RestTyped
    <2>6. LockTyped' /\ ReadersTyped' /\ SawTyped' /\ TidyTyped' /\ BrowserTyped'
        BY <2>1, LockSame, ReadersSame, SawSame, TidySame DEF Typed, BrowserTyped
    <2> QED BY <2>3, <2>4, <2>5, <2>6 DEF Typed
<1> QED BY <1>1, <1>2

LEMMA InitTyped == Init => Typed
<1> SUFFICES ASSUME Init PROVE Typed
    OBVIOUS
<1>1. ControlRow(ctl)
    BY RowsTyped DEF Init
<1>2. LockTyped
    BY DEF Init, LockTyped, Free, Places
<1>3. ReadersTyped /\ TidyTyped
    BY DEF Init, ReadersTyped, NoRead, Activities, TidyTyped, TidyPhases
<1>4. WinTyped /\ SawTyped /\ BrowserTyped
    BY DEF Init, WinTyped, SawTyped, Unseen, BrowserTyped
<1>5. SetsTyped /\ RestTyped
    BY DEF Init, NotSeen, SetsTyped, RestTyped
<1> QED BY <1>1, <1>2, <1>3, <1>4, <1>5 DEF Typed

LEMMA NextTyped == Typed /\ [Next]_vars => Typed'
<1> SUFFICES ASSUME Typed, [Next]_vars PROVE Typed'
    OBVIOUS
<1>1. CASE UNCHANGED vars
    <2>1. UNCHANGED << kind, win, latest, owner, biz, ended, ctl, current, running,
                       handled, lock, rd, peek, saw, spent, pend, tidy, up >>
        BY <1>1 DEF vars
    <2>2. WinTyped' /\ LockTyped' /\ ReadersTyped' /\ SawTyped' /\ TidyTyped'
        BY <2>1, WinSame, LockSame, ReadersSame, SawSame, TidySame DEF Typed
    <2>3. ControlRow(ctl') /\ current' \subseteq Parties
        BY <2>1, RowKept
    <2>4. BrowserTyped' /\ SetsTyped' /\ RestTyped'
        BY <2>1, <2>3, SetsSame, RestSame DEF Typed, BrowserTyped
    <2> QED BY <2>2, <2>3, <2>4 DEF Typed
<1>2. CASE Person
    BY <1>2, PersonTyped, DiscoveryTyped DEF Person
<1>3. CASE Executing
    BY <1>3, ReadinessTyped, ExecutorTyped, RecoverStopsTyped, EnvironmentTyped
    DEF Executing
<1>4. CASE Probing
    <2>1. CASE \E r \in Readers : ProbeEnds(r) \/ ValidationTakes(r)
        <3>1. PICK r \in Readers : ProbeEnds(r) \/ ValidationTakes(r)
            BY <2>1
        <3>2. rd[r].at # "no"
            BY <3>1 DEF ProbeEnds, ValidationTakes
        <3>3. rd[r].w \in Windows
            BY <3>2, AtWorkNamed
        <3> QED BY <3>1, <3>3, ProbesTyped
    <2> QED BY <1>4, <2>1, ProbesTyped, ValidationTyped DEF Probing
<1>5. CASE \E w \in Windows : Issues(w) \/ Expires(w) \/ JobEnds(w) \/ ReadBegins(w)
    BY <1>5, IssuesTyped, EnvironmentTyped, ReadBeginsTyped
<1>6. CASE Next
    BY <1>2, <1>3, <1>4, <1>5, <1>6, EnvironmentTyped, SessionRouteTyped, HandlersTyped,
       ReconcilerTyped, CleanupTyped, LivesTyped DEF Next, Issues
<1> QED BY <1>1, <1>6

\* For any number of windows, readers and lives: every variable keeps its type, and
\* the row is always one of the records that a handler, a reader, a recovery or
\* start-up writes.
THEOREM SessionTyped == Spec => []TypeOK
<1> QED BY InitTyped, NextTyped, TypedIsTypeOK, PTL DEF Spec

-------------------------------------------------------------------------------
(* Windows: what they were when somebody set out because of them, they still are. *)

\* The reconciler works on a window that has expired, the cleanup on jobs that have
\* ended and are rows of jobs.
ReconciledIsLate == lock.by = "reconcile" => win[lock.w].late
CleanedHasEnded == lock.by = "clean" => lock.w \in ended /\ InJobs(lock.w)
TidiedHasEnded == \A w \in Windows : tidy[w] # "no" => w \in ended /\ InJobs(w)

WindowInv == ReconciledIsLate /\ CleanedHasEnded /\ TidiedHasEnded

\* What has been issued, has expired or has ended stays so.
Grows ==
    /\ kind' = kind
    /\ ended \subseteq ended'
    /\ \A w \in Windows : win[w].issued => win'[w].issued
    /\ \A w \in Windows : win[w].late => win'[w].late

LEMMA WindowsGrow == ASSUME Typed, Next PROVE Grows
<1> USE DEF Typed
<1>1. kind' = kind
    BY DEF Next, Issue, Issues, Connect, BusinessRead, IssueRest, Expires, JobEnds,
       ReadBegins, BrowserDies, SessionLooks, SessionStops, SessionCloses, Person,
       LoginEnters, DiscoveryStarts, LoginReturns, CloseEnters, DisconnectEnters,
       RebuildEnters, Handlers, LoginStarts, LoginTakes, CloseConsumes, CloseStops,
       DisconnectStops, RebuildStops, RebuildStarts, Executing, ReadinessEnters,
       ReadinessStarts, ReadinessMarks, Acquire, Release, ExecutorCloses, RecoverBegins,
       RecoverStops, ReadSeals, RecoverRest, Probing, ProbeEnds, ValidationTakes,
       ValidationReturns, ProbeBegins, ValidationLooks, ValidationStops, Reconciling,
       ReconcilerLooks, ReconcilerSkips, ReconcilerEnters, ReconcilerCloses, ReconcilerExpels,
       ReconcilerRetires, Cleaning, CleanupRetires, CleanupEnters, CleanupPasses, Ends,
       HandoffEnters, CleanupStops, HandoffTakes, HandoffFails, Crash, Exit, Gone, Boot, Env,
       Rest, Sessions, Others, ReconcilerRest, CleanupRest
<1>2. ended \subseteq ended'
    BY DEF Next, Issue, Issues, Connect, BusinessRead, IssueRest, Expires, JobEnds,
       ReadBegins, BrowserDies, SessionLooks, SessionStops, SessionCloses, Person,
       LoginEnters, DiscoveryStarts, LoginReturns, CloseEnters, DisconnectEnters,
       RebuildEnters, Handlers, LoginStarts, LoginTakes, CloseConsumes, CloseStops,
       DisconnectStops, RebuildStops, RebuildStarts, Executing, ReadinessEnters,
       ReadinessStarts, ReadinessMarks, Acquire, Release, ExecutorCloses, RecoverBegins,
       RecoverStops, ReadSeals, RecoverRest, Probing, ProbeEnds, ValidationTakes,
       ValidationReturns, ProbeBegins, ValidationLooks, ValidationStops, Reconciling,
       ReconcilerLooks, ReconcilerSkips, ReconcilerEnters, ReconcilerCloses, ReconcilerExpels,
       ReconcilerRetires, Cleaning, CleanupRetires, CleanupEnters, CleanupPasses, Ends,
       HandoffEnters, CleanupStops, HandoffTakes, HandoffFails, Crash, Exit, Gone, Boot, Env,
       Rest, Sessions, Others, ReconcilerRest, CleanupRest
<1>3. /\ \A w \in Windows : win[w].issued => win'[w].issued
      /\ \A w \in Windows : win[w].late => win'[w].late
    <2>0. \A w \in Windows : win[w] \in [issued : BOOLEAN, used : BOOLEAN, late : BOOLEAN]
        BY DEF WinTyped
    <2>1. CASE UNCHANGED win
        BY <2>1
    <2>2. CASE \E w : win' = Retired(w)
        BY <2>2, RetiredWindow
    <2>3. CASE \E w \in Windows : Issues(w)
        BY <2>3, IssuesHow, OpenedWindow, RetiredWindow
    <2>4. CASE \E w \in Windows : Expires(w)
        <3>1. PICK w \in Windows : win' = [win EXCEPT ![w].late = TRUE]
            BY <2>4 DEF Expires
        <3> QED BY <2>0, <3>1 DEF WinTyped
    <2>5. CASE Boot
        <3>1. PICK R \in SUBSET Windows :
                  win' = [w \in Windows |-> IF w \in R THEN [win[w] EXCEPT !.used = TRUE]
                                            ELSE win[w]]
            BY <2>5 DEF Boot
        <3> QED BY <2>0, <3>1
    <2>6. CASE Executing
        BY <2>1, <2>2, <2>6 DEF Executing, ReadinessEnters, ReadinessStarts, ReadinessMarks,
           Acquire, Release, ExecutorCloses, RecoverBegins, RecoverStops, ReadSeals,
           RecoverRest, Others, Sessions
    <2>7. CASE Probing
        BY <2>1, <2>2, <2>7 DEF Probing, ProbeEnds, ValidationTakes, ValidationReturns,
           ProbeBegins, ValidationLooks, ValidationStops, Others, Sessions
    <2>8. CASE Person \/ Handlers
        BY <2>1, <2>2, <2>8 DEF Person, LoginEnters, DiscoveryStarts, LoginReturns,
           CloseEnters, DisconnectEnters, RebuildEnters, Handlers, LoginStarts, LoginTakes,
           CloseConsumes, CloseStops, DisconnectStops, RebuildStops, RebuildStarts
    <2>9. CASE Reconciling \/ Cleaning
        BY <2>1, <2>2, <2>9 DEF Reconciling, ReconcilerLooks, ReconcilerSkips,
           ReconcilerEnters, ReconcilerCloses, ReconcilerExpels, ReconcilerRetires,
           ReconcilerRest, Sessions, Cleaning, CleanupRetires, CleanupEnters, CleanupPasses,
           Ends, HandoffEnters, CleanupStops, HandoffTakes, HandoffFails
    <2>10. CASE Crash \/ Exit
        BY <2>1, <2>2, <2>10 DEF Crash, Exit
    <2>11. CASE \/ \E w \in Windows : JobEnds(w) \/ ReadBegins(w)
                \/ BrowserDies \/ SessionLooks \/ SessionStops \/ SessionCloses
        BY <2>1, <2>2, <2>11 DEF JobEnds, ReadBegins, Others, Sessions, BrowserDies,
           SessionLooks, SessionStops, SessionCloses
    <2> QED BY <2>3, <2>4, <2>5, <2>6, <2>7, <2>8, <2>9, <2>10, <2>11 DEF Next, Issues
<1> QED BY <1>1, <1>2, <1>3 DEF Grows

\* Who comes to the lock for the expiry or the end of a window.
LockOwner ==
    \/ lock'.by \notin {"reconcile", "clean"}
    \/ lock'.by = lock.by /\ lock'.w = lock.w
    \/ ReconcilerEnters /\ lock'.by = "reconcile" /\ lock'.w = latest
    \/ \E w \in Windows : /\ CleanupEnters(w) \/ HandoffEnters(w)
                          /\ lock'.by = "clean" /\ lock'.w = w

LEMMA OwnerKnown == ASSUME Typed, Next PROVE LockOwner
<1>1. CASE UNCHANGED lock
    BY <1>1 DEF LockOwner
<1>2. CASE Leaves
    BY <1>2 DEF Leaves, Free, LockOwner
<1>3. CASE \E at : Goes(at)
    <2>1. LockInv \/ lock = [by |-> lock.by, at |-> lock.at, w |-> lock.w]
        BY DEF Typed, LockTyped
    <2>2. lock'.by = lock.by /\ lock'.w = lock.w
        BY <1>3, <2>1 DEF Goes, LockInv
    <2> QED BY <2>2 DEF LockOwner
<1>4. CASE \E h \in Holders \ {"reconcile", "clean"} : \E at, w : Enter(h, at, w)
    BY <1>4 DEF Enter, LockOwner
<1>5. CASE ReconcilerEnters
    <2>1. \E at : Enter("reconcile", at, latest)
        BY <1>5 DEF ReconcilerEnters
    <2> QED BY <1>5, <2>1 DEF Enter, LockOwner
<1>6. CASE \E w \in Windows : CleanupEnters(w) \/ HandoffEnters(w)
    <2>1. PICK w \in Windows : CleanupEnters(w) \/ HandoffEnters(w)
        BY <1>6
    <2>2. \E at : Enter("clean", at, w)
        BY <2>1 DEF CleanupEnters, HandoffEnters
    <2> QED BY <2>1, <2>2 DEF Enter, LockOwner
<1>7. CASE Person \/ Handlers
    <2>1. \/ UNCHANGED lock \/ Leaves \/ \E at : Goes(at)
          \/ \E h \in {"login", "close", "disconnect", "rebuild"} : \E at, w : Enter(h, at, w)
        BY <1>7 DEF Person, LoginEnters, DiscoveryStarts, LoginReturns, CloseEnters,
           DisconnectEnters, RebuildEnters, Handlers, LoginStarts, LoginTakes, CloseConsumes,
           CloseStops, DisconnectStops, RebuildStops, RebuildStarts
    <2> QED BY <1>1, <1>2, <1>3, <1>4, <2>1, HoldersAndPlaces
<1>8. CASE Executing \/ Probing
    <2>1. \/ UNCHANGED lock \/ Leaves \/ \E at : Goes(at)
          \/ \E h \in {"readiness", "recover", "validate"} : \E at, w : Enter(h, at, w)
        BY <1>8 DEF Executing, ReadinessEnters, ReadinessStarts, ReadinessMarks, Acquire,
           Release, ExecutorCloses, RecoverBegins, RecoverStops, ReadSeals, RecoverRest,
           Sessions, Probing, ProbeEnds, ValidationTakes, ValidationReturns, ProbeBegins,
           ValidationLooks, ValidationStops
    <2> QED BY <1>1, <1>2, <1>3, <1>4, <2>1, HoldersAndPlaces
<1>9. CASE Reconciling \/ Cleaning
    <2>1. \/ UNCHANGED lock \/ Leaves \/ \E at : Goes(at)
          \/ ReconcilerEnters \/ \E w \in Windows : CleanupEnters(w) \/ HandoffEnters(w)
        BY <1>9 DEF Reconciling, ReconcilerLooks, ReconcilerSkips, ReconcilerCloses,
           ReconcilerExpels, ReconcilerRetires, Cleaning, CleanupRetires, CleanupPasses, Ends,
           CleanupStops, HandoffTakes, HandoffFails
    <2> QED BY <1>1, <1>2, <1>3, <1>5, <1>6, <2>1
<1>10. CASE Crash \/ Exit \/ Boot
    BY <1>1, <1>2, <1>10 DEF Crash, Exit, Gone, Boot, Leaves, Sessions
<1>11. CASE \/ \E w \in Windows : Issues(w) \/ Expires(w) \/ JobEnds(w) \/ ReadBegins(w)
            \/ BrowserDies \/ SessionLooks \/ SessionStops \/ SessionCloses
    BY <1>1, <1>11 DEF Issue, Issues, Connect, BusinessRead, IssueRest, Sessions, Expires,
       JobEnds, ReadBegins, BrowserDies, SessionLooks, SessionStops, SessionCloses
<1> QED BY <1>7, <1>8, <1>9, <1>10, <1>11 DEF Next, Issues

\* The cleanup works on what it has been told has ended.
LEMMA CleaningOnEnded ==
    ASSUME WindowInv, NEW w \in Windows, CleanupEnters(w) \/ HandoffEnters(w)
    PROVE  w \in ended /\ InJobs(w)
<1>1. tidy[w] # "no"
    BY DEF CleanupEnters, HandoffEnters, Tidying
<1> QED BY <1>1 DEF WindowInv, TidiedHasEnded

LEMMA OwnerStep ==
    ASSUME Typed, WindowInv, Next
    PROVE  ReconciledIsLate' /\ CleanedHasEnded'
<1>1. LockOwner /\ Grows
    BY OwnerKnown, WindowsGrow
<1>2. lock.by \in {"reconcile", "clean"} => lock.w \in Windows
    BY DEF Typed, LockTyped
<1>3. ReconcilerEnters => latest \in Windows /\ win[latest].late
    BY DEF ReconcilerEnters, SeenAgain, Typed, SawTyped
<1>4. ReconciledIsLate'
    BY <1>1, <1>2, <1>3 DEF LockOwner, Grows, WindowInv, ReconciledIsLate
<1>6. lock'.by = "clean" => lock'.w \in ended /\ InJobs(lock'.w)
    BY <1>1, CleaningOnEnded DEF LockOwner, WindowInv, CleanedHasEnded
<1>7. CleanedHasEnded'
    BY <1>1, <1>6 DEF CleanedHasEnded, Grows, InJobs
<1> QED BY <1>4, <1>7

LEMMA TidiedStep == ASSUME Typed, WindowInv, Next PROVE TidiedHasEnded'
<1>1. Grows /\ \A w : InJobs(w)' = InJobs(w)
    BY WindowsGrow DEF InJobs, Grows
<1>2. ASSUME NEW v \in Windows, v \in ended', InJobs(v),
             \A w \in Windows : w # v => tidy'[w] \in {tidy[w], "no"}
      PROVE  TidiedHasEnded'
    BY <1>1, <1>2 DEF TidiedHasEnded, WindowInv, Grows, InJobs
<1>3. CASE UNCHANGED tidy
    BY <1>1, <1>3 DEF TidiedHasEnded, WindowInv, Grows, InJobs
<1>4. CASE Crash \/ Exit
    BY <1>4 DEF Crash, Exit, Gone, TidiedHasEnded
<1>5. CASE \E w \in Windows : JobEnds(w)
    <2>1. PICK w \in Windows : JobEnds(w)
        BY <1>5
    <2> QED BY <1>2, <2>1 DEF JobEnds, Typed, TidyTyped
<1>6. ASSUME NEW w \in Windows, NEW phase \in TidyPhases, Tidy(w, phase),
             w \in ended /\ InJobs(w)
      PROVE  TidiedHasEnded'
    <2>1. \A v \in Windows : v # w => tidy'[v] = tidy[v]
        BY <1>6, Tidied DEF Typed
    <2>2. w \in ended'
        BY <1>1, <1>6 DEF Grows
    <2> QED BY <1>2, <1>6, <2>1, <2>2
<1>7. CASE \E w \in Windows : CleanupRetires(w) \/ CleanupPasses(w)
    <2>1. PICK w \in Windows : CleanupRetires(w) \/ CleanupPasses(w)
        BY <1>7
    <2>2. tidy[w] # "no"
        BY <2>1 DEF CleanupRetires, CleanupPasses, Ends, Tidying
    <2>3. PICK phase \in TidyPhases : Tidy(w, phase)
        BY <2>1, PhasesKnown DEF CleanupRetires, CleanupPasses, Ends
    <2> QED BY <1>6, <2>2, <2>3 DEF WindowInv, TidiedHasEnded
<1>8. CASE CleanupStops \/ HandoffTakes \/ HandoffFails
    <2>1. lock.by = "clean"
        BY <1>8 DEF CleanupStops, Ends, HandoffTakes, HandoffFails, Inside
    <2>2. lock.w \in Windows /\ lock.w \in ended /\ InJobs(lock.w)
        BY <2>1 DEF WindowInv, CleanedHasEnded, Typed, LockTyped
    <2>3. UNCHANGED tidy \/ \E phase \in TidyPhases : Tidy(lock.w, phase)
        BY <1>8, PhasesKnown DEF CleanupStops, Ends, HandoffTakes, HandoffFails
    <2> QED BY <1>3, <1>6, <2>2, <2>3
<1>9. CASE Person \/ Handlers \/ Reconciling
    BY <1>3, <1>9 DEF Person, LoginEnters, DiscoveryStarts, LoginReturns, CloseEnters,
       DisconnectEnters, RebuildEnters, Handlers, LoginStarts, LoginTakes, CloseConsumes,
       CloseStops, DisconnectStops, RebuildStops, RebuildStarts, Reconciling, ReconcilerLooks,
       ReconcilerSkips, ReconcilerEnters, ReconcilerCloses, ReconcilerExpels,
       ReconcilerRetires, ReconcilerRest, Env, Rest, Sessions
<1>10. CASE Executing \/ Probing
    BY <1>3, <1>10 DEF Executing, ReadinessEnters, ReadinessStarts, ReadinessMarks, Acquire,
       Release, ExecutorCloses, RecoverBegins, RecoverStops, ReadSeals, RecoverRest, Probing,
       ProbeEnds, ValidationTakes, ValidationReturns, ProbeBegins, ValidationLooks,
       ValidationStops, Others, Env, Rest, Sessions
<1>11. CASE \/ \E w \in Windows : Issues(w) \/ Expires(w) \/ ReadBegins(w)
            \/ BrowserDies \/ SessionLooks \/ SessionStops \/ SessionCloses \/ Boot
            \/ \E w \in Windows : CleanupEnters(w) \/ HandoffEnters(w)
    BY <1>3, <1>11 DEF Issue, Issues, Connect, BusinessRead, IssueRest, Expires, ReadBegins,
       BrowserDies, SessionLooks, SessionStops, SessionCloses, Boot, CleanupEnters,
       HandoffEnters, Others, Env, Rest, Sessions
<1> QED BY <1>4, <1>5, <1>7, <1>8, <1>9, <1>10, <1>11 DEF Next, Issues, Cleaning

LEMMA WindowStep == Typed /\ WindowInv /\ [Next]_vars => WindowInv'
<1> SUFFICES ASSUME Typed, WindowInv, [Next]_vars PROVE WindowInv'
    OBVIOUS
<1>1. CASE UNCHANGED vars
    BY <1>1 DEF vars, WindowInv, ReconciledIsLate, CleanedHasEnded, TidiedHasEnded, InJobs
<1>2. CASE Next
    BY <1>2, OwnerStep, TidiedStep DEF WindowInv
<1> QED BY <1>1, <1>2

LEMMA InitWindow == Init => WindowInv
BY DEF Init, WindowInv, ReconciledIsLate, CleanedHasEnded, TidiedHasEnded, Free

-------------------------------------------------------------------------------
(* The row, as long as somebody is in the lock because of it. *)

\* While a person has control nobody is in the lock but who takes it from them for
\* the end of their own window, or who has found out that the row is not theirs.
PersonLock ==
    HumanMode => \/ lock.by = "free"
                 \/ lock.by \in {"reconcile", "clean"} /\ lock.at = "human"
                                                       /\ ctl.by = lock.w
                 \/ lock.by = "clean" /\ lock.at = "fail"
                 \/ lock.by = "validate" /\ lock.at = "close"

\* A handler whose reading is the row's version finds the row as it was.
AsFound ==
    Fresh => /\ lock.by = "rebuild" => Idle
             /\ lock.at = "human" => HumanMode
             /\ lock.at = "hand" => ctl = ReadyIdle

\* A free lock is nobody's, at no place.
FreeIsFree == lock.by = "free" => lock = Free

LockGuard == PersonLock /\ AsFound /\ FreeIsFree

\* The session route stops no reader's row, and a person's only if the browser is gone.
SeenMissing == "get" \in current => ctl.mode # "automated" /\ (HumanMode => ~running)

\* A process that has ended leaves nobody in the lock and no browser.
DownIsQuiet == ~Serving => ~running /\ lock = Free

RowGuard == LockGuard /\ SeenMissing /\ DownIsQuiet

LEMMA RowKinds ==
    ASSUME Typed
    PROVE  /\ ctl.mode \in {"idle", "automated", "human_login", "human_handoff"}
           /\ HumanMode => ctl.by \in Windows /\ ctl.life = "ready"
           /\ ctl.mode = "automated" => ctl.by \in Readers \cup {None} /\ ctl.job \in Windows
           /\ ctl.mode = "automated" => ctl.life = "ready"
           /\ Idle => ~HumanMode /\ ctl.mode # "automated"
           /\ ctl.mode = "automated" => ~HumanMode
<1>1. ControlRow(ctl)
    BY DEF Typed
<1>2. /\ \A r, w : Automated(r, w).by = r /\ Automated(r, w).job = w
      /\ \A m, w : Human(m, w).by = w
    BY DEF Automated, Human
<1> QED BY <1>1, <1>2, Rows DEF ControlRow, HumanMode, Idle

\* What the records are for: none but a person's has a person, and so on.
LEMMA RowModes ==
    /\ \A row : row = Stopped \/ row = ReadyIdle
                \/ (\E w : row = Recovering(w)) \/ (\E m : row = Returned(m))
                => row.mode = "idle"
    /\ \A r, w : Automated(r, w).mode = "automated"
    /\ \A m, w : Human(m, w).by = w /\ Human(m, w).mode = m
BY Rows DEF Returned, Human

\* The three ways in which a step leaves the lock sound.
LEMMA GuardFree ==
    ASSUME lock' = Free
    PROVE  LockGuard'
BY DEF LockGuard, PersonLock, AsFound, FreeIsFree, Free

LEMMA GuardKept ==
    ASSUME LockGuard, UNCHANGED lock,
           \/ UNCHANGED ctl /\ ("lock" \in current' => Fresh)
           \/ "lock" \notin current' /\ ctl'.mode \in {"idle", "automated"}
    PROVE  LockGuard'
<1>1. PersonLock'
    BY DEF LockGuard, PersonLock, HumanMode
<1>2. AsFound'
    BY DEF LockGuard, AsFound, Fresh, HumanMode, Idle
<1> QED BY <1>1, <1>2 DEF LockGuard, FreeIsFree

LEMMA GuardMoved ==
    ASSUME ctl'.mode \in {"idle", "automated"}, lock'.by # "free",
           lock'.at \notin {"human", "hand"}, lock'.by = "rebuild" => ctl'.mode = "idle"
    PROVE  LockGuard'
BY DEF LockGuard, PersonLock, AsFound, FreeIsFree, HumanMode, Idle

LEMMA EnterSets ==
    ASSUME NEW h, NEW at, NEW w, Enter(h, at, w)
    PROVE  lock = Free /\ Serving /\ lock'.by = h /\ lock'.at = at /\ lock'.w = w
BY DEF Enter

LEMMA GoesSets ==
    ASSUME Typed, NEW at, Goes(at)
    PROVE  lock'.by = lock.by /\ lock'.at = at /\ lock'.w = lock.w
<1>1. lock = [by |-> lock.by, at |-> lock.at, w |-> lock.w]
    BY DEF Typed, LockTyped
<1> QED BY <1>1 DEF Goes

\* While a handler of these is in the lock, no person has control.
LEMMA NoPersonInside ==
    ASSUME LockGuard, NEW h, NEW at, Inside(h, at),
           << h, at >> \notin {<< "reconcile", "human" >>, << "clean", "human" >>,
                               << "clean", "fail" >>, << "validate", "close" >>},
           h # "free"
    PROVE  ~HumanMode
BY DEF LockGuard, PersonLock, Inside

LEMMA LockIsNoReader == \A r \in Readers : r # "lock" /\ r # "get"
BY SessionAssumption

LEMMA EnvironmentGuards ==
    ASSUME Typed, LockGuard,
           \/ \E w \in Windows : Issues(w) \/ Expires(w) \/ JobEnds(w) \/ ReadBegins(w)
           \/ BrowserDies \/ SessionLooks \/ SessionStops \/ SessionCloses \/ ReadSeals
    PROVE  LockGuard'
<1>1. UNCHANGED lock
    BY DEF Issue, Issues, Connect, BusinessRead, IssueRest, Expires, JobEnds, ReadBegins,
       BrowserDies, SessionLooks, SessionStops, SessionCloses, ReadSeals, Env, Rest, Sessions
<1>2. \/ UNCHANGED ctl /\ current' \in {current, current \cup {"get"}, current \cup {Executor}}
      \/ LastWrite(Stopped)
    BY DEF Issue, Issues, Connect, BusinessRead, IssueRest, Sessions, Expires, JobEnds,
       ReadBegins, BrowserDies, SessionLooks, SessionStops, SessionCloses, ReadSeals, Reads,
       KeepRow
<1>3. LastWrite(Stopped) => "lock" \notin current' /\ ctl'.mode = "idle"
    BY Rows DEF Write, LastWrite
<1> QED BY <1>1, <1>2, <1>3, GuardKept, LockIsNoReader, ExecutorIsReader DEF Fresh

LEMMA PersonGuards ==
    ASSUME Typed, LockGuard, Person
    PROVE  LockGuard'
<1>1. PICK w \in Windows : LoginEnters(w) \/ DiscoveryStarts(w) \/ LoginReturns(w)
                            \/ CloseEnters(w) \/ DisconnectEnters(w) \/ RebuildEnters(w)
    BY DEF Person
<1>2. CASE DiscoveryStarts(w) \/ LoginReturns(w)
    <2>1. lock' = Free
        BY <1>2 DEF DiscoveryStarts, LoginReturns
    <2> QED BY <2>1, GuardFree
<1>3. CASE LoginEnters(w)
    <2>1. Enter("login", "start", w) /\ Idle /\ ctl' \in {ctl, Stopped}
        BY <1>3 DEF LoginEnters, Write, LastWrite, Reads
    <2> QED BY <2>1, EnterSets, Rows, GuardMoved DEF Idle
<1>4. CASE CloseEnters(w) \/ DisconnectEnters(w)
    <2>1. /\ \/ Enter("close", "consume", w) \/ Enter("disconnect", "stop", w)
             \/ Enter("disconnect", "retire", w)
          /\ \/ ctl' = Returned(ctl.mode)
             \/ UNCHANGED ctl /\ ~HumanMode
        BY <1>4 DEF CloseEnters, DisconnectEnters, Write, LastWrite, Reads
    <2>2. ctl'.mode \in {"idle", "automated"}
        BY <2>1, RowModes, RowKinds DEF HumanMode
    <2> QED BY <2>1, <2>2, EnterSets, GuardMoved
<1>5. CASE RebuildEnters(w)
    <2>1. Enter("rebuild", "stop", w) /\ ctl' = Returned(ctl.mode)
        BY <1>5 DEF RebuildEnters, Write, LastWrite
    <2> QED BY <2>1, RowModes, EnterSets, GuardMoved
<1> QED BY <1>1, <1>2, <1>3, <1>4, <1>5

LEMMA HandlersGuard ==
    ASSUME Typed, LockGuard, Handlers
    PROVE  LockGuard'
<1>1. CASE Leaves
    BY <1>1, GuardFree DEF Leaves
<1>2. CASE LoginStarts /\ Goes("take")
    <2>1. ~HumanMode /\ lock.by = "login"
        BY <1>2, NoPersonInside DEF LoginStarts, Inside
    <2>2. ctl' \in {ctl, ReadyIdle, Stopped}
        BY <1>2 DEF LoginStarts, Write, LastWrite, KeepRow
    <2>3. ctl'.mode \in {"idle", "automated"}
        BY <2>1, <2>2, RowKinds, Rows DEF HumanMode
    <2> QED BY <1>2, <2>1, <2>3, GoesSets, GuardMoved
<1>3. CASE CloseConsumes /\ Goes("stop")
    <2>1. ~HumanMode /\ lock.by = "close" /\ UNCHANGED ctl
        BY <1>3, NoPersonInside DEF CloseConsumes, Inside, KeepRow
    <2>2. ctl'.mode \in {"idle", "automated"}
        BY <2>1, RowKinds DEF HumanMode
    <2> QED BY <1>3, <2>1, <2>2, GoesSets, GuardMoved
<1>4. CASE RebuildStops /\ ~Leaves
    <2>1. lock.by = "rebuild" /\ ctl' = Stopped /\ Goes("start")
        BY <1>4 DEF RebuildStops, Inside, Write, LastWrite
    <2> QED BY <2>1, Rows, GoesSets, GuardMoved
<1> QED BY <1>1, <1>2, <1>3, <1>4 DEF Handlers, LoginStarts, LoginTakes, CloseConsumes,
   CloseStops, DisconnectStops, RebuildStops, RebuildStarts

LEMMA ExecutingGuards ==
    ASSUME Typed, LockGuard, Executing
    PROVE  LockGuard'
<1>1. CASE Leaves
    BY <1>1, GuardFree DEF Leaves
<1>2. CASE ReadinessEnters
    <2>1. CASE UNCHANGED lock
        BY <1>2, <2>1, GuardFree DEF ReadinessEnters
    <2>2. CASE ~ UNCHANGED lock
        <3>1. /\ \E w : Enter("readiness", "start", w)
              /\ Idle /\ UNCHANGED ctl
            BY <1>2, <2>2 DEF ReadinessEnters, Reads
        <3> QED BY <3>1, EnterSets, GuardMoved DEF Idle
    <2> QED BY <2>1, <2>2
<1>3. CASE ReadinessStarts /\ Goes("mark")
    <2>1. ~HumanMode /\ lock.by = "readiness" /\ UNCHANGED ctl
        BY <1>3, NoPersonInside DEF ReadinessStarts, Inside, KeepRow
    <2>2. ctl'.mode \in {"idle", "automated"}
        BY <2>1, RowKinds DEF HumanMode
    <2> QED BY <1>3, <2>1, <2>2, GoesSets, GuardMoved
<1>4. CASE Acquire \/ Release \/ ExecutorCloses
    <2>1. /\ UNCHANGED lock
          /\ \/ UNCHANGED << ctl, current >>
             \/ current' = {} /\ \/ ctl' = ReadyIdle
                                 \/ \E w : ctl' = Automated(Executor, w)
        BY <1>4 DEF Acquire, Release, ExecutorCloses, KeepRow, Write, LastWrite
    <2> QED BY <2>1, Rows, GuardKept, LockIsNoReader, ExecutorIsReader DEF Fresh
<1>5. CASE RecoverBegins
    <2>1. CASE Holds(Executor)
        <3>1. PICK w : Enter("recover", "stop", w) /\ ctl' = Recovering(w)
            BY <1>5, <2>1 DEF RecoverBegins, Write, LastWrite
        <3> QED BY <3>1, Rows, EnterSets, GuardMoved
    <2>2. CASE ~Holds(Executor)
        BY <1>5, <2>2, GuardFree DEF RecoverBegins
    <2> QED BY <2>1, <2>2
<1> QED BY <1>1, <1>2, <1>3, <1>4, <1>5, EnvironmentGuards DEF Executing, ReadinessStarts,
    ReadinessMarks, RecoverStops, ReadSeals, RecoverRest, Sessions

LEMMA ProbingGuards ==
    ASSUME Typed, LockGuard, Probing
    PROVE  LockGuard'
<1>1. CASE \E r \in Readers : ProbeEnds(r)
    BY <1>1, GuardFree DEF ProbeEnds
<1>2. CASE \E r \in Readers, w \in Windows : ProbeBegins(r, w)
    BY <1>2, GuardFree DEF ProbeBegins
<1>3. CASE ValidationStops
    BY <1>3, GuardFree DEF ValidationStops, Leaves
<1>4. CASE \E r \in Readers, w \in Windows : ValidationLooks(r, w)
    <2>1. PICK r \in Readers : UNCHANGED << lock, ctl >> /\ current' = current \cup {r}
        BY <1>4 DEF ValidationLooks, Reads
    <2> QED BY <2>1, GuardKept, LockIsNoReader DEF Fresh
<1>5. CASE \E r \in Readers : ValidationTakes(r)
    <2>1. PICK r \in Readers :
              /\ UNCHANGED lock
              /\ \/ UNCHANGED << ctl, current >>
                 \/ current' = {} /\ \E w : ctl' = Automated(r, w)
        BY <1>5 DEF ValidationTakes, KeepRow, Write, LastWrite
    <2> QED BY <2>1, Rows, GuardKept, LockIsNoReader DEF Fresh
<1>6. CASE \E r \in Readers : ValidationReturns(r)
    <2>1. PICK r \in Readers : ValidationReturns(r)
        BY <1>6
    <2>2. CASE Holds(r)
        <3>1. Enter("validate", "stop", rd[r].w) /\ ctl' = ReadyIdle
            BY <2>1, <2>2 DEF ValidationReturns, Write, LastWrite
        <3> QED BY <3>1, Rows, EnterSets, GuardMoved
    <2>3. CASE ~Holds(r)
        <3>1. Enter("validate", "close", rd[r].w)
            BY <2>1, <2>3 DEF ValidationReturns
        <3> QED BY <3>1, EnterSets DEF LockGuard, PersonLock, AsFound, FreeIsFree
    <2> QED BY <2>2, <2>3
<1> QED BY <1>1, <1>2, <1>3, <1>4, <1>5, <1>6 DEF Probing

LEMMA ReconcilerGuards ==
    ASSUME Typed, LockGuard, Reconciling
    PROVE  LockGuard'
<1>1. CASE ReconcilerLooks
    <2>1. UNCHANGED << lock, ctl, current >>
        BY <1>1 DEF ReconcilerLooks, KeepRow
    <2> QED BY <2>1, GuardKept DEF Fresh
<1>2. CASE ReconcilerSkips
    BY <1>2, GuardFree DEF ReconcilerSkips
<1>3. CASE Leaves
    BY <1>3, GuardFree DEF Leaves
<1>4. CASE ReconcilerEnters
    <2>1. CASE HumanMode
        <3>1. ctl.mode # "automated" /\ ctl # Stopped
            BY <2>1, Rows DEF HumanMode
        <3>2. Enter("reconcile", "human", latest) /\ UNCHANGED ctl
            <4> DEFINE place == CASE HumanMode -> "human"
                                  [] ctl = Stopped -> "retire"
                                  [] OTHER -> "close"
            <4>1. place = "human"
                BY <2>1, <3>1
            <4>2. Enter("reconcile", place, latest) /\ UNCHANGED ctl
                BY <1>4, <3>1 DEF ReconcilerEnters, Reads
            <4> HIDE DEF place
            <4> QED BY <4>1, <4>2
        <3>3. ctl.by = latest
            <4>1. ctl.mode # "idle"
                BY <2>1 DEF HumanMode
            <4>2. ctl # ReadyIdle /\ ctl # Stopped /\ ctl # Recovering(latest)
                BY <4>1, Rows
            <4>3. Matches(latest)
                BY <1>4 DEF ReconcilerEnters
            <4> QED BY <3>1, <4>2, <4>3 DEF Matches
        <3>4. lock'.by = "reconcile" /\ lock'.at = "human" /\ lock'.w = latest
            BY <3>2, EnterSets
        <3>5. PersonLock'
            BY <3>2, <3>3, <3>4 DEF PersonLock
        <3>6. AsFound'
            BY <2>1, <3>2, <3>4 DEF AsFound, HumanMode
        <3> QED BY <3>4, <3>5, <3>6 DEF LockGuard, FreeIsFree
    <2>2. CASE ~HumanMode
        <3>1. \E at \in {"retire", "close"} : Enter("reconcile", at, latest)
            BY <1>4, <2>2 DEF ReconcilerEnters
        <3>2. UNCHANGED ctl \/ ctl' = Recovering(latest)
            BY <1>4 DEF ReconcilerEnters, Write, LastWrite, Reads
        <3>3. ctl'.mode \in {"idle", "automated"}
            BY <2>2, <3>2, RowKinds, Rows DEF HumanMode
        <3> QED BY <3>1, <3>3, EnterSets, GuardMoved
    <2> QED BY <2>1, <2>2
<1>5. CASE ReconcilerCloses /\ Goes("retire")
    <2>1. ~HumanMode /\ lock.by = "reconcile"
        BY <1>5, NoPersonInside DEF ReconcilerCloses, Inside
    <2>2. ctl' \in {ctl, Stopped}
        BY <1>5 DEF ReconcilerCloses, MarkStopped, Write, LastWrite, KeepRow
    <2>3. ctl'.mode \in {"idle", "automated"}
        BY <2>1, <2>2, RowKinds, Rows DEF HumanMode
    <2> QED BY <1>5, <2>1, <2>3, GoesSets, GuardMoved
<1>6. CASE ReconcilerExpels /\ ~Leaves
    <2>1. Goes("retire") /\ ctl' = Stopped /\ lock.by = "reconcile"
        BY <1>6 DEF ReconcilerExpels, Inside, Write, LastWrite
    <2> QED BY <2>1, Rows, GoesSets, GuardMoved
<1> QED BY <1>1, <1>2, <1>3, <1>4, <1>5, <1>6 DEF Reconciling, ReconcilerCloses,
   ReconcilerExpels, ReconcilerRetires

LEMMA CleaningGuards ==
    ASSUME Typed, WindowInv, LockGuard, Cleaning
    PROVE  LockGuard'
<1>1. CASE \E w \in Windows : CleanupRetires(w)
    <2>1. UNCHANGED << lock, ctl, current >>
        BY <1>1 DEF CleanupRetires, KeepRow
    <2> QED BY <2>1, GuardKept DEF Fresh
<1>2. CASE \E w \in Windows : CleanupPasses(w)
    BY <1>2, GuardFree DEF CleanupPasses, Ends
<1>3. CASE Leaves
    BY <1>3, GuardFree DEF Leaves
<1>4. ASSUME NEW w \in Windows, CleanupEnters(w)
      PROVE  LockGuard'
    <2>1. CASE HumanMode
        <3>1. ~Own(w) /\ ~Idle
            BY <2>1 DEF Own, HumanMode, Idle
        <3>2. Enter("clean", "human", w) /\ UNCHANGED ctl
            BY <1>4, <2>1, <3>1 DEF CleanupEnters, Reads
        <3>3. ctl.by = w
            <4>1. InJobs(w)
                BY <1>4, CleaningOnEnded
            <4>2. \A v : ctl # Recovering(v)
                BY <3>1, Rows DEF Idle
            <4>3. ctl # ReadyIdle
                BY <3>1, Rows DEF Idle
            <4>4. MustStop(w) /\ kind[w] \in {"shadow", "settlement", "daily"}
                BY <1>4, <4>1 DEF CleanupEnters, InJobs
            <4>5. OwnPerson(w)
                <5>1. CASE kind[w] = "shadow"
                    BY <3>1, <4>4, <5>1 DEF MustStop
                <5>2. CASE kind[w] = "settlement"
                    BY <3>1, <4>4, <5>2 DEF MustStop
                <5>3. CASE kind[w] = "daily"
                    BY <3>1, <4>2, <4>3, <4>4, <5>3 DEF MustStop
                <5> QED BY <4>4, <5>1, <5>2, <5>3
            <4> QED BY <4>5 DEF OwnPerson
        <3>4. lock'.by = "clean" /\ lock'.at = "human" /\ lock'.w = w
            BY <3>2, EnterSets
        <3>5. PersonLock'
            BY <3>2, <3>3, <3>4 DEF PersonLock
        <3>6. AsFound'
            BY <2>1, <3>2, <3>4 DEF AsFound, HumanMode
        <3> QED BY <3>4, <3>5, <3>6 DEF LockGuard, FreeIsFree
    <2>2. CASE ~HumanMode
        <3>1. Enter("clean", "stop", w) /\ ctl' \in {ctl, Recovering(w)}
            BY <1>4, <2>2 DEF CleanupEnters, Write, LastWrite, Reads
        <3>2. ctl'.mode \in {"idle", "automated"}
            BY <2>2, <3>1, RowKinds, Rows DEF HumanMode
        <3> QED BY <3>1, <3>2, EnterSets, GuardMoved
    <2> QED BY <2>1, <2>2
<1>5. ASSUME NEW w \in Windows, HandoffEnters(w)
      PROVE  LockGuard'
    <2>1. CASE ctl = ReadyIdle /\ running
        <3>1. ~Own(w)
            BY <2>1, Rows DEF Own
        <3>2. Enter("clean", "hand", w) /\ UNCHANGED ctl
            BY <1>5, <2>1, <3>1 DEF HandoffEnters, Reads
        <3>3. lock'.by = "clean" /\ lock'.at = "hand"
            BY <3>2, EnterSets
        <3>4. PersonLock'
            BY <2>1, <3>2, Rows DEF PersonLock, HumanMode
        <3>5. AsFound'
            BY <2>1, <3>2, <3>3 DEF AsFound
        <3> QED BY <3>3, <3>4, <3>5 DEF LockGuard, FreeIsFree
    <2>2. CASE ~(ctl = ReadyIdle /\ running)
        <3>1. Enter("clean", "fail", w)
            BY <1>5, <2>2 DEF HandoffEnters
        <3>2. lock'.by = "clean" /\ lock'.at = "fail"
            BY <3>1, EnterSets
        <3> QED BY <3>2 DEF LockGuard, PersonLock, AsFound, FreeIsFree
    <2> QED BY <2>1, <2>2
<1>6. CASE HandoffTakes /\ Goes("fail")
    <2>1. lock'.by = "clean" /\ lock'.at = "fail"
        BY <1>6, GoesSets DEF HandoffTakes, Inside
    <2> QED BY <2>1 DEF LockGuard, PersonLock, AsFound, FreeIsFree
<1> QED BY <1>1, <1>2, <1>3, <1>4, <1>5, <1>6 DEF Cleaning, CleanupStops, Ends, HandoffTakes,
   HandoffFails

LEMMA GuardStep == Typed /\ WindowInv /\ RowGuard /\ [Next]_vars => LockGuard'
<1> SUFFICES ASSUME Typed, WindowInv, LockGuard, DownIsQuiet, [Next]_vars
             PROVE  LockGuard'
    BY DEF RowGuard
<1>1. CASE UNCHANGED vars
    BY <1>1 DEF vars, LockGuard, PersonLock, AsFound, FreeIsFree, Fresh, HumanMode, Idle
<1>2. CASE Crash \/ Exit
    BY <1>2, GuardFree DEF Crash, Exit, Gone
<1>3. CASE Boot
    <2>1. UNCHANGED lock /\ ~Serving
        BY <1>3 DEF Boot, Serving
    <2> QED BY <2>1, GuardFree DEF DownIsQuiet
<1>4. CASE Next
    BY <1>2, <1>3, <1>4, EnvironmentGuards, PersonGuards, HandlersGuard, ExecutingGuards,
       ProbingGuards, ReconcilerGuards, CleaningGuards DEF Next, Issues
<1> QED BY <1>1, <1>4

-------------------------------------------------------------------------------
(* The browser of a person is started by nobody, and none outlives its process. *)

\* A step of the rest that does not reset the reading of the session route.
MissingKept ==
    \/ "get" \notin current'
    \/ /\ UNCHANGED ctl
       /\ "get" \in current
       /\ HumanMode /\ running' => running

LEMMA MissingFrame ==
    ASSUME SeenMissing, MissingKept
    PROVE  SeenMissing'
BY DEF SeenMissing, MissingKept, HumanMode

LEMMA QuietFrame ==
    ASSUME DownIsQuiet, Serving => Serving', ~Serving => UNCHANGED << running, lock >>
    PROVE  DownIsQuiet'
BY DEF DownIsQuiet

LEMMA EnvironmentLooks ==
    ASSUME Typed, RowGuard,
           \/ \E w \in Windows : Issues(w) \/ Expires(w) \/ JobEnds(w) \/ ReadBegins(w)
           \/ BrowserDies \/ SessionLooks \/ SessionStops \/ SessionCloses \/ ReadSeals
    PROVE  SeenMissing' /\ DownIsQuiet'
<1>1. UNCHANGED << lock, up >> /\ (running' => running)
    <2>1. CASE \E w \in Windows : Issues(w)
        BY <2>1, IssuesHow DEF IssueRest
    <2>2. CASE \/ \E w \in Windows : Expires(w) \/ JobEnds(w) \/ ReadBegins(w)
               \/ BrowserDies \/ ReadSeals
        BY <2>2 DEF Expires, JobEnds, ReadBegins, BrowserDies, ReadSeals, Env, Rest,
           KeepBrowser, Closes
    <2>3. CASE SessionLooks \/ SessionStops \/ SessionCloses
        BY <2>3 DEF SessionLooks, SessionStops, SessionCloses, KeepBrowser
    <2> QED BY <2>1, <2>2, <2>3
<1>2. DownIsQuiet'
    BY <1>1 DEF RowGuard, DownIsQuiet, Serving
<1>3. CASE SessionLooks
    <2>1. UNCHANGED << ctl, running >> /\ ~running /\ (Idle \/ HumanMode)
        BY <1>3 DEF SessionLooks, Reads
    <2>2. ctl.mode # "automated"
        BY <2>1 DEF Idle, HumanMode
    <2> QED BY <1>2, <2>1, <2>2 DEF SeenMissing
<1>4. CASE ~SessionLooks
    <2>1. \/ UNCHANGED ctl /\ current' \in {current, current \cup {Executor}}
          \/ LastWrite(Stopped)
        BY <1>4 DEF Issue, Issues, Connect, BusinessRead, IssueRest, Expires, JobEnds,
           ReadBegins, BrowserDies, SessionStops, SessionCloses, ReadSeals, Env, Rest,
           Sessions, Others, KeepRow, Reads
    <2>2. MissingKept
        BY <1>1, <2>1, LockIsNoReader, ExecutorIsReader DEF MissingKept, LastWrite
    <2> QED BY <1>2, <2>2, MissingFrame DEF RowGuard
<1> QED BY <1>3, <1>4

\* A step of the parties: it writes the row as somebody else, or leaves it; only
\* where nobody's control is at stake does it start the browser.
LEMMA PartyLooks ==
    ASSUME RowGuard, Serving, Serving',
           \/ "get" \notin current'
           \/ UNCHANGED ctl /\ ("get" \in current' => "get" \in current),
           HumanMode /\ running' => running
    PROVE  SeenMissing' /\ DownIsQuiet'
<1>1. MissingKept
    BY DEF MissingKept
<1> QED BY <1>1, MissingFrame DEF RowGuard, DownIsQuiet

\* How those parties leave the row.
PartyRow ==
    \/ \E p \in Parties \ {"get"} : \E row : Write(p, row)
    \/ \E row : LastWrite(row)
    \/ \E p \in Parties \ {"get"} : Reads(p)
    \/ UNCHANGED ctl /\ current' \subseteq current \cup {Executor}

LEMMA PartyRowLooks ==
    ASSUME PartyRow
    PROVE  \/ "get" \notin current'
           \/ UNCHANGED ctl /\ ("get" \in current' => "get" \in current)
BY LockIsNoReader, ExecutorIsReader DEF PartyRow, Write, LastWrite, Reads

LEMMA PartiesNotGet ==
    "lock" \in Parties \ {"get"} /\ \A r \in Readers : r \in Parties \ {"get"}
BY LockIsNoReader DEF Parties

LEMMA RoutesLook ==
    ASSUME Typed, RowGuard, Person \/ Handlers
    PROVE  SeenMissing' /\ DownIsQuiet'
<1>1. UNCHANGED up
    BY DEF Person, LoginEnters, DiscoveryStarts, LoginReturns, CloseEnters, DisconnectEnters,
       RebuildEnters, Handlers, LoginStarts, LoginTakes, CloseConsumes, CloseStops,
       DisconnectStops, RebuildStops, RebuildStarts, Env, Rest, Sessions
<1>2. Serving
    BY DEF Person, LoginEnters, DiscoveryStarts, LoginReturns, CloseEnters, DisconnectEnters,
       RebuildEnters, Handlers, LoginStarts, LoginTakes, CloseConsumes, CloseStops,
       DisconnectStops, RebuildStops, RebuildStarts, Inside, Serving
<1>3. PartyRow
    <2>1. \/ \E row : Write("lock", row) \/ LastWrite(row)
          \/ Reads("lock") \/ UNCHANGED << ctl, current >>
        BY DEF Person, LoginEnters, DiscoveryStarts, LoginReturns, CloseEnters,
           DisconnectEnters, RebuildEnters, Handlers, LoginStarts, LoginTakes, CloseConsumes,
           CloseStops, DisconnectStops, RebuildStops, RebuildStarts, KeepRow
    <2> QED BY <2>1, PartiesNotGet DEF PartyRow
<1>4. HumanMode /\ running' => running
    <2>1. CASE LoginStarts \/ RebuildStarts
        BY <2>1, NoPersonInside DEF LoginStarts, RebuildStarts, RowGuard
    <2>2. CASE ~(LoginStarts \/ RebuildStarts)
        BY <2>2 DEF Person, LoginEnters, DiscoveryStarts, LoginReturns, CloseEnters,
           DisconnectEnters, RebuildEnters, Handlers, LoginTakes, CloseConsumes, CloseStops,
           DisconnectStops, RebuildStops, KeepBrowser, Closes
    <2> QED BY <2>1, <2>2
<1>5. Serving'
    BY <1>1, <1>2 DEF Serving
<1> QED BY <1>1, <1>2, <1>3, <1>4, <1>5, PartyRowLooks, PartyLooks

LEMMA ReadersLook ==
    ASSUME Typed, RowGuard, Executing \/ Probing
    PROVE  SeenMissing' /\ DownIsQuiet'
<1>1. Serving => Serving'
    BY DEF Executing, ReadinessEnters, ReadinessStarts, ReadinessMarks, Acquire, Release,
       ExecutorCloses, RecoverBegins, RecoverStops, ReadSeals, RecoverRest, Probing,
       ProbeEnds, ValidationTakes, ValidationReturns, ProbeBegins, ValidationLooks,
       ValidationStops, Others, Env, Rest, Sessions, Serving
<1>2. Serving
    BY DEF Executing, ReadinessEnters, ReadinessStarts, ReadinessMarks, Acquire, Release,
       ExecutorCloses, RecoverBegins, RecoverStops, ReadSeals, RecoverRest, Sessions, Probing,
       ProbeEnds, ValidationTakes, ValidationReturns, ProbeBegins, ValidationLooks,
       ValidationStops, Inside, Enter, Serving
<1>3. PartyRow
    <2>1. CASE Executing
        <3>1. \/ \E p \in {"lock", Executor} : \E row : Write(p, row) \/ LastWrite(row)
              \/ Reads("lock")
              \/ UNCHANGED ctl /\ current' \subseteq current \cup {Executor}
            BY <2>1 DEF Executing, ReadinessEnters, ReadinessStarts, ReadinessMarks, Acquire,
               Release, ExecutorCloses, RecoverBegins, RecoverStops, ReadSeals, MarkStopped,
               KeepRow
        <3> QED BY <3>1, PartiesNotGet, ExecutorIsReader DEF PartyRow
    <2>2. CASE Probing
        <3>1. \/ \E p \in {"lock"} \cup Readers : \E row : Write(p, row) \/ LastWrite(row)
              \/ \E r \in Readers : Reads(r)
              \/ UNCHANGED << ctl, current >>
            BY <2>2 DEF Probing, ProbeEnds, ValidationTakes, ValidationReturns, ProbeBegins,
               ValidationLooks, ValidationStops, KeepRow
        <3> QED BY <3>1, PartiesNotGet DEF PartyRow
    <2> QED BY <2>1, <2>2
<1>4. HumanMode /\ running' => running
    <2>1. CASE ReadinessStarts
        BY <2>1, NoPersonInside DEF ReadinessStarts, RowGuard
    <2>2. CASE ~ReadinessStarts
        BY <2>2 DEF Executing, ReadinessEnters, ReadinessMarks, Acquire, Release,
           ExecutorCloses, RecoverBegins, RecoverStops, ReadSeals, RecoverRest, Sessions,
           Probing, ProbeEnds, ValidationTakes, ValidationReturns, ProbeBegins,
           ValidationLooks, ValidationStops, KeepBrowser, Closes
    <2> QED BY <2>1, <2>2
<1> QED BY <1>1, <1>2, <1>3, <1>4, PartyRowLooks, PartyLooks

LEMMA ThreadsLook ==
    ASSUME Typed, RowGuard, Reconciling \/ Cleaning
    PROVE  SeenMissing' /\ DownIsQuiet'
<1>1. UNCHANGED up
    BY DEF Reconciling, ReconcilerLooks, ReconcilerSkips, ReconcilerEnters, ReconcilerCloses,
       ReconcilerExpels, ReconcilerRetires, ReconcilerRest, Sessions, Cleaning,
       CleanupRetires, CleanupEnters, CleanupPasses, Ends, HandoffEnters, CleanupStops,
       HandoffTakes, HandoffFails, CleanupRest
<1>2. Serving /\ Serving'
    <2>1. Serving
        BY DEF Reconciling, ReconcilerLooks, ReconcilerSkips, ReconcilerEnters,
           ReconcilerCloses, ReconcilerExpels, ReconcilerRetires, Cleaning, CleanupRetires,
           CleanupEnters, CleanupPasses, Ends, HandoffEnters, CleanupStops, HandoffTakes,
           HandoffFails, Tidying, Inside, Serving
    <2> QED BY <1>1, <2>1 DEF Serving
<1>3. PartyRow
    <2>1. \/ \E row : Write("lock", row) \/ LastWrite(row)
          \/ Reads("lock") \/ UNCHANGED << ctl, current >>
        BY DEF Reconciling, ReconcilerLooks, ReconcilerSkips, ReconcilerEnters,
           ReconcilerCloses, ReconcilerExpels, ReconcilerRetires, Cleaning, CleanupRetires,
           CleanupEnters, CleanupPasses, Ends, HandoffEnters, CleanupStops, HandoffTakes,
           HandoffFails, MarkStopped, KeepRow
    <2> QED BY <2>1, PartiesNotGet DEF PartyRow
<1>4. running' => running
    BY DEF Reconciling, ReconcilerLooks, ReconcilerSkips, ReconcilerEnters, ReconcilerCloses,
       ReconcilerExpels, ReconcilerRetires, Cleaning, CleanupRetires, CleanupEnters,
       CleanupPasses, Ends, HandoffEnters, CleanupStops, HandoffTakes, HandoffFails,
       KeepBrowser, Closes
<1> QED BY <1>1, <1>2, <1>3, <1>4, PartyRowLooks, PartyLooks

LEMMA LivesLook ==
    ASSUME Typed, RowGuard, Crash \/ Exit \/ Boot
    PROVE  SeenMissing' /\ DownIsQuiet'
<1>1. CASE Crash \/ Exit
    BY <1>1 DEF Crash, Exit, Gone, Closes, SeenMissing, DownIsQuiet
<1>2. CASE Boot
    <2>1. UNCHANGED << running, lock, peek, current >> /\ ~Serving
        BY <1>2 DEF Boot, Serving
    <2>2. ctl' = BootRow(ctl)
        BY <1>2 DEF Boot
    <2>3. ~running /\ lock = Free
        BY <2>1 DEF RowGuard, DownIsQuiet
    <2>4. BootRow(ctl) \in {ctl, Stopped} \/ ctl.mode = "automated"
        BY BootRowKinds
    <2>5. SeenMissing'
        BY <2>1, <2>2, <2>3, <2>4, Rows DEF RowGuard, SeenMissing, HumanMode
    <2> QED BY <2>1, <2>3, <2>5 DEF DownIsQuiet
<1> QED BY <1>1, <1>2

LEMMA RowStep == Typed /\ WindowInv /\ RowGuard /\ [Next]_vars => RowGuard'
<1> SUFFICES ASSUME Typed, WindowInv, RowGuard, [Next]_vars PROVE RowGuard'
    OBVIOUS
<1>1. SeenMissing' /\ DownIsQuiet'
    <2>1. CASE UNCHANGED vars
        BY <2>1 DEF vars, RowGuard, SeenMissing, DownIsQuiet, HumanMode, Serving
    <2>2. CASE Next
        BY <2>2, EnvironmentLooks, RoutesLook, ReadersLook, ThreadsLook, LivesLook
        DEF Next, Issues
    <2> QED BY <2>1, <2>2
<1> QED BY <1>1, GuardStep DEF RowGuard

LEMMA InitRow == Init => RowGuard
<1> SUFFICES ASSUME Init PROVE RowGuard
    OBVIOUS
<1>1. lock = Free /\ current = {} /\ ~running /\ ~HumanMode
    BY Rows DEF Init, HumanMode
<1> QED BY <1>1 DEF RowGuard, LockGuard, PersonLock, AsFound, FreeIsFree, SeenMissing,
   DownIsQuiet, Free

-------------------------------------------------------------------------------
(* The theorems. *)

ControlInv == Typed /\ WindowInv /\ RowGuard

LEMMA InitControl == Init => ControlInv
BY InitTyped, InitWindow, InitRow DEF ControlInv

LEMMA NextControl == ControlInv /\ [Next]_vars => ControlInv'
BY NextTyped, WindowStep, RowStep DEF ControlInv

\* What PersonKeepsControl says of one step.
PersonKept ==
    HumanMode /\ ctl' # ctl =>
        \/ Operator \/ ~running \/ ~Serving'
        \/ win[ctl.by].late \/ ctl.by \in ended

LEMMA PersonKeeps == ASSUME ControlInv, Next PROVE PersonKept
<1> SUFFICES ASSUME HumanMode, ctl' # ctl, ~Operator, running, Serving'
             PROVE  win[ctl.by].late \/ ctl.by \in ended
    BY DEF PersonKept
<1>0. Typed /\ WindowInv /\ LockGuard /\ SeenMissing /\ DownIsQuiet
    BY DEF ControlInv, RowGuard
<1>1. ~Idle /\ ctl.mode # "automated" /\ ctl.life = "ready"
    BY <1>0, RowKinds
<1>2. ctl # ReadyIdle /\ ctl # Stopped
    BY <1>1, Rows DEF Idle
<1>3. \A r \in Readers : ~Holds(r)
    BY <1>1 DEF Holds
<1>4. \A w : ~Own(w)
    BY <1>1 DEF Own
<1>5. Serving
    BY <1>0 DEF DownIsQuiet
<1>6. ~ (Crash \/ Exit \/ Boot)
    BY <1>5 DEF Crash, Exit, Gone, Boot, Serving
<1>7. ~ (\/ \E w \in Windows : Issues(w) \/ Expires(w) \/ JobEnds(w) \/ ReadBegins(w)
         \/ BrowserDies \/ SessionLooks \/ SessionCloses)
    BY DEF Issue, Issues, Connect, BusinessRead, IssueRest, Sessions, Expires, JobEnds,
       ReadBegins, BrowserDies, SessionLooks, SessionCloses, KeepRow, Reads
<1>8. ~SessionStops
    BY <1>0 DEF SessionStops, SeenMissing, KeepRow
<1>9. ~Person
    BY <1>1, <1>2 DEF Person, Operator, LoginEnters, DiscoveryStarts
<1>10. ~Handlers
    <2>1. ~ (LoginStarts \/ RebuildStops \/ RebuildStarts)
        BY <1>0, NoPersonInside DEF LoginStarts, RebuildStops, RebuildStarts
    <2>2. ~ (LoginTakes \/ CloseConsumes \/ CloseStops \/ DisconnectStops)
        BY <1>1, <1>2 DEF LoginTakes, CloseConsumes, CloseStops, DisconnectStops, KeepRow
    <2> QED BY <2>1, <2>2 DEF Handlers
<1>11. ~Executing
    BY <1>1, <1>2, <1>3, ExecutorIsReader DEF Executing, ReadinessEnters, ReadinessStarts,
       ReadinessMarks, Acquire, Takes, Release, ExecutorCloses, RecoverBegins, RecoverStops,
       ReadSeals, MarkStopped, KeepRow, Reads
<1>12. ~Probing
    BY <1>1, <1>2, <1>3 DEF Probing, ProbeEnds, ValidationTakes, Takes, ValidationReturns,
       ProbeBegins, ValidationLooks, ValidationStops, KeepRow, Reads
<1>13. CASE Reconciling
    <2>1. ReconcilerExpels
        BY <1>1, <1>13 DEF Reconciling, ReconcilerLooks, ReconcilerSkips, ReconcilerEnters,
           ReconcilerCloses, ReconcilerRetires, MarkStopped, KeepRow, Reads
    <2>2. lock.by = "reconcile" /\ lock.at = "human"
        BY <2>1 DEF ReconcilerExpels, Inside
    <2>3. ctl.by = lock.w
        BY <1>0, <2>2 DEF LockGuard, PersonLock
    <2> QED BY <1>0, <2>2, <2>3 DEF WindowInv, ReconciledIsLate
<1>14. CASE Cleaning
    <2>1. CleanupStops \/ HandoffTakes
        BY <1>1, <1>4, <1>14 DEF Cleaning, CleanupRetires, CleanupEnters, CleanupPasses, Ends,
           HandoffEnters, HandoffFails, KeepRow, Reads
    <2>2. ~HandoffTakes
        BY <1>0, NoPersonInside DEF HandoffTakes
    <2>3. lock.by = "clean" /\ lock.at = "human"
        BY <1>1, <2>1, <2>2 DEF CleanupStops, Ends, Inside, MarkStopped, KeepRow
    <2>4. ctl.by = lock.w
        BY <1>0, <2>3 DEF LockGuard, PersonLock
    <2> QED BY <1>0, <2>3, <2>4 DEF WindowInv, CleanedHasEnded
<1> QED BY <1>6, <1>7, <1>8, <1>9, <1>10, <1>11, <1>12, <1>13, <1>14 DEF Next, Issues

\* For any number of windows, readers and lives: whatever the session route, the
\* cleanup, the reconciler, a rebuild or start-up does, a person who has the browser
\* loses it only to themselves, with the browser, at the exit, after their window has
\* expired or with the end of the read that it was issued for.
THEOREM PersonInControl == Spec => PersonKeepsControl
<1>1. ControlInv /\ [Next]_vars => [PersonKept]_vars
    BY PersonKeeps
<1> QED BY <1>1, InitControl, NextControl, PTL DEF Spec, PersonKeepsControl, PersonKept

\* What ReaderKeepsControl says of one step.
ReaderKept ==
    ctl.mode = "automated" /\ ctl' # ctl =>
        \/ \E r \in Readers : ctl.by = r /\ rd'[r] # rd[r]
        \/ RecoverBegins
        \/ win[ctl.job].late \/ ctl.job \in ended \/ ~Serving

LEMMA ReaderKeeps == ASSUME ControlInv, Next PROVE ReaderKept
<1> SUFFICES ASSUME ctl.mode = "automated", ctl' # ctl, Serving, ~RecoverBegins
             PROVE  \/ \E r \in Readers : ctl.by = r /\ rd'[r] # rd[r]
                    \/ win[ctl.job].late \/ ctl.job \in ended
    BY DEF ReaderKept
<1>0. Typed /\ WindowInv /\ LockGuard /\ SeenMissing /\ DownIsQuiet
    BY DEF ControlInv, RowGuard
<1>1. ~Idle /\ ~HumanMode /\ ctl.life = "ready"
    BY <1>0, RowKinds DEF Idle
<1>2. ctl # ReadyIdle /\ ctl # Stopped
    BY <1>1, Rows DEF Idle
<1>3. ~ (Crash \/ Exit \/ Boot)
    BY <1>1 DEF Crash, Exit, Gone, Boot, Serving
<1>4. ~ (\/ \E w \in Windows : Issues(w) \/ Expires(w) \/ JobEnds(w) \/ ReadBegins(w)
         \/ BrowserDies \/ SessionLooks \/ SessionStops \/ SessionCloses \/ ReadSeals)
    BY <1>0 DEF Issue, Issues, Connect, BusinessRead, IssueRest, Sessions, Expires, JobEnds,
       ReadBegins, BrowserDies, SessionLooks, SessionStops, SessionCloses, ReadSeals,
       SeenMissing, KeepRow, Reads
<1>5. ~Person
    BY <1>1, <1>2 DEF Person, LoginEnters, DiscoveryStarts, LoginReturns, CloseEnters,
       DisconnectEnters, RebuildEnters, HumanMode, Reads
<1>6. ~Handlers
    <2>1. ~ (RebuildStops \/ RebuildStarts)
        BY <1>0, <1>1 DEF RebuildStops, RebuildStarts, Inside, LockGuard, AsFound, KeepRow
    <2>2. ~ (LoginStarts \/ LoginTakes \/ CloseConsumes \/ CloseStops \/ DisconnectStops)
        BY <1>1, <1>2 DEF LoginStarts, LoginTakes, CloseConsumes, CloseStops, DisconnectStops,
           KeepRow
    <2> QED BY <2>1, <2>2 DEF Handlers
    \* Who gives up what it holds is not at work any more.
<1>7. ASSUME NEW r \in Readers, Holds(r), rd[r].at \in {"reading", "validating"},
             Quits(r) \/ Reader(r, "closing", rd[r].w)
      PROVE  \E q \in Readers : ctl.by = q /\ rd'[q] # rd[q]
    <2>1. ctl.by = r
        BY <1>7 DEF Holds
    <2>2. rd'[r].at \in {"no", "closing"}
        BY <1>0, <1>7 DEF Quits, Reader, NoRead, Typed, ReadersTyped
    <2> QED BY <1>7, <2>1, <2>2
<1>8. CASE Executing
    <2>1. Release
        BY <1>1, <1>2, <1>8 DEF Executing, ReadinessEnters, ReadinessStarts, ReadinessMarks,
           Acquire, Takes, ExecutorCloses, RecoverStops, ReadSeals, MarkStopped, KeepRow,
           Reads
    <2> QED BY <1>7, <2>1, ExecutorIsReader DEF Release, KeepRow
<1>9. CASE Probing
    <2>1. PICK r \in Readers : ProbeEnds(r) \/ ValidationReturns(r)
        BY <1>1, <1>2, <1>9 DEF Probing, ValidationTakes, Takes, ProbeBegins, ValidationLooks,
           ValidationStops, KeepRow, Reads
    <2>2. Holds(r) /\ Quits(r) /\ rd[r].at \in {"reading", "validating"}
        BY <2>1 DEF ProbeEnds, ValidationReturns, KeepRow
    <2> QED BY <1>7, <2>2
<1>10. CASE Reconciling
    <2>1. ReconcilerEnters
        BY <1>0, <1>1, <1>10 DEF Reconciling, ReconcilerLooks, ReconcilerSkips,
           ReconcilerCloses, ReconcilerExpels, ReconcilerRetires, MarkStopped, Inside,
           LockGuard, AsFound, KeepRow
    <2>2. Matches(latest) /\ win[latest].late
        BY <2>1 DEF ReconcilerEnters, SeenAgain
    <2>3. \A w : ctl # Recovering(w)
        BY <1>1, Rows DEF Idle
    <2> QED BY <1>1, <1>2, <2>2, <2>3 DEF Matches
<1>11. CASE Cleaning
    <2>1. ~ (CleanupStops \/ HandoffTakes \/ HandoffFails)
        BY <1>0, <1>1, <1>2 DEF CleanupStops, Ends, HandoffTakes, HandoffFails, MarkStopped,
           Inside, LockGuard, AsFound, KeepRow
    <2>2. PICK w \in Windows : /\ CleanupEnters(w) \/ CleanupPasses(w) \/ HandoffEnters(w)
                               /\ Own(w)
        BY <1>11, <2>1 DEF Cleaning, CleanupRetires, CleanupEnters, CleanupPasses, Ends,
           HandoffEnters, KeepRow, Reads
    <2>3. tidy[w] # "no"
        BY <2>2 DEF CleanupEnters, CleanupPasses, Ends, HandoffEnters, Tidying
    <2> QED BY <1>0, <2>2, <2>3 DEF Own, WindowInv, TidiedHasEnded
<1> QED BY <1>3, <1>4, <1>5, <1>6, <1>8, <1>9, <1>10, <1>11 DEF Next, Issues

\* For any number of windows, readers and lives: a reader that has the browser loses it
\* only by its own step, after its window has expired, after its job has ended, or
\* with its process; neither a handler, nor the cleanup of another read, nor the
\* session route takes it away.
THEOREM ReaderInControl == Spec => ReaderKeepsControl
<1>1. ControlInv /\ [Next]_vars => [ReaderKept]_vars
    BY ReaderKeeps
<1> QED BY <1>1, InitControl, NextControl, PTL DEF Spec, ReaderKeepsControl, ReaderKept


-------------------------------------------------------------------------------
(* Who invalidates a window. *)

\* Why window w may be invalidated by this step.
Invalidates(w) ==
    \/ win[w].late \/ w \in ended'
    \/ \E r \in Readers : rd[r].w = w /\ (ValidationReturns(r) \/ ReadSeals)
    \/ lock.by \in {"close", "disconnect"} /\ lock.w = w
    \/ w = biz /\ (~Serving' \/ \E v \in Windows : BusinessRead(v))
    \/ peek.at = "stopped" /\ peek.w = w

\* What WindowSpared says of one step.
Spared == \A w \in Windows : win'[w].used /\ ~win[w].used => Invalidates(w)

LEMMA SparesRetired ==
    ASSUME Typed, NEW w, win' = Retired(w), w \in Windows => Invalidates(w)
    PROVE  Spared
<1> SUFFICES ASSUME NEW v \in Windows, win'[v].used, ~win[v].used PROVE Invalidates(v)
    BY DEF Spared
<1>1. v = w
    BY RetiredWindow DEF Typed
<1> QED BY <1>1

LEMMA SparesKept == ASSUME UNCHANGED win PROVE Spared
BY DEF Spared

LEMMA IssueSpares ==
    ASSUME Typed, NEW w \in Windows, Issues(w)
    PROVE  Spared
<1>1. CASE Opens(w, win)
    BY <1>1, OpenedWindow DEF Typed, Spared
<1>2. CASE BusinessRead(w) /\ Opens(w, Retired(biz))
    BY <1>2, OpenedWindow DEF Typed, Spared, Invalidates
<1>3. CASE BusinessRead(w) /\ win' = Retired(biz)
    BY <1>3, SparesRetired DEF Invalidates
<1> QED BY <1>1, <1>2, <1>3, IssuesHow

LEMMA Spares == ASSUME ControlInv, Next PROVE Spared
<1>0. Typed /\ WindowInv
    BY DEF ControlInv
<1>1. CASE \E w \in Windows : Issues(w)
    BY <1>0, <1>1, IssueSpares
<1>2. CASE \E w \in Windows : Expires(w)
    <2>1. PICK w \in Windows : win' = [win EXCEPT ![w].late = TRUE]
        BY <1>2 DEF Expires
    <2>2. \A v \in Windows : win'[v].used = win[v].used
        BY <1>0, <2>1 DEF Typed, WinTyped
    <2> QED BY <2>2 DEF Spared
<1>3. CASE \/ \E w \in Windows : JobEnds(w) \/ ReadBegins(w)
           \/ BrowserDies \/ SessionLooks \/ SessionStops
    BY <1>3, SparesKept DEF JobEnds, ReadBegins, Others, BrowserDies, SessionLooks,
       SessionStops
<1>12. CASE SessionCloses
    <2>1. win' = Retired(peek.w) /\ Invalidates(peek.w)
        BY <1>12 DEF SessionCloses, Invalidates
    <2> QED BY <1>0, <2>1, SparesRetired
<1>4. CASE Person
    BY <1>4, SparesKept DEF Person, LoginEnters, DiscoveryStarts, LoginReturns, CloseEnters,
       DisconnectEnters, RebuildEnters
<1>5. CASE Handlers
    <2>1. CASE CloseConsumes \/ DisconnectStops
        <3>1. UNCHANGED win \/ win' = Retired(lock.w)
            BY <2>1 DEF CloseConsumes, DisconnectStops
        <3>2. Invalidates(lock.w)
            BY <2>1 DEF CloseConsumes, DisconnectStops, Inside, Invalidates
        <3> QED BY <1>0, <3>1, <3>2, SparesKept, SparesRetired
    <2> QED BY <1>5, <2>1, SparesKept DEF Handlers, LoginStarts, LoginTakes, CloseStops,
       RebuildStops, RebuildStarts
<1>6. CASE Executing
    <2>1. CASE ReadSeals
        <3>1. win' = Retired(rd[Executor].w) /\ Invalidates(rd[Executor].w)
            BY <2>1, ExecutorIsReader DEF ReadSeals, Invalidates
        <3> QED BY <1>0, <3>1, SparesRetired
    <2> QED BY <1>6, <2>1, SparesKept DEF Executing, ReadinessEnters, ReadinessStarts,
        ReadinessMarks, Acquire, Release, ExecutorCloses, RecoverBegins, RecoverStops,
        RecoverRest, Others
<1>7. CASE Probing
    <2>1. CASE \E r \in Readers : ValidationReturns(r)
        <3>1. PICK r \in Readers : ValidationReturns(r)
            BY <2>1
        <3>2. UNCHANGED win \/ win' = Retired(rd[r].w)
            BY <3>1 DEF ValidationReturns
        <3>3. Invalidates(rd[r].w)
            BY <3>1 DEF Invalidates
        <3> QED BY <1>0, <3>2, <3>3, SparesKept, SparesRetired
    <2> QED BY <1>7, <2>1, SparesKept DEF Probing, ProbeEnds, ValidationTakes, ProbeBegins,
       ValidationLooks, ValidationStops, Others, Sessions
<1>8. CASE Reconciling
    <2>1. CASE ReconcilerRetires
        <3>1. lock.by = "reconcile" /\ win' = Retired(lock.w)
            BY <2>1 DEF ReconcilerRetires, Inside
        <3>2. Invalidates(lock.w)
            BY <1>0, <3>1 DEF WindowInv, ReconciledIsLate, Invalidates
        <3> QED BY <1>0, <3>1, <3>2, SparesRetired
    <2> QED BY <1>8, <2>1, SparesKept DEF Reconciling, ReconcilerLooks, ReconcilerSkips,
       ReconcilerEnters, ReconcilerCloses, ReconcilerExpels, ReconcilerRest, Sessions
<1>9. CASE Cleaning
    <2>1. CASE \E w \in Windows : CleanupRetires(w)
        <3>1. PICK w \in Windows : CleanupRetires(w)
            BY <2>1
        <3>2. win' = Retired(w) /\ tidy[w] # "no"
            BY <3>1 DEF CleanupRetires
        <3>3. w \in ended'
            BY <1>0, <3>2, WindowsGrow DEF WindowInv, TidiedHasEnded, Grows
        <3> QED BY <1>0, <3>2, <3>3, SparesRetired DEF Invalidates
    <2> QED BY <1>9, <2>1, SparesKept DEF Cleaning, CleanupEnters, CleanupPasses, Ends,
       HandoffEnters, CleanupStops, HandoffTakes, HandoffFails
<1>10. CASE Crash \/ Exit
    <2>1. up' = "down"
        BY <1>10 DEF Crash, Exit, Gone
    <2>2. UNCHANGED win \/ win' = Retired(biz)
        BY <1>10 DEF Crash, Exit
    <2>3. Invalidates(biz)
        BY <2>1 DEF Invalidates, Serving
    <2> QED BY <1>0, <2>2, <2>3, SparesKept, SparesRetired
<1>11. CASE Boot
    <2> DEFINE failed == {w \in Windows : win[w].issued /\ Operational(w)}
               over == {w \in Windows : kind[w] = "shadow" /\ (w \in ended \/ win[w].late)}
    <2>1. /\ ended' = ended \cup failed
          /\ win' = [w \in Windows |-> IF w \in failed \cup over
                                       THEN [win[w] EXCEPT !.used = TRUE] ELSE win[w]]
        BY <1>11 DEF Boot
    <2>2. \A w \in failed \cup over : Invalidates(w)
        BY <2>1 DEF Invalidates
    <2> HIDE DEF failed, over
    <2> QED BY <2>1, <2>2 DEF Spared
<1> QED BY <1>1, <1>2, <1>3, <1>4, <1>5, <1>6, <1>7, <1>8, <1>9, <1>10, <1>11, <1>12
    DEF Next, Issues

\* For any number of windows, readers and lives: a window is invalidated before its time
\* is over and its job has ended only by who is done with it - its own read, validation
\* or discovery, the operator who closes its session, the first read or the exit that
\* ends the login of a business session - or by the session route that saw the browser
\* of its person gone; in particular by no cleanup of another read, by no late
\* reconciler and by no start-up.
THEOREM WindowOutlives == Spec => WindowSpared
<1>1. ControlInv /\ [Next]_vars => [Spared]_vars
    BY Spares
<1> QED BY <1>1, InitControl, NextControl, PTL DEF Spec, WindowSpared, Spared, Invalidates
=============================================================================
