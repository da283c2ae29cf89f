---------------------------- MODULE BrowserSlot ----------------------------
(***************************************************************************)
(* What the platform_browser resource slot promises, whatever the          *)
(* scheduler, the executors, crashes and recovery do in detail: its        *)
(* authority is a token that is handed out once, work is done under the    *)
(* token that is in force, and the token changes hands or expires only     *)
(* while no work is under way.  The authority is durable and the work is   *)
(* not, so a crash ends the work and leaves the token in force.            *)
(***************************************************************************)
CONSTANT Tokens

VARIABLES
    holder,   \* the token in force, if any
    working,  \* tokens under which an executor is working
    used      \* tokens handed out so far

slot == <<holder, working, used>>

Init == holder = {} /\ working = {} /\ used = {}

\* A token that was never used replaces the one in force.
Grant(t) ==
    /\ working = {}
    /\ t \notin used
    /\ holder' = {t}
    /\ used' = used \cup {t}
    /\ UNCHANGED working

Release ==
    /\ working = {}
    /\ holder' = {}
    /\ UNCHANGED <<working, used>>

Begin(t) ==
    /\ t \in holder
    /\ working' = working \cup {t}
    /\ UNCHANGED <<holder, used>>

End(t) ==
    /\ working' = working \ {t}
    /\ UNCHANGED <<holder, used>>

Crash ==
    /\ working' = {}
    /\ UNCHANGED <<holder, used>>

Next ==
    \/ \E t \in Tokens : Grant(t) \/ Begin(t) \/ End(t)
    \/ Release
    \/ Crash

Spec == Init /\ [][Next]_slot

=============================================================================
