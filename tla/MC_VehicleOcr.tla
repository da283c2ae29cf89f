--------------------------- MODULE MC_VehicleOcr ---------------------------
(***************************************************************************)
(* Audits, vehicles and tickets for the instances of VehicleOcr.           *)
(***************************************************************************)
EXTENDS VehicleOcr

CONSTANTS j1, j2, v1, v2, v3, x, y, z

Tickets(loading, unloading) ==
    [r \in Roles |-> IF r = "loading" THEN loading ELSE unloading]

\* One audit, whose vehicles share a ticket.
OneJob == [i \in {v1, v2} |-> j1]
Sharing == [i \in {v1, v2} |-> IF i = v1 THEN Tickets(x, y) ELSE Tickets(y, z)]

\* One audit has a vehicle with both tickets and one that shows a photograph in
\* both roles; the vehicle of the other audit has its unloading ticket still to come.
TwoJobs == [i \in {v1, v2, v3} |-> IF i = v2 THEN j2 ELSE j1]
Odd == [i \in {v1, v2, v3} |-> IF i = v1 THEN Tickets(x, y)
                               ELSE IF i = v2 THEN Tickets(y, NoImage)
                               ELSE Tickets(x, x)]

Both == {"gpu", "cpu"}
WithCpu == {Both}
GpuMayGo == {Both, {"cpu"}}
=============================================================================
