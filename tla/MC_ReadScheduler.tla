-------------------------- MODULE MC_ReadScheduler --------------------------
(***************************************************************************)
(* Instances of ReadScheduler for TLC.  The cfg files choose the jobs and  *)
(* what they are from the model values below.                              *)
(***************************************************************************)
EXTENDS ReadScheduler

CONSTANTS s1, s2, d1, d2

\* Every job asks for a key of its own.
OwnKey == [j \in Jobs |-> j]

\* All jobs read the same subject and day.
OneKey == [j \in Jobs |-> s1]

=============================================================================
