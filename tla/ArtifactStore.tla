--------------------------- MODULE ArtifactStore ---------------------------
(***************************************************************************)
(* What the shared evidence promises to the vehicles that use it: the work *)
(* on an image is done once on each runtime.  A runtime works on one batch *)
(* of images at a time.  Its result stores the artifacts of the whole      *)
(* batch, or refuses one image of it; a batch that is given up leaves      *)
(* nothing.  An image that is settled is never worked on again, and is     *)
(* settled by nothing but the result of a batch that holds it.             *)
(*                                                                         *)
(* The runtimes do not wait for each other, so a step is one turn of each. *)
(***************************************************************************)
CONSTANTS Images, Runtimes

VARIABLES
    batch,    \* the images a runtime is working on
    stored,   \* those whose artifact is stored
    refused   \* those that the runtime could not read

store == <<batch, stored, refused>>

Init ==
    /\ batch = [k \in Runtimes |-> {}]
    /\ stored = [k \in Runtimes |-> {}]
    /\ refused = [k \in Runtimes |-> {}]

Settled(k) == stored[k] \cup refused[k]

Gains(k, good, bad) ==
    /\ stored'[k] = stored[k] \cup good
    /\ refused'[k] = refused[k] \cup bad

\* The next batch, if there is one, holds nothing that is settled.
Takes(k) == batch'[k] \subseteq Images \ Settled(k)'

Rests(k) == Gains(k, {}, {}) /\ batch'[k] = batch[k]

GivesUp(k) == Gains(k, {}, {}) /\ batch'[k] = {}

Begins(k) == batch[k] = {} /\ Gains(k, {}, {}) /\ Takes(k)

Succeeds(k) == Gains(k, batch[k], {}) /\ Takes(k)

Fails(k) == \E m \in batch[k] : Gains(k, {}, {m}) /\ Takes(k)

Next == \A k \in Runtimes :
    Rests(k) \/ GivesUp(k) \/ Begins(k) \/ Succeeds(k) \/ Fails(k)

Spec == Init /\ [][Next]_store

=============================================================================
