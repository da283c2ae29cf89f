-------------------------- MODULE MC_BrowserSession --------------------------
(***************************************************************************)
(* Instances of BrowserSession: two windows, of kinds that meet.           *)
(***************************************************************************)
EXTENDS BrowserSession, TLC

\* Two windows of different kinds, or two daily reads, whose windows are open together.
\* Left out are a shadow read and an operational one, which are never open together,
\* and a settlement read with a daily one or a formal check: two daily reads overlap
\* in the same way, and a discovery holds the browser as the formal check does.
Apart == {{"shadow", "settlement"}, {"shadow", "daily"}, {"settlement", "daily"},
          {"settlement", "formal"}}
Different ==
    {f \in [Windows -> AllKinds] : \A v, w \in Windows :
        v # w => {f[v], f[w]} = {"daily"} \/ (f[v] # f[w] /\ {f[v], f[w]} \notin Apart)}

\* Windows of the formal checks only.
Formal == [Windows -> {"formal"}]

\* Two settlement reads.
Settlements == [Windows -> {"settlement"}]

SymmetricWindows == Permutations(Windows)
=============================================================================
