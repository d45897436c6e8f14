-------------------------- MODULE MCLocalBrowserPool --------------------------
(* Instances of LocalBrowserPool for TLC. *)
EXTENDS LocalBrowserPool, TLC

\* Callers are interchangeable.
CallerSymmetry == Permutations(Callers)
=============================================================================
