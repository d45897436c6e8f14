--------------------------- MODULE MCIIICollection ---------------------------
(* Instances of IIICollection for TLC. *)
EXTENDS IIICollection, TLC

\* Handlers, payloads and summaries are only compared.
Symmetry == Permutations(Calls) \cup Permutations(Bodies) \cup Permutations(Summaries)
=============================================================================
