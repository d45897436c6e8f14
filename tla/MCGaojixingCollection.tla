------------------------ MODULE MCGaojixingCollection ------------------------
(* Instances of GaojixingCollection for TLC. *)
EXTENDS GaojixingCollection, TLC

TwoQuestions == [j \in Jobs |-> 2]
OneQuestion == [j \in Jobs |-> 1]

\* The first position is phase 1, the second phase 2.
First == {1}

\* Contents of captures are only compared.
CaptureSymmetry == Permutations(Captures)
==============================================================================
