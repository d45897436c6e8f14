--------------------------- MODULE MCEvidenceBatch ---------------------------
(* Instances of EvidenceBatch for TLC. *)
EXTENDS EvidenceBatch

CONSTANTS k1, k2, f1

\* Two keys, with and without a declared rejection; none; and a key of another source.
SomeReports == {[keys |-> {k1, k2}, rejected |-> 0], [keys |-> {k1, k2}, rejected |-> 1],
                [keys |-> {}, rejected |-> 0], [keys |-> {f1}, rejected |-> 0]}

\* Receipts that accept, that reject one key, and that do not cover both keys.
SomeOutcomes == {(k1 :> "accepted" @@ k2 :> "duplicate"), (k1 :> "accepted" @@ k2 :> "rejected"),
                 (k1 :> "accepted")}

\* Handlers and receipt identities are only compared.
Symmetry == Permutations(Calls) \cup Permutations(ReceiptIds)
=============================================================================
