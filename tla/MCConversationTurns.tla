------------------------- MODULE MCConversationTurns -------------------------
(* Model-checking instance of the conversation turns.  Calls, messages and *)
(* dispatches are interchangeable: only invariants are checked.            *)
EXTENDS ConversationTurns, TLC

CONSTANTS c1, c2, m1, m2, d1, d2, q1

Symmetry == Permutations(Calls) \cup Permutations(Messages) \cup Permutations(Dispatches)
=============================================================================
