------------------------------ MODULE MCApiGate ------------------------------
(* Two workers and two clients in front of one Redis; two signing keys.     *)
EXTENDS ApiGate, TLC

CONSTANTS c1, c2, w1, w2, k1, k2

MCClients == {c1, c2}
MCWorkers == {w1, w2}
MCKeys == {k1, k2}

\* Nothing orders clients, workers or keys.
Symmetry == Permutations(MCClients) \cup Permutations(MCWorkers) \cup Permutations(MCKeys)
=============================================================================
