----------------------------- MODULE ApiWorkers -----------------------------
(* The uvicorn workers that serve the API, and the time they all read.     *)
EXTENDS Naturals, FiniteSets

CONSTANTS Workers,
          MaxTime     \* last instant (a bound)

ASSUME WorkersAssumption == IsFiniteSet(Workers) /\ MaxTime \in Nat

VARIABLE clock

Instants == 0..MaxTime
=============================================================================
