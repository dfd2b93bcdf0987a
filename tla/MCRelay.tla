------------------------------ MODULE MCRelay ------------------------------
(***************************************************************************)
(* Relay for TLC.  Safety: two callers, three stories competing for two    *)
(* places, two archetypes asked for by a pool of two, all interchangeable. *)
(* Liveness, without symmetry: two stories competing for one place.        *)
(***************************************************************************)
EXTENDS Relay, TLC

Interchangeable ==
  Permutations(Callers) \cup Permutations(Stories) \cup Permutations(Archetypes)

=============================================================================
