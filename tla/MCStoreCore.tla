----------------------------- MODULE MCStoreCore -----------------------------
(* Small instances of StoreCore: callers, entities and keys are            *)
(* interchangeable, so every permutation of each is a symmetry.            *)
EXTENDS StoreCore, TLC

Symmetry == Permutations(Writers) \cup Permutations(Entities)
                \cup Permutations(Keys)
=============================================================================
