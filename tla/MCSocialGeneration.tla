-------------------------- MODULE MCSocialGeneration --------------------------
(* A small instance of SocialGeneration: sources compete for the places of  *)
(* the capacity group.                                                     *)
EXTENDS SocialGeneration, TLC

Symmetry == Permutations(Handlers) \cup Permutations(Workers)
                \cup Permutations(Requests) \cup Permutations(Keys)
=============================================================================
