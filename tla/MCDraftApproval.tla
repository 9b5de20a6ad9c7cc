--------------------------- MODULE MCDraftApproval ---------------------------
(* Small instances of DraftApproval: requests are interchangeable.         *)
EXTENDS DraftApproval, TLC

Symmetry == Permutations(Requests)
=============================================================================
