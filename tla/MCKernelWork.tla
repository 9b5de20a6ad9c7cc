----------------------------- MODULE MCKernelWork -----------------------------
(* Small instances of KernelWork: an execution and a message share the     *)
(* lease numbering; the threads are interchangeable.               *)
EXTENDS KernelWork, TLC

Symmetry == Permutations(Threads)
=============================================================================
