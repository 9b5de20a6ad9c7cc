-------------------------- MODULE MCProviderWrites --------------------------
EXTENDS ProviderWrites, TLC

\* Two jobs of every kind, so that they meet at what they share, and the pair of
\* kinds that share the clients of Invoice Ninja.
MCWorkloads ==
    {[j \in Jobs |-> k] : k \in Kinds}
    \cup [Jobs -> {"ninja_receipt", "ninja_invoice"}]
Symmetry == Permutations(Jobs)
=============================================================================
