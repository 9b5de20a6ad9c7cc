--------------------------- MODULE MCAccountingSync ---------------------------
(* A small instance of AccountingSync: two companies, one walked entity with  *)
(* two records and a page of one, a closed P&L period and the balance sheet.  *)
EXTENDS AccountingSync, TLC

MCWalks == <<"invoice">>
MCRecords == [e \in {"invoice"} |-> {1, 2}]
MCGroups == <<[name |-> "periods", cursor |-> "pnl", periods |-> {"month"}],
              [name |-> "balance", cursor |-> "balance_sheet", periods |-> {"today"}]>>

\* Bounds under which the books change, companies change hands, and the two
\* threads refresh one grant.
MCScopes ==
    {[budget |-> 4, threads |-> {"sync"}, cycles |-> 2, grants |-> 1, updates |-> 2, faults |-> 1],
     [budget |-> 5, threads |-> {"sync"}, cycles |-> 2, grants |-> 3, updates |-> 0, faults |-> 1],
     [budget |-> 2, threads |-> {"sync", "courier"}, cycles |-> 2, grants |-> 3, updates |-> 0, faults |-> 2]}

Symmetry == Permutations(Realms) \cup Permutations(Contents)
=============================================================================
