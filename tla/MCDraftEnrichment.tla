-------------------------- MODULE MCDraftEnrichment --------------------------
(* Small instances of DraftEnrichment.                                        *)
EXTENDS DraftEnrichment

\* What produce left open: a placeholder name, or only the detail; in a source that
\* names a domain, or in one that does not.
Open == [fields |-> [name |-> "weak", detail |-> "none"], contact |-> FALSE, sourced |-> TRUE]
Named == [fields |-> [name |-> "known", detail |-> "none"], contact |-> FALSE, sourced |-> TRUE]
Bare == [fields |-> [name |-> "known", detail |-> "none"], contact |-> FALSE, sourced |-> FALSE]
Sited == [fields |-> [name |-> "weak", detail |-> "known"], contact |-> FALSE, sourced |-> FALSE]

\* One draft of either kind, staged by produce, that the operator edits and
\* decides while the run after staging and the pump enrich it.
Contended ==
    [kinds |-> {"crm", "invoice"}, modes |-> {}, fills |-> {Open}, edits |-> {"name", "detail"},
     staged |-> 0, drafts |-> 1, acts |-> 2, sends |-> 0, epochs |-> 1, faults |-> 0]

\* An invoice draft, where a click shares its run id with the run after staging.
Clicked ==
    [kinds |-> {"invoice"}, modes |-> {"standard"}, fills |-> {Open}, edits |-> {"detail"},
     staged |-> 0, drafts |-> 1, acts |-> 1, sends |-> 1, epochs |-> 1, faults |-> 0]

\* Two record drafts that compete for the pump's budget and for the research
\* capacity, with two clicks or one click sent twice.
Competing ==
    [kinds |-> {"crm"}, modes |-> {"research"}, fills |-> {Named}, edits |-> {},
     staged |-> 2, drafts |-> 2, acts |-> 0, sends |-> 2, epochs |-> 1, faults |-> 0]

\* One draft, found by the process that starts: a fault between any two steps, and
\* a request sent again after it.  The click's graft gives the draft its website and
\* with it a new plan.
Interrupted ==
    [kinds |-> {"crm"}, modes |-> {"standard"}, fills |-> {Bare}, edits |-> {},
     staged |-> 1, drafts |-> 1, acts |-> 0, sends |-> 2, epochs |-> 1, faults |-> 1]

\* The same for either kind, with one click and a new freshness epoch.
Aging ==
    [kinds |-> {"crm", "invoice"}, modes |-> {"standard"}, fills |-> {Named}, edits |-> {},
     staged |-> 1, drafts |-> 1, acts |-> 0, sends |-> 1, epochs |-> 2, faults |-> 1]

\* A record draft without a domain in its source: its website seeds the search, so
\* that edits and grafts change its plan while the pump is at work.
Replanning ==
    [kinds |-> {"crm"}, modes |-> {}, fills |-> {Sited}, edits |-> {"name", "detail", "contact"},
     staged |-> 1, drafts |-> 1, acts |-> 3, sends |-> 0, epochs |-> 1, faults |-> 0]

\* More record drafts than the pump lists.
Crowded ==
    [kinds |-> {"crm"}, modes |-> {}, fills |-> {Named}, edits |-> {},
     staged |-> 2, drafts |-> 3, acts |-> 0, sends |-> 0, epochs |-> 1, faults |-> 0]

MCScopes == {Contended, Clicked, Competing, Interrupted, Aging, Replanning, Crowded}
=============================================================================
