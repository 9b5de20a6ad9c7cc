------------------------------- MODULE MCIntake -------------------------------
(* Small instances of Intake: a category's policy asks for items, of a kind *)
(* that messages of lower attention do without, and lets the AI add to them,*)
(* or does neither.                                                         *)
EXTENDS Intake, TLC

MCPolicies ==
    {[create |-> TRUE, kinds |-> {"calendar"}, aiKinds |-> {"crm"}],
     [create |-> FALSE, kinds |-> {}, aiKinds |-> {}]}

Symmetry == Permutations(Handlers) \cup Permutations(Categories)
=============================================================================
