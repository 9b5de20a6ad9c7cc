------------------------------ MODULE MCProduce ------------------------------
(* The small instance of Produce.  Clicks, notes and a smart-draft run       *)
(* produce for item 2, the pump for items 1 to 3; item 3 has a source that   *)
(* never yields a draft, the category of item 4 has not opted in.  A cycle   *)
(* looks at two accepted items and has room for one.                         *)
EXTENDS Produce

MCMaxDrafts == [s \in 1..4 |-> IF s = 2 THEN 2 ELSE 0]
=============================================================================
