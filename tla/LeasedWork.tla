------------------------------ MODULE LeasedWork ------------------------------
(***************************************************************************)
(* What a leased work queue promises its workers: a piece of work is held  *)
(* under one numbered grant at a time, later grants have higher numbers,   *)
(* only held work is decided, and a decision is final.                     *)
(***************************************************************************)
EXTENDS Naturals

CONSTANT Works

VARIABLES
    phase,   \* of each piece of work
    grant    \* of each piece of work: the number of its latest grant

vars == <<phase, grant>>

Init ==
    /\ phase = [w \in Works |-> "absent"]
    /\ grant = [w \in Works |-> 0]

\* Work arrives and waits.
Submit(w) ==
    /\ phase[w] = "absent"
    /\ phase' = [phase EXCEPT ![w] = "waiting"]
    /\ UNCHANGED grant

\* A batch of work is granted: to a first holder, or away from a holder whose
\* grant ran out.  The numbers are new and all different.
Grant ==
    \E batch \in SUBSET Works :
        /\ batch # {}
        /\ \A w \in batch : phase[w] \in {"waiting", "held"}
        /\ \A w \in batch : \A v \in Works : grant'[w] > grant[v]
        /\ \A v, w \in batch : grant'[v] = grant'[w] => v = w
        /\ grant' = [w \in Works |-> IF w \in batch THEN grant'[w] ELSE grant[w]]
        /\ phase' = [w \in Works |-> IF w \in batch THEN "held" ELSE phase[w]]

\* Held work is decided, or goes back to wait for another grant.
Settle(w) ==
    /\ phase[w] = "held"
    /\ \E p \in {"waiting", "done", "dead"} : phase' = [phase EXCEPT ![w] = p]
    /\ UNCHANGED grant

\* Grants that ran out are cleared, several at a time.
Clear ==
    /\ \A w \in Works : \/ phase'[w] = phase[w]
                        \/ phase[w] = "held" /\ phase'[w] \in {"waiting", "dead"}
    /\ phase' = [w \in Works |-> phase'[w]]
    /\ UNCHANGED grant

Next == Grant \/ Clear \/ \E w \in Works : Submit(w) \/ Settle(w)

Spec == Init /\ [][Next]_vars
=============================================================================
