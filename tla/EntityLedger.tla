---------------------------- MODULE EntityLedger ----------------------------
(***************************************************************************)
(* What the receipt spine promises the slices: a versioned store in which  *)
(* an idempotency key settles at most once, for ever, and each settlement  *)
(* moves its entity - and at most one other - forward by one version.      *)
(* Replays, conflicts, failures, busy databases and crashes are invisible. *)
(***************************************************************************)
EXTENDS Naturals

CONSTANTS Entities, Keys

VARIABLES
    version,   \* committed version of each entity, 0 before it exists
    settled    \* version a key's mutation produced, 0 while it has not run

vars == <<version, settled>>

Init ==
    /\ version = [e \in Entities |-> 0]
    /\ settled = [k \in Keys |-> 0]

Settle(k, e) ==
    /\ \E also \in SUBSET (Entities \ {e}) :
          /\ \A a, b \in also : a = b
          /\ version' = [x \in Entities |-> IF x = e \/ x \in also THEN version[x] + 1
                                                                  ELSE version[x]]
    /\ settled[k] = 0
    /\ settled' = [settled EXCEPT ![k] = version[e] + 1]

Next == \E k \in Keys, e \in Entities : Settle(k, e)

Spec == Init /\ [][Next]_vars
=============================================================================
