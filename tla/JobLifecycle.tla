---------------------------- MODULE JobLifecycle ----------------------------
(***************************************************************************)
(* What the outbox promises the slices about one authorized external       *)
(* effect: a job is tried up to MaxAttempts times, then settles; a         *)
(* delivered job and one whose outcome is unknown stay so for ever; only   *)
(* an operator revives a failed one, with a fresh budget.  Claims, leases, *)
(* couriers, receipts and crashes are invisible.                           *)
(***************************************************************************)
EXTENDS Naturals

CONSTANTS Jobs, MaxAttempts

VARIABLES status, tries

vars == <<status, tries>>

Init ==
    /\ status = [j \in Jobs |-> "absent"]
    /\ tries = [j \in Jobs |-> 0]

Authorize(j) ==
    /\ status[j] = "absent"
    /\ status' = [status EXCEPT ![j] = "pending"]
    /\ UNCHANGED tries

Try(j) ==
    /\ status[j] = "pending"
    /\ tries[j] < MaxAttempts
    /\ tries' = [tries EXCEPT ![j] = @ + 1]
    /\ \E s \in {"pending", "delivered", "failed_terminal", "delivery_outcome_unknown"} :
          /\ s = "pending" => tries[j] + 1 < MaxAttempts
          /\ status' = [status EXCEPT ![j] = s]

Revive(j) ==
    /\ status[j] = "failed_terminal"
    /\ status' = [status EXCEPT ![j] = "pending"]
    /\ tries' = [tries EXCEPT ![j] = 0]

Next == \E j \in Jobs : Authorize(j) \/ Try(j) \/ Revive(j)

Spec == Init /\ [][Next]_vars
=============================================================================
