----------------------------- MODULE AsyncKickoff -----------------------------
(***************************************************************************)
(* The kickoff registry shared by the slices that start background work    *)
(* (crates/bos-app/src/slices/async_kickoff.rs): one running job per key,  *)
(* and a limited number of running jobs in a capacity group.  The registry *)
(* lives in memory; a place is given back when the guard is dropped.       *)
(***************************************************************************)
EXTENDS Integers

CONSTANTS
    Keys,            \* kickoff keys of the group: slice id and draft id
    MaxConcurrent,   \* max_concurrent of the group
    NoRun            \* stands for "no entry"

ASSUME CapacityAssumption == MaxConcurrent \in Nat

VARIABLES
    byKey,     \* the run registered for each key, or NoRun
    byGroup    \* places of the group in use

registry == <<byKey, byGroup>>

EmptyRegistry == byKey = [k \in Keys |-> NoRun] /\ byGroup = 0

\* A restarted process starts with an empty registry.
RegistryLost == byKey' = [k \in Keys |-> NoRun] /\ byGroup' = 0

Capacity == IF MaxConcurrent > 1 THEN MaxConcurrent ELSE 1

Full == byGroup >= Capacity

AlreadyRunning(k) == byKey[k] # NoRun

CapacityExceeded(k) == byKey[k] = NoRun /\ Full

\* begin_guard: the key is asked for first, then the capacity; both are taken
\* under one lock.
GuardStarted(k, run) ==
    /\ byKey[k] = NoRun /\ ~Full
    /\ byKey' = [byKey EXCEPT ![k] = run]
    /\ byGroup' = byGroup + 1

\* drop of a KickoffGuard
DropGuard(k) ==
    /\ byKey' = [byKey EXCEPT ![k] = NoRun]
    /\ byGroup' = IF byGroup > 0 THEN byGroup - 1 ELSE 0

\* The same for work that asks for no capacity (KickoffCapacity::Unbounded).
GuardStartedUnbounded(k, run) ==
    /\ byKey[k] = NoRun
    /\ byKey' = [byKey EXCEPT ![k] = run]
    /\ UNCHANGED byGroup

DropGuardUnbounded(k) == byKey' = [byKey EXCEPT ![k] = NoRun] /\ UNCHANGED byGroup

=============================================================================
