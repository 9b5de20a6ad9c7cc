------------------------------ MODULE KernelWork ------------------------------
(***************************************************************************)
(* The kernel's leased work (crates/bos-kernel): the work store with its   *)
(* two queues, executions and outbox messages (memory.rs, execution.rs,    *)
(* outbox.rs), the coordinator that claims, renews and resolves on behalf  *)
(* of workers (scheduler.rs), and the reference runner that keeps the      *)
(* claims of its workers in a registry (runner/dispatch_runner.rs).        *)
(*                                                                         *)
(* Every store operation runs under the store's mutex and is one step.  A  *)
(* runner operation is three: look up the claim, call the store, update    *)
(* the registry; threads interleave between them.  Operations are passed   *)
(* the time they are about, which may be older than the clock.             *)
(***************************************************************************)
EXTENDS Integers, FiniteSets

CONSTANTS
    Executions,    \* execution ids (numbers)
    Messages,      \* outbox message ids (numbers)
    Workers,       \* worker identities
    Threads,       \* threads calling the runner
    Ttl,           \* lease_ttl
    BatchSize,     \* batch_size of a claim
    RecoverLimit,  \* limit of a recovery request
    MaxAttempts,   \* max_attempts of a recovery request
    Lag,           \* how far a caller's time may trail the clock
    MaxTime,       \* bound: clock
    MaxLeases,     \* bound: leases granted
    MaxRevision    \* bound: revisions of a piece of work

Works == Executions \cup Messages

ASSUME WorksAssumption ==
    /\ Executions \subseteq Nat /\ Messages \subseteq Nat /\ Executions \cap Messages = {}
    /\ IsFiniteSet(Works)
ASSUME NumbersAssumption ==
    /\ Ttl \in Nat \ {0} /\ BatchSize \in Nat \ {0} /\ RecoverLimit \in Nat \ {0}
    /\ MaxAttempts \in Nat /\ Lag \in Nat /\ MaxTime \in Nat
    /\ MaxLeases \in Nat /\ MaxRevision \in Nat

VARIABLES
    clock,      \* wall-clock time
    work,       \* the store: per id, the record or message with its lease
    leases,     \* next_lease_sequence
    registry,   \* active_claims of the runner
    calls,      \* per thread: the runner operation in progress
    honoured,   \* history: leases whose holder resolved the work
    granted     \* history: the latest lease of each piece of work

vars == <<clock, work, leases, registry, calls, honoured, granted>>
store == <<work, leases, honoured, granted>>

NoLease == [id |-> 0, by |-> "nobody", expires |-> 0]
Absent == [status |-> "absent", attempt |-> 0, revision |-> 0, available |-> 0,
           lease |-> NoLease]
Idle == [pc |-> "idle"]
Terminal == {"Succeeded", "DeadLettered"}
Queues == {Executions, Messages}

Leased(w) == work[w].lease # NoLease

ExpiredAtOnce(w, at) == Leased(w) /\ work[w].lease.expires <= at

\* is_expired_at of the lease
Expired(w, at) == Leased(w) /\ work[w].lease.expires < at

\* The times a caller may pass.
Times == {t \in 0..clock : clock - t <= Lag}

IsDueWhenSucceeded(w, at) ==
    /\ work[w].status \in {"Pending", "InFlight", "Succeeded"}
    /\ work[w].available <= at
    /\ ~Leased(w) \/ Expired(w, at)

\* is_due_at, expired leases included
IsDue(w, at) ==
    /\ work[w].status \in {"Pending", "InFlight"}
    /\ work[w].available <= at
    /\ ~Leased(w) \/ Expired(w, at)

\* The first n of the candidates in the order of available_at; ties are broken
\* by recording time or id, which the properties do not tell apart.
FirstOf(candidates, n) ==
    {batch \in SUBSET candidates :
        /\ Cardinality(batch) <= n
        /\ Cardinality(batch) = n \/ batch = candidates
        /\ \A w \in batch, v \in candidates \ batch : work[w].available <= work[v].available}

-----------------------------------------------------------------------------
Init ==
    /\ clock = 0
    /\ work = [w \in Works |-> Absent]
    /\ leases = 0
    /\ registry = {}
    /\ calls = [t \in Threads |-> Idle]
    /\ honoured = {}
    /\ granted = [w \in Works |-> 0]

Tick ==
    /\ clock < MaxTime
    /\ clock' = clock + 1
    /\ UNCHANGED <<store, registry, calls>>

\* append and append_outbox: a new record is available at once.  Executions
\* count the attempt that is due, messages the attempts made.
Append(w) ==
    /\ work[w] = Absent
    /\ work' = [work EXCEPT ![w] = [status |-> "Pending", revision |-> 1, available |-> clock,
                                    attempt |-> IF w \in Executions THEN 1 ELSE 0,
                                    lease |-> NoLease]]
    /\ UNCHANGED <<clock, leases, registry, calls, honoured, granted>>

\* The lease of w in a batch: ids follow one another across both queues.
NewLease(batch, w, x, at) ==
    [id |-> leases + Cardinality({v \in batch : v <= w}), by |-> x, expires |-> at + Ttl]

\* mark_claimed
Claimed(r, lease) == [r EXCEPT !.status = "InFlight", !.revision = @ + 1, !.lease = lease]

\* The copy the worker keeps: the claimed record's revision and the lease.
ClaimOf(w, r) == [work |-> w, lease |-> r.lease.id, by |-> r.lease.by, revision |-> r.revision]

\* dispatch_cycle: claim_available or lease_available grants the first due
\* work of one queue.  The runner has the claims in hand but not registered.
Claim(t, x) ==
    /\ calls[t] = Idle
    /\ \E queue \in Queues, at \in Times :
       \E batch \in FirstOf({w \in queue : IsDue(w, at)}, BatchSize) :
          LET new == [w \in batch |-> Claimed(work[w], NewLease(batch, w, x, at))]
          IN  /\ batch # {}
              /\ leases + Cardinality(batch) <= MaxLeases
              /\ \A w \in batch : work[w].revision < MaxRevision
              /\ work' = [w \in Works |-> IF w \in batch THEN new[w] ELSE work[w]]
              /\ leases' = leases + Cardinality(batch)
              /\ granted' = [w \in Works |-> IF w \in batch THEN new[w].lease.id ELSE granted[w]]
              /\ calls' = [calls EXCEPT ![t] = [pc |-> "claimed",
                                                claims |-> {ClaimOf(w, new[w]) : w \in batch}]]
    /\ UNCHANGED <<clock, registry, honoured>>

\* The second half of the runner's claim.
Register(t) ==
    /\ calls[t].pc = "claimed"
    /\ registry' = registry \cup calls[t].claims
    /\ calls' = [calls EXCEPT ![t] = Idle]
    /\ UNCHANGED <<clock, store>>

\* lookup_claim: renew, complete, retry and dead_letter start from a copy of the
\* registered claim.
Lookup(t) ==
    /\ calls[t] = Idle
    /\ \E c \in registry, op \in {"renew", "complete", "retry", "dead_letter"} :
          calls' = [calls EXCEPT ![t] = [pc |-> "looked", op |-> op, claim |-> c]]
    /\ UNCHANGED <<clock, store, registry>>

HoldsAnyLease(c) == Leased(c.work)

\* The check of every resolution: the lease id, then the expected revision that
\* the claim carries.  Nobody asks whether the lease has expired.
Holds(c) == work[c.work].lease.id = c.lease /\ work[c.work].revision = c.revision

\* The attempts of a message are counted whatever the outcome; those of an
\* execution only when it is retried.
AttemptAfter(w, retried) ==
    IF w \in Messages \/ retried THEN work[w].attempt + 1 ELSE work[w].attempt

\* A record without its lease and one revision on, as every resolution and
\* every recovery leaves it.
Released(w, status, available, retried) ==
    [status |-> status, attempt |-> AttemptAfter(w, retried),
     revision |-> work[w].revision + 1, available |-> available, lease |-> NoLease]

\* acknowledge_completion, acknowledge_delivery: mark_succeeded
Completed(w) == Released(w, "Succeeded", work[w].available, FALSE)

\* retry_execution, retry_delivery: schedule_retry at or after the attempt
Retried(w, next) == Released(w, "Pending", next, TRUE)

\* dead_letter_execution, dead_letter_delivery: mark_dead_lettered
DeadLettered(w) == Released(w, "DeadLettered", work[w].available, FALSE)

\* finalize of a resolution; a refused one returns an error and the claim stays
\* registered.
Finalize(t) ==
    LET c == calls[t].claim
    IN  /\ calls[t].pc = "looked" /\ calls[t].op # "renew"
        /\ \/ /\ Holds(c)
              /\ work[c.work].revision < MaxRevision
              /\ \E next \in clock..MaxTime :
                    work' = [work EXCEPT ![c.work] =
                               CASE calls[t].op = "complete" -> Completed(c.work)
                                 [] calls[t].op = "retry" -> Retried(c.work, next)
                                 [] calls[t].op = "dead_letter" -> DeadLettered(c.work)]
              /\ honoured' = honoured \cup {c.lease}
              /\ calls' = [calls EXCEPT ![t].pc = "stored"]
           \/ /\ ~Holds(c)
              /\ calls' = [calls EXCEPT ![t] = Idle]
              /\ UNCHANGED <<work, honoured>>
        /\ UNCHANGED <<clock, leases, registry, granted>>

\* renewed_lease: the same id and owner, a new expiry; the record is not touched.
Renewed(r, at) == [r EXCEPT !.lease.expires = at + Ttl]

\* renew_lease: lease id and owner must match, and the lease must not have
\* expired at the time the caller gives.
Renew(t) ==
    LET c == calls[t].claim
    IN  /\ calls[t].pc = "looked" /\ calls[t].op = "renew"
        /\ \E at \in Times :
              \/ /\ work[c.work].lease.id = c.lease /\ work[c.work].lease.by = c.by
                 /\ ~Expired(c.work, at)
                 /\ work' = [work EXCEPT ![c.work] = Renewed(@, at)]
                 /\ calls' = [calls EXCEPT ![t].pc = "stored"]
              \/ /\ work[c.work].lease.id # c.lease \/ Expired(c.work, at)
                 /\ calls' = [calls EXCEPT ![t] = Idle]
                 /\ UNCHANGED work
    /\ UNCHANGED <<clock, leases, registry, honoured, granted>>

\* The registry after the store call: a resolved claim is removed, a renewed
\* one is inserted again under its id, whatever happened to it in between.
UpdateRegistry(t) ==
    /\ calls[t].pc = "stored"
    /\ registry' = IF calls[t].op = "renew" THEN registry \cup {calls[t].claim}
                                            ELSE registry \ {calls[t].claim}
    /\ calls' = [calls EXCEPT ![t] = Idle]
    /\ UNCHANGED <<clock, store>>

\* observe_worker fails after the store call: the operation returns an error
\* and the registry is left as it was.
ObserveFails(t) ==
    /\ calls[t].pc \in {"claimed", "stored"}
    /\ calls' = [calls EXCEPT ![t] = Idle]
    /\ UNCHANGED <<clock, store, registry>>

\* One expired lease: dead-lettered at the limit, else back to Pending.  A
\* released message is available now; a released execution is not counted.
Recovered(w, at) ==
    IF work[w].attempt >= MaxAttempts THEN DeadLettered(w)
    ELSE [Released(w, "Pending", IF w \in Messages THEN at ELSE work[w].available, FALSE)
             EXCEPT !.attempt = work[w].attempt]

\* recover_expired_leases on one queue
Recover ==
    /\ \E queue \in Queues, at \in Times :
       \E batch \in FirstOf({w \in queue : Expired(w, at)}, RecoverLimit) :
          /\ batch # {}
          /\ \A w \in batch : work[w].revision < MaxRevision
          /\ work' = [w \in Works |-> IF w \in batch THEN Recovered(w, at) ELSE work[w]]
    /\ UNCHANGED <<clock, leases, registry, calls, honoured, granted>>

Next ==
    \/ Tick \/ Recover
    \/ \E w \in Works : Append(w)
    \/ \E t \in Threads : \/ \E x \in Workers : Claim(t, x)
                          \/ Register(t) \/ Lookup(t) \/ Finalize(t) \/ Renew(t)
                          \/ UpdateRegistry(t) \/ ObserveFails(t)

Spec == Init /\ [][Next]_vars

-----------------------------------------------------------------------------
Lease == [id : Nat \ {0}, by : Workers, expires : Nat] \cup {NoLease}

Work == [status : {"absent", "Pending", "InFlight"} \cup Terminal,
         attempt : Nat, revision : Nat, available : Nat, lease : Lease]

RunnerClaim == [work : Works, lease : Nat \ {0}, by : Workers, revision : Nat]

Call == [pc : {"idle"}]
        \cup [pc : {"claimed"}, claims : SUBSET RunnerClaim]
        \cup [pc : {"looked", "stored"}, claim : RunnerClaim,
              op : {"renew", "complete", "retry", "dead_letter"}]

\* Types of every variable; the store leases exactly the work in flight.
TypeOK ==
    /\ clock \in Nat /\ leases \in Nat
    /\ work \in [Works -> Work]
    /\ registry \subseteq RunnerClaim
    /\ calls \in [Threads -> Call]
    /\ honoured \subseteq Nat /\ granted \in [Works -> Nat]
    /\ \A w \in Works : Leased(w) <=> work[w].status = "InFlight"

\* The claims a thread has in hand.
InHand(t) ==
    CASE calls[t].pc = "claimed" -> calls[t].claims
      [] calls[t].pc \in {"looked", "stored"} -> {calls[t].claim}
      [] OTHER -> {}

Copies == registry \cup UNION {InHand(t) : t \in Threads}

\* A worker that still has the lease is never turned away: renewals, recoveries
\* and resolutions by others leave every copy of a live claim, in the registry
\* or in a thread's hands, with the revision the store checks for, and with
\* the owner.
LiveHolderAccepted ==
    \A c \in Copies :
        work[c.work].lease.id = c.lease => Holds(c) /\ work[c.work].lease.by = c.by

\* Lease ids name one claim for ever, across both queues: two copies with the
\* same lease id are about the same work and were taken by the same worker.
LeaseNamesClaim == \A c, d \in Copies : c.lease = d.lease => c = d

\* A lease that has not run out is honoured: nobody but its holder takes the
\* work away from it (recover_expired_leases, claim_available).
LiveLeaseHonoured ==
    [][\A w \in Works :
          /\ Leased(w) /\ clock <= work[w].lease.expires
          /\ work'[w].lease.id # work[w].lease.id
          => work[w].lease.id \in honoured' /\ ~Leased(w)']_vars

\* A lease decides at most once, and only while it is the work's latest: the
\* outcome of a superseded or recovered holder never counts.
LateOutcomesIgnored ==
    /\ \A w \in Works : Leased(w) => work[w].lease.id \notin honoured
    /\ \A w \in Works : Leased(w) => work[w].lease.id = granted[w]
    /\ \A c \in Copies : c.lease < granted[c.work] => ~Holds(c)

\* Why lease ids can be told apart: the sequence is ahead of every id that the
\* store, a copy or an outcome knows, and no two pieces of work share one.
LeasesAreNumbered ==
    /\ \A w \in Works : granted[w] <= leases
    /\ \A c \in Copies : c.lease <= leases
    /\ \A n \in honoured : n <= leases
    /\ \A v, w \in Works : granted[v] = granted[w] => v = w \/ granted[v] = 0

Phase(w) ==
    CASE work[w].status = "absent" -> "absent"
      [] work[w].status = "Pending" -> "waiting"
      [] work[w].status = "InFlight" -> "held"
      [] work[w].status = "Succeeded" -> "done"
      [] work[w].status = "DeadLettered" -> "dead"

Queue == INSTANCE LeasedWork WITH phase <- [w \in Works |-> Phase(w)], grant <- granted

\* The store implements LeasedWork: grants are numbered upwards, only leased
\* work is decided, completed and dead-lettered work is never granted again.
QueueRefined == Queue!Spec

\* The lease protocol of the store and the runner's registry, together: leases
\* name claims, live holders are accepted, late ones are not, and no id is reused.
LeaseInv ==
    TypeOK /\ LeaseNamesClaim /\ LiveHolderAccepted /\ LateOutcomesIgnored /\ LeasesAreNumbered
=============================================================================
