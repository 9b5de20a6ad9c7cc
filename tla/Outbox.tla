------------------------------- MODULE Outbox -------------------------------
(***************************************************************************)
(* The outbox of bos-app (crates/bos-app/src/outbox.rs): the one path for  *)
(* effects on providers.  Jobs are enqueued inside a receipted mutation;   *)
(* the delivery pump claims due jobs under a lease, calls the provider     *)
(* with no lock held, and records the outcome through the receipt spine.   *)
(* The agent-launch routes (work_queue, debug) are a second courier: they  *)
(* claim the job they have just enqueued by its id.                        *)
(*                                                                         *)
(* Wall-clock time is two events per job: its next_attempt_at is reached,  *)
(* and its lease runs out.                                                 *)
(***************************************************************************)
EXTENDS Integers, Sequences, FiniteSets

CONSTANTS
    Jobs,          \* outbox job ids of one client
    LaunchJobs,    \* those enqueued by an agent-launch route
    Pump,          \* the delivery pump thread
    MaxAttempts,   \* MAX_ATTEMPTS
    ClaimBatch,    \* CLAIM_BATCH
    MayStall,      \* may a launch outlive its lease (suspended host, clock step)?
    MaxRetries,    \* bound: operator retries of one job
    MaxFaults      \* bound: crashes plus failed writes

ASSUME LaunchAssumption == LaunchJobs \subseteq Jobs /\ Pump \notin Jobs
ASSUME BoundsAssumption ==
    /\ MaxAttempts \in Nat \ {0} /\ ClaimBatch \in Nat \ {0}
    /\ MayStall \in BOOLEAN /\ MaxRetries \in Nat /\ MaxFaults \in Nat

VARIABLES
    jobs,        \* table outbox_jobs: status, attempts, live lease
    dueQueue,    \* due pending jobs in next_attempt_at order
    cycle,       \* applied retry_requested receipts of a job: its retry cycle
    recorded,    \* applied outbox_attempt receipts, by idempotency key
    batch,       \* the pump's claimed jobs it has not yet come to
    work,        \* per courier: the claimed job in hand
    posts,       \* history: provider calls per job in the current cycle
    told,        \* history: jobs a record_attempt reported as delivered
    stalled,     \* history: launches whose lease ran out before they were done
    faults       \* crashes and failed writes so far

vars == <<jobs, dueQueue, cycle, recorded, batch, work, posts, told, stalled, faults>>

Couriers == {Pump} \cup LaunchJobs
Settled == {"delivered", "failed_terminal", "delivery_outcome_unknown"}
Statuses == Settled \cup {"absent", "pending"}

\* An agent launch is delivered or terminal: its transport errors are never
\* retried.  Other executors map provider answers onto all four outcomes.
Outcomes(j) ==
    IF j \in LaunchJobs THEN {"Delivered", "Terminal"}
    ELSE {"Delivered", "Retry", "Terminal", "OutcomeUnknown"}

Free == [pc |-> "idle"]
Holding(c) == work[c].pc \in {"sending", "answered", "recording"}

\* The history counter of provider calls saturates past what can be accounted
\* for (see PostsAccounted), so that the state space stays finite.
PostsCap == MaxAttempts + MaxFaults + 2
Counted(n) == IF n < PostsCap THEN n + 1 ELSE n

IsQueued(j) == \E i \in DOMAIN dueQueue : dueQueue[i] = j
Place(j) == CHOOSE i \in DOMAIN dueQueue : dueQueue[i] = j

\* The queue when j is no longer due.
Without(j) ==
    IF IsQueued(j)
      THEN [i \in 1..(Len(dueQueue) - 1) |->
               dueQueue[IF i < Place(j) THEN i ELSE i + 1]]
      ELSE dueQueue

ClaimableIgnoringLease(j) == jobs[j].status = "pending" /\ IsQueued(j)

\* Leaves the last try of the budget to nobody.
ClaimableBeforeLastTry(j) ==
    /\ jobs[j].status = "pending" /\ IsQueued(j) /\ ~jobs[j].leased
    /\ jobs[j].attempts + 1 < MaxAttempts

\* status = 'pending' AND next_attempt_at_ms <= now AND lease absent or expired
Claimable(j) == jobs[j].status = "pending" /\ IsQueued(j) /\ ~jobs[j].leased

-----------------------------------------------------------------------------
Init ==
    /\ jobs = [j \in Jobs |-> [status |-> "absent", attempts |-> 0, leased |-> FALSE]]
    /\ dueQueue = <<>>
    /\ cycle = [j \in Jobs |-> 0]
    /\ recorded = {}
    /\ batch = <<>>
    /\ work = [c \in Couriers |-> Free]
    /\ posts = [j \in Jobs |-> 0]
    /\ told = {}
    /\ stalled = {}
    /\ faults = 0

\* enqueue_within, inside the authorizing mutation.  A launch route goes on to
\* spawn the task that claims the job by id.
Enqueue(j) ==
    /\ jobs[j].status = "absent"
    /\ jobs' = [jobs EXCEPT ![j].status = "pending"]
    /\ dueQueue' = Append(dueQueue, j)
    /\ work' = IF j \in LaunchJobs THEN [work EXCEPT ![j] = [pc |-> "spawned"]] ELSE work
    /\ UNCHANGED <<cycle, recorded, batch, posts, told, faults, stalled>>

\* at: the places in the queue of the oldest claimable jobs, at most ClaimBatch
\* of them (ORDER BY next_attempt_at_ms ... LIMIT).
OldestClaimable(n, at) ==
    /\ \A i, k \in 1..n : i < k => at[i] < at[k]
    /\ \A i \in 1..n : Claimable(dueQueue[at[i]])
    /\ \A p \in DOMAIN dueQueue :
          Claimable(dueQueue[p]) /\ (\A i \in 1..n : at[i] # p)
            => n = ClaimBatch /\ at[n] < p

\* claim_due_jobs.
PumpClaim ==
    /\ work[Pump].pc = "idle" /\ batch = <<>>
    /\ \E n \in 1..ClaimBatch : \E at \in [1..n -> DOMAIN dueQueue] :
          LET Taken(j) == \E i \in 1..n : dueQueue[at[i]] = j
          IN  /\ OldestClaimable(n, at)
              /\ jobs' = [j \in Jobs |-> IF Taken(j) THEN [jobs[j] EXCEPT !.leased = TRUE]
                                                    ELSE jobs[j]]
              /\ batch' = [i \in 1..n |-> [job |-> dueQueue[at[i]],
                                           attempts |-> jobs[dueQueue[at[i]]].attempts]]
    /\ UNCHANGED <<dueQueue, cycle, recorded, work, posts, told, faults, stalled>>

\* The pump comes to the next job of its batch and calls dispatch.
PumpSend ==
    /\ work[Pump].pc = "idle" /\ batch # <<>>
    /\ work' = [work EXCEPT ![Pump] = [pc |-> "sending", job |-> Head(batch).job,
                                       attempts |-> Head(batch).attempts]]
    /\ batch' = Tail(batch)
    /\ posts' = [posts EXCEPT ![Head(batch).job] = Counted(@)]
    /\ UNCHANGED <<jobs, dueQueue, cycle, recorded, told, faults, stalled>>

\* launch_claimed_agent_job: claim_due_job_by_id, then deliver; a job that
\* cannot be claimed is left to whoever holds it.
LaunchClaim(j) ==
    /\ work[j].pc = "spawned"
    /\ \/ /\ Claimable(j)
          /\ jobs' = [jobs EXCEPT ![j].leased = TRUE]
          /\ work' = [work EXCEPT ![j] = [pc |-> "sending", job |-> j,
                                          attempts |-> jobs[j].attempts]]
          /\ posts' = [posts EXCEPT ![j] = Counted(@)]
       \/ /\ ~Claimable(j)
          /\ work' = [work EXCEPT ![j] = Free]
          /\ UNCHANGED <<jobs, posts>>
    /\ UNCHANGED <<dueQueue, cycle, recorded, batch, told, faults, stalled>>

\* The executor returns an AttemptOutcome.
Answer(c) ==
    /\ work[c].pc = "sending"
    /\ \E o \in Outcomes(work[c].job) :
          work' = [work EXCEPT ![c] = [pc |-> "answered", job |-> work[c].job,
                                       attempts |-> work[c].attempts, outcome |-> o]]
    /\ UNCHANGED <<jobs, dueQueue, cycle, recorded, batch, posts, told, faults, stalled>>

\* record_attempt, first half: the latest retry_requested receipt is read
\* outside the transaction.
ReadCycle(c) ==
    /\ work[c].pc = "answered"
    /\ work' = [work EXCEPT ![c] = [pc |-> "recording", job |-> work[c].job,
                                    attempts |-> work[c].attempts,
                                    outcome |-> work[c].outcome,
                                    cycle |-> cycle[work[c].job]]]
    /\ UNCHANGED <<jobs, dueQueue, cycle, recorded, batch, posts, told, faults, stalled>>

AttemptKey(w) == [job |-> w.job, cycle |-> w.cycle, attempt |-> w.attempts + 1]

AlreadyRecordedNever(w) == FALSE

AlreadyRecorded(w) == AttemptKey(w) \in recorded

Exhausted(w) == w.attempts + 1 >= MaxAttempts

StatusAfter(w) ==
    IF w.outcome = "Delivered" THEN "delivered"
    ELSE IF w.outcome = "OutcomeUnknown" THEN "delivery_outcome_unknown"
    ELSE IF w.outcome = "Terminal" \/ Exhausted(w) THEN "failed_terminal"
    ELSE "pending"

RowAfterUncounted(w) ==
    [status |-> StatusAfter(w), attempts |-> w.attempts, leased |-> FALSE]

RowAfter(w) ==
    [status |-> StatusAfter(w), attempts |-> w.attempts + 1, leased |-> FALSE]

\* record_attempt, second half: the mutation.  A key already applied is a
\* replay and leaves the job alone; the caller is told StatusAfter either way.
\* The UPDATE looks at neither the lease nor the status of the row.
Record(c) ==
    LET w == work[c]
    IN  /\ w.pc = "recording"
        /\ recorded' = recorded \cup {AttemptKey(w)}
        /\ IF AlreadyRecorded(w)
             THEN UNCHANGED <<jobs, dueQueue>>
             ELSE /\ jobs' = [jobs EXCEPT ![w.job] = RowAfter(w)]
                  /\ dueQueue' = Without(w.job)
        /\ told' = IF StatusAfter(w) = "delivered" THEN told \cup {w.job} ELSE told
        /\ work' = [work EXCEPT ![c] = Free]
        /\ UNCHANGED <<cycle, batch, posts, faults, stalled>>

\* A launch's claim, or either half of record_attempt, meets a busy database:
\* the error is logged or returned and nothing is recorded.
StoreFails(c) ==
    /\ work[c].pc \in {"spawned", "answered", "recording"}
    /\ faults < MaxFaults
    /\ faults' = faults + 1
    /\ work' = [work EXCEPT ![c] = Free]
    /\ UNCHANGED <<jobs, dueQueue, cycle, recorded, batch, posts, told, stalled>>

\* The process dies: every claim in hand is lost, its lease stays.
Crash ==
    /\ faults < MaxFaults
    /\ faults' = faults + 1
    /\ work' = [c \in Couriers |-> Free]
    /\ batch' = <<>>
    /\ UNCHANGED <<jobs, dueQueue, cycle, recorded, posts, told, stalled>>

Revivable(j) == jobs[j].status = "failed_terminal"

\* retry_terminal_job: the operator's recovery of a failed delivery.
RetryTerminal(j) ==
    /\ Revivable(j)
    /\ cycle[j] < MaxRetries
    /\ cycle' = [cycle EXCEPT ![j] = @ + 1]
    /\ jobs' = [jobs EXCEPT ![j] = [status |-> "pending", attempts |-> 0, leased |-> FALSE]]
    /\ dueQueue' = Append(dueQueue, j)
    /\ posts' = [posts EXCEPT ![j] = 0]
    /\ UNCHANGED <<recorded, batch, work, told, faults, stalled>>

\* Time: a scheduled retry comes due (retry_backoff_ms has passed).
ComesDue(j) ==
    /\ jobs[j].status = "pending" /\ ~IsQueued(j)
    /\ dueQueue' = Append(dueQueue, j)
    /\ UNCHANGED <<jobs, cycle, recorded, batch, work, posts, told, faults, stalled>>

\* Time: the lease of a claim runs out.  A launch (15 s request timeout, 10 s
\* of database waits) ends within the 120 s lease unless the host stalls; the
\* pump works through its whole batch under leases taken at the start.
LeaseExpires(j) ==
    /\ jobs[j].leased
    /\ j \in LaunchJobs /\ ~MayStall => work[j].pc = "idle"
    /\ jobs' = [jobs EXCEPT ![j].leased = FALSE]
    /\ stalled' = IF j \in LaunchJobs /\ work[j].pc # "idle" THEN stalled \cup {j} ELSE stalled
    /\ UNCHANGED <<dueQueue, cycle, recorded, batch, work, posts, told, faults>>

Next ==
    \/ PumpClaim \/ PumpSend \/ Crash
    \/ \E c \in Couriers : Answer(c) \/ ReadCycle(c) \/ Record(c) \/ StoreFails(c)
    \/ \E j \in LaunchJobs : LaunchClaim(j)
    \/ \E j \in Jobs : Enqueue(j) \/ RetryTerminal(j) \/ ComesDue(j) \/ LeaseExpires(j)

Spec == Init /\ [][Next]_vars

(***************************************************************************)
(* The pump loops for ever (spawn_delivery_pump), a spawned launch runs to *)
(* its end, providers answer within their timeouts, and time passes.       *)
(* Operators and faults are under no obligation.                           *)
(***************************************************************************)
Fairness ==
    /\ WF_vars(PumpClaim) /\ WF_vars(PumpSend)
    /\ \A c \in Couriers : WF_vars(Answer(c) \/ ReadCycle(c) \/ Record(c))
    /\ \A j \in LaunchJobs : WF_vars(LaunchClaim(j))
    /\ \A j \in Jobs : WF_vars(ComesDue(j)) /\ WF_vars(LeaseExpires(j))

FairSpec == Spec /\ Fairness

-----------------------------------------------------------------------------
Work == [pc : {"idle", "spawned"}]
        \cup [pc : {"sending"}, job : Jobs, attempts : Nat]
        \cup [pc : {"answered"}, job : Jobs, attempts : Nat,
              outcome : {"Delivered", "Retry", "Terminal", "OutcomeUnknown"}]
        \cup [pc : {"recording"}, job : Jobs, attempts : Nat, cycle : Nat,
              outcome : {"Delivered", "Retry", "Terminal", "OutcomeUnknown"}]

\* Types of every variable; only pending jobs are queued, each once.
TypeOK ==
    /\ jobs \in [Jobs -> [status : Statuses, attempts : 0..MaxAttempts, leased : BOOLEAN]]
    /\ dueQueue \in Seq(Jobs)
    /\ cycle \in [Jobs -> Nat]
    /\ recorded \subseteq [job : Jobs, cycle : Nat, attempt : Nat]
    /\ batch \in Seq([job : Jobs, attempts : Nat])
    /\ work \in [Couriers -> Work]
    /\ posts \in [Jobs -> Nat] /\ told \subseteq Jobs /\ stalled \subseteq LaunchJobs /\ faults \in 0..MaxFaults
    /\ \A i, k \in DOMAIN dueQueue : dueQueue[i] = dueQueue[k] => i = k
    /\ \A i \in DOMAIN dueQueue : jobs[dueQueue[i]].status = "pending"

\* "enough to keep a slow delivery from being double-claimed": a job is in the
\* hands of one courier at a time, the pump's batch included, however slow the
\* pump is (claim conditions of claim_due_jobs and claim_due_job_by_id), as
\* long as no launch outlives its lease.
NoConcurrentDelivery ==
    /\ \A c, d \in Couriers :
          /\ Holding(c) /\ Holding(d) /\ work[c].job = work[d].job
          /\ work[c].job \notin stalled
          => c = d
    /\ \A i \in DOMAIN batch : batch[i].job \notin stalled =>
          /\ \A c \in Couriers : Holding(c) => work[c].job # batch[i].job
          /\ \A k \in DOMAIN batch : batch[k].job = batch[i].job => k = i

\* A courier works from current facts: the job it holds is still pending with
\* the attempts it claimed, so the outcome it records belongs to this try and
\* its attempt key is unused.
ClaimsAreCurrent ==
    \A c \in Couriers : Holding(c) /\ work[c].job \notin stalled =>
        /\ jobs[work[c].job].status = "pending"
        /\ jobs[work[c].job].attempts = work[c].attempts
        /\ [job |-> work[c].job, cycle |-> cycle[work[c].job],
            attempt |-> work[c].attempts + 1] \notin recorded

Lifecycle == INSTANCE JobLifecycle WITH
                status <- [j \in Jobs |-> jobs[j].status],
                tries <- [j \in Jobs |-> jobs[j].attempts]

\* The outbox implements JobLifecycle: whatever claims, leases and late
\* recordings do, a settled job stays settled and the budget holds.
LifecycleRefined == Lifecycle!Spec

\* A provider call is either counted as an attempt of the job, still in a
\* courier's hands, or was lost to a fault: the retry budget bounds the calls.
PostsAccounted ==
    \A j \in Jobs \ stalled :
        posts[j] <= jobs[j].attempts + faults
                      + Cardinality({c \in Couriers : Holding(c) /\ work[c].job = j})

\* record_attempt "Returns the job's final status string": a job it reported as
\* delivered is delivered, whoever recorded first.
ReportedDeliveredIsDelivered == \A j \in told \ stalled : jobs[j].status = "delivered"

\* Every authorized effect settles: after every enqueue and every operator
\* retry the job leaves "pending" for good or until the operator's next retry.
EveryJobSettles ==
    \A j \in Jobs : jobs[j].status = "pending" ~> jobs[j].status \in Settled

PumpHas(j) ==
    \/ Holding(Pump) /\ work[Pump].job = j
    \/ \E i \in DOMAIN batch : batch[i].job = j

\* A claim belongs to a row that is there, a launch claims only its own job, and
\* what the pump has still to come to is as it claimed it.
ClaimsHaveRows ==
    /\ \A c \in LaunchJobs : Holding(c) => work[c].job = c
    /\ \A c \in Couriers : Holding(c) => jobs[work[c].job].status # "absent"
    /\ \A i \in DOMAIN batch :
          /\ jobs[batch[i].job].status # "absent"
          /\ batch[i].job \notin stalled =>
                /\ jobs[batch[i].job].status = "pending"
                /\ jobs[batch[i].job].attempts = batch[i].attempts

\* Why a launch and the pump never meet: as long as no lease ran out under the
\* launch, the lease is there while either of them holds the job and the other
\* may still claim it.
LeasesProtect ==
    \A j \in LaunchJobs \ stalled :
        /\ Holding(j) => jobs[j].leased
        /\ work[j].pc = "spawned" /\ PumpHas(j) => jobs[j].leased

\* Why an attempt key is never used twice: keys of the present cycle number the
\* attempts that are counted, and a retry_requested receipt that is read stays
\* the latest one until the outcome is recorded.
KeysAreFresh ==
    /\ \A k \in recorded :
          /\ k.cycle <= cycle[k.job]
          /\ k.cycle = cycle[k.job] => k.attempt <= jobs[k.job].attempts
    /\ \A c \in Couriers : work[c].pc = "recording" =>
          /\ work[c].cycle <= cycle[work[c].job]
          /\ work[c].job \notin stalled => work[c].cycle = cycle[work[c].job]

\* A pending row has budget left, and only a pending row is leased.
RowsSound ==
    \A j \in Jobs :
        /\ jobs[j].leased => jobs[j].status = "pending"
        /\ jobs[j].status = "absent" => jobs[j].attempts = 0
        /\ jobs[j].status = "pending" => jobs[j].attempts < MaxAttempts
        /\ j \in stalled => jobs[j].status # "absent"

\* Why a launch that outlives its lease does no harm: a launch is tried once in
\* a cycle, so every recording of that try has the same key.
LaunchedOncePerCycle ==
    /\ \A j \in LaunchJobs :
          /\ jobs[j].status \in {"absent", "pending"} => jobs[j].attempts = 0
          /\ \A n \in 0..cycle[j] : n < cycle[j] \/ jobs[j].status \in Settled =>
                [job |-> j, cycle |-> n, attempt |-> 1] \in recorded
    /\ \A c \in Couriers : Holding(c) /\ work[c].job \in LaunchJobs =>
          /\ work[c].attempts = 0
          /\ work[c].pc # "sending" => work[c].outcome \in Outcomes(work[c].job)
    /\ \A i \in DOMAIN batch : batch[i].job \in LaunchJobs => batch[i].attempts = 0

\* What a courier may rely on, together: this is the invariant of the claim
\* protocol of claim_due_jobs, claim_due_job_by_id and record_attempt.
CourierInv ==
    /\ TypeOK /\ NoConcurrentDelivery /\ ClaimsAreCurrent /\ ReportedDeliveredIsDelivered
    /\ ClaimsHaveRows /\ LeasesProtect /\ KeysAreFresh /\ RowsSound /\ LaunchedOncePerCycle
=============================================================================
