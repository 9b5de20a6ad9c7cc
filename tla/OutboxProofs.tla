---------------------------- MODULE OutboxProofs ----------------------------
(***************************************************************************)
(* The claim protocol of the outbox is safe for any number of jobs and     *)
(* launches, any batch size, retry budget, number of operator retries and  *)
(* number of faults, whether or not launches outlive their leases; and the *)
(* outbox implements JobLifecycle.                                         *)
(***************************************************************************)
EXTENDS Outbox, AccountingSync, FiniteSetTheorems, SequenceTheorems,
        WellFoundedInduction, TLAPS

\* The fields of a row, and the counters of its job, are well typed.
LEMMA JobFields ==
    ASSUME TypeOK, NEW j \in Jobs
    PROVE  /\ jobs[j].status \in Statuses
           /\ jobs[j].attempts \in Nat /\ jobs[j].attempts <= MaxAttempts
           /\ jobs[j].leased \in BOOLEAN
           /\ cycle[j] \in Nat /\ posts[j] \in Nat
BY BoundsAssumption DEF TypeOK

\* So is the claim in a courier's hands.
LEMMA WorkFields ==
    ASSUME TypeOK, NEW c \in Couriers
    PROVE  /\ work[c] \in Work
           /\ work[c].pc \in {"idle", "spawned", "sending", "answered", "recording"}
           /\ Holding(c) => work[c].job \in Jobs /\ work[c].attempts \in Nat
           /\ work[c].pc \in {"answered", "recording"} =>
                 work[c].outcome \in {"Delivered", "Retry", "Terminal", "OutcomeUnknown"}
           /\ work[c].pc = "recording" => work[c].cycle \in Nat
BY DEF TypeOK, Work, Holding

\* And what the pump has still to come to.
LEMMA BatchFields ==
    ASSUME TypeOK, NEW i \in DOMAIN batch
    PROVE  batch[i].job \in Jobs /\ batch[i].attempts \in Nat
<1> DEFINE Claim == [job : Jobs, attempts : Nat]
<1>1. batch \in Seq(Claim)
  BY DEF TypeOK
<1> HIDE DEF Claim
<1>2. i \in 1..Len(batch)
  BY <1>1
<1>3. batch[i] \in Claim
  BY <1>1, <1>2, ElementOfSeq
<1>4. QED
  BY <1>3 DEF Claim

\* The pump is no job, a launch is known by its job.
LEMMA CourierNames ==
    /\ Pump \in Couriers /\ Pump \notin LaunchJobs
    /\ \A j \in LaunchJobs : j \in Couriers /\ j \in Jobs
    /\ \A c \in Couriers : c = Pump \/ c \in LaunchJobs
BY LaunchAssumption DEF Couriers

\* A courier that holds a launch's job is that launch or the pump.
LEMMA HolderOf ==
    ASSUME ClaimsHaveRows, NEW c \in Couriers, Holding(c)
    PROVE  c = Pump \/ c = work[c].job
BY CourierNames DEF ClaimsHaveRows

\* Without(j) is the queue with j taken out: nothing is added, nothing doubled.
LEMMA WithoutRemoves ==
    ASSUME TypeOK, NEW j \in Jobs
    PROVE  /\ Without(j) \in Seq(Jobs)
           /\ \A i \in DOMAIN Without(j) :
                 /\ Without(j)[i] # j
                 /\ \E k \in DOMAIN dueQueue : dueQueue[k] = Without(j)[i]
           /\ \A i, k \in DOMAIN Without(j) : Without(j)[i] = Without(j)[k] => i = k
<1>1. /\ dueQueue \in Seq(Jobs) /\ DOMAIN dueQueue = 1..Len(dueQueue) /\ Len(dueQueue) \in Nat
      /\ \A i, k \in DOMAIN dueQueue : dueQueue[i] = dueQueue[k] => i = k
  BY DEF TypeOK
<1>2. CASE ~IsQueued(j)
  <2>1. Without(j) = dueQueue
    BY <1>2 DEF Without
  <2>2. QED
    BY <1>1, <1>2, <2>1 DEF IsQueued
<1>3. CASE IsQueued(j)
  <2> DEFINE q == [i \in 1..(Len(dueQueue) - 1) |->
                      dueQueue[IF i < Place(j) THEN i ELSE i + 1]]
  <2>1. Place(j) \in 1..Len(dueQueue) /\ dueQueue[Place(j)] = j
    BY <1>1, <1>3 DEF IsQueued, Place
  <2>2. Without(j) = q
    BY <1>3 DEF Without
  <2>3. Len(dueQueue) - 1 \in Nat /\ DOMAIN q = 1..(Len(dueQueue) - 1)
    BY <1>1, <2>1
  <2>4. ASSUME NEW i \in DOMAIN q
        PROVE  /\ q[i] = dueQueue[IF i < Place(j) THEN i ELSE i + 1]
               /\ (IF i < Place(j) THEN i ELSE i + 1) \in DOMAIN dueQueue
               /\ (IF i < Place(j) THEN i ELSE i + 1) # Place(j)
    BY <1>1, <2>1, <2>3
  <2> HIDE DEF q
  <2>5. \A i \in DOMAIN q : q[i] \in Jobs /\ q[i] # j
                            /\ \E k \in DOMAIN dueQueue : dueQueue[k] = q[i]
    BY <1>1, <2>1, <2>4
  <2>6. ASSUME NEW i \in DOMAIN q, NEW k \in DOMAIN q, q[i] = q[k]
        PROVE  i = k
    <3>1. (IF i < Place(j) THEN i ELSE i + 1) = (IF k < Place(j) THEN k ELSE k + 1)
      BY <1>1, <2>4, <2>6
    <3>2. QED
      BY <2>1, <2>3, <3>1
  <2>7. q \in Seq(Jobs)
    <3>1. q = [i \in 1..(Len(dueQueue) - 1) |-> q[i]]
      BY <2>3 DEF q
    <3>2. QED
      BY <2>3, <2>5, <3>1
  <2>8. QED
    BY <2>2, <2>5, <2>6, <2>7
<1>4. QED
  BY <1>2, <1>3

\* A step that only grants or ends a lease changes nothing else in the row.
LEMMA LeaseOnly ==
    ASSUME TypeOK, NEW j \in Jobs, NEW b \in BOOLEAN, jobs' = [jobs EXCEPT ![j].leased = b]
    PROVE  \A k \in Jobs : /\ jobs'[k].status = jobs[k].status
                           /\ jobs'[k].attempts = jobs[k].attempts
BY DEF TypeOK

\* A job that comes due goes to the end of the queue.
LEMMA QueueGrows ==
    ASSUME TypeOK, NEW j \in Jobs, ~IsQueued(j), dueQueue' = Append(dueQueue, j)
    PROVE  /\ dueQueue' \in Seq(Jobs)
           /\ \A i \in DOMAIN dueQueue' :
                 dueQueue'[i] = j \/ \E k \in DOMAIN dueQueue : dueQueue[k] = dueQueue'[i]
           /\ \A i, k \in DOMAIN dueQueue' : dueQueue'[i] = dueQueue'[k] => i = k
<1> DEFINE n == Len(dueQueue)
<1>1. /\ dueQueue \in Seq(Jobs) /\ n \in Nat /\ DOMAIN dueQueue = 1..n
      /\ \A i, k \in DOMAIN dueQueue : dueQueue[i] = dueQueue[k] => i = k
  BY LenProperties DEF TypeOK
<1>2. /\ dueQueue' \in Seq(Jobs) /\ Len(dueQueue') = n + 1
      /\ \A i \in 1..n : dueQueue'[i] = dueQueue[i]
      /\ dueQueue'[n + 1] = j
  BY <1>1, AppendProperties
<1>3. DOMAIN dueQueue' = 1..(n + 1)
  BY <1>2, LenProperties
<1> HIDE DEF n
<1>4. ASSUME NEW i \in DOMAIN dueQueue'
      PROVE  \/ i = n + 1
             \/ i \in DOMAIN dueQueue /\ i # n + 1 /\ dueQueue'[i] = dueQueue[i]
  BY <1>1, <1>2, <1>3
<1>5. \A i \in DOMAIN dueQueue : dueQueue[i] # j
  BY DEF IsQueued
<1>6. QED
  BY <1>1, <1>2, <1>4, <1>5

\* A step of one courier that leaves the tables alone keeps the invariant when
\* the courier lets go of its claim or goes on with the same one.
LEMMA CourierStep ==
    ASSUME CourierInv, NEW c \in Couriers, NEW new \in Work,
           work' = [work EXCEPT ![c] = new],
           UNCHANGED <<jobs, dueQueue, cycle, recorded, batch, stalled>>,
           told' \subseteq Jobs, ReportedDeliveredIsDelivered',
           posts' \in [Jobs -> Nat], faults' \in 0..MaxFaults,
           new.pc # "spawned",
           new.pc \in {"sending", "answered", "recording"} =>
              /\ Holding(c) /\ new.job = work[c].job /\ new.attempts = work[c].attempts
              /\ new.pc # "sending" => new.outcome \in Outcomes(new.job)
              /\ new.pc = "recording" => new.cycle = cycle[new.job]
    PROVE  CourierInv'
<1>1. TypeOK
  BY DEF CourierInv
<1>2. /\ work' \in [Couriers -> Work] /\ work'[c] = new
      /\ \A d \in Couriers : d # c => work'[d] = work[d]
  BY <1>1 DEF TypeOK
<1>3. ASSUME NEW d \in Couriers, Holding(d)'
      PROVE  /\ Holding(d) /\ work'[d].job = work[d].job
             /\ work'[d].attempts = work[d].attempts
  BY <1>2, <1>3 DEF Holding
<1>4. ASSUME NEW d \in Couriers, work'[d].pc = "spawned"
      PROVE  d # c /\ work[d].pc = "spawned"
  BY <1>2, <1>4
<1>5. TypeOK'
  BY <1>1, <1>2 DEF TypeOK
<1>6. NoConcurrentDelivery'
  BY <1>3 DEF CourierInv, NoConcurrentDelivery
<1>7. ClaimsAreCurrent'
  BY <1>3 DEF CourierInv, ClaimsAreCurrent
<1>8. ClaimsHaveRows'
  BY <1>3, CourierNames DEF CourierInv, ClaimsHaveRows
<1>9. LeasesProtect'
  BY <1>3, <1>4, CourierNames DEF CourierInv, LeasesProtect, PumpHas
<1>10. KeysAreFresh'
  <2>1. ASSUME NEW d \in Couriers, work'[d].pc = "recording"
        PROVE  /\ work'[d].cycle <= cycle'[work'[d].job]
               /\ work'[d].job \notin stalled' => work'[d].cycle = cycle'[work'[d].job]
    <3>1. CASE d # c
      BY <1>2, <2>1, <3>1 DEF CourierInv, KeysAreFresh
    <3>2. CASE d = c
      <4>1. new.cycle = cycle[new.job] /\ new.job \in Jobs
        BY <1>1, <1>2, <2>1, <3>2, WorkFields
      <4>2. QED
        BY <1>1, <1>2, <3>2, <4>1, JobFields
    <3>3. QED
      BY <3>1, <3>2
  <2>2. QED
    BY <2>1 DEF CourierInv, KeysAreFresh
<1>11. RowsSound'
  BY DEF CourierInv, RowsSound
<1>12. LaunchedOncePerCycle'
  <2>1. ASSUME NEW d \in Couriers, Holding(d)', work'[d].job \in LaunchJobs
        PROVE  /\ work'[d].attempts = 0
               /\ work'[d].pc # "sending" => work'[d].outcome \in Outcomes(work'[d].job)
    BY <1>2, <1>3, <2>1 DEF CourierInv, LaunchedOncePerCycle, Holding
  <2>2. QED
    BY <2>1 DEF CourierInv, LaunchedOncePerCycle
<1>13. QED
  BY <1>5, <1>6, <1>7, <1>8, <1>9, <1>10, <1>11, <1>12 DEF CourierInv

\* A recording whose key is unused is the try of a pending job that it counts:
\* for a job no launch stalled on because claims are current, for a stalled
\* launch because all its recordings in a cycle share one key.
LEMMA RecordingIsATry ==
    ASSUME CourierInv, NEW c \in Couriers, work[c].pc = "recording",
           ~AlreadyRecorded(work[c])
    PROVE  /\ work[c].job \in Jobs
           /\ jobs[work[c].job].status = "pending"
           /\ jobs[work[c].job].attempts = work[c].attempts
           /\ work[c].cycle = cycle[work[c].job]
<1> DEFINE j == work[c].job
<1>1. TypeOK /\ Holding(c)
  BY DEF CourierInv, Holding
<1>2. /\ j \in Jobs /\ work[c].attempts \in Nat /\ work[c].cycle \in Nat
      /\ cycle[j] \in Nat /\ jobs[j].status \in Statuses
  BY <1>1, WorkFields, JobFields
<1>3. CASE j \notin stalled
  BY <1>1, <1>2, <1>3 DEF CourierInv, ClaimsAreCurrent, KeysAreFresh
<1>4. CASE j \in stalled
  <2>1. j \in LaunchJobs
    BY <1>1, <1>4 DEF TypeOK
  <2>2. work[c].attempts = 0 /\ work[c].cycle <= cycle[j] /\ jobs[j].status # "absent"
    BY <1>1, <2>1 DEF CourierInv, LaunchedOncePerCycle, KeysAreFresh, ClaimsHaveRows
  <2>3. AttemptKey(work[c]) = [job |-> j, cycle |-> work[c].cycle, attempt |-> 1]
    BY <2>2 DEF AttemptKey
  <2>4. ~(work[c].cycle < cycle[j] \/ jobs[j].status \in Settled)
    <3>1. work[c].cycle \in 0..cycle[j]
      BY <1>2, <2>2
    <3>2. QED
      BY <2>1, <2>3, <3>1 DEF CourierInv, LaunchedOncePerCycle, AlreadyRecorded
  <2>5. jobs[j].status = "pending"
    BY <1>2, <2>2, <2>4 DEF Statuses
  <2>6. QED
    BY <1>2, <2>1, <2>2, <2>4, <2>5 DEF CourierInv, LaunchedOncePerCycle
<1>5. QED
  BY <1>3, <1>4

\* As long as no launch stalled on it, nobody has recorded a job's try before.
LEMMA UnstalledIsUnrecorded ==
    ASSUME CourierInv, NEW c \in Couriers, work[c].pc = "recording",
           work[c].job \notin stalled
    PROVE  ~AlreadyRecorded(work[c])
<1>1. Holding(c)
  BY DEF Holding
<1>2. work[c].cycle = cycle[work[c].job]
  BY DEF CourierInv, KeysAreFresh
<1>3. QED
  BY <1>1, <1>2 DEF CourierInv, ClaimsAreCurrent, AlreadyRecorded, AttemptKey

\* A recording that applies settles its job or gives it its next try.
LEMMA AppliedRecording ==
    ASSUME CourierInv, NEW c \in Couriers, Record(c), ~AlreadyRecorded(work[c])
    PROVE  CourierInv'
<1> DEFINE w == work[c]
           j == w.job
           key == AttemptKey(w)
<1>1. /\ TypeOK /\ w.pc = "recording" /\ Holding(c)
      /\ recorded' = recorded \cup {key}
      /\ jobs' = [jobs EXCEPT ![j] = RowAfter(w)] /\ dueQueue' = Without(j)
      /\ told' = IF StatusAfter(w) = "delivered" THEN told \cup {j} ELSE told
      /\ work' = [work EXCEPT ![c] = Free]
      /\ UNCHANGED <<cycle, batch, posts, faults, stalled>>
  BY DEF Record, CourierInv, Holding
<1>2. /\ j \in Jobs /\ jobs[j].status = "pending" /\ jobs[j].attempts = w.attempts
      /\ w.cycle = cycle[j]
  BY <1>1, RecordingIsATry
<1>3. /\ w.attempts \in Nat /\ w.attempts < MaxAttempts /\ MaxAttempts \in Nat
      /\ cycle[j] \in Nat
      /\ w.outcome \in {"Delivered", "Retry", "Terminal", "OutcomeUnknown"}
  BY <1>1, <1>2, JobFields, WorkFields, BoundsAssumption DEF CourierInv, RowsSound
<1>4. key = [job |-> j, cycle |-> cycle[j], attempt |-> w.attempts + 1]
  BY <1>2 DEF AttemptKey
<1>5. /\ StatusAfter(w) \in Settled \cup {"pending"}
      /\ StatusAfter(w) = "pending" => w.attempts + 1 < MaxAttempts /\ w.outcome = "Retry"
  BY <1>3 DEF StatusAfter, Exhausted, Settled
<1>6. /\ jobs'[j] = RowAfter(w) /\ \A k \in Jobs : k # j => jobs'[k] = jobs[k]
      /\ jobs'[j].status = StatusAfter(w) /\ jobs'[j].attempts = w.attempts + 1
      /\ ~jobs'[j].leased
  BY <1>1, <1>2 DEF TypeOK, RowAfter
<1>7. /\ work' \in [Couriers -> Work] /\ ~Holding(c)' /\ work'[c].pc = "idle"
      /\ \A d \in Couriers : d # c => work'[d] = work[d]
  BY <1>1 DEF TypeOK, Work, Free, Holding
<1> HIDE DEF w, j, key
<1>8. ASSUME NEW d \in Couriers, Holding(d)'
      PROVE  d # c /\ Holding(d) /\ work'[d] = work[d] /\ work[d].job \in Jobs
  BY <1>1, <1>7, <1>8, WorkFields DEF Holding
<1>9. ASSUME j \notin stalled
      PROVE  /\ \A d \in Couriers : Holding(d)' => work'[d].job # j
             /\ \A i \in DOMAIN batch : batch[i].job # j
  BY <1>1, <1>8, <1>9 DEF CourierInv, NoConcurrentDelivery, j, w
<1>10. TypeOK'
  <2>1. jobs' \in [Jobs -> [status : Statuses, attempts : 0..MaxAttempts, leased : BOOLEAN]]
    <3>1. RowAfter(w) \in [status : Statuses, attempts : 0..MaxAttempts, leased : BOOLEAN]
      BY <1>3, <1>5 DEF RowAfter, Statuses
    <3>2. QED
      BY <1>1, <1>2, <3>1 DEF TypeOK
  <2>2. key \in [job : Jobs, cycle : Nat, attempt : Nat]
    BY <1>2, <1>3, <1>4
  <2>3. /\ dueQueue' \in Seq(Jobs)
        /\ \A i, k \in DOMAIN dueQueue' : dueQueue'[i] = dueQueue'[k] => i = k
    BY <1>1, <1>2, WithoutRemoves
  <2>4. \A i \in DOMAIN dueQueue' : jobs'[dueQueue'[i]].status = "pending"
    <3>1. ASSUME NEW i \in DOMAIN dueQueue'
          PROVE  /\ dueQueue'[i] # j
                 /\ \E k \in DOMAIN dueQueue : dueQueue[k] = dueQueue'[i]
      BY <1>1, <1>2, WithoutRemoves
    <3>2. QED
      BY <1>1, <1>6, <3>1 DEF TypeOK
  <2>5. QED
    BY <1>1, <1>2, <1>7, <2>1, <2>2, <2>3, <2>4 DEF TypeOK
<1>11. NoConcurrentDelivery'
  BY <1>1, <1>8 DEF CourierInv, NoConcurrentDelivery
<1>12. ClaimsAreCurrent'
  <2>1. ASSUME NEW d \in Couriers, Holding(d)', work'[d].job \notin stalled'
        PROVE  /\ jobs'[work'[d].job].status = "pending"
               /\ jobs'[work'[d].job].attempts = work'[d].attempts
               /\ [job |-> work'[d].job, cycle |-> cycle'[work'[d].job],
                   attempt |-> work'[d].attempts + 1] \notin recorded'
    <3>1. work'[d] = work[d] /\ Holding(d) /\ work[d].job \in Jobs /\ work[d].job # j
      BY <1>1, <1>8, <1>9, <2>1
    <3>2. jobs'[work[d].job] = jobs[work[d].job]
      BY <1>6, <3>1
    <3>3. [job |-> work[d].job, cycle |-> cycle[work[d].job],
           attempt |-> work[d].attempts + 1] # key
      BY <1>4, <3>1
    <3>4. QED
      BY <1>1, <2>1, <3>1, <3>2, <3>3 DEF CourierInv, ClaimsAreCurrent
  <2>2. QED
    BY <2>1 DEF ClaimsAreCurrent
<1>13. ReportedDeliveredIsDelivered'
  <2>1. ASSUME NEW k \in told' \ stalled
        PROVE  jobs'[k].status = "delivered"
    <3>1. CASE k = j
      <4>1. CASE StatusAfter(w) = "delivered"
        BY <1>6, <3>1, <4>1
      <4>2. CASE StatusAfter(w) # "delivered"
        BY <1>1, <1>2, <2>1, <3>1, <4>2 DEF CourierInv, ReportedDeliveredIsDelivered
      <4>3. QED
        BY <4>1, <4>2
    <3>2. CASE k # j
      BY <1>1, <1>6, <2>1, <3>2 DEF CourierInv, ReportedDeliveredIsDelivered, TypeOK
    <3>3. QED
      BY <3>1, <3>2
  <2>2. QED
    BY <1>1, <2>1 DEF ReportedDeliveredIsDelivered
<1>14. ClaimsHaveRows'
  <2>1. \A k \in Jobs : jobs[k].status # "absent" => jobs'[k].status # "absent"
    BY <1>5, <1>6 DEF Settled
  <2>2. \A d \in LaunchJobs : Holding(d)' => work'[d].job = d
    BY <1>8, CourierNames DEF CourierInv, ClaimsHaveRows
  <2>3. \A d \in Couriers : Holding(d)' => jobs'[work'[d].job].status # "absent"
    BY <1>8, <2>1 DEF CourierInv, ClaimsHaveRows
  <2>4. ASSUME NEW i \in DOMAIN batch
        PROVE  /\ jobs'[batch[i].job].status # "absent"
               /\ batch[i].job \notin stalled =>
                     /\ jobs'[batch[i].job].status = "pending"
                     /\ jobs'[batch[i].job].attempts = batch[i].attempts
    <3>1. batch[i].job \in Jobs
      BY <1>1, BatchFields
    <3>2. QED
      BY <1>6, <1>9, <2>1, <3>1 DEF CourierInv, ClaimsHaveRows
  <2>5. QED
    BY <1>1, <2>2, <2>3, <2>4 DEF ClaimsHaveRows
<1>15. LeasesProtect'
  <2>1. ASSUME NEW k \in LaunchJobs \ stalled, Holding(k)'
        PROVE  jobs'[k].leased
    <3>1. Holding(k) /\ work'[k].job = k /\ k # j
      BY <1>8, <1>9, <2>1, CourierNames DEF CourierInv, ClaimsHaveRows
    <3>2. QED
      BY <1>6, <2>1, <3>1, CourierNames DEF CourierInv, LeasesProtect
  <2>2. ASSUME NEW k \in LaunchJobs \ stalled, work'[k].pc = "spawned", PumpHas(k)'
        PROVE  jobs'[k].leased
    <3>1. PumpHas(k)
      BY <1>1, <1>8, <2>2, CourierNames DEF PumpHas
    <3>2. work[k].pc = "spawned"
      BY <1>7, <2>2, CourierNames
    <3>3. k # j
      BY <1>1, <1>9, <2>2, CourierNames DEF PumpHas
    <3>4. QED
      BY <1>6, <2>2, <3>1, <3>2, <3>3, CourierNames DEF CourierInv, LeasesProtect
  <2>3. QED
    BY <1>1, <2>1, <2>2 DEF LeasesProtect
<1>16. KeysAreFresh'
  <2>1. ASSUME NEW k \in recorded'
        PROVE  /\ k.cycle <= cycle[k.job]
               /\ k.cycle = cycle[k.job] => k.attempt <= jobs'[k.job].attempts
    <3>1. CASE k = key
      BY <1>3, <1>4, <1>6, <3>1
    <3>2. CASE k \in recorded
      <4>1. k.job \in Jobs /\ k.attempt \in Nat
        BY <1>1, <3>2 DEF TypeOK
      <4>2. CASE k.job # j
        BY <1>6, <3>2, <4>1, <4>2 DEF CourierInv, KeysAreFresh
      <4>3. CASE k.job = j
        BY <1>2, <1>3, <1>6, <3>2, <4>1, <4>3 DEF CourierInv, KeysAreFresh
      <4>4. QED
        BY <4>2, <4>3
    <3>3. QED
      BY <1>1, <2>1, <3>1, <3>2
  <2>2. ASSUME NEW d \in Couriers, work'[d].pc = "recording"
        PROVE  /\ work'[d].cycle <= cycle[work'[d].job]
               /\ work'[d].job \notin stalled => work'[d].cycle = cycle[work'[d].job]
    BY <1>7, <2>2 DEF CourierInv, KeysAreFresh
  <2>3. QED
    BY <1>1, <2>1, <2>2 DEF KeysAreFresh
<1>17. RowsSound'
  <2>1. ASSUME NEW k \in Jobs
        PROVE  /\ jobs'[k].leased => jobs'[k].status = "pending"
               /\ jobs'[k].status = "absent" => jobs'[k].attempts = 0
               /\ jobs'[k].status = "pending" => jobs'[k].attempts < MaxAttempts
               /\ k \in stalled => jobs'[k].status # "absent"
    <3>1. CASE k = j
      BY <1>5, <1>6, <3>1 DEF Settled
    <3>2. CASE k # j
      BY <1>6, <3>2 DEF CourierInv, RowsSound
    <3>3. QED
      BY <3>1, <3>2
  <2>2. QED
    BY <1>1, <2>1 DEF RowsSound
<1>18. LaunchedOncePerCycle'
  <2>1. ASSUME NEW k \in LaunchJobs
        PROVE  /\ jobs'[k].status \in {"absent", "pending"} => jobs'[k].attempts = 0
               /\ \A n \in 0..cycle[k] : n < cycle[k] \/ jobs'[k].status \in Settled =>
                     [job |-> k, cycle |-> n, attempt |-> 1] \in recorded'
    <3>1. CASE k = j
      <4>1. w.attempts = 0 /\ w.outcome \in {"Delivered", "Terminal"}
        BY <1>1, <2>1, <3>1 DEF CourierInv, LaunchedOncePerCycle, Outcomes, w, j
      <4>2. StatusAfter(w) \in Settled
        BY <1>5, <4>1
      <4>3. key = [job |-> k, cycle |-> cycle[k], attempt |-> 1]
        BY <1>4, <3>1, <4>1
      <4>4. \A n \in 0..cycle[k] : n = cycle[k] \/ n < cycle[k]
        BY <1>3, <3>1
      <4>5. QED
        BY <1>1, <1>6, <2>1, <3>1, <4>2, <4>3, <4>4
           DEF CourierInv, LaunchedOncePerCycle, Settled
    <3>2. CASE k # j
      BY <1>1, <1>6, <2>1, <3>2, CourierNames DEF CourierInv, LaunchedOncePerCycle
    <3>3. QED
      BY <3>1, <3>2
  <2>2. ASSUME NEW d \in Couriers, Holding(d)', work'[d].job \in LaunchJobs
        PROVE  /\ work'[d].attempts = 0
               /\ work'[d].pc # "sending" => work'[d].outcome \in Outcomes(work'[d].job)
    BY <1>8, <2>2 DEF CourierInv, LaunchedOncePerCycle
  <2>3. \A i \in DOMAIN batch' : batch'[i].job \in LaunchJobs => batch'[i].attempts = 0
    BY <1>1 DEF CourierInv, LaunchedOncePerCycle
  <2>4. QED
    BY <1>1, <2>1, <2>2, <2>3 DEF LaunchedOncePerCycle
<1>19. QED
  BY <1>10, <1>11, <1>12, <1>13, <1>14, <1>15, <1>16, <1>17, <1>18 DEF CourierInv

\* Any recording: one whose key is used up is a replay and changes nothing.
LEMMA RecordPreserves ==
    ASSUME CourierInv, NEW c \in Couriers, Record(c)
    PROVE  CourierInv'
<1>1. CASE AlreadyRecorded(work[c])
  <2>1. TypeOK /\ work[c].pc = "recording" /\ Holding(c)
    BY DEF CourierInv, Record, Holding
  <2>2. /\ UNCHANGED <<jobs, dueQueue, cycle, batch, posts, faults, stalled>>
        /\ work' = [work EXCEPT ![c] = Free] /\ recorded' = recorded
    BY <1>1 DEF Record, AlreadyRecorded
  <2>3. work[c].job \in Jobs /\ work[c].job \in stalled
    BY <1>1, <2>1, UnstalledIsUnrecorded, WorkFields
  <2>4. told' \subseteq told \cup {work[c].job}
    BY DEF Record
  <2>5. told' \subseteq Jobs /\ ReportedDeliveredIsDelivered'
    BY <2>1, <2>2, <2>3, <2>4 DEF CourierInv, ReportedDeliveredIsDelivered, TypeOK
  <2>6. Free \in Work /\ Free.pc = "idle"
    BY DEF Free, Work
  <2>7. posts' \in [Jobs -> Nat] /\ faults' \in 0..MaxFaults
    BY <2>1, <2>2 DEF TypeOK
  <2>8. QED
    BY <2>2, <2>5, <2>6, <2>7, CourierStep
<1>2. CASE ~AlreadyRecorded(work[c])
  BY <1>2, AppliedRecording
<1>3. QED
  BY <1>1, <1>2

\* An operator's or a route's step that makes job j pending with budget left
\* and no lease keeps the invariant when nobody that matters has a claim on j.
LEMMA JobBecomesPending ==
    ASSUME CourierInv, NEW j \in Jobs, NEW n \in Nat,
           NEW row \in [status : Statuses, attempts : 0..MaxAttempts, leased : BOOLEAN],
           row.status = "pending", row.attempts = 0, ~row.leased,
           jobs' = [jobs EXCEPT ![j] = row],
           dueQueue' = Append(dueQueue, j), cycle' = [cycle EXCEPT ![j] = n],
           \/ n = cycle[j] /\ jobs[j].attempts = 0 /\ jobs[j].status = "absent"
           \/ n = cycle[j] + 1 /\ jobs[j].status = "failed_terminal",
           UNCHANGED <<recorded, batch, told, stalled, faults>>,
           posts' \in [Jobs -> Nat], work' \in [Couriers -> Work],
           \/ work' = work
           \/ /\ j \in LaunchJobs /\ jobs[j].status = "absent" /\ work'[j].pc = "spawned"
              /\ \A d \in Couriers : d # j => work'[d] = work[d]
    PROVE  CourierInv'
<1>1. TypeOK
  BY DEF CourierInv
<1>2. /\ jobs'[j] = row /\ \A k \in Jobs : k # j => jobs'[k] = jobs[k]
      /\ cycle' \in [Jobs -> Nat] /\ cycle'[j] = n
      /\ \A k \in Jobs : k # j => cycle'[k] = cycle[k]
      /\ cycle[j] \in Nat /\ cycle[j] <= n /\ jobs[j].status # "pending"
      /\ MaxAttempts \in Nat \ {0}
  BY <1>1, JobFields, BoundsAssumption DEF TypeOK
<1>3. ASSUME NEW d \in Couriers, Holding(d)'
      PROVE  Holding(d) /\ work'[d] = work[d] /\ work[d].job \in Jobs
  <2>1. Holding(d) /\ work'[d] = work[d]
    BY <1>3, CourierNames DEF Holding
  <2>2. QED
    BY <1>1, <2>1, WorkFields
<1>4. ASSUME NEW d \in Couriers, Holding(d), work[d].job \notin stalled
      PROVE  work[d].job # j
  BY <1>2, <1>4 DEF CourierInv, ClaimsAreCurrent
<1>5. ASSUME NEW i \in DOMAIN batch
      PROVE  /\ batch[i].job \in Jobs
             /\ batch[i].job \notin stalled => batch[i].job # j
  BY <1>1, <1>2, BatchFields DEF CourierInv, ClaimsHaveRows
<1>6. \A i \in DOMAIN dueQueue : dueQueue[i] # j
  BY <1>1, <1>2 DEF TypeOK
<1>7. TypeOK'
  <2>1. jobs' \in [Jobs -> [status : Statuses, attempts : 0..MaxAttempts, leased : BOOLEAN]]
    BY <1>1 DEF TypeOK
  <2>2. ~IsQueued(j)
    BY <1>6 DEF IsQueued
  <2>3. /\ dueQueue' \in Seq(Jobs)
        /\ \A i \in DOMAIN dueQueue' :
              dueQueue'[i] = j \/ \E k \in DOMAIN dueQueue : dueQueue[k] = dueQueue'[i]
        /\ \A i, k \in DOMAIN dueQueue' : dueQueue'[i] = dueQueue'[k] => i = k
    BY <1>1, <2>2, QueueGrows
  <2>4. \A i \in DOMAIN dueQueue' : jobs'[dueQueue'[i]].status = "pending"
    <3>1. ASSUME NEW k \in DOMAIN dueQueue
          PROVE  jobs'[dueQueue[k]].status = "pending"
      <4>1. dueQueue[k] \in Jobs /\ jobs[dueQueue[k]].status = "pending"
        BY <1>1 DEF TypeOK
      <4>2. QED
        BY <1>2, <1>6, <4>1
    <3>2. QED
      BY <1>1, <1>2, <2>3, <3>1
  <2>5. QED
    BY <1>1, <1>2, <2>1, <2>3, <2>4 DEF TypeOK
<1>8. NoConcurrentDelivery'
  BY <1>3 DEF CourierInv, NoConcurrentDelivery
<1>9. ClaimsAreCurrent'
  BY <1>2, <1>3, <1>4 DEF CourierInv, ClaimsAreCurrent
<1>10. ReportedDeliveredIsDelivered'
  BY <1>1, <1>2 DEF CourierInv, ReportedDeliveredIsDelivered, TypeOK
<1>11. ClaimsHaveRows'
  <2>1. \A k \in Jobs : jobs[k].status # "absent" => jobs'[k].status # "absent"
    BY <1>1, <1>2
  <2>2. /\ \A d \in LaunchJobs : Holding(d)' => work'[d].job = d
        /\ \A d \in Couriers : Holding(d)' => jobs'[work'[d].job].status # "absent"
    BY <1>3, <2>1, CourierNames DEF CourierInv, ClaimsHaveRows
  <2>3. ASSUME NEW i \in DOMAIN batch
        PROVE  /\ jobs'[batch[i].job].status # "absent"
               /\ batch[i].job \notin stalled =>
                     /\ jobs'[batch[i].job].status = "pending"
                     /\ jobs'[batch[i].job].attempts = batch[i].attempts
    BY <1>2, <1>5, <2>1 DEF CourierInv, ClaimsHaveRows
  <2>4. QED
    BY <2>2, <2>3 DEF ClaimsHaveRows
<1>12. LeasesProtect'
  <2>1. ASSUME NEW k \in LaunchJobs \ stalled, Holding(k)'
        PROVE  jobs'[k].leased
    <3>1. Holding(k) /\ work[k].job = k
      BY <1>3, <2>1, CourierNames DEF CourierInv, ClaimsHaveRows
    <3>2. k # j
      BY <1>4, <2>1, <3>1, CourierNames
    <3>3. QED
      BY <1>2, <2>1, <3>1, <3>2, CourierNames DEF CourierInv, LeasesProtect
  <2>2. ASSUME NEW k \in LaunchJobs \ stalled, work'[k].pc = "spawned", PumpHas(k)'
        PROVE  jobs'[k].leased
    <3>1. PumpHas(k) /\ k # j
      BY <1>3, <1>4, <1>5, <2>2, CourierNames DEF PumpHas
    <3>2. work[k].pc = "spawned"
      BY <2>2, <3>1, CourierNames
    <3>3. QED
      BY <1>2, <2>2, <3>1, <3>2, CourierNames DEF CourierInv, LeasesProtect
  <2>3. QED
    BY <2>1, <2>2 DEF LeasesProtect
<1>13. KeysAreFresh'
  <2>1. ASSUME NEW k \in recorded
        PROVE  /\ k.cycle <= cycle'[k.job]
               /\ k.cycle = cycle'[k.job] => k.attempt <= jobs'[k.job].attempts
    <3>1. k.job \in Jobs /\ k.cycle \in Nat /\ k.attempt \in Nat
      BY <1>1 DEF TypeOK
    <3>2. CASE k.job # j
      BY <1>2, <3>1, <3>2 DEF CourierInv, KeysAreFresh
    <3>3. CASE k.job = j
      BY <1>1, <1>2, <3>1, <3>3 DEF CourierInv, KeysAreFresh
    <3>4. QED
      BY <3>2, <3>3
  <2>2. ASSUME NEW d \in Couriers, work'[d].pc = "recording"
        PROVE  /\ work'[d].cycle <= cycle'[work'[d].job]
               /\ work'[d].job \notin stalled => work'[d].cycle = cycle'[work'[d].job]
    <3>1. Holding(d)' /\ Holding(d) /\ work'[d] = work[d] /\ work[d].job \in Jobs
      BY <1>3, <2>2 DEF Holding
    <3>2. work[d].cycle \in Nat
      BY <1>1, <2>2, <3>1, WorkFields
    <3>3. CASE work[d].job # j
      BY <1>2, <2>2, <3>1, <3>3 DEF CourierInv, KeysAreFresh
    <3>4. CASE work[d].job = j
      BY <1>2, <1>4, <2>2, <3>1, <3>2, <3>4 DEF CourierInv, KeysAreFresh
    <3>5. QED
      BY <3>3, <3>4
  <2>3. QED
    BY <2>1, <2>2 DEF KeysAreFresh
<1>14. RowsSound'
  BY <1>1, <1>2 DEF CourierInv, RowsSound
<1>15. LaunchedOncePerCycle'
  <2>1. ASSUME NEW k \in LaunchJobs
        PROVE  /\ jobs'[k].status \in {"absent", "pending"} => jobs'[k].attempts = 0
               /\ \A m \in 0..cycle'[k] : m < cycle'[k] \/ jobs'[k].status \in Settled =>
                     [job |-> k, cycle |-> m, attempt |-> 1] \in recorded
    <3>1. CASE k = j
      <4>1. ASSUME NEW m \in 0..n, m < n
            PROVE  m \in 0..cycle[j] /\ (m < cycle[j] \/ jobs[j].status \in Settled)
        BY <1>2, <4>1 DEF Settled
      <4>2. QED
        BY <1>1, <1>2, <2>1, <3>1, <4>1 DEF CourierInv, LaunchedOncePerCycle, Settled
    <3>2. CASE k # j
      BY <1>2, <2>1, <3>2, CourierNames DEF CourierInv, LaunchedOncePerCycle
    <3>3. QED
      BY <3>1, <3>2
  <2>2. QED
    BY <1>3, <2>1 DEF CourierInv, LaunchedOncePerCycle
<1>16. QED
  BY <1>7, <1>8, <1>9, <1>10, <1>11, <1>12, <1>13, <1>14, <1>15 DEF CourierInv

\* The pump claims jobs that nobody can be working on: a launch at work on a
\* job that it did not stall on has its lease.
LEMMA PumpClaimPreserves ==
    ASSUME CourierInv, PumpClaim
    PROVE  CourierInv'
<1>1. /\ TypeOK /\ work[Pump].pc = "idle" /\ ~Holding(Pump)
      /\ UNCHANGED <<dueQueue, cycle, recorded, work, posts, told, faults, stalled>>
  BY DEF CourierInv, PumpClaim, Holding
<1>0. PICK n \in 1..ClaimBatch : \E at \in [1..n -> DOMAIN dueQueue] :
         /\ OldestClaimable(n, at)
         /\ jobs' = [j \in Jobs |-> IF \E i \in 1..n : dueQueue[at[i]] = j
                                      THEN [jobs[j] EXCEPT !.leased = TRUE]
                                      ELSE jobs[j]]
         /\ batch' = [i \in 1..n |-> [job |-> dueQueue[at[i]],
                                      attempts |-> jobs[dueQueue[at[i]]].attempts]]
  BY DEF PumpClaim
<1>2. PICK at \in [1..n -> DOMAIN dueQueue] :
         /\ OldestClaimable(n, at)
         /\ jobs' = [j \in Jobs |-> IF \E i \in 1..n : dueQueue[at[i]] = j
                                      THEN [jobs[j] EXCEPT !.leased = TRUE]
                                      ELSE jobs[j]]
         /\ batch' = [i \in 1..n |-> [job |-> dueQueue[at[i]],
                                      attempts |-> jobs[dueQueue[at[i]]].attempts]]
  BY <1>0
<1>3. /\ dueQueue \in Seq(Jobs) /\ \A i \in DOMAIN dueQueue : dueQueue[i] \in Jobs
      /\ DOMAIN dueQueue \subseteq Nat /\ n \in Nat
      /\ \A i, k \in DOMAIN dueQueue : dueQueue[i] = dueQueue[k] => i = k
  <2>1. dueQueue \in Seq(Jobs) /\ DOMAIN dueQueue = 1..Len(dueQueue) /\ Len(dueQueue) \in Nat
    BY <1>1 DEF TypeOK
  <2>2. \A i \in DOMAIN dueQueue : dueQueue[i] \in Jobs /\ i \in Nat
    BY <2>1
  <2>3. \A i, k \in DOMAIN dueQueue : dueQueue[i] = dueQueue[k] => i = k
    BY <1>1 DEF TypeOK
  <2>4. QED
    BY <2>1, <2>2, <2>3, BoundsAssumption
<1>4. ASSUME NEW j \in Jobs
      PROVE  /\ jobs'[j].status = jobs[j].status /\ jobs'[j].attempts = jobs[j].attempts
             /\ jobs[j].leased => jobs'[j].leased
             /\ (\E i \in 1..n : dueQueue[at[i]] = j) => jobs'[j].leased
             /\ jobs'[j].leased => jobs[j].leased \/ \E i \in 1..n : dueQueue[at[i]] = j
             /\ jobs'[j] \in [status : Statuses, attempts : 0..MaxAttempts, leased : BOOLEAN]
  <2>1. jobs[j] \in [status : Statuses, attempts : 0..MaxAttempts, leased : BOOLEAN]
    BY <1>1 DEF TypeOK
  <2>2. CASE \E i \in 1..n : dueQueue[at[i]] = j
    <3>1. jobs'[j] = [jobs[j] EXCEPT !.leased = TRUE]
      BY <1>2, <2>2
    <3>2. QED
      BY <2>1, <2>2, <3>1
  <2>3. CASE ~\E i \in 1..n : dueQueue[at[i]] = j
    <3>1. jobs'[j] = jobs[j]
      BY <1>2, <2>3
    <3>2. QED
      BY <2>1, <2>3, <3>1
  <2>4. QED
    BY <2>2, <2>3
<1>5. /\ DOMAIN batch' = 1..n
      /\ \A i \in 1..n : /\ batch'[i].job = dueQueue[at[i]]
                         /\ batch'[i].attempts = jobs[dueQueue[at[i]]].attempts
  BY <1>2
<1>6. ASSUME NEW i \in 1..n
      PROVE  /\ batch'[i].job \in Jobs /\ batch'[i].attempts \in Nat
             /\ jobs[batch'[i].job].status = "pending" /\ ~jobs[batch'[i].job].leased
             /\ jobs[batch'[i].job].attempts = batch'[i].attempts
             /\ jobs'[batch'[i].job].leased
  <2>1. at[i] \in DOMAIN dueQueue /\ dueQueue[at[i]] \in Jobs
    BY <1>2, <1>3
  <2>2. Claimable(dueQueue[at[i]])
    BY <1>2 DEF OldestClaimable
  <2>3. QED
    BY <1>1, <1>4, <1>5, <2>1, <2>2, JobFields DEF Claimable
<1>7. ASSUME NEW i \in 1..n, NEW k \in 1..n, batch'[i].job = batch'[k].job
      PROVE  i = k
  <2>1. at[i] \in Nat /\ at[k] \in Nat /\ at[i] = at[k]
    BY <1>2, <1>3, <1>5, <1>7
  <2>2. ~(i < k) /\ ~(k < i)
    BY <1>2, <2>1 DEF OldestClaimable
  <2>3. QED
    BY <1>3, <2>2
<1>8. \A d \in Couriers : Holding(d)' <=> Holding(d)
  BY <1>1 DEF Holding
<1>9. TypeOK'
  <2>1. jobs' \in [Jobs -> [status : Statuses, attempts : 0..MaxAttempts, leased : BOOLEAN]]
    <3>1. \A j \in Jobs :
             jobs'[j] \in [status : Statuses, attempts : 0..MaxAttempts, leased : BOOLEAN]
      BY <1>4
    <3>2. DOMAIN jobs' = Jobs /\ jobs' = [j \in DOMAIN jobs' |-> jobs'[j]]
      BY <1>2
    <3>3. QED
      BY <3>1, <3>2
  <2>2. batch' \in Seq([job : Jobs, attempts : Nat])
    <3> DEFINE Claim == [job : Jobs, attempts : Nat]
    <3>1. \A i \in 1..n : batch'[i] \in Claim
      BY <1>2, <1>5, <1>6
    <3>2. batch' = [i \in 1..n |-> batch'[i]]
      BY <1>2
    <3> HIDE DEF Claim
    <3>3. batch' \in Seq(Claim)
      BY <1>3, <3>1, <3>2
    <3>4. QED
      BY <3>3 DEF Claim
  <2>3. \A i \in DOMAIN dueQueue' : jobs'[dueQueue'[i]].status = "pending"
    BY <1>1, <1>3, <1>4 DEF TypeOK
  <2>4. QED
    BY <1>1, <2>1, <2>2, <2>3 DEF TypeOK
<1>10. NoConcurrentDelivery'
  <2>1. ASSUME NEW i \in 1..n, batch'[i].job \notin stalled, NEW d \in Couriers, Holding(d),
               work[d].job = batch'[i].job
        PROVE  FALSE
    <3>1. d \in LaunchJobs /\ work[d].job = d
      BY <1>1, <2>1, CourierNames DEF CourierInv, ClaimsHaveRows
    <3>2. jobs[d].leased
      BY <2>1, <3>1 DEF CourierInv, LeasesProtect
    <3>3. QED
      BY <1>6, <2>1, <3>1, <3>2
  <2>2. \A c, d \in Couriers :
           /\ Holding(c)' /\ Holding(d)' /\ work'[c].job = work'[d].job
           /\ work'[c].job \notin stalled'
           => c = d
    BY <1>1, <1>8 DEF CourierInv, NoConcurrentDelivery
  <2>3. QED
    BY <1>1, <1>5, <1>7, <1>8, <2>1, <2>2 DEF NoConcurrentDelivery
<1>11. ClaimsAreCurrent'
  <2>1. \A d \in Couriers : Holding(d) => work[d].job \in Jobs
    BY <1>1, WorkFields
  <2>2. QED
    BY <1>1, <1>4, <1>8, <2>1 DEF CourierInv, ClaimsAreCurrent
<1>12. ReportedDeliveredIsDelivered'
  BY <1>1, <1>4 DEF CourierInv, ReportedDeliveredIsDelivered, TypeOK
<1>13. ClaimsHaveRows'
  <2>1. \A d \in Couriers : Holding(d) => work[d].job \in Jobs
    BY <1>1, WorkFields
  <2>2. /\ \A d \in LaunchJobs : Holding(d)' => work'[d].job = d
        /\ \A d \in Couriers : Holding(d)' => jobs'[work'[d].job].status # "absent"
    BY <1>1, <1>4, <1>8, <2>1, CourierNames DEF CourierInv, ClaimsHaveRows
  <2>3. QED
    BY <1>4, <1>5, <1>6, <2>2 DEF ClaimsHaveRows
<1>14. LeasesProtect'
  <2>1. ASSUME NEW k \in LaunchJobs \ stalled, Holding(k)
        PROVE  jobs'[k].leased
    BY <1>4, <2>1, CourierNames DEF CourierInv, LeasesProtect
  <2>2. ASSUME NEW k \in LaunchJobs \ stalled, PumpHas(k)'
        PROVE  jobs'[k].leased
    BY <1>1, <1>5, <1>6, <1>8, <2>2, CourierNames DEF PumpHas
  <2>3. QED
    BY <1>1, <1>8, <2>1, <2>2, CourierNames DEF LeasesProtect
<1>15. KeysAreFresh'
  <2>1. \A k \in recorded : k.job \in Jobs
    BY <1>1 DEF TypeOK
  <2>2. QED
    BY <1>1, <1>4, <2>1 DEF CourierInv, KeysAreFresh
<1>16. RowsSound'
  <2>1. \A j \in Jobs : (\E i \in 1..n : dueQueue[at[i]] = j) => jobs[j].status = "pending"
    BY <1>5, <1>6
  <2>2. QED
    BY <1>1, <1>4, <2>1 DEF CourierInv, RowsSound
<1>17. LaunchedOncePerCycle'
  <2>1. ASSUME NEW i \in 1..n, batch'[i].job \in LaunchJobs
        PROVE  batch'[i].attempts = 0
    BY <1>6, <2>1 DEF CourierInv, LaunchedOncePerCycle
  <2>2. ASSUME NEW k \in LaunchJobs
        PROVE  /\ jobs'[k].status \in {"absent", "pending"} => jobs'[k].attempts = 0
               /\ \A m \in 0..cycle'[k] : m < cycle'[k] \/ jobs'[k].status \in Settled =>
                     [job |-> k, cycle |-> m, attempt |-> 1] \in recorded'
    BY <1>1, <1>4, CourierNames DEF CourierInv, LaunchedOncePerCycle
  <2>3. ASSUME NEW d \in Couriers, Holding(d)', work'[d].job \in LaunchJobs
        PROVE  /\ work'[d].attempts = 0
               /\ work'[d].pc # "sending" => work'[d].outcome \in Outcomes(work'[d].job)
    BY <1>1, <1>8, <2>3 DEF CourierInv, LaunchedOncePerCycle
  <2>4. QED
    BY <1>5, <2>1, <2>2, <2>3 DEF LaunchedOncePerCycle
<1>18. QED
  BY <1>9, <1>10, <1>11, <1>12, <1>13, <1>14, <1>15, <1>16, <1>17 DEF CourierInv

\* The pump takes the first job of its batch: its claims stay the same.
LEMMA PumpSendPreserves ==
    ASSUME CourierInv, PumpSend
    PROVE  CourierInv'
<1> DEFINE Claim == [job : Jobs, attempts : Nat]
           b == batch[1]
           new == [pc |-> "sending", job |-> b.job, attempts |-> b.attempts]
<1>1. /\ TypeOK /\ work[Pump].pc = "idle" /\ ~Holding(Pump) /\ batch # <<>>
      /\ batch' = Tail(batch)
      /\ UNCHANGED <<jobs, dueQueue, cycle, recorded, told, faults, stalled>>
  BY DEF CourierInv, PumpSend, Holding
<1>2. batch \in Seq(Claim)
  BY <1>1 DEF TypeOK
<1> HIDE DEF Claim
<1>3. /\ Len(batch) \in Nat \ {0} /\ DOMAIN batch = 1..Len(batch) /\ Head(batch) = b
      /\ batch' \in Seq(Claim) /\ Len(batch') = Len(batch) - 1
      /\ DOMAIN batch' = 1..(Len(batch) - 1)
      /\ \A i \in 1..(Len(batch) - 1) : batch'[i] = batch[i + 1]
  BY <1>1, <1>2
<1>4. 1 \in DOMAIN batch
      /\ \A i \in DOMAIN batch' : i + 1 \in DOMAIN batch /\ i + 1 # 1 /\ batch'[i] = batch[i + 1]
  BY <1>3
<1>5. /\ work' = [work EXCEPT ![Pump] = new]
      /\ posts' = [posts EXCEPT ![b.job] = Counted(@)]
  BY <1>3 DEF PumpSend
<1>6. b.job \in Jobs /\ b.attempts \in Nat
  BY <1>1, <1>4, BatchFields
<1>7. /\ work' \in [Couriers -> Work] /\ work'[Pump] = new
      /\ \A d \in Couriers : d # Pump => work'[d] = work[d]
      /\ new.pc = "sending" /\ new.job = b.job /\ new.attempts = b.attempts
  BY <1>1, <1>5, <1>6, CourierNames DEF TypeOK, Work
<1> HIDE DEF b, new
<1>8. ASSUME NEW d \in Couriers, Holding(d)'
      PROVE  \/ d = Pump /\ work'[d] = new
             \/ d # Pump /\ Holding(d) /\ work'[d] = work[d]
  BY <1>7, <1>8 DEF Holding
<1>9. ASSUME b.job \notin stalled
      PROVE  /\ \A d \in Couriers : Holding(d) => work[d].job # b.job
             /\ \A i \in DOMAIN batch' : batch'[i].job # b.job
             /\ jobs[b.job].status = "pending" /\ jobs[b.job].attempts = b.attempts
  BY <1>4, <1>9 DEF CourierInv, NoConcurrentDelivery, ClaimsHaveRows, b
<1>10. jobs[b.job].status # "absent" /\ (b.job \in LaunchJobs => b.attempts = 0)
  BY <1>4 DEF CourierInv, ClaimsHaveRows, LaunchedOncePerCycle, b
<1>11. TypeOK'
  <2>1. Counted(posts[b.job]) \in Nat
    BY <1>1, <1>6, JobFields DEF Counted
  <2>2. posts' \in [Jobs -> Nat]
    BY <1>1, <1>5, <1>6, <2>1 DEF TypeOK
  <2>3. QED
    BY <1>1, <1>3, <1>7, <2>2 DEF TypeOK, Claim
<1>12. NoConcurrentDelivery'
  <2>1. ASSUME NEW c \in Couriers, NEW d \in Couriers, Holding(c)', Holding(d)',
               work'[c].job = work'[d].job, work'[c].job \notin stalled
        PROVE  c = d
    BY <1>7, <1>8, <1>9, <2>1 DEF CourierInv, NoConcurrentDelivery
  <2>2. ASSUME NEW i \in DOMAIN batch', batch'[i].job \notin stalled
        PROVE  /\ \A c \in Couriers : Holding(c)' => work'[c].job # batch'[i].job
               /\ \A k \in DOMAIN batch' : batch'[k].job = batch'[i].job => k = i
    <3>1. batch'[i].job # b.job
      BY <1>4, <2>2 DEF CourierInv, NoConcurrentDelivery, b
    <3>2. \A c \in Couriers : Holding(c)' => work'[c].job # batch'[i].job
      BY <1>4, <1>7, <1>8, <2>2, <3>1 DEF CourierInv, NoConcurrentDelivery
    <3>3. ASSUME NEW k \in DOMAIN batch', batch'[k].job = batch'[i].job PROVE k = i
      <4>1. k + 1 = i + 1
        BY <1>4, <2>2, <3>3 DEF CourierInv, NoConcurrentDelivery
      <4>2. QED
        BY <1>3, <4>1
    <3>4. QED
      BY <3>2, <3>3
  <2>3. QED
    BY <1>1, <2>1, <2>2 DEF NoConcurrentDelivery
<1>13. ClaimsAreCurrent'
  <2>1. ASSUME NEW d \in Couriers, Holding(d)', work'[d].job \notin stalled
        PROVE  /\ jobs[work'[d].job].status = "pending"
               /\ jobs[work'[d].job].attempts = work'[d].attempts
               /\ [job |-> work'[d].job, cycle |-> cycle[work'[d].job],
                   attempt |-> work'[d].attempts + 1] \notin recorded
    <3>1. CASE d # Pump
      BY <1>8, <2>1, <3>1 DEF CourierInv, ClaimsAreCurrent
    <3>2. CASE d = Pump
      <4> DEFINE key == [job |-> b.job, cycle |-> cycle[b.job], attempt |-> b.attempts + 1]
      <4>1. work'[d].job = b.job /\ work'[d].attempts = b.attempts
        BY <1>7, <3>2
      <4>2. key \notin recorded
        <5>1. SUFFICES ASSUME key \in recorded PROVE FALSE
          OBVIOUS
        <5>2. key.attempt <= jobs[key.job].attempts
          BY <5>1 DEF CourierInv, KeysAreFresh
        <5>3. QED
          BY <1>6, <1>9, <2>1, <4>1, <5>2
      <4>3. QED
        BY <1>9, <2>1, <4>1, <4>2
    <3>3. QED
      BY <3>1, <3>2
  <2>2. QED
    BY <1>1, <2>1 DEF ClaimsAreCurrent
<1>14. ReportedDeliveredIsDelivered' /\ RowsSound'
  BY <1>1 DEF CourierInv, ReportedDeliveredIsDelivered, RowsSound
<1>15. ClaimsHaveRows'
  <2>1. \A d \in LaunchJobs : Holding(d)' => work'[d].job = d
    BY <1>8, CourierNames DEF CourierInv, ClaimsHaveRows
  <2>2. \A d \in Couriers : Holding(d)' => jobs[work'[d].job].status # "absent"
    BY <1>7, <1>8, <1>10 DEF CourierInv, ClaimsHaveRows
  <2>3. QED
    BY <1>1, <1>4, <2>1, <2>2 DEF CourierInv, ClaimsHaveRows
<1>16. LeasesProtect'
  <2>1. ASSUME NEW k \in LaunchJobs
        PROVE  /\ Holding(k)' => Holding(k)
               /\ work'[k].pc = "spawned" => work[k].pc = "spawned"
               /\ PumpHas(k)' => PumpHas(k)
    <3>1. (Holding(k)' => Holding(k)) /\ work'[k] = work[k]
      BY <1>7, <1>8, CourierNames
    <3>2. PumpHas(k)' => PumpHas(k)
      BY <1>4, <1>7 DEF PumpHas, b
    <3>3. QED
      BY <3>1, <3>2
  <2>2. QED
    BY <1>1, <2>1 DEF CourierInv, LeasesProtect
<1>17. KeysAreFresh'
  <2>1. \A d \in Couriers : work'[d].pc = "recording" => work'[d] = work[d]
    BY <1>7
  <2>2. QED
    BY <1>1, <2>1 DEF CourierInv, KeysAreFresh
<1>18. LaunchedOncePerCycle'
  <2>1. ASSUME NEW d \in Couriers, Holding(d)', work'[d].job \in LaunchJobs
        PROVE  /\ work'[d].attempts = 0
               /\ work'[d].pc # "sending" => work'[d].outcome \in Outcomes(work'[d].job)
    BY <1>7, <1>8, <1>10, <2>1 DEF CourierInv, LaunchedOncePerCycle
  <2>2. QED
    BY <1>1, <1>4, <2>1 DEF CourierInv, LaunchedOncePerCycle
<1>19. QED
  BY <1>11, <1>12, <1>13, <1>14, <1>15, <1>16, <1>17, <1>18 DEF CourierInv

\* A launch that claims its job finds nobody at work on it.
LEMMA LaunchClaimsAlone ==
    ASSUME CourierInv, NEW j \in LaunchJobs, work[j].pc = "spawned", Claimable(j),
           j \notin stalled
    PROVE  /\ \A d \in Couriers : Holding(d) => work[d].job # j
           /\ \A i \in DOMAIN batch : batch[i].job # j
<1>1. ~jobs[j].leased /\ ~Holding(j)
  BY DEF Claimable, Holding
<1>2. ~PumpHas(j)
  BY <1>1 DEF CourierInv, LeasesProtect
<1>3. QED
  BY <1>1, <1>2, CourierNames DEF CourierInv, ClaimsHaveRows, PumpHas

\* launch_claimed_agent_job keeps the invariant, whether or not it gets the job.
LEMMA LaunchClaimPreserves ==
    ASSUME CourierInv, NEW j \in LaunchJobs, LaunchClaim(j)
    PROVE  CourierInv'
<1>1. /\ TypeOK /\ j \in Jobs /\ j \in Couriers /\ work[j].pc = "spawned" /\ ~Holding(j)
      /\ UNCHANGED <<dueQueue, cycle, recorded, batch, told, faults, stalled>>
  BY CourierNames DEF CourierInv, LaunchClaim, Holding
<1>2. CASE ~Claimable(j)
  <2>1. work' = [work EXCEPT ![j] = Free] /\ UNCHANGED <<jobs, posts>>
    BY <1>2 DEF LaunchClaim
  <2>2. Free \in Work /\ Free.pc = "idle"
    BY DEF Free, Work
  <2>3. /\ told' \subseteq Jobs /\ posts' \in [Jobs -> Nat] /\ faults' \in 0..MaxFaults
        /\ ReportedDeliveredIsDelivered'
    BY <1>1, <2>1 DEF CourierInv, ReportedDeliveredIsDelivered, TypeOK
  <2>4. QED
    BY <1>1, <2>1, <2>2, <2>3, CourierStep
<1>3. CASE Claimable(j)
  <2> DEFINE new == [pc |-> "sending", job |-> j, attempts |-> jobs[j].attempts]
  <2>1. /\ jobs' = [jobs EXCEPT ![j].leased = TRUE]
        /\ work' = [work EXCEPT ![j] = new]
        /\ posts' = [posts EXCEPT ![j] = Counted(@)]
    BY <1>3 DEF LaunchClaim
  <2>2. jobs[j].status = "pending" /\ jobs[j].attempts = 0
    BY <1>3 DEF Claimable, CourierInv, LaunchedOncePerCycle
  <2>3. /\ jobs'[j].status = "pending" /\ jobs'[j].attempts = 0 /\ jobs'[j].leased
        /\ \A k \in Jobs : k # j => jobs'[k] = jobs[k]
        /\ jobs' \in [Jobs -> [status : Statuses, attempts : 0..MaxAttempts, leased : BOOLEAN]]
    BY <1>1, <2>1, <2>2 DEF TypeOK
  <2>4. /\ work' \in [Couriers -> Work] /\ work'[j] = new
        /\ \A d \in Couriers : d # j => work'[d] = work[d]
        /\ new.pc = "sending" /\ new.job = j /\ new.attempts = 0
    BY <1>1, <2>1, <2>2, JobFields DEF TypeOK, Work
  <2> HIDE DEF new
  <2>5. ASSUME NEW d \in Couriers, Holding(d)'
        PROVE  \/ d = j /\ work'[d] = new
               \/ d # j /\ Holding(d) /\ work'[d] = work[d] /\ work[d].job \in Jobs
    BY <1>1, <2>4, <2>5, WorkFields DEF Holding
  <2>6. j \notin stalled => /\ \A d \in Couriers : Holding(d) => work[d].job # j
                            /\ \A i \in DOMAIN batch : batch[i].job # j
    BY <1>1, <1>3, LaunchClaimsAlone
  <2>7. TypeOK'
    <3>1. Counted(posts[j]) \in Nat
      BY <1>1, JobFields DEF Counted
    <3>2. posts' \in [Jobs -> Nat]
      BY <1>1, <2>1, <3>1 DEF TypeOK
    <3>3. ASSUME NEW i \in DOMAIN dueQueue
          PROVE  jobs'[dueQueue[i]].status = "pending"
      <4>1. dueQueue[i] \in Jobs /\ jobs[dueQueue[i]].status = "pending"
        BY <1>1 DEF TypeOK
      <4>2. QED
        BY <2>3, <4>1
    <3>4. QED
      BY <1>1, <2>3, <2>4, <3>2, <3>3 DEF TypeOK
  <2>8. NoConcurrentDelivery'
    BY <1>1, <2>4, <2>5, <2>6 DEF CourierInv, NoConcurrentDelivery
  <2>9. ClaimsAreCurrent'
    <3>1. ASSUME NEW d \in Couriers, Holding(d)', work'[d].job \notin stalled
          PROVE  /\ jobs'[work'[d].job].status = "pending"
                 /\ jobs'[work'[d].job].attempts = work'[d].attempts
                 /\ [job |-> work'[d].job, cycle |-> cycle[work'[d].job],
                     attempt |-> work'[d].attempts + 1] \notin recorded
      <4>1. CASE d # j
        BY <2>3, <2>5, <2>6, <3>1, <4>1 DEF CourierInv, ClaimsAreCurrent
      <4>2. CASE d = j
        <5> DEFINE key == [job |-> j, cycle |-> cycle[j], attempt |-> 0 + 1]
        <5>1. key \notin recorded
          <6>1. SUFFICES ASSUME key \in recorded PROVE FALSE
            OBVIOUS
          <6>2. key.attempt <= jobs[key.job].attempts
            BY <6>1 DEF CourierInv, KeysAreFresh
          <6>3. QED
            BY <2>2, <6>2
        <5>2. QED
          BY <2>3, <2>4, <4>2, <5>1
      <4>3. QED
        BY <4>1, <4>2
    <3>2. QED
      BY <1>1, <3>1 DEF ClaimsAreCurrent
  <2>10. ReportedDeliveredIsDelivered'
    BY <1>1, <2>2, <2>3 DEF CourierInv, ReportedDeliveredIsDelivered, TypeOK
  <2>11. ClaimsHaveRows'
    <3>1. ASSUME NEW i \in DOMAIN batch
          PROVE  /\ jobs'[batch[i].job].status # "absent"
                 /\ batch[i].job \notin stalled =>
                       /\ jobs'[batch[i].job].status = "pending"
                       /\ jobs'[batch[i].job].attempts = batch[i].attempts
      BY <1>1, <2>3, <2>6, BatchFields DEF CourierInv, ClaimsHaveRows
    <3>2. \A d \in Couriers : Holding(d)' => jobs'[work'[d].job].status # "absent"
      BY <2>3, <2>4, <2>5 DEF CourierInv, ClaimsHaveRows
    <3>3. \A d \in LaunchJobs : Holding(d)' => work'[d].job = d
      BY <2>4, <2>5, CourierNames DEF CourierInv, ClaimsHaveRows
    <3>4. QED
      BY <1>1, <3>1, <3>2, <3>3 DEF ClaimsHaveRows
  <2>12. LeasesProtect'
    <3>1. ASSUME NEW k \in LaunchJobs \ stalled, k # j
          PROVE  /\ Holding(k)' => Holding(k)
                 /\ work'[k].pc = "spawned" => work[k].pc = "spawned"
                 /\ PumpHas(k)' => PumpHas(k)
                 /\ jobs'[k] = jobs[k]
      <4>1. Holding(Pump)' => Holding(Pump) /\ work'[Pump] = work[Pump]
        BY <2>5, CourierNames
      <4>2. PumpHas(k)' => PumpHas(k)
        BY <1>1, <4>1 DEF PumpHas
      <4>3. QED
        BY <2>3, <2>4, <2>5, <3>1, <4>2, CourierNames
    <3>2. QED
      BY <1>1, <2>3, <3>1 DEF CourierInv, LeasesProtect
  <2>13. KeysAreFresh'
    <3>1. \A d \in Couriers : work'[d].pc = "recording" => work'[d] = work[d]
      BY <2>4
    <3>2. ASSUME NEW k \in recorded
          PROVE  k.job \in Jobs /\ jobs'[k.job].attempts = jobs[k.job].attempts
      BY <1>1, <2>2, <2>3 DEF TypeOK
    <3>3. QED
      BY <1>1, <3>1, <3>2 DEF CourierInv, KeysAreFresh
  <2>14. RowsSound'
    BY <1>1, <2>2, <2>3 DEF CourierInv, RowsSound
  <2>15. LaunchedOncePerCycle'
    <3>1. ASSUME NEW k \in LaunchJobs
          PROVE  jobs'[k].status = jobs[k].status /\ jobs'[k].attempts = jobs[k].attempts
      BY <2>2, <2>3, CourierNames
    <3>2. ASSUME NEW d \in Couriers, Holding(d)', work'[d].job \in LaunchJobs
          PROVE  /\ work'[d].attempts = 0
                 /\ work'[d].pc # "sending" => work'[d].outcome \in Outcomes(work'[d].job)
      BY <2>4, <2>5, <3>2 DEF CourierInv, LaunchedOncePerCycle
    <3>3. QED
      BY <1>1, <3>1, <3>2 DEF CourierInv, LaunchedOncePerCycle
  <2>16. QED
    BY <2>7, <2>8, <2>9, <2>10, <2>11, <2>12, <2>13, <2>14, <2>15 DEF CourierInv
<1>4. QED
  BY <1>2, <1>3

\* A lease that runs out takes its protection from a launch, which the history
\* variable stalled then names, or from the pump, which nobody can outrun: only
\* a launch could, and it is idle or named.
LEMMA LeaseExpiresPreserves ==
    ASSUME CourierInv, NEW j \in Jobs, LeaseExpires(j)
    PROVE  CourierInv'
<1>1. /\ TypeOK /\ jobs[j].leased
      /\ jobs' = [jobs EXCEPT ![j].leased = FALSE]
      /\ stalled' = IF j \in LaunchJobs /\ work[j].pc # "idle" THEN stalled \cup {j} ELSE stalled
      /\ UNCHANGED <<dueQueue, cycle, recorded, batch, work, posts, told, faults>>
  BY DEF CourierInv, LeaseExpires
<1>2. /\ jobs' \in [Jobs -> [status : Statuses, attempts : 0..MaxAttempts, leased : BOOLEAN]]
      /\ ~jobs'[j].leased /\ \A k \in Jobs : k # j => jobs'[k] = jobs[k]
      /\ \A k \in Jobs : jobs'[k].status = jobs[k].status /\ jobs'[k].attempts = jobs[k].attempts
  BY <1>1 DEF TypeOK
<1>3. /\ stalled \subseteq stalled' /\ stalled' \subseteq LaunchJobs
      /\ stalled' \subseteq stalled \cup {j}
      /\ j \in LaunchJobs /\ work[j].pc # "idle" => j \in stalled'
  BY <1>1 DEF TypeOK
<1>4. jobs[j].status = "pending"
  BY <1>1 DEF CourierInv, RowsSound
<1>5. \A d \in Couriers : /\ Holding(d)' <=> Holding(d)
                          /\ Holding(d) => work[d].job \in Jobs
  BY <1>1, WorkFields DEF Holding
<1>6. TypeOK'
  <2>1. ASSUME NEW i \in DOMAIN dueQueue
        PROVE  jobs'[dueQueue[i]].status = "pending"
    <3>1. dueQueue[i] \in Jobs /\ jobs[dueQueue[i]].status = "pending"
      BY <1>1 DEF TypeOK
    <3>2. QED
      BY <1>2, <3>1
  <2>2. QED
    BY <1>1, <1>2, <1>3, <2>1 DEF TypeOK
<1>7. NoConcurrentDelivery'
  BY <1>1, <1>3, <1>5 DEF CourierInv, NoConcurrentDelivery
<1>8. ClaimsAreCurrent'
  BY <1>1, <1>2, <1>3, <1>5 DEF CourierInv, ClaimsAreCurrent
<1>9. ReportedDeliveredIsDelivered'
  BY <1>1, <1>2, <1>3 DEF CourierInv, ReportedDeliveredIsDelivered, TypeOK
<1>10. ClaimsHaveRows'
  <2>1. \A i \in DOMAIN batch : batch[i].job \in Jobs
    BY <1>1, BatchFields
  <2>2. QED
    BY <1>1, <1>2, <1>3, <1>5, <2>1, CourierNames DEF CourierInv, ClaimsHaveRows
<1>11. LeasesProtect'
  <2>1. ASSUME NEW k \in LaunchJobs \ stalled', work[k].pc # "idle"
        PROVE  k # j /\ k \in Jobs /\ k \notin stalled
    BY <1>3, <2>1, CourierNames
  <2>2. ASSUME NEW k \in LaunchJobs
        PROVE  /\ Holding(k)' <=> Holding(k)
               /\ PumpHas(k)' <=> PumpHas(k)
               /\ Holding(k) => work[k].pc # "idle"
    BY <1>1, <1>5, CourierNames DEF PumpHas, Holding
  <2>3. QED
    BY <1>1, <1>2, <2>1, <2>2 DEF CourierInv, LeasesProtect
<1>12. KeysAreFresh'
  <2>1. \A k \in recorded : k.job \in Jobs
    BY <1>1 DEF TypeOK
  <2>2. QED
    BY <1>1, <1>2, <1>3, <2>1 DEF CourierInv, KeysAreFresh
<1>13. RowsSound'
  BY <1>1, <1>2, <1>3, <1>4 DEF CourierInv, RowsSound
<1>14. LaunchedOncePerCycle'
  BY <1>1, <1>2, <1>5, CourierNames DEF CourierInv, LaunchedOncePerCycle
<1>15. QED
  BY <1>6, <1>7, <1>8, <1>9, <1>10, <1>11, <1>12, <1>13, <1>14 DEF CourierInv

\* A step of time that only lengthens the queue keeps the invariant.
LEMMA ComesDuePreserves ==
    ASSUME CourierInv, NEW j \in Jobs, ComesDue(j)
    PROVE  CourierInv'
<1>1. /\ TypeOK /\ jobs[j].status = "pending" /\ ~IsQueued(j)
      /\ dueQueue' = Append(dueQueue, j)
      /\ UNCHANGED <<jobs, cycle, recorded, batch, work, posts, told, faults, stalled>>
  BY DEF CourierInv, ComesDue
<1>2. /\ dueQueue' \in Seq(Jobs)
      /\ \A i \in DOMAIN dueQueue' :
            dueQueue'[i] = j \/ \E k \in DOMAIN dueQueue : dueQueue[k] = dueQueue'[i]
      /\ \A i, k \in DOMAIN dueQueue' : dueQueue'[i] = dueQueue'[k] => i = k
  BY <1>1, QueueGrows
<1>3. \A i \in DOMAIN dueQueue' : jobs'[dueQueue'[i]].status = "pending"
  BY <1>1, <1>2 DEF TypeOK
<1>4. TypeOK'
  BY <1>1, <1>2, <1>3 DEF TypeOK
<1>5. QED
  BY <1>1, <1>4 DEF CourierInv, NoConcurrentDelivery, ClaimsAreCurrent,
     ReportedDeliveredIsDelivered, ClaimsHaveRows, LeasesProtect, PumpHas, KeysAreFresh,
     RowsSound, LaunchedOncePerCycle, Holding

\* A crash takes every claim away, and what is left constrains nobody.
LEMMA CrashPreserves ==
    ASSUME CourierInv, Crash
    PROVE  CourierInv'
<1>1. /\ TypeOK /\ faults' \in 0..MaxFaults
      /\ work' = [c \in Couriers |-> Free] /\ batch' = <<>>
      /\ UNCHANGED <<jobs, dueQueue, cycle, recorded, posts, told, stalled>>
  BY BoundsAssumption DEF CourierInv, Crash, TypeOK
<1>2. /\ \A c \in Couriers : ~Holding(c)' /\ work'[c].pc = "idle" /\ work'[c] \in Work
      /\ DOMAIN batch' = {}
  BY <1>1 DEF Free, Holding, Work
<1>3. TypeOK'
  <2>1. batch' \in Seq([job : Jobs, attempts : Nat])
    BY <1>1
  <2>2. work' \in [Couriers -> Work]
    BY <1>1, <1>2
  <2>3. QED
    BY <1>1, <2>1, <2>2 DEF TypeOK
<1>4. NoConcurrentDelivery' /\ ClaimsAreCurrent' /\ ReportedDeliveredIsDelivered'
  BY <1>1, <1>2 DEF CourierInv, NoConcurrentDelivery, ClaimsAreCurrent,
     ReportedDeliveredIsDelivered
<1>5. ClaimsHaveRows' /\ LeasesProtect' /\ RowsSound'
  BY <1>1, <1>2, CourierNames DEF CourierInv, ClaimsHaveRows, LeasesProtect, RowsSound
<1>6. KeysAreFresh' /\ LaunchedOncePerCycle'
  BY <1>1, <1>2 DEF CourierInv, KeysAreFresh, LaunchedOncePerCycle
<1>7. QED
  BY <1>3, <1>4, <1>5, <1>6 DEF CourierInv

\* Enqueue makes an absent job pending, and spawns the courier of a launch.
LEMMA EnqueuePreserves ==
    ASSUME CourierInv, NEW j \in Jobs, Enqueue(j)
    PROVE  CourierInv'
<1>1. /\ TypeOK /\ jobs[j].status = "absent"
      /\ jobs' = [jobs EXCEPT ![j].status = "pending"]
      /\ dueQueue' = Append(dueQueue, j)
      /\ work' = IF j \in LaunchJobs THEN [work EXCEPT ![j] = [pc |-> "spawned"]] ELSE work
      /\ UNCHANGED <<cycle, recorded, batch, posts, told, faults, stalled>>
  BY DEF CourierInv, Enqueue
<1>2. jobs[j].attempts = 0 /\ ~jobs[j].leased
  BY <1>1 DEF CourierInv, RowsSound
<1> DEFINE row == [jobs[j] EXCEPT !.status = "pending"]
<1>3. /\ row \in [status : Statuses, attempts : 0..MaxAttempts, leased : BOOLEAN]
      /\ row.status = "pending" /\ row.attempts = 0 /\ ~row.leased
      /\ jobs' = [jobs EXCEPT ![j] = row]
  BY <1>1, <1>2 DEF TypeOK, Statuses
<1>4. cycle' = [cycle EXCEPT ![j] = cycle[j]] /\ cycle[j] \in Nat
  BY <1>1, JobFields DEF TypeOK
<1>5. posts' \in [Jobs -> Nat] /\ jobs[j].attempts = 0
  BY <1>1, <1>2 DEF TypeOK
<1>6. /\ work' \in [Couriers -> Work]
      /\ \/ work' = work
         \/ /\ j \in LaunchJobs /\ work'[j].pc = "spawned"
            /\ \A d \in Couriers : d # j => work'[d] = work[d]
  BY <1>1, CourierNames DEF TypeOK, Work
<1> HIDE DEF row
<1>7. QED
  BY <1>1, <1>3, <1>4, <1>5, <1>6, JobBecomesPending

\* So does an operator's retry with a failed one.
LEMMA RetryPreserves ==
    ASSUME CourierInv, NEW j \in Jobs, RetryTerminal(j)
    PROVE  CourierInv'
<1> DEFINE row == [status |-> "pending", attempts |-> 0, leased |-> FALSE]
<1>1. /\ TypeOK /\ jobs[j].status = "failed_terminal"
      /\ jobs' = [jobs EXCEPT ![j] = row]
      /\ cycle' = [cycle EXCEPT ![j] = @ + 1]
      /\ dueQueue' = Append(dueQueue, j)
      /\ posts' = [posts EXCEPT ![j] = 0]
      /\ UNCHANGED <<recorded, batch, work, told, faults, stalled>>
  BY DEF CourierInv, RetryTerminal, Revivable
<1>2. cycle' = [cycle EXCEPT ![j] = cycle[j] + 1] /\ cycle[j] + 1 \in Nat
  BY <1>1, JobFields
<1>3. posts' \in [Jobs -> Nat] /\ work' \in [Couriers -> Work]
  BY <1>1 DEF TypeOK
<1>4. /\ row \in [status : Statuses, attempts : 0..MaxAttempts, leased : BOOLEAN]
      /\ row.status = "pending" /\ row.attempts = 0 /\ ~row.leased
  BY BoundsAssumption DEF Statuses
<1> HIDE DEF row
<1>5. QED
  BY <1>1, <1>2, <1>3, <1>4, JobBecomesPending

\* The claim protocol is safe: CourierInv is inductive.
THEOREM CourierSafe == Spec => []CourierInv
<1>1. Init => CourierInv
  <2> SUFFICES ASSUME Init PROVE CourierInv
    OBVIOUS
  <2>1. /\ \A c \in Couriers : ~Holding(c) /\ work[c].pc = "idle" /\ work[c] \in Work
        /\ DOMAIN batch = {} /\ recorded = {} /\ told = {} /\ stalled = {}
    BY DEF Init, Holding, Free, Work
  <2>2. \A j \in Jobs : /\ jobs[j].status = "absent" /\ jobs[j].attempts = 0 /\ ~jobs[j].leased
                        /\ cycle[j] = 0
    BY DEF Init
  <2>3. TypeOK
    <3>1. jobs \in [Jobs -> [status : Statuses, attempts : 0..MaxAttempts, leased : BOOLEAN]]
      BY BoundsAssumption DEF Init, Statuses
    <3>2. batch \in Seq([job : Jobs, attempts : Nat]) /\ dueQueue \in Seq(Jobs)
      BY DEF Init
    <3>3. QED
      BY <2>1, <3>1, <3>2, BoundsAssumption DEF Init, TypeOK
  <2>4. NoConcurrentDelivery /\ ClaimsAreCurrent /\ ReportedDeliveredIsDelivered
    BY <2>1 DEF NoConcurrentDelivery, ClaimsAreCurrent, ReportedDeliveredIsDelivered
  <2>5. ClaimsHaveRows /\ LeasesProtect /\ KeysAreFresh
    BY <2>1, CourierNames DEF ClaimsHaveRows, LeasesProtect, KeysAreFresh
  <2>6. RowsSound /\ LaunchedOncePerCycle
    BY <2>1, <2>2, CourierNames DEF RowsSound, LaunchedOncePerCycle, Settled
  <2>7. QED
    BY <2>3, <2>4, <2>5, <2>6 DEF CourierInv
<1>2. CourierInv /\ [Next]_vars => CourierInv'
  <2> SUFFICES ASSUME CourierInv, [Next]_vars PROVE CourierInv'
    OBVIOUS
  <2> TypeOK
    BY DEF CourierInv
  <2>1. CASE UNCHANGED vars
    BY <2>1 DEF vars, CourierInv, TypeOK, NoConcurrentDelivery, ClaimsAreCurrent,
       ReportedDeliveredIsDelivered, ClaimsHaveRows, LeasesProtect, PumpHas, KeysAreFresh,
       RowsSound, LaunchedOncePerCycle, Holding
  <2>2. CASE PumpClaim
    BY <2>2, PumpClaimPreserves
  <2>3. CASE PumpSend
    BY <2>3, PumpSendPreserves
  <2>4. CASE Crash
    BY <2>4, CrashPreserves
  <2>5. ASSUME NEW c \in Couriers, Answer(c) PROVE CourierInv'
    <3>1. PICK o \in Outcomes(work[c].job) :
             work' = [work EXCEPT ![c] = [pc |-> "answered", job |-> work[c].job,
                                          attempts |-> work[c].attempts, outcome |-> o]]
      BY <2>5 DEF Answer
    <3> DEFINE new == [pc |-> "answered", job |-> work[c].job,
                       attempts |-> work[c].attempts, outcome |-> o]
    <3>2. /\ work[c].pc = "sending" /\ Holding(c)
          /\ UNCHANGED <<jobs, dueQueue, cycle, recorded, batch, posts, told, faults, stalled>>
      BY <2>5 DEF Answer, Holding
    <3>3. new \in Work /\ new.pc = "answered" /\ new.job = work[c].job
          /\ new.attempts = work[c].attempts /\ new.outcome = o
      BY <3>2, WorkFields DEF Work, Outcomes
    <3>4. /\ told' \subseteq Jobs /\ posts' \in [Jobs -> Nat] /\ faults' \in 0..MaxFaults
          /\ ReportedDeliveredIsDelivered'
      BY <3>2 DEF CourierInv, ReportedDeliveredIsDelivered, TypeOK
    <3> HIDE DEF new
    <3>5. work' = [work EXCEPT ![c] = new]
      BY <3>1 DEF new
    <3>6. QED
      BY <3>2, <3>3, <3>4, <3>5, CourierStep
  <2>6. ASSUME NEW c \in Couriers, ReadCycle(c) PROVE CourierInv'
    <3> DEFINE new == [pc |-> "recording", job |-> work[c].job,
                       attempts |-> work[c].attempts, outcome |-> work[c].outcome,
                       cycle |-> cycle[work[c].job]]
    <3>1. /\ work[c].pc = "answered" /\ Holding(c) /\ work' = [work EXCEPT ![c] = new]
          /\ UNCHANGED <<jobs, dueQueue, cycle, recorded, batch, posts, told, faults, stalled>>
      BY <2>6 DEF ReadCycle, Holding
    <3>2. work[c].job \in Jobs /\ cycle[work[c].job] \in Nat
      BY <3>1, WorkFields, JobFields
    <3>3. new \in Work /\ new.pc = "recording" /\ new.job = work[c].job
          /\ new.attempts = work[c].attempts /\ new.outcome = work[c].outcome
          /\ new.cycle = cycle[work[c].job]
      BY <3>1, <3>2, WorkFields DEF Work
    <3>4. /\ told' \subseteq Jobs /\ posts' \in [Jobs -> Nat] /\ faults' \in 0..MaxFaults
          /\ ReportedDeliveredIsDelivered'
      BY <3>1 DEF CourierInv, ReportedDeliveredIsDelivered, TypeOK
    <3>5. work[c].outcome \in Outcomes(work[c].job)
      <4>1. CASE work[c].job \in LaunchJobs
        BY <3>1, <4>1 DEF CourierInv, LaunchedOncePerCycle
      <4>2. CASE work[c].job \notin LaunchJobs
        BY <3>1, <4>2, WorkFields DEF Outcomes
      <4>3. QED
        BY <4>1, <4>2
    <3> HIDE DEF new
    <3>6. QED
      BY <3>1, <3>3, <3>4, <3>5, CourierStep
  <2>7. ASSUME NEW c \in Couriers, Record(c) PROVE CourierInv'
    BY <2>7, RecordPreserves
  <2>8. ASSUME NEW c \in Couriers, StoreFails(c) PROVE CourierInv'
    <3>1. /\ faults < MaxFaults /\ faults' = faults + 1 /\ work' = [work EXCEPT ![c] = Free]
          /\ UNCHANGED <<jobs, dueQueue, cycle, recorded, batch, posts, told, stalled>>
      BY <2>8 DEF StoreFails
    <3>2. Free \in Work /\ Free.pc = "idle"
      BY DEF Free, Work
    <3>3. /\ told' \subseteq Jobs /\ posts' \in [Jobs -> Nat] /\ faults' \in 0..MaxFaults
          /\ ReportedDeliveredIsDelivered'
      BY <3>1, BoundsAssumption DEF CourierInv, ReportedDeliveredIsDelivered, TypeOK
    <3>4. QED
      BY <3>1, <3>2, <3>3, CourierStep
  <2>9. ASSUME NEW j \in LaunchJobs, LaunchClaim(j) PROVE CourierInv'
    BY <2>9, LaunchClaimPreserves
  <2>10. ASSUME NEW j \in Jobs, Enqueue(j) PROVE CourierInv'
    BY <2>10, EnqueuePreserves
  <2>11. ASSUME NEW j \in Jobs, RetryTerminal(j) PROVE CourierInv'
    BY <2>11, RetryPreserves
  <2>12. ASSUME NEW j \in Jobs, ComesDue(j) PROVE CourierInv'
    BY <2>12, ComesDuePreserves
  <2>13. ASSUME NEW j \in Jobs, LeaseExpires(j) PROVE CourierInv'
    BY <2>13, LeaseExpiresPreserves
  <2>14. QED
    BY <2>1, <2>2, <2>3, <2>4, <2>5, <2>6, <2>7, <2>8, <2>9, <2>10, <2>11, <2>12, <2>13
       DEF Next
<1>3. QED
  BY <1>1, <1>2, PTL DEF Spec

-----------------------------------------------------------------------------
\* The number of couriers that hold job j, where it is known to be one at most.
Held(j) == IF \E c \in Couriers : Holding(c) /\ work[c].job = j THEN 1 ELSE 0

\* PostsAccounted with the couriers counted by Held.
PostsCounted ==
    \A j \in Jobs \ stalled : posts[j] <= jobs[j].attempts + faults + Held(j)

\* At most one courier holds a job that no launch stalled on.
LEMMA HeldIsCardinality ==
    ASSUME CourierInv, NEW j \in Jobs \ stalled
    PROVE  Held(j) = Cardinality({c \in Couriers : Holding(c) /\ work[c].job = j})
<1> DEFINE H == {c \in Couriers : Holding(c) /\ work[c].job = j}
<1>1. CASE H = {}
  <2>1. Held(j) = 0
    BY <1>1 DEF Held
  <2>2. QED
    BY <1>1, <2>1, FS_EmptySet
<1>2. CASE H # {}
  <2>1. PICK c : c \in H
    BY <1>2
  <2>2. \A d \in H : d = c
    BY <2>1 DEF CourierInv, NoConcurrentDelivery
  <2>3. H = {c}
    BY <2>1, <2>2
  <2>4. Held(j) = 1
    BY <2>1 DEF Held
  <2>5. QED
    BY <2>3, <2>4, FS_Singleton
<1>3. QED
  BY <1>1, <1>2

\* A step that leaves posts and rows alone, and after which a job is held by
\* fewer only at the price of a fault, keeps the account.
LEMMA AccountKept ==
    ASSUME CourierInv, PostsCounted, UNCHANGED posts, stalled \subseteq stalled',
           \A j \in Jobs : jobs'[j].attempts = jobs[j].attempts,
           faults' \in Nat, faults <= faults',
           faults' = faults =>
              \A c \in Couriers : Holding(c) => Holding(c)' /\ work'[c].job = work[c].job
    PROVE  PostsCounted'
<1> SUFFICES ASSUME NEW j \in Jobs \ stalled'
             PROVE  posts'[j] <= jobs'[j].attempts + faults' + Held(j)'
  BY DEF PostsCounted
<1>1. /\ posts[j] \in Nat /\ jobs[j].attempts \in Nat /\ faults \in Nat
      /\ posts[j] <= jobs[j].attempts + faults + Held(j)
  BY JobFields, BoundsAssumption DEF PostsCounted, CourierInv, TypeOK
<1>2. Held(j) \in {0, 1} /\ Held(j)' \in {0, 1}
  BY DEF Held
<1>3. CASE faults' = faults
  <2>1. Held(j) <= Held(j)'
    BY <1>2, <1>3 DEF Held
  <2>2. QED
    BY <1>1, <1>2, <1>3, <2>1
<1>4. CASE faults' # faults
  BY <1>1, <1>2, <1>4
<1>5. QED
  BY <1>3, <1>4

\* A call by a courier that takes up job j, which nobody held, is accounted for
\* by that courier.
LEMMA CallCounted ==
    ASSUME CourierInv, PostsCounted, NEW j \in Jobs, NEW c \in Couriers,
           posts' = [posts EXCEPT ![j] = Counted(@)], UNCHANGED <<faults, stalled>>,
           \A k \in Jobs : jobs'[k].attempts = jobs[k].attempts,
           \A d \in Couriers : Holding(d) => Holding(d)' /\ work'[d].job = work[d].job,
           Holding(c)', work'[c].job = j,
           j \notin stalled => \A d \in Couriers : Holding(d) => work[d].job # j
    PROVE  PostsCounted'
<1> SUFFICES ASSUME NEW k \in Jobs \ stalled
             PROVE  posts'[k] <= jobs'[k].attempts + faults' + Held(k)'
  BY DEF PostsCounted
<1>1. /\ posts[k] \in Nat /\ jobs[k].attempts \in Nat /\ faults \in Nat
      /\ posts[k] <= jobs[k].attempts + faults + Held(k)
  BY JobFields, BoundsAssumption DEF PostsCounted, CourierInv, TypeOK
<1>2. Held(k) \in {0, 1} /\ Held(k)' \in {0, 1}
  BY DEF Held
<1>3. CASE k = j
  <2>1. Held(k) = 0
    BY <1>3 DEF Held
  <2>2. Held(k)' = 1
    BY <1>3 DEF Held
  <2>3. posts'[k] <= posts[k] + 1
    BY <1>1, <1>3 DEF CourierInv, TypeOK, Counted
  <2>4. posts'[k] \in Nat
    BY <1>1, <1>3 DEF CourierInv, TypeOK, Counted
  <2>5. QED
    BY <1>1, <2>1, <2>2, <2>3, <2>4
<1>4. CASE k # j
  <2>1. posts'[k] = posts[k]
    BY <1>4 DEF CourierInv, TypeOK
  <2>2. Held(k) <= Held(k)'
    BY <1>2 DEF Held
  <2>3. QED
    BY <1>1, <1>2, <2>1, <2>2
<1>5. QED
  BY <1>3, <1>4

\* The retry budget bounds the provider calls: apart from those lost to faults
\* and those in hand, every call of a cycle was counted as an attempt.
THEOREM PostsAreAccountedFor == Spec => []PostsAccounted
<1>1. Init => PostsCounted
  BY DEF Init, PostsCounted, Held
<1>2. CourierInv /\ PostsCounted /\ [Next]_vars => PostsCounted'
  <2> SUFFICES ASSUME CourierInv, PostsCounted, [Next]_vars PROVE PostsCounted'
    OBVIOUS
  <2> TypeOK
    BY DEF CourierInv
  <2>0. faults \in Nat
    BY BoundsAssumption DEF TypeOK
  <2>1. CASE UNCHANGED vars
    BY <2>1 DEF vars, PostsCounted, Held, Holding
  <2>2. CASE PumpClaim
    <3>1. UNCHANGED <<work, posts, faults, stalled>>
      BY <2>2 DEF PumpClaim
    <3>2. \A j \in Jobs : jobs'[j].attempts = jobs[j].attempts
      <4>1. PICK n \in 1..ClaimBatch : \E at \in [1..n -> DOMAIN dueQueue] :
               jobs' = [j \in Jobs |-> IF \E i \in 1..n : dueQueue[at[i]] = j
                                         THEN [jobs[j] EXCEPT !.leased = TRUE]
                                         ELSE jobs[j]]
        BY <2>2 DEF PumpClaim
      <4>2. QED
        BY <4>1 DEF TypeOK
    <3>3. QED
      BY <2>0, <3>1, <3>2, AccountKept DEF Holding
  <2>3. CASE PumpSend
    <3>1. /\ batch # <<>> /\ ~Holding(Pump) /\ UNCHANGED <<jobs, faults, stalled>>
          /\ work' = [work EXCEPT ![Pump] = [pc |-> "sending", job |-> Head(batch).job,
                                             attempts |-> Head(batch).attempts]]
          /\ posts' = [posts EXCEPT ![Head(batch).job] = Counted(@)]
      BY <2>3 DEF PumpSend, Holding
    <3>2. 1 \in DOMAIN batch /\ Head(batch) = batch[1]
      BY <3>1 DEF TypeOK
    <3> DEFINE j == batch[1].job
    <3>3. j \in Jobs
      BY <3>2, BatchFields
    <3>4. j \notin stalled => \A d \in Couriers : Holding(d) => work[d].job # j
      BY <3>2 DEF CourierInv, NoConcurrentDelivery
    <3>5. /\ Holding(Pump)' /\ work'[Pump].job = j
          /\ \A d \in Couriers : Holding(d) => Holding(d)' /\ work'[d].job = work[d].job
      BY <3>1, <3>2, CourierNames DEF TypeOK, Holding
    <3>6. posts' = [posts EXCEPT ![j] = Counted(@)]
      BY <3>1, <3>2
    <3> HIDE DEF j
    <3>7. QED
      BY <3>1, <3>3, <3>4, <3>5, <3>6, CourierNames, CallCounted
  <2>4. CASE Crash
    <3>1. UNCHANGED <<jobs, posts, stalled>> /\ faults' = faults + 1
      BY <2>4 DEF Crash
    <3>2. QED
      BY <2>0, <3>1, AccountKept
  <2>5. ASSUME NEW c \in Couriers, Answer(c) \/ ReadCycle(c) PROVE PostsCounted'
    <3>1. UNCHANGED <<jobs, posts, faults, stalled>>
      BY <2>5 DEF Answer, ReadCycle
    <3>2. \A d \in Couriers : Holding(d) => Holding(d)' /\ work'[d].job = work[d].job
      BY <2>5 DEF Answer, ReadCycle, Holding, TypeOK
    <3>3. QED
      BY <2>0, <3>1, <3>2, AccountKept
  <2>6. ASSUME NEW c \in Couriers, Record(c) PROVE PostsCounted'
    <3> DEFINE w == work[c]
    <3>1. /\ w.pc = "recording" /\ Holding(c) /\ work' = [work EXCEPT ![c] = Free]
          /\ UNCHANGED <<posts, faults, stalled>>
      BY <2>6 DEF Record, Holding
    <3>2. \A d \in Couriers : d # c => work'[d] = work[d]
      BY <3>1 DEF TypeOK
    <3> SUFFICES ASSUME NEW k \in Jobs \ stalled
                 PROVE  posts[k] <= jobs'[k].attempts + faults + Held(k)'
      BY <3>1 DEF PostsCounted
    <3>3. /\ posts[k] \in Nat /\ jobs[k].attempts \in Nat
          /\ posts[k] <= jobs[k].attempts + faults + Held(k)
      BY JobFields DEF PostsCounted
    <3>4. Held(k) \in {0, 1} /\ Held(k)' \in {0, 1}
      BY DEF Held
    <3>5. CASE k = w.job
      <4>1. ~AlreadyRecorded(w)
        BY <3>1, <3>5, UnstalledIsUnrecorded
      <4>2. jobs[k].attempts = w.attempts
        BY <3>1, <3>5, <4>1, RecordingIsATry
      <4>3. jobs'[k] = RowAfter(w)
        BY <2>6, <3>5, <4>1 DEF Record, TypeOK
      <4>4. jobs'[k].attempts = jobs[k].attempts + 1
        BY <4>2, <4>3 DEF RowAfter
      <4>5. QED
        BY <2>0, <3>3, <3>4, <4>4
    <3>6. CASE k # w.job
      <4>1. jobs'[k] = jobs[k]
        BY <2>6, <3>6 DEF Record, TypeOK
      <4>2. Held(k) <= Held(k)'
        BY <3>2, <3>4, <3>6 DEF Held, Holding
      <4>3. QED
        BY <2>0, <3>3, <3>4, <4>1, <4>2
    <3>7. QED
      BY <3>5, <3>6
  <2>7. ASSUME NEW c \in Couriers, StoreFails(c) PROVE PostsCounted'
    <3>1. UNCHANGED <<jobs, posts, stalled>> /\ faults' = faults + 1
      BY <2>7 DEF StoreFails
    <3>2. QED
      BY <2>0, <3>1, AccountKept
  <2>8. ASSUME NEW j \in LaunchJobs, LaunchClaim(j) PROVE PostsCounted'
    <3>1. j \in Jobs /\ j \in Couriers /\ work[j].pc = "spawned" /\ ~Holding(j)
          /\ UNCHANGED <<faults, stalled>>
      BY <2>8, CourierNames DEF LaunchClaim, Holding
    <3>2. \A d \in Couriers : Holding(d) => Holding(d)' /\ work'[d].job = work[d].job
      BY <2>8, <3>1 DEF LaunchClaim, Holding, TypeOK
    <3>3. CASE Claimable(j)
      <4>1. /\ posts' = [posts EXCEPT ![j] = Counted(@)]
            /\ \A k \in Jobs : jobs'[k].attempts = jobs[k].attempts
            /\ Holding(j)' /\ work'[j].job = j
        BY <2>8, <3>1, <3>3 DEF LaunchClaim, Holding, TypeOK
      <4>2. j \notin stalled => \A d \in Couriers : Holding(d) => work[d].job # j
        BY <3>1, <3>3, LaunchClaimsAlone
      <4>3. QED
        BY <3>1, <3>2, <4>1, <4>2, CallCounted
    <3>4. CASE ~Claimable(j)
      <4>1. UNCHANGED <<jobs, posts>>
        BY <2>8, <3>4 DEF LaunchClaim
      <4>2. QED
        BY <2>0, <3>1, <3>2, <4>1, AccountKept
    <3>5. QED
      BY <3>3, <3>4
  <2>9. ASSUME NEW j \in Jobs, Enqueue(j) PROVE PostsCounted'
    <3>1. /\ jobs[j].status = "absent" /\ UNCHANGED <<posts, faults, stalled>>
          /\ \A k \in Jobs : jobs'[k].attempts = jobs[k].attempts
      BY <2>9 DEF Enqueue, TypeOK
    <3>2. j \in LaunchJobs => ~Holding(j)
      BY <3>1, CourierNames DEF CourierInv, ClaimsHaveRows
    <3>3. \A d \in Couriers : Holding(d) => Holding(d)' /\ work'[d].job = work[d].job
      BY <2>9, <3>2, CourierNames DEF Enqueue, TypeOK, Holding
    <3>4. QED
      BY <2>0, <3>1, <3>3, AccountKept
  <2>10. ASSUME NEW j \in Jobs, RetryTerminal(j) PROVE PostsCounted'
    <3>1. /\ UNCHANGED <<work, faults, stalled>> /\ posts' = [posts EXCEPT ![j] = 0]
          /\ jobs'[j].attempts = 0 /\ \A k \in Jobs : k # j => jobs'[k] = jobs[k]
      BY <2>10 DEF RetryTerminal, TypeOK
    <3>2. posts'[j] = 0 /\ \A k \in Jobs : k # j => posts'[k] = posts[k]
      BY <3>1 DEF TypeOK
    <3>3. \A k \in Jobs : Held(k)' = Held(k) /\ Held(k) \in {0, 1}
      BY <3>1 DEF Held, Holding
    <3>4. QED
      BY <2>0, <3>1, <3>2, <3>3 DEF PostsCounted
  <2>11. ASSUME NEW j \in Jobs, ComesDue(j) \/ LeaseExpires(j) PROVE PostsCounted'
    <3>1. UNCHANGED <<work, posts, faults>> /\ stalled \subseteq stalled'
      BY <2>11 DEF ComesDue, LeaseExpires
    <3>2. jobs' = jobs \/ jobs' = [jobs EXCEPT ![j].leased = FALSE]
      BY <2>11 DEF ComesDue, LeaseExpires
    <3>3. \A k \in Jobs : jobs'[k].attempts = jobs[k].attempts
      BY <3>2, LeaseOnly
    <3>4. QED
      BY <2>0, <3>1, <3>3, AccountKept DEF Holding
  <2>12. QED
    BY <2>1, <2>2, <2>3, <2>4, <2>5, <2>6, <2>7, <2>8, <2>9, <2>10, <2>11 DEF Next
<1>3. CourierInv /\ PostsCounted => PostsAccounted
  BY HeldIsCardinality DEF PostsCounted, PostsAccounted
<1>4. QED
  BY <1>1, <1>2, <1>3, CourierSafe, PTL DEF Spec

-----------------------------------------------------------------------------
\* Steps that change no status and no count of attempts are invisible.
LEMMA Invisible ==
    ASSUME \A j \in Jobs : jobs'[j].status = jobs[j].status /\ jobs'[j].attempts = jobs[j].attempts
    PROVE  UNCHANGED Lifecycle!vars
BY DEF Lifecycle!vars

\* A recording is a try of the abstract job, or a replay that nobody sees.
LEMMA RecordIsTry ==
    ASSUME CourierInv, NEW c \in Couriers, Record(c)
    PROVE  Lifecycle!Next \/ UNCHANGED Lifecycle!vars
<1> DEFINE w == work[c]
           j == w.job
           status == [k \in Jobs |-> jobs[k].status]
           tries == [k \in Jobs |-> jobs[k].attempts]
           statusAfter == [k \in Jobs |-> jobs'[k].status]
           triesAfter == [k \in Jobs |-> jobs'[k].attempts]
<1>1. CASE AlreadyRecorded(w)
  <2>1. jobs' = jobs
    BY <1>1 DEF Record
  <2>2. QED
    BY <2>1, Invisible
<1>2. CASE ~AlreadyRecorded(w)
  <2>1. w.pc = "recording" /\ jobs' = [jobs EXCEPT ![j] = RowAfter(w)] /\ TypeOK
    BY <1>2 DEF Record, CourierInv
  <2>2. j \in Jobs /\ jobs[j].status = "pending" /\ jobs[j].attempts = w.attempts
    BY <1>2, <2>1, RecordingIsATry
  <2>3. /\ w.attempts \in Nat /\ w.attempts < MaxAttempts /\ MaxAttempts \in Nat
        /\ w.outcome \in {"Delivered", "Retry", "Terminal", "OutcomeUnknown"}
    BY <2>1, <2>2, JobFields, WorkFields, BoundsAssumption DEF CourierInv, RowsSound
  <2>4. /\ StatusAfter(w) \in {"pending", "delivered", "failed_terminal",
                               "delivery_outcome_unknown"}
        /\ StatusAfter(w) = "pending" => w.attempts + 1 < MaxAttempts
    BY <2>3 DEF StatusAfter, Exhausted
  <2>5. /\ jobs'[j].status = StatusAfter(w) /\ jobs'[j].attempts = w.attempts + 1
        /\ \A k \in Jobs : k # j => jobs'[k] = jobs[k]
    BY <2>1, <2>2 DEF TypeOK, RowAfter
  <2>6. PICK i \in Jobs : i = j
    BY <2>2
  <2> HIDE DEF w, j
  <2>7. /\ statusAfter = [status EXCEPT ![i] = StatusAfter(w)]
        /\ triesAfter = [tries EXCEPT ![i] = @ + 1]
        /\ status[i] = "pending" /\ tries[i] = w.attempts
    BY <2>2, <2>5, <2>6
  <2>8. Lifecycle!Try(i)
    BY <2>3, <2>4, <2>7 DEF Lifecycle!Try
  <2>9. QED
    BY <2>8 DEF Lifecycle!Next
<1>3. QED
  BY <1>1, <1>2

\* The outbox implements JobLifecycle: an enqueue authorizes a job, a recording
\* that applies is a try, an operator's retry revives; claims, leases, provider
\* calls, late recordings and crashes are invisible.
THEOREM LifecycleRefinement == Spec => LifecycleRefined
<1>1. Init => Lifecycle!Init
  BY DEF Init, Lifecycle!Init
<1>2. CourierInv /\ [Next]_vars => [Lifecycle!Next]_(Lifecycle!vars)
  <2> SUFFICES ASSUME CourierInv, [Next]_vars
               PROVE  Lifecycle!Next \/ UNCHANGED Lifecycle!vars
    OBVIOUS
  <2> DEFINE status == [k \in Jobs |-> jobs[k].status]
             tries == [k \in Jobs |-> jobs[k].attempts]
             statusAfter == [k \in Jobs |-> jobs'[k].status]
             triesAfter == [k \in Jobs |-> jobs'[k].attempts]
  <2> TypeOK
    BY DEF CourierInv
  <2>1. ASSUME jobs' = jobs PROVE UNCHANGED Lifecycle!vars
    BY <2>1, Invisible
  <2>2. CASE PumpClaim
    <3>1. PICK n \in 1..ClaimBatch : \E at \in [1..n -> DOMAIN dueQueue] :
             jobs' = [j \in Jobs |-> IF \E i \in 1..n : dueQueue[at[i]] = j
                                       THEN [jobs[j] EXCEPT !.leased = TRUE]
                                       ELSE jobs[j]]
      BY <2>2 DEF PumpClaim
    <3>2. \A j \in Jobs : /\ jobs'[j].status = jobs[j].status
                          /\ jobs'[j].attempts = jobs[j].attempts
      BY <3>1 DEF TypeOK
    <3>3. QED
      BY <3>2, Invisible
  <2>3. ASSUME NEW c \in Couriers, Record(c)
        PROVE  Lifecycle!Next \/ UNCHANGED Lifecycle!vars
    BY <2>3, RecordIsTry
  <2>4. ASSUME NEW j \in LaunchJobs, LaunchClaim(j)
        PROVE  UNCHANGED Lifecycle!vars
    <3>1. jobs' = jobs \/ jobs' = [jobs EXCEPT ![j].leased = TRUE]
      BY <2>4 DEF LaunchClaim
    <3>2. \A k \in Jobs : /\ jobs'[k].status = jobs[k].status
                          /\ jobs'[k].attempts = jobs[k].attempts
      BY <3>1, CourierNames, LeaseOnly
    <3>3. QED
      BY <3>2, Invisible
  <2>5. ASSUME NEW j \in Jobs, Enqueue(j)
        PROVE  Lifecycle!Next
    <3>1. /\ jobs[j].status = "absent" /\ jobs'[j].status = "pending"
          /\ jobs'[j].attempts = jobs[j].attempts
          /\ \A k \in Jobs : k # j => jobs'[k] = jobs[k]
      BY <2>5 DEF Enqueue, TypeOK
    <3>2. /\ statusAfter = [status EXCEPT ![j] = "pending"] /\ triesAfter = tries
          /\ status[j] = "absent"
      BY <3>1
    <3>3. Lifecycle!Authorize(j)
      BY <3>2 DEF Lifecycle!Authorize
    <3>4. QED
      BY <3>3 DEF Lifecycle!Next
  <2>6. ASSUME NEW j \in Jobs, RetryTerminal(j)
        PROVE  Lifecycle!Next
    <3>1. /\ jobs[j].status = "failed_terminal" /\ jobs'[j].status = "pending"
          /\ jobs'[j].attempts = 0
          /\ \A k \in Jobs : k # j => jobs'[k] = jobs[k]
      BY <2>6 DEF RetryTerminal, Revivable, TypeOK
    <3>2. /\ statusAfter = [status EXCEPT ![j] = "pending"]
          /\ triesAfter = [tries EXCEPT ![j] = 0] /\ status[j] = "failed_terminal"
      BY <3>1
    <3>3. Lifecycle!Revive(j)
      BY <3>2 DEF Lifecycle!Revive
    <3>4. QED
      BY <3>3 DEF Lifecycle!Next
  <2>7. ASSUME NEW j \in Jobs, LeaseExpires(j)
        PROVE  UNCHANGED Lifecycle!vars
    <3>1. jobs' = [jobs EXCEPT ![j].leased = FALSE]
      BY <2>7 DEF LeaseExpires
    <3>2. \A k \in Jobs : /\ jobs'[k].status = jobs[k].status
                          /\ jobs'[k].attempts = jobs[k].attempts
      BY <3>1, LeaseOnly
    <3>3. QED
      BY <3>2, Invisible
  <2>8. CASE \/ UNCHANGED vars \/ PumpSend \/ Crash
             \/ \E c \in Couriers : Answer(c) \/ ReadCycle(c) \/ StoreFails(c)
             \/ \E j \in Jobs : ComesDue(j)
    <3>1. jobs' = jobs
      BY <2>8 DEF vars, PumpSend, Crash, Answer, ReadCycle, StoreFails, ComesDue
    <3>2. QED
      BY <2>1, <3>1
  <2>9. QED
    BY <2>2, <2>3, <2>4, <2>5, <2>6, <2>7, <2>8 DEF Next
<1>3. QED
  BY <1>1, <1>2, CourierSafe, PTL DEF Spec, LifecycleRefined, Lifecycle!Spec

-----------------------------------------------------------------------------
(***************************************************************************)
(* The second part is about AccountingSync, whose grant the outbox courier *)
(* shares with the sync thread: its invariants hold for any companies,     *)
(* entities, records, page size and budget, and any number of cycles,      *)
(* grants and faults.                                                      *)
(***************************************************************************)

\* What AccountingSync assumes of its constants.
SyncConstants ==
    /\ PageSize \in Nat \ {0} /\ RetryAfter \in Nat \ {0} /\ Scopes \subseteq Scope
    /\ Walks \in Seq(WalkNames) /\ Groups \in Seq({Groups[i] : i \in DOMAIN Groups})
    /\ \A e \in WalkNames : Records[e] \subseteq Nat /\ IsFiniteSet(Records[e])
    /\ Entered \subseteq Nat \ {0} /\ \E n \in Entered \cup {0} : \A r \in Entered : r <= n
    /\ Complete \subseteq Periods /\ "none" \notin Realms
    /\ WalkNames \cap {Groups[i].cursor : i \in DOMAIN Groups} = {}

\* The places of a cycle.
LEMMA PlacesTyped ==
    ASSUME SyncConstants
    PROVE  /\ Len(Walks) \in Nat /\ Len(Groups) \in Nat
           /\ \A i \in 1..Len(Walks) : Walks[i] \in WalkNames
           /\ \A i \in 1..Len(Groups) :
                 Groups[i].cursor \in Entities /\ Groups[i].periods \subseteq Periods
           /\ WalkNames \subseteq Entities
<1>1. Walks \in Seq(WalkNames) /\ Groups \in Seq({Groups[i] : i \in DOMAIN Groups})
  BY DEF SyncConstants
<1>2. Len(Walks) \in Nat /\ Len(Groups) \in Nat /\ DOMAIN Walks = 1..Len(Walks) /\ DOMAIN Groups = 1..Len(Groups)
  BY <1>1
<1>3. \A i \in DOMAIN Groups : Groups[i].periods \subseteq Periods
  BY DEF Periods
<1>4. QED
  BY <1>2, <1>3 DEF WalkNames, Entities

\* The bounds of a behaviour are numbers.
LEMMA BoundsTyped ==
    ASSUME SyncConstants, scope \in Scopes
    PROVE  /\ scope.budget \in Nat \ {0} /\ scope.cycles \in Nat /\ scope.grants \in Nat
           /\ scope.updates \in Nat /\ scope.faults \in Nat
  BY DEF SyncConstants, Scope

\* The counters stay within the bounds of the scope.
LEMMA CountsFacts ==
    ASSUME SyncConstants, CountsTyped
    PROVE  /\ scope \in Scopes /\ issued \in Nat /\ updates \in Nat /\ clock \in Nat /\ failures \in Nat
           /\ scope.budget \in Nat \ {0} /\ issued <= scope.grants /\ updates <= scope.updates
           /\ clock <= scope.cycles
  BY BoundsTyped DEF CountsTyped

\* The time of the last entry is well defined.
LEMMA StartTyped ==
    ASSUME SyncConstants
    PROVE  Start \in Nat /\ \A r \in Entered : r <= Start
<1>1. \E n \in Entered \cup {0} : \A r \in Entered : r <= n
  BY DEF SyncConstants
<1>2. Start \in Entered \cup {0} /\ \A r \in Entered : r <= Start
  BY <1>1, Zenon DEF Start
<1>3. QED
  BY <1>2 DEF SyncConstants

\* A wider interval.
LEMMA IntervalGrows ==
    ASSUME NEW b \in Nat, NEW c \in Nat, NEW d \in Nat, c <= d
    PROVE  0..(b + c) \subseteq 0..(b + d)
  OBVIOUS

\* What a thread or a table holds stays well typed as grants are issued, the books
\* change and time goes on.
Later ==
    /\ CountsTyped /\ CountsTyped' /\ scope' = scope
    /\ issued <= issued' /\ updates <= updates' /\ clock <= clock'

\* Every set of values grows with the counters.
LEMMA TypesGrow ==
    ASSUME SyncConstants, Later
    PROVE  /\ Token \subseteq Token' /\ Times \subseteq Times' /\ Cursor \subseteq Cursor'
           /\ Refreshing \subseteq Refreshing' /\ Moving \subseteq Moving' /\ Asking \subseteq Asking'
           /\ Writing \subseteq Writing' /\ Reporting \subseteq Reporting'
<1>1. /\ issued \in Nat /\ updates \in Nat /\ clock \in Nat
      /\ issued' \in Nat /\ updates' \in Nat /\ clock' \in Nat /\ Spent' = Spent
  <2>1. issued \in Nat /\ updates \in Nat /\ clock \in Nat
    BY CountsFacts DEF Later
  <2>2. issued' \in Nat /\ updates' \in Nat /\ clock' \in Nat
    BY <2>1, BoundsTyped DEF Later, CountsTyped
  <2>3. QED
    BY <2>1, <2>2 DEF Later, Spent
<1>2. Token \subseteq Token' /\ Times \subseteq Times' /\ 1..clock \subseteq 1..clock'
  <2>1. Start \in Nat /\ Start' = Start
    BY StartTyped DEF Start
  <2>2. 1..issued \subseteq 1..issued' /\ 1..clock \subseteq 1..clock'
    BY <1>1 DEF Later
  <2>3. 0..(Start + updates) \subseteq 0..(Start + updates')
    <3>1. updates \in Nat /\ updates' \in Nat /\ updates <= updates'
      BY <1>1 DEF Later
    <3>2. QED
      BY <2>1, <3>1, IntervalGrows
  <2>4. QED
    BY <2>1, <2>2, <2>3 DEF Token, Times
<1>3. Cursor \subseteq Cursor'
  BY <1>1, <1>2 DEF SyncConstants, Later, Cursor
<1>4. Refreshing \subseteq Refreshing' /\ Moving \subseteq Moving'
  BY <1>1, <1>2 DEF Refreshing, Moving
<1>5. Asking \subseteq Asking' /\ Reporting \subseteq Reporting'
  BY <1>1, <1>2, <1>3 DEF Asking, Reporting
<1>6. Writing \subseteq Writing'
  BY <1>1, <1>2, <1>3 DEF Writing
<1>7. QED
  BY <1>2, <1>3, <1>4, <1>5, <1>6

\* So does a call.
LEMMA CallGrows ==
    ASSUME SyncConstants, Later, NEW t, NEW c, CallTyped(t, c)
    PROVE  CallTyped(t, c)'
  BY TypesGrow DEF CallTyped, Entry, Idle

\* A thread that goes to a well-typed place leaves all calls well typed.
LEMMA CallsGrow ==
    ASSUME SyncConstants, Later, CallsTyped, NEW t \in Threads, NEW c, Goto(t, c), CallTyped(t, c)'
    PROVE  CallsTyped' /\ calls' = [calls EXCEPT ![t] = c]
<1>1. DOMAIN calls' = Threads /\ calls'[t] = c /\ \A u \in Threads : u # t => calls'[u] = calls[u]
  BY DEF Goto, CallsTyped
<1>2. ASSUME NEW u \in Threads PROVE CallTyped(u, calls[u])'
  <2>1. \A d : CallTyped(u, d) => CallTyped(u, d)'
    BY CallGrows
  <2>2. CASE u = t
    BY <1>1, <2>2 DEF CallTyped, Entry
  <2>3. CASE u # t
    BY <1>1, <2>1, <2>3 DEF CallsTyped, CallTyped, Entry
  <2>4. QED
    BY <2>2, <2>3
<1>3. QED
  BY <1>1, <1>2 DEF CallsTyped, Goto

-----------------------------------------------------------------------------
(* Grants.                                                                  *)

\* A step of one thread changes nobody else's call.
LEMMA OneMoves ==
    ASSUME CallsTyped, NEW t \in Threads, NEW c, Goto(t, c)
    PROVE  DOMAIN calls' = Threads /\ calls'[t] = c /\ \A u \in Threads : u # t => calls'[u] = calls[u]
  BY DEF Goto, CallsTyped

\* A step that takes the thread's token along and leaves the grants alone.
LEMMA MoveKeeps ==
    ASSUME SyncConstants, GrantInv, NEW t \in Threads, NEW c, Goto(t, c), CallTyped(t, c),
           UNCHANGED <<books, updates, live, issued, cred, latch, clock, refused, scope>>,
           CountsTyped', CacheTyped',
           amiss' = amiss \/ amiss' = amiss \cup {"recurred"},
           c # Idle => calls[t] # Idle /\ c.token = calls[t].token /\ c.realm = calls[t].realm,
           c.pc \notin {"persist", "mark"},
           t = "sync" /\ c # Idle /\ c.at \in 1..Len(Walks) =>
              \A e \in Entities : cursors'[e].until <= c.now,
           t = "courier" => cursors' = cursors
    PROVE  GrantInv'
<1> USE DEF GrantInv, SyncTypeOK
<1>1. Later
  BY CountsFacts DEF Later
<1>2. CallsTyped'
  BY <1>1, CallGrows, CallsGrow
<1>3. BooksTyped' /\ GrantTyped'
  BY DEF BooksTyped, GrantTyped, Times, Token
<1>4. RefusedIsBlocked' /\ FlagMeansDead'
  BY DEF RefusedIsBlocked, RejectedIsNotRetried, FlagMeansDead
<1>5. calls'[t] = c /\ \A u \in Threads : u # t => calls'[u] = calls[u]
  BY OneMoves
<1>6. TokensSound'
  BY <1>5 DEF TokensSound
<1>7. SameFate'
  BY <1>5 DEF SameFate
<1>8. WalksUnthrottled'
  BY <1>5 DEF WalksUnthrottled, Threads, Sync
<1>9. QED
  BY <1>1, <1>2, <1>3, <1>4, <1>6, <1>7, <1>8 DEF Later

\* What a call at each point holds.
LEMMA RefreshCall ==
    ASSUME NEW t, NEW c, CallTyped(t, c), c.pc \in {"refresh", "persist", "mark", "failed"}
    PROVE  c \in Refreshing /\ (t = "courier" => c.at = 0)
  BY DEF CallTyped, Idle, Refreshing, Moving, Asking, Writing, Reporting

\* A call at each of its places.
LEMMA NextCall ==
    ASSUME NEW t, NEW c, CallTyped(t, c), c.pc = "next"
    PROVE  c \in Moving /\ t # "courier"
  BY DEF CallTyped, Idle, Refreshing, Moving, Asking, Writing, Reporting

\* A page or a report that was asked for.
LEMMA AskedCall ==
    ASSUME NEW t, NEW c, CallTyped(t, c), c.pc = "asked"
    PROVE  c \in Asking /\ t # "courier"
  BY DEF CallTyped, Idle, Refreshing, Moving, Asking, Writing, Reporting

\* A page that is being written.
LEMMA RowsCall ==
    ASSUME NEW t, NEW c, CallTyped(t, c), c.pc = "rows"
    PROVE  c \in Writing /\ t # "courier" /\ c.page \subseteq Entry(Walks[c.at])
  BY DEF CallTyped, Idle, Refreshing, Moving, Asking, Writing, Reporting

\* Reports that are being written.
LEMMA ReportsCall ==
    ASSUME NEW t, NEW c, CallTyped(t, c), c.pc = "reports"
    PROVE  c \in Reporting /\ t # "courier" /\ c.todo \subseteq Groups[c.at - Len(Walks)].periods
  BY DEF CallTyped, Idle, Refreshing, Moving, Asking, Writing, Reporting

\* The sync thread is at one of them.
LEMMA SyncTyped ==
    ASSUME GrantInv
    PROVE  "sync" \in Threads /\ CallTyped("sync", Sync)
  BY DEF GrantInv, SyncTypeOK, CallsTyped, Threads, Sync

\* A fault is one more within the bound.
LEMMA FaultCounted ==
    ASSUME SyncConstants, CountsTyped, Faulty, UNCHANGED <<issued, updates, clock, amiss, scope>>
    PROVE  CountsTyped'
<1>1. failures \in Nat /\ scope.faults \in Nat
  BY CountsFacts, BoundsTyped DEF CountsTyped
<1>2. failures' \in 0..scope.faults
  BY <1>1 DEF Faulty
<1>3. QED
  BY <1>2 DEF CountsTyped

\* put_cursor writes a well-typed cursor or nothing.
LEMMA PutTyped ==
    ASSUME CacheTyped, NEW e \in Entities, NEW c \in Cursor, PutCursor(e, c),
           UNCHANGED <<rows, reports, updates, clock>>
    PROVE  /\ CacheTyped'
           /\ cursors'[e] = c \/ cursors'[e] = cursors[e]
           /\ \A d \in Entities : d # e => cursors'[d] = cursors[d]
<1>1. Cursor' = Cursor
  BY DEF Cursor, Times
<1>2. cursors' = cursors \/ cursors' = [cursors EXCEPT ![e] = c]
  BY DEF PutCursor
<1>3. QED
  BY <1>1, <1>2 DEF CacheTyped

\* The cache stays well typed when it does not change.
LEMMA StillTyped ==
    ASSUME CacheTyped, UNCHANGED <<rows, reports, cursors, updates, clock>>
    PROVE  CacheTyped'
  BY DEF CacheTyped, Cursor, Times

\* On to the given place: a well-typed call.
LEMMA NextTyped ==
    ASSUME NEW c, c.realm \in Realms, c.token \in Token, c.now \in 1..clock, c.budget \in Spent,
           c.recovered \in BOOLEAN, NEW at \in 1..(Len(Walks) + Len(Groups) + 1)
    PROVE  /\ CallTyped("sync", NextOf(c, at)) /\ NextOf(c, at) # Idle
           /\ NextOf(c, at).pc = "next" /\ NextOf(c, at).token = c.token
           /\ NextOf(c, at).realm = c.realm /\ NextOf(c, at).now = c.now /\ NextOf(c, at).at = at
  BY DEF NextOf, CallTyped, Moving, Idle

\* An idle thread is well typed anywhere.
LEMMA IdleTyped ==
    ASSUME NEW t PROVE CallTyped(t, Idle) /\ Idle.pc = "idle"
  BY DEF CallTyped, Idle

\* A page is asked for, or the entity passed over.
LEMMA AskKeeps ==
    ASSUME SyncConstants, GrantInv, Ask, scope' = scope
    PROVE  GrantInv'
<1>1. PICK s : s = Sync
  OBVIOUS
<1>2. "sync" \in Threads /\ s \in Moving /\ calls["sync"] = s /\ s # Idle
  BY <1>1, SyncTyped, NextCall DEF Ask, Sync, Moving, Idle
<1>3. s.at \in 1..Len(Walks) /\ Walks[s.at] \in WalkNames /\ Walks[s.at] \in Entities
  BY <1>1, <1>2, PlacesTyped DEF Ask, Moving
<1>4. PICK k : k = cursors[Walks[s.at]]
  OBVIOUS
<1>5. k \in Cursor
  BY <1>3, <1>4 DEF GrantInv, SyncTypeOK, CacheTyped
<1>6. \A e \in Entities : cursors[e].until <= s.now
  BY <1>1, <1>2, <1>3 DEF GrantInv, WalksUnthrottled
<1>7. CountsTyped' /\ CacheTyped' /\ cursors' = cursors
  BY StillTyped DEF Ask, provider, cache, GrantInv, SyncTypeOK, CountsTyped
<1>8. CASE Goto("sync", NextOf(s, s.at + 1))
  <2>1. s.at + 1 \in 1..(Len(Walks) + Len(Groups) + 1)
    BY <1>3, PlacesTyped
  <2>2. /\ CallTyped("sync", NextOf(s, s.at + 1)) /\ NextOf(s, s.at + 1).pc = "next"
        /\ NextOf(s, s.at + 1).token = s.token /\ NextOf(s, s.at + 1).realm = s.realm
        /\ NextOf(s, s.at + 1).now = s.now
    BY <1>2, <2>1, NextTyped DEF Moving
  <2>3. QED
    BY <1>2, <1>6, <1>7, <1>8, <2>2, MoveKeeps DEF Ask, provider
<1>9. CASE Goto("sync", AskedOf(s, k))
  <2>1. s.budget - 1 \in Spent
    <3>1. s.budget \in 0..scope.budget /\ s.budget > 0 /\ scope.budget \in Nat
      BY <1>1, <1>2, CountsFacts DEF Ask, Moving, Spent, GrantInv, SyncTypeOK
    <3>2. QED
      BY <3>1 DEF Spent
  <2>2. AskedOf(s, k) \in Asking
    BY <1>2, <1>3, <1>5, <2>1 DEF AskedOf, Asking, Moving, WalkSince, Cursor
  <2>3. CallTyped("sync", AskedOf(s, k))
    BY <2>2 DEF CallTyped, Asking
  <2>4. /\ AskedOf(s, k).pc = "asked" /\ AskedOf(s, k).token = s.token
        /\ AskedOf(s, k).realm = s.realm /\ AskedOf(s, k).now = s.now
    BY DEF AskedOf
  <2>5. QED
    BY <1>2, <1>6, <1>7, <1>9, <2>3, <2>4, MoveKeeps DEF Ask, provider
<1>10. QED
  BY <1>1, <1>4, <1>8, <1>9 DEF Ask

\* A set of numbers with an upper bound has a greatest element.
LEMMA GreatestExists ==
    ASSUME NEW n \in Nat, NEW T \in SUBSET (0..n), T # {}
    PROVE  \E a \in T : \A b \in T : b <= a
<1> DEFINE D == {n - b : b \in T}
<1>1. D \in SUBSET Nat /\ D # {}
  <2>1. \A b \in T : n - b \in Nat
    OBVIOUS
  <2>2. QED
    BY <2>1
<1>2. PICK d \in D : \A e \in D : ~(<<e, d>> \in OpToRel(<, Nat))
  BY <1>1, NatLessThanWellFounded, WFMin
<1>3. PICK a \in T : d = n - a
  OBVIOUS
<1>4. ASSUME NEW b \in T PROVE b <= a
  <2>1. n - b \in D /\ n - b \in Nat /\ n - a \in Nat
    BY <1>3
  <2>2. ~(n - b < n - a)
    BY <1>2, <1>3, <2>1 DEF OpToRel
  <2>3. QED
    BY <2>1, <2>2
<1>5. QED
  BY <1>4

\* What a page holds, and the latest time of its walk.
LEMMA PageFacts ==
    ASSUME SyncConstants, SyncTypeOK, NEW s \in Asking
    PROVE  /\ PageOf(s) \subseteq Records[Walks[s.at]]
           /\ \A r \in PageOf(s) : BookOf(s)[r] \in [content : Contents, at : Times]
           /\ LatestOf(s) \in Times /\ s.cursor.max <= LatestOf(s)
           /\ \A r \in PageOf(s) : BookOf(s)[r].at <= LatestOf(s)
           /\ LatestOf(s) = s.cursor.max \/ \E r \in PageOf(s) : LatestOf(s) = BookOf(s)[r].at
<1>1. s.at \in 1..Len(Walks) /\ Walks[s.at] \in WalkNames /\ s.realm \in Realms /\ s.cursor.max \in Times
  BY PlacesTyped DEF Asking, Cursor
<1>2. PICK e : e = Walks[s.at]
  OBVIOUS
<1>3. PICK book : book = BookOf(s)
  OBVIOUS
<1>4. book \in [Records[e] -> {NoRow} \cup [content : Contents, at : Times]]
  BY <1>1, <1>2, <1>3 DEF SyncTypeOK, BooksTyped, BookOf
<1>5. PICK page : page = PageOf(s)
  OBVIOUS
<1>6. page \subseteq Records[e] /\ \A r \in page : book[r] # NoRow
  BY <1>3, <1>4, <1>5 DEF PageOf, Page, Matching
<1>7. \A r \in page : book[r] \in [content : Contents, at : Times]
  BY <1>4, <1>6
<1> DEFINE times == {book[r].at : r \in page} \cup {s.cursor.max}
<1>8. times \subseteq Times /\ times # {}
  BY <1>1, <1>7
<1>9. Start + updates \in Nat
  BY StartTyped, CountsFacts DEF SyncTypeOK
<1>10. \E a \in times : \A b \in times : b <= a
  BY <1>8, <1>9, GreatestExists DEF Times
<1>11. LatestOf(s) = CHOOSE a \in times : \A b \in times : b <= a
  BY <1>3, <1>5 DEF LatestOf
<1> HIDE DEF times
<1>12. LatestOf(s) \in times /\ \A b \in times : b <= LatestOf(s)
  BY <1>10, <1>11, Zenon
<1>13. QED
  BY <1>2, <1>3, <1>5, <1>6, <1>7, <1>8, <1>12 DEF times

\* A page that arrives is kept in the call until its rows are written.
LEMMA PageKeeps ==
    ASSUME SyncConstants, GrantInv, PageArrives, scope' = scope
    PROVE  GrantInv'
<1>1. PICK s : s = Sync
  OBVIOUS
<1>2. "sync" \in Threads /\ s \in Asking /\ calls["sync"] = s /\ s # Idle
  <2>1. Sync.pc = "asked"
    BY DEF PageArrives
  <2>2. QED
    BY <1>1, <2>1, SyncTyped, AskedCall DEF Sync, Asking, Idle
<1>3. s.at \in 1..Len(Walks) /\ Walks[s.at] \in WalkNames
  BY <1>2, PlacesTyped DEF Asking
<1> DEFINE e == Walks[s.at]
           c == RowsOf(s, EntriesOf(s), Cardinality(PageOf(s)) = PageSize, LatestOf(s))
<1>4. PageOf(s) \subseteq Records[e] /\ \A r \in PageOf(s) : BookOf(s)[r] \in [content : Contents, at : Times]
  BY <1>2, PageFacts DEF GrantInv
<1>6. LatestOf(s) \in Times
  BY <1>2, PageFacts DEF GrantInv
<1>7. EntriesOf(s) \subseteq Entry(e)
  BY <1>4 DEF EntriesOf, Entry
<1>8. c \in Writing
  <2>1. EntriesOf(s) \in SUBSET UNION {Entry(f) : f \in WalkNames}
    BY <1>3, <1>7
  <2>2. QED
    BY <1>2, <1>6, <2>1 DEF RowsOf, Writing, Asking
<1>9. CallTyped("sync", c)
  BY <1>7, <1>8 DEF CallTyped, RowsOf, Writing
<1>10. c.pc = "rows" /\ c.token = s.token /\ c.realm = s.realm /\ c.now = s.now /\ c.at = s.at
  BY DEF RowsOf
<1>11. \A f \in Entities : cursors[f].until <= s.now
  BY <1>1, <1>2, <1>3 DEF GrantInv, WalksUnthrottled
<1>12. CountsTyped' /\ CacheTyped' /\ cursors' = cursors
  BY StillTyped DEF PageArrives, provider, cache, GrantInv, SyncTypeOK, CountsTyped
<1>13. Goto("sync", c)
  BY <1>1 DEF PageArrives
<1> HIDE DEF c
<1>14. QED
  BY <1>2, <1>9, <1>10, <1>11, <1>12, <1>13, MoveKeeps DEF PageArrives, provider

\* A cycle or an attempt ends.
LEMMA StopKeeps ==
    ASSUME SyncConstants, GrantInv, NEW t \in Threads, Goto(t, Idle),
           UNCHANGED <<books, updates, live, issued, cred, latch, clock, refused, scope, amiss>>,
           CountsTyped', CacheTyped', t = "courier" => cursors' = cursors
    PROVE  GrantInv'
  BY IdleTyped, MoveKeeps

\* A cursor that records an error, or a deadline, is well typed.
LEMMA ErrTyped ==
    ASSUME NEW c \in Cursor, NEW now \in 1..clock, clock \in Nat
    PROVE  [c EXCEPT !.err = now] \in Cursor /\ [c EXCEPT !.err = now].until = c.until
  BY DEF Cursor

\* A cursor that a 429 has stopped.
LEMMA LimitTyped ==
    ASSUME NEW c \in Cursor, NEW now \in 1..clock, clock \in Nat, RetryAfter \in Nat
    PROVE  [c EXCEPT !.until = now + RetryAfter, !.err = now] \in Cursor
<1>1. now + RetryAfter \in 0..(clock + RetryAfter) /\ now \in 0..clock
  OBVIOUS
<1>2. QED
  BY <1>1 DEF Cursor

\* A cycle that fails leaves its cursor well typed.
LEMMA FailedTyped ==
    ASSUME SyncConstants, GrantInv, NEW t \in Threads, FailedCycle(t),
           calls[t].now \in 1..clock, calls[t].at \in 0..Len(Walks), t = "courier" => calls[t].at = 0,
           UNCHANGED <<rows, reports, updates, clock>>
    PROVE  CacheTyped' /\ Goto(t, Idle) /\ (t = "courier" => cursors' = cursors)
<1>1. CASE calls[t].at = 0
  BY <1>1, StillTyped DEF FailedCycle, GrantInv, SyncTypeOK
<1>2. CASE calls[t].at # 0
  <2>1. calls[t].at \in 1..Len(Walks) /\ Walks[calls[t].at] \in Entities
    BY <1>2, PlacesTyped
  <2>2. [cursors[Walks[calls[t].at]] EXCEPT !.err = calls[t].now] \in Cursor
    BY <2>1, ErrTyped, CountsFacts DEF GrantInv, SyncTypeOK, CacheTyped
  <2>3. QED
    BY <1>2, <2>1, <2>2, PutTyped DEF FailedCycle, GrantInv, SyncTypeOK
<1>3. QED
  BY <1>1, <1>2

\* The refresh fails, or the thread gives up after a refusal or a write that failed.
LEMMA FailKeeps ==
    ASSUME SyncConstants, GrantInv, NEW t \in Threads, RefreshFails(t) \/ Fails(t), scope' = scope
    PROVE  GrantInv'
<1>1. CallTyped(t, calls[t]) /\ calls[t].pc \in {"refresh", "failed"}
  BY DEF GrantInv, SyncTypeOK, CallsTyped, RefreshFails, Fails
<1>2. calls[t] \in Refreshing /\ (t = "courier" => calls[t].at = 0)
  BY <1>1, RefreshCall
<1>3. CacheTyped' /\ Goto(t, Idle) /\ (t = "courier" => cursors' = cursors)
  BY <1>2, FailedTyped DEF RefreshFails, Fails, Refreshing, provider
<1>4. CountsTyped'
  BY FaultCounted DEF RefreshFails, Fails, provider, GrantInv, SyncTypeOK, CountsTyped
<1>5. QED
  BY <1>3, <1>4, StopKeeps DEF RefreshFails, Fails, provider

\* A write of the grant or of the flag fails.
LEMMA WriteFailKeeps ==
    ASSUME SyncConstants, GrantInv, NEW t \in Threads, WriteFails(t), scope' = scope
    PROVE  GrantInv'
<1>1. PICK d : d = calls[t]
  OBVIOUS
<1>2. CallTyped(t, d) /\ d.pc \in {"persist", "mark"}
  BY <1>1 DEF GrantInv, SyncTypeOK, CallsTyped, WriteFails
<1>3. d \in Refreshing /\ (t = "courier" => d.at = 0)
  BY <1>2, RefreshCall
<1>4. PICK c : c = [d EXCEPT !.pc = "failed"]
  OBVIOUS
<1>5. /\ c \in Refreshing /\ c.token = d.token /\ c.realm = d.realm /\ c.now = d.now /\ c.at = d.at
      /\ c.pc = "failed"
  BY <1>3, <1>4 DEF Refreshing
<1>6. CallTyped(t, c) /\ c # Idle /\ d # Idle
  BY <1>2, <1>3, <1>5 DEF CallTyped, Refreshing, Idle
<1>7. CountsTyped' /\ CacheTyped' /\ cursors' = cursors
  BY StillTyped, FaultCounted DEF WriteFails, provider, cache, GrantInv, SyncTypeOK, CountsTyped
<1>8. t = "sync" /\ c.at \in 1..Len(Walks) => \A e \in Entities : cursors[e].until <= c.now
  BY <1>1, <1>5, <1>6 DEF GrantInv, WalksUnthrottled, Sync
<1>9. QED
  BY <1>1, <1>4, <1>5, <1>6, <1>7, <1>8, MoveKeeps DEF WriteFails, provider

\* 429: the deadline is stamped and the cycle ends.
LEMMA LimitedKeeps ==
    ASSUME SyncConstants, GrantInv, Limited, scope' = scope
    PROVE  GrantInv'
<1>1. Sync \in Asking /\ "sync" \in Threads
  BY SyncTyped, AskedCall DEF Limited
<1>2. Walks[Sync.at] \in Entities /\ Sync.cursor \in Cursor /\ Sync.now \in 1..clock /\ clock \in Nat
  BY <1>1, PlacesTyped, CountsFacts DEF Asking, GrantInv, SyncTypeOK
<1>3. CacheTyped'
  BY <1>2, LimitTyped, PutTyped DEF Limited, SyncConstants, provider, GrantInv, SyncTypeOK
<1>4. CountsTyped'
  BY FaultCounted DEF Limited, provider, GrantInv, SyncTypeOK
<1>5. QED
  BY <1>1, <1>3, <1>4, StopKeeps DEF Limited, provider

\* A write of rows fails, or everything is done: the cycle ends.
LEMMA EndsKeep ==
    ASSUME SyncConstants, GrantInv, ApplyFails \/ CycleEnds, scope' = scope
    PROVE  GrantInv'
<1>1. CountsTyped'
  BY FaultCounted DEF ApplyFails, CycleEnds, provider, GrantInv, SyncTypeOK, CountsTyped
<1>2. CacheTyped'
  BY StillTyped DEF ApplyFails, CycleEnds, provider, cache, GrantInv, SyncTypeOK
<1>3. QED
  BY <1>1, <1>2, SyncTyped, StopKeeps DEF ApplyFails, CycleEnds, provider

\* 401: the credential is to be recovered, or the cycle ends.
LEMMA ExpiredKeeps ==
    ASSUME SyncConstants, GrantInv, Expired, scope' = scope
    PROVE  GrantInv'
<1>1. PICK s : s = Sync
  OBVIOUS
<1>2. "sync" \in Threads /\ s \in Asking /\ calls["sync"] = s /\ s # Idle
  BY <1>1, SyncTyped, AskedCall DEF Expired, Sync, Asking, Idle
<1>3. CountsTyped'
  BY FaultCounted DEF Expired, provider, GrantInv, SyncTypeOK, CountsTyped
<1>4. CASE FailedCycle("sync")
  <2>1. CacheTyped' /\ Goto("sync", Idle)
    BY <1>2, <1>4, FailedTyped DEF Asking, Expired, provider
  <2>2. QED
    BY <1>2, <1>3, <2>1, StopKeeps DEF Expired, provider
<1>5. CASE Goto("sync", Idle) /\ UNCHANGED <<cursors, applied>>
  <2>1. CacheTyped'
    BY <1>5, StillTyped DEF Expired, provider, GrantInv, SyncTypeOK
  <2>2. QED
    BY <1>2, <1>3, <1>5, <2>1, StopKeeps DEF Expired, provider
<1>6. ASSUME NEW c, c = [pc |-> "refresh", realm |-> s.realm, token |-> s.token, now |-> s.now,
                         budget |-> s.budget - 1, at |-> s.at],
             Goto("sync", c), s.budget > 0, UNCHANGED <<cursors, applied>>
      PROVE  GrantInv'
  <2>1. s.budget - 1 \in Spent /\ s.at \in 0..Len(Walks)
    <3>1. s.budget \in 0..scope.budget /\ scope.budget \in Nat /\ s.at \in 1..Len(Walks)
      BY <1>2, CountsFacts DEF Asking, Spent, GrantInv, SyncTypeOK
    <3>2. QED
      BY <1>6, <3>1 DEF Spent
  <2>2. c \in Refreshing /\ c # Idle
    BY <1>2, <1>6, <2>1 DEF Asking, Refreshing, Idle
  <2>3. CallTyped("sync", c)
    BY <1>6, <2>2 DEF CallTyped
  <2>4. CacheTyped'
    BY <1>6, StillTyped DEF Expired, provider, GrantInv, SyncTypeOK
  <2>5. s.at \in 1..Len(Walks) => \A e \in Entities : cursors[e].until <= s.now
    BY <1>1, <1>2 DEF GrantInv, WalksUnthrottled
  <2>6. QED
    BY <1>2, <1>3, <1>6, <2>2, <2>3, <2>4, <2>5, MoveKeeps DEF Expired, provider
<1>7. QED
  BY <1>1, <1>4, <1>5, <1>6 DEF Expired

\* Any other failure of a page.
LEMMA FetchFailKeeps ==
    ASSUME SyncConstants, GrantInv, FetchFails, scope' = scope
    PROVE  GrantInv'
<1>1. PICK s : s = Sync
  OBVIOUS
<1>2. "sync" \in Threads /\ s \in Asking /\ calls["sync"] = s /\ s # Idle
  BY <1>1, SyncTyped, AskedCall DEF FetchFails, Sync, Asking, Idle
<1>3. PICK e : e = Walks[s.at]
  OBVIOUS
<1>4. e \in Entities /\ cursors[e] \in Cursor /\ s.now \in 1..clock /\ clock \in Nat
  BY <1>2, <1>3, PlacesTyped, CountsFacts DEF Asking, GrantInv, SyncTypeOK, CacheTyped
<1>5. PICK k : k = [cursors[e] EXCEPT !.err = s.now]
  OBVIOUS
<1>6. k \in Cursor /\ k.until = cursors[e].until /\ PutCursor(e, k)
  BY <1>1, <1>3, <1>4, <1>5, ErrTyped DEF FetchFails
<1>7. CacheTyped' /\ \A d \in Entities : cursors'[d].until = cursors[d].until
  BY <1>4, <1>6, PutTyped DEF FetchFails, provider, GrantInv, SyncTypeOK
<1>8. CountsTyped'
  BY FaultCounted DEF FetchFails, provider, GrantInv, SyncTypeOK
<1>9. s.at \in 1..Len(Walks) /\ s.at + 1 \in 1..(Len(Walks) + Len(Groups) + 1)
  BY <1>2, PlacesTyped DEF Asking
<1>10. \A d \in Entities : cursors'[d].until <= s.now
  BY <1>1, <1>2, <1>7, <1>9 DEF GrantInv, WalksUnthrottled
<1>11. PICK c : c = NextOf(s, s.at + 1)
  OBVIOUS
<1>12. /\ CallTyped("sync", c) /\ c.pc = "next" /\ c.token = s.token /\ c.realm = s.realm
       /\ c.now = s.now /\ Goto("sync", c)
  BY <1>1, <1>2, <1>9, <1>11, NextTyped DEF Asking, FetchFails
<1>13. QED
  BY <1>2, <1>7, <1>8, <1>10, <1>12, MoveKeeps DEF FetchFails, provider

\* One row of a page is written, skipped or taken for a replay.
LEMMA UpsertKeeps ==
    ASSUME SyncConstants, GrantInv, Upsert, scope' = scope
    PROVE  GrantInv'
<1>1. PICK s : s = Sync
  OBVIOUS
<1>2. /\ "sync" \in Threads /\ s \in Writing /\ calls["sync"] = s /\ s # Idle
      /\ s.page \subseteq Entry(Walks[s.at])
  BY <1>1, SyncTyped, RowsCall DEF Upsert, Sync, Writing, Idle
<1>3. PICK e : e = Walks[s.at]
  OBVIOUS
<1>4. e \in WalkNames
  BY <1>2, <1>3, PlacesTyped DEF Writing
<1>5. PICK entry \in s.page :
         LET snap == Snapshot(s.realm, entry.content)
             key == <<"row", e, entry.rec, snap>>
             same == rows[e][entry.rec] = snap
         IN  /\ rows' = IF same \/ Replayed(key) THEN rows ELSE [rows EXCEPT ![e][entry.rec] = snap]
             /\ amiss' = IF ~same /\ Replayed(key) THEN amiss \cup {"recurred"} ELSE amiss
             /\ Goto("sync", [s EXCEPT !.page = @ \ {entry}])
             /\ UNCHANGED <<provider, cred, latch, reports, cursors, clock, refused, failures>>
  BY <1>1, <1>3 DEF Upsert
<1>6. PICK snap : snap = Snapshot(s.realm, entry.content)
  OBVIOUS
<1>7. entry.rec \in Records[e] /\ snap \in [realm : Realms, content : Contents]
  BY <1>2, <1>3, <1>5, <1>6 DEF Entry, Writing, Snapshot
<1>8. rows' = rows \/ rows' = [rows EXCEPT ![e][entry.rec] = snap]
  BY <1>5, <1>6
<1>9. CacheTyped'
  <2>1. cursors' \in [Entities -> Cursor'] /\ reports' = reports
    BY <1>5 DEF GrantInv, SyncTypeOK, CacheTyped, Cursor, Times, provider
  <2>2. CASE rows' = rows
    BY <2>1, <2>2 DEF GrantInv, SyncTypeOK, CacheTyped
  <2>3. CASE rows' = [rows EXCEPT ![e][entry.rec] = snap]
    <3>1. DOMAIN rows' = WalkNames /\ rows'[e] = [rows[e] EXCEPT ![entry.rec] = snap]
          /\ \A d \in WalkNames : d # e => rows'[d] = rows[d]
      BY <1>4, <2>3 DEF GrantInv, SyncTypeOK, CacheTyped
    <3>2. rows'[e] \in [Records[e] -> {NoRow} \cup [realm : Realms, content : Contents]]
      BY <1>4, <1>7, <3>1 DEF GrantInv, SyncTypeOK, CacheTyped
    <3>3. QED
      BY <2>1, <3>1, <3>2 DEF GrantInv, SyncTypeOK, CacheTyped
  <2>4. QED
    BY <1>8, <2>2, <2>3
<1>10. CountsTyped' /\ (amiss' = amiss \/ amiss' = amiss \cup {"recurred"})
  BY <1>5 DEF GrantInv, SyncTypeOK, CountsTyped, provider
<1>11. PICK c : c = [s EXCEPT !.page = @ \ {entry}]
  OBVIOUS
<1>12. /\ c \in Writing /\ c.pc = "rows" /\ c.token = s.token /\ c.realm = s.realm /\ c.now = s.now
       /\ c.at = s.at /\ c.page \subseteq s.page
  BY <1>2, <1>11 DEF Writing
<1>13. CallTyped("sync", c)
  BY <1>2, <1>12 DEF CallTyped
<1>14. s.at \in 1..Len(Walks) => \A d \in Entities : cursors[d].until <= s.now
  BY <1>1, <1>2 DEF GrantInv, WalksUnthrottled
<1>15. QED
  BY <1>2, <1>5, <1>9, <1>10, <1>11, <1>12, <1>13, <1>14, MoveKeeps DEF provider

\* A cursor that has been advanced is well typed and holds no deadline.
LEMMA AdvancedTyped ==
    ASSUME SyncConstants, NEW c \in Cursor, NEW since \in Times, NEW max \in Times, NEW full,
           clock \in Nat, Start + updates \in Nat
    PROVE  Advanced(c, since, max, full) \in Cursor /\ Advanced(c, since, max, full).until = 0
<1>1. /\ 0 \in 0..(clock + RetryAfter) /\ 0 \in 0..clock /\ 0 \in Times
      /\ c.pos + PageSize \in Nat \ {0} /\ c.pos + PageSize # 1
  BY DEF SyncConstants, Times, Cursor
<1>2. CASE full
  BY <1>1, <1>2 DEF Advanced, Cursor
<1>3. CASE ~full
  <2>1. PICK high : high = IF max = 0 THEN c.high ELSE max
    OBVIOUS
  <2>2. high \in Times
    BY <2>1 DEF Cursor
  <2>3. Advanced(c, since, max, full) =
           [high |-> high, since |-> 0, max |-> 0, pos |-> 1, done |-> TRUE, until |-> 0, err |-> 0]
    BY <1>3, <2>1 DEF Advanced
  <2>4. QED
    BY <1>1, <2>2, <2>3 DEF Cursor
<1>4. QED
  BY <1>2, <1>3

\* The rows are in and the cursor is advanced.
LEMMA AdvanceKeeps ==
    ASSUME SyncConstants, GrantInv, Advance, scope' = scope
    PROVE  GrantInv'
<1>1. PICK s : s = Sync
  OBVIOUS
<1>2. "sync" \in Threads /\ s \in Writing /\ calls["sync"] = s /\ s # Idle
  BY <1>1, SyncTyped, RowsCall DEF Advance, Sync, Writing, Idle
<1>3. PICK e : e = Walks[s.at]
  OBVIOUS
<1>4. e \in Entities /\ s.now \in 1..clock /\ clock \in Nat /\ Start + updates \in Nat
  BY <1>2, <1>3, PlacesTyped, CountsFacts, StartTyped DEF Writing, GrantInv, SyncTypeOK
<1>5. PICK k : k = Advanced(s.cursor, s.since, s.max, s.full)
  OBVIOUS
<1>6. k \in Cursor /\ k.until = 0 /\ PutCursor(e, k)
  BY <1>1, <1>2, <1>3, <1>4, <1>5, AdvancedTyped DEF Advance, Writing
<1>7. s.at \in 1..Len(Walks) /\ s.at + 1 \in 1..(Len(Walks) + Len(Groups) + 1)
      /\ s.at \in 1..(Len(Walks) + Len(Groups) + 1)
  BY <1>2, PlacesTyped DEF Writing
<1>8. CacheTyped' /\ \A d \in Entities : cursors'[d].until <= s.now
  <2>1. \A d \in Entities : cursors[d].until <= s.now
    BY <1>1, <1>2, <1>7 DEF GrantInv, WalksUnthrottled
  <2>2. QED
    BY <1>4, <1>6, <2>1, PutTyped DEF Advance, provider, GrantInv, SyncTypeOK
<1>9. CountsTyped'
  BY DEF Advance, provider, GrantInv, SyncTypeOK, CountsTyped
<1>10. PICK c : c = NextOf(s, IF s.full THEN s.at ELSE s.at + 1)
  OBVIOUS
<1>11. /\ CallTyped("sync", c) /\ c.pc = "next" /\ c.token = s.token /\ c.realm = s.realm
       /\ c.now = s.now /\ Goto("sync", c)
  <2>1. PICK at : at = IF s.full THEN s.at ELSE s.at + 1
    OBVIOUS
  <2>2. at \in 1..(Len(Walks) + Len(Groups) + 1) /\ c = NextOf(s, at)
    BY <1>7, <1>10, <2>1
  <2>3. QED
    BY <1>1, <1>2, <1>10, <2>2, NextTyped DEF Writing, Advance
<1>12. QED
  BY <1>2, <1>8, <1>9, <1>11, MoveKeeps DEF Advance, provider

\* A group of reports begins, or is passed over.
LEMMA ReportsBeginKeeps ==
    ASSUME SyncConstants, GrantInv, ReportsBegin, scope' = scope
    PROVE  GrantInv'
<1>1. PICK s : s = Sync
  OBVIOUS
<1>2. "sync" \in Threads /\ s \in Moving /\ calls["sync"] = s /\ s # Idle
  BY <1>1, SyncTyped, NextCall DEF ReportsBegin, Sync, Moving, Idle
<1>3. /\ s.at \in (Len(Walks) + 1)..(Len(Walks) + Len(Groups)) /\ s.at \notin 1..Len(Walks)
      /\ s.at + 1 \in 1..(Len(Walks) + Len(Groups) + 1) /\ s.at + 1 \notin 1..Len(Walks)
      /\ s.at - Len(Walks) \in 1..Len(Groups)
  BY <1>1, <1>2, PlacesTyped DEF ReportsBegin, Moving
<1>4. PICK g : g = Groups[s.at - Len(Walks)]
  OBVIOUS
<1>5. Group = g /\ g.cursor \in Entities /\ g.periods \subseteq Periods
  BY <1>1, <1>3, <1>4, PlacesTyped DEF Group
<1>6. PICK k : k = cursors[g.cursor]
  OBVIOUS
<1>7. k \in Cursor
  BY <1>5, <1>6 DEF GrantInv, SyncTypeOK, CacheTyped
<1>8. CountsTyped' /\ CacheTyped' /\ cursors' = cursors
  BY StillTyped DEF ReportsBegin, provider, cache, GrantInv, SyncTypeOK, CountsTyped
<1>9. CASE Goto("sync", NextOf(s, s.at + 1))
  <2>1. PICK c : c = NextOf(s, s.at + 1)
    OBVIOUS
  <2>2. /\ CallTyped("sync", c) /\ c.pc = "next" /\ c.token = s.token /\ c.realm = s.realm
        /\ c.at = s.at + 1
    BY <1>2, <1>3, <2>1, NextTyped DEF Moving
  <2>3. QED
    BY <1>2, <1>3, <1>8, <1>9, <2>1, <2>2, MoveKeeps DEF ReportsBegin, provider
<1>10. CASE Goto("sync", ReportsOf(s, k, ReportsDue))
  <2>1. PICK c : c = ReportsOf(s, k, ReportsDue)
    OBVIOUS
  <2>2. ReportsDue \subseteq g.periods
    BY <1>5 DEF ReportsDue
  <2>3. c \in Reporting
    BY <1>2, <1>3, <1>5, <1>7, <2>1, <2>2 DEF ReportsOf, Reporting, Moving
  <2>4. CallTyped("sync", c)
    BY <1>4, <2>1, <2>2, <2>3 DEF CallTyped, ReportsOf
  <2>5. c.pc = "reports" /\ c.token = s.token /\ c.realm = s.realm /\ c.at = s.at
    BY <2>1 DEF ReportsOf
  <2>6. QED
    BY <1>2, <1>3, <1>8, <1>10, <2>1, <2>4, <2>5, MoveKeeps DEF ReportsBegin, provider
<1>11. QED
  BY <1>1, <1>5, <1>6, <1>9, <1>10 DEF ReportsBegin

\* Where a thread with reports to fetch stands.
LEMMA Reports ==
    ASSUME SyncConstants, GrantInv, NEW s, s = Sync, s.pc = "reports"
    PROVE  /\ "sync" \in Threads /\ s \in Reporting /\ calls["sync"] = s /\ s # Idle
           /\ s.at \notin 1..Len(Walks) /\ s.at + 1 \notin 1..Len(Walks)
           /\ s.at + 1 \in 1..(Len(Walks) + Len(Groups) + 1)
           /\ s.todo \subseteq Group.periods /\ Group.cursor \in Entities /\ Group.periods \subseteq Periods
           /\ Group = Groups[s.at - Len(Walks)]
<1>1. /\ "sync" \in Threads /\ s \in Reporting /\ calls["sync"] = s /\ s # Idle
      /\ s.todo \subseteq Groups[s.at - Len(Walks)].periods
  BY SyncTyped, ReportsCall DEF Sync, Reporting, Idle
<1>2. /\ s.at \notin 1..Len(Walks) /\ s.at + 1 \in 1..(Len(Walks) + Len(Groups) + 1)
      /\ s.at + 1 \notin 1..Len(Walks) /\ s.at - Len(Walks) \in 1..Len(Groups)
  BY <1>1, PlacesTyped DEF Reporting
<1>3. QED
  BY <1>1, <1>2, PlacesTyped DEF Group

\* A report is written, skipped or taken for a replay.
LEMMA ReportKeeps ==
    ASSUME SyncConstants, GrantInv, ReportArrives, scope' = scope
    PROVE  GrantInv'
<1>1. PICK s : s = Sync
  OBVIOUS
<1>2. /\ "sync" \in Threads /\ s \in Reporting /\ calls["sync"] = s /\ s # Idle
      /\ s.at \notin 1..Len(Walks) /\ s.todo \subseteq Groups[s.at - Len(Walks)].periods
  BY <1>1, Reports DEF ReportArrives
<1>3. PICK p \in s.todo :
         /\ s.budget > 0
         /\ reports' = reports \/ reports' = [reports EXCEPT ![p] = Report(s.realm)]
         /\ amiss' = amiss \/ amiss' = amiss \cup {"recurred"}
         /\ Goto("sync", [s EXCEPT !.todo = @ \ {p}, !.budget = @ - 1,
                                   !.wrote = @ \/ ~(reports[p] = Report(s.realm))])
         /\ UNCHANGED <<provider, cred, latch, rows, cursors, clock, refused, failures>>
  BY <1>1 DEF ReportArrives
<1>4. CacheTyped'
  <2>1. cursors' \in [Entities -> Cursor'] /\ rows' = rows
    BY <1>3 DEF GrantInv, SyncTypeOK, CacheTyped, Cursor, Times, provider
  <2>2. Report(s.realm) \in [realm : Realms]
    BY <1>2 DEF Report, Reporting
  <2>3. reports' \in [Periods -> {NoRow} \cup [realm : Realms]]
    BY <1>3, <2>2 DEF GrantInv, SyncTypeOK, CacheTyped
  <2>4. QED
    BY <2>1, <2>3 DEF GrantInv, SyncTypeOK, CacheTyped
<1>5. CountsTyped' /\ (amiss' = amiss \/ amiss' = amiss \cup {"recurred"})
  BY <1>3 DEF GrantInv, SyncTypeOK, CountsTyped, provider
<1>6. PICK w \in BOOLEAN : w = (s.wrote \/ ~(reports[p] = Report(s.realm)))
  OBVIOUS
<1>7. PICK c : c = [s EXCEPT !.todo = @ \ {p}, !.budget = @ - 1, !.wrote = w]
  OBVIOUS
<1>8. Goto("sync", c)
  BY <1>3, <1>6, <1>7
<1>9. s.budget - 1 \in Spent
  <2>1. s.budget \in 0..scope.budget /\ scope.budget \in Nat
    BY <1>2, CountsFacts DEF Reporting, Spent, GrantInv, SyncTypeOK
  <2>2. QED
    BY <1>3, <2>1 DEF Spent
<1>10. /\ c \in Reporting /\ c.pc = "reports" /\ c.token = s.token /\ c.realm = s.realm
       /\ c.at = s.at /\ c.todo \subseteq s.todo
  BY <1>2, <1>6, <1>7, <1>9 DEF Reporting
<1>11. CallTyped("sync", c)
  BY <1>2, <1>10 DEF CallTyped
<1>12. QED
  BY <1>2, <1>3, <1>4, <1>5, <1>8, <1>10, <1>11, MoveKeeps DEF provider

\* A report fails and its group ends.
LEMMA ReportFailKeeps ==
    ASSUME SyncConstants, GrantInv, ReportFails, scope' = scope
    PROVE  GrantInv'
<1>1. PICK s : s = Sync
  OBVIOUS
<1>2. /\ "sync" \in Threads /\ s \in Reporting /\ calls["sync"] = s /\ s # Idle
      /\ s.at + 1 \in 1..(Len(Walks) + Len(Groups) + 1) /\ s.at + 1 \notin 1..Len(Walks)
      /\ Group.cursor \in Entities
  BY <1>1, Reports DEF ReportFails
<1>3. cursors[Group.cursor] \in Cursor /\ s.cursor \in Cursor /\ s.now \in 1..clock /\ clock \in Nat
  BY <1>2, CountsFacts DEF Reporting, GrantInv, SyncTypeOK, CacheTyped
<1>4. CacheTyped'
  <2>1. /\ [s.cursor EXCEPT !.until = s.now + RetryAfter, !.err = s.now] \in Cursor
        /\ [cursors[Group.cursor] EXCEPT !.err = s.now] \in Cursor
    BY <1>3, LimitTyped, ErrTyped DEF SyncConstants
  <2>2. QED
    BY <1>1, <1>2, <2>1, PutTyped DEF ReportFails, provider, GrantInv, SyncTypeOK
<1>5. CountsTyped'
  BY FaultCounted DEF ReportFails, provider, GrantInv, SyncTypeOK, CountsTyped
<1>6. PICK d : d = NextOf(s, s.at + 1)
  OBVIOUS
<1>7. PICK c : c = [d EXCEPT !.budget = @ - 1]
  OBVIOUS
<1>8. s.budget - 1 \in Spent
  <2>1. s.budget \in 0..scope.budget /\ scope.budget \in Nat /\ s.budget > 0
    BY <1>1, <1>2, CountsFacts DEF ReportFails, Reporting, Spent, GrantInv, SyncTypeOK
  <2>2. QED
    BY <2>1 DEF Spent
<1>9. /\ c \in Moving /\ c.pc = "next" /\ c.token = s.token /\ c.realm = s.realm
      /\ c.at = s.at + 1 /\ Goto("sync", c)
  BY <1>1, <1>2, <1>6, <1>7, <1>8 DEF NextOf, Reporting, Moving, ReportFails
<1>10. CallTyped("sync", c)
  BY <1>9 DEF CallTyped
<1>11. QED
  BY <1>2, <1>4, <1>5, <1>9, <1>10, MoveKeeps DEF ReportFails, provider

\* A group of reports is complete, or the budget is spent.
LEMMA ReportsEndKeeps ==
    ASSUME SyncConstants, GrantInv, ReportsEnd, scope' = scope
    PROVE  GrantInv'
<1>1. PICK s : s = Sync
  OBVIOUS
<1>2. /\ "sync" \in Threads /\ s \in Reporting /\ calls["sync"] = s /\ s # Idle
      /\ s.at + 1 \in 1..(Len(Walks) + Len(Groups) + 1) /\ s.at + 1 \notin 1..Len(Walks)
      /\ Group.cursor \in Entities
  BY <1>1, Reports DEF ReportsEnd
<1>3. CacheTyped'
  <2>1. PICK done \in BOOLEAN : done = (s.cursor.done \/ Group.name # "days")
    OBVIOUS
  <2>2. [s.cursor EXCEPT !.err = 0, !.done = done] \in Cursor
    <3>1. s.cursor \in Cursor /\ 0 \in 0..clock
      BY <1>2, CountsFacts DEF Reporting, GrantInv, SyncTypeOK
    <3>2. QED
      BY <3>1 DEF Cursor
  <2>3. [s.cursor EXCEPT !.err = 0, !.done = @ \/ Group.name # "days"]
           = [s.cursor EXCEPT !.err = 0, !.done = done]
    BY <2>1
  <2>4. CASE UNCHANGED <<cursors, applied>>
    BY <2>4, StillTyped DEF ReportsEnd, provider, GrantInv, SyncTypeOK
  <2>5. CASE PutCursor(Group.cursor, [s.cursor EXCEPT !.err = 0, !.done = @ \/ Group.name # "days"])
    BY <1>2, <2>2, <2>3, <2>5, PutTyped DEF ReportsEnd, provider, GrantInv, SyncTypeOK
  <2>6. QED
    BY <1>1, <2>4, <2>5 DEF ReportsEnd
<1>4. CountsTyped'
  BY DEF ReportsEnd, provider, GrantInv, SyncTypeOK, CountsTyped
<1>5. PICK c : c = NextOf(s, s.at + 1)
  OBVIOUS
<1>6. /\ CallTyped("sync", c) /\ c.pc = "next" /\ c.token = s.token /\ c.realm = s.realm
      /\ c.at = s.at + 1 /\ Goto("sync", c)
  BY <1>1, <1>2, <1>5, NextTyped DEF Reporting, ReportsEnd
<1>7. QED
  BY <1>2, <1>3, <1>4, <1>6, MoveKeeps DEF ReportsEnd, provider

\* Tables that stay as they are stay well typed.
LEMMA TablesKept ==
    ASSUME SyncConstants, SyncTypeOK, Later
    PROVE  /\ UNCHANGED <<rows, reports, cursors>> => CacheTyped'
           /\ UNCHANGED books => BooksTyped'
           /\ UNCHANGED <<live, refused, latch, cred>> => GrantTyped'
<1>1. Token \subseteq Token' /\ Times \subseteq Times' /\ Cursor \subseteq Cursor'
  BY TypesGrow
<1>2. UNCHANGED <<rows, reports, cursors>> => CacheTyped'
  BY <1>1 DEF SyncTypeOK, CacheTyped
<1>3. UNCHANGED books => BooksTyped'
  <2>1. ASSUME NEW realm \in Realms, NEW e \in WalkNames, UNCHANGED books
        PROVE  books'[realm][e] \in [Records[e] -> {NoRow} \cup [content : Contents, at : Times']]
    BY <1>1, <2>1 DEF SyncTypeOK, BooksTyped
  <2>2. QED
    BY <2>1 DEF SyncTypeOK, BooksTyped
<1>4. UNCHANGED <<live, refused, latch, cred>> => GrantTyped'
  BY <1>1 DEF SyncTypeOK, GrantTyped
<1>5. QED
  BY <1>2, <1>3, <1>4

\* The token that is issued next has not been seen.
LEMMA NextIsNew ==
    ASSUME SyncConstants, SyncTypeOK, NEW realm \in Realms, NEW token, token = [realm |-> realm, id |-> issued + 1],
           issued < scope.grants, issued' = issued + 1, CountsTyped', scope' = scope
    PROVE  token \notin Token /\ token \in Token' /\ token.realm = realm
<1>1. issued \in Nat
  BY CountsFacts DEF SyncTypeOK
<1>2. issued + 1 \notin 1..issued /\ issued + 1 \in 1..(issued + 1)
  BY <1>1
<1>3. QED
  BY <1>2 DEF Token

\* A thread that is prepared goes on with the walks, unless throttled.
LEMMA PreparedTyped ==
    ASSUME SyncConstants, CacheTyped, NEW t \in Threads, NEW d, d.realm \in Realms, d.token \in Token',
           d.now \in 1..clock', d.budget \in Spent', NEW c, c = Prepared(t, d), clock' \in Nat,
           clock \in Nat, RetryAfter \in Nat
    PROVE  /\ CallTyped(t, c)' /\ c.pc \in {"idle", "next"}
           /\ c # Idle => c.token = d.token /\ c.realm = d.realm
           /\ t = "sync" /\ c # Idle => c.now = d.now /\ \A e \in Entities : cursors[e].until <= c.now
           /\ t = "courier" => c = Idle
<1>1. CASE c = Idle
  BY <1>1, IdleTyped DEF CallTyped, Entry, Idle
<1>2. CASE c # Idle
  <2>1. /\ t # "courier" /\ ~Throttled(d.now)
        /\ c = [pc |-> "next", realm |-> d.realm, token |-> d.token, now |-> d.now,
                budget |-> d.budget, at |-> 1, recovered |-> FALSE]
    BY <1>2 DEF Prepared
  <2>2. c \in Moving'
    BY <2>1, PlacesTyped DEF Moving
  <2>3. CallTyped(t, c)'
    BY <2>1, <2>2 DEF CallTyped
  <2>4. ASSUME NEW e \in Entities PROVE cursors[e].until <= d.now
    <3>1. cursors[e].until \in 0..(clock + RetryAfter) /\ ~(cursors[e].until > d.now)
      BY <2>1 DEF Throttled, CacheTyped, Cursor
    <3>2. QED
      BY <3>1
  <2>5. QED
    BY <2>1, <2>3, <2>4
<1>3. QED
  BY <1>1, <1>2

\* The parts of GrantInv that a thread's step can disturb, when the grants stay.
LEMMA MovedSound ==
    ASSUME GrantInv, CallsTyped, NEW t \in Threads, NEW c, Goto(t, c), 
           UNCHANGED <<live, cred, latch, refused, amiss>>,
           c # Idle => /\ cred # NoCred
                       /\ c.token = cred.token /\ c.realm = cred.realm,
           c.pc \notin {"persist", "mark"}
    PROVE  RefusedIsBlocked' /\ FlagMeansDead' /\ TokensSound' /\ SameFate'
<1>1. calls'[t] = c /\ \A u \in Threads : u # t => calls'[u] = calls[u]
  BY OneMoves
<1>2. RefusedIsBlocked' /\ FlagMeansDead'
  BY DEF GrantInv, RefusedIsBlocked, RejectedIsNotRetried, FlagMeansDead
<1>3. TokensSound'
  BY <1>1 DEF GrantInv, TokensSound
<1>4. SameFate'
  BY <1>1 DEF GrantInv, SameFate
<1>5. QED
  BY <1>2, <1>3, <1>4

\* A cycle begins, or the courier has claimed a payment.
LEMMA BeginKeeps ==
    ASSUME SyncConstants, GrantInv, NEW t \in Threads, Begin(t), scope' = scope
    PROVE  GrantInv'
<1>1. /\ clock' = clock + 1 /\ clock < scope.cycles /\ cred # NoCred /\ calls[t] = Idle
      /\ UNCHANGED <<books, updates, live, issued, cred, latch, rows, reports, cursors, refused, amiss, failures>>
  BY DEF Begin, Usable, provider, cache
<1>2. CountsTyped' /\ clock \in Nat /\ clock' \in Nat
  <2>1. clock \in Nat /\ scope.cycles \in Nat
    BY CountsFacts, BoundsTyped DEF GrantInv, SyncTypeOK
  <2>2. QED
    BY <1>1, <2>1 DEF GrantInv, SyncTypeOK, CountsTyped
<1>3. Later
  BY <1>1, <1>2, CountsFacts DEF Later, GrantInv, SyncTypeOK
<1>4. PICK d : d = [pc |-> "refresh", realm |-> cred.realm, token |-> cred.token,
                    now |-> clock + 1, budget |-> scope.budget, at |-> 0]
  OBVIOUS
<1>5. cred.realm \in Realms /\ cred.token \in Token' /\ clock + 1 \in 1..clock' /\ scope.budget \in Nat \ {0}
      /\ scope.budget \in Spent' /\ scope.budget - 1 \in Spent'
  <2>1. cred.realm \in Realms /\ cred.token \in Token
    BY <1>1 DEF GrantInv, SyncTypeOK, GrantTyped
  <2>2. Token \subseteq Token' /\ scope.budget \in Nat \ {0}
    BY <1>3, TypesGrow, CountsFacts DEF GrantInv, SyncTypeOK
  <2>3. QED
    BY <1>1, <1>2, <2>1, <2>2 DEF Spent
<1>6. ASSUME NEW c, Goto(t, c), CallTyped(t, c)', c.pc \notin {"persist", "mark"},
             c # Idle => c.token = cred.token /\ c.realm = cred.realm,
             t = "sync" /\ c # Idle /\ c.at \in 1..Len(Walks) =>
                \A e \in Entities : cursors[e].until <= c.now
      PROVE  GrantInv'
  <2>1. CallsTyped'
    BY <1>3, <1>6, CallsGrow DEF GrantInv, SyncTypeOK
  <2>2. BooksTyped' /\ GrantTyped' /\ CacheTyped'
    BY <1>1, <1>3, TablesKept DEF GrantInv
  <2>3. RefusedIsBlocked' /\ FlagMeansDead' /\ TokensSound' /\ SameFate'
    BY <1>1, <1>6, MovedSound DEF GrantInv, SyncTypeOK
  <2>4. WalksUnthrottled'
    <3>1. calls'[t] = c /\ \A u \in Threads : u # t => calls'[u] = calls[u]
      BY <1>6, OneMoves DEF GrantInv, SyncTypeOK
    <3>2. QED
      BY <1>1, <1>6, <3>1 DEF GrantInv, WalksUnthrottled, Sync, Threads
  <2>5. QED
    BY <1>2, <2>1, <2>2, <2>3, <2>4 DEF GrantInv, SyncTypeOK
<1>7. CASE t = "sync" /\ Goto(t, Prepared(t, d))
  <2>1. PICK c : c = Prepared(t, d)
    OBVIOUS
  <2>2. /\ CallTyped(t, c)' /\ c.pc \in {"idle", "next"}
        /\ c # Idle => c.token = d.token /\ c.realm = d.realm
        /\ t = "sync" /\ c # Idle => c.now = d.now /\ \A e \in Entities : cursors[e].until <= c.now
    <3>1. d.realm \in Realms /\ d.token \in Token' /\ d.now \in 1..clock' /\ d.budget \in Spent'
      BY <1>4, <1>5
    <3>2. RetryAfter \in Nat /\ CacheTyped
      BY DEF SyncConstants, GrantInv, SyncTypeOK
    <3>3. QED
      BY <1>2, <2>1, <3>1, <3>2, PreparedTyped
  <2>3. QED
    BY <1>4, <1>6, <1>7, <2>1, <2>2
<1>8. CASE Goto(t, [d EXCEPT !.budget = @ - 1])
  <2>1. PICK c : c = [d EXCEPT !.budget = @ - 1]
    OBVIOUS
  <2>2. /\ c.pc = "refresh" /\ c.at = 0 /\ c.token = cred.token /\ c.realm = cred.realm
        /\ c.at \notin 1..Len(Walks)
    BY <1>4, <2>1
  <2>3. c \in Refreshing'
    BY <1>4, <1>5, <2>1, PlacesTyped DEF Refreshing
  <2>4. CallTyped(t, c)'
    BY <2>2, <2>3 DEF CallTyped
  <2>5. QED
    BY <1>6, <1>8, <2>1, <2>2, <2>4
<1>9. QED
  BY <1>4, <1>7, <1>8 DEF Begin

\* A refresh is on its way: what the thread holds.
LEMMA RefreshHolds ==
    ASSUME GrantInv, NEW t \in Threads, calls[t].pc \in {"refresh", "persist", "mark"}
    PROVE  calls[t] \in Refreshing /\ (t = "courier" => calls[t].at = 0) /\ calls[t] # Idle
  BY RefreshCall DEF GrantInv, SyncTypeOK, CallsTyped, Refreshing, Idle

\* The deadlines stay behind a thread that keeps its place and its time.
LEMMA WalksKept ==
    ASSUME GrantInv, NEW t \in Threads, NEW c, Goto(t, c), cursors' = cursors,
           c # Idle /\ c.at \in 1..Len(Walks) =>
              calls[t] # Idle /\ c.at = calls[t].at /\ c.now = calls[t].now
    PROVE  WalksUnthrottled'
<1>1. calls'[t] = c /\ \A u \in Threads : u # t => calls'[u] = calls[u]
  BY OneMoves DEF GrantInv, SyncTypeOK
<1>2. QED
  BY <1>1 DEF GrantInv, WalksUnthrottled, Sync, Threads

\* The provider rotates the grant.
LEMMA GrantedKeeps ==
    ASSUME SyncConstants, GrantInv, NEW t \in Threads, Granted(t), scope' = scope
    PROVE  GrantInv'
<1>1. PICK d : d = calls[t]
  OBVIOUS
<1>2. PICK token : token = [realm |-> d.token.realm, id |-> issued + 1]
  OBVIOUS
<1>3. PICK c : c = [d EXCEPT !.pc = "persist", !.token = token]
  OBVIOUS
<1>4. /\ d.pc = "refresh" /\ d.token \in live /\ issued < scope.grants /\ issued' = issued + 1
      /\ live' = live \cup {token} /\ Goto(t, c)
      /\ UNCHANGED <<books, updates, cred, latch, rows, reports, cursors, clock, refused, amiss, failures>>
  BY <1>1, <1>2, <1>3 DEF Granted, cache
<1>5. d \in Refreshing /\ (t = "courier" => d.at = 0) /\ d # Idle
  BY <1>1, <1>4, RefreshHolds
<1>6. CountsTyped' /\ Later
  <2>1. issued \in Nat /\ scope.grants \in Nat /\ CountsTyped
    BY CountsFacts, BoundsTyped DEF GrantInv, SyncTypeOK
  <2>2. CountsTyped'
    BY <1>4, <2>1 DEF CountsTyped
  <2>3. QED
    BY <1>4, <2>1, <2>2, CountsFacts DEF Later
<1>7. token \notin Token /\ token \in Token' /\ token.realm = d.token.realm /\ d.token.realm \in Realms
  <2>1. d.token.realm \in Realms
    BY <1>5 DEF Refreshing, Token
  <2>2. QED
    BY <1>2, <1>4, <1>6, <2>1, NextIsNew DEF GrantInv
<1>8. Token \subseteq Token' /\ Refreshing \subseteq Refreshing'
  BY <1>6, TypesGrow
<1>9. /\ c \in Refreshing' /\ c.pc = "persist" /\ c.token = token /\ c.realm = d.realm
      /\ c.at = d.at /\ c.now = d.now
  BY <1>3, <1>5, <1>7, <1>8 DEF Refreshing
<1>10. CallsTyped'
  <2>1. CallTyped(t, c)'
    BY <1>5, <1>9 DEF CallTyped
  <2>2. QED
    BY <1>4, <1>6, <2>1, CallsGrow DEF GrantInv, SyncTypeOK
<1>11. BooksTyped' /\ CacheTyped' /\ GrantTyped'
  <2>1. BooksTyped' /\ CacheTyped'
    BY <1>4, <1>6, TablesKept DEF GrantInv
  <2>2. GrantTyped'
    BY <1>4, <1>7, <1>8 DEF GrantInv, SyncTypeOK, GrantTyped
  <2>3. QED
    BY <2>1, <2>2
<1>12. calls'[t] = c /\ \A u \in Threads : u # t => calls'[u] = calls[u]
  BY <1>4, OneMoves DEF GrantInv, SyncTypeOK
<1>13. ASSUME NEW u \in Threads, calls[u] # Idle PROVE calls[u].token \in Token
  <2>1. CallTyped(u, calls[u])
    BY DEF GrantInv, SyncTypeOK, CallsTyped
  <2>2. QED
    BY <1>13, <2>1 DEF CallTyped, Refreshing, Moving, Asking, Writing, Reporting
<1>14. cred # NoCred => cred.token \in Token
  BY DEF GrantInv, SyncTypeOK, GrantTyped
<1>15. RefusedIsBlocked' /\ FlagMeansDead'
  BY <1>4, <1>7, <1>14 DEF GrantInv, RefusedIsBlocked, RejectedIsNotRetried, FlagMeansDead
<1>16. TokensSound'
  <2>1. token \notin refused /\ ("misjudged" \notin amiss => refused' \cap live' = {})
    BY <1>4, <1>7 DEF GrantInv, TokensSound, SyncTypeOK, GrantTyped
  <2>2. "misjudged" \notin amiss =>
           \A u \in Threads : calls'[u].pc = "mark" => calls'[u].token \notin live'
    <3>1. ASSUME "misjudged" \notin amiss, NEW u \in Threads, calls'[u].pc = "mark"
          PROVE  calls'[u].token \notin live'
      <4>1. u # t /\ calls'[u] = calls[u] /\ calls[u] # Idle
        BY <1>9, <1>12, <3>1 DEF Idle
      <4>2. QED
        BY <1>4, <1>7, <1>13, <3>1, <4>1 DEF GrantInv, TokensSound
    <3>2. QED
      BY <3>1
  <2>3. ASSUME NEW u \in Threads, calls'[u].pc = "persist"
        PROVE  /\ calls'[u].token \notin refused'
               /\ cred' # NoCred => cred'.token # calls'[u].token
               /\ \A v \in Threads \ {u} : calls'[v] # Idle => calls'[v].token # calls'[u].token
    <3>1. CASE u = t
      BY <1>4, <1>7, <1>9, <1>12, <1>13, <1>14, <2>1, <3>1
    <3>2. CASE u # t
      <4>1. calls'[u] = calls[u] /\ calls[u].pc = "persist" /\ calls[u] # Idle /\ calls[u].token \in Token
        BY <1>12, <1>13, <2>3, <3>2 DEF Idle
      <4>2. QED
        BY <1>4, <1>7, <1>9, <1>12, <4>1 DEF GrantInv, TokensSound
    <3>3. QED
      BY <3>1, <3>2
  <2>4. QED
    BY <1>4, <2>1, <2>2, <2>3 DEF TokensSound
<1>17. SameFate'
  <2>1. ASSUME "crossed" \notin amiss
        PROVE  /\ cred # NoCred /\ cred.token.realm = cred.realm /\ cred.token \in live'
               /\ \A u \in Threads : calls'[u] # Idle =>
                    /\ cred.realm = calls'[u].realm /\ cred.realm = calls'[u].token.realm
                    /\ calls'[u].token \in live'
    <3>1. cred # NoCred /\ cred.token.realm = cred.realm /\ cred.realm = d.token.realm
          /\ cred.realm = d.realm /\ cred.token \in live
      BY <1>1, <1>4, <1>5, <2>1 DEF GrantInv, SameFate
    <3>2. \A u \in Threads : calls[u] # Idle =>
             cred.realm = calls[u].realm /\ cred.realm = calls[u].token.realm /\ calls[u].token \in live
      BY <2>1, <3>1 DEF GrantInv, SameFate
    <3>3. QED
      BY <1>4, <1>7, <1>9, <1>12, <3>1, <3>2
  <2>2. QED
    BY <1>4, <2>1 DEF SameFate
<1>18. WalksUnthrottled'
  BY <1>1, <1>4, <1>5, <1>9, WalksKept
<1>19. QED
  BY <1>6, <1>10, <1>11, <1>15, <1>16, <1>17, <1>18 DEF GrantInv, SyncTypeOK

\* The provider refuses the token: the latch is set.
LEMMA RejectedKeeps ==
    ASSUME SyncConstants, GrantInv, NEW t \in Threads, Rejected(t), scope' = scope
    PROVE  GrantInv'
<1>1. PICK d : d = calls[t]
  OBVIOUS
<1>2. PICK c : c = [d EXCEPT !.pc = "mark"]
  OBVIOUS
<1>3. /\ d.pc = "refresh" /\ latch' = TRUE /\ refused' = refused \cup {d.token}
      /\ IF d.token \in live THEN Faulty /\ amiss' = amiss \cup {"misjudged"}
                              ELSE UNCHANGED <<failures, amiss>>
      /\ Goto(t, c)
      /\ UNCHANGED <<books, updates, live, issued, cred, rows, reports, cursors, clock>>
  BY <1>1, <1>2 DEF Rejected, Rejects, Latched, provider, cache
<1>4. d \in Refreshing /\ (t = "courier" => d.at = 0) /\ d # Idle
  BY <1>1, <1>3, RefreshHolds
<1>5. CountsTyped' /\ Later
  <2>1. CountsTyped'
    <3>1. amiss' \subseteq {"shifted", "recurred", "crossed", "kept", "unsaved", "misjudged"}
      BY <1>3 DEF GrantInv, SyncTypeOK, CountsTyped
    <3>2. failures' \in 0..scope.faults
      <4>1. CASE failures' = failures
        BY <4>1 DEF GrantInv, SyncTypeOK, CountsTyped
      <4>2. CASE Faulty
        <5>1. failures \in 0..scope.faults /\ scope.faults \in Nat
          BY BoundsTyped DEF GrantInv, SyncTypeOK, CountsTyped
        <5>2. QED
          BY <4>2, <5>1 DEF Faulty
      <4>3. QED
        BY <1>3, <4>1, <4>2
    <3>3. QED
      BY <1>3, <3>1, <3>2 DEF GrantInv, SyncTypeOK, CountsTyped
  <2>2. QED
    BY <1>3, <2>1, CountsFacts DEF GrantInv, SyncTypeOK, Later
<1>6. /\ c \in Refreshing /\ c.pc = "mark" /\ c.token = d.token /\ c.realm = d.realm
      /\ c.at = d.at /\ c.now = d.now
  BY <1>2, <1>4 DEF Refreshing
<1>7. CallsTyped'
  <2>1. CallTyped(t, c)
    BY <1>4, <1>6 DEF CallTyped
  <2>2. QED
    BY <1>3, <1>5, <2>1, CallGrows, CallsGrow DEF GrantInv, SyncTypeOK
<1>8. BooksTyped' /\ CacheTyped' /\ GrantTyped'
  <2>1. BooksTyped' /\ CacheTyped'
    BY <1>3, <1>5, TablesKept DEF GrantInv
  <2>2. GrantTyped'
    BY <1>3, <1>4 DEF GrantInv, SyncTypeOK, GrantTyped, Token, Refreshing
  <2>3. QED
    BY <2>1, <2>2
<1>9. calls'[t] = c /\ \A u \in Threads : u # t => calls'[u] = calls[u]
  BY <1>3, OneMoves DEF GrantInv, SyncTypeOK
<1>10. /\ "crossed" \in amiss' <=> "crossed" \in amiss
       /\ "misjudged" \notin amiss' => "misjudged" \notin amiss /\ d.token \notin live
  BY <1>3
<1>11. RefusedIsBlocked' /\ FlagMeansDead'
  BY <1>3, <1>10 DEF GrantInv, RefusedIsBlocked, RejectedIsNotRetried, FlagMeansDead
<1>12. TokensSound'
  <2>1. "misjudged" \notin amiss' =>
          /\ refused' \cap live' = {}
          /\ \A u \in Threads : calls'[u].pc = "mark" => calls'[u].token \notin live'
    BY <1>1, <1>3, <1>4, <1>6, <1>9, <1>10 DEF GrantInv, TokensSound
  <2>2. ASSUME NEW u \in Threads, calls'[u].pc = "persist"
        PROVE  /\ calls'[u].token \notin refused'
               /\ cred' # NoCred => cred'.token # calls'[u].token
               /\ \A v \in Threads \ {u} : calls'[v] # Idle => calls'[v].token # calls'[u].token
    BY <1>1, <1>3, <1>4, <1>6, <1>9, <2>2 DEF GrantInv, TokensSound
  <2>3. QED
    BY <2>1, <2>2 DEF TokensSound
<1>13. SameFate'
  BY <1>1, <1>3, <1>4, <1>6, <1>9, <1>10 DEF GrantInv, SameFate
<1>14. WalksUnthrottled'
  BY <1>1, <1>3, <1>4, <1>6, WalksKept
<1>15. QED
  BY <1>5, <1>7, <1>8, <1>11, <1>12, <1>13, <1>14 DEF GrantInv, SyncTypeOK

\* mark_reconnect_required
LEMMA MarkKeeps ==
    ASSUME SyncConstants, GrantInv, NEW t \in Threads, Mark(t), scope' = scope
    PROVE  GrantInv'
<1>1. PICK d : d = calls[t]
  OBVIOUS
<1>2. PICK c : c = [d EXCEPT !.pc = "failed"]
  OBVIOUS
<1>3. /\ d.pc = "mark" /\ (latch => latch') /\ latch' \in BOOLEAN /\ Goto(t, c)
      /\ cred' = cred \/ (cred # NoCred /\ cred' = [cred EXCEPT !.flag = TRUE])
      /\ UNCHANGED <<books, updates, live, issued, rows, reports, cursors, clock, refused, amiss, failures>>
  BY <1>1, <1>2 DEF Mark, provider, cache
<1>4. d \in Refreshing /\ (t = "courier" => d.at = 0) /\ d # Idle
  BY <1>1, <1>3, RefreshHolds
<1>5. CountsTyped' /\ Later
  BY <1>3, CountsFacts DEF GrantInv, SyncTypeOK, CountsTyped, Later
<1>6. /\ c \in Refreshing /\ c.pc = "failed" /\ c.token = d.token /\ c.realm = d.realm
      /\ c.at = d.at /\ c.now = d.now
  BY <1>2, <1>4 DEF Refreshing
<1>7. CallsTyped'
  <2>1. CallTyped(t, c)
    BY <1>4, <1>6 DEF CallTyped
  <2>2. QED
    BY <1>3, <1>5, <2>1, CallGrows, CallsGrow DEF GrantInv, SyncTypeOK
<1>8. /\ cred = NoCred => cred' = NoCred
      /\ cred # NoCred => /\ cred' \in [realm : Realms, token : Token, flag : BOOLEAN] /\ cred' # NoCred
                          /\ cred'.token = cred.token /\ cred'.realm = cred.realm
                          /\ (cred.flag => cred'.flag)
  BY <1>3 DEF GrantInv, SyncTypeOK, GrantTyped, NoCred
<1>9. BooksTyped' /\ CacheTyped' /\ GrantTyped'
  <2>1. BooksTyped' /\ CacheTyped'
    BY <1>3, <1>5, TablesKept DEF GrantInv
  <2>2. GrantTyped'
    BY <1>3, <1>8 DEF GrantInv, SyncTypeOK, GrantTyped, Token
  <2>3. QED
    BY <2>1, <2>2
<1>10. calls'[t] = c /\ \A u \in Threads : u # t => calls'[u] = calls[u]
  BY <1>3, OneMoves DEF GrantInv, SyncTypeOK
<1>11. RefusedIsBlocked'
  BY <1>3, <1>8 DEF GrantInv, RefusedIsBlocked, RejectedIsNotRetried
<1>12. FlagMeansDead'
  <2>1. "misjudged" \notin amiss => d.token \notin live
    BY <1>1, <1>3 DEF GrantInv, TokensSound
  <2>2. amiss \cap {"crossed", "misjudged"} = {} /\ cred # NoCred => cred.token \notin live
    BY <1>1, <1>4, <2>1 DEF GrantInv, SameFate
  <2>3. QED
    BY <1>3, <1>8, <2>2 DEF FlagMeansDead
<1>13. TokensSound'
  BY <1>1, <1>3, <1>4, <1>6, <1>8, <1>10 DEF GrantInv, TokensSound
<1>14. SameFate'
  BY <1>1, <1>3, <1>4, <1>6, <1>8, <1>10 DEF GrantInv, SameFate
<1>15. WalksUnthrottled'
  BY <1>1, <1>3, <1>4, <1>6, WalksKept
<1>16. QED
  BY <1>5, <1>7, <1>9, <1>11, <1>12, <1>13, <1>14, <1>15 DEF GrantInv, SyncTypeOK

\* Where a thread goes on with a fresh grant.
LEMMA ResumedTyped ==
    ASSUME SyncConstants, GrantInv, UNCHANGED <<updates, issued, clock, scope>>, NEW t \in Threads, NEW d,
           d = calls[t], d.pc = "persist", NEW c, c = Resumed(t, d)
    PROVE  /\ CallTyped(t, c)' /\ c.pc \in {"idle", "next"}
           /\ c # Idle => c.token = d.token /\ c.realm = d.realm
           /\ t = "sync" /\ c # Idle => \A e \in Entities : cursors[e].until <= c.now
<1>1. d \in Refreshing /\ (t = "courier" => d.at = 0) /\ d # Idle
  BY RefreshHolds
<1>2. clock \in Nat /\ clock' \in Nat /\ RetryAfter \in Nat /\ CacheTyped
  BY CountsFacts DEF SyncConstants, GrantInv, SyncTypeOK
<1>3. d.realm \in Realms /\ d.token \in Token' /\ d.now \in 1..clock' /\ d.budget \in Spent'
  BY <1>1 DEF Refreshing, Token, Spent
<1>4. CASE d.at = 0
  <2>1. c = Prepared(t, d)
    BY <1>4 DEF Resumed
  <2>2. QED
    BY <1>2, <1>3, <2>1, PreparedTyped
<1>5. CASE d.at # 0
  <2>1. /\ c = [pc |-> "next", realm |-> d.realm, token |-> d.token, now |-> d.now,
                budget |-> d.budget, at |-> d.at, recovered |-> TRUE]
        /\ d.at \in 1..Len(Walks) /\ t = "sync"
    BY <1>1, <1>5, PlacesTyped DEF Resumed, Recovered, Refreshing, Threads
  <2>2. c \in Moving'
    BY <1>3, <2>1, PlacesTyped DEF Moving
  <2>3. CallTyped(t, c)'
    BY <2>1, <2>2 DEF CallTyped
  <2>4. \A e \in Entities : cursors[e].until <= d.now
    BY <1>1, <2>1 DEF GrantInv, WalksUnthrottled, Sync
  <2>5. QED
    BY <2>1, <2>3, <2>4
<1>6. QED
  BY <1>4, <1>5

\* update_tokens_after_refresh: the grant is stored, or taken for a replay.
LEMMA PersistKeeps ==
    ASSUME SyncConstants, GrantInv, NEW t \in Threads, Persist(t), scope' = scope
    PROVE  GrantInv'
<1>1. PICK d : d = calls[t]
  OBVIOUS
<1>2. PICK c : c = Resumed(t, d)
  OBVIOUS
<1>3. /\ d.pc = "persist" /\ latch' = FALSE /\ Goto(t, c)
      /\ \/ cred' = cred /\ amiss' = amiss \cup {"unsaved"}
         \/ cred = NoCred /\ cred' = NoCred /\ amiss' = amiss
         \/ cred # NoCred /\ cred' = [cred EXCEPT !.token = d.token, !.flag = FALSE] /\ amiss' = amiss
      /\ UNCHANGED <<books, updates, live, issued, rows, reports, cursors, clock, refused, failures>>
  BY <1>1, <1>2 DEF Persist, provider, cache
<1>4. d \in Refreshing /\ d # Idle
  BY <1>1, <1>3, RefreshHolds
<1>5. CountsTyped' /\ Later
  BY <1>3, CountsFacts DEF GrantInv, SyncTypeOK, CountsTyped, Later
<1>6. /\ CallTyped(t, c)' /\ c.pc \in {"idle", "next"}
      /\ c # Idle => c.token = d.token /\ c.realm = d.realm
      /\ t = "sync" /\ c # Idle => \A e \in Entities : cursors[e].until <= c.now
  BY <1>1, <1>2, <1>3, ResumedTyped
<1>7. CallsTyped'
  BY <1>3, <1>5, <1>6, CallsGrow DEF GrantInv, SyncTypeOK
<1>8. cred # NoCred /\ cred' # cred => 
         /\ cred' \in [realm : Realms, token : Token, flag : BOOLEAN] /\ cred' # NoCred
         /\ cred'.token = d.token /\ cred'.realm = cred.realm /\ cred'.flag = FALSE
  BY <1>3, <1>4 DEF GrantInv, SyncTypeOK, GrantTyped, NoCred, Refreshing
<1>9. BooksTyped' /\ CacheTyped' /\ GrantTyped'
  <2>1. BooksTyped' /\ CacheTyped'
    BY <1>3, <1>5, TablesKept DEF GrantInv
  <2>2. GrantTyped'
    BY <1>3, <1>8 DEF GrantInv, SyncTypeOK, GrantTyped, Token
  <2>3. QED
    BY <2>1, <2>2
<1>10. calls'[t] = c /\ \A u \in Threads : u # t => calls'[u] = calls[u]
  BY <1>3, OneMoves DEF GrantInv, SyncTypeOK
<1>11. d.token \notin refused
  BY <1>1, <1>3 DEF GrantInv, TokensSound
<1>12. RefusedIsBlocked'
  <2>1. CASE amiss' = amiss \cup {"unsaved"}
    BY <2>1 DEF RefusedIsBlocked
  <2>2. CASE cred' = NoCred
    BY <2>2 DEF RefusedIsBlocked, RejectedIsNotRetried
  <2>3. CASE cred # NoCred /\ cred' = [cred EXCEPT !.token = d.token, !.flag = FALSE]
    <3>1. cred'.token = d.token
      BY <2>3 DEF GrantInv, SyncTypeOK, GrantTyped
    <3>2. QED
      BY <1>3, <1>11, <3>1 DEF RefusedIsBlocked, RejectedIsNotRetried
  <2>4. QED
    BY <1>3, <2>1, <2>2, <2>3
<1>13. /\ "crossed" \in amiss' <=> "crossed" \in amiss
       /\ "misjudged" \in amiss' <=> "misjudged" \in amiss
  BY <1>3
<1>14. FlagMeansDead'
  <2>1. CASE cred' = cred
    BY <1>3, <1>13, <2>1 DEF GrantInv, FlagMeansDead
  <2>2. CASE cred' # cred
    BY <1>3, <1>8, <2>2 DEF FlagMeansDead
  <2>3. QED
    BY <2>1, <2>2
<1>15. TokensSound'
  <2>1. ASSUME NEW u \in Threads, calls'[u].pc = "persist"
        PROVE  /\ calls'[u].token \notin refused'
               /\ cred' # NoCred => cred'.token # calls'[u].token
               /\ \A v \in Threads \ {u} : calls'[v] # Idle => calls'[v].token # calls'[u].token
    <3>1. u # t /\ calls'[u] = calls[u] /\ calls[u].pc = "persist"
      BY <1>6, <1>10, <2>1
    <3>2. d.token # calls[u].token /\ (cred # NoCred => cred.token # calls[u].token)
          /\ \A v \in Threads \ {u} : calls[v] # Idle => calls[v].token # calls[u].token
      BY <1>1, <1>4, <3>1 DEF GrantInv, TokensSound
    <3>3. cred' # NoCred => cred'.token = d.token \/ (cred # NoCred /\ cred'.token = cred.token)
      BY <1>3, <1>8
    <3>4. QED
      BY <1>3, <1>6, <1>10, <3>1, <3>2, <3>3 DEF GrantInv, TokensSound
  <2>2. ASSUME "misjudged" \notin amiss, NEW u \in Threads, calls'[u].pc = "mark"
        PROVE  calls'[u].token \notin live'
    <3>1. u # t /\ calls'[u] = calls[u]
      BY <1>6, <1>10, <2>2
    <3>2. QED
      BY <1>3, <2>2, <3>1 DEF GrantInv, TokensSound
  <2>3. QED
    BY <1>3, <1>13, <2>1, <2>2 DEF GrantInv, TokensSound
<1>16. SameFate'
  <2>1. ASSUME "crossed" \notin amiss
        PROVE  /\ cred' # NoCred /\ cred'.token.realm = cred'.realm /\ cred'.realm = cred.realm
               /\ (cred'.token \in live <=> d.token \in live)
    <3>1. cred # NoCred /\ cred.token.realm = cred.realm /\ cred.realm = d.realm /\ cred.realm = d.token.realm
          /\ (cred.token \in live <=> d.token \in live)
      BY <1>1, <1>4, <2>1 DEF GrantInv, SameFate
    <3>2. QED
      BY <1>3, <1>8, <3>1
  <2>2. ASSUME "crossed" \notin amiss, NEW u \in Threads, calls'[u] # Idle
        PROVE  /\ cred.realm = calls'[u].realm /\ cred.realm = calls'[u].token.realm
               /\ (d.token \in live <=> calls'[u].token \in live)
    <3>1. cred.realm = d.realm /\ cred.realm = d.token.realm
      BY <1>1, <1>4, <2>2 DEF GrantInv, SameFate
    <3>2. CASE u = t
      BY <1>6, <1>10, <2>2, <3>1, <3>2
    <3>3. CASE u # t
      BY <1>1, <1>4, <1>10, <2>2, <3>3 DEF GrantInv, SameFate
    <3>4. QED
      BY <3>2, <3>3
  <2>3. live' = live /\ ("crossed" \notin amiss' => "crossed" \notin amiss)
    BY <1>3, <1>13
  <2>4. QED
    BY <2>1, <2>2, <2>3 DEF SameFate
<1>17. WalksUnthrottled'
  BY <1>3, <1>6, <1>10 DEF GrantInv, WalksUnthrottled, Sync, Threads
<1>18. QED
  BY <1>5, <1>7, <1>9, <1>12, <1>14, <1>15, <1>16, <1>17 DEF GrantInv, SyncTypeOK

\* The books change: the new time is one the provider has stamped.
LEMMA UpdateKeeps ==
    ASSUME SyncConstants, GrantInv, NEW realm \in Realms, NEW e \in WalkNames, NEW r \in Records[e],
           NEW content \in Contents, Update(realm, e, r, content), scope' = scope
    PROVE  GrantInv'
<1>1. PICK at \in {Start + updates + 1} \cup
            {a \in {books[realm][e][q].at : q \in {q \in Records[e] : books[realm][e][q] # NoRow}} :
               \A b \in {books[realm][e][q].at : q \in {q \in Records[e] : books[realm][e][q] # NoRow}} : b <= a} :
         /\ books' = [books EXCEPT ![realm][e][r] = [content |-> content, at |-> at]]
         /\ amiss' \in {amiss, amiss \cup {"shifted"}}
  BY DEF Update
<1>2. /\ updates < scope.updates /\ updates' = updates + 1
      /\ UNCHANGED <<live, issued, cred, latch, rows, reports, cursors, calls, clock, refused, failures>>
  BY DEF Update, cache
<1>3. CountsTyped' /\ Later /\ updates \in Nat
  <2>1. updates \in Nat /\ scope.updates \in Nat /\ CountsTyped
    BY CountsFacts, BoundsTyped DEF GrantInv, SyncTypeOK
  <2>2. CountsTyped'
    BY <1>1, <1>2, <2>1 DEF CountsTyped
  <2>3. QED
    BY <1>2, <2>1, <2>2, CountsFacts DEF Later
<1>4. Times \subseteq Times' /\ Start + updates + 1 \in Times'
  <2>1. Start \in Nat
    BY StartTyped
  <2>2. Start + updates + 1 \in 0..(Start + (updates + 1))
    BY <1>3, <2>1
  <2>3. QED
    BY <1>2, <1>3, <2>2, TypesGrow DEF Times
<1>5. at \in Times'
  BY <1>1, <1>4 DEF GrantInv, SyncTypeOK, BooksTyped, NoRow
<1>6. BooksTyped'
  <2>1. DOMAIN books' = Realms /\ \A x \in Realms : DOMAIN books'[x] = WalkNames
    BY <1>1 DEF GrantInv, SyncTypeOK, BooksTyped
  <2>2. ASSUME NEW x \in Realms, NEW f \in WalkNames
        PROVE  books'[x][f] \in [Records[f] -> {NoRow} \cup [content : Contents, at : Times']]
    <3>1. books[x][f] \in [Records[f] -> {NoRow} \cup [content : Contents, at : Times']]
      BY <1>4 DEF GrantInv, SyncTypeOK, BooksTyped
    <3>2. CASE x = realm /\ f = e
      <4>1. books'[x][f] = [books[x][f] EXCEPT ![r] = [content |-> content, at |-> at]]
        BY <1>1, <3>2 DEF GrantInv, SyncTypeOK, BooksTyped
      <4>2. [content |-> content, at |-> at] \in {NoRow} \cup [content : Contents, at : Times']
        BY <1>5
      <4>3. PICK v : v = [content |-> content, at |-> at]
        OBVIOUS
      <4>4. QED
        BY <3>1, <3>2, <4>1, <4>2, <4>3
    <3>3. CASE ~(x = realm /\ f = e)
      <4>1. books'[x][f] = books[x][f]
        BY <1>1, <3>3 DEF GrantInv, SyncTypeOK, BooksTyped
      <4>2. QED
        BY <3>1, <4>1
    <3>4. QED
      BY <3>2, <3>3
  <2>3. QED
    BY <2>1, <2>2 DEF BooksTyped
<1>7. CacheTyped' /\ GrantTyped'
  BY <1>2, <1>3, TablesKept DEF GrantInv
<1>8. CallsTyped'
  <2>1. \A t \in Threads : CallTyped(t, calls[t])'
    <3>1. ASSUME NEW t \in Threads PROVE CallTyped(t, calls[t])'
      <4>1. CallTyped(t, calls[t])
        BY DEF GrantInv, SyncTypeOK, CallsTyped
      <4>2. \A d : CallTyped(t, d) => CallTyped(t, d)'
        BY <1>3, CallGrows
      <4>3. QED
        BY <1>2, <4>1, <4>2 DEF CallTyped, Entry
    <3>2. QED
      BY <3>1
  <2>2. QED
    BY <1>2, <2>1 DEF GrantInv, SyncTypeOK, CallsTyped
<1>9. RefusedIsBlocked' /\ FlagMeansDead'
  BY <1>1, <1>2 DEF GrantInv, RefusedIsBlocked, RejectedIsNotRetried, FlagMeansDead
<1>10. TokensSound' /\ SameFate' /\ WalksUnthrottled'
  BY <1>1, <1>2 DEF GrantInv, TokensSound, SameFate, WalksUnthrottled, Sync
<1>11. QED
  BY <1>3, <1>6, <1>7, <1>8, <1>9, <1>10 DEF GrantInv, SyncTypeOK

\* What a step that leaves the threads and the counters of provider and clock
\* alone keeps.
LEMMA SettledTypes ==
    ASSUME SyncConstants, GrantInv, UNCHANGED <<books, updates, issued, clock, calls, scope>>
    PROVE  BooksTyped' /\ CallsTyped' /\ Cursor' = Cursor /\ Token' = Token
  BY DEF GrantInv, SyncTypeOK, BooksTyped, CallsTyped, CallTyped, Times, Token, Cursor, Refreshing, Moving,
         Asking, Writing, Reporting, Spent, Entry

\* A token dies while no thread is at work.
LEMMA TokenDiesKeeps ==
    ASSUME SyncConstants, GrantInv, NEW token \in live, TokenDies(token), scope' = scope
    PROVE  GrantInv'
<1>1. /\ live' = live \ {token} /\ \A t \in Threads : calls[t] = Idle
      /\ UNCHANGED <<books, updates, issued, cred, latch, rows, reports, cursors, calls, clock, refused, amiss>>
  BY DEF TokenDies, Busy, cache
<1>2. CountsTyped'
  BY <1>1, FaultCounted DEF TokenDies, GrantInv, SyncTypeOK
<1>3. BooksTyped' /\ CallsTyped' /\ CacheTyped' /\ GrantTyped'
  BY <1>1, SettledTypes DEF GrantInv, SyncTypeOK, CacheTyped, GrantTyped
<1>4. QED
  BY <1>1, <1>2, <1>3 DEF GrantInv, SyncTypeOK, RefusedIsBlocked, RejectedIsNotRetried, FlagMeansDead,
                          TokensSound, SameFate, WalksUnthrottled, Sync, Idle

\* A company revokes the application: all its tokens die at once.
LEMMA RevokeKeeps ==
    ASSUME SyncConstants, GrantInv, NEW realm \in Realms, Revoke(realm), scope' = scope
    PROVE  GrantInv'
<1>1. /\ live' = {token \in live : token.realm # realm}
      /\ UNCHANGED <<books, updates, issued, cred, latch, rows, reports, cursors, calls, clock, refused, amiss>>
  BY DEF Revoke, cache
<1>2. CountsTyped'
  BY <1>1, FaultCounted DEF Revoke, GrantInv, SyncTypeOK
<1>3. BooksTyped' /\ CallsTyped' /\ CacheTyped' /\ GrantTyped'
  BY <1>1, SettledTypes DEF GrantInv, SyncTypeOK, CacheTyped, GrantTyped
<1>4. RefusedIsBlocked' /\ FlagMeansDead' /\ TokensSound' /\ WalksUnthrottled'
  BY <1>1 DEF GrantInv, RefusedIsBlocked, RejectedIsNotRetried, FlagMeansDead, TokensSound,
              WalksUnthrottled, Sync
<1>5. SameFate'
  BY <1>1 DEF GrantInv, SameFate
<1>6. QED
  BY <1>2, <1>3, <1>4, <1>5 DEF GrantInv, SyncTypeOK

\* Empty tables.
LEMMA EmptyTyped ==
    ASSUME SyncConstants, GrantInv
    PROVE  /\ DOMAIN NoRows = WalkNames
           /\ \A e \in WalkNames : NoRows[e] \in [Records[e] -> {NoRow} \cup [realm : Realms, content : Contents]]
           /\ WipedReports \in [Periods -> {NoRow} \cup [realm : Realms]]
           /\ [p \in Periods |-> NoRow] \in [Periods -> {NoRow} \cup [realm : Realms]]
           /\ NoCursors \in [Entities -> Cursor] /\ \A e \in Entities : NoCursors[e].until = 0
<1>1. NoCursor \in Cursor /\ NoCursor.until = 0
  <2>1. Start \in Nat /\ updates \in Nat /\ clock \in Nat /\ RetryAfter \in Nat
    BY StartTyped, CountsFacts DEF GrantInv, SyncTypeOK, SyncConstants
  <2>2. 0 \in 0..(Start + updates) /\ 0 \in 0..(clock + RetryAfter) /\ 0 \in 0..clock
    BY <2>1
  <2>3. QED
    BY <2>2 DEF NoCursor, Cursor, Times
<1>2. QED
  BY <1>1 DEF GrantInv, SyncTypeOK, CacheTyped, NoRows, WipedReports, NoCursors

\* Tables that are left alone or emptied hold no new deadline.
LEMMA WipedKeeps ==
    ASSUME SyncConstants, GrantInv, Later,
           \/ UNCHANGED <<rows, reports, cursors>>
           \/ /\ rows' = NoRows /\ cursors' = NoCursors
              /\ reports' = WipedReports \/ reports' = [p \in Periods |-> NoRow]
    PROVE  CacheTyped' /\ (UNCHANGED calls => WalksUnthrottled')
<1>1. CASE UNCHANGED <<rows, reports, cursors>>
  BY <1>1, TablesKept DEF GrantInv, WalksUnthrottled, Sync
<1>2. CASE /\ rows' = NoRows /\ cursors' = NoCursors
           /\ reports' = WipedReports \/ reports' = [p \in Periods |-> NoRow]
  <2>1. CacheTyped'
    BY <1>2, EmptyTyped, TypesGrow DEF CacheTyped
  <2>2. UNCHANGED calls => WalksUnthrottled'
    <3>1. ASSUME UNCHANGED calls, Sync # Idle, Sync.at \in 1..Len(Walks), NEW e \in Entities
          PROVE  cursors'[e].until <= Sync.now
      <4>1. Sync.now \in 1..clock /\ clock \in Nat
        BY <3>1, SyncTyped, CountsFacts
           DEF GrantInv, SyncTypeOK, CallTyped, Refreshing, Moving, Asking, Writing, Reporting
      <4>2. QED
        BY <1>2, <4>1, EmptyTyped
    <3>2. QED
      BY <3>1 DEF WalksUnthrottled, Sync
  <2>3. QED
    BY <2>1, <2>2
<1>3. QED
  BY <1>1, <1>2

\* callback: a grant of the company is stored.
LEMMA ConnectKeeps ==
    ASSUME SyncConstants, GrantInv, NEW realm \in Realms, Connect(realm), scope' = scope
    PROVE  GrantInv'
<1>1. PICK token : token = [realm |-> realm, id |-> issued + 1]
  OBVIOUS
<1>2. /\ issued < scope.grants /\ issued' = issued + 1 /\ live' = live \cup {token}
      /\ cred' = [realm |-> realm, token |-> token, flag |-> FALSE] /\ latch' = FALSE
      /\ UNCHANGED <<books, updates, calls, clock, refused, failures>>
      /\ amiss \subseteq amiss' /\ amiss' \subseteq amiss \cup {"crossed", "kept"}
      /\ Busy => "crossed" \in amiss'
  BY <1>1 DEF Connect
<1>3. \/ UNCHANGED <<rows, reports, cursors>>
      \/ rows' = NoRows /\ cursors' = NoCursors /\ reports' = WipedReports
  BY DEF Connect, Wiped, cache
<1>4. CountsTyped' /\ Later
  <2>1. issued \in Nat /\ scope.grants \in Nat /\ CountsTyped
    BY CountsFacts, BoundsTyped DEF GrantInv, SyncTypeOK
  <2>2. CountsTyped'
    BY <1>2, <2>1 DEF CountsTyped
  <2>3. QED
    BY <1>2, <2>1, <2>2, CountsFacts DEF Later
<1>5. token \notin Token /\ token \in Token' /\ token.realm = realm /\ Token \subseteq Token'
  <2>1. token \notin Token /\ token \in Token' /\ token.realm = realm
    BY <1>1, <1>2, <1>4, NextIsNew DEF GrantInv
  <2>2. QED
    BY <1>4, <2>1, TypesGrow
<1>6. BooksTyped' /\ CacheTyped' /\ WalksUnthrottled'
  <2>1. BooksTyped'
    BY <1>2, <1>4, TablesKept DEF GrantInv
  <2>2. QED
    BY <1>2, <1>3, <1>4, <2>1, WipedKeeps
<1>7. CallsTyped'
  <2>1. ASSUME NEW t \in Threads PROVE CallTyped(t, calls[t])'
    <3>1. CallTyped(t, calls[t])
      BY DEF GrantInv, SyncTypeOK, CallsTyped
    <3>2. \A d : CallTyped(t, d) => CallTyped(t, d)'
      BY <1>4, CallGrows
    <3>3. QED
      BY <1>2, <3>1, <3>2 DEF CallTyped, Entry
  <2>2. QED
    BY <1>2, <2>1 DEF GrantInv, SyncTypeOK, CallsTyped
<1>8. GrantTyped'
  BY <1>2, <1>5 DEF GrantInv, SyncTypeOK, GrantTyped
<1>9. cred' # NoCred /\ cred'.token = token /\ cred'.realm = realm /\ cred'.flag = FALSE
  BY <1>2 DEF NoCred
<1>10. token \notin refused /\ \A t \in Threads : calls[t] # Idle => calls[t].token \in Token
  <2>1. ASSUME NEW t \in Threads, calls[t] # Idle PROVE calls[t].token \in Token
    <3>1. CallTyped(t, calls[t])
      BY DEF GrantInv, SyncTypeOK, CallsTyped
    <3>2. QED
      BY <2>1, <3>1 DEF CallTyped, Refreshing, Moving, Asking, Writing, Reporting
  <2>2. QED
    BY <1>5, <2>1 DEF GrantInv, SyncTypeOK, GrantTyped
<1>11. RefusedIsBlocked' /\ FlagMeansDead'
  BY <1>2, <1>9, <1>10 DEF RefusedIsBlocked, RejectedIsNotRetried, FlagMeansDead
<1>12. TokensSound'
  <2>1. "misjudged" \notin amiss => refused' \cap live' = {}
    BY <1>2, <1>10 DEF GrantInv, TokensSound
  <2>2. ASSUME "misjudged" \notin amiss, NEW t \in Threads, calls[t].pc = "mark"
        PROVE  calls[t].token \notin live'
    BY <1>2, <1>5, <1>10, <2>2 DEF GrantInv, TokensSound, Idle
  <2>3. ASSUME NEW t \in Threads, calls[t].pc = "persist" PROVE calls[t].token # token
    BY <1>5, <1>10, <2>3 DEF Idle
  <2>4. QED
    BY <1>2, <1>9, <2>1, <2>2, <2>3 DEF GrantInv, TokensSound
<1>13. SameFate'
  BY <1>2, <1>5, <1>9 DEF SameFate, Busy
<1>14. QED
  BY <1>4, <1>6, <1>7, <1>8, <1>11, <1>12, <1>13 DEF GrantInv, SyncTypeOK

\* delete_credential, with or without the cached data.
LEMMA DisconnectKeeps ==
    ASSUME SyncConstants, GrantInv, Disconnect, scope' = scope
    PROVE  GrantInv'
<1>1. /\ cred' = NoCred /\ UNCHANGED <<books, updates, live, issued, latch, calls, clock, refused, failures>>
      /\ amiss \subseteq amiss' /\ amiss' \subseteq amiss \cup {"crossed"} /\ (Busy => "crossed" \in amiss')
  BY DEF Disconnect, provider
<1>2. \/ UNCHANGED <<rows, reports, cursors>>
      \/ rows' = NoRows /\ cursors' = NoCursors /\ reports' = [p \in Periods |-> NoRow]
  BY DEF Disconnect, cache
<1>3. CountsTyped' /\ Later
  BY <1>1, CountsFacts DEF GrantInv, SyncTypeOK, CountsTyped, Later
<1>4. BooksTyped' /\ CallsTyped' /\ CacheTyped' /\ WalksUnthrottled' /\ GrantTyped'
  <2>1. CacheTyped' /\ WalksUnthrottled'
    BY <1>1, <1>2, <1>3, WipedKeeps
  <2>2. BooksTyped' /\ CallsTyped' /\ GrantTyped'
    BY <1>1, SettledTypes DEF GrantInv, SyncTypeOK, GrantTyped
  <2>3. QED
    BY <2>1, <2>2
<1>5. QED
  BY <1>1, <1>3, <1>4 DEF GrantInv, SyncTypeOK, RefusedIsBlocked, RejectedIsNotRetried, FlagMeansDead,
                          TokensSound, SameFate, Busy

\* The process restarts.
LEMMA RestartKeeps ==
    ASSUME SyncConstants, GrantInv, Restart, scope' = scope
    PROVE  GrantInv'
<1>1. /\ calls' = [t \in Threads |-> Idle] /\ latch' = FALSE /\ refused' = {}
      /\ UNCHANGED <<books, updates, live, issued, cred, rows, reports, cursors, clock, amiss>>
  BY DEF Restart, provider, cache
<1>2. CountsTyped' /\ Later
  <2>1. CountsTyped'
    BY <1>1, FaultCounted DEF Restart, GrantInv, SyncTypeOK
  <2>2. QED
    BY <1>1, <2>1, CountsFacts DEF Later, GrantInv, SyncTypeOK
<1>3. BooksTyped' /\ CacheTyped' /\ GrantTyped'
  <2>1. BooksTyped' /\ CacheTyped'
    BY <1>1, <1>2, TablesKept DEF GrantInv
  <2>2. GrantTyped'
    BY <1>1 DEF GrantInv, SyncTypeOK, GrantTyped, Token
  <2>3. QED
    BY <2>1, <2>2
<1>4. CallsTyped'
  BY <1>1 DEF CallsTyped, CallTyped, Idle
<1>5. \A t \in Threads : calls'[t] = Idle
  BY <1>1
<1>6. RefusedIsBlocked' /\ FlagMeansDead' /\ TokensSound' /\ SameFate' /\ WalksUnthrottled'
  BY <1>1, <1>5 DEF GrantInv, RefusedIsBlocked, RejectedIsNotRetried, FlagMeansDead, TokensSound,
                    SameFate, WalksUnthrottled, Sync, Threads, Idle
<1>7. QED
  BY <1>2, <1>3, <1>4, <1>6 DEF GrantInv, SyncTypeOK

\* The state a process starts from.
LEMMA InitSound ==
    ASSUME SyncConstants, SyncInit
    PROVE  GrantInv
<1>1. CountsTyped
  <2>1. scope \in Scopes
    BY DEF SyncInit
  <2>2. QED
    BY <2>1, BoundsTyped DEF SyncInit, CountsTyped
<1>2. 0 \in Times /\ Entered \subseteq Times /\ NoCursor \in Cursor
  <2>1. Start \in Nat /\ updates = 0 /\ clock = 0 /\ RetryAfter \in Nat /\ \A r \in Entered : r <= Start
    BY StartTyped DEF SyncInit, SyncConstants
  <2>2. Entered \subseteq Nat \ {0}
    BY DEF SyncConstants
  <2>3. 0 \in Times /\ Entered \subseteq Times
    BY <2>1, <2>2 DEF Times
  <2>4. QED
    BY <2>1, <2>3 DEF NoCursor, Cursor
<1>3. BooksTyped
  <2>1. PICK content \in Contents :
          books = [realm \in Realms |-> [e \in WalkNames |-> [r \in Records[e] |->
                      IF r \in Entered THEN [content |-> content, at |-> r] ELSE NoRow]]]
    BY DEF SyncInit
  <2>2. ASSUME NEW realm \in Realms, NEW e \in WalkNames
        PROVE  books[realm][e] \in [Records[e] -> {NoRow} \cup [content : Contents, at : Times]]
    <3>1. books[realm][e] = [r \in Records[e] |->
                      IF r \in Entered THEN [content |-> content, at |-> r] ELSE NoRow]
      BY <2>1
    <3>2. ASSUME NEW r \in Records[e]
          PROVE  (IF r \in Entered THEN [content |-> content, at |-> r] ELSE NoRow)
                    \in {NoRow} \cup [content : Contents, at : Times]
      BY <1>2
    <3>3. QED
      BY <3>1, <3>2
  <2>3. QED
    BY <2>1, <2>2 DEF BooksTyped
<1>4. CacheTyped /\ GrantTyped /\ CallsTyped
  BY <1>2 DEF SyncInit, CacheTyped, GrantTyped, CallsTyped, CallTyped, Idle
<1>5. \A t \in Threads : calls[t] = Idle
  BY DEF SyncInit
<1>6. RefusedIsBlocked /\ FlagMeansDead /\ TokensSound /\ SameFate /\ WalksUnthrottled
  BY <1>5 DEF SyncInit, RefusedIsBlocked, RejectedIsNotRetried, FlagMeansDead, TokensSound, SameFate,
              WalksUnthrottled, Sync, Threads, Idle
<1>7. QED
  BY <1>1, <1>3, <1>4, <1>6 DEF GrantInv, SyncTypeOK

\* Every step keeps GrantInv.
LEMMA StepKeeps ==
    ASSUME SyncConstants, GrantInv, SyncNext
    PROVE  GrantInv'
<1>1. scope' = scope
  BY DEF SyncNext
<1>2. CASE \E realm \in Realms, e \in WalkNames, content \in Contents :
              \E r \in Records[e] : Update(realm, e, r, content)
  BY <1>1, <1>2, UpdateKeeps
<1>3. CASE \E token \in live : TokenDies(token)
  BY <1>1, <1>3, TokenDiesKeeps
<1>4. CASE \E realm \in Realms : Connect(realm) \/ Revoke(realm)
  BY <1>1, <1>4, ConnectKeeps, RevokeKeeps
<1>5. CASE Disconnect \/ Restart
  BY <1>1, <1>5, DisconnectKeeps, RestartKeeps
<1>6. CASE \E t \in Threads : Begin(t) \/ Granted(t) \/ Rejected(t) \/ RefreshFails(t)
                              \/ Persist(t) \/ Mark(t) \/ WriteFails(t) \/ Fails(t)
  BY <1>1, <1>6, BeginKeeps, GrantedKeeps, RejectedKeeps, FailKeeps, PersistKeeps, MarkKeeps,
     WriteFailKeeps
<1>7. CASE Ask \/ PageArrives \/ Limited \/ Expired \/ FetchFails \/ Upsert \/ Advance \/ ApplyFails
  BY <1>1, <1>7, AskKeeps, PageKeeps, LimitedKeeps, ExpiredKeeps, FetchFailKeeps, UpsertKeeps,
     AdvanceKeeps, EndsKeep
<1>8. CASE ReportsBegin \/ ReportArrives \/ ReportFails \/ ReportsEnd \/ CycleEnds
  BY <1>1, <1>8, ReportsBeginKeeps, ReportKeeps, ReportFailKeeps, ReportsEndKeeps, EndsKeep
<1>9. QED
  BY <1>2, <1>3, <1>4, <1>5, <1>6, <1>7, <1>8 DEF SyncNext, Step

\* A stuttering step keeps it too.
LEMMA StutterKeeps ==
    ASSUME GrantInv, UNCHANGED syncVars
    PROVE  GrantInv'
<1>1. UNCHANGED <<books, updates, live, issued, cred, latch, rows, reports, cursors, calls, clock,
                  refused, amiss, failures, scope>>
  BY DEF syncVars, provider, cache
<1>2. CountsTyped' /\ BooksTyped' /\ GrantTyped' /\ CacheTyped'
  BY <1>1 DEF GrantInv, SyncTypeOK, CountsTyped, BooksTyped, GrantTyped, CacheTyped, Times, Token, Cursor
<1>3. CallsTyped'
  BY <1>1 DEF GrantInv, SyncTypeOK, CallsTyped, CallTyped, Times, Token, Cursor, Refreshing, Moving, Asking,
              Writing, Reporting, Spent, Entry
<1>4. QED
  BY <1>1, <1>2, <1>3 DEF GrantInv, SyncTypeOK, RefusedIsBlocked, RejectedIsNotRetried, FlagMeansDead,
                          TokensSound, SameFate, WalksUnthrottled, Sync

\* The grant of the accounting integration (slices/accounting/store.rs, worker.rs,
\* the token refresh it shares with the courier): for any companies, entities,
\* bounds and interleaving, a refused token that is still stored stands behind the
\* latch or the durable flag unless a cycle refreshed twice, and the operator is
\* sent to reconnect only when the stored grant is dead.
THEOREM GrantsAreSafe == SyncSpec => []GrantInv
<1> SyncConstants
  BY BudgetAssumption, NamesAssumption DEF SyncConstants
<1>1. SyncInit => GrantInv
  BY InitSound
<1>2. GrantInv /\ [SyncNext]_syncVars => GrantInv'
  BY StepKeeps, StutterKeeps
<1>3. QED
  BY <1>1, <1>2, PTL DEF SyncSpec

\* Only Ask takes a cycle from one entity to a request.
LEMMA OnlyAskAsks ==
    ASSUME GrantInv, SyncNext, Sync.pc = "next", Sync'.pc = "asked"
    PROVE  Ask
<1>1. Sync # Idle /\ Sync' # Sync /\ CallsTyped
  BY DEF Idle, GrantInv, SyncTypeOK
<1>2. ASSUME NEW t \in Threads, NEW c, Goto(t, c)
      PROVE  t = "sync" /\ Sync' = c
  BY <1>1, <1>2, OneMoves DEF Sync, Threads
<1>3. ASSUME NEW realm \in Realms, NEW e \in WalkNames, NEW content \in Contents, NEW r \in Records[e],
             Update(realm, e, r, content)
      PROVE  FALSE
  BY <1>1, <1>3 DEF Update, Sync
<1>4. ASSUME NEW token \in live, TokenDies(token) PROVE FALSE
  BY <1>1, <1>4 DEF TokenDies, Sync
<1>5. ASSUME NEW realm \in Realms, Connect(realm) \/ Revoke(realm) PROVE FALSE
  BY <1>1, <1>5 DEF Connect, Revoke, Sync
<1>6. ~Disconnect /\ ~Restart
  BY <1>1 DEF Disconnect, Restart, Sync, Threads, Idle
<1>7. ASSUME NEW t \in Threads, \/ Begin(t) \/ Granted(t) \/ Rejected(t) \/ RefreshFails(t)
                                \/ Persist(t) \/ Mark(t) \/ WriteFails(t) \/ Fails(t)
      PROVE  FALSE
  <2>1. \E c : Goto(t, c)
    BY <1>7 DEF Begin, Granted, Rejected, RefreshFails, Persist, Mark, WriteFails, Fails, FailedCycle
  <2>2. t = "sync"
    BY <1>2, <2>1
  <2>3. calls[t].pc = "next" /\ calls[t] # Idle
    BY <1>1, <2>2 DEF Sync
  <2>4. QED
    BY <1>7, <2>3 DEF Begin, Granted, Rejected, RefreshFails, Persist, Mark, WriteFails, Fails
<1>8. ~PageArrives /\ ~Limited /\ ~Expired /\ ~FetchFails /\ ~Upsert /\ ~Advance /\ ~ApplyFails
  BY DEF PageArrives, Limited, Expired, FetchFails, Upsert, Advance, ApplyFails
<1>9. ~ReportArrives /\ ~ReportFails /\ ~ReportsEnd
  BY DEF ReportArrives, ReportFails, ReportsEnd
<1>10. ~ReportsBegin
  <2>1. ASSUME ReportsBegin PROVE FALSE
    <3>1. PICK c : /\ Goto("sync", c)
                   /\ c = NextOf(Sync, Sync.at + 1) \/ \E d, due : c = ReportsOf(Sync, d, due)
      BY <2>1 DEF ReportsBegin
    <3>2. c.pc # "asked"
      BY <3>1 DEF NextOf, ReportsOf
    <3>3. QED
      BY <1>2, <3>1, <3>2 DEF Threads
  <2>2. QED
    BY <2>1
<1>11. ~CycleEnds
  BY <1>2 DEF CycleEnds, Threads, Idle
<1>12. QED
  BY <1>3, <1>4, <1>5, <1>6, <1>7, <1>8, <1>9, <1>10, <1>11 DEF SyncNext, Step

\* "providers throttle the account, not one entity" (run_sync_cycle): whichever
\* entity or report group the deadline was stamped on, in whichever cycle, no page
\* is asked for before it has passed.
THEOREM CyclesStandDown == SyncSpec => StandsDown
<1> SyncConstants
  BY BudgetAssumption, NamesAssumption DEF SyncConstants
<1>1. GrantInv /\ [SyncNext]_syncVars =>
        [Sync.pc = "next" /\ Sync'.pc = "asked" => \A e \in Entities : cursors[e].until <= Sync.now]_syncVars
  <2>1. ASSUME GrantInv, SyncNext, Sync.pc = "next", Sync'.pc = "asked"
        PROVE  \A e \in Entities : cursors[e].until <= Sync.now
    <3>1. Ask
      BY <2>1, OnlyAskAsks
    <3>2. Sync # Idle /\ Sync.at \in 1..Len(Walks)
      <4>1. Sync \in Moving
        BY <2>1, SyncTyped, NextCall
      <4>2. Sync.at \in Nat \ {0} /\ Sync.at <= Len(Walks)
        BY <3>1, <4>1, PlacesTyped DEF Ask, Moving
      <4>3. QED
        BY <2>1, <4>2, PlacesTyped DEF Idle
    <3>3. QED
      BY <2>1, <3>2 DEF GrantInv, WalksUnthrottled
  <2>2. QED
    BY <2>1
<1>2. SyncSpec => []GrantInv
  BY GrantsAreSafe
<1>3. QED
  BY <1>1, <1>2, PTL DEF SyncSpec, StandsDown

-----------------------------------------------------------------------------
(* The order of a book.                                                     *)

\* A company's records of one entity.
Book(R) == [R -> {NoRow} \cup [content : Contents, at : Nat]]

\* What matches is in the book, finitely often.
LEMMA MatchingTyped ==
    ASSUME NEW R, R \subseteq Nat, IsFiniteSet(R), NEW book \in Book(R), NEW since \in Nat
    PROVE  /\ Matching(book, since) \subseteq R /\ IsFiniteSet(Matching(book, since))
           /\ \A r \in Matching(book, since) :
                 /\ book[r] \in [content : Contents, at : Nat] /\ r \in Nat
                 /\ book[r] # NoRow /\ book[r].at >= since
<1>1. Matching(book, since) \subseteq R
  BY DEF Matching, Book
<1>2. QED
  BY <1>1, FS_Subset DEF Matching, Book

\* Positions are numbers, and follow the order.
LEMMA PositionOrder ==
    ASSUME NEW R, R \subseteq Nat, IsFiniteSet(R), NEW book \in Book(R), NEW since \in Nat
    PROVE  /\ \A r : Position(book, since, r) \in Nat \ {0}
           /\ \A q, r \in Matching(book, since) :
                 Before(book, q, r) => Position(book, since, q) < Position(book, since, r)
           /\ \A q, r \in Matching(book, since) : q = r \/ Before(book, q, r) \/ Before(book, r, q)
<1> DEFINE M == Matching(book, since)
           Pre(r) == {q \in M : Before(book, q, r)}
<1>1. /\ IsFiniteSet(M)
      /\ \A r \in M : book[r].at \in Nat /\ r \in Nat
  BY MatchingTyped
<1>2. \A r : IsFiniteSet(Pre(r)) /\ Cardinality(Pre(r)) \in Nat
  <2>1. TAKE r
  <2>2. Pre(r) \in SUBSET M
    OBVIOUS
  <2>3. QED
    BY <1>1, <2>2, FS_Subset, FS_CardinalityType
<1>3. \A r : Position(book, since, r) = 1 + Cardinality(Pre(r))
  BY DEF Position
<1>4. ASSUME NEW q \in M, NEW r \in M, Before(book, q, r)
      PROVE  Position(book, since, q) < Position(book, since, r)
  <2>1. ASSUME NEW x \in Pre(q) PROVE x \in Pre(r)
    BY <1>1, <1>4, <2>1 DEF Before
  <2>2. q \in Pre(r) /\ q \notin Pre(q)
    BY <1>1, <1>4 DEF Before
  <2>3. Pre(q) \in SUBSET Pre(r) /\ Pre(q) # Pre(r)
    BY <2>1, <2>2
  <2>4. Cardinality(Pre(q)) < Cardinality(Pre(r))
    <3> HIDE DEF Pre
    <3>1. Cardinality(Pre(q)) <= Cardinality(Pre(r)) /\ Cardinality(Pre(r)) # Cardinality(Pre(q))
      BY <1>2, <2>3, FS_Subset
    <3>2. QED
      BY <1>2, <3>1
  <2>5. QED
    BY <1>2, <1>3, <2>4
<1>5. \A q, r \in M : q = r \/ Before(book, q, r) \/ Before(book, r, q)
  BY <1>1 DEF Before
<1>6. \A r : Position(book, since, r) \in Nat \ {0}
  <2> HIDE DEF Pre
  <2>1. QED
    BY <1>2, <1>3
<1>7. QED
  BY <1>4, <1>5, <1>6

\* So they tell records apart, and an earlier record has an earlier position.
LEMMA PositionFacts ==
    ASSUME NEW R, R \subseteq Nat, IsFiniteSet(R), NEW book \in Book(R), NEW since \in Nat,
           NEW q \in Matching(book, since), NEW r \in Matching(book, since)
    PROVE  /\ Position(book, since, q) = Position(book, since, r) => q = r
           /\ book[q].at < book[r].at => Position(book, since, q) < Position(book, since, r)
           /\ Position(book, since, q) <= Position(book, since, r) => book[q].at <= book[r].at
<1>1. /\ q = r \/ Before(book, q, r) \/ Before(book, r, q)
      /\ Before(book, q, r) => Position(book, since, q) < Position(book, since, r)
      /\ Before(book, r, q) => Position(book, since, r) < Position(book, since, q)
      /\ Position(book, since, q) \in Nat /\ Position(book, since, r) \in Nat
  BY PositionOrder
<1>2. book[q].at \in Nat /\ book[r].at \in Nat
  BY MatchingTyped
<1>3. book[q].at < book[r].at => Before(book, q, r)
  BY DEF Before
<1>4. Before(book, q, r) => book[q].at <= book[r].at
  BY <1>2 DEF Before
<1>5. QED
  BY <1>1, <1>2, <1>3, <1>4

\* A full page ends PageSize positions after it began, and more may follow.
EndsFull(book, since, pos) ==
    \E q \in Page(book, since, pos) : Position(book, since, q) = pos + PageSize - 1

\* A full page has a last record, at its last position.
LEMMA FullPage ==
    ASSUME PageSize \in Nat \ {0}, NEW R, R \subseteq Nat, IsFiniteSet(R), NEW book \in Book(R), NEW since \in Nat,
           NEW pos \in Nat \ {0}, Cardinality(Page(book, since, pos)) = PageSize
    PROVE  EndsFull(book, since, pos)
<1> DEFINE P == Page(book, since, pos)
           T == pos..(pos + PageSize - 2)
           f == [q \in P |-> Position(book, since, q)]
<1>1. SUFFICES ASSUME \A q \in P : Position(book, since, q) # pos + PageSize - 1
               PROVE  FALSE
  BY DEF EndsFull
<1>2. IsFiniteSet(P) /\ P \subseteq Matching(book, since)
  <2>1. P \in SUBSET Matching(book, since)
    BY DEF Page
  <2>2. QED
    BY <2>1, MatchingTyped, FS_Subset
<1>3. \A q \in P : Position(book, since, q) \in T
  <2>1. \A q \in P : /\ Position(book, since, q) \in Nat /\ Position(book, since, q) >= pos
                     /\ Position(book, since, q) < pos + PageSize
    BY PositionOrder DEF Page
  <2>2. QED
    BY <1>1, <2>1
<1>4. IsFiniteSet(T) /\ Cardinality(T) < PageSize
  BY FS_Interval
<1>5. f \in [P -> T]
  BY <1>3
<1>6. Cardinality(P) = PageSize
  OBVIOUS
<1>7. \E x, y \in P : x # y /\ f[x] = f[y]
  <2> HIDE DEF P, T, f
  <2>1. QED
    BY <1>2, <1>4, <1>5, <1>6, FS_PigeonHole
<1>8. QED
  BY <1>2, <1>7, PositionFacts

\* A record is entered now: after all the others.
Enters(R, book, r, content, now, after) ==
    /\ R \subseteq Nat /\ IsFiniteSet(R) /\ book \in Book(R) /\ r \in R /\ book[r] = NoRow
    /\ content \in Contents /\ now \in Nat /\ \A q \in R : book[q] # NoRow => book[q].at < now
    /\ after = [book EXCEPT ![r] = [content |-> content, at |-> now]]

\* Then it is behind every place a walk may stand at.
ComesLast(R, book, r, content, now, after, since) ==
    /\ after \in Book(R) /\ \A q \in R : q # r => after[q] = book[q]
    /\ after[r] = [content |-> content, at |-> now]
    /\ Matching(after, since) = Matching(book, since) \cup {r} /\ r \notin Matching(book, since)
    /\ \A q \in Matching(book, since) :
          /\ after[q] = book[q] /\ Position(after, since, q) = Position(book, since, q)
          /\ Position(after, since, q) < Position(after, since, r)

\* A record that is entered now comes last, and leaves the others where they are.
LEMMA EnteredLast ==
    ASSUME NEW R, NEW book, NEW r, NEW content, NEW now, NEW after,
           Enters(R, book, r, content, now, after), NEW since \in Nat, since <= now
    PROVE  ComesLast(R, book, r, content, now, after, since)
<1> USE DEF Enters
<1>1. after \in Book(R) /\ after[r] = [content |-> content, at |-> now] /\ \A q \in R : q # r => after[q] = book[q]
  BY DEF Book
<1>2. after[r] # NoRow /\ after[r].at = now
  <2>1. PICK row : row = [content |-> content, at |-> now]
    OBVIOUS
  <2>2. row # NoRow /\ row.at = now
    BY <2>1 DEF NoRow
  <2>3. QED
    BY <1>1, <2>1, <2>2
<1>3. Matching(after, since) = Matching(book, since) \cup {r} /\ r \notin Matching(book, since)
  BY <1>1, <1>2 DEF Matching, Book
<1>4. ASSUME NEW q \in Matching(book, since)
      PROVE  /\ after[q] = book[q] /\ Position(after, since, q) = Position(book, since, q)
             /\ Position(after, since, q) < Position(after, since, r)
  <2>1. q \in R /\ q # r /\ book[q].at \in Nat /\ book[q].at < now
    BY <1>3, MatchingTyped
  <2>2. ~Before(after, r, q) /\ Before(after, q, r)
    BY <1>1, <1>2, <2>1 DEF Before
  <2>3. \A x \in Matching(book, since) : Before(after, x, q) <=> Before(book, x, q)
    BY <1>1, <1>3, <2>1, MatchingTyped DEF Before
  <2>4. {x \in Matching(after, since) : Before(after, x, q)} = {x \in Matching(book, since) : Before(book, x, q)}
    BY <1>3, <2>2, <2>3
  <2>5. Position(after, since, q) < Position(after, since, r)
    BY <1>1, <1>3, <2>2, PositionOrder
  <2>6. QED
    BY <1>1, <2>1, <2>4, <2>5 DEF Position
<1>5. QED
  BY <1>1, <1>3, <1>4 DEF ComesLast

-----------------------------------------------------------------------------
(* What the walks rest on, for one book, one table and one cursor.          *)

\* The part of a cursor that a walk reads.
Marks(c) ==
    /\ c.high \in Nat /\ c.since \in Nat /\ c.max \in Nat /\ c.pos \in Nat \ {0}
    /\ c.pos = 1 => c.since = 0 /\ c.max = 0

\* What a record that is entered now leaves cached, and leaves behind the cursor.
LEMMA EnteredKeepsWalk ==
    ASSUME NEW R, NEW book, NEW r, NEW content, NEW now, NEW after, Enters(R, book, r, content, now, after),
           NEW realm, NEW table, NEW c, Marks(c), c.high <= now, c.since <= now,
           WalkCached(realm, book, table, c), WalkBacked(book, c)
    PROVE  WalkCached(realm, after, table, c) /\ WalkBacked(after, c)
<1>0. /\ c.since \in Nat /\ 0 \in Nat /\ 0 <= now /\ c.high \in Nat /\ c.pos \in Nat \ {0}
      /\ R \subseteq Nat /\ IsFiniteSet(R) /\ now \in Nat
  BY DEF Marks, Enters
<1>a. ComesLast(R, book, r, content, now, after, 0) /\ ComesLast(R, book, r, content, now, after, c.since)
  BY <1>0, EnteredLast
<1>1. /\ after \in Book(R) /\ after[r] = [content |-> content, at |-> now]
      /\ Matching(after, 0) = Matching(book, 0) \cup {r}
      /\ \A q \in Matching(book, 0) : after[q] = book[q]
  BY <1>a DEF ComesLast
<1>2. /\ Matching(after, c.since) = Matching(book, c.since) \cup {r}
      /\ \A q \in Matching(book, c.since) :
            /\ after[q] = book[q] /\ Position(after, c.since, q) = Position(book, c.since, q)
            /\ Position(after, c.since, q) < Position(after, c.since, r)
  BY <1>a DEF ComesLast
<1>3. ASSUME NEW q \in Matching(after, 0), after[q].at < c.high
      PROVE  IsCached(realm, after, table, q)
  <2>1. q # r
    BY <1>0, <1>1, <1>3
  <2>2. QED
    BY <1>1, <1>3, <2>1 DEF WalkCached, IsCached
<1>4. Position(after, c.since, r) >= c.pos
  <2>1. Position(after, c.since, r) \in Nat \ {0}
    BY <1>0, <1>1, PositionOrder, Zenon
  <2>2. CASE c.pos = 1
    BY <2>1, <2>2
  <2>3. CASE c.pos > 1
    <3>1. PICK q \in Matching(book, c.since) : Position(book, c.since, q) = c.pos - 1
      BY <2>3 DEF WalkBacked
    <3>2. c.pos - 1 < Position(after, c.since, r)
      BY <1>2, <3>1
    <3>3. QED
      BY <1>0, <2>1, <3>2
  <2>4. QED
    BY <1>0, <2>2, <2>3
<1>5. ASSUME NEW q \in Matching(after, c.since), Position(after, c.since, q) < c.pos
      PROVE  IsCached(realm, after, table, q)
  <2>1. q # r
    <3>1. Position(after, c.since, r) \in Nat \ {0}
      BY <1>0, <1>1, PositionOrder, Zenon
    <3>2. QED
      BY <1>0, <1>4, <1>5, <3>1
  <2>2. QED
    BY <1>2, <1>5, <2>1 DEF WalkCached, IsCached
<1>6. WalkBacked(after, c)
  BY <1>1, <1>2 DEF WalkBacked
<1>7. QED
  BY <1>3, <1>5, <1>6 DEF WalkCached

\* The same for a page whose rows are being written.
LEMMA EnteredKeepsPage ==
    ASSUME PageSize \in Nat \ {0}, NEW R, NEW book, NEW r, NEW content, NEW now, NEW after, Enters(R, book, r, content, now, after),
           NEW table, NEW call, call.since \in Nat, call.since <= now, call.max \in Nat, call.max <= now,
           call.cursor.pos \in Nat \ {0}, PageHeld(call, book, table)
    PROVE  PageHeld(call, after, table)
<1>0. 0 \in Nat /\ 0 <= now /\ R \subseteq Nat /\ IsFiniteSet(R) /\ now \in Nat
  BY DEF Enters
<1>s. PICK s : s = call.since
  OBVIOUS
<1>a. ComesLast(R, book, r, content, now, after, 0) /\ ComesLast(R, book, r, content, now, after, s)
  BY <1>0, <1>s, EnteredLast
<1>1. /\ after \in Book(R) /\ after[r] = [content |-> content, at |-> now]
      /\ Matching(after, 0) = Matching(book, 0) \cup {r}
      /\ \A q \in Matching(book, 0) : after[q] = book[q]
  BY <1>a DEF ComesLast
<1>2. /\ Matching(after, s) = Matching(book, s) \cup {r}
      /\ \A q \in Matching(book, s) :
            /\ after[q] = book[q] /\ Position(after, s, q) = Position(book, s, q)
            /\ Position(after, s, q) < Position(after, s, r)
  BY <1>a DEF ComesLast
<1>3. Position(after, s, r) \in Nat \ {0}
  BY <1>0, <1>1, <1>s, PositionOrder, Zenon
<1>4. call.full => Position(after, s, r) >= call.cursor.pos + PageSize
  <2>1. ASSUME call.full PROVE Position(after, s, r) >= call.cursor.pos + PageSize
    <3>1. PICK q \in Matching(book, s) : Position(book, s, q) = call.cursor.pos + PageSize - 1
      BY <1>s, <2>1 DEF PageHeld
    <3>2. call.cursor.pos + PageSize - 1 < Position(after, s, r)
      BY <1>2, <3>1
    <3>3. QED
      BY <1>3, <3>2
  <2>2. QED
    BY <2>1
<1>5. ASSUME NEW entry \in call.page
      PROVE  entry.rec \in Matching(after, s) /\ after[entry.rec].content = entry.content
  BY <1>2, <1>s DEF PageHeld
<1>6. ASSUME NEW q \in Matching(after, s), Position(after, s, q) >= call.cursor.pos,
             IF call.full THEN Position(after, s, q) < call.cursor.pos + PageSize ELSE after[q].at < call.max
      PROVE  \/ IsCached(call.realm, after, table, q)
             \/ [rec |-> q, content |-> after[q].content] \in call.page
  <2>1. q # r
    <3>1. ~(now < call.max) /\ after[r].at = now
      BY <1>0, <1>1
    <3>2. call.full => ~(Position(after, s, r) < call.cursor.pos + PageSize)
      BY <1>3, <1>4
    <3>3. QED
      BY <1>6, <3>1, <3>2
  <2>2. q \in Matching(book, s) /\ after[q] = book[q] /\ Position(after, s, q) = Position(book, s, q)
    BY <1>2, <2>1
  <2>3. \/ IsCached(call.realm, book, table, q)
        \/ [rec |-> q, content |-> book[q].content] \in call.page
    BY <1>6, <1>s, <2>2 DEF PageHeld
  <2>4. QED
    BY <2>2, <2>3 DEF IsCached
<1>7. call.max > 0 => \E q \in Matching(after, 0) : after[q].at >= call.max
  BY <1>1 DEF PageHeld
<1>8. call.full => \E q \in Matching(after, s) :
                      Position(after, s, q) = call.cursor.pos + PageSize - 1 /\ after[q].at >= call.max
  BY <1>2, <1>s DEF PageHeld
<1>9. call.full \/ call.max > 0 => call.page # {} \/ Filled(table)
  BY DEF PageHeld
<1>10. QED
  BY <1>5, <1>6, <1>7, <1>8, <1>9, <1>s DEF PageHeld

\* A record changes, with the latest time.
Changes(R, book, r, content, at, after) ==
    /\ R \subseteq Nat /\ IsFiniteSet(R) /\ book \in Book(R) /\ r \in R
    /\ content \in Contents /\ at \in Nat /\ \A q \in R : book[q] # NoRow => book[q].at <= at
    /\ after = [book EXCEPT ![r] = [content |-> content, at |-> at]]

\* A record that changes between walks has the latest time: it is not behind the
\* high-water mark any more.
LEMMA ChangedKeepsWalk ==
    ASSUME NEW R, NEW book, NEW r, NEW content, NEW at, NEW after, Changes(R, book, r, content, at, after),
           NEW realm, NEW table, NEW c, Marks(c), c.pos = 1,
           WalkCached(realm, book, table, c), WalkBacked(book, c)
    PROVE  WalkCached(realm, after, table, c) /\ WalkBacked(after, c)
<1> USE DEF Changes
<1>1. /\ after \in Book(R) /\ after[r] = [content |-> content, at |-> at]
      /\ \A q \in R : q # r => after[q] = book[q]
  BY DEF Book
<1>2. after[r] # NoRow /\ after[r].at = at
  <2>1. PICK row : row = [content |-> content, at |-> at]
    OBVIOUS
  <2>2. row # NoRow /\ row.at = at
    BY <2>1 DEF NoRow
  <2>3. QED
    BY <1>1, <2>1, <2>2
<1>3. Matching(after, 0) = Matching(book, 0) \cup {r}
  BY <1>1, <1>2 DEF Matching, Book
<1>4. c.high \in Nat /\ c.high <= at /\ c.since = 0
  <2>1. c.high \in Nat /\ c.since = 0
    BY DEF Marks
  <2>2. c.high > 0 => \E q \in Matching(book, 0) : book[q].at >= c.high
    BY DEF WalkBacked
  <2>3. \A q \in Matching(book, 0) : book[q].at \in Nat /\ book[q].at <= at
    BY MatchingTyped
  <2>4. QED
    BY <2>1, <2>2, <2>3
<1>5. ASSUME NEW q \in Matching(after, 0), after[q].at < c.high
      PROVE  IsCached(realm, after, table, q)
  <2>1. q # r
    BY <1>2, <1>4, <1>5
  <2>2. q \in Matching(book, 0) /\ after[q] = book[q]
    BY <1>1, <1>3, <2>1, MatchingTyped
  <2>3. QED
    BY <1>5, <2>2 DEF WalkCached, IsCached
<1>6. ASSUME NEW q \in Matching(after, c.since), Position(after, c.since, q) < c.pos
      PROVE  FALSE
  <2>0. c.since \in Nat
    BY <1>4
  <2>1. Position(after, c.since, q) \in Nat \ {0}
    BY <1>1, <2>0, PositionOrder, Zenon
  <2>2. QED
    BY <1>6, <2>1
<1>7. WalkBacked(after, c)
  <2>1. c.high > 0 => r \in Matching(after, 0) /\ after[r].at >= c.high
    BY <1>2, <1>3, <1>4
  <2>2. QED
    BY <2>1 DEF WalkBacked
<1>8. QED
  BY <1>5, <1>6, <1>7 DEF WalkCached

\* A row that is written as the book has it leaves the others cached.
LEMMA UpsertKeepsWalk ==
    ASSUME NEW realm, NEW book, NEW table, NEW c, WalkCached(realm, book, table, c), NEW x \in DOMAIN table,
           NEW after, after = [table EXCEPT ![x] = Snapshot(realm, book[x].content)],
           Matching(book, 0) \subseteq DOMAIN table, Matching(book, c.since) \subseteq DOMAIN table
    PROVE  WalkCached(realm, book, after, c)
  BY DEF WalkCached, IsCached

\* A page that arrives is still to be written, all of it.
LEMMA ArrivedHeld ==
    ASSUME PageSize \in Nat \ {0}, NEW R, R \subseteq Nat, IsFiniteSet(R), NEW book \in Book(R), NEW table,
           NEW c, Marks(c), c.pos > 1 => c.since = c.high, c.high > 0 \/ c.pos > 1 => Filled(table),
           WalkBacked(book, c), NEW call, call.since = c.high, call.cursor = c,
           call.full = (Cardinality(Page(book, c.high, c.pos)) = PageSize),
           call.page = {[rec |-> r, content |-> book[r].content] : r \in Page(book, c.high, c.pos)},
           call.max \in Nat, c.max <= call.max, \A r \in Page(book, c.high, c.pos) : book[r].at <= call.max,
           call.max = c.max \/ \E r \in Page(book, c.high, c.pos) : call.max = book[r].at
    PROVE  PageHeld(call, book, table)
<1>1. PICK s : s = c.high
  OBVIOUS
<1>2. PICK P : P = Page(book, s, c.pos)
  OBVIOUS
<1>3. s \in Nat /\ c.pos \in Nat \ {0} /\ c.max \in Nat
  BY <1>1 DEF Marks
<1>4. /\ P \subseteq Matching(book, s)
      /\ \A r \in Matching(book, s) : 
            r \in P <=> Position(book, s, r) >= c.pos /\ Position(book, s, r) < c.pos + PageSize
  BY <1>2 DEF Page
<1>5. /\ \A r \in Matching(book, s) : r \in Matching(book, 0) /\ book[r].at \in Nat
      /\ \A r \in Matching(book, s) : Position(book, s, r) \in Nat \ {0}
  <2>1. \A r \in Matching(book, s) : book[r].at \in Nat /\ book[r].at >= s
    BY <1>3, MatchingTyped
  <2>2. \A r \in Matching(book, s) : r \in Matching(book, 0)
    BY <1>3, <2>1 DEF Matching
  <2>3. \A r : Position(book, s, r) \in Nat \ {0}
    BY <1>3, PositionOrder, Zenon
  <2>4. QED
    BY <2>1, <2>2, <2>3
<1>6. \A q, r \in Matching(book, s) :
         /\ book[q].at < book[r].at => Position(book, s, q) < Position(book, s, r)
         /\ Position(book, s, q) <= Position(book, s, r) => book[q].at <= book[r].at
  BY <1>3, PositionFacts
<1>7. c.pos > 1 => \E q \in Matching(book, s) : Position(book, s, q) = c.pos - 1 /\ book[q].at >= c.max
  BY <1>1 DEF WalkBacked
<1>8. ~(c.pos > 1) => c.max = 0
  BY <1>3 DEF Marks
<1>9. ASSUME NEW entry \in call.page
      PROVE  entry.rec \in Matching(book, s) /\ book[entry.rec].content = entry.content
  BY <1>1, <1>2, <1>4, <1>9
<1>10. ASSUME NEW r \in Matching(book, s), Position(book, s, r) >= c.pos,
              IF call.full THEN Position(book, s, r) < c.pos + PageSize ELSE book[r].at < call.max
       PROVE  r \in P
  <2>1. CASE Position(book, s, r) < c.pos + PageSize
    BY <1>4, <1>10, <2>1
  <2>2. CASE ~call.full /\ book[r].at < call.max
    <3>1. CASE call.max = c.max
      <4>1. c.pos > 1
        BY <1>5, <1>8, <2>2, <3>1
      <4>2. PICK q \in Matching(book, s) : Position(book, s, q) = c.pos - 1 /\ book[q].at >= c.max
        BY <1>7, <4>1
      <4>3. book[r].at < book[q].at
        BY <1>3, <1>5, <2>2, <3>1, <4>2
      <4>4. Position(book, s, r) < c.pos - 1
        BY <1>6, <4>2, <4>3
      <4>5. QED
        BY <1>3, <1>5, <1>10, <4>4
    <3>2. CASE \E q \in P : call.max = book[q].at
      <4>1. PICK q \in P : call.max = book[q].at
        BY <3>2
      <4>2. Position(book, s, r) < Position(book, s, q) /\ Position(book, s, q) < c.pos + PageSize
        BY <1>4, <1>6, <2>2, <4>1
      <4>3. Position(book, s, r) < c.pos + PageSize
        BY <1>3, <1>4, <1>5, <4>1, <4>2
      <4>4. QED
        BY <1>4, <1>10, <4>3
    <3>3. QED
      BY <1>1, <1>2, <3>1, <3>2
  <2>3. QED
    BY <1>10, <2>1, <2>2
<1>11. \A r \in P : [rec |-> r, content |-> book[r].content] \in call.page
  BY <1>1, <1>2
<1>12. call.full => \E q \in P : Position(book, s, q) = c.pos + PageSize - 1
  <2>1. call.full => Cardinality(Page(book, s, c.pos)) = PageSize
    BY <1>1
  <2>2. Cardinality(Page(book, s, c.pos)) = PageSize =>
           \E q \in Page(book, s, c.pos) : Position(book, s, q) = c.pos + PageSize - 1
    <3>1. PICK pos \in Nat \ {0} : pos = c.pos
      BY <1>3
    <3>2. Cardinality(Page(book, s, pos)) = PageSize => EndsFull(book, s, pos)
      BY <1>3, FullPage
    <3>3. QED
      BY <3>1, <3>2 DEF EndsFull
  <2>3. QED
    BY <1>2, <2>1, <2>2
<1>13. call.full \/ call.max > 0 => call.page # {} \/ Filled(table)
  <2>1. P # {} => call.page # {}
    BY <1>11
  <2>2. call.max > 0 /\ P = {} => c.pos > 1
    BY <1>1, <1>2, <1>3, <1>8
  <2>3. QED
    BY <1>12, <2>1, <2>2
<1>14. call.max > 0 => \E q \in Matching(book, 0) : book[q].at >= call.max
  <2>1. CASE \E r \in P : call.max = book[r].at
    BY <1>4, <1>5, <2>1
  <2>2. CASE call.max = c.max /\ call.max > 0
    <3>1. c.pos > 1
      BY <1>8, <2>2
    <3>2. QED
      BY <1>5, <1>7, <2>2, <3>1
  <2>3. QED
    BY <1>1, <1>2, <2>1, <2>2
<1>15. call.full => \E q \in Matching(book, s) :
                       Position(book, s, q) = c.pos + PageSize - 1 /\ book[q].at >= call.max
  <2>1. ASSUME call.full
        PROVE  \E q \in Matching(book, s) :
                  Position(book, s, q) = c.pos + PageSize - 1 /\ book[q].at >= call.max
    <3>1. PICK q \in P : Position(book, s, q) = c.pos + PageSize - 1
      BY <1>12, <2>1
    <3>2. \A r \in P : book[r].at <= book[q].at
      <4>1. \A r \in P : Position(book, s, r) <= Position(book, s, q)
        BY <1>3, <1>4, <1>5, <3>1
      <4>2. QED
        BY <1>4, <1>6, <4>1
    <3>3. c.max <= book[q].at
      <4>1. CASE c.pos > 1
        <5>1. PICK p \in Matching(book, s) : Position(book, s, p) = c.pos - 1 /\ book[p].at >= c.max
          BY <1>7, <4>1
        <5>2. Position(book, s, p) <= Position(book, s, q)
          BY <1>3, <3>1, <5>1
        <5>3. book[p].at <= book[q].at /\ book[p].at \in Nat /\ book[q].at \in Nat
          BY <1>4, <1>5, <1>6, <5>2
        <5>4. QED
          BY <1>3, <5>1, <5>3
      <4>2. CASE ~(c.pos > 1)
        BY <1>4, <1>5, <1>8, <4>2
      <4>3. QED
        BY <4>1, <4>2
    <3>4. call.max <= book[q].at
      BY <1>1, <1>2, <3>2, <3>3
    <3>5. QED
      BY <1>4, <1>5, <3>1, <3>4
  <2>2. QED
    BY <2>1
<1>16. call.cursor.pos = c.pos /\ call.since = s
  BY <1>1
<1>17. QED
  BY <1>9, <1>10, <1>11, <1>13, <1>14, <1>15, <1>16 DEF PageHeld

\* What apply_page makes of the cursor.
AdvancesTo(call, c, d) ==
    /\ d.high = IF call.full \/ call.max = 0 THEN c.high ELSE call.max
    /\ d.pos = IF call.full THEN c.pos + PageSize ELSE 1
    /\ d.since = IF call.full THEN c.high ELSE 0
    /\ d.max = IF call.full THEN call.max ELSE 0

\* The rows are in: the cursor may tell of them.
LEMMA AdvancedWalk ==
    ASSUME PageSize \in Nat \ {0}, NEW R, R \subseteq Nat, IsFiniteSet(R), NEW book \in Book(R), NEW table,
           NEW c, Marks(c), c.pos > 1 => c.since = c.high, NEW call, call.since = c.high, call.cursor = c,
           call.page = {}, call.max \in Nat, call.full \in BOOLEAN, PageHeld(call, book, table),
           WalkCached(call.realm, book, table, c), WalkBacked(book, c), NEW d, AdvancesTo(call, c, d),
           c.high > 0 \/ c.pos > 1 => Filled(table)
    PROVE  /\ WalkCached(call.realm, book, table, d) /\ WalkBacked(book, d)
           /\ d.high > 0 \/ d.pos > 1 => Filled(table)
<1>1. PICK s : s = c.high
  OBVIOUS
<1>2. s \in Nat /\ c.pos \in Nat \ {0} /\ c.max \in Nat
  BY <1>1 DEF Marks
<1>3. \A since \in Nat : \A r \in Matching(book, since) :
         book[r].at \in Nat /\ Position(book, since, r) \in Nat \ {0}
  <2>0. TAKE since \in Nat
  <2>1. TAKE r \in Matching(book, since)
  <2>2. book[r].at \in Nat
    BY MatchingTyped
  <2>3. Position(book, since, r) \in Nat \ {0}
    BY PositionOrder, Zenon
  <2>4. QED
    BY <2>2, <2>3
<1>4. ASSUME NEW r \in Matching(book, s), Position(book, s, r) < c.pos
      PROVE  IsCached(call.realm, book, table, r)
  <2>1. c.pos > 1
    BY <1>2, <1>3, <1>4
  <2>2. QED
    BY <1>1, <1>4, <2>1 DEF WalkCached
<1>5. \A r \in Matching(book, 0) : book[r].at < s => IsCached(call.realm, book, table, r)
  BY <1>1 DEF WalkCached
<1>6. call.full \/ call.max > 0 => Filled(table)
  BY DEF PageHeld
<1>7. CASE call.full
  <2>1. d.high = s /\ d.pos = c.pos + PageSize /\ d.since = s /\ d.max = call.max
    BY <1>1, <1>7 DEF AdvancesTo
  <2>2. ASSUME NEW r \in Matching(book, s), Position(book, s, r) < c.pos + PageSize
        PROVE  IsCached(call.realm, book, table, r)
    <3>1. CASE Position(book, s, r) < c.pos
      BY <1>4, <3>1
    <3>2. CASE Position(book, s, r) >= c.pos
      BY <1>1, <1>7, <2>2, <3>2 DEF PageHeld
    <3>3. QED
      BY <1>2, <1>3, <3>1, <3>2
  <2>3. WalkCached(call.realm, book, table, d)
    BY <1>5, <2>1, <2>2 DEF WalkCached
  <2>4. WalkBacked(book, d)
    <3>1. PICK q \in Matching(book, s) :
             Position(book, s, q) = c.pos + PageSize - 1 /\ book[q].at >= call.max
      BY <1>1, <1>7 DEF PageHeld
    <3>2. s > 0 => \E p \in Matching(book, 0) : book[p].at >= s
      BY <1>1 DEF WalkBacked
    <3>3. Position(book, d.since, q) = d.pos - 1 /\ book[q].at >= d.max /\ q \in Matching(book, d.since)
      BY <1>2, <2>1, <3>1
    <3>4. QED
      BY <2>1, <3>2, <3>3 DEF WalkBacked
  <2>5. QED
    BY <1>6, <1>7, <2>3, <2>4
<1>8. CASE ~call.full
  <2>1. d.pos = 1 /\ d.since = 0 /\ d.max = 0 /\ d.high = IF call.max = 0 THEN s ELSE call.max
    BY <1>1, <1>8 DEF AdvancesTo
  <2>2. ASSUME NEW r \in Matching(book, 0), book[r].at < d.high
        PROVE  IsCached(call.realm, book, table, r)
    <3>1. CASE book[r].at < s
      BY <1>5, <3>1
    <3>2. CASE ~(book[r].at < s)
      <4>1. r \in Matching(book, s) /\ book[r].at < call.max
        BY <1>2, <1>3, <2>1, <2>2, <3>2 DEF Matching
      <4>2. CASE Position(book, s, r) < c.pos
        BY <1>4, <4>1, <4>2
      <4>3. CASE Position(book, s, r) >= c.pos
        BY <1>1, <1>8, <4>1, <4>3 DEF PageHeld
      <4>4. QED
        BY <1>2, <1>3, <4>1, <4>2, <4>3
    <3>3. QED
      BY <3>1, <3>2
  <2>3. \A r \in Matching(book, 0) : ~(Position(book, 0, r) < 1)
    BY <1>3
  <2>4. WalkCached(call.realm, book, table, d)
    BY <2>1, <2>2, <2>3 DEF WalkCached
  <2>5. WalkBacked(book, d)
    <3>1. call.max > 0 => \E q \in Matching(book, 0) : book[q].at >= call.max
      BY DEF PageHeld
    <3>2. s > 0 => \E q \in Matching(book, 0) : book[q].at >= s
      BY <1>1 DEF WalkBacked
    <3>3. QED
      BY <2>1, <3>1, <3>2 DEF WalkBacked
  <2>6. d.high > 0 \/ d.pos > 1 => Filled(table)
    BY <1>1, <1>6, <2>1
  <2>7. QED
    BY <2>4, <2>5, <2>6
<1>9. QED
  BY <1>7, <1>8

-----------------------------------------------------------------------------
(* The steps.                                                               *)

\* The inductive part of CacheInv.
CacheCore == CacheIsConnected /\ WalksPinned /\ WalksSound /\ PageSound

\* The cursors differ in what throttles them only.
SameWalk(c, d) == c.high = d.high /\ c.since = d.since /\ c.max = d.max /\ c.pos = d.pos

\* A step away from the pages: books and rows stay, a cursor keeps its walk or takes
\* it from the thread that writes it, and nobody connects.
LEMMA AwayKeeps ==
    ASSUME CacheCore, UNCHANGED <<books, rows>>, amiss \subseteq amiss',
           CacheIsConnected',
           \A e \in WalkNames : \/ SameWalk(cursors'[e], cursors[e])
                                \/ /\ Sync.pc \in {"asked", "rows"} /\ e = Walks[Sync.at]
                                   /\ SameWalk(cursors'[e], Sync.cursor),
           \/ Sync' = Sync /\ cursors' = cursors
           \/ Sync'.pc \notin {"asked", "rows"}
    PROVE  CacheCore'
<1>1. Untroubled' => Untroubled
  BY DEF Untroubled
<1>2. WalksPinned'
  <2>1. \A e \in WalkNames : cursors'[e].pos > 1 => cursors'[e].since = cursors'[e].high
    BY DEF CacheCore, WalksPinned, SameWalk
  <2>2. Sync' = Sync \/ Sync'.pc \notin {"asked", "rows"}
    OBVIOUS
  <2>3. QED
    BY <2>1, <2>2 DEF CacheCore, WalksPinned
<1>3. WalksSound'
  <2>1. ASSUME Untroubled, NEW e \in WalkNames PROVE SameWalk(cursors'[e], cursors[e])
    BY <2>1 DEF CacheCore, PageSound, SameWalk
  <2>2. ASSUME Untroubled, NEW e \in WalkNames
        PROVE  /\ cursors'[e].high > 0 \/ cursors'[e].pos > 1 => Filled(rows[e])
               /\ \A realm \in Realms : OwnedBy(realm, rows[e]) =>
                     /\ WalkCached(realm, books[realm][e], rows[e], cursors'[e])
                     /\ WalkBacked(books[realm][e], cursors'[e])
    <3>1. PICK c : c = cursors'[e]
      OBVIOUS
    <3>2. PICK d : d = cursors[e]
      OBVIOUS
    <3>3. SameWalk(c, d)
      BY <2>1, <2>2, <3>1, <3>2
    <3>4. /\ d.high > 0 \/ d.pos > 1 => Filled(rows[e])
          /\ \A realm \in Realms : OwnedBy(realm, rows[e]) =>
                WalkCached(realm, books[realm][e], rows[e], d) /\ WalkBacked(books[realm][e], d)
      BY <2>2, <3>2 DEF CacheCore, WalksSound
    <3>5. ASSUME NEW realm \in Realms, WalkCached(realm, books[realm][e], rows[e], d), WalkBacked(books[realm][e], d)
          PROVE  WalkCached(realm, books[realm][e], rows[e], c) /\ WalkBacked(books[realm][e], c)
      BY <3>3, <3>5 DEF WalkCached, WalkBacked, SameWalk
    <3>6. QED
      BY <3>1, <3>3, <3>4, <3>5 DEF SameWalk
  <2>3. QED
    BY <1>1, <2>2 DEF WalksSound
<1>4. PageSound'
  <2>1. CASE Sync' = Sync /\ cursors' = cursors
    <3>1. BookOf(Sync)' = BookOf(Sync)
      BY <2>1 DEF BookOf
    <3>2. QED
      BY <1>1, <2>1, <3>1 DEF CacheCore, PageSound
  <2>2. CASE Sync'.pc \notin {"asked", "rows"}
    BY <2>2 DEF PageSound
  <2>3. QED
    BY <2>1, <2>2
<1>5. QED
  BY <1>2, <1>3, <1>4 DEF CacheCore

\* What is cached stays the connected company's while nothing is cached.
LEMMA ConnectedKept ==
    ASSUME CacheIsConnected, UNCHANGED <<rows, reports>>, amiss \subseteq amiss',
           cred' # NoCred => cred # NoCred /\ cred'.realm = cred.realm
    PROVE  CacheIsConnected'
  BY DEF CacheIsConnected, OneCompanysBooks, Foreign

\* What put_cursor leaves.
LEMMA PutIs ==
    ASSUME NEW e, NEW c, PutCursor(e, c), DOMAIN cursors = Entities, e \in Entities
    PROVE  /\ cursors'[e] = c \/ cursors'[e] = cursors[e]
           /\ \A d \in Entities : d # e => cursors'[d] = cursors[d]
  BY DEF PutCursor

\* A cycle that fails records it in the cursor.
LEMMA FailedIs ==
    ASSUME SyncConstants, GrantInv, NEW t \in Threads, FailedCycle(t),
           calls[t].pc \in {"refresh", "persist", "mark", "failed"} \/ (t = "sync" /\ Sync.pc = "asked")
    PROVE  /\ \A e \in WalkNames : SameWalk(cursors'[e], cursors[e])
           /\ t = "courier" => cursors' = cursors
<1>1. DOMAIN cursors = Entities /\ WalkNames \subseteq Entities /\ CallTyped(t, calls[t])
      /\ \A e \in Entities : cursors[e] \in Cursor
  BY PlacesTyped DEF GrantInv, SyncTypeOK, CacheTyped, CallsTyped
<1>2. CASE calls[t].at = 0
  BY <1>2 DEF FailedCycle, SameWalk
<1>3. CASE calls[t].at # 0
  <2>1. calls[t].at \in 1..Len(Walks) /\ t # "courier"
    <3>1. CASE calls[t].pc \in {"refresh", "persist", "mark", "failed"}
      BY <1>1, <1>3, <3>1, RefreshCall, PlacesTyped DEF Refreshing
    <3>2. CASE t = "sync" /\ Sync.pc = "asked"
      BY <1>1, <3>2, AskedCall DEF Asking, Sync
    <3>3. QED
      BY <3>1, <3>2
  <2>2. PICK e : e = Walks[calls[t].at]
    OBVIOUS
  <2>3. PICK c : c = [cursors[e] EXCEPT !.err = calls[t].now]
    OBVIOUS
  <2>4. e \in WalkNames /\ e \in Entities /\ PutCursor(e, c)
    BY <1>1, <1>3, <2>1, <2>2, <2>3, PlacesTyped DEF FailedCycle
  <2>5. SameWalk(c, cursors[e])
    BY <1>1, <2>3, <2>4 DEF SameWalk, Cursor
  <2>6. /\ cursors'[e] = c \/ cursors'[e] = cursors[e]
        /\ \A d \in Entities : d # e => cursors'[d] = cursors[d]
    BY <1>1, <2>4, PutIs
  <2>7. QED
    BY <1>1, <2>1, <2>5, <2>6 DEF SameWalk
<1>4. QED
  BY <1>2, <1>3

\* A thread goes on, away from the pages.
LEMMA ElsewhereKeeps ==
    ASSUME GrantInv, CacheCore, NEW t \in Threads, NEW c, Goto(t, c), c.pc \notin {"asked", "rows"},
           UNCHANGED <<books, rows, reports>>, amiss \subseteq amiss',
           cred' # NoCred => cred # NoCred /\ cred'.realm = cred.realm,
           \A e \in WalkNames : SameWalk(cursors'[e], cursors[e]), t = "courier" => cursors' = cursors
    PROVE  CacheCore'
<1>1. calls'[t] = c /\ \A u \in Threads : u # t => calls'[u] = calls[u]
  BY OneMoves DEF GrantInv, SyncTypeOK
<1>2. \/ Sync' = Sync /\ cursors' = cursors
      \/ Sync'.pc \notin {"asked", "rows"}
  BY <1>1 DEF Sync, Threads
<1>3. CacheIsConnected'
  BY ConnectedKept DEF CacheCore
<1>4. QED
  BY <1>2, <1>3, AwayKeeps

\* The steps of a refresh, of either thread.
LEMMA RefreshKeepsCache ==
    ASSUME SyncConstants, GrantInv, CacheCore, NEW t \in Threads,
           \/ Begin(t) \/ Granted(t) \/ Rejected(t) \/ RefreshFails(t)
           \/ Persist(t) \/ Mark(t) \/ WriteFails(t) \/ Fails(t)
    PROVE  CacheCore'
<1>1. \A e \in WalkNames : SameWalk(cursors[e], cursors[e])
  BY DEF SameWalk
<1>2. CASE Begin(t)
  <2>1. PICK c : Goto(t, c) /\ c.pc \notin {"asked", "rows"}
    <3>1. PICK d : d = [pc |-> "refresh", realm |-> cred.realm, token |-> cred.token,
                        now |-> clock + 1, budget |-> scope.budget, at |-> 0]
      OBVIOUS
    <3>2. \/ t = "sync" /\ Goto(t, Prepared(t, d))
          \/ Goto(t, [d EXCEPT !.budget = @ - 1])
      BY <1>2, <3>1 DEF Begin
    <3>3. [d EXCEPT !.budget = @ - 1].pc = "refresh"
      BY <3>1
    <3>4. Prepared(t, d).pc \in {"idle", "next"}
      BY DEF Prepared, Idle
    <3>5. QED
      BY <3>2, <3>3, <3>4
  <2>2. QED
    BY <1>1, <1>2, <2>1, ElsewhereKeeps DEF Begin, provider, cache
<1>3. CASE Granted(t)
  <2>1. PICK c : Goto(t, c) /\ c.pc = "persist"
    <3>1. calls[t] \in Refreshing
      BY <1>3, RefreshHolds DEF Granted
    <3>2. PICK token : Goto(t, [calls[t] EXCEPT !.pc = "persist", !.token = token])
      BY <1>3 DEF Granted
    <3>3. [calls[t] EXCEPT !.pc = "persist", !.token = token].pc = "persist"
      BY <3>1 DEF Refreshing
    <3>4. QED
      BY <3>2, <3>3
  <2>2. QED
    BY <1>1, <1>3, <2>1, ElsewhereKeeps DEF Granted, provider, cache
<1>4. CASE Rejected(t) \/ Mark(t) \/ WriteFails(t)
  <2>1. calls[t] \in Refreshing
    BY <1>4, RefreshHolds DEF Rejected, Mark, WriteFails
  <2>2. PICK c : Goto(t, c) /\ c.pc \notin {"asked", "rows"}
    <3>1. [calls[t] EXCEPT !.pc = "mark"].pc = "mark" /\ [calls[t] EXCEPT !.pc = "failed"].pc = "failed"
      BY <2>1 DEF Refreshing
    <3>2. QED
      BY <1>4, <3>1 DEF Rejected, Mark, WriteFails, Idle
  <2>3. cred' # NoCred => cred # NoCred /\ cred'.realm = cred.realm
    <3>1. cred' = cred \/ (cred # NoCred /\ cred' = [cred EXCEPT !.flag = TRUE])
      BY <1>4 DEF Rejected, Mark, WriteFails
    <3>2. QED
      BY <3>1 DEF GrantInv, SyncTypeOK, GrantTyped
  <2>4. UNCHANGED <<books, rows, reports, cursors>> /\ amiss \subseteq amiss'
    BY <1>4 DEF Rejected, Rejects, Mark, WriteFails, provider, cache
  <2>5. QED
    BY <1>1, <2>2, <2>3, <2>4, ElsewhereKeeps
<1>5. CASE Persist(t)
  <2>1. Goto(t, Resumed(t, calls[t])) /\ Resumed(t, calls[t]).pc \in {"idle", "next"}
    BY <1>5 DEF Persist, Resumed, Prepared, Recovered, Idle
  <2>2. cred' # NoCred => cred # NoCred /\ cred'.realm = cred.realm
    <3>1. cred' = cred \/ (cred # NoCred /\ \E token : cred' = [cred EXCEPT !.token = token, !.flag = FALSE])
      BY <1>5 DEF Persist
    <3>2. ASSUME NEW token, cred # NoCred, cred' = [cred EXCEPT !.token = token, !.flag = FALSE]
          PROVE  cred'.realm = cred.realm
      <4>1. cred \in [realm : Realms, token : Token, flag : BOOLEAN]
        BY <3>2 DEF GrantInv, SyncTypeOK, GrantTyped
      <4>2. QED
        BY <3>2, <4>1
    <3>3. QED
      BY <3>1, <3>2
  <2>3. UNCHANGED <<books, rows, reports, cursors>> /\ amiss \subseteq amiss'
    BY <1>5 DEF Persist, provider, cache
  <2>4. QED
    BY <1>1, <2>1, <2>2, <2>3, ElsewhereKeeps
<1>6. CASE RefreshFails(t) \/ Fails(t)
  <2>1. Goto(t, Idle) /\ Idle.pc \notin {"asked", "rows"}
    BY <1>6 DEF RefreshFails, Fails, FailedCycle, Idle
  <2>2. /\ \A e \in WalkNames : SameWalk(cursors'[e], cursors[e])
        /\ t = "courier" => cursors' = cursors
    BY <1>6, FailedIs DEF RefreshFails, Fails
  <2>3. UNCHANGED <<books, rows, reports, cred>> /\ amiss' = amiss
    BY <1>6 DEF RefreshFails, Fails, provider
  <2>4. QED
    BY <2>1, <2>2, <2>3, ElsewhereKeeps
<1>7. QED
  BY <1>2, <1>3, <1>4, <1>5, <1>6

\* What the provider does to tokens, and a restart.
LEMMA OutsideKeepsCache ==
    ASSUME GrantInv, CacheCore,
           \/ \E token \in live : TokenDies(token)
           \/ \E realm \in Realms : Revoke(realm)
           \/ Restart
    PROVE  CacheCore'
<1>1. UNCHANGED <<books, rows, reports, cursors, cred, amiss>>
  BY DEF TokenDies, Revoke, Restart, provider, cache
<1>2. Sync' = Sync \/ Sync'.pc \notin {"asked", "rows"}
  BY DEF TokenDies, Revoke, Restart, Sync, Threads, Idle
<1>3. CacheIsConnected' /\ \A e \in WalkNames : SameWalk(cursors'[e], cursors[e])
  BY <1>1, ConnectedKept DEF CacheCore, SameWalk
<1>4. QED
  BY <1>1, <1>2, <1>3, AwayKeeps

\* What a thread at work may take for granted: its company is the connected one.
LEMMA AtWork ==
    ASSUME GrantInv, CacheCore, Untroubled, Sync # Idle
    PROVE  /\ cred # NoCred /\ cred.realm = Sync.realm /\ Sync.realm \in Realms
           /\ ~Foreign(Sync.realm, rows, reports)
           /\ \A e \in WalkNames : OwnedBy(Sync.realm, rows[e])
<1>1. "crossed" \notin amiss /\ amiss \cap {"crossed", "kept"} = {}
  BY DEF Untroubled
<1>2. cred # NoCred /\ cred.realm = Sync.realm
  BY <1>1 DEF GrantInv, SameFate, Sync, Threads
<1>3. Sync.realm \in Realms
  BY <1>2 DEF GrantInv, SyncTypeOK, GrantTyped
<1>4. ~Foreign(Sync.realm, rows, reports)
  BY <1>1, <1>2 DEF CacheCore, CacheIsConnected, OneCompanysBooks
<1>5. \A e \in WalkNames : DOMAIN rows[e] = Records[e]
  BY DEF GrantInv, SyncTypeOK, CacheTyped
<1>6. QED
  BY <1>2, <1>3, <1>4, <1>5 DEF Foreign, OwnedBy

\* A cycle that stops or goes on with the next entity leaves the walks where they are.
LEMMA LeaveKeepsCache ==
    ASSUME SyncConstants, GrantInv, CacheCore,
           \/ Limited \/ Expired \/ FetchFails \/ ApplyFails \/ CycleEnds
           \/ ReportsBegin \/ ReportFails \/ ReportsEnd
    PROVE  CacheCore'
<1>1. "sync" \in Threads /\ CallTyped("sync", Sync) /\ Sync = calls["sync"]
  BY SyncTyped DEF Sync
<1>2. DOMAIN cursors = Entities /\ WalkNames \subseteq Entities /\ \A e \in Entities : cursors[e] \in Cursor
  BY PlacesTyped DEF GrantInv, SyncTypeOK, CacheTyped
<1>3. UNCHANGED <<books, rows, reports, cred, amiss>>
  BY DEF Limited, Expired, FetchFails, ApplyFails, CycleEnds, ReportsBegin, ReportFails, ReportsEnd,
         provider, cache
<1>4. CacheIsConnected'
  BY <1>3, ConnectedKept DEF CacheCore
<1>5. Sync'.pc \notin {"asked", "rows"}
  <2>1. PICK c : Goto("sync", c) /\ c.pc \notin {"asked", "rows"}
    <3>1. /\ Idle.pc = "idle"
          /\ \A at : NextOf(Sync, at).pc = "next" /\ [NextOf(Sync, at) EXCEPT !.budget = @ - 1].pc = "next"
          /\ \A d, due : ReportsOf(Sync, d, due).pc = "reports"
      BY DEF Idle, NextOf, ReportsOf
    <3>2. CASE Limited \/ ApplyFails \/ CycleEnds \/ FetchFails \/ ReportsEnd \/ ReportFails
      BY <3>1, <3>2 DEF Limited, ApplyFails, CycleEnds, FetchFails, ReportsEnd, ReportFails
    <3>3. CASE Expired
      BY <3>1, <3>3 DEF Expired, FailedCycle
    <3>4. CASE ReportsBegin
      BY <3>1, <3>4 DEF ReportsBegin
    <3>5. QED
      BY <3>2, <3>3, <3>4
  <2>2. calls'["sync"] = c
    BY <1>1, <2>1, OneMoves DEF GrantInv, SyncTypeOK
  <2>3. QED
    BY <2>1, <2>2 DEF Sync
<1>6. ASSUME NEW e \in WalkNames
      PROVE  \/ SameWalk(cursors'[e], cursors[e])
             \/ /\ Sync.pc \in {"asked", "rows"} /\ e = Walks[Sync.at]
                /\ SameWalk(cursors'[e], Sync.cursor)
  <2>1. \A d \in Entities : SameWalk(cursors[d], cursors[d])
    BY DEF SameWalk
  <2>2. CASE cursors' = cursors
    BY <1>2, <2>1, <2>2
  <2>3. CASE Limited
    <3>1. Sync \in Asking
      BY <1>1, <2>3, AskedCall DEF Limited
    <3>2. PICK f : f = Walks[Sync.at]
      OBVIOUS
    <3>3. PICK c : c = [Sync.cursor EXCEPT !.until = Sync.now + RetryAfter, !.err = Sync.now]
      OBVIOUS
    <3>4. SameWalk(c, Sync.cursor) /\ f \in Entities /\ PutCursor(f, c)
      BY <1>2, <2>3, <3>1, <3>2, <3>3, PlacesTyped DEF Asking, Cursor, SameWalk, Limited
    <3>5. /\ cursors'[f] = c \/ cursors'[f] = cursors[f]
          /\ \A d \in Entities : d # f => cursors'[d] = cursors[d]
      BY <1>2, <3>4, PutIs
    <3>6. QED
      BY <1>2, <2>1, <2>3, <3>2, <3>4, <3>5 DEF Limited
  <2>4. CASE Expired
    <3>1. CASE FailedCycle("sync")
      BY <1>1, <2>4, <3>1, FailedIs DEF Expired
    <3>2. QED
      BY <2>2, <2>4, <3>1 DEF Expired
  <2>5. CASE FetchFails
    <3>1. Sync \in Asking
      BY <1>1, <2>5, AskedCall DEF FetchFails
    <3>2. PICK f : f = Walks[Sync.at]
      OBVIOUS
    <3>3. PICK c : c = [cursors[f] EXCEPT !.err = Sync.now]
      OBVIOUS
    <3>4. f \in Entities /\ PutCursor(f, c)
      BY <1>2, <2>5, <3>1, <3>2, <3>3, PlacesTyped DEF Asking, FetchFails
    <3>5. SameWalk(c, cursors[f])
      BY <1>2, <3>3, <3>4 DEF Cursor, SameWalk
    <3>6. /\ cursors'[f] = c \/ cursors'[f] = cursors[f]
          /\ \A d \in Entities : d # f => cursors'[d] = cursors[d]
      BY <1>2, <3>4, PutIs
    <3>7. QED
      BY <1>2, <2>1, <3>5, <3>6
  <2>6. CASE (ReportFails \/ ReportsEnd) /\ cursors' # cursors
    <3>1. Sync \in Reporting
      BY <1>1, <2>6, ReportsCall DEF ReportFails, ReportsEnd
    <3>2. Group.cursor \in Entities /\ Group.cursor \notin WalkNames
      <4>1. Sync.at - Len(Walks) \in 1..Len(Groups)
        BY <3>1, PlacesTyped DEF Reporting
      <4>2. 1..Len(Groups) = DOMAIN Groups
        BY DEF SyncConstants
      <4>3. QED
        BY <4>1, <4>2, PlacesTyped DEF Group, SyncConstants
    <3>3. PICK c : PutCursor(Group.cursor, c)
      BY <2>6 DEF ReportFails, ReportsEnd
    <3>4. \A d \in Entities : d # Group.cursor => cursors'[d] = cursors[d]
      BY <1>2, <3>2, <3>3, PutIs
    <3>5. QED
      BY <1>2, <2>1, <3>2, <3>4
  <2>7. QED
    BY <2>2, <2>3, <2>4, <2>5, <2>6 DEF ApplyFails, CycleEnds, ReportsBegin, cache
<1>7. QED
  BY <1>3, <1>4, <1>5, <1>6, AwayKeeps

\* A report is the company's whose cycle asked for it.
LEMMA ReportKeepsCache ==
    ASSUME SyncConstants, GrantInv, CacheCore, ReportArrives
    PROVE  CacheCore'
<1>1. PICK p \in Sync.todo :
         /\ reports' = reports \/ reports' = [reports EXCEPT ![p] = Report(Sync.realm)]
         /\ \E c : Goto("sync", c) /\ c.pc = "reports"
  <2>1. Sync \in Reporting
    BY SyncTyped, ReportsCall DEF ReportArrives
  <2>2. PICK p \in Sync.todo :
           /\ reports' = reports \/ reports' = [reports EXCEPT ![p] = Report(Sync.realm)]
           /\ \E w : Goto("sync", [Sync EXCEPT !.todo = @ \ {p}, !.budget = @ - 1, !.wrote = @ \/ w])
    BY DEF ReportArrives
  <2>3. \A w : [Sync EXCEPT !.todo = @ \ {p}, !.budget = @ - 1, !.wrote = @ \/ w].pc = "reports"
    BY <2>1 DEF Reporting
  <2>4. QED
    BY <2>2, <2>3
<1>2. UNCHANGED <<books, rows, cred, cursors>> /\ amiss \subseteq amiss' /\ Sync.pc = "reports"
  BY DEF ReportArrives, provider
<1>3. Sync'.pc \notin {"asked", "rows"}
  BY <1>1, OneMoves DEF Sync, Threads, GrantInv, SyncTypeOK
<1>4. CacheIsConnected'
  <2>1. SUFFICES ASSUME amiss \cap {"crossed", "kept"} = {}, cred # NoCred
                 PROVE  ~Foreign(cred.realm, rows, reports')
    BY <1>2 DEF CacheIsConnected, OneCompanysBooks
  <2>2. ~Foreign(cred.realm, rows, reports) /\ cred.realm = Sync.realm
    BY <1>2, <2>1 DEF CacheCore, CacheIsConnected, OneCompanysBooks, GrantInv, SameFate, Sync, Threads, Idle
  <2>3. \A q \in Periods : reports'[q] = reports[q] \/ reports'[q].realm = Sync.realm
    BY <1>1 DEF Report, GrantInv, SyncTypeOK, CacheTyped
  <2>4. QED
    BY <2>2, <2>3 DEF Foreign
<1>5. \A e \in WalkNames : SameWalk(cursors'[e], cursors[e])
  BY <1>2 DEF SameWalk
<1>6. QED
  BY <1>2, <1>3, <1>4, <1>5, AwayKeeps

\* The cursor that is read, with the table and the book of its entity.
LEMMA WalkFacts ==
    ASSUME SyncConstants, GrantInv, NEW realm \in Realms, NEW e \in WalkNames
    PROVE  /\ Records[e] \subseteq Nat /\ IsFiniteSet(Records[e]) /\ PageSize \in Nat \ {0}
           /\ books[realm][e] \in Book(Records[e]) /\ DOMAIN rows[e] = Records[e]
           /\ e \in Entities /\ cursors[e] \in Cursor
           /\ \A c \in Cursor : Marks(c) /\ c.high \in Times /\ c.since \in Times /\ c.max \in Times
           /\ Times \subseteq Nat
<1>1. Times \subseteq Nat
  BY StartTyped, CountsFacts DEF Times, GrantInv, SyncTypeOK
<1>2. books[realm][e] \in [Records[e] -> {NoRow} \cup [content : Contents, at : Times]]
  BY DEF GrantInv, SyncTypeOK, BooksTyped
<1>3. books[realm][e] \in Book(Records[e])
  BY <1>1, <1>2 DEF Book
<1>4. \A c \in Cursor : Marks(c) /\ c.high \in Times /\ c.since \in Times /\ c.max \in Times
  BY <1>1 DEF Cursor, Marks
<1>5. QED
  BY <1>1, <1>3, <1>4, PlacesTyped DEF SyncConstants, GrantInv, SyncTypeOK, CacheTyped

\* The walks stay sound while books, rows and cursors stay.
LEMMA WalksKeptSound ==
    ASSUME WalksSound, UNCHANGED <<books, rows, cursors>>, amiss \subseteq amiss'
    PROVE  WalksSound'
<1>1. Untroubled' => Untroubled
  BY DEF Untroubled
<1>2. QED
  BY <1>1 DEF WalksSound

\* The cursor is read, and the page asked for.
LEMMA AskKeepsCache ==
    ASSUME SyncConstants, GrantInv, CacheCore, Ask
    PROVE  CacheCore'
<1>1. PICK s : s = Sync
  OBVIOUS
<1>2. PICK e : e = Walks[s.at]
  OBVIOUS
<1>3. PICK c : c = cursors[e]
  OBVIOUS
<1>4. /\ s \in Moving /\ s.at <= Len(Walks) /\ UNCHANGED <<books, rows, reports, cursors, cred, amiss>>
      /\ Goto("sync", NextOf(s, s.at + 1)) \/ Goto("sync", AskedOf(s, c))
      /\ "sync" \in Threads
  BY <1>1, <1>2, <1>3, SyncTyped, NextCall DEF Ask, provider, cache
<1>5. e \in WalkNames /\ c \in Cursor
  BY <1>2, <1>3, <1>4, PlacesTyped DEF Moving, GrantInv, SyncTypeOK, CacheTyped
<1>6. CASE Goto("sync", NextOf(s, s.at + 1))
  <2>1. NextOf(s, s.at + 1).pc = "next" /\ \A f \in WalkNames : SameWalk(cursors'[f], cursors[f])
    BY <1>4 DEF NextOf, SameWalk
  <2>2. QED
    BY <1>4, <1>6, <2>1, ElsewhereKeeps
<1>7. CASE Goto("sync", AskedOf(s, c))
  <2>1. Sync' = AskedOf(s, c)
    BY <1>4, <1>7, OneMoves DEF Sync, GrantInv, SyncTypeOK
  <2>2. /\ Sync'.pc = "asked" /\ Sync'.cursor = c /\ Sync'.since = WalkSince(c) /\ Sync'.at = s.at
    BY <2>1 DEF AskedOf
  <2>3. (c.pos > 1 => c.since = c.high) /\ WalkSince(c) = c.high
    BY <1>3, <1>5 DEF CacheCore, WalksPinned, WalkSince
  <2>4. WalksPinned'
    BY <1>4, <2>2, <2>3 DEF CacheCore, WalksPinned
  <2>5. PageSound'
    BY <1>2, <1>3, <1>4, <2>2 DEF PageSound
  <2>6. CacheIsConnected' /\ WalksSound'
    BY <1>4, ConnectedKept, WalksKeptSound DEF CacheCore
  <2>7. QED
    BY <2>4, <2>5, <2>6 DEF CacheCore
<1>8. QED
  BY <1>4, <1>6, <1>7

\* The page arrives.
LEMMA PageKeepsCache ==
    ASSUME SyncConstants, GrantInv, CacheCore, PageArrives
    PROVE  CacheCore'
<1>1. PICK s : s = Sync
  OBVIOUS
<1>2. PICK call : call = RowsOf(s, EntriesOf(s), Cardinality(PageOf(s)) = PageSize, LatestOf(s))
  OBVIOUS
<1>3. /\ s \in Asking /\ UNCHANGED <<books, rows, reports, cursors, cred, amiss>> /\ Sync' = call
      /\ s.pc = "asked" /\ s # Idle
  <2>1. "sync" \in Threads /\ s \in Asking /\ s.pc = "asked" /\ s # Idle
    BY <1>1, SyncTyped, AskedCall DEF PageArrives, Idle
  <2>2. Goto("sync", call) /\ UNCHANGED <<books, rows, reports, cursors, cred, amiss>>
    BY <1>1, <1>2 DEF PageArrives, provider, cache
  <2>3. calls'["sync"] = call
    BY <2>1, <2>2, OneMoves DEF GrantInv, SyncTypeOK
  <2>4. QED
    BY <2>1, <2>2, <2>3 DEF Sync
<1>4. /\ call.pc = "rows" /\ call.realm = s.realm /\ call.at = s.at /\ call.cursor = s.cursor
      /\ call.since = s.since /\ call.page = EntriesOf(s) /\ call.max = LatestOf(s)
      /\ call.full = (Cardinality(PageOf(s)) = PageSize)
  BY <1>2 DEF RowsOf
<1>5. CacheIsConnected' /\ WalksSound' /\ WalksPinned'
  <2>1. CacheIsConnected' /\ WalksSound'
    BY <1>3, ConnectedKept, WalksKeptSound DEF CacheCore
  <2>2. WalksPinned'
    BY <1>1, <1>3, <1>4 DEF CacheCore, WalksPinned
  <2>3. QED
    BY <2>1, <2>2
<1>6. PageSound'
  <2>1. Untroubled' => Untroubled
    BY <1>3 DEF Untroubled
  <2>2. ASSUME Untroubled
        PROVE  s.cursor = cursors[Walks[s.at]] /\ PageHeld(call, BookOf(s), rows[Walks[s.at]])
    <3>1. PICK e : e = Walks[s.at]
      OBVIOUS
    <3>2. PICK c : c = s.cursor
      OBVIOUS
    <3>3. PICK book : book = BookOf(s)
      OBVIOUS
    <3>4. e \in WalkNames /\ c \in Cursor /\ c = cursors[e]
      BY <1>1, <1>3, <2>2, <3>1, <3>2, PlacesTyped DEF Asking, CacheCore, PageSound
    <3>5. OwnedBy(s.realm, rows[e]) /\ s.realm \in Realms
      BY <1>1, <1>3, <2>2, <3>4, AtWork
    <3>6. /\ Records[e] \subseteq Nat /\ IsFiniteSet(Records[e]) /\ PageSize \in Nat \ {0}
          /\ book \in Book(Records[e]) /\ Marks(c) /\ book = books[s.realm][e] /\ Times \subseteq Nat
      BY <3>1, <3>3, <3>4, <3>5, WalkFacts DEF BookOf
    <3>7. /\ c.high > 0 \/ c.pos > 1 => Filled(rows[e])
          /\ WalkBacked(book, c)
      BY <2>2, <3>4, <3>5, <3>6 DEF CacheCore, WalksSound
    <3>8. s.since = c.high /\ (c.pos > 1 => c.since = c.high)
      BY <1>1, <1>3, <3>2 DEF CacheCore, WalksPinned
    <3>9. PageOf(s) = Page(book, c.high, c.pos)
      BY <3>2, <3>3, <3>8 DEF PageOf
    <3>10. call.page = {[rec |-> r, content |-> book[r].content] : r \in Page(book, c.high, c.pos)}
      BY <1>4, <3>3, <3>9 DEF EntriesOf
    <3>11. /\ call.max \in Nat /\ c.max <= call.max /\ \A r \in Page(book, c.high, c.pos) : book[r].at <= call.max
           /\ call.max = c.max \/ \E r \in Page(book, c.high, c.pos) : call.max = book[r].at
      <4>1. /\ LatestOf(s) \in Times /\ s.cursor.max <= LatestOf(s)
            /\ \A r \in PageOf(s) : BookOf(s)[r].at <= LatestOf(s)
            /\ LatestOf(s) = s.cursor.max \/ \E r \in PageOf(s) : LatestOf(s) = BookOf(s)[r].at
        BY <1>3, PageFacts DEF GrantInv
      <4>2. QED
        BY <1>4, <3>2, <3>3, <3>6, <3>9, <4>1
    <3>12. call.since = c.high /\ call.cursor = c
           /\ call.full = (Cardinality(Page(book, c.high, c.pos)) = PageSize)
      BY <1>4, <3>2, <3>8, <3>9
    <3>13. PageHeld(call, book, rows[e])
      BY <3>6, <3>7, <3>8, <3>10, <3>11, <3>12, ArrivedHeld
    <3>14. QED
      BY <3>1, <3>2, <3>3, <3>4, <3>13
  <2>3. BookOf(call) = BookOf(s)
    BY <1>4 DEF BookOf
  <2>4. BookOf(Sync)' = BookOf(call)
    BY <1>3 DEF BookOf
  <2>5. QED
    BY <1>3, <1>4, <2>1, <2>2, <2>3, <2>4 DEF PageSound
<1>7. QED
  BY <1>5, <1>6 DEF CacheCore

\* A row that is written is one less to be written.
LEMMA UpsertKeepsPage ==
    ASSUME NEW call, NEW book, NEW table, PageHeld(call, book, table), NEW entry \in call.page,
           entry.rec \in DOMAIN table, NEW after, 
           after = [table EXCEPT ![entry.rec] = Snapshot(call.realm, book[entry.rec].content)],
           Matching(book, call.since) \subseteq DOMAIN table, NEW left, left.page = call.page \ {entry},
           left.since = call.since, left.cursor = call.cursor, left.full = call.full, left.max = call.max,
           left.realm = call.realm
    PROVE  PageHeld(left, book, after) /\ Filled(after)
<1>1. /\ DOMAIN after = DOMAIN table /\ after[entry.rec] = Snapshot(call.realm, book[entry.rec].content)
      /\ \A r \in DOMAIN table : r # entry.rec => after[r] = table[r]
  OBVIOUS
<1>2. Filled(after)
  <2>1. after[entry.rec] # NoRow
    BY <1>1 DEF Snapshot, NoRow
  <2>2. QED
    BY <1>1, <2>1 DEF Filled
<1>3. ASSUME NEW r \in Matching(book, call.since),
             \/ IsCached(call.realm, book, table, r)
             \/ [rec |-> r, content |-> book[r].content] \in call.page
      PROVE  \/ IsCached(call.realm, book, after, r)
             \/ [rec |-> r, content |-> book[r].content] \in call.page \ {entry}
  <2>1. CASE r = entry.rec
    BY <1>1, <2>1 DEF IsCached
  <2>2. CASE r # entry.rec
    <3>1. [rec |-> r, content |-> book[r].content] # entry
      BY <2>2
    <3>2. after[r] = table[r]
      BY <1>1, <2>2
    <3>3. QED
      BY <1>3, <3>1, <3>2 DEF IsCached
  <2>3. QED
    BY <2>1, <2>2
<1>4. QED
  BY <1>2, <1>3 DEF PageHeld

\* One row of a page is written.
LEMMA UpsertKeepsCache ==
    ASSUME SyncConstants, GrantInv, CacheCore, Upsert
    PROVE  CacheCore'
<1>1. PICK s : s = Sync
  OBVIOUS
<1>2. PICK e : e = Walks[s.at]
  OBVIOUS
<1>3. /\ s \in Writing /\ s.pc = "rows" /\ s.page \subseteq Entry(e) /\ s # Idle /\ "sync" \in Threads
      /\ e \in WalkNames
  BY <1>1, <1>2, SyncTyped, RowsCall, PlacesTyped DEF Upsert, Idle, Writing
<1>4. PICK entry \in s.page :
          /\ rows' = rows \/ rows' = [rows EXCEPT ![e][entry.rec] = Snapshot(s.realm, entry.content)]
          /\ rows[e][entry.rec] = Snapshot(s.realm, entry.content) => rows' = rows
          /\ amiss' = amiss \/ amiss' = amiss \cup {"recurred"}
          /\ "recurred" \notin amiss' =>
                \/ rows[e][entry.rec] = Snapshot(s.realm, entry.content)
                \/ rows' = [rows EXCEPT ![e][entry.rec] = Snapshot(s.realm, entry.content)]
          /\ Goto("sync", [s EXCEPT !.page = @ \ {entry}])
          /\ UNCHANGED <<books, cred, reports, cursors>>
  BY <1>1, <1>2 DEF Upsert, provider
<1>5. PICK snap : snap = Snapshot(s.realm, entry.content)
  OBVIOUS
<1>6. /\ rows' = rows \/ rows' = [rows EXCEPT ![e][entry.rec] = snap]
      /\ amiss' = amiss \/ amiss' = amiss \cup {"recurred"}
      /\ "recurred" \notin amiss' => rows[e][entry.rec] = snap \/ rows' = [rows EXCEPT ![e][entry.rec] = snap]
      /\ UNCHANGED <<books, cred, reports, cursors>>
  BY <1>4, <1>5
<1>7. PICK left : left = [s EXCEPT !.page = @ \ {entry}]
  OBVIOUS
<1>8. Sync' = left
  <2>1. calls'["sync"] = left
    BY <1>3, <1>4, <1>7, OneMoves DEF GrantInv, SyncTypeOK
  <2>2. QED
    BY <2>1 DEF Sync
<1>9. /\ left.page = s.page \ {entry} /\ left.since = s.since /\ left.cursor = s.cursor /\ left.full = s.full
      /\ left.max = s.max /\ left.realm = s.realm /\ left.pc = "rows" /\ left.at = s.at
  BY <1>3, <1>7 DEF Writing
<1>10. /\ entry.rec \in Records[e] /\ DOMAIN rows = WalkNames /\ \A f \in WalkNames : DOMAIN rows[f] = Records[f]
       /\ snap # NoRow /\ snap.realm = s.realm
  BY <1>3, <1>5 DEF Entry, GrantInv, SyncTypeOK, CacheTyped, Snapshot, NoRow
<1>11. CacheIsConnected'
  <2>1. SUFFICES ASSUME amiss \cap {"crossed", "kept"} = {}, cred # NoCred
                 PROVE  ~Foreign(cred.realm, rows', reports)
    BY <1>6 DEF CacheIsConnected, OneCompanysBooks
  <2>2. ~Foreign(cred.realm, rows, reports) /\ cred.realm = s.realm
    BY <1>1, <1>3, <2>1 DEF CacheCore, CacheIsConnected, OneCompanysBooks, GrantInv, SameFate, Sync
  <2>3. \A f \in WalkNames : \A q \in Records[f] : rows'[f][q] = rows[f][q] \/ rows'[f][q] = snap
    BY <1>3, <1>6, <1>10
  <2>4. QED
    BY <1>10, <2>2, <2>3 DEF Foreign
<1>12. WalksPinned'
  BY <1>1, <1>3, <1>6, <1>8, <1>9 DEF CacheCore, WalksPinned
<1>13. ASSUME Untroubled'
       PROVE  /\ \A f \in WalkNames :
                    /\ cursors[f].high > 0 \/ cursors[f].pos > 1 => Filled(rows'[f])
                    /\ \A realm \in Realms : OwnedBy(realm, rows'[f]) =>
                          /\ WalkCached(realm, books[realm][f], rows'[f], cursors[f])
                          /\ WalkBacked(books[realm][f], cursors[f])
              /\ s.cursor = cursors[e] /\ PageHeld(left, BookOf(s), rows'[e])
  <2>1. Untroubled /\ "recurred" \notin amiss'
    BY <1>6, <1>13 DEF Untroubled
  <2>2. PICK table : table = rows[e]
    OBVIOUS
  <2>3. PICK after : after = [table EXCEPT ![entry.rec] = snap]
    OBVIOUS
  <2>4. rows'[e] = after /\ \A f \in WalkNames : f # e => rows'[f] = rows[f]
    <3>1. CASE rows[e][entry.rec] = snap
      <4>1. rows' = rows
        BY <1>3, <1>4, <1>5, <3>1
      <4>2. after = table
        BY <1>3, <1>10, <2>2, <2>3, <3>1 DEF GrantInv, SyncTypeOK, CacheTyped
      <4>3. QED
        BY <2>2, <4>1, <4>2
    <3>2. CASE rows' = [rows EXCEPT ![e][entry.rec] = snap]
      BY <1>3, <1>10, <2>2, <2>3, <3>2
    <3>3. QED
      BY <1>6, <2>1, <3>1, <3>2
  <2>5. /\ s.realm \in Realms /\ OwnedBy(s.realm, table) /\ s.cursor = cursors[e]
        /\ PageHeld(s, BookOf(s), table)
    BY <1>1, <1>2, <1>3, <2>1, <2>2, AtWork DEF CacheCore, PageSound
  <2>6. PICK book : book = BookOf(s)
    OBVIOUS
  <2>7. PICK c : c = cursors[e]
    OBVIOUS
  <2>8. /\ Records[e] \subseteq Nat /\ IsFiniteSet(Records[e]) /\ book \in Book(Records[e]) /\ book = books[s.realm][e]
        /\ DOMAIN table = Records[e] /\ c.since \in Nat /\ s.since \in Nat
    <3>1. /\ Records[e] \subseteq Nat /\ IsFiniteSet(Records[e]) /\ book \in Book(Records[e]) /\ book = books[s.realm][e]
          /\ DOMAIN table = Records[e] /\ c \in Cursor /\ Times \subseteq Nat
      BY <1>2, <1>3, <2>2, <2>5, <2>6, <2>7, WalkFacts DEF BookOf
    <3>2. s.since \in Times /\ c.since \in Times
      BY <1>3, <3>1 DEF Writing, Cursor
    <3>3. QED
      BY <3>1, <3>2
  <2>9. Matching(book, 0) \subseteq DOMAIN table /\ Matching(book, c.since) \subseteq DOMAIN table
        /\ Matching(book, s.since) \subseteq DOMAIN table
    BY <2>8 DEF Matching, Book
  <2>10. snap = Snapshot(s.realm, book[entry.rec].content)
    BY <1>5, <2>5, <2>6 DEF PageHeld
  <2>11. PageHeld(left, book, after) /\ Filled(after)
    <3>1. PageHeld(s, book, table) /\ entry.rec \in DOMAIN table
      BY <1>10, <2>5, <2>6, <2>8
    <3>2. after = [table EXCEPT ![entry.rec] = Snapshot(s.realm, book[entry.rec].content)]
      BY <2>3, <2>10
    <3>3. QED
      BY <1>9, <2>9, <3>1, <3>2, UpsertKeepsPage
  <2>12. WalkCached(s.realm, book, table, c) /\ WalkBacked(book, c)
    BY <1>3, <2>1, <2>2, <2>5, <2>7, <2>8 DEF CacheCore, WalksSound
  <2>13. WalkCached(s.realm, book, after, c)
    BY <1>10, <2>3, <2>8, <2>9, <2>10, <2>12, UpsertKeepsWalk
  <2>14. ASSUME NEW realm \in Realms, OwnedBy(realm, after)
         PROVE  realm = s.realm
    <3>1. entry.rec \in DOMAIN after /\ after[entry.rec] = snap
      BY <1>10, <2>3, <2>8
    <3>2. QED
      BY <1>10, <2>14, <3>1 DEF OwnedBy
  <2>15. ASSUME NEW f \in WalkNames
         PROVE  /\ cursors[f].high > 0 \/ cursors[f].pos > 1 => Filled(rows'[f])
                /\ \A realm \in Realms : OwnedBy(realm, rows'[f]) =>
                      /\ WalkCached(realm, books[realm][f], rows'[f], cursors[f])
                      /\ WalkBacked(books[realm][f], cursors[f])
    <3>1. CASE f = e
      BY <2>4, <2>7, <2>8, <2>11, <2>12, <2>13, <2>14, <3>1
    <3>2. CASE f # e
      BY <2>1, <2>4, <3>2 DEF CacheCore, WalksSound
    <3>3. QED
      BY <3>1, <3>2
  <2>16. QED
    BY <2>4, <2>5, <2>6, <2>11, <2>15
<1>14. WalksSound'
  BY <1>6, <1>13 DEF WalksSound
<1>15. PageSound'
  <2>1. BookOf(Sync)' = BookOf(s)
    BY <1>6, <1>8, <1>9 DEF BookOf
  <2>2. QED
    BY <1>2, <1>6, <1>8, <1>9, <1>13, <2>1 DEF PageSound
<1>16. QED
  BY <1>11, <1>12, <1>14, <1>15 DEF CacheCore

\* A cursor at its start tells of nothing.
LEMMA StartTellsNothing ==
    ASSUME NEW R, R \subseteq Nat, IsFiniteSet(R), NEW book \in Book(R), NEW realm, NEW table, NEW c,
           c.high = 0, c.pos = 1, c.since = 0
    PROVE  WalkCached(realm, book, table, c) /\ WalkBacked(book, c)
<1>1. \A r \in Matching(book, 0) : book[r].at \in Nat
  BY MatchingTyped
<1>2. \A r \in Matching(book, 0) : Position(book, 0, r) \in Nat \ {0}
  BY PositionOrder
<1>3. QED
  BY <1>1, <1>2 DEF WalkCached, WalkBacked

\* Nobody else owns rows of a company.
LEMMA OneOwner ==
    ASSUME NEW table, NEW realm, NEW other, OwnedBy(realm, table), OwnedBy(other, table), realm # other
    PROVE  ~Filled(table)
  BY DEF OwnedBy, Filled

\* The cursor is advanced over the page that was written.
LEMMA AdvanceKeepsCache ==
    ASSUME SyncConstants, GrantInv, CacheCore, Advance
    PROVE  CacheCore'
<1>1. PICK s : s = Sync
  OBVIOUS
<1>2. PICK e : e = Walks[s.at]
  OBVIOUS
<1>3. PICK d : d = Advanced(s.cursor, s.since, s.max, s.full)
  OBVIOUS
<1>4. /\ s \in Writing /\ s.pc = "rows" /\ s.page = {} /\ s # Idle /\ "sync" \in Threads /\ e \in WalkNames
      /\ UNCHANGED <<books, cred, rows, reports, amiss>> /\ PutCursor(e, d)
      /\ \E at : Goto("sync", NextOf(s, at))
  BY <1>1, <1>2, <1>3, SyncTyped, RowsCall, PlacesTyped DEF Advance, Idle, Writing, provider
<1>5. Sync'.pc = "next"
  <2>1. PICK at : Goto("sync", NextOf(s, at))
    BY <1>4
  <2>2. calls'["sync"] = NextOf(s, at)
    BY <1>4, <2>1, OneMoves DEF GrantInv, SyncTypeOK
  <2>3. QED
    BY <2>2 DEF Sync, NextOf
<1>6. /\ cursors'[e] = d \/ cursors'[e] = cursors[e]
      /\ \A f \in WalkNames : f # e => cursors'[f] = cursors[f]
  BY <1>4, PutIs, PlacesTyped DEF GrantInv, SyncTypeOK, CacheTyped
<1>7. PICK c : c = s.cursor
  OBVIOUS
<1>8. c \in Cursor /\ s.full \in BOOLEAN /\ s.max \in Times /\ s.since = c.high /\ (c.pos > 1 => c.since = c.high)
  BY <1>1, <1>4, <1>7 DEF Writing, CacheCore, WalksPinned
<1>9. AdvancesTo(s, c, d)
  <2>1. CASE s.full
    BY <1>3, <1>7, <1>8, <2>1 DEF Advanced, Cursor, AdvancesTo
  <2>2. CASE ~s.full
    BY <1>3, <1>7, <1>8, <2>2 DEF Advanced, AdvancesTo
  <2>3. QED
    BY <2>1, <2>2
<1>10. CacheIsConnected'
  BY <1>4, ConnectedKept DEF CacheCore
<1>11. WalksPinned'
  <2>1. d.pos > 1 => d.since = d.high
    BY <1>9 DEF AdvancesTo
  <2>2. QED
    BY <1>5, <1>6, <2>1 DEF CacheCore, WalksPinned
<1>12. PageSound'
  BY <1>5 DEF PageSound
<1>13. WalksSound'
  <2>1. SUFFICES ASSUME Untroubled, NEW f \in WalkNames
                 PROVE  /\ cursors'[f].high > 0 \/ cursors'[f].pos > 1 => Filled(rows[f])
                        /\ \A realm \in Realms : OwnedBy(realm, rows[f]) =>
                              /\ WalkCached(realm, books[realm][f], rows[f], cursors'[f])
                              /\ WalkBacked(books[realm][f], cursors'[f])
    BY <1>4 DEF WalksSound, Untroubled
  <2>2. CASE cursors'[f] = cursors[f]
    BY <2>1, <2>2 DEF CacheCore, WalksSound
  <2>3. CASE f = e /\ cursors'[e] = d
    <3>1. s.realm \in Realms /\ OwnedBy(s.realm, rows[e]) /\ c = cursors[e] /\ PageHeld(s, BookOf(s), rows[e])
      BY <1>1, <1>2, <1>4, <1>7, <2>1, AtWork DEF CacheCore, PageSound
    <3>2. PICK book : book = BookOf(s)
      OBVIOUS
    <3>3. /\ Records[e] \subseteq Nat /\ IsFiniteSet(Records[e]) /\ book \in Book(Records[e]) /\ book = books[s.realm][e]
          /\ PageSize \in Nat \ {0} /\ Marks(c) /\ s.max \in Nat
      BY <1>2, <1>4, <1>8, <3>1, <3>2, WalkFacts DEF BookOf
    <3>4. /\ WalkCached(s.realm, book, rows[e], c) /\ WalkBacked(book, c)
          /\ c.high > 0 \/ c.pos > 1 => Filled(rows[e])
      BY <1>4, <2>1, <3>1, <3>3 DEF CacheCore, WalksSound
    <3>5. s.cursor = c /\ PageHeld(s, book, rows[e])
      BY <1>7, <3>1, <3>2
    <3>6. /\ WalkCached(s.realm, book, rows[e], d) /\ WalkBacked(book, d)
          /\ d.high > 0 \/ d.pos > 1 => Filled(rows[e])
      BY <1>4, <1>8, <1>9, <3>3, <3>4, <3>5, AdvancedWalk
    <3>7. ASSUME NEW realm \in Realms, OwnedBy(realm, rows[e]), realm # s.realm
          PROVE  WalkCached(realm, books[realm][e], rows[e], d) /\ WalkBacked(books[realm][e], d)
      <4>1. ~Filled(rows[e])
        BY <3>1, <3>7, OneOwner
      <4>2. d.high = 0 /\ d.pos = 1 /\ d.since = 0
        <5>1. c.high \in Nat /\ c.pos \in Nat \ {0}
          BY <3>3 DEF Marks
        <5>2. QED
          BY <1>8, <1>9, <3>3, <3>6, <4>1, <5>1 DEF AdvancesTo
      <4>3. books[realm][e] \in Book(Records[e])
        BY <1>4, WalkFacts
      <4>4. QED
        BY <3>3, <4>2, <4>3, StartTellsNothing
    <3>8. QED
      BY <2>3, <3>3, <3>6, <3>7
  <2>4. QED
    BY <1>6, <2>2, <2>3
<1>14. QED
  BY <1>10, <1>11, <1>12, <1>13 DEF CacheCore

\* Tables that are emptied.
LEMMA EmptiedSound ==
    ASSUME SyncConstants, GrantInv, UNCHANGED books, rows' = NoRows, cursors' = NoCursors
    PROVE  WalksSound' /\ \A e \in WalkNames : cursors'[e].pos = 1
<1>1. ASSUME NEW e \in WalkNames
      PROVE  cursors'[e].high = 0 /\ cursors'[e].pos = 1 /\ cursors'[e].since = 0
  BY PlacesTyped DEF NoCursors, NoCursor
<1>2. ASSUME NEW e \in WalkNames, NEW realm \in Realms
      PROVE  WalkCached(realm, books[realm][e], rows'[e], cursors'[e]) /\ WalkBacked(books[realm][e], cursors'[e])
  <2>1. Records[e] \subseteq Nat /\ IsFiniteSet(Records[e]) /\ books[realm][e] \in Book(Records[e])
    BY WalkFacts
  <2>2. QED
    BY <1>1, <2>1, StartTellsNothing
<1>3. QED
  BY <1>1, <1>2 DEF WalksSound

\* Somebody connects or disconnects: a thread at work is crossed by it.
LEMMA ConnectionKeepsCache ==
    ASSUME SyncConstants, GrantInv, CacheCore, Disconnect \/ \E realm \in Realms : Connect(realm)
    PROVE  CacheCore'
<1>1. /\ UNCHANGED <<books, calls>> /\ amiss \subseteq amiss' /\ (Busy => "crossed" \in amiss')
      /\ \/ UNCHANGED <<rows, cursors>>
         \/ rows' = NoRows /\ cursors' = NoCursors
  BY DEF Disconnect, Connect, Wiped, provider, cache
<1>2. CacheIsConnected'
  <2>1. CASE Disconnect
    BY <2>1 DEF Disconnect, CacheIsConnected, OneCompanysBooks
  <2>2. ASSUME NEW realm \in Realms, Connect(realm) PROVE CacheIsConnected'
    <3>1. SUFFICES ASSUME amiss' \cap {"crossed", "kept"} = {}
                   PROVE  ~Foreign(realm, rows', reports')
      BY <2>2 DEF Connect, CacheIsConnected, OneCompanysBooks
    <3>2. ~Outlives(realm) /\ amiss \cap {"crossed", "kept"} = {}
      BY <2>2, <3>1 DEF Connect
    <3>3. CASE cred # NoCred /\ cred.realm # realm
      BY <2>2, <3>2, <3>3 DEF Connect, Wiped, Outlives
    <3>4. CASE cred = NoCred
      BY <2>2, <3>2, <3>4 DEF Connect, Wiped, Outlives, cache
    <3>5. CASE cred # NoCred /\ cred.realm = realm
      BY <2>2, <3>2, <3>5 DEF Connect, Wiped, cache, CacheCore, CacheIsConnected, OneCompanysBooks
    <3>6. QED
      BY <3>3, <3>4, <3>5
  <2>3. QED
    BY <2>1, <2>2
<1>3. Sync' = Sync /\ (Sync # Idle => "crossed" \in amiss')
  BY <1>1 DEF Sync, Busy, Threads
<1>4. WalksSound' /\ \A e \in WalkNames : cursors'[e].pos > 1 => cursors'[e].since = cursors'[e].high
  <2>1. CASE UNCHANGED <<rows, cursors>>
    BY <1>1, <2>1, WalksKeptSound DEF CacheCore, WalksPinned
  <2>2. CASE rows' = NoRows /\ cursors' = NoCursors
    BY <1>1, <2>2, EmptiedSound
  <2>3. QED
    BY <1>1, <2>1, <2>2
<1>5. WalksPinned'
  BY <1>3, <1>4 DEF CacheCore, WalksPinned
<1>6. PageSound'
  BY <1>3 DEF PageSound, Untroubled, Idle
<1>7. QED
  BY <1>2, <1>4, <1>5, <1>6 DEF CacheCore

\* The books change.  A record that changes in mid-walk shifts the pages; one that is
\* entered comes last; between walks a change is not behind the high-water mark.
LEMMA UpdateKeepsCache ==
    ASSUME SyncConstants, GrantInv, CacheCore, NEW realm \in Realms, NEW e \in WalkNames, NEW r \in Records[e],
           NEW content \in Contents, Update(realm, e, r, content)
    PROVE  CacheCore'
<1>1. PICK book : book = books[realm][e]
  OBVIOUS
<1>2. PICK now : now = Start + updates + 1
  OBVIOUS
<1>3. PICK at \in {now} \cup
            {a \in {book[q].at : q \in {q \in Records[e] : book[q] # NoRow}} :
               \A b \in {book[q].at : q \in {q \in Records[e] : book[q] # NoRow}} : b <= a} :
         /\ books' = [books EXCEPT ![realm][e][r] = [content |-> content, at |-> at]]
         /\ amiss' = IF WalkOpen(realm, e) /\ (book[r] # NoRow \/ at # now)
                       THEN amiss \cup {"shifted"} ELSE amiss
  BY <1>1, <1>2 DEF Update
<1>4. UNCHANGED <<cred, rows, reports, cursors, calls>> /\ amiss \subseteq amiss' /\ Sync' = Sync
  BY <1>3 DEF Update, cache, Sync
<1>5. CacheIsConnected' /\ WalksPinned'
  BY <1>4, ConnectedKept DEF CacheCore, WalksPinned
<1>6. PICK after : after = [book EXCEPT ![r] = [content |-> content, at |-> at]]
  OBVIOUS
<1>7. /\ books'[realm][e] = after
      /\ \A x \in Realms, f \in WalkNames : ~(x = realm /\ f = e) => books'[x][f] = books[x][f]
  BY <1>1, <1>3, <1>6 DEF GrantInv, SyncTypeOK, BooksTyped
<1>8. /\ Records[e] \subseteq Nat /\ IsFiniteSet(Records[e]) /\ book \in Book(Records[e]) /\ PageSize \in Nat \ {0}
      /\ DOMAIN rows[e] = Records[e] /\ cursors[e] \in Cursor
      /\ \A c \in Cursor : Marks(c) /\ c.high \in Times /\ c.since \in Times /\ c.max \in Times
      /\ Times \subseteq Nat
  BY <1>1, WalkFacts
<1>9. now \in Nat /\ \A a \in Times : a \in Nat /\ a < now /\ a <= now
  <2>1. Start \in Nat /\ updates \in Nat
    BY StartTyped, CountsFacts DEF GrantInv, SyncTypeOK
  <2>2. QED
    BY <1>2, <2>1 DEF Times
<1>10. \A q \in Records[e] : book[q] # NoRow => book[q].at \in Times
  BY <1>1 DEF GrantInv, SyncTypeOK, BooksTyped
<1>11. at \in Nat /\ \A q \in Records[e] : book[q] # NoRow => book[q].at <= at
  <2>1. CASE at = now
    BY <1>8, <1>9, <1>10, <2>1
  <2>2. CASE at \in {a \in {book[q].at : q \in {q \in Records[e] : book[q] # NoRow}} :
                       \A b \in {book[q].at : q \in {q \in Records[e] : book[q] # NoRow}} : b <= a}
    BY <1>8, <1>10, <2>2
  <2>3. QED
    BY <1>3, <2>1, <2>2
<1>12. ASSUME Untroubled', WalkOpen(realm, e)
       PROVE  Enters(Records[e], book, r, content, now, after)
  <2>1. book[r] = NoRow /\ at = now
    BY <1>3, <1>12 DEF Untroubled
  <2>2. \A q \in Records[e] : book[q] # NoRow => book[q].at < now
    BY <1>9, <1>10
  <2>3. QED
    BY <1>6, <1>8, <1>9, <2>1, <2>2 DEF Enters
<1>13. Untroubled' => Untroubled
  BY <1>4 DEF Untroubled
<1>14. ASSUME Untroubled', OwnedBy(realm, rows[e])
       PROVE  WalkCached(realm, after, rows[e], cursors[e]) /\ WalkBacked(after, cursors[e])
  <2>1. PICK c : c = cursors[e]
    OBVIOUS
  <2>2. WalkCached(realm, book, rows[e], c) /\ WalkBacked(book, c)
    BY <1>1, <1>13, <1>14, <2>1 DEF CacheCore, WalksSound
  <2>3. Marks(c) /\ c.high <= now /\ c.since <= now
    BY <1>8, <1>9, <2>1
  <2>4. CASE WalkOpen(realm, e)
    <3>1. Enters(Records[e], book, r, content, now, after)
      BY <1>12, <1>14, <2>4
    <3>2. QED
      BY <2>1, <2>2, <2>3, <3>1, EnteredKeepsWalk
  <2>5. CASE ~WalkOpen(realm, e)
    <3>1. c.pos = 1
      BY <2>1, <2>3, <2>5 DEF WalkOpen, Marks
    <3>2. WalkCached(realm, after, rows[e], c) /\ WalkBacked(after, c)
      <4>1. Changes(Records[e], book, r, content, at, after)
        BY <1>6, <1>8, <1>11 DEF Changes
      <4>2. QED
        BY <2>2, <2>3, <3>1, <4>1, ChangedKeepsWalk
    <3>3. QED
      BY <2>1, <3>2
  <2>6. QED
    BY <2>4, <2>5
<1>15. WalksSound'
  <2>1. SUFFICES ASSUME Untroubled', NEW f \in WalkNames
                 PROVE  /\ cursors[f].high > 0 \/ cursors[f].pos > 1 => Filled(rows[f])
                        /\ \A x \in Realms : OwnedBy(x, rows[f]) =>
                              /\ WalkCached(x, books'[x][f], rows[f], cursors[f])
                              /\ WalkBacked(books'[x][f], cursors[f])
    BY <1>4 DEF WalksSound
  <2>2. ASSUME NEW x \in Realms, OwnedBy(x, rows[f])
        PROVE  WalkCached(x, books'[x][f], rows[f], cursors[f]) /\ WalkBacked(books'[x][f], cursors[f])
    <3>1. CASE x = realm /\ f = e
      BY <1>7, <1>14, <2>1, <2>2, <3>1
    <3>2. CASE ~(x = realm /\ f = e)
      BY <1>7, <1>13, <2>1, <2>2, <3>2 DEF CacheCore, WalksSound
    <3>3. QED
      BY <3>1, <3>2
  <2>3. QED
    BY <1>13, <2>1, <2>2 DEF CacheCore, WalksSound
<1>16. PageSound'
  <2>1. SUFFICES ASSUME Untroubled', Sync.pc \in {"asked", "rows"}
                 PROVE  /\ Sync.cursor = cursors[Walks[Sync.at]]
                        /\ Sync.pc = "rows" => PageHeld(Sync, BookOf(Sync)', rows[Walks[Sync.at]])
    BY <1>4 DEF PageSound
  <2>2. PICK s : s = Sync
    OBVIOUS
  <2>3. PICK f : f = Walks[s.at]
    OBVIOUS
  <2>4. ASSUME s.pc = "rows" PROVE PageHeld(s, books'[s.realm][f], rows[f])
    <3>1. s \in Writing /\ f \in WalkNames /\ s.realm \in Realms
      BY <2>2, <2>3, <2>4, SyncTyped, RowsCall, PlacesTyped DEF Writing
    <3>2. PageHeld(s, books[s.realm][f], rows[f])
      BY <1>13, <2>1, <2>2, <2>3, <2>4 DEF CacheCore, PageSound, BookOf
    <3>3. CASE s.realm = realm /\ f = e
      <4>1. WalkOpen(realm, e)
        BY <2>1, <2>2, <2>3, <3>3 DEF WalkOpen
      <4>2. Enters(Records[e], book, r, content, now, after)
        BY <1>12, <2>1, <4>1
      <4>3. /\ s.since \in Nat /\ s.since <= now /\ s.max \in Nat /\ s.max <= now
            /\ s.cursor.pos \in Nat \ {0}
        <5>1. s.since \in Times /\ s.max \in Times /\ s.cursor \in Cursor
          BY <3>1 DEF Writing
        <5>2. QED
          BY <1>8, <1>9, <5>1 DEF Marks
      <4>4. PageHeld(s, book, rows[e])
        BY <1>1, <3>2, <3>3
      <4>5. PageHeld(s, after, rows[e])
        BY <1>8, <4>2, <4>3, <4>4, EnteredKeepsPage
      <4>6. QED
        BY <1>7, <3>3, <4>5
    <3>4. CASE ~(s.realm = realm /\ f = e)
      BY <1>7, <3>1, <3>2, <3>4
    <3>5. QED
      BY <3>3, <3>4
  <2>5. BookOf(Sync)' = books'[s.realm][f]
    BY <1>4, <2>2, <2>3 DEF BookOf
  <2>6. QED
    BY <1>13, <2>1, <2>2, <2>3, <2>4, <2>5 DEF CacheCore, PageSound
<1>17. QED
  BY <1>5, <1>15, <1>16 DEF CacheCore

\* Every step keeps what the caches rest on.
LEMMA StepKeepsCache ==
    ASSUME SyncConstants, GrantInv, CacheCore, SyncNext
    PROVE  CacheCore'
<1>1. CASE \E realm \in Realms, e \in WalkNames, content \in Contents :
              \E r \in Records[e] : Update(realm, e, r, content)
  BY <1>1, UpdateKeepsCache
<1>2. CASE \/ \E token \in live : TokenDies(token)
           \/ \E realm \in Realms : Revoke(realm)
           \/ Restart
  BY <1>2, OutsideKeepsCache
<1>3. CASE Disconnect \/ \E realm \in Realms : Connect(realm)
  BY <1>3, ConnectionKeepsCache
<1>4. CASE \E t \in Threads : \/ Begin(t) \/ Granted(t) \/ Rejected(t) \/ RefreshFails(t)
                              \/ Persist(t) \/ Mark(t) \/ WriteFails(t) \/ Fails(t)
  BY <1>4, RefreshKeepsCache
<1>5. CASE \/ Limited \/ Expired \/ FetchFails \/ ApplyFails \/ CycleEnds
           \/ ReportsBegin \/ ReportFails \/ ReportsEnd
  BY <1>5, LeaveKeepsCache
<1>6. CASE Ask \/ PageArrives \/ Upsert \/ Advance \/ ReportArrives
  BY <1>6, AskKeepsCache, PageKeepsCache, UpsertKeepsCache, AdvanceKeepsCache, ReportKeepsCache
<1>7. QED
  BY <1>1, <1>2, <1>3, <1>4, <1>5, <1>6 DEF SyncNext, Step

\* The process starts with empty tables.
LEMMA InitCached ==
    ASSUME SyncConstants, SyncInit
    PROVE  CacheCore
<1>1. GrantInv
  BY InitSound
<1>2. Sync = Idle
  BY DEF SyncInit, Sync, Threads
<1>3. \A e \in WalkNames : cursors[e] = NoCursor
  BY PlacesTyped DEF SyncInit
<1>4. WalksSound
  <2>1. ASSUME NEW e \in WalkNames
        PROVE  cursors[e].high = 0 /\ cursors[e].pos = 1 /\ cursors[e].since = 0
    BY <1>3 DEF NoCursor
  <2>2. ASSUME NEW e \in WalkNames, NEW realm \in Realms
        PROVE  WalkCached(realm, books[realm][e], rows[e], cursors[e]) /\ WalkBacked(books[realm][e], cursors[e])
    <3>1. Records[e] \subseteq Nat /\ IsFiniteSet(Records[e]) /\ books[realm][e] \in Book(Records[e])
      BY <1>1, WalkFacts
    <3>2. QED
      BY <2>1, <3>1, StartTellsNothing
  <2>3. QED
    BY <2>1, <2>2 DEF WalksSound
<1>5. Sync.pc = "idle" /\ \A e \in WalkNames : ~(cursors[e].pos > 1)
  BY <1>2, <1>3 DEF Idle, NoCursor
<1>6. CacheIsConnected
  BY DEF SyncInit, CacheIsConnected, OneCompanysBooks
<1>7. QED
  BY <1>4, <1>5, <1>6 DEF CacheCore, WalksPinned, PageSound

\* What the connected company's cursors tell follows.
LEMMA CoreIsEnough ==
    ASSUME GrantInv, CacheCore
    PROVE  CacheInv
<1>1. ASSUME Untroubled, cred # NoCred, NEW e \in WalkNames
      PROVE  WalkCached(cred.realm, books[cred.realm][e], rows[e], cursors[e])
  <2>1. ~Foreign(cred.realm, rows, reports) /\ cred.realm \in Realms /\ DOMAIN rows[e] = Records[e]
    BY <1>1 DEF CacheCore, CacheIsConnected, OneCompanysBooks, Untroubled, GrantInv, SyncTypeOK, GrantTyped, CacheTyped
  <2>2. OwnedBy(cred.realm, rows[e])
    BY <2>1 DEF Foreign, OwnedBy
  <2>3. QED
    BY <1>1, <2>1, <2>2 DEF CacheCore, WalksSound
<1>2. QED
  BY <1>1 DEF CacheInv, CacheCore, WalkedIsCached

\* "Promote the walk: everything updated up to walk_max is now cached", "the cursor
\* only advances after its page's rows commit", "they belong to another company's
\* books": for any companies, entities, records, contents and page size, what lies
\* before a high-water mark or before the position of a walk is cached as the
\* provider has it, over failing requests and writes, restarts and reconnections,
\* unless a record changed in mid-walk, a content recurred or somebody connected
\* across a thread at work.
THEOREM WalksAreCached == SyncSpec => []CacheInv
<1> SyncConstants
  BY BudgetAssumption, NamesAssumption DEF SyncConstants
<1>1. SyncInit => CacheCore
  BY InitCached
<1>2. GrantInv /\ CacheCore /\ [SyncNext]_syncVars => CacheCore'
  <2>1. ASSUME CacheCore, UNCHANGED syncVars PROVE CacheCore'
    <3>1. UNCHANGED <<books, rows, reports, cursors, cred, calls, amiss>> /\ Sync' = Sync
      BY <2>1 DEF syncVars, provider, cache, Sync
    <3>2. CacheIsConnected' /\ \A e \in WalkNames : SameWalk(cursors'[e], cursors[e])
      BY <2>1, <3>1, ConnectedKept DEF CacheCore, SameWalk
    <3>3. QED
      BY <2>1, <3>1, <3>2, AwayKeeps
  <2>2. QED
    BY <2>1, StepKeepsCache
<1>3. GrantInv /\ CacheCore => CacheInv
  BY CoreIsEnough
<1>4. SyncSpec => []GrantInv
  BY GrantsAreSafe
<1>5. QED
  BY <1>1, <1>2, <1>3, <1>4, PTL DEF SyncSpec
=============================================================================
