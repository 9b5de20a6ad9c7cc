---------------------------- MODULE ProduceProofs ----------------------------
(***************************************************************************)
(* The slot registry and the active-draft index are safe for any number of *)
(* items, clicks, smart-draft runs, drafts and faults.                     *)
(***************************************************************************)
EXTENDS Produce, FiniteSetTheorems, SequenceTheorems, TLAPS

\* The fields of a thread's place are well typed.
LEMMA WorkFields ==
    ASSUME TypeOK, NEW w \in Threads
    PROVE  /\ work[w] \in Work
           /\ work[w].pc \in {"idle", "dead", "kicked", "ending", "asking", "proposing", "closing"}
           /\ work[w].pc \notin {"idle", "dead"} => work[w].slot \in Slots
           /\ work[w].pc \in {"asking", "proposing"} => work[w].attempt \in Nat \ {0}
           /\ work[w].pc = "proposing" => work[w].accept \in {"done", "due", "conflict"}
           /\ work[w].pc = "closing" => work[w].status \in {"completed", "failed"}
BY DEF TypeOK, Work

\* Who is who among the threads.
LEMMA ThreadNames ==
    /\ Pump \in Threads \ Runs
    /\ \A w \in Clicks : w \in Threads \ Runs
    /\ \A r \in Runs : r \in Threads
BY StartersAssumption DEF Threads

\* A produce that goes on for its slot leaves the registry as it is.
LEMMA ProducerMoves ==
    ASSUME SlotInv, NoDoubleSpend, NEW w \in Threads \ Runs, NEW new \in Work,
           Producing(w), new.pc \in {"kicked", "asking", "ending"},
           new.slot = work[w].slot,
           work' = [work EXCEPT ![w] = new], UNCHANGED <<inFlight, leaked, runs>>
    PROVE  InFlightIsRunning' /\ ProducersHoldSlots' /\ NoDoubleSpend'
<1>1. /\ work'[w] = new /\ \A v \in Threads : v # w => work'[v] = work[v]
  BY DEF SlotInv, TypeOK
<1>2. \A v \in Threads \ Runs : /\ Producing(v)' <=> Producing(v)
                                /\ Producing(v) => work'[v].slot = work[v].slot
  BY <1>1 DEF Producing
<1>3. InFlightIsRunning'
  BY <1>2 DEF SlotInv, InFlightIsRunning
<1>4. ProducersHoldSlots'
  BY <1>1, <1>2, ThreadNames DEF SlotInv, ProducersHoldSlots
<1>5. NoDoubleSpend'
  BY <1>2 DEF NoDoubleSpend
<1>6. QED
  BY <1>3, <1>4, <1>5

\* begin_produce: a free slot is claimed for an idle thread.
LEMMA ProducerClaims ==
    ASSUME SlotInv, NoDoubleSpend, NEW w \in Threads \ Runs, NEW s \in Slots,
           work[w].pc = "idle", SlotFree(s), inFlight' = inFlight \cup {s},
           work' = [work EXCEPT ![w] = Kicked(s)],
           UNCHANGED <<accepted, drafts, keys, leaked, runs, faults>>,
           queue' \in Seq(Slots)
    PROVE  SlotInv' /\ NoDoubleSpend'
<1>1. /\ TypeOK /\ work'[w] = Kicked(s) /\ \A v \in Threads : v # w => work'[v] = work[v]
      /\ Kicked(s).pc = "kicked" /\ Kicked(s).slot = s
      /\ work' \in [Threads -> Work]
  BY DEF SlotInv, TypeOK, Kicked, Work
<1>2. ~Producing(w) /\ Producing(w)' /\ work'[w].slot = s
  BY <1>1 DEF Producing
<1>3. \A v \in Threads \ Runs : v # w => (Producing(v)' <=> Producing(v)) /\ work'[v] = work[v]
  BY <1>1 DEF Producing
<1>4. s \notin inFlight
  BY DEF SlotFree
<1>5. TypeOK'
  BY <1>1 DEF TypeOK
<1>6. InFlightIsRunning'
  <2>1. ASSUME NEW t \in inFlight' \ leaked'
        PROVE  \E v \in Threads \ Runs : Producing(v)' /\ work'[v].slot = t
    <3>1. CASE t = s
      BY <1>2, <3>1
    <3>2. CASE t # s
      <4>1. t \in inFlight \ leaked
        BY <2>1, <3>2
      <4>2. PICK v \in Threads \ Runs : Producing(v) /\ work[v].slot = t
        BY <4>1 DEF SlotInv, InFlightIsRunning
      <4>3. QED
        BY <1>2, <1>3, <4>2
    <3>3. QED
      BY <3>1, <3>2
  <2>2. QED
    BY <2>1 DEF InFlightIsRunning
<1>7. ProducersHoldSlots'
  <2>1. s \in inFlight' \ leaked'
    BY <1>1, <1>4 DEF TypeOK
  <2>2. QED
    BY <1>1, <1>2, <1>3, <2>1, ThreadNames DEF SlotInv, ProducersHoldSlots
<1>8. NoDoubleSpend'
  <2>1. \A v \in Threads \ Runs : Producing(v) => work[v].slot # s
    BY <1>4 DEF SlotInv, ProducersHoldSlots
  <2>2. QED
    BY <1>2, <1>3, <2>1 DEF NoDoubleSpend
<1>9. QED
  BY <1>5, <1>6, <1>7, <1>8 DEF SlotInv

\* What a smart-draft run does, it does beside the registry.
LEMMA RunMoves ==
    ASSUME SlotInv, NoDoubleSpend, NEW r \in Runs, NEW new \in Work,
           new.pc \in {"idle", "proposing", "closing"},
           work' = [work EXCEPT ![r] = new], UNCHANGED <<inFlight, leaked>>,
           \A q \in Runs : runs[q] # NoRun => runs'[q] # NoRun,
           new.pc # "idle" => runs'[r] # NoRun
    PROVE  InFlightIsRunning' /\ ProducersHoldSlots' /\ NoDoubleSpend'
<1>1. work'[r] = new /\ \A v \in Threads : v # r => work'[v] = work[v]
  BY ThreadNames DEF SlotInv, TypeOK
<1>2. \A v \in Threads \ Runs : work'[v] = work[v] /\ (Producing(v)' <=> Producing(v))
  BY <1>1 DEF Producing
<1>3. InFlightIsRunning' /\ NoDoubleSpend'
  BY <1>2 DEF SlotInv, InFlightIsRunning, NoDoubleSpend
<1>4. ProducersHoldSlots'
  BY <1>1, <1>2, ThreadNames DEF SlotInv, ProducersHoldSlots
<1>5. QED
  BY <1>3, <1>4

\* A stage appends a draft to its slot, when there is no active one, or changes
\* nothing.
LEMMA StageInserts ==
    ASSUME TypeOK, NEW w \in Threads, NEW s \in Slots, Inserts(w, s)
    PROVE  /\ drafts' \in [Slots -> Seq(Statuses)]
           /\ keys' \subseteq [by : Threads, slot : Slots]
           /\ OneActiveDraft => OneActiveDraft'
<1> DEFINE key == StageKey(w, s)
           n == Len(drafts[s]) + 1
           q == Append(drafts[s], "staged")
<1>1. drafts[s] \in Seq(Statuses) /\ "staged" \in Statuses
  BY DEF TypeOK, Statuses
<1>2. key \in [by : Threads, slot : Slots]
  BY DEF StageKey
<1>3. keys' \subseteq [by : Threads, slot : Slots]
  BY <1>2 DEF Inserts, TypeOK
<1>4. CASE drafts' = drafts
  BY <1>3, <1>4 DEF TypeOK, OneActiveDraft
<1>5. CASE drafts' # drafts
  <2>1. drafts' = [drafts EXCEPT ![s] = q] /\ ~Active(s)
    BY <1>5 DEF Inserts, Insertable
  <2>2. /\ q \in Seq(Statuses) /\ Len(q) = n /\ DOMAIN q = 1..n /\ n \in Nat
        /\ \A i \in 1..Len(drafts[s]) : q[i] = drafts[s][i]
    BY <1>1, AppendProperties, LenProperties
  <2>3. drafts' \in [Slots -> Seq(Statuses)] /\ drafts'[s] = q
        /\ \A t \in Slots : t # s => drafts'[t] = drafts[t]
    BY <2>1, <2>2 DEF TypeOK
  <2>4. \A i \in DOMAIN q : q[i] # "rejected" => i = n
    <3>1. SUFFICES ASSUME NEW i \in DOMAIN q, i # n PROVE q[i] = "rejected"
      OBVIOUS
    <3>2. i \in 1..Len(drafts[s]) /\ i \in DOMAIN drafts[s]
      BY <1>1, <2>2, <3>1, LenProperties
    <3>3. QED
      BY <2>1, <2>2, <3>2 DEF Active
  <2>5. OneActiveDraft => OneActiveDraft'
    <3> HIDE DEF q, n
    <3>1. SUFFICES ASSUME OneActiveDraft, NEW t \in Slots,
                          NEW i \in DOMAIN drafts'[t], NEW j \in DOMAIN drafts'[t],
                          drafts'[t][i] # "rejected", drafts'[t][j] # "rejected"
                   PROVE  i = j
      BY DEF OneActiveDraft
    <3>2. QED
      BY <2>3, <2>4, <3>1 DEF OneActiveDraft
  <2>6. QED
    BY <1>3, <2>3, <2>5
<1>6. QED
  BY <1>4, <1>5

\* The pump's scan collects slots, newest first.
LEMMA ScanCollects ==
    ASSUME PumpScan
    PROVE  queue' \in Seq(Slots)
<1> DEFINE candidates == {s \in Slots : InWindow(s) /\ Candidate(s)}
           size == IF Cardinality(candidates) < MaxPerCycle THEN Cardinality(candidates)
                   ELSE MaxPerCycle
<1>1. queue' \in [1..size -> candidates]
  BY DEF PumpScan
<1>2. IsFiniteSet(candidates)
  BY SlotsAssumption, FS_Subset
<1>3. Cardinality(candidates) \in Nat
  BY <1>2, FS_CardinalityType
<1>4. size \in Nat
  BY <1>3, BoundsAssumption
<1> HIDE DEF size
<1>5. queue' \in [1..size -> Slots]
  BY <1>1
<1>6. QED
  BY <1>4, <1>5

\* end_produce releases the slot of the one produce that has it.
LEMMA ProducerEnds ==
    ASSUME SlotInv, NoDoubleSpend, NEW w \in Threads, End(w)
    PROVE  SlotInv' /\ NoDoubleSpend'
<1> DEFINE s == work[w].slot
<1>1. /\ TypeOK /\ work[w].pc = "ending" /\ Producing(w)
      /\ inFlight' = inFlight \ {s} /\ work' = [work EXCEPT ![w] = Idle]
      /\ UNCHANGED <<accepted, drafts, keys, queue, runs, faults, leaked>>
  BY DEF SlotInv, End, Released, Producing
<1>2. w \in Threads \ Runs /\ s \in inFlight \ leaked
  BY <1>1 DEF SlotInv, ProducersHoldSlots
<1>3. /\ work'[w].pc = "idle" /\ \A v \in Threads : v # w => work'[v] = work[v]
      /\ work' \in [Threads -> Work]
  BY <1>1 DEF TypeOK, Idle, Work
<1>4. \A v \in Threads \ Runs : Producing(v)' => v # w /\ Producing(v) /\ work'[v] = work[v]
  BY <1>3 DEF Producing
<1>5. \A v \in Threads \ Runs : v # w /\ Producing(v) => Producing(v)' /\ work[v].slot # s
  BY <1>1, <1>2, <1>3 DEF NoDoubleSpend, Producing
<1> HIDE DEF s
<1>6. TypeOK'
  BY <1>1, <1>2, <1>3 DEF TypeOK
<1>7. InFlightIsRunning'
  <2>1. ASSUME NEW t \in inFlight' \ leaked'
        PROVE  \E v \in Threads \ Runs : Producing(v)' /\ work'[v].slot = t
    <3>1. t \in inFlight \ leaked /\ t # s
      BY <1>1, <2>1
    <3>2. PICK v \in Threads \ Runs : Producing(v) /\ work[v].slot = t
      BY <3>1 DEF SlotInv, InFlightIsRunning
    <3>3. v # w
      BY <3>1, <3>2 DEF s
    <3>4. QED
      BY <1>3, <1>5, <3>2, <3>3
  <2>2. QED
    BY <2>1 DEF InFlightIsRunning
<1>8. ProducersHoldSlots'
  <2>1. ASSUME NEW v \in Threads \ Runs
        PROVE  /\ work'[v].pc \notin {"proposing", "closing"}
               /\ Producing(v)' => work'[v].slot \in inFlight' \ leaked'
    BY <1>1, <1>3, <1>4, <1>5 DEF SlotInv, ProducersHoldSlots
  <2>2. ASSUME NEW r \in Runs PROVE work'[r] = work[r]
    BY <1>2, <1>3, ThreadNames
  <2>3. QED
    BY <1>1, <2>1, <2>2 DEF SlotInv, ProducersHoldSlots
<1>9. NoDoubleSpend'
  BY <1>4 DEF NoDoubleSpend
<1>10. QED
  BY <1>6, <1>7, <1>8, <1>9 DEF SlotInv

\* A panic leaves a claimed slot behind, which the history variable names.
LEMMA ThreadPanics ==
    ASSUME SlotInv, NoDoubleSpend, NEW w \in Threads, Panic(w)
    PROVE  SlotInv' /\ NoDoubleSpend'
<1> DEFINE s == work[w].slot
           new == [pc |-> IF w = Pump THEN "dead" ELSE "idle"]
<1>1. /\ TypeOK /\ work[w].pc \in {"kicked", "asking", "proposing"}
      /\ faults < MaxFaults /\ faults' = faults + 1
      /\ leaked' = IF w \in Runs THEN leaked ELSE leaked \cup {s}
      /\ work' = [work EXCEPT ![w] = new]
      /\ UNCHANGED <<accepted, drafts, keys, inFlight, queue, runs>>
  BY DEF SlotInv, Panic
<1>2. /\ work'[w] = new /\ \A v \in Threads : v # w => work'[v] = work[v]
      /\ work' \in [Threads -> Work] /\ new.pc \in {"idle", "dead"} /\ new \in Work
      /\ faults' \in 0..MaxFaults
  BY <1>1, BoundsAssumption DEF TypeOK, Work
<1>3. \A v \in Threads \ Runs : Producing(v)' => v # w /\ Producing(v) /\ work'[v] = work[v]
  BY <1>2 DEF Producing
<1>4. NoDoubleSpend'
  BY <1>3 DEF NoDoubleSpend
<1>5. CASE w \in Runs
  <2>1. new.pc = "idle" /\ leaked' = leaked
    BY <1>1, <1>5, ThreadNames
  <2> HIDE DEF new
  <2>2. InFlightIsRunning' /\ ProducersHoldSlots'
    BY <1>1, <1>2, <1>5, <2>1, RunMoves
  <2>3. TypeOK'
    BY <1>1, <1>2, <2>1 DEF TypeOK
  <2>4. QED
    BY <1>4, <2>2, <2>3 DEF SlotInv
<1>6. CASE w \notin Runs
  <2>1. work[w].pc # "proposing" /\ Producing(w) /\ s \in inFlight \ leaked
    BY <1>1, <1>6 DEF SlotInv, ProducersHoldSlots, Producing
  <2>2. leaked' = leaked \cup {s} /\ inFlight' = inFlight
    BY <1>1, <1>6
  <2>3. TypeOK'
    BY <1>1, <1>2, <2>1, <2>2 DEF TypeOK
  <2>4. \A v \in Threads \ Runs : v # w /\ Producing(v) => Producing(v)' /\ work[v].slot # s
    BY <1>2, <1>6, <2>1 DEF NoDoubleSpend, Producing
  <2>5. InFlightIsRunning'
    <3>1. ASSUME NEW t \in inFlight' \ leaked'
          PROVE  \E v \in Threads \ Runs : Producing(v)' /\ work'[v].slot = t
      <4>1. t \in inFlight \ leaked /\ t # s
        BY <2>2, <3>1
      <4>2. PICK v \in Threads \ Runs : Producing(v) /\ work[v].slot = t
        BY <4>1 DEF SlotInv, InFlightIsRunning
      <4>3. v # w
        BY <4>1, <4>2
      <4>4. QED
        BY <1>2, <2>4, <4>2, <4>3
    <3>2. QED
      BY <3>1 DEF InFlightIsRunning
  <2>6. ProducersHoldSlots'
    <3>1. ASSUME NEW v \in Threads \ Runs
          PROVE  /\ work'[v].pc \notin {"proposing", "closing"}
                 /\ Producing(v)' => work'[v].slot \in inFlight' \ leaked'
      BY <1>2, <1>3, <2>2, <2>4 DEF SlotInv, ProducersHoldSlots
    <3>2. ASSUME NEW r \in Runs PROVE work'[r] = work[r]
      BY <1>2, <1>6, ThreadNames
    <3>3. QED
      BY <1>1, <3>1, <3>2 DEF SlotInv, ProducersHoldSlots
  <2>7. QED
    BY <1>4, <2>3, <2>5, <2>6 DEF SlotInv
<1>7. QED
  BY <1>5, <1>6

\* A step that leaves the registry and the threads alone.
LEMMA RegistryUntouched ==
    ASSUME SlotInv, NoDoubleSpend, UNCHANGED <<inFlight, work, leaked>>,
           \A q \in Runs : runs[q] # NoRun => runs'[q] # NoRun
    PROVE  InFlightIsRunning' /\ ProducersHoldSlots' /\ NoDoubleSpend'
BY DEF SlotInv, InFlightIsRunning, ProducersHoldSlots, NoDoubleSpend, Producing

\* An operator's triage moves nothing but the expectations of smart-draft runs.
LEMMA TriageKeeps ==
    ASSUME SlotInv, NoDoubleSpend, NEW s \in Slots, Triage(s)
    PROVE  SlotInv' /\ NoDoubleSpend'
<1>1. /\ TypeOK /\ accepted' = [accepted EXCEPT ![s] = ~@]
      /\ work' = [w \in Threads |->
                    IF work[w].pc = "proposing" /\ work[w].slot = s /\ work[w].accept = "due"
                      THEN [work[w] EXCEPT !.accept = "conflict"] ELSE work[w]]
      /\ UNCHANGED <<drafts, keys, inFlight, queue, runs, faults, leaked>>
  BY DEF SlotInv, Triage
<1>2. ASSUME NEW w \in Threads
      PROVE  /\ work'[w] \in Work /\ work'[w].pc = work[w].pc
             /\ work[w].pc # "proposing" => work'[w] = work[w]
  <2>1. CASE work[w].pc = "proposing" /\ work[w].slot = s /\ work[w].accept = "due"
    <3>1. work'[w] = [work[w] EXCEPT !.accept = "conflict"]
      BY <1>1, <2>1
    <3>2. work[w] \in [pc : {"proposing"}, slot : Slots, attempt : Nat \ {0},
                       accept : {"done", "due", "conflict"}]
      BY <1>1, <2>1 DEF TypeOK, Work
    <3>3. work'[w] \in [pc : {"proposing"}, slot : Slots, attempt : Nat \ {0},
                        accept : {"done", "due", "conflict"}]
      BY <3>1, <3>2
    <3>4. QED
      BY <2>1, <3>3 DEF Work
  <2>2. CASE ~(work[w].pc = "proposing" /\ work[w].slot = s /\ work[w].accept = "due")
    <3>1. work'[w] = work[w]
      BY <1>1, <2>2
    <3>2. QED
      BY <1>1, <3>1 DEF TypeOK
  <2>3. QED
    BY <2>1, <2>2
<1>3. accepted' \in [Slots -> BOOLEAN]
  BY <1>1 DEF TypeOK
<1>4. work' \in [Threads -> Work]
  <2>1. DOMAIN work' = Threads /\ work' = [w \in DOMAIN work' |-> work'[w]]
    BY <1>1
  <2>2. QED
    BY <1>2, <2>1
<1>5. TypeOK'
  BY <1>1, <1>3, <1>4 DEF TypeOK
<1>6. \A w \in Threads \ Runs : work'[w] = work[w] /\ (Producing(w)' <=> Producing(w))
  BY <1>2 DEF SlotInv, ProducersHoldSlots, Producing
<1>7. InFlightIsRunning' /\ NoDoubleSpend'
  <2>1. inFlight' = inFlight /\ leaked' = leaked
    BY <1>1
  <2>2. NoDoubleSpend'
    BY <1>6 DEF NoDoubleSpend
  <2>3. InFlightIsRunning'
    BY <1>6, <2>1 DEF SlotInv, InFlightIsRunning
  <2>4. QED
    BY <2>2, <2>3
<1>8. ProducersHoldSlots'
  <2>1. ASSUME NEW w \in Threads \ Runs
        PROVE  /\ work'[w].pc \notin {"proposing", "closing"}
               /\ Producing(w)' => work'[w].slot \in inFlight' \ leaked'
    BY <1>1, <1>6 DEF SlotInv, ProducersHoldSlots
  <2>2. ASSUME NEW r \in Runs PROVE work'[r].pc = work[r].pc
    BY <1>2, ThreadNames
  <2>3. QED
    BY <1>1, <2>1, <2>2 DEF SlotInv, ProducersHoldSlots
<1>9. QED
  BY <1>5, <1>7, <1>8 DEF SlotInv

\* The steps of a smart-draft run.
LEMMA RunStep ==
    ASSUME SlotInv, NoDoubleSpend, NEW r \in Runs,
           \/ \E s \in Slots : RunStart(r, s) \/ RunNoSpend(r, s)
           \/ RunStage(r) \/ RunDeclines(r) \/ RunFails(r) \/ RunEnd(r) \/ RunStale(r)
    PROVE  SlotInv' /\ NoDoubleSpend'
<1> DEFINE Run == [slot : Slots, status : {"running", "completed", "failed"}]
<1>1. TypeOK /\ r \in Threads
  BY ThreadNames DEF SlotInv
<1>2. \A q \in Runs : /\ runs[q] \in {NoRun} \cup Run
                      /\ runs[q] # NoRun => runs[q] \in Run
                      /\ runs[q] # NoRun <=> runs[q].status # "none"
  BY <1>1 DEF TypeOK, NoRun
<1>3. ASSUME NEW s \in Slots, RunStart(r, s) PROVE SlotInv' /\ NoDoubleSpend'
  <2> DEFINE new == [pc |-> "proposing", slot |-> s, attempt |-> NextAttempt(s),
                     accept |-> IF accepted[s] THEN "done" ELSE "due"]
  <2>1. /\ work' = [work EXCEPT ![r] = new]
        /\ runs' = [q \in Runs |-> IF q = r THEN [slot |-> s, status |-> "running"]
                                    ELSE IF q \in RunsOf(s) THEN [runs[q] EXCEPT !.status = "failed"]
                                    ELSE runs[q]]
        /\ UNCHANGED <<accepted, drafts, keys, inFlight, queue, faults, leaked>>
    BY <1>3 DEF RunStart
  <2>2. NextAttempt(s) \in Nat \ {0}
    BY <1>1, LenProperties DEF NextAttempt, TypeOK
  <2>3. new \in Work /\ new.pc = "proposing"
    BY <2>2 DEF Work
  <2>4. ASSUME NEW q \in Runs
        PROVE  /\ runs'[q] \in {NoRun} \cup Run
               /\ runs[q] # NoRun => runs'[q] # NoRun
               /\ q = r => runs'[q] # NoRun
    <3>1. CASE q = r
      <4>1. runs'[q] = [slot |-> s, status |-> "running"]
        BY <2>1, <3>1
      <4>2. QED
        BY <4>1 DEF NoRun
    <3>2. CASE q # r /\ q \in RunsOf(s)
      <4>1. runs'[q] = [runs[q] EXCEPT !.status = "failed"] /\ runs[q] \in Run
        BY <1>2, <2>1, <3>2 DEF RunsOf
      <4>2. runs'[q] \in Run /\ runs'[q].status = "failed"
        BY <4>1
      <4>3. QED
        BY <3>2, <4>2 DEF NoRun
    <3>3. CASE q # r /\ q \notin RunsOf(s)
      <4>1. runs'[q] = runs[q]
        BY <2>1, <3>3
      <4>2. QED
        BY <1>2, <3>3, <4>1
    <3>4. QED
      BY <3>1, <3>2, <3>3
  <2>5. runs' \in [Runs -> {NoRun} \cup Run]
    <3>1. DOMAIN runs' = Runs /\ runs' = [q \in DOMAIN runs' |-> runs'[q]]
      BY <2>1
    <3>2. QED
      BY <2>4, <3>1
  <2>6. TypeOK'
    BY <1>1, <2>1, <2>3, <2>5 DEF TypeOK
  <2> HIDE DEF new, Run
  <2>7. InFlightIsRunning' /\ ProducersHoldSlots' /\ NoDoubleSpend'
    BY <2>1, <2>3, <2>4, RunMoves
  <2>8. QED
    BY <2>6, <2>7 DEF SlotInv
<1>4. ASSUME NEW s \in Slots, RunNoSpend(r, s) PROVE SlotInv' /\ NoDoubleSpend'
  <2>1. /\ runs' = [runs EXCEPT ![r] = [slot |-> s, status |-> "completed"]]
        /\ UNCHANGED <<accepted, drafts, keys, inFlight, work, queue, faults, leaked>>
    BY <1>4 DEF RunNoSpend
  <2>2. /\ runs' \in [Runs -> {NoRun} \cup Run] /\ runs'[r] # NoRun
        /\ \A q \in Runs : q # r => runs'[q] = runs[q]
    BY <1>1, <2>1 DEF TypeOK, NoRun
  <2>3. TypeOK'
    BY <1>1, <2>1, <2>2 DEF TypeOK
  <2>4. InFlightIsRunning' /\ ProducersHoldSlots' /\ NoDoubleSpend'
    BY <2>1, <2>2, RegistryUntouched
  <2>5. QED
    BY <2>3, <2>4 DEF SlotInv
<1>5. ASSUME NEW status \in {"completed", "failed"}, work[r].pc = "proposing",
             work' = [work EXCEPT ![r] = Closing(r, status)],
             UNCHANGED <<inFlight, queue, runs, leaked>>,
             accepted' \in [Slots -> BOOLEAN], drafts' \in [Slots -> Seq(Statuses)],
             keys' \subseteq [by : Threads, slot : Slots], faults' \in 0..MaxFaults
      PROVE  SlotInv' /\ NoDoubleSpend'
  <2> DEFINE new == Closing(r, status)
  <2>1. new \in Work /\ new.pc = "closing" /\ runs[r] # NoRun
    BY <1>1, <1>5, WorkFields DEF Closing, Work, SlotInv, ProducersHoldSlots
  <2>2. TypeOK'
    BY <1>1, <1>5, <2>1 DEF TypeOK
  <2> HIDE DEF new
  <2>3. work' = [work EXCEPT ![r] = new]
    BY <1>5 DEF new
  <2>4. InFlightIsRunning' /\ ProducersHoldSlots' /\ NoDoubleSpend'
    BY <1>5, <2>1, <2>3, RunMoves
  <2>5. QED
    BY <2>2, <2>4 DEF SlotInv
<1>6. SystemAccepted(r) \in [Slots -> BOOLEAN]
  BY <1>1 DEF SystemAccepted, TypeOK
<1>7. /\ accepted \in [Slots -> BOOLEAN] /\ drafts \in [Slots -> Seq(Statuses)]
      /\ keys \subseteq [by : Threads, slot : Slots] /\ faults \in 0..MaxFaults
  BY <1>1 DEF TypeOK
<1>8. CASE RunStage(r)
  <2>1. /\ work[r].pc = "proposing" /\ Inserts(r, work[r].slot)
        /\ accepted' = SystemAccepted(r)
        /\ work' = [work EXCEPT ![r] = Closing(r, "completed")]
        /\ UNCHANGED <<inFlight, queue, runs, faults, leaked>>
    BY <1>8 DEF RunStage
  <2>2. work[r].slot \in Slots
    BY <1>1, <2>1, WorkFields
  <2>3. drafts' \in [Slots -> Seq(Statuses)] /\ keys' \subseteq [by : Threads, slot : Slots]
    BY <1>1, <2>1, <2>2, StageInserts
  <2>4. QED
    BY <1>5, <1>6, <1>7, <2>1, <2>3
<1>9. CASE RunDeclines(r)
  <2>1. /\ work[r].pc = "proposing" /\ accepted' \in {accepted, SystemAccepted(r)}
        /\ work' = [work EXCEPT ![r] = Closing(r, "completed")]
        /\ UNCHANGED <<drafts, keys, inFlight, queue, runs, faults, leaked>>
    BY <1>9 DEF RunDeclines
  <2>2. QED
    BY <1>5, <1>6, <1>7, <2>1
<1>10. CASE RunFails(r)
  <2>1. /\ work[r].pc = "proposing"
        /\ faults' = faults \/ (faults < MaxFaults /\ faults' = faults + 1)
        /\ work' = [work EXCEPT ![r] = Closing(r, "failed")]
        /\ UNCHANGED <<accepted, drafts, keys, inFlight, queue, runs, leaked>>
    BY <1>10 DEF RunFails
  <2>2. faults' \in 0..MaxFaults
    BY <1>7, <2>1, BoundsAssumption
  <2>3. QED
    BY <1>5, <1>7, <2>1, <2>2
<1>11. ASSUME NEW status \in {"completed", "failed"}, runs[r] # NoRun,
              runs' = [runs EXCEPT ![r].status = status]
       PROVE  /\ runs' \in [Runs -> {NoRun} \cup Run]
              /\ \A q \in Runs : runs[q] # NoRun => runs'[q] # NoRun
  <2>1. runs[r] \in Run
    BY <1>2, <1>11
  <2>2. [runs[r] EXCEPT !.status = status] \in Run
        /\ [runs[r] EXCEPT !.status = status].status = status
    BY <2>1
  <2>3. [runs[r] EXCEPT !.status = status] # NoRun
    BY <2>2 DEF NoRun
  <2>4. QED
    BY <1>1, <1>11, <2>2, <2>3 DEF TypeOK
<1>12. CASE RunEnd(r)
  <2>1. /\ work[r].pc = "closing" /\ work' = [work EXCEPT ![r] = Idle]
        /\ runs' = [runs EXCEPT ![r].status = work[r].status]
        /\ UNCHANGED <<accepted, drafts, keys, inFlight, queue, faults, leaked>>
    BY <1>12 DEF RunEnd
  <2>2. work[r].status \in {"completed", "failed"} /\ runs[r] # NoRun
    BY <1>1, <2>1, WorkFields DEF SlotInv, ProducersHoldSlots
  <2>3. /\ runs' \in [Runs -> {NoRun} \cup Run]
        /\ \A q \in Runs : runs[q] # NoRun => runs'[q] # NoRun
    BY <1>11, <2>1, <2>2
  <2>4. Idle \in Work /\ Idle.pc = "idle"
    BY DEF Idle, Work
  <2>5. TypeOK'
    BY <1>1, <2>1, <2>3, <2>4 DEF TypeOK
  <2>6. InFlightIsRunning' /\ ProducersHoldSlots' /\ NoDoubleSpend'
    BY <2>1, <2>3, <2>4, RunMoves
  <2>7. QED
    BY <2>5, <2>6 DEF SlotInv
<1>13. CASE RunStale(r)
  <2>1. /\ runs[r].status = "running" /\ runs' = [runs EXCEPT ![r].status = "failed"]
        /\ UNCHANGED <<accepted, drafts, keys, inFlight, work, queue, faults, leaked>>
    BY <1>13 DEF RunStale, Orphaned
  <2>2. runs[r] # NoRun
    BY <1>2, <2>1
  <2>3. /\ runs' \in [Runs -> {NoRun} \cup Run]
        /\ \A q \in Runs : runs[q] # NoRun => runs'[q] # NoRun
    BY <1>11, <2>1, <2>2
  <2>4. TypeOK'
    BY <1>1, <2>1, <2>3 DEF TypeOK
  <2>5. InFlightIsRunning' /\ ProducersHoldSlots' /\ NoDoubleSpend'
    BY <2>1, <2>3, RegistryUntouched
  <2>6. QED
    BY <2>4, <2>5 DEF SlotInv
<1>14. QED
  BY <1>3, <1>4, <1>8, <1>9, <1>10, <1>12, <1>13

\* The slot registry does its work: SlotInv and NoDoubleSpend are inductive
\* together.
LEMMA RegistrySafe == Spec => [](SlotInv /\ NoDoubleSpend)
<1>1. Init => SlotInv /\ NoDoubleSpend
  <2> SUFFICES ASSUME Init PROVE SlotInv /\ NoDoubleSpend
    OBVIOUS
  <2>1. \A w \in Threads : work[w].pc = "idle" /\ ~Producing(w) /\ work[w] \in Work
    BY DEF Init, Idle, Producing, Work
  <2>2. TypeOK
    <3>1. drafts \in [Slots -> Seq(Statuses)] /\ queue \in Seq(Slots)
      BY DEF Init
    <3>2. QED
      BY <2>1, <3>1, BoundsAssumption DEF Init, TypeOK
  <2>3. InFlightIsRunning /\ NoDoubleSpend
    BY <2>1 DEF Init, InFlightIsRunning, NoDoubleSpend
  <2>4. ProducersHoldSlots
    BY <2>1, ThreadNames DEF ProducersHoldSlots
  <2>5. QED
    BY <2>2, <2>3, <2>4 DEF SlotInv
<1>2. SlotInv /\ NoDoubleSpend /\ [Next]_vars => SlotInv' /\ NoDoubleSpend'
  <2> SUFFICES ASSUME SlotInv, NoDoubleSpend, [Next]_vars PROVE SlotInv' /\ NoDoubleSpend'
    OBVIOUS
  <2> TypeOK
    BY DEF SlotInv
  <2>1. CASE UNCHANGED vars
    <3>1. TypeOK'
      BY <2>1 DEF vars, TypeOK
    <3>2. InFlightIsRunning' /\ ProducersHoldSlots' /\ NoDoubleSpend'
      BY <2>1, RegistryUntouched DEF vars
    <3>3. QED
      BY <3>1, <3>2 DEF SlotInv
  <2>2. CASE PumpScan
    <3>1. UNCHANGED <<accepted, drafts, keys, inFlight, work, runs, faults, leaked>>
      BY <2>2 DEF PumpScan
    <3>2. TypeOK'
      BY <2>2, <3>1, ScanCollects DEF TypeOK
    <3>3. InFlightIsRunning' /\ ProducersHoldSlots' /\ NoDoubleSpend'
      BY <3>1, RegistryUntouched
    <3>4. QED
      BY <3>2, <3>3 DEF SlotInv
  <2>3. CASE PumpTake
    <3>1. /\ work[Pump].pc = "idle" /\ queue # <<>> /\ queue' = Tail(queue)
          /\ UNCHANGED <<accepted, drafts, keys, runs, faults, leaked>>
      BY <2>3 DEF PumpTake
    <3>2. Head(queue) \in Slots /\ queue' \in Seq(Slots)
      BY <3>1, HeadTailProperties DEF TypeOK
    <3>3. CASE SlotFree(Head(queue))
      <4>1. /\ inFlight' = inFlight \cup {Head(queue)}
            /\ work' = [work EXCEPT ![Pump] = Kicked(Head(queue))]
        BY <2>3, <3>3 DEF PumpTake
      <4>2. QED
        BY <3>1, <3>2, <3>3, <4>1, ThreadNames, ProducerClaims
    <3>4. CASE ~SlotFree(Head(queue))
      <4>1. UNCHANGED <<inFlight, work>>
        BY <2>3, <3>4 DEF PumpTake
      <4>2. TypeOK'
        BY <3>1, <3>2, <4>1 DEF TypeOK
      <4>3. InFlightIsRunning' /\ ProducersHoldSlots' /\ NoDoubleSpend'
        BY <3>1, <4>1, RegistryUntouched
      <4>4. QED
        BY <4>2, <4>3 DEF SlotInv
    <3>5. QED
      BY <3>3, <3>4
  <2>4. CASE Crash
    <3>1. /\ faults' \in 0..MaxFaults /\ inFlight' = {} /\ leaked' = {}
          /\ work' = [w \in Threads |-> Idle] /\ queue' = <<>>
          /\ UNCHANGED <<accepted, drafts, keys, runs>>
      BY <2>4, BoundsAssumption DEF Crash, TypeOK
    <3>2. \A w \in Threads : work'[w].pc = "idle" /\ ~Producing(w)' /\ work'[w] \in Work
      BY <3>1 DEF Idle, Producing, Work
    <3>3. TypeOK'
      <4>1. queue' \in Seq(Slots) /\ work' \in [Threads -> Work]
        BY <3>1, <3>2
      <4>2. QED
        BY <3>1, <4>1 DEF TypeOK
    <3>4. InFlightIsRunning' /\ NoDoubleSpend' /\ ProducersHoldSlots'
      BY <3>1, <3>2, ThreadNames DEF InFlightIsRunning, NoDoubleSpend, ProducersHoldSlots
    <3>5. QED
      BY <3>3, <3>4 DEF SlotInv
  <2>5. ASSUME NEW s \in Slots, Triage(s) PROVE SlotInv' /\ NoDoubleSpend'
    BY <2>5, TriageKeeps
  <2>6. ASSUME NEW s \in Slots, Decide(s) PROVE SlotInv' /\ NoDoubleSpend'
    <3>1. UNCHANGED <<accepted, keys, inFlight, work, queue, runs, faults, leaked>>
      BY <2>6 DEF Decide
    <3>2. PICK i \in DOMAIN drafts[s], d \in {"approved", "rejected"} :
             drafts' = [drafts EXCEPT ![s][i] = d]
      BY <2>6 DEF Decide
    <3>3. drafts[s] \in Seq(Statuses) /\ i \in 1..Len(drafts[s]) /\ d \in Statuses
      BY LenProperties DEF TypeOK, Statuses
    <3>4. [drafts[s] EXCEPT ![i] = d] \in Seq(Statuses)
      BY <3>3, ExceptSeq
    <3>5. drafts' \in [Slots -> Seq(Statuses)]
      BY <3>2, <3>4 DEF TypeOK
    <3>6. TypeOK'
      BY <3>1, <3>5 DEF TypeOK
    <3>7. InFlightIsRunning' /\ ProducersHoldSlots' /\ NoDoubleSpend'
      BY <3>1, RegistryUntouched
    <3>8. QED
      BY <3>6, <3>7 DEF SlotInv
  <2>7. ASSUME NEW w \in Clicks, NEW s \in Slots, Click(w, s) \/ NoteKick(w, s)
        PROVE  SlotInv' /\ NoDoubleSpend'
    <3>1. /\ work[w].pc = "idle" /\ SlotFree(s) /\ inFlight' = inFlight \cup {s}
          /\ work' = [work EXCEPT ![w] = Kicked(s)]
          /\ UNCHANGED <<accepted, drafts, keys, queue, runs, faults, leaked>>
      BY <2>7 DEF Click, NoteKick
    <3>2. w \in Threads \ Runs /\ queue' \in Seq(Slots)
      BY <3>1, ThreadNames DEF TypeOK
    <3>3. QED
      BY <3>1, <3>2, ProducerClaims
  <2>8. ASSUME NEW r \in Runs,
               \/ \E s \in Slots : RunStart(r, s) \/ RunNoSpend(r, s)
               \/ RunStage(r) \/ RunDeclines(r) \/ RunFails(r) \/ RunEnd(r) \/ RunStale(r)
        PROVE  SlotInv' /\ NoDoubleSpend'
    BY <2>8, RunStep
  <2>9. ASSUME NEW w \in Threads, Producing(w), NEW new \in Work,
               new.pc \in {"asking", "ending"}, new.slot = work[w].slot,
               work' = [work EXCEPT ![w] = new],
               UNCHANGED <<accepted, inFlight, queue, runs, leaked>>,
               drafts' \in [Slots -> Seq(Statuses)],
               keys' \subseteq [by : Threads, slot : Slots], faults' \in 0..MaxFaults
        PROVE  SlotInv' /\ NoDoubleSpend'
    <3>1. w \in Threads \ Runs
      BY <2>9 DEF SlotInv, ProducersHoldSlots, Producing
    <3>2. TypeOK'
      BY <2>9 DEF TypeOK
    <3>3. InFlightIsRunning' /\ ProducersHoldSlots' /\ NoDoubleSpend'
      BY <2>9, <3>1, ProducerMoves
    <3>4. QED
      BY <3>2, <3>3 DEF SlotInv
  <2>10. ASSUME NEW w \in Threads, Producing(w)
         PROVE  Ending(w) \in Work /\ Ending(w).pc = "ending" /\ Ending(w).slot = work[w].slot
    BY <2>10, WorkFields DEF Ending, Work, Producing
  <2>11. /\ drafts \in [Slots -> Seq(Statuses)]
         /\ keys \subseteq [by : Threads, slot : Slots] /\ faults \in 0..MaxFaults
    BY DEF TypeOK
  <2>12. ASSUME NEW w \in Threads, Stopped(w) \/ StageFails(w)
         PROVE  SlotInv' /\ NoDoubleSpend'
    <3>1. /\ Producing(w) /\ work' = [work EXCEPT ![w] = Ending(w)]
          /\ UNCHANGED <<accepted, drafts, keys, inFlight, queue, runs, faults, leaked>>
      BY <2>12 DEF Stopped, StageFails, Producing
    <3>2. QED
      BY <2>9, <2>10, <2>11, <3>1
  <2>13. ASSUME NEW w \in Threads, LlmFails(w) PROVE SlotInv' /\ NoDoubleSpend'
    <3>1. /\ Producing(w) /\ work' = [work EXCEPT ![w] = Ending(w)]
          /\ faults < MaxFaults /\ faults' = faults + 1
          /\ UNCHANGED <<accepted, drafts, keys, inFlight, queue, runs, leaked>>
      BY <2>13 DEF LlmFails, Producing
    <3>2. faults' \in 0..MaxFaults
      BY <2>11, <3>1, BoundsAssumption
    <3>3. QED
      BY <2>9, <2>10, <2>11, <3>1, <3>2
  <2>14. ASSUME NEW w \in Threads, Ask(w) PROVE SlotInv' /\ NoDoubleSpend'
    <3> DEFINE s == work[w].slot
               new == [pc |-> "asking", slot |-> s, attempt |-> NextAttempt(s)]
    <3>1. /\ work[w].pc = "kicked" /\ Producing(w) /\ work' = [work EXCEPT ![w] = new]
          /\ UNCHANGED <<accepted, drafts, keys, inFlight, queue, runs, faults, leaked>>
      BY <2>14 DEF Ask, Producing
    <3>2. s \in Slots
      BY <3>1, WorkFields
    <3>3. NextAttempt(s) \in Nat \ {0}
      BY <3>2, LenProperties DEF NextAttempt, TypeOK
    <3>4. new \in Work /\ new.pc = "asking" /\ new.slot = work[w].slot
      BY <3>2, <3>3 DEF Work
    <3> HIDE DEF new
    <3>5. QED
      BY <2>9, <2>11, <3>1, <3>4
  <2>15. ASSUME NEW w \in Threads, Stage(w) PROVE SlotInv' /\ NoDoubleSpend'
    <3>1. /\ work[w].pc = "asking" /\ Producing(w) /\ Inserts(w, work[w].slot)
          /\ work' = [work EXCEPT ![w] = Ending(w)]
          /\ UNCHANGED <<accepted, inFlight, queue, runs, faults, leaked>>
      BY <2>15 DEF Stage, Producing
    <3>2. work[w].slot \in Slots
      BY <3>1, WorkFields
    <3>3. drafts' \in [Slots -> Seq(Statuses)] /\ keys' \subseteq [by : Threads, slot : Slots]
      BY <3>1, <3>2, StageInserts
    <3>4. QED
      BY <2>9, <2>10, <2>11, <3>1, <3>3
  <2>16. ASSUME NEW w \in Threads, End(w) PROVE SlotInv' /\ NoDoubleSpend'
    BY <2>16, ProducerEnds
  <2>17. ASSUME NEW w \in Threads, Panic(w) PROVE SlotInv' /\ NoDoubleSpend'
    BY <2>17, ThreadPanics
  <2>18. QED
    BY <2>1, <2>2, <2>3, <2>4, <2>5, <2>6, <2>7, <2>8, <2>12, <2>13, <2>14, <2>15, <2>16,
       <2>17 DEF Next
<1>3. QED
  BY <1>1, <1>2, PTL DEF Spec

\* The registry tells the truth: every claimed slot has a running produce or
\* was left behind by a panic, and every produce under way has its slot.
THEOREM SlotsAreHeld == Spec => []SlotInv
BY RegistrySafe, PTL

\* No two threads that go through begin_produce spend LLM calls on one slot.
THEOREM SlotsAreExclusive == Spec => []NoDoubleSpend
BY RegistrySafe, PTL

\* The attempt numbers and the partial unique index keep one active draft per
\* item and kind, whoever stages.
THEOREM OneActiveDraftHolds == Spec => []OneActiveDraft
<1>1. Init => OneActiveDraft
  BY DEF Init, OneActiveDraft
<1>2. TypeOK /\ OneActiveDraft /\ [Next]_vars => OneActiveDraft'
  <2> SUFFICES ASSUME TypeOK, OneActiveDraft, [Next]_vars PROVE OneActiveDraft'
    OBVIOUS
  <2>1. ASSUME drafts' = drafts PROVE OneActiveDraft'
    BY <2>1 DEF OneActiveDraft
  <2>2. ASSUME NEW s \in Slots, Decide(s) PROVE OneActiveDraft'
    <3>1. PICK i \in DOMAIN drafts[s], d \in {"approved", "rejected"} :
             drafts[s][i] = "staged" /\ drafts' = [drafts EXCEPT ![s][i] = d]
      BY <2>2 DEF Decide
    <3>2. drafts[s] \in Seq(Statuses)
      BY DEF TypeOK
    <3>3. /\ DOMAIN drafts'[s] = DOMAIN drafts[s] /\ drafts'[s][i] = d
          /\ \A k \in DOMAIN drafts[s] : k # i => drafts'[s][k] = drafts[s][k]
          /\ \A t \in Slots : t # s => drafts'[t] = drafts[t]
      BY <3>1, <3>2 DEF TypeOK
    <3>4. \A t \in Slots : /\ DOMAIN drafts'[t] = DOMAIN drafts[t]
                           /\ \A k \in DOMAIN drafts[t] :
                                 drafts'[t][k] # "rejected" => drafts[t][k] # "rejected"
      BY <3>1, <3>3
    <3>5. QED
      BY <3>4 DEF OneActiveDraft
  <2>3. ASSUME NEW r \in Runs, RunStage(r) PROVE OneActiveDraft'
    <3>1. r \in Threads /\ Inserts(r, work[r].slot) /\ work[r].slot \in Slots
      BY <2>3, WorkFields, ThreadNames DEF RunStage
    <3>2. QED
      BY <3>1, StageInserts
  <2>4. ASSUME NEW w \in Threads, Stage(w) PROVE OneActiveDraft'
    <3>1. Inserts(w, work[w].slot) /\ work[w].slot \in Slots
      BY <2>4, WorkFields DEF Stage
    <3>2. QED
      BY <3>1, StageInserts
  <2>5. CASE UNCHANGED vars \/ PumpScan \/ PumpTake \/ Crash
    BY <2>1, <2>5 DEF vars, PumpScan, PumpTake, Crash
  <2>6. ASSUME NEW s \in Slots, NEW w \in Clicks, Triage(s) \/ Click(w, s) \/ NoteKick(w, s)
        PROVE  OneActiveDraft'
    BY <2>1, <2>6 DEF Triage, Click, NoteKick
  <2>7. ASSUME NEW s \in Slots, Triage(s) PROVE OneActiveDraft'
    BY <2>1, <2>7 DEF Triage
  <2>8. ASSUME NEW r \in Runs, NEW s \in Slots, RunStart(r, s) \/ RunNoSpend(r, s)
        PROVE  OneActiveDraft'
    BY <2>1, <2>8 DEF RunStart, RunNoSpend
  <2>9. ASSUME NEW r \in Runs, RunDeclines(r) \/ RunFails(r) \/ RunEnd(r) \/ RunStale(r)
        PROVE  OneActiveDraft'
    BY <2>1, <2>9 DEF RunDeclines, RunFails, RunEnd, RunStale
  <2>10. ASSUME NEW w \in Threads, \/ Stopped(w) \/ Ask(w) \/ StageFails(w) \/ LlmFails(w)
                                   \/ End(w) \/ Panic(w)
         PROVE  OneActiveDraft'
    BY <2>1, <2>10 DEF Stopped, Ask, StageFails, LlmFails, End, Panic
  <2>11. QED
    BY <2>2, <2>3, <2>4, <2>5, <2>6, <2>7, <2>8, <2>9, <2>10 DEF Next
<1>3. QED
  BY <1>1, <1>2, SlotsAreHeld, PTL DEF Spec, SlotInv
=============================================================================
