---------------------------- MODULE RetentionProofs ----------------------------
(***************************************************************************)
(* Proofs about Retention: one cycle at a time, within its budget and on   *)
(* what the policy lets go (RetentionInv), and receipts that account for   *)
(* every cleared payload (ClearedIsReceipted), for all payloads, threads,  *)
(* requests and bounds.                                                    *)
(***************************************************************************)
EXTENDS Retention, FiniteSetTheorems, TLAPS

\* Where a thread answers for the flag.
Answering == {"bodies", "receipts", "clear", "finish", "begin", "record", "spawn", "release",
              "dead"}

\* A set without two different elements has at most one.
LEMMA AtMostOne ==
    ASSUME NEW S, \A t, u \in S : t = u
    PROVE  Cardinality(S) <= 1
<1>1. CASE S = {}
  BY <1>1, FS_EmptySet
<1>2. ASSUME NEW t \in S PROVE Cardinality(S) <= 1
  <2>1. S = {t}
    OBVIOUS
  <2>2. Cardinality(S) = 1
    BY <2>1, FS_Singleton
  <2>3. QED
    BY <2>2
<1>3. QED
  BY <1>1, <1>2

\* Holders, by place.
LEMMA HoldersAre ==
    /\ \A t \in Threads : t \in Holders <=> calls[t].pc \in Answering
    /\ Holders \subseteq Threads
BY DEF Holders, InCycle, Answering

\* The same after a step.
LEMMA HoldersAfter ==
    /\ \A t \in Threads : t \in Holders' <=> calls'[t].pc \in Answering
    /\ Holders' \subseteq Threads
BY DEF Holders, InCycle, Answering

\* What a thread's call holds, by place.
LEMMA CallFields ==
    ASSUME TypeOK, NEW t \in Threads
    PROVE  /\ calls[t] \in Call
           /\ calls[t].pc \in {"bodies", "receipts"} =>
                 calls[t] \in Cycle /\ calls[t].cutoff \in Nat /\ calls[t].used \in 0..MaxRows
           /\ calls[t].pc \in {"begin", "record", "spawn"} =>
                 /\ calls[t] \in [pc : {"begin", "record", "spawn"}, req : Requests, cycle : Cycle]
                 /\ calls[t].req \in Requests /\ calls[t].cycle \in Cycle
           /\ calls[t].pc = "clear" =>
                 /\ calls[t].of \in {"bodies", "receipts"} /\ calls[t].batch \in SUBSET Payloads
                 /\ calls[t].cutoff \in Nat /\ calls[t].used \in 0..MaxRows
                 /\ calls[t].used + Cardinality(calls[t].batch) <= MaxRows
<1>1. calls[t] \in Call
  BY DEF TypeOK
<1>2. calls[t].pc \in {"bodies", "receipts"} =>
         calls[t] \in Cycle /\ calls[t].cutoff \in Nat /\ calls[t].used \in 0..MaxRows
  BY <1>1 DEF Call, Cycle
<1>3. calls[t].pc \in {"begin", "record", "spawn"} =>
         /\ calls[t] \in [pc : {"begin", "record", "spawn"}, req : Requests, cycle : Cycle]
         /\ calls[t].req \in Requests /\ calls[t].cycle \in Cycle
  BY <1>1 DEF Call, Cycle
<1>4. calls[t].pc = "clear" =>
         /\ calls[t].of \in {"bodies", "receipts"} /\ calls[t].batch \in SUBSET Payloads
         /\ calls[t].cutoff \in Nat /\ calls[t].used \in 0..MaxRows
  BY <1>1 DEF Call, Cycle
<1>5. QED
  BY <1>1, <1>2, <1>3, <1>4 DEF TypeOK

\* The calls after one thread has moved.
LEMMA GotoEffect ==
    ASSUME TypeOK, NEW t \in Threads, NEW call \in Call, Goto(t, call)
    PROVE  /\ calls' \in [Threads -> Call] /\ calls'[t] = call
           /\ \A u \in Threads : u # t => calls'[u] = calls[u]
BY DEF TypeOK, Goto

\* The registry keeps its types.
LEMMA RegistryTypes ==
    ASSUME TypeOK
    PROVE  /\ UNCHANGED registry \/ RegistryLost \/ DropGuard(Manual)
                 => byKey' \in [Keys -> Requests \cup {NoRun}] /\ byGroup' \in Nat
           /\ \A r \in Requests : GuardStarted(Manual, r)
                 => byKey' \in [Keys -> Requests \cup {NoRun}] /\ byGroup' \in Nat
<1>1. byKey \in [Keys -> Requests \cup {NoRun}] /\ byGroup \in Nat
  BY DEF TypeOK
<1>2. byGroup > 0 => byGroup - 1 \in Nat
  BY <1>1
<1>3. ASSUME UNCHANGED registry \/ RegistryLost \/ DropGuard(Manual)
      PROVE  byKey' \in [Keys -> Requests \cup {NoRun}] /\ byGroup' \in Nat
  <2>1. CASE UNCHANGED registry
    BY <1>1, <2>1 DEF registry
  <2>2. CASE RegistryLost
    BY <2>2 DEF RegistryLost
  <2>3. CASE DropGuard(Manual)
    BY <1>1, <1>2, <2>3 DEF DropGuard
  <2>4. QED
    BY <1>3, <2>1, <2>2, <2>3
<1>4. ASSUME NEW r \in Requests, GuardStarted(Manual, r)
      PROVE  byKey' \in [Keys -> Requests \cup {NoRun}] /\ byGroup' \in Nat
  <2>1. byKey' = [byKey EXCEPT ![Manual] = r] /\ byGroup' = byGroup + 1
    BY <1>4 DEF GuardStarted
  <2>2. byGroup' \in Nat
    BY <1>1, <2>1
  <2>3. byKey' \in [Keys -> Requests \cup {NoRun}]
    BY <1>1, <2>1
  <2>4. QED
    BY <2>2, <2>3
<1>5. QED
  BY <1>3, <1>4

\* The cutoff of a cycle lies in the past.
LEMMA NewCycleSound ==
    ASSUME TypeOK
    PROVE  /\ NewCycle \in Cycle /\ NewCycle.pc = "bodies"
           /\ NewCycle.cutoff \in Nat /\ CutoffPast(NewCycle.cutoff)
<1>1. clock \in Nat /\ Days \in Nat /\ 0 \in 0..MaxRows
  BY RetentionAssumption DEF TypeOK
<1>2. Cutoff(clock) \in Nat /\ CutoffPast(Cutoff(clock))
  BY <1>1 DEF Cutoff, CutoffPast
<1>3. QED
  BY <1>1, <1>2 DEF NewCycle, Cycle

\* One thread moves on, in a step that leaves the payloads and the clock alone.
\* It keeps its answer for the flag, or raises the flag, or takes it down.
LEMMA Moves ==
    ASSUME RetentionInv, NEW t \in Threads, NEW call \in Call, Goto(t, call),
           UNCHANGED <<clock, payloads>>,
           byKey' \in [Keys -> Requests \cup {NoRun}], byGroup' \in Nat, kicked' \subseteq Requests,
           receipted' \in Nat, raced' \in Nat, faults' \in 0..MaxFaults,
           call.pc \in {"begin", "record", "spawn"} => CutoffPast(call.cycle.cutoff),
           call.pc \in {"bodies", "receipts", "clear"} => CutoffPast(call.cutoff),
           call.pc = "clear" =>
               /\ call.used + Cardinality(call.batch) <= MaxRows
               /\ \A p \in call.batch : p \notin Protected /\ OldAndKept(p, call.cutoff),
           \/ inFlight' = inFlight /\ (calls[t].pc \in Answering <=> call.pc \in Answering)
           \/ ~inFlight /\ inFlight' = TRUE /\ call.pc \in Answering
           \/ calls[t].pc \in Answering /\ inFlight' = FALSE /\ call.pc \notin Answering
    PROVE  RetentionInv'
<1>1. TypeOK
  BY DEF RetentionInv
<1>2. /\ calls' \in [Threads -> Call] /\ calls'[t] = call
      /\ \A u \in Threads : u # t => calls'[u] = calls[u]
  BY <1>1, GotoEffect
<1>3. TypeOK'
  <2>1. inFlight' \in BOOLEAN
    BY <1>1 DEF TypeOK
  <2>2. \A u \in Threads : calls'[u].pc = "clear" =>
          calls'[u].used + Cardinality(calls'[u].batch) <= MaxRows
    BY <1>1, <1>2 DEF TypeOK
  <2>3. QED
    BY <1>1, <1>2, <2>1, <2>2 DEF TypeOK
<1>4. (\A u, v \in Holders' : u = v) /\ (inFlight' <=> Holders' # {})
  <2>1. (\A u, v \in Holders : u = v) /\ (inFlight <=> Holders # {})
    BY DEF RetentionInv, FlagExact, CyclesSound
  <2>2. CASE inFlight' = inFlight /\ (calls[t].pc \in Answering <=> call.pc \in Answering)
    <3>1. Holders' = Holders
      BY <1>2, <2>2, HoldersAre, HoldersAfter
    <3>2. QED
      BY <2>1, <2>2, <3>1
  <2>3. CASE ~inFlight /\ inFlight' = TRUE /\ call.pc \in Answering
    <3>1. Holders' = {t}
      BY <1>2, <2>1, <2>3, HoldersAre, HoldersAfter
    <3>2. QED
      BY <2>3, <3>1
  <2>4. CASE calls[t].pc \in Answering /\ inFlight' = FALSE /\ call.pc \notin Answering
    <3>1. Holders' = {}
      BY <1>2, <2>1, <2>4, HoldersAre, HoldersAfter
    <3>2. QED
      BY <2>4, <3>1
  <2>5. QED
    BY <2>2, <2>3, <2>4
<1>5. FlagExact'
  BY <1>4, AtMostOne DEF FlagExact
<1>6. OnlyOldMirrorsCleared'
  BY DEF RetentionInv, OnlyOldMirrorsCleared
<1>7. CyclesSound'
  <2>1. \A u \in Threads :
          /\ calls'[u].pc \in {"begin", "record", "spawn"} => CutoffPast(calls'[u].cycle.cutoff)
          /\ calls'[u].pc \in {"bodies", "receipts", "clear"} => CutoffPast(calls'[u].cutoff)
          /\ calls'[u].pc = "clear" => \A p \in calls'[u].batch :
                p \notin Protected /\ OldAndKept(p, calls'[u].cutoff)
    BY <1>2 DEF RetentionInv, CyclesSound
  <2>2. \A n : CutoffPast(n)' <=> CutoffPast(n)
    BY DEF CutoffPast
  <2>3. \A p, n : OldAndKept(p, n)' <=> OldAndKept(p, n)
    BY DEF OldAndKept
  <2>4. \A u \in Threads :
          /\ calls'[u].pc \in {"begin", "record", "spawn"} => CutoffPast(calls[u].cycle.cutoff)'
          /\ calls'[u].pc \in {"bodies", "receipts", "clear"} => CutoffPast(calls[u].cutoff)'
          /\ calls'[u].pc = "clear" => \A p \in calls'[u].batch :
                p \notin Protected /\ OldAndKept(p, calls[u].cutoff)'
    BY <2>1, <2>2, <2>3
  <2>5. QED
    BY <1>4, <2>4 DEF CyclesSound
<1>8. QED
  BY <1>3, <1>5, <1>6, <1>7 DEF RetentionInv

\* The steps of a request for a manual run.
LEMMA RequestKeeps ==
    ASSUME RetentionInv, NEW h \in Handlers,
           \/ ManualBegin(h) \/ RecordKickoff(h) \/ Release(h) \/ ManualFails(h)
           \/ Panic(h) \/ \E r \in Requests : ManualBegins(h, r)
    PROVE  RetentionInv' /\ UNCHANGED <<payloads, receipted, raced>>
<1>1. TypeOK /\ h \in Threads
  BY DEF RetentionInv, Threads
<1>2. /\ calls[h].pc \in {"begin", "record", "spawn"} =>
           /\ calls[h] \in [pc : {"begin", "record", "spawn"}, req : Requests, cycle : Cycle]
           /\ calls[h].req \in Requests /\ CutoffPast(calls[h].cycle.cutoff)
      /\ receipted \in Nat /\ raced \in Nat /\ faults \in 0..MaxFaults /\ kicked \subseteq Requests
  BY <1>1, CallFields DEF RetentionInv, CyclesSound, TypeOK
<1>3. /\ [pc |-> "release"] \in Call /\ [pc |-> "release"].pc = "release"
      /\ Idle \in Call /\ Idle.pc = "idle"
  BY DEF Call, Idle
<1>4. ASSUME calls[h].pc \in {"begin", "record", "spawn"}, NEW pc \in {"record", "spawn"}
      PROVE  /\ [calls[h] EXCEPT !.pc = pc] \in Call
             /\ [calls[h] EXCEPT !.pc = pc].pc = pc
             /\ [calls[h] EXCEPT !.pc = pc].cycle = calls[h].cycle
  BY <1>2, <1>4 DEF Call
<1>5. ASSUME NEW r \in Requests, ManualBegins(h, r)
      PROVE  RetentionInv' /\ UNCHANGED <<payloads, receipted, raced>>
  <2> DEFINE cycle == NewCycle
             call == [pc |-> "begin", req |-> r, cycle |-> cycle]
  <2>1. cycle \in Cycle /\ CutoffPast(cycle.cutoff)
    BY <1>1, NewCycleSound
  <2> HIDE DEF cycle
  <2>2. call \in Call /\ call.pc = "begin" /\ call.cycle = cycle
    BY <2>1 DEF Call
  <2>3. /\ Goto(h, call) /\ ~inFlight /\ inFlight' = TRUE
        /\ UNCHANGED <<registry, clock, store, faults>>
    BY <1>5 DEF ManualBegins, MayBegin, cycle
  <2>4. byKey' \in [Keys -> Requests \cup {NoRun}] /\ byGroup' \in Nat
    BY <1>1, <2>3, RegistryTypes
  <2> HIDE DEF call
  <2>5. QED
    BY <1>1, <1>2, <2>1, <2>2, <2>3, <2>4, Moves DEF store, Answering
<1>6. CASE ManualBegin(h)
  <2>1. /\ calls[h].pc = "begin" /\ UNCHANGED <<clock, store, inFlight, faults>>
        /\ \/ Goto(h, [pc |-> "release"]) /\ UNCHANGED registry
           \/ GuardStarted(Manual, calls[h].req) /\ Goto(h, [calls[h] EXCEPT !.pc = "record"])
    BY <1>6 DEF ManualBegin
  <2>2. byKey' \in [Keys -> Requests \cup {NoRun}] /\ byGroup' \in Nat
    BY <1>1, <1>2, <2>1, RegistryTypes
  <2>3. PICK call \in Call : /\ Goto(h, call) /\ call.pc \in {"release", "record"}
                             /\ call.pc = "record" => call.cycle = calls[h].cycle
    BY <1>3, <1>4, <2>1
  <2>4. QED
    BY <1>1, <1>2, <2>1, <2>2, <2>3, Moves DEF store, Answering
<1>7. CASE RecordKickoff(h)
  <2>1. /\ calls[h].pc = "record" /\ UNCHANGED <<clock, payloads, receipted, raced, inFlight, faults>>
        /\ kicked' = kicked \cup {calls[h].req}
        /\ \/ DropGuard(Manual) /\ Goto(h, [pc |-> "release"])
           \/ UNCHANGED registry /\ Goto(h, [calls[h] EXCEPT !.pc = "spawn"])
    BY <1>7 DEF RecordKickoff
  <2>2. byKey' \in [Keys -> Requests \cup {NoRun}] /\ byGroup' \in Nat
    BY <1>1, <2>1, RegistryTypes
  <2>3. PICK call \in Call : /\ Goto(h, call) /\ call.pc \in {"release", "spawn"}
                             /\ call.pc = "spawn" => call.cycle = calls[h].cycle
    BY <1>3, <1>4, <2>1
  <2>4. QED
    BY <1>1, <1>2, <2>1, <2>2, <2>3, Moves DEF Answering
<1>8. CASE Release(h)
  <2>1. /\ calls[h].pc = "release" /\ Goto(h, Idle) /\ inFlight' = FALSE
        /\ UNCHANGED <<registry, clock, store, faults>>
    BY <1>8 DEF Release
  <2>2. byKey' \in [Keys -> Requests \cup {NoRun}] /\ byGroup' \in Nat
    BY <1>1, <2>1, RegistryTypes
  <2>3. QED
    BY <1>1, <1>2, <1>3, <2>1, <2>2, Moves DEF store, Answering
<1>9. CASE ManualFails(h)
  <2>1. /\ calls[h].pc \in {"begin", "record", "spawn"} /\ Goto(h, [pc |-> "release"])
        /\ faults < MaxFaults /\ faults' = faults + 1
        /\ UNCHANGED registry \/ DropGuard(Manual)
        /\ UNCHANGED <<clock, store, inFlight>>
    BY <1>9 DEF ManualFails
  <2>2. byKey' \in [Keys -> Requests \cup {NoRun}] /\ byGroup' \in Nat
    BY <1>1, <2>1, RegistryTypes
  <2>3. faults' \in 0..MaxFaults
    BY <1>2, <2>1, RetentionAssumption
  <2>4. QED
    BY <1>1, <1>2, <1>3, <2>1, <2>2, <2>3, Moves DEF store, Answering
<1>10. CASE Panic(h)
  <2>1. /\ calls[h].pc \in {"bodies", "receipts", "clear", "begin", "record"} /\ Goto(h, Dead)
        /\ faults < MaxFaults /\ faults' = faults + 1
        /\ UNCHANGED registry \/ DropGuard(Manual)
        /\ UNCHANGED <<clock, store, inFlight>>
    BY <1>10 DEF Panic
  <2>2. byKey' \in [Keys -> Requests \cup {NoRun}] /\ byGroup' \in Nat
    BY <1>1, <2>1, RegistryTypes
  <2>3. faults' \in 0..MaxFaults
    BY <1>2, <2>1, RetentionAssumption
  <2>4. Dead \in Call /\ Dead.pc = "dead"
    BY DEF Call, Dead
  <2>5. QED
    BY <1>1, <1>2, <2>1, <2>2, <2>3, <2>4, Moves DEF store, Answering
<1>11. QED
  BY <1>5, <1>6, <1>7, <1>8, <1>9, <1>10

\* The manual thread takes the cycle over from its handler.
LEMMA SpawnKeeps ==
    ASSUME RetentionInv, NEW h \in Handlers, NEW w \in Workers, Spawn(h, w)
    PROVE  RetentionInv' /\ UNCHANGED <<payloads, receipted, raced>>
<1>1. TypeOK /\ h \in Threads /\ w \in Threads /\ h # w
  BY DisjointAssumption DEF RetentionInv, Threads
<1>2. /\ calls[h].pc = "spawn" /\ calls[w] = Idle
      /\ calls' = [calls EXCEPT ![h] = Idle, ![w] = calls[h].cycle]
      /\ UNCHANGED <<registry, clock, store, inFlight, faults>>
  BY DEF Spawn
<1>3. calls[h].cycle \in Cycle /\ CutoffPast(calls[h].cycle.cutoff)
  BY <1>1, <1>2, CallFields DEF RetentionInv, CyclesSound
<1>4. /\ calls'[h] = Idle /\ calls'[w] = calls[h].cycle
      /\ \A u \in Threads \ {h, w} : calls'[u] = calls[u]
      /\ calls' \in [Threads -> Call]
  <2>1. Idle \in Call /\ calls[h].cycle \in Call
    BY <1>3 DEF Call, Idle
  <2>2. QED
    BY <1>1, <1>2, <2>1 DEF TypeOK
<1>5. calls'[w].pc \in {"bodies", "receipts"} /\ CutoffPast(calls'[w].cutoff)
  BY <1>3, <1>4 DEF Cycle
<1>6. TypeOK'
  <2>1. \A u \in Threads : calls'[u].pc = "clear" =>
          calls'[u].used + Cardinality(calls'[u].batch) <= MaxRows
    BY <1>1, <1>4, <1>5 DEF TypeOK, Idle
  <2>2. QED
    BY <1>1, <1>2, <1>4, <2>1 DEF TypeOK, registry, store
<1>7. Holders = {h} /\ Holders' = {w} /\ inFlight
  <2>1. h \in Holders /\ \A u, v \in Holders : u = v
    BY <1>1, <1>2, HoldersAre DEF RetentionInv, CyclesSound, Answering
  <2>2. Holders = {h} /\ inFlight
    BY <2>1 DEF RetentionInv, FlagExact
  <2>3. Holders' = {w}
    BY <1>1, <1>2, <1>4, <1>5, <2>2, HoldersAre, HoldersAfter DEF Answering, Idle
  <2>4. QED
    BY <2>2, <2>3
<1>8. FlagExact' /\ OnlyOldMirrorsCleared'
  BY <1>2, <1>7, AtMostOne DEF FlagExact, RetentionInv, OnlyOldMirrorsCleared, store
<1>9. CyclesSound'
  <2>1. \A u \in Threads :
          /\ calls'[u].pc \in {"begin", "record", "spawn"} => CutoffPast(calls'[u].cycle.cutoff)
          /\ calls'[u].pc \in {"bodies", "receipts", "clear"} => CutoffPast(calls'[u].cutoff)
          /\ calls'[u].pc = "clear" => \A p \in calls'[u].batch :
                p \notin Protected /\ OldAndKept(p, calls'[u].cutoff)
    BY <1>4, <1>5 DEF RetentionInv, CyclesSound, Idle
  <2>2. \A n : CutoffPast(n)' <=> CutoffPast(n)
    BY <1>2 DEF CutoffPast
  <2>3. \A p, n : OldAndKept(p, n)' <=> OldAndKept(p, n)
    BY <1>2 DEF OldAndKept, store
  <2>4. \A u \in Threads :
          /\ calls'[u].pc \in {"begin", "record", "spawn"} => CutoffPast(calls[u].cycle.cutoff)'
          /\ calls'[u].pc \in {"bodies", "receipts", "clear"} => CutoffPast(calls[u].cutoff)'
          /\ calls'[u].pc = "clear" => \A p \in calls'[u].batch :
                p \notin Protected /\ OldAndKept(p, calls[u].cutoff)'
    BY <2>1, <2>2, <2>3
  <2>5. QED
    BY <1>7, <2>4 DEF CyclesSound
<1>10. QED
  BY <1>2, <1>6, <1>8, <1>9 DEF RetentionInv, store

\* The rows a step reads are kept, old enough and not protected, and fit into
\* what is left of the budget.
LEMMA BatchSound ==
    ASSUME RetentionInv, NEW t \in Threads, calls[t].pc \in {"bodies", "receipts"},
           calls[t].used < MaxRows, NEW b \in Oldest(Candidates(t), Limit(t))
    PROVE  /\ b \in SUBSET Payloads /\ IsFiniteSet(b)
           /\ calls[t].used + Cardinality(b) <= MaxRows
           /\ \A p \in b : p \notin Protected /\ OldAndKept(p, calls[t].cutoff)
<1>1. TypeOK /\ calls[t].used \in Nat /\ MaxRows \in Nat /\ BatchSize \in Nat
  <2>1. TypeOK
    BY DEF RetentionInv
  <2>2. QED
    BY <2>1, CallFields, RetentionAssumption
<1>2. b \subseteq Candidates(t) /\ Candidates(t) \subseteq Payloads /\ IsFiniteSet(Payloads)
  BY DisjointAssumption DEF Oldest, Candidates, Payloads
<1>3. IsFiniteSet(b) /\ Cardinality(b) \in Nat
  BY <1>2, FS_Subset, FS_CardinalityType
<1>4. Cardinality(Candidates(t)) \in Nat
  BY <1>2, FS_Subset, FS_CardinalityType
<1>5. Cardinality(b) <= MaxRows - calls[t].used
  <2>1. Limit(t) \in Nat /\ Limit(t) <= MaxRows - calls[t].used
    BY <1>1 DEF Limit
  <2>2. Cardinality(b) = IF Cardinality(Candidates(t)) < Limit(t)
                           THEN Cardinality(Candidates(t)) ELSE Limit(t)
    BY DEF Oldest
  <2>3. QED
    BY <1>1, <1>4, <2>1, <2>2
<1>6. \A p \in b : p \notin Protected /\ OldAndKept(p, calls[t].cutoff)
  BY <1>2, DisjointAssumption DEF Candidates
<1>7. calls[t].used + Cardinality(b) <= MaxRows
  BY <1>1, <1>3, <1>5
<1>8. QED
  BY <1>2, <1>3, <1>6, <1>7

\* The steps of a cycle that clear nothing.
LEMMA CycleKeeps ==
    ASSUME RetentionInv, NEW t \in Cyclers,
           \/ ReadBatch(t) \/ ClearFails(t) \/ FinishCycle(t) \/ Panic(t)
           \/ t = Pump /\ (PumpBegins \/ PumpPanics)
           \/ t \in Workers /\ ThreadEnds(t)
    PROVE  RetentionInv' /\ UNCHANGED <<payloads, receipted, raced>>
<1>1. TypeOK /\ t \in Threads
  BY DEF RetentionInv, Threads, Cyclers
<1>2. /\ calls[t].pc \in {"bodies", "receipts", "clear"} =>
           /\ CutoffPast(calls[t].cutoff) /\ calls[t].cutoff \in Nat
           /\ calls[t].used \in 0..MaxRows
      /\ calls[t].pc \in {"bodies", "receipts"} => calls[t] \in Cycle
      /\ receipted \in Nat /\ raced \in Nat /\ faults \in 0..MaxFaults /\ kicked \subseteq Requests
  BY <1>1, CallFields DEF RetentionInv, CyclesSound, TypeOK
<1>3. /\ \A pc \in {"idle", "dead", "gone", "release", "finish", "guard"} :
            [pc |-> pc] \in Call /\ [pc |-> pc].pc = pc
      /\ Idle = [pc |-> "idle"] /\ Dead = [pc |-> "dead"] /\ Gone = [pc |-> "gone"]
  BY DEF Call, Idle, Dead, Gone
<1>4. ASSUME faults < MaxFaults PROVE faults + 1 \in 0..MaxFaults
  BY <1>2, <1>4, RetentionAssumption
<1>5. CASE ReadBatch(t)
  <2>1. /\ calls[t].pc \in {"bodies", "receipts"}
        /\ UNCHANGED <<registry, clock, store, inFlight, faults>>
    BY <1>5 DEF ReadBatch
  <2>2. byKey' \in [Keys -> Requests \cup {NoRun}] /\ byGroup' \in Nat
    BY <1>1, <2>1, RegistryTypes
  <2>3. CASE Goto(t, AfterStep(t))
    <3>1. PICK call \in Call : /\ Goto(t, call) /\ call.pc \in {"receipts", "finish"}
                               /\ call.pc = "receipts" => call.cutoff = calls[t].cutoff
      <4>1. CASE calls[t].pc = "bodies"
        <5>1. AfterStep(t) = [calls[t] EXCEPT !.pc = "receipts"]
          BY <4>1 DEF AfterStep
        <5>2. /\ AfterStep(t) \in Call /\ AfterStep(t).pc = "receipts"
              /\ AfterStep(t).cutoff = calls[t].cutoff
          BY <1>2, <4>1, <5>1 DEF Call, Cycle
        <5>3. QED
          BY <2>3, <5>2
      <4>2. CASE calls[t].pc # "bodies"
        BY <1>3, <2>3, <4>2 DEF AfterStep
      <4>3. QED
        BY <4>1, <4>2
    <3>2. QED
      BY <1>1, <1>2, <2>1, <2>2, <3>1, Moves DEF store, Answering
  <2>4. CASE calls[t].used < MaxRows /\ \E b \in Oldest(Candidates(t), Limit(t)) :
                Goto(t, [pc |-> "clear", of |-> calls[t].pc, batch |-> b,
                         cutoff |-> calls[t].cutoff, used |-> calls[t].used])
    <3>1. PICK b \in Oldest(Candidates(t), Limit(t)) :
                Goto(t, [pc |-> "clear", of |-> calls[t].pc, batch |-> b,
                         cutoff |-> calls[t].cutoff, used |-> calls[t].used])
      BY <2>4
    <3>2. /\ b \in SUBSET Payloads
          /\ calls[t].used + Cardinality(b) <= MaxRows
          /\ \A p \in b : p \notin Protected /\ OldAndKept(p, calls[t].cutoff)
      BY <1>1, <2>1, <2>4, BatchSound
    <3> DEFINE call == [pc |-> "clear", of |-> calls[t].pc, batch |-> b,
                        cutoff |-> calls[t].cutoff, used |-> calls[t].used]
    <3>3. /\ call \in Call /\ call.pc = "clear" /\ call.batch = b
          /\ call.cutoff = calls[t].cutoff /\ call.used = calls[t].used /\ Goto(t, call)
      BY <1>2, <2>1, <3>1, <3>2 DEF Call
    <3> HIDE DEF call
    <3>4. QED
      BY <1>1, <1>2, <2>1, <2>2, <3>2, <3>3, Moves DEF store, Answering
  <2>5. QED
    <3>1. calls[t].used >= MaxRows \/ calls[t].used < MaxRows
      BY <1>2, <2>1, RetentionAssumption
    <3>2. QED
      BY <1>5, <2>3, <2>4, <3>1 DEF ReadBatch
<1>6. CASE ClearFails(t)
  <2>1. /\ calls[t].pc = "clear" /\ faults < MaxFaults /\ faults' = faults + 1
        /\ UNCHANGED <<registry, clock, store, inFlight>>
    BY <1>6 DEF ClearFails
  <2>2. byKey' \in [Keys -> Requests \cup {NoRun}] /\ byGroup' \in Nat
    BY <1>1, <2>1, RegistryTypes
  <2> DEFINE next == [pc |-> "receipts", cutoff |-> calls[t].cutoff, used |-> calls[t].used]
  <2>3. next \in Call /\ next.pc = "receipts" /\ next.cutoff = calls[t].cutoff
    BY <1>2, <2>1 DEF Call, Cycle
  <2>4. Goto(t, next) \/ Goto(t, [pc |-> "finish"])
    BY <1>6 DEF ClearFails
  <2> HIDE DEF next
  <2>5. PICK call \in Call : /\ Goto(t, call) /\ call.pc \in {"receipts", "finish"}
                             /\ call.pc = "receipts" => call.cutoff = calls[t].cutoff
    BY <1>3, <2>3, <2>4
  <2>6. QED
    BY <1>1, <1>2, <1>4, <2>1, <2>2, <2>5, Moves DEF store, Answering
<1>7. CASE FinishCycle(t)
  <2>1. /\ calls[t].pc = "finish" /\ inFlight' = FALSE
        /\ Goto(t, Idle) \/ Goto(t, [pc |-> "guard"])
        /\ UNCHANGED <<registry, clock, store, faults>>
    BY <1>7 DEF FinishCycle, FlagAfterCycle
  <2>2. byKey' \in [Keys -> Requests \cup {NoRun}] /\ byGroup' \in Nat
    BY <1>1, <2>1, RegistryTypes
  <2>3. PICK call \in Call : Goto(t, call) /\ call.pc \in {"idle", "guard"}
    BY <1>3, <2>1
  <2>4. QED
    BY <1>1, <1>2, <2>1, <2>2, <2>3, Moves DEF store, Answering
<1>8. CASE Panic(t)
  <2>1. /\ calls[t].pc \in {"bodies", "receipts", "clear", "begin", "record"} /\ Goto(t, Dead)
        /\ faults < MaxFaults /\ faults' = faults + 1
        /\ UNCHANGED registry \/ DropGuard(Manual)
        /\ UNCHANGED <<clock, store, inFlight>>
    BY <1>8 DEF Panic
  <2>2. byKey' \in [Keys -> Requests \cup {NoRun}] /\ byGroup' \in Nat
    BY <1>1, <2>1, RegistryTypes
  <2>3. Dead \in Call /\ Dead.pc = "dead"
    BY <1>3
  <2>4. QED
    BY <1>1, <1>2, <1>4, <2>1, <2>2, <2>3, Moves DEF store, Answering
<1>9. CASE PumpBegins /\ t = Pump
  <2> DEFINE cycle == NewCycle
  <2>1. cycle \in Call /\ cycle.pc = "bodies" /\ CutoffPast(cycle.cutoff)
    BY <1>1, NewCycleSound DEF Call
  <2>2. /\ ~inFlight /\ inFlight' = TRUE /\ Goto(t, cycle)
        /\ UNCHANGED <<registry, clock, store, faults>>
    BY <1>9 DEF PumpBegins, MayBegin
  <2> HIDE DEF cycle
  <2>3. byKey' \in [Keys -> Requests \cup {NoRun}] /\ byGroup' \in Nat
    BY <1>1, <2>2, RegistryTypes
  <2>4. QED
    BY <1>1, <1>2, <2>1, <2>2, <2>3, Moves DEF store, Answering
<1>10. CASE ThreadEnds(t)
  <2>1. /\ calls[t].pc = "guard" /\ DropGuard(Manual) /\ Goto(t, Idle)
        /\ UNCHANGED <<clock, store, inFlight, faults>>
    BY <1>10 DEF ThreadEnds
  <2>2. byKey' \in [Keys -> Requests \cup {NoRun}] /\ byGroup' \in Nat
    BY <1>1, <2>1, RegistryTypes
  <2>3. Idle \in Call /\ Idle.pc = "idle"
    BY <1>3
  <2>4. QED
    BY <1>1, <1>2, <2>1, <2>2, <2>3, Moves DEF store, Answering
<1>11. CASE PumpPanics /\ t = Pump
  <2>1. /\ calls[t] = Idle /\ Goto(t, Gone) /\ faults < MaxFaults /\ faults' = faults + 1
        /\ UNCHANGED <<registry, clock, store, inFlight>>
    BY <1>11 DEF PumpPanics
  <2>2. byKey' \in [Keys -> Requests \cup {NoRun}] /\ byGroup' \in Nat
    BY <1>1, <2>1, RegistryTypes
  <2>3. Gone \in Call /\ Gone.pc = "gone" /\ calls[t].pc = "idle"
    BY <1>3, <2>1
  <2>4. QED
    BY <1>1, <1>2, <1>4, <2>1, <2>2, <2>3, Moves DEF store, Answering
<1>12. QED
  BY <1>5, <1>6, <1>7, <1>8, <1>9, <1>10, <1>11

\* Nobody else is in a cycle while t clears its batch, so it finds all its rows.
LEMMA ClearEffect ==
    ASSUME RetentionInv, NEW t \in Cyclers, ClearBatch(t)
    PROVE  LET b == calls[t].batch
           IN  /\ t \in Threads /\ calls[t].pc = "clear" /\ b \in SUBSET Payloads
               /\ \A u \in Threads : u # t => calls[u].pc \notin Answering /\ calls'[u] = calls[u]
               /\ calls' \in [Threads -> Call] /\ calls'[t].pc \in {"bodies", "receipts"}
               /\ calls'[t].cutoff = calls[t].cutoff
               /\ \A p \in b : /\ payloads[p].state = "kept" /\ p \notin Protected
                               /\ payloads[p].at < calls[t].cutoff
                               /\ payloads'[p].state = "cleared"
                               /\ payloads'[p].at = payloads[p].at
               /\ \A p \in Payloads \ b : payloads'[p] = payloads[p]
               /\ payloads' \in [Payloads -> [state : {"absent", "kept", "cleared"},
                                              at : 0..MaxTime]]
               /\ IsFiniteSet(b) /\ receipted' = receipted + Cardinality(b)
               /\ UNCHANGED <<registry, clock, kicked, inFlight, faults, raced>>
<1> DEFINE b == calls[t].batch
           back == [pc |-> calls[t].of, cutoff |-> calls[t].cutoff, used |-> calls[t].used]
<1>1. TypeOK /\ t \in Threads /\ calls[t].pc = "clear"
  BY DEF RetentionInv, Threads, Cyclers, ClearBatch
<1>2. /\ calls[t].of \in {"bodies", "receipts"} /\ b \in SUBSET Payloads
      /\ calls[t].cutoff \in Nat /\ calls[t].used \in 0..MaxRows
      /\ calls[t].used + Cardinality(b) <= MaxRows
  BY <1>1, CallFields
<1>3. \A p \in b : p \notin Protected /\ OldAndKept(p, calls[t].cutoff)
  BY <1>1 DEF RetentionInv, CyclesSound
<1>4. /\ payloads' = [p \in Payloads |-> IF p \in b THEN [payloads[p] EXCEPT !.state = "cleared"]
                                        ELSE payloads[p]]
      /\ receipted' = receipted + Cardinality(b)
      /\ Goto(t, [back EXCEPT !.used = @ + Cardinality(b)])
      /\ UNCHANGED <<registry, clock, kicked, inFlight, faults, raced>>
  BY <1>3 DEF ClearBatch
<1>5. IsFiniteSet(b) /\ Cardinality(b) \in Nat
  BY <1>2, DisjointAssumption, FS_Subset, FS_CardinalityType
<1> HIDE DEF b
<1>6. \A u \in Threads : u # t => calls[u].pc \notin Answering
  <2>1. t \in Holders
    BY <1>1, HoldersAre DEF Answering
  <2>2. QED
    BY <2>1, HoldersAre DEF RetentionInv, CyclesSound
<1>7. /\ calls' \in [Threads -> Call] /\ calls'[t].pc \in {"bodies", "receipts"}
      /\ calls'[t].cutoff = calls[t].cutoff
      /\ \A u \in Threads : u # t => calls'[u] = calls[u]
  <2> DEFINE call == [back EXCEPT !.used = @ + Cardinality(b)]
             spent == calls[t].used + Cardinality(b)
  <2>1. spent \in 0..MaxRows
    BY <1>2, <1>5, RetentionAssumption
  <2>2. call = [pc |-> calls[t].of, cutoff |-> calls[t].cutoff, used |-> spent]
    OBVIOUS
  <2> HIDE DEF spent, call
  <2>3. call \in Call /\ call.pc \in {"bodies", "receipts"} /\ call.cutoff = calls[t].cutoff
    BY <1>2, <2>1, <2>2 DEF Call, Cycle
  <2>4. Goto(t, call)
    BY <1>4 DEF call
  <2>5. QED
    BY <1>1, <2>3, <2>4, GotoEffect
<1>8. /\ \A p \in b : /\ payloads[p].state = "kept" /\ p \notin Protected
                      /\ payloads[p].at < calls[t].cutoff
                      /\ payloads'[p].state = "cleared" /\ payloads'[p].at = payloads[p].at
      /\ \A p \in Payloads \ b : payloads'[p] = payloads[p]
      /\ payloads' \in [Payloads -> [state : {"absent", "kept", "cleared"}, at : 0..MaxTime]]
  <2>1. payloads \in [Payloads -> [state : {"absent", "kept", "cleared"}, at : 0..MaxTime]]
    BY <1>1 DEF TypeOK
  <2>2. \A p \in b : payloads'[p] = [payloads[p] EXCEPT !.state = "cleared"]
    BY <1>2, <1>4
  <2>3. \A p \in b : p \in Payloads /\ payloads[p] \in [state : {"absent", "kept", "cleared"},
                                                       at : 0..MaxTime]
    BY <1>2, <2>1 DEF b
  <2>4. \A p \in b : /\ payloads'[p].state = "cleared" /\ payloads'[p].at = payloads[p].at
                     /\ payloads'[p] \in [state : {"absent", "kept", "cleared"}, at : 0..MaxTime]
    BY <2>2, <2>3
  <2>5. \A p \in Payloads \ b : payloads'[p] = payloads[p]
    BY <1>4
  <2>6. payloads' = [p \in Payloads |-> payloads'[p]]
    BY <1>4
  <2>7. payloads' \in [Payloads -> [state : {"absent", "kept", "cleared"}, at : 0..MaxTime]]
    BY <2>1, <2>4, <2>5, <2>6
  <2>8. QED
    BY <1>3, <2>4, <2>5, <2>7 DEF OldAndKept
<1>9. QED
  BY <1>1, <1>2, <1>4, <1>5, <1>6, <1>7, <1>8 DEF b

\* Clearing a batch: the rows were old enough when the cycle began.
LEMMA ClearKeeps ==
    ASSUME RetentionInv, NEW t \in Cyclers, ClearBatch(t)
    PROVE  RetentionInv'
<1> DEFINE b == calls[t].batch
<1>1. TypeOK
  BY DEF RetentionInv
<1>2. /\ t \in Threads /\ calls[t].pc = "clear" /\ b \in SUBSET Payloads
      /\ \A u \in Threads : u # t => calls[u].pc \notin Answering /\ calls'[u] = calls[u]
      /\ calls' \in [Threads -> Call] /\ calls'[t].pc \in {"bodies", "receipts"}
      /\ calls'[t].cutoff = calls[t].cutoff
      /\ \A p \in b : /\ p \notin Protected /\ payloads[p].at < calls[t].cutoff
                      /\ payloads'[p].at = payloads[p].at
      /\ \A p \in Payloads \ b : payloads'[p] = payloads[p]
      /\ payloads' \in [Payloads -> [state : {"absent", "kept", "cleared"}, at : 0..MaxTime]]
      /\ IsFiniteSet(b) /\ receipted' = receipted + Cardinality(b)
      /\ UNCHANGED <<registry, clock, kicked, inFlight, faults, raced>>
  BY ClearEffect
<1> HIDE DEF b
<1>3. \A u \in Threads : calls'[u].pc # "clear"
  BY <1>2 DEF Answering
<1>4. TypeOK'
  <2>1. receipted' \in Nat
    BY <1>1, <1>2, FS_CardinalityType DEF TypeOK
  <2>2. QED
    BY <1>1, <1>2, <1>3, <2>1 DEF TypeOK, registry
<1>5. Holders' = Holders
  BY <1>2, HoldersAre, HoldersAfter DEF Answering
<1>6. FlagExact'
  BY <1>2, <1>5 DEF RetentionInv, FlagExact
<1>7. CutoffPast(calls[t].cutoff) /\ calls[t].cutoff \in Nat
  BY <1>1, <1>2, CallFields DEF RetentionInv, CyclesSound
<1>8. OnlyOldMirrorsCleared'
  <2>1. ASSUME NEW p \in b PROVE p \notin Protected /\ payloads'[p].at + Days < clock'
    <3>1. payloads[p].at \in Nat /\ payloads[p].at < calls[t].cutoff
      BY <1>1, <1>2 DEF TypeOK
    <3>2. QED
      BY <1>1, <1>2, <1>7, <3>1, RetentionAssumption DEF CutoffPast, TypeOK
  <2>2. QED
    BY <1>2, <2>1 DEF RetentionInv, OnlyOldMirrorsCleared
<1>9. CyclesSound'
  <2>1. ASSUME NEW u \in Threads
        PROVE  /\ calls'[u].pc \notin {"begin", "record", "spawn"}
               /\ calls'[u].pc \in {"bodies", "receipts", "clear"} => u = t
    BY <1>2 DEF Answering
  <2>2. CutoffPast(calls[t].cutoff)'
    BY <1>2, <1>7 DEF CutoffPast
  <2>3. \A u, v \in Holders' : u = v
    BY <1>5 DEF RetentionInv, CyclesSound
  <2>4. QED
    BY <1>3, <2>1, <2>2, <2>3 DEF CyclesSound
<1>10. QED
  BY <1>4, <1>6, <1>8, <1>9 DEF RetentionInv

\* A payload of the table.
Row == [state : {"absent", "kept", "cleared"}, at : 0..MaxTime]

\* A day passes, or a payload is written: neither touches what a cycle has read.
LEMMA WorldKeeps ==
    ASSUME RetentionInv, Tick \/ \E p \in Payloads : Write(p)
    PROVE  /\ RetentionInv' /\ UNCHANGED <<receipted, raced>>
           /\ \A p \in Payloads : payloads'[p].state = "cleared" <=> payloads[p].state = "cleared"
<1>1. TypeOK /\ clock \in 0..MaxTime /\ payloads \in [Payloads -> Row]
  BY DEF RetentionInv, TypeOK, Row
<1>2. /\ UNCHANGED <<registry, inFlight, kicked, receipted, raced, calls, faults>>
      /\ clock' \in 0..MaxTime /\ clock <= clock' /\ payloads' \in [Payloads -> Row]
      /\ \A p \in Payloads : \/ payloads'[p] = payloads[p]
                             \/ payloads[p].state = "absent" /\ payloads'[p].state = "kept"
  <2>1. CASE Tick
    <3>1. /\ clock < MaxTime /\ clock' = clock + 1
          /\ UNCHANGED <<registry, payloads, inFlight, kicked, receipted, raced, calls, faults>>
      BY <2>1 DEF Tick, store
    <3>2. clock' \in 0..MaxTime /\ clock <= clock'
      BY <1>1, <3>1, RetentionAssumption
    <3>3. payloads' \in [Payloads -> Row] /\ \A p \in Payloads : payloads'[p] = payloads[p]
      BY <1>1, <3>1
    <3>4. QED
      BY <3>1, <3>2, <3>3 DEF registry
  <2>2. ASSUME NEW p \in Payloads, Write(p)
        PROVE  /\ UNCHANGED <<registry, inFlight, kicked, receipted, raced, calls, faults>>
               /\ clock' \in 0..MaxTime /\ clock <= clock' /\ payloads' \in [Payloads -> Row]
               /\ \A q \in Payloads : \/ payloads'[q] = payloads[q]
                                      \/ payloads[q].state = "absent" /\ payloads'[q].state = "kept"
    <3>1. /\ payloads[p].state = "absent"
          /\ payloads' = [payloads EXCEPT ![p] = [state |-> "kept", at |-> clock]]
          /\ UNCHANGED <<registry, clock, inFlight, kicked, receipted, raced, calls, faults>>
      BY <2>2 DEF Write, Absent
    <3>2. [state |-> "kept", at |-> clock] \in Row
      BY <1>1 DEF Row
    <3>3. clock <= clock
      BY <1>1, RetentionAssumption
    <3>4. /\ payloads' \in [Payloads -> Row] /\ payloads'[p].state = "kept"
          /\ \A q \in Payloads : q # p => payloads'[q] = payloads[q]
      BY <1>1, <3>1, <3>2
    <3>5. /\ UNCHANGED <<registry, inFlight, kicked, receipted, raced, calls, faults>>
          /\ clock' \in 0..MaxTime /\ clock <= clock'
      BY <1>1, <3>1, <3>3 DEF registry
    <3>6. QED
      BY <3>1, <3>4, <3>5
  <2>3. QED
    BY <2>1, <2>2
<1>3. TypeOK'
  BY <1>1, <1>2 DEF TypeOK, registry, Row
<1>4. FlagExact'
  <2>1. Holders' = Holders
    BY <1>2, HoldersAre, HoldersAfter
  <2>2. QED
    BY <1>2, <2>1 DEF RetentionInv, FlagExact
<1>5. OnlyOldMirrorsCleared'
  <2>1. ASSUME NEW p \in Payloads, payloads'[p].state = "cleared"
        PROVE  p \notin Protected /\ payloads'[p].at + Days < clock'
    <3>1. payloads'[p] = payloads[p] /\ payloads[p].at \in Nat
      BY <1>1, <1>2, <2>1 DEF Row
    <3>2. p \notin Protected /\ payloads[p].at + Days < clock
      BY <2>1, <3>1 DEF RetentionInv, OnlyOldMirrorsCleared
    <3>3. QED
      BY <1>1, <1>2, <3>1, <3>2, RetentionAssumption
  <2>2. QED
    BY <2>1 DEF OnlyOldMirrorsCleared
<1>6. CyclesSound'
  <2>1. \A t, u \in Holders' : t = u
    <3>1. Holders' = Holders
      BY <1>2, HoldersAre, HoldersAfter
    <3>2. QED
      BY <3>1 DEF RetentionInv, CyclesSound
  <2>2. ASSUME NEW n \in Nat, CutoffPast(n) PROVE CutoffPast(n)'
    BY <1>1, <1>2, <2>2, RetentionAssumption DEF CutoffPast
  <2>3. ASSUME NEW t \in Threads
        PROVE  /\ calls[t].pc \in {"begin", "record", "spawn"} => calls[t].cycle.cutoff \in Nat
               /\ calls[t].pc \in {"bodies", "receipts", "clear"} => calls[t].cutoff \in Nat
               /\ calls[t].pc = "clear" => calls[t].batch \in SUBSET Payloads
    BY <1>1, CallFields DEF Cycle
  <2>4. ASSUME NEW p \in Payloads, NEW n, OldAndKept(p, n) PROVE OldAndKept(p, n)'
    BY <1>2, <2>4 DEF OldAndKept
  <2>5. ASSUME NEW t \in Threads
        PROVE  /\ calls'[t].pc \in {"begin", "record", "spawn"}
                     => CutoffPast(calls[t].cycle.cutoff)'
               /\ calls'[t].pc \in {"bodies", "receipts", "clear"} => CutoffPast(calls[t].cutoff)'
               /\ calls'[t].pc = "clear" => \A p \in calls'[t].batch :
                     p \notin Protected /\ OldAndKept(p, calls[t].cutoff)'
    <3>1. calls' = calls
      BY <1>2
    <3>2. CASE calls[t].pc \in {"begin", "record", "spawn"}
      <4>1. CutoffPast(calls[t].cycle.cutoff) /\ calls[t].cycle.cutoff \in Nat
        BY <2>3, <3>2 DEF RetentionInv, CyclesSound
      <4>2. QED
        BY <2>2, <3>1, <3>2, <4>1
    <3>3. CASE calls[t].pc \in {"bodies", "receipts", "clear"}
      <4>1. CutoffPast(calls[t].cutoff) /\ calls[t].cutoff \in Nat
        BY <2>3, <3>3 DEF RetentionInv, CyclesSound
      <4>2. calls[t].pc = "clear" => \A p \in calls[t].batch :
               p \in Payloads /\ p \notin Protected /\ OldAndKept(p, calls[t].cutoff)
        BY <2>3 DEF RetentionInv, CyclesSound
      <4>3. QED
        BY <2>2, <2>4, <3>1, <3>3, <4>1, <4>2
    <3>4. QED
      BY <3>1, <3>2, <3>3
  <2>6. QED
    BY <2>1, <2>5 DEF CyclesSound
<1>7. QED
  BY <1>2, <1>3, <1>4, <1>5, <1>6 DEF RetentionInv

\* The process restarts: no thread answers for anything any more.
LEMMA RestartKeeps ==
    ASSUME RetentionInv, Restart
    PROVE  RetentionInv' /\ UNCHANGED <<payloads, receipted, raced>>
<1>1. TypeOK
  BY DEF RetentionInv
<1>2. /\ calls' = [t \in Threads |-> Idle] /\ inFlight' = FALSE
      /\ faults < MaxFaults /\ faults' = faults + 1 /\ RegistryLost
      /\ UNCHANGED <<clock, payloads, kicked, receipted, raced>>
  BY DEF Restart, store
<1>3. TypeOK'
  <2>1. faults' \in 0..MaxFaults
    BY <1>1, <1>2, RetentionAssumption DEF TypeOK
  <2>2. byKey' \in [Keys -> Requests \cup {NoRun}] /\ byGroup' \in Nat
    BY <1>1, <1>2, RegistryTypes
  <2>3. calls' \in [Threads -> Call] /\ \A t \in Threads : calls'[t].pc = "idle"
    BY <1>2 DEF Call, Idle
  <2>4. QED
    BY <1>1, <1>2, <2>1, <2>2, <2>3 DEF TypeOK
<1>4. \A t \in Threads : calls'[t].pc = "idle"
  BY <1>2 DEF Idle
<1>5. Holders' = {}
  BY <1>4, HoldersAfter DEF Answering
<1>6. FlagExact' /\ CyclesSound' /\ OnlyOldMirrorsCleared'
  BY <1>2, <1>4, <1>5, AtMostOne
     DEF RetentionInv, FlagExact, CyclesSound, OnlyOldMirrorsCleared
<1>7. QED
  BY <1>2, <1>3, <1>6 DEF RetentionInv

\* Before anything has happened no thread answers for the flag.
LEMMA RetentionStarts == Init => RetentionInv /\ ClearedIsReceipted
<1> SUFFICES ASSUME Init PROVE RetentionInv /\ ClearedIsReceipted
  OBVIOUS
<1>1. \A t \in Threads : calls[t].pc = "idle" /\ calls[t] \in Call
  BY DEF Init, Idle, Call
<1>2. Holders = {}
  BY <1>1, HoldersAre DEF Answering
<1>3. \A p \in Payloads : payloads[p].state = "absent"
  BY DEF Init, Absent
<1>4. TypeOK
  <2>1. calls \in [Threads -> Call]
    BY <1>1 DEF Init
  <2>2. payloads \in [Payloads -> [state : {"absent", "kept", "cleared"}, at : 0..MaxTime]]
    BY RetentionAssumption DEF Init, Absent
  <2>3. byKey \in [Keys -> Requests \cup {NoRun}] /\ byGroup \in Nat
    BY DEF Init, EmptyRegistry
  <2>4. clock \in 0..MaxTime /\ faults \in 0..MaxFaults
    BY RetentionAssumption DEF Init
  <2>5. inFlight \in BOOLEAN /\ kicked \subseteq Requests /\ receipted \in Nat /\ raced \in Nat
    BY DEF Init
  <2>6. QED
    BY <1>1, <2>1, <2>2, <2>3, <2>4, <2>5 DEF TypeOK
<1>5. RetentionInv
  BY <1>1, <1>2, <1>3, <1>4, AtMostOne
     DEF Init, RetentionInv, FlagExact, CyclesSound, OnlyOldMirrorsCleared
<1>6. {p \in Payloads : payloads[p].state = "cleared"} = {}
  BY <1>3
<1>7. QED
  BY <1>5, <1>6, FS_EmptySet DEF Init, ClearedIsReceipted

\* Every step is the step of a request, of a cycle, or of the world around.
LEMMA RetentionSteps ==
    ASSUME [Next]_vars
    PROVE  \/ UNCHANGED vars
           \/ Tick \/ \E p \in Payloads : Write(p)
           \/ Restart
           \/ \E t \in Cyclers : ClearBatch(t)
           \/ \E t \in Cyclers : \/ ReadBatch(t) \/ ClearFails(t) \/ FinishCycle(t) \/ Panic(t)
                                 \/ t = Pump /\ (PumpBegins \/ PumpPanics)
                                 \/ t \in Workers /\ ThreadEnds(t)
           \/ \E h \in Handlers, w \in Workers : Spawn(h, w)
           \/ \E h \in Handlers : \/ ManualBegin(h) \/ RecordKickoff(h) \/ Release(h)
                                  \/ ManualFails(h) \/ Panic(h)
                                  \/ \E r \in Requests : ManualBegins(h, r)
BY DEF Next, CycleStep, RequestStep, Cyclers, Threads

\* One cycle runs at a time, whatever panics, restarts and replays: the flag is
\* up exactly while one thread answers for it (try_begin_run, run_guarded_cycle,
\* release_without_run), a cycle stays within its budget, and what it clears is
\* old enough and of a kind that may be cleared.
THEOREM RetentionSafe == Spec => []RetentionInv
<1>1. Init => RetentionInv
  BY RetentionStarts
<1>2. RetentionInv /\ [Next]_vars => RetentionInv'
  <2> SUFFICES ASSUME RetentionInv, [Next]_vars PROVE RetentionInv'
    OBVIOUS
  <2>1. CASE UNCHANGED vars
    <3>1. Holders' = Holders
      BY <2>1, HoldersAre, HoldersAfter DEF vars
    <3>2. FlagExact' /\ OnlyOldMirrorsCleared' /\ TypeOK'
      BY <2>1, <3>1
         DEF vars, RetentionInv, FlagExact, OnlyOldMirrorsCleared, TypeOK
    <3>3. CyclesSound'
      BY <2>1, <3>1 DEF vars, RetentionInv, CyclesSound, CutoffPast, OldAndKept
    <3>4. QED
      BY <3>2, <3>3 DEF RetentionInv
  <2>2. QED
    BY <2>1, RetentionSteps, WorldKeeps, RestartKeeps, ClearKeeps, CycleKeeps, SpawnKeeps,
       RequestKeeps
<1>3. QED
  BY <1>1, <1>2, PTL DEF Spec

\* Because cycles exclude each other the receipts of the batches count every
\* cleared payload exactly once, and no batch misses a row it has read
\* (compact_email_bodies, compact_receipt_payloads).
THEOREM ReceiptsAccount == Spec => []ClearedIsReceipted
<1>1. RetentionInv /\ ClearedIsReceipted /\ [Next]_vars => ClearedIsReceipted'
  <2> SUFFICES ASSUME RetentionInv, ClearedIsReceipted, [Next]_vars PROVE ClearedIsReceipted'
    OBVIOUS
  <2> DEFINE cleared == {p \in Payloads : payloads[p].state = "cleared"}
             after == {p \in Payloads : payloads'[p].state = "cleared"}
  <2>1. raced = 0 /\ receipted = Cardinality(cleared)
    BY DEF ClearedIsReceipted
  <2>2. ASSUME UNCHANGED <<receipted, raced>>, after = cleared PROVE ClearedIsReceipted'
    BY <2>1, <2>2 DEF ClearedIsReceipted
  <2>3. ASSUME NEW t \in Cyclers, ClearBatch(t) PROVE ClearedIsReceipted'
    <3> DEFINE b == calls[t].batch
    <3>1. /\ b \in SUBSET Payloads /\ IsFiniteSet(b)
          /\ \A p \in b : payloads[p].state = "kept" /\ payloads'[p].state = "cleared"
          /\ \A p \in Payloads \ b : payloads'[p] = payloads[p]
          /\ receipted' = receipted + Cardinality(b) /\ raced' = raced
      BY <2>3, ClearEffect
    <3> HIDE DEF b
    <3>2. after = cleared \cup b /\ cleared \cap b = {}
      BY <3>1
    <3>3. IsFiniteSet(cleared)
      BY DisjointAssumption, FS_Subset
    <3>4. Cardinality(cleared) \in Nat /\ Cardinality(b) \in Nat
      BY <3>1, <3>3, FS_CardinalityType
    <3> HIDE DEF cleared, after
    <3>5. Cardinality(after) = Cardinality(cleared) + Cardinality(b) - 0
      BY <3>1, <3>2, <3>3, FS_Union, FS_EmptySet
    <3>6. Cardinality(after) = receipted'
      BY <2>1, <3>1, <3>4, <3>5
    <3>7. QED
      BY <2>1, <3>1, <3>6 DEF ClearedIsReceipted, after
  <2>4. CASE UNCHANGED vars
    BY <2>2, <2>4 DEF vars
  <2>5. CASE Tick \/ \E p \in Payloads : Write(p)
    BY <2>2, <2>5, WorldKeeps
  <2>6. CASE Restart
    BY <2>2, <2>6, RestartKeeps
  <2>7. ASSUME NEW t \in Cyclers,
               \/ ReadBatch(t) \/ ClearFails(t) \/ FinishCycle(t) \/ Panic(t)
               \/ t = Pump /\ (PumpBegins \/ PumpPanics)
               \/ t \in Workers /\ ThreadEnds(t)
        PROVE  ClearedIsReceipted'
    BY <2>2, <2>7, CycleKeeps
  <2>8. ASSUME NEW h \in Handlers, NEW w \in Workers, Spawn(h, w) PROVE ClearedIsReceipted'
    BY <2>2, <2>8, SpawnKeeps
  <2>9. ASSUME NEW h \in Handlers,
               \/ ManualBegin(h) \/ RecordKickoff(h) \/ Release(h) \/ ManualFails(h)
               \/ Panic(h) \/ \E r \in Requests : ManualBegins(h, r)
        PROVE  ClearedIsReceipted'
    BY <2>2, <2>9, RequestKeeps
  <2>10. QED
    BY <2>3, <2>4, <2>5, <2>6, <2>7, <2>8, <2>9, RetentionSteps
<1>2. Init => ClearedIsReceipted
  BY RetentionStarts
<1>3. QED
  BY <1>1, <1>2, RetentionSafe, PTL DEF Spec
=============================================================================
