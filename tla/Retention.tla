------------------------------- MODULE Retention -------------------------------
(***************************************************************************)
(* Data retention (crates/bos-app/src/slices/data_retention/): a pump and  *)
(* manual runs clear the full bodies of old mail and the payloads of old   *)
(* receipts, in batches, within a budget of rows per cycle.  One cycle     *)
(* runs at a time: a flag in memory says so, and manual runs hold a place  *)
(* of the kickoff registry as well.                                        *)
(*                                                                         *)
(* The candidates of a batch are read before the transaction that clears   *)
(* them, and every batch writes a receipt that counts its rows.            *)
(***************************************************************************)
EXTENDS AsyncKickoff, FiniteSets

CONSTANTS
    Bodies,       \* inbound messages with a full body
    Mirrors,      \* receipts of the allow-listed entity and change kinds
    Protected,    \* receipts of all other kinds
    Requests,     \* manual runs, by idempotency key
    Manual,       \* the kickoff key of manual runs
    Pump,         \* the data-retention-pump thread
    Handlers,     \* threads serving manual requests
    Workers,      \* data-retention-manual threads
    Days,         \* age in days from which a payload may be cleared
    BatchSize,    \* batch_size
    MaxRows,      \* max_rows_per_cycle
    MaxTime,      \* bound: days
    MaxFaults     \* bound: panics, restarts and refused writes

Payloads == Bodies \cup Mirrors \cup Protected
Threads == {Pump} \cup Handlers \cup Workers
Cyclers == {Pump} \cup Workers

ASSUME RetentionAssumption ==
    /\ Keys = {Manual}
    /\ Days \in Nat /\ MaxTime \in Nat /\ MaxFaults \in Nat
    /\ BatchSize \in Nat \ {0} /\ MaxRows \in Nat /\ MaxRows >= BatchSize
ASSUME DisjointAssumption ==
    /\ Bodies \cap Mirrors = {} /\ (Bodies \cup Mirrors) \cap Protected = {}
    /\ Pump \notin Handlers \cup Workers /\ Handlers \cap Workers = {}
    /\ IsFiniteSet(Payloads)

VARIABLES
    clock,      \* days
    payloads,   \* email bodies and receipt payloads, with the day they were written
    inFlight,   \* in_flight of the DataRetention sync guard
    kicked,     \* manual runs with a kickoff receipt
    receipted,  \* rows counted by the receipts of the compaction batches
    calls,      \* per thread: where it stands
    raced,      \* history: batches that did not find all their rows
    faults      \* faults so far

vars == <<byKey, byGroup, clock, payloads, inFlight, kicked, receipted, calls, raced, faults>>
store == <<payloads, kicked, receipted, raced>>

Idle == [pc |-> "idle"]
Dead == [pc |-> "dead"]
Gone == [pc |-> "gone"]
Absent == [state |-> "absent", at |-> 0]

Goto(t, call) == calls' = [calls EXCEPT ![t] = call]

-----------------------------------------------------------------------------
Init ==
    /\ EmptyRegistry
    /\ clock = 0 /\ inFlight = FALSE /\ kicked = {} /\ receipted = 0 /\ raced = 0 /\ faults = 0
    /\ payloads = [p \in Payloads |-> Absent]
    /\ calls = [t \in Threads |-> Idle]

Tick ==
    /\ clock < MaxTime
    /\ clock' = clock + 1
    /\ UNCHANGED <<registry, store, inFlight, calls, faults>>

\* A message is ingested or a receipt is written.
Write(p) ==
    /\ payloads[p] = Absent
    /\ payloads' = [payloads EXCEPT ![p] = [state |-> "kept", at |-> clock]]
    /\ UNCHANGED <<registry, clock, inFlight, kicked, receipted, raced, calls, faults>>

-----------------------------------------------------------------------------
\* cutoff_ms saturates at zero.
Cutoff(now) == IF now > Days THEN now - Days ELSE 0

NewCycle == [pc |-> "bodies", cutoff |-> Cutoff(clock), used |-> 0]

MayBeginAlways == TRUE

\* try_begin_run: the flag is free.
MayBegin == ~inFlight

\* The pump wakes up; a run in flight is skipped.
PumpBegins ==
    /\ calls[Pump] = Idle /\ MayBegin
    /\ inFlight' = TRUE
    /\ Goto(Pump, NewCycle)
    /\ UNCHANGED <<registry, clock, store, faults>>

\* start_manual_run: the flag first, with the answer already_running ...
ManualBegins(h, r) ==
    /\ calls[h] = Idle /\ MayBegin
    /\ inFlight' = TRUE
    /\ Goto(h, [pc |-> "begin", req |-> r, cycle |-> NewCycle])
    /\ UNCHANGED <<registry, clock, store, faults>>

\* ... then the configuration, and a place in the registry.
ManualBegin(h) ==
    /\ calls[h].pc = "begin"
    /\ \/ /\ AlreadyRunning(Manual) \/ CapacityExceeded(Manual)
          /\ Goto(h, [pc |-> "release"])
          /\ UNCHANGED registry
       \/ /\ GuardStarted(Manual, calls[h].req)
          /\ Goto(h, [calls[h] EXCEPT !.pc = "record"])
    /\ UNCHANGED <<clock, store, inFlight, faults>>

\* record_manual_kickoff: a replay gives the place back.
RecordKickoff(h) ==
    LET r == calls[h].req
    IN  /\ calls[h].pc = "record"
        /\ kicked' = kicked \cup {r}
        /\ IF r \in kicked
           THEN DropGuard(Manual) /\ Goto(h, [pc |-> "release"])
           ELSE Goto(h, [calls[h] EXCEPT !.pc = "spawn"]) /\ UNCHANGED registry
        /\ UNCHANGED <<clock, payloads, receipted, raced, inFlight, faults>>

\* The manual thread takes the registry guard with it.
Spawn(h, w) ==
    /\ calls[h].pc = "spawn" /\ calls[w] = Idle
    /\ calls' = [calls EXCEPT ![h] = Idle, ![w] = calls[h].cycle]
    /\ UNCHANGED <<registry, clock, store, inFlight, faults>>

\* The configuration cannot be read, the kickoff receipt not written, or the
\* thread not started.
ManualFails(h) ==
    /\ faults < MaxFaults /\ calls[h].pc \in {"begin", "record", "spawn"}
    /\ faults' = faults + 1
    /\ IF calls[h].pc = "begin" THEN UNCHANGED registry ELSE DropGuard(Manual)
    /\ Goto(h, [pc |-> "release"])
    /\ UNCHANGED <<clock, store, inFlight>>

\* release_without_run
Release(h) ==
    /\ calls[h].pc = "release"
    /\ inFlight' = FALSE
    /\ Goto(h, Idle)
    /\ UNCHANGED <<registry, clock, store, faults>>

-----------------------------------------------------------------------------
OldAndKept(p, cutoff) == payloads[p].state = "kept" /\ payloads[p].at < cutoff

CandidatesOfAllKinds(t) ==
    {p \in Payloads : OldAndKept(p, calls[t].cutoff)}

\* The rows a step of the cycle may clear: bodies, then receipts of the
\* allow-listed kinds.
Candidates(t) ==
    {p \in IF calls[t].pc = "bodies" THEN Bodies ELSE Mirrors : OldAndKept(p, calls[t].cutoff)}

Limit(t) == IF BatchSize < MaxRows - calls[t].used THEN BatchSize ELSE MaxRows - calls[t].used

\* ORDER BY the day, then the id, LIMIT
Oldest(ps, n) ==
    {b \in SUBSET ps : /\ Cardinality(b) = IF Cardinality(ps) < n THEN Cardinality(ps) ELSE n
                       /\ \A p \in b, q \in ps \ b : payloads[p].at <= payloads[q].at}

AfterStep(t) ==
    IF calls[t].pc = "bodies" THEN [calls[t] EXCEPT !.pc = "receipts"] ELSE [pc |-> "finish"]

\* The candidates are read; with none left, or the budget used up, the cycle
\* goes on to its next step.
ReadBatch(t) ==
    /\ calls[t].pc \in {"bodies", "receipts"}
    /\ IF Candidates(t) = {} \/ calls[t].used >= MaxRows
       THEN Goto(t, AfterStep(t))
       ELSE \E b \in Oldest(Candidates(t), Limit(t)) :
               Goto(t, [pc |-> "clear", of |-> calls[t].pc, batch |-> b,
                        cutoff |-> calls[t].cutoff, used |-> calls[t].used])
    /\ UNCHANGED <<registry, clock, store, inFlight, faults>>

\* compact_email_bodies, compact_receipt_payloads: all rows of the batch, or
\* none and the step is over.
ClearBatch(t) ==
    LET b == calls[t].batch
        back == [pc |-> calls[t].of, cutoff |-> calls[t].cutoff, used |-> calls[t].used]
    IN  /\ calls[t].pc = "clear"
        /\ \/ /\ \A p \in b : OldAndKept(p, calls[t].cutoff)
              /\ payloads' = [p \in Payloads |->
                                IF p \in b THEN [payloads[p] EXCEPT !.state = "cleared"]
                                ELSE payloads[p]]
              /\ receipted' = receipted + Cardinality(b)
              /\ Goto(t, [back EXCEPT !.used = @ + Cardinality(b)])
              /\ UNCHANGED raced
           \/ /\ ~\A p \in b : OldAndKept(p, calls[t].cutoff)
              /\ raced' = raced + 1
              /\ Goto(t, IF calls[t].of = "bodies" THEN [back EXCEPT !.pc = "receipts"]
                         ELSE [pc |-> "finish"])
              /\ UNCHANGED <<payloads, receipted>>
        /\ UNCHANGED <<registry, clock, kicked, inFlight, faults>>

\* The database refuses the batch: the step is over.
ClearFails(t) ==
    /\ faults < MaxFaults /\ calls[t].pc = "clear"
    /\ faults' = faults + 1
    /\ Goto(t, IF calls[t].of = "bodies"
               THEN [pc |-> "receipts", cutoff |-> calls[t].cutoff, used |-> calls[t].used]
               ELSE [pc |-> "finish"])
    /\ UNCHANGED <<registry, clock, store, inFlight>>

FlagKept == inFlight

FlagAfterCycle == FALSE

\* run_guarded_cycle takes the flag down; the guard of a manual run is dropped
\* after that.
FinishCycle(t) ==
    /\ calls[t].pc = "finish"
    /\ inFlight' = FlagAfterCycle
    /\ Goto(t, IF t = Pump THEN Idle ELSE [pc |-> "guard"])
    /\ UNCHANGED <<registry, clock, store, faults>>

ThreadEnds(w) ==
    /\ calls[w].pc = "guard"
    /\ DropGuard(Manual)
    /\ Goto(w, Idle)
    /\ UNCHANGED <<clock, store, inFlight, faults>>

\* PersistencePool::lock panics in a cycle, or in a request that has raised the
\* flag and reads the configuration or records its kickoff: the thread or the
\* request ends, a registry guard is dropped, the flag stays up.
Panic(t) ==
    /\ faults < MaxFaults
    /\ calls[t].pc \in {"bodies", "receipts", "clear", "begin", "record"}
    /\ faults' = faults + 1
    /\ Goto(t, Dead)
    /\ IF t = Pump \/ calls[t].pc = "begin" THEN UNCHANGED registry ELSE DropGuard(Manual)
    /\ UNCHANGED <<clock, store, inFlight>>

\* The same in the pump between its cycles, where it reads the configuration:
\* the pump ends, and leaves the flag to others.
PumpPanics ==
    /\ faults < MaxFaults /\ calls[Pump] = Idle
    /\ faults' = faults + 1
    /\ Goto(Pump, Gone)
    /\ UNCHANGED <<registry, clock, store, inFlight>>

Restart ==
    /\ faults < MaxFaults
    /\ faults' = faults + 1
    /\ RegistryLost
    /\ inFlight' = FALSE
    /\ calls' = [t \in Threads |-> Idle]
    /\ UNCHANGED <<clock, store>>

CycleStep(t) == ReadBatch(t) \/ ClearBatch(t) \/ FinishCycle(t)
RequestStep(h) ==
    ManualBegin(h) \/ RecordKickoff(h) \/ Release(h) \/ \E w \in Workers : Spawn(h, w)

Next ==
    \/ Tick \/ PumpBegins \/ PumpPanics \/ Restart
    \/ \E p \in Payloads : Write(p)
    \/ \E t \in Cyclers : CycleStep(t) \/ ClearFails(t)
    \/ \E t \in Threads : Panic(t)
    \/ \E w \in Workers : ThreadEnds(w)
    \/ \E h \in Handlers :
          RequestStep(h) \/ ManualFails(h) \/ \E r \in Requests : ManualBegins(h, r)

Spec == Init /\ [][Next]_vars

(***************************************************************************)
(* Time passes, threads that have begun go on, and the pump wakes up again *)
(* and again: manual runs may hold the flag when it does, but not always.  *)
(***************************************************************************)
FairSpec ==
    /\ Spec
    /\ WF_vars(Tick)
    /\ SF_vars(PumpBegins)
    /\ \A t \in Cyclers : WF_vars(CycleStep(t))
    /\ \A w \in Workers : WF_vars(ThreadEnds(w))
    /\ \A h \in Handlers : WF_vars(RequestStep(h))

-----------------------------------------------------------------------------
InCycle(t) == calls[t].pc \in {"bodies", "receipts", "clear", "finish"}
\* Threads that answer for the flag: they raised it and will take it down, or
\* have died with it up.
Holders ==
    {t \in Threads : InCycle(t) \/ calls[t].pc \in {"begin", "record", "spawn", "release", "dead"}}

Cycle == [pc : {"bodies", "receipts"}, cutoff : Nat, used : 0..MaxRows]
Call == [pc : {"idle", "dead", "gone", "release", "finish", "guard"}]
        \cup Cycle
        \cup [pc : {"begin", "record", "spawn"}, req : Requests, cycle : Cycle]
        \cup [pc : {"clear"}, of : {"bodies", "receipts"}, batch : SUBSET Payloads,
              cutoff : Nat, used : 0..MaxRows]

\* Types; a cycle stays within its budget of rows.
TypeOK ==
    /\ byKey \in [Keys -> Requests \cup {NoRun}] /\ byGroup \in Nat
    /\ clock \in 0..MaxTime /\ inFlight \in BOOLEAN
    /\ payloads \in [Payloads -> [state : {"absent", "kept", "cleared"}, at : 0..MaxTime]]
    /\ kicked \subseteq Requests /\ receipted \in Nat /\ raced \in Nat /\ faults \in 0..MaxFaults
    /\ calls \in [Threads -> Call]
    /\ \A t \in Threads : calls[t].pc = "clear" =>
          calls[t].used + Cardinality(calls[t].batch) <= MaxRows

\* The flag is up exactly while one thread answers for it (a dead one included):
\* neither a late guard, nor a replay, nor an answer "already running" takes it
\* down under a running cycle.
FlagExact ==
    /\ inFlight <=> Holders # {}
    /\ Cardinality(Holders) <= 1

\* Because cycles exclude each other no batch loses a row between its read and
\* its transaction ("..._compaction_race"), and the receipts of the batches
\* account for every cleared payload exactly once.
ClearedIsReceipted ==
    /\ raced = 0
    /\ receipted = Cardinality({p \in Payloads : payloads[p].state = "cleared"})

\* What is cleared is old enough at the time, and is no receipt whose payload
\* is read back: kickoff replays, retry and produce failures, audit.
OnlyOldMirrorsCleared ==
    \A p \in Payloads : payloads[p].state = "cleared" =>
        p \notin Protected /\ payloads[p].at + Days < clock

\* Why nothing young is cleared and no batch is raced: one thread at a time
\* answers for the flag, the cutoff of a cycle lies as many days back as the
\* policy says, and the rows of a batch that was read are still there to clear.
CutoffPast(cutoff) == cutoff = 0 \/ cutoff + Days <= clock

CyclesSound ==
    /\ \A t, u \in Holders : t = u
    /\ \A t \in Threads :
          /\ calls[t].pc \in {"begin", "record", "spawn"} => CutoffPast(calls[t].cycle.cutoff)
          /\ calls[t].pc \in {"bodies", "receipts", "clear"} => CutoffPast(calls[t].cutoff)
          /\ calls[t].pc = "clear" => \A p \in calls[t].batch :
                p \notin Protected /\ OldAndKept(p, calls[t].cutoff)

Alive == \A t \in Threads : calls[t].pc \notin {"dead", "gone"}

\* As long as neither the pump, nor a cycle, nor a request has panicked over the
\* pool of connections, whatever has to go and was old enough on
\* the last day is cleared, whatever the budget, the batches and the manual
\* runs.
OldPayloadsCleared ==
    \A p \in Bodies \cup Mirrors :
        Alive /\ clock = MaxTime /\ OldAndKept(p, Cutoff(MaxTime))
            ~> ~Alive \/ payloads[p].state = "cleared"

\* One cycle at a time, within its budget, on what the policy lets go.
RetentionInv == TypeOK /\ FlagExact /\ OnlyOldMirrorsCleared /\ CyclesSound
=============================================================================
