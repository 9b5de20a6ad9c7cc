------------------------------- MODULE Produce -------------------------------
(***************************************************************************)
(* The produce stage of bos-app (crates/bos-app/src/produce.rs): a typed   *)
(* LLM call turns an accepted work item into a staged draft.  A produce    *)
(* runs in three phases - guards, the call with no lock held, stage - and  *)
(* is started by a click, by an operator note or by the auto-produce pump. *)
(* A process-local registry of in-flight slots keeps the starters apart; a *)
(* smart-draft run (packet_proposals) stages into the same table without   *)
(* it, and the unique active-draft index settles that race.                *)
(***************************************************************************)
EXTENDS Integers, Sequences, FiniteSets

CONSTANTS
    Slots,        \* items with their packet kind; the greater number is the newer
    Clicks,       \* idempotency keys of manual produces, each with its thread
    Pump,         \* the auto-produce pump thread
    Runs,         \* smart-draft runs
    Barren,       \* slots whose source never yields a draft ("no event")
    Proposable,   \* slots of a kind that smart-draft runs draft
    OptedIn,      \* slots of the categories whose policy says auto_produce
    MaxPerCycle,  \* BOS_AUTO_PRODUCE_MAX_PER_CYCLE
    ScanLimit,    \* accepted items a cycle looks at: 200, or the limit if greater
    MaxDrafts,    \* bound, per slot: drafts when a click, note or run starts
    MaxFaults     \* bound: failed LLM calls, panics and crashes

ASSUME SlotsAssumption ==
    Slots \subseteq Nat /\ IsFiniteSet(Slots) /\ Barren \cup OptedIn \cup Proposable \subseteq Slots
ASSUME StartersAssumption ==
    Pump \notin Clicks \cup Runs /\ Clicks \cap Runs = {}
ASSUME BoundsAssumption ==
    /\ MaxPerCycle \in Nat \ {0} /\ ScanLimit \in Nat /\ ScanLimit >= MaxPerCycle
    /\ MaxDrafts \in [Slots -> Nat] /\ MaxFaults \in Nat

VARIABLES
    accepted,   \* per slot: is its work item accepted?
    drafts,     \* per slot: status of its drafts, by attempt
    keys,       \* applied stage receipts
    inFlight,   \* produce_in_flight
    work,       \* per thread: its produce
    queue,      \* candidates the pump has collected and not yet come to
    runs,       \* packet_proposal_runs: slot and status of each run
    leaked,     \* history: slots whose thread panicked since the last start
    faults

vars == <<accepted, drafts, keys, inFlight, work, queue, runs, leaked, faults>>

Threads == Clicks \cup {Pump} \cup Runs
Statuses == {"staged", "approved", "rejected"}
Idle == [pc |-> "idle"]
NoRun == [status |-> "none"]

\* active_draft_for_item: rejected drafts are history.
Active(s) == \E i \in DOMAIN drafts[s] : drafts[s][i] # "rejected"

\* The draft id holds the attempt and is the primary key; the partial unique
\* index admits one draft that is not rejected.
InsertableWithoutIndex(s, attempt) == attempt >= 1

Insertable(s, attempt) == attempt > Len(drafts[s]) /\ ~Active(s)

\* draft_attempts + 1
NextAttempt(s) == Len(drafts[s]) + 1

StageKey(w, s) == [by |-> w, slot |-> s]

\* begin_produce
SlotFreeAlways(s) == s \in Slots

SlotFree(s) == s \notin inFlight

Kicked(s) == [pc |-> "kicked", slot |-> s]

-----------------------------------------------------------------------------
Init ==
    /\ accepted = [s \in Slots |-> FALSE]
    /\ drafts = [s \in Slots |-> <<>>]
    /\ keys = {}
    /\ inFlight = {}
    /\ work = [w \in Threads |-> Idle]
    /\ queue = <<>>
    /\ runs = [r \in Runs |-> NoRun]
    /\ leaked = {} /\ faults = 0

\* apply_item_action: the operator accepts, dismisses or reopens the item.
\* Its revision moves on, and a smart-draft run that is to accept the item at
\* the revision it was started with will meet a conflict.
Triage(s) ==
    /\ accepted' = [accepted EXCEPT ![s] = ~@]
    /\ work' = [w \in Threads |->
                  IF work[w].pc = "proposing" /\ work[w].slot = s /\ work[w].accept = "due"
                    THEN [work[w] EXCEPT !.accept = "conflict"] ELSE work[w]]
    /\ UNCHANGED <<drafts, keys, inFlight, queue, runs, faults, leaked>>

\* The operator approves or rejects the staged draft.
Decide(s) ==
    /\ \E i \in DOMAIN drafts[s], d \in {"approved", "rejected"} :
          /\ drafts[s][i] = "staged"
          /\ drafts' = [drafts EXCEPT ![s][i] = d]
    /\ UNCHANGED <<accepted, keys, inFlight, work, queue, runs, faults, leaked>>

\* run: a click passes the inline guards and claims the slot.
Click(w, s) ==
    /\ work[w].pc = "idle"
    /\ accepted[s] /\ ~Active(s) /\ Len(drafts[s]) < MaxDrafts[s]
    /\ SlotFree(s)
    /\ inFlight' = inFlight \cup {s}
    /\ work' = [work EXCEPT ![w] = Kicked(s)]
    /\ UNCHANGED <<accepted, drafts, keys, queue, runs, faults, leaked>>

\* kick_produce_for_kind: an operator note starts a produce with no guards.
NoteKick(w, s) ==
    /\ work[w].pc = "idle" /\ Len(drafts[s]) < MaxDrafts[s]
    /\ SlotFree(s)
    /\ inFlight' = inFlight \cup {s}
    /\ work' = [work EXCEPT ![w] = Kicked(s)]
    /\ UNCHANGED <<accepted, drafts, keys, queue, runs, faults, leaked>>

\* collect_auto_produce_candidates looks at the newest accepted items, whatever
\* their category and with or without drafts ...
Newer(s) == {t \in Slots : t > s /\ accepted[t]}

InWindow(s) == accepted[s] /\ Cardinality(Newer(s)) < ScanLimit

\* ... and takes those of opted-in categories that have no draft of any status
\* and are not covered by a running or completed smart-draft run.
RunsOf(s) == {r \in Runs : runs[r].status # "none" /\ runs[r].slot = s}

Candidate(s) ==
    /\ s \in OptedIn /\ accepted[s] /\ Len(drafts[s]) = 0
    /\ \A r \in RunsOf(s) : runs[r].status = "failed"

PumpScan ==
    LET candidates == {s \in Slots : InWindow(s) /\ Candidate(s)}
        size == IF Cardinality(candidates) < MaxPerCycle THEN Cardinality(candidates)
                ELSE MaxPerCycle
    IN  /\ work[Pump].pc = "idle" /\ queue = <<>>
        /\ candidates # {}
        /\ \E q \in [1..size -> candidates] :
              /\ \A i, j \in 1..size : i < j => q[i] > q[j]
              /\ \A s \in candidates : (\A i \in 1..size : q[i] # s)
                                           => \A i \in 1..size : q[i] > s
              /\ queue' = q
        /\ UNCHANGED <<accepted, drafts, keys, inFlight, work, runs, faults, leaked>>

\* run_auto_produce_cycle comes to its next candidate, and skips a slot that
\* a manual produce has claimed meanwhile.
PumpTake ==
    /\ work[Pump].pc = "idle" /\ queue # <<>>
    /\ queue' = Tail(queue)
    /\ IF SlotFree(Head(queue))
         THEN /\ inFlight' = inFlight \cup {Head(queue)}
              /\ work' = [work EXCEPT ![Pump] = Kicked(Head(queue))]
         ELSE UNCHANGED <<inFlight, work>>
    /\ UNCHANGED <<accepted, drafts, keys, runs, faults, leaked>>

Ending(w) == [pc |-> "ending", slot |-> work[w].slot]

\* produce_blocking, phase 1: the guards stop the produce, or an active draft
\* is its result.
Stopped(w) ==
    /\ work[w].pc = "kicked"
    /\ ~accepted[work[w].slot] \/ Active(work[w].slot)
    /\ work' = [work EXCEPT ![w] = Ending(w)]
    /\ UNCHANGED <<accepted, drafts, keys, inFlight, queue, runs, faults, leaked>>

\* Phase 1 passes: the attempt number is read and the LLM is called.
Ask(w) ==
    LET s == work[w].slot
    IN  /\ work[w].pc = "kicked"
        /\ accepted[s] /\ ~Active(s)
        /\ work' = [work EXCEPT ![w] = [pc |-> "asking", slot |-> s,
                                        attempt |-> NextAttempt(s)]]
        /\ UNCHANGED <<accepted, drafts, keys, inFlight, queue, runs, faults, leaked>>

\* flavor.stage: a key already applied is a replay and inserts nothing; a draft
\* that cannot be inserted lost a race.
Inserts(w, s) ==
    LET fresh == StageKey(w, s) \notin keys /\ Insertable(s, work[w].attempt)
    IN  /\ drafts' = IF fresh THEN [drafts EXCEPT ![s] = Append(@, "staged")] ELSE drafts
        /\ keys' = IF fresh THEN keys \cup {StageKey(w, s)} ELSE keys

\* Phase 3: stage.  Neither guard of phase 1 is looked at again.
Stage(w) ==
    /\ work[w].pc = "asking" /\ work[w].slot \notin Barren
    /\ Inserts(w, work[w].slot)
    /\ work' = [work EXCEPT ![w] = Ending(w)]
    /\ UNCHANGED <<accepted, inFlight, queue, runs, faults, leaked>>

\* The answer holds no draft: a failure receipt, and no draft row.
StageFails(w) ==
    /\ work[w].pc = "asking" /\ work[w].slot \in Barren
    /\ work' = [work EXCEPT ![w] = Ending(w)]
    /\ UNCHANGED <<accepted, drafts, keys, inFlight, queue, runs, faults, leaked>>

\* The LLM call fails, with nothing recorded in the draft table.
LlmFails(w) ==
    /\ work[w].pc = "asking" /\ faults < MaxFaults
    /\ faults' = faults + 1
    /\ work' = [work EXCEPT ![w] = Ending(w)]
    /\ UNCHANGED <<accepted, drafts, keys, inFlight, queue, runs, leaked>>

\* The slot stays claimed.
ReleasedNothing(w) == inFlight

\* end_produce
Released(w) == inFlight \ {work[w].slot}

End(w) ==
    /\ work[w].pc = "ending"
    /\ inFlight' = Released(w)
    /\ work' = [work EXCEPT ![w] = Idle]
    /\ UNCHANGED <<accepted, drafts, keys, queue, runs, faults, leaked>>

\* A run whose row says running while its worker is gone.
Orphaned(r) == runs[r].status = "running" /\ work[r].pc = "idle"

\* kickoff_smart_draft, for a kind that is proposal_enabled: no run of the slot
\* is completed or has a worker, and orphaned ones are failed as stale.  (The
\* code asks the latest run of the source whether it is completed; with two
\* runs that is the same.)  The item need not be accepted: the run will accept
\* it.  prepare_proposal_kind reads the attempt number.
RunStart(r, s) ==
    /\ s \in Proposable
    /\ work[r].pc = "idle" /\ runs[r] = NoRun
    /\ \A q \in RunsOf(s) : runs[q].status = "failed" \/ Orphaned(q)
    /\ ~Active(s) /\ Len(drafts[s]) < MaxDrafts[s]
    /\ runs' = [q \in Runs |-> IF q = r THEN [slot |-> s, status |-> "running"]
                                ELSE IF q \in RunsOf(s) THEN [runs[q] EXCEPT !.status = "failed"]
                                ELSE runs[q]]
    /\ work' = [work EXCEPT ![r] = [pc |-> "proposing", slot |-> s, attempt |-> NextAttempt(s),
                                    accept |-> IF accepted[s] THEN "done" ELSE "due"]]
    /\ UNCHANGED <<accepted, drafts, keys, inFlight, queue, faults, leaked>>

\* finish_no_spend_active_drafts: the drafts are there already.
RunNoSpend(r, s) ==
    /\ s \in Proposable
    /\ work[r].pc = "idle" /\ runs[r] = NoRun
    /\ \A q \in RunsOf(s) : runs[q].status # "completed"
    /\ Active(s)
    /\ runs' = [runs EXCEPT ![r] = [slot |-> s, status |-> "completed"]]
    /\ UNCHANGED <<accepted, drafts, keys, inFlight, work, queue, faults, leaked>>

Closing(r, status) == [pc |-> "closing", slot |-> work[r].slot, status |-> status]

\* system_accept_item, for an item that was not accepted at the start.
SystemAccepted(r) == [accepted EXCEPT ![work[r].slot] = @ \/ work[r].accept = "due"]

\* finish_successful_run: accept the item if it was not accepted, then stage.
\* An item accepted at the start and dismissed since is not looked at again.
RunStage(r) ==
    /\ work[r].pc = "proposing" /\ work[r].accept # "conflict"
    /\ work[r].slot \notin Barren
    /\ accepted' = SystemAccepted(r)
    /\ Inserts(r, work[r].slot)
    /\ work' = [work EXCEPT ![r] = Closing(r, "completed")]
    /\ UNCHANGED <<inFlight, queue, runs, faults, leaked>>

\* The model drafts nothing for the kind and the run completes all the same;
\* with low confidence (finish_low_confidence_run) the item is not accepted.
RunDeclines(r) ==
    /\ work[r].pc = "proposing"
    /\ \/ work[r].accept # "conflict" /\ accepted' = SystemAccepted(r)
       \/ UNCHANGED accepted
    /\ work' = [work EXCEPT ![r] = Closing(r, "completed")]
    /\ UNCHANGED <<drafts, keys, inFlight, queue, runs, faults, leaked>>

\* The item's revision has moved, or the LLM call has failed: finish_failed_run.
RunFails(r) ==
    /\ work[r].pc = "proposing"
    /\ \/ work[r].accept = "conflict" /\ UNCHANGED faults
       \/ faults < MaxFaults /\ faults' = faults + 1
    /\ work' = [work EXCEPT ![r] = Closing(r, "failed")]
    /\ UNCHANGED <<accepted, drafts, keys, inFlight, queue, runs, leaked>>

\* update_run
RunEnd(r) ==
    /\ work[r].pc = "closing"
    /\ runs' = [runs EXCEPT ![r].status = work[r].status]
    /\ work' = [work EXCEPT ![r] = Idle]
    /\ UNCHANGED <<accepted, drafts, keys, inFlight, queue, faults, leaked>>

\* maybe_fail_stale_running_run, when somebody asks for the state of the run.
RunStale(r) ==
    /\ Orphaned(r)
    /\ runs' = [runs EXCEPT ![r].status = "failed"]
    /\ UNCHANGED <<accepted, drafts, keys, inFlight, work, queue, faults, leaked>>

\* PersistencePool::lock panics when the pool is exhausted: the thread is gone,
\* the slot stays claimed and the run stays running.
Panic(w) ==
    /\ faults < MaxFaults
    /\ work[w].pc \in {"kicked", "asking", "proposing"}
    /\ faults' = faults + 1
    /\ leaked' = IF w \in Runs THEN leaked ELSE leaked \cup {work[w].slot}
    /\ work' = [work EXCEPT ![w] = [pc |-> IF w = Pump THEN "dead" ELSE "idle"]]
    /\ UNCHANGED <<accepted, drafts, keys, inFlight, queue, runs>>

\* The process dies and restarts: the registry is gone, the tables stay.
Crash ==
    /\ faults < MaxFaults
    /\ faults' = faults + 1
    /\ inFlight' = {} /\ leaked' = {}
    /\ work' = [w \in Threads |-> Idle]
    /\ queue' = <<>>
    /\ UNCHANGED <<accepted, drafts, keys, runs>>

Next ==
    \/ PumpScan \/ PumpTake \/ Crash
    \/ \E s \in Slots : Triage(s) \/ Decide(s)
    \/ \E w \in Clicks, s \in Slots : Click(w, s) \/ NoteKick(w, s)
    \/ \E r \in Runs, s \in Slots : RunStart(r, s) \/ RunNoSpend(r, s)
    \/ \E r \in Runs : \/ RunStage(r) \/ RunDeclines(r) \/ RunFails(r) \/ RunEnd(r)
                       \/ RunStale(r)
    \/ \E w \in Threads : \/ Stopped(w) \/ Ask(w) \/ Stage(w) \/ StageFails(w)
                          \/ LlmFails(w) \/ End(w) \/ Panic(w)

Spec == Init /\ [][Next]_vars

(***************************************************************************)
(* Threads run, the pump loops for ever and the LLM client has a timeout.  *)
(* Operators and faults are under no obligation.                           *)
(***************************************************************************)
Fairness ==
    /\ WF_vars(PumpScan) /\ WF_vars(PumpTake)
    /\ \A w \in Threads : WF_vars(Stopped(w) \/ Ask(w) \/ Stage(w) \/ StageFails(w) \/ End(w))
    /\ \A r \in Runs : WF_vars(RunStage(r) \/ RunDeclines(r) \/ RunFails(r) \/ RunEnd(r))

FairSpec == Spec /\ Fairness

-----------------------------------------------------------------------------
Work == [pc : {"idle", "dead"}]
        \cup [pc : {"kicked", "ending"}, slot : Slots]
        \cup [pc : {"asking"}, slot : Slots, attempt : Nat \ {0}]
        \cup [pc : {"proposing"}, slot : Slots, attempt : Nat \ {0},
              accept : {"done", "due", "conflict"}]
        \cup [pc : {"closing"}, slot : Slots, status : {"completed", "failed"}]

\* Types of every variable; attempts count from 1.
TypeOK ==
    /\ accepted \in [Slots -> BOOLEAN]
    /\ drafts \in [Slots -> Seq(Statuses)]
    /\ keys \subseteq [by : Threads, slot : Slots]
    /\ inFlight \subseteq Slots
    /\ work \in [Threads -> Work]
    /\ queue \in Seq(Slots)
    /\ runs \in [Runs -> {NoRun} \cup [slot : Slots, status : {"running", "completed", "failed"}]]
    /\ leaked \subseteq inFlight
    /\ faults \in 0..MaxFaults

\* One staged or approved draft per item and kind, whoever stages it and
\* however clicks, pump, smart-draft runs and rejections interleave.
OneActiveDraft ==
    \A s \in Slots : \A i, j \in DOMAIN drafts[s] :
        drafts[s][i] # "rejected" /\ drafts[s][j] # "rejected" => i = j

Producing(w) == work[w].pc \in {"kicked", "asking", "ending"}

\* "the caller skips instead of double-spending the LLM": among the threads
\* that go through begin_produce, one at a time produces for a slot.
NoDoubleSpend ==
    \A v, w \in Threads \ Runs :
        Producing(v) /\ Producing(w) /\ work[v].slot = work[w].slot => v = w

\* "False = one is already running": a claimed slot has a running produce, so
\* no click is turned away for nothing, unless the slot's thread panicked.
InFlightIsRunning ==
    \A s \in inFlight \ leaked : \E w \in Threads \ Runs : Producing(w) /\ work[w].slot = s

\* Why the registry keeps the starters apart: a produce under way has its slot
\* in the registry, where no panic has left it behind; and a smart-draft run,
\* which does without the registry, has its row.
ProducersHoldSlots ==
    /\ \A w \in Threads \ Runs :
          /\ work[w].pc \notin {"proposing", "closing"}
          /\ Producing(w) => work[w].slot \in inFlight \ leaked
    /\ \A r \in Runs :
          /\ work[r].pc \in {"idle", "proposing", "closing"}
          /\ work[r].pc # "idle" => runs[r] # NoRun

\* Newer candidates that never yield a draft take up the limit of every cycle.
InReach(s) ==
    /\ InWindow(s)
    /\ Cardinality({t \in Newer(s) \cap Barren : Candidate(t)}) < MaxPerCycle

TriageSettles == <>[][UNCHANGED accepted]_vars

\* "accepted items in categories whose policy opted in get their first drafts
\* produced automatically", more of them than a cycle has room for too: once
\* the operators stop changing their minds, if no panic has left the pump dead
\* or a slot claimed and no smart-draft run stands for the item - and as long
\* as the item is among the newest that a cycle looks at, and those that never
\* yield a draft leave it room.
FirstDraftsProduced ==
    TriageSettles /\ <>[](leaked = {}) => \A s \in Slots \ Barren :
        <>[]InReach(s) => (Candidate(s) ~> ~Candidate(s))

\* The slot registry tells the truth, in well-typed states.
SlotInv == TypeOK /\ InFlightIsRunning /\ ProducersHoldSlots
=============================================================================
