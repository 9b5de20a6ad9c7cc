------------------------------ MODULE StoreCore ------------------------------
(***************************************************************************)
(* The receipt spine of bos-app (crates/bos-app/src/store_core.rs): the    *)
(* one path by which slices change state.  A call of `mutate` runs         *)
(*                                                                         *)
(*   replay check -> revision check -> domain write -> revision bump ->    *)
(*   receipt                                                               *)
(*                                                                         *)
(* in one BEGIN IMMEDIATE transaction, so those outcomes are one step      *)
(* each.  A domain write that fails rolls that transaction back and        *)
(* records the failure in a second one: between the two, other             *)
(* connections of the pool run, the process may crash and SQLite may       *)
(* answer "busy".                                                          *)
(***************************************************************************)
EXTENDS Integers, Sequences

CONSTANTS
    Writers,      \* concurrent callers, each with a pooled connection
    Entities,     \* (entity_kind, entity_id) pairs of one client
    Keys,         \* idempotency keys: client-wide, shared by all entities
    Seconds,      \* what a domain write may do to a second entity
    NoEntity,     \* "this mutation touches no second entity"
    MaxReceipts   \* bound: the log stops growing here (TLC only)

SecondKinds == {"none", "advance", "initialize"}

ASSUME SecondsAssumption == Seconds \subseteq SecondKinds
ASSUME NoEntityAssumption == NoEntity \notin Entities
ASSUME MaxReceiptsAssumption == MaxReceipts \in Nat

VARIABLES
    receipts,     \* table receipts; the index is the receipt id
    revision,     \* table entity_revisions; NoRow when there is no row
    rows,         \* domain tables: committed writes per entity
    calls         \* per caller: where its call of mutate stands

vars == <<receipts, revision, rows, calls>>

(***************************************************************************)
(* Revisions start at 1, so 0 stands for "no row".  expected_revision is   *)
(* an Option<u64>: None is Unchecked.                                      *)
(***************************************************************************)
NoRow == 0
Unchecked == -1

Outcomes == {"applied", "replayed_idempotent", "revision_conflict", "failed"}

\* base is history: how many writes of the entity the caller had seen.
Request == [entity : Entities, key : Keys, expected : Int, base : Nat,
            second : SecondKinds,
            other : Entities \cup {NoEntity}, otherExpected : Nat]

\* other/otherAfter/base/over are history: the second entity the domain
\* write touched, and the writes the caller had seen and those it replaced.
Receipt == [entity : Entities, key : Keys, outcome : Outcomes,
            before : Nat, after : Nat,
            other : Entities \cup {NoEntity}, otherAfter : Nat,
            conditional : BOOLEAN, base : Nat, over : Nat]

(***************************************************************************)
(* Helpers.                                                                *)
(***************************************************************************)
IsApplied(i, k) == receipts[i].key = k /\ receipts[i].outcome = "applied"

\* Looks at the newest receipt of the log only.
AppliedReceiptsNewestOnly(k) ==
    {i \in DOMAIN receipts : i = Len(receipts) /\ IsApplied(i, k)}

\* find_applied_receipt
AppliedReceipts(k) == {i \in DOMAIN receipts : IsApplied(i, k)}

\* Answers a replay with the entity's revision of now, not the one settled.
PlainReceiptCurrent(req, outcome, rev) ==
    [entity |-> req.entity, key |-> req.key, outcome |-> outcome,
     before |-> rev, after |-> revision[req.entity], other |-> NoEntity,
     otherAfter |-> NoRow, conditional |-> FALSE, base |-> 0, over |-> 0]

\* insert_receipt of a request whose domain write did not take effect.
PlainReceipt(req, outcome, rev) ==
    [entity |-> req.entity, key |-> req.key, outcome |-> outcome,
     before |-> rev, after |-> rev, other |-> NoEntity, otherAfter |-> NoRow,
     conditional |-> FALSE, base |-> 0, over |-> 0]

Room == Len(receipts) < MaxReceipts

ConflictsOnlyWithoutRow(req) ==
    req.expected # Unchecked /\ revision[req.entity] = NoRow

\* The revision check: Some(expected) must equal an existing row's revision.
Conflicts(req) ==
    /\ req.expected # Unchecked
    /\ revision[req.entity] = NoRow \/ revision[req.entity] # req.expected

SecondEntityUnchecked(req) == req.second \in SecondKinds

\* advance_revision_within and initialize_revision_within, as the guard under
\* which the domain write succeeds ...
SecondEntityOk(req) ==
    /\ req.second = "advance" => /\ revision[req.other] # NoRow
                                 /\ revision[req.other] = req.otherExpected
    /\ req.second = "initialize" => revision[req.other] = NoRow

\* ... and as the revision they leave behind: expected + 1, or 1.
SecondRevision(req) ==
    IF req.second = "advance" THEN req.otherExpected + 1
    ELSE IF req.second = "initialize" THEN 1
    ELSE NoRow

\* insert_receipt of a mutation that took effect.
AppliedReceipt(req) ==
    [entity |-> req.entity, key |-> req.key, outcome |-> "applied",
     before |-> revision[req.entity], after |-> revision[req.entity] + 1,
     other |-> req.other, otherAfter |-> SecondRevision(req),
     conditional |-> req.expected # Unchecked,
     base |-> req.base, over |-> rows[req.entity]]

Idle == [pc |-> "idle"]

-----------------------------------------------------------------------------
Init ==
    /\ receipts = <<>>
    /\ revision = [e \in Entities |-> NoRow]
    /\ rows = [e \in Entities |-> 0]
    /\ calls = [w \in Writers |-> Idle]

(***************************************************************************)
(* A slice prepares a MutationRequest from what it has just read; the      *)
(* transaction starts later.  A caller may reuse any key: a retried HTTP   *)
(* request, or a second one racing it.                                     *)
(***************************************************************************)
Prepare(w) ==
    /\ calls[w].pc = "idle"
    /\ \E e \in Entities, k \in Keys, checked \in BOOLEAN,
          second \in Seconds :
       \E o \in IF second = "none" THEN {NoEntity} ELSE Entities \ {e} :
          calls' = [calls EXCEPT ![w] =
              [pc |-> "called",
               req |-> [entity |-> e, key |-> k,
                        expected |-> IF checked THEN revision[e] ELSE Unchecked,
                        base |-> rows[e], second |-> second, other |-> o,
                        otherExpected |-> IF o = NoEntity THEN NoRow
                                                         ELSE revision[o]]]]
    /\ UNCHANGED <<receipts, revision, rows>>

(***************************************************************************)
(* The first transaction of mutate, by outcome.                            *)
(***************************************************************************)
Replay(w) ==
    /\ calls[w].pc = "called" /\ Room
    /\ \E i \in AppliedReceipts(calls[w].req.key) :
          receipts' = Append(receipts,
              PlainReceipt(calls[w].req, "replayed_idempotent", receipts[i].after))
    /\ calls' = [calls EXCEPT ![w] = Idle]
    /\ UNCHANGED <<revision, rows>>

RevisionConflict(w) ==
    LET req == calls[w].req
        current == revision[req.entity]
    IN  /\ calls[w].pc = "called" /\ Room
        /\ AppliedReceipts(req.key) = {}
        /\ Conflicts(req)
        /\ receipts' = Append(receipts, PlainReceipt(req, "revision_conflict", current))
        /\ calls' = [calls EXCEPT ![w] = Idle]
        /\ UNCHANGED <<revision, rows>>

Apply(w) ==
    LET req == calls[w].req
        next == revision[req.entity] + 1
    IN  /\ calls[w].pc = "called" /\ Room
        /\ AppliedReceipts(req.key) = {}
        /\ ~Conflicts(req)
        /\ SecondEntityOk(req)
        /\ rows' = [e \in Entities |-> IF e \in {req.entity, req.other}
                                         THEN rows[e] + 1 ELSE rows[e]]
        /\ revision' = [e \in Entities |->
                            IF e = req.entity THEN next
                            ELSE IF e = req.other THEN SecondRevision(req)
                            ELSE revision[e]]
        /\ receipts' = Append(receipts, AppliedReceipt(req))
        /\ calls' = [calls EXCEPT ![w] = Idle]

\* The domain write fails: by its own rules, or because a second entity's
\* revision moved.  The transaction is dropped; the revision read in it is
\* kept for the failure receipt.
RollBack(w) ==
    LET req == calls[w].req
    IN  /\ calls[w].pc = "called"
        /\ AppliedReceipts(req.key) = {}
        /\ ~Conflicts(req)
        /\ calls' = [calls EXCEPT ![w] = [pc |-> "rolled_back", req |-> req,
                                          seen |-> revision[req.entity]]]
        /\ UNCHANGED <<receipts, revision, rows>>

(***************************************************************************)
(* The second transaction of a failed mutate: the failure receipt, with    *)
(* the revision seen by the first.                                         *)
(***************************************************************************)
RecordFailure(w) ==
    /\ calls[w].pc = "rolled_back" /\ Room
    /\ receipts' = Append(receipts, PlainReceipt(calls[w].req, "failed", calls[w].seen))
    /\ calls' = [calls EXCEPT ![w] = Idle]
    /\ UNCHANGED <<revision, rows>>

\* record_failed_receipt: a background stage failed before any domain write.
RecordFailedReceipt(w) ==
    /\ calls[w].pc = "called" /\ Room
    /\ receipts' = Append(receipts,
          PlainReceipt(calls[w].req, "failed", revision[calls[w].req.entity]))
    /\ calls' = [calls EXCEPT ![w] = Idle]
    /\ UNCHANGED <<revision, rows>>

\* Either BEGIN IMMEDIATE outlives busy_timeout: StoreError::Sqlite.
Busy(w) ==
    /\ calls[w].pc \in {"called", "rolled_back"}
    /\ calls' = [calls EXCEPT ![w] = Idle]
    /\ UNCHANGED <<receipts, revision, rows>>

\* The process dies: committed transactions stay, every call in flight is lost.
Crash ==
    /\ \E w \in Writers : calls[w].pc # "idle"
    /\ calls' = [w \in Writers |-> Idle]
    /\ UNCHANGED <<receipts, revision, rows>>

Next ==
    \/ \E w \in Writers : \/ Prepare(w) \/ Replay(w) \/ RevisionConflict(w)
                          \/ Apply(w) \/ RollBack(w) \/ RecordFailure(w)
                          \/ RecordFailedReceipt(w) \/ Busy(w)
    \/ Crash

Spec == Init /\ [][Next]_vars

-----------------------------------------------------------------------------
Call == [pc : {"idle"}]
        \cup [pc : {"called"}, req : Request]
        \cup [pc : {"rolled_back"}, req : Request, seen : Nat]

\* Types of every variable, and what every prepared request satisfies: a
\* second entity exactly when the write touches one, different from the first.
TypeOK ==
    /\ receipts \in Seq(Receipt)
    /\ revision \in [Entities -> Nat]
    /\ rows \in [Entities -> Nat]
    /\ calls \in [Writers -> Call]
    /\ \A w \in Writers : calls[w].pc # "idle" =>
          /\ calls[w].req.other # calls[w].req.entity
          /\ (calls[w].req.second = "none") <=> (calls[w].req.other = NoEntity)

\* An idempotency key takes effect at most once, however its requests race,
\* retry, fail or lose their process (replay check of mutate).
OneAppliedPerKey ==
    \A i, j \in DOMAIN receipts :
        /\ receipts[i].outcome = "applied"
        /\ receipts[j].outcome = "applied"
        /\ receipts[i].key = receipts[j].key
        => i = j

\* Applied receipt i changed entity e, leaving it at revision RevisionLeft.
Touches(i, e) ==
    receipts[i].outcome = "applied" /\ e \in {receipts[i].entity, receipts[i].other}

RevisionLeft(i, e) ==
    IF receipts[i].entity = e THEN receipts[i].after ELSE receipts[i].otherAfter

\* "A slice cannot mutate state without producing an audit record": every
\* revision of every entity was produced by exactly one applied receipt, and
\* the domain tables hold exactly the writes those receipts stand for.
AuditTrailComplete ==
    \A e \in Entities :
        /\ rows[e] = revision[e]
        /\ \A i \in DOMAIN receipts :
              Touches(i, e) => RevisionLeft(i, e) \in 1..revision[e]
        /\ \A r \in 1..revision[e] : \E i \in DOMAIN receipts :
              Touches(i, e) /\ RevisionLeft(i, e) = r
        /\ \A i, j \in DOMAIN receipts :
              /\ Touches(i, e) /\ Touches(j, e)
              /\ RevisionLeft(i, e) = RevisionLeft(j, e)
              => i = j

\* A write made under Some(expected) replaced exactly the state its caller had
\* read: optimistic concurrency loses no update.
NoLostUpdate ==
    \A i \in DOMAIN receipts :
        receipts[i].outcome = "applied" /\ receipts[i].conditional
            => receipts[i].base = receipts[i].over

\* Every caller that was told a key succeeded - first time or as a replay,
\* before or after a crash - was told the same revision.
SuccessAnswersAgree ==
    \A i, j \in DOMAIN receipts :
        /\ receipts[i].key = receipts[j].key
        /\ receipts[i].outcome \in {"applied", "replayed_idempotent"}
        /\ receipts[j].outcome \in {"applied", "replayed_idempotent"}
        => receipts[i].after = receipts[j].after

\* The revision a key's mutation was applied at, NoRow if it has not been.
AppliedRevision(k) ==
    IF AppliedReceipts(k) = {} THEN NoRow
    ELSE receipts[CHOOSE i \in AppliedReceipts(k) : TRUE].after

Ledger == INSTANCE EntityLedger WITH
             version <- revision, settled <- [k \in Keys |-> AppliedRevision(k)]

\* mutate implements the exactly-once versioned store: replays, conflicts,
\* rollbacks and crashes are stuttering steps of EntityLedger.
LedgerRefined == Ledger!Spec

\* What the invariants above rest on: a replay repeats the revision of an
\* applied receipt of its key, and a caller that read a revision read the
\* rows that revision stands for.
SpineSupport ==
    /\ \A j \in DOMAIN receipts : receipts[j].outcome = "replayed_idempotent" =>
          \E i \in DOMAIN receipts : /\ IsApplied(i, receipts[j].key)
                                     /\ receipts[i].after = receipts[j].after
    /\ \A w \in Writers : calls[w].pc = "called" =>
          \/ calls[w].req.expected = Unchecked
          \/ calls[w].req.expected = calls[w].req.base

SpineInv == OneAppliedPerKey /\ AuditTrailComplete /\ NoLostUpdate /\ SpineSupport
=============================================================================
