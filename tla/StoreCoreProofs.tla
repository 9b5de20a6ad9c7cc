--------------------------- MODULE StoreCoreProofs ---------------------------
(***************************************************************************)
(* Safety of the receipt spine for any number of callers, entities and     *)
(* idempotency keys and a log of any length.                               *)
(***************************************************************************)
EXTENDS StoreCore, TLAPS

\* Every receipt mutate inserts is a Receipt, whatever the outcome.
LEMMA PlainReceiptType ==
    ASSUME NEW req \in Request, NEW o \in Outcomes, NEW rev \in Nat
    PROVE  PlainReceipt(req, o, rev) \in Receipt
BY NoEntityAssumption DEF PlainReceipt, Request, Receipt, NoRow

\* A caller that has a request in flight holds a well-typed one.
LEMMA CallFields ==
    ASSUME TypeOK, NEW w \in Writers
    PROVE  /\ calls[w].pc \in {"idle", "called", "rolled_back"}
           /\ calls[w].pc # "idle" => calls[w].req \in Request
           /\ calls[w].pc = "rolled_back" => calls[w].seen \in Nat
BY DEF TypeOK, Call

\* The revision left on a second entity is a revision.
LEMMA SecondRevisionType ==
    ASSUME NEW req \in Request
    PROVE  SecondRevision(req) \in Nat
BY DEF SecondRevision, Request, SecondKinds, NoRow

\* So is the receipt of an applied mutation.
LEMMA AppliedReceiptType ==
    ASSUME TypeOK, NEW req \in Request
    PROVE  AppliedReceipt(req) \in Receipt
<1>1. req.entity \in Entities /\ SecondRevision(req) \in Nat
  BY SecondRevisionType DEF Request
<1>2. revision[req.entity] \in Nat /\ rows[req.entity] \in Nat
  BY <1>1 DEF TypeOK
<1>3. QED
  BY <1>1, <1>2 DEF AppliedReceipt, Receipt, Request, Outcomes

\* Type correctness of the spine: mutate only ever writes rows of the tables'
\* shape and holds well-formed requests.
THEOREM TypeCorrect == Spec => []TypeOK
<1>1. Init => TypeOK
  BY DEF Init, TypeOK, Call, Idle, NoRow
<1>2. TypeOK /\ [Next]_vars => TypeOK'
  <2> SUFFICES ASSUME TypeOK, [Next]_vars PROVE TypeOK'
    OBVIOUS
  <2>1. CASE UNCHANGED vars
    BY <2>1 DEF vars, TypeOK
  <2>2. ASSUME NEW w \in Writers, Prepare(w) PROVE TypeOK'
    <3>1. PICK e \in Entities, k \in Keys, checked \in BOOLEAN, second \in Seconds :
             \E o \in IF second = "none" THEN {NoEntity} ELSE Entities \ {e} :
             calls' = [calls EXCEPT ![w] =
              [pc |-> "called",
               req |-> [entity |-> e, key |-> k,
                        expected |-> IF checked THEN revision[e] ELSE Unchecked,
                        base |-> rows[e], second |-> second, other |-> o,
                        otherExpected |-> IF o = NoEntity THEN NoRow
                                                         ELSE revision[o]]]]
      BY <2>2 DEF Prepare
    <3>2. PICK o \in IF second = "none" THEN {NoEntity} ELSE Entities \ {e} :
             calls' = [calls EXCEPT ![w] =
              [pc |-> "called",
               req |-> [entity |-> e, key |-> k,
                        expected |-> IF checked THEN revision[e] ELSE Unchecked,
                        base |-> rows[e], second |-> second, other |-> o,
                        otherExpected |-> IF o = NoEntity THEN NoRow
                                                         ELSE revision[o]]]]
      BY <3>1
    <3> DEFINE req == [entity |-> e, key |-> k,
                        expected |-> IF checked THEN revision[e] ELSE Unchecked,
                        base |-> rows[e], second |-> second, other |-> o,
                        otherExpected |-> IF o = NoEntity THEN NoRow
                                                         ELSE revision[o]]
    <3>3. /\ o \in Entities \cup {NoEntity}
          /\ o # e
          /\ (second = "none") <=> (o = NoEntity)
      BY NoEntityAssumption
    <3>4. req \in Request
      BY <3>3, SecondsAssumption DEF Request, TypeOK, Unchecked, NoRow
    <3>5. [pc |-> "called", req |-> req] \in Call
      BY <3>4 DEF Call
    <3>6. calls' = [calls EXCEPT ![w] = [pc |-> "called", req |-> req]]
      BY <3>2
    <3> HIDE DEF req
    <3>7. calls' \in [Writers -> Call]
      BY <3>5, <3>6 DEF TypeOK
    <3>8. req.other # req.entity /\ ((req.second = "none") <=> (req.other = NoEntity))
      BY <3>3 DEF req
    <3>9. QED
      BY <2>2, <3>6, <3>7, <3>8 DEF TypeOK, Prepare
  <2>3. ASSUME NEW w \in Writers, calls' = [calls EXCEPT ![w] = Idle]
        PROVE  /\ calls' \in [Writers -> Call]
               /\ \A v \in Writers : calls'[v].pc # "idle" =>
                     /\ calls'[v].req.other # calls'[v].req.entity
                     /\ (calls'[v].req.second = "none") <=> (calls'[v].req.other = NoEntity)
    BY <2>3 DEF TypeOK, Call, Idle
  <2>4. ASSUME NEW w \in Writers, Replay(w) PROVE TypeOK'
    <3>1. PICK i \in AppliedReceipts(calls[w].req.key) :
             receipts' = Append(receipts, PlainReceipt(calls[w].req,
                             "replayed_idempotent", receipts[i].after))
      BY <2>4 DEF Replay
    <3>2. receipts[i].after \in Nat
      <4>1. receipts[i] \in Receipt
        BY DEF AppliedReceipts, TypeOK
      <4>2. QED
        BY <4>1 DEF Receipt
    <3>3. receipts' \in Seq(Receipt)
      <4>1. calls[w].req \in Request
        BY <2>4, CallFields DEF Replay
      <4>2. PlainReceipt(calls[w].req, "replayed_idempotent", receipts[i].after) \in Receipt
        BY <3>2, <4>1, PlainReceiptType DEF Outcomes
      <4>3. QED
        BY <3>1, <4>2 DEF TypeOK
    <3>4. QED
      BY <2>3, <2>4, <3>3 DEF Replay, TypeOK
  <2>5. ASSUME NEW w \in Writers, RevisionConflict(w) PROVE TypeOK'
    <3>1. calls[w].req \in Request
      BY <2>5, CallFields DEF RevisionConflict
    <3>2. revision[calls[w].req.entity] \in Nat
      BY <3>1 DEF TypeOK, Request
    <3>3. receipts' \in Seq(Receipt)
      BY <2>5, <3>1, <3>2, PlainReceiptType DEF RevisionConflict, Outcomes, TypeOK
    <3>4. QED
      BY <2>3, <2>5, <3>3 DEF RevisionConflict, TypeOK
  <2>6. ASSUME NEW w \in Writers, Apply(w) PROVE TypeOK'
    <3>1. calls[w].req \in Request
      BY <2>6, CallFields DEF Apply
    <3>2. /\ AppliedReceipt(calls[w].req) \in Receipt
          /\ SecondRevision(calls[w].req) \in Nat
          /\ revision[calls[w].req.entity] \in Nat
      BY <3>1, AppliedReceiptType, SecondRevisionType DEF TypeOK, Request
    <3>3. rows' \in [Entities -> Nat] /\ revision' \in [Entities -> Nat]
      BY <2>6, <3>2 DEF Apply, TypeOK
    <3>4. receipts' \in Seq(Receipt)
      BY <2>6, <3>2 DEF Apply, TypeOK
    <3>5. QED
      BY <2>3, <2>6, <3>3, <3>4 DEF Apply, TypeOK
  <2>7. ASSUME NEW w \in Writers, RollBack(w) PROVE TypeOK'
    <3>1. calls[w].req \in Request
      BY <2>7, CallFields DEF RollBack
    <3>2. [pc |-> "rolled_back", req |-> calls[w].req,
           seen |-> revision[calls[w].req.entity]] \in Call
      BY <3>1 DEF Call, TypeOK, Request
    <3>3. QED
      BY <2>7, <3>2 DEF RollBack, TypeOK
  <2>8. ASSUME NEW w \in Writers, RecordFailure(w) PROVE TypeOK'
    <3>1. calls[w].req \in Request /\ calls[w].seen \in Nat
      BY <2>8, CallFields DEF RecordFailure
    <3>2. receipts' \in Seq(Receipt)
      BY <2>8, <3>1, PlainReceiptType DEF RecordFailure, Outcomes, TypeOK
    <3>3. QED
      BY <2>3, <2>8, <3>2 DEF RecordFailure, TypeOK
  <2>9. ASSUME NEW w \in Writers, RecordFailedReceipt(w) PROVE TypeOK'
    <3>1. calls[w].req \in Request
      BY <2>9, CallFields DEF RecordFailedReceipt
    <3>2. revision[calls[w].req.entity] \in Nat
      BY <3>1 DEF TypeOK, Request
    <3>3. receipts' \in Seq(Receipt)
      BY <2>9, <3>1, <3>2, PlainReceiptType DEF RecordFailedReceipt, Outcomes, TypeOK
    <3>4. QED
      BY <2>3, <2>9, <3>3 DEF RecordFailedReceipt, TypeOK
  <2>10. ASSUME NEW w \in Writers, Busy(w) PROVE TypeOK'
    BY <2>3, <2>10 DEF Busy, TypeOK
  <2>11. CASE Crash
    BY <2>11 DEF Crash, TypeOK, Call, Idle
  <2>12. QED
    BY <2>1, <2>2, <2>4, <2>5, <2>6, <2>7, <2>8, <2>9, <2>10, <2>11 DEF Next
<1>3. QED
  BY <1>1, <1>2, PTL DEF Spec

-----------------------------------------------------------------------------
(***************************************************************************)
(* The inductive step.  A step appends at most one receipt.  If it is not  *)
(* an applied one, revisions and rows stay, and only the replay clause     *)
(* needs an argument; if it is, its key is fresh and it produces the next  *)
(* revision of the one or two entities it touches.                         *)
(***************************************************************************)

\* What appending does to a sequence, index by index.
LEMMA AppendFacts ==
    ASSUME NEW S, NEW s \in Seq(S), NEW x \in S, NEW t, t = Append(s, x)
    PROVE  \E n : /\ DOMAIN t = DOMAIN s \cup {n}
                  /\ n \notin DOMAIN s
                  /\ \A i \in DOMAIN s : t[i] = s[i]
                  /\ t[n] = x
<1>1. /\ DOMAIN t = DOMAIN s \cup {Len(s) + 1}
      /\ Len(s) + 1 \notin DOMAIN s
      /\ \A i \in DOMAIN s : t[i] = s[i]
      /\ t[Len(s) + 1] = x
  OBVIOUS
<1>2. QED
  BY <1>1

\* A receipt that is not an applied one disturbs no audit invariant.
LEMMA InertReceipt ==
    ASSUME TypeOK, OneAppliedPerKey, AuditTrailComplete, NoLostUpdate,
           NEW x \in Receipt, x.outcome # "applied",
           receipts' = Append(receipts, x), UNCHANGED <<revision, rows>>
    PROVE  OneAppliedPerKey' /\ AuditTrailComplete' /\ NoLostUpdate'
<1>1. PICK n : /\ DOMAIN receipts' = DOMAIN receipts \cup {n}
               /\ n \notin DOMAIN receipts
               /\ \A i \in DOMAIN receipts : receipts'[i] = receipts[i]
               /\ receipts'[n] = x
  <2>1. receipts \in Seq(Receipt)
    BY DEF TypeOK
  <2>2. QED
    BY <2>1, AppendFacts
<1>2. OneAppliedPerKey'
  BY <1>1 DEF OneAppliedPerKey
<1>3. NoLostUpdate'
  BY <1>1 DEF NoLostUpdate
<1>4. AuditTrailComplete'
  <2>1. \A e \in Entities : ~Touches(n, e)'
    BY <1>1 DEF Touches
  <2>2. \A e \in Entities : \A i \in DOMAIN receipts :
           /\ Touches(i, e)' <=> Touches(i, e)
           /\ RevisionLeft(i, e)' = RevisionLeft(i, e)
    BY <1>1 DEF Touches, RevisionLeft
  <2>3. QED
    BY <1>1, <2>1, <2>2 DEF AuditTrailComplete
<1>5. QED
  BY <1>2, <1>3, <1>4

\* An applied receipt of a fresh key extends the audit trail by one revision
\* of each entity it touches.
LEMMA ApplyPreserves ==
    ASSUME TypeOK, SpineInv, NEW w \in Writers, Apply(w)
    PROVE  OneAppliedPerKey' /\ AuditTrailComplete' /\ NoLostUpdate'
<1>. PICK req : req = calls[w].req
  OBVIOUS
<1>. PICK x : x = AppliedReceipt(req)
  OBVIOUS
<1>1. req \in Request /\ x \in Receipt
  BY CallFields, AppliedReceiptType DEF Apply
<1>2. PICK n : /\ DOMAIN receipts' = DOMAIN receipts \cup {n}
               /\ n \notin DOMAIN receipts
               /\ \A i \in DOMAIN receipts : receipts'[i] = receipts[i]
               /\ receipts'[n] = x
  <2>1. receipts' = Append(receipts, x) /\ receipts \in Seq(Receipt)
    BY DEF Apply, TypeOK
  <2>2. QED
    BY <1>1, <2>1, AppendFacts
<1>3. /\ x.outcome = "applied" /\ x.key = req.key
      /\ x.entity = req.entity /\ x.other = req.other
      /\ x.after = revision[req.entity] + 1 /\ x.otherAfter = SecondRevision(req)
      /\ x.conditional = (req.expected # Unchecked)
      /\ x.base = req.base /\ x.over = rows[req.entity]
  BY DEF AppliedReceipt
<1>4. /\ req.entity \in Entities /\ req.other \in Entities \cup {NoEntity}
      /\ req.other # req.entity
      /\ (req.second = "none") <=> (req.other = NoEntity)
      /\ req.second \in SecondKinds
  BY <1>1 DEF Request, TypeOK, Apply
<1>5. \A e \in Entities : revision[e] \in Nat /\ rows[e] = revision[e]
  BY DEF TypeOK, SpineInv, AuditTrailComplete
<1>6. ASSUME req.other \in Entities
      PROVE  SecondRevision(req) = revision[req.other] + 1
  BY <1>4, <1>5, <1>6, NoEntityAssumption
     DEF Apply, SecondEntityOk, SecondRevision, SecondKinds, NoRow
<1>7. \A e \in Entities :
         /\ revision'[e] = IF e \in {req.entity, req.other} THEN revision[e] + 1
                                                           ELSE revision[e]
         /\ rows'[e] = revision'[e]
  BY <1>4, <1>5, <1>6 DEF Apply
<1>8. \A i \in DOMAIN receipts :
         receipts[i].outcome = "applied" => receipts[i].key # req.key
  BY DEF Apply, AppliedReceipts, IsApplied
<1>9. OneAppliedPerKey'
  BY <1>2, <1>3, <1>8 DEF OneAppliedPerKey, SpineInv
<1>10. NoLostUpdate'
  <2>1. x.conditional => x.base = x.over
    <3>1. calls[w].pc = "called" /\ ~Conflicts(req)
      BY DEF Apply
    <3>2. req.expected = Unchecked \/ req.expected = req.base
      BY <3>1 DEF SpineInv, SpineSupport
    <3>3. req.expected = Unchecked \/ revision[req.entity] = req.expected
      BY <3>1 DEF Conflicts
    <3>4. QED
      BY <1>3, <1>4, <1>5, <3>2, <3>3
  <2>2. QED
    BY <1>2, <2>1 DEF NoLostUpdate, SpineInv
<1>11. AuditTrailComplete'
  <2> SUFFICES ASSUME NEW e \in Entities
        PROVE
        /\ rows'[e] = revision'[e]
        /\ \A i \in DOMAIN receipts' :
              Touches(i, e)' => RevisionLeft(i, e)' \in 1..revision'[e]
        /\ \A r \in 1..revision'[e] : \E i \in DOMAIN receipts' :
              Touches(i, e)' /\ RevisionLeft(i, e)' = r
        /\ \A i, j \in DOMAIN receipts' :
              /\ Touches(i, e)' /\ Touches(j, e)'
              /\ RevisionLeft(i, e)' = RevisionLeft(j, e)'
              => i = j
    BY DEF AuditTrailComplete
  <2>1. \A i \in DOMAIN receipts :
           /\ Touches(i, e)' <=> Touches(i, e)
           /\ RevisionLeft(i, e)' = RevisionLeft(i, e)
    BY <1>2 DEF Touches, RevisionLeft
  <2>2. Touches(n, e)' <=> e \in {req.entity, req.other}
    BY <1>2, <1>3 DEF Touches
  <2>3. e \in {req.entity, req.other} => RevisionLeft(n, e)' = revision[e] + 1
    BY <1>2, <1>3, <1>4, <1>6 DEF RevisionLeft
  <2>4. /\ \A i \in DOMAIN receipts :
              Touches(i, e) => RevisionLeft(i, e) \in 1..revision[e]
        /\ \A r \in 1..revision[e] : \E i \in DOMAIN receipts :
              Touches(i, e) /\ RevisionLeft(i, e) = r
        /\ \A i, j \in DOMAIN receipts :
              /\ Touches(i, e) /\ Touches(j, e)
              /\ RevisionLeft(i, e) = RevisionLeft(j, e)
              => i = j
    BY DEF SpineInv, AuditTrailComplete
  <2>5. revision[e] \in Nat
    BY <1>5
  <2>6. CASE e \in {req.entity, req.other}
    <3>1. revision'[e] = revision[e] + 1
      BY <1>7, <2>6
    <3>2. ASSUME NEW r \in 1..revision'[e]
          PROVE  \E i \in DOMAIN receipts' : Touches(i, e)' /\ RevisionLeft(i, e)' = r
      <4>1. CASE r = revision[e] + 1
        BY <1>2, <2>2, <2>3, <2>6, <4>1
      <4>2. CASE r # revision[e] + 1
        <5>1. r \in 1..revision[e]
          BY <2>5, <3>1, <4>2
        <5>2. QED
          BY <1>2, <2>1, <2>4, <5>1
      <4>3. QED
        BY <4>1, <4>2
    <3>3. \A i \in DOMAIN receipts' :
             Touches(i, e)' => RevisionLeft(i, e)' \in 1..revision'[e]
      BY <1>2, <2>1, <2>2, <2>3, <2>4, <2>5, <2>6, <3>1
    <3>4. \A i \in DOMAIN receipts : Touches(i, e) => RevisionLeft(i, e) # revision[e] + 1
      BY <2>4, <2>5
    <3>5. \A i, j \in DOMAIN receipts' :
              /\ Touches(i, e)' /\ Touches(j, e)'
              /\ RevisionLeft(i, e)' = RevisionLeft(j, e)'
              => i = j
      BY <1>2, <2>1, <2>3, <2>4, <2>6, <3>4
    <3>6. QED
      BY <1>7, <3>2, <3>3, <3>5
  <2>7. CASE e \notin {req.entity, req.other}
    <3>1. revision'[e] = revision[e] /\ ~Touches(n, e)'
      BY <1>7, <2>2, <2>7
    <3>2. QED
      BY <1>2, <1>7, <2>1, <2>4, <3>1
  <2>8. QED
    BY <2>6, <2>7
<1>12. QED
  BY <1>9, <1>10, <1>11

\* The callers' half of SpineSupport: no step forges what a caller has read.
LEMMA CallsPreserved ==
    ASSUME TypeOK, SpineInv, [Next]_vars
    PROVE  \A w \in Writers : calls'[w].pc = "called" =>
              \/ calls'[w].req.expected = Unchecked
              \/ calls'[w].req.expected = calls'[w].req.base
<1>1. \A w \in Writers : calls[w].pc = "called" =>
         \/ calls[w].req.expected = Unchecked
         \/ calls[w].req.expected = calls[w].req.base
  BY DEF SpineInv, SpineSupport
<1>2. \A e \in Entities : rows[e] = revision[e]
  BY DEF SpineInv, AuditTrailComplete
<1>3. ASSUME NEW v \in Writers, calls' = [calls EXCEPT ![v] = Idle]
      PROVE  \A w \in Writers : calls'[w].pc = "called" => calls'[w] = calls[w]
  BY <1>3 DEF TypeOK, Idle
<1>4. ASSUME NEW v \in Writers, Prepare(v)
      PROVE  \A w \in Writers : calls'[w].pc = "called" =>
                \/ calls'[w].req.expected = Unchecked
                \/ calls'[w].req.expected = calls'[w].req.base
  <2>1. /\ \A w \in Writers \ {v} : calls'[w] = calls[w]
        /\ \E e \in Entities : /\ calls'[v].req.expected \in {Unchecked, revision[e]}
                               /\ calls'[v].req.base = rows[e]
    BY <1>4 DEF Prepare, TypeOK
  <2>2. QED
    BY <1>1, <1>2, <2>1
<1>5. ASSUME NEW v \in Writers, RollBack(v)
      PROVE  \A w \in Writers : calls'[w].pc = "called" => calls'[w] = calls[w]
  BY <1>5 DEF RollBack, TypeOK
<1>6. CASE Crash
  BY <1>6 DEF Crash, Idle
<1>7. CASE UNCHANGED vars
  BY <1>1, <1>7 DEF vars
<1>8. ASSUME NEW v \in Writers,
             \/ Replay(v) \/ RevisionConflict(v) \/ Apply(v)
             \/ RecordFailure(v) \/ RecordFailedReceipt(v) \/ Busy(v)
      PROVE  calls' = [calls EXCEPT ![v] = Idle]
  BY <1>8 DEF Replay, RevisionConflict, Apply, RecordFailure, RecordFailedReceipt, Busy
<1>9. QED
  BY <1>1, <1>3, <1>4, <1>5, <1>6, <1>7, <1>8 DEF Next

\* The log's half of SpineSupport, for every step that appends a receipt.
LEMMA ReplayPreserved ==
    ASSUME TypeOK, SpineSupport, NEW x \in Receipt, receipts' = Append(receipts, x),
           x.outcome = "replayed_idempotent" =>
              \E i \in DOMAIN receipts : IsApplied(i, x.key) /\ receipts[i].after = x.after
    PROVE  \A j \in DOMAIN receipts' : receipts'[j].outcome = "replayed_idempotent" =>
              \E i \in DOMAIN receipts' : /\ IsApplied(i, receipts[j].key)'
                                          /\ receipts'[i].after = receipts'[j].after
<1>1. PICK n : /\ DOMAIN receipts' = DOMAIN receipts \cup {n}
               /\ n \notin DOMAIN receipts
               /\ \A i \in DOMAIN receipts : receipts'[i] = receipts[i]
               /\ receipts'[n] = x
  <2>1. receipts \in Seq(Receipt)
    BY DEF TypeOK
  <2>2. QED
    BY <2>1, AppendFacts
<1>2. QED
  BY <1>1 DEF SpineSupport, IsApplied

\* The strengthened invariant is preserved by every step.
LEMMA SpineInvStep == TypeOK /\ SpineInv /\ [Next]_vars => SpineInv'
<1> SUFFICES ASSUME TypeOK, SpineInv, [Next]_vars PROVE SpineInv'
  OBVIOUS
<1> DEFINE Callers == \A w \in Writers : calls'[w].pc = "called" =>
              \/ calls'[w].req.expected = Unchecked
              \/ calls'[w].req.expected = calls'[w].req.base
<1>1. Callers
  BY CallsPreserved
<1> HIDE DEF Callers
<1>2. ASSUME UNCHANGED <<receipts, revision, rows>> PROVE SpineInv'
  <2>1. \A i : \A e : /\ Touches(i, e)' <=> Touches(i, e)
                      /\ RevisionLeft(i, e)' = RevisionLeft(i, e)
    BY <1>2 DEF Touches, RevisionLeft
  <2>2. AuditTrailComplete'
    BY <1>2, <2>1 DEF SpineInv, AuditTrailComplete
  <2>3. OneAppliedPerKey' /\ NoLostUpdate'
    BY <1>2 DEF SpineInv, OneAppliedPerKey, NoLostUpdate
  <2>4. SpineSupport'
    BY <1>1, <1>2 DEF Callers, SpineInv, SpineSupport, IsApplied
  <2>5. QED
    BY <2>2, <2>3, <2>4 DEF SpineInv
<1>3. ASSUME NEW x \in Receipt, x.outcome # "applied",
             receipts' = Append(receipts, x), UNCHANGED <<revision, rows>>,
             x.outcome = "replayed_idempotent" =>
                \E i \in DOMAIN receipts : IsApplied(i, x.key) /\ receipts[i].after = x.after
      PROVE  SpineInv'
  <2>1. OneAppliedPerKey' /\ AuditTrailComplete' /\ NoLostUpdate'
    BY <1>3, InertReceipt DEF SpineInv
  <2>2. SpineSupport'
    BY <1>1, <1>3, ReplayPreserved DEF Callers, SpineInv, SpineSupport
  <2>3. QED
    BY <2>1, <2>2 DEF SpineInv
<1>4. ASSUME NEW w \in Writers, Replay(w) PROVE SpineInv'
  <2>1. PICK i \in AppliedReceipts(calls[w].req.key) :
           receipts' = Append(receipts, PlainReceipt(calls[w].req,
                           "replayed_idempotent", receipts[i].after))
    BY <1>4 DEF Replay
  <2>2. PICK x : x = PlainReceipt(calls[w].req, "replayed_idempotent", receipts[i].after)
    OBVIOUS
  <2>3. calls[w].req \in Request /\ receipts[i].after \in Nat
    <3>1. receipts[i] \in Receipt
      BY DEF AppliedReceipts, TypeOK
    <3>2. QED
      BY <1>4, <3>1, CallFields DEF Replay, Receipt
  <2>4. /\ x \in Receipt /\ x.outcome = "replayed_idempotent"
        /\ x.key = calls[w].req.key /\ x.after = receipts[i].after
    BY <2>2, <2>3, PlainReceiptType DEF Outcomes, PlainReceipt
  <2>5. i \in DOMAIN receipts /\ IsApplied(i, x.key)
    BY <2>4 DEF AppliedReceipts
  <2>6. QED
    BY <1>3, <1>4, <2>1, <2>2, <2>4, <2>5 DEF Replay
<1>5. ASSUME NEW w \in Writers, NEW o \in {"revision_conflict", "failed"}, NEW rev \in Nat,
             calls[w].req \in Request,
             receipts' = Append(receipts, PlainReceipt(calls[w].req, o, rev)),
             UNCHANGED <<revision, rows>>
      PROVE  SpineInv'
  <2>1. PICK x : x = PlainReceipt(calls[w].req, o, rev)
    OBVIOUS
  <2>2. x \in Receipt /\ x.outcome = o
    BY <1>5, <2>1, PlainReceiptType DEF Outcomes, PlainReceipt
  <2>3. QED
    BY <1>3, <1>5, <2>1, <2>2
<1>6. ASSUME NEW w \in Writers, RevisionConflict(w) PROVE SpineInv'
  <2>1. calls[w].req \in Request /\ revision[calls[w].req.entity] \in Nat
    BY <1>6, CallFields DEF RevisionConflict, TypeOK, Request
  <2>2. QED
    BY <1>5, <1>6, <2>1 DEF RevisionConflict
<1>7. ASSUME NEW w \in Writers, RecordFailure(w) PROVE SpineInv'
  <2>1. calls[w].req \in Request /\ calls[w].seen \in Nat
    BY <1>7, CallFields DEF RecordFailure
  <2>2. QED
    BY <1>5, <1>7, <2>1 DEF RecordFailure
<1>8. ASSUME NEW w \in Writers, RecordFailedReceipt(w) PROVE SpineInv'
  <2>1. calls[w].req \in Request /\ revision[calls[w].req.entity] \in Nat
    BY <1>8, CallFields DEF RecordFailedReceipt, TypeOK, Request
  <2>2. QED
    BY <1>5, <1>8, <2>1 DEF RecordFailedReceipt
<1>9. ASSUME NEW w \in Writers, Apply(w) PROVE SpineInv'
  <2>1. OneAppliedPerKey' /\ AuditTrailComplete' /\ NoLostUpdate'
    BY <1>9, ApplyPreserves
  <2>2. calls[w].req \in Request
    BY <1>9, CallFields DEF Apply
  <2>3. PICK x : x = AppliedReceipt(calls[w].req)
    OBVIOUS
  <2>4. x \in Receipt /\ x.outcome = "applied" /\ receipts' = Append(receipts, x)
    BY <1>9, <2>2, <2>3, AppliedReceiptType DEF Apply, AppliedReceipt
  <2>5. SpineSupport'
    BY <1>1, <2>4, ReplayPreserved DEF Callers, SpineInv, SpineSupport
  <2>6. QED
    BY <2>1, <2>5 DEF SpineInv
<1>10. ASSUME NEW w \in Writers, Prepare(w) \/ RollBack(w) \/ Busy(w) PROVE SpineInv'
  BY <1>2, <1>10 DEF Prepare, RollBack, Busy
<1>11. CASE Crash \/ UNCHANGED vars
  BY <1>2, <1>11 DEF Crash, vars
<1>12. QED
  BY <1>4, <1>6, <1>7, <1>8, <1>9, <1>10, <1>11 DEF Next

\* The spine invariants of mutate, together: Spec keeps SpineInv.
THEOREM SpineSafe == Spec => []SpineInv
<1>1. Init => SpineInv
  BY DEF Init, SpineInv, OneAppliedPerKey, AuditTrailComplete, NoLostUpdate,
         SpineSupport, Idle, NoRow
<1>2. QED
  BY <1>1, SpineInvStep, TypeCorrect, PTL DEF Spec

\* mutate applies each idempotency key at most once, for any number of
\* concurrent callers, crashes and retries.
THEOREM KeyAppliedOnce == Spec => []OneAppliedPerKey
<1>1. SpineInv => OneAppliedPerKey
  BY DEF SpineInv
<1>2. QED
  BY <1>1, SpineSafe, PTL

\* No state change without exactly one audit record: the receipts of an entity
\* account for each of its revisions and for every committed domain write.
THEOREM AuditTrail == Spec => []AuditTrailComplete
<1>1. SpineInv => AuditTrailComplete
  BY DEF SpineInv
<1>2. QED
  BY <1>1, SpineSafe, PTL

\* A mutation under an expected revision never overwrites a write its caller
\* had not seen.
THEOREM ConditionalWritesSafe == Spec => []NoLostUpdate
<1>1. SpineInv => NoLostUpdate
  BY DEF SpineInv
<1>2. QED
  BY <1>1, SpineSafe, PTL

\* Every success answer for a key - the first and all its replays - carries
\* the same revision.
THEOREM AnswersAgree == Spec => []SuccessAnswersAgree
<1>1. SpineInv => SuccessAnswersAgree
  BY DEF SpineInv, SpineSupport, OneAppliedPerKey, SuccessAnswersAgree, IsApplied
<1>2. QED
  BY <1>1, SpineSafe, PTL

-----------------------------------------------------------------------------
(***************************************************************************)
(* Refinement: the spine implements EntityLedger.                          *)
(***************************************************************************)

\* Appending a receipt settles its key if it is an applied one of a fresh key
\* and settles nothing otherwise.
LEMMA AppliedRevisionAppend ==
    ASSUME TypeOK, NEW x \in Receipt, receipts' = Append(receipts, x), NEW k \in Keys,
           x.outcome = "applied" /\ x.key = k => AppliedReceipts(k) = {}
    PROVE  AppliedRevision(k)' = IF x.outcome = "applied" /\ x.key = k
                                   THEN x.after ELSE AppliedRevision(k)
<1>1. PICK n : /\ DOMAIN receipts' = DOMAIN receipts \cup {n}
               /\ n \notin DOMAIN receipts
               /\ \A i \in DOMAIN receipts : receipts'[i] = receipts[i]
               /\ receipts'[n] = x
  <2>1. receipts \in Seq(Receipt)
    BY DEF TypeOK
  <2>2. QED
    BY <2>1, AppendFacts
<1>2. CASE x.outcome = "applied" /\ x.key = k
  <2>1. AppliedReceipts(k)' = {n}
    BY <1>1, <1>2 DEF AppliedReceipts, IsApplied
  <2>2. QED
    BY <1>1, <1>2, <2>1 DEF AppliedRevision
<1>3. CASE ~(x.outcome = "applied" /\ x.key = k)
  <2>1. AppliedReceipts(k)' = AppliedReceipts(k)
    BY <1>1, <1>3 DEF AppliedReceipts, IsApplied
  <2>2. CASE AppliedReceipts(k) = {}
    BY <1>3, <2>1, <2>2 DEF AppliedRevision
  <2>3. CASE AppliedReceipts(k) # {}
    <3>1. PICK c : c = CHOOSE i \in AppliedReceipts(k) : TRUE
      OBVIOUS
    <3>2. c \in AppliedReceipts(k)
      BY <2>3, <3>1
    <3>3. receipts'[c] = receipts[c]
      BY <1>1, <3>2 DEF AppliedReceipts
    <3>4. AppliedRevision(k) = receipts[c].after
      BY <2>3, <3>1 DEF AppliedRevision
    <3>5. AppliedRevision(k)' = receipts'[c].after
      BY <2>1, <2>3, <3>1 DEF AppliedRevision
    <3>6. QED
      BY <1>3, <3>3, <3>4, <3>5
  <2>4. QED
    BY <2>2, <2>3
<1>4. QED
  BY <1>2, <1>3

\* Every step of mutate settles one fresh key, or changes nothing the ledger
\* shows.
LEMMA LedgerStep ==
    ASSUME TypeOK, SpineInv, [Next]_vars
    PROVE  [Ledger!Next]_(Ledger!vars)
<1>1. ASSUME NEW x \in Receipt, x.outcome # "applied",
             receipts' = Append(receipts, x), UNCHANGED revision
      PROVE  UNCHANGED Ledger!vars
  <2>1. \A k \in Keys : AppliedRevision(k)' = AppliedRevision(k)
    BY <1>1, AppliedRevisionAppend
  <2>2. QED
    BY <1>1, <2>1 DEF Ledger!vars
<1>2. ASSUME UNCHANGED <<receipts, revision>>
      PROVE  UNCHANGED Ledger!vars
  <2>1. \A k \in Keys : AppliedRevision(k)' = AppliedRevision(k)
    BY <1>2 DEF AppliedRevision, AppliedReceipts, IsApplied
  <2>2. QED
    BY <1>2, <2>1 DEF Ledger!vars
<1>3. ASSUME NEW w \in Writers, Replay(w) PROVE UNCHANGED Ledger!vars
  <2>1. PICK i \in AppliedReceipts(calls[w].req.key) :
           receipts' = Append(receipts, PlainReceipt(calls[w].req,
                           "replayed_idempotent", receipts[i].after))
    BY <1>3 DEF Replay
  <2>2. receipts[i] \in Receipt
    BY DEF AppliedReceipts, TypeOK
  <2>3. PICK x : x = PlainReceipt(calls[w].req, "replayed_idempotent", receipts[i].after)
    OBVIOUS
  <2>4. calls[w].req \in Request /\ receipts[i].after \in Nat
    BY <1>3, <2>2, CallFields DEF Replay, Receipt
  <2>5. x \in Receipt /\ x.outcome # "applied"
    BY <2>3, <2>4, PlainReceiptType DEF Outcomes, PlainReceipt
  <2>6. QED
    BY <1>1, <1>3, <2>1, <2>3, <2>5 DEF Replay
<1>4. ASSUME NEW w \in Writers, NEW o \in {"revision_conflict", "failed"}, NEW rev \in Nat,
             calls[w].req \in Request, UNCHANGED revision,
             receipts' = Append(receipts, PlainReceipt(calls[w].req, o, rev))
      PROVE  UNCHANGED Ledger!vars
  <2>1. PICK x : x = PlainReceipt(calls[w].req, o, rev)
    OBVIOUS
  <2>2. x \in Receipt /\ x.outcome # "applied"
    BY <1>4, <2>1, PlainReceiptType DEF Outcomes, PlainReceipt
  <2>3. QED
    BY <1>1, <1>4, <2>1, <2>2
<1>5. ASSUME NEW w \in Writers,
             RevisionConflict(w) \/ RecordFailure(w) \/ RecordFailedReceipt(w)
      PROVE  UNCHANGED Ledger!vars
  <2>1. calls[w].req \in Request
    BY <1>5, CallFields DEF RevisionConflict, RecordFailure, RecordFailedReceipt
  <2>2. revision[calls[w].req.entity] \in Nat
    BY <2>1 DEF TypeOK, Request
  <2>3. CASE RevisionConflict(w)
    BY <1>4, <2>1, <2>2, <2>3 DEF RevisionConflict
  <2>4. CASE RecordFailure(w)
    <3>1. calls[w].seen \in Nat
      BY <2>4, CallFields DEF RecordFailure
    <3>2. QED
      BY <1>4, <2>1, <2>4, <3>1 DEF RecordFailure
  <2>5. CASE RecordFailedReceipt(w)
    BY <1>4, <2>1, <2>2, <2>5 DEF RecordFailedReceipt
  <2>6. QED
    BY <1>5, <2>3, <2>4, <2>5
<1>6. ASSUME NEW w \in Writers, Apply(w) PROVE Ledger!Next
  <2>1. PICK req : req = calls[w].req
    OBVIOUS
  <2>2. PICK x : x = AppliedReceipt(req)
    OBVIOUS
  <2>3. req \in Request /\ x \in Receipt
    BY <1>6, <2>1, <2>2, CallFields, AppliedReceiptType DEF Apply
  <2>4. /\ req.key \in Keys /\ req.entity \in Entities
        /\ req.other \in Entities \cup {NoEntity} /\ req.other # req.entity
        /\ (req.second = "none") <=> (req.other = NoEntity)
        /\ req.second \in SecondKinds
    BY <1>6, <2>1, <2>3 DEF Request, TypeOK, Apply
  <2>5. /\ x.outcome = "applied" /\ x.key = req.key
        /\ x.after = revision[req.entity] + 1
        /\ receipts' = Append(receipts, x) /\ AppliedReceipts(req.key) = {}
    BY <1>6, <2>1, <2>2 DEF AppliedReceipt, Apply
  <2>6. \A k \in Keys : AppliedRevision(k)' = IF k = req.key THEN revision[req.entity] + 1
                                                             ELSE AppliedRevision(k)
    BY <2>3, <2>5, AppliedRevisionAppend
  <2>7. AppliedRevision(req.key) = 0
    BY <2>5 DEF AppliedRevision, NoRow
  <2>8. PICK also : also = {req.other} \cap Entities
    OBVIOUS
  <2>9. revision' = [y \in Entities |-> IF y = req.entity \/ y \in also
                                            THEN revision[y] + 1 ELSE revision[y]]
    <3>1. req.other \in Entities => SecondRevision(req) = revision[req.other] + 1
      BY <1>6, <2>1, <2>4, NoEntityAssumption
         DEF Apply, SecondEntityOk, SecondRevision, SecondKinds, NoRow, TypeOK
    <3>2. QED
      BY <1>6, <2>1, <2>4, <2>8, <3>1 DEF Apply
  <2>10. also \in SUBSET (Entities \ {req.entity}) /\ \A a, b \in also : a = b
    BY <2>4, <2>8
  <2>11. Ledger!Settle(req.key, req.entity)
    BY <2>4, <2>6, <2>7, <2>9, <2>10 DEF Ledger!Settle
  <2>12. QED
    BY <2>4, <2>11 DEF Ledger!Next
<1>7. ASSUME NEW w \in Writers, Prepare(w) \/ RollBack(w) \/ Busy(w)
      PROVE  UNCHANGED Ledger!vars
  BY <1>2, <1>7 DEF Prepare, RollBack, Busy
<1>8. CASE Crash \/ UNCHANGED vars
  BY <1>2, <1>8 DEF Crash, vars
<1>9. QED
  BY <1>3, <1>5, <1>6, <1>7, <1>8 DEF Next

\* mutate implements the abstract exactly-once versioned store.
THEOREM LedgerRefinement == Spec => LedgerRefined
<1>1. Init => Ledger!Init
  BY DEF Init, Ledger!Init, AppliedRevision, AppliedReceipts, NoRow
<1>2. TypeOK /\ SpineInv /\ [Next]_vars => [Ledger!Next]_(Ledger!vars)
  BY LedgerStep
<1>3. QED
  BY <1>1, <1>2, TypeCorrect, SpineSafe, PTL DEF Spec, LedgerRefined, Ledger!Spec
=============================================================================
