------------------------- MODULE DraftApprovalProofs -------------------------
(***************************************************************************)
(* The approval gate is safe for any number of concurrent requests, drafts *)
(* and revisions, provided every request carries the revision it was made  *)
(* at.                                                                     *)
(***************************************************************************)
EXTENDS DraftApproval, Intake, FiniteSetTheorems, TLAPS

\* A stored draft and its job slot are well typed.
LEMMA DraftFields ==
    ASSUME TypeOK, NEW i \in DOMAIN drafts
    PROVE  /\ drafts[i] \in Draft
           /\ drafts[i].status \in Statuses
           /\ drafts[i].content \in Nat \ {0}
           /\ drafts[i].revision \in Nat \ {0}
           /\ i \in DOMAIN job /\ job[i] \in Nat
<1>1. drafts[i] \in Draft /\ i \in 1..Len(drafts)
  BY DEF TypeOK
<1>2. i \in DOMAIN job /\ job[i] \in Nat
  BY <1>1 DEF TypeOK
<1>3. QED
  BY <1>1, <1>2 DEF Draft

\* So is a request in flight.
LEMMA CallFields ==
    ASSUME TypeOK, NEW c \in Requests
    PROVE  /\ calls[c] \in Call
           /\ calls[c].pc \in {"idle", "sent", "read", "checked"}
           /\ calls[c].pc # "idle" =>
                 /\ calls[c].op \in Operations
                 /\ calls[c].draft \in DOMAIN drafts
                 /\ calls[c].expected \in Nat
                 /\ calls[c].expected <= drafts[calls[c].draft].revision
           /\ calls[c].pc \in {"read", "checked"} => calls[c].payload \in Nat \ {0}
BY DEF TypeOK, Call

\* A mutation replaces one row, whose revision it moves on.
LEMMA BumpedRow ==
    ASSUME TypeOK, NEW i \in DOMAIN drafts, NEW status \in Statuses,
           NEW content \in Nat \ {0}, drafts' = Bumped(i, status, content)
    PROVE  /\ drafts' \in Seq(Draft)
           /\ Len(drafts') = Len(drafts) /\ DOMAIN drafts' = DOMAIN drafts
           /\ drafts'[i] = [status |-> status, content |-> content,
                            revision |-> drafts[i].revision + 1]
           /\ \A k \in DOMAIN drafts : k # i => drafts'[k] = drafts[k]
<1> DEFINE row == [status |-> status, content |-> content,
                   revision |-> drafts[i].revision + 1]
<1>1. drafts' = [drafts EXCEPT ![i] = row]
  BY DEF Bumped
<1>2. row \in Draft
  BY DraftFields DEF Draft
<1>3. drafts \in Seq(Draft) /\ i \in 1..Len(drafts)
  BY DEF TypeOK
<1> HIDE DEF row
<1>4. drafts' \in Seq(Draft) /\ Len(drafts') = Len(drafts) /\ DOMAIN drafts' = DOMAIN drafts
  BY <1>1, <1>2, <1>3
<1>5. drafts'[i] = row /\ \A k \in DOMAIN drafts : k # i => drafts'[k] = drafts[k]
  BY <1>1, <1>3
<1>6. QED
  BY <1>4, <1>5 DEF row

\* After a mutation of draft i every other request on i is out of date, and
\* the requests on other drafts are as they were.
LEMMA OthersOutdated ==
    ASSUME GateInv, NEW c \in Requests, NEW i \in DOMAIN drafts,
           NEW status \in Statuses, NEW content \in Nat \ {0},
           drafts' = Bumped(i, status, content),
           calls' = [calls EXCEPT ![c] = Idle]
    PROVE  /\ calls' \in [Requests -> Call]
           /\ \A d \in Requests : calls'[d].pc # "idle" =>
                 /\ calls'[d].draft \in DOMAIN drafts'
                 /\ calls'[d].expected <= drafts'[calls'[d].draft].revision
                 /\ calls'[d].expected # Unchecked
           /\ \A d \in Requests : calls'[d].pc # "idle" /\ Current(d)' =>
                 /\ calls'[d] = calls[d] /\ Current(d)
                 /\ drafts'[calls[d].draft] = drafts[calls[d].draft]
<1>1. TypeOK
  BY DEF GateInv
<1>0. /\ drafts' \in Seq(Draft)
      /\ Len(drafts') = Len(drafts) /\ DOMAIN drafts' = DOMAIN drafts
      /\ drafts'[i] = [status |-> status, content |-> content,
                       revision |-> drafts[i].revision + 1]
      /\ \A k \in DOMAIN drafts : k # i => drafts'[k] = drafts[k]
  BY <1>1, BumpedRow, Zenon
<1>2. calls' \in [Requests -> Call]
  BY <1>1 DEF TypeOK, Call, Idle
<1>3. ASSUME NEW d \in Requests, calls'[d].pc # "idle"
      PROVE  /\ calls'[d] = calls[d] /\ calls[d].pc \in {"sent", "read", "checked"}
             /\ calls[d].expected \in Nat /\ calls[d].expected # Unchecked
             /\ calls[d].draft \in DOMAIN drafts
             /\ calls[d].expected <= drafts[calls[d].draft].revision
  <2>1. d # c
    BY <1>1, <1>3 DEF TypeOK, Idle
  <2>2. calls'[d] = calls[d]
    BY <1>1, <2>1 DEF TypeOK
  <2>3. calls[d].pc \in {"sent", "read", "checked"}
    BY <1>1, <1>3, <2>2, CallFields
  <2>4. calls[d].expected # Unchecked
    BY <2>3 DEF GateInv, GateSupport
  <2>5. QED
    BY <1>1, <2>2, <2>3, <2>4, CallFields
<1>4. ASSUME NEW d \in Requests, calls'[d].pc # "idle"
      PROVE  /\ calls'[d].draft \in DOMAIN drafts'
             /\ calls'[d].expected <= drafts'[calls'[d].draft].revision
             /\ calls'[d].expected # Unchecked
             /\ calls[d].draft = i => ~Current(d)'
  <2>1. drafts[calls[d].draft].revision \in Nat
    BY <1>1, <1>3, <1>4, DraftFields
  <2>2. CASE calls[d].draft = i
    <3>1. drafts'[i].revision = drafts[i].revision + 1
      BY <1>0
    <3>2. QED
      BY <1>0, <1>3, <1>4, <2>1, <2>2, <3>1 DEF Current, Unchecked
  <2>3. CASE calls[d].draft # i
    BY <1>0, <1>3, <1>4, <2>1, <2>3
  <2>4. QED
    BY <2>2, <2>3
<1>5. ASSUME NEW d \in Requests, calls'[d].pc # "idle", Current(d)'
      PROVE  /\ calls'[d] = calls[d] /\ Current(d)
             /\ drafts'[calls[d].draft] = drafts[calls[d].draft]
  <2>1. calls'[d] = calls[d] /\ calls[d].draft \in DOMAIN drafts /\ calls[d].draft # i
    BY <1>3, <1>4, <1>5
  <2>2. drafts'[calls[d].draft] = drafts[calls[d].draft]
    BY <1>0, <2>1
  <2>3. QED
    BY <1>5, <2>1, <2>2 DEF Current
<1>6. QED
  BY <1>2, <1>4, <1>5

\* A step of one request that leaves the tables alone keeps the invariant when
\* the request's new place satisfies it.
LEMMA RequestActs ==
    ASSUME GateInv, NEW c \in Requests, NEW new \in Call,
           calls' = [calls EXCEPT ![c] = new], UNCHANGED <<drafts, job>>,
           new.pc # "idle" => /\ new.draft \in DOMAIN drafts
                              /\ new.expected <= drafts[new.draft].revision
                              /\ new.expected # Unchecked,
           new.pc \in {"read", "checked"} /\ new.expected = drafts[new.draft].revision
               => new.payload = drafts[new.draft].content,
           new.pc = "checked" /\ new.expected = drafts[new.draft].revision
               => drafts[new.draft].status = "staged"
    PROVE  GateInv'
<1>1. TypeOK
  BY DEF GateInv
<1>2. /\ calls' \in [Requests -> Call] /\ calls'[c] = new
      /\ \A d \in Requests : d # c => calls'[d] = calls[d]
  BY <1>1 DEF TypeOK
<1>3. new.pc \in {"idle", "sent", "read", "checked"}
  BY DEF Call
<1>4. TypeOK'
  BY <1>1, <1>2, <1>3 DEF TypeOK
<1>5. JobIffApproved' /\ JobWritesStoredRow'
  BY DEF GateInv, JobIffApproved, JobWritesStoredRow
<1>6. GateSupport'
  <2>1. ASSUME NEW d \in Requests
        PROVE  /\ calls'[d].pc \in {"sent", "read", "checked"} => calls'[d].expected # Unchecked
               /\ calls'[d].pc \in {"read", "checked"} /\ Current(d)' =>
                     calls'[d].payload = drafts'[calls'[d].draft].content
               /\ calls'[d].pc = "checked" /\ Current(d)' => RequireStaged(calls[d].draft)'
    <3>1. CASE d = c
      BY <1>2, <1>3, <3>1 DEF Current, RequireStaged, Unchecked
    <3>2. CASE d # c
      <4>1. calls'[d] = calls[d] /\ drafts' = drafts
        BY <1>2, <3>2
      <4>2. QED
        BY <4>1 DEF GateInv, GateSupport, Current, RequireStaged
    <3>3. QED
      BY <3>1, <3>2
  <2>2. (\A i, k \in DOMAIN drafts : Active(i) /\ Active(k) => i = k)'
    BY DEF GateInv, GateSupport, Active
  <2>3. QED
    BY <2>1, <2>2 DEF GateSupport
<1>7. QED
  BY <1>4, <1>5, <1>6 DEF GateInv

\* A mutation of draft i keeps the invariant when its job follows its status
\* and the index is respected.
LEMMA MutationStep ==
    ASSUME GateInv, NEW c \in Requests, NEW i \in DOMAIN drafts,
           NEW status \in Statuses, NEW content \in Nat \ {0}, NEW j \in Nat,
           drafts' = Bumped(i, status, content),
           calls' = [calls EXCEPT ![c] = Idle],
           job' = [job EXCEPT ![i] = j],
           (j # NoJob) <=> (status = "approved"),
           j # NoJob => j = content,
           status # "rejected" => \A k \in DOMAIN drafts : k # i => ~Active(k)
    PROVE  GateInv'
<1>1. TypeOK
  BY DEF GateInv
<1>2. /\ drafts' \in Seq(Draft)
      /\ Len(drafts') = Len(drafts) /\ DOMAIN drafts' = DOMAIN drafts
      /\ drafts'[i] = [status |-> status, content |-> content,
                       revision |-> drafts[i].revision + 1]
      /\ \A k \in DOMAIN drafts : k # i => drafts'[k] = drafts[k]
  BY <1>1, BumpedRow, Zenon
<1>3. /\ calls' \in [Requests -> Call]
      /\ \A d \in Requests : calls'[d].pc # "idle" =>
            /\ calls'[d].draft \in DOMAIN drafts'
            /\ calls'[d].expected <= drafts'[calls'[d].draft].revision
            /\ calls'[d].expected # Unchecked
      /\ \A d \in Requests : calls'[d].pc # "idle" /\ Current(d)' =>
            /\ calls'[d] = calls[d] /\ Current(d)
            /\ drafts'[calls[d].draft] = drafts[calls[d].draft]
  BY OthersOutdated, Zenon
<1>4. /\ job' \in Seq(Nat) /\ Len(job') = Len(drafts') /\ DOMAIN job' = DOMAIN drafts
      /\ job'[i] = j /\ \A k \in DOMAIN drafts : k # i => job'[k] = job[k]
  <2>1. job \in Seq(Nat) /\ i \in DOMAIN job /\ DOMAIN job = DOMAIN drafts
    BY <1>1 DEF TypeOK
  <2>2. job' \in Seq(Nat) /\ Len(job') = Len(job) /\ DOMAIN job' = DOMAIN job
    BY <2>1
  <2>3. QED
    BY <1>1, <1>2, <2>1, <2>2 DEF TypeOK
<1>5. TypeOK'
  BY <1>2, <1>3, <1>4 DEF TypeOK
<1>6. JobIffApproved' /\ JobWritesStoredRow'
  <2>1. ASSUME NEW k \in DOMAIN drafts
        PROVE  /\ (job'[k] # NoJob) <=> (drafts'[k].status = "approved")
               /\ job'[k] # NoJob => job'[k] = drafts'[k].content
    BY <1>2, <1>4 DEF GateInv, JobIffApproved, JobWritesStoredRow
  <2>2. QED
    BY <1>2, <2>1 DEF JobIffApproved, JobWritesStoredRow
<1>7. GateSupport'
  <2>1. ASSUME NEW d \in Requests
        PROVE  /\ calls'[d].pc \in {"sent", "read", "checked"} => calls'[d].expected # Unchecked
               /\ calls'[d].pc \in {"read", "checked"} /\ Current(d)' =>
                     calls'[d].payload = drafts'[calls'[d].draft].content
               /\ calls'[d].pc = "checked" /\ Current(d)' => RequireStaged(calls[d].draft)'
    <3>1. calls'[d].pc \in {"sent", "read", "checked"} => calls'[d].expected # Unchecked
      BY <1>3
    <3>2. ASSUME calls'[d].pc \in {"read", "checked"}, Current(d)'
          PROVE  /\ calls'[d].payload = drafts'[calls'[d].draft].content
                 /\ calls'[d].pc = "checked" => drafts'[calls'[d].draft].status = "staged"
      <4>1. /\ calls'[d] = calls[d] /\ Current(d)
            /\ drafts'[calls[d].draft] = drafts[calls[d].draft]
        BY <1>3, <3>2
      <4>2. QED
        BY <3>2, <4>1 DEF GateInv, GateSupport, RequireStaged
    <3>3. QED
      BY <3>1, <3>2 DEF RequireStaged
  <2>2. ASSUME NEW k \in DOMAIN drafts, NEW l \in DOMAIN drafts, Active(k)', Active(l)'
        PROVE  k = l
    <3>1. (k # i => Active(k)) /\ (l # i => Active(l))
      BY <1>2, <2>2 DEF Active
    <3>2. k = i \/ l = i => status # "rejected"
      BY <1>2, <2>2 DEF Active
    <3>3. QED
      BY <3>1, <3>2 DEF GateInv, GateSupport
  <2>3. QED
    BY <1>2, <2>1, <2>2 DEF GateSupport
<1>8. QED
  BY <1>5, <1>6, <1>7 DEF GateInv

\* When every request carries its revision, a decision or edit that passes the
\* revision check of mutate finds the draft staged and as the request read it.
LEMMA CheckedIsStaged ==
    ASSUME GateInv, NEW c \in Requests, calls[c].pc = "checked", Current(c)
    PROVE  /\ calls[c].draft \in DOMAIN drafts
           /\ drafts[calls[c].draft].status = "staged"
           /\ calls[c].payload = drafts[calls[c].draft].content
           /\ job[calls[c].draft] = NoJob
           /\ \A k \in DOMAIN drafts : k # calls[c].draft => ~Active(k)
<1>1. calls[c].draft \in DOMAIN drafts
  BY CallFields DEF GateInv
<1>2. /\ drafts[calls[c].draft].status = "staged"
      /\ calls[c].payload = drafts[calls[c].draft].content
  BY DEF GateInv, GateSupport, RequireStaged
<1>3. job[calls[c].draft] = NoJob
  BY <1>1, <1>2 DEF GateInv, JobIffApproved
<1>4. \A k \in DOMAIN drafts : k # calls[c].draft => ~Active(k)
  BY <1>1, <1>2 DEF GateInv, GateSupport, Active
<1>5. QED
  BY <1>1, <1>2, <1>3, <1>4

\* The gate, when every request carries its revision: GateInv is inductive.
THEOREM GateHolds ==
    ASSUME ~MayOmit
    PROVE  Spec => []GateInv
<1>1. Init => GateInv
  BY DEF Init, GateInv, TypeOK, JobIffApproved, JobWritesStoredRow, GateSupport, Call, Idle,
         Active
<1>2. GateInv /\ [Next]_vars => GateInv'
  <2> SUFFICES ASSUME GateInv, [Next]_vars PROVE GateInv'
    OBVIOUS
  <2> TypeOK
    BY DEF GateInv
  <2>1. CASE UNCHANGED vars
    BY <2>1 DEF vars, GateInv, TypeOK, JobIffApproved, JobWritesStoredRow, GateSupport,
                Current, RequireStaged, Active
  <2>2. CASE Stage
    <3> DEFINE row == [status |-> "staged", content |-> 1, revision |-> 1]
               n == Len(drafts) + 1
    <3>1. row \in Draft
      BY DEF Draft, Statuses
    <3>2. /\ drafts' = Append(drafts, row) /\ job' = Append(job, NoJob) /\ calls' = calls
          /\ \A i \in DOMAIN drafts : ~Active(i)
      BY <2>2 DEF Stage
    <3> HIDE DEF row
    <3>3. /\ drafts' \in Seq(Draft) /\ Len(drafts') = n /\ drafts'[n] = row
          /\ DOMAIN drafts' = DOMAIN drafts \cup {n}
          /\ \A i \in DOMAIN drafts : drafts'[i] = drafts[i] /\ i # n
      BY <3>1, <3>2 DEF TypeOK
    <3>4. /\ job' \in Seq(Nat) /\ Len(job') = n /\ job'[n] = NoJob
          /\ \A i \in DOMAIN drafts : job'[i] = job[i]
      BY <3>2 DEF TypeOK, NoJob
    <3>5. TypeOK'
      BY <3>2, <3>3, <3>4 DEF TypeOK
    <3>6. row.status = "staged"
      BY DEF row
    <3>7. JobIffApproved' /\ JobWritesStoredRow'
      BY <3>3, <3>4, <3>6 DEF GateInv, JobIffApproved, JobWritesStoredRow
    <3>8. (\A i, k \in DOMAIN drafts : Active(i) /\ Active(k) => i = k)'
      BY <3>2, <3>3 DEF Active
    <3>9. GateSupport'
      <4>1. ASSUME NEW d \in Requests, calls[d].pc # "idle"
            PROVE  calls[d].draft \in DOMAIN drafts
                   /\ drafts'[calls[d].draft] = drafts[calls[d].draft]
        BY <3>3, <4>1 DEF TypeOK
      <4>2. QED
        BY <3>2, <3>8, <4>1 DEF GateInv, GateSupport, Current, RequireStaged
    <3>10. QED
      BY <3>5, <3>7, <3>9 DEF GateInv
  <2>3. ASSUME NEW c \in Requests, Send(c) PROVE GateInv'
    <3>1. PICK i \in DOMAIN drafts, op \in Operations :
             calls' = [calls EXCEPT ![c] = [pc |-> "sent", op |-> op, draft |-> i,
                                            expected |-> drafts[i].revision]]
      BY <2>3 DEF Send
    <3> DEFINE new == [pc |-> "sent", op |-> op, draft |-> i,
                       expected |-> drafts[i].revision]
    <3>2. drafts[i].revision \in Nat \ {0} /\ i \in Nat \ {0}
      BY DraftFields DEF TypeOK
    <3>3. new \in Call
      BY <3>2 DEF Call
    <3>4. new.pc = "sent" /\ new.draft = i /\ new.expected = drafts[i].revision
      OBVIOUS
    <3>5. calls' = [calls EXCEPT ![c] = new] /\ UNCHANGED <<drafts, job>>
      BY <2>3, <3>1 DEF Send
    <3> HIDE DEF new
    <3>6. /\ new.draft \in DOMAIN drafts /\ new.expected <= drafts[new.draft].revision
          /\ new.expected # Unchecked
      BY <3>2, <3>4 DEF Unchecked
    <3>7. new.pc \notin {"read", "checked"} /\ new.pc # "checked"
      BY <3>4
    <3>8. QED
      BY <3>3, <3>5, <3>6, <3>7, RequestActs
  <2>4. ASSUME NEW c \in Requests, Read(c) PROVE GateInv'
    <3> DEFINE new == [pc |-> "read", op |-> calls[c].op, draft |-> calls[c].draft,
                       expected |-> calls[c].expected,
                       payload |-> drafts[calls[c].draft].content]
    <3>1. /\ calls[c].op \in Operations /\ calls[c].draft \in DOMAIN drafts
          /\ calls[c].expected \in Nat
          /\ calls[c].expected <= drafts[calls[c].draft].revision
          /\ calls[c].expected # Unchecked
      BY <2>4, CallFields DEF Read, GateInv, GateSupport
    <3>2. calls[c].draft \in Nat \ {0} /\ drafts[calls[c].draft].content \in Nat \ {0}
      BY <3>1, DraftFields DEF TypeOK
    <3>3. new \in Call
      BY <3>1, <3>2 DEF Call
    <3>4. /\ new.pc = "read" /\ new.draft = calls[c].draft
          /\ new.expected = calls[c].expected
          /\ new.payload = drafts[calls[c].draft].content
      OBVIOUS
    <3>5. calls' = [calls EXCEPT ![c] = new] /\ UNCHANGED <<drafts, job>>
      BY <2>4 DEF Read, JobPayload
    <3> HIDE DEF new
    <3>6. QED
      BY <3>1, <3>3, <3>4, <3>5, RequestActs
  <2>5. ASSUME NEW c \in Requests, calls' = [calls EXCEPT ![c] = Idle],
               UNCHANGED <<drafts, job>>
        PROVE  GateInv'
    <3>1. Idle \in Call /\ Idle.pc = "idle"
      BY DEF Idle, Call
    <3>2. QED
      BY <2>5, <3>1, RequestActs
  <2>6. ASSUME NEW c \in Requests, Check(c) PROVE GateInv'
    <3>1. CASE ~RequireStaged(calls[c].draft)
      BY <2>5, <2>6, <3>1 DEF Check
    <3>2. CASE RequireStaged(calls[c].draft)
      <4> DEFINE new == [calls[c] EXCEPT !.pc = "checked"]
      <4>1. /\ calls[c].draft \in DOMAIN drafts /\ calls[c].expected # Unchecked
            /\ calls[c].expected \in Nat
            /\ calls[c].expected <= drafts[calls[c].draft].revision
            /\ calls[c].pc = "read" /\ calls[c] \in Call
        BY <2>6, CallFields DEF Check, GateInv, GateSupport
      <4>2. calls[c].expected = drafts[calls[c].draft].revision
               => calls[c].payload = drafts[calls[c].draft].content
        BY <4>1 DEF GateInv, GateSupport, Current
      <4>3. /\ new \in Call /\ new.pc = "checked" /\ new.draft = calls[c].draft
            /\ new.expected = calls[c].expected /\ new.payload = calls[c].payload
        BY <4>1 DEF Call
      <4>4. calls' = [calls EXCEPT ![c] = new] /\ UNCHANGED <<drafts, job>>
        BY <2>6, <3>2 DEF Check
      <4>5. drafts[calls[c].draft].status = "staged"
        BY <3>2 DEF RequireStaged
      <4> HIDE DEF new
      <4>6. QED
        BY <4>1, <4>2, <4>3, <4>4, <4>5, RequestActs
    <3>3. QED
      BY <3>1, <3>2
  <2>7. ASSUME NEW c \in Requests, Approve(c) PROVE GateInv'
    <3> DEFINE i == calls[c].draft
    <3>1. /\ calls[c].pc = "checked" /\ Current(c)
          /\ drafts' = Bumped(i, "approved", drafts[i].content)
          /\ job' = [job EXCEPT ![i] = calls[c].payload]
          /\ calls' = [calls EXCEPT ![c] = Idle]
      BY <2>7 DEF Approve
    <3>2. /\ i \in DOMAIN drafts /\ calls[c].payload = drafts[i].content
          /\ \A k \in DOMAIN drafts : k # i => ~Active(k)
      BY <3>1, CheckedIsStaged
    <3>3. drafts[i].content \in Nat \ {0} /\ drafts[i].content # NoJob
      BY <3>2, DraftFields DEF NoJob
    <3>4. "approved" \in Statuses
      BY DEF Statuses
    <3> HIDE DEF i
    <3>5. job' = [job EXCEPT ![i] = drafts[i].content]
      BY <3>1, <3>2
    <3>6. QED
      BY <3>1, <3>2, <3>3, <3>4, <3>5, MutationStep
  <2>8. ASSUME NEW c \in Requests, NEW status \in {"staged", "rejected"},
               NEW content \in Nat \ {0},
               calls[c].pc = "checked", Current(c),
               drafts' = Bumped(calls[c].draft, status, content),
               calls' = [calls EXCEPT ![c] = Idle], UNCHANGED job
        PROVE  GateInv'
    <3> DEFINE i == calls[c].draft
    <3>1. /\ i \in DOMAIN drafts /\ job[i] = NoJob
          /\ \A k \in DOMAIN drafts : k # i => ~Active(k)
      BY <2>8, CheckedIsStaged
    <3>2. status \in Statuses /\ status # "approved" /\ NoJob \in Nat
      BY DEF Statuses, NoJob
    <3>3. job' = [job EXCEPT ![i] = NoJob]
      BY <2>8, <3>1 DEF TypeOK
    <3>4. drafts' = Bumped(i, status, content)
      BY <2>8
    <3> HIDE DEF i
    <3>5. /\ (NoJob # NoJob) <=> (status = "approved")
          /\ NoJob # NoJob => NoJob = content
          /\ status # "rejected" => \A k \in DOMAIN drafts : k # i => ~Active(k)
      BY <3>1, <3>2
    <3>6. calls' = [calls EXCEPT ![c] = Idle]
      BY <2>8
    <3>7. QED
      BY <3>1, <3>2, <3>3, <3>4, <3>5, <3>6, MutationStep, Zenon
  <2>9. ASSUME NEW c \in Requests, Reject(c) PROVE GateInv'
    <3>1. calls[c].draft \in DOMAIN drafts
      BY <2>9, CheckedIsStaged DEF Reject
    <3>2. drafts[calls[c].draft].content \in Nat \ {0}
      BY <3>1, DraftFields
    <3>3. QED
      BY <2>8, <2>9, <3>2 DEF Reject
  <2>10. ASSUME NEW c \in Requests, Edit(c) PROVE GateInv'
    <3>1. calls[c].draft \in DOMAIN drafts /\ drafts[calls[c].draft].status = "staged"
      BY <2>10, CheckedIsStaged DEF Edit
    <3>2. drafts[calls[c].draft].revision + 1 \in Nat \ {0}
      BY <3>1, DraftFields
    <3>3. QED
      BY <2>8, <2>10, <3>1, <3>2 DEF Edit
  <2>11. ASSUME NEW c \in Requests, Refused(c) \/ Lost(c) PROVE GateInv'
    BY <2>5, <2>11 DEF Refused, Lost
  <2>12. QED
    BY <2>1, <2>2, <2>3, <2>4, <2>6, <2>7, <2>9, <2>10, <2>11 DEF Next
<1>3. QED
  BY <1>1, <1>2, PTL DEF Spec

\* Nothing is written for a draft that does not stand approved, and a draft
\* approved has its write: approve flips the status and enqueues together.
THEOREM NoWriteWithoutApproval ==
    ASSUME ~MayOmit
    PROVE  Spec => []JobIffApproved
<1>1. GateInv => JobIffApproved
  BY DEF GateInv
<1>2. QED
  BY <1>1, GateHolds, PTL

\* The write holds what the approved row says: edits made before the approval
\* flow into it and none comes after.
THEOREM WriteMatchesRow ==
    ASSUME ~MayOmit
    PROVE  Spec => []JobWritesStoredRow
<1>1. GateInv => JobWritesStoredRow
  BY DEF GateInv
<1>2. QED
  BY <1>1, GateHolds, PTL

\* A work item is written to the provider at most once, whatever drafts it has
\* been through.
THEOREM ItemWrittenOnce ==
    ASSUME ~MayOmit
    PROVE  Spec => []OneWritePerItem
<1>1. GateInv => OneWritePerItem
  <2> SUFFICES ASSUME GateInv PROVE OneWritePerItem
    OBVIOUS
  <2> DEFINE written == {i \in DOMAIN drafts : job[i] # NoJob}
  <2>1. \A i, k \in written : i = k
    BY DEF GateInv, JobIffApproved, GateSupport, Active
  <2>2. CASE written = {}
    BY <2>2, FS_EmptySet DEF OneWritePerItem
  <2>3. CASE written # {}
    <3>1. PICK i \in written : TRUE
      BY <2>3
    <3>2. written = {i}
      BY <2>1, <3>1
    <3>3. Cardinality({i}) = 1
      BY FS_Singleton
    <3>4. QED
      BY <3>2, <3>3 DEF OneWritePerItem
  <2>4. QED
    BY <2>2, <2>3
<1>2. QED
  BY <1>1, GateHolds, PTL

\* A decision is final: no step touches a draft that is approved or rejected.
THEOREM DecisionsFinal ==
    ASSUME ~MayOmit
    PROVE  Spec => DecidedIsFinal
<1> DEFINE Final == \A i \in DOMAIN drafts :
                       drafts[i].status # "staged" => drafts'[i] = drafts[i]
<1>1. GateInv /\ [Next]_vars => [Final]_vars
  <2> SUFFICES ASSUME GateInv, Next PROVE Final
    OBVIOUS
  <2> TypeOK
    BY DEF GateInv
  <2>1. CASE Stage
    BY <2>1 DEF Stage, TypeOK
  <2>2. ASSUME NEW c \in Requests, UNCHANGED drafts PROVE Final
    BY <2>2
  <2>3. ASSUME NEW c \in Requests, NEW status \in Statuses, NEW content \in Nat \ {0},
               calls[c].pc = "checked", Current(c),
               drafts' = Bumped(calls[c].draft, status, content)
        PROVE  Final
    <3>1. calls[c].draft \in DOMAIN drafts /\ drafts[calls[c].draft].status = "staged"
      BY <2>3, CheckedIsStaged
    <3>2. \A k \in DOMAIN drafts : k # calls[c].draft => drafts'[k] = drafts[k]
      BY <2>3, <3>1, BumpedRow
    <3>3. QED
      BY <3>1, <3>2
  <2>4. ASSUME NEW c \in Requests, calls[c].pc = "checked", Current(c)
        PROVE  /\ drafts[calls[c].draft].content \in Nat \ {0}
               /\ drafts[calls[c].draft].revision + 1 \in Nat \ {0}
               /\ drafts[calls[c].draft].status \in Statuses
    BY <2>4, CheckedIsStaged, DraftFields
  <2>5. ASSUME NEW c \in Requests, Approve(c) PROVE Final
    BY <2>3, <2>4, <2>5 DEF Approve, Statuses
  <2>6. ASSUME NEW c \in Requests, Reject(c) PROVE Final
    BY <2>3, <2>4, <2>6 DEF Reject, Statuses
  <2>7. ASSUME NEW c \in Requests, Edit(c) PROVE Final
    BY <2>3, <2>4, <2>7 DEF Edit
  <2>8. QED
    BY <2>1, <2>2, <2>5, <2>6, <2>7 DEF Next, Send, Read, Check, Refused, Lost
<1>2. QED
  BY <1>1, GateHolds, PTL DEF Spec, DecidedIsFinal

-----------------------------------------------------------------------------
(***************************************************************************)
(* The second part is about Intake, which fills the queue of work items    *)
(* that drafts are made for: its invariant and its two action properties   *)
(* hold for any mail, hooks and handlers.                                  *)
(***************************************************************************)

\* What Intake assumes of its constants.
IntakeConstants ==
    /\ NumMail \in Nat /\ Pump \notin Handlers /\ Mail \cap Hooks = {}
    /\ \A p \in Policies : p.create \in BOOLEAN

(* What a call at each point says: the steps below read it from here.       *)

\* A call at "record".
LEMMA RecordCall ==
    ASSUME NEW t, NEW c, CallSound(t, c), c.pc = "record"
    PROVE  /\ c = [pc |-> "record", msg |-> c.msg, cat |-> c.cat]
           /\ Ingests(t, c.msg) /\ c.cat \in Categories
  BY DEF CallSound, Ingesting, Judging, Examining, Operating, NoTask

\* A call at "reload".
LEMMA ReloadCall ==
    ASSUME NEW t, NEW c, CallSound(t, c), c.pc = "reload"
    PROVE  c = [pc |-> "reload", msg |-> c.msg] /\ Ingests(t, c.msg) /\ Known(c.msg)
  BY DEF CallSound, Ingesting, Judging, Examining, Operating, NoTask

\* A call at "skip".
LEMMA SkipCall ==
    ASSUME NEW t, NEW c, CallSound(t, c), c.pc = "skip"
    PROVE  /\ t # Pump /\ c = [pc |-> "skip", msg |-> c.msg, cat |-> c.cat]
           /\ Ingests(t, c.msg) /\ Known(c.msg) /\ c.cat \in Categories
  BY DEF CallSound, Ingesting, Judging, Examining, Operating, NoTask

\* A call at "emit".
LEMMA EmitCall ==
    ASSUME NEW t, NEW c, CallSound(t, c), c.pc = "emit"
    PROVE  /\ c = [pc |-> "emit", msg |-> c.msg, cat |-> c.cat]
           /\ Ingested(t, c.msg) /\ c.cat \in Categories
  BY DEF CallSound, Ingesting, Judging, Examining, Operating, NoTask

\* A call at "insert".
LEMMA InsertCall ==
    ASSUME NEW t, NEW c, CallSound(t, c), c.pc = "insert"
    PROVE  /\ c = [pc |-> "insert", msg |-> c.msg, kinds |-> c.kinds, then |-> c.then]
           /\ Known(c.msg) /\ c.kinds \subseteq PacketKinds /\ ThenSound(t, c.msg, c.then)
  BY DEF CallSound, Ingesting, Judging, Examining, Operating, NoTask

\* A call at "answer".
LEMMA AnswerCall ==
    ASSUME NEW t, NEW c, CallSound(t, c), c.pc = "answer"
    PROVE  /\ c = [pc |-> "answer", msg |-> c.msg, wanted |-> c.wanted]
           /\ Ingested(t, c.msg) /\ c.wanted \in BOOLEAN /\ (c.wanted => items[c.msg] # NoItem)
  BY DEF CallSound, Ingesting, Judging, Examining, Operating, NoTask

\* A call at "generation".
LEMMA GenerationCall ==
    ASSUME NEW t, NEW c, CallSound(t, c), c.pc = "generation"
    PROVE  Judging(t, c)
  BY DEF CallSound, Ingesting, Judging, Examining, Operating, NoTask

\* A call at "verdict".
LEMMA VerdictCall ==
    ASSUME NEW t, NEW c, CallSound(t, c), c.pc = "verdict"
    PROVE  Judging(t, c)
  BY DEF CallSound, Ingesting, Judging, Examining, Operating, NoTask

\* A call at "batch".
LEMMA BatchCall ==
    ASSUME NEW t, NEW c, CallSound(t, c), c.pc = "batch"
    PROVE  t = Pump /\ c = [pc |-> "batch", batch |-> c.batch] /\ BatchSound(c.batch)
  BY DEF CallSound, Ingesting, Judging, Examining, Operating, NoTask

\* A call at "llm".
LEMMA LlmCall ==
    ASSUME NEW t, NEW c, CallSound(t, c), c.pc = "llm"
    PROVE  /\ t = Pump
           /\ c = [pc |-> "llm", msg |-> c.msg, status |-> c.status, kinds |-> c.kinds, batch |-> c.batch]
           /\ Known(c.msg) /\ c.status = "no_suggestion" /\ c.kinds \subseteq PacketKinds
           /\ BatchSound(c.batch)
  BY DEF CallSound, Ingesting, Judging, Examining, Operating, NoTask

\* A call at "suggest".
LEMMA SuggestCall ==
    ASSUME NEW t, NEW c, CallSound(t, c), c.pc = "suggest"
    PROVE  /\ t = Pump
           /\ c = [pc |-> "suggest", msg |-> c.msg, kinds |-> c.kinds, batch |-> c.batch]
           /\ Known(c.msg) /\ c.kinds \subseteq PacketKinds /\ BatchSound(c.batch)
  BY DEF CallSound, Ingesting, Judging, Examining, Operating, NoTask

\* A call at "append".
LEMMA AppendCall ==
    ASSUME NEW t, NEW c, CallSound(t, c), c.pc = "append"
    PROVE  /\ t = Pump
           /\ c = [pc |-> "append", msg |-> c.msg, kinds |-> c.kinds,
                   then |-> [pc |-> "batch", batch |-> c.then.batch]]
           /\ Known(c.msg) /\ items[c.msg] # NoItem /\ c.kinds \subseteq PacketKinds
           /\ BatchSound(c.then.batch)
  BY DEF CallSound, Ingesting, Judging, Examining, Operating, NoTask

\* A call at "reclassify".
LEMMA ReclassifyCall ==
    ASSUME NEW t, NEW c, CallSound(t, c), c.pc = "reclassify"
    PROVE  /\ t # Pump /\ TodoSound(c.fresh, c.todo)
           /\ c = [pc |-> "reclassify", fresh |-> c.fresh, todo |-> c.todo]
  BY DEF CallSound, Ingesting, Judging, Examining, Operating, NoTask

\* A call at "reemit".
LEMMA ReemitCall ==
    ASSUME NEW t, NEW c, CallSound(t, c), c.pc = "reemit"
    PROVE  /\ t # Pump
           /\ c = [pc |-> "reemit", msg |-> c.msg, cat |-> c.cat, fresh |-> c.fresh, todo |-> c.todo]
           /\ Known(c.msg) /\ c.cat \in Categories /\ TodoSound(c.fresh, c.todo)
  BY DEF CallSound, Ingesting, Judging, Examining, Operating, NoTask

\* A call at "kinds".
LEMMA KindsCall ==
    ASSUME NEW t, NEW c, CallSound(t, c), c.pc = "kinds"
    PROVE  /\ t # Pump /\ c = [pc |-> "kinds", msg |-> c.msg, kinds |-> c.kinds]
           /\ Known(c.msg) /\ items[c.msg] # NoItem /\ c.kinds \subseteq PacketKinds
  BY DEF CallSound, Ingesting, Judging, Examining, Operating, NoTask

\* A call at "followup".
LEMMA FollowupCall ==
    ASSUME NEW t, NEW c, CallSound(t, c), c.pc = "followup"
    PROVE  t # Pump /\ c = [pc |-> "followup", msg |-> c.msg] /\ Known(c.msg)
  BY DEF CallSound, Ingesting, Judging, Examining, Operating, NoTask

-----------------------------------------------------------------------------
(* The tables only grow in what threads rely on.                            *)

Grows ==
    /\ arrived \in Nat /\ arrived' \in Nat /\ arrived <= arrived'
    /\ \A m \in Messages :
          /\ rows[m] # NoRow => /\ rows'[m] # NoRow /\ (Settled(m) => Settled(m)')
                                /\ rows[m].gen \in Nat /\ rows'[m].gen \in Nat
                                /\ rows[m].gen <= rows'[m].gen
          /\ items[m] # NoItem => items'[m] # NoItem

\* What a thread holds stays true while the tables grow.
LEMMA HeldKept ==
    ASSUME Grows, NEW t, NEW m
    PROVE  /\ Known(m) => Known(m)'
           /\ Ingests(t, m) => Ingests(t, m)'
           /\ Ingested(t, m) => Ingested(t, m)'
           /\ \A batch : BatchSound(batch) => BatchSound(batch)'
           /\ \A fresh, todo : TodoSound(fresh, todo) => TodoSound(fresh, todo)'
<1>1. \A x : Known(x) => Known(x)'
  BY DEF Grows, Known
<1>2. Ingests(t, m) => Ingests(t, m)'
  BY DEF Grows, Ingests
<1>3. Ingested(t, m) => Ingested(t, m)'
  BY <1>1, <1>2 DEF Ingested, Known, Grows
<1>4. \A batch : BatchSound(batch) => BatchSound(batch)'
  BY <1>1 DEF BatchSound
<1>5. \A fresh, todo : TodoSound(fresh, todo) => TodoSound(fresh, todo)'
  BY <1>1 DEF TodoSound
<1>6. QED
  BY <1>1, <1>2, <1>3, <1>4, <1>5

\* What an insertion goes on with stays sound.
LEMMA ThenKept ==
    ASSUME Grows, NEW t, NEW m, NEW next, ThenSound(t, m, next)
    PROVE  ThenSound(t, m, next)'
  BY HeldKept DEF ThenSound

\* So does a call.
LEMMA CallKept ==
    ASSUME Grows, NEW t, NEW c, CallSound(t, c)
    PROVE  CallSound(t, c)'
<1>1. ASSUME Ingesting(t, c) PROVE Ingesting(t, c)'
  <2>1. Known(c.msg) => (items[c.msg] # NoItem => items'[c.msg] # NoItem)
    BY DEF Known, Grows
  <2>2. QED
    BY <1>1, <2>1, HeldKept, ThenKept DEF Ingesting, Ingested
<1>2. ASSUME Judging(t, c) PROVE Judging(t, c)'
  <2>1. c.pc = "verdict" => c.gen \in 0..rows'[c.msg].gen
    BY <1>2 DEF Judging, Known, Grows
  <2>2. QED
    BY <1>2, <2>1, HeldKept DEF Judging
<1>3. ASSUME Examining(c) PROVE Examining(c)'
  <2>1. Known(c.msg) => (items[c.msg] # NoItem => items'[c.msg] # NoItem)
    BY DEF Known, Grows
  <2>2. QED
    BY <1>3, <2>1, HeldKept DEF Examining
<1>4. ASSUME Operating(c) PROVE Operating(c)'
  <2>1. Known(c.msg) => (items[c.msg] # NoItem => items'[c.msg] # NoItem)
    BY DEF Known, Grows
  <2>2. QED
    BY <1>4, <2>1, HeldKept DEF Operating
<1>5. QED
  BY <1>1, <1>2, <1>3, <1>4 DEF CallSound

\* A step of one thread: its new call is sound, and the others' are kept.
LEMMA CallsKept ==
    ASSUME Grows, CallsSound, NEW t \in Threads, NEW c, CallSound(t, c)',
           tasks' = [tasks EXCEPT ![t] = c]
    PROVE  CallsSound'
<1>1. DOMAIN tasks' = Threads /\ tasks'[t] = c /\ \A u \in Threads : u # t => tasks'[u] = tasks[u]
  BY DEF CallsSound
<1>2. ASSUME NEW u \in Threads PROVE CallSound(u, tasks[u])'
  <2>1. CASE u = t
    BY <1>1, <2>1
  <2>2. CASE u # t
    <3>1. CallSound(u, tasks[u])
      BY DEF CallsSound
    <3>2. \A d : CallSound(u, d) => CallSound(u, d)'
      BY CallKept
    <3>3. QED
      BY <1>1, <2>2, <3>1, <3>2
  <2>3. QED
    BY <2>1, <2>2
<1>3. QED
  BY <1>1, <1>2 DEF CallsSound, Threads

\* The calls stay sound when no thread moves.
LEMMA CallsStay ==
    ASSUME Grows, CallsSound, tasks' = tasks
    PROVE  CallsSound'
<1>1. ASSUME NEW u \in Threads PROVE CallSound(u, tasks[u])'
  <2>1. CallSound(u, tasks[u])
    BY DEF CallsSound
  <2>2. \A d : CallSound(u, d) => CallSound(u, d)'
    BY CallKept
  <2>3. QED
    BY <2>1, <2>2
<1>2. QED
  BY <1>1 DEF CallsSound, Threads

-----------------------------------------------------------------------------
(* Steps that leave the tables alone.                                       *)

\* Nobody is both the pump and a request.
LEMMA IntakeThreads ==
    ASSUME IntakeConstants
    PROVE  Pump \in Threads /\ \A h \in Handlers : h \in Threads /\ h # Pump
  BY DEF IntakeConstants, Threads

\* The tables stay as they are.
Still == UNCHANGED <<arrived, rows, items, applied, cursor, handled>>

\* Nothing is lost when no table changes.
LEMMA StillGrows ==
    ASSUME IntakeTypeOK, IntakeConstants, Still
    PROVE  Grows
  BY DEF IntakeTypeOK, IntakeConstants, Still, Grows, Settled, Row, NoRow

\* A step that leaves the tables alone and the calls sound keeps the invariant.
LEMMA StillKeeps ==
    ASSUME IntakeInv, IntakeConstants, Still, CallsSound',
           rules' \in [Messages -> Categories], policy' \in [Categories -> Policies]
    PROVE  IntakeInv'
<1>1. IntakeTypeOK'
  BY DEF IntakeInv, IntakeTypeOK, Still
<1>2. HandledIsComplete' /\ AcceptedHookIsSettled'
  BY DEF IntakeInv, HandledIsComplete, AcceptedHookIsSettled, Settled, Still
<1>3. KeysSound'
  BY DEF IntakeInv, KeysSound, Still
<1>4. QED
  BY <1>1, <1>2, <1>3 DEF IntakeInv

\* A thread goes on; nothing else changes but the counters of the bounds.
LEMMA ThreadMoves ==
    ASSUME IntakeInv, IntakeConstants, Still, rules' = rules, policy' = policy,
           NEW t \in Threads, NEW c, tasks' = [tasks EXCEPT ![t] = c], CallSound(t, c)
    PROVE  IntakeInv'
<1>1. Grows
  BY StillGrows DEF IntakeInv
<1>2. CallsSound'
  BY <1>1, CallKept, CallsKept DEF IntakeInv
<1>3. QED
  BY <1>2, StillKeeps DEF IntakeInv, IntakeTypeOK

\* A thread that gives up.
LEMMA IdleSound ==
    ASSUME NEW t
    PROVE  CallSound(t, NoTask) /\ CallSound(Pump, [pc |-> "triage"])
  BY DEF CallSound, Ingesting, Examining

\* The call of a thread, and what is known of it.
LEMMA CallOf ==
    ASSUME IntakeInv, NEW t \in Threads
    PROVE  CallSound(t, tasks[t])
  BY DEF IntakeInv, CallsSound

\* The rows and items there are.
LEMMA TablesOf ==
    ASSUME IntakeTypeOK, NEW m \in Messages
    PROVE  /\ rows[m] # NoRow => /\ rows[m] = [cat |-> rows[m].cat, status |-> rows[m].status,
                                              gen |-> rows[m].gen]
                                 /\ rows[m].cat \in Categories /\ rows[m].status \in Verdicts
                                 /\ rows[m].gen \in Nat
           /\ items[m] # NoItem => /\ items[m] = [status |-> items[m].status, kinds |-> items[m].kinds]
                                   /\ items[m].status \in {"open", "dismissed"}
                                   /\ items[m].kinds \subseteq PacketKinds /\ rows[m] # NoRow
           /\ rows[m] = NoRow \/ rows[m] # NoRow
  BY DEF IntakeTypeOK, Row, Item

\* A policy's kinds.
LEMMA PolicyKinds ==
    ASSUME IntakeTypeOK, IntakeConstants, NEW cat \in Categories
    PROVE  /\ policy[cat].kinds \subseteq PacketKinds /\ policy[cat].aiKinds \subseteq PacketKinds
           /\ \A m : Gated(policy[cat].kinds, m) \subseteq PacketKinds
<1>1. policy[cat] \in Policies
  BY DEF IntakeTypeOK
<1>2. QED
  BY <1>1 DEF PacketKinds, Gated

\* poll_once and the webhook's ingest.
LEMMA LookupKeeps ==
    ASSUME IntakeInv, IntakeConstants, NEW t \in Threads, NEW m \in Messages, Ingests(t, m),
           Goto(t, IF rows[m] = NoRow THEN NewMessage(m) ELSE KnownMessage(m)),
           UNCHANGED <<sources, db, bounds>>
    PROVE  IntakeInv'
<1>1. Still /\ rules' = rules /\ policy' = policy
  BY DEF sources, db, bounds, Still
<1>2. CallSound(t, NewMessage(m))
  BY DEF CallSound, Ingesting, NewMessage, IntakeInv, IntakeTypeOK
<1>3. ASSUME rows[m] # NoRow PROVE CallSound(t, KnownMessage(m))
  BY <1>3 DEF CallSound, Ingesting, KnownMessage, Known
<1>4. QED
  BY <1>1, <1>2, <1>3, ThreadMoves DEF Goto

\* poll_once: the oldest mail that is not yet behind the cursor is looked up.
LEMMA PollKeeps ==
    ASSUME IntakeInv, IntakeConstants, Poll
    PROVE  IntakeInv'
<1>1. CASE cursor = 0 /\ arrived = 0
  BY <1>1, IntakeThreads, IdleSound, ThreadMoves DEF Poll, Goto, sources, db, bounds, Still
<1>2. ASSUME NEW m, m = (IF cursor # 0 THEN cursor ELSE arrived), m # 0
      PROVE  IntakeInv'
  <2>1. m \in Messages /\ Ingests(Pump, m)
    BY <1>2 DEF IntakeInv, IntakeTypeOK, IntakeConstants, Messages, Mail, Ingests
  <2>2. QED
    BY <1>2, <2>1, IntakeThreads, LookupKeeps DEF Poll
<1>3. QED
  BY <1>1, <1>2

\* A webhook delivery is looked up the same way.
LEMMA DeliverKeeps ==
    ASSUME IntakeInv, IntakeConstants, NEW h \in Handlers, NEW m \in Hooks, Deliver(h, m)
    PROVE  IntakeInv'
<1>1. m \in Messages /\ Ingests(h, m) /\ h \in Threads
  BY IntakeThreads DEF Messages, Ingests
<1>2. QED
  BY <1>1, LookupKeeps DEF Deliver, catalog, sources

\* The stored record of a known message is read.
LEMMA ReloadKeeps ==
    ASSUME IntakeInv, IntakeConstants, NEW t \in Threads, Reload(t)
    PROVE  IntakeInv'
<1> DEFINE m == tasks[t].msg
           Next1 == [pc |-> IF t = Pump THEN "emit" ELSE "skip", msg |-> m, cat |-> rows[m].cat]
<1>1. Ingests(t, m) /\ Known(m)
  BY CallOf, ReloadCall DEF Reload
<1>2. rows[m].cat \in Categories
  BY <1>1, TablesOf DEF IntakeInv, Known
<1>3. CallSound(t, Next1)
  BY <1>1, <1>2 DEF CallSound, Ingesting, Ingested
<1>4. Still /\ rules' = rules /\ policy' = policy /\ tasks' = [tasks EXCEPT ![t] = Next1]
  BY DEF Reload, Goto, Msg, catalog, db, bounds, Still
<1>5. QED
  BY <1>3, <1>4, ThreadMoves

\* skip_ai.
LEMMA SkipAiKeeps ==
    ASSUME IntakeInv, IntakeConstants, NEW t \in Threads, SkipAi(t)
    PROVE  IntakeInv'
<1> DEFINE m == tasks[t].msg
           Next1 == IF rows[m].status # "none" THEN [tasks[t] EXCEPT !.pc = "emit"]
                    ELSE [pc |-> "generation", msg |-> m, cat |-> tasks[t].cat,
                          status |-> "skipped", kinds |-> {}]
<1>1. /\ t # Pump /\ tasks[t] = [pc |-> "skip", msg |-> m, cat |-> tasks[t].cat]
      /\ Ingests(t, m) /\ Known(m) /\ tasks[t].cat \in Categories
  BY CallOf, SkipCall DEF SkipAi
<1>2. ASSUME rows[m].status # "none" PROVE CallSound(t, Next1)
  <2>1. Next1 = [pc |-> "emit", msg |-> m, cat |-> tasks[t].cat]
    BY <1>1, <1>2
  <2>2. CallSound(t, Next1)
    BY <1>1, <1>2, <2>1 DEF CallSound, Ingesting, Ingested, Settled
  <2>3. QED
    BY <2>2
<1>3. ASSUME rows[m].status = "none" PROVE CallSound(t, Next1)
  <2>1. Next1 = [pc |-> "generation", msg |-> m, cat |-> tasks[t].cat,
                 status |-> "skipped", kinds |-> {}]
    BY <1>3
  <2>2. CallSound(t, Next1)
    BY <1>1, <2>1 DEF CallSound, Judging, Verdicts
  <2>3. QED
    BY <2>2
<1>4. Still /\ rules' = rules /\ policy' = policy /\ tasks' = [tasks EXCEPT ![t] = Next1]
  BY DEF SkipAi, Goto, Msg, catalog, db, bounds, Still
<1>5. QED
  BY <1>2, <1>3, <1>4, ThreadMoves

\* emit_for_inbound_message_with_overlay, up to the insert.
LEMMA EmitReadKeeps ==
    ASSUME IntakeInv, IntakeConstants, NEW t \in Threads, EmitRead(t)
    PROVE  IntakeInv'
<1> DEFINE m == tasks[t].msg
           wanted == WantsItem(policy[tasks[t].cat], m)
           kinds == Gated(policy[tasks[t].cat].kinds, m)
           Next1 == IF items[m] # NoItem THEN AfterEmit(t, TRUE)
                    ELSE IF ~wanted THEN AfterEmit(t, FALSE)
                    ELSE [pc |-> "insert", msg |-> m, kinds |-> kinds, then |-> AfterEmit(t, TRUE)]
<1>1. /\ Known(m) /\ tasks[t].cat \in Categories
      /\ \/ tasks[t].pc = "emit" /\ Ingested(t, m)
         \/ tasks[t].pc = "reemit" /\ t # Pump /\ TodoSound(tasks[t].fresh, tasks[t].todo)
  BY CallOf, EmitCall, ReemitCall DEF EmitRead, Ingested
<1>2. kinds \subseteq PacketKinds
  BY <1>1, PolicyKinds DEF IntakeInv
<1>3. ThenSound(t, m, AfterEmit(t, TRUE))
  BY <1>1 DEF ThenSound, AfterEmit, Msg
<1>4. items[m] # NoItem => CallSound(t, AfterEmit(t, TRUE))
  BY <1>1 DEF AfterEmit, Msg, CallSound, Ingesting, Operating
<1>5. CallSound(t, AfterEmit(t, FALSE))
  BY <1>1 DEF AfterEmit, Msg, CallSound, Ingesting, Operating
<1>6. CallSound(t, [pc |-> "insert", msg |-> m, kinds |-> kinds, then |-> AfterEmit(t, TRUE)])
  BY <1>1, <1>2, <1>3 DEF CallSound, Ingesting
<1>7. CallSound(t, Next1)
  BY <1>4, <1>5, <1>6
<1>8. Still /\ rules' = rules /\ policy' = policy /\ tasks' = [tasks EXCEPT ![t] = Next1]
  BY DEF EmitRead, Goto, Msg, catalog, db, bounds, Still
<1>9. QED
  BY <1>7, <1>8, ThreadMoves

\* run_ai_triage_pass reads its batch.
LEMMA TriageBatchKeeps ==
    ASSUME IntakeInv, IntakeConstants, TriageBatch
    PROVE  IntakeInv'
<1> DEFINE B == {<<m, rows[m].cat>> : m \in {x \in Messages : Unexamined(x)}}
<1>1. BatchSound(B)
  <2>1. \A m \in {x \in Messages : Unexamined(x)} : Known(m) /\ rows[m].cat \in Categories
    BY TablesOf DEF IntakeInv, Unexamined, Known
  <2>2. QED
    BY <2>1 DEF BatchSound
<1>2. CallSound(Pump, [pc |-> "batch", batch |-> B])
  BY <1>1 DEF CallSound, Examining
<1>3. Still /\ rules' = rules /\ policy' = policy
      /\ tasks' = [tasks EXCEPT ![Pump] = [pc |-> "batch", batch |-> B]]
  BY DEF TriageBatch, Goto, catalog, db, bounds, Still
<1>4. QED
  BY <1>2, <1>3, IntakeThreads, ThreadMoves

\* One message of the batch.
LEMMA ExamineKeeps ==
    ASSUME IntakeInv, IntakeConstants, Examine
    PROVE  IntakeInv'
<1>1. tasks[Pump].pc = "batch" /\ BatchSound(tasks[Pump].batch)
  BY IntakeThreads, CallOf, BatchCall DEF Examine
<1>2. PICK e \in tasks[Pump].batch :
         Goto(Pump, [pc |-> IF policy[e[2]].aiKinds = {} THEN "generation" ELSE "llm", msg |-> e[1],
                     status |-> "no_suggestion", kinds |-> policy[e[2]].aiKinds,
                     batch |-> tasks[Pump].batch \ {e}])
  BY DEF Examine
<1> DEFINE kinds == policy[e[2]].aiKinds
           rest == tasks[Pump].batch \ {e}
           Next1 == [pc |-> IF kinds = {} THEN "generation" ELSE "llm", msg |-> e[1],
                     status |-> "no_suggestion", kinds |-> kinds, batch |-> rest]
<1>3. Known(e[1]) /\ kinds \subseteq PacketKinds /\ BatchSound(rest)
  BY <1>1, PolicyKinds DEF BatchSound, IntakeInv
<1>4. CallSound(Pump, Next1)
  <2> HIDE DEF kinds, rest
  <2>1. CASE kinds = {}
    BY <1>3, <2>1 DEF CallSound, Judging, Verdicts
  <2>2. CASE kinds # {}
    BY <1>3, <2>2 DEF CallSound, Examining
  <2>3. QED
    BY <2>1, <2>2
<1>5. Still /\ rules' = rules /\ policy' = policy /\ tasks' = [tasks EXCEPT ![Pump] = Next1]
  BY <1>2 DEF Examine, Goto, catalog, db, bounds, Still
<1>6. QED
  BY <1>4, <1>5, IntakeThreads, ThreadMoves

\* The LLM's answer.
LEMMA LlmKeeps ==
    ASSUME IntakeInv, IntakeConstants, LlmAnswers
    PROVE  IntakeInv'
<1> DEFINE c == tasks[Pump]
           Plain(s) == [c EXCEPT !.pc = "generation", !.status = s]
           Ruled(k) == [c EXCEPT !.pc = "generation", !.status = "suggested", !.kinds = k]
<1>1. /\ c = [pc |-> "llm", msg |-> c.msg, status |-> c.status, kinds |-> c.kinds, batch |-> c.batch]
      /\ Known(c.msg) /\ c.kinds \subseteq PacketKinds /\ BatchSound(c.batch)
  BY IntakeThreads, CallOf, LlmCall DEF LlmAnswers
<1>2. DOMAIN c = {"pc", "msg", "status", "kinds", "batch"}
  BY <1>1
<1>3. ASSUME NEW s \in {"no_suggestion", "error"} PROVE CallSound(Pump, Plain(s))
  <2>1. /\ Plain(s).pc = "generation" /\ Plain(s).msg = c.msg /\ Plain(s).status = s
        /\ Plain(s).kinds = c.kinds /\ Plain(s).batch = c.batch /\ DOMAIN Plain(s) = DOMAIN c
    BY <1>2
  <2> HIDE DEF Plain, c
  <2>2. QED
    BY <1>1, <1>2, <1>3, <2>1 DEF CallSound, Judging, Verdicts
<1>4. ASSUME NEW k \in SUBSET c.kinds PROVE CallSound(Pump, Ruled(k))
  <2>1. /\ Ruled(k).pc = "generation" /\ Ruled(k).msg = c.msg /\ Ruled(k).status = "suggested"
        /\ Ruled(k).kinds = k /\ Ruled(k).batch = c.batch /\ DOMAIN Ruled(k) = DOMAIN c
    BY <1>2
  <2> HIDE DEF Ruled, c
  <2>2. QED
    BY <1>1, <1>2, <1>4, <2>1 DEF CallSound, Judging, Verdicts
<1>5. Still /\ rules' = rules /\ policy' = policy
  BY DEF LlmAnswers, catalog, db, bounds, Still
<1>6. CASE \E s \in {"no_suggestion", "error"} : Goto(Pump, Plain(s))
  BY <1>3, <1>5, <1>6, IntakeThreads, ThreadMoves DEF Goto
<1>7. CASE \E k \in (SUBSET c.kinds) \ {{}} : Goto(Pump, Ruled(k))
  BY <1>4, <1>5, <1>7, IntakeThreads, ThreadMoves DEF Goto
<1>8. QED
  BY <1>6, <1>7 DEF LlmAnswers

\* set_ai_triage_result reads the generation.
LEMMA GenerationReadKeeps ==
    ASSUME IntakeInv, IntakeConstants, NEW t \in Threads, GenerationRead(t)
    PROVE  IntakeInv'
<1> DEFINE c == tasks[t]
           Next1 == [x \in DOMAIN c \cup {"gen"} |->
                       CASE x = "pc" -> "verdict" [] x = "gen" -> rows[c.msg].gen [] OTHER -> c[x]]
<1>1. Judging(t, c) /\ c.pc = "generation"
  BY CallOf, GenerationCall DEF GenerationRead
<1>2. rows[c.msg].gen \in Nat
  BY <1>1, TablesOf DEF Judging, Known, IntakeInv
<1>3. /\ {"pc", "msg", "status", "kinds"} \subseteq DOMAIN c /\ "gen" \notin DOMAIN c
      /\ t = Pump => "batch" \in DOMAIN c
      /\ t # Pump => "cat" \in DOMAIN c
  BY <1>1 DEF Judging
<1>4. /\ Next1.pc = "verdict" /\ Next1.gen = rows[c.msg].gen /\ Next1.msg = c.msg
      /\ Next1.status = c.status /\ Next1.kinds = c.kinds
      /\ t = Pump => Next1.batch = c.batch
      /\ t # Pump => Next1.cat = c.cat
      /\ DOMAIN Next1 = DOMAIN c \cup {"gen"}
  BY <1>3
<1>5. Judging(t, Next1)
  <2> HIDE DEF Next1, c
  <2>1. QED
    BY <1>1, <1>2, <1>4 DEF Judging
<1>6. Still /\ rules' = rules /\ policy' = policy /\ tasks' = [tasks EXCEPT ![t] = Next1]
  BY DEF GenerationRead, Goto, Msg, catalog, db, bounds, Still
<1>7. QED
  BY <1>5, <1>6, ThreadMoves DEF CallSound


\* emit_ai_suggested_item, up to its write.
LEMMA SuggestKeeps ==
    ASSUME IntakeInv, IntakeConstants, Suggest
    PROVE  IntakeInv'
<1> DEFINE c == tasks[Pump]
           next == [pc |-> "batch", batch |-> c.batch]
           merged == items[c.msg].kinds \cup c.kinds
           Insert == [pc |-> "insert", msg |-> c.msg, kinds |-> c.kinds, then |-> next]
           Merge == [pc |-> "append", msg |-> c.msg, kinds |-> merged, then |-> next]
<1>1. Known(c.msg) /\ c.kinds \subseteq PacketKinds /\ BatchSound(c.batch)
  BY IntakeThreads, CallOf, SuggestCall DEF Suggest
<1>2. CallSound(Pump, next)
  BY <1>1 DEF CallSound, Examining
<1>3. CallSound(Pump, Insert)
  <2>1. ThenSound(Pump, c.msg, next)
    BY <1>1 DEF ThenSound
  <2>2. QED
    BY <1>1, <2>1 DEF CallSound, Ingesting
<1>4. items[c.msg] # NoItem => CallSound(Pump, Merge)
  <2>1. items[c.msg] # NoItem => items[c.msg].kinds \subseteq PacketKinds
    BY <1>1, TablesOf DEF IntakeInv, Known
  <2>2. QED
    BY <1>1, <2>1 DEF CallSound, Examining
<1>5. /\ Still /\ rules' = rules /\ policy' = policy
      /\ \/ tasks' = [tasks EXCEPT ![Pump] = next]
         \/ tasks' = [tasks EXCEPT ![Pump] = Insert]
         \/ items[c.msg] # NoItem /\ tasks' = [tasks EXCEPT ![Pump] = Merge]
  BY DEF Suggest, Goto, Msg, catalog, db, bounds, Still
<1>6. QED
  BY <1>2, <1>3, <1>4, <1>5, IntakeThreads, ThreadMoves

\* reclassify_all reads the messages.
LEMMA ReclassifyStartKeeps ==
    ASSUME IntakeInv, IntakeConstants, NEW h \in Handlers, ReclassifyStart(h)
    PROVE  IntakeInv'
<1> DEFINE known == {m \in Messages : rows[m] # NoRow}
           fresh == [m \in known |-> rules[m]]
           todo == {<<m, rows[m].cat>> : m \in known}
<1>1. TodoSound(fresh, todo)
  <2>1. \A m \in known : Known(m) /\ rules[m] \in Categories
    BY DEF IntakeInv, IntakeTypeOK, Known
  <2>2. \A e \in todo : e[1] \in known
    OBVIOUS
  <2>3. QED
    BY <2>1, <2>2 DEF TodoSound
<1>2. CallSound(h, [pc |-> "reclassify", fresh |-> fresh, todo |-> todo])
  BY <1>1, IntakeThreads DEF CallSound, Operating
<1>3. /\ Still /\ rules' = rules /\ policy' = policy
      /\ tasks' = [tasks EXCEPT ![h] = [pc |-> "reclassify", fresh |-> fresh, todo |-> todo]]
  BY DEF ReclassifyStart, Goto, catalog, db, Still
<1>4. QED
  BY <1>2, <1>3, IntakeThreads, ThreadMoves

\* The operators' reads before their writes.
LEMMA OperatorReadsKeep ==
    ASSUME IntakeInv, IntakeConstants, NEW h \in Handlers, NEW m \in Messages,
           UpdateKindsRead(h, m) \/ FollowUpRead(h, m)
    PROVE  IntakeInv'
<1>1. Still /\ rules' = rules /\ policy' = policy
  BY DEF UpdateKindsRead, FollowUpRead, catalog, db, Still
<1>2. ASSUME items[m] # NoItem, NEW kinds \in SUBSET PacketKinds
      PROVE  CallSound(h, [pc |-> "kinds", msg |-> m, kinds |-> kinds])
  BY <1>2, TablesOf, IntakeThreads DEF CallSound, Operating, Known, IntakeInv
<1>3. rows[m] # NoRow => CallSound(h, [pc |-> "followup", msg |-> m])
  BY IntakeThreads DEF CallSound, Operating, Known
<1>4. FollowUp \in PacketKinds
  BY DEF PacketKinds
<1>5. CASE UpdateKindsRead(h, m)
  <2>1. items[m] # NoItem
    BY <1>5 DEF UpdateKindsRead
  <2>2. PICK kinds \in {{}, {FollowUp}} :
           tasks' = [tasks EXCEPT ![h] = [pc |-> "kinds", msg |-> m, kinds |-> kinds]]
    BY <1>5 DEF UpdateKindsRead, Goto
  <2>3. kinds \in SUBSET PacketKinds
    BY <1>4, <2>2
  <2>4. QED
    BY <1>1, <1>2, <2>1, <2>2, <2>3, IntakeThreads, ThreadMoves
<1>6. CASE FollowUpRead(h, m)
  <2>1. rows[m] # NoRow
    BY <1>6 DEF FollowUpRead
  <2>2. CASE items[m] = NoItem
    BY <1>1, <1>3, <1>6, <2>1, <2>2, IntakeThreads, ThreadMoves DEF FollowUpRead, Goto
  <2>3. CASE items[m] # NoItem
    <3>1. items[m].kinds \cup {FollowUp} \in SUBSET PacketKinds
      BY <1>4, <2>3, TablesOf DEF IntakeInv
    <3>2. tasks' = [tasks EXCEPT ![h] = [pc |-> "kinds", msg |-> m,
                                         kinds |-> items[m].kinds \cup {FollowUp}]]
      BY <1>6, <2>3 DEF FollowUpRead, Goto
    <3>3. QED
      BY <1>1, <1>2, <2>3, <3>1, <3>2, IntakeThreads, ThreadMoves
  <2>4. QED
    BY <2>2, <2>3
<1>7. QED
  BY <1>5, <1>6

\* A refused write: the thread goes on with what it had.
LEMMA BusyKeeps ==
    ASSUME IntakeInv, IntakeConstants, NEW t \in Threads, Busy(t)
    PROVE  IntakeInv'
<1>1. Still /\ rules' = rules /\ policy' = policy
  BY DEF Busy, catalog, db, Still
<1>2. CallSound(t, tasks[t]) /\ CallSound(t, NoTask)
  BY CallOf, IdleSound
<1>3. ASSUME t = Pump PROVE CallSound(t, [pc |-> "triage"])
  BY <1>3, IdleSound
<1>4. ASSUME t = Pump, tasks[t].pc = "insert", tasks[t].then.pc = "batch"
      PROVE  CallSound(t, tasks[t].then)
  <2> DEFINE next == tasks[t].then
  <2>1. ThenSound(t, tasks[t].msg, next)
    BY <1>2, <1>4, InsertCall
  <2>2. next = [pc |-> "batch", batch |-> next.batch] /\ BatchSound(next.batch)
    BY <1>4, <2>1 DEF ThenSound
  <2>3. QED
    BY <1>4, <2>2 DEF CallSound, Examining
<1>5. ASSUME t = Pump, tasks[t].pc = "append" PROVE CallSound(t, tasks[t].then)
  BY <1>2, <1>5, AppendCall DEF CallSound, Examining
<1>6. ASSUME t = Pump, tasks[t].pc = "verdict"
      PROVE  CallSound(t, [pc |-> "batch", batch |-> tasks[t].batch])
  BY <1>2, <1>6, VerdictCall DEF Judging, CallSound, Examining
<1>7. ASSUME NEW c, CallSound(t, c), Goto(t, c) PROVE IntakeInv'
  BY <1>1, <1>7, ThreadMoves DEF Goto
<1>8. QED
  BY <1>2, <1>3, <1>4, <1>5, <1>6, <1>7 DEF Busy

\* A restart, and what does not touch a thread.
LEMMA RestartKeeps ==
    ASSUME IntakeInv, IntakeConstants, Restart
    PROVE  IntakeInv'
<1>1. Still /\ rules' = rules /\ policy' = policy /\ tasks' = [t \in Threads |-> NoTask]
  BY DEF Restart, catalog, db, Still
<1>2. ASSUME NEW u \in Threads PROVE CallSound(u, tasks[u])'
  BY <1>1 DEF CallSound, Ingesting, NoTask
<1>3. CallsSound'
  BY <1>1, <1>2 DEF CallsSound, Threads
<1>4. QED
  BY <1>1, <1>3, StillKeeps DEF IntakeInv, IntakeTypeOK

\* The operator edits the rules or the policy of a category; the parsers see a
\* stored message.
LEMMA CatalogEditsKeep ==
    ASSUME IntakeInv, IntakeConstants,
           \/ EditRules \/ EditPolicy \/ UNCHANGED intakeVars
           \/ \E m \in Messages : Backfill(m)
    PROVE  IntakeInv'
<1>1. Still /\ tasks' = tasks
  BY DEF EditRules, EditPolicy, Backfill, intakeVars, sources, db, Still
<1>2. rules' \in [Messages -> Categories] /\ policy' \in [Categories -> Policies]
  BY DEF EditRules, EditPolicy, Backfill, intakeVars, sources, IntakeInv, IntakeTypeOK
<1>3. Grows
  BY <1>1, StillGrows DEF IntakeInv
<1>4. QED
  BY <1>1, <1>2, <1>3, CallsStay, StillKeeps DEF IntakeInv

\* A poll that fails, and the end of a triage pass.
LEMMA PumpEndsKeep ==
    ASSUME IntakeInv, IntakeConstants, PollFails \/ TriageDone
    PROVE  IntakeInv'
  BY IdleSound, IntakeThreads, ThreadMoves
     DEF PollFails, TriageDone, Done, Goto, catalog, db, bounds, Still

-----------------------------------------------------------------------------
(* Steps that write tables.                                                 *)

\* What was answered for stays true.
LEMMA HandledKept ==
    ASSUME IntakeInv, Grows, handled' = handled
    PROVE  HandledIsComplete' /\ AcceptedHookIsSettled'
<1>1. \A e \in handled : e[1] \in Messages /\ rows[e[1]] # NoRow
  BY DEF IntakeInv, IntakeTypeOK, HandledIsComplete
<1>2. HandledIsComplete'
  BY <1>1 DEF IntakeInv, HandledIsComplete, Grows
<1>3. ASSUME NEW m \in Hooks, NEW e \in handled, e[1] = m PROVE Settled(m)'
  <2>1. Settled(m) /\ m \in Messages /\ rows[m] # NoRow
    BY <1>1, <1>3 DEF IntakeInv, AcceptedHookIsSettled
  <2>2. QED
    BY <2>1 DEF Grows
<1>4. AcceptedHookIsSettled'
  BY <1>3 DEF AcceptedHookIsSettled
<1>5. QED
  BY <1>2, <1>4

\* Items change, and no item disappears.
LEMMA ItemsGrow ==
    ASSUME IntakeInv, IntakeConstants, UNCHANGED <<arrived, rows>>,
           \A m \in Messages : items[m] # NoItem => items'[m] # NoItem
    PROVE  Grows
  BY TablesOf DEF IntakeInv, IntakeConstants, IntakeTypeOK, Grows, Settled

\* A step that writes items and keys that are not verdicts.
LEMMA ItemsKeep ==
    ASSUME IntakeInv, IntakeConstants, UNCHANGED <<catalog, rows, cursor, handled>>,
           items' \in [Messages -> Item], applied \subseteq applied',
           \A k \in applied' \ applied : /\ k[1] # "verdict"
                                         /\ k[1] = "emit" => k[2] \in Messages /\ items'[k[2]] # NoItem,
           \A m \in Messages : /\ items[m] # NoItem => items'[m] # NoItem
                               /\ items'[m] # NoItem => rows[m] # NoRow,
           CallsSound'
    PROVE  IntakeInv'
<1>1. Grows
  BY ItemsGrow DEF catalog
<1>2. IntakeTypeOK'
  BY DEF IntakeInv, IntakeTypeOK, catalog
<1>3. KeysSound'
  <2>1. ASSUME NEW k \in applied'
        PROVE  /\ k[1] = "emit" => k[2] \in Messages /\ items'[k[2]] # NoItem
               /\ k[1] = "verdict" => /\ k[2] \in Messages /\ rows'[k[2]] # NoRow
                                      /\ k[3] \in 0..rows'[k[2]].gen
    BY <2>1 DEF IntakeInv, KeysSound
  <2>2. ASSUME NEW m \in Messages, rows'[m] # NoRow, NEW g \in 0..rows'[m].gen
        PROVE  <<"verdict", m, g>> \in applied' <=> g < rows'[m].gen \/ rows'[m].status # "none"
    <3>1. <<"verdict", m, g>> \in applied' <=> <<"verdict", m, g>> \in applied
      OBVIOUS
    <3>2. QED
      BY <2>2, <3>1 DEF IntakeInv, KeysSound
  <2>3. QED
    BY <2>1, <2>2 DEF KeysSound
<1>4. QED
  BY <1>1, <1>2, <1>3, HandledKept DEF IntakeInv

\* An insert: an item is there afterwards, and none is replaced.
LEMMA InsertedIs ==
    ASSUME IntakeTypeOK, NEW m \in Messages, NEW kinds \in SUBSET PacketKinds, rows[m] # NoRow
    PROVE  /\ Inserted(m, kinds) \in [Messages -> Item] /\ Inserted(m, kinds)[m] # NoItem
           /\ \A x \in Messages : /\ items[x] # NoItem => Inserted(m, kinds)[x] = items[x]
                                  /\ Inserted(m, kinds)[x] # NoItem => rows[x] # NoRow
  BY DEF IntakeTypeOK, Inserted, Item, NoItem

\* insert_item.
LEMMA InsertItemKeeps ==
    ASSUME IntakeInv, IntakeConstants, NEW t \in Threads, InsertItem(t)
    PROVE  IntakeInv'
<1>0. PICK m, c, kinds : m = tasks[t].msg /\ c = tasks[t].then /\ kinds = tasks[t].kinds
  OBVIOUS
<1>1. Known(m) /\ kinds \in SUBSET PacketKinds /\ ThenSound(t, m, c)
  BY <1>0, CallOf, InsertCall DEF InsertItem
<1>2. /\ items' = (IF <<"emit", m>> \in applied THEN items ELSE Inserted(m, kinds))
      /\ applied' = applied \cup {<<"emit", m>>} /\ tasks' = [tasks EXCEPT ![t] = c]
      /\ UNCHANGED <<catalog, rows, cursor, bounds>>
  BY <1>0 DEF InsertItem, Msg, Goto
<1>3. /\ items' \in [Messages -> Item] /\ items'[m] # NoItem
      /\ \A x \in Messages : /\ items[x] # NoItem => items'[x] = items[x]
                             /\ items'[x] # NoItem => rows[x] # NoRow
  <2>1. CASE <<"emit", m>> \in applied
    <3>1. items' = items /\ items[m] # NoItem
      BY <1>2, <2>1 DEF IntakeInv, KeysSound
    <3>2. QED
      BY <3>1 DEF IntakeInv, IntakeTypeOK
  <2>2. CASE <<"emit", m>> \notin applied
    BY <1>1, <1>2, <2>2, InsertedIs DEF IntakeInv, Known
  <2>3. QED
    BY <2>1, <2>2
<1>4. Grows
  BY <1>2, <1>3, ItemsGrow DEF catalog
<1>5. CallSound(t, c)'
  <2>1. ThenSound(t, m, c)'
    BY <1>1, <1>4, ThenKept
  <2>2. CASE c = [pc |-> "answer", msg |-> m, wanted |-> TRUE] /\ Ingested(t, m)'
    BY <1>3, <2>2 DEF CallSound, Ingesting
  <2>3. CASE /\ t # Pump /\ c.pc = "reclassify" /\ TodoSound(c.fresh, c.todo)'
             /\ c = [pc |-> "reclassify", fresh |-> c.fresh, todo |-> c.todo]
    BY <2>3 DEF CallSound, Operating
  <2>4. CASE /\ t = Pump /\ c.pc = "batch" /\ BatchSound(c.batch)'
             /\ c = [pc |-> "batch", batch |-> c.batch]
    BY <2>4 DEF CallSound, Examining
  <2>5. QED
    BY <2>1, <2>2, <2>3, <2>4 DEF ThenSound
<1>6. CallsSound'
  BY <1>2, <1>4, <1>5, CallsKept DEF IntakeInv
<1>7. \A k \in applied' \ applied : k[1] = "emit" /\ k[2] = m
  BY <1>2
<1>8. QED
  BY <1>1, <1>2, <1>3, <1>6, <1>7, ItemsKeep DEF bounds, Known

\* append_ai_packet_kinds writes the merged kinds.
LEMMA AppendKindsKeeps ==
    ASSUME IntakeInv, IntakeConstants, AppendKinds
    PROVE  IntakeInv'
<1>0. PICK m, c, kinds : m = tasks[Pump].msg /\ c = tasks[Pump].then /\ kinds = tasks[Pump].kinds
  OBVIOUS
<1>1. /\ Known(m) /\ items[m] # NoItem /\ kinds \in SUBSET PacketKinds
      /\ c = [pc |-> "batch", batch |-> c.batch] /\ BatchSound(c.batch)
  BY <1>0, IntakeThreads, CallOf, AppendCall DEF AppendKinds
<1>2. /\ items' = (IF <<"append", m, kinds>> \in applied THEN items
                   ELSE [items EXCEPT ![m].kinds = kinds])
      /\ applied' = applied \cup {<<"append", m, kinds>>} /\ tasks' = [tasks EXCEPT ![Pump] = c]
      /\ UNCHANGED <<catalog, rows, cursor, bounds>>
  BY <1>0 DEF AppendKinds, Msg, Goto
<1>3. /\ items' \in [Messages -> Item]
      /\ \A x \in Messages : /\ items[x] # NoItem => items'[x] # NoItem
                             /\ items'[x] # NoItem => rows[x] # NoRow
  BY <1>1, <1>2, TablesOf DEF IntakeInv, IntakeTypeOK, Item, NoItem, Known
<1>4. Grows
  BY <1>2, <1>3, ItemsGrow DEF catalog
<1>5. CallSound(Pump, c)'
  BY <1>1, <1>4, HeldKept DEF CallSound, Examining
<1>6. CallsSound'
  BY <1>2, <1>4, <1>5, IntakeThreads, CallsKept DEF IntakeInv
<1>7. \A k \in applied' \ applied : k[1] = "append"
  BY <1>2
<1>8. QED
  BY <1>2, <1>3, <1>6, <1>7, ItemsKeep DEF bounds

\* An operator's decision.
LEMMA ItemActionKeeps ==
    ASSUME IntakeInv, IntakeConstants, NEW m \in Messages, ItemAction(m)
    PROVE  IntakeInv'
<1>1. PICK status \in {"open", "dismissed"} : items' = [items EXCEPT ![m].status = status]
  BY DEF ItemAction
<1>2. items[m] # NoItem /\ UNCHANGED <<catalog, rows, applied, cursor, tasks, bounds>>
  BY DEF ItemAction
<1>3. /\ items' \in [Messages -> Item]
      /\ \A x \in Messages : /\ items[x] # NoItem => items'[x] # NoItem
                             /\ items'[x] # NoItem => rows[x] # NoRow
  BY <1>1, <1>2, TablesOf DEF IntakeInv, IntakeTypeOK, Item, NoItem
<1>4. Grows
  BY <1>2, <1>3, ItemsGrow DEF catalog
<1>5. QED
  BY <1>2, <1>3, <1>4, CallsStay, ItemsKeep DEF bounds, IntakeInv

\* update_packet_kinds and the follow-up's insert.
LEMMA OperatorWritesKeep ==
    ASSUME IntakeInv, IntakeConstants, NEW h \in Handlers, UpdateKinds(h) \/ FollowUpInsert(h)
    PROVE  IntakeInv'
<1>0. PICK m : m = tasks[h].msg
  OBVIOUS
<1>1. /\ tasks' = [tasks EXCEPT ![h] = NoTask]
      /\ UNCHANGED <<catalog, rows, applied, cursor, bounds>>
  BY DEF UpdateKinds, FollowUpInsert, Done, Goto
<1>2. /\ items' \in [Messages -> Item]
      /\ \A x \in Messages : /\ items[x] # NoItem => items'[x] # NoItem
                             /\ items'[x] # NoItem => rows[x] # NoRow
  <2>1. CASE UpdateKinds(h)
    <3>1. PICK kinds : kinds = tasks[h].kinds
      OBVIOUS
    <3>2. m \in Messages /\ items[m] # NoItem /\ kinds \in SUBSET PacketKinds
      BY <1>0, <2>1, <3>1, IntakeThreads, CallOf, KindsCall DEF UpdateKinds, Known
    <3>3. items' = [items EXCEPT ![m].kinds = kinds]
      BY <1>0, <2>1, <3>1 DEF UpdateKinds, Msg
    <3>4. QED
      BY <3>2, <3>3, TablesOf DEF IntakeInv, IntakeTypeOK, Item, NoItem
  <2>2. CASE FollowUpInsert(h)
    <3>1. m \in Messages /\ rows[m] # NoRow
      BY <1>0, <2>2, IntakeThreads, CallOf, FollowupCall DEF FollowUpInsert, Known
    <3>2. {FollowUp} \in SUBSET PacketKinds
      BY DEF PacketKinds
    <3>3. items' = Inserted(m, {FollowUp})
      BY <1>0, <2>2 DEF FollowUpInsert, Msg
    <3>4. QED
      BY <3>1, <3>2, <3>3, InsertedIs DEF IntakeInv
  <2>3. QED
    BY <2>1, <2>2
<1>3. Grows
  BY <1>1, <1>2, ItemsGrow DEF catalog
<1>4. CallsSound'
  <2>1. CallSound(h, NoTask)'
    BY DEF CallSound, Ingesting
  <2>2. QED
    BY <1>1, <1>3, <2>1, IntakeThreads, CallsKept DEF IntakeInv
<1>5. QED
  BY <1>1, <1>2, <1>4, ItemsKeep DEF bounds

-----------------------------------------------------------------------------
(* Steps that write messages' rows.                                         *)

\* Rows change, keys of verdicts with them, and the rest is as before.
LEMMA RowsKeep ==
    ASSUME IntakeInv, IntakeConstants, Grows, UNCHANGED <<sources, items, cursor, handled>>,
           rows' \in [Messages -> Row],
           \A m \in Mail : rows'[m] # NoRow => m <= arrived,
           KeysSound', CallsSound'
    PROVE  IntakeInv'
<1>1. IntakeTypeOK'
  BY DEF IntakeInv, IntakeTypeOK, sources, Grows
<1>2. QED
  BY <1>1, HandledKept DEF IntakeInv

\* record_inbound_message.
LEMMA RecordKeeps ==
    ASSUME IntakeInv, IntakeConstants, NEW t \in Threads, Record(t)
    PROVE  IntakeInv'
<1>0. PICK m, cat : m = tasks[t].msg /\ cat = tasks[t].cat
  OBVIOUS
<1> DEFINE new == [cat |-> cat, status |-> "none", gen |-> 0]
<1>1. Ingests(t, m) /\ cat \in Categories
  BY <1>0, CallOf, RecordCall DEF Record
<1>2. m \in Messages /\ (m \in Mail => m <= arrived)
  BY <1>1 DEF Ingests, Messages, Mail, IntakeInv, IntakeTypeOK, IntakeConstants
<1>3. PICK c : c = [pc |-> IF t = Pump THEN "emit" ELSE "skip", msg |-> m, cat |-> cat]
  OBVIOUS
<1>4. /\ rows' = (IF rows[m] # NoRow THEN rows ELSE [rows EXCEPT ![m] = new])
      /\ tasks' = [tasks EXCEPT ![t] = c]
      /\ UNCHANGED <<catalog, items, applied, cursor, bounds>>
  BY <1>0, <1>3 DEF Record, Goto, Msg
<1>5. /\ rows' \in [Messages -> Row] /\ rows'[m] # NoRow
      /\ \A x \in Messages : rows[x] # NoRow \/ x # m => rows'[x] = rows[x]
      /\ rows[m] = NoRow => rows'[m] = new
  BY <1>1, <1>2, <1>4 DEF IntakeInv, IntakeTypeOK, Row, NoRow, Verdicts
<1>6. Grows
  BY <1>4, <1>5, TablesOf DEF Grows, Settled, catalog, IntakeInv, IntakeTypeOK, IntakeConstants
<1>7. CallsSound'
  <2>1. Known(m)' /\ Ingests(t, m)'
    BY <1>1, <1>2, <1>5, <1>6, HeldKept DEF Known
  <2>2. CallSound(t, c)'
    BY <1>1, <1>3, <2>1 DEF CallSound, Ingesting, Ingested
  <2>3. QED
    BY <1>4, <1>6, <2>2, CallsKept DEF IntakeInv
<1>8. KeysSound'
  <2>1. ASSUME NEW k \in applied'
        PROVE  /\ k[1] = "emit" => k[2] \in Messages /\ items'[k[2]] # NoItem
               /\ k[1] = "verdict" => /\ k[2] \in Messages /\ rows'[k[2]] # NoRow
                                      /\ k[3] \in 0..rows'[k[2]].gen
    BY <1>4, <1>5, <2>1 DEF IntakeInv, KeysSound
  <2>2. ASSUME NEW x \in Messages, rows'[x] # NoRow, NEW g \in 0..rows'[x].gen
        PROVE  <<"verdict", x, g>> \in applied' <=> g < rows'[x].gen \/ rows'[x].status # "none"
    <3>1. CASE rows[x] # NoRow
      BY <1>4, <1>5, <2>2, <3>1 DEF IntakeInv, KeysSound
    <3>2. CASE rows[x] = NoRow
      <4>1. x = m /\ rows'[x] = new /\ g = 0
        BY <1>5, <2>2, <3>2
      <4>2. <<"verdict", x, g>> \notin applied
        BY <3>2 DEF IntakeInv, KeysSound
      <4>3. QED
        BY <1>4, <4>1, <4>2
    <3>3. QED
      BY <3>1, <3>2
  <2>3. QED
    BY <2>1, <2>2 DEF KeysSound
<1>9. \A x \in Mail : rows'[x] # NoRow => x <= arrived
  BY <1>2, <1>5 DEF IntakeInv, IntakeTypeOK, Messages
<1>10. QED
  BY <1>4, <1>5, <1>6, <1>7, <1>8, <1>9, RowsKeep DEF bounds, catalog, sources

\* The rows of the messages known before keep their generation.
LEMMA VerdictFacts ==
    ASSUME IntakeInv, IntakeConstants, NEW t \in Threads, VerdictWrite(t),
           NEW m, NEW g, NEW s, m = tasks[t].msg, g = tasks[t].gen, s = tasks[t].status
    PROVE  /\ Known(m) /\ g \in 0..rows[m].gen /\ s \in Verdicts \ {"none"}
           /\ rows[m].gen \in Nat /\ rows' \in [Messages -> Row]
           /\ applied' = applied \cup {<<"verdict", m, g>>}
           /\ \A x \in Messages : x # m => rows'[x] = rows[x]
           /\ <<"verdict", m, g>> \in applied => rows'[m] = rows[m]
           /\ <<"verdict", m, g>> \notin applied =>
                 /\ g = rows[m].gen /\ rows[m].status = "none"
                 /\ rows'[m] # NoRow /\ rows'[m].status = s /\ rows'[m].gen = rows[m].gen
<1>1. Judging(t, tasks[t]) /\ tasks[t].pc = "verdict"
  BY CallOf, VerdictCall DEF VerdictWrite
<1>2. Known(m) /\ g \in 0..rows[m].gen /\ s \in Verdicts \ {"none"}
  BY <1>1 DEF Judging
<1>3. /\ rows[m].gen \in Nat /\ rows[m].cat \in Categories
      /\ rows[m] = [cat |-> rows[m].cat, status |-> rows[m].status, gen |-> rows[m].gen]
  BY <1>2, TablesOf DEF Known, IntakeInv
<1>4. /\ rows' = (IF <<"verdict", m, g>> \in applied THEN rows ELSE [rows EXCEPT ![m].status = s])
      /\ applied' = applied \cup {<<"verdict", m, g>>}
  BY DEF VerdictWrite, VerdictGiven, Msg
<1>5. ASSUME <<"verdict", m, g>> \notin applied
      PROVE  g = rows[m].gen /\ rows[m].status = "none"
  BY <1>2, <1>3, <1>5 DEF IntakeInv, KeysSound, Known
<1>6. /\ [rows[m] EXCEPT !.status = s] = [cat |-> rows[m].cat, status |-> s, gen |-> rows[m].gen]
      /\ [rows[m] EXCEPT !.status = s] \in Row /\ [rows[m] EXCEPT !.status = s] # NoRow
  BY <1>2, <1>3 DEF Row, NoRow
<1>7. rows' \in [Messages -> Row]
  BY <1>2, <1>4, <1>6 DEF IntakeInv, IntakeTypeOK, Known
<1>8. QED
  BY <1>2, <1>3, <1>4, <1>5, <1>6, <1>7 DEF IntakeInv, IntakeTypeOK, Known

\* set_ai_triage_result: the verdict, once for each generation.
LEMMA VerdictWriteKeeps ==
    ASSUME IntakeInv, IntakeConstants, NEW t \in Threads, VerdictWrite(t)
    PROVE  IntakeInv'
<1>0. PICK m, g, s : m = tasks[t].msg /\ g = tasks[t].gen /\ s = tasks[t].status
  OBVIOUS
<1>1. /\ Known(m) /\ g \in 0..rows[m].gen /\ s \in Verdicts \ {"none"}
      /\ rows[m].gen \in Nat /\ rows' \in [Messages -> Row]
      /\ applied' = applied \cup {<<"verdict", m, g>>}
      /\ \A x \in Messages : x # m => rows'[x] = rows[x]
      /\ <<"verdict", m, g>> \in applied => rows'[m] = rows[m]
      /\ <<"verdict", m, g>> \notin applied =>
            /\ g = rows[m].gen /\ rows[m].status = "none"
            /\ rows'[m] # NoRow /\ rows'[m].status = s /\ rows'[m].gen = rows[m].gen
  BY <1>0, VerdictFacts
<1>2. UNCHANGED <<catalog, items, cursor, bounds>>
  BY DEF VerdictWrite
<1>3. \A x \in Messages : rows[x] # NoRow <=> rows'[x] # NoRow
  BY <1>1 DEF Known
<1>4. Grows
  BY <1>1, <1>2, <1>3, TablesOf DEF Grows, Settled, catalog, Known, IntakeInv, IntakeTypeOK, IntakeConstants
<1>5. KeysSound'
  <2>1. ASSUME NEW k \in applied'
        PROVE  /\ k[1] = "emit" => k[2] \in Messages /\ items'[k[2]] # NoItem
               /\ k[1] = "verdict" => /\ k[2] \in Messages /\ rows'[k[2]] # NoRow
                                      /\ k[3] \in 0..rows'[k[2]].gen
    <3>1. CASE k \in applied
      BY <1>1, <1>2, <1>3, <3>1 DEF IntakeInv, KeysSound
    <3>2. CASE k = <<"verdict", m, g>>
      BY <1>1, <1>3, <3>2 DEF Known
    <3>3. QED
      BY <1>1, <2>1, <3>1, <3>2
  <2>2. ASSUME NEW x \in Messages, rows'[x] # NoRow, NEW i \in 0..rows'[x].gen
        PROVE  <<"verdict", x, i>> \in applied' <=> i < rows'[x].gen \/ rows'[x].status # "none"
    <3>1. <<"verdict", x, i>> \in applied <=> i < rows[x].gen \/ rows[x].status # "none"
      BY <1>1, <1>3, <2>2 DEF IntakeInv, KeysSound
    <3>2. CASE <<"verdict", m, g>> \in applied
      BY <1>1, <3>1, <3>2
    <3>3. CASE <<"verdict", m, g>> \notin applied /\ x # m
      BY <1>1, <3>1, <3>3
    <3>4. CASE <<"verdict", m, g>> \notin applied /\ x = m
      BY <1>1, <2>2, <3>1, <3>4
    <3>5. QED
      BY <3>2, <3>3, <3>4
  <2>3. QED
    BY <2>1, <2>2 DEF KeysSound
<1>6. CallsSound'
  <2>1. Settled(m)' /\ Known(m)'
    <3>1. CASE <<"verdict", m, g>> \notin applied
      BY <1>1, <1>3, <3>1 DEF Settled, Known
    <3>2. CASE <<"verdict", m, g>> \in applied
      <4>1. g < rows[m].gen \/ rows[m].status # "none"
        BY <1>1, <3>2 DEF IntakeInv, KeysSound, Known
      <4>2. QED
        BY <1>1, <1>3, <3>2, <4>1 DEF Settled, Known
    <3>3. QED
      BY <3>1, <3>2
  <2>2. Judging(t, tasks[t])
    BY CallOf, VerdictCall DEF VerdictWrite
  <2>3. PICK cat, kinds, batch : cat = tasks[t].cat /\ kinds = tasks[t].kinds /\ batch = tasks[t].batch
    OBVIOUS
  <2>4. CASE t # Pump
    <3>1. PICK c : c = [pc |-> "emit", msg |-> m, cat |-> cat]
      OBVIOUS
    <3>2. tasks' = [tasks EXCEPT ![t] = c]
      BY <1>0, <2>3, <2>4, <3>1 DEF VerdictWrite, Goto, Msg
    <3>3. Ingests(t, m) /\ cat \in Categories
      BY <1>0, <2>2, <2>3, <2>4 DEF Judging
    <3>4. Ingests(t, m)'
      BY <1>4, <3>3, HeldKept
    <3>5. CallSound(t, c)'
      BY <2>1, <3>1, <3>3, <3>4 DEF CallSound, Ingesting, Ingested
    <3>6. QED
      BY <1>4, <3>2, <3>5, CallsKept DEF IntakeInv
  <2>5. CASE t = Pump
    <3>1. PICK c : c = IF s # "suggested" THEN [pc |-> "batch", batch |-> batch]
                       ELSE [pc |-> "suggest", msg |-> m, kinds |-> kinds, batch |-> batch]
      OBVIOUS
    <3>2. tasks' = [tasks EXCEPT ![t] = c]
      BY <1>0, <2>3, <2>5, <3>1 DEF VerdictWrite, Goto, Msg
    <3>3. BatchSound(batch) /\ kinds \subseteq PacketKinds
      BY <2>2, <2>3, <2>5 DEF Judging
    <3>4. BatchSound(batch)'
      BY <1>4, <3>3, HeldKept
    <3>5. CallSound(t, c)'
      BY <2>1, <2>5, <3>1, <3>3, <3>4 DEF CallSound, Examining
    <3>6. QED
      BY <1>4, <3>2, <3>5, CallsKept DEF IntakeInv
  <2>6. QED
    BY <2>4, <2>5
<1>7. \A x \in Mail : rows'[x] # NoRow => x <= arrived
  BY <1>3 DEF IntakeInv, IntakeTypeOK, Messages
<1>8. QED
  BY <1>1, <1>2, <1>4, <1>5, <1>6, <1>7, RowsKeep DEF bounds, catalog, sources


\* A row whose verdict is taken back.
LEMMA ResetRowIs ==
    ASSUME IntakeTypeOK, NEW m \in Messages, rows[m] # NoRow
    PROVE  /\ ResetRow(rows[m]) \in Row /\ ResetRow(rows[m]) # NoRow
           /\ ResetRow(rows[m]).status = "none" /\ ResetRow(rows[m]).gen = rows[m].gen + 1
           /\ ResetRow(rows[m]).cat = rows[m].cat
<1>1. /\ rows[m] = [cat |-> rows[m].cat, status |-> rows[m].status, gen |-> rows[m].gen]
      /\ rows[m].cat \in Categories /\ rows[m].gen \in Nat
  BY TablesOf
<1>2. DOMAIN rows[m] = {"cat", "status", "gen"}
  BY <1>1
<1>3. /\ ResetRow(rows[m]).status = "none" /\ ResetRow(rows[m]).gen = rows[m].gen + 1
      /\ ResetRow(rows[m]).cat = rows[m].cat /\ DOMAIN ResetRow(rows[m]) = {"cat", "status", "gen"}
      /\ ResetRow(rows[m]) = [x \in DOMAIN ResetRow(rows[m]) |-> ResetRow(rows[m])[x]]
  BY <1>2 DEF ResetRow
<1>4. ResetRow(rows[m]) \in [cat : Categories, status : Verdicts, gen : Nat]
  BY <1>1, <1>3 DEF Verdicts
<1>5. QED
  BY <1>3, <1>4 DEF Row, NoRow

\* reset_ai_triage opens a new generation.
LEMMA ResetKeeps ==
    ASSUME IntakeInv, IntakeConstants, ResetAiTriage
    PROVE  IntakeInv'
<1>1. PICK ms \in SUBSET {m \in Messages : rows[m] # NoRow /\ rows[m].status # "none"} :
         rows' = [m \in Messages |-> IF m \in ms THEN ResetRow(rows[m]) ELSE rows[m]]
  BY DEF ResetAiTriage
<1>2. UNCHANGED <<catalog, items, applied, cursor, tasks, handled>>
  BY DEF ResetAiTriage
<1>3. \A m \in Messages :
         /\ m \in ms => /\ rows[m] # NoRow /\ rows[m].status # "none" /\ rows'[m] \in Row
                        /\ rows'[m] # NoRow /\ rows'[m].status = "none"
                        /\ rows[m].gen \in Nat /\ rows'[m].gen = rows[m].gen + 1
         /\ m \notin ms => rows'[m] = rows[m]
  BY <1>1, ResetRowIs, TablesOf DEF IntakeInv
<1>4. rows' \in [Messages -> Row] /\ \A m \in Messages : rows[m] # NoRow <=> rows'[m] # NoRow
  BY <1>1, <1>3 DEF IntakeInv, IntakeTypeOK
<1>5. Grows
  <2>1. arrived \in Nat /\ arrived' = arrived
    BY <1>2 DEF catalog, IntakeInv, IntakeTypeOK, IntakeConstants
  <2>2. ASSUME NEW m \in Messages, rows[m] # NoRow
        PROVE  /\ rows'[m] # NoRow /\ (Settled(m) => Settled(m)')
               /\ rows[m].gen \in Nat /\ rows'[m].gen \in Nat /\ rows[m].gen <= rows'[m].gen
    <3>1. CASE m \in ms
      BY <1>3, <3>1 DEF Settled
    <3>2. CASE m \notin ms
      <4>1. rows'[m] = rows[m] /\ rows[m].gen \in Nat
        BY <1>3, <2>2, <3>2, TablesOf DEF IntakeInv
      <4>2. QED
        BY <2>2, <4>1 DEF Settled
    <3>3. QED
      BY <3>1, <3>2
  <2>3. QED
    BY <1>2, <2>1, <2>2 DEF Grows
<1>6. KeysSound'
  <2>1. ASSUME NEW k \in applied'
        PROVE  /\ k[1] = "emit" => k[2] \in Messages /\ items'[k[2]] # NoItem
               /\ k[1] = "verdict" => /\ k[2] \in Messages /\ rows'[k[2]] # NoRow
                                      /\ k[3] \in 0..rows'[k[2]].gen
    BY <1>2, <1>3, <2>1 DEF IntakeInv, KeysSound
  <2>2. ASSUME NEW x \in Messages, rows'[x] # NoRow, NEW i \in 0..rows'[x].gen
        PROVE  <<"verdict", x, i>> \in applied' <=> i < rows'[x].gen \/ rows'[x].status # "none"
    <3>1. /\ rows[x] # NoRow /\ rows[x].gen \in Nat
          /\ \A g \in 0..rows[x].gen :
                <<"verdict", x, g>> \in applied <=> g < rows[x].gen \/ rows[x].status # "none"
      BY <1>4, <2>2, TablesOf DEF IntakeInv, KeysSound
    <3>2. CASE x \notin ms
      BY <1>2, <1>3, <2>2, <3>1, <3>2
    <3>3. CASE x \in ms /\ i <= rows[x].gen
      BY <1>2, <1>3, <2>2, <3>1, <3>3
    <3>4. CASE x \in ms /\ ~(i <= rows[x].gen)
      <4>1. i = rows[x].gen + 1 /\ i \notin 0..rows[x].gen
        BY <1>3, <2>2, <3>1, <3>4
      <4>2. <<"verdict", x, i>> \notin applied
        <5>1. \A k \in applied : k[1] = "verdict" => k[3] \in 0..rows[k[2]].gen
          BY DEF IntakeInv, KeysSound
        <5>2. QED
          BY <4>1, <5>1
      <4>3. QED
        BY <1>2, <1>3, <3>4, <4>1, <4>2
    <3>5. QED
      BY <3>2, <3>3, <3>4
  <2>3. QED
    BY <2>1, <2>2 DEF KeysSound
<1>7. CallsSound'
  BY <1>2, <1>5, CallsStay DEF IntakeInv
<1>8. \A x \in Mail : rows'[x] # NoRow => x <= arrived
  BY <1>4 DEF IntakeInv, IntakeTypeOK, Messages
<1>9. QED
  BY <1>2, <1>4, <1>5, <1>6, <1>7, <1>8, RowsKeep DEF catalog, sources

\* Where only categories change, keys and verdicts are as before.
LEMMA CategoriesKeep ==
    ASSUME IntakeInv, IntakeConstants, UNCHANGED <<sources, items, applied, cursor, handled>>,
           rows' \in [Messages -> Row],
           \A m \in Messages : /\ rows[m] # NoRow <=> rows'[m] # NoRow
                               /\ rows[m] # NoRow => /\ rows'[m].status = rows[m].status
                                                     /\ rows'[m].gen = rows[m].gen
    PROVE  Grows /\ (CallsSound' => IntakeInv')
<1>1. Grows
  BY TablesOf DEF Grows, Settled, sources, IntakeInv, IntakeTypeOK, IntakeConstants
<1>2. KeysSound'
  BY DEF IntakeInv, KeysSound
<1>3. \A x \in Mail : rows'[x] # NoRow => x <= arrived
  BY DEF IntakeInv, IntakeTypeOK, Messages
<1>4. QED
  BY <1>1, <1>2, <1>3, RowsKeep

\* A new category for a row.
LEMMA RecategorizedIs ==
    ASSUME IntakeTypeOK, NEW m \in Messages, rows[m] # NoRow, NEW cat \in Categories, NEW other,
           rows' = (IF cat = other THEN rows ELSE [rows EXCEPT ![m].cat = cat])
    PROVE  /\ rows' \in [Messages -> Row]
           /\ \A x \in Messages : /\ rows[x] # NoRow <=> rows'[x] # NoRow
                                  /\ rows[x] # NoRow => /\ rows'[x].status = rows[x].status
                                                        /\ rows'[x].gen = rows[x].gen
<1>1. /\ rows[m] = [cat |-> rows[m].cat, status |-> rows[m].status, gen |-> rows[m].gen]
      /\ rows[m].status \in Verdicts /\ rows[m].gen \in Nat
  BY TablesOf
<1>2. /\ [rows[m] EXCEPT !.cat = cat] = [cat |-> cat, status |-> rows[m].status, gen |-> rows[m].gen]
      /\ [rows[m] EXCEPT !.cat = cat] \in Row /\ [rows[m] EXCEPT !.cat = cat] # NoRow
  BY <1>1 DEF Row, NoRow
<1>3. /\ \A x \in Messages : x # m => rows'[x] = rows[x]
      /\ rows'[m] = rows[m] \/ rows'[m] = [rows[m] EXCEPT !.cat = cat]
      /\ rows' \in [Messages -> Row]
  BY <1>2 DEF IntakeTypeOK
<1>4. QED
  BY <1>2, <1>3

\* reclassify_all, message by message.
LEMMA ReclassifyKeeps ==
    ASSUME IntakeInv, IntakeConstants, NEW h \in Handlers, Reclassify(h)
    PROVE  IntakeInv'
<1>0. PICK fresh, todo : fresh = tasks[h].fresh /\ todo = tasks[h].todo
  OBVIOUS
<1>1. TodoSound(fresh, todo) /\ UNCHANGED <<sources, items, applied, cursor, bounds>>
  BY <1>0, IntakeThreads, CallOf, ReclassifyCall DEF Reclassify
<1>2. CASE tasks' = [tasks EXCEPT ![h] = NoTask] /\ rows' = rows
  <2>1. Still /\ rules' = rules /\ policy' = policy
    BY <1>1, <1>2 DEF Still, sources, bounds
  <2>2. QED
    BY <1>2, <2>1, IdleSound, IntakeThreads, ThreadMoves
<1>3. ASSUME NEW e \in todo,
             rows' = (IF fresh[e[1]] = e[2] THEN rows ELSE [rows EXCEPT ![e[1]].cat = fresh[e[1]]]),
             tasks' = [tasks EXCEPT ![h] = [pc |-> "reemit", msg |-> e[1], cat |-> fresh[e[1]],
                                            fresh |-> fresh, todo |-> todo \ {e}]]
      PROVE  IntakeInv'
  <2>1. Known(e[1]) /\ fresh[e[1]] \in Categories /\ TodoSound(fresh, todo \ {e})
    BY <1>1 DEF TodoSound
  <2>2. /\ rows' \in [Messages -> Row]
        /\ \A x \in Messages : /\ rows[x] # NoRow <=> rows'[x] # NoRow
                               /\ rows[x] # NoRow => /\ rows'[x].status = rows[x].status
                                                     /\ rows'[x].gen = rows[x].gen
    BY <1>3, <2>1, RecategorizedIs DEF Known, IntakeInv
  <2>3. Grows /\ (CallsSound' => IntakeInv')
    BY <1>1, <2>2, CategoriesKeep DEF bounds
  <2>4. PICK c : c = [pc |-> "reemit", msg |-> e[1], cat |-> fresh[e[1]],
                      fresh |-> fresh, todo |-> todo \ {e}]
    OBVIOUS
  <2>5. PICK rest : rest = todo \ {e}
    OBVIOUS
  <2>6. Known(e[1])' /\ TodoSound(fresh, rest)'
    BY <2>1, <2>3, <2>5, HeldKept
  <2>7. CallSound(h, c)'
    BY <2>1, <2>4, <2>5, <2>6, IntakeThreads DEF CallSound, Operating
  <2>8. CallsSound'
    BY <1>3, <2>3, <2>4, <2>7, IntakeThreads, CallsKept DEF IntakeInv
  <2>9. QED
    BY <2>3, <2>8
<1>4. QED
  BY <1>0, <1>2, <1>3 DEF Reclassify, Done, Goto

-----------------------------------------------------------------------------
(* Answers, and mail.                                                       *)

\* A message is answered for.
LEMMA AnsweredKeeps ==
    ASSUME IntakeInv, IntakeConstants, NEW t \in Threads, tasks[t].pc = "answer",
           UNCHANGED <<catalog, rows, items, applied>>, cursor' \in 0..arrived,
           handled' = handled \cup {<<tasks[t].msg, tasks[t].wanted>>},
           NEW c, tasks' = [tasks EXCEPT ![t] = c], CallSound(t, c)
    PROVE  IntakeInv'
<1>0. PICK m, wanted : m = tasks[t].msg /\ wanted = tasks[t].wanted
  OBVIOUS
<1>1. /\ Ingested(t, m) /\ wanted \in BOOLEAN /\ (wanted => items[m] # NoItem)
      /\ Known(m) /\ m \in Messages
  BY <1>0, CallOf, AnswerCall DEF Ingested, Known
<1>2. Grows
  BY TablesOf DEF Grows, Settled, catalog, IntakeInv, IntakeTypeOK, IntakeConstants
<1>3. CallsSound'
  BY <1>2, CallKept, CallsKept DEF IntakeInv
<1>4. IntakeTypeOK' /\ KeysSound'
  <2>1. handled' \in SUBSET (Messages \X BOOLEAN)
    BY <1>0, <1>1 DEF IntakeInv, IntakeTypeOK
  <2>2. IntakeTypeOK'
    BY <2>1 DEF IntakeInv, IntakeTypeOK, catalog
  <2>3. KeysSound'
    BY DEF IntakeInv, KeysSound
  <2>4. QED
    BY <2>2, <2>3
<1>5. HandledIsComplete'
  BY <1>0, <1>1 DEF IntakeInv, HandledIsComplete, Known
<1>6. AcceptedHookIsSettled'
  <2>1. m \in Hooks => Settled(m)
    <3>1. CASE t = Pump
      <4>1. m \in Mail
        BY <1>1, <3>1 DEF Ingested, Ingests, IntakeInv, IntakeTypeOK, Mail, IntakeConstants
      <4>2. QED
        BY <4>1 DEF IntakeConstants
    <3>2. CASE t # Pump
      BY <1>1, <3>2 DEF Ingested
    <3>3. QED
      BY <3>1, <3>2
  <2>2. ASSUME NEW x \in Hooks, NEW e \in handled', e[1] = x PROVE Settled(x)'
    <3>1. Settled(x)
      BY <1>0, <2>1, <2>2 DEF IntakeInv, AcceptedHookIsSettled
    <3>2. QED
      BY <3>1 DEF Settled
  <2>3. QED
    BY <2>2 DEF AcceptedHookIsSettled
<1>7. QED
  BY <1>3, <1>4, <1>5, <1>6 DEF IntakeInv

\* The cursor moves on; the webhook is answered.
LEMMA AdvanceKeeps ==
    ASSUME IntakeInv, IntakeConstants, Advance
    PROVE  IntakeInv'
<1>1. tasks[Pump].msg \in 1..arrived
  BY IntakeThreads, CallOf, AnswerCall DEF Advance, Ingested, Ingests
<1>2. cursor' \in 0..arrived
  BY <1>1 DEF Advance, CursorAfter, Msg, IntakeInv, IntakeTypeOK, IntakeConstants
<1>3. QED
  BY <1>2, IntakeThreads, IdleSound, AnsweredKeeps DEF Advance, Goto, Msg

\* The webhook handler answers: the delivery counts as handled.
LEMMA AnswerKeeps ==
    ASSUME IntakeInv, IntakeConstants, NEW h \in Handlers, Answer(h)
    PROVE  IntakeInv'
<1>1. cursor' \in 0..arrived /\ UNCHANGED <<catalog, rows, items, applied>>
  BY DEF Answer, db, IntakeInv, IntakeTypeOK
<1>2. QED
  BY <1>1, IntakeThreads, IdleSound, AnsweredKeeps DEF Answer, Done, Goto, Msg

\* Mail arrives.
LEMMA ArriveKeeps ==
    ASSUME IntakeInv, IntakeConstants, Arrive
    PROVE  IntakeInv'
<1>1. /\ arrived \in Nat /\ arrived' = arrived + 1 /\ arrived' \in 0..NumMail
      /\ UNCHANGED <<rules, policy, rows, items, applied, cursor, tasks, handled>>
  BY DEF Arrive, db, bounds, IntakeInv, IntakeTypeOK, IntakeConstants
<1>2. Grows
  <2>1. \A m \in Messages : rows[m] # NoRow => rows[m].gen \in Nat
    BY TablesOf DEF IntakeInv
  <2>2. QED
    BY <1>1, <2>1 DEF Grows, Settled
<1>3. IntakeTypeOK'
  <2>1. cursor \in 0..arrived'
    BY <1>1 DEF IntakeInv, IntakeTypeOK
  <2>2. \A m \in Mail : rows[m] # NoRow => m <= arrived'
    BY <1>1 DEF IntakeInv, IntakeTypeOK, Mail, IntakeConstants
  <2>3. QED
    BY <1>1, <2>1, <2>2 DEF IntakeInv, IntakeTypeOK
<1>4. KeysSound'
  BY <1>1 DEF IntakeInv, KeysSound
<1>5. QED
  BY <1>1, <1>2, <1>3, <1>4, HandledKept, CallsStay DEF IntakeInv


-----------------------------------------------------------------------------
\* At the start.
LEMMA IntakeStarts ==
    ASSUME IntakeConstants, IntakeInit
    PROVE  IntakeInv
<1>1. IntakeTypeOK
  <2>1. rows \in [Messages -> Row] /\ items \in [Messages -> Item]
    BY DEF IntakeInit, Row, Item
  <2>2. arrived \in 0..NumMail /\ cursor \in 0..arrived /\ handled \in SUBSET (Messages \X BOOLEAN)
    BY DEF IntakeInit, IntakeConstants
  <2>3. \A m \in Messages : rows[m] = NoRow /\ items[m] = NoItem
    BY DEF IntakeInit
  <2>4. QED
    BY <2>1, <2>2, <2>3 DEF IntakeInit, IntakeTypeOK, Messages
<1>2. HandledIsComplete /\ AcceptedHookIsSettled /\ KeysSound
  BY DEF IntakeInit, HandledIsComplete, AcceptedHookIsSettled, KeysSound
<1>3. CallsSound
  BY IdleSound DEF IntakeInit, CallsSound
<1>4. QED
  BY <1>1, <1>2, <1>3 DEF IntakeInv

\* Every step.
LEMMA IntakeStep ==
    ASSUME IntakeInv, IntakeConstants, [IntakeNext]_intakeVars
    PROVE  IntakeInv'
<1>1. CASE PumpStep
  BY <1>1, IntakeThreads, PollKeeps, AdvanceKeeps, TriageBatchKeeps, ExamineKeeps, LlmKeeps,
     SuggestKeeps, AppendKindsKeeps, PumpEndsKeep, RecordKeeps, ReloadKeeps, EmitReadKeeps,
     InsertItemKeeps, GenerationReadKeeps, VerdictWriteKeeps DEF PumpStep
<1>2. CASE PollFails \/ Arrive
  BY <1>2, PumpEndsKeep, ArriveKeeps
<1>3. CASE EditRules \/ EditPolicy \/ ResetAiTriage \/ Restart \/ UNCHANGED intakeVars
  BY <1>3, CatalogEditsKeep, ResetKeeps, RestartKeeps
<1>4. ASSUME NEW m \in Messages, ItemAction(m) \/ Backfill(m) PROVE IntakeInv'
  BY <1>4, ItemActionKeeps, CatalogEditsKeep
<1>5. ASSUME NEW t \in Threads, Busy(t) PROVE IntakeInv'
  BY <1>5, BusyKeeps
<1>6. ASSUME NEW h \in Handlers, RequestStep(h) PROVE IntakeInv'
  BY <1>6, IntakeThreads, RecordKeeps, ReloadKeeps, SkipAiKeeps, GenerationReadKeeps,
     VerdictWriteKeeps, EmitReadKeeps, InsertItemKeeps, AnswerKeeps, ReclassifyKeeps,
     OperatorWritesKeep DEF RequestStep
<1>7. ASSUME NEW h \in Handlers, ReclassifyStart(h) \/ \E m \in Hooks : Deliver(h, m)
      PROVE  IntakeInv'
  BY <1>7, ReclassifyStartKeeps, DeliverKeeps
<1>8. ASSUME NEW h \in Handlers, NEW m \in Messages, UpdateKindsRead(h, m) \/ FollowUpRead(h, m)
      PROVE  IntakeInv'
  BY <1>8, OperatorReadsKeep
<1>9. QED
  BY <1>1, <1>2, <1>3, <1>4, <1>5, <1>6, <1>7, <1>8 DEF IntakeNext

\* For any mail, hooks, handlers, categories and policies: a message the cursor has
\* passed or a webhook was answered for has its triage record and, where its category
\* and its attention want one, its queue item, whatever two ingests of it, the AI pass, resets,
\* lost connections and restarts do in between; the keys of applied receipts and the
\* place of every thread in ingest_messages_with_overlay, run_ai_triage_pass and the
\* operator's routes agree with the tables.
THEOREM IntakeIsSafe == IntakeSpec => []IntakeInv
<1> IntakeConstants
  BY MailAssumption, NamesAssumption, PoliciesAssumption DEF IntakeConstants
<1>1. IntakeInit => IntakeInv
  BY IntakeStarts
<1>2. IntakeInv /\ [IntakeNext]_intakeVars => IntakeInv'
  BY IntakeStep
<1>3. QED
  BY <1>1, <1>2, PTL DEF IntakeSpec

\* A thread's step changes its own call only.
LEMMA OwnCall ==
    ASSUME IntakeInv, NEW t \in Threads, NEW u \in Threads, NEW c, Goto(t, c), tasks'[u] # tasks[u]
    PROVE  t = u
  BY DEF Goto, IntakeInv, CallsSound

\* "One verdict per generation": whoever comes second in set_ai_triage_result, the AI
\* pass or the webhook's own, finds the verdict of its generation and leaves it; only
\* the operator's reset, which raises the generation, makes room for another.
THEOREM VerdictsStand == IntakeSpec => OneVerdictPerGeneration
<1> IntakeConstants
  BY MailAssumption, NamesAssumption, PoliciesAssumption DEF IntakeConstants
<1> DEFINE Stands == \A m \in Messages :
              rows[m] # NoRow /\ rows[m].status # "none" =>
                 rows'[m].status = rows[m].status \/ rows'[m].gen > rows[m].gen
<1>1. IntakeInv /\ [IntakeNext]_intakeVars => Stands
  <2> SUFFICES ASSUME IntakeInv, [IntakeNext]_intakeVars PROVE Stands
    OBVIOUS
  <2>1. ASSUME rows' = rows PROVE Stands
    BY <2>1
  <2>2. ASSUME NEW t \in Threads, Record(t) PROVE Stands
    <3>1. PICK m, new : rows' = (IF rows[m] # NoRow THEN rows ELSE [rows EXCEPT ![m] = new])
      BY <2>2 DEF Record
    <3>2. QED
      BY <3>1 DEF IntakeInv, IntakeTypeOK
  <2>3. ASSUME NEW t \in Threads, VerdictWrite(t) PROVE Stands
    <3>0. PICK m, g, s : m = tasks[t].msg /\ g = tasks[t].gen /\ s = tasks[t].status
      OBVIOUS
    <3>1. /\ Known(m) /\ \A x \in Messages : x # m => rows'[x] = rows[x]
          /\ <<"verdict", m, g>> \in applied => rows'[m] = rows[m]
          /\ <<"verdict", m, g>> \notin applied => rows[m].status = "none"
      BY <2>3, <3>0, VerdictFacts
    <3>2. QED
      BY <3>1
  <2>4. ASSUME ResetAiTriage PROVE Stands
    <3>1. PICK ms \in SUBSET {m \in Messages : rows[m] # NoRow /\ rows[m].status # "none"} :
             rows' = [m \in Messages |-> IF m \in ms THEN ResetRow(rows[m]) ELSE rows[m]]
      BY <2>4 DEF ResetAiTriage
    <3>2. \A m \in Messages : /\ m \in ms => /\ rows[m].gen \in Nat
                                             /\ rows'[m].gen = rows[m].gen + 1
                              /\ m \notin ms => rows'[m] = rows[m]
      BY <3>1, ResetRowIs, TablesOf DEF IntakeInv
    <3>3. QED
      BY <3>2
  <2>5. ASSUME NEW h \in Handlers, Reclassify(h) PROVE Stands
    <3>1. TodoSound(tasks[h].fresh, tasks[h].todo)
      BY <2>5, IntakeThreads, CallOf, ReclassifyCall DEF Reclassify
    <3>2. ASSUME NEW e \in tasks[h].todo,
                 rows' = (IF tasks[h].fresh[e[1]] = e[2] THEN rows
                          ELSE [rows EXCEPT ![e[1]].cat = tasks[h].fresh[e[1]]])
          PROVE  Stands
      <4>1. e[1] \in Messages /\ rows[e[1]] # NoRow /\ tasks[h].fresh[e[1]] \in Categories
        BY <3>1 DEF TodoSound, Known
      <4>2. QED
        BY <3>2, <4>1, RecategorizedIs DEF IntakeInv
    <3>3. QED
      BY <2>1, <2>5, <3>2 DEF Reclassify
  <2>6. CASE \/ PollFails \/ Arrive \/ Poll \/ Advance \/ TriageBatch \/ Examine \/ LlmAnswers
             \/ Suggest \/ AppendKinds \/ TriageDone \/ EditRules \/ EditPolicy \/ Restart
             \/ UNCHANGED intakeVars \/ \E m \in Messages : ItemAction(m) \/ Backfill(m)
    BY <2>1, <2>6 DEF PollFails, Arrive, Poll, Advance, TriageBatch, Examine, LlmAnswers, Suggest,
       AppendKinds, TriageDone, EditRules, EditPolicy, Restart, intakeVars, ItemAction, Backfill, db
  <2>7. ASSUME NEW t \in Threads, \/ Busy(t) \/ Reload(t) \/ SkipAi(t) \/ EmitRead(t)
                                  \/ InsertItem(t) \/ GenerationRead(t)
        PROVE  Stands
    BY <2>1, <2>7 DEF Busy, Reload, SkipAi, EmitRead, InsertItem, GenerationRead, db
  <2>8. ASSUME NEW h \in Handlers, \/ Answer(h) \/ UpdateKinds(h) \/ FollowUpInsert(h)
                                   \/ ReclassifyStart(h) \/ \E m \in Hooks : Deliver(h, m)
                                   \/ \E m \in Messages : UpdateKindsRead(h, m) \/ FollowUpRead(h, m)
        PROVE  Stands
    BY <2>1, <2>8 DEF Answer, UpdateKinds, FollowUpInsert, ReclassifyStart, Deliver,
       UpdateKindsRead, FollowUpRead, db
  <2> HIDE DEF Stands
  <2>9. CASE PumpStep
    BY <2>2, <2>3, <2>6, <2>7, <2>9, IntakeThreads DEF PumpStep
  <2>10. ASSUME NEW h \in Handlers, RequestStep(h) PROVE Stands
    BY <2>2, <2>3, <2>5, <2>7, <2>8, <2>10, IntakeThreads DEF RequestStep
  <2>11. QED
    BY <2>4, <2>6, <2>7, <2>8, <2>9, <2>10 DEF IntakeNext
<1>2. QED
  BY <1>1, IntakeIsSafe, PTL DEF IntakeSpec, OneVerdictPerGeneration

\* insert_item on a message that has its item changes nothing, however long
\* ago the emitting thread read that there was none: an item the operator has
\* decided on or re-scoped keeps its state and its kinds.
THEOREM EmissionsKeepItems == IntakeSpec => EmissionKeepsItem
<1> IntakeConstants
  BY MailAssumption, NamesAssumption, PoliciesAssumption DEF IntakeConstants
<1> DEFINE Kept == \A t \in Threads, m \in Messages :
              tasks[t].pc \in {"insert", "followup"} /\ tasks'[t] # tasks[t] /\ items[m] # NoItem
              => items'[m] = items[m]
<1>1. IntakeInv /\ [IntakeNext]_intakeVars => Kept
  <2> SUFFICES ASSUME IntakeInv, [IntakeNext]_intakeVars PROVE Kept
    OBVIOUS
  <2>1. ASSUME items' = items \/ tasks' = tasks PROVE Kept
    BY <2>1
  <2>2. ASSUME NEW t \in Threads, NEW c, Goto(t, c), tasks[t].pc \notin {"insert", "followup"}
        PROVE  Kept
    BY <2>2, OwnCall
  <2>3. ASSUME NEW t \in Threads, InsertItem(t) PROVE Kept
    <3>1. Known(tasks[t].msg) /\ tasks[t].kinds \subseteq PacketKinds
      BY <2>3, CallOf, InsertCall DEF InsertItem
    <3>2. \A m \in Messages : items[m] # NoItem => Inserted(tasks[t].msg, tasks[t].kinds)[m] = items[m]
      BY <3>1, InsertedIs DEF IntakeInv, Known
    <3>3. QED
      BY <2>3, <3>2 DEF InsertItem, Msg
  <2>4. ASSUME NEW h \in Handlers, FollowUpInsert(h) PROVE Kept
    <3>1. Known(tasks[h].msg) /\ {FollowUp} \subseteq PacketKinds
      BY <2>4, IntakeThreads, CallOf, FollowupCall DEF FollowUpInsert, PacketKinds
    <3>2. \A m \in Messages : items[m] # NoItem => Inserted(tasks[h].msg, {FollowUp})[m] = items[m]
      BY <3>1, InsertedIs DEF IntakeInv, Known
    <3>3. QED
      BY <2>4, <3>2 DEF FollowUpInsert, Msg
  <2>5. ASSUME AppendKinds PROVE Kept
    BY <2>2, <2>5, IntakeThreads DEF AppendKinds
  <2>6. ASSUME NEW h \in Handlers, UpdateKinds(h) PROVE Kept
    BY <2>2, <2>6, IntakeThreads DEF UpdateKinds, Done
  <2>7. CASE \/ PollFails \/ Arrive \/ Poll \/ Advance \/ TriageBatch \/ Examine \/ LlmAnswers
             \/ Suggest \/ TriageDone \/ EditRules \/ EditPolicy \/ Restart \/ ResetAiTriage
             \/ UNCHANGED intakeVars \/ \E m \in Messages : ItemAction(m) \/ Backfill(m)
    <3>1. items' = items \/ tasks' = tasks
      BY <2>7 DEF PollFails, Arrive, Poll, Advance, TriageBatch, Examine, LlmAnswers, Suggest,
         TriageDone, EditRules, EditPolicy, Restart, ResetAiTriage, intakeVars, ItemAction,
         Backfill, db
    <3>2. QED
      BY <2>1, <3>1
  <2>8. ASSUME NEW t \in Threads, \/ Busy(t) \/ Reload(t) \/ SkipAi(t) \/ EmitRead(t) \/ Record(t)
                                  \/ VerdictWrite(t) \/ GenerationRead(t)
        PROVE  Kept
    <3>1. items' = items
      BY <2>8 DEF Busy, Reload, SkipAi, EmitRead, Record, VerdictWrite, GenerationRead, db
    <3>2. QED
      BY <2>1, <3>1
  <2>9. ASSUME NEW h \in Handlers, \/ Answer(h) \/ Reclassify(h)
                                   \/ ReclassifyStart(h) \/ \E m \in Hooks : Deliver(h, m)
                                   \/ \E m \in Messages : UpdateKindsRead(h, m) \/ FollowUpRead(h, m)
        PROVE  Kept
    <3>1. items' = items
      BY <2>9 DEF Answer, Reclassify, ReclassifyStart, Deliver, UpdateKindsRead, FollowUpRead, db
    <3>2. QED
      BY <2>1, <3>1
  <2> HIDE DEF Kept
  <2>10. CASE PumpStep
    BY <2>3, <2>5, <2>7, <2>8, <2>10, IntakeThreads DEF PumpStep
  <2>11. ASSUME NEW h \in Handlers, RequestStep(h) PROVE Kept
    BY <2>3, <2>4, <2>6, <2>8, <2>9, <2>11, IntakeThreads DEF RequestStep
  <2>12. QED
    BY <2>7, <2>8, <2>9, <2>10, <2>11 DEF IntakeNext
<1>2. QED
  BY <1>1, IntakeIsSafe, PTL DEF IntakeSpec, EmissionKeepsItem
=============================================================================
