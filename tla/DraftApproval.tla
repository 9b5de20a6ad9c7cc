---------------------------- MODULE DraftApproval ----------------------------
(***************************************************************************)
(* The approval gate of bos-app: operators edit, approve or reject the     *)
(* staged drafts of a work item (crates/bos-app/src/slices/draft_store.rs, *)
(* with the calendar slice as the concrete kind); approval enqueues the    *)
(* provider write in the same transaction.                                 *)
(*                                                                         *)
(* A request reads the draft and checks that it is staged before the       *)
(* transaction of store_core::mutate begins; other connections of the pool *)
(* run in between.  What closes the gap is expected_revision, which the    *)
(* operator console sends and the API lets a caller leave out.             *)
(***************************************************************************)
EXTENDS Integers, Sequences, FiniteSets

CONSTANTS
    Requests,     \* concurrent requests to draft_action and the edit route
    MayOmit,      \* may a request leave expected_revision out?
    MaxDrafts,    \* bound: drafts of the item
    MaxRevision   \* bound: revisions of one draft

ASSUME BoundsAssumption ==
    MayOmit \in BOOLEAN /\ MaxDrafts \in Nat /\ MaxRevision \in Nat

VARIABLES
    drafts,   \* the item's drafts by attempt: status, content, revision
    job,      \* outbox job of each draft: the content it writes, or NoJob
    calls     \* per request: where it stands

vars == <<drafts, job, calls>>

Statuses == {"staged", "approved", "rejected"}
Operations == {"approve", "reject", "edit"}
NoJob == 0
Unchecked == 0
Idle == [pc |-> "idle"]

Active(i) == drafts[i].status # "rejected"

-----------------------------------------------------------------------------
Init ==
    /\ drafts = <<>>
    /\ job = <<>>
    /\ calls = [c \in Requests |-> Idle]

\* insert_draft: the unique active-draft index admits it when every earlier
\* draft is rejected.  Content is named by the revision that wrote it.
Stage ==
    /\ Len(drafts) < MaxDrafts
    /\ \A i \in DOMAIN drafts : ~Active(i)
    /\ drafts' = Append(drafts, [status |-> "staged", content |-> 1, revision |-> 1])
    /\ job' = Append(job, NoJob)
    /\ UNCHANGED calls

\* The operator sees draft i at its revision and sends a request.
Send(c) ==
    /\ calls[c].pc = "idle"
    /\ \E i \in DOMAIN drafts, op \in Operations :
       \E expected \in {drafts[i].revision} \cup (IF MayOmit THEN {Unchecked} ELSE {}) :
          calls' = [calls EXCEPT ![c] = [pc |-> "sent", op |-> op, draft |-> i,
                                         expected |-> expected]]
    /\ UNCHANGED <<drafts, job>>

\* build_approval_job: the payload is the row's content at the time of reading.
JobPayload(i) == drafts[i].content

\* draft_action reads the draft and builds the job; the other operations need
\* no content.
Read(c) ==
    /\ calls[c].pc = "sent"
    /\ calls' = [calls EXCEPT ![c] = [pc |-> "read", op |-> calls[c].op,
                                      draft |-> calls[c].draft,
                                      expected |-> calls[c].expected,
                                      payload |-> JobPayload(calls[c].draft)]]
    /\ UNCHANGED <<drafts, job>>

RequireStagedSkipped(i) == i \in DOMAIN drafts

\* require_staged and the check of update_draft
RequireStaged(i) == drafts[i].status = "staged"

\* The status check, outside the transaction.
Check(c) ==
    /\ calls[c].pc = "read"
    /\ calls' = [calls EXCEPT ![c] = IF RequireStaged(calls[c].draft)
                                       THEN [calls[c] EXCEPT !.pc = "checked"] ELSE Idle]
    /\ UNCHANGED <<drafts, job>>

CurrentAlways(c) == calls[c].pc = "checked"

\* The revision check of mutate.
Current(c) == calls[c].expected \in {Unchecked, drafts[calls[c].draft].revision}

\* The approve transaction can fail on two unique constraints: another active
\* draft of the item, and the job id derived from the draft id.
Approvable(i) ==
    /\ \A k \in DOMAIN drafts : k # i => ~Active(k)
    /\ job[i] = NoJob

\* The row after a mutation: mutate moves the revision on by one.
Bumped(i, status, content) ==
    [drafts EXCEPT ![i] = [status |-> status, content |-> content, revision |-> @.revision + 1]]

\* approve: UPDATE and enqueue_within in one transaction.
Approve(c) ==
    LET i == calls[c].draft
    IN  /\ calls[c].pc = "checked" /\ calls[c].op = "approve"
        /\ drafts[i].revision < MaxRevision
        /\ Current(c) /\ Approvable(i)
        /\ drafts' = Bumped(i, "approved", drafts[i].content)
        /\ job' = [job EXCEPT ![i] = calls[c].payload]
        /\ calls' = [calls EXCEPT ![c] = Idle]

\* reject: the UPDATE looks at the draft id only.
Reject(c) ==
    LET i == calls[c].draft
    IN  /\ calls[c].pc = "checked" /\ calls[c].op = "reject"
        /\ drafts[i].revision < MaxRevision
        /\ Current(c)
        /\ drafts' = Bumped(i, "rejected", drafts[i].content)
        /\ calls' = [calls EXCEPT ![c] = Idle]
        /\ UNCHANGED job

\* update_draft: the new fields replace the old; the status is left alone.
Edit(c) ==
    LET i == calls[c].draft
    IN  /\ calls[c].pc = "checked" /\ calls[c].op = "edit"
        /\ drafts[i].revision < MaxRevision
        /\ Current(c)
        /\ drafts' = Bumped(i, drafts[i].status, drafts[i].revision + 1)
        /\ calls' = [calls EXCEPT ![c] = Idle]
        /\ UNCHANGED job

\* A revision conflict, or a constraint that rolls the transaction back.
Refused(c) ==
    /\ calls[c].pc = "checked"
    /\ ~Current(c) \/ (calls[c].op = "approve" /\ ~Approvable(calls[c].draft))
    /\ calls' = [calls EXCEPT ![c] = Idle]
    /\ UNCHANGED <<drafts, job>>

\* The process dies, or the database is busy: the request is lost.
Lost(c) ==
    /\ calls[c].pc # "idle"
    /\ calls' = [calls EXCEPT ![c] = Idle]
    /\ UNCHANGED <<drafts, job>>

Next ==
    \/ Stage
    \/ \E c \in Requests : \/ Send(c) \/ Read(c) \/ Check(c) \/ Approve(c)
                           \/ Reject(c) \/ Edit(c) \/ Refused(c) \/ Lost(c)

Spec == Init /\ [][Next]_vars

-----------------------------------------------------------------------------
Draft == [status : Statuses, content : Nat \ {0}, revision : Nat \ {0}]

Call == [pc : {"idle"}]
        \cup [pc : {"sent"}, op : Operations, draft : Nat \ {0}, expected : Nat]
        \cup [pc : {"read", "checked"}, op : Operations, draft : Nat \ {0},
              expected : Nat, payload : Nat \ {0}]

\* Types of every variable; every draft has a job slot, and every request names
\* a draft that exists, at a revision it has had.
TypeOK ==
    /\ drafts \in Seq(Draft)
    /\ job \in Seq(Nat) /\ Len(job) = Len(drafts)
    /\ calls \in [Requests -> Call]
    /\ \A c \in Requests : calls[c].pc # "idle" =>
          /\ calls[c].draft \in DOMAIN drafts
          /\ calls[c].expected <= drafts[calls[c].draft].revision

\* "rejected drafts are history": the provider write of a draft exists exactly
\* when the draft stands approved, so nothing is written for a rejected one.
JobIffApproved ==
    \A i \in DOMAIN drafts : (job[i] # NoJob) <=> (drafts[i].status = "approved")

\* "Approval builds the provider payload from the stored row, so edits flow
\* into the write": what will be written is what the approved row says.
JobWritesStoredRow ==
    \A i \in DOMAIN drafts : job[i] # NoJob => job[i] = drafts[i].content

\* One provider write per work item, however many drafts it goes through.
OneWritePerItem == Cardinality({i \in DOMAIN drafts : job[i] # NoJob}) <= 1

\* "AI-produced fields remain editable until accepted": a decided draft never
\* changes again, in status or in content.
DecidedIsFinal ==
    [][\A i \in DOMAIN drafts : drafts[i].status # "staged" => drafts'[i] = drafts[i]]_vars

\* What the gate rests on when every request carries a revision: while the
\* revision of a checked request is current, the draft is staged and holds the
\* content the request has read; and the index is respected.
GateSupport ==
    /\ \A c \in Requests : calls[c].pc \in {"sent", "read", "checked"} =>
          calls[c].expected # Unchecked
    /\ \A c \in Requests :
          calls[c].pc \in {"read", "checked"} /\ Current(c) =>
              calls[c].payload = drafts[calls[c].draft].content
    /\ \A c \in Requests :
          calls[c].pc = "checked" /\ Current(c) => RequireStaged(calls[c].draft)
    /\ \A i, k \in DOMAIN drafts : Active(i) /\ Active(k) => i = k

GateInv == TypeOK /\ JobIffApproved /\ JobWritesStoredRow /\ GateSupport
=============================================================================
