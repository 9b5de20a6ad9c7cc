---------------------------- MODULE DraftEnrichment ----------------------------
(***************************************************************************)
(* Web enrichment of staged drafts (crates/bos-app/src/slices/enrichment/, *)
(* crm_record_drafts/, invoice_drafts/): background runs look for the      *)
(* fields a CRM record draft or an invoice draft still lacks, and graft    *)
(* what they find onto the draft, while the operator edits, approves or    *)
(* rejects it.  A run is started after staging, by the operator's button   *)
(* (in standard or in research mode), or by the freshness pump; the last   *)
(* two go through the registry of AsyncKickoff.                            *)
(*                                                                         *)
(* The network and the LLM are asked without a connection in hand, and the *)
(* graft carries no expected revision: what a run has read may be old when *)
(* it writes.  The operator's own requests carry the revision they have    *)
(* seen, so each acts on the row its transaction finds, as the module      *)
(* DraftApproval shows; they are single steps here.                        *)
(***************************************************************************)
EXTENDS AsyncKickoff, Sequences, FiniteSets

CONSTANTS
    Requests,   \* idempotency keys of the enrich button, numbered in the order of use
    Threads,    \* threads of request handlers and of the runs they start, numbered
    Pump,       \* the thread of the freshness pump, a number too
    Budget,     \* max_enrichments_per_cycle
    Lookahead,  \* newest drafts listed for each enrichment left, 4 in the code
    Scopes      \* bounds: kinds, modes and fills that occur, what is edited, drafts, the
                \* operator's acts, sendings of requests, epochs, faults

Drafts == Keys   \* numbered in the order of created_at_ms
DraftKinds == {"crm", "invoice"}
Fields == {"name", "detail"}   \* detail: a record's website, an invoice's customer email
Modes == {"standard", "research"}
Actors == Threads \cup {Pump}
Values == {"none", "weak", "known", "web", "typed"}
Filled == [Fields -> Values]
Subjects == {"company", "contact", "invoice"}
Plans == Subjects \X (Values \cup {"source"})
Marks == {"plan", "manual", "research", "bucket"} \cup Fields
RunIds == Drafts \X (SUBSET Marks) \X Nat \X Plans
Scope == [kinds : SUBSET DraftKinds, modes : SUBSET Modes,
          fills : SUBSET [fields : Filled, contact : BOOLEAN, sourced : BOOLEAN],
          edits : SUBSET (Fields \cup {"contact"}), staged : Nat, drafts : Nat,
          acts : Nat, sends : Nat, epochs : Nat, faults : Nat]

ASSUME EnrichAssumption ==
    Budget \in Nat \ {0} /\ Lookahead \in Nat \ {0} /\ Scopes \subseteq Scope
ASSUME NamesAssumption ==
    /\ Keys \cup Requests \cup Actors \subseteq Nat /\ Pump \notin Threads
    /\ IsFiniteSet(Threads) /\ NoRun \notin RunIds

VARIABLES
    drafts,    \* tables crm_record_drafts and invoice_drafts, with the outbox job
    runs,      \* table enrichment_runs: what is known of each run, by run id
    applied,   \* applied receipts, by idempotency key
    requests,  \* what each request asks for, once it has been sent
    calls,     \* per thread: where it stands
    pump,      \* the pump's cycle
    epoch,     \* the freshness epoch: the time in units of stale_after_ms
    begun,     \* history: what has started a run: requests, and buckets of the pump
    amiss,     \* history: what happened that the code does not provide for
    spent,     \* edits and decisions, sendings and faults so far
    scope      \* the bounds of this behaviour

enrichVars == <<registry, drafts, runs, applied, requests, calls, pump, epoch, begun, amiss,
                spent, scope>>
db == <<drafts, runs, applied>>

Idle == [pc |-> "idle"]
Unsent == [mode |-> "unsent"]
NoDraft == [status |-> "absent"]
NoJob == [job |-> "none"]
NoRow == [row |-> "none"]
Nothing == [d \in Drafts |-> NoRun]
AtRest == [left |-> 0, epoch |-> 0, ahead |-> <<>>, todo |-> Nothing]

Statuses == {"staged", "approved", "rejected"}
Outcomes == {"failed", "partial", "completed"}   \* no reader tells skipped from failed

Goto(t, call) == calls' = [calls EXCEPT ![t] = call]
At(t, pc) == calls[t].pc = pc
Free(t) == calls[t] = Idle /\ \A u \in Threads : u < t => calls[u] # Idle   \* any will do
Mine(t) == drafts[calls[t].draft]
Spend(what) == spent[what] < scope[what] /\ spent' = [spent EXCEPT ![what] = @ + 1]

-----------------------------------------------------------------------------
\* The draft field policy: enrichment may fill what is NULL, and replace a name
\* that is a domain-like placeholder still grounded in the AI's quote.
Fillable(value) == value \in {"none", "weak"}

MissingRecordFields(fields) == {f \in Fields : Fillable(fields[f])}

MissingCustomerFields(fields) == {f \in Fields : Fillable(fields[f])}

Missing(kind, fields) ==
    IF kind = "crm" THEN MissingRecordFields(fields) ELSE MissingCustomerFields(fields)

\* What the graft makes of a row: the gaps it has a value for are filled.
Fill(fields, found) ==
    [f \in Fields |-> IF f \in found /\ Fillable(fields[f]) THEN "web" ELSE fields[f]]

\* The plan of a draft: whom it is about, and the domain that seeds the search, out
\* of the source's text or else out of the record's website.  An edit or a graft of
\* a record may change both; an invoice's plan rests on its source alone.
Subject(row) ==
    IF row.kind = "invoice" THEN "invoice" ELSE IF row.contact THEN "contact" ELSE "company"
Seed(row) == IF row.kind = "invoice" \/ row.sourced THEN "source" ELSE row.fields.detail
Plan(row) == <<Subject(row), Seed(row)>>

\* Run ids are hashes of the draft, the plan and an epoch.
PlanRun(d, plan) == <<d, {"plan"}, 0, plan>>
ManualRun(d, c, plan) == <<d, {"manual"}, c, plan>>
ResearchRun(d, missing, plan) == <<d, {"research"} \cup missing, 0, plan>>
BucketRun(d, e, plan) == <<d, {"bucket"}, e, plan>>

\* standard_enrichment_run_id: the request's key is the epoch.
StandardRun(d, c) == ManualRun(d, c, Plan(drafts[d]))

\* A new plan gives the next run of the draft a new id, and overtakes the id under
\* which the pump's cycle has collected it.
Replanned(d, row) ==
    IF Plan(row) = Plan(drafts[d]) THEN {}
    ELSE {<<"replanned", d>>} \cup
         (IF pump.todo[d] # NoRun THEN {<<"overtaken", d>>} ELSE {})

-----------------------------------------------------------------------------
\* A record draft creates a company, and a contact too or not.
StagedRow(kind, fill) ==
    [kind |-> kind, status |-> "staged", fields |-> fill.fields, job |-> NoJob,
     contact |-> kind = "crm" /\ fill.contact, sourced |-> fill.sourced]

\* The process starts on a database that may hold staged drafts.
EnrichInit ==
    /\ EmptyRegistry
    /\ scope \in Scopes
    /\ \E kind \in scope.kinds, fill \in scope.fills :
          drafts = [d \in Drafts |->
                      IF d <= scope.staged THEN StagedRow(kind, fill) ELSE NoDraft]
    /\ runs = [r \in {} |-> NoRow]
    /\ applied = {}
    /\ requests = [c \in Requests |-> Unsent]
    /\ calls = [t \in Actors |-> Idle]
    /\ pump = AtRest /\ epoch = 1
    /\ begun = {} /\ amiss = {}
    /\ spent = [acts |-> 0, sends |-> 0, faults |-> 0]

\* A run about to start: run_inner and its callers.
Planned(d, run, seen, guard) ==
    [pc |-> "planned", draft |-> d, run |-> run, seen |-> seen, guard |-> guard]

\* insert_draft of the record kind and of the invoice kind: the fill leaves some
\* fields open.  The thread goes on with after_stage.
Stage(t, d) ==
    /\ Free(t)
    /\ drafts[d] = NoDraft /\ d <= scope.drafts
    /\ \A b \in Drafts : b < d => drafts[b] # NoDraft
    /\ \E kind \in scope.kinds, fill \in scope.fills :
          drafts' = [drafts EXCEPT ![d] = StagedRow(kind, fill)]
    /\ Goto(t, [pc |-> "staged", draft |-> d])
    /\ UNCHANGED <<registry, runs, applied, requests, pump, epoch, begun, amiss, spent, scope>>

\* after_stage of the record kind: the staged drafts of the item.
AfterStageRecord(row) == row.status = "staged"

\* after_stage of the invoice kind: the active draft, when it lacks something.
AfterStageInvoice(row) ==
    row.status # "rejected" /\ MissingCustomerFields(row.fields) # {}

\* after_stage: the run does not go through the registry.
AfterStage(t) ==
    LET d == calls[t].draft
        wanted == IF Mine(t).kind = "crm" THEN AfterStageRecord(Mine(t))
                                          ELSE AfterStageInvoice(Mine(t))
    IN  /\ At(t, "staged")
        /\ Goto(t, IF wanted THEN Planned(d, PlanRun(d, Plan(Mine(t))), Mine(t).fields, "none")
                             ELSE Idle)
        /\ UNCHANGED <<registry, db, requests, pump, epoch, begun, amiss, spent, scope>>

-----------------------------------------------------------------------------
\* The operator edits a staged draft: every field is kept or typed anew, the detail
\* may be cleared, and a record's contact wanted or not.  A typed name that looks
\* like a domain and is part of the AI's quote passes for the AI's own: it is weak.
EditedFields(fields) ==
    {new \in Filled : /\ new.name \in {fields.name, "typed", "weak"}
                      /\ new.detail \in {fields.detail, "typed", "none"}
                      /\ \A f \in Fields : f \notin scope.edits => new[f] = fields[f]}

EditedContact(row) ==
    IF row.kind = "crm" /\ "contact" \in scope.edits THEN BOOLEAN ELSE {row.contact}

Edit(d) ==
    /\ drafts[d].status = "staged" /\ Spend("acts")
    /\ \E new \in EditedFields(drafts[d].fields), contact \in EditedContact(drafts[d]) :
          LET row == [drafts[d] EXCEPT !.fields = new, !.contact = contact]
          IN  /\ row # drafts[d]
              /\ drafts' = [drafts EXCEPT ![d] = row]
              /\ amiss' = amiss \cup Replanned(d, row)
    /\ UNCHANGED <<registry, runs, applied, requests, calls, pump, epoch, begun, scope>>

\* The runs whose graft has passed its status check and has not been written.
Grafting(d) == {t \in Actors : calls[t] # Idle /\ calls[t].pc = "graft" /\ calls[t].draft = d}
Late(d) == IF Grafting(d) # {} THEN {<<"late", d>>} ELSE {}

\* approve_draft of the invoice kind asks for a customer email; the record kind
\* asks for a name, which the row always has.
Approvable(row) == row.kind = "invoice" => row.fields.detail # "none"

Approve(d) ==
    /\ drafts[d].status = "staged" /\ Approvable(drafts[d]) /\ Spend("acts")
    /\ drafts' = [drafts EXCEPT ![d].status = "approved", ![d].job = drafts[d].fields]
    /\ amiss' = amiss \cup Late(d)
    /\ UNCHANGED <<registry, runs, applied, requests, calls, pump, epoch, begun, scope>>

Reject(d) ==
    /\ drafts[d].status = "staged" /\ Spend("acts")
    /\ drafts' = [drafts EXCEPT ![d].status = "rejected"]
    /\ amiss' = amiss \cup Late(d)
    /\ UNCHANGED <<registry, runs, applied, requests, calls, pump, epoch, begun, scope>>

-----------------------------------------------------------------------------
\* kick_on_demand_enrichment of the invoice kind; it has no research mode, and
\* its run id has no epoch.
InvoiceRun(d, mode) == IF mode = "standard" THEN {PlanRun(d, Plan(drafts[d]))} ELSE {}

\* kick_on_demand_research_enrichment: a draft that lacks nothing is refused; the
\* run id carries the fields it lacks.
ResearchRuns(d) ==
    LET missing == MissingRecordFields(drafts[d].fields)
    IN  IF missing # {} THEN {ResearchRun(d, missing, Plan(drafts[d]))} ELSE {}

\* kick_on_demand_enrichment of the record kind
RecordRun(d, c, mode) == IF mode = "research" THEN ResearchRuns(d) ELSE {StandardRun(d, c)}

\* The planned run of a request, if it is not refused (load_staged_enrichment_draft).
PlannedRuns(d, c, mode) ==
    IF drafts[d].status # "staged" THEN {}
    ELSE IF drafts[d].kind = "crm" THEN RecordRun(d, c, mode) ELSE InvoiceRun(d, mode)

\* enrich_draft, for a new key or once more for a key already sent: the draft is
\* read and the run planned.
Kick(t, c, d, mode) ==
    /\ Free(t) /\ \A b \in Requests : b < c => requests[b] # Unsent
    /\ requests[c] \in {Unsent, [mode |-> mode, draft |-> d]} /\ mode \in scope.modes
    /\ Spend("sends")
    /\ requests' = [requests EXCEPT ![c] = [mode |-> mode, draft |-> d]]
    /\ \E run \in PlannedRuns(d, c, mode) :
          Goto(t, [pc |-> "loaded", draft |-> d, run |-> run, seen |-> drafts[d].fields,
                   guard |-> IF mode = "research" THEN "limited" ELSE "open", req |-> c])
    /\ UNCHANGED <<registry, db, pump, epoch, begun, amiss, scope>>

TakeGuard(t) ==
    IF calls[t].guard = "limited" THEN GuardStarted(calls[t].draft, calls[t].run)
                                  ELSE GuardStartedUnbounded(calls[t].draft, calls[t].run)

ReleaseGuardNever(t) == UNCHANGED registry

ReleaseGuard(t) ==
    CASE calls[t].guard = "limited" -> DropGuard(calls[t].draft)
      [] calls[t].guard = "open" -> DropGuardUnbounded(calls[t].draft)
      [] OTHER -> UNCHANGED registry

Turned(t) ==
    AlreadyRunning(calls[t].draft) \/ (calls[t].guard = "limited" /\ Full)

\* begin takes the guard, or the request is answered already_running or
\* research_concurrency_limit.
BeginKickoff(t) ==
    /\ At(t, "loaded")
    /\ \/ Turned(t) /\ Goto(t, Idle) /\ UNCHANGED registry
       \/ ~Turned(t) /\ TakeGuard(t) /\ Goto(t, [calls[t] EXCEPT !.pc = "guarded"])
    /\ UNCHANGED <<db, requests, pump, epoch, begun, amiss, spent, scope>>

Replayed(key) == key \in applied

Trigger(trigger) ==
    /\ begun' = begun \cup {trigger}
    /\ amiss' = amiss \cup (IF trigger \in begun THEN {<<"twice", trigger>>} ELSE {})

RecordKickoffAgain(t) ==
    /\ At(t, "guarded")
    /\ applied' = applied \cup {<<"kickoff", calls[t].req>>}
    /\ Trigger(<<"click", calls[t].req>>)
    /\ Goto(t, Planned(calls[t].draft, calls[t].run, calls[t].seen, calls[t].guard))
    /\ UNCHANGED <<registry, drafts, runs, requests, pump, epoch, spent, scope>>

\* record_on_demand_kickoff: a replay starts nothing; otherwise the run gets its
\* thread and the guard goes with it.
RecordKickoff(t) ==
    LET key == <<"kickoff", calls[t].req>>
    IN  /\ At(t, "guarded")
        /\ \/ /\ Replayed(key)
              /\ ReleaseGuard(t) /\ Goto(t, Idle)
              /\ UNCHANGED <<applied, begun, amiss>>
           \/ /\ ~Replayed(key)
              /\ applied' = applied \cup {key}
              /\ Trigger(<<"click", calls[t].req>>)
              /\ Goto(t, Planned(calls[t].draft, calls[t].run, calls[t].seen, calls[t].guard))
              /\ UNCHANGED registry
        /\ UNCHANGED <<drafts, runs, requests, pump, epoch, spent, scope>>

-----------------------------------------------------------------------------
\* last_accepted_proposal_at_ms: a run about the subject that ended, completed or
\* partial, in epoch e or later has an accepted proposal for one of the fields.
\* (The window is the epoch, and e is the one the cycle began in.)
RecentlyAccepted(d, fields, e) ==
    \E r \in DOMAIN runs :
        /\ r[1] = d /\ r[4][1] = Subject(drafts[d]) /\ runs[r].status \in {"completed", "partial"}
        /\ runs[r].at >= e /\ runs[r].accepted \cap fields # {}

RunExists(r) == r \in DOMAIN runs

\* The id under which a cycle of epoch e collects the draft as it is.
BucketNow(d, e) == BucketRun(d, e, Plan(drafts[d]))

\* freshness_candidates of the record kind: staged drafts that lack a critical
\* field, unless one was found lately or the bucket has its run.
RecordCandidate(d, e) ==
    LET missing == MissingRecordFields(drafts[d].fields)
    IN  /\ drafts[d].kind = "crm" /\ drafts[d].status = "staged" /\ missing # {}
        /\ ~RecentlyAccepted(d, missing, e) /\ ~RunExists(BucketNow(d, e))

\* freshness_candidates of the invoice kind
InvoiceCandidate(d, e) ==
    LET missing == MissingCustomerFields(drafts[d].fields)
    IN  /\ drafts[d].kind = "invoice" /\ drafts[d].status = "staged" /\ missing # {}
        /\ ~RecentlyAccepted(d, missing, e) /\ ~RunExists(BucketNow(d, e))

\* The drafts a collection looks at: the newest of the kind, of whatever status.
OfKind(kind) == {d \in Drafts : drafts[d] # NoDraft /\ drafts[d].kind = kind}
Newer(d, S) == {b \in S : b > d}
Listed(left) ==
    {d \in Drafts : \E kind \in DraftKinds :
        d \in OfKind(kind) /\ Cardinality(Newer(d, OfKind(kind))) < Lookahead * left}

\* A draft that a cycle with its whole budget would try.
Candidate(d, e) ==
    d \in Listed(Budget) /\ (RecordCandidate(d, e) \/ InvoiceCandidate(d, e))

\* collect_candidates of an adapter: at most as many as the cycle has left, each
\* with its run id; the newest is tried first.
Chosen(subject, left, e) ==
    LET S == {d \in Listed(left) : Candidate(d, e) /\ Subject(drafts[d]) = subject}
    IN  {d \in S : Cardinality(Newer(d, S)) < left}
Collected(subject, left, e) ==
    [d \in Drafts |-> IF d \in Chosen(subject, left, e) THEN BucketNow(d, e) ELSE NoRun]
Todo == {d \in Drafts : pump.todo[d] # NoRun}
Newest(S) == {d \in S : Newer(d, S) = {}}

\* try_begin_sync and the start of run_cycle, which fixes the epoch (a cycle
\* without candidates does nothing).
PumpBegin ==
    /\ calls[Pump] = Idle /\ pump = AtRest
    /\ \E d \in Drafts : Candidate(d, epoch)
    /\ pump' = [left |-> Budget, epoch |-> epoch, ahead |-> <<"company", "contact", "invoice">>,
                todo |-> Nothing]
    /\ UNCHANGED <<registry, db, requests, calls, epoch, begun, amiss, spent, scope>>

InCycle == calls[Pump] = Idle /\ pump # AtRest

Collecting == InCycle /\ Todo = {} /\ pump.left > 0 /\ pump.ahead # <<>>

PumpCollect ==
    /\ Collecting
    /\ pump' = [pump EXCEPT !.todo = Collected(Head(pump.ahead), pump.left, pump.epoch),
                            !.ahead = Tail(pump.ahead)]
    /\ UNCHANGED <<registry, db, requests, calls, epoch, begun, amiss, spent, scope>>

\* A collection that cannot read the database ends the cycle.
PumpFails ==
    /\ Collecting /\ Spend("faults")
    /\ pump' = AtRest
    /\ UNCHANGED <<registry, db, requests, calls, epoch, begun, amiss, scope>>

\* begin_freshness_candidate takes the guard under the id that was collected; then
\* run_freshness_enrichment reads the draft again and makes its id anew.
PumpTry ==
    /\ InCycle /\ pump.left > 0
    /\ \E d \in Newest(Todo) :
          \/ /\ AlreadyRunning(d)
             /\ pump' = [pump EXCEPT !.todo[d] = NoRun]
             /\ UNCHANGED <<registry, calls>>
          \/ /\ ~AlreadyRunning(d) /\ drafts[d].status # "staged"
             /\ pump' = [pump EXCEPT !.todo[d] = NoRun, !.left = @ - 1]
             /\ UNCHANGED <<registry, calls>>
          \/ /\ drafts[d].status = "staged"
             /\ GuardStartedUnbounded(d, pump.todo[d])
             /\ Goto(Pump, Planned(d, BucketNow(d, pump.epoch), drafts[d].fields, "open"))
             /\ pump' = [pump EXCEPT !.todo[d] = NoRun, !.left = @ - 1]
    /\ UNCHANGED <<db, requests, epoch, begun, amiss, spent, scope>>

\* The end of run_guarded_cycle.
PumpEnd ==
    /\ InCycle /\ (pump.left = 0 \/ (Todo = {} /\ pump.ahead = <<>>))
    /\ pump' = AtRest
    /\ UNCHANGED <<registry, db, requests, calls, epoch, begun, amiss, spent, scope>>

Tick ==
    /\ epoch < scope.epochs /\ epoch' = epoch + 1
    /\ UNCHANGED <<registry, db, requests, calls, pump, begun, amiss, spent, scope>>

-----------------------------------------------------------------------------
\* run_inner, run_record_research_enrichment: the run's row, unless there is one
\* of that id.  A write that fails is only logged.
NewRun == [status |-> "started", accepted |-> {}, at |-> 0]
Started(t) ==
    [r \in DOMAIN runs \cup {calls[t].run} |-> IF RunExists(r) THEN runs[r] ELSE NewRun]

StartRun(t) ==
    /\ At(t, "planned")
    /\ runs' = Started(t)
    /\ Goto(t, [calls[t] EXCEPT !.pc = "looking"])
    /\ IF t = Pump THEN Trigger(<<"bucket", calls[t].run>>) ELSE UNCHANGED <<begun, amiss>>
    /\ UNCHANGED <<registry, drafts, applied, requests, pump, epoch, spent, scope>>

StartUnrecorded(t) ==
    /\ At(t, "planned") /\ Spend("faults")
    /\ Goto(t, [calls[t] EXCEPT !.pc = "looking"])
    /\ amiss' = amiss \cup {<<"unrecorded", calls[t].run>>}
    /\ UNCHANGED <<registry, db, requests, pump, epoch, begun, scope>>

Outcome(t, outcome) ==
    [pc |-> "finish", draft |-> calls[t].draft, run |-> calls[t].run,
     guard |-> calls[t].guard, outcome |-> outcome]

Graft(t, found, fields) ==
    [pc |-> "graft", draft |-> calls[t].draft, run |-> calls[t].run, guard |-> calls[t].guard,
     found |-> found, fields |-> fields]

\* append_run_diagnostics keeps the proposals of the first run of an id: what the
\* draft already had (tier 1), and what was found, except by research.
Proposed(t, found) ==
    LET r == calls[t].run
        had == {f \in Fields : calls[t].seen[f] # "none"}
    IN  IF RunExists(r) /\ ~Replayed(<<"events", r>>)
          THEN /\ runs' = [runs EXCEPT ![r].accepted =
                             IF "research" \in r[2] THEN had ELSE had \cup found]
               /\ applied' = applied \cup {<<"events", r>>}
          ELSE UNCHANGED <<runs, applied>>

CheckRecordNever(t, found) == Graft(t, found, NoRow)

\* apply_web_enrichment, before its transaction: the status only.
CheckRecord(t, found) ==
    IF Mine(t).status = "staged" THEN Graft(t, found, NoRow) ELSE Outcome(t, "failed")

\* apply_customer_enrichment, before its transaction: the status, and the row that
\* is to be written.
CheckCustomer(t, found) ==
    LET fields == Fill(Mine(t).fields, found)
    IN  IF found = {} THEN Outcome(t, "partial")
        ELSE IF Mine(t).status # "staged" THEN Outcome(t, "failed")
        ELSE IF fields = Mine(t).fields THEN Outcome(t, "partial")
        ELSE Graft(t, found, fields)

\* literal_domain: the seed, or the domain that the operator's click may bring;
\* research finds its own.
Seeded(run) == run[4][2] # "none" \/ run[2] \cap {"manual", "research"} # {}

\* run_web_search_tier and the research runner: a crawl or a search, then the LLM
\* for what is missing; what is found goes to finalize_web_enrichment.
Look(t) ==
    /\ At(t, "looking") /\ Seeded(calls[t].run)
    /\ \E found \in SUBSET Missing(Mine(t).kind, calls[t].seen) :
          /\ Proposed(t, found)
          /\ Goto(t, IF Mine(t).kind = "crm" THEN CheckRecord(t, found)
                                             ELSE CheckCustomer(t, found))
    /\ UNCHANGED <<registry, drafts, requests, pump, epoch, begun, amiss, spent, scope>>

\* The tier is switched off or there is no domain, no page is found, or the crawl
\* fails: the run ends without a graft.
LookInVain(t) ==
    /\ At(t, "looking")
    /\ \E outcome \in {"partial", "failed"} : Proposed(t, {}) /\ Goto(t, Outcome(t, outcome))
    /\ UNCHANGED <<registry, drafts, requests, pump, epoch, begun, amiss, spent, scope>>

GraftedRecordBlindly(t) ==
    [f \in Fields |-> IF f \in calls[t].found THEN "web" ELSE Mine(t).fields[f]]

\* The transaction of apply_web_enrichment reads the row again.
GraftedRecord(t) == Fill(Mine(t).fields, calls[t].found)

\* The transaction of apply_customer_enrichment writes what was made before.
GraftedCustomer(t) == calls[t].fields

\* The graft's transaction carries no revision.  A run id that has grafted before
\* is a replay, taken for a success.
Apply(t) ==
    LET key == <<"apply", calls[t].run>>
        row == [Mine(t) EXCEPT !.fields = IF Mine(t).kind = "crm" THEN GraftedRecord(t)
                                                                 ELSE GraftedCustomer(t)]
        filled == Mine(t).kind = "invoice" \/ calls[t].found # {}
    IN  /\ At(t, "graft")
        /\ \/ /\ Replayed(key)
              /\ amiss' = amiss \cup {<<"hollow", calls[t].run>>}
              /\ UNCHANGED <<drafts, applied>>
           \/ /\ ~Replayed(key)
              /\ applied' = applied \cup {key}
              /\ drafts' = [drafts EXCEPT ![calls[t].draft] = row]
              /\ amiss' = amiss \cup Replanned(calls[t].draft, row)
        /\ Goto(t, Outcome(t, IF filled THEN "completed" ELSE "partial"))
        /\ UNCHANGED <<registry, runs, requests, pump, epoch, begun, spent, scope>>

\* The graft's write fails.
ApplyFails(t) ==
    /\ At(t, "graft") /\ Spend("faults")
    /\ Goto(t, Outcome(t, "failed"))
    /\ UNCHANGED <<registry, db, requests, pump, epoch, begun, amiss, scope>>

\* transition_run_status, then the guard is dropped: the same outcome a second
\* time is a replay.
Finish(t) ==
    LET r == calls[t].run
        key == <<"status", r, calls[t].outcome>>
    IN  /\ At(t, "finish")
        /\ IF RunExists(r) /\ ~Replayed(key)
             THEN /\ runs' = [runs EXCEPT ![r].status = calls[t].outcome, ![r].at = epoch]
                  /\ applied' = applied \cup {key}
             ELSE UNCHANGED <<runs, applied>>
        /\ ReleaseGuard(t) /\ Goto(t, Idle)
        /\ UNCHANGED <<drafts, requests, pump, epoch, begun, amiss, spent, scope>>

\* The last write fails, or the thread panics or does not start: its guard is
\* dropped all the same.
Perish(t) ==
    /\ calls[t] # Idle /\ t # Pump /\ Spend("faults")
    /\ IF calls[t].pc \in {"staged", "loaded"} THEN UNCHANGED registry ELSE ReleaseGuard(t)
    /\ Goto(t, Idle)
    /\ UNCHANGED <<db, requests, pump, epoch, begun, amiss, scope>>

\* The process is restarted: only the database is left.
Restart ==
    /\ Spend("faults") /\ RegistryLost
    /\ calls' = [t \in Actors |-> Idle] /\ pump' = AtRest
    /\ UNCHANGED <<db, requests, epoch, begun, amiss, scope>>

Run(t) == StartRun(t) \/ Look(t) \/ LookInVain(t) \/ Apply(t) \/ Finish(t)
Handle(t) == AfterStage(t) \/ BeginKickoff(t) \/ RecordKickoff(t)
PumpStep == PumpBegin \/ PumpCollect \/ PumpTry \/ PumpEnd

EnrichNext ==
    \/ \E t \in Threads :
          \/ \E d \in Drafts : Stage(t, d)
          \/ \E c \in Requests, d \in Drafts, mode \in Modes : Kick(t, c, d, mode)
          \/ Handle(t)
    \/ \E t \in Actors : \/ Run(t) \/ StartUnrecorded(t) \/ ApplyFails(t) \/ Perish(t)
    \/ \E d \in Drafts : Edit(d) \/ Approve(d) \/ Reject(d)
    \/ PumpStep \/ PumpFails \/ Tick \/ Restart

EnrichSpec == EnrichInit /\ [][EnrichNext]_enrichVars

\* The threads run on, and the pump starts its cycles; nobody has to click, and
\* time may stand still.
FairSpec ==
    /\ EnrichSpec
    /\ \A t \in Threads : WF_enrichVars(Handle(t))
    /\ \A t \in Actors : WF_enrichVars(Run(t))
    /\ WF_enrichVars(PumpStep)

-----------------------------------------------------------------------------
\* The shapes of a row and of a thread's call.
Row == [kind : DraftKinds, status : Statuses, fields : Filled, job : {NoJob} \cup Filled,
        contact : BOOLEAN, sourced : BOOLEAN]
Guards == {"none", "open", "limited"}
EnrichCall ==
    {Idle} \cup [pc : {"staged"}, draft : Drafts]
    \cup [pc : {"loaded", "guarded"}, draft : Drafts, run : RunIds, seen : Filled,
          guard : Guards \ {"none"}, req : Requests]
    \cup [pc : {"planned", "looking"}, draft : Drafts, run : RunIds, seen : Filled, guard : Guards]
    \cup [pc : {"graft"}, draft : Drafts, run : RunIds, guard : Guards, found : SUBSET Fields,
          fields : {NoRow} \cup Filled]
    \cup [pc : {"finish"}, draft : Drafts, run : RunIds, guard : Guards, outcome : Outcomes]

\* Types of the tables and of the calls; a decided row keeps what was approved.
EnrichTypeOK ==
    /\ drafts \in [Drafts -> {NoDraft} \cup Row] /\ calls \in [Actors -> EnrichCall]
    /\ \A d \in Drafts : drafts[d] # NoDraft =>
          (drafts[d].job # NoJob <=> drafts[d].status = "approved")
    /\ runs \in [DOMAIN runs -> [status : Outcomes \cup {"started"}, accepted : SUBSET Fields,
                                  at : Nat]]
    /\ pump \in [left : 0..Budget, epoch : Nat, ahead : Seq(Subjects),
                todo : [Drafts -> RunIds \cup {NoRun}]]
    /\ epoch \in Nat \ {0} /\ (pump # AtRest => pump.epoch > 0) /\ scope \in Scopes
    /\ spent \in [acts : Nat, sends : Nat, faults : Nat]

Holding(t) ==
    /\ calls[t].pc \notin {"idle", "staged", "loaded"} /\ calls[t].guard # "none"
Limited == {t \in Actors : Holding(t) /\ calls[t].guard = "limited"}

\* The id under which a call is registered is its own, except where a new plan has
\* overtaken the pump: then it is an id of the same bucket.
Registers(t, c, r) ==
    \/ r = c.run
    \/ /\ t = Pump /\ <<"overtaken", c.draft>> \in amiss
       /\ \E plan \in Plans : r = BucketRun(c.draft, pump.epoch, plan)

\* A draft has at most one registered run, and it is registered exactly while a
\* thread holds its guard; so does the research group count its threads.
RegistryExact ==
    /\ byKey \in [Drafts -> RunIds \cup {NoRun}]
    /\ \A t \in Actors : Holding(t) => Registers(t, calls[t], byKey[calls[t].draft])
    /\ \A t, u \in Actors : Holding(t) /\ Holding(u) /\ calls[t].draft = calls[u].draft => t = u
    /\ \A d \in Drafts : AlreadyRunning(d) => \E t \in Actors : Holding(t) /\ calls[t].draft = d
    /\ byGroup = Cardinality(Limited) /\ byGroup <= Capacity

\* The runs of the freshness pump for one draft and bucket.
SameBucket(r, s) == "bucket" \in r[2] /\ "bucket" \in s[2] /\ r[1] = s[1] /\ r[3] = s[3]

\* A click starts at most one run, however often its request is sent.  A bucket of
\* the freshness pump has one run on record, "will not retry with a new run_id until
\* the bucket rolls", unless the draft's plan has changed, which the promise leaves
\* out; and no run of a bucket is started twice, unless the plan changed between its
\* collection and its start.
OneRunPerTrigger ==
    /\ \A a \in amiss : a[1] = "twice" =>
          a[2][1] = "bucket" /\ <<"overtaken", a[2][2][1]>> \in amiss
    /\ \A r, s \in DOMAIN runs :
          SameBucket(r, s) => r = s \/ <<"replanned", r[1]>> \in amiss

\* What a run is for, under whatever plan.  Several runs may be for one: the plan of an
\* invoice, and research for the same missing fields.
Origin(r) == <<r[1], r[2], r[3]>>
SharedOrigin(origin) ==
    \/ origin = <<origin[1], {"plan"}, 0>> /\ drafts[origin[1]].kind = "invoice"
    \/ "research" \in origin[2]

\* A run of the pump whose id another run may have had before: one whose start could
\* not be recorded, or one that a new plan has overtaken.
MayRepeat(r) ==
    \/ <<"unrecorded", r>> \in amiss
    \/ "bucket" \in r[2] /\ <<"overtaken", r[1]>> \in amiss

\* "accepted_fields_applied": a completed run has grafted; and its graft was a
\* replay that wrote nothing only under a shared run id, or for a run of the pump
\* that may repeat.
CompletedHasGrafted ==
    /\ \A r \in DOMAIN runs : runs[r].status = "completed" => <<"apply", r>> \in applied
    /\ \A a \in amiss : a[1] = "hollow" =>
          <<"apply", a[2]>> \in applied /\ (SharedOrigin(Origin(a[2])) \/ MayRepeat(a[2]))

\* What has begun is on record: a click by its receipt, a bucket by its run.
BegunIsRecorded ==
    \A b \in begun : \/ b[1] = "click" /\ Replayed(<<"kickoff", b[2]>>)
                     \/ b[1] = "bucket" /\ RunExists(b[2])

\* The run has the plan that the draft has now, or the draft has been replanned.
PlannedNow(r) == r[4] = Plan(drafts[r[1]]) \/ <<"replanned", r[1]>> \in amiss

\* Runs, grafts and calls are about drafts that are there; the graft of a click's
\* run follows its receipt, and that of a bucket its run.
RecordsSound ==
    /\ \A r \in DOMAIN runs :
          /\ r \in RunIds /\ drafts[r[1]] # NoDraft /\ PlannedNow(r)
          /\ "bucket" \in r[2] => r = BucketRun(r[1], r[3], r[4])
    /\ \A key \in applied : key[1] = "apply" =>
          LET r == key[2]
          IN  /\ r \in RunIds /\ drafts[r[1]] # NoDraft
              /\ "manual" \in r[2] => Replayed(<<"kickoff", r[3]>>)
              /\ "bucket" \in r[2] => RunExists(r) \/ <<"unrecorded", r>> \in amiss

\* The run of a call is its draft's: the pump's own bucket, or the plan, the click
\* or the research of a thread.
OwnRun(t, c) ==
    /\ c.run[1] = c.draft /\ PlannedNow(c.run)
    /\ t = Pump => /\ c.run = BucketRun(c.draft, pump.epoch, c.run[4]) /\ c.guard = "open"
                   /\ pump.todo[c.draft] = NoRun /\ pump # AtRest
                   /\ c.pc \in {"planned", "looking", "graft", "finish"}
                   /\ IF c.pc = "planned"
                      THEN ~RunExists(c.run) \/ <<"overtaken", c.draft>> \in amiss
                      ELSE RunExists(c.run) \/ <<"unrecorded", c.run>> \in amiss
    /\ t # Pump =>
          \/ c.run = PlanRun(c.draft, c.run[4]) /\ (drafts[c.draft].kind = "crm" => c.guard = "none")
          \/ /\ c.guard = "open" /\ c.run = ManualRun(c.draft, c.run[3], c.run[4])
             /\ IF c.pc \in {"loaded", "guarded"} THEN c.run[3] = c.req
                                                  ELSE Replayed(<<"kickoff", c.run[3]>>)
          \/ /\ c.guard = "limited"
             /\ \E missing \in SUBSET Fields : c.run = ResearchRun(c.draft, missing, c.run[4])

\* What a thread holds when it looks, grafts and finishes: a graft that the
\* decision has overtaken is known to be late.
CallSound(t, c) ==
    c # Idle =>
      /\ drafts[c.draft] # NoDraft
      /\ c.pc # "staged" => OwnRun(t, c)
      /\ c.pc = "staged" => t # Pump
      /\ c.pc = "graft" =>
            /\ drafts[c.draft].kind = "invoice" => c.fields \in Filled
            /\ drafts[c.draft].status = "staged" \/ <<"late", c.draft>> \in amiss
      /\ c.pc = "finish" /\ c.outcome = "completed" => Replayed(<<"apply", c.run>>)

\* A collected id has no run on record, and is the draft's own until it is overtaken.
TodoSound ==
    \A d \in Drafts : pump.todo[d] # NoRun =>
        /\ drafts[d] # NoDraft /\ ~RunExists(pump.todo[d])
        /\ pump.todo[d] = BucketRun(d, pump.epoch, pump.todo[d][4])
        /\ pump.todo[d][4] = Plan(drafts[d]) \/ <<"overtaken", d>> \in amiss

CallsSound == TodoSound /\ \A t \in Actors : CallSound(t, calls[t])

\* What a thread is about to graft for.  Unless it is shared it is nobody else's, and
\* has not been grafted; only the pump may have grafted for it under another plan.
Pending(t) == calls[t].pc \in {"staged", "planned", "looking", "graft"}
OriginOf(t) ==
    IF At(t, "staged") THEN <<calls[t].draft, {"plan"}, 0>> ELSE Origin(calls[t].run)

RunsExclusive ==
    \A t \in Actors : Pending(t) /\ ~SharedOrigin(OriginOf(t)) =>
        /\ \A u \in Actors : Pending(u) /\ OriginOf(u) = OriginOf(t) => u = t
        /\ \A key \in applied : key[1] = "apply" /\ Origin(key[2]) = OriginOf(t) =>
              MayRepeat(key[2]) \/ (t = Pump /\ key[2] # calls[t].run)

EnrichInv ==
    /\ EnrichTypeOK /\ RegistryExact /\ OneRunPerTrigger /\ CompletedHasGrafted
    /\ BegunIsRecorded /\ RecordsSound /\ CallsSound /\ RunsExclusive

\* "Existing fill, operator edits ... win": a run never takes away what the
\* operator typed or the fill knew.  The exception is the invoice graft that read
\* the row before the edit.
EditsWin ==
    [][\A d \in Drafts : \A f \in Fields :
          /\ drafts[d] # NoDraft /\ ~Fillable(drafts[d].fields[f])
          /\ drafts'[d].fields[f] # drafts[d].fields[f]
          => \/ spent'.acts # spent.acts
             \/ /\ drafts[d].kind = "invoice"
                /\ \E t \in Grafting(d) :
                      calls'[t] # calls[t] /\ calls[t].fields[f] # drafts[d].fields[f]]_enrichVars

\* "It only targets still-STAGED drafts": a decided draft is not touched again,
\* except by a graft that had passed its check when the decision fell.
DecidedIsHeld ==
    [][\A d \in Drafts : drafts[d].status \in {"approved", "rejected"} =>
          drafts'[d] = drafts[d] \/ <<"late", d>> \in amiss]_enrichVars

\* A staged draft that lacks a field, and is among the newest the pump lists, gets
\* its freshness run, or no longer needs it, or falls behind newer drafts: no
\* candidate that stays in reach is passed over for ever.
EveryGapTried == \A d \in Drafts : Candidate(d, epoch) ~> ~Candidate(d, epoch)
=============================================================================
