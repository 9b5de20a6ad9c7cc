# BusinessOS in TLA+

A specification of the parts of BusinessOS (`crates/bos-app`,
`crates/bos-kernel`, `crates/bos-integrations`) that decide whether messages
become work, work becomes drafts, and operator-approved effects happen once, are
audited and match what was approved. Section 1 is the inventory of the system,
2 the modules and how they correspond to the code, 3 the model-checking runs,
4 disagreements and observations, 5 the proofs, 6 what is left out, 7 the plan.

    tlc -workers 2 -config MCStoreCore.cfg MCStoreCore   # one run
    tlapm StoreCoreProofs.tla                            # the proofs of a module

## 1. Inventory

BusinessOS is one process, `bos-server`: an axum router over vertical slices
(`bos-app/src/slices/*`), background threads (the *pumps*) and one SQLite
database in WAL mode behind a connection pool. Messages and notes become *work
items*; an operator accepts them; an LLM call *produces* a draft; background runs
*enrich* it; the operator edits, approves or rejects it; approval enqueues a
provider write in the *outbox*, which a pump delivers. Every change of state goes
through the *receipt spine*. The database pool hands each thread a connection of
its own: two transactions never overlap, everything between them interleaves.

| Part | State it keeps | Operations | Talks to | What makes it correct |
|---|---|---|---|---|
| Receipt spine, `store_core.rs` | `receipts`, `entity_revisions` | `mutate`, `record_failed_receipt`, second-entity helpers | every slice calls it | a key takes effect once; no write without receipt; no lost update; replays answer alike |
| Outbox, `outbox.rs` | `outbox_jobs`: status, attempts, lease, due time | enqueue, claim (batch, by id), dispatch, `record_attempt`, operator retry | spine, executors, launch routes | one courier per job; a settled job stays settled; budget kept; every job settles |
| Executors and provider clients, `slices/*/service.rs`, `bos-integrations` | none of their own; objects at the providers | one chain of calls per provider and capability | outbox, write gates, providers | no second object where a lookup or a key can prevent it; "delivered" means complete |
| Email triage and work queue | inbound messages, cursor, verdicts, `work_items` | Gmail pump, webhook ingress, AI pass, reclassify, reset, triage, follow-up | Gmail, LLM, produce | every message handled once, with the item that policy and attention gate ask for; late verdicts do no harm |
| Produce, `produce.rs` | draft tables, in-memory set of in-flight slots | click, note kick, pump cycle, stage | work queue, LLM, draft stores | one active draft; no two LLM calls at once; slots released; items in the pump's window served |
| Smart drafts, `packet_proposals` | `packet_proposal_runs` | kickoff, stage, decline, fail, stale | produce (stage), work queue (system accept) | same drafts as above, without the slot registry |
| Approval gate, `draft_store.rs`, `calendar_drafts` | draft rows: status, fields, revision, job id | stage, approve, reject, edit | spine, outbox | a write exactly for the approved draft, with its content; decisions final |
| Enrichment with CRM record and invoice drafts | `enrichment_runs`, draft rows | run after staging, enrich button (two modes), freshness pump, graft | async kickoff, web, LLM, drafts | operator edits win; decided drafts stay; one run per trigger; no listed draft passed over |
| Async kickoff, `async_kickoff.rs` | registry of running jobs, in memory | `begin`, drop guard | social, retention, enrichment, smart drafts, quotes | registered exactly while it runs; capacity kept |
| Social publishing | sources, proposals, generation status | generate, redraft, approve, reject | async kickoff, LLM, outbox (Buffer) | one live run per source, and the one it names; redraft all or nothing |
| Data retention | in-flight flag | pump cycle, manual run, batches | mail bodies, receipts, async kickoff | only old payloads of listed kinds; every clearing receipted; all cleared in time |
| Accounting cache | credential, latch, cursors, snapshots | sync cycle, connect, disconnect, courier's refresh | QuickBooks | what lies behind a cursor is cached; throttles obeyed; dead grants not retried |
| Kernel work, `bos-kernel` | executions, messages, leases; the runner's claims | submit, claim, renew, resolve, recover | workers | a live lease is honoured, a late holder refused |
| Persistence, `persistence.rs` | pool, schema | `get`, `lock` (panics when exhausted), migrations | everything | — |
| The other slices and caches, console | rows, caches | CRUD, synchronisation, read models | spine, providers | — |

The hard behaviours are at the seams: reads made before `BEGIN IMMEDIATE` and
used after it; a lease that expires under a slow courier; a crash between a
provider call and its record; registries, flags and latches that live in memory
beside tables that do not; LLM and web calls made between a read and a write;
candidates collected at the start of a pump cycle and used minutes later;
idempotency keys derived from content, so that what recurs is a replay.
`PROJECT.json` lists them at their lines, under `hazards`, with the properties
aimed at each.

## 2. Modules

| Module | Models | Instance | Proofs |
|---|---|---|---|
| `StoreCore` | the receipt spine | `MCStoreCore` | `StoreCoreProofs` |
| `EntityLedger` | abstract: an exactly-once versioned store; `StoreCore` implements it | | `LedgerRefinement` |
| `Outbox` | the outbox with its two couriers | `MCOutbox` | `OutboxProofs` |
| `JobLifecycle` | abstract: one authorized effect; `Outbox` implements it | | `LifecycleRefinement` |
| `ProviderWrites` | the executors and the provider clients | `MCProviderWrites` | `ProviderWritesProofs` |
| `Produce` | produce stage, auto-produce pump, smart-draft runs | `MCProduce` | `ProduceProofs` |
| `DraftApproval` | the approval gate | `MCDraftApproval` | `DraftApprovalProofs` |
| `Intake` | email triage and emission of work items | `MCIntake` | in `DraftApprovalProofs` |
| `AsyncKickoff` | the kickoff registry; extended by the next three | | |
| `SocialGeneration` | generation and redraft of social posts | `MCSocialGeneration` | `SocialGenerationProofs` |
| `Retention` | data retention | `MCRetention` | `RetentionProofs` |
| `DraftEnrichment` | web enrichment of CRM record and invoice drafts | `MCDraftEnrichment` | in `ProviderWritesProofs` |
| `AccountingSync` | the QuickBooks cache and its grant | `MCAccountingSync` | in `OutboxProofs` |
| `KernelWork` | the kernel's work store, coordinator and runner | `MCKernelWork` | `KernelWorkProofs` |
| `LeasedWork` | abstract: a leased work queue; `KernelWork` implements it | | `QueueRefinement` |

`PROJECT.json`'s `map` gives the source lines of every definition. Operators
whose name says what is wrong with them (`ReleaseGuardNever`, `ConflictsOnlyWithoutRow`)
are mutated forms of the definition below them, used to see that a property fails
when the code does.

**StoreCore.** `receipts` is the table as a sequence, `revision` is
`entity_revisions` (0 = no row), `rows` counts committed domain writes,
`calls[w]` is where caller `w` stands in `mutate`. The first transaction of
`mutate` is atomic (BEGIN IMMEDIATE), so its outcomes are one action each:
`Replay`, `RevisionConflict`, `Apply`, `RollBack`. `RecordFailure` is the second
transaction of a failed call; `RecordFailedReceipt` the separate entry point;
`Busy` and `Crash` may strike before either transaction. `Prepare` is the
slice's read, which precedes the transaction. History fields (`base`, `over`)
record what a caller had seen and what it replaced.

**Outbox.** `jobs` is the table, `dueQueue` the jobs whose `next_attempt_at`
has passed in claim order, `leased` a live lease; time is the pair of actions
`ComesDue` and `LeaseExpires`. The pump claims a batch and works through it
under leases taken at the start. A launch route claims its own job by id.
`record_attempt` is two actions because the retry cycle is read outside the
transaction (`ReadCycle`, `Record`). `MayStall` says whether a launch (at most
15 s of request and 10 s of database waits, against a lease of 120 s) may
outlive its lease, as on a suspended host or a clock step; `stalled` remembers
the launches that did.

**ProviderWrites.** Begins where `Outbox` sends: an executor is data, its chain
of calls and what its client makes of each answer, for the seventeen pairs of
provider and capability that `dispatch` knows. `Call` makes one call: it takes
effect or not, its answer arrives, is lost, is unreadable or is a refusal. A
request whose client has given it up at its timeout may still be on its way (`adrift`)
and take effect at any later time (`LandsLate`), after the next attempt's lookups too.
`Record` turns the attempt's outcome into the row's status and attempts; the next
attempt starts the chain again. `made` counts the objects a provider holds, `slips`
what went wrong on the way. Of the providers it is assumed that a create under a
known idempotency key makes nothing new, that an event id or invoice number is
taken once, and that a search finds what exists at its time.

**Produce.** A slot is an item with one draft kind, its number its age. A cycle of the
pump looks at the newest `ScanLimit` accepted items (200 in the code) of any category,
whether they have drafts or not, and produces for `MaxPerCycle` of them. `work[w]` is
the produce or smart-draft run of a thread, through guards, LLM call and stage.
`drafts[s]` lists statuses by attempt. Smart-draft runs bypass the slot
registry and meet the others at the unique index only. `Barren` slots never
yield a draft ("no event" in the source). `leaked` remembers the slots of threads
that panicked. A run is over one kind, its kickoff is one step, and a run is
stale when its worker is gone (the threshold is one hour, well over the LLM
timeouts).

**DraftApproval.** One item, its drafts by attempt, an outbox job per draft,
and concurrent requests that read (`Read`), check the status (`Check`) and then
run the transaction. Content is named by the revision that wrote it. `MayOmit`
says whether a request may leave `expected_revision` out, as the contract
allows; the console always sends it (`frontend/src/components/draft/useDraftPanel.ts`).
Each request has an idempotency key of its own: replays are `StoreCore`'s.

**Intake.** `rows` are the inbound messages with category, AI status and generation,
`items` the work items by source, `cursor` the Gmail page. The pump polls, records,
routes and emits message by message, then lets the LLM examine what may be examined;
hooks come in on request threads; operators edit rules and policies, reclassify, reset
verdicts, dismiss, reopen and ask for follow-ups. `lowered` are the messages that the
inbound parsers, at ingestion or in a backfill, have noted as of lower attention: the
kinds in `Deferred` are taken off what the policy asks for (`Gated`), and with nothing
left there is no item. Each transaction is a step. `handled` is history: the messages
answered for.

**AsyncKickoff, SocialGeneration.** `byKey` and `byGroup` are the registry's two
maps; `GuardStarted` and `DropGuard` (and the `Unbounded` forms, for work without
a capacity group) are its only writers. In `SocialGeneration`
requests may be sent again while an earlier sending is served; run id and
proposal id are hashes of the request's key, so the request names them. Handlers
read the source, ask the registry, record the start and hand the guard to a
worker; workers draft, stage and finish, give up, panic or find no thread.

**Retention.** `payloads` are mail bodies and receipt payloads with the day of
their writing; a cycle reads candidates, clears them in a later transaction and
writes a receipt with the count. The flag `inFlight` is raised by pump or request
and lowered by the thread that ran the cycle; a manual run holds a registry place
too. `lock()` may panic wherever it is called: in a cycle, in a request that has raised
the flag (`Panic`), in the pump between cycles (`PumpPanics`).

**DraftEnrichment.** `drafts` are rows of either kind with two fields, a name that may be
a placeholder ("weak") and a detail (a record's website, an invoice's customer email).
`runs` is `enrichment_runs` by run id. A run id is the draft with what the hash is made
of: the plan, and with it the request's key, the missing fields (research) or the
freshness bucket. The plan of a record draft is whom it is about (a company, or with it a
contact) and the domain that seeds the search, out of the source or else of the website:
edits and grafts change it. A thread goes through
`Kick` / `BeginKickoff` / `RecordKickoff` or `AfterStage`, then `StartRun`, `Look`
(crawl, search and LLM: any subset of what it saw missing), `Apply`, `Finish`. The
record kind reads the row again in the graft's transaction, the invoice kind
writes what it built before it. A cycle of the pump goes through its three adapters
(company, contact, invoice). For each it lists the newest drafts of the kind, of any
status, `Lookahead` times the enrichments it has left, and keeps the candidates with the
run ids they have then; it registers a guard under that id and makes the run's id anew
when it starts. The operator's own requests are single steps: that their revision makes
them so is `DraftApproval`'s subject. `amiss` is history: decisions that fell while a
graft was between check and write, triggers that started a run twice, replayed grafts,
starts that could not be recorded, drafts that got a new plan ("replanned"), and those
that got it between collection and start ("overtaken"). Each behaviour carries its own
bounds (`scope`).

**AccountingSync.** The sync thread walks the pages of an entity behind its cursor
(`high`, `since`, `max`, `pos`), then fetches reports; `books` are the companies'
records at the provider. A refresh rotates the grant: a new token is issued and the old
one lives on for a while; the payment courier refreshes the same grant. A dead token is
rejected; a live one may be too, when the token endpoint answers with any status but
2xx, 429 and 5xx (a fault). Records of one last-update time are assumed to come in the
same order on every request: the query names no second key, and the provider promises
none. Keys derived from content are kept in `applied`. `amiss` is history: a record that
moved in mid-walk ("shifted"), a content that recurred, a connection that changed under
a thread ("crossed"), data that outlived its company ("kept"), a second rotation in a
cycle ("unsaved"), a live grant that was rejected ("misjudged").

**KernelWork.** Store operations are single steps (the store has one mutex); a
runner operation is three, with the registry of claims under a lock of its own.
Operations carry the time they are about, up to `Lag` behind the clock.

## 3. Runs

Properties whose name ends in `Inv` are conjunctions; their parts are named in
the modules and listed here.

| Run | Checks | Instance | Distinct states |
|---|---|---|---|
| `store_core` | `OneAppliedPerKey`, `NoLostUpdate`, `SuccessAnswersAgree`, `AuditTrailComplete`, `LedgerRefined` | 2 callers, 2 entities, 2 keys, 3 receipts, two-entity writes | 1.8 M |
| `outbox` | `CourierInv` (`TypeOK`, `NoConcurrentDelivery`, `ClaimsAreCurrent`, `ReportedDeliveredIsDelivered`, and what makes them inductive: `ClaimsHaveRows`, `LeasesProtect`, `KeysAreFresh`, `RowsSound`, `LaunchedOncePerCycle`), `PostsAccounted`, `LifecycleRefined`, `EveryJobSettles` | a launch that may stall and an ordinary job, 2 attempts, batch 2, 1 operator retry, 2 faults, fair | 400 k |
| `provider_writes` | `WritesInv` (`TypeOK`, `MadeOnceWhatever`, `LookupsPreventDuplicates`, and what makes them inductive: `AttemptSound`, `KeysRemembered`, `EffectsSeen`), `BlindWritesExplained`, `DeliveredIsComplete` | 2 jobs of each kind and the two Invoice Ninja kinds together, 2 attempts, 2 faults, 1 retry, requests that land late | 1.9 M |
| `produce` | `SlotInv` (`TypeOK`, `InFlightIsRunning`, `ProducersHoldSlots`), `OneActiveDraft`, `NoDoubleSpend`, `FirstDraftsProduced` | 4 items (one barren, one not opted in), window 2, limit 1, click, pump, run, 1 fault, fair | 444 k |
| `draft_approval` | `GateInv` (`TypeOK`, `JobIffApproved`, `JobWritesStoredRow`, `GateSupport`), `OneWritePerItem`, `DecidedIsFinal` | 3 requests, 2 drafts, 4 revisions | 990 k |
| `kernel_work` | `LeaseInv` (`TypeOK`, `LeaseNamesClaim`, `LiveHolderAccepted`, `LateOutcomesIgnored`, `LeasesAreNumbered`), `LiveLeaseHonoured`, `QueueRefined` | 2 executions, 1 message, 2 threads, lease of 1, lag 1, 2 leases | 1.6 M |
| `social_generation` | `GenerationInv` (`TypeOK`, `RegistryExact`, `RedraftAtomic`, `CallsSound`, `ReceiptsSound`, `GuardsAreCurrent`), `LiveRunIsCurrent`, `ApprovedIsNotRedrafted` | 2 sources, capacity 1, 2 requests, 2 handlers, 2 workers, 1 fault | 1.2 M |
| `intake` | `IntakeInv` (`IntakeTypeOK`, `HandledIsComplete`, `AcceptedHookIsSettled`, `KeysSound`, `CallsSound`), `OneVerdictPerGeneration`, `EmissionKeepsItem` | 1 hook message of lower attention, pump and 2 handlers, 2 categories, 2 edits, 1 fault | 3.2 M |
| `intake_live` | `EveryMailHandled`, `EveryMessageExamined` | 2 mails, one of lower attention, pump, 1 edit, 1 fault, fair | 45 k |
| `retention` | `RetentionInv` (`TypeOK`, `FlagExact`, `OnlyOldMirrorsCleared`, `CyclesSound`), `ClearedIsReceipted`, `OldPayloadsCleared` | 5 payloads, pump and a manual run, batch 2, budget 3, 2 days, 1 fault, fair | 205 k |
| `accounting` | `CacheInv` (`CacheIsConnected`, `WalkedIsCached`, `WalksPinned`, `WalksSound`, `PageSound`), `GrantInv` (`SyncTypeOK`, `RefusedIsBlocked`, `FlagMeansDead`, `TokensSound`, `SameFate`, `WalksUnthrottled`), `StandsDown` | 2 companies, 2 records, pages of 1, three scopes: the books change; companies change; tokens die or are rejected | 1.9 M |
| `draft_enrichment` | `EnrichInv` (`EnrichTypeOK`, `RegistryExact`, `OneRunPerTrigger`, `CompletedHasGrafted`, `BegunIsRecorded`, `RecordsSound`, `CallsSound`, `RunsExclusive`), `EditsWin`, `DecidedIsHeld`, `EveryGapTried` | 1 to 3 drafts, budget 1, window 2, pump and 2 threads, seven scopes, fair | 328 k |

*What they show.* A key takes effect once and is answered alike however requests race; a
write under an expected revision overwrites nothing unseen; no revision lacks its
receipt. A job has one courier as long as a launch ends within its lease; when it does
not, the attempt key still keeps a settled job settled and the budget intact. Every job
settles. At the providers, an object comes into being twice only where no key or number
protects it: what is looked up first, by a request that lands late or after a lookup
that could not be read; what is written blindly, after an answer that was lost or of no
use, a crash, or by a late request too. The unique index and the draft id keep one
active draft per item and kind, the slot registry one produce; an accepted item in the
pump's window gets its first draft. The gate is safe as long as requests carry
revisions. A mail or hook message that was dealt with has its row and, where policy and
attention gate ask for one, its item, and every mail is reached. Registry, flag and
in-memory latch agree with the threads that answer for them, over panics, failed spawns
and restarts. A source's live run is the one it names. Old payloads of listed kinds, and
only those, are cleared and counted. What lies behind an accounting cursor is cached,
unless one of the events that `amiss` names has happened. A lease that has not run out
is honoured, and the kernel's store implements `LeasedWork`. An enrichment takes away
neither an edit nor a decision, outside the two windows of section 4; a click starts one
run, and a freshness bucket one while the draft keeps its plan; and no draft with a gap
that stays among the newest the pump lists is passed over for ever.

*Why these bounds.* A race in the spine needs two callers; two entities are the
most one mutation touches. In the outbox every race is between the two couriers
or between a courier and its own past; two attempts make both the last and a
non-last try happen, a retry restarts the attempt numbers, two faults allow a
crash during recovery from a crash. Two jobs of one kind meet at everything they
share at the provider. With four items, a window of two and a limit of one, both the
window and the limit of produce leave items out: a newer item that is not opted in fills
the window, a barren one the limit. Three
requests are an approval, an edit or reject that races it, and one more; two
drafts are a rejected draft and its successor. One message is enough for the
races of intake, because its state is per message; two are needed for pages.
Two sources under a capacity of one make both refusals happen. A batch of two
and a budget of three leave payloads for a second cycle. In accounting and
enrichment the bounds are chosen per scope (`Scopes`), so that each scope has
the events that matter to each other and no others; in enrichment: a contended
draft (two operator acts against the run after staging and the pump), a click
that shares an id, two drafts competing for budget and capacity, a fault at any
step with a resend, a new epoch, a draft whose plan changes under the pump, and three
drafts where the pump lists two (`Lookahead` is 2 and the budget 1, so that the window
binds; the code has 4). Counters are capped in the guards
(`MaxReceipts`, `MaxRetries`, `MaxFaults`, `MaxRevision`, `MaxEdits`,
`MaxTime`, `MaxLeases`, the fields of `Scopes`); `posts` and `made` are history
and saturate. Interchangeable names are symmetric in the runs without temporal
liveness properties. `CHECK_DEADLOCK FALSE` stands where the system rests when its
work is done or only the bounds stop it: all configurations but those of the spine,
produce, the gate and the executors.

*Fairness.* `Outbox`: weak fairness of the pump's claim and send (it loops for ever in
`spawn_delivery_pump`), of each courier's answer and record (provider clients have
timeouts, a spawned launch runs to its end) and of time. It assumes that delivery is
enabled and that the pump thread lives: it ends if `PersistencePool::lock` panics in it.
`Produce`: weak fairness of the pump's scan and take and of every thread in flight (the
LLM client has a timeout). `FirstDraftsProduced` speaks of behaviours in which operators
stop changing their minds, of items that stay in the window of a scan, and of a limit
that the barren items do not fill. `Intake`: weak fairness of the pump's steps, and
strong fairness of a poll that succeeds (Gmail can be read again and again).
`Retention`: weak fairness of time, of cycles, threads and requests that have begun,
strong fairness of the pump's start, which manual runs may keep out at times;
`OldPayloadsCleared` speaks of processes in which neither the pump, nor a cycle, nor a
request that has raised the flag panics. `DraftEnrichment`: weak fairness of requests
and runs that have begun and of the pump (web and LLM calls have timeouts); nobody has
to click. `EveryGapTried` speaks of drafts in the pump's window. Operators, faults and
the discovery of stale runs are under no obligation anywhere.

## 4. Disagreements and observations

Where the code does something its comments or its neighbours do not expect, the
model has the step, and the property that would forbid it excepts it by name or
by a history variable. By component:

*Spine.* A failed mutation whose second transaction meets a busy database or a
crash leaves no receipt, against "failed mutations are recorded as receipts too"
(`store_core.rs:8`).

*Outbox.* A crash or failed write after the POST of an agent launch makes the
pump post it again, against `agent_launch.rs:145-147`. With a stall, a recording
that is a replay reports its own outcome, against "Returns the job's final status
string" (`outbox.rs:274`).

*Executors.* A lookup answered with an unreadable 2xx body counts as "not found",
and a duplicate follows (against the comment at `invoice_ninja.rs`, about line
1500). The HubSpot association is never made when a later attempt finds the
contact (`hubspot.rs:493-497`). "QBO has no idempotency keys — a replayed timed-out
create could double-post" (`qbo_payment_write.rs:300-303`): the preflight of the open
balance, which a retry makes first, catches a create that has landed by then, and the
job ends Terminal "not payable" although the payment was made; a create that lands after
that preflight is the double post, and `LookupsPreventDuplicates` says that it is the only
one. The same late request makes a second company, contact, account, client, customer or
invoice draft where the client looks up first. A Gmail draft whose token or scope fails is
delivered as a dry run. A Buffer 2xx without post id is Terminal, and an operator's
retry may post again. The write gate is read once per attempt.

*Produce.* A panic in `lock()` skips `end_produce`: the slot is claimed until the
process restarts, against "False = one is already running" (`produce.rs:441`). The
pump collects its candidates before it uses them and may make a second draft after
a rejection, against `produce.rs:955-957`; it starves older items behind as many
failing ones as its limit, against `produce.rs:1066-1067`, and all that lie behind the
200 newest accepted items (`produce.rs:975-986`), drafted for or not; it tries again when an
attempt fails before a draft row exists, against `produce.rs:1036`. An item that is
dismissed while the LLM works still gets its draft. A smart-draft run whose worker
died counts as coverage until somebody asks for its state.

*Gate, without `expected_revision`* (`MayOmit`). A reject checked before an
approval commits rejects the approved draft, whose job stays pending
(`draft_store.rs:366`, against `calendar_drafts/store.rs:256`), and an edit that
commits between an approval's read and its transaction is not in the payload
(against `calendar_drafts/store.rs:282`).

*Intake.* A message of lower attention under a policy that asks for deferred kinds only
is handled without an item, on purpose (`work_queue/tests.rs:3467`); the attention is
what the parsers had noted when the emission read it, a later backfill does not take an
item back, and kinds that the AI suggests are not gated. A follow-up that races an
emission is answered as applied and its kind is lost (ON CONFLICT DO NOTHING).
`append_ai_packet_kinds` merges outside its transaction and without a revision. A pump
that had examined a message before `skip_ai` was set still emits its item. A crash
between the verdict "suggested" and the emission leaves no item, and the message is not
examined again.

*Social.* A worker that returns an error leaves its source `generating`, and a
resend resumes it in the same process, against `social_publishing/service.rs:805-808`.
A crash between stage and finish, and then a resumed run that fails, gives
`generation_failed` beside a staged proposal, and later a second proposal. A handler
whose spawn failed records the failure after its guard is gone.

*Retention.* A panic of `lock()` in a cycle leaves the flag up until restart, and so does
one in a manual request between `try_begin_run` and the spawn, where it reads the
configuration and records its kickoff (`data_retention/worker.rs:64-106`). A panic where
the pump reads its configuration ends the pump.

*Accounting.* "Reconnecting to a DIFFERENT realm wipes the snapshot caches +
cursors in the same transaction — they belong to another company's books"
(`accounting/store.rs:105-107`): the P&L table is not wiped and a closed period is
fetched once; after a disconnection without purge there is no previous realm to
compare with; and a cycle in flight writes the old company's page and cursor after
the wipe. Pages are positions in an order by last update: a record that changes in
mid-walk shifts the others and one is skipped for good (against `worker.rs:828`).
Keys are derived from content, so content that recurs, or rows that a purge
deleted, are taken for replays (against `store.rs`, about line 594).
`mark_reconnect_required` has one key per client: a second rejection is never
durable. Prepare and recovery in mid-cycle share a timestamp, so the second rotated
grant is not persisted (against "MUST be called immediately after every refresh",
`store.rs:215`), and the latch is cleared for it all the same. So the latch may
not keep its promise, "a rejected grant is not retried if SQLite failed to persist
`reconnect_required`. Cleared when a new grant is stored" (`store.rs:34-35`): a cycle
refreshes twice, a courier is refused with the stored token between the two and its
mark is lost to a failed write; then nothing keeps the next cycle from the refused
token. `RefusedIsBlocked` excepts cycles that refresh twice ("unsaved") and is proved.
A refresh in flight over a reconnection overwrites the new company's token. The outbox
courier refreshes the same grant outside the sync guard (against `worker.rs:3-4`). `token_request`
takes every status but 2xx, 429 and 5xx for a dead grant, with the comment "400
invalid_grant = the refresh token is dead" (`qbo_oauth.rs:207-226`): a 401 over the
application's secret, a 403 or a 404 latches and flags a grant that works, until
somebody reconnects or the other thread's refresh succeeds. `FlagMeansDead` and
`TokensSound` except it ("misjudged"). After a 429 on the P&L the balance sheet is still
asked for.

*Enrichment.* The invoice graft reads the row before its transaction and may write
over an edit made in between, against "Existing fill, operator edits, and CRM
billing context win" (`invoice_drafts/store.rs:257-259`); `EditsWin` excepts exactly
this window. Neither graft carries a revision: a draft decided between check and
write still changes, and its job no longer matches its row (`DecidedIsHeld` excepts
it). An invoice's click shares its run id with the run after staging, and research
for the same missing fields with its predecessor: the second graft is a replay,
writes nothing and is reported as `accepted_fields_applied`
(`CompletedHasGrafted`). The run after staging does not use the registry. A crash
after the kickoff's receipt leaves a key that is only replayed. A run left `started`
by a crash is not resumed and blocks its freshness bucket. The plan is part of the run
id, and an edit of the website or of `create_contact`, or a graft of the website, changes
it: the draft gets a second freshness run in its bucket, against "will not retry with a
new run_id until the bucket rolls" (`worker.rs:11-13`), and when the change falls between
collection and start, the guard is registered under the id that was collected and not
under that of the run, which may repeat one of its bucket (`OneRunPerTrigger`,
`RegistryExact` and `CompletedHasGrafted` except these by name). The pump looks at the
newest drafts of any status, four times its remaining budget: behind that many newer
drafts a gap is never tried. A collection that fails ends the cycle, for the adapters
after it too. `still_ai_prefill` takes an operator's domain-like name that occurs in the
AI's quote for the AI's, and a run may replace it.

## 5. Proofs

All theorems hold for every value of the constants (any number of callers, jobs, slots,
works, payloads, sources, requests and threads, any limits), from the named assumptions
in the modules only. These say that names are distinct (`NoEntityAssumption`,
`LaunchAssumption`, `StartersAssumption`, `NamesAssumption`, `DisjointAssumption`), that
numbers are numbers and limits are not zero where the code's constants are not
(`BoundsAssumption`, `NumbersAssumption`, `RetentionAssumption`, `CapacityAssumption`,
`BudgetAssumption`, `MailAssumption`, `EnrichAssumption`, `MaxReceiptsAssumption`), that
parameters are of their kind (`SecondsAssumption`, `WorkloadsAssumption`,
`PoliciesAssumption`), and that slots, works, payloads and threads are finitely many
where something is counted (`SlotsAssumption`, `WorksAssumption`, `DisjointAssumption`,
`NamesAssumption`). The theorems about the gate have the hypothesis `~MayOmit`. Three
modules of proofs have a second part about a neighbouring component, which they extend
beside the first: `OutboxProofs` about `AccountingSync`, whose grant the courier shares,
`DraftApprovalProofs` about `Intake`, which makes the items that drafts are for, and
`ProviderWritesProofs` about `DraftEnrichment`, which fills the drafts that become
writes. So those components name their specifications `SyncSpec`, `IntakeSpec` and
`EnrichSpec`; no state is shared. What their lemmas use of the assumptions is
`SyncConstants`, `IntakeConstants` and `EnrichConstants`. Bounds of the models
(`MaxFaults`, `MaxRetries`, ...) are arbitrary numbers in the theorems.

**The spine** (`StoreCoreProofs`). `TypeCorrect` comes first. None of the safety
invariants is inductive alone: that a new revision has one receipt needs that
all old ones do and lie below it; that a conditional write replaced what its
caller saw needs that the revision a caller holds names the rows it read; that
replays answer alike needs that each replay repeats an applied receipt and that
there is one per key. `SpineInv` is their conjunction with these two facts
(`SpineSupport`), and `SpineSafe` proves it: receipts that are not `applied`
are inert (`InertReceipt`), and only `Apply` needs an argument of its own
(`ApplyPreserves`). From it follow `KeyAppliedOnce`, `AuditTrail`,
`ConditionalWritesSafe`, `AnswersAgree` and, with `settled[k]` mapped to the
revision of the key's only applied receipt, `LedgerRefinement`: an `Apply` is a
`Settle`, every other step stutters.

**The gate** (`DraftApprovalProofs`), under `~MayOmit`. The status check and the
payload read happen before the transaction, so `JobIffApproved` is not
inductive. `GateSupport` says what the revision buys: as long as a checked
request's revision is current, the draft is still staged and holds the content
the request read. Every mutation moves the revision on and so outdates all
other requests for the draft (`OthersOutdated`). `GateHolds` proves `GateInv`;
`NoWriteWithoutApproval`, `WriteMatchesRow`, `ItemWrittenOnce` and
`DecisionsFinal` follow.

**The outbox** (`OutboxProofs`). That two couriers never deliver one job at the
same time is not inductive: a launch route claims by id, without looking at the
batch the pump has in hand. What keeps them apart is the lease, as long as it
covers the job from the claim to the record: `LeasesProtect`, for the launches that
did not stall. For those that did, the protection is the attempt key, and it holds
because a launch is tried once in a cycle, so that all recordings of the try
have one key (`LaunchedOncePerCycle`), and because keys of the present cycle number
attempts that are counted (`KeysAreFresh`). `ClaimsHaveRows` and `RowsSound` tie
claims to rows and the budget to the status. `CourierInv` is the conjunction;
`CourierSafe` proves it action by action, with the effect of each on a row, the
queue and the claims as lemmas. `PostsAreAccountedFor` follows because a job
that no launch stalled on has one holder at most (`HeldIsCardinality`), so that a
call in hand counts as one (`PostsCounted`), and the counter saturates only past
what can be accounted for.
`LifecycleRefinement`: a recording under a new key is a `Try`, an operator's
retry a `Revive`; claims, leases, calls, replays and crashes stutter.

**Produce** (`ProduceProofs`). `InFlightIsRunning` says that a claimed slot has a
thread; `NoDoubleSpend` needs the converse, that a thread has its slot in the
registry (`ProducersHoldSlots`), and neither direction is inductive without
exclusion itself: releasing a slot would take it from a second thread. So
`SlotInv /\ NoDoubleSpend` is proved as one (`SlotsAreHeld`,
`SlotsAreExclusive`). `OneActiveDraftHolds` rests on the types and the unique index
alone: it holds for smart-draft runs too, which do not use the registry.

**The kernel's work store** (`KernelWorkProofs`). A copy of a lease is compared by
id, so its holder is safe only if ids are never given twice: `LeasesAreNumbered`
keeps the sequence ahead of every id in the store, in copies and in outcomes, and
`LeaseInv` is inductive with it (`LeasesAreSafe`). `LiveLeasesAreHonoured` follows
step by step: recovery and claims take only what has run out at the clock, even
when their caller's time lags. `QueueRefinement` maps statuses to the phases of
`LeasedWork`; claims are a `Grant`, resolutions a `Settle`, recoveries a
`Clear`, and the runner's registry is invisible.

**Retention** (`RetentionProofs`). That the receipts count what is gone needs that
the rows of a batch that was read are still there when it is cleared, which needs
that cycles exclude each other, which is the flag: `CyclesSound` says so, with the
cutoff of every cycle in the past, for every place a thread may be in.
`RetentionSafe` proves `RetentionInv`; `ReceiptsAccount` follows the sum of the
receipts through the one action that clears.

**Social generation** (`SocialGenerationProofs`). `LiveRunIsCurrent` speaks of
workers that draft; to be inductive it has to hold from the record of the start on
(`GuardsAreCurrent`), and that a redraft or a reset does not touch a generating
source needs that sources point only at proposals of finished runs
(`ReceiptsSound`) and that each thread is about a request that was sent, of its own
kind (`CallsSound`). The proof rearranges `GenerationInv` into what the tables
promise (`TablesSound`) and what the place of one thread promises (`Fits`); a step
that moves one thread then needs an argument for that thread and the rows it writes,
and other threads are undisturbed because guards exclude each other
(`GuardsExclude`) or because a generating row keeps its run (`Moves`). From
`GenerationSafe` follow `LiveRunsAreCurrent` and `ApprovedStays`: whoever changes a
source's pointer had seen its proposal staged or rejected (`PointerChanges`).
`RegistryExact` is proved here for the registry's operations `GuardStarted` and
`DropGuard` as this slice calls them.

**The provider writes** (`ProviderWritesProofs`). That a chain makes nothing twice
needs what it knows in mid-chain: `AttemptSound` says that what an attempt has
resolved exists, that what it has passed is settled, and that it is about to create
only what a lookup has not found, unless a request for that very object was on its way
and has landed since. That a second attempt does not repeat what is
keyed needs that the provider remembers every key with its object
(`KeysRemembered`); that a blind write is repeated only with an excuse needs that an
effect nobody excuses was seen, so that its job is not tried again
(`EffectsSeen`). `WritesAreSafe` proves `WritesInv` from a case distinction over the
calls of the seventeen chains; `BlindWritesAreExplained` and
`DeliveredJobsAreComplete` are proved from it.

**Intake** (`DraftApprovalProofs`). A message is answered for by a thread that has
recorded, routed and emitted in separate transactions, others between them.
What was wanted of a message is fixed when its emission reads policy and attention, and
`handled` keeps it. `KeysSound` says what a receipt of each transaction is worth later on, and
`CallsSound` what a thread may rely on at each of its places: the rows of its page,
the verdict it is about to write, the follow-up it is about to emit. `IntakeIsSafe`
proves the conjunction; `VerdictsStand` (one verdict in a generation) and
`EmissionsKeepItems` (ON CONFLICT DO NOTHING, for every path that emits) follow step
by step.

**The accounting grant** (`OutboxProofs`). Two threads rotate one grant. `TokensSound`:
what was refused is dead, unless the endpoint has turned down a live grant, and a grant
on its way to the table is in nobody else's hands and was never refused. `SameFate`: as
long as no connection changes under a thread, the stored token and the threads' tokens
live and die together, so that a refusal met by one condemns the grant rightly, when the
token it met was dead. `GrantsAreSafe` proves `GrantInv`. `CyclesStandDown` needs
`WalksUnthrottled`: a cycle that has begun its walks has passed the check over all
cursors, and only itself stamps deadlines.

**The accounting cache** (`OutboxProofs`). Rows, cursor and books change in
separate steps, and a cursor speaks of positions in an order that the books define
anew at every request. `WalksPinned`: the filter of a walk stays the high-water mark
it began with. `WalksSound`: connected or not, a cursor tells of the company whose
rows are cached, and the book reaches the time and the position it tells of
(`WalkBacked`); without this a reconnection could promote a mark that nothing stands
behind. `PageSound`: what a page in hand has still to write, with what is cached, is
the stretch of the book that the cursor is about to pass (`PageHeld`). The argument
about positions is by counting: a position follows the order by last update, a full
page ends at its last position (pigeonhole), a record that enters or changes between
walks comes last and so is neither behind the mark nor before a position.
`WalksAreCached` proves `CacheInv`, with the exceptions named by `amiss` only.

**Enrichment** (`ProviderWritesProofs`). That a completed run has grafted, and not
hollowly, is a question of run ids, and ids change with plans. So `RunsExclusive` speaks
of what a run is for (`Origin`: the draft and its trigger, under whatever plan): what a
thread is about to graft for is nobody else's and has not been grafted, unless it is
shared (`SharedOrigin`) or a run of the pump may repeat (`MayRepeat`); only the pump may
have grafted for it under another plan. It is inductive because a run comes from one
source at a time: the draft's staging, the receipt of a click, the bucket of a cycle
whose run is not there (`OwnRun`). `TodoSound` says what a collected id is worth until
its turn comes, `PlannedNow` that a run has the draft's plan or the draft was replanned,
`Registers` under which id a guard may stand; receipts, runs and what has begun point
at each other (`BegunIsRecorded`, `RecordsSound`). `RegistryExact` is proved for all
four operations of the registry, the group's counter as the number of its holders.
The proof separates the tables, which only grow (`Grows`), from the one thread that
moves (`StepKeeps`). From `EnrichmentIsSafe` follow `EditsAreKept` and
`DecisionsHold`, since only staging, the operator and the graft write to drafts
(`DraftsWriters`).

**Only model-checked.** Every safety invariant and action property of the passing
runs is proved. Liveness (`EveryJobSettles`, `FirstDraftsProduced`,
`EveryMailHandled`, `EveryMessageExamined`, `OldPayloadsCleared`, `EveryGapTried`) is
beyond the prover and stays with TLC, under the fairness of section 3.

## 6. Not modelled

LLM calls, crawling and searching, and the console are I/O and appear as outcomes.
Prompts, text classification, formatting, read models, authentication and
configuration carry no state that the properties speak of. Other draft kinds
share `draft_store.rs` with the calendar kind; their executors are in
`ProviderWrites`. The slices that only write rows through `mutate` are covered by
the spine's theorems as its callers. Migration of the schema runs once before the
server starts. The other cached views (CRM, inventory, Shopify, search console,
Drive) follow the pattern of the accounting cache with one writer each, and without
a rotating grant. Campaigns of content plans, quote workflow runs, email follow-ups
and rewrites, lead discovery and the client profile are not modelled; of them, the
check of email follow-ups applies its results in the order of their arrival, and a
late one can reopen a resolved follow-up.

In the modelled parts: runs of smart drafts over several kinds, the creation of the
work item by a run, and a smart-draft kickoff interrupted between its read and its
insert (`Produce`); payloads in `StoreCore`; the change of the Gmail query that
resets the cursor (`Intake`); an unparsable record that shortens a page, a failed
spawn of a manual sync, and the previous realm that is read before the
transaction of `store_credential` (`AccountingSync`, one step there); the domain a
click may name, which is part of its plan, record drafts that create a contact only,
visibility scopes and the provenance entries of fields (`DraftEnrichment`).

## 7. Plan

Done: the spine, the outbox down to the providers, intake, produce, enrichment, the
gate, the kickoff registry with three of its users, retention, the accounting cache
and the kernel's work store; proofs of every safety property of the runs, and of the
three refinements. Next:

1. *Composition of gate and outbox*: an approved draft's content is what the
   provider receives, and a rejected draft's never is.
2. *Content plans and quote workflows*: campaign dependencies settled after each
   delivery cycle; runs of several steps under the kickoff registry.
3. *Smart drafts in full*: several kinds, item creation, stale threshold against a
   slow worker.
4. *The other cached views*, where two writers meet (claims sync, inventory).
