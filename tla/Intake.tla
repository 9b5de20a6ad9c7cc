-------------------------------- MODULE Intake --------------------------------
(***************************************************************************)
(* How inbound messages become work items (crates/bos-app/src/slices/      *)
(* email_triage/ and work_queue/).  The Gmail pump pages through a mailbox *)
(* behind a durable cursor and then lets the LLM examine messages; webhook *)
(* deliveries come in on request threads; operators re-run the rules,      *)
(* reset AI verdicts, triage items and ask for follow-ups.                 *)
(*                                                                         *)
(* Every thread works on a connection of its own: each transaction, and    *)
(* each read another thread can invalidate, is a step.  The mailbox lists  *)
(* newest mail first, one message a page.                                  *)
(***************************************************************************)
EXTENDS Integers, FiniteSets

CONSTANTS
    NumMail,     \* bound: messages that arrive in the mailbox
    Hooks,       \* messages delivered by webhook
    Pump,        \* the gmail-ingest-pump thread
    Handlers,    \* threads serving webhook and operator requests
    Categories,  \* resolved categories
    Policies,    \* work queue policies a category may have
    FollowUp,    \* the packet kind follow_up_task
    Lower,       \* messages that the inbound parsers find of lower attention
    Deferred,    \* LOWER_ATTENTION_DEFER_KINDS
    MaxEdits,    \* bound: edits of rules, policies and verdicts, and backfills
    MaxFaults    \* bound: restarts and refused writes

Mail == 1..NumMail
Messages == Mail \cup Hooks
Threads == {Pump} \cup Handlers

ASSUME MailAssumption == NumMail \in Nat /\ MaxEdits \in Nat /\ MaxFaults \in Nat
ASSUME NamesAssumption == Pump \notin Handlers /\ Mail \cap Hooks = {}
\* A policy asks for items or not, with packet kinds the rules suggest and
\* packet kinds the AI may suggest.
ASSUME PoliciesAssumption ==
    \A p \in Policies : p.create \in BOOLEAN /\ IsFiniteSet(p.kinds) /\ IsFiniteSet(p.aiKinds)

PacketKinds == (UNION {p.kinds \cup p.aiKinds : p \in Policies}) \cup {FollowUp}

VARIABLES
    arrived,   \* messages in the mailbox so far
    rules,     \* the category the active rules give each message
    policy,    \* table work_queue_policies
    lowered,   \* table email_inbound_enrichments: messages noted as of lower attention
    rows,      \* table email_inbound_messages
    items,     \* table work_items, by source
    applied,   \* applied receipts, by idempotency key
    cursor,    \* table gmail_ingest_cursors: the next page, or 0
    tasks,     \* per thread: where it stands
    handled,   \* history: messages answered for, and whether they asked for an item
    edits,     \* edits and backfills so far
    faults     \* faults so far

intakeVars ==
    <<arrived, rules, policy, lowered, rows, items, applied, cursor, tasks, handled, edits,
      faults>>
sources == <<arrived, rules, policy>>
catalog == <<arrived, rules, policy, lowered>>
db == <<rows, items, applied, cursor>>
bounds == <<handled, edits, faults>>

NoTask == [pc |-> "idle"]
NoRow == [cat |-> "absent"]
NoItem == [status |-> "absent"]

Goto(t, call) == tasks' = [tasks EXCEPT ![t] = call]
Done(t) == Goto(t, NoTask)
Msg(t) == tasks[t].msg

-----------------------------------------------------------------------------
IntakeInit ==
    /\ arrived = 0 /\ cursor = 0 /\ applied = {} /\ handled = {} /\ edits = 0 /\ faults = 0
    /\ rules \in [Messages -> Categories]
    /\ policy \in [Categories -> Policies]
    /\ lowered = {}
    /\ rows = [m \in Messages |-> NoRow]
    /\ items = [m \in Messages |-> NoItem]
    /\ tasks = [t \in Threads |-> NoTask]

\* A message arrives in the mailbox.
Arrive ==
    /\ arrived < NumMail
    /\ arrived' = arrived + 1
    /\ UNCHANGED <<rules, policy, lowered, db, tasks, bounds>>

-----------------------------------------------------------------------------
\* gate_packet_kinds_for_attention: messages noted as of lower attention do
\* without the kinds that can wait.
Gated(kinds, m) == IF m \in lowered THEN kinds \ Deferred ELSE kinds

WantsItem(p, m) == p.create /\ Gated(p.kinds, m) # {}

KnownMessageAnswered(m) ==
    [pc |-> "answer", msg |-> m, wanted |-> WantsItem(policy[rows[m].cat], m)]

\* A message with a row is not recorded again, but goes through the rest.
KnownMessage(m) == [pc |-> "reload", msg |-> m]

\* A message without one is classified by the rules of now.
NewMessage(m) == [pc |-> "record", msg |-> m, cat |-> rules[m]]

\* run_inbound_parsers
Parsed(m) == lowered \cup ({m} \cap Lower)

\* poll_once: the cursor names the page, the page is fetched, and
\* ingest_messages_with_overlay looks up which message is known and which
\* rules are active, and writes down what the inbound parsers find.
Poll ==
    LET m == IF cursor # 0 THEN cursor ELSE arrived
    IN  /\ tasks[Pump] = NoTask
        /\ lowered' = Parsed(m)
        /\ IF m = 0 THEN Goto(Pump, [pc |-> "triage"])
           ELSE Goto(Pump, IF rows[m] = NoRow THEN NewMessage(m) ELSE KnownMessage(m))
        /\ UNCHANGED <<sources, db, bounds>>

\* Gmail cannot be read: the cycle goes on with the AI pass.
PollFails ==
    /\ tasks[Pump] = NoTask
    /\ Goto(Pump, [pc |-> "triage"])
    /\ UNCHANGED <<catalog, db, bounds>>

\* ingest: a webhook delivery, which no parser sees; a known message is a
\* duplicate.
Deliver(h, m) ==
    /\ tasks[h] = NoTask
    /\ Goto(h, IF rows[m] = NoRow THEN NewMessage(m) ELSE KnownMessage(m))
    /\ UNCHANGED <<catalog, db, bounds>>

\* record_inbound_message: the key and the row are unique per message.
Record(t) ==
    LET m == Msg(t)
    IN  /\ tasks[t].pc = "record"
        /\ rows' = IF rows[m] # NoRow THEN rows
                   ELSE [rows EXCEPT ![m] = [cat |-> tasks[t].cat, status |-> "none", gen |-> 0]]
        /\ Goto(t, [pc |-> IF t = Pump THEN "emit" ELSE "skip", msg |-> m, cat |-> tasks[t].cat])
        /\ UNCHANGED <<catalog, items, applied, cursor, bounds>>

\* inbound_by_source_keys: the stored record of a known message.
Reload(t) ==
    /\ tasks[t].pc = "reload"
    /\ Goto(t, [pc |-> IF t = Pump THEN "emit" ELSE "skip", msg |-> Msg(t), cat |-> rows[Msg(t)].cat])
    /\ UNCHANGED <<catalog, db, bounds>>

\* skip_ai: a message without a verdict is to be marked skipped.
SkipAi(t) ==
    /\ tasks[t].pc = "skip"
    /\ Goto(t, IF rows[Msg(t)].status # "none" THEN [tasks[t] EXCEPT !.pc = "emit"]
               ELSE [pc |-> "generation", msg |-> Msg(t), cat |-> tasks[t].cat,
                     status |-> "skipped", kinds |-> {}])
    /\ UNCHANGED <<catalog, db, bounds>>

\* What comes after a thread has dealt with its message.
AfterEmit(t, wanted) ==
    IF tasks[t].pc = "reemit" THEN [pc |-> "reclassify", fresh |-> tasks[t].fresh,
                                    todo |-> tasks[t].todo]
    ELSE [pc |-> "answer", msg |-> Msg(t), wanted |-> wanted]

\* emit_for_inbound_message_with_overlay up to the insert: an item is there, or
\* the policy of the category asks for none, or for nothing that the attention
\* gate lets through, or it is to be inserted with what passes the gate.
EmitRead(t) ==
    LET wanted == WantsItem(policy[tasks[t].cat], Msg(t))
    IN  /\ tasks[t].pc \in {"emit", "reemit"}
        /\ Goto(t, IF items[Msg(t)] # NoItem THEN AfterEmit(t, TRUE)
                   ELSE IF ~wanted THEN AfterEmit(t, FALSE)
                   ELSE [pc |-> "insert", msg |-> Msg(t),
                         kinds |-> Gated(policy[tasks[t].cat].kinds, Msg(t)),
                         then |-> AfterEmit(t, TRUE)])
        /\ UNCHANGED <<catalog, db, bounds>>

InsertedReplacing(m, kinds) == [items EXCEPT ![m] = [status |-> "open", kinds |-> kinds]]

\* ON CONFLICT DO NOTHING: an item that is there stays as it is.
Inserted(m, kinds) ==
    IF items[m] # NoItem THEN items
    ELSE [items EXCEPT ![m] = [status |-> "open", kinds |-> kinds]]

\* insert_item: one key for every emitter of the source.
InsertItem(t) ==
    LET m == Msg(t)
    IN  /\ tasks[t].pc = "insert"
        /\ items' = IF <<"emit", m>> \in applied THEN items ELSE Inserted(m, tasks[t].kinds)
        /\ applied' = applied \cup {<<"emit", m>>}
        /\ Goto(t, tasks[t].then)
        /\ UNCHANGED <<catalog, rows, cursor, bounds>>

CursorAfterSame(m) == m

\* next_page_token: older mail, or none.
CursorAfter(m) == m - 1

\* The page is done: put_gmail_ingest_cursor, then the AI pass.
Advance ==
    LET m == Msg(Pump)
    IN  /\ tasks[Pump].pc = "answer"
        /\ cursor' = CursorAfter(m)
        /\ handled' = handled \cup {<<m, tasks[Pump].wanted>>}
        /\ Goto(Pump, [pc |-> "triage"])
        /\ UNCHANGED <<catalog, rows, items, applied, edits, faults>>

\* The webhook is answered: accepted.
Answer(h) ==
    /\ tasks[h].pc = "answer"
    /\ handled' = handled \cup {<<Msg(h), tasks[h].wanted>>}
    /\ Done(h)
    /\ UNCHANGED <<catalog, db, edits, faults>>

-----------------------------------------------------------------------------
MayExamine(p) == p.create /\ p.aiKinds # {}

Unexamined(m) == rows[m] # NoRow /\ rows[m].status = "none" /\ MayExamine(policy[rows[m].cat])

\* run_ai_triage_pass: the batch is read once, with the categories of now.  The
\* batch limit is above the number of messages.
TriageBatch ==
    /\ tasks[Pump].pc = "triage"
    /\ LET batch == {<<m, rows[m].cat>> : m \in {x \in Messages : Unexamined(x)}}
       IN  Goto(Pump, [pc |-> "batch", batch |-> batch])
    /\ UNCHANGED <<catalog, db, bounds>>

\* The pass is over and the pump sleeps.
TriageDone ==
    /\ tasks[Pump].pc = "batch" /\ tasks[Pump].batch = {}
    /\ Done(Pump)
    /\ UNCHANGED <<catalog, db, bounds>>

\* The policy is read again for the category of the batch; without kinds the
\* message is settled, otherwise the LLM is asked.
Examine ==
    /\ tasks[Pump].pc = "batch"
    /\ \E e \in tasks[Pump].batch :
          LET kinds == policy[e[2]].aiKinds
          IN  Goto(Pump, [pc |-> IF kinds = {} THEN "generation" ELSE "llm", msg |-> e[1],
                          status |-> "no_suggestion", kinds |-> kinds,
                          batch |-> tasks[Pump].batch \ {e}])
    /\ UNCHANGED <<catalog, db, bounds>>

\* execute_recorded: the LLM suggests allowed kinds, or nothing, or fails.
LlmAnswers ==
    /\ tasks[Pump].pc = "llm"
    /\ \/ \E status \in {"no_suggestion", "error"} :
             Goto(Pump, [tasks[Pump] EXCEPT !.pc = "generation", !.status = status])
       \/ \E kinds \in (SUBSET tasks[Pump].kinds) \ {{}} :
             Goto(Pump, [tasks[Pump] EXCEPT !.pc = "generation", !.status = "suggested",
                                            !.kinds = kinds])
    /\ UNCHANGED <<catalog, db, bounds>>

\* set_ai_triage_result reads the generation the verdict will be keyed by.
GenerationRead(t) ==
    /\ tasks[t].pc = "generation"
    /\ Goto(t, [x \in DOMAIN tasks[t] \cup {"gen"} |->
                  CASE x = "pc" -> "verdict" [] x = "gen" -> rows[Msg(t)].gen [] OTHER -> tasks[t][x]])
    /\ UNCHANGED <<catalog, db, bounds>>

VerdictGivenNever(m, gen) == FALSE

VerdictGiven(m, gen) == <<"verdict", m, gen>> \in applied

\* The verdict is written unless its generation has one; either way the caller
\* goes on as if it had been.
VerdictWrite(t) ==
    LET m == Msg(t)
    IN  /\ tasks[t].pc = "verdict"
        /\ rows' = IF VerdictGiven(m, tasks[t].gen) THEN rows
                   ELSE [rows EXCEPT ![m].status = tasks[t].status]
        /\ applied' = applied \cup {<<"verdict", m, tasks[t].gen>>}
        /\ Goto(t, IF t # Pump THEN [pc |-> "emit", msg |-> m, cat |-> tasks[t].cat]
                   ELSE IF tasks[t].status # "suggested" THEN [pc |-> "batch", batch |-> tasks[t].batch]
                   ELSE [pc |-> "suggest", msg |-> m, kinds |-> tasks[t].kinds,
                         batch |-> tasks[t].batch])
        /\ UNCHANGED <<catalog, items, cursor, bounds>>

\* emit_ai_suggested_item, append_ai_packet_kinds: a new item, or missing kinds
\* of an item that is not dismissed.
Suggest ==
    LET m == Msg(Pump)
        next == [pc |-> "batch", batch |-> tasks[Pump].batch]
        merged == items[m].kinds \cup tasks[Pump].kinds
    IN  /\ tasks[Pump].pc = "suggest"
        /\ Goto(Pump, IF items[m] = NoItem
                      THEN [pc |-> "insert", msg |-> m, kinds |-> tasks[Pump].kinds, then |-> next]
                      ELSE IF items[m].status = "dismissed" \/ merged = items[m].kinds THEN next
                      ELSE [pc |-> "append", msg |-> m, kinds |-> merged, then |-> next])
        /\ UNCHANGED <<catalog, db, bounds>>

\* The merged kinds are written, once for each list of kinds.
AppendKinds ==
    LET m == Msg(Pump)
        key == <<"append", m, tasks[Pump].kinds>>
    IN  /\ tasks[Pump].pc = "append"
        /\ items' = IF key \in applied THEN items
                    ELSE [items EXCEPT ![m].kinds = tasks[Pump].kinds]
        /\ applied' = applied \cup {key}
        /\ Goto(Pump, tasks[Pump].then)
        /\ UNCHANGED <<catalog, rows, cursor, bounds>>

-----------------------------------------------------------------------------
\* Operators change the rules or a policy.
EditRules ==
    /\ edits < MaxEdits
    /\ edits' = edits + 1
    /\ \E m \in Messages, c \in Categories :
          rules[m] # c /\ rules' = [rules EXCEPT ![m] = c]
    /\ UNCHANGED <<arrived, policy, lowered, db, tasks, handled, faults>>

EditPolicy ==
    /\ edits < MaxEdits
    /\ edits' = edits + 1
    /\ \E c \in Categories, p \in Policies :
          policy[c] # p /\ policy' = [policy EXCEPT ![c] = p]
    /\ UNCHANGED <<arrived, rules, lowered, db, tasks, handled, faults>>

\* run_enrichment_backfill_page: the parsers see the stored messages.
Backfill(m) ==
    /\ rows[m] # NoRow /\ edits < MaxEdits
    /\ edits' = edits + 1
    /\ lowered' = Parsed(m)
    /\ UNCHANGED <<sources, db, tasks, handled, faults>>

ResetRowSameGeneration(row) == [row EXCEPT !.status = "none"]

ResetRow(row) == [row EXCEPT !.status = "none", !.gen = @ + 1]

\* reset_ai_triage: one message whatever its verdict, or (scopes stale and all)
\* errors and verdicts without a suggestion of messages the AI may examine.
ResetAiTriage ==
    /\ edits < MaxEdits
    /\ edits' = edits + 1
    /\ \E ms \in (SUBSET {m \in Messages : rows[m] # NoRow /\ rows[m].status # "none"}) \ {{}} :
          /\ \/ Cardinality(ms) = 1
             \/ \A m \in ms : /\ rows[m].status \in {"no_suggestion", "error"}
                              /\ MayExamine(policy[rows[m].cat])
          /\ rows' = [m \in Messages |-> IF m \in ms THEN ResetRow(rows[m]) ELSE rows[m]]
    /\ UNCHANGED <<catalog, items, applied, cursor, tasks, handled, faults>>

\* reclassify_all reads the rules and all messages.
ReclassifyStart(h) ==
    /\ tasks[h] = NoTask /\ edits < MaxEdits
    /\ edits' = edits + 1
    /\ LET known == {m \in Messages : rows[m] # NoRow}
       IN  Goto(h, [pc |-> "reclassify", fresh |-> [m \in known |-> rules[m]],
                    todo |-> {<<m, rows[m].cat>> : m \in known}])
    /\ UNCHANGED <<catalog, db, handled, faults>>

\* One message: the parsers, update_classification if the category changed, then
\* the emission.
Reclassify(h) ==
    /\ tasks[h].pc = "reclassify"
    /\ \/ /\ tasks[h].todo = {}
          /\ Done(h)
          /\ UNCHANGED <<rows, lowered>>
       \/ \E e \in tasks[h].todo :
             LET new == tasks[h].fresh[e[1]]
             IN  /\ rows' = IF new = e[2] THEN rows ELSE [rows EXCEPT ![e[1]].cat = new]
                 /\ lowered' = Parsed(e[1])
                 /\ Goto(h, [pc |-> "reemit", msg |-> e[1], cat |-> new, fresh |-> tasks[h].fresh,
                             todo |-> tasks[h].todo \ {e}])
    /\ UNCHANGED <<sources, items, applied, cursor, bounds>>

\* apply_item_action: accept, dismiss, reopen, from any status.  What matters
\* here is whether an item is dismissed.
ItemAction(m) ==
    /\ items[m] # NoItem
    /\ \E status \in {"open", "dismissed"} : items' = [items EXCEPT ![m].status = status]
    /\ UNCHANGED <<catalog, rows, applied, cursor, tasks, bounds>>

\* update_packet_kinds reads the item; a dismissed one is refused.
UpdateKindsRead(h, m) ==
    /\ tasks[h] = NoTask /\ items[m] # NoItem /\ items[m].status # "dismissed" /\ edits < MaxEdits
    /\ edits' = edits + 1
    /\ \E kinds \in {{}, {FollowUp}} : Goto(h, [pc |-> "kinds", msg |-> m, kinds |-> kinds])
    /\ UNCHANGED <<catalog, db, handled, faults>>

\* The kinds are written; expected_revision is optional, and follow-ups have none.
UpdateKinds(h) ==
    /\ tasks[h].pc = "kinds"
    /\ items' = [items EXCEPT ![Msg(h)].kinds = tasks[h].kinds]
    /\ Done(h)
    /\ UNCHANGED <<catalog, rows, applied, cursor, bounds>>

\* add_manual_follow_up_for_email: an item that is not dismissed gets the kind;
\* without one, an item is to be inserted under the key of the request.
FollowUpRead(h, m) ==
    /\ tasks[h] = NoTask /\ rows[m] # NoRow /\ edits < MaxEdits
    /\ items[m].status # "dismissed"
    /\ edits' = edits + 1
    /\ Goto(h, IF items[m] = NoItem THEN [pc |-> "followup", msg |-> m]
               ELSE [pc |-> "kinds", msg |-> m, kinds |-> items[m].kinds \cup {FollowUp}])
    /\ UNCHANGED <<catalog, db, handled, faults>>

FollowUpInsert(h) ==
    /\ tasks[h].pc = "followup"
    /\ items' = Inserted(Msg(h), {FollowUp})
    /\ Done(h)
    /\ UNCHANGED <<catalog, rows, applied, cursor, bounds>>

-----------------------------------------------------------------------------
\* The database refuses a write.  A poll or a request ends there; the AI pass
\* goes on with the next message.
Busy(t) ==
    /\ faults < MaxFaults
    /\ faults' = faults + 1
    /\ tasks[t].pc \in {"record", "insert", "verdict", "append", "answer", "reclassify", "kinds", "followup"}
    /\ Goto(t, IF t # Pump THEN NoTask
               ELSE IF tasks[t].pc = "insert" /\ tasks[t].then.pc = "batch" THEN tasks[t].then
               ELSE IF tasks[t].pc = "append" THEN tasks[t].then
               ELSE IF tasks[t].pc = "verdict" THEN [pc |-> "batch", batch |-> tasks[t].batch]
               ELSE [pc |-> "triage"])
    /\ UNCHANGED <<catalog, db, handled, edits>>

\* The process restarts: the threads are gone.
Restart ==
    /\ faults < MaxFaults
    /\ faults' = faults + 1
    /\ tasks' = [t \in Threads |-> NoTask]
    /\ UNCHANGED <<catalog, db, handled, edits>>

PumpStep ==
    \/ Poll \/ Advance \/ TriageBatch \/ Examine \/ LlmAnswers \/ Suggest \/ AppendKinds
    \/ TriageDone
    \/ Record(Pump) \/ Reload(Pump) \/ EmitRead(Pump) \/ InsertItem(Pump)
    \/ GenerationRead(Pump) \/ VerdictWrite(Pump)

RequestStep(h) ==
    \/ Record(h) \/ Reload(h) \/ SkipAi(h) \/ GenerationRead(h) \/ VerdictWrite(h)
    \/ EmitRead(h) \/ InsertItem(h) \/ Answer(h)
    \/ Reclassify(h) \/ UpdateKinds(h) \/ FollowUpInsert(h)

IntakeNext ==
    \/ PumpStep \/ PollFails \/ Arrive
    \/ EditRules \/ EditPolicy \/ ResetAiTriage \/ Restart
    \/ \E m \in Messages : ItemAction(m) \/ Backfill(m)
    \/ \E t \in Threads : Busy(t)
    \/ \E h \in Handlers :
          \/ RequestStep(h)
          \/ ReclassifyStart(h)
          \/ \E m \in Hooks : Deliver(h, m)
          \/ \E m \in Messages : UpdateKindsRead(h, m) \/ FollowUpRead(h, m)

IntakeSpec == IntakeInit /\ [][IntakeNext]_intakeVars

(***************************************************************************)
(* The pump thread runs until the process ends and is started with it, its *)
(* LLM and Gmail calls have timeouts, and Gmail can be read again and      *)
(* again.  Nothing is assumed of requests.                                 *)
(***************************************************************************)
FairSpec == IntakeSpec /\ WF_intakeVars(PumpStep) /\ SF_intakeVars(Poll)

-----------------------------------------------------------------------------
Verdicts == {"none", "skipped", "no_suggestion", "suggested", "error"}
Row == [cat : Categories, status : Verdicts, gen : Nat] \cup {NoRow}
Item == [status : {"open", "dismissed"}, kinds : SUBSET PacketKinds] \cup {NoItem}

\* Types of the tables; a thread that has passed a message's record finds it.
IntakeTypeOK ==
    /\ arrived \in 0..NumMail /\ cursor \in 0..arrived
    /\ rules \in [Messages -> Categories] /\ policy \in [Categories -> Policies]
    /\ rows \in [Messages -> Row] /\ items \in [Messages -> Item]
    /\ \A m \in Messages : items[m] # NoItem => rows[m] # NoRow
    /\ handled \in SUBSET (Messages \X BOOLEAN)
    /\ \A m \in Mail : rows[m] # NoRow => m <= arrived

\* What the cursor has passed, or a webhook sender was told is accepted, is in
\* the database, and has its work item if the policy asked for one that the
\* attention gate lets through: no crash, refused write or concurrent delivery
\* between the transactions of an ingestion loses the item for good.
HandledIsComplete ==
    \A e \in handled : rows[e[1]] # NoRow /\ (e[2] => items[e[1]] # NoItem)

\* A message has a verdict, or an operator has asked for another one.
Settled(m) == rows[m].status # "none" \/ rows[m].gen > 0

\* "Webhook ingress skips AI classification": an accepted webhook message has a
\* verdict, unless an operator has asked for another one since.
AcceptedHookIsSettled == \A m \in Hooks : (\E e \in handled : e[1] = m) => Settled(m)

\* What the receipts say is true of the tables: an emitted item is there, and the
\* generations of a message have their verdict, all but the last one, which may
\* be waiting for it.
KeysSound ==
    /\ \A k \in applied :
          /\ k[1] = "emit" => k[2] \in Messages /\ items[k[2]] # NoItem
          /\ k[1] = "verdict" => /\ k[2] \in Messages /\ rows[k[2]] # NoRow
                                 /\ k[3] \in 0..rows[k[2]].gen
    /\ \A m \in Messages : rows[m] # NoRow =>
          \A g \in 0..rows[m].gen :
             <<"verdict", m, g>> \in applied <=> g < rows[m].gen \/ rows[m].status # "none"

\* The messages a thread ingests, and what it holds of others.
Ingests(t, m) == IF t = Pump THEN m \in 1..arrived ELSE m \in Hooks
Known(m) == m \in Messages /\ rows[m] # NoRow
BatchSound(batch) == \A e \in batch : e[2] \in Categories /\ Known(e[1])
TodoSound(fresh, todo) ==
    \A e \in todo : Known(e[1]) /\ e[1] \in DOMAIN fresh /\ fresh[e[1]] \in Categories

\* A message on its way through the tables has what the steps behind it wrote.
Ingested(t, m) == Ingests(t, m) /\ Known(m) /\ (t # Pump => Settled(m))

\* What an insert goes on with.
ThenSound(t, m, next) ==
    \/ next = [pc |-> "answer", msg |-> m, wanted |-> TRUE] /\ Ingested(t, m)
    \/ /\ t # Pump /\ next.pc = "reclassify" /\ TodoSound(next.fresh, next.todo)
       /\ next = [pc |-> "reclassify", fresh |-> next.fresh, todo |-> next.todo]
    \/ /\ t = Pump /\ next.pc = "batch" /\ BatchSound(next.batch)
       /\ next = [pc |-> "batch", batch |-> next.batch]

\* What a thread remembers from one step to the next still holds when it is used,
\* whatever the others did in between: c is the call of thread t.
Ingesting(t, c) ==
    \/ c = NoTask
    \/ /\ c.pc = "record" /\ c = [pc |-> "record", msg |-> c.msg, cat |-> c.cat]
       /\ Ingests(t, c.msg) /\ c.cat \in Categories
    \/ c.pc = "reload" /\ c = [pc |-> "reload", msg |-> c.msg] /\ Ingests(t, c.msg) /\ Known(c.msg)
    \/ /\ t # Pump /\ c.pc = "skip" /\ c = [pc |-> "skip", msg |-> c.msg, cat |-> c.cat]
       /\ Ingests(t, c.msg) /\ Known(c.msg) /\ c.cat \in Categories
    \/ /\ c.pc = "emit" /\ c = [pc |-> "emit", msg |-> c.msg, cat |-> c.cat]
       /\ Ingested(t, c.msg) /\ c.cat \in Categories
    \/ /\ c.pc = "insert" /\ c = [pc |-> "insert", msg |-> c.msg, kinds |-> c.kinds, then |-> c.then]
       /\ Known(c.msg) /\ c.kinds \subseteq PacketKinds /\ ThenSound(t, c.msg, c.then)
    \/ /\ c.pc = "answer" /\ c = [pc |-> "answer", msg |-> c.msg, wanted |-> c.wanted]
       /\ Ingested(t, c.msg) /\ c.wanted \in BOOLEAN /\ (c.wanted => items[c.msg] # NoItem)

Judging(t, c) ==
    /\ c.pc \in {"generation", "verdict"} /\ Known(c.msg)
    /\ c.status \in Verdicts \ {"none"} /\ c.kinds \subseteq PacketKinds
    /\ DOMAIN c = {"pc", "msg", "status", "kinds"}
                     \cup (IF t = Pump THEN {"batch"} ELSE {"cat"})
                     \cup (IF c.pc = "verdict" THEN {"gen"} ELSE {})
    /\ IF t = Pump THEN BatchSound(c.batch) ELSE c.cat \in Categories /\ Ingests(t, c.msg)
    /\ c.pc = "verdict" => c.gen \in 0..rows[c.msg].gen

Examining(c) ==
    \/ c = [pc |-> "triage"]
    \/ c.pc = "batch" /\ c = [pc |-> "batch", batch |-> c.batch] /\ BatchSound(c.batch)
    \/ /\ c.pc = "llm"
       /\ c = [pc |-> "llm", msg |-> c.msg, status |-> c.status, kinds |-> c.kinds, batch |-> c.batch]
       /\ Known(c.msg) /\ c.status = "no_suggestion" /\ c.kinds \subseteq PacketKinds
       /\ BatchSound(c.batch)
    \/ /\ c.pc = "suggest"
       /\ c = [pc |-> "suggest", msg |-> c.msg, kinds |-> c.kinds, batch |-> c.batch]
       /\ Known(c.msg) /\ c.kinds \subseteq PacketKinds /\ BatchSound(c.batch)
    \/ /\ c.pc = "append"
       /\ c = [pc |-> "append", msg |-> c.msg, kinds |-> c.kinds,
               then |-> [pc |-> "batch", batch |-> c.then.batch]]
       /\ Known(c.msg) /\ items[c.msg] # NoItem /\ c.kinds \subseteq PacketKinds
       /\ BatchSound(c.then.batch)

Operating(c) ==
    \/ /\ c.pc = "reclassify" /\ TodoSound(c.fresh, c.todo)
       /\ c = [pc |-> "reclassify", fresh |-> c.fresh, todo |-> c.todo]
    \/ /\ c.pc = "reemit"
       /\ c = [pc |-> "reemit", msg |-> c.msg, cat |-> c.cat, fresh |-> c.fresh, todo |-> c.todo]
       /\ Known(c.msg) /\ c.cat \in Categories /\ TodoSound(c.fresh, c.todo)
    \/ /\ c.pc = "kinds" /\ c = [pc |-> "kinds", msg |-> c.msg, kinds |-> c.kinds]
       /\ Known(c.msg) /\ items[c.msg] # NoItem /\ c.kinds \subseteq PacketKinds
    \/ c.pc = "followup" /\ c = [pc |-> "followup", msg |-> c.msg] /\ Known(c.msg)

CallSound(t, c) ==
    Ingesting(t, c) \/ Judging(t, c) \/ IF t = Pump THEN Examining(c) ELSE Operating(c)

CallsSound == DOMAIN tasks = Threads /\ \A t \in Threads : CallSound(t, tasks[t])

\* "One verdict per generation": whoever comes second, pump or webhook, a
\* verdict is only replaced after an operator's reset.
OneVerdictPerGeneration ==
    [][\A m \in Messages :
          rows[m] # NoRow /\ rows[m].status # "none" =>
             rows'[m].status = rows[m].status \/ rows'[m].gen > rows[m].gen]_intakeVars

\* No emission, whatever it read before, takes an item away from the operator:
\* a decided item keeps its decision, an item keeps its kinds, until an
\* operator or the AI pass writes them.
EmissionKeepsItem ==
    [][\A t \in Threads, m \in Messages :
          tasks[t].pc \in {"insert", "followup"} /\ tasks'[t] # tasks[t] /\ items[m] # NoItem
          => items'[m] = items[m]]_intakeVars

\* Every message in the mailbox is ingested, however the cursor stood when it
\* arrived.
EveryMailHandled ==
    \A m \in Mail : m <= arrived ~> \E e \in handled : e[1] = m

\* Every message the AI may examine gets its verdict, or stops being one.
EveryMessageExamined == \A m \in Messages : Unexamined(m) ~> ~Unexamined(m)

\* What ingestion has answered for is there: rows, items and verdicts.  Receipts
\* and what threads remember are why.
IntakeInv ==
    IntakeTypeOK /\ HandledIsComplete /\ AcceptedHookIsSettled /\ KeysSound /\ CallsSound
=============================================================================
