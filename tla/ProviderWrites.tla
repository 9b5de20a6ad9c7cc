--------------------------- MODULE ProviderWrites ---------------------------
(***************************************************************************)
(* What the outbox pump does with a claimed job (outbox.rs dispatch): the  *)
(* executor of the job's slice reads the write gate and the credentials,   *)
(* the integration client (crates/bos-integrations) makes its provider     *)
(* calls one by one, and every answer becomes an AttemptOutcome.  A call   *)
(* whose answer is lost may have taken effect, or may take effect later:   *)
(* the client gives up after its timeout, the request does not.            *)
(* The next attempt starts the chain again from its first call.            *)
(*                                                                         *)
(* An executor is data here: its chain of calls, what its client makes of  *)
(* each answer, and what it does when it is not configured.  Claims,       *)
(* leases and the second courier are in module Outbox; the pump is one     *)
(* thread, so an attempt runs alone.                                       *)
(*                                                                         *)
(* The providers are external.  Assumed of them: a create under a known    *)
(* idempotency key (Stripe, the content adapter) makes nothing new, an     *)
(* event id or an invoice number is taken once, and a search finds what    *)
(* exists.  Nothing else is assumed unique, and nothing is assumed of when *)
(* a request that was given up is dealt with.                              *)
(***************************************************************************)
EXTENDS Integers, Sequences

CONSTANTS
    Jobs,          \* outbox job ids
    Workloads,     \* what the jobs may be: functions from Jobs to Kinds
    MaxAttempts,   \* MAX_ATTEMPTS
    MaxFaults,     \* bound: answers that are not plain success, crashes, lost records
    MaxRetries     \* bound: operator retries, over all jobs

ASSUME BoundsAssumption ==
    MaxAttempts \in Nat \ {0} /\ MaxFaults \in Nat /\ MaxRetries \in Nat

\* A lookup that may find nothing, a lookup that must find, and a write.  A
\* write is "blind", "keyed" (idempotency key, or setting what is set already)
\* or "named" (a taken id or number is refused); unnamed says what the client
\* makes of a success whose body names no object.
Find(o) == [call |-> "find", object |-> o, mode |-> "read", unnamed |-> "absent"]
Need(o) == [call |-> "need", object |-> o, mode |-> "read", unnamed |-> "absent"]
Post(o, mode, unnamed) == [call |-> "post", object |-> o, mode |-> mode, unnamed |-> unnamed]

-----------------------------------------------------------------------------
(* Answers, and what the clients make of them.                             *)

\* ok: 2xx with the expected body; garbled: 2xx, body not JSON; bare: 2xx, JSON
\* without ids; lost: no answer to a request that may have arrived; unreachable:
\* no connection; limited: 429; quota: 403 with a quota reason; server: 5xx or
\* GraphQL errors; unauthorized: 401 or 403; conflict: 409; invalid: 422;
\* refused: any other 4xx.  Error answers are taken to carry JSON bodies.
Answers == {"ok", "garbled", "bare", "lost", "unreachable", "limited", "quota",
            "server", "unauthorized", "conflict", "invalid", "refused"}
Landed == {"ok", "garbled", "bare"}
MayHaveLanded == {"lost", "server"}
Transient == {"lost", "unreachable", "limited", "server"}

check_conflict_done ==
    [a \in Answers |-> IF a \in {"ok", "conflict"} THEN "ok"
                       ELSE IF a \in Landed THEN "blank"
                       ELSE IF a \in Transient THEN "retry" ELSE "terminal"]

\* Invoice Ninja: an unreadable 2xx body becomes Value::Null and passes.
check ==
    [a \in Answers |-> IF a = "ok" THEN "ok"
                       ELSE IF a \in Landed THEN "blank"
                       ELSE IF a \in Transient THEN "retry" ELSE "terminal"]

\* The same reading of answers in the HubSpot, EspoCRM and Stripe clients.
hubspot_check == check

espocrm_check == check

check_write_status == check

\* 409 is "already_exists"; a quota 403 is worth a retry.
write_event_status == [check EXCEPT !["conflict"] = "ok", !["quota"] = "retry"]

\* The body must parse, id or not.
gmail_post == [check EXCEPT !["garbled"] = "terminal", !["quota"] = "retry"]

\* A rejected token and an undecodable body are retried.
qbo_status == [check EXCEPT !["garbled"] = "retry", !["unauthorized"] = "retry",
                            !["quota"] = "retry"]

graphql == [check EXCEPT !["garbled"] = "retry"]

buffer_post_retrying == [check EXCEPT !["garbled"] = "unknown"]

\* Buffer has no idempotency key: only an answer that shows that nothing was
\* created is retried.
buffer_post == [check EXCEPT !["lost"] = "unknown", !["server"] = "unknown",
                             !["garbled"] = "unknown"]

\* Session creation is not idempotent: no error is retried.
monitor_post == [a \in Answers |-> IF a = "ok" THEN "ok"
                                   ELSE IF a \in {"garbled", "bare"} THEN "blank" ELSE "terminal"]

-----------------------------------------------------------------------------
(* The calls each client makes.                                            *)

write_event == <<Post("event", "named", "Terminal")>>

create_hubspot_note == <<Post("hubspot_note", "blind", "accept")>>

ensure_company == <<Find("hubspot_company"), Post("hubspot_company", "blind", "Terminal")>>

\* Searched by email, then by name.  The association is made only for a contact
\* created in this attempt.
ensure_hubspot_contact ==
    <<Find("hubspot_contact"), Find("hubspot_contact"), Post("hubspot_contact", "blind", "Terminal"),
      Post("hubspot_link", "keyed", "accept")>>

\* The search for the note's contact is best effort and decides nothing.
create_espocrm_note == <<Post("espo_note", "blind", "accept")>>

create_lead == <<Post("espo_lead", "blind", "accept")>>

ensure_account == <<Find("espo_account"), Post("espo_account", "blind", "Terminal")>>

ensure_espocrm_contact == <<Find("espo_contact"), Post("espo_contact", "blind", "Terminal")>>

ensure_client == <<Find("ninja_client"), Post("ninja_client", "blind", "Terminal")>>

\* A 422 on create is looked up again; then the number must be found.
ensure_invoice ==
    <<Find("receipt_invoice"), Post("receipt_invoice", "named", "Terminal"),
      Need("receipt_invoice")>>

ensure_payment == <<Find("ninja_payment"), Post("ninja_payment", "blind", "Terminal")>>

\* By the [bos:draft ...] marker in the private notes, page by page.
ensure_invoice_draft == <<Find("ninja_draft"), Post("ninja_draft", "blind", "Terminal")>>

find_or_create_customer ==
    <<Find("stripe_customer"), Post("stripe_customer", "keyed", "Terminal")>>

create_invoice == <<Post("stripe_invoice", "keyed", "Terminal")>>

\* One keyed call per line; two lines stand for all.
create_invoice_items ==
    <<Post("stripe_line_1", "keyed", "accept"), Post("stripe_line_2", "keyed", "accept")>>

preflight_customer_only == <<Need("qbo_customer")>>

\* The invoice must be open for exactly the amount to be paid.
preflight_payment_refs == <<Need("qbo_customer"), Need("qbo_open_balance")>>

record_payment == <<Post("qbo_payment", "blind", "Terminal")>>

find_customer == <<Need("shopify_customer")>>

\* Stale tags are removed only when the customer was found with some.
apply_action ==
    <<Post("stale_tags_gone", "keyed", "accept"), Post("tag", "keyed", "accept"),
      Post("metafield", "keyed", "accept")>>

create_draft == <<Post("gmail_draft", "blind", "accept")>>

trash_message == <<Post("trashed", "keyed", "accept")>>

post_monitor_agent_session == <<Post("agent_session", "blind", "Terminal")>>

create_post == <<Post("buffer_post", "blind", "Terminal")>>

-----------------------------------------------------------------------------
(* The executors.  closed and open: what an executor may return before any *)
(* call, with its write gate closed or open, when its configuration or its *)
(* credentials fall short.  "Dry" is a delivery by the dry-run client.     *)

google_calendar == [chain |-> write_event, check |-> write_event_status,
                    closed |-> {"Retry"}, open |-> {"Retry", "Terminal"}]

hubspot_note == [chain |-> create_hubspot_note, check |-> hubspot_check,
                 closed |-> {}, open |-> {"Dry"}]

hubspot_records == [chain |-> ensure_company \o ensure_hubspot_contact,
                    check |-> hubspot_check, closed |-> {}, open |-> {"Dry"}]

espocrm_note == [chain |-> create_espocrm_note, check |-> espocrm_check,
                 closed |-> {}, open |-> {"Dry"}]

espocrm_lead == [chain |-> create_lead, check |-> espocrm_check,
                 closed |-> {}, open |-> {"Dry"}]

espocrm_records == [chain |-> ensure_account \o ensure_espocrm_contact,
                    check |-> espocrm_check, closed |-> {}, open |-> {"Dry"}]

ninja_receipt == [chain |-> ensure_client \o ensure_invoice \o ensure_payment,
                  check |-> check, closed |-> {}, open |-> {"Dry"}]

ninja_invoice == [chain |-> ensure_client \o ensure_invoice_draft,
                  check |-> check, closed |-> {}, open |-> {"Dry"}]

stripe_invoice == [chain |-> find_or_create_customer \o create_invoice \o create_invoice_items,
                   check |-> check_write_status, closed |-> {}, open |-> {"Dry"}]

qbo_payment == [chain |-> preflight_payment_refs \o record_payment,
                check |-> qbo_status, closed |-> {}, open |-> {"Retry"}]

shopify_tiers == [chain |-> find_customer \o apply_action, check |-> graphql,
                  closed |-> {}, open |-> {"Terminal"}]

gmail_draft == [chain |-> create_draft, check |-> gmail_post,
                closed |-> {"Retry"}, open |-> {"Retry", "Dry"}]

gmail_trash == [chain |-> trash_message, check |-> gmail_post,
                closed |-> {"Retry"}, open |-> {"Retry", "Terminal"}]

agent_launch == [chain |-> post_monitor_agent_session, check |-> monitor_post,
                 closed |-> {}, open |-> {"Terminal"}]

content_publish == [chain |-> <<Post("published_post", "keyed", "Terminal")>>,
                    check |-> check, closed |-> {}, open |-> {"Retry", "Terminal"}]

buffer_post_job == [chain |-> create_post, check |-> buffer_post,
                    closed |-> {}, open |-> {"Terminal"}]

\* A quote workflow's job makes no call: it is delivered dry whatever the gate.
quote_workflow == [chain |-> <<>>, check |-> check, closed |-> {}, open |-> {}]

\* outbox.rs dispatch: the executor of a job, by provider and capability.
dispatch ==
    [google_calendar |-> google_calendar, hubspot_note |-> hubspot_note,
     hubspot_records |-> hubspot_records, espocrm_note |-> espocrm_note,
     espocrm_lead |-> espocrm_lead, espocrm_records |-> espocrm_records,
     ninja_receipt |-> ninja_receipt, ninja_invoice |-> ninja_invoice,
     stripe_invoice |-> stripe_invoice, qbo_payment |-> qbo_payment,
     shopify_tiers |-> shopify_tiers, gmail_draft |-> gmail_draft,
     gmail_trash |-> gmail_trash, agent_launch |-> agent_launch,
     content_publish |-> content_publish, buffer_post |-> buffer_post_job,
     quote_workflow |-> quote_workflow]
Kinds == DOMAIN dispatch \cup {"unsupported"}

ASSUME WorkloadsAssumption == Workloads \subseteq [Jobs -> Kinds]

Chain(k) == IF k = "unsupported" THEN <<>> ELSE dispatch[k].chain

\* Customers, clients and companies are the provider's; two jobs may be about
\* the same one.  Two QuickBooks payments may be drafted for the same invoice.
Shared == {"hubspot_company", "hubspot_contact", "espo_account", "espo_contact",
           "ninja_client", "stripe_customer", "qbo_customer", "qbo_payment",
           "shopify_customer"}
Creatable == {"hubspot_company", "hubspot_contact", "espo_account", "espo_contact"}
Object(o, j) == IF o \in Shared THEN <<o>> ELSE <<o, j>>
Names(k) == {Chain(k)[i].object : i \in DOMAIN Chain(k)} \ {"qbo_open_balance"}

VARIABLES
    kind,       \* provider and capability of each job
    withheld,   \* records the payload does not allow to create
    row,        \* per job: status and attempts of its outbox row
    dry,        \* jobs delivered by a dry run
    gate,       \* the write gates, as admin settings give them
    hand,       \* the attempt the pump is making
    made,       \* per object: how many the provider holds (2: or more)
    keys,       \* idempotency keys the providers have seen
    adrift,     \* requests the clients gave up that may still arrive
    late,       \* history: the objects such a request has reached
    slips,      \* history: what went wrong for which job
    faults, retries

vars == <<kind, withheld, row, dry, gate, hand, made, keys, adrift, late, slips, faults, retries>>
setup == <<kind, withheld>>

Nobody == [job |-> "none"]
Objects == UNION {{Object(o, j) : o \in Names(kind[j])} : j \in Jobs}

Init ==
    /\ kind \in Workloads
    /\ withheld \in [Jobs -> SUBSET Creatable]
    /\ \A j \in Jobs : withheld[j] \subseteq Names(kind[j])
    /\ row = [j \in Jobs |-> [status |-> "pending", attempts |-> 0]]
    /\ dry = {}
    /\ gate \in BOOLEAN
    /\ hand = Nobody
    /\ made \in [Objects -> {0, 1}]
    /\ \A o \in Objects : made[o] = 1 => o[1] \in Shared \cup {"stale_tags_gone"}
    /\ keys = {} /\ adrift = {} /\ late = {}
    /\ slips = {}
    /\ faults = 0 /\ retries = 0

\* Is step s of job j passed over, given what this attempt resolved and created?
PassedOver(j, s, got, new) ==
    \/ s.object \in got
    \/ s.call = "post" /\ s.object \in withheld[j]
    \/ s.object = "hubspot_link" /\ ~("hubspot_contact" \in new /\ "hubspot_company" \in got)
    \/ s.object = "stale_tags_gone" /\ made[Object(s.object, j)] > 0

\* The attempt goes on to the first call after position i that is not passed
\* over; past the last one it is delivered.
GoOn(j, i, got, new) ==
    LET left == {k \in DOMAIN Chain(kind[j]) : k > i /\ ~PassedOver(j, Chain(kind[j])[k], got, new)}
    IN  IF left = {} THEN [job |-> j, outcome |-> "Delivered"]
        ELSE [job |-> j, outcome |-> "calling", got |-> got, new |-> new,
              at |-> CHOOSE k \in left : \A l \in left : k <= l]

End(j, outcome) == [job |-> j, outcome |-> outcome]

\* What the executor returns before any call, nothing being amiss.
Straight(j) ==
    IF kind[j] = "unsupported" THEN End(j, "Terminal")
    ELSE IF kind[j] = "quote_workflow" \/ (~gate /\ kind[j] # "agent_launch") THEN End(j, "Dry")
    ELSE GoOn(j, 0, {}, {})
Amiss(j) ==
    IF kind[j] = "unsupported" THEN {}
    ELSE IF gate \/ kind[j] = "agent_launch" THEN dispatch[kind[j]].open
    ELSE dispatch[kind[j]].closed

\* deliver and the client factory.
Begin(j) ==
    /\ hand = Nobody /\ row[j].status = "pending"
    /\ \/ hand' = Straight(j) /\ UNCHANGED faults
       \/ /\ faults < MaxFaults
          /\ faults' = faults + 1
          /\ \E o \in Amiss(j) : hand' = End(j, o)
    /\ UNCHANGED <<setup, row, dry, gate, made, keys, adrift, late, slips, retries>>

-----------------------------------------------------------------------------
Step == Chain(kind[hand.job])[hand.at]
Target == Object(Step.object, hand.job)

\* The provider's answer when nothing fails.
Plain ==
    IF Step.mode = "named" /\ made[Target] > 0
      THEN IF Step.object = "event" THEN "conflict" ELSE "invalid"
      ELSE "ok"

\* What the provider holds, and the keys it has seen, once step s of job j has
\* arrived.
Repeated(s, j) == s.mode # "blind" /\ <<Object(s.object, j), j>> \in keys
MadeBy(s, j) ==
    IF Repeated(s, j) THEN made
    ELSE [made EXCEPT ![Object(s.object, j)] = IF s.mode = "named" \/ @ = 0 THEN 1 ELSE 2]
KeysBy(s, j) == IF s.mode = "keyed" THEN keys \cup {<<Object(s.object, j), j>>} ELSE keys

\* The request of a write, should it be given up.
Request == [job |-> hand.job, at |-> hand.at, id |-> faults + 1]

\* What a successful lookup resolves, if anything.  An invoice that was paid is
\* found without a balance, unless it was edited since.
Found ==
    IF Step.object = "qbo_open_balance"
      THEN IF made[Object("qbo_payment", hand.job)] = 0 THEN {{Step.object}} ELSE {}
    ELSE IF made[Target] = 0 THEN {}
    ELSE IF Step.object = "receipt_invoice" /\ made[Object("ninja_payment", hand.job)] > 0
      THEN {{Step.object}, {Step.object, "ninja_payment"}}
    ELSE {{Step.object}}

\* How the attempt goes on after a call that was answered by a.
After(a) ==
    LET j == hand.job
        v == dispatch[kind[j]].check[a]
        Nothing == IF Step.call = "need" THEN {End(j, "Terminal")}
                   ELSE {GoOn(j, hand.at, hand.got, hand.new)}
        Got == {GoOn(j, hand.at, hand.got \cup {Step.object}, hand.new \cup {Step.object})}
    IN  IF a = "invalid" /\ Step.object = "receipt_invoice" /\ Step.call = "post" THEN
            {GoOn(j, hand.at, hand.got, hand.new)}
        ELSE IF v = "retry" THEN {End(j, "Retry")}
        ELSE IF v = "unknown" THEN {End(j, "OutcomeUnknown")}
        ELSE IF v = "terminal" THEN {End(j, "Terminal")}
        ELSE IF Step.call = "post" THEN
            IF v = "ok" \/ Step.unnamed = "accept" THEN Got ELSE {End(j, "Terminal")}
        ELSE IF v = "blank" \/ Found = {} THEN Nothing
        ELSE {GoOn(j, hand.at, hand.got \cup f, hand.new) : f \in Found}

Slip(a, landed) ==
    IF Step.call # "post" /\ a \in {"garbled", "bare"} THEN {<<hand.job, "misread">>}
    ELSE IF Step.call = "post" /\ landed /\ a # "ok" THEN {<<hand.job, a>>}
    ELSE {}

\* One call to the provider: it may take effect, and it is answered or not.  A
\* write without an answer that has taken no effect yet is adrift.
Call ==
    /\ hand # Nobody /\ hand.outcome = "calling"
    /\ \E a \in Answers, landed \in BOOLEAN :
          /\ a \in Landed => Plain = "ok"
          /\ a = "conflict" /\ Step.object = "event" => Plain = a
          /\ landed <=> Step.call = "post" /\ (a \in Landed \/ (a \in MayHaveLanded /\ landed))
          /\ faults' = faults + (IF a = Plain THEN 0 ELSE 1) /\ faults' <= MaxFaults
          /\ hand' \in After(a)
          /\ made' = IF landed THEN MadeBy(Step, hand.job) ELSE made
          /\ keys' = IF landed THEN KeysBy(Step, hand.job) ELSE keys
          /\ adrift' = IF Step.call = "post" /\ a \in MayHaveLanded /\ ~landed
                         THEN adrift \cup {Request} ELSE adrift
          /\ slips' = slips \cup Slip(a, landed)
    /\ UNCHANGED <<setup, row, dry, gate, late, retries>>

\* A request that was given up arrives after all, whatever has happened since.
Sent(q) == Chain(kind[q.job])[q.at]

LandsLate ==
    \E q \in adrift :
        /\ adrift' = adrift \ {q}
        /\ made' = MadeBy(Sent(q), q.job)
        /\ keys' = KeysBy(Sent(q), q.job)
        /\ late' = late \cup {Object(Sent(q).object, q.job)}
        /\ UNCHANGED <<setup, row, dry, gate, hand, slips, faults, retries>>

Spent(j) == row[j].attempts + 1 >= MaxAttempts

\* record_attempt.
Record ==
    /\ hand # Nobody /\ hand.outcome # "calling"
    /\ LET j == hand.job
           o == hand.outcome
       IN  /\ row' = [row EXCEPT ![j] =
                 [status |-> IF o \in {"Delivered", "Dry"} THEN "delivered"
                             ELSE IF o = "OutcomeUnknown" THEN "delivery_outcome_unknown"
                             ELSE IF o = "Terminal" \/ Spent(j) THEN "failed_terminal"
                             ELSE "pending",
                  attempts |-> @.attempts + 1]]
           /\ dry' = IF o = "Dry" THEN dry \cup {j} ELSE dry
    /\ hand' = Nobody
    /\ UNCHANGED <<setup, gate, made, keys, adrift, late, slips, faults, retries>>

\* The process dies, or record_attempt meets a busy database: the row keeps its
\* status and the job is claimed again once the lease has run out.  A write may be
\* on its way when the process dies.
AttemptLost ==
    /\ hand # Nobody
    /\ faults < MaxFaults
    /\ faults' = faults + 1
    /\ slips' = slips \cup {<<hand.job, "cut">>}
    /\ \/ UNCHANGED adrift
       \/ hand.outcome = "calling" /\ Step.call = "post" /\ adrift' = adrift \cup {Request}
    /\ hand' = Nobody
    /\ UNCHANGED <<setup, row, dry, gate, made, keys, late, retries>>

\* retry_terminal_job.
RetryTerminal(j) ==
    /\ row[j].status = "failed_terminal"
    /\ retries < MaxRetries
    /\ retries' = retries + 1
    /\ row' = [row EXCEPT ![j] = [status |-> "pending", attempts |-> 0]]
    /\ UNCHANGED <<setup, dry, gate, hand, made, keys, adrift, late, slips, faults>>

\* An admin changes the settings; an attempt under way has read its gate.
SetGate ==
    /\ gate' = ~gate
    /\ UNCHANGED <<setup, row, dry, hand, made, keys, adrift, late, slips, faults, retries>>

Next ==
    \/ \E j \in Jobs : Begin(j) \/ RetryTerminal(j)
    \/ Call \/ LandsLate \/ Record \/ AttemptLost \/ SetGate

Spec == Init /\ [][Next]_vars

-----------------------------------------------------------------------------
(* Rows stay within MAX_ATTEMPTS attempts (outbox.rs record_attempt) and   *)
(* the pump's attempt is about a pending row.                              *)
TypeOK ==
    /\ kind \in Workloads
    /\ row \in [Jobs -> [status : {"pending", "delivered", "failed_terminal",
                                   "delivery_outcome_unknown"},
                          attempts : 0..MaxAttempts]]
    /\ \A j \in Jobs : row[j].status = "pending" => row[j].attempts < MaxAttempts
    /\ dry \subseteq {j \in Jobs : row[j].status = "delivered"}
    /\ gate \in BOOLEAN
    /\ hand # Nobody => /\ hand.job \in Jobs /\ row[hand.job].status = "pending"
                        /\ hand.outcome = "calling" => hand.at \in DOMAIN Chain(kind[hand.job])
    /\ made \in [Objects -> 0..2] /\ late \subseteq Objects
    /\ faults \in 0..MaxFaults /\ retries \in 0..MaxRetries

(* Whatever is lost, delayed, crashes or is retried, a calendar event, a   *)
(* receipt's invoice, a Stripe invoice and its lines, and a published post *)
(* are made once: by the derived event id, the invoice number and the      *)
(* idempotency keys.                                                       *)
MadeOnceWhatever ==
    \A o \in Objects : o[1] \in {"event", "receipt_invoice", "stripe_invoice", "stripe_line_1",
                                 "stripe_line_2", "published_post"}
                      => made[o] <= 1

\* What the clients look up before they create it.
Looked == Creatable \cup {"ninja_client", "stripe_customer", "ninja_payment", "ninja_draft"}
Misread == \E j \in Jobs : <<j, "misread">> \in slips

(* The find-or-create chains (HubSpot, EspoCRM, Invoice Ninja, Stripe)     *)
(* make a second company, contact, account, client, customer, draft or     *)
(* payment only after a lookup answered 2xx with a body that could not be  *)
(* read (`unwrap_or(Value::Null)` takes it for "nothing found"), or by a   *)
(* request for that very object that was given up and arrived late.  A     *)
(* QuickBooks payment, which has no key, is made twice only by the latter: *)
(* the preflight of the open balance narrows "a replayed timed-out create  *)
(* could double-post" (qbo_payment_write.rs) to a create that lands after  *)
(* the next attempt's preflight.                                           *)
LookupsPreventDuplicates ==
    \A o \in Objects : made[o] > 1 =>
        /\ o[1] \in Looked => Misread \/ o \in late
        /\ o[1] = "qbo_payment" => o \in late

\* How a write with neither key nor lookup may come to be repeated.
Excuses(o) ==
    CASE o \in {"hubspot_note", "espo_note", "espo_lead"} -> {"lost", "server", "late", "cut"}
      [] o = "gmail_draft" -> {"lost", "server", "late", "garbled", "cut"}
      [] o = "agent_session" -> {"lost", "server", "late", "garbled", "bare", "cut"}
      [] o = "buffer_post" -> {"bare", "cut"}
      [] OTHER -> {}
Excused(j, n) ==
    \/ \E e \in Excuses(n) : <<j, e>> \in slips
    \/ "late" \in Excuses(n) /\ Object(n, j) \in late

(* Notes, leads, Gmail drafts, agent sessions and Buffer posts are created *)
(* blindly, and are repeated only where the effect of an earlier call went *)
(* unseen in one of the ways the executor cannot tell from a failure.  For *)
(* Buffer a lost answer is none of them, however late its request arrives: *)
(* it ends as an unknown outcome.                                          *)
BlindWritesExplained ==
    \A j \in Jobs : \A n \in Names(kind[j]) :
        Excuses(n) # {} /\ made[Object(n, j)] > 1 => Excused(j, n)

(* A blind write that took effect was seen by its executor, which will not *)
(* be asked again, or was excused.                                         *)
EffectsSeen ==
    \A j \in Jobs : \A n \in Names(kind[j]) :
        Excuses(n) # {} /\ made[Object(n, j)] > 0
        => \/ Excused(j, n)
           \/ row[j].status \in {"delivered", "delivery_outcome_unknown"}
           \/ /\ hand # Nobody /\ hand.job = j
              /\ hand.outcome \in {"Delivered", "OutcomeUnknown"}

\* Nothing is left to do about the object: it exists, or the attempt may do
\* without it.
Settled(j, n) ==
    n \in withheld[j] \cup {"hubspot_link", "qbo_open_balance"} \/ made[Object(n, j)] > 0
Complete(j) == \A n \in Names(kind[j]) : Settled(j, n)

(* A job recorded as delivered, and not by a dry run, has every object of  *)
(* its chain at the provider, however many attempts it took; except the    *)
(* records its payload does not allow to create and HubSpot's association, *)
(* which a later attempt that finds the contact does not make.             *)
DeliveredIsComplete ==
    \A j \in Jobs : row[j].status = "delivered" /\ j \notin dry => Complete(j)

Unpaid(o) == made[o] = 0 \/ o \in late

(* What an attempt has resolved exists at the provider; what it has passed *)
(* is settled, or is what it is about to ask for; and it is about to       *)
(* create only what a lookup did not find, a moment ago, and what has not  *)
(* arrived late since.                                                     *)
AttemptSound ==
    hand # Nobody =>
        /\ hand.outcome = "calling" =>
              /\ \A n \in hand.got \ {"qbo_open_balance"} :
                    n \in Names(kind[hand.job]) /\ made[Object(n, hand.job)] > 0
              /\ \A i \in 1..(hand.at - 1) :
                    LET n == Chain(kind[hand.job])[i].object
                    IN  Settled(hand.job, n) \/ n = Step.object
              /\ Step.call = "post" /\ Step.object \in Looked =>
                    made[Target] = 0 \/ Misread \/ Target \in late
              /\ Step.call = "post" /\ Step.object = "qbo_payment" => Unpaid(Target)
              /\ "qbo_open_balance" \in hand.got =>
                    /\ "qbo_payment" \in Names(kind[hand.job])
                    /\ Unpaid(Object("qbo_payment", hand.job))
        /\ hand.outcome = "Delivered" => Complete(hand.job)

\* Objects made under an idempotency key of the job's own.
Keyed == {"stripe_invoice", "stripe_line_1", "stripe_line_2", "published_post"}

\* A key that was used has its object, and the object has its key.
KeysRemembered ==
    /\ \A k \in keys : k[1] \in Objects /\ made[k[1]] > 0
    /\ \A j \in Jobs : \A n \in Names(kind[j]) \cap Keyed :
          made[Object(n, j)] > 0 => <<Object(n, j), j>> \in keys

\* The executor has given the job up to an operator.
OutcomeUnknown(j) ==
    \/ row[j].status = "delivery_outcome_unknown"
    \/ hand # Nobody /\ hand.job = j /\ hand.outcome = "OutcomeUnknown"

(* A request adrift is a write of its job's chain; one to Buffer, unless   *)
(* excused otherwise, is the only one of its job and ends it.              *)
AdriftSound ==
    \A q \in adrift :
        /\ q.job \in Jobs /\ q.at \in DOMAIN Chain(kind[q.job]) /\ Sent(q).call = "post"
        /\ Sent(q).object = "buffer_post" =>
              \/ Excused(q.job, "buffer_post")
              \/ /\ OutcomeUnknown(q.job) /\ made[Object("buffer_post", q.job)] = 0
                 /\ \A p \in adrift : p.job = q.job => p = q

\* What the keys, names and lookups of the clients promise, together, and what
\* an attempt under way relies on.
WritesInv ==
    /\ TypeOK /\ MadeOnceWhatever /\ LookupsPreventDuplicates
    /\ AttemptSound /\ KeysRemembered /\ EffectsSeen /\ AdriftSound
=============================================================================
