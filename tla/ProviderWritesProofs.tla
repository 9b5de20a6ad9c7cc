------------------------ MODULE ProviderWritesProofs ------------------------
(***************************************************************************)
(* Proofs about ProviderWrites: what keys, names and lookups promise,      *)
(* whatever is lost, crashes or is retried, for any jobs and any number of *)
(* faults and retries.                                                     *)
(*                                                                         *)
(* The executors are constants, and what the proofs need of them is stated *)
(* and proved once (StepSound, CheckSound); then an attempt is followed    *)
(* call by call without looking at the single chains again.                *)
(***************************************************************************)
EXTENDS ProviderWrites, DraftEnrichment, FiniteSetTheorems, WellFoundedInduction, TLAPS

\* How step i of a chain stands to its neighbours: what a step that may resolve
\* nothing leaves to the next one, and what precedes a write.
Lookup(c, i) ==
    c[i].call = "find" => /\ i + 1 \in DOMAIN c /\ c[i + 1].object = c[i].object
                          /\ c[i].object \notin {"hubspot_link", "stale_tags_gone", "qbo_open_balance"}
LookedUp(c, i) ==
    c[i].object \in Looked => /\ i - 1 \in DOMAIN c /\ c[i - 1].call = "find"
                              /\ c[i - 1].object = c[i].object
Preflighted(c, i) ==
    c[i].object = "qbo_payment" => i - 1 \in DOMAIN c /\ c[i - 1] = Need("qbo_open_balance")
LastStep(c, i) == \A l \in DOMAIN c : l <= i
BlindOnes == {"hubspot_note", "espo_note", "espo_lead", "gmail_draft", "agent_session", "buffer_post"}
Write(c, i) ==
    c[i].call = "post" =>
        /\ c[i].object # "qbo_open_balance"
        /\ LookedUp(c, i) /\ Preflighted(c, i)
        /\ c[i].object \in {"event", "receipt_invoice"} => c[i].mode = "named"
        /\ c[i].object \in Keyed => c[i].mode = "keyed"
        /\ c[i].object = "receipt_invoice" => i + 1 \in DOMAIN c /\ c[i + 1].object = c[i].object
        /\ c[i].object \in BlindOnes \cup {"qbo_payment"} => LastStep(c, i)
StepSound(k, i) ==
    LET c == Chain(k)
    IN  /\ c[i].call \in {"find", "need", "post"}
        /\ Lookup(c, i) /\ Write(c, i)
        /\ c[i].object = "receipt_invoice" => \E l \in DOMAIN c : c[l].object = "ninja_payment"
        /\ c[i].object = "qbo_open_balance" => \E l \in DOMAIN c : c[l].object = "qbo_payment"
        /\ k = "google_calendar" => c[i].object = "event"

\* What a client makes of an answer: what it takes for a success was one, a
\* conflict on the event's id apart; a blind write that landed is either one its
\* excuses name, or settled.
CheckSound(k, a) ==
    LET v == dispatch[k].check[a]
    IN  /\ v = "ok" => a = "ok" \/ (a = "conflict" /\ k = "google_calendar")
        /\ v = "blank" => a \in {"garbled", "bare"}
        /\ a = "ok" => v = "ok"
BlindSound(k, i, a) ==
    LET v == dispatch[k].check[a]
        s == Chain(k)[i]
    IN  s.object \in BlindOnes /\ a \in {"garbled", "bare", "lost", "server"} \ Excuses(s.object)
        => v = "unknown" \/ (v = "blank" /\ s.unnamed = "accept")

-----------------------------------------------------------------------------
(* The chain of every executor, written out.                               *)

\* The calls of google_calendar, in order.
LEMMA Chain_google_calendar ==
    /\ Chain("google_calendar") = <<Post("event", "named", "Terminal")>>
    /\ DOMAIN Chain("google_calendar") = 1..1
  BY DEF Chain, dispatch, google_calendar, write_event

\* The calls of hubspot_note, in order.
LEMMA Chain_hubspot_note ==
    /\ Chain("hubspot_note") = <<Post("hubspot_note", "blind", "accept")>>
    /\ DOMAIN Chain("hubspot_note") = 1..1
  BY DEF Chain, dispatch, hubspot_note, create_hubspot_note

\* The calls of hubspot_records, in order.
LEMMA Chain_hubspot_records ==
    /\ Chain("hubspot_records") = <<Find("hubspot_company"),
          Post("hubspot_company", "blind", "Terminal"),
          Find("hubspot_contact"),
          Find("hubspot_contact"),
          Post("hubspot_contact", "blind", "Terminal"),
          Post("hubspot_link", "keyed", "accept")>>
    /\ DOMAIN Chain("hubspot_records") = 1..6
  BY DEF Chain, dispatch, hubspot_records, ensure_company, ensure_hubspot_contact

\* The calls of espocrm_note, in order.
LEMMA Chain_espocrm_note ==
    /\ Chain("espocrm_note") = <<Post("espo_note", "blind", "accept")>>
    /\ DOMAIN Chain("espocrm_note") = 1..1
  BY DEF Chain, dispatch, espocrm_note, create_espocrm_note

\* The calls of espocrm_lead, in order.
LEMMA Chain_espocrm_lead ==
    /\ Chain("espocrm_lead") = <<Post("espo_lead", "blind", "accept")>>
    /\ DOMAIN Chain("espocrm_lead") = 1..1
  BY DEF Chain, dispatch, espocrm_lead, create_lead

\* The calls of espocrm_records, in order.
LEMMA Chain_espocrm_records ==
    /\ Chain("espocrm_records") = <<Find("espo_account"),
          Post("espo_account", "blind", "Terminal"),
          Find("espo_contact"),
          Post("espo_contact", "blind", "Terminal")>>
    /\ DOMAIN Chain("espocrm_records") = 1..4
  BY DEF Chain, dispatch, espocrm_records, ensure_account, ensure_espocrm_contact

\* The calls of ninja_receipt, in order.
LEMMA Chain_ninja_receipt ==
    /\ Chain("ninja_receipt") = <<Find("ninja_client"),
          Post("ninja_client", "blind", "Terminal"),
          Find("receipt_invoice"),
          Post("receipt_invoice", "named", "Terminal"),
          Need("receipt_invoice"),
          Find("ninja_payment"),
          Post("ninja_payment", "blind", "Terminal")>>
    /\ DOMAIN Chain("ninja_receipt") = 1..7
  BY DEF Chain, dispatch, ninja_receipt, ensure_client, ensure_invoice, ensure_payment

\* The calls of ninja_invoice, in order.
LEMMA Chain_ninja_invoice ==
    /\ Chain("ninja_invoice") = <<Find("ninja_client"),
          Post("ninja_client", "blind", "Terminal"),
          Find("ninja_draft"),
          Post("ninja_draft", "blind", "Terminal")>>
    /\ DOMAIN Chain("ninja_invoice") = 1..4
  BY DEF Chain, dispatch, ninja_invoice, ensure_client, ensure_invoice_draft

\* The calls of stripe_invoice, in order.
LEMMA Chain_stripe_invoice ==
    /\ Chain("stripe_invoice") = <<Find("stripe_customer"),
          Post("stripe_customer", "keyed", "Terminal"),
          Post("stripe_invoice", "keyed", "Terminal"),
          Post("stripe_line_1", "keyed", "accept"),
          Post("stripe_line_2", "keyed", "accept")>>
    /\ DOMAIN Chain("stripe_invoice") = 1..5
  BY DEF Chain, dispatch, stripe_invoice, find_or_create_customer, create_invoice, create_invoice_items

\* The calls of qbo_payment, in order.
LEMMA Chain_qbo_payment ==
    /\ Chain("qbo_payment") = <<Need("qbo_customer"),
          Need("qbo_open_balance"),
          Post("qbo_payment", "blind", "Terminal")>>
    /\ DOMAIN Chain("qbo_payment") = 1..3
  BY DEF Chain, dispatch, qbo_payment, preflight_payment_refs, record_payment

\* The calls of shopify_tiers, in order.
LEMMA Chain_shopify_tiers ==
    /\ Chain("shopify_tiers") = <<Need("shopify_customer"),
          Post("stale_tags_gone", "keyed", "accept"),
          Post("tag", "keyed", "accept"),
          Post("metafield", "keyed", "accept")>>
    /\ DOMAIN Chain("shopify_tiers") = 1..4
  BY DEF Chain, dispatch, shopify_tiers, find_customer, apply_action

\* The calls of gmail_draft, in order.
LEMMA Chain_gmail_draft ==
    /\ Chain("gmail_draft") = <<Post("gmail_draft", "blind", "accept")>>
    /\ DOMAIN Chain("gmail_draft") = 1..1
  BY DEF Chain, dispatch, gmail_draft, create_draft

\* The calls of gmail_trash, in order.
LEMMA Chain_gmail_trash ==
    /\ Chain("gmail_trash") = <<Post("trashed", "keyed", "accept")>>
    /\ DOMAIN Chain("gmail_trash") = 1..1
  BY DEF Chain, dispatch, gmail_trash, trash_message

\* The calls of agent_launch, in order.
LEMMA Chain_agent_launch ==
    /\ Chain("agent_launch") = <<Post("agent_session", "blind", "Terminal")>>
    /\ DOMAIN Chain("agent_launch") = 1..1
  BY DEF Chain, dispatch, agent_launch, post_monitor_agent_session

\* The calls of content_publish, in order.
LEMMA Chain_content_publish ==
    /\ Chain("content_publish") = <<Post("published_post", "keyed", "Terminal")>>
    /\ DOMAIN Chain("content_publish") = 1..1
  BY DEF Chain, dispatch, content_publish

\* The calls of buffer_post, in order.
LEMMA Chain_buffer_post ==
    /\ Chain("buffer_post") = <<Post("buffer_post", "blind", "Terminal")>>
    /\ DOMAIN Chain("buffer_post") = 1..1
  BY DEF Chain, dispatch, buffer_post_job, create_post

\* The calls of quote_workflow, in order.
LEMMA Chain_quote_workflow ==
    /\ Chain("quote_workflow") = <<>>
    /\ DOMAIN Chain("quote_workflow") = {}
  BY DEF Chain, dispatch, quote_workflow


\* Every step of every chain is sound.
LEMMA StepsAreSound ==
    ASSUME NEW k \in Kinds, NEW i \in DOMAIN Chain(k)
    PROVE  StepSound(k, i)
<1>1. CASE k = "google_calendar"
  BY <1>1, Chain_google_calendar
     DEF StepSound, Lookup, Write, LookedUp, Preflighted, LastStep, Looked, Creatable, Keyed,
         BlindOnes, Find, Need, Post
<1>2. CASE k = "hubspot_note"
  BY <1>2, Chain_hubspot_note
     DEF StepSound, Lookup, Write, LookedUp, Preflighted, LastStep, Looked, Creatable, Keyed,
         BlindOnes, Find, Need, Post
<1>3. CASE k = "hubspot_records"
  BY <1>3, Chain_hubspot_records
     DEF StepSound, Lookup, Write, LookedUp, Preflighted, LastStep, Looked, Creatable, Keyed,
         BlindOnes, Find, Need, Post
<1>4. CASE k = "espocrm_note"
  BY <1>4, Chain_espocrm_note
     DEF StepSound, Lookup, Write, LookedUp, Preflighted, LastStep, Looked, Creatable, Keyed,
         BlindOnes, Find, Need, Post
<1>5. CASE k = "espocrm_lead"
  BY <1>5, Chain_espocrm_lead
     DEF StepSound, Lookup, Write, LookedUp, Preflighted, LastStep, Looked, Creatable, Keyed,
         BlindOnes, Find, Need, Post
<1>6. CASE k = "espocrm_records"
  BY <1>6, Chain_espocrm_records
     DEF StepSound, Lookup, Write, LookedUp, Preflighted, LastStep, Looked, Creatable, Keyed,
         BlindOnes, Find, Need, Post
<1>7. CASE k = "ninja_receipt"
  BY <1>7, Chain_ninja_receipt
     DEF StepSound, Lookup, Write, LookedUp, Preflighted, LastStep, Looked, Creatable, Keyed,
         BlindOnes, Find, Need, Post
<1>8. CASE k = "ninja_invoice"
  BY <1>8, Chain_ninja_invoice
     DEF StepSound, Lookup, Write, LookedUp, Preflighted, LastStep, Looked, Creatable, Keyed,
         BlindOnes, Find, Need, Post
<1>9. CASE k = "stripe_invoice"
  BY <1>9, Chain_stripe_invoice
     DEF StepSound, Lookup, Write, LookedUp, Preflighted, LastStep, Looked, Creatable, Keyed,
         BlindOnes, Find, Need, Post
<1>10. CASE k = "qbo_payment"
  BY <1>10, Chain_qbo_payment
     DEF StepSound, Lookup, Write, LookedUp, Preflighted, LastStep, Looked, Creatable, Keyed,
         BlindOnes, Find, Need, Post
<1>11. CASE k = "shopify_tiers"
  BY <1>11, Chain_shopify_tiers
     DEF StepSound, Lookup, Write, LookedUp, Preflighted, LastStep, Looked, Creatable, Keyed,
         BlindOnes, Find, Need, Post
<1>12. CASE k = "gmail_draft"
  BY <1>12, Chain_gmail_draft
     DEF StepSound, Lookup, Write, LookedUp, Preflighted, LastStep, Looked, Creatable, Keyed,
         BlindOnes, Find, Need, Post
<1>13. CASE k = "gmail_trash"
  BY <1>13, Chain_gmail_trash
     DEF StepSound, Lookup, Write, LookedUp, Preflighted, LastStep, Looked, Creatable, Keyed,
         BlindOnes, Find, Need, Post
<1>14. CASE k = "agent_launch"
  BY <1>14, Chain_agent_launch
     DEF StepSound, Lookup, Write, LookedUp, Preflighted, LastStep, Looked, Creatable, Keyed,
         BlindOnes, Find, Need, Post
<1>15. CASE k = "content_publish"
  BY <1>15, Chain_content_publish
     DEF StepSound, Lookup, Write, LookedUp, Preflighted, LastStep, Looked, Creatable, Keyed,
         BlindOnes, Find, Need, Post
<1>16. CASE k = "buffer_post"
  BY <1>16, Chain_buffer_post
     DEF StepSound, Lookup, Write, LookedUp, Preflighted, LastStep, Looked, Creatable, Keyed,
         BlindOnes, Find, Need, Post
<1>17. CASE k = "quote_workflow"
  BY <1>17, Chain_quote_workflow
     DEF StepSound, Lookup, Write, LookedUp, Preflighted, LastStep, Looked, Creatable, Keyed,
         BlindOnes, Find, Need, Post
<1>18. CASE k = "unsupported"
  BY <1>18 DEF Chain
<1>19. QED
  BY <1>1, <1>2, <1>3, <1>4, <1>5, <1>6, <1>7, <1>8, <1>9, <1>10, <1>11, <1>12, <1>13, <1>14, <1>15, <1>16, <1>17, <1>18 DEF Kinds, dispatch

\* Every client reads answers soundly.
LEMMA ChecksAreSound ==
    ASSUME NEW k \in Kinds, k # "unsupported", NEW a \in Answers
    PROVE  CheckSound(k, a)
<1>1. CASE k = "google_calendar"
  BY <1>1 DEF CheckSound, dispatch, google_calendar, write_event_status, check,
              Answers, Landed, Transient
<1>2. CASE k = "hubspot_note"
  BY <1>2 DEF CheckSound, dispatch, hubspot_note, hubspot_check, check,
              Answers, Landed, Transient
<1>3. CASE k = "hubspot_records"
  BY <1>3 DEF CheckSound, dispatch, hubspot_records, hubspot_check, check,
              Answers, Landed, Transient
<1>4. CASE k = "espocrm_note"
  BY <1>4 DEF CheckSound, dispatch, espocrm_note, espocrm_check, check,
              Answers, Landed, Transient
<1>5. CASE k = "espocrm_lead"
  BY <1>5 DEF CheckSound, dispatch, espocrm_lead, espocrm_check, check,
              Answers, Landed, Transient
<1>6. CASE k = "espocrm_records"
  BY <1>6 DEF CheckSound, dispatch, espocrm_records, espocrm_check, check,
              Answers, Landed, Transient
<1>7. CASE k = "ninja_receipt"
  BY <1>7 DEF CheckSound, dispatch, ninja_receipt, check,
              Answers, Landed, Transient
<1>8. CASE k = "ninja_invoice"
  BY <1>8 DEF CheckSound, dispatch, ninja_invoice, check,
              Answers, Landed, Transient
<1>9. CASE k = "stripe_invoice"
  BY <1>9 DEF CheckSound, dispatch, stripe_invoice, check_write_status, check,
              Answers, Landed, Transient
<1>10. CASE k = "qbo_payment"
  BY <1>10 DEF CheckSound, dispatch, qbo_payment, qbo_status, check,
              Answers, Landed, Transient
<1>11. CASE k = "shopify_tiers"
  BY <1>11 DEF CheckSound, dispatch, shopify_tiers, graphql, check,
              Answers, Landed, Transient
<1>12. CASE k = "gmail_draft"
  BY <1>12 DEF CheckSound, dispatch, gmail_draft, gmail_post, check,
              Answers, Landed, Transient
<1>13. CASE k = "gmail_trash"
  BY <1>13 DEF CheckSound, dispatch, gmail_trash, gmail_post, check,
              Answers, Landed, Transient
<1>14. CASE k = "agent_launch"
  BY <1>14 DEF CheckSound, dispatch, agent_launch, monitor_post,
              Answers, Landed, Transient
<1>15. CASE k = "content_publish"
  BY <1>15 DEF CheckSound, dispatch, content_publish, check,
              Answers, Landed, Transient
<1>16. CASE k = "buffer_post"
  BY <1>16 DEF CheckSound, dispatch, buffer_post_job, buffer_post, check,
              Answers, Landed, Transient
<1>17. CASE k = "quote_workflow"
  BY <1>17 DEF CheckSound, dispatch, quote_workflow, check,
              Answers, Landed, Transient
<1>18. QED
  BY <1>1, <1>2, <1>3, <1>4, <1>5, <1>6, <1>7, <1>8, <1>9, <1>10, <1>11, <1>12, <1>13, <1>14, <1>15, <1>16, <1>17 DEF Kinds, dispatch

\* The readings an answer may have.
LEMMA ReadingsAre ==
    ASSUME NEW k \in Kinds, k # "unsupported", NEW a \in Answers
    PROVE  dispatch[k].check[a] \in {"ok", "blank", "retry", "unknown", "terminal"}
<1>1. CASE k = "google_calendar"
  BY <1>1 DEF dispatch, google_calendar, write_event_status, check,
              Answers, Landed, Transient
<1>2. CASE k = "hubspot_note"
  BY <1>2 DEF dispatch, hubspot_note, hubspot_check, check,
              Answers, Landed, Transient
<1>3. CASE k = "hubspot_records"
  BY <1>3 DEF dispatch, hubspot_records, hubspot_check, check,
              Answers, Landed, Transient
<1>4. CASE k = "espocrm_note"
  BY <1>4 DEF dispatch, espocrm_note, espocrm_check, check,
              Answers, Landed, Transient
<1>5. CASE k = "espocrm_lead"
  BY <1>5 DEF dispatch, espocrm_lead, espocrm_check, check,
              Answers, Landed, Transient
<1>6. CASE k = "espocrm_records"
  BY <1>6 DEF dispatch, espocrm_records, espocrm_check, check,
              Answers, Landed, Transient
<1>7. CASE k = "ninja_receipt"
  BY <1>7 DEF dispatch, ninja_receipt, check,
              Answers, Landed, Transient
<1>8. CASE k = "ninja_invoice"
  BY <1>8 DEF dispatch, ninja_invoice, check,
              Answers, Landed, Transient
<1>9. CASE k = "stripe_invoice"
  BY <1>9 DEF dispatch, stripe_invoice, check_write_status, check,
              Answers, Landed, Transient
<1>10. CASE k = "qbo_payment"
  BY <1>10 DEF dispatch, qbo_payment, qbo_status, check,
              Answers, Landed, Transient
<1>11. CASE k = "shopify_tiers"
  BY <1>11 DEF dispatch, shopify_tiers, graphql, check,
              Answers, Landed, Transient
<1>12. CASE k = "gmail_draft"
  BY <1>12 DEF dispatch, gmail_draft, gmail_post, check,
              Answers, Landed, Transient
<1>13. CASE k = "gmail_trash"
  BY <1>13 DEF dispatch, gmail_trash, gmail_post, check,
              Answers, Landed, Transient
<1>14. CASE k = "agent_launch"
  BY <1>14 DEF dispatch, agent_launch, monitor_post,
              Answers, Landed, Transient
<1>15. CASE k = "content_publish"
  BY <1>15 DEF dispatch, content_publish, check,
              Answers, Landed, Transient
<1>16. CASE k = "buffer_post"
  BY <1>16 DEF dispatch, buffer_post_job, buffer_post, check,
              Answers, Landed, Transient
<1>17. CASE k = "quote_workflow"
  BY <1>17 DEF dispatch, quote_workflow, check,
              Answers, Landed, Transient
<1>18. QED
  BY <1>1, <1>2, <1>3, <1>4, <1>5, <1>6, <1>7, <1>8, <1>9, <1>10, <1>11, <1>12, <1>13, <1>14, <1>15, <1>16, <1>17 DEF Kinds, dispatch

\* A blind write that landed is excused by its answer, or settled by it.
LEMMA BlindWritesAreSound ==
    ASSUME NEW k \in Kinds, NEW i \in DOMAIN Chain(k), NEW a \in Answers
    PROVE  BlindSound(k, i, a)
<1> DEFINE o == Chain(k)[i].object
<1>1. SUFFICES ASSUME o \in BlindOnes
               PROVE  BlindSound(k, i, a)
  BY DEF BlindSound
<1>2. CASE k = "google_calendar"
  BY <1>1, <1>2, Chain_google_calendar DEF BlindOnes, Find, Need, Post
<1>3. CASE k = "hubspot_note"
  BY <1>1, <1>3, Chain_hubspot_note
     DEF BlindSound, BlindOnes, Excuses, Post, dispatch, hubspot_note, hubspot_check, check,
         Answers, Landed, Transient
<1>4. CASE k = "hubspot_records"
  BY <1>1, <1>4, Chain_hubspot_records DEF BlindOnes, Find, Need, Post
<1>5. CASE k = "espocrm_note"
  BY <1>1, <1>5, Chain_espocrm_note
     DEF BlindSound, BlindOnes, Excuses, Post, dispatch, espocrm_note, espocrm_check, check,
         Answers, Landed, Transient
<1>6. CASE k = "espocrm_lead"
  BY <1>1, <1>6, Chain_espocrm_lead
     DEF BlindSound, BlindOnes, Excuses, Post, dispatch, espocrm_lead, espocrm_check, check,
         Answers, Landed, Transient
<1>7. CASE k = "espocrm_records"
  BY <1>1, <1>7, Chain_espocrm_records DEF BlindOnes, Find, Need, Post
<1>8. CASE k = "ninja_receipt"
  BY <1>1, <1>8, Chain_ninja_receipt DEF BlindOnes, Find, Need, Post
<1>9. CASE k = "ninja_invoice"
  BY <1>1, <1>9, Chain_ninja_invoice DEF BlindOnes, Find, Need, Post
<1>10. CASE k = "stripe_invoice"
  BY <1>1, <1>10, Chain_stripe_invoice DEF BlindOnes, Find, Need, Post
<1>11. CASE k = "qbo_payment"
  BY <1>1, <1>11, Chain_qbo_payment DEF BlindOnes, Find, Need, Post
<1>12. CASE k = "shopify_tiers"
  BY <1>1, <1>12, Chain_shopify_tiers DEF BlindOnes, Find, Need, Post
<1>13. CASE k = "gmail_draft"
  <2>1. Chain(k)[i] = Post("gmail_draft", "blind", "accept")
    BY <1>13, Chain_gmail_draft
  <2>2. Excuses("gmail_draft") = {"lost", "server", "late", "garbled", "cut"}
    BY DEF Excuses
  <2>3. dispatch[k].check = gmail_post
    BY <1>13 DEF dispatch, gmail_draft
  <2>4. gmail_post["bare"] = "blank"
    BY DEF gmail_post, check, Answers, Landed, Transient
  <2>5. QED
    BY <2>1, <2>2, <2>3, <2>4 DEF BlindSound, Post
<1>14. CASE k = "gmail_trash"
  BY <1>1, <1>14, Chain_gmail_trash DEF BlindOnes, Find, Need, Post
<1>15. CASE k = "agent_launch"
  BY <1>1, <1>15, Chain_agent_launch
     DEF BlindSound, BlindOnes, Excuses, Post, dispatch, agent_launch, monitor_post,
         Answers, Landed, Transient
<1>16. CASE k = "content_publish"
  BY <1>1, <1>16, Chain_content_publish DEF BlindOnes, Find, Need, Post
<1>17. CASE k = "buffer_post"
  BY <1>1, <1>17, Chain_buffer_post
     DEF BlindSound, BlindOnes, Excuses, Post, dispatch, buffer_post_job, buffer_post, check,
         Answers, Landed, Transient
<1>18. CASE k = "quote_workflow"
  BY <1>1, <1>18, Chain_quote_workflow DEF BlindOnes, Find, Need, Post
<1>19. CASE k = "unsupported"
  BY <1>19 DEF Chain
<1>20. QED
  BY <1>2, <1>3, <1>4, <1>5, <1>6, <1>7, <1>8, <1>9, <1>10, <1>11, <1>12, <1>13, <1>14, <1>15, <1>16, <1>17, <1>18, <1>19 DEF Kinds, dispatch

\* What may excuse the repetition of a write, and that only blind ones have an
\* excuse.
LEMMA ExcusesAre ==
    ASSUME NEW n
    PROVE  /\ Excuses(n) # {} => n \in BlindOnes
           /\ n \in BlindOnes => "cut" \in Excuses(n)
           /\ n \in BlindOnes \ {"buffer_post"} => "late" \in Excuses(n)
  BY DEF Excuses, BlindOnes

\* Only Buffer's own job posts to Buffer.
LEMMA BufferIsAlone ==
    ASSUME NEW k \in Kinds, NEW i \in DOMAIN Chain(k), Chain(k)[i].object = "buffer_post"
    PROVE  k = "buffer_post"
<1>1. CASE k = "google_calendar"
  BY <1>1, Chain_google_calendar DEF Find, Need, Post
<1>2. CASE k = "hubspot_note"
  BY <1>2, Chain_hubspot_note DEF Find, Need, Post
<1>3. CASE k = "hubspot_records"
  BY <1>3, Chain_hubspot_records DEF Find, Need, Post
<1>4. CASE k = "espocrm_note"
  BY <1>4, Chain_espocrm_note DEF Find, Need, Post
<1>5. CASE k = "espocrm_lead"
  BY <1>5, Chain_espocrm_lead DEF Find, Need, Post
<1>6. CASE k = "espocrm_records"
  BY <1>6, Chain_espocrm_records DEF Find, Need, Post
<1>7. CASE k = "ninja_receipt"
  BY <1>7, Chain_ninja_receipt DEF Find, Need, Post
<1>8. CASE k = "ninja_invoice"
  BY <1>8, Chain_ninja_invoice DEF Find, Need, Post
<1>9. CASE k = "stripe_invoice"
  BY <1>9, Chain_stripe_invoice DEF Find, Need, Post
<1>10. CASE k = "qbo_payment"
  BY <1>10, Chain_qbo_payment DEF Find, Need, Post
<1>11. CASE k = "shopify_tiers"
  BY <1>11, Chain_shopify_tiers DEF Find, Need, Post
<1>12. CASE k = "gmail_draft"
  BY <1>12, Chain_gmail_draft DEF Find, Need, Post
<1>13. CASE k = "gmail_trash"
  BY <1>13, Chain_gmail_trash DEF Find, Need, Post
<1>14. CASE k = "agent_launch"
  BY <1>14, Chain_agent_launch DEF Find, Need, Post
<1>15. CASE k = "content_publish"
  BY <1>15, Chain_content_publish DEF Find, Need, Post
<1>16. CASE k = "quote_workflow"
  BY <1>16, Chain_quote_workflow DEF Find, Need, Post
<1>17. CASE k = "unsupported"
  BY <1>17 DEF Chain
<1>18. QED
  BY <1>1, <1>2, <1>3, <1>4, <1>5, <1>6, <1>7, <1>8, <1>9, <1>10, <1>11, <1>12, <1>13, <1>14, <1>15, <1>16, <1>17 DEF Kinds, dispatch

\* A non-empty set of natural numbers has a least element.
LEMMA LeastElement ==
    ASSUME NEW S, S \subseteq Nat, S # {}
    PROVE  \E m \in S : \A n \in S : m <= n
<1>1. PICK m \in S : \A n \in S : ~(<<n, m>> \in OpToRel(<, Nat))
  BY NatLessThanWellFounded, WFMin
<1>2. \A n \in S : ~(n < m)
  BY <1>1 DEF OpToRel
<1>3. QED
  BY <1>2

\* The positions of a chain are numbered from 1 without gaps.
LEMMA Positions ==
    ASSUME NEW k \in Kinds
    PROVE  /\ DOMAIN Chain(k) \subseteq Nat \ {0}
           /\ \A l \in DOMAIN Chain(k) : \A m \in 1..l : m \in DOMAIN Chain(k)
<1>1. CASE k = "google_calendar"
  BY <1>1, Chain_google_calendar
<1>2. CASE k = "hubspot_note"
  BY <1>2, Chain_hubspot_note
<1>3. CASE k = "hubspot_records"
  BY <1>3, Chain_hubspot_records
<1>4. CASE k = "espocrm_note"
  BY <1>4, Chain_espocrm_note
<1>5. CASE k = "espocrm_lead"
  BY <1>5, Chain_espocrm_lead
<1>6. CASE k = "espocrm_records"
  BY <1>6, Chain_espocrm_records
<1>7. CASE k = "ninja_receipt"
  BY <1>7, Chain_ninja_receipt
<1>8. CASE k = "ninja_invoice"
  BY <1>8, Chain_ninja_invoice
<1>9. CASE k = "stripe_invoice"
  BY <1>9, Chain_stripe_invoice
<1>10. CASE k = "qbo_payment"
  BY <1>10, Chain_qbo_payment
<1>11. CASE k = "shopify_tiers"
  BY <1>11, Chain_shopify_tiers
<1>12. CASE k = "gmail_draft"
  BY <1>12, Chain_gmail_draft
<1>13. CASE k = "gmail_trash"
  BY <1>13, Chain_gmail_trash
<1>14. CASE k = "agent_launch"
  BY <1>14, Chain_agent_launch
<1>15. CASE k = "content_publish"
  BY <1>15, Chain_content_publish
<1>16. CASE k = "buffer_post"
  BY <1>16, Chain_buffer_post
<1>17. CASE k = "quote_workflow"
  BY <1>17, Chain_quote_workflow
<1>18. CASE k = "unsupported"
  BY <1>18 DEF Chain
<1>19. QED
  BY <1>1, <1>2, <1>3, <1>4, <1>5, <1>6, <1>7, <1>8, <1>9, <1>10, <1>11, <1>12, <1>13, <1>14, <1>15, <1>16, <1>17, <1>18 DEF Kinds, dispatch

\* Before any call an executor returns none of the outcomes a call may have.
LEMMA AmissIs ==
    ASSUME NEW j, kind[j] \in Kinds
    PROVE  Amiss(j) \subseteq {"Retry", "Terminal", "Dry"}
<1>1. CASE kind[j] = "google_calendar"
  BY <1>1 DEF Amiss, dispatch, google_calendar
<1>2. CASE kind[j] = "hubspot_note"
  BY <1>2 DEF Amiss, dispatch, hubspot_note
<1>3. CASE kind[j] = "hubspot_records"
  BY <1>3 DEF Amiss, dispatch, hubspot_records
<1>4. CASE kind[j] = "espocrm_note"
  BY <1>4 DEF Amiss, dispatch, espocrm_note
<1>5. CASE kind[j] = "espocrm_lead"
  BY <1>5 DEF Amiss, dispatch, espocrm_lead
<1>6. CASE kind[j] = "espocrm_records"
  BY <1>6 DEF Amiss, dispatch, espocrm_records
<1>7. CASE kind[j] = "ninja_receipt"
  BY <1>7 DEF Amiss, dispatch, ninja_receipt
<1>8. CASE kind[j] = "ninja_invoice"
  BY <1>8 DEF Amiss, dispatch, ninja_invoice
<1>9. CASE kind[j] = "stripe_invoice"
  BY <1>9 DEF Amiss, dispatch, stripe_invoice
<1>10. CASE kind[j] = "qbo_payment"
  BY <1>10 DEF Amiss, dispatch, qbo_payment
<1>11. CASE kind[j] = "shopify_tiers"
  BY <1>11 DEF Amiss, dispatch, shopify_tiers
<1>12. CASE kind[j] = "gmail_draft"
  BY <1>12 DEF Amiss, dispatch, gmail_draft
<1>13. CASE kind[j] = "gmail_trash"
  BY <1>13 DEF Amiss, dispatch, gmail_trash
<1>14. CASE kind[j] = "agent_launch"
  BY <1>14 DEF Amiss, dispatch, agent_launch
<1>15. CASE kind[j] = "content_publish"
  BY <1>15 DEF Amiss, dispatch, content_publish
<1>16. CASE kind[j] = "buffer_post"
  BY <1>16 DEF Amiss, dispatch, buffer_post_job
<1>17. CASE kind[j] = "quote_workflow"
  BY <1>17 DEF Amiss, dispatch, quote_workflow
<1>18. CASE kind[j] = "unsupported"
  BY <1>18 DEF Amiss
<1>19. QED
  BY <1>1, <1>2, <1>3, <1>4, <1>5, <1>6, <1>7, <1>8, <1>9, <1>10, <1>11, <1>12, <1>13, <1>14, <1>15, <1>16, <1>17, <1>18 DEF Kinds, dispatch

-----------------------------------------------------------------------------
(* Objects.                                                                *)

\* An object tells its name, and its job if it is the job's own.
LEMMA ObjectIs ==
    ASSUME NEW n, NEW j
    PROVE  /\ Object(n, j)[1] = n
           /\ \A m, i : Object(n, j) = Object(m, i) => n = m /\ (n \notin Shared => i = j)
  BY DEF Object

\* The kind of a job is a kind.
LEMMA KindOf ==
    ASSUME TypeOK, NEW j \in Jobs
    PROVE  kind[j] \in Kinds
  BY WorkloadsAssumption DEF TypeOK

\* What a chain names is among the objects.
LEMMA NamedIsObject ==
    ASSUME NEW j \in Jobs, NEW n \in Names(kind[j])
    PROVE  Object(n, j) \in Objects
  BY DEF Objects

\* Every object is named by the chain of a job.
LEMMA ObjectIsNamed ==
    ASSUME NEW o \in Objects
    PROVE  \E j \in Jobs : \E n \in Names(kind[j]) : o = Object(n, j) /\ o[1] = n
<1>1. PICK j \in Jobs : \E n \in Names(kind[j]) : o = Object(n, j)
  BY DEF Objects
<1>2. QED
  BY <1>1, ObjectIs

\* The object of a step is among its chain's names, the open balance apart.
LEMMA StepIsNamed ==
    ASSUME NEW k, NEW i \in DOMAIN Chain(k), Chain(k)[i].object # "qbo_open_balance"
    PROVE  Chain(k)[i].object \in Names(k)
  BY DEF Names

\* Where an attempt goes on.
LEMMA GoOnIs ==
    ASSUME NEW j, kind[j] \in Kinds, NEW i \in Nat, NEW got, NEW new
    PROVE  LET c == Chain(kind[j])
               g == GoOn(j, i, got, new)
           IN  /\ g.job = j
               /\ \/ /\ g.outcome = "Delivered"
                     /\ \A l \in DOMAIN c : l > i => PassedOver(j, c[l], got, new)
                  \/ /\ g.outcome = "calling" /\ g.got = got /\ g.new = new
                     /\ g.at \in DOMAIN c /\ g.at > i /\ ~PassedOver(j, c[g.at], got, new)
                     /\ \A l \in DOMAIN c : l > i /\ l < g.at => PassedOver(j, c[l], got, new)
<1> DEFINE c == Chain(kind[j])
           left == {k \in DOMAIN c : k > i /\ ~PassedOver(j, c[k], got, new)}
           first == CHOOSE k \in left : \A l \in left : k <= l
<1>1. DOMAIN c \subseteq Nat
  BY Positions
<1>2. CASE left = {}
  BY <1>2 DEF GoOn
<1>3. CASE left # {}
  <2>1. first \in left /\ \A l \in left : first <= l
    BY <1>1, <1>3, LeastElement
  <2>2. GoOn(j, i, got, new) = [job |-> j, outcome |-> "calling", got |-> got, new |-> new,
                                at |-> first]
    BY <1>3 DEF GoOn
  <2> HIDE DEF first
  <2>3. \A l \in DOMAIN c : l > i /\ l < first => PassedOver(j, c[l], got, new)
    <3>1. \A l \in DOMAIN c : l > i /\ l < first => l \notin left
      BY <1>1, <2>1
    <3>2. QED
      BY <3>1
  <2>4. QED
    BY <2>1, <2>2, <2>3
<1>4. QED
  BY <1>2, <1>3


-----------------------------------------------------------------------------
(* An attempt that goes on.                                                *)

\* What is passed over is settled.
LEMMA PassedIsSettled ==
    ASSUME NEW j \in Jobs, NEW c, c = Chain(kind[j]), NEW i \in DOMAIN c, NEW got, NEW new,
           withheld' = withheld,
           \A o \in Objects : made[o] > 0 => made'[o] > 0,
           \A n \in got \ {"qbo_open_balance"} : made'[Object(n, j)] > 0,
           PassedOver(j, c[i], got, new)
    PROVE  Settled(j, c[i].object)'
<1> DEFINE n == c[i].object
<1>1. CASE n = "qbo_open_balance" \/ n = "hubspot_link" \/ n \in withheld[j]
  BY <1>1 DEF Settled
<1>2. CASE n # "qbo_open_balance" /\ n # "hubspot_link" /\ n \notin withheld[j]
  <2>1. n \in got \/ made[Object(n, j)] > 0
    BY <1>2 DEF PassedOver
  <2>2. Object(n, j) \in Objects
    BY <1>2, StepIsNamed, NamedIsObject
  <2>3. made'[Object(n, j)] > 0
    BY <1>2, <2>1, <2>2
  <2>4. QED
    BY <2>3 DEF Settled, Object
<1>3. QED
  BY <1>1, <1>2

\* An attempt that goes on after position i is sound, if what it resolved exists,
\* what lies behind it is settled or is what the next step is about, and a next
\* step that creates is about something that was just looked up.
LEMMA GoOnSound ==
    ASSUME TypeOK, NEW j \in Jobs, NEW c, c = Chain(kind[j]), NEW i \in Nat, NEW got, NEW new,
           kind' = kind, withheld' = withheld,
           \A o \in Objects : made[o] > 0 => made'[o] > 0,
           \A n \in got \ {"qbo_open_balance"} :
              n \in Names(kind[j]) /\ made'[Object(n, j)] > 0,
           \A l \in DOMAIN c : l <= i =>
              \/ Settled(j, c[l].object)'
              \/ i + 1 \in DOMAIN c /\ c[i + 1].object = c[l].object,
           i + 1 \in DOMAIN c /\ c[i + 1].call = "post" /\ c[i + 1].object \notin got =>
              /\ c[i + 1].object \in Looked =>
                    \/ made'[Object(c[i + 1].object, j)] = 0 \/ Misread'
                    \/ Object(c[i + 1].object, j) \in late'
              /\ c[i + 1].object = "qbo_payment" => "qbo_open_balance" \in got,
           "qbo_open_balance" \in got =>
              /\ "qbo_payment" \in Names(kind[j])
              /\ made'[Object("qbo_payment", j)] = 0 \/ Object("qbo_payment", j) \in late',
           hand' = GoOn(j, i, got, new)
    PROVE  /\ AttemptSound'
           /\ hand'.job = j
           /\ hand'.outcome = "calling" => hand'.at \in DOMAIN c
           /\ hand'.outcome \in {"calling", "Delivered"}
           /\ LastStep(c, i) => hand'.outcome = "Delivered"
<1>1. kind[j] \in Kinds
  BY KindOf
<1>2. DOMAIN c \subseteq Nat \ {0} /\ \A l \in DOMAIN c : \A m \in 1..l : m \in DOMAIN c
  BY <1>1, Positions
<1>3. ASSUME NEW l \in DOMAIN c, PassedOver(j, c[l], got, new)
      PROVE  Settled(j, c[l].object)'
  BY <1>3, PassedIsSettled
<1>4. hand'.job = j
  BY <1>1, GoOnIs
<1>5. CASE /\ hand'.outcome = "Delivered"
           /\ \A l \in DOMAIN c : l > i => PassedOver(j, c[l], got, new)
  <2>1. ASSUME NEW l \in DOMAIN c
        PROVE  Settled(j, c[l].object)'
    <3>1. CASE l > i
      BY <1>3, <1>5, <3>1
    <3>2. CASE l <= i /\ ~Settled(j, c[l].object)'
      <4>1. i + 1 \in DOMAIN c /\ c[i + 1].object = c[l].object
        BY <3>2
      <4>2. i + 1 > i
        OBVIOUS
      <4>3. PassedOver(j, c[i + 1], got, new)
        BY <1>5, <4>1, <4>2
      <4>4. QED
        BY <1>3, <3>2, <4>1, <4>3
    <3>3. QED
      BY <1>2, <3>1, <3>2
  <2>2. Complete(j)'
    BY <2>1 DEF Complete, Names
  <2>3. AttemptSound'
    BY <1>4, <1>5, <2>2 DEF AttemptSound
  <2>4. QED
    BY <1>4, <1>5, <2>3
<1>6. CASE /\ hand'.outcome = "calling" /\ hand'.got = got /\ hand'.new = new
           /\ hand'.at \in DOMAIN c /\ hand'.at > i /\ ~PassedOver(j, c[hand'.at], got, new)
           /\ \A l \in DOMAIN c : l > i /\ l < hand'.at => PassedOver(j, c[l], got, new)
  <2> DEFINE k == hand'.at
             s == c[k]
  <2>1. k \in Nat \ {0} /\ k \in DOMAIN c /\ k > i
    BY <1>2, <1>6
  <2>2. Step' = s /\ Target' = Object(s.object, j)
    BY <1>4, <1>6 DEF Step, Target, Object
  <2>3. ASSUME NEW l \in 1..(k - 1)
        PROVE  Settled(j, c[l].object)' \/ c[l].object = s.object
    <3>1. l \in DOMAIN c /\ l \in Nat /\ l < k
      BY <1>2, <2>1
    <3>2. CASE l > i
      BY <1>3, <1>6, <3>1, <3>2
    <3>3. CASE l <= i /\ ~Settled(j, c[l].object)'
      <4>1. i + 1 \in DOMAIN c /\ c[i + 1].object = c[l].object
        BY <3>1, <3>3
      <4>2. CASE k = i + 1
        BY <4>1, <4>2
      <4>3. CASE k # i + 1
        <5>1. i + 1 > i /\ i + 1 < k
          BY <2>1, <4>3
        <5>2. PassedOver(j, c[i + 1], got, new)
          BY <1>6, <4>1, <5>1
        <5>3. QED
          BY <1>3, <3>3, <4>1, <5>2
      <4>4. QED
        BY <4>2, <4>3
    <3>4. QED
      BY <3>1, <3>2, <3>3
  <2>4. s.object \notin got
    BY <1>6 DEF PassedOver
  <2>5. StepSound(kind[j], k)
    BY <1>1, <2>1, StepsAreSound
  <2>6. ASSUME s.call = "post", s.object \in Looked
        PROVE  made'[Object(s.object, j)] = 0 \/ Misread' \/ Object(s.object, j) \in late'
    <3>1. k - 1 \in DOMAIN c /\ c[k - 1].call = "find" /\ c[k - 1].object = s.object
      BY <2>5, <2>6 DEF StepSound, Write, LookedUp
    <3>2. StepSound(kind[j], k - 1)
      BY <1>1, <3>1, StepsAreSound
    <3>3. ~PassedOver(j, c[k - 1], got, new)
      <4>1. s.object \notin {"hubspot_link", "stale_tags_gone"}
        BY <3>1, <3>2 DEF StepSound, Lookup
      <4>2. QED
        BY <2>4, <3>1, <4>1 DEF PassedOver
    <3>4. k = i + 1
      BY <1>6, <2>1, <3>1, <3>3
    <3>5. QED
      BY <2>1, <2>4, <2>6, <3>4
  <2>7. ASSUME s.call = "post", s.object = "qbo_payment"
        PROVE  made'[Object(s.object, j)] = 0 \/ Object(s.object, j) \in late'
    <3>1. k - 1 \in DOMAIN c /\ c[k - 1] = Need("qbo_open_balance")
      BY <2>5, <2>7 DEF StepSound, Write, Preflighted
    <3>2. CASE k = i + 1
      BY <2>1, <2>4, <2>7, <3>2
    <3>3. CASE k # i + 1
      <4>1. PassedOver(j, c[k - 1], got, new)
        BY <1>6, <2>1, <3>1, <3>3
      <4>2. "qbo_open_balance" \in got
        BY <3>1, <4>1 DEF PassedOver, Need
      <4>3. QED
        BY <2>7, <4>2
    <3>4. QED
      BY <3>2, <3>3
  <2>8. ASSUME NEW n
        PROVE  Object(n, hand'.job) = Object(n, j)
    BY <1>4
  <2>9. AttemptSound'
    BY <1>4, <1>6, <2>2, <2>3, <2>6, <2>7 DEF AttemptSound, Unpaid, Object
  <2>10. ~LastStep(c, i)
    BY <2>1 DEF LastStep
  <2>11. QED
    BY <1>4, <1>6, <2>9, <2>10
<1>7. QED
  BY <1>1, <1>5, <1>6, GoOnIs


-----------------------------------------------------------------------------
(* One call.                                                               *)

\* The inductive invariant.
ProviderInv == WritesInv /\ BlindWritesExplained /\ DeliveredIsComplete

\* A call under way answered by a, with or without an effect.
Answered(a, landed) ==
    /\ hand # Nobody /\ hand.outcome = "calling"
    /\ a \in Answers /\ landed \in BOOLEAN
    /\ a \in Landed => Plain = "ok"
    /\ a = "conflict" /\ Step.object = "event" => Plain = a
    /\ landed <=> Step.call = "post" /\ (a \in Landed \/ (a \in MayHaveLanded /\ landed))
    /\ faults' = faults + (IF a = Plain THEN 0 ELSE 1) /\ faults' <= MaxFaults
    /\ hand' \in After(a)
    /\ made' = IF landed THEN MadeBy(Step, hand.job) ELSE made
    /\ keys' = IF landed THEN KeysBy(Step, hand.job) ELSE keys
    /\ adrift' = IF Step.call = "post" /\ a \in MayHaveLanded /\ ~landed
                   THEN adrift \cup {Request} ELSE adrift
    /\ slips' = slips \cup Slip(a, landed)
    /\ UNCHANGED <<setup, row, dry, gate, late, retries>>

\* Where a call under way stands.
LEMMA CallStands ==
    ASSUME TypeOK, hand # Nobody, hand.outcome = "calling"
    PROVE  /\ hand.job \in Jobs /\ row[hand.job].status = "pending" /\ kind[hand.job] \in Kinds
           /\ hand.at \in DOMAIN Chain(kind[hand.job]) /\ hand.at \in Nat \ {0}
           /\ StepSound(kind[hand.job], hand.at)
           /\ kind[hand.job] # "unsupported"
           /\ Step = Chain(kind[hand.job])[hand.at]
           /\ Target = Object(Step.object, hand.job)
           /\ Step.object # "qbo_open_balance" =>
                 Step.object \in Names(kind[hand.job]) /\ Target \in Objects
           /\ Step.call = "post" => Step.object # "qbo_open_balance"
<1>1. /\ hand.job \in Jobs /\ row[hand.job].status = "pending"
      /\ hand.at \in DOMAIN Chain(kind[hand.job])
  BY DEF TypeOK
<1>2. kind[hand.job] \in Kinds
  BY <1>1, KindOf
<1>3. hand.at \in Nat \ {0}
  BY <1>1, <1>2, Positions
<1>4. StepSound(kind[hand.job], hand.at)
  BY <1>1, <1>2, StepsAreSound
<1>5. kind[hand.job] # "unsupported"
  BY <1>1 DEF Chain
<1>6. Step = Chain(kind[hand.job])[hand.at] /\ Target = Object(Step.object, hand.job)
  BY DEF Step, Target
<1>7. Step.object # "qbo_open_balance" =>
         Step.object \in Names(kind[hand.job]) /\ Target \in Objects
  BY <1>1, <1>6, StepIsNamed, NamedIsObject
<1>8. Step.call = "post" => Step.object # "qbo_open_balance"
  BY <1>4, <1>6 DEF StepSound, Write
<1>9. QED
  BY <1>1, <1>2, <1>3, <1>4, <1>5, <1>6, <1>7, <1>8

\* What a write does to the provider's objects when it arrives, at once or late.
LEMMA LandingIs ==
    ASSUME TypeOK, KeysRemembered, MadeOnceWhatever,
           NEW j \in Jobs, NEW i \in DOMAIN Chain(kind[j]), NEW s, s = Chain(kind[j])[i],
           s.call = "post", NEW o, o = Object(s.object, j),
           kind' = kind, made' = MadeBy(s, j), keys' = KeysBy(s, j)
    PROVE  /\ s.object \in Names(kind[j]) /\ o \in Objects /\ o[1] = s.object
           /\ made' \in [Objects -> 0..2] /\ made'[o] > 0
           /\ \A p \in Objects : p # o => made'[p] = made[p]
           /\ \A p \in Objects : made[p] > 0 => made'[p] > 0
           /\ made'[o] > 1 /\ made'[o] # made[o] => made[o] > 0
           /\ keys \subseteq keys'
           /\ MadeOnceWhatever' /\ KeysRemembered'
<1>1. kind[j] \in Kinds
  BY KindOf
<1>2. StepSound(kind[j], i)
  BY <1>1, StepsAreSound
<1>3. s.object # "qbo_open_balance"
  BY <1>2 DEF StepSound, Write
<1>4. s.object \in Names(kind[j]) /\ o \in Objects /\ o[1] = s.object
  BY <1>3, StepIsNamed, NamedIsObject, ObjectIs
<1>5. made \in [Objects -> 0..2] /\ Objects' = Objects
  BY DEF TypeOK, Objects
<1>6. made[o] \in 0..2
  BY <1>4, <1>5
<1>7. PICK v \in 1..2 : v = IF s.mode = "named" \/ made[o] = 0 THEN 1 ELSE 2
  OBVIOUS
<1>8. /\ keys \subseteq keys'
      /\ \A k \in keys' : k \in keys \/ k = <<o, j>>
      /\ s.mode = "keyed" => <<o, j>> \in keys'
  BY DEF KeysBy
<1>9. \/ made' = made /\ s.mode # "blind" /\ <<o, j>> \in keys
      \/ made' = [made EXCEPT ![o] = v] /\ ~(s.mode # "blind" /\ <<o, j>> \in keys)
  BY <1>7 DEF MadeBy, Repeated
<1>10. <<o, j>> \in keys => made[o] > 0
  <2>1. ASSUME NEW k \in keys PROVE made[k[1]] > 0
    BY DEF KeysRemembered
  <2>2. <<o, j>>[1] = o
    OBVIOUS
  <2>3. QED
    BY <2>1, <2>2
<1>11. /\ made' \in [Objects -> 0..2] /\ made'[o] > 0 /\ \A p \in Objects : p # o => made'[p] = made[p]
       /\ made'[o] = made[o] \/ (made'[o] = v /\ ~(s.mode # "blind" /\ <<o, j>> \in keys))
  <2>1. CASE made' = made /\ <<o, j>> \in keys
    BY <1>5, <1>10, <2>1
  <2>2. CASE made' = [made EXCEPT ![o] = v] /\ ~(s.mode # "blind" /\ <<o, j>> \in keys)
    BY <1>4, <1>5, <1>7, <2>2
  <2>3. QED
    BY <1>9, <2>1, <2>2
<1>12. \A p \in Objects : made[p] > 0 => made'[p] > 0
  BY <1>11
<1>13. made'[o] > 1 /\ made'[o] # made[o] => made[o] > 0 /\ s.mode # "named"
  BY <1>6, <1>7, <1>11
<1>14. MadeOnceWhatever'
  <2>1. ASSUME NEW p \in Objects, made'[p] > 1,
               p[1] \in {"event", "receipt_invoice", "stripe_invoice", "stripe_line_1",
                         "stripe_line_2", "published_post"}
        PROVE  FALSE
    <3>1. made[p] \in 0..2 /\ made[p] <= 1
      BY <1>5, <2>1 DEF MadeOnceWhatever
    <3>2. p = o /\ made'[o] # made[o]
      BY <1>11, <2>1, <3>1
    <3>3. made[o] > 0 /\ s.mode # "named" /\ ~(s.mode # "blind" /\ <<o, j>> \in keys)
      BY <1>11, <1>13, <2>1, <3>2
    <3>4. s.object \notin {"event", "receipt_invoice"}
      BY <1>2, <3>3 DEF StepSound, Write
    <3>5. s.object \in Keyed
      BY <1>4, <2>1, <3>2, <3>4 DEF Keyed
    <3>6. s.mode = "keyed"
      BY <1>2, <3>5 DEF StepSound, Write
    <3>7. <<o, j>> \in keys
      BY <1>4, <3>3, <3>5 DEF KeysRemembered
    <3>8. QED
      BY <3>3, <3>6, <3>7
  <2>2. \A p \in Objects : made'[p] \in 0..2
    BY <1>11
  <2>3. QED
    BY <1>5, <2>1, <2>2 DEF MadeOnceWhatever
<1>15. KeysRemembered'
  <2>1. ASSUME NEW k \in keys' PROVE k[1] \in Objects /\ made'[k[1]] > 0
    <3>1. CASE k \in keys
      BY <1>12, <3>1 DEF KeysRemembered
    <3>2. CASE k = <<o, j>>
      BY <1>4, <1>11, <3>2
    <3>3. QED
      BY <1>8, <2>1, <3>1, <3>2
  <2>2. ASSUME NEW i2 \in Jobs, NEW n \in Names(kind[i2]) \cap Keyed, made'[Object(n, i2)] > 0
        PROVE  <<Object(n, i2), i2>> \in keys'
    <3>1. Object(n, i2) \in Objects
      BY NamedIsObject
    <3>2. CASE Object(n, i2) # o
      BY <1>8, <1>11, <2>2, <3>1, <3>2 DEF KeysRemembered
    <3>3. CASE Object(n, i2) = o
      <4>1. n \notin Shared
        BY DEF Keyed, Shared
      <4>2. n = s.object /\ i2 = j
        BY <3>3, <4>1, ObjectIs
      <4>3. s.mode = "keyed"
        BY <1>2, <4>2 DEF StepSound, Write
      <4>4. QED
        BY <1>8, <3>3, <4>2, <4>3
    <3>4. QED
      BY <3>2, <3>3
  <2>3. QED
    BY <1>5, <2>1, <2>2 DEF KeysRemembered, Object
<1>16. QED
  BY <1>4, <1>8, <1>11, <1>12, <1>13, <1>14, <1>15

\* What a call does to the provider's objects.
LEMMA CallEffect ==
    ASSUME ProviderInv, NEW a, NEW landed, Answered(a, landed)
    PROVE  /\ made' \in [Objects -> 0..2]
           /\ \A o \in Objects : made[o] > 0 => made'[o] > 0
           /\ \A o \in Objects : made'[o] # made[o] => o = Target /\ landed /\ Step.call = "post"
           /\ ~landed => made' = made
           /\ landed => /\ Step.call = "post" /\ Target \in Objects /\ made'[Target] > 0
                        /\ a \in {"ok", "garbled", "bare", "lost", "server"}
           /\ \A o \in Objects : made'[o] > 1 /\ made'[o] # made[o] => made[o] > 0
           /\ slips \subseteq slips' /\ keys \subseteq keys' /\ late' = late
           /\ MadeOnceWhatever' /\ KeysRemembered'
<1>1. /\ TypeOK /\ KeysRemembered /\ MadeOnceWhatever /\ hand # Nobody /\ hand.outcome = "calling"
      /\ kind' = kind
  BY DEF ProviderInv, WritesInv, Answered, setup
<1>2. made \in [Objects -> 0..2] /\ Objects' = Objects
  BY <1>1 DEF TypeOK, Objects
<1>3. slips \subseteq slips' /\ late' = late
  BY DEF Answered
<1>4. CASE landed
  <2>1. Step.call = "post" /\ a \in {"ok", "garbled", "bare", "lost", "server"}
    BY <1>4 DEF Answered, Landed, MayHaveLanded
  <2>2. made' = MadeBy(Step, hand.job) /\ keys' = KeysBy(Step, hand.job)
    BY <1>4 DEF Answered
  <2>3. /\ hand.job \in Jobs /\ hand.at \in DOMAIN Chain(kind[hand.job])
        /\ Step = Chain(kind[hand.job])[hand.at] /\ Target = Object(Step.object, hand.job)
    BY <1>1, CallStands
  <2>4. PICK s : s = Step
    OBVIOUS
  <2>5. PICK o : o = Target
    OBVIOUS
  <2>6. /\ o \in Objects /\ made' \in [Objects -> 0..2] /\ made'[o] > 0
        /\ \A p \in Objects : p # o => made'[p] = made[p]
        /\ \A p \in Objects : made[p] > 0 => made'[p] > 0
        /\ made'[o] > 1 /\ made'[o] # made[o] => made[o] > 0
        /\ keys \subseteq keys' /\ MadeOnceWhatever' /\ KeysRemembered'
    BY <1>1, <2>1, <2>2, <2>3, <2>4, <2>5, LandingIs
  <2>7. QED
    BY <1>3, <1>4, <2>1, <2>5, <2>6
<1>5. CASE ~landed
  <2>1. made' = made /\ keys' = keys
    BY <1>5 DEF Answered
  <2>2. MadeOnceWhatever' /\ KeysRemembered'
    BY <1>1, <1>2, <2>1 DEF MadeOnceWhatever, KeysRemembered, Object
  <2>3. QED
    BY <1>2, <1>3, <1>5, <2>1, <2>2
<1>6. QED
  BY <1>4, <1>5 DEF Answered

\* How an attempt may go on after a call.
LEMMA CallGoesOn ==
    ASSUME ProviderInv, NEW a, NEW landed, Answered(a, landed)
    PROVE  LET j == hand.job
               v == dispatch[kind[j]].check[a]
           IN  \/ hand' = End(j, "Retry") \/ hand' = End(j, "Terminal")
               \/ hand' = End(j, "OutcomeUnknown")
               \/ /\ hand' = GoOn(j, hand.at, hand.got, hand.new)
                  /\ \/ Step.call = "find" /\ (Found = {} \/ <<j, "misread">> \in slips')
                     \/ Step.call = "post" /\ Step.object = "receipt_invoice" /\ ~landed
               \/ /\ hand' = GoOn(j, hand.at, hand.got \cup {Step.object},
                                  hand.new \cup {Step.object})
                  /\ Step.call = "post" /\ made'[Target] > 0
               \/ /\ Step.call # "post"
                  /\ \E f \in Found : hand' = GoOn(j, hand.at, hand.got \cup f, hand.new)
<1> DEFINE j == hand.job
           v == dispatch[kind[j]].check[a]
<1>1. TypeOK /\ hand # Nobody /\ hand.outcome = "calling" /\ a \in Answers /\ hand' \in After(a)
  BY DEF ProviderInv, WritesInv, Answered
<1>2. Step.call \in {"find", "need", "post"}
  BY <1>1, CallStands DEF StepSound
<1>3. CheckSound(kind[j], a)
  BY <1>1, CallStands, ChecksAreSound
<1>4. CASE a = "invalid" /\ Step.object = "receipt_invoice" /\ Step.call = "post"
  <2>1. ~landed
    BY <1>4, CallEffect
  <2>2. hand' = GoOn(j, hand.at, hand.got, hand.new)
    BY <1>1, <1>4 DEF After
  <2>3. QED
    BY <1>4, <2>1, <2>2
<1>5. CASE /\ ~(a = "invalid" /\ Step.object = "receipt_invoice" /\ Step.call = "post")
           /\ v \in {"retry", "unknown", "terminal"}
  BY <1>1, <1>5 DEF After
<1>6. CASE /\ ~(a = "invalid" /\ Step.object = "receipt_invoice")
           /\ v \notin {"retry", "unknown", "terminal"} /\ Step.call = "post"
  <2>1. CASE v = "ok" \/ Step.unnamed = "accept"
    <3>1. hand' = GoOn(j, hand.at, hand.got \cup {Step.object}, hand.new \cup {Step.object})
      BY <1>1, <1>6, <2>1 DEF After
    <3>2. a \in Landed \/ (a = "conflict" /\ kind[j] = "google_calendar")
      <4>1. v \in {"ok", "blank"}
        BY <1>1, <1>6, CallStands, ReadingsAre
      <4>2. QED
        BY <1>3, <4>1 DEF CheckSound, Landed
    <3>3. CASE a \in Landed
      <4>1. landed
        BY <1>6, <3>3 DEF Answered
      <4>2. QED
        BY <1>6, <3>1, <4>1, CallEffect
    <3>4. CASE a = "conflict" /\ kind[j] = "google_calendar"
      <4>1. Step.object = "event"
        BY <1>1, <3>4, CallStands DEF StepSound
      <4>2. Plain = "conflict"
        BY <3>4, <4>1 DEF Answered
      <4>3. made[Target] > 0 /\ Target \in Objects
        BY <1>1, <4>1, <4>2, CallStands DEF Plain
      <4>4. made'[Target] > 0
        BY <4>3, CallEffect
      <4>5. QED
        BY <1>6, <3>1, <4>4
    <3>5. QED
      BY <3>2, <3>3, <3>4
  <2>2. CASE ~(v = "ok" \/ Step.unnamed = "accept")
    BY <1>1, <1>6, <2>2 DEF After
  <2>3. QED
    BY <2>1, <2>2
<1>7. CASE v \notin {"retry", "unknown", "terminal"} /\ Step.call # "post"
  <2>1. CASE v = "blank" \/ Found = {}
    <3>1. CASE Step.call = "need"
      BY <1>1, <1>7, <2>1, <3>1 DEF After
    <3>2. CASE Step.call = "find"
      <4>1. hand' = GoOn(j, hand.at, hand.got, hand.new)
        BY <1>1, <1>7, <2>1, <3>2 DEF After
      <4>2. v = "blank" => <<j, "misread">> \in slips'
        <5>1. v = "blank" => a \in {"garbled", "bare"}
          BY <1>3 DEF CheckSound
        <5>2. QED
          BY <1>7, <5>1 DEF Answered, Slip
      <4>3. QED
        BY <2>1, <3>2, <4>1, <4>2
    <3>3. QED
      BY <1>2, <1>7, <3>1, <3>2
  <2>2. CASE ~(v = "blank" \/ Found = {})
    <3>1. \E f \in Found : hand' = GoOn(j, hand.at, hand.got \cup f, hand.new)
      BY <1>1, <1>7, <2>2 DEF After
    <3>2. QED
      BY <1>7, <3>1
  <2>3. QED
    BY <2>1, <2>2
<1>8. CASE a = "invalid" /\ Step.object = "receipt_invoice" /\ Step.call # "post"
  <2>1. v \in {"retry", "unknown", "terminal"} \/ v \notin {"retry", "unknown", "terminal"}
    OBVIOUS
  <2>2. QED
    BY <1>5, <1>7, <1>8, <2>1
<1>9. QED
  BY <1>4, <1>5, <1>6, <1>7, <1>8


\* A call leaves what it is not about, whether it is an object here or not.
LEMMA UntouchedStays ==
    ASSUME ProviderInv, NEW a, NEW landed, Answered(a, landed), NEW o \in Objects, o # Target
    PROVE  made'[o] = made[o]
  BY CallEffect

\* A lookup finds nothing only if there is nothing, and what it finds exists.
LEMMA FoundExists ==
    ASSUME TypeOK, hand # Nobody, hand.outcome = "calling"
    PROVE  /\ Found = {} /\ Step.object # "qbo_open_balance" => made[Target] = 0
           /\ \A f \in Found :
                 /\ Step.object \in f
                 /\ \A n \in f \ {"qbo_open_balance"} :
                       n \in Names(kind[hand.job]) /\ made[Object(n, hand.job)] > 0
                 /\ "qbo_open_balance" \in f =>
                       /\ "qbo_payment" \in Names(kind[hand.job])
                       /\ made[Object("qbo_payment", hand.job)] = 0
<1>1. made \in [Objects -> 0..2]
  BY DEF TypeOK
<1>2. CASE Step.object = "qbo_open_balance"
  <2>1. "qbo_payment" \in Names(kind[hand.job])
    BY <1>2, CallStands DEF StepSound, Names
  <2>2. QED
    BY <1>2, <2>1 DEF Found
<1>3. CASE Step.object # "qbo_open_balance"
  <2>1. /\ Step.object \in Names(kind[hand.job]) /\ Target \in Objects
        /\ Target = Object(Step.object, hand.job)
    BY <1>3, CallStands
  <2>2. made[Target] \in Nat
    BY <1>1, <2>1
  <2>3. Step.object = "receipt_invoice" => "ninja_payment" \in Names(kind[hand.job])
    BY CallStands DEF StepSound, Names
  <2>4. QED
    <3>1. Found = {} => made[Target] = 0
      BY <1>3 DEF Found
    <3>2. ASSUME NEW f \in Found
          PROVE  made[Target] # 0 /\ (f = {Step.object} \/ (/\ f = {Step.object, "ninja_payment"}
                                                         /\ Step.object = "receipt_invoice"
                                                         /\ made[Object("ninja_payment", hand.job)] > 0))
      BY <1>3 DEF Found
    <3>3. QED
      BY <1>3, <2>1, <2>2, <2>3, <3>1, <3>2
<1>4. QED
  BY <1>2, <1>3

\* The attempt stays sound over a call, and ends only as the clients say.
LEMMA CallKeepsAttempt ==
    ASSUME ProviderInv, NEW a, NEW landed, Answered(a, landed),
           NEW j, j = hand.job, NEW i, i = hand.at, NEW c, c = Chain(kind[j]), NEW s, s = Step
    PROVE  /\ AttemptSound'
           /\ hand'.job = j
           /\ hand'.outcome = "calling" => hand'.at \in DOMAIN c
<1>1. TypeOK /\ AttemptSound /\ hand # Nobody /\ hand.outcome = "calling"
  BY DEF ProviderInv, WritesInv, Answered
<1>2. /\ j \in Jobs /\ i \in DOMAIN c /\ i \in Nat \ {0} /\ StepSound(kind[j], i)
      /\ Step = c[i] /\ s = c[i] /\ Target = Object(s.object, j)
  BY <1>1, CallStands
<1>3. kind' = kind /\ withheld' = withheld
  BY DEF Answered, setup
<1>4. \A o \in Objects : made[o] > 0 => made'[o] > 0
  BY CallEffect
<1>5. made \in [Objects -> 0..2] /\ made' \in [Objects -> 0..2]
  BY <1>1, CallEffect DEF TypeOK
<1>6. \A n \in hand.got \ {"qbo_open_balance"} :
         n \in Names(kind[j]) /\ made'[Object(n, j)] > 0
  <2>1. ASSUME NEW n \in hand.got \ {"qbo_open_balance"}
        PROVE  n \in Names(kind[j]) /\ made'[Object(n, j)] > 0
    <3>1. n \in Names(kind[j]) /\ made[Object(n, j)] > 0
      BY <1>1 DEF AttemptSound
    <3>2. Object(n, j) \in Objects
      BY <1>2, <3>1, NamedIsObject
    <3>3. QED
      BY <1>4, <3>1, <3>2
  <2>2. QED
    BY <2>1
<1>7. ASSUME NEW l \in DOMAIN c, l < i
      PROVE  Settled(j, c[l].object)' \/ c[l].object = s.object
  <2>1. l \in 1..(i - 1)
    BY <1>1, <1>2, <1>7, CallStands, Positions
  <2>2. Settled(j, c[l].object) \/ c[l].object = s.object
    BY <1>1, <2>1 DEF AttemptSound
  <2>3. CASE c[l].object \in withheld[j] \cup {"hubspot_link", "qbo_open_balance"}
    BY <1>3, <2>3 DEF Settled
  <2>4. CASE /\ c[l].object \notin withheld[j] \cup {"hubspot_link", "qbo_open_balance"}
             /\ c[l].object # s.object
    <3>1. made[Object(c[l].object, j)] > 0
      BY <2>2, <2>4 DEF Settled
    <3>2. Object(c[l].object, j) \in Objects
      BY <1>2, <2>4, StepIsNamed, NamedIsObject
    <3>3. QED
      BY <1>4, <3>1, <3>2 DEF Settled, Object
  <2>5. QED
    BY <2>3, <2>4
<1>8. "qbo_open_balance" \in hand.got =>
         /\ "qbo_payment" \in Names(kind[j])
         /\ made[Object("qbo_payment", j)] = 0 \/ Object("qbo_payment", j) \in late
  BY <1>1 DEF AttemptSound, Unpaid
<1>late. late' = late
  BY CallEffect
<1>9. CASE \/ hand' = End(j, "Retry") \/ hand' = End(j, "Terminal")
           \/ hand' = End(j, "OutcomeUnknown")
  BY <1>9 DEF End, AttemptSound
<1>10. CASE /\ hand' = GoOn(j, i, hand.got, hand.new)
            /\ \/ s.call = "find" /\ (Found = {} \/ <<j, "misread">> \in slips')
               \/ s.call = "post" /\ s.object = "receipt_invoice" /\ ~landed
  <2>1. made' = made
    BY <1>10, CallEffect
  <2>2. i + 1 \in DOMAIN c /\ c[i + 1].object = s.object
    BY <1>2, <1>10 DEF StepSound, Lookup, Write
  <2>3. \A l \in DOMAIN c : l <= i =>
           \/ Settled(j, c[l].object)'
           \/ i + 1 \in DOMAIN c /\ c[i + 1].object = c[l].object
    <3>1. ASSUME NEW l \in DOMAIN c, l <= i
          PROVE  l < i \/ l = i
      BY <1>1, <1>2, <3>1, CallStands, Positions
    <3>2. QED
      BY <1>2, <1>7, <2>2, <3>1
  <2>4. c[i + 1].object \in Looked => made'[Object(c[i + 1].object, j)] = 0 \/ Misread'
    <3>1. CASE s.call = "find"
      <4>1. s.object # "qbo_open_balance"
        BY <1>2, <3>1 DEF StepSound, Lookup
      <4>2. CASE Found = {}
        BY <1>1, <1>2, <2>1, <2>2, <4>1, <4>2, FoundExists
      <4>3. CASE <<j, "misread">> \in slips'
        BY <1>2, <4>3 DEF Misread
      <4>4. QED
        BY <1>10, <3>1, <4>2, <4>3
    <3>2. CASE s.object = "receipt_invoice"
      BY <2>2, <3>2 DEF Looked, Creatable
    <3>3. QED
      BY <1>10, <3>1, <3>2
  <2>5. c[i + 1].call = "post" => c[i + 1].object # "qbo_payment"
    <3>1. StepSound(kind[j], i + 1)
      BY <1>1, <2>2, CallStands, StepsAreSound
    <3>2. ASSUME c[i + 1].call = "post", c[i + 1].object = "qbo_payment"
          PROVE  FALSE
      <4>1. c[(i + 1) - 1] = Need("qbo_open_balance")
        BY <3>1, <3>2 DEF StepSound, Write, Preflighted
      <4>2. c[i] = Need("qbo_open_balance")
        BY <1>2, <4>1
      <4>3. c[i].object = "qbo_open_balance"
        BY <4>2 DEF Need
      <4>4. QED
        BY <1>2, <2>2, <3>2, <4>3
    <3>3. QED
      BY <3>2
  <2>6. QED
    BY <1>1, <1>2, <1>3, <1>4, <1>6, <1>8, <1>late, <1>10, <2>1, <2>3, <2>4, <2>5, GoOnSound
<1>11. CASE /\ hand' = GoOn(j, i, hand.got \cup {s.object}, hand.new \cup {s.object})
            /\ s.call = "post" /\ made'[Target] > 0
  <2> DEFINE got == hand.got \cup {s.object}
  <2>1. s.object # "qbo_open_balance" /\ s.object \in Names(kind[j])
    BY <1>1, <1>11, CallStands
  <2>2. \A n \in got \ {"qbo_open_balance"} : n \in Names(kind[j]) /\ made'[Object(n, j)] > 0
    BY <1>2, <1>6, <1>11, <2>1
  <2>3. Settled(j, s.object)'
    BY <1>2, <1>11 DEF Settled, Object
  <2>4. \A l \in DOMAIN c : l <= i =>
           \/ Settled(j, c[l].object)'
           \/ i + 1 \in DOMAIN c /\ c[i + 1].object = c[l].object
    <3>1. ASSUME NEW l \in DOMAIN c, l <= i
          PROVE  l < i \/ l = i
      BY <1>1, <1>2, <3>1, CallStands, Positions
    <3>2. QED
      BY <1>2, <1>7, <2>3, <3>1
  <2>5. ASSUME i + 1 \in DOMAIN c, c[i + 1].call = "post", c[i + 1].object \notin got
        PROVE  c[i + 1].object \notin Looked /\ c[i + 1].object # "qbo_payment"
    <3>1. StepSound(kind[j], i + 1)
      BY <1>1, <2>5, CallStands, StepsAreSound
    <3>2. (i + 1) - 1 = i
      BY <1>2
    <3>3. c[i + 1].object \in Looked => c[i].call = "find"
      BY <2>5, <3>1, <3>2 DEF StepSound, Write, LookedUp
    <3>4. c[i + 1].object = "qbo_payment" => c[i] = Need("qbo_open_balance")
      BY <2>5, <3>1, <3>2 DEF StepSound, Write, Preflighted
    <3>5. QED
      BY <1>2, <1>11, <3>3, <3>4 DEF Need
  <2>6. CASE s.object = "qbo_payment"
    <3>1. LastStep(c, i)
      BY <1>2, <1>11, <2>6 DEF StepSound, Write
    <3>2. hand'.job = j /\ hand'.outcome = "Delivered" /\ Complete(j)'
      <4>1. \/ /\ hand'.outcome = "Delivered"
            \/ /\ hand'.at \in DOMAIN c /\ hand'.at > i
        BY <1>1, <1>2, <1>11, CallStands, GoOnIs
      <4>2. hand'.job = j /\ hand'.outcome \in {"Delivered", "calling"}
        BY <1>1, <1>2, <1>11, CallStands, GoOnIs
      <4>3. DOMAIN c \subseteq Nat
        BY <1>1, CallStands, Positions
      <4>4. hand'.outcome = "Delivered"
        BY <1>2, <3>1, <4>1, <4>3 DEF LastStep
      <4>5. ASSUME NEW l \in DOMAIN c
            PROVE  Settled(j, c[l].object)'
        <5>1. l <= i
          BY <3>1 DEF LastStep
        <5>2. i + 1 \notin DOMAIN c
          BY <1>2, <3>1 DEF LastStep
        <5>3. QED
          BY <2>4, <5>1, <5>2
      <4>6. Complete(j)'
        BY <1>3, <4>5 DEF Complete, Names
      <4>7. QED
        BY <4>2, <4>4, <4>6
    <3>3. AttemptSound'
      BY <3>2 DEF AttemptSound
    <3>4. QED
      BY <3>2, <3>3
  <2>7. CASE s.object # "qbo_payment"
    <3>1. "qbo_open_balance" \in got =>
             /\ "qbo_payment" \in Names(kind[j])
             /\ made'[Object("qbo_payment", j)] = 0 \/ Object("qbo_payment", j) \in late'
      <4>1. ASSUME "qbo_open_balance" \in got
            PROVE  /\ "qbo_payment" \in Names(kind[j])
                   /\ made'[Object("qbo_payment", j)] = 0 \/ Object("qbo_payment", j) \in late'
        <5>1. /\ made[Object("qbo_payment", j)] = 0 \/ Object("qbo_payment", j) \in late
              /\ "qbo_payment" \in Names(kind[j]) /\ Object("qbo_payment", j) \in Objects
          BY <1>2, <1>8, <2>1, <4>1, NamedIsObject
        <5>2. Object("qbo_payment", j) # Target
          BY <1>2, <2>7, ObjectIs
        <5>3. made'[Object("qbo_payment", j)] = made[Object("qbo_payment", j)]
          BY <5>1, <5>2, UntouchedStays
        <5>4. QED
          BY <1>late, <5>1, <5>3
      <4>2. QED
        BY <4>1
    <3>new. PICK new : new = hand.new \cup {s.object}
      OBVIOUS
    <3>2. hand' = GoOn(j, i, got, new) /\ i \in Nat
      BY <1>2, <1>11, <3>new
    <3> HIDE DEF got
    <3>3. i + 1 \in DOMAIN c /\ c[i + 1].call = "post" /\ c[i + 1].object \notin got =>
             /\ c[i + 1].object \in Looked =>
                   \/ made'[Object(c[i + 1].object, j)] = 0 \/ Misread'
                   \/ Object(c[i + 1].object, j) \in late'
             /\ c[i + 1].object = "qbo_payment" => "qbo_open_balance" \in got
      BY <2>5
    <3>4. QED
      BY <1>1, <1>2, <1>3, <1>4, <2>2, <2>4, <3>1, <3>2, <3>3, GoOnSound
  <2>8. QED
    BY <2>6, <2>7
<1>12. CASE /\ s.call # "post"
            /\ \E f \in Found : hand' = GoOn(j, i, hand.got \cup f, hand.new)
  <2>1. PICK f \in Found : hand' = GoOn(j, i, hand.got \cup f, hand.new)
    BY <1>12
  <2> DEFINE got == hand.got \cup f
  <2>2. made' = made
    BY <1>12, CallEffect
  <2>3. /\ s.object \in f
        /\ \A n \in f \ {"qbo_open_balance"} : n \in Names(kind[j]) /\ made[Object(n, j)] > 0
        /\ "qbo_open_balance" \in f =>
              "qbo_payment" \in Names(kind[j]) /\ made[Object("qbo_payment", j)] = 0
    BY <1>1, FoundExists
  <2>4. \A n \in got \ {"qbo_open_balance"} : n \in Names(kind[j]) /\ made'[Object(n, j)] > 0
    BY <1>6, <2>2, <2>3
  <2>5. Settled(j, s.object)'
    <3>1. CASE s.object = "qbo_open_balance"
      BY <3>1 DEF Settled
    <3>2. CASE s.object # "qbo_open_balance"
      <4>1. made'[Object(s.object, j)] > 0
        BY <2>2, <2>3, <3>2
      <4>2. QED
        BY <4>1 DEF Settled, Object
    <3>3. QED
      BY <3>1, <3>2
  <2>6. \A l \in DOMAIN c : l <= i =>
           \/ Settled(j, c[l].object)'
           \/ i + 1 \in DOMAIN c /\ c[i + 1].object = c[l].object
    <3>1. ASSUME NEW l \in DOMAIN c, l <= i
          PROVE  l < i \/ l = i
      BY <1>1, <1>2, <3>1, CallStands, Positions
    <3>2. QED
      BY <1>2, <1>7, <2>5, <3>1
  <2>7. ASSUME i + 1 \in DOMAIN c, c[i + 1].call = "post", c[i + 1].object \notin got
        PROVE  /\ c[i + 1].object \notin Looked
               /\ c[i + 1].object = "qbo_payment" => "qbo_open_balance" \in got
    <3>1. StepSound(kind[j], i + 1)
      BY <1>1, <2>7, CallStands, StepsAreSound
    <3>2. (i + 1) - 1 = i
      BY <1>2
    <3>3. c[i + 1].object \in Looked => c[i].object = c[i + 1].object
      BY <2>7, <3>1, <3>2 DEF StepSound, Write, LookedUp
    <3>4. c[i + 1].object = "qbo_payment" => c[i] = Need("qbo_open_balance")
      BY <2>7, <3>1, <3>2 DEF StepSound, Write, Preflighted
    <3>5. QED
      BY <1>2, <2>3, <2>7, <3>3, <3>4 DEF Need
  <2>8. "qbo_open_balance" \in got =>
           /\ "qbo_payment" \in Names(kind[j])
           /\ made'[Object("qbo_payment", j)] = 0 \/ Object("qbo_payment", j) \in late'
    BY <1>8, <1>late, <2>2, <2>3
  <2>9. hand' = GoOn(j, i, got, hand.new) /\ i \in Nat
    BY <1>2, <2>1
  <2> HIDE DEF got
  <2>10. QED
    BY <1>1, <1>2, <1>3, <1>4, <2>4, <2>6, <2>7, <2>8, <2>9, GoOnSound
<1>13. QED
  BY <1>9, <1>10, <1>11, <1>12, CallGoesOn


\* An attempt or its outcome is not nobody's.
LEMMA SomebodysHand ==
    /\ \A j, o : End(j, o) # Nobody
    /\ \A j, i, got, new : GoOn(j, i, got, new) # Nobody
<1>1. "outcome" \notin DOMAIN Nobody
  BY DEF Nobody
<1>2. \A j, o : "outcome" \in DOMAIN End(j, o)
  BY DEF End
<1>3. \A j, i, got, new : "outcome" \in DOMAIN GoOn(j, i, got, new)
  BY DEF GoOn
<1>4. QED
  BY <1>1, <1>2, <1>3

\* A call does not drop the attempt.
LEMMA HandStays ==
    ASSUME ProviderInv, NEW a, NEW landed, Answered(a, landed)
    PROVE  hand' # Nobody
  BY CallGoesOn, SomebodysHand

\* A call keeps the types.
LEMMA CallKeepsTypes ==
    ASSUME ProviderInv, NEW a, NEW landed, Answered(a, landed)
    PROVE  TypeOK'
<1>1. TypeOK /\ hand # Nobody /\ hand.outcome = "calling"
  BY DEF ProviderInv, WritesInv, Answered
<1>2. /\ kind' = kind /\ row' = row /\ dry' = dry /\ gate' = gate /\ retries' = retries
      /\ Objects' = Objects
  BY DEF Answered, setup, Objects
<1>3. made' \in [Objects -> 0..2] /\ late' = late
  BY CallEffect
<1>4. hand'.job = hand.job
      /\ (hand'.outcome = "calling" => hand'.at \in DOMAIN Chain(kind[hand.job]))
  BY CallKeepsAttempt
<1>5. faults' \in 0..MaxFaults
  <2>1. faults \in Nat /\ faults' <= MaxFaults /\ (faults' = faults \/ faults' = faults + 1)
    BY <1>1, BoundsAssumption DEF Answered, TypeOK
  <2>2. QED
    BY <2>1, BoundsAssumption
<1>6. QED
  BY <1>1, <1>2, <1>3, <1>4, <1>5 DEF TypeOK

\* A call keeps what lookups prevent.
LEMMA CallKeepsCounts ==
    ASSUME ProviderInv, NEW a, NEW landed, Answered(a, landed)
    PROVE  LookupsPreventDuplicates'
<1>1. /\ TypeOK /\ LookupsPreventDuplicates /\ AttemptSound
      /\ hand # Nobody /\ hand.outcome = "calling" /\ late' = late
  BY CallEffect DEF ProviderInv, WritesInv, Answered
<1>2. Objects' = Objects /\ made \in [Objects -> 0..2]
  BY <1>1 DEF TypeOK, Answered, setup, Objects
<1>3. Misread => Misread'
  BY CallEffect DEF Misread
<1>4. ASSUME NEW o \in Objects, made'[o] > 1, made'[o] # made[o]
      PROVE  o = Target /\ Step.call = "post" /\ made[o] > 0 /\ o[1] = Step.object
  BY <1>1, <1>4, CallEffect, CallStands, ObjectIs
<1>5. ASSUME NEW o \in Objects, made'[o] > 1
      PROVE  /\ o[1] \in Looked => Misread' \/ o \in late'
             /\ o[1] = "qbo_payment" => o \in late'
  <2>1. CASE made'[o] = made[o]
    BY <1>1, <1>3, <1>5, <2>1 DEF LookupsPreventDuplicates
  <2>2. CASE made'[o] # made[o]
    <3>1. o = Target /\ Step.call = "post" /\ made[o] > 0 /\ o[1] = Step.object
      BY <1>4, <1>5, <2>2
    <3>2. made[o] # 0
      BY <1>2, <3>1
    <3>3. /\ o[1] \in Looked => Misread \/ o \in late
          /\ o[1] = "qbo_payment" => o \in late
      BY <1>1, <3>1, <3>2 DEF AttemptSound, Unpaid
    <3>4. QED
      BY <1>1, <1>3, <3>3
  <2>3. QED
    BY <2>1, <2>2
<1>6. QED
  BY <1>2, <1>5 DEF LookupsPreventDuplicates

\* A blind write that lands is seen, or excused.
LEMMA LandedIsSeen ==
    ASSUME ProviderInv, NEW a, NEW landed, Answered(a, landed), landed,
           Step.object \in BlindOnes
    PROVE  \/ a \in Excuses(Step.object) /\ <<hand.job, a>> \in slips'
           \/ hand'.job = hand.job /\ hand'.outcome \in {"Delivered", "OutcomeUnknown"}
<1> DEFINE j == hand.job
           v == dispatch[kind[j]].check[a]
<1>1. /\ TypeOK /\ hand # Nobody /\ hand.outcome = "calling" /\ a \in Answers /\ hand' \in After(a)
      /\ Step.call = "post" /\ a \in {"ok", "garbled", "bare", "lost", "server"}
  BY CallEffect DEF ProviderInv, WritesInv, Answered
<1>2. /\ kind[j] \in Kinds /\ kind[j] # "unsupported" /\ hand.at \in DOMAIN Chain(kind[j])
      /\ StepSound(kind[j], hand.at) /\ Step = Chain(kind[j])[hand.at] /\ hand.at \in Nat
  BY <1>1, CallStands
<1>3. a # "ok" => <<j, a>> \in slips'
  BY <1>1 DEF Answered, Slip
<1>4. CASE a \in Excuses(Step.object)
  <2>1. a # "ok"
    BY <1>1, <1>4 DEF Excuses
  <2>2. QED
    BY <1>3, <1>4, <2>1
<1>5. CASE a \notin Excuses(Step.object)
  <2>1. v = "ok" \/ v = "unknown" \/ (v = "blank" /\ Step.unnamed = "accept")
    <3>1. CASE a = "ok"
      BY <1>1, <1>2, <3>1, ChecksAreSound DEF CheckSound
    <3>2. CASE a # "ok"
      BY <1>1, <1>2, <1>5, <3>2, BlindWritesAreSound DEF BlindSound
    <3>3. QED
      BY <3>1, <3>2
  <2>2. CASE v = "unknown"
    BY <1>1, <2>2 DEF After, End
  <2>3. CASE v # "unknown"
    <3>1. hand' = GoOn(j, hand.at, hand.got \cup {Step.object}, hand.new \cup {Step.object})
      BY <1>1, <2>1, <2>3 DEF After
    <3>2. LastStep(Chain(kind[j]), hand.at)
      BY <1>1, <1>2 DEF StepSound, Write
    <3>3. DOMAIN Chain(kind[j]) \subseteq Nat
      BY <1>2, Positions
    <3>4. /\ hand'.job = j
          /\ hand'.outcome = "Delivered" \/ (hand'.at \in DOMAIN Chain(kind[j]) /\ hand'.at > hand.at)
      BY <1>2, <3>1, GoOnIs
    <3>5. hand'.outcome = "Delivered"
      BY <1>2, <3>2, <3>3, <3>4 DEF LastStep
    <3>6. QED
      BY <3>4, <3>5
  <2>4. QED
    BY <2>2, <2>3
<1>6. QED
  BY <1>4, <1>5

\* A call keeps account of the blind writes.
LEMMA CallKeepsBlind ==
    ASSUME ProviderInv, NEW a, NEW landed, Answered(a, landed)
    PROVE  EffectsSeen' /\ BlindWritesExplained'
<1>1. /\ TypeOK /\ EffectsSeen /\ BlindWritesExplained /\ hand # Nobody /\ hand.outcome = "calling"
      /\ row' = row /\ kind' = kind
  BY DEF ProviderInv, WritesInv, Answered, setup
<1>2. made \in [Objects -> 0..2] /\ made' \in [Objects -> 0..2]
  BY <1>1, CallEffect DEF TypeOK
<1>3. row[hand.job].status = "pending" /\ Target = Object(Step.object, hand.job)
  BY <1>1, CallStands
<1>4. \A j, n : Excused(j, n) => Excused(j, n)'
  BY CallEffect DEF Excused, Object
<1>5. ASSUME NEW j \in Jobs, NEW n \in Names(kind[j]), Excuses(n) # {}, made[Object(n, j)] > 0
      PROVE  Excused(j, n) \/ (row[j].status \in {"delivered", "delivery_outcome_unknown"})
  BY <1>1, <1>5 DEF EffectsSeen
<1>6. ASSUME NEW j \in Jobs, NEW n \in Names(kind[j]), Excuses(n) # {},
             made'[Object(n, j)] # made[Object(n, j)]
      PROVE  j = hand.job /\ n = Step.object /\ n \in BlindOnes /\ landed
  <2>1. Object(n, j) \in Objects /\ n \in BlindOnes
    BY <1>6, NamedIsObject, ExcusesAre
  <2>2. Object(n, j) = Target /\ landed
    BY <1>6, <2>1, CallEffect
  <2>3. n \notin Shared
    BY <2>1 DEF BlindOnes, Shared
  <2>4. QED
    BY <1>3, <2>1, <2>2, <2>3, ObjectIs
<1>7. ASSUME NEW j \in Jobs, NEW n \in Names(kind[j]), Excuses(n) # {}, made'[Object(n, j)] > 0
      PROVE  \/ Excused(j, n)'
             \/ row[j].status \in {"delivered", "delivery_outcome_unknown"}
             \/ hand'.job = j /\ hand'.outcome \in {"Delivered", "OutcomeUnknown"}
  <2>1. CASE made'[Object(n, j)] = made[Object(n, j)]
    BY <1>4, <1>5, <1>7, <2>1
  <2>2. CASE made'[Object(n, j)] # made[Object(n, j)]
    <3>1. j = hand.job /\ n = Step.object /\ n \in BlindOnes /\ landed
      BY <1>6, <1>7, <2>2
    <3>2. \/ a \in Excuses(n) /\ <<j, a>> \in slips'
          \/ hand'.job = j /\ hand'.outcome \in {"Delivered", "OutcomeUnknown"}
      BY <3>1, LandedIsSeen
    <3>3. QED
      BY <3>2 DEF Excused
  <2>3. QED
    BY <2>1, <2>2
<1>8. ASSUME NEW j \in Jobs, NEW n \in Names(kind[j]), Excuses(n) # {}, made'[Object(n, j)] > 1
      PROVE  Excused(j, n)'
  <2>1. Object(n, j) \in Objects
    BY NamedIsObject
  <2>2. CASE made'[Object(n, j)] = made[Object(n, j)]
    BY <1>1, <1>4, <1>8, <2>2 DEF BlindWritesExplained
  <2>3. CASE made'[Object(n, j)] # made[Object(n, j)]
    <3>1. j = hand.job /\ made[Object(n, j)] > 0
      BY <1>6, <1>8, <2>1, <2>3, CallEffect
    <3>2. QED
      BY <1>3, <1>4, <1>5, <1>8, <3>1
  <2>4. QED
    BY <2>2, <2>3
<1>9. hand' # Nobody
  BY HandStays
<1>10. EffectsSeen'
  BY <1>1, <1>7, <1>9 DEF EffectsSeen, Object
<1>11. BlindWritesExplained'
  BY <1>1, <1>8 DEF BlindWritesExplained, Object
<1>12. QED
  BY <1>10, <1>11


\* A call keeps account of the requests given up.
LEMMA CallKeepsAdrift ==
    ASSUME ProviderInv, NEW a, NEW landed, Answered(a, landed)
    PROVE  AdriftSound'
<1> DEFINE b == "buffer_post"
<1>1. /\ TypeOK /\ AdriftSound /\ EffectsSeen /\ hand # Nobody /\ hand.outcome = "calling"
      /\ row' = row /\ kind' = kind
  BY DEF ProviderInv, WritesInv, Answered, setup
<1>2. PICK j : j = hand.job
  OBVIOUS
<1>3. /\ j \in Jobs /\ row[j].status = "pending" /\ hand.at \in DOMAIN Chain(kind[j])
      /\ Step = Chain(kind[j])[hand.at] /\ StepSound(kind[j], hand.at)
      /\ kind[j] \in Kinds /\ kind[j] # "unsupported" /\ Target = Object(Step.object, j)
      /\ (Step.call = "post" => Step.object \in Names(kind[j]) /\ Target \in Objects)
  BY <1>1, <1>2, CallStands
<1>4. \A i, n : Excused(i, n) => Excused(i, n)'
  BY CallEffect DEF Excused, Object
<1>5. ~OutcomeUnknown(j)
  BY <1>1, <1>2, <1>3 DEF OutcomeUnknown
<1>6. hand' # Nobody /\ hand'.job = j
  BY <1>2, HandStays, CallKeepsAttempt
<1>7. \A i \in Jobs : i # j /\ OutcomeUnknown(i) => OutcomeUnknown(i)'
  BY <1>1, <1>2 DEF OutcomeUnknown
<1>8. PICK q : q = Request
  OBVIOUS
<1>9. q.job = j /\ q.at = hand.at
  BY <1>2, <1>8 DEF Request
<1>10. /\ adrift' \subseteq adrift \cup {q}
       /\ q \notin adrift /\ q \in adrift' => Step.call = "post" /\ a \in {"lost", "server"} /\ ~landed
       /\ adrift \subseteq adrift'
  BY <1>8 DEF Answered, MayHaveLanded
<1>11. ASSUME NEW p \in adrift, p # q \/ q \in adrift
       PROVE  /\ p.job \in Jobs /\ p.at \in DOMAIN Chain(kind[p.job])
              /\ Chain(kind[p.job])[p.at].call = "post"
              /\ Chain(kind[p.job])[p.at].object = b =>
                    \/ Excused(p.job, b)'
                    \/ /\ p.job # j /\ OutcomeUnknown(p.job)' /\ made'[Object(b, p.job)] = 0
                       /\ \A r \in adrift' : r.job = p.job => r = p
  <2>1. /\ p.job \in Jobs /\ p.at \in DOMAIN Chain(kind[p.job])
        /\ Chain(kind[p.job])[p.at].call = "post"
        /\ Chain(kind[p.job])[p.at].object = b =>
              \/ Excused(p.job, b)
              \/ /\ OutcomeUnknown(p.job) /\ made[Object(b, p.job)] = 0
                 /\ \A r \in adrift : r.job = p.job => r = p
    BY <1>1 DEF AdriftSound, Sent
  <2>2. ASSUME Chain(kind[p.job])[p.at].object = b, ~Excused(p.job, b)
        PROVE  /\ p.job # j /\ OutcomeUnknown(p.job)' /\ made'[Object(b, p.job)] = 0
               /\ \A r \in adrift' : r.job = p.job => r = p
    <3>1. p.job # j
      BY <1>5, <2>1, <2>2
    <3>2. OutcomeUnknown(p.job)'
      <4>1. PICK i \in Jobs : i = p.job
        BY <2>1
      <4>2. QED
        BY <1>7, <2>1, <2>2, <3>1, <4>1
    <3>3. made'[Object(b, p.job)] = 0
      <4>1. Object(b, p.job) \in Objects
        BY <2>1, <2>2, StepIsNamed, NamedIsObject
      <4>2. Object(b, p.job) # Target
        BY <1>3, <3>1, ObjectIs DEF Shared
      <4>3. QED
        BY <2>1, <2>2, <4>1, <4>2, CallEffect
    <3>4. QED
      BY <1>9, <1>10, <2>1, <2>2, <3>1, <3>2, <3>3
  <2>3. QED
    BY <1>4, <2>1, <2>2
<1>12. ASSUME q \in adrift', q \notin adrift
       PROVE  /\ q.job \in Jobs /\ q.at \in DOMAIN Chain(kind[q.job])
              /\ Chain(kind[q.job])[q.at].call = "post"
              /\ Chain(kind[q.job])[q.at].object = b =>
                    \/ Excused(q.job, b)'
                    \/ /\ OutcomeUnknown(q.job)' /\ made'[Object(b, q.job)] = 0
                       /\ \A r \in adrift' : r.job = q.job => r = q
  <2>1. Step.call = "post" /\ a \in {"lost", "server"} /\ ~landed
    BY <1>10, <1>12
  <2>2. ASSUME Step.object = b, ~Excused(j, b)
        PROVE  /\ OutcomeUnknown(j)' /\ made'[Object(b, j)] = 0
               /\ \A r \in adrift' : r.job = j => r = q
    <3>1. made[Object(b, j)] = 0
      <4>1. Excuses(b) # {}
        BY DEF Excuses
      <4>2. ~(made[Object(b, j)] > 0)
        BY <1>1, <1>2, <1>3, <2>1, <2>2, <4>1 DEF EffectsSeen
      <4>3. made[Object(b, j)] \in 0..2
        BY <1>1, <1>3, <2>1, <2>2 DEF TypeOK
      <4>4. QED
        BY <4>2, <4>3
    <3>2. made' = made
      BY <2>1, CallEffect
    <3>3. kind[j] = "buffer_post"
      BY <1>3, <2>1, <2>2, BufferIsAlone
    <3>4. dispatch[kind[j]].check[a] = "unknown"
      BY <2>1, <3>3 DEF dispatch, buffer_post_job, buffer_post, check, Answers
    <3>5. hand' = End(j, "OutcomeUnknown")
      BY <1>2, <2>1, <3>4 DEF Answered, After
    <3>6. OutcomeUnknown(j)'
      BY <1>6, <3>5 DEF OutcomeUnknown, End
    <3>7. ASSUME NEW r \in adrift, r.job = j PROVE FALSE
      <4>1. /\ r.at \in DOMAIN Chain(kind[j]) /\ Chain(kind[j])[r.at].call = "post"
            /\ Chain(kind[j])[r.at].object = b => Excused(j, b) \/ OutcomeUnknown(j)
        BY <1>1, <3>7 DEF AdriftSound, Sent
      <4>2. Chain(kind[j])[r.at].object = b
        BY <3>3, <4>1, Chain_buffer_post DEF Post
      <4>3. QED
        BY <1>5, <2>2, <4>1, <4>2
    <3>8. QED
      BY <1>10, <3>1, <3>2, <3>6, <3>7
  <2>3. QED
    BY <1>3, <1>4, <1>9, <2>1, <2>2
<1>13. ASSUME NEW p \in adrift'
       PROVE  /\ p.job \in Jobs /\ p.at \in DOMAIN Chain(kind[p.job])
              /\ Chain(kind[p.job])[p.at].call = "post"
              /\ Chain(kind[p.job])[p.at].object = b =>
                    \/ Excused(p.job, b)'
                    \/ /\ OutcomeUnknown(p.job)' /\ made'[Object(b, p.job)] = 0
                       /\ \A r \in adrift' : r.job = p.job => r = p
  BY <1>10, <1>11, <1>12
<1>14. QED
  BY <1>1, <1>13 DEF AdriftSound, Sent, Object

\* A call keeps the invariant.
LEMMA CallKeeps ==
    ASSUME ProviderInv, Call
    PROVE  ProviderInv'
<1>1. PICK a \in Answers, landed \in BOOLEAN : Answered(a, landed)
  BY DEF Call, Answered
<1>2. TypeOK' /\ AttemptSound' /\ KeysRemembered' /\ AdriftSound'
  BY <1>1, CallKeepsTypes, CallKeepsAttempt, CallEffect, CallKeepsAdrift
<1>3. MadeOnceWhatever' /\ LookupsPreventDuplicates' /\ EffectsSeen' /\ BlindWritesExplained'
  BY <1>1, CallEffect, CallKeepsCounts, CallKeepsBlind
<1>4. DeliveredIsComplete'
  <2>1. TypeOK /\ DeliveredIsComplete /\ row' = row /\ dry' = dry /\ kind' = kind /\ withheld' = withheld
    BY <1>1 DEF ProviderInv, WritesInv, Answered, setup
  <2>2. ASSUME NEW j \in Jobs, Complete(j), NEW n \in Names(kind[j])
        PROVE  Settled(j, n)'
    <3>1. Settled(j, n) /\ Object(n, j) \in Objects
      BY <2>2, NamedIsObject DEF Complete
    <3>2. made[Object(n, j)] > 0 => made'[Object(n, j)] > 0
      BY <1>1, <3>1, CallEffect
    <3>3. QED
      BY <2>1, <3>1, <3>2 DEF Settled, Object
  <2>3. ASSUME NEW j \in Jobs, Complete(j)
        PROVE  Complete(j)'
    BY <2>1, <2>2, <2>3 DEF Complete
  <2>4. QED
    BY <2>1, <2>3 DEF DeliveredIsComplete
<1>5. QED
  BY <1>2, <1>3, <1>4 DEF ProviderInv, WritesInv

-----------------------------------------------------------------------------
(* The other steps leave the provider alone.                               *)

\* What is promised about objects and keys holds as long as they do not change,
\* and slips are not forgotten.
LEMMA ProviderUntouched ==
    ASSUME ProviderInv, UNCHANGED <<setup, made, keys, late>>, slips \subseteq slips'
    PROVE  /\ MadeOnceWhatever' /\ LookupsPreventDuplicates' /\ KeysRemembered'
           /\ BlindWritesExplained' /\ Objects' = Objects
           /\ \A j \in Jobs : Complete(j) => Complete(j)'
           /\ \A j, n : Excused(j, n) => Excused(j, n)'
<1>1. kind' = kind /\ withheld' = withheld /\ made' = made /\ keys' = keys /\ late' = late
  BY DEF setup
<1>2. Objects' = Objects
  BY <1>1 DEF Objects
<1>3. MadeOnceWhatever' /\ KeysRemembered'
  BY <1>1, <1>2 DEF ProviderInv, WritesInv, MadeOnceWhatever, KeysRemembered, Object
<1>4. LookupsPreventDuplicates'
  BY <1>1, <1>2 DEF ProviderInv, WritesInv, LookupsPreventDuplicates, Misread
<1>5. \A j, n : Excused(j, n) => Excused(j, n)'
  BY <1>1 DEF Excused, Object
<1>6. BlindWritesExplained'
  BY <1>1, <1>5 DEF ProviderInv, BlindWritesExplained, Object
<1>7. \A j \in Jobs : Complete(j) => Complete(j)'
  BY <1>1 DEF Complete, Settled, Object
<1>8. QED
  BY <1>2, <1>3, <1>4, <1>5, <1>6, <1>7

\* The requests adrift stay sound while what they rest on stays, or the job is
\* excused.
LEMMA AdriftStays ==
    ASSUME ProviderInv, kind' = kind, made' = made,
           \A i, n : Excused(i, n) => Excused(i, n)',
           \A i \in Jobs : OutcomeUnknown(i) => OutcomeUnknown(i)' \/ Excused(i, "buffer_post")',
           \A q \in adrift' :
              \/ q \in adrift
              \/ /\ q.job \in Jobs /\ q.at \in DOMAIN Chain(kind[q.job]) /\ Sent(q).call = "post"
                 /\ Excused(q.job, "buffer_post")'
    PROVE  AdriftSound'
<1>1. AdriftSound
  BY DEF ProviderInv, WritesInv
<1>2. ASSUME NEW p \in adrift'
      PROVE  /\ p.job \in Jobs /\ p.at \in DOMAIN Chain(kind[p.job])
             /\ Chain(kind[p.job])[p.at].call = "post"
             /\ Chain(kind[p.job])[p.at].object = "buffer_post" =>
                   \/ Excused(p.job, "buffer_post")'
                   \/ /\ OutcomeUnknown(p.job)' /\ made'[Object("buffer_post", p.job)] = 0
                      /\ \A r \in adrift' : r.job = p.job => r = p
  <2>1. CASE p \notin adrift
    BY <2>1 DEF Sent
  <2>2. CASE p \in adrift
    <3>1. /\ p.job \in Jobs /\ p.at \in DOMAIN Chain(kind[p.job])
          /\ Chain(kind[p.job])[p.at].call = "post"
          /\ Chain(kind[p.job])[p.at].object = "buffer_post" =>
                \/ Excused(p.job, "buffer_post")
                \/ /\ OutcomeUnknown(p.job) /\ made[Object("buffer_post", p.job)] = 0
                   /\ \A r \in adrift : r.job = p.job => r = p
      BY <1>1, <2>2 DEF AdriftSound, Sent
    <3>2. PICK i \in Jobs : i = p.job
      BY <3>1
    <3>3. \A r \in adrift' : r.job = i /\ r \notin adrift => Excused(i, "buffer_post")'
      OBVIOUS
    <3>4. QED
      BY <3>1, <3>2, <3>3
  <2>3. QED
    BY <2>1, <2>2
<1>3. QED
  BY <1>2 DEF AdriftSound, Sent, Object

\* An attempt begins.
LEMMA BeginKeeps ==
    ASSUME ProviderInv, NEW j \in Jobs, Begin(j)
    PROVE  ProviderInv'
<1>1. /\ TypeOK /\ EffectsSeen /\ DeliveredIsComplete /\ hand = Nobody /\ row[j].status = "pending"
      /\ UNCHANGED <<setup, row, dry, gate, made, keys, adrift, late, slips, retries>>
  BY DEF ProviderInv, WritesInv, Begin
<1>2. /\ MadeOnceWhatever' /\ LookupsPreventDuplicates' /\ KeysRemembered'
      /\ BlindWritesExplained' /\ Objects' = Objects
      /\ \A i \in Jobs : Complete(i) => Complete(i)'
      /\ \A i, n : Excused(i, n) => Excused(i, n)'
  BY <1>1, ProviderUntouched
<1>3. kind[j] \in Kinds /\ kind' = kind /\ withheld' = withheld /\ made' = made
  BY <1>1, KindOf DEF setup
<1>4. faults' \in 0..MaxFaults
  BY <1>1, BoundsAssumption DEF Begin, TypeOK
<1>5. /\ AttemptSound' /\ hand'.job = j
      /\ hand'.outcome = "calling" => hand'.at \in DOMAIN Chain(kind[j])
  <2>1. CASE \E o \in {"Terminal", "Retry", "Dry"} : hand' = End(j, o)
    BY <2>1 DEF End, AttemptSound
  <2>2. CASE hand' = GoOn(j, 0, {}, {})
    <3> DEFINE c == Chain(kind[j])
    <3>1. DOMAIN c \subseteq Nat \ {0}
      BY <1>3, Positions
    <3>2. ASSUME 1 \in DOMAIN c, c[1].call = "post"
          PROVE  c[1].object \notin Looked /\ c[1].object # "qbo_payment"
      <4>1. StepSound(kind[j], 1)
        BY <1>3, <3>2, StepsAreSound
      <4>2. 1 - 1 \notin DOMAIN c
        BY <3>1
      <4>3. QED
        BY <3>2, <4>1, <4>2 DEF StepSound, Write, LookedUp, Preflighted
    <3>3. \A l \in DOMAIN c : ~(l <= 0)
      BY <3>1
    <3>4. \A o \in Objects : made[o] > 0 => made'[o] > 0
      BY <1>3
    <3>5. 0 \in Nat /\ 0 + 1 = 1
      OBVIOUS
    <3>6. QED
      BY <1>1, <1>3, <2>2, <3>2, <3>3, <3>4, <3>5, GoOnSound
  <2>3. QED
    BY <1>3, <2>1, <2>2, AmissIs DEF Begin, Straight
<1>6. TypeOK'
  BY <1>1, <1>2, <1>3, <1>4, <1>5 DEF TypeOK
<1>7. EffectsSeen'
  BY <1>1, <1>2, <1>3 DEF EffectsSeen, Object
<1>8. DeliveredIsComplete'
  BY <1>1, <1>2 DEF DeliveredIsComplete
<1>9. AdriftSound'
  <2>1. \A i \in Jobs : OutcomeUnknown(i) => OutcomeUnknown(i)'
    BY <1>1 DEF OutcomeUnknown
  <2>2. QED
    BY <1>1, <1>2, <1>3, <2>1, AdriftStays
<1>10. QED
  BY <1>2, <1>5, <1>6, <1>7, <1>8, <1>9 DEF ProviderInv, WritesInv

\* An outcome is recorded.
LEMMA RecordKeeps ==
    ASSUME ProviderInv, Record
    PROVE  ProviderInv'
<1> DEFINE o == hand.outcome
           status == IF o \in {"Delivered", "Dry"} THEN "delivered"
                     ELSE IF o = "OutcomeUnknown" THEN "delivery_outcome_unknown"
                     ELSE IF o = "Terminal" \/ Spent(hand.job) THEN "failed_terminal"
                     ELSE "pending"
<1>1. /\ TypeOK /\ EffectsSeen /\ DeliveredIsComplete /\ AttemptSound
      /\ hand # Nobody /\ hand.outcome # "calling" /\ hand' = Nobody
      /\ row' = [row EXCEPT ![hand.job] = [status |-> status, attempts |-> row[hand.job].attempts + 1]]
      /\ dry' = IF o = "Dry" THEN dry \cup {hand.job} ELSE dry
      /\ UNCHANGED <<setup, gate, made, keys, adrift, late, slips, faults, retries>>
  BY DEF ProviderInv, WritesInv, Record
<1>2. /\ MadeOnceWhatever' /\ LookupsPreventDuplicates' /\ KeysRemembered'
      /\ BlindWritesExplained' /\ Objects' = Objects
      /\ \A i \in Jobs : Complete(i) => Complete(i)'
      /\ \A i, n : Excused(i, n) => Excused(i, n)'
  BY <1>1, ProviderUntouched
<1>3. hand.job \in Jobs /\ row[hand.job].status = "pending"
  BY <1>1 DEF TypeOK
<1>4. kind' = kind /\ withheld' = withheld /\ made' = made
  BY <1>1 DEF setup
<1>5. /\ row \in [Jobs -> [status : {"pending", "delivered", "failed_terminal",
                                     "delivery_outcome_unknown"}, attempts : 0..MaxAttempts]]
      /\ row[hand.job].attempts \in Nat /\ row[hand.job].attempts < MaxAttempts /\ MaxAttempts \in Nat
  BY <1>1, <1>3, BoundsAssumption DEF TypeOK
<1>6. /\ status \in {"pending", "delivered", "failed_terminal", "delivery_outcome_unknown"}
      /\ status = "pending" => row[hand.job].attempts + 1 < MaxAttempts
      /\ o = "Dry" => status = "delivered"
      /\ o = "Delivered" => status = "delivered"
      /\ o = "OutcomeUnknown" => status = "delivery_outcome_unknown"
      /\ status = "delivered" => o \in {"Delivered", "Dry"}
  BY <1>5 DEF Spent
<1> HIDE DEF status
<1>7. /\ row'[hand.job].status = status
      /\ row'[hand.job].attempts = row[hand.job].attempts + 1
      /\ \A i \in Jobs : i # hand.job => row'[i] = row[i]
      /\ row' \in [Jobs -> [status : {"pending", "delivered", "failed_terminal",
                                      "delivery_outcome_unknown"}, attempts : 0..MaxAttempts]]
  <2>1. row[hand.job].attempts + 1 \in 0..MaxAttempts
    BY <1>5
  <2>2. QED
    BY <1>1, <1>3, <1>5, <1>6, <2>1
<1>8. TypeOK'
  <2>1. \A i \in Jobs : row'[i].status = "pending" => row'[i].attempts < MaxAttempts
    BY <1>1, <1>6, <1>7 DEF TypeOK
  <2>2. dry' \subseteq {i \in Jobs : row'[i].status = "delivered"}
    BY <1>1, <1>3, <1>6, <1>7 DEF TypeOK
  <2>3. /\ kind' \in Workloads /\ gate' \in BOOLEAN /\ made' \in [Objects' -> 0..2]
        /\ late' \subseteq Objects' /\ faults' \in 0..MaxFaults /\ retries' \in 0..MaxRetries
    BY <1>1, <1>2, <1>4 DEF TypeOK
  <2>4. QED
    BY <1>1, <1>7, <2>1, <2>2, <2>3 DEF TypeOK
<1>9. AttemptSound'
  BY <1>1 DEF AttemptSound
<1>10. EffectsSeen'
  <2>1. ASSUME NEW j \in Jobs, NEW n \in Names(kind[j]), Excuses(n) # {}, made[Object(n, j)] > 0
        PROVE  Excused(j, n)' \/ row'[j].status \in {"delivered", "delivery_outcome_unknown"}
    <3>1. \/ Excused(j, n)
          \/ row[j].status \in {"delivered", "delivery_outcome_unknown"}
          \/ hand.job = j /\ o \in {"Delivered", "OutcomeUnknown"}
      BY <1>1, <2>1 DEF EffectsSeen
    <3>2. QED
      BY <1>2, <1>3, <1>6, <1>7, <3>1
  <2>2. QED
    BY <1>4, <2>1 DEF EffectsSeen, Object
<1>11. DeliveredIsComplete'
  <2>1. ASSUME NEW j \in Jobs, row'[j].status = "delivered", j \notin dry'
        PROVE  Complete(j)
    <3>1. CASE j = hand.job
      <4>1. o = "Delivered"
        BY <1>1, <1>6, <1>7, <2>1, <3>1
      <4>2. QED
        BY <1>1, <3>1, <4>1 DEF AttemptSound
    <3>2. CASE j # hand.job
      BY <1>1, <1>7, <2>1, <3>2 DEF DeliveredIsComplete
    <3>3. QED
      BY <3>1, <3>2
  <2>2. QED
    BY <1>2, <2>1 DEF DeliveredIsComplete
<1>12. AdriftSound'
  <2>1. \A i \in Jobs : OutcomeUnknown(i) => OutcomeUnknown(i)'
    BY <1>1, <1>3, <1>6, <1>7 DEF OutcomeUnknown
  <2>2. QED
    BY <1>1, <1>2, <1>4, <2>1, AdriftStays
<1>13. QED
  BY <1>2, <1>8, <1>9, <1>10, <1>11, <1>12 DEF ProviderInv, WritesInv

\* An attempt is lost.
LEMMA LossKeeps ==
    ASSUME ProviderInv, AttemptLost
    PROVE  ProviderInv'
<1>1. /\ TypeOK /\ EffectsSeen /\ DeliveredIsComplete
      /\ hand # Nobody /\ hand' = Nobody /\ slips' = slips \cup {<<hand.job, "cut">>}
      /\ UNCHANGED <<setup, row, dry, gate, made, keys, late, retries>>
      /\ faults < MaxFaults /\ faults' = faults + 1
  BY DEF ProviderInv, WritesInv, AttemptLost
<1>2. /\ MadeOnceWhatever' /\ LookupsPreventDuplicates' /\ KeysRemembered'
      /\ BlindWritesExplained' /\ Objects' = Objects
      /\ \A i \in Jobs : Complete(i) => Complete(i)'
      /\ \A i, n : Excused(i, n) => Excused(i, n)'
  BY <1>1, ProviderUntouched
<1>3. kind' = kind /\ made' = made
  BY <1>1 DEF setup
<1>4. TypeOK'
  <2>1. faults' \in 0..MaxFaults
    BY <1>1, BoundsAssumption DEF TypeOK
  <2>2. QED
    BY <1>1, <1>2, <1>3, <2>1 DEF TypeOK
<1>5. AttemptSound'
  BY <1>1 DEF AttemptSound
<1>6. EffectsSeen'
  <2>1. ASSUME NEW j \in Jobs, NEW n \in Names(kind[j]), Excuses(n) # {}, made[Object(n, j)] > 0
        PROVE  Excused(j, n)' \/ row'[j].status \in {"delivered", "delivery_outcome_unknown"}
    <3>1. CASE hand.job = j
      BY <1>1, <2>1, <3>1, ExcusesAre DEF Excused
    <3>2. CASE hand.job # j
      BY <1>1, <1>2, <2>1, <3>2 DEF EffectsSeen
    <3>3. QED
      BY <3>1, <3>2
  <2>2. QED
    BY <1>3, <2>1 DEF EffectsSeen, Object
<1>7. DeliveredIsComplete'
  BY <1>1, <1>2 DEF DeliveredIsComplete
<1>8. AdriftSound'
  <2>0. PICK j : j = hand.job
    OBVIOUS
  <2>1. Excused(j, "buffer_post")'
    BY <1>1, <2>0, ExcusesAre DEF Excused, BlindOnes
  <2>2. \A i \in Jobs : OutcomeUnknown(i) => OutcomeUnknown(i)' \/ Excused(i, "buffer_post")'
    BY <1>1, <2>0, <2>1 DEF OutcomeUnknown
  <2>3. ASSUME NEW q \in adrift', q \notin adrift
        PROVE  /\ q.job \in Jobs /\ q.at \in DOMAIN Chain(kind[q.job]) /\ Sent(q).call = "post"
               /\ Excused(q.job, "buffer_post")'
    <3>1. hand.outcome = "calling" /\ Step.call = "post" /\ q = Request
      BY <2>3 DEF AttemptLost
    <3>2. q.job = j /\ q.job = hand.job /\ q.at = hand.at
      BY <2>0, <3>1 DEF Request
    <3>3. QED
      BY <1>1, <2>1, <3>1, <3>2, CallStands DEF Sent
  <2>4. QED
    BY <1>2, <1>3, <2>2, <2>3, AdriftStays
<1>9. QED
  BY <1>2, <1>4, <1>5, <1>6, <1>7, <1>8 DEF ProviderInv, WritesInv

\* An operator retries a failed job, an admin turns the gates, or nothing happens.
LEMMA OperatorKeeps ==
    ASSUME ProviderInv, (\E j \in Jobs : RetryTerminal(j)) \/ SetGate \/ UNCHANGED vars
    PROVE  ProviderInv'
<1> DEFINE Retry == /\ retries < MaxRetries /\ retries' = retries + 1 /\ gate' = gate
                    /\ \E j \in Jobs :
                          /\ row[j].status = "failed_terminal"
                          /\ row' = [row EXCEPT ![j] = [status |-> "pending", attempts |-> 0]]
           Leave == retries' = retries /\ row' = row /\ gate' \in BOOLEAN
<1>0. /\ TypeOK /\ EffectsSeen /\ DeliveredIsComplete /\ AttemptSound
      /\ gate \in BOOLEAN /\ retries \in 0..MaxRetries
  BY DEF ProviderInv, WritesInv, TypeOK
<1>effect. UNCHANGED <<setup, dry, hand, made, keys, adrift, late, slips, faults>> /\ (Retry \/ Leave)
  <2>1. CASE \E j \in Jobs : RetryTerminal(j)
    BY <2>1 DEF RetryTerminal
  <2>2. CASE SetGate
    <3>1. gate' \in BOOLEAN
      BY <2>2, Zenon DEF SetGate
    <3>2. UNCHANGED <<setup, row, dry, hand, made, keys, adrift, late, slips, faults, retries>>
      BY <2>2, Zenon DEF SetGate
    <3>3. QED
      BY <3>1, <3>2
  <2>3. CASE UNCHANGED vars
    <3>1. gate' \in BOOLEAN
      BY <1>0, <2>3, Zenon DEF vars
    <3>2. UNCHANGED <<setup, row, dry, hand, made, keys, adrift, late, slips, faults, retries>>
      BY <2>3 DEF vars, setup
    <3>3. QED
      BY <3>1, <3>2
  <2>4. QED
    BY <2>1, <2>2, <2>3
<1>1. /\ TypeOK /\ EffectsSeen /\ DeliveredIsComplete /\ AttemptSound
      /\ UNCHANGED <<setup, dry, hand, made, keys, adrift, late, slips, faults>>
  BY <1>0, <1>effect
<1>2. /\ MadeOnceWhatever' /\ LookupsPreventDuplicates' /\ KeysRemembered'
      /\ BlindWritesExplained' /\ Objects' = Objects
      /\ \A i \in Jobs : Complete(i) => Complete(i)'
      /\ \A i, n : Excused(i, n) => Excused(i, n)'
  BY <1>1, ProviderUntouched
<1>3. /\ kind' = kind /\ withheld' = withheld /\ made' = made /\ hand' = hand
      /\ slips' = slips /\ late' = late
  BY <1>1 DEF setup
<1>4. \A i \in Jobs : row'[i] = row[i] \/ (/\ row[i].status = "failed_terminal"
                                          /\ row'[i] = [status |-> "pending", attempts |-> 0])
  BY <1>0, <1>effect DEF TypeOK
<1>5. row' \in [Jobs -> [status : {"pending", "delivered", "failed_terminal",
                                   "delivery_outcome_unknown"}, attempts : 0..MaxAttempts]]
  BY <1>0, <1>effect, BoundsAssumption DEF TypeOK
<1>6. gate' \in BOOLEAN /\ retries' \in 0..MaxRetries
  <2>1. gate' \in BOOLEAN
    BY <1>0, <1>effect, Zenon
  <2>2. retries' \in 0..MaxRetries
    BY <1>0, <1>effect, BoundsAssumption
  <2>3. QED
    BY <2>1, <2>2
<1>7. TypeOK'
  <2>1. \A i \in Jobs : row'[i].status = "pending" => row'[i].attempts < MaxAttempts
    BY <1>1, <1>4, BoundsAssumption DEF TypeOK
  <2>2. dry' \subseteq {i \in Jobs : row'[i].status = "delivered"}
    BY <1>1, <1>4 DEF TypeOK
  <2>3. hand' # Nobody => /\ hand'.job \in Jobs /\ row'[hand'.job].status = "pending"
                          /\ hand'.outcome = "calling" => hand'.at \in DOMAIN Chain(kind'[hand'.job])
    BY <1>1, <1>3, <1>4 DEF TypeOK
  <2>4. QED
    BY <1>1, <1>2, <1>3, <1>5, <1>6, <2>1, <2>2, <2>3 DEF TypeOK
<1>8. AttemptSound'
  BY <1>1, <1>3 DEF AttemptSound, Settled, Complete, Misread, Step, Target, Object, Unpaid
<1>9. EffectsSeen'
  BY <1>1, <1>2, <1>3, <1>4 DEF EffectsSeen, Object
<1>10. DeliveredIsComplete'
  BY <1>1, <1>2, <1>4 DEF DeliveredIsComplete
<1>11. AdriftSound'
  <2>1. \A i \in Jobs : OutcomeUnknown(i) => OutcomeUnknown(i)'
    BY <1>3, <1>4 DEF OutcomeUnknown
  <2>2. QED
    BY <1>1, <1>2, <1>3, <2>1, AdriftStays
<1>12. QED
  BY <1>2, <1>7, <1>8, <1>9, <1>10, <1>11 DEF ProviderInv, WritesInv

\* A request that was given up arrives late.
LEMMA LateKeeps ==
    ASSUME ProviderInv, LandsLate
    PROVE  ProviderInv'
<1> DEFINE b == "buffer_post"
<1>1. /\ TypeOK /\ EffectsSeen /\ DeliveredIsComplete /\ AttemptSound /\ AdriftSound
      /\ MadeOnceWhatever /\ KeysRemembered /\ LookupsPreventDuplicates /\ BlindWritesExplained
  BY DEF ProviderInv, WritesInv
<1>2. PICK q \in adrift :
         /\ adrift' = adrift \ {q} /\ made' = MadeBy(Sent(q), q.job)
         /\ keys' = KeysBy(Sent(q), q.job)
         /\ late' = late \cup {Object(Sent(q).object, q.job)}
         /\ UNCHANGED <<setup, row, dry, gate, hand, slips, faults, retries>>
  BY DEF LandsLate
<1>3. PICK j : j = q.job
  OBVIOUS
<1>4. PICK s : s = Sent(q)
  OBVIOUS
<1>5. PICK o : o = Object(s.object, j)
  OBVIOUS
<1>6. j \in Jobs /\ q.at \in DOMAIN Chain(kind[j]) /\ s = Chain(kind[j])[q.at] /\ s.call = "post"
  BY <1>1, <1>3, <1>4 DEF AdriftSound, Sent
<1>7. /\ kind' = kind /\ withheld' = withheld /\ hand' = hand /\ row' = row /\ dry' = dry
      /\ slips' = slips /\ late' = late \cup {o} /\ Objects' = Objects
  BY <1>2, <1>3, <1>4, <1>5 DEF setup, Objects
<1>8. /\ s.object \in Names(kind[j]) /\ o \in Objects /\ o[1] = s.object
      /\ made' \in [Objects -> 0..2]
      /\ \A p \in Objects : p # o => made'[p] = made[p]
      /\ \A p \in Objects : made[p] > 0 => made'[p] > 0
      /\ made'[o] > 1 /\ made'[o] # made[o] => made[o] > 0
      /\ MadeOnceWhatever' /\ KeysRemembered'
  BY <1>1, <1>2, <1>3, <1>4, <1>5, <1>6, <1>7, LandingIs
<1>9. TypeOK'
  BY <1>1, <1>2, <1>7, <1>8 DEF TypeOK
<1>10. LookupsPreventDuplicates'
  BY <1>1, <1>7, <1>8 DEF LookupsPreventDuplicates, Misread
<1>11. \A i, n : Excused(i, n) => Excused(i, n)'
  BY <1>7 DEF Excused, Object
<1>12. ASSUME NEW i \in Jobs, NEW n, n \in Names(kind[i]) \/ n = "qbo_open_balance", Settled(i, n)
       PROVE  Settled(i, n)'
  <2>1. n \in Names(kind[i]) => Object(n, i) \in Objects
    BY NamedIsObject
  <2>2. QED
    BY <1>7, <1>8, <1>12, <2>1 DEF Settled, Object
<1>13. ASSUME NEW i \in Jobs, Complete(i)
       PROVE  Complete(i)'
  BY <1>7, <1>12, <1>13 DEF Complete
<1>14. DeliveredIsComplete'
  BY <1>1, <1>7, <1>13 DEF DeliveredIsComplete
<1>15. AttemptSound'
  <2>1. CASE hand = Nobody \/ hand.outcome # "calling"
    BY <1>1, <1>7, <1>13, <2>1 DEF AttemptSound, TypeOK
  <2>2. CASE hand # Nobody /\ hand.outcome = "calling"
    <3>1. /\ hand.job \in Jobs /\ hand.at \in DOMAIN Chain(kind[hand.job]) /\ hand.at \in Nat \ {0}
          /\ kind[hand.job] \in Kinds
          /\ Step.object # "qbo_open_balance" => Target \in Objects
          /\ Step.call = "post" => Step.object # "qbo_open_balance"
          /\ Target = Object(Step.object, hand.job)
      BY <1>1, <2>2, CallStands
    <3>2. Step' = Step /\ Target' = Target
      BY <1>7 DEF Step, Target, Object
    <3>3. \A p \in Objects : made[p] = 0 \/ p \in late => made'[p] = 0 \/ p \in late'
      BY <1>7, <1>8
    <3>4. ASSUME NEW n \in hand.got \ {"qbo_open_balance"}
          PROVE  n \in Names(kind[hand.job]) /\ made'[Object(n, hand.job)] > 0
      <4>1. n \in Names(kind[hand.job]) /\ made[Object(n, hand.job)] > 0
        BY <1>1, <2>2 DEF AttemptSound
      <4>2. QED
        BY <1>8, <3>1, <4>1, NamedIsObject
    <3>5. ASSUME NEW i \in 1..(hand.at - 1)
          PROVE  \/ Settled(hand.job, Chain(kind[hand.job])[i].object)'
                 \/ Chain(kind[hand.job])[i].object = Step.object
      <4>1. i \in DOMAIN Chain(kind[hand.job])
        <5>1. i \in 1..hand.at
          BY <3>1
        <5>2. QED
          BY <3>1, <5>1, Positions
      <4>2. PICK n : n = Chain(kind[hand.job])[i].object
        OBVIOUS
      <4>3. n \in Names(kind[hand.job]) \/ n = "qbo_open_balance"
        BY <4>1, <4>2, StepIsNamed
      <4>4. Settled(hand.job, n) \/ n = Step.object
        BY <1>1, <2>2, <4>2 DEF AttemptSound
      <4>5. QED
        BY <1>7, <1>12, <3>1, <4>2, <4>3, <4>4
    <3>6. Step.call = "post" /\ Step.object \in Looked =>
             made'[Target] = 0 \/ Misread' \/ Target \in late'
      <4>1. Step.call = "post" /\ Step.object \in Looked =>
               made[Target] = 0 \/ Misread \/ Target \in late
        BY <1>1, <2>2 DEF AttemptSound
      <4>2. Misread' <=> Misread
        BY <1>7 DEF Misread
      <4>3. QED
        BY <3>1, <3>3, <4>1, <4>2
    <3>7. Step.call = "post" /\ Step.object = "qbo_payment" => made'[Target] = 0 \/ Target \in late'
      <4>1. Step.call = "post" /\ Step.object = "qbo_payment" => made[Target] = 0 \/ Target \in late
        BY <1>1, <2>2 DEF AttemptSound, Unpaid
      <4>2. QED
        BY <3>1, <3>3, <4>1
    <3>8. ASSUME "qbo_open_balance" \in hand.got
          PROVE  /\ "qbo_payment" \in Names(kind[hand.job])
                 /\ \/ made'[Object("qbo_payment", hand.job)] = 0
                    \/ Object("qbo_payment", hand.job) \in late'
      <4>1. /\ "qbo_payment" \in Names(kind[hand.job])
            /\ \/ made[Object("qbo_payment", hand.job)] = 0
               \/ Object("qbo_payment", hand.job) \in late
        BY <1>1, <2>2, <3>8 DEF AttemptSound, Unpaid
      <4>2. Object("qbo_payment", hand.job) \in Objects
        BY <3>1, <4>1, NamedIsObject
      <4>3. QED
        BY <3>3, <4>1, <4>2
    <3>9. QED
      BY <1>7, <2>2, <3>2, <3>4, <3>5, <3>6, <3>7, <3>8 DEF AttemptSound, Unpaid, Object
  <2>3. QED
    BY <2>1, <2>2
<1>16. s.object = b =>
          \/ Excused(j, b)
          \/ /\ OutcomeUnknown(j) /\ made[o] = 0
             /\ \A p \in adrift : p.job = j => p = q
  BY <1>1, <1>3, <1>4, <1>5 DEF AdriftSound
<1>17. ASSUME NEW i \in Jobs, NEW n \in Names(kind[i]), Excuses(n) # {}, Object(n, i) = o
       PROVE  Excused(i, n)' \/ (OutcomeUnknown(i) /\ made[o] = 0)
  <2>1. n \in BlindOnes /\ n \notin Shared
    BY <1>17, ExcusesAre DEF BlindOnes, Shared
  <2>2. n = s.object /\ i = j
    BY <1>5, <1>17, <2>1, ObjectIs
  <2>3. CASE n = b
    BY <1>11, <1>16, <2>2, <2>3
  <2>4. CASE n # b
    <3>1. "late" \in Excuses(n)
      BY <2>1, <2>4, ExcusesAre
    <3>2. QED
      BY <1>7, <1>17, <3>1 DEF Excused, Object
  <2>5. QED
    BY <2>3, <2>4
<1>18. BlindWritesExplained'
  <2>1. ASSUME NEW i \in Jobs, NEW n \in Names(kind[i]), Excuses(n) # {}, made'[Object(n, i)] > 1
        PROVE  Excused(i, n)'
    <3>1. Object(n, i) \in Objects
      BY NamedIsObject
    <3>2. CASE Object(n, i) # o
      BY <1>1, <1>8, <1>11, <2>1, <3>1, <3>2 DEF BlindWritesExplained
    <3>3. CASE Object(n, i) = o
      <4>1. made[o] = 0 => ~(made'[o] > 1)
        BY <1>8
      <4>2. QED
        BY <1>17, <2>1, <3>3, <4>1
    <3>4. QED
      BY <3>2, <3>3
  <2>2. QED
    BY <1>7, <2>1 DEF BlindWritesExplained, Object
<1>19. EffectsSeen'
  <2>1. ASSUME NEW i \in Jobs, NEW n \in Names(kind[i]), Excuses(n) # {}, made'[Object(n, i)] > 0
        PROVE  \/ Excused(i, n)'
               \/ row[i].status \in {"delivered", "delivery_outcome_unknown"}
               \/ /\ hand # Nobody /\ hand.job = i
                  /\ hand.outcome \in {"Delivered", "OutcomeUnknown"}
    <3>1. Object(n, i) \in Objects
      BY NamedIsObject
    <3>2. CASE Object(n, i) # o
      BY <1>1, <1>8, <1>11, <2>1, <3>1, <3>2 DEF EffectsSeen
    <3>3. CASE Object(n, i) = o
      BY <1>17, <2>1, <3>3 DEF OutcomeUnknown
    <3>4. QED
      BY <3>2, <3>3
  <2>2. QED
    BY <1>7, <2>1 DEF EffectsSeen, Object
<1>20. AdriftSound'
  <2>1. ASSUME NEW p \in adrift'
        PROVE  /\ p.job \in Jobs /\ p.at \in DOMAIN Chain(kind[p.job])
               /\ Chain(kind[p.job])[p.at].call = "post"
               /\ Chain(kind[p.job])[p.at].object = b =>
                     \/ Excused(p.job, b)'
                     \/ /\ OutcomeUnknown(p.job) /\ made'[Object(b, p.job)] = 0
                        /\ \A r \in adrift' : r.job = p.job => r = p
    <3>1. p \in adrift /\ p # q /\ adrift' \subseteq adrift
      BY <1>2, <2>1
    <3>2. /\ p.job \in Jobs /\ p.at \in DOMAIN Chain(kind[p.job])
          /\ Chain(kind[p.job])[p.at].call = "post"
          /\ Chain(kind[p.job])[p.at].object = b =>
                \/ Excused(p.job, b)
                \/ /\ OutcomeUnknown(p.job) /\ made[Object(b, p.job)] = 0
                   /\ \A r \in adrift : r.job = p.job => r = p
      BY <1>1, <3>1 DEF AdriftSound, Sent
    <3>3. ASSUME Chain(kind[p.job])[p.at].object = b, \A r \in adrift : r.job = p.job => r = p,
                 made[Object(b, p.job)] = 0
          PROVE  made'[Object(b, p.job)] = 0
      <4>1. p.job # j
        BY <1>3, <3>1, <3>3
      <4>2. Object(b, p.job) # o
        BY <1>5, <4>1, ObjectIs DEF Shared
      <4>3. Object(b, p.job) \in Objects
        BY <3>2, <3>3, StepIsNamed, NamedIsObject
      <4>4. QED
        BY <1>8, <3>3, <4>2, <4>3
    <3>4. QED
      BY <1>11, <3>1, <3>2, <3>3
  <2>2. \A i : OutcomeUnknown(i) => OutcomeUnknown(i)'
    BY <1>7 DEF OutcomeUnknown
  <2>3. QED
    BY <1>7, <2>1, <2>2 DEF AdriftSound, Sent, Object
<1>21. QED
  BY <1>8, <1>9, <1>10, <1>14, <1>15, <1>18, <1>19, <1>20 DEF ProviderInv, WritesInv

\* Nothing is made, in hand or delivered at the start, but what is shared.
LEMMA InitSound ==
    ASSUME Init
    PROVE  ProviderInv
<1>1. /\ kind \in Workloads /\ hand = Nobody /\ keys = {} /\ dry = {} /\ slips = {}
      /\ row = [j \in Jobs |-> [status |-> "pending", attempts |-> 0]]
      /\ made \in [Objects -> {0, 1}]
      /\ \A o \in Objects : made[o] = 1 => o[1] \in Shared \cup {"stale_tags_gone"}
      /\ adrift = {} /\ late = {}
  BY DEF Init
<1>2. TypeOK
  BY <1>1, BoundsAssumption DEF Init, TypeOK
<1>3. \A o \in Objects : made[o] <= 1
  BY <1>1
<1>4. ASSUME NEW j \in Jobs, NEW n \in Names(kind[j])
      PROVE  /\ ~(made[Object(n, j)] > 1)
             /\ n \in Keyed \cup BlindOnes => ~(made[Object(n, j)] > 0)
  <2>1. Object(n, j) \in Objects /\ Object(n, j)[1] = n
    BY NamedIsObject, ObjectIs
  <2>2. made[Object(n, j)] \in {0, 1}
    BY <1>1, <2>1
  <2>3. n \in Keyed \cup BlindOnes => made[Object(n, j)] # 1
    BY <1>1, <2>1 DEF Keyed, BlindOnes, Shared
  <2>4. QED
    BY <2>2, <2>3
<1>5. MadeOnceWhatever /\ LookupsPreventDuplicates
  BY <1>1, <1>3 DEF MadeOnceWhatever, LookupsPreventDuplicates
<1>6. AttemptSound
  BY <1>1 DEF AttemptSound
<1>7. KeysRemembered
  BY <1>1, <1>4 DEF KeysRemembered
<1>8. EffectsSeen /\ BlindWritesExplained
  BY <1>4, ExcusesAre DEF EffectsSeen, BlindWritesExplained
<1>9. DeliveredIsComplete
  BY <1>1 DEF DeliveredIsComplete
<1>10. QED
  BY <1>1, <1>2, <1>5, <1>6, <1>7, <1>8, <1>9 DEF ProviderInv, WritesInv, AdriftSound

\* Every step keeps the invariant.
LEMMA NextKeeps ==
    ASSUME ProviderInv, [Next]_vars
    PROVE  ProviderInv'
<1>1. CASE \E j \in Jobs : Begin(j)
  BY <1>1, BeginKeeps
<1>2. CASE \E j \in Jobs : RetryTerminal(j)
  BY <1>2, OperatorKeeps
<1>3. CASE Call
  BY <1>3, CallKeeps
<1>4. CASE Record
  BY <1>4, RecordKeeps
<1>5. CASE AttemptLost
  BY <1>5, LossKeeps
<1>6. CASE SetGate
  BY <1>6, OperatorKeeps
<1>7. CASE UNCHANGED vars
  BY <1>7, OperatorKeeps
<1>8. CASE LandsLate
  BY <1>8, LateKeeps
<1>9. QED
  BY <1>1, <1>2, <1>3, <1>4, <1>5, <1>6, <1>7, <1>8 DEF Next

-----------------------------------------------------------------------------
(* Whatever is lost, delayed, crashes or is retried: calendar events,      *)
(* receipt invoices, Stripe invoices with their lines and published posts  *)
(* are made once; find-or-create chains make a second object only after a  *)
(* lookup whose answer could not be read, or by a request for it that was  *)
(* given up and arrived late; a QuickBooks payment is made twice only by   *)
(* such a request; and no attempt relies on something that is not at the   *)
(* provider.                                                               *)
THEOREM WritesAreSafe == Spec => []WritesInv
<1>1. ProviderInv => WritesInv
  BY DEF ProviderInv
<1>2. QED
  BY <1>1, InitSound, NextKeeps, PTL DEF Spec

(* Notes, leads, Gmail drafts, agent sessions and Buffer posts are         *)
(* repeated only where their effect went unseen in one of the ways the     *)
(* executor cannot tell from a failure.                                    *)
THEOREM BlindWritesAreExplained == Spec => []BlindWritesExplained
<1>1. ProviderInv => BlindWritesExplained
  BY DEF ProviderInv
<1>2. QED
  BY <1>1, InitSound, NextKeeps, PTL DEF Spec

(* A job recorded as delivered, and not by a dry run, has every object of  *)
(* its chain at the provider, but those it may do without.                 *)
THEOREM DeliveredJobsAreComplete == Spec => []DeliveredIsComplete
<1>1. ProviderInv => DeliveredIsComplete
  BY DEF ProviderInv
<1>2. QED
  BY <1>1, InitSound, NextKeeps, PTL DEF Spec

-----------------------------------------------------------------------------
(***************************************************************************)
(* The second part is about DraftEnrichment, whose runs fill the drafts    *)
(* that approval turns into such writes: its invariant and its two action  *)
(* properties hold for any drafts, requests, threads, budget, capacity, *)
(* and any number of edits, sendings, epochs and faults.                   *)
(***************************************************************************)

\* What DraftEnrichment assumes of its constants.
EnrichConstants ==
    /\ MaxConcurrent \in Nat /\ Budget \in Nat \ {0} /\ Lookahead \in Nat \ {0} /\ Scopes \subseteq Scope
    /\ Drafts \subseteq Nat /\ Requests \subseteq Nat /\ Actors \subseteq Nat
    /\ Pump \notin Threads /\ IsFiniteSet(Threads) /\ NoRun \notin RunIds

\* It does.
LEMMA EnrichAssumed == EnrichConstants
<1>1. Keys \subseteq Nat /\ Requests \subseteq Nat /\ Actors \subseteq Nat /\ Drafts = Keys
  BY NamesAssumption DEF Drafts
<1>2. QED
  BY <1>1, EnrichAssumption, CapacityAssumption, NamesAssumption DEF EnrichConstants

\* The same questions asked of a call.
Held(c) == c.pc \notin {"idle", "staged", "loaded"} /\ c.guard # "none"
Due(c) == c.pc \in {"staged", "planned", "looking", "graft"}
GraftOf(c) == IF c.pc = "staged" THEN <<c.draft, {"plan"}, 0>> ELSE Origin(c.run)

\* A call has the fields of its place.
LEMMA CallShape ==
    ASSUME NEW c \in EnrichCall
    PROVE  /\ c = Idle <=> c.pc = "idle"
           /\ c # Idle => c.draft \in Drafts
           /\ c.pc \notin {"idle", "staged"} => c.run \in RunIds /\ c.guard \in Guards
           /\ c.pc = "staged" => c = [pc |-> "staged", draft |-> c.draft]
           /\ c.pc \in {"loaded", "guarded"} =>
                 c \in [pc : {"loaded", "guarded"}, draft : Drafts, run : RunIds, seen : Filled,
                        guard : Guards \ {"none"}, req : Requests]
           /\ c.pc \in {"planned", "looking"} =>
                 c \in [pc : {"planned", "looking"}, draft : Drafts, run : RunIds, seen : Filled,
                        guard : Guards]
           /\ c.pc = "graft" =>
                 c \in [pc : {"graft"}, draft : Drafts, run : RunIds, guard : Guards,
                        found : SUBSET Fields, fields : {NoRow} \cup Filled]
           /\ c.pc = "finish" =>
                 c \in [pc : {"finish"}, draft : Drafts, run : RunIds, guard : Guards,
                        outcome : Outcomes]
           /\ c.pc \in {"idle", "staged", "loaded", "guarded", "planned", "looking", "graft", "finish"}
BY DEF EnrichCall, Idle

\* The run ids tell what they are ids of.
LEMMA RunNames ==
    ASSUME NEW d, NEW n, NEW missing \in SUBSET Fields, NEW p
    PROVE  /\ PlanRun(d, p)[1] = d /\ ManualRun(d, n, p)[1] = d /\ BucketRun(d, n, p)[1] = d
           /\ ResearchRun(d, missing, p)[1] = d
           /\ ManualRun(d, n, p)[3] = n /\ BucketRun(d, n, p)[3] = n
           /\ PlanRun(d, p)[4] = p /\ ManualRun(d, n, p)[4] = p /\ BucketRun(d, n, p)[4] = p
           /\ ResearchRun(d, missing, p)[4] = p
           /\ "bucket" \notin PlanRun(d, p)[2] /\ "bucket" \notin ManualRun(d, n, p)[2]
           /\ "bucket" \notin ResearchRun(d, missing, p)[2] /\ "bucket" \in BucketRun(d, n, p)[2]
           /\ "manual" \notin PlanRun(d, p)[2] /\ "manual" \in ManualRun(d, n, p)[2]
           /\ "manual" \notin ResearchRun(d, missing, p)[2] /\ "manual" \notin BucketRun(d, n, p)[2]
           /\ "research" \in ResearchRun(d, missing, p)[2]
           /\ "plan" \in PlanRun(d, p)[2] /\ "plan" \notin ManualRun(d, n, p)[2]
           /\ "plan" \notin BucketRun(d, n, p)[2] /\ "plan" \notin ResearchRun(d, missing, p)[2]
           /\ (d \in Drafts /\ n \in Nat /\ p \in Plans =>
                 /\ PlanRun(d, p) \in RunIds /\ ManualRun(d, n, p) \in RunIds
                 /\ BucketRun(d, n, p) \in RunIds /\ ResearchRun(d, missing, p) \in RunIds)
BY DEF PlanRun, ManualRun, BucketRun, ResearchRun, Fields, RunIds, Marks

\* A run id has four parts.
LEMMA RunParts ==
    ASSUME NEW r \in RunIds
    PROVE  /\ r[1] \in Drafts /\ r[2] \subseteq Marks /\ r[3] \in Nat /\ r[4] \in Plans
           /\ r = <<r[1], r[2], r[3], r[4]>>
           /\ Origin(r)[1] = r[1] /\ Origin(r)[2] = r[2] /\ Origin(r)[3] = r[3]
BY DEF RunIds, Origin

\* A row has a plan.
LEMMA PlanIn ==
    ASSUME NEW x \in Row
    PROVE  Plan(x) \in Plans
<1>1. Subject(x) \in Subjects
  BY DEF Subject, Subjects
<1>2. x.fields.detail \in Values
  BY DEF Row, Filled, Fields
<1>3. Seed(x) \in Values \cup {"source"}
  BY <1>2 DEF Seed
<1>4. QED
  BY <1>1, <1>3 DEF Plan, Plans

\* A row has its columns.
LEMMA RowShape ==
    ASSUME EnrichTypeOK, NEW d \in Drafts, drafts[d] # NoDraft
    PROVE  /\ drafts[d] \in Row /\ drafts[d].kind \in DraftKinds /\ drafts[d].status \in Statuses
           /\ drafts[d].fields \in Filled
BY DEF EnrichTypeOK, Row

\* A row that is there is never NoDraft.
LEMMA RowIsThere ==
    ASSUME NEW rec \in Row
    PROVE  rec # NoDraft
BY DEF Row, NoDraft, Statuses

\* What is filled in is no missing job and no missing row.
LEMMA FilledIsThere ==
    ASSUME NEW fields \in Filled
    PROVE  fields # NoJob /\ fields # NoRow
<1>1. DOMAIN fields = Fields /\ "name" \in DOMAIN fields
  BY DEF Filled, Fields
<1>2. DOMAIN NoJob = {"job"} /\ DOMAIN NoRow = {"row"}
  BY DEF NoJob, NoRow
<1>3. QED
  BY <1>1, <1>2

\* The threads.
LEMMA ThreadNames ==
    ASSUME EnrichConstants
    PROVE  /\ Pump \in Actors /\ IsFiniteSet(Actors) /\ Capacity \in Nat \ {0}
           /\ \A t \in Threads : t \in Actors /\ t # Pump
<1>1. IsFiniteSet(Threads \cup {Pump})
  BY FS_AddElement DEF EnrichConstants
<1>2. QED
  BY <1>1 DEF Actors, EnrichConstants, Capacity

-----------------------------------------------------------------------------
(* The registry.                                                            *)

\* One thread goes to another place.
LEMMA OneMoves ==
    ASSUME EnrichTypeOK, NEW t \in Actors, NEW c, calls' = [calls EXCEPT ![t] = c]
    PROVE  calls'[t] = c /\ \A u \in Actors : u # t => calls'[u] = calls[u]
BY DEF EnrichTypeOK

\* The threads that hold a place of the research group.
LEMMA LimitedFacts ==
    ASSUME EnrichConstants
    PROVE  /\ \A t \in Actors : Holding(t) <=> Held(calls[t])
           /\ \A t \in Actors : Holding(t)' <=> Held(calls'[t])
           /\ Limited = {t \in Actors : Held(calls[t]) /\ calls[t].guard = "limited"}
           /\ Limited' = {t \in Actors : Held(calls'[t]) /\ calls'[t].guard = "limited"}
           /\ IsFiniteSet(Limited) /\ Cardinality(Limited) \in Nat
<1>1. Limited \subseteq Actors
  BY DEF Limited
<1>2. IsFiniteSet(Limited) /\ Cardinality(Limited) \in Nat
  BY <1>1, ThreadNames, FS_Subset, FS_CardinalityType
<1>3. QED
  BY <1>2 DEF Holding, Held, Limited

\* A registration lasts as long as the cycle.
LEMMA RegistersStays ==
    ASSUME NEW t, NEW c, NEW r, Registers(t, c, r), amiss \subseteq amiss',
           t = Pump => pump'.epoch = pump.epoch
    PROVE  (Registers(t, c, r))'
BY DEF Registers

\* What is registered is a run id.
LEMMA RegisteredIsRun ==
    ASSUME EnrichConstants, EnrichTypeOK, NEW t, NEW c \in EnrichCall, Held(c), NEW r,
           Registers(t, c, r)
    PROVE  r \in RunIds /\ r # NoRun
<1>1. c.draft \in Drafts /\ c.run \in RunIds
  BY CallShape DEF Held
<1>2. pump.epoch \in Nat
  BY DEF EnrichTypeOK
<1>3. \A plan \in Plans : BucketRun(c.draft, pump.epoch, plan) \in RunIds
  BY <1>1, <1>2 DEF BucketRun, RunIds, Marks
<1>4. QED
  BY <1>1, <1>3 DEF Registers, EnrichConstants

\* The pump's epoch stays while its run is registered, and what is amiss stays known.
EpochHolds == amiss \subseteq amiss' /\ (Held(calls[Pump]) => pump'.epoch = pump.epoch)

\* So the registrations of those who hold a guard before and after last.
LEMMA RegistrationLasts ==
    ASSUME EnrichConstants, EnrichTypeOK, RegistryExact, EpochHolds, NEW u \in Actors,
           Held(calls[u]), NEW c, c.draft = calls[u].draft, c.run = calls[u].run,
           NEW r, r = byKey[calls[u].draft]
    PROVE  (Registers(u, c, r))' /\ r \in RunIds /\ r # NoRun
<1>1. PICK b : b = calls[u]
  OBVIOUS
<1>2. b \in EnrichCall
  BY <1>1 DEF EnrichTypeOK
<1>3. Registers(u, b, r)
  BY <1>1, LimitedFacts DEF RegistryExact
<1>4. (Registers(u, b, r))'
  <2>1. u = Pump => pump'.epoch = pump.epoch
    BY DEF EpochHolds
  <2>2. QED
    BY <1>3, <2>1, RegistersStays DEF EpochHolds
<1>5. (Registers(u, c, r))'
  BY <1>1, <1>4 DEF Registers
<1>6. QED
  BY <1>1, <1>2, <1>3, <1>5, RegisteredIsRun

\* What a thread holds, it keeps.
LEMMA RegistryStays ==
    ASSUME EnrichConstants, EnrichTypeOK, RegistryExact, UNCHANGED registry, EpochHolds,
           NEW t \in Actors, NEW c, calls' = [calls EXCEPT ![t] = c],
           Held(c) <=> Held(calls[t]),
           Held(c) => c.draft = calls[t].draft /\ c.run = calls[t].run /\ c.guard = calls[t].guard
    PROVE  RegistryExact'
<1>1. calls'[t] = c /\ \A u \in Actors : u # t => calls'[u] = calls[u]
  BY OneMoves
<1>2. /\ \A u \in Actors : Held(calls'[u]) <=> Held(calls[u])
      /\ \A u \in Actors : Held(calls[u]) =>
            /\ calls'[u].draft = calls[u].draft /\ calls'[u].run = calls[u].run
            /\ calls'[u].guard = calls[u].guard
  BY <1>1
<1>3. Limited' = Limited /\ byKey' = byKey /\ byGroup' = byGroup
  BY <1>2, LimitedFacts DEF registry
<1>4. ASSUME NEW u \in Actors, Held(calls'[u])
      PROVE  Registers(u, calls[u], byKey[calls[u].draft])'
  <2>1. PICK b : b = calls'[u]
    OBVIOUS
  <2>2. PICK r : r = byKey[calls[u].draft]
    OBVIOUS
  <2>3. (Registers(u, b, r))'
    BY <1>2, <1>4, <2>1, <2>2, RegistrationLasts
  <2>4. byKey'[calls'[u].draft] = r
    BY <1>2, <1>3, <1>4, <2>2
  <2>5. QED
    BY <2>1, <2>3, <2>4 DEF Registers
<1>5. QED
  BY <1>2, <1>3, <1>4, LimitedFacts DEF RegistryExact, AlreadyRunning, Capacity

\* A guard is dropped.
LEMMA RegistryReleases ==
    ASSUME EnrichConstants, EnrichTypeOK, RegistryExact, EpochHolds, NEW t \in Actors,
           calls' = [calls EXCEPT ![t] = Idle],
           IF Held(calls[t]) THEN ReleaseGuard(t) ELSE UNCHANGED registry
    PROVE  RegistryExact'
<1>1. calls'[t] = Idle /\ (\A u \in Actors : u # t => calls'[u] = calls[u]) /\ ~Held(Idle)
  BY OneMoves DEF Held, Idle
<1>2. CASE ~Held(calls[t])
  BY <1>1, <1>2, RegistryStays
<1>3. CASE Held(calls[t])
  <2>1. calls[t] \in EnrichCall /\ calls[t].draft \in Drafts /\ calls[t].guard \in {"open", "limited"}
    <3>1. calls[t] \in EnrichCall
      BY DEF EnrichTypeOK
    <3>2. QED
      BY <1>3, <3>1, CallShape, LimitedFacts DEF Held, Guards, RegistryExact
  <2>2. PICK d \in Drafts : d = calls[t].draft
    BY <2>1
  <2>3. byKey' = [byKey EXCEPT ![d] = NoRun]
    BY <1>3, <2>1, <2>2 DEF ReleaseGuard, DropGuard, DropGuardUnbounded
  <2>4. \A u \in Actors : Held(calls'[u]) <=> u # t /\ Held(calls[u])
    BY <1>1
  <2>5. Limited' = Limited \ {t}
    BY <1>1, <2>4, LimitedFacts
  <2>6. byGroup' = Cardinality(Limited') /\ byGroup' <= Capacity
    <3>1. CASE calls[t].guard = "limited"
      <4>1. t \in Limited
        BY <1>3, <3>1, LimitedFacts
      <4>2. Cardinality(Limited') = Cardinality(Limited) - 1 /\ Cardinality(Limited) # 0
        BY <2>5, <4>1, LimitedFacts, FS_RemoveElement, FS_EmptySet
      <4>3. byGroup' = IF byGroup > 0 THEN byGroup - 1 ELSE 0
        BY <1>3, <3>1 DEF ReleaseGuard, DropGuard
      <4>4. QED
        BY <4>2, <4>3, LimitedFacts, ThreadNames DEF RegistryExact
    <3>2. CASE calls[t].guard = "open"
      <4>1. t \notin Limited /\ byGroup' = byGroup
        BY <1>3, <3>2, LimitedFacts DEF ReleaseGuard, DropGuardUnbounded
      <4>2. Limited' = Limited
        BY <2>5, <4>1
      <4>3. QED
        BY <4>1, <4>2 DEF RegistryExact
    <3>3. QED
      BY <2>1, <3>1, <3>2
  <2>7. \A u \in Actors : Held(calls'[u]) => calls'[u].draft # d /\ calls'[u] = calls[u]
    BY <1>1, <1>3, <2>2, <2>4, LimitedFacts DEF RegistryExact
  <2>8. byKey' \in [Drafts -> RunIds \cup {NoRun}]
    BY <2>3 DEF RegistryExact
  <2>9. ASSUME NEW u \in Actors, Held(calls'[u])
        PROVE  Registers(u, calls[u], byKey[calls[u].draft])'
    <3>1. calls'[u] = calls[u] /\ calls[u].draft # d /\ Held(calls[u])
      BY <2>7, <2>9
    <3>2. calls[u].draft \in Drafts
      <4>1. calls[u] \in EnrichCall
        BY DEF EnrichTypeOK
      <4>2. QED
        BY <3>1, <4>1, CallShape DEF Held
    <3>3. PICK b : b = calls[u]
      OBVIOUS
    <3>4. PICK r : r = byKey[calls[u].draft]
      OBVIOUS
    <3>5. (Registers(u, b, r))'
      BY <3>1, <3>3, <3>4, RegistrationLasts
    <3>6. byKey'[calls'[u].draft] = r
      BY <2>3, <3>1, <3>2, <3>4 DEF RegistryExact
    <3>7. QED
      BY <3>1, <3>3, <3>5, <3>6 DEF Registers
  <2>10. \A b \in Drafts : byKey'[b] # NoRun => \E u \in Actors : Held(calls'[u]) /\ calls'[u].draft = b
    <3>1. SUFFICES ASSUME NEW b \in Drafts, byKey'[b] # NoRun
                   PROVE  \E u \in Actors : Held(calls'[u]) /\ calls'[u].draft = b
      OBVIOUS
    <3>2. b # d /\ byKey[b] # NoRun
      BY <2>3, <3>1 DEF RegistryExact
    <3>3. PICK u \in Actors : Held(calls[u]) /\ calls[u].draft = b
      BY <3>2, LimitedFacts DEF RegistryExact, AlreadyRunning
    <3>4. QED
      BY <1>1, <2>2, <3>2, <3>3
  <2>11. \A u, v \in Actors : Held(calls'[u]) /\ Held(calls'[v]) /\ calls'[u].draft = calls'[v].draft => u = v
    BY <2>4, <2>7, LimitedFacts DEF RegistryExact
  <2>12. QED
    BY <2>6, <2>8, <2>9, <2>10, <2>11, LimitedFacts DEF RegistryExact, AlreadyRunning, Capacity
<1>4. QED
  BY <1>2, <1>3

\* A guard is taken.
LEMMA RegistryTakes ==
    ASSUME EnrichConstants, EnrichTypeOK, RegistryExact, EpochHolds, NEW t \in Actors,
           NEW c \in EnrichCall, NEW r \in RunIds, (Registers(t, c, r))',
           calls' = [calls EXCEPT ![t] = c], ~Held(calls[t]), Held(c),
           \/ c.guard = "limited" /\ GuardStarted(c.draft, r)
           \/ c.guard = "open" /\ GuardStartedUnbounded(c.draft, r)
    PROVE  RegistryExact'
<1>1. calls'[t] = c /\ \A u \in Actors : u # t => calls'[u] = calls[u]
  BY OneMoves
<1>2. c.draft \in Drafts /\ c.run \in RunIds
  BY CallShape DEF Held
<1>3. PICK d \in Drafts : d = c.draft
  BY <1>2
<1>4. /\ byKey[d] = NoRun /\ byKey' = [byKey EXCEPT ![d] = r] /\ ~AlreadyRunning(d)
  BY <1>3 DEF GuardStarted, GuardStartedUnbounded, AlreadyRunning
<1>5. \A u \in Actors : Held(calls'[u]) <=> u = t \/ Held(calls[u])
  BY <1>1
<1>6. byGroup' = Cardinality(Limited') /\ byGroup' <= Capacity
  <2>1. CASE c.guard = "limited"
    <3>1. Limited' = Limited \cup {t} /\ t \notin Limited
      BY <1>1, <1>5, <2>1, LimitedFacts
    <3>2. Cardinality(Limited') = Cardinality(Limited) + 1
      BY <3>1, LimitedFacts, FS_AddElement
    <3>3. byGroup' = byGroup + 1 /\ ~(byGroup >= Capacity)
      BY <2>1 DEF GuardStarted, Full
    <3>4. QED
      BY <3>2, <3>3, LimitedFacts, ThreadNames DEF RegistryExact
  <2>2. CASE c.guard = "open"
    <3>1. Limited' = Limited /\ byGroup' = byGroup
      BY <1>1, <1>5, <2>2, LimitedFacts DEF GuardStartedUnbounded
    <3>2. QED
      BY <3>1 DEF RegistryExact
  <2>3. QED
    BY <2>1, <2>2
<1>7. \A u \in Actors : Held(calls[u]) => calls[u].draft # d /\ calls[u].draft \in Drafts /\ u # t
  <2>1. SUFFICES ASSUME NEW u \in Actors, Held(calls[u])
                 PROVE  calls[u].draft # d /\ calls[u].draft \in Drafts /\ u # t
    OBVIOUS
  <2>2. calls[u] \in EnrichCall /\ calls[u].draft \in Drafts /\ calls[u].run \in RunIds
    <3>1. calls[u] \in EnrichCall
      BY DEF EnrichTypeOK
    <3>2. QED
      BY <2>1, <3>1, CallShape DEF Held
  <2>3. PICK e : e = calls[u]
    OBVIOUS
  <2>4. PICK x : x = byKey[calls[u].draft]
    OBVIOUS
  <2>5. x # NoRun
    BY <2>1, <2>3, <2>4, RegistrationLasts
  <2>6. QED
    BY <1>4, <2>1, <2>2, <2>4, <2>5
<1>8. byKey' \in [Drafts -> RunIds \cup {NoRun}]
  BY <1>2, <1>4 DEF RegistryExact
<1>9. ASSUME NEW u \in Actors, Held(calls'[u])
      PROVE  Registers(u, calls[u], byKey[calls[u].draft])'
  <2>1. PICK e : e = calls'[u]
    OBVIOUS
  <2>2. PICK x : x = byKey'[calls'[u].draft]
    OBVIOUS
  <2>3. CASE u = t
    <3>1. e = c /\ x = r
      BY <1>1, <1>3, <1>4, <2>1, <2>2, <2>3 DEF RegistryExact
    <3>2. QED
      BY <2>1, <2>2, <2>3, <3>1 DEF Registers
  <2>4. CASE u # t
    <3>1. Held(calls[u]) /\ e = calls[u]
      BY <1>1, <1>9, <2>1, <2>4
    <3>2. calls[u].draft # d /\ calls[u].draft \in Drafts
      BY <1>7, <3>1
    <3>3. x = byKey[calls[u].draft]
      BY <1>4, <2>1, <2>2, <3>1, <3>2 DEF RegistryExact
    <3>4. (Registers(u, e, x))'
      BY <3>1, <3>3, RegistrationLasts
    <3>5. QED
      BY <2>1, <2>2, <3>4 DEF Registers
  <2>5. QED
    BY <2>3, <2>4
<1>10. \A b \in Drafts : byKey'[b] # NoRun => \E u \in Actors : Held(calls'[u]) /\ calls'[u].draft = b
  <2>1. SUFFICES ASSUME NEW b \in Drafts, byKey'[b] # NoRun
                 PROVE  \E u \in Actors : Held(calls'[u]) /\ calls'[u].draft = b
    OBVIOUS
  <2>2. CASE b = d
    BY <1>1, <1>3, <2>2
  <2>3. CASE b # d
    <3>1. byKey[b] # NoRun
      BY <1>4, <2>1, <2>3 DEF RegistryExact
    <3>2. PICK u \in Actors : Held(calls[u]) /\ calls[u].draft = b
      BY <3>1, LimitedFacts DEF RegistryExact, AlreadyRunning
    <3>3. QED
      BY <1>1, <1>7, <3>2
  <2>4. QED
    BY <2>2, <2>3
<1>11. \A u, v \in Actors : Held(calls'[u]) /\ Held(calls'[v]) /\ calls'[u].draft = calls'[v].draft => u = v
  <2>1. SUFFICES ASSUME NEW u \in Actors, NEW v \in Actors, Held(calls'[u]), Held(calls'[v]),
                        calls'[u].draft = calls'[v].draft
                 PROVE  u = v
    OBVIOUS
  <2>2. CASE u = t \/ v = t
    BY <1>1, <1>3, <1>5, <1>7, <2>1, <2>2
  <2>3. CASE u # t /\ v # t
    BY <1>1, <2>1, <2>3, LimitedFacts DEF RegistryExact
  <2>4. QED
    BY <2>2, <2>3
<1>12. QED
  BY <1>6, <1>8, <1>9, <1>10, <1>11, LimitedFacts DEF RegistryExact, AlreadyRunning, Capacity
-----------------------------------------------------------------------------
(* Tables only grow, and calls stay sound.                                  *)

\* No receipt, run or draft is taken back, and a draft keeps its kind; a new plan is
\* known, and so is the collected id that it overtakes.
Later ==
    /\ applied \subseteq applied' /\ amiss \subseteq amiss' /\ DOMAIN runs \subseteq DOMAIN runs'
    /\ \A d \in Drafts : drafts[d] # NoDraft =>
          /\ drafts'[d] # NoDraft /\ drafts'[d].kind = drafts[d].kind
          /\ \/ Plan(drafts'[d]) = Plan(drafts[d])
             \/ /\ <<"replanned", d>> \in amiss'
                /\ pump.todo[d] # NoRun => <<"overtaken", d>> \in amiss'

\* A staged draft that is decided leaves the grafts it overtakes known.
LatesKnown ==
    \A u \in Actors : calls[u].pc = "graft" /\ drafts[calls[u].draft].status = "staged" =>
        \/ drafts'[calls[u].draft].status = "staged"
        \/ <<"late", calls[u].draft>> \in amiss'

\* A draft that is there has its kind for good.
LEMMA SharedStays ==
    ASSUME Later, NEW o, o[1] \in Drafts, drafts[o[1]] # NoDraft
    PROVE  (SharedOrigin(o))' <=> SharedOrigin(o)
BY DEF Later, SharedOrigin

\* What may repeat may always repeat.
LEMMA RepeatStays ==
    ASSUME Later, NEW r, MayRepeat(r)
    PROVE  (MayRepeat(r))'
BY DEF Later, MayRepeat

\* A run has the plan of its draft until the draft is replanned.
LEMMA PlannedStays ==
    ASSUME Later, NEW r, r[1] \in Drafts, drafts[r[1]] # NoDraft, PlannedNow(r)
    PROVE  (PlannedNow(r))'
<1>1. PICK d \in Drafts : d = r[1]
  OBVIOUS
<1>2. \/ Plan(drafts'[d]) = Plan(drafts[d])
      \/ <<"replanned", d>> \in amiss'
  BY <1>1 DEF Later
<1>3. r[4] = Plan(drafts[d]) \/ <<"replanned", d>> \in amiss
  BY <1>1 DEF PlannedNow
<1>4. r[4] = Plan(drafts'[d]) \/ <<"replanned", d>> \in amiss'
  BY <1>2, <1>3 DEF Later
<1>5. QED
  BY <1>1, <1>4 DEF PlannedNow

\* What is collected stays sound while nobody else runs it.
LEMMA TodoStays ==
    ASSUME TodoSound, Later,
           \A d \in Drafts : pump'.todo[d] = NoRun
               \/ /\ pump'.todo[d] = pump.todo[d] /\ pump'.epoch = pump.epoch
                  /\ pump.todo[d] \notin DOMAIN runs'
    PROVE  TodoSound'
<1>1. ASSUME NEW d \in Drafts, pump'.todo[d] # NoRun
      PROVE  /\ drafts'[d] # NoDraft /\ pump'.todo[d] \notin DOMAIN runs'
             /\ pump'.todo[d] = BucketRun(d, pump'.epoch, pump'.todo[d][4])
             /\ pump'.todo[d][4] = Plan(drafts'[d]) \/ <<"overtaken", d>> \in amiss'
  <2>1. /\ pump'.todo[d] = pump.todo[d] /\ pump'.epoch = pump.epoch
        /\ pump.todo[d] \notin DOMAIN runs'
    BY <1>1
  <2>2. /\ drafts[d] # NoDraft /\ pump.todo[d] = BucketRun(d, pump.epoch, pump.todo[d][4])
        /\ pump.todo[d][4] = Plan(drafts[d]) \/ <<"overtaken", d>> \in amiss
    BY <1>1, <2>1 DEF TodoSound
  <2>3. /\ drafts'[d] # NoDraft /\ amiss \subseteq amiss'
        /\ Plan(drafts'[d]) = Plan(drafts[d]) \/ <<"overtaken", d>> \in amiss'
    BY <1>1, <2>1, <2>2 DEF Later
  <2>4. QED
    BY <2>1, <2>2, <2>3
<1>2. QED
  BY <1>1 DEF TodoSound, RunExists

\* A call that its thread leaves alone stays sound.
LEMMA CallStays ==
    ASSUME Later, EnrichTypeOK, NEW t \in Actors, NEW c \in EnrichCall, CallSound(t, c),
           t = Pump /\ c # Idle => pump' = pump,
           t = Pump /\ c.pc = "planned" =>
              c.run \notin DOMAIN runs' \/ <<"overtaken", c.draft>> \in amiss',
           c.pc = "graft" /\ drafts[c.draft].status = "staged" =>
              drafts'[c.draft].status = "staged" \/ <<"late", c.draft>> \in amiss'
    PROVE  (CallSound(t, c))'
<1>1. SUFFICES ASSUME c # Idle PROVE (CallSound(t, c))'
  BY DEF CallSound
<1>2. c.draft \in Drafts
  BY <1>1, CallShape
<1>3. drafts'[c.draft] # NoDraft /\ drafts'[c.draft].kind = drafts[c.draft].kind
  BY <1>1, <1>2 DEF CallSound, Later
<1>4. \A key : Replayed(key) => Replayed(key)'
  BY DEF Replayed, Later
<1>5. c.pc # "staged" => (OwnRun(t, c))'
  <2>1. SUFFICES ASSUME c.pc # "staged" PROVE (OwnRun(t, c))'
    OBVIOUS
  <2>2. OwnRun(t, c)
    BY <1>1, <2>1 DEF CallSound
  <2>3. t = Pump => /\ c.run = BucketRun(c.draft, pump'.epoch, c.run[4]) /\ c.guard = "open"
                    /\ pump'.todo[c.draft] = NoRun /\ pump' # AtRest
                    /\ c.pc \in {"planned", "looking", "graft", "finish"}
                    /\ IF c.pc = "planned"
                       THEN ~RunExists(c.run)' \/ <<"overtaken", c.draft>> \in amiss'
                       ELSE RunExists(c.run)' \/ <<"unrecorded", c.run>> \in amiss'
    BY <1>1, <2>2 DEF OwnRun, RunExists, Later
  <2>4. c.run[1] = c.draft /\ PlannedNow(c.run) /\ drafts[c.draft] # NoDraft
    BY <1>1, <2>2 DEF OwnRun, CallSound
  <2>5. (PlannedNow(c.run))'
    <3>1. PICK r : r = c.run
      OBVIOUS
    <3>2. (PlannedNow(r))'
      BY <1>2, <2>4, <3>1, PlannedStays
    <3>3. QED
      BY <3>1, <3>2
  <2>6. t # Pump =>
          \/ c.run = PlanRun(c.draft, c.run[4]) /\ (drafts'[c.draft].kind = "crm" => c.guard = "none")
          \/ /\ c.guard = "open" /\ c.run = ManualRun(c.draft, c.run[3], c.run[4])
             /\ IF c.pc \in {"loaded", "guarded"} THEN c.run[3] = c.req
                                                  ELSE Replayed(<<"kickoff", c.run[3]>>)'
          \/ /\ c.guard = "limited"
             /\ \E missing \in SUBSET Fields : c.run = ResearchRun(c.draft, missing, c.run[4])
    BY <1>3, <1>4, <2>2 DEF OwnRun
  <2>7. QED
    BY <2>3, <2>4, <2>5, <2>6 DEF OwnRun
<1>6. c.pc = "graft" => /\ drafts'[c.draft].kind = "invoice" => c.fields \in Filled
                        /\ drafts'[c.draft].status = "staged" \/ <<"late", c.draft>> \in amiss'
  BY <1>1, <1>3 DEF CallSound, Later
<1>7. QED
  BY <1>1, <1>3, <1>4, <1>5, <1>6 DEF CallSound

\* What a moving thread has to see to.
LEMMA CallsStay ==
    ASSUME EnrichConstants, EnrichInv, Later, LatesKnown,
           NEW t \in Actors, NEW c, calls' = [calls EXCEPT ![t] = c], (CallSound(t, c))',
           t # Pump /\ calls[Pump] # Idle => pump' = pump,
           t # Pump => \A r \in DOMAIN runs' : r \in DOMAIN runs \/ "bucket" \notin r[2],
           TodoSound'
    PROVE  CallsSound'
<1>1. EnrichTypeOK /\ CallsSound
  BY DEF EnrichInv
<1>2. calls'[t] = c /\ \A u \in Actors : u # t => calls'[u] = calls[u]
  BY <1>1, OneMoves
<1>3. ASSUME NEW u \in Actors, u # t PROVE (CallSound(u, calls[u]))'
  <2>1. PICK b : b = calls[u]
    OBVIOUS
  <2>2. b \in EnrichCall /\ CallSound(u, b)
    BY <1>1, <2>1 DEF EnrichTypeOK, CallsSound
  <2>3. u = Pump /\ b # Idle => pump' = pump
    BY <1>3, <2>1
  <2>4. u = Pump /\ b.pc = "planned" =>
          b.run \notin DOMAIN runs' \/ <<"overtaken", b.draft>> \in amiss'
    <3>1. SUFFICES ASSUME u = Pump, b.pc = "planned"
                   PROVE  b.run \notin DOMAIN runs' \/ <<"overtaken", b.draft>> \in amiss'
      OBVIOUS
    <3>2. b # Idle
      BY <3>1 DEF Idle
    <3>3. /\ b.run = BucketRun(b.draft, pump.epoch, b.run[4])
          /\ b.run \notin DOMAIN runs \/ <<"overtaken", b.draft>> \in amiss
      BY <2>2, <3>1, <3>2 DEF CallSound, OwnRun, RunExists
    <3>4. "bucket" \in b.run[2]
      BY <3>3 DEF BucketRun
    <3>5. QED
      BY <1>3, <3>1, <3>3, <3>4 DEF Later
  <2>5. (CallSound(u, b))'
    BY <1>1, <2>1, <2>2, <2>3, <2>4, CallStays DEF LatesKnown
  <2>6. calls'[u] = b
    BY <1>2, <1>3, <2>1
  <2>7. QED
    BY <1>2, <1>3, <2>1, <2>5, <2>6
<1>4. \A u \in Actors : (CallSound(u, calls[u]))'
  BY <1>2, <1>3
<1>5. QED
  BY <1>4 DEF CallsSound

\* Nobody moves.
LEMMA CallsStand ==
    ASSUME EnrichConstants, EnrichInv, Later, LatesKnown, calls' = calls, runs' = runs,
           calls[Pump] # Idle => pump' = pump,
           TodoSound'
    PROVE  CallsSound'
<1>1. EnrichTypeOK /\ CallsSound
  BY DEF EnrichInv
<1>2. ASSUME NEW u \in Actors PROVE (CallSound(u, calls[u]))'
  <2>1. PICK b : b = calls[u]
    OBVIOUS
  <2>2. b \in EnrichCall /\ CallSound(u, b)
    BY <1>1, <2>1 DEF EnrichTypeOK, CallsSound
  <2>3. u = Pump /\ b # Idle => pump' = pump
    BY <2>1
  <2>4. u = Pump /\ b.pc = "planned" =>
          b.run \notin DOMAIN runs' \/ <<"overtaken", b.draft>> \in amiss'
    BY <2>2 DEF CallSound, OwnRun, RunExists, Idle, Later
  <2>5. (CallSound(u, b))'
    BY <1>1, <2>1, <2>2, <2>3, <2>4, CallStays DEF LatesKnown
  <2>6. QED
    BY <2>1, <2>5
<1>3. QED
  BY <1>2 DEF CallsSound

\* A due graft is for a draft that is there.
LEMMA DueIsThere ==
    ASSUME EnrichInv, NEW u \in Actors, Due(calls[u])
    PROVE  GraftOf(calls[u])[1] \in Drafts /\ drafts[GraftOf(calls[u])[1]] # NoDraft
<1>1. PICK b : b = calls[u]
  OBVIOUS
<1>2. b \in EnrichCall /\ CallSound(u, b)
  BY <1>1 DEF EnrichInv, EnrichTypeOK, CallsSound
<1>3. b # Idle /\ b.draft \in Drafts /\ drafts[b.draft] # NoDraft
  BY <1>1, <1>2, CallShape DEF Due, CallSound, Idle
<1>4. CASE b.pc = "staged"
  BY <1>1, <1>3, <1>4 DEF GraftOf
<1>5. CASE b.pc # "staged"
  <2>1. b.run \in RunIds /\ b.run[1] = b.draft
    BY <1>1, <1>2, <1>3, <1>5, CallShape DEF CallSound, OwnRun, Due
  <2>2. QED
    BY <1>1, <1>3, <1>5, <2>1, RunParts DEF GraftOf
<1>6. QED
  BY <1>4, <1>5

\* A due graft, and what it is for.
LEMMA DueFacts ==
    /\ \A t : Pending(t) <=> Due(calls[t])
    /\ \A t : OriginOf(t) = GraftOf(calls[t])
    /\ \A t : Pending(t)' <=> Due(calls'[t])
    /\ \A t : OriginOf(t)' = GraftOf(calls'[t])
    /\ \A t, o : o = GraftOf(calls'[t]) => (SharedOrigin(OriginOf(t))' <=> (SharedOrigin(o))')
BY DEF Pending, Due, OriginOf, GraftOf, At, SharedOrigin

\* Nobody else grafts for what the call is for, and nothing has been grafted for it
\* that could be taken for the call's own graft, as far as is known.
Untouched(t, c) ==
    /\ \A u \in Actors : u # t /\ Due(calls[u]) => GraftOf(calls[u]) # GraftOf(c)
    /\ \A key \in applied' : key[1] = "apply" /\ Origin(key[2]) = GraftOf(c) =>
          (MayRepeat(key[2]))' \/ (t = Pump /\ key[2] # c.run)

\* A call that goes on with what it is for.
Continues(t, c) ==
    /\ Due(calls[t]) /\ GraftOf(c) = GraftOf(calls[t])
    /\ t = Pump => c.run = calls[t].run

\* The grafts that are new: the one that was due.
OwnGraft(t, c) ==
    \A key \in applied' : key \in applied \/ key[1] # "apply"
        \/ (key = <<"apply", calls[t].run>> /\ calls[t].pc = "graft" /\ ~Due(c))

\* The grafts that are due stay exclusive.
LEMMA RunsStay ==
    ASSUME EnrichConstants, EnrichInv, Later, NEW t \in Actors, NEW c,
           calls' = [calls EXCEPT ![t] = c], OwnGraft(t, c),
           Due(c) => Continues(t, c) \/ (SharedOrigin(GraftOf(c)))' \/ Untouched(t, c)
    PROVE  RunsExclusive'
<1>1. EnrichTypeOK /\ RunsExclusive
  BY DEF EnrichInv
<1>2. calls'[t] = c /\ \A u \in Actors : u # t => calls'[u] = calls[u]
  BY <1>1, OneMoves
<1>3. ASSUME NEW u \in Actors, Due(calls'[u]), NEW o, o = GraftOf(calls'[u]), ~(SharedOrigin(o))'
      PROVE  /\ \A v \in Actors : Due(calls'[v]) /\ GraftOf(calls'[v]) = o => v = u
             /\ \A key \in applied' : key[1] = "apply" /\ Origin(key[2]) = o =>
                   (MayRepeat(key[2]))' \/ (u = Pump /\ key[2] # calls'[u].run)
  <2>1. CASE Due(calls[u]) /\ GraftOf(calls[u]) = o /\ (u = Pump => calls'[u].run = calls[u].run)
    <3>1. o[1] \in Drafts /\ drafts[o[1]] # NoDraft
      BY <2>1, DueIsThere
    <3>2. ~SharedOrigin(o)
      BY <1>3, <3>1, SharedStays
    <3>3. /\ \A v \in Actors : Due(calls[v]) /\ GraftOf(calls[v]) = o => v = u
          /\ \A key \in applied : key[1] = "apply" /\ Origin(key[2]) = o =>
                MayRepeat(key[2]) \/ (u = Pump /\ key[2] # calls[u].run)
      <4>1. Pending(u) /\ OriginOf(u) = o
        BY <2>1, DueFacts
      <4>2. ~SharedOrigin(OriginOf(u))
        BY <3>2, <4>1
      <4>3. QED
        BY <1>1, <4>1, <4>2, DueFacts DEF RunsExclusive
    <3>4. ASSUME NEW v \in Actors, Due(calls'[v]), GraftOf(calls'[v]) = o PROVE v = u
      <4>1. CASE v # t
        BY <1>2, <3>3, <3>4, <4>1
      <4>2. CASE v = t
        <5>1. Due(c) /\ GraftOf(c) = o
          BY <1>2, <3>4, <4>2
        <5>2. CASE u = t
          BY <4>2, <5>2
        <5>3. CASE u # t
          <6>1. ~Untouched(t, c)
            BY <2>1, <5>1, <5>3 DEF Untouched
          <6>2. Due(calls[t]) /\ GraftOf(calls[t]) = o
            BY <1>3, <5>1, <6>1 DEF Continues
          <6>3. QED
            BY <3>3, <4>2, <6>2
        <5>4. QED
          BY <5>2, <5>3
      <4>3. QED
        BY <4>1, <4>2
    <3>5. ASSUME NEW key \in applied', key[1] = "apply", Origin(key[2]) = o
          PROVE  (MayRepeat(key[2]))' \/ (u = Pump /\ key[2] # calls'[u].run)
      <4>1. CASE key \in applied
        <5>1. PICK r : r = key[2]
          OBVIOUS
        <5>2. MayRepeat(r) \/ (u = Pump /\ r # calls[u].run)
          BY <3>3, <3>5, <4>1, <5>1
        <5>3. (MayRepeat(r))' \/ (u = Pump /\ r # calls'[u].run)
          BY <2>1, <5>2, RepeatStays
        <5>4. QED
          BY <5>1, <5>3
      <4>2. CASE key \notin applied
        <5>1. key = <<"apply", calls[t].run>> /\ calls[t].pc = "graft" /\ ~Due(c)
          BY <3>5, <4>2 DEF OwnGraft
        <5>2. Due(calls[t]) /\ GraftOf(calls[t]) = o
          BY <3>5, <5>1 DEF Due, GraftOf
        <5>3. t = u
          BY <3>3, <5>2
        <5>4. QED
          BY <1>2, <1>3, <5>1, <5>3
      <4>3. QED
        BY <4>1, <4>2
    <3>6. QED
      BY <3>4, <3>5
  <2>2. CASE ~(Due(calls[u]) /\ GraftOf(calls[u]) = o /\ (u = Pump => calls'[u].run = calls[u].run))
    <3>1. u = t /\ Due(c) /\ GraftOf(c) = o
      BY <1>2, <1>3, <2>2
    <3>2. ~Continues(t, c)
      BY <1>2, <2>2, <3>1 DEF Continues
    <3>3. Untouched(t, c)
      BY <1>3, <3>1, <3>2
    <3>4. ASSUME NEW v \in Actors, Due(calls'[v]), GraftOf(calls'[v]) = o PROVE v = u
      BY <1>2, <3>1, <3>3, <3>4 DEF Untouched
    <3>5. QED
      BY <1>2, <3>1, <3>3, <3>4 DEF Untouched
  <2>3. QED
    BY <2>1, <2>2
<1>4. ASSUME NEW u \in Actors, Pending(u)', ~SharedOrigin(OriginOf(u))'
      PROVE  /\ \A v \in Actors : Pending(v)' /\ OriginOf(v)' = OriginOf(u)' => v = u
             /\ \A key \in applied' : key[1] = "apply" /\ Origin(key[2]) = OriginOf(u)' =>
                   (MayRepeat(key[2]))' \/ (u = Pump /\ key[2] # calls'[u].run)
  <2>1. PICK o : o = GraftOf(calls'[u])
    OBVIOUS
  <2>2. Due(calls'[u]) /\ ~(SharedOrigin(o))' /\ OriginOf(u)' = o
    BY <1>4, <2>1, DueFacts
  <2>3. /\ \A v \in Actors : Due(calls'[v]) /\ GraftOf(calls'[v]) = o => v = u
        /\ \A key \in applied' : key[1] = "apply" /\ Origin(key[2]) = o =>
              (MayRepeat(key[2]))' \/ (u = Pump /\ key[2] # calls'[u].run)
    BY <1>3, <2>1, <2>2
  <2>4. QED
    BY <2>1, <2>2, <2>3, DueFacts
<1>5. QED
  BY <1>4 DEF RunsExclusive

\* Nobody moves, and nothing is grafted.
LEMMA RunsStand ==
    ASSUME EnrichConstants, EnrichInv, Later, calls' = calls, applied' = applied
    PROVE  RunsExclusive'
<1>1. PICK c : c = calls[Pump]
  OBVIOUS
<1>2. calls' = [calls EXCEPT ![Pump] = c] /\ Pump \in Actors
  BY <1>1, ThreadNames DEF EnrichInv, EnrichTypeOK
<1>3. OwnGraft(Pump, c) /\ (Due(c) => Continues(Pump, c))
  BY <1>1 DEF OwnGraft, Continues
<1>4. QED
  BY <1>2, <1>3, RunsStay

-----------------------------------------------------------------------------
(* The tables.                                                              *)

\* What is put down as amiss, as a run, as a receipt and as begun.
AmissGrows ==
    \A a \in amiss' :
        \/ a \in amiss \/ a[1] \in {"late", "unrecorded", "replanned", "overtaken"}
        \/ /\ a[1] = "hollow" /\ <<"apply", a[2]>> \in applied
           /\ SharedOrigin(Origin(a[2])) \/ (MayRepeat(a[2]))'
        \/ a[1] = "twice" /\ a[2][1] = "bucket" /\ <<"overtaken", a[2][2][1]>> \in amiss

RunsGrow ==
    \A r \in DOMAIN runs' :
        IF r \in DOMAIN runs
          THEN runs'[r].status = "completed" =>
                  runs[r].status = "completed" \/ <<"apply", r>> \in applied'
          ELSE /\ r \in RunIds /\ drafts[r[1]] # NoDraft /\ PlannedNow(r)
               /\ "bucket" \in r[2] => r = BucketRun(r[1], r[3], r[4])
               /\ runs'[r].status # "completed"

GraftsGrow ==
    \A key \in applied' :
        \/ key \in applied \/ key[1] # "apply"
        \/ \E r \in RunIds :
              /\ key = <<"apply", r>> /\ drafts[r[1]] # NoDraft
              /\ "manual" \in r[2] => <<"kickoff", r[3]>> \in applied
              /\ "bucket" \in r[2] => r \in DOMAIN runs \/ <<"unrecorded", r>> \in amiss

BegunGrows ==
    \A b \in begun' :
        \/ b \in begun \/ (b[1] = "click" /\ <<"kickoff", b[2]>> \in applied')
        \/ (b[1] = "bucket" /\ b[2] \in DOMAIN runs')

Grows == Later /\ AmissGrows /\ RunsGrow /\ GraftsGrow /\ BegunGrows

\* Then the records stay sound.
LEMMA RecordsStay ==
    ASSUME EnrichInv, Grows
    PROVE  OneRunPerTrigger' /\ CompletedHasGrafted' /\ BegunIsRecorded' /\ RecordsSound'
<1>1. \A a \in amiss' : a[1] = "twice" => a[2][1] = "bucket" /\ <<"overtaken", a[2][2][1]>> \in amiss'
  BY DEF EnrichInv, Grows, Later, AmissGrows, OneRunPerTrigger
<1>2. CompletedHasGrafted'
  <2>1. ASSUME NEW r \in DOMAIN runs', runs'[r].status = "completed" PROVE <<"apply", r>> \in applied'
    BY <2>1 DEF Grows, RunsGrow, Later, EnrichInv, CompletedHasGrafted
  <2>2. ASSUME NEW a \in amiss', a[1] = "hollow"
        PROVE  <<"apply", a[2]>> \in applied' /\ ((SharedOrigin(Origin(a[2])))' \/ (MayRepeat(a[2]))')
    <3>1. PICK r : r = a[2]
      OBVIOUS
    <3>2. <<"apply", r>> \in applied /\ (SharedOrigin(Origin(r)) \/ MayRepeat(r) \/ (MayRepeat(r))')
      BY <2>2, <3>1 DEF Grows, AmissGrows, EnrichInv, CompletedHasGrafted
    <3>3. PICK key \in applied : key = <<"apply", r>>
      BY <3>2
    <3>4. key[1] = "apply" /\ key[2] = r
      BY <3>3
    <3>5. r \in RunIds /\ drafts[r[1]] # NoDraft
      BY <3>4 DEF EnrichInv, RecordsSound
    <3>6. PICK o : o = Origin(r)
      OBVIOUS
    <3>7. (SharedOrigin(o))' <=> SharedOrigin(o)
      BY <3>5, <3>6, RunParts, SharedStays DEF Grows
    <3>8. MayRepeat(r) => (MayRepeat(r))'
      BY RepeatStays DEF Grows
    <3>9. <<"apply", r>> \in applied' /\ ((SharedOrigin(o))' \/ (MayRepeat(r))')
      BY <3>2, <3>6, <3>7, <3>8 DEF Grows, Later
    <3>10. QED
      BY <3>1, <3>6, <3>9
  <2>3. QED
    BY <2>1, <2>2 DEF CompletedHasGrafted
<1>3. BegunIsRecorded'
  BY DEF Grows, BegunGrows, Later, EnrichInv, BegunIsRecorded, Replayed, RunExists
<1>4. ASSUME NEW r \in DOMAIN runs'
      PROVE  /\ r \in RunIds /\ drafts'[r[1]] # NoDraft /\ (PlannedNow(r))'
             /\ "bucket" \in r[2] => r = BucketRun(r[1], r[3], r[4])
  <2>1. /\ r \in RunIds /\ drafts[r[1]] # NoDraft /\ PlannedNow(r)
        /\ "bucket" \in r[2] => r = BucketRun(r[1], r[3], r[4])
    BY <1>4 DEF Grows, RunsGrow, EnrichInv, RecordsSound
  <2>2. r[1] \in Drafts
    BY <2>1, RunParts
  <2>3. QED
    BY <2>1, <2>2, PlannedStays DEF Grows, Later
<1>5. ASSUME NEW key \in applied', key[1] = "apply"
      PROVE  /\ key[2] \in RunIds /\ drafts'[key[2][1]] # NoDraft
             /\ "manual" \in key[2][2] => <<"kickoff", key[2][3]>> \in applied'
             /\ "bucket" \in key[2][2] => key[2] \in DOMAIN runs' \/ <<"unrecorded", key[2]>> \in amiss'
  <2>1. PICK r : r = key[2]
    OBVIOUS
  <2>2. /\ r \in RunIds /\ drafts[r[1]] # NoDraft
        /\ "manual" \in r[2] => <<"kickoff", r[3]>> \in applied
        /\ "bucket" \in r[2] => r \in DOMAIN runs \/ <<"unrecorded", r>> \in amiss
    <3>1. CASE key \in applied
      BY <1>5, <2>1, <3>1 DEF EnrichInv, RecordsSound, Replayed, RunExists
    <3>2. CASE key \notin applied
      <4>1. PICK s \in RunIds :
               /\ key = <<"apply", s>> /\ drafts[s[1]] # NoDraft
               /\ "manual" \in s[2] => <<"kickoff", s[3]>> \in applied
               /\ "bucket" \in s[2] => s \in DOMAIN runs \/ <<"unrecorded", s>> \in amiss
        BY <1>5, <3>2 DEF Grows, GraftsGrow
      <4>2. s = r
        BY <2>1, <4>1
      <4>3. QED
        BY <4>1, <4>2
    <3>3. QED
      BY <3>1, <3>2
  <2>3. QED
    BY <2>1, <2>2, RunParts DEF Grows, Later
<1>6. RecordsSound'
  BY <1>4, <1>5 DEF RecordsSound, Replayed, RunExists
<1>7. ASSUME NEW r \in DOMAIN runs', NEW q \in DOMAIN runs', SameBucket(r, q),
             <<"replanned", r[1]>> \notin amiss'
      PROVE  r = q
  <2>1. r = BucketRun(r[1], r[3], r[4]) /\ q = BucketRun(q[1], q[3], q[4])
    BY <1>4, <1>7 DEF SameBucket
  <2>2. r[1] = q[1] /\ r[3] = q[3]
    BY <1>7 DEF SameBucket
  <2>3. r[4] = Plan(drafts'[r[1]]) /\ q[4] = Plan(drafts'[q[1]])
    BY <1>4, <1>7, <2>2 DEF PlannedNow
  <2>4. QED
    BY <2>1, <2>2, <2>3
<1>8. OneRunPerTrigger'
  BY <1>1, <1>7 DEF OneRunPerTrigger, SameBucket
<1>9. QED
  BY <1>2, <1>3, <1>6, <1>8

\* The receipts, runs and drafts are not touched.
LEMMA StillGrows ==
    ASSUME EnrichInv, UNCHANGED <<drafts, runs, applied, begun, amiss>>
    PROVE  Grows /\ LatesKnown
BY DEF Grows, Later, AmissGrows, RunsGrow, GraftsGrow, BegunGrows, LatesKnown, EnrichInv, RecordsSound

\* A step on untouched tables by which one thread goes to a sound place.
LEMMA MoveKeeps ==
    ASSUME EnrichConstants, EnrichInv, NEW t \in Threads, NEW c \in EnrichCall,
           calls' = [calls EXCEPT ![t] = c], UNCHANGED <<drafts, runs, applied, begun, amiss, pump, epoch, scope>>,
           spent' \in [acts : Nat, sends : Nat, faults : Nat],
           CallSound(t, c), RegistryExact',
           Due(c) => Continues(t, c) \/ SharedOrigin(GraftOf(c)) \/ Untouched(t, c)
    PROVE  EnrichInv'
<1>1. t \in Actors /\ t # Pump
  BY ThreadNames
<1>2. Grows /\ LatesKnown /\ Later
  BY StillGrows DEF Grows
<1>3. EnrichTypeOK'
  BY <1>1 DEF EnrichInv, EnrichTypeOK
<1>4. (CallSound(t, c))'
  BY DEF CallSound, OwnRun, PlannedNow, RunExists, Replayed
<1>5. CallsSound'
  <2>1. TodoSound'
    BY DEF EnrichInv, CallsSound, TodoSound, RunExists
  <2>2. QED
    BY <1>1, <1>2, <1>4, <2>1, CallsStay
<1>6. RunsExclusive'
  <2>1. (SharedOrigin(GraftOf(c)))' <=> SharedOrigin(GraftOf(c))
    BY DEF SharedOrigin
  <2>2. OwnGraft(t, c)
    BY DEF OwnGraft
  <2>3. QED
    BY <1>1, <1>2, <2>1, <2>2, RunsStay
<1>7. QED
  BY <1>2, <1>3, <1>5, <1>6, RecordsStay DEF EnrichInv

-----------------------------------------------------------------------------
(* Requests: staging, clicks, and what they start.                          *)

\* The moves that spend nothing.
LEMMA SpentStays ==
    ASSUME EnrichInv, NEW what, Spend(what) \/ UNCHANGED spent
    PROVE  spent' \in [acts : Nat, sends : Nat, faults : Nat]
BY DEF EnrichInv, EnrichTypeOK, Spend

\* A call that was planned: for the run, the draft and the guard it was given.
LEMMA PlannedCall ==
    ASSUME NEW d \in Drafts, NEW run \in RunIds, NEW seen \in Filled, NEW guard \in Guards
    PROVE  /\ Planned(d, run, seen, guard) \in EnrichCall /\ Planned(d, run, seen, guard) # Idle
           /\ Planned(d, run, seen, guard).pc = "planned" /\ Planned(d, run, seen, guard).draft = d
           /\ Planned(d, run, seen, guard).run = run /\ Planned(d, run, seen, guard).guard = guard
BY DEF Planned, EnrichCall, Idle

\* What a call says that is not idle.
LEMMA CallFacts ==
    ASSUME EnrichInv, NEW t \in Actors, calls[t] # Idle
    PROVE  /\ calls[t] \in EnrichCall /\ CallSound(t, calls[t]) /\ calls[t].draft \in Drafts
           /\ drafts[calls[t].draft] # NoDraft /\ drafts[calls[t].draft] \in Row
           /\ calls[t].pc # "idle"
<1>1. calls[t] \in EnrichCall /\ CallSound(t, calls[t])
  BY DEF EnrichInv, EnrichTypeOK, CallsSound
<1>2. calls[t].draft \in Drafts /\ calls[t].pc # "idle"
  BY <1>1, CallShape
<1>3. QED
  BY <1>1, <1>2, RowShape DEF CallSound, EnrichInv

\* The pump stands where it stood.
LEMMA EpochSame ==
    ASSUME amiss \subseteq amiss', pump' = pump
    PROVE  EpochHolds
BY DEF EpochHolds

\* A place is not idle.
LEMMA AtWork ==
    ASSUME NEW t, NEW pc, At(t, pc), pc # "idle"
    PROVE  calls[t] # Idle /\ calls[t].pc = pc
BY DEF At, Idle

\* after_stage.
LEMMA AfterStageKeeps ==
    ASSUME EnrichConstants, EnrichInv, NEW t \in Threads, AfterStage(t)
    PROVE  EnrichInv'
<1>1. t \in Actors /\ t # Pump /\ calls[t] # Idle /\ calls[t].pc = "staged"
  BY ThreadNames, AtWork DEF AfterStage
<1>2. PICK b : b = calls[t]
  OBVIOUS
<1>3. /\ b \in EnrichCall /\ CallSound(t, b) /\ b.draft \in Drafts /\ drafts[b.draft] # NoDraft
      /\ drafts[b.draft] \in Row /\ b.pc = "staged"
  BY <1>1, <1>2, CallFacts
<1>4. PICK d \in Drafts : d = b.draft
  BY <1>3
<1>5. PICK plan \in Plans : plan = Plan(drafts[d])
  BY <1>3, <1>4, PlanIn
<1>6. PICK p : p = Planned(d, PlanRun(d, plan), drafts[d].fields, "none")
  OBVIOUS
<1>7. /\ p \in EnrichCall /\ p.pc = "planned" /\ p.draft = d /\ p.run = PlanRun(d, plan)
      /\ p.guard = "none" /\ p # Idle
  <2>1. PlanRun(d, plan) \in RunIds /\ drafts[d].fields \in Filled /\ "none" \in Guards
    BY <1>3, <1>4 DEF PlanRun, RunIds, Marks, Row, Guards
  <2>2. QED
    BY <1>6, <2>1, PlannedCall
<1>8. PICK c : calls' = [calls EXCEPT ![t] = c] /\ (c = p \/ c = Idle)
  BY <1>2, <1>4, <1>5, <1>6 DEF AfterStage, Mine, Goto
<1>9. UNCHANGED <<registry, drafts, runs, applied, begun, amiss, pump, epoch, scope, spent>>
  BY DEF AfterStage, db
<1>10. c \in EnrichCall /\ ~Held(c) /\ ~Held(b)
  BY <1>3, <1>7, <1>8 DEF EnrichCall, Idle, Held
<1>11. RegistryExact'
  BY <1>1, <1>2, <1>8, <1>9, <1>10, EpochSame, RegistryStays DEF EnrichInv
<1>12. CallSound(t, c)
  <2>1. CASE c = Idle
    BY <2>1 DEF CallSound
  <2>2. CASE c = p
    <3>1. OwnRun(t, p)
      BY <1>1, <1>5, <1>7 DEF OwnRun, PlanRun, PlannedNow
    <3>2. QED
      BY <1>3, <1>4, <1>7, <2>2, <3>1 DEF CallSound
  <2>3. QED
    BY <1>8, <2>1, <2>2
<1>13. Due(c) => Continues(t, c)
  BY <1>1, <1>2, <1>3, <1>4, <1>7, <1>8 DEF Due, GraftOf, Idle, PlanRun, Origin, Continues
<1>14. spent' \in [acts : Nat, sends : Nat, faults : Nat]
  BY <1>9 DEF EnrichInv, EnrichTypeOK
<1>15. QED
  BY <1>2, <1>8, <1>9, <1>10, <1>11, <1>12, <1>13, <1>14, MoveKeeps

\* enrich_draft: the request's run is planned.
LEMMA KickKeeps ==
    ASSUME EnrichConstants, EnrichInv, NEW t \in Threads, NEW q \in Requests, NEW d \in Drafts,
           NEW mode \in Modes, Kick(t, q, d, mode)
    PROVE  EnrichInv'
<1>1. t \in Actors /\ t # Pump /\ calls[t] = Idle
  BY ThreadNames DEF Kick, Free
<1>2. PICK run \in PlannedRuns(d, q, mode) :
         Goto(t, [pc |-> "loaded", draft |-> d, run |-> run, seen |-> drafts[d].fields,
                  guard |-> IF mode = "research" THEN "limited" ELSE "open", req |-> q])
  BY DEF Kick
<1>3. PICK c : c = [pc |-> "loaded", draft |-> d, run |-> run, seen |-> drafts[d].fields,
                    guard |-> IF mode = "research" THEN "limited" ELSE "open", req |-> q]
  OBVIOUS
<1>4. /\ calls' = [calls EXCEPT ![t] = c]
      /\ UNCHANGED <<registry, drafts, runs, applied, begun, amiss, pump, epoch, scope>>
      /\ Spend("sends")
  BY <1>2, <1>3 DEF Kick, Goto, db
<1>5. drafts[d].status = "staged"
  BY <1>2 DEF PlannedRuns
<1>6. drafts[d] # NoDraft /\ drafts[d] \in Row /\ q \in Nat
  <2>1. drafts[d] # NoDraft
    BY <1>5 DEF NoDraft
  <2>2. EnrichTypeOK /\ q \in Nat
    BY DEF EnrichInv, EnrichConstants
  <2>3. QED
    BY <2>1, <2>2, RowShape
<1>7. PICK plan \in Plans : plan = Plan(drafts[d])
  BY <1>6, PlanIn
<1>8. /\ run \in RunIds /\ run[1] = d /\ run[4] = plan
      /\ \/ run = PlanRun(d, plan) /\ drafts[d].kind = "invoice"
         \/ run = ManualRun(d, q, plan) /\ mode # "research"
         \/ mode = "research" /\ \E missing \in SUBSET Fields : run = ResearchRun(d, missing, plan)
  <2>1. CASE drafts[d].kind = "crm" /\ mode = "research"
    <3>1. PICK missing : missing = MissingRecordFields(drafts[d].fields)
      OBVIOUS
    <3>2. missing \in SUBSET Fields /\ run = ResearchRun(d, missing, plan)
      BY <1>2, <1>5, <1>7, <2>1, <3>1 DEF PlannedRuns, RecordRun, ResearchRuns, MissingRecordFields
    <3>3. QED
      BY <1>6, <2>1, <3>2, RunNames
  <2>2. CASE drafts[d].kind = "crm" /\ mode # "research"
    <3>1. run = ManualRun(d, q, plan)
      BY <1>2, <1>5, <1>7, <2>2 DEF PlannedRuns, RecordRun, StandardRun
    <3>2. QED
      BY <1>6, <2>2, <3>1 DEF ManualRun, RunIds, Marks
  <2>3. CASE drafts[d].kind # "crm"
    <3>1. run = PlanRun(d, plan) /\ drafts[d].kind = "invoice"
      BY <1>2, <1>5, <1>6, <1>7, <2>3 DEF PlannedRuns, InvoiceRun, Row, DraftKinds
    <3>2. QED
      BY <3>1 DEF PlanRun, RunIds, Marks
  <2>4. QED
    BY <2>1, <2>2, <2>3
<1>9. c \in EnrichCall
  BY <1>3, <1>6, <1>8 DEF EnrichCall, Row, Guards
<1>10. /\ c.pc = "loaded" /\ c.draft = d /\ c.run = run /\ c.req = q
       /\ c.guard = IF mode = "research" THEN "limited" ELSE "open"
  BY <1>3
<1>11. ~Held(c) /\ ~Held(calls[t]) /\ ~Due(c)
  BY <1>1, <1>10 DEF Held, Due, Idle
<1>12. RegistryExact'
  BY <1>1, <1>4, <1>11, EpochSame, RegistryStays DEF EnrichInv
<1>13. OwnRun(t, c)
  <2>1. PlannedNow(c.run)
    BY <1>7, <1>8, <1>10 DEF PlannedNow
  <2>2. CASE run = PlanRun(d, plan) /\ drafts[d].kind = "invoice"
    BY <1>1, <1>8, <1>10, <2>1, <2>2 DEF OwnRun
  <2>3. CASE run = ManualRun(d, q, plan) /\ mode # "research"
    BY <1>1, <1>8, <1>10, <2>1, <2>3 DEF OwnRun, ManualRun
  <2>4. CASE mode = "research" /\ \E missing \in SUBSET Fields : run = ResearchRun(d, missing, plan)
    BY <1>1, <1>8, <1>10, <2>1, <2>4 DEF OwnRun
  <2>5. QED
    BY <1>8, <2>2, <2>3, <2>4
<1>14. CallSound(t, c)
  BY <1>6, <1>10, <1>13 DEF CallSound
<1>15. spent' \in [acts : Nat, sends : Nat, faults : Nat]
  BY <1>4, SpentStays
<1>16. QED
  BY <1>4, <1>9, <1>11, <1>12, <1>14, <1>15, MoveKeeps

\* begin: the guard is taken, or the request is turned away.
LEMMA EnrichBeginKeeps ==
    ASSUME EnrichConstants, EnrichInv, NEW t \in Threads, BeginKickoff(t)
    PROVE  EnrichInv'
<1>1. t \in Actors /\ t # Pump /\ calls[t] # Idle /\ calls[t].pc = "loaded"
  BY ThreadNames, AtWork DEF BeginKickoff
<1>2. PICK b : b = calls[t]
  OBVIOUS
<1>3. /\ b \in EnrichCall /\ CallSound(t, b) /\ b.draft \in Drafts /\ drafts[b.draft] # NoDraft
      /\ b.pc = "loaded" /\ b # Idle
  BY <1>1, <1>2, CallFacts
<1>4. b \in [pc : {"loaded", "guarded"}, draft : Drafts, run : RunIds, seen : Filled,
             guard : Guards \ {"none"}, req : Requests]
  BY <1>3, CallShape
<1>5. PICK g : g = [b EXCEPT !.pc = "guarded"]
  OBVIOUS
<1>6. /\ g \in EnrichCall /\ g.pc = "guarded" /\ g.draft = b.draft /\ g.run = b.run /\ g.guard = b.guard
      /\ g.req = b.req /\ g # Idle /\ g.guard \in {"open", "limited"}
  BY <1>4, <1>5 DEF EnrichCall, Idle, Guards
<1>7. /\ UNCHANGED <<drafts, runs, applied, begun, amiss, pump, epoch, scope, spent>>
      /\ \/ calls' = [calls EXCEPT ![t] = Idle] /\ UNCHANGED registry
         \/ calls' = [calls EXCEPT ![t] = g] /\ TakeGuard(t)
  BY <1>2, <1>5 DEF BeginKickoff, db, Goto
<1>8. spent' \in [acts : Nat, sends : Nat, faults : Nat]
  BY <1>7 DEF EnrichInv, EnrichTypeOK
<1>9. ~Held(b)
  BY <1>3 DEF Held
<1>10. CASE calls' = [calls EXCEPT ![t] = Idle] /\ UNCHANGED registry
  <2>1. Idle \in EnrichCall /\ ~Held(Idle) /\ ~Due(Idle) /\ CallSound(t, Idle)
    BY DEF EnrichCall, Held, Due, Idle, CallSound
  <2>2. RegistryExact'
    BY <1>1, <1>2, <1>7, <1>9, <1>10, <2>1, EpochSame, RegistryStays DEF EnrichInv
  <2>3. QED
    BY <1>7, <1>8, <1>10, <2>1, <2>2, MoveKeeps
<1>11. CASE calls' = [calls EXCEPT ![t] = g] /\ TakeGuard(t)
  <2>1. Held(g) /\ ~Due(g)
    BY <1>6 DEF Held, Due
  <2>2. \/ g.guard = "limited" /\ GuardStarted(g.draft, g.run)
        \/ g.guard = "open" /\ GuardStartedUnbounded(g.draft, g.run)
    BY <1>2, <1>6, <1>11 DEF TakeGuard
  <2>3. RegistryExact'
    <3>1. PICK r \in RunIds : r = g.run
      BY <1>4, <1>6
    <3>2. (Registers(t, g, r))'
      BY <3>1 DEF Registers
    <3>3. \/ g.guard = "limited" /\ GuardStarted(g.draft, r)
          \/ g.guard = "open" /\ GuardStartedUnbounded(g.draft, r)
      BY <2>2, <3>1
    <3>4. EpochHolds
      BY <1>7, EpochSame
    <3>5. QED
      BY <1>1, <1>2, <1>6, <1>9, <1>11, <2>1, <3>2, <3>3, <3>4, RegistryTakes DEF EnrichInv
  <2>4. CallSound(t, g)
    <3>1. OwnRun(t, b)
      BY <1>3 DEF CallSound
    <3>2. OwnRun(t, g)
      BY <1>1, <1>3, <1>6, <3>1 DEF OwnRun
    <3>3. QED
      BY <1>3, <1>6, <3>2 DEF CallSound
  <2>5. QED
    BY <1>6, <1>7, <1>8, <1>11, <2>1, <2>3, <2>4, MoveKeeps
<1>12. QED
  BY <1>7, <1>10, <1>11

-----------------------------------------------------------------------------
(* Runs.                                                                    *)

\* The runs that are new: a thread's own, or the pump's.
OwnRuns(t) ==
    \A r \in DOMAIN runs' :
        r \in DOMAIN runs \/ "bucket" \notin r[2]
        \/ (t = Pump /\ calls[t] # Idle /\ calls[t].pc # "staged" /\ r = calls[t].run)

\* A step by which one thread writes to the tables and goes to a sound place.
LEMMA StepKeeps ==
    ASSUME EnrichConstants, EnrichInv, NEW t \in Actors, NEW c \in EnrichCall,
           calls' = [calls EXCEPT ![t] = c], pump' = pump, Grows, LatesKnown,
           OwnRuns(t), OwnGraft(t, c), EnrichTypeOK', RegistryExact', (CallSound(t, c))',
           Due(c) => Continues(t, c) \/ (SharedOrigin(GraftOf(c)))' \/ Untouched(t, c)
    PROVE  EnrichInv'
<1>1. Later
  BY DEF Grows
<1>2. TodoSound'
  <2>1. TodoSound
    BY DEF EnrichInv, CallsSound
  <2>2. ASSUME NEW d \in Drafts, pump.todo[d] # NoRun, pump.todo[d] \in DOMAIN runs' PROVE FALSE
    <3>1. pump.todo[d] = BucketRun(d, pump.epoch, pump.todo[d][4]) /\ pump.todo[d] \notin DOMAIN runs
      BY <2>1, <2>2 DEF TodoSound, RunExists
    <3>2. "bucket" \in pump.todo[d][2] /\ pump.todo[d][1] = d
      BY <3>1 DEF BucketRun
    <3>3. t = Pump /\ calls[t] # Idle /\ calls[t].pc # "staged" /\ pump.todo[d] = calls[t].run
      BY <2>2, <3>1, <3>2 DEF OwnRuns
    <3>4. calls[t].run[1] = calls[t].draft /\ pump.todo[calls[t].draft] = NoRun
      BY <3>3 DEF EnrichInv, CallsSound, CallSound, OwnRun
    <3>5. QED
      BY <2>2, <3>2, <3>3, <3>4
  <2>3. QED
    BY <1>1, <2>1, <2>2, TodoStays
<1>3. CallsSound'
  BY <1>1, <1>2, CallsStay DEF OwnRuns
<1>4. RunsExclusive'
  BY <1>1, RunsStay
<1>5. QED
  BY <1>3, <1>4, RecordsStay DEF EnrichInv

\* No table changes.
LEMMA TablesStill ==
    ASSUME EnrichInv, UNCHANGED <<drafts, runs, applied, begun, amiss>>, NEW t, NEW c
    PROVE  Grows /\ LatesKnown /\ OwnRuns(t) /\ OwnGraft(t, c)
BY StillGrows DEF OwnRuns, OwnGraft

\* A thread that ends, or perishes, gives its guard back.
LEMMA EndKeeps ==
    ASSUME EnrichConstants, EnrichInv, NEW t \in Actors, calls' = [calls EXCEPT ![t] = Idle],
           IF Held(calls[t]) THEN ReleaseGuard(t) ELSE UNCHANGED registry,
           pump' = pump, Grows, LatesKnown, OwnRuns(t), OwnGraft(t, Idle), EnrichTypeOK'
    PROVE  EnrichInv'
<1>1. Idle \in EnrichCall /\ ~Due(Idle) /\ (CallSound(t, Idle))'
  BY DEF EnrichCall, Due, Idle, CallSound
<1>2. RegistryExact'
  <2>1. EpochHolds
    BY EpochSame DEF Grows, Later
  <2>2. QED
    BY <2>1, RegistryReleases DEF EnrichInv
<1>3. QED
  BY <1>1, <1>2, StepKeeps

\* The thread panics or does not start.
LEMMA PerishKeeps ==
    ASSUME EnrichConstants, EnrichInv, NEW t \in Actors, Perish(t)
    PROVE  EnrichInv'
<1>1. calls[t] # Idle /\ calls' = [calls EXCEPT ![t] = Idle]
  BY DEF Perish, Goto
<1>2. calls[t] \in EnrichCall /\ calls[t].pc # "idle"
  BY <1>1, CallFacts
<1>3. IF Held(calls[t]) THEN ReleaseGuard(t) ELSE UNCHANGED registry
  BY <1>2, CallShape DEF Perish, Held, ReleaseGuard, registry
<1>4. UNCHANGED <<drafts, runs, applied, begun, amiss, pump, epoch, scope>> /\ Spend("faults")
  BY DEF Perish, db
<1>5. EnrichTypeOK'
  <2>1. spent' \in [acts : Nat, sends : Nat, faults : Nat]
    BY <1>4, SpentStays
  <2>2. Idle \in EnrichCall
    BY DEF EnrichCall
  <2>3. QED
    BY <1>1, <1>4, <2>1, <2>2 DEF EnrichInv, EnrichTypeOK
<1>6. QED
  BY <1>1, <1>3, <1>4, <1>5, TablesStill, EndKeeps

\* record_on_demand_kickoff.
LEMMA RecordKickoffKeeps ==
    ASSUME EnrichConstants, EnrichInv, NEW t \in Threads, RecordKickoff(t)
    PROVE  EnrichInv'
<1>1. t \in Actors /\ t # Pump /\ calls[t] # Idle /\ calls[t].pc = "guarded"
  BY ThreadNames, AtWork DEF RecordKickoff
<1>2. PICK b : b = calls[t]
  OBVIOUS
<1>3. /\ b \in EnrichCall /\ CallSound(t, b) /\ b.draft \in Drafts /\ drafts[b.draft] # NoDraft
      /\ b.pc = "guarded" /\ b # Idle
  BY <1>1, <1>2, CallFacts
<1>4. b \in [pc : {"loaded", "guarded"}, draft : Drafts, run : RunIds, seen : Filled,
             guard : Guards \ {"none"}, req : Requests]
  BY <1>3, CallShape
<1>5. UNCHANGED <<drafts, runs, pump, epoch, scope, spent>>
  BY DEF RecordKickoff
<1>6. Held(b) /\ ~Due(b)
  BY <1>3, <1>4 DEF Held, Due
<1>7. CASE /\ ReleaseGuard(t) /\ Goto(t, Idle) /\ UNCHANGED <<applied, begun, amiss>>
  <2>1. EnrichTypeOK'
    <3>1. Idle \in EnrichCall
      BY DEF EnrichCall
    <3>2. QED
      BY <1>5, <1>7, <3>1 DEF EnrichInv, EnrichTypeOK, Goto
  <2>2. QED
    BY <1>1, <1>2, <1>5, <1>6, <1>7, <2>1, TablesStill, EndKeeps DEF Goto
<1>8. CASE /\ ~Replayed(<<"kickoff", calls[t].req>>)
           /\ applied' = applied \cup {<<"kickoff", calls[t].req>>}
           /\ Trigger(<<"click", calls[t].req>>)
           /\ Goto(t, Planned(calls[t].draft, calls[t].run, calls[t].seen, calls[t].guard))
           /\ UNCHANGED registry
  <2>1. PICK q \in Requests : q = b.req
    BY <1>4
  <2>2. PICK c : c = Planned(b.draft, b.run, b.seen, b.guard)
    OBVIOUS
  <2>3. /\ c \in EnrichCall /\ c.pc = "planned" /\ c.draft = b.draft /\ c.run = b.run /\ c.guard = b.guard
        /\ c # Idle
    BY <1>4, <2>2, PlannedCall
  <2>4. /\ <<"kickoff", q>> \notin applied /\ applied' = applied \cup {<<"kickoff", q>>}
        /\ calls' = [calls EXCEPT ![t] = c] /\ UNCHANGED registry
        /\ begun' = begun \cup {<<"click", q>>}
        /\ amiss' = amiss \cup (IF <<"click", q>> \in begun THEN {<<"twice", <<"click", q>> >>} ELSE {})
    BY <1>2, <1>8, <2>1, <2>2 DEF Replayed, Trigger, Goto
  <2>5. amiss' = amiss
    <3>1. <<"click", q>> \notin begun
      <4>1. SUFFICES ASSUME <<"click", q>> \in begun PROVE FALSE
        OBVIOUS
      <4>2. PICK x \in begun : x = <<"click", q>>
        BY <4>1
      <4>3. x[1] = "click" /\ x[2] = q
        BY <4>2
      <4>4. <<"kickoff", q>> \in applied
        BY <4>3 DEF EnrichInv, BegunIsRecorded, Replayed
      <4>5. QED
        BY <2>4, <4>4
    <3>2. QED
      BY <2>4, <3>1
  <2>6. Grows /\ LatesKnown /\ OwnRuns(t) /\ OwnGraft(t, c)
    <3>1. Later /\ AmissGrows /\ LatesKnown /\ OwnRuns(t)
      BY <1>5, <2>4, <2>5 DEF Later, AmissGrows, LatesKnown, OwnRuns
    <3>2. RunsGrow
      BY <1>5 DEF RunsGrow
    <3>3. GraftsGrow /\ OwnGraft(t, c)
      <4>1. \A key \in applied' : key \in applied \/ key[1] # "apply"
        BY <2>4
      <4>2. QED
        BY <4>1 DEF GraftsGrow, OwnGraft
    <3>4. BegunGrows
      BY <2>4 DEF BegunGrows
    <3>5. QED
      BY <3>1, <3>2, <3>3, <3>4 DEF Grows
  <2>7. EnrichTypeOK'
    BY <1>1, <1>5, <2>3, <2>4 DEF EnrichInv, EnrichTypeOK
  <2>8. RegistryExact'
    <3>1. Held(c)
      BY <1>6, <2>3 DEF Held
    <3>2. QED
      BY <1>1, <1>2, <1>5, <1>6, <2>3, <2>4, <3>1, EpochSame, RegistryStays DEF EnrichInv
  <2>9. OwnRun(t, b)
    BY <1>3 DEF CallSound
  <2>10. (CallSound(t, c))'
    <3>1. (PlannedNow(c.run))'
      BY <1>5, <2>3, <2>5, <2>9 DEF OwnRun, PlannedNow
    <3>2. (OwnRun(t, c))'
      BY <1>1, <1>3, <1>5, <2>1, <2>3, <2>4, <2>9, <3>1 DEF OwnRun, Replayed
    <3>3. QED
      BY <1>3, <1>5, <2>3, <3>2 DEF CallSound
  <2>11. (SharedOrigin(GraftOf(c)))' \/ Untouched(t, c)
    <3>1. /\ GraftOf(c) = Origin(b.run) /\ b.run[1] = b.draft /\ b.run \in RunIds
          /\ Origin(b.run) = <<b.run[1], b.run[2], b.run[3]>>
      BY <1>4, <2>3, <2>9 DEF GraftOf, OwnRun, Origin
    <3>2. CASE b.run = PlanRun(b.draft, b.run[4]) /\ (drafts[b.draft].kind = "crm" => b.guard = "none")
      <4>1. drafts'[b.draft].kind = "invoice"
        BY <1>3, <1>4, <1>5, <3>2, RowShape DEF EnrichInv, DraftKinds
      <4>2. GraftOf(c) = <<b.draft, {"plan"}, 0>>
        BY <3>1, <3>2 DEF PlanRun
      <4>3. PICK o : o = GraftOf(c)
        OBVIOUS
      <4>4. (SharedOrigin(o))'
        BY <4>1, <4>2, <4>3 DEF SharedOrigin
      <4>5. QED
        BY <4>3, <4>4
    <3>3. CASE \E missing \in SUBSET Fields : b.run = ResearchRun(b.draft, missing, b.run[4])
      <4>1. "research" \in b.run[2]
        BY <3>3 DEF ResearchRun
      <4>2. PICK o : o = GraftOf(c)
        OBVIOUS
      <4>3. "research" \in o[2]
        BY <3>1, <4>1, <4>2
      <4>4. (SharedOrigin(o))'
        BY <4>3 DEF SharedOrigin
      <4>5. QED
        BY <4>2, <4>4
    <3>4. CASE b.run = ManualRun(b.draft, q, b.run[4])
      <4>1. b.run[2] = {"manual"} /\ b.run[3] = q
        BY <3>4 DEF ManualRun
      <4>2. ASSUME NEW u \in Actors, u # t, Due(calls[u]), GraftOf(calls[u]) = GraftOf(c) PROVE FALSE
        <5>1. PICK e : e = calls[u]
          OBVIOUS
        <5>2. e # Idle /\ CallSound(u, e)
          BY <4>2, <5>1 DEF Due, Idle, EnrichInv, CallsSound
        <5>3. CASE e.pc = "staged"
          BY <3>1, <4>1, <4>2, <5>1, <5>3 DEF GraftOf
        <5>4. CASE e.pc # "staged"
          <6>1. OwnRun(u, e) /\ Origin(e.run) = Origin(b.run) /\ e.pc \notin {"loaded", "guarded"}
            BY <3>1, <4>2, <5>1, <5>2, <5>4 DEF CallSound, GraftOf, Due
          <6>2. "manual" \in e.run[2] /\ e.run[3] = q
            BY <3>1, <4>1, <6>1 DEF Origin
          <6>3. <<"kickoff", q>> \in applied
            BY <6>1, <6>2 DEF OwnRun, Replayed, BucketRun, PlanRun, ResearchRun, Fields
          <6>4. QED
            BY <2>4, <6>3
        <5>5. QED
          BY <5>3, <5>4
      <4>3. ASSUME NEW key \in applied', key[1] = "apply", Origin(key[2]) = GraftOf(c) PROVE FALSE
        <5>1. key \in applied
          BY <2>4, <4>3
        <5>2. "manual" \in key[2][2] /\ key[2][3] = q
          BY <3>1, <4>1, <4>3 DEF Origin
        <5>3. <<"kickoff", q>> \in applied
          BY <4>3, <5>1, <5>2 DEF EnrichInv, RecordsSound, Replayed
        <5>4. QED
          BY <2>4, <5>3
      <4>4. QED
        BY <4>2, <4>3 DEF Untouched
    <3>5. QED
      BY <1>1, <1>3, <2>1, <2>9, <3>2, <3>3, <3>4 DEF OwnRun
  <2>12. QED
    BY <1>1, <1>5, <2>3, <2>4, <2>6, <2>7, <2>8, <2>10, <2>11, StepKeeps
<1>9. QED
  BY <1>7, <1>8 DEF RecordKickoff

\* What a thread that goes on with its run keeps: its draft, run and guard.
SameRun(b, c) ==
    /\ c \in EnrichCall /\ c # Idle /\ c.pc \in {"looking", "graft", "finish"}
    /\ c.draft = b.draft /\ c.run = b.run /\ c.guard = b.guard

\* A run in its places: the next place is sound if it is for itself.
LEMMA RunGoesOn ==
    ASSUME EnrichConstants, EnrichInv, NEW t \in Actors, NEW b, b = calls[t],
           b.pc \in {"planned", "looking", "graft"}, NEW c, SameRun(b, c), Later, pump' = pump,
           calls' = [calls EXCEPT ![t] = c], UNCHANGED registry,
           t = Pump /\ b.pc = "planned" => b.run \in DOMAIN runs' \/ <<"unrecorded", b.run>> \in amiss',
           c.pc = "graft" =>
              /\ drafts'[b.draft].kind = "invoice" => c.fields \in Filled
              /\ drafts'[b.draft].status = "staged" \/ <<"late", b.draft>> \in amiss',
           c.pc = "finish" /\ c.outcome = "completed" => <<"apply", b.run>> \in applied'
    PROVE  /\ RegistryExact' /\ (CallSound(t, c))'
           /\ Due(c) => Continues(t, c)
<1>1. b # Idle /\ b \in EnrichCall /\ CallSound(t, b) /\ b.draft \in Drafts /\ drafts[b.draft] # NoDraft
  BY CallFacts DEF Idle
<1>2. OwnRun(t, b)
  BY <1>1 DEF CallSound
<1>3. RegistryExact'
  <2>1. Held(c) <=> Held(b)
    BY DEF Held, SameRun
  <2>2. QED
    BY <2>1, EpochSame, RegistryStays DEF EnrichInv, SameRun, Later
<1>4. drafts'[b.draft] # NoDraft /\ drafts'[b.draft].kind = drafts[b.draft].kind
  BY <1>1 DEF Later
<1>5. (OwnRun(t, c))'
  <2>1. c.run[1] = c.draft /\ PlannedNow(c.run) /\ c.draft = b.draft
    BY <1>2 DEF OwnRun, SameRun
  <2>2. t = Pump => /\ c.run = BucketRun(c.draft, pump'.epoch, c.run[4]) /\ c.guard = "open"
                    /\ pump'.todo[c.draft] = NoRun /\ pump' # AtRest
                    /\ c.pc \in {"planned", "looking", "graft", "finish"} /\ c.pc # "planned"
                    /\ RunExists(c.run)' \/ <<"unrecorded", c.run>> \in amiss'
    BY <1>2 DEF OwnRun, SameRun, RunExists, Later
  <2>3. t # Pump =>
          \/ c.run = PlanRun(c.draft, c.run[4]) /\ (drafts'[c.draft].kind = "crm" => c.guard = "none")
          \/ /\ c.guard = "open" /\ c.run = ManualRun(c.draft, c.run[3], c.run[4])
             /\ c.pc \notin {"loaded", "guarded"} /\ Replayed(<<"kickoff", c.run[3]>>)'
          \/ /\ c.guard = "limited"
             /\ \E missing \in SUBSET Fields : c.run = ResearchRun(c.draft, missing, c.run[4])
    BY <1>2, <1>4 DEF OwnRun, SameRun, Replayed, Later
  <2>4. (PlannedNow(c.run))'
    <3>1. PICK r : r = c.run
      OBVIOUS
    <3>2. (PlannedNow(r))'
      BY <1>1, <2>1, <3>1, PlannedStays
    <3>3. QED
      BY <3>1, <3>2
  <2>5. QED
    BY <2>1, <2>2, <2>3, <2>4 DEF OwnRun
<1>6. (CallSound(t, c))'
  BY <1>4, <1>5 DEF CallSound, SameRun, Replayed
<1>7. QED
  BY <1>3, <1>6 DEF Due, GraftOf, SameRun, Continues

\* run_inner begins, recorded or not.
LEMMA StartKeeps ==
    ASSUME EnrichConstants, EnrichInv, NEW t \in Actors, StartRun(t) \/ StartUnrecorded(t)
    PROVE  EnrichInv'
<1>1. calls[t] # Idle /\ calls[t].pc = "planned"
  BY AtWork DEF StartRun, StartUnrecorded
<1>2. PICK b : b = calls[t]
  OBVIOUS
<1>3. /\ b \in EnrichCall /\ CallSound(t, b) /\ b.draft \in Drafts /\ drafts[b.draft] # NoDraft
      /\ b.pc = "planned" /\ b # Idle
  BY <1>1, <1>2, CallFacts
<1>4. b \in [pc : {"planned", "looking"}, draft : Drafts, run : RunIds, seen : Filled, guard : Guards]
  BY <1>3, CallShape
<1>5. PICK c : c = [b EXCEPT !.pc = "looking"]
  OBVIOUS
<1>6. SameRun(b, c) /\ c.pc = "looking"
  BY <1>4, <1>5 DEF SameRun, EnrichCall, Idle
<1>7. OwnRun(t, b)
  BY <1>3 DEF CallSound
<1>8. CASE StartRun(t)
  <2>1. /\ calls' = [calls EXCEPT ![t] = c]
        /\ UNCHANGED <<registry, drafts, applied, pump, epoch, scope, spent>>
        /\ runs' = [r \in DOMAIN runs \cup {b.run} |-> IF r \in DOMAIN runs THEN runs[r] ELSE NewRun]
    BY <1>2, <1>5, <1>8 DEF StartRun, Goto, Started, RunExists
  <2>2. DOMAIN runs' = DOMAIN runs \cup {b.run}
    BY <2>1
  <2>3. amiss \subseteq amiss' /\ AmissGrows /\ BegunGrows
    <3>1. CASE t = Pump
      <4>1. /\ begun' = begun \cup {<<"bucket", b.run>>}
            /\ amiss' = amiss \cup (IF <<"bucket", b.run>> \in begun
                                     THEN {<<"twice", <<"bucket", b.run>> >>} ELSE {})
        BY <1>2, <1>8, <3>1 DEF StartRun, Trigger
      <4>2. <<"bucket", b.run>> \in begun => <<"overtaken", b.run[1]>> \in amiss
        <5>1. SUFFICES ASSUME <<"bucket", b.run>> \in begun PROVE <<"overtaken", b.run[1]>> \in amiss
          OBVIOUS
        <5>2. PICK x \in begun : x = <<"bucket", b.run>>
          BY <5>1
        <5>3. x[1] = "bucket" /\ x[2] = b.run
          BY <5>2
        <5>4. b.run \in DOMAIN runs
          BY <5>3 DEF EnrichInv, BegunIsRecorded, RunExists
        <5>5. QED
          BY <1>3, <1>7, <3>1, <5>4 DEF OwnRun, RunExists
      <4>3. AmissGrows
        <5>1. PICK a : a = <<"twice", <<"bucket", b.run>> >>
          OBVIOUS
        <5>2. a[1] = "twice" /\ a[2][1] = "bucket" /\ a[2][2][1] = b.run[1]
          BY <5>1
        <5>3. QED
          BY <4>1, <4>2, <5>1, <5>2 DEF AmissGrows
      <4>4. QED
        BY <2>2, <4>1, <4>3 DEF BegunGrows
    <3>2. CASE t # Pump
      BY <1>8, <3>2 DEF StartRun, BegunGrows, AmissGrows
    <3>3. QED
      BY <3>1, <3>2
  <2>4. NewRun \in [status : Outcomes \cup {"started"}, accepted : SUBSET Fields, at : Nat]
        /\ NewRun.status # "completed"
    BY DEF NewRun
  <2>5. Later /\ GraftsGrow /\ LatesKnown /\ OwnGraft(t, c)
    BY <2>1, <2>2, <2>3 DEF Later, GraftsGrow, LatesKnown, OwnGraft
  <2>6. RunsGrow
    <3>1. /\ b.run \in RunIds /\ drafts[b.run[1]] # NoDraft /\ PlannedNow(b.run)
          /\ "bucket" \in b.run[2] => b.run = BucketRun(b.run[1], b.run[3], b.run[4])
      BY <1>3, <1>4, <1>7 DEF OwnRun, BucketRun, PlanRun, ManualRun, ResearchRun, Fields
    <3>2. QED
      BY <2>1, <2>4, <3>1 DEF RunsGrow
  <2>7. OwnRuns(t)
    <3>1. CASE t = Pump
      BY <1>2, <1>3, <2>2, <3>1 DEF OwnRuns
    <3>2. CASE t # Pump
      <4>1. "bucket" \notin b.run[2]
        BY <1>7, <3>2 DEF OwnRun, PlanRun, ManualRun, ResearchRun, Fields
      <4>2. QED
        BY <2>2, <4>1 DEF OwnRuns
    <3>3. QED
      BY <3>1, <3>2
  <2>8. EnrichTypeOK'
    <3>1. runs' \in [DOMAIN runs' -> [status : Outcomes \cup {"started"}, accepted : SUBSET Fields, at : Nat]]
      BY <2>1, <2>4 DEF EnrichInv, EnrichTypeOK
    <3>2. QED
      BY <1>6, <2>1, <3>1 DEF EnrichInv, EnrichTypeOK, SameRun
  <2>9. RegistryExact' /\ (CallSound(t, c))' /\ (Due(c) => Continues(t, c))
    BY <1>2, <1>3, <1>6, <2>1, <2>2, <2>5, RunGoesOn
  <2>10. QED
    BY <1>6, <2>1, <2>3, <2>5, <2>6, <2>7, <2>8, <2>9, StepKeeps DEF Grows, SameRun
<1>9. CASE StartUnrecorded(t)
  <2>1. /\ calls' = [calls EXCEPT ![t] = c] /\ Spend("faults")
        /\ UNCHANGED <<registry, drafts, runs, applied, begun, pump, epoch, scope>>
        /\ amiss' = amiss \cup {<<"unrecorded", b.run>>}
    BY <1>2, <1>5, <1>9 DEF StartUnrecorded, Goto, db
  <2>2. Later /\ GraftsGrow /\ LatesKnown /\ OwnGraft(t, c) /\ OwnRuns(t) /\ BegunGrows /\ RunsGrow
    BY <2>1 DEF Later, GraftsGrow, LatesKnown, OwnGraft, OwnRuns, BegunGrows, RunsGrow
  <2>3. AmissGrows
    BY <2>1 DEF AmissGrows
  <2>4. EnrichTypeOK'
    <3>1. spent' \in [acts : Nat, sends : Nat, faults : Nat]
      BY <2>1, SpentStays
    <3>2. QED
      BY <1>6, <2>1, <3>1 DEF EnrichInv, EnrichTypeOK, SameRun
  <2>5. RegistryExact' /\ (CallSound(t, c))' /\ (Due(c) => Continues(t, c))
    BY <1>2, <1>3, <1>6, <2>1, <2>2, RunGoesOn
  <2>6. QED
    BY <1>6, <2>1, <2>2, <2>3, <2>4, <2>5, StepKeeps DEF Grows, SameRun
<1>10. QED
  BY <1>8, <1>9


\* A run that looks, grafts or ends: what its call says.
LEMMA RunFacts ==
    ASSUME EnrichInv, NEW t \in Actors, NEW b, b = calls[t], b.pc \in {"looking", "graft", "finish"}
    PROVE  /\ b \in EnrichCall /\ b # Idle /\ b.draft \in Drafts /\ b.run \in RunIds /\ b.guard \in Guards
           /\ b.run[1] = b.draft /\ drafts[b.draft] # NoDraft /\ drafts[b.draft] \in Row
           /\ CallSound(t, b) /\ OwnRun(t, b) /\ (b.pc # "finish" => Due(b)) /\ GraftOf(b) = Origin(b.run)
<1>1. b # Idle
  BY DEF Idle
<1>2. /\ b \in EnrichCall /\ CallSound(t, b) /\ b.draft \in Drafts /\ drafts[b.draft] # NoDraft
      /\ drafts[b.draft] \in Row
  BY <1>1, CallFacts
<1>3. OwnRun(t, b) /\ b.run \in RunIds /\ b.guard \in Guards
  BY <1>1, <1>2, CallShape DEF CallSound
<1>4. QED
  BY <1>1, <1>2, <1>3 DEF OwnRun, Due, GraftOf

\* The places a run goes to.
LEMMA OutcomePlace ==
    ASSUME EnrichInv, NEW t \in Actors, NEW b, b = calls[t], b.pc \in {"looking", "graft"},
           NEW outcome \in Outcomes, NEW c, c = Outcome(t, outcome)
    PROVE  SameRun(b, c) /\ c.pc = "finish" /\ c.outcome = outcome
<1>1. b.draft \in Drafts /\ b.run \in RunIds /\ b.guard \in Guards
  BY RunFacts
<1>2. c = [pc |-> "finish", draft |-> b.draft, run |-> b.run, guard |-> b.guard, outcome |-> outcome]
  BY DEF Outcome
<1>3. QED
  BY <1>1, <1>2 DEF SameRun, EnrichCall, Idle

\* The graft it may come to.
LEMMA GraftPlace ==
    ASSUME EnrichInv, NEW t \in Actors, NEW b, b = calls[t], b.pc \in {"looking", "graft"},
           NEW found \in SUBSET Fields, NEW fields \in {NoRow} \cup Filled,
           NEW c, c = Graft(t, found, fields)
    PROVE  SameRun(b, c) /\ c.pc = "graft" /\ c.fields = fields
<1>1. b.draft \in Drafts /\ b.run \in RunIds /\ b.guard \in Guards
  BY RunFacts
<1>2. c = [pc |-> "graft", draft |-> b.draft, run |-> b.run, guard |-> b.guard, found |-> found,
           fields |-> fields]
  BY DEF Graft
<1>3. QED
  BY <1>1, <1>2 DEF SameRun, EnrichCall, Idle

\* append_run_diagnostics: the runs keep their status.
LEMMA ProposedKeeps ==
    ASSUME EnrichInv, NEW t \in Actors, NEW found \in SUBSET Fields, Proposed(t, found)
    PROVE  /\ DOMAIN runs' = DOMAIN runs /\ \A r \in DOMAIN runs : runs'[r].status = runs[r].status
           /\ runs' \in [DOMAIN runs' -> [status : Outcomes \cup {"started"}, accepted : SUBSET Fields,
                                         at : Nat]]
           /\ applied \subseteq applied' /\ \A key \in applied' : key \in applied \/ key[1] # "apply"
<1>1. runs \in [DOMAIN runs -> [status : Outcomes \cup {"started"}, accepted : SUBSET Fields, at : Nat]]
  BY DEF EnrichInv, EnrichTypeOK
<1>2. CASE UNCHANGED <<runs, applied>>
  BY <1>1, <1>2
<1>3. CASE ~UNCHANGED <<runs, applied>>
  <2>1. PICK r : r = calls[t].run
    OBVIOUS
  <2>2. PICK S : S = IF "research" \in r[2] THEN {f \in Fields : calls[t].seen[f] # "none"}
                     ELSE {f \in Fields : calls[t].seen[f] # "none"} \cup found
    OBVIOUS
  <2>3. /\ r \in DOMAIN runs /\ S \in SUBSET Fields
        /\ runs' = [runs EXCEPT ![r].accepted = S] /\ applied' = applied \cup {<<"events", r>>}
    BY <1>3, <2>1, <2>2 DEF Proposed, RunExists
  <2>4. QED
    BY <1>1, <2>3
<1>4. QED
  BY <1>2, <1>3

\* A step of a look.
LEMMA LookMoves ==
    ASSUME EnrichConstants, EnrichInv, NEW t \in Actors, calls[t].pc = "looking",
           NEW found \in SUBSET Fields, Proposed(t, found), NEW c, SameRun(calls[t], c),
           calls' = [calls EXCEPT ![t] = c],
           UNCHANGED <<registry, drafts, pump, epoch, begun, amiss, spent, scope>>,
           c.pc = "graft" => /\ drafts[calls[t].draft].kind = "invoice" => c.fields \in Filled
                             /\ drafts[calls[t].draft].status = "staged",
           c.pc = "finish" => c.outcome # "completed"
    PROVE  EnrichInv'
<1>1. PICK b : b = calls[t]
  OBVIOUS
<1>2. /\ DOMAIN runs' = DOMAIN runs /\ \A r \in DOMAIN runs : runs'[r].status = runs[r].status
      /\ runs' \in [DOMAIN runs' -> [status : Outcomes \cup {"started"}, accepted : SUBSET Fields, at : Nat]]
      /\ applied \subseteq applied' /\ \A key \in applied' : key \in applied \/ key[1] # "apply"
  BY ProposedKeeps
<1>3. Later /\ LatesKnown /\ OwnRuns(t) /\ OwnGraft(t, c) /\ AmissGrows /\ GraftsGrow
  BY <1>2 DEF Later, LatesKnown, OwnRuns, OwnGraft, AmissGrows, GraftsGrow
<1>4. RunsGrow /\ BegunGrows
  BY <1>2 DEF RunsGrow, BegunGrows
<1>5. EnrichTypeOK'
  BY <1>2 DEF EnrichInv, EnrichTypeOK, SameRun
<1>6. RegistryExact' /\ (CallSound(t, c))' /\ (Due(c) => Continues(t, c))
  <2>1. b.pc = "looking" /\ SameRun(b, c)
    BY <1>1
  <2>2. c.pc = "graft" =>
              /\ drafts'[b.draft].kind = "invoice" => c.fields \in Filled
              /\ drafts'[b.draft].status = "staged" \/ <<"late", b.draft>> \in amiss'
    BY <1>1
  <2>3. QED
    BY <1>1, <1>3, <2>1, <2>2, RunGoesOn
<1>7. QED
  BY <1>3, <1>4, <1>5, <1>6, StepKeeps DEF Grows, SameRun

\* run_web_search_tier, and the check before the graft.
LEMMA LookKeeps ==
    ASSUME EnrichConstants, EnrichInv, NEW t \in Actors, Look(t) \/ LookInVain(t)
    PROVE  EnrichInv'
<1>1. calls[t].pc = "looking"
  BY AtWork DEF Look, LookInVain
<1>2. PICK b : b = calls[t]
  OBVIOUS
<1>3. b.pc = "looking" /\ drafts[b.draft] \in Row /\ b.draft \in Drafts
  BY <1>1, <1>2, RunFacts
<1>4. UNCHANGED <<registry, drafts, pump, epoch, begun, amiss, spent, scope>>
  BY DEF Look, LookInVain
<1>5. CASE LookInVain(t)
  <2>1. PICK outcome \in {"partial", "failed"} : Proposed(t, {}) /\ Goto(t, Outcome(t, outcome))
    BY <1>5 DEF LookInVain
  <2>2. PICK c : c = Outcome(t, outcome)
    OBVIOUS
  <2>3. SameRun(b, c) /\ c.pc = "finish" /\ c.outcome # "completed"
    BY <1>2, <1>3, <2>1, <2>2, OutcomePlace DEF Outcomes
  <2>4. calls' = [calls EXCEPT ![t] = c] /\ {} \in SUBSET Fields
    BY <2>1, <2>2 DEF Goto
  <2>5. QED
    BY <1>1, <1>2, <1>4, <2>1, <2>3, <2>4, LookMoves
<1>6. CASE Look(t)
  <2>1. PICK found \in SUBSET Missing(drafts[b.draft].kind, b.seen) :
           /\ Proposed(t, found)
           /\ Goto(t, IF drafts[b.draft].kind = "crm" THEN CheckRecord(t, found) ELSE CheckCustomer(t, found))
    BY <1>2, <1>6 DEF Look, Mine
  <2>2. found \in SUBSET Fields
    BY <2>1 DEF Missing, MissingRecordFields, MissingCustomerFields
  <2>3. PICK c : c = IF drafts[b.draft].kind = "crm" THEN CheckRecord(t, found) ELSE CheckCustomer(t, found)
    OBVIOUS
  <2>4. calls' = [calls EXCEPT ![t] = c]
    BY <2>1, <2>3 DEF Goto
  <2>5. PICK fields : fields = Fill(drafts[b.draft].fields, found)
    OBVIOUS
  <2>6. fields \in Filled
    BY <1>3, <2>5 DEF Fill, Filled, Row, Values
  <2>7. /\ SameRun(b, c)
        /\ c.pc = "graft" => /\ drafts[b.draft].kind = "invoice" => c.fields \in Filled
                             /\ drafts[b.draft].status = "staged"
        /\ c.pc = "finish" => c.outcome # "completed"
    <3>1. CASE \E outcome \in {"partial", "failed"} : c = Outcome(t, outcome)
      <4>1. PICK outcome \in {"partial", "failed"} : c = Outcome(t, outcome)
        BY <3>1
      <4>2. SameRun(b, c) /\ c.pc = "finish" /\ c.outcome # "completed"
        BY <1>2, <1>3, <4>1, OutcomePlace DEF Outcomes
      <4>3. QED
        BY <4>2
    <3>2. CASE c = Graft(t, found, NoRow) /\ drafts[b.draft].kind = "crm" /\ drafts[b.draft].status = "staged"
      <4>1. SameRun(b, c) /\ c.pc = "graft"
        BY <1>2, <1>3, <2>2, <3>2, GraftPlace
      <4>2. QED
        BY <3>2, <4>1
    <3>3. CASE c = Graft(t, found, fields) /\ drafts[b.draft].status = "staged"
      <4>1. SameRun(b, c) /\ c.pc = "graft" /\ c.fields = fields
        BY <1>2, <1>3, <2>2, <2>6, <3>3, GraftPlace
      <4>2. QED
        BY <2>6, <3>3, <4>1
    <3>4. QED
      BY <1>2, <2>3, <2>5, <3>1, <3>2, <3>3 DEF CheckRecord, CheckCustomer, Mine
  <2>8. QED
    BY <1>1, <1>2, <1>4, <2>1, <2>2, <2>4, <2>7, LookMoves
<1>7. QED
  BY <1>5, <1>6

\* The graft's write fails.
LEMMA ApplyFailsKeeps ==
    ASSUME EnrichConstants, EnrichInv, NEW t \in Actors, ApplyFails(t)
    PROVE  EnrichInv'
<1>1. PICK b : b = calls[t]
  OBVIOUS
<1>2. b.pc = "graft"
  BY <1>1, AtWork DEF ApplyFails
<1>3. PICK c : c = Outcome(t, "failed")
  OBVIOUS
<1>4. SameRun(b, c) /\ c.pc = "finish" /\ c.outcome = "failed"
  BY <1>1, <1>2, <1>3, OutcomePlace DEF Outcomes
<1>5. /\ calls' = [calls EXCEPT ![t] = c] /\ Spend("faults")
      /\ UNCHANGED <<registry, drafts, runs, applied, begun, amiss, pump, epoch, scope>>
  BY <1>3 DEF ApplyFails, Goto, db
<1>6. Grows /\ Later /\ LatesKnown /\ OwnRuns(t) /\ OwnGraft(t, c)
  BY <1>5, TablesStill DEF Grows
<1>7. EnrichTypeOK'
  <2>1. spent' \in [acts : Nat, sends : Nat, faults : Nat]
    BY <1>5, SpentStays
  <2>2. QED
    BY <1>4, <1>5, <2>1 DEF EnrichInv, EnrichTypeOK, SameRun
<1>8. RegistryExact' /\ (CallSound(t, c))' /\ (Due(c) => Continues(t, c))
  BY <1>1, <1>2, <1>4, <1>5, <1>6, RunGoesOn
<1>9. QED
  BY <1>4, <1>5, <1>6, <1>7, <1>8, StepKeeps DEF SameRun


\* What the graft writes: a whole row.
LEMMA GraftedIsFilled ==
    ASSUME EnrichInv, NEW t \in Actors, calls[t].pc = "graft"
    PROVE  (IF Mine(t).kind = "crm" THEN GraftedRecord(t) ELSE GraftedCustomer(t)) \in Filled
<1>1. PICK b : b = calls[t]
  OBVIOUS
<1>2. b.draft \in Drafts /\ drafts[b.draft] \in Row /\ CallSound(t, b) /\ b # Idle /\ b.pc = "graft"
  BY <1>1, RunFacts
<1>3. CASE drafts[b.draft].kind = "crm"
  <2>1. drafts[b.draft].fields \in Filled
    BY <1>2 DEF Row
  <2>2. Fill(drafts[b.draft].fields, b.found) \in Filled
    BY <2>1 DEF Fill, Filled, Values
  <2>3. QED
    BY <1>1, <1>3, <2>2 DEF Mine, GraftedRecord
<1>4. CASE drafts[b.draft].kind # "crm"
  <2>1. drafts[b.draft].kind = "invoice"
    BY <1>2, <1>4 DEF Row, DraftKinds
  <2>2. b.fields \in Filled
    BY <1>2, <2>1 DEF CallSound
  <2>3. QED
    BY <1>1, <1>4, <2>2 DEF Mine, GraftedCustomer
<1>5. QED
  BY <1>3, <1>4

\* A row gets new fields: it stays the row it was.
LEMMA RowRefilled ==
    ASSUME EnrichTypeOK, NEW d \in Drafts, drafts[d] # NoDraft, NEW new \in Filled,
           NEW rec, rec = [drafts[d] EXCEPT !.fields = new], drafts' = [drafts EXCEPT ![d] = rec]
    PROVE  /\ drafts' \in [Drafts -> {NoDraft} \cup Row] /\ drafts'[d] = rec /\ rec.fields = new
           /\ \A e \in Drafts : e # d => drafts'[e] = drafts[e]
           /\ rec # NoDraft /\ rec.kind = drafts[d].kind
           /\ rec.status = drafts[d].status /\ rec.job = drafts[d].job
<1>1. drafts[d] \in Row /\ drafts \in [Drafts -> {NoDraft} \cup Row]
  BY RowShape DEF EnrichTypeOK
<1>2. /\ rec \in Row /\ rec.kind = drafts[d].kind /\ rec.status = drafts[d].status
      /\ rec.job = drafts[d].job /\ rec.fields = new
  BY <1>1 DEF Row
<1>3. QED
  BY <1>1, <1>2, RowIsThere

\* What is put down when a row may have got a new plan.
LEMMA ReplannedFacts ==
    ASSUME NEW d, NEW rec, amiss' = amiss \cup Replanned(d, rec)
    PROVE  /\ amiss \subseteq amiss'
           /\ \A a \in amiss' : a \in amiss \/ a[1] \in {"replanned", "overtaken"}
           /\ \/ Plan(rec) = Plan(drafts[d])
              \/ /\ <<"replanned", d>> \in amiss'
                 /\ pump.todo[d] # NoRun => <<"overtaken", d>> \in amiss'
<1>1. \A a \in Replanned(d, rec) : a = <<"replanned", d>> \/ a = <<"overtaken", d>>
  BY DEF Replanned
<1>2. \A a \in Replanned(d, rec) : a[1] \in {"replanned", "overtaken"}
  BY <1>1
<1>3. Plan(rec) # Plan(drafts[d]) =>
        /\ <<"replanned", d>> \in Replanned(d, rec)
        /\ pump.todo[d] # NoRun => <<"overtaken", d>> \in Replanned(d, rec)
  BY DEF Replanned
<1>4. QED
  BY <1>2, <1>3

\* The transaction of the graft.
LEMMA ApplyKeeps ==
    ASSUME EnrichConstants, EnrichInv, NEW t \in Actors, Apply(t)
    PROVE  EnrichInv'
<1>1. PICK b : b = calls[t]
  OBVIOUS
<1>2. b.pc = "graft" /\ calls[t].pc = "graft"
  BY <1>1, AtWork DEF Apply
<1>3. /\ b.draft \in Drafts /\ b.run \in RunIds /\ b.run[1] = b.draft /\ drafts[b.draft] # NoDraft
      /\ drafts[b.draft] \in Row /\ CallSound(t, b) /\ OwnRun(t, b) /\ Due(b)
      /\ GraftOf(b) = Origin(b.run) /\ b # Idle
  BY <1>1, <1>2, RunFacts
<1>4. PICK o \in {"completed", "partial"} : Goto(t, Outcome(t, o))
  BY DEF Apply
<1>5. PICK c : c = Outcome(t, o)
  OBVIOUS
<1>6. SameRun(b, c) /\ c.pc = "finish" /\ ~Due(c)
  BY <1>1, <1>2, <1>4, <1>5, OutcomePlace DEF Outcomes, Due
<1>7. calls' = [calls EXCEPT ![t] = c] /\ UNCHANGED <<registry, runs, pump, epoch, begun, spent, scope>>
  BY <1>4, <1>5 DEF Apply, Goto
<1>8. CASE /\ Replayed(<<"apply", calls[t].run>>)
           /\ amiss' = amiss \cup {<<"hollow", calls[t].run>>}
           /\ UNCHANGED <<drafts, applied>>
  <2>1. <<"apply", b.run>> \in applied /\ amiss' = amiss \cup {<<"hollow", b.run>>}
    BY <1>1, <1>8 DEF Replayed
  <2>2. SharedOrigin(Origin(b.run)) \/ MayRepeat(b.run)
    <3>1. Pending(t) /\ OriginOf(t) = Origin(b.run)
      BY <1>1, <1>3, DueFacts
    <3>2. PICK key \in applied : key = <<"apply", b.run>>
      BY <2>1
    <3>3. key[1] = "apply" /\ key[2] = b.run /\ b.run = calls[t].run
      BY <1>1, <3>2
    <3>4. QED
      BY <3>1, <3>3 DEF EnrichInv, RunsExclusive
  <2>3. AmissGrows
    <3>1. PICK a : a = <<"hollow", b.run>>
      OBVIOUS
    <3>2. a[1] = "hollow" /\ a[2] = b.run
      BY <3>1
    <3>3. MayRepeat(b.run) => (MayRepeat(b.run))'
      BY <2>1 DEF MayRepeat
    <3>4. SharedOrigin(Origin(a[2])) \/ (MayRepeat(a[2]))'
      BY <2>2, <3>2, <3>3
    <3>5. QED
      BY <2>1, <3>1, <3>2, <3>4 DEF AmissGrows
  <2>4. Later /\ LatesKnown /\ OwnRuns(t) /\ OwnGraft(t, c) /\ RunsGrow /\ GraftsGrow /\ BegunGrows
    BY <1>7, <1>8, <2>1 DEF Later, LatesKnown, OwnRuns, OwnGraft, RunsGrow, GraftsGrow, BegunGrows
  <2>5. EnrichTypeOK'
    BY <1>6, <1>7, <1>8 DEF EnrichInv, EnrichTypeOK, SameRun
  <2>6. <<"apply", b.run>> \in applied'
    BY <1>8, <2>1
  <2>7. RegistryExact' /\ (CallSound(t, c))'
    BY <1>1, <1>2, <1>6, <1>7, <2>4, <2>6, RunGoesOn
  <2>8. QED
    BY <1>6, <1>7, <2>3, <2>4, <2>5, <2>7, StepKeeps DEF Grows, SameRun
<1>9. CASE /\ ~Replayed(<<"apply", calls[t].run>>)
           /\ applied' = applied \cup {<<"apply", calls[t].run>>}
           /\ drafts' = [drafts EXCEPT ![calls[t].draft] =
                  [Mine(t) EXCEPT !.fields =
                      IF Mine(t).kind = "crm" THEN GraftedRecord(t) ELSE GraftedCustomer(t)]]
           /\ amiss' = amiss \cup Replanned(calls[t].draft,
                  [Mine(t) EXCEPT !.fields =
                      IF Mine(t).kind = "crm" THEN GraftedRecord(t) ELSE GraftedCustomer(t)])
  <2>1. PICK new : new = IF Mine(t).kind = "crm" THEN GraftedRecord(t) ELSE GraftedCustomer(t)
    OBVIOUS
  <2>2. PICK d \in Drafts : d = b.draft
    BY <1>3
  <2>3. PICK rec : rec = [drafts[d] EXCEPT !.fields = new]
    OBVIOUS
  <2>4. /\ new \in Filled /\ drafts' = [drafts EXCEPT ![d] = rec] /\ drafts[d] # NoDraft
        /\ amiss' = amiss \cup Replanned(d, rec)
    <3>1. new \in Filled
      BY <1>2, <2>1, GraftedIsFilled
    <3>2. Mine(t) = drafts[d]
      BY <1>1, <2>2 DEF Mine
    <3>3. QED
      BY <1>1, <1>3, <1>9, <2>1, <2>2, <2>3, <3>1, <3>2
  <2>5. /\ drafts' \in [Drafts -> {NoDraft} \cup Row] /\ drafts'[d] = rec
        /\ \A e \in Drafts : e # d => drafts'[e] = drafts[e]
        /\ rec # NoDraft /\ rec.kind = drafts[d].kind
        /\ rec.status = drafts[d].status /\ rec.job = drafts[d].job
    BY <2>3, <2>4, RowRefilled DEF EnrichInv
  <2>6. /\ amiss \subseteq amiss'
        /\ \A a \in amiss' : a \in amiss \/ a[1] \in {"replanned", "overtaken"}
        /\ \/ Plan(rec) = Plan(drafts[d])
           \/ /\ <<"replanned", d>> \in amiss'
              /\ pump.todo[d] # NoRun => <<"overtaken", d>> \in amiss'
    BY <2>4, ReplannedFacts
  <2>7. applied' = applied \cup {<<"apply", b.run>>}
    BY <1>1, <1>9
  <2>8. Later /\ OwnRuns(t) /\ AmissGrows /\ RunsGrow /\ BegunGrows
    <3>1. Later
      BY <1>7, <2>5, <2>6, <2>7 DEF Later
    <3>2. AmissGrows
      BY <2>6 DEF AmissGrows
    <3>3. OwnRuns(t) /\ RunsGrow /\ BegunGrows
      BY <1>7 DEF OwnRuns, RunsGrow, BegunGrows
    <3>4. QED
      BY <3>1, <3>2, <3>3
  <2>9. LatesKnown
    <3>1. ASSUME NEW u \in Actors, calls[u].pc = "graft" PROVE calls[u].draft \in Drafts
      BY <3>1, RunFacts
    <3>2. QED
      BY <2>5, <3>1 DEF LatesKnown
  <2>10. GraftsGrow
    <3>1. "manual" \in b.run[2] => <<"kickoff", b.run[3]>> \in applied
      BY <1>2, <1>3 DEF OwnRun, BucketRun, PlanRun, ResearchRun, Fields, Replayed
    <3>2. "bucket" \in b.run[2] => b.run \in DOMAIN runs \/ <<"unrecorded", b.run>> \in amiss
      BY <1>2, <1>3 DEF OwnRun, ManualRun, PlanRun, ResearchRun, Fields, RunExists
    <3>3. QED
      BY <1>3, <2>7, <3>1, <3>2 DEF GraftsGrow
  <2>11. OwnGraft(t, c)
    BY <1>1, <1>2, <1>6, <2>7 DEF OwnGraft
  <2>12. EnrichTypeOK'
    <3>1. \A e \in Drafts : drafts'[e] # NoDraft => (drafts'[e].job # NoJob <=> drafts'[e].status = "approved")
      BY <2>4, <2>5 DEF EnrichInv, EnrichTypeOK
    <3>2. calls' \in [Actors -> EnrichCall]
      BY <1>6, <1>7 DEF EnrichInv, EnrichTypeOK, SameRun
    <3>3. QED
      BY <1>7, <2>5, <3>1, <3>2 DEF EnrichInv, EnrichTypeOK
  <2>13. RegistryExact' /\ (CallSound(t, c))'
    <3>1. <<"apply", b.run>> \in applied'
      BY <2>7
    <3>2. QED
      BY <1>1, <1>2, <1>6, <1>7, <2>8, <3>1, RunGoesOn
  <2>14. QED
    BY <1>6, <1>7, <2>8, <2>9, <2>10, <2>11, <2>12, <2>13, StepKeeps DEF Grows, SameRun
<1>10. QED
  BY <1>8, <1>9 DEF Apply

\* transition_run_status, and the guard is dropped.
LEMMA FinishKeeps ==
    ASSUME EnrichConstants, EnrichInv, NEW t \in Actors, Finish(t)
    PROVE  EnrichInv'
<1>1. PICK b : b = calls[t]
  OBVIOUS
<1>2. b.pc = "finish"
  BY <1>1, AtWork DEF Finish
<1>3. b \in EnrichCall /\ b # Idle /\ b.guard \in Guards /\ CallSound(t, b)
  BY <1>1, <1>2, RunFacts
<1>4. b.outcome \in Outcomes
  BY <1>2, <1>3, CallShape
<1>5. /\ calls' = [calls EXCEPT ![t] = Idle] /\ ReleaseGuard(t)
      /\ UNCHANGED <<drafts, pump, epoch, begun, amiss, spent, scope>>
  BY DEF Finish, Goto
<1>6. IF Held(calls[t]) THEN ReleaseGuard(t) ELSE UNCHANGED registry
  BY <1>1, <1>2, <1>3, <1>5 DEF Held, ReleaseGuard, Guards, registry
<1>7. /\ DOMAIN runs' = DOMAIN runs
      /\ \A r \in DOMAIN runs : runs'[r].status = runs[r].status \/ (r = b.run /\ runs'[r].status = b.outcome)
      /\ runs' \in [DOMAIN runs' -> [status : Outcomes \cup {"started"}, accepted : SUBSET Fields, at : Nat]]
      /\ applied \subseteq applied' /\ \A key \in applied' : key \in applied \/ key[1] # "apply"
  <2>1. runs \in [DOMAIN runs -> [status : Outcomes \cup {"started"}, accepted : SUBSET Fields, at : Nat]]
        /\ epoch \in Nat
    BY DEF EnrichInv, EnrichTypeOK
  <2>2. CASE UNCHANGED <<runs, applied>>
    BY <2>1, <2>2
  <2>3. CASE ~UNCHANGED <<runs, applied>>
    <3>1. PICK r : r = b.run
      OBVIOUS
    <3>2. /\ r \in DOMAIN runs /\ runs' = [runs EXCEPT ![r].status = b.outcome, ![r].at = epoch]
          /\ applied' = applied \cup {<<"status", r, b.outcome>>}
      BY <1>1, <2>3, <3>1 DEF Finish, RunExists
    <3>3. PICK rec : rec = [runs[r] EXCEPT !.status = b.outcome, !.at = epoch]
      OBVIOUS
    <3>4. rec \in [status : Outcomes \cup {"started"}, accepted : SUBSET Fields, at : Nat]
          /\ rec.status = b.outcome
      BY <1>4, <2>1, <3>2, <3>3
    <3>5. runs' = [runs EXCEPT ![r] = rec]
      BY <2>1, <3>2, <3>3
    <3>6. QED
      BY <2>1, <3>1, <3>2, <3>4, <3>5
  <2>4. QED
    BY <2>2, <2>3
<1>8. Later /\ LatesKnown /\ OwnRuns(t) /\ OwnGraft(t, Idle) /\ AmissGrows /\ GraftsGrow /\ BegunGrows
  BY <1>5, <1>7 DEF Later, LatesKnown, OwnRuns, OwnGraft, AmissGrows, GraftsGrow, BegunGrows
<1>9. RunsGrow
  <2>1. b.outcome = "completed" => <<"apply", b.run>> \in applied'
    BY <1>2, <1>3, <1>7 DEF CallSound, Replayed
  <2>2. QED
    BY <1>7, <2>1 DEF RunsGrow
<1>10. EnrichTypeOK'
  <2>1. Idle \in EnrichCall
    BY DEF EnrichCall
  <2>2. QED
    BY <1>5, <1>7, <2>1 DEF EnrichInv, EnrichTypeOK
<1>11. QED
  BY <1>5, <1>6, <1>8, <1>9, <1>10, EndKeeps DEF Grows

-----------------------------------------------------------------------------
(* The operator, the pump and the clock.                                    *)

\* insert_draft: nothing is known of a draft before it is there.
LEMMA StageKeeps ==
    ASSUME EnrichConstants, EnrichInv, NEW t \in Threads, NEW d \in Drafts, Stage(t, d)
    PROVE  EnrichInv'
<1>1. t \in Actors /\ t # Pump /\ calls[t] = Idle /\ drafts[d] = NoDraft
  BY ThreadNames DEF Stage, Free
<1>2. PICK sort \in scope.kinds, fill \in scope.fills :
         drafts' = [drafts EXCEPT ![d] = StagedRow(sort, fill)]
  BY DEF Stage
<1>3. PICK rec : rec = StagedRow(sort, fill)
  OBVIOUS
<1>4. rec \in Row /\ rec.job = NoJob /\ rec.status = "staged" /\ rec # NoDraft
  <2>1. sort \in DraftKinds /\ fill \in [fields : Filled, contact : BOOLEAN, sourced : BOOLEAN]
    BY <1>2 DEF EnrichInv, EnrichTypeOK, EnrichConstants, Scope
  <2>2. QED
    BY <1>3, <2>1, RowIsThere DEF StagedRow, Row, Statuses
<1>5. PICK c : c = [pc |-> "staged", draft |-> d]
  OBVIOUS
<1>6. /\ c \in EnrichCall /\ c # Idle /\ c.pc = "staged" /\ c.draft = d /\ ~Held(c)
      /\ GraftOf(c) = <<d, {"plan"}, 0>>
  BY <1>5 DEF EnrichCall, Idle, GraftOf, Held
<1>7. /\ calls' = [calls EXCEPT ![t] = c] /\ drafts' = [drafts EXCEPT ![d] = rec]
      /\ UNCHANGED <<registry, runs, applied, pump, epoch, begun, amiss, spent, scope>>
  BY <1>2, <1>3, <1>5 DEF Stage, Goto
<1>8. drafts'[d] = rec /\ \A e \in Drafts : e # d => drafts'[e] = drafts[e]
  BY <1>7 DEF EnrichInv, EnrichTypeOK
<1>9. Later
  BY <1>1, <1>7, <1>8 DEF Later
<1>10. LatesKnown
  <2>1. ASSUME NEW u \in Actors, calls[u].pc = "graft" PROVE calls[u].draft \in Drafts /\ calls[u].draft # d
    BY <1>1, <2>1, RunFacts
  <2>2. QED
    BY <1>8, <2>1 DEF LatesKnown
<1>11. OwnRuns(t) /\ OwnGraft(t, c) /\ AmissGrows /\ GraftsGrow /\ BegunGrows
  BY <1>7 DEF OwnRuns, OwnGraft, AmissGrows, GraftsGrow, BegunGrows
<1>12. RunsGrow
  BY <1>7 DEF RunsGrow
<1>13. EnrichTypeOK'
  <2>1. drafts' \in [Drafts -> {NoDraft} \cup Row]
    BY <1>4, <1>7 DEF EnrichInv, EnrichTypeOK
  <2>2. \A e \in Drafts : drafts'[e] # NoDraft => (drafts'[e].job # NoJob <=> drafts'[e].status = "approved")
    BY <1>4, <1>8 DEF EnrichInv, EnrichTypeOK
  <2>3. QED
    BY <1>6, <1>7, <2>1, <2>2 DEF EnrichInv, EnrichTypeOK
<1>14. RegistryExact'
  <2>1. ~Held(calls[t])
    BY <1>1 DEF Held, Idle
  <2>2. QED
    BY <1>1, <1>6, <1>7, <2>1, EpochSame, RegistryStays DEF EnrichInv
<1>15. (CallSound(t, c))'
  BY <1>1, <1>4, <1>6, <1>8 DEF CallSound
<1>16. Untouched(t, c)
  <2>1. \A u \in Actors : Due(calls[u]) => GraftOf(calls[u]) # GraftOf(c)
    BY <1>1, <1>6, DueIsThere
  <2>2. ASSUME NEW key \in applied', key[1] = "apply", Origin(key[2]) = GraftOf(c) PROVE FALSE
    <3>1. key[2] \in RunIds /\ drafts[key[2][1]] # NoDraft
      BY <1>7, <2>2 DEF EnrichInv, RecordsSound
    <3>2. key[2][1] = d
      BY <1>6, <2>2, <3>1 DEF Origin
    <3>3. QED
      BY <1>1, <3>1, <3>2
  <2>3. QED
    BY <2>1, <2>2 DEF Untouched
<1>17. QED
  BY <1>1, <1>6, <1>7, <1>9, <1>10, <1>11, <1>12, <1>13, <1>14, <1>15, <1>16, StepKeeps DEF Grows

\* A step of the operator on one draft.
LEMMA ActKeeps ==
    ASSUME EnrichConstants, EnrichInv, NEW d \in Drafts, drafts[d].status = "staged",
           Spend("acts"), NEW rec \in Row, drafts' = [drafts EXCEPT ![d] = rec],
           rec.kind = drafts[d].kind, rec.job # NoJob <=> rec.status = "approved",
           amiss' = amiss \cup (IF rec.status = "staged" THEN Replanned(d, rec) ELSE Late(d)),
           rec.status # "staged" => Plan(rec) = Plan(drafts[d]),
           UNCHANGED <<registry, runs, applied, calls, pump, epoch, begun, scope>>
    PROVE  EnrichInv'
<1>1. drafts[d] # NoDraft /\ drafts[d] \in Row
  BY RowShape DEF EnrichInv, NoDraft
<1>2. drafts'[d] = rec /\ \A e \in Drafts : e # d => drafts'[e] = drafts[e]
  BY DEF EnrichInv, EnrichTypeOK
<1>3. rec # NoDraft
  BY RowIsThere
<1>4. /\ amiss \subseteq amiss'
      /\ \A a \in amiss' : a \in amiss \/ a[1] \in {"late", "replanned", "overtaken"}
      /\ \/ Plan(rec) = Plan(drafts[d])
         \/ /\ <<"replanned", d>> \in amiss'
            /\ pump.todo[d] # NoRun => <<"overtaken", d>> \in amiss'
  <2>1. CASE rec.status = "staged"
    BY <2>1, ReplannedFacts
  <2>2. CASE rec.status # "staged"
    BY <2>2 DEF Late
  <2>3. QED
    BY <2>1, <2>2
<1>5. Later
  BY <1>1, <1>2, <1>3, <1>4 DEF Later
<1>6. LatesKnown
  <2>1. SUFFICES ASSUME NEW u \in Actors, calls[u].pc = "graft", drafts[calls[u].draft].status = "staged",
                        drafts'[calls[u].draft].status # "staged"
                 PROVE  <<"late", calls[u].draft>> \in amiss'
    BY DEF LatesKnown
  <2>2. calls[u].draft \in Drafts /\ calls[u] # Idle
    BY <2>1, RunFacts
  <2>3. calls[u].draft = d /\ rec.status # "staged"
    BY <1>2, <2>1, <2>2
  <2>4. u \in Grafting(d)
    BY <2>1, <2>2, <2>3 DEF Grafting
  <2>5. QED
    BY <2>3, <2>4 DEF Late
<1>7. Grows
  <2>1. AmissGrows
    BY <1>4 DEF AmissGrows
  <2>2. QED
    BY <1>5, <2>1 DEF Grows, RunsGrow, GraftsGrow, BegunGrows
<1>8. EnrichTypeOK'
  <2>1. drafts' \in [Drafts -> {NoDraft} \cup Row]
    BY DEF EnrichInv, EnrichTypeOK
  <2>2. \A e \in Drafts : drafts'[e] # NoDraft => (drafts'[e].job # NoJob <=> drafts'[e].status = "approved")
    BY <1>2 DEF EnrichInv, EnrichTypeOK
  <2>3. spent' \in [acts : Nat, sends : Nat, faults : Nat]
    BY SpentStays
  <2>4. QED
    BY <2>1, <2>2, <2>3 DEF EnrichInv, EnrichTypeOK
<1>9. RegistryExact'
  <2>1. PICK u : u = Pump
    OBVIOUS
  <2>2. PICK c : c = calls[u]
    OBVIOUS
  <2>3. u \in Actors /\ calls' = [calls EXCEPT ![u] = c]
    BY <2>1, <2>2, ThreadNames DEF EnrichInv, EnrichTypeOK
  <2>4. QED
    BY <1>4, <2>2, <2>3, EpochSame, RegistryStays DEF EnrichInv
<1>10. CallsSound'
  <2>1. TodoSound'
    BY <1>5, TodoStays DEF EnrichInv, CallsSound, TodoSound, RunExists
  <2>2. QED
    BY <1>5, <1>6, <2>1, CallsStand
<1>11. QED
  BY <1>5, <1>7, <1>8, <1>9, <1>10, RecordsStay, RunsStand DEF EnrichInv

\* The operator edits, approves or rejects.
LEMMA EnrichOperatorKeeps ==
    ASSUME EnrichConstants, EnrichInv, NEW d \in Drafts, Edit(d) \/ Approve(d) \/ Reject(d)
    PROVE  EnrichInv'
<1>1. drafts[d].status = "staged" /\ Spend("acts")
      /\ UNCHANGED <<registry, runs, applied, calls, pump, epoch, begun, scope>>
  BY DEF Edit, Approve, Reject
<1>2. drafts[d] # NoDraft
  BY <1>1 DEF NoDraft
<1>3. drafts[d] \in Row /\ drafts[d].fields \in Filled /\ drafts[d].job = NoJob
  BY <1>1, <1>2, RowShape DEF EnrichInv, EnrichTypeOK
<1>4. CASE Edit(d)
  <2>1. PICK new \in EditedFields(drafts[d].fields), contact \in EditedContact(drafts[d]) :
           /\ drafts' = [drafts EXCEPT ![d] = [drafts[d] EXCEPT !.fields = new, !.contact = contact]]
           /\ amiss' = amiss \cup Replanned(d, [drafts[d] EXCEPT !.fields = new, !.contact = contact])
    BY <1>4 DEF Edit
  <2>2. new \in Filled /\ contact \in BOOLEAN
    BY <1>3, <2>1 DEF EditedFields, EditedContact, Row
  <2>3. PICK rec : rec = [drafts[d] EXCEPT !.fields = new, !.contact = contact]
    OBVIOUS
  <2>4. rec \in Row /\ rec.kind = drafts[d].kind /\ rec.job = NoJob /\ rec.status = "staged"
    BY <1>1, <1>3, <2>2, <2>3 DEF Row
  <2>5. drafts' = [drafts EXCEPT ![d] = rec] /\ amiss' = amiss \cup Replanned(d, rec)
    BY <2>1, <2>3
  <2>6. QED
    BY <1>1, <2>4, <2>5, ActKeeps
<1>5. CASE Approve(d)
  <2>1. PICK rec : rec = [drafts[d] EXCEPT !.status = "approved", !.job = drafts[d].fields]
    OBVIOUS
  <2>2. /\ rec \in Row /\ rec.kind = drafts[d].kind /\ rec.job = drafts[d].fields
        /\ rec.status = "approved" /\ Plan(rec) = Plan(drafts[d])
    BY <1>3, <2>1 DEF Row, Statuses, Plan, Subject, Seed
  <2>3. drafts' = [drafts EXCEPT ![d] = rec] /\ amiss' = amiss \cup Late(d)
    BY <1>5, <2>1 DEF Approve, EnrichInv, EnrichTypeOK
  <2>4. rec.job # NoJob
    BY <1>3, <2>2, FilledIsThere
  <2>5. QED
    BY <1>1, <2>2, <2>3, <2>4, ActKeeps
<1>6. CASE Reject(d)
  <2>1. PICK rec : rec = [drafts[d] EXCEPT !.status = "rejected"]
    OBVIOUS
  <2>2. /\ rec \in Row /\ rec.kind = drafts[d].kind /\ rec.job = NoJob
        /\ rec.status = "rejected" /\ Plan(rec) = Plan(drafts[d])
    BY <1>3, <2>1 DEF Row, Statuses, Plan, Subject, Seed
  <2>3. drafts' = [drafts EXCEPT ![d] = rec] /\ amiss' = amiss \cup Late(d)
    BY <1>6, <2>1 DEF Reject
  <2>4. QED
    BY <1>1, <2>2, <2>3, ActKeeps
<1>7. QED
  BY <1>4, <1>5, <1>6

\* What the pump collects is there, and the bucket has no run for it.
LEMMA ChosenFacts ==
    ASSUME NEW subject, NEW left, NEW e
    PROVE  \A d \in Chosen(subject, left, e) :
              d \in Drafts /\ drafts[d] # NoDraft /\ BucketNow(d, e) \notin DOMAIN runs
BY DEF Chosen, Listed, OfKind, Candidate, RecordCandidate, InvoiceCandidate, RunExists

\* The pump's cycle.
Cycles == [left : 0..Budget, epoch : Nat, ahead : Seq(Subjects), todo : [Drafts -> RunIds \cup {NoRun}]]

\* A step of the pump between runs, or of the clock.
LEMMA IdleKeeps ==
    ASSUME EnrichConstants, EnrichInv,
           UNCHANGED <<registry, drafts, runs, applied, calls, begun, amiss, scope>>,
           spent' \in [acts : Nat, sends : Nat, faults : Nat],
           calls[Pump] # Idle => pump' = pump, epoch' \in Nat \ {0}, pump' # AtRest => pump'.epoch > 0,
           pump' \in Cycles, TodoSound'
    PROVE  EnrichInv'
<1>1. Grows /\ LatesKnown /\ Later
  BY StillGrows DEF Grows
<1>2. EnrichTypeOK'
  BY DEF EnrichInv, EnrichTypeOK, Cycles
<1>3. RegistryExact'
  <2>1. PICK u : u = Pump
    OBVIOUS
  <2>2. PICK c : c = calls[u]
    OBVIOUS
  <2>3. u \in Actors /\ calls' = [calls EXCEPT ![u] = c]
    BY <2>1, <2>2, ThreadNames DEF EnrichInv, EnrichTypeOK
  <2>4. EpochHolds
    BY DEF EpochHolds, Held, Idle
  <2>5. QED
    BY <2>2, <2>3, <2>4, RegistryStays DEF EnrichInv
<1>4. CallsSound'
  BY <1>1, CallsStand
<1>5. QED
  BY <1>1, <1>2, <1>3, <1>4, RecordsStay, RunsStand DEF EnrichInv

\* The pump at rest has collected nothing.
LEMMA RestFacts ==
    ASSUME EnrichConstants
    PROVE  AtRest \in Cycles /\ Nothing \in [Drafts -> RunIds \cup {NoRun}]
           /\ \A d \in Drafts : AtRest.todo[d] = NoRun /\ Nothing[d] = NoRun
BY DEF AtRest, Cycles, Nothing, EnrichConstants

\* try_begin_sync, the collection of candidates, the end of a cycle; the clock.
LEMMA CycleKeeps ==
    ASSUME EnrichConstants, EnrichInv, PumpBegin \/ PumpCollect \/ PumpFails \/ PumpEnd \/ Tick
    PROVE  EnrichInv'
<1>1. UNCHANGED <<registry, drafts, runs, applied, calls, begun, amiss, scope>>
  BY DEF PumpBegin, PumpCollect, PumpFails, PumpEnd, Tick, db
<1>2. /\ pump \in Cycles /\ epoch \in Nat \ {0} /\ Budget \in Nat /\ (pump # AtRest => pump.epoch > 0)
      /\ TodoSound
  BY DEF EnrichInv, EnrichTypeOK, EnrichConstants, CallsSound, Cycles
<1>3. spent' \in [acts : Nat, sends : Nat, faults : Nat]
  <2>1. Spend("faults") \/ UNCHANGED spent
    BY DEF PumpBegin, PumpCollect, PumpFails, PumpEnd, Tick
  <2>2. QED
    BY <2>1, SpentStays
<1>4. CASE PumpBegin
  <2>1. /\ pump' = [left |-> Budget, epoch |-> epoch, ahead |-> <<"company", "contact", "invoice">>,
                    todo |-> Nothing]
        /\ epoch' = epoch /\ calls[Pump] = Idle
    BY <1>4 DEF PumpBegin
  <2>2. <<"company", "contact", "invoice">> \in Seq(Subjects)
    BY DEF Subjects
  <2>3. pump' \in Cycles
    BY <1>2, <2>1, <2>2, RestFacts DEF Cycles
  <2>4. TodoSound'
    BY <2>1, RestFacts DEF TodoSound
  <2>5. QED
    BY <1>1, <1>2, <1>3, <2>1, <2>3, <2>4, IdleKeeps
<1>5. CASE PumpCollect
  <2>1. PICK S : S = Chosen(Head(pump.ahead), pump.left, pump.epoch)
    OBVIOUS
  <2>2. PICK e \in Nat : e = pump.epoch
    BY <1>2 DEF Cycles
  <2>3. PICK todo : todo = [d \in Drafts |-> IF d \in S THEN BucketNow(d, e) ELSE NoRun]
    OBVIOUS
  <2>4. /\ pump' = [pump EXCEPT !.todo = todo, !.ahead = Tail(pump.ahead)] /\ epoch' = epoch
        /\ calls[Pump] = Idle /\ pump # AtRest /\ pump.ahead # <<>>
    BY <1>5, <2>1, <2>2, <2>3 DEF PumpCollect, Collecting, InCycle, Collected
  <2>5. \A d \in S : d \in Drafts /\ drafts[d] # NoDraft /\ BucketNow(d, e) \notin DOMAIN runs
    BY <2>1, <2>2, ChosenFacts
  <2>6. \A d \in S : BucketNow(d, e) \in RunIds /\ BucketNow(d, e) = BucketRun(d, e, Plan(drafts[d]))
                     /\ BucketNow(d, e)[4] = Plan(drafts[d])
    <3>1. \A d \in S : Plan(drafts[d]) \in Plans
      BY <2>5, RowShape, PlanIn DEF EnrichInv
    <3>2. ASSUME NEW d \in S
          PROVE  BucketRun(d, e, Plan(drafts[d])) \in RunIds /\ BucketRun(d, e, Plan(drafts[d]))[4] = Plan(drafts[d])
      BY <2>2, <2>5, <3>1, <3>2 DEF BucketRun, RunIds, Marks
    <3>3. QED
      BY <3>2 DEF BucketNow
  <2>7. Tail(pump.ahead) \in Seq(Subjects) /\ todo \in [Drafts -> RunIds \cup {NoRun}]
    BY <1>2, <2>3, <2>4, <2>5, <2>6 DEF Cycles
  <2>8. pump'.todo = todo /\ pump'.epoch = e /\ pump' \in Cycles
    BY <1>2, <2>2, <2>4, <2>7 DEF Cycles
  <2>9. TodoSound'
    <3>1. ASSUME NEW d \in Drafts, todo[d] # NoRun
          PROVE  /\ drafts[d] # NoDraft /\ todo[d] \notin DOMAIN runs
                 /\ todo[d] = BucketRun(d, e, todo[d][4]) /\ todo[d][4] = Plan(drafts[d])
      <4>1. d \in S /\ todo[d] = BucketNow(d, e)
        BY <2>3, <3>1
      <4>2. QED
        BY <2>5, <2>6, <4>1
    <3>2. QED
      BY <1>1, <2>8, <3>1 DEF TodoSound, RunExists
  <2>10. QED
    BY <1>1, <1>2, <1>3, <2>2, <2>4, <2>8, <2>9, IdleKeeps
<1>6. CASE PumpEnd \/ PumpFails
  <2>1. pump' = AtRest /\ epoch' = epoch /\ calls[Pump] = Idle
    BY <1>6 DEF PumpEnd, PumpFails, Collecting, InCycle
  <2>2. TodoSound' /\ AtRest \in Cycles
    BY <2>1, RestFacts DEF TodoSound
  <2>3. QED
    BY <1>1, <1>2, <1>3, <2>1, <2>2, IdleKeeps
<1>7. CASE Tick
  <2>1. pump' = pump /\ epoch' = epoch + 1
    BY <1>7 DEF Tick
  <2>2. TodoSound'
    BY <1>1, <1>2, <2>1 DEF TodoSound, RunExists
  <2>3. QED
    BY <1>1, <1>2, <1>3, <2>1, <2>2, IdleKeeps
<1>8. QED
  BY <1>4, <1>5, <1>6, <1>7

\* begin_freshness_candidate and run_freshness_enrichment.
LEMMA PumpTryKeeps ==
    ASSUME EnrichConstants, EnrichInv, PumpTry
    PROVE  EnrichInv'
<1>1. /\ UNCHANGED <<drafts, runs, applied, epoch, begun, amiss, spent, scope>>
      /\ calls[Pump] = Idle /\ pump # AtRest /\ pump.left > 0
  BY DEF PumpTry, InCycle, db
<1>2. /\ pump \in Cycles /\ pump.epoch \in Nat /\ pump.todo \in [Drafts -> RunIds \cup {NoRun}]
      /\ epoch \in Nat \ {0} /\ Budget \in Nat /\ pump.epoch > 0 /\ Pump \in Actors /\ TodoSound
      /\ spent' \in [acts : Nat, sends : Nat, faults : Nat]
  BY <1>1, ThreadNames DEF EnrichInv, EnrichTypeOK, EnrichConstants, CallsSound, Cycles
<1>3. PICK d \in Newest(Todo) :
         /\ \/ pump' = [pump EXCEPT !.todo[d] = NoRun]
            \/ pump' = [pump EXCEPT !.todo[d] = NoRun, !.left = @ - 1]
         /\ \/ UNCHANGED <<registry, calls>>
            \/ /\ drafts[d].status = "staged"
               /\ GuardStartedUnbounded(d, pump.todo[d])
               /\ Goto(Pump, Planned(d, BucketNow(d, pump.epoch), drafts[d].fields, "open"))
  BY DEF PumpTry
<1>4. PICK x \in RunIds : x = pump.todo[d]
  BY <1>2, <1>3 DEF Newest, Todo
<1>5. /\ d \in Drafts /\ drafts[d] # NoDraft /\ x \notin DOMAIN runs
      /\ x = BucketRun(d, pump.epoch, x[4]) /\ x # NoRun
      /\ x[4] = Plan(drafts[d]) \/ <<"overtaken", d>> \in amiss
  BY <1>2, <1>3, <1>4 DEF Newest, Todo, TodoSound, RunExists
<1>6. pump' \in Cycles /\ pump'.todo = [pump.todo EXCEPT ![d] = NoRun] /\ pump'.epoch = pump.epoch
  <2>1. PICK todo : todo = [pump.todo EXCEPT ![d] = NoRun]
    OBVIOUS
  <2>2. todo \in [Drafts -> RunIds \cup {NoRun}]
    BY <1>2, <2>1
  <2>3. CASE pump' = [pump EXCEPT !.todo[d] = NoRun]
    <3>1. pump' = [pump EXCEPT !.todo = todo]
      BY <2>1, <2>3
    <3>2. QED
      BY <1>2, <2>1, <2>2, <3>1 DEF Cycles
  <2>4. CASE pump' = [pump EXCEPT !.todo[d] = NoRun, !.left = @ - 1]
    <3>1. pump' = [pump EXCEPT !.todo = todo, !.left = pump.left - 1]
      BY <1>2, <2>1, <2>4 DEF Cycles
    <3>2. pump.left - 1 \in 0..Budget
      BY <1>1, <1>2 DEF Cycles
    <3>3. QED
      BY <1>2, <2>1, <2>2, <3>1, <3>2 DEF Cycles
  <2>5. QED
    BY <1>3, <2>3, <2>4
<1>7. pump'.todo[d] = NoRun /\ \A e \in Drafts : e # d => pump'.todo[e] = pump.todo[e]
  BY <1>2, <1>5, <1>6
<1>8. Grows /\ LatesKnown /\ Later
  BY <1>1, StillGrows DEF Grows
<1>9. TodoSound'
  <2>1. \A e \in Drafts : pump'.todo[e] = NoRun
            \/ /\ pump'.todo[e] = pump.todo[e] /\ pump'.epoch = pump.epoch
               /\ pump.todo[e] \notin DOMAIN runs'
    BY <1>1, <1>2, <1>6, <1>7 DEF TodoSound, RunExists
  <2>2. QED
    BY <1>2, <1>8, <2>1, TodoStays
<1>10. CASE UNCHANGED <<registry, calls>>
  BY <1>1, <1>2, <1>6, <1>9, <1>10, IdleKeeps
<1>11. CASE /\ drafts[d].status = "staged"
            /\ GuardStartedUnbounded(d, pump.todo[d])
            /\ Goto(Pump, Planned(d, BucketNow(d, pump.epoch), drafts[d].fields, "open"))
  <2>1. PICK plan \in Plans : plan = Plan(drafts[d])
    BY <1>5, RowShape, PlanIn DEF EnrichInv
  <2>2. PICK r : r = BucketRun(d, pump.epoch, plan)
    OBVIOUS
  <2>3. /\ r \in RunIds /\ r[1] = d /\ r[2] = {"bucket"} /\ r[4] = plan
        /\ Origin(r) = <<d, {"bucket"}, pump.epoch>>
    BY <1>2, <1>5, <2>1, <2>2 DEF BucketRun, RunIds, Marks, Origin
  <2>4. r = x \/ <<"overtaken", d>> \in amiss
    BY <1>5, <2>1, <2>2
  <2>5. PICK c : c = Planned(d, r, drafts[d].fields, "open")
    OBVIOUS
  <2>6. c \in EnrichCall /\ c # Idle /\ c.pc = "planned" /\ c.draft = d /\ c.run = r /\ c.guard = "open"
    <3>1. drafts[d].fields \in Filled /\ "open" \in Guards
      BY <1>5, RowShape DEF EnrichInv, Guards
    <3>2. QED
      BY <1>5, <2>3, <2>5, <3>1, PlannedCall
  <2>7. calls' = [calls EXCEPT ![Pump] = c] /\ GuardStartedUnbounded(c.draft, x)
    BY <1>4, <1>11, <2>1, <2>2, <2>5, <2>6 DEF Goto, BucketNow
  <2>8. Held(c) /\ ~Held(calls[Pump]) /\ GraftOf(c) = Origin(r)
    BY <1>1, <2>6 DEF Held, Idle, GraftOf
  <2>9. RegistryExact'
    <3>1. (Registers(Pump, c, x))'
      <4>1. x[4] \in Plans /\ x = BucketRun(c.draft, pump'.epoch, x[4])
        BY <1>5, <1>6, <2>6, RunParts
      <4>2. x = c.run \/ <<"overtaken", c.draft>> \in amiss'
        BY <1>1, <2>4, <2>6
      <4>3. QED
        BY <4>1, <4>2 DEF Registers
    <3>2. EpochHolds
      BY <1>1, <1>6 DEF EpochHolds
    <3>3. QED
      BY <1>2, <2>6, <2>7, <2>8, <3>1, <3>2, RegistryTakes DEF EnrichInv
  <2>10. EnrichTypeOK'
    BY <1>1, <1>2, <1>6, <2>6, <2>7 DEF EnrichInv, EnrichTypeOK, Cycles
  <2>11. (CallSound(Pump, c))'
    <3>1. pump' # AtRest
      BY <1>2, <1>6 DEF AtRest
    <3>2. (PlannedNow(c.run))'
      BY <1>1, <2>1, <2>3, <2>6 DEF PlannedNow
    <3>3. c.run \notin DOMAIN runs' \/ <<"overtaken", c.draft>> \in amiss'
      BY <1>1, <1>5, <2>4, <2>6
    <3>4. (OwnRun(Pump, c))'
      BY <1>6, <1>7, <2>2, <2>3, <2>6, <3>1, <3>2, <3>3 DEF OwnRun, RunExists
    <3>5. QED
      BY <1>1, <1>5, <2>6, <3>4 DEF CallSound
  <2>12. CallsSound'
    BY <1>1, <1>2, <1>8, <1>9, <2>7, <2>11, CallsStay
  <2>13. Untouched(Pump, c)
    <3>1. ASSUME NEW u \in Actors, u # Pump, Due(calls[u]), GraftOf(calls[u]) = GraftOf(c) PROVE FALSE
      <4>1. PICK b : b = calls[u]
        OBVIOUS
      <4>2. b # Idle /\ CallSound(u, b) /\ GraftOf(b)[2] = {"bucket"}
        BY <2>3, <2>8, <3>1, <4>1 DEF Due, Idle, EnrichInv, CallsSound
      <4>3. CASE b.pc = "staged"
        BY <4>2, <4>3 DEF GraftOf
      <4>4. CASE b.pc # "staged"
        <5>1. b.run[2] = {"bucket"} /\ OwnRun(u, b)
          BY <4>2, <4>4 DEF GraftOf, Origin, CallSound
        <5>2. QED
          BY <3>1, <5>1 DEF OwnRun, PlanRun, ManualRun, ResearchRun, Fields
      <4>5. QED
        BY <4>3, <4>4
    <3>2. ASSUME NEW key \in applied', key[1] = "apply", key[2] = r PROVE (MayRepeat(key[2]))'
      <4>1. r \in DOMAIN runs \/ <<"unrecorded", r>> \in amiss
        BY <1>1, <2>3, <3>2 DEF EnrichInv, RecordsSound, RunExists
      <4>2. <<"unrecorded", r>> \in amiss' \/ <<"overtaken", r[1]>> \in amiss'
        BY <1>1, <1>5, <2>3, <2>4, <4>1
      <4>3. (MayRepeat(r))'
        BY <2>3, <4>2 DEF MayRepeat
      <4>4. QED
        BY <3>2, <4>3
    <3>3. QED
      BY <2>6, <3>1, <3>2 DEF Untouched
  <2>14. RunsExclusive'
    <3>1. OwnGraft(Pump, c)
      BY <1>1 DEF OwnGraft
    <3>2. QED
      BY <1>2, <1>8, <2>7, <2>13, <3>1, RunsStay
  <2>15. QED
    BY <1>8, <2>9, <2>10, <2>12, <2>14, RecordsStay DEF EnrichInv
<1>12. QED
  BY <1>3, <1>10, <1>11

\* The process is restarted.
LEMMA RestartKeeps ==
    ASSUME EnrichConstants, EnrichInv, Restart
    PROVE  EnrichInv'
<1>1. /\ UNCHANGED <<drafts, runs, applied, epoch, begun, amiss, scope>> /\ Spend("faults")
      /\ calls' = [t \in Actors |-> Idle] /\ pump' = AtRest /\ RegistryLost
  BY DEF Restart, db
<1>2. Grows
  BY <1>1, StillGrows
<1>3. EnrichTypeOK'
  <2>1. spent' \in [acts : Nat, sends : Nat, faults : Nat]
    BY <1>1, SpentStays
  <2>2. Idle \in EnrichCall
    BY DEF EnrichCall
  <2>3. AtRest \in Cycles
    BY RestFacts
  <2>4. QED
    BY <1>1, <2>1, <2>2, <2>3 DEF EnrichInv, EnrichTypeOK, Cycles
<1>4. \A t \in Actors : calls'[t] = Idle /\ ~Held(Idle) /\ ~Due(Idle)
  BY <1>1 DEF Held, Due, Idle
<1>5. RegistryExact'
  <2>1. Limited' = {}
    BY <1>4, LimitedFacts
  <2>2. Cardinality(Limited') = 0
    BY <2>1, FS_EmptySet
  <2>3. byGroup' = 0 /\ byKey' = [k \in Drafts |-> NoRun]
    BY <1>1 DEF RegistryLost, Drafts
  <2>4. QED
    BY <1>4, <2>2, <2>3, LimitedFacts, ThreadNames DEF RegistryExact, AlreadyRunning
<1>6. CallsSound'
  <2>1. \A t \in Actors : CallSound(t, calls[t])'
    BY <1>4 DEF CallSound
  <2>2. QED
    BY <1>1, <2>1, RestFacts DEF CallsSound, TodoSound
<1>7. RunsExclusive'
  BY <1>4, DueFacts DEF RunsExclusive
<1>8. QED
  BY <1>2, <1>3, <1>5, <1>6, <1>7, RecordsStay DEF EnrichInv

\* The process starts on a database that holds staged drafts at most.
LEMMA InitEnrich ==
    ASSUME EnrichConstants, EnrichInit
    PROVE  EnrichInv
<1>1. PICK sort \in scope.kinds, fill \in scope.fills :
         drafts = [d \in Drafts |-> IF d <= scope.staged THEN StagedRow(sort, fill) ELSE NoDraft]
  BY DEF EnrichInit
<1>2. scope \in Scope /\ scope \in Scopes
  BY DEF EnrichInit, EnrichConstants
<1>3. PICK rec : rec = StagedRow(sort, fill)
  OBVIOUS
<1>4. rec \in Row /\ rec.job = NoJob /\ rec.status = "staged"
  <2>1. sort \in DraftKinds /\ fill \in [fields : Filled, contact : BOOLEAN, sourced : BOOLEAN]
    BY <1>1, <1>2 DEF Scope
  <2>2. QED
    BY <1>3, <2>1 DEF StagedRow, Row, Statuses
<1>5. \A d \in Drafts : drafts[d] = rec \/ drafts[d] = NoDraft
  BY <1>1, <1>3
<1>6. \A t \in Actors : calls[t] = Idle /\ ~Held(Idle) /\ ~Due(Idle)
  BY DEF EnrichInit, Held, Due, Idle
<1>7. EnrichTypeOK
  <2>1. drafts \in [Drafts -> {NoDraft} \cup Row]
    BY <1>1, <1>3, <1>4
  <2>2. \A d \in Drafts : drafts[d] # NoDraft => (drafts[d].job # NoJob <=> drafts[d].status = "approved")
    BY <1>4, <1>5
  <2>3. runs \in [DOMAIN runs -> [status : Outcomes \cup {"started"}, accepted : SUBSET Fields, at : Nat]]
    BY DEF EnrichInit
  <2>4. AtRest \in Cycles
    BY RestFacts
  <2>5. Idle \in EnrichCall
    BY DEF EnrichCall
  <2>6. QED
    BY <1>2, <2>1, <2>2, <2>3, <2>4, <2>5 DEF EnrichTypeOK, EnrichInit, Cycles
<1>8. RegistryExact
  <2>1. Limited = {}
    BY <1>6, LimitedFacts
  <2>2. Cardinality(Limited) = 0
    BY <2>1, FS_EmptySet
  <2>3. byGroup = 0 /\ byKey = [k \in Drafts |-> NoRun]
    BY DEF EnrichInit, EmptyRegistry, Drafts
  <2>4. QED
    BY <1>6, <2>2, <2>3, LimitedFacts, ThreadNames DEF RegistryExact, AlreadyRunning
<1>9. CallsSound
  <2>1. \A t \in Actors : CallSound(t, calls[t])
    BY <1>6 DEF CallSound
  <2>2. \A d \in Drafts : pump.todo[d] = NoRun
    BY RestFacts DEF EnrichInit
  <2>3. QED
    BY <2>1, <2>2 DEF CallsSound, TodoSound
<1>10. RunsExclusive
  BY <1>6, DueFacts DEF RunsExclusive
<1>11. OneRunPerTrigger /\ CompletedHasGrafted /\ BegunIsRecorded /\ RecordsSound
  BY DEF EnrichInit, OneRunPerTrigger, CompletedHasGrafted, BegunIsRecorded, RecordsSound
<1>12. QED
  BY <1>7, <1>8, <1>9, <1>10, <1>11 DEF EnrichInv

\* Nothing happens.
LEMMA StutterEnrich ==
    ASSUME EnrichInv, UNCHANGED enrichVars
    PROVE  EnrichInv'
<1>1. EnrichTypeOK' /\ RegistryExact'
  BY DEF EnrichInv, enrichVars, registry, EnrichTypeOK, RegistryExact, AlreadyRunning, Limited, Holding,
         Registers
<1>2. OneRunPerTrigger' /\ CompletedHasGrafted' /\ BegunIsRecorded' /\ RecordsSound'
  BY StillGrows, RecordsStay DEF enrichVars
<1>3. CallsSound'
  <2>1. UNCHANGED <<drafts, runs, applied, begun, amiss, calls, pump>>
    BY DEF enrichVars
  <2>2. TodoSound'
    BY <2>1 DEF EnrichInv, CallsSound, TodoSound, RunExists
  <2>3. QED
    BY <2>1, <2>2, EnrichAssumed, StillGrows, CallsStand DEF Grows
<1>4. RunsExclusive'
  BY DEF EnrichInv, enrichVars, RunsExclusive, Pending, OriginOf, At, SharedOrigin, MayRepeat
<1>5. QED
  BY <1>1, <1>2, <1>3, <1>4 DEF EnrichInv

\* Every step keeps the invariant.
LEMMA EnrichStep ==
    ASSUME EnrichConstants, EnrichInv, [EnrichNext]_enrichVars
    PROVE  EnrichInv'
<1>1. ASSUME NEW t \in Threads, \E d \in Drafts : Stage(t, d) PROVE EnrichInv'
  BY <1>1, StageKeeps
<1>2. ASSUME NEW t \in Threads, \E c \in Requests, d \in Drafts, mode \in Modes : Kick(t, c, d, mode)
      PROVE  EnrichInv'
  BY <1>2, KickKeeps
<1>3. ASSUME NEW t \in Threads, Handle(t) PROVE EnrichInv'
  BY <1>3, AfterStageKeeps, EnrichBeginKeeps, RecordKickoffKeeps DEF Handle
<1>4. ASSUME NEW t \in Actors, Run(t) PROVE EnrichInv'
  BY <1>4, StartKeeps, LookKeeps, ApplyKeeps, FinishKeeps DEF Run
<1>5. ASSUME NEW t \in Actors, StartUnrecorded(t) \/ ApplyFails(t) \/ Perish(t) PROVE EnrichInv'
  BY <1>5, StartKeeps, ApplyFailsKeeps, PerishKeeps
<1>6. ASSUME NEW d \in Drafts, Edit(d) \/ Approve(d) \/ Reject(d) PROVE EnrichInv'
  BY <1>6, EnrichOperatorKeeps
<1>7. CASE PumpStep
  BY <1>7, CycleKeeps, PumpTryKeeps DEF PumpStep
<1>8. CASE Tick \/ PumpFails
  BY <1>8, CycleKeeps
<1>9. CASE Restart
  BY <1>9, RestartKeeps
<1>10. CASE UNCHANGED enrichVars
  BY <1>10, StutterEnrich
<1>11. QED
  BY <1>1, <1>2, <1>3, <1>4, <1>5, <1>6, <1>7, <1>8, <1>9, <1>10 DEF EnrichNext

\* Background runs, clicks, the pump and the operator share the drafts safely: the
\* registry holds exactly the guards that threads hold, within its capacity, each under
\* the run's own id unless a new plan has overtaken the pump; a click starts one run,
\* and so does a bucket of the pump while the draft keeps its plan; a completed run has
\* grafted, and hollowly only under a shared id, after an unrecorded start, or for a
\* run of the pump that a new plan has overtaken.
THEOREM EnrichmentIsSafe == EnrichSpec => []EnrichInv
<1>1. EnrichConstants
  BY EnrichAssumed
<1>2. EnrichInit => EnrichInv
  BY <1>1, InitEnrich
<1>3. EnrichInv /\ [EnrichNext]_enrichVars => EnrichInv'
  BY <1>1, EnrichStep
<1>4. QED
  BY <1>2, <1>3, PTL DEF EnrichSpec

\* Who writes to the drafts.
LEMMA DraftsWriters ==
    ASSUME [EnrichNext]_enrichVars, drafts' # drafts
    PROVE  \/ \E t \in Threads, d \in Drafts : Stage(t, d)
           \/ \E d \in Drafts : Edit(d) \/ Approve(d) \/ Reject(d)
           \/ \E t \in Actors : Apply(t)
<1>1. \A t : ~(Handle(t) \/ StartRun(t) \/ Look(t) \/ LookInVain(t) \/ Finish(t))
  BY DEF Handle, AfterStage, BeginKickoff, RecordKickoff, StartRun, Look, LookInVain, Finish, db
<1>2. \A t : ~(StartUnrecorded(t) \/ ApplyFails(t) \/ Perish(t))
  BY DEF StartUnrecorded, ApplyFails, Perish, db
<1>3. ~PumpStep /\ ~PumpFails /\ ~Tick /\ ~Restart /\ ~UNCHANGED enrichVars
  BY DEF PumpStep, PumpBegin, PumpCollect, PumpTry, PumpEnd, PumpFails, Tick, Restart, db, enrichVars
<1>4. \A t, c, d, mode : ~Kick(t, c, d, mode)
  BY DEF Kick, db
<1>5. QED
  BY <1>1, <1>2, <1>3, <1>4 DEF EnrichNext, Run

\* A graft on its draft.
LEMMA GraftWrites ==
    ASSUME EnrichInv, NEW t \in Actors, Apply(t), drafts' # drafts
    PROVE  /\ calls[t].pc = "graft" /\ calls[t] # Idle /\ calls'[t] # calls[t]
           /\ calls[t].draft \in Drafts /\ CallSound(t, calls[t]) /\ drafts[calls[t].draft] \in Row
           /\ drafts' = [drafts EXCEPT ![calls[t].draft] =
                  [Mine(t) EXCEPT !.fields =
                      IF Mine(t).kind = "crm" THEN GraftedRecord(t) ELSE GraftedCustomer(t)]]
<1>1. calls[t].pc = "graft"
  BY AtWork DEF Apply
<1>2. PICK o : Goto(t, Outcome(t, o))
  BY DEF Apply
<1>3. calls'[t].pc = "finish"
  BY <1>2 DEF Goto, Outcome, EnrichInv, EnrichTypeOK
<1>4. QED
  BY <1>1, <1>3, RunFacts DEF Apply

\* Edits win: no run takes away what the operator typed or the fill knew, except an
\* invoice graft that read the row before the edit.
THEOREM EditsAreKept == EnrichSpec => EditsWin
<1>1. EnrichConstants
  BY EnrichAssumed
<1>2. ASSUME EnrichInv, [EnrichNext]_enrichVars, NEW d \in Drafts, NEW f \in Fields,
             drafts[d] # NoDraft, ~Fillable(drafts[d].fields[f]),
             drafts'[d].fields[f] # drafts[d].fields[f], spent'.acts = spent.acts
      PROVE  /\ drafts[d].kind = "invoice"
             /\ \E t \in Grafting(d) : calls'[t] # calls[t] /\ calls[t].fields[f] # drafts[d].fields[f]
  <2>1. drafts' # drafts
    BY <1>2
  <2>2. \A b, e : Stage(b, e) /\ e \in Drafts => FALSE
    <3>1. SUFFICES ASSUME NEW b, NEW e \in Drafts, Stage(b, e) PROVE FALSE
      OBVIOUS
    <3>2. drafts[e] = NoDraft /\ \E rec : drafts' = [drafts EXCEPT ![e] = rec]
      BY <3>1 DEF Stage
    <3>3. QED
      BY <1>2, <3>2 DEF EnrichInv, EnrichTypeOK
  <2>3. \A e : ~(Edit(e) \/ Approve(e) \/ Reject(e))
    <3>1. ~Spend("acts")
      BY <1>2 DEF Spend, EnrichInv, EnrichTypeOK
    <3>2. QED
      BY <3>1 DEF Edit, Approve, Reject
  <2>4. PICK t \in Actors : Apply(t)
    BY <1>2, <2>1, <2>2, <2>3, DraftsWriters
  <2>5. PICK b : b = calls[t]
    OBVIOUS
  <2>6. PICK new : new = IF Mine(t).kind = "crm" THEN GraftedRecord(t) ELSE GraftedCustomer(t)
    OBVIOUS
  <2>7. /\ b.pc = "graft" /\ b # Idle /\ calls'[t] # calls[t] /\ b.draft \in Drafts
        /\ drafts[b.draft] \in Row
        /\ drafts' = [drafts EXCEPT ![b.draft] = [drafts[b.draft] EXCEPT !.fields = new]]
    BY <1>2, <2>1, <2>4, <2>5, <2>6, GraftWrites DEF Mine
  <2>8. b.draft = d /\ drafts'[d].fields = new
    <3>1. drafts \in [Drafts -> {NoDraft} \cup Row]
      BY <1>2 DEF EnrichInv, EnrichTypeOK
    <3>2. b.draft = d
      BY <1>2, <2>7, <3>1
    <3>3. drafts[d] \in Row
      BY <2>7, <3>2
    <3>4. [drafts[d] EXCEPT !.fields = new].fields = new
      BY <3>3 DEF Row
    <3>5. QED
      BY <2>7, <3>1, <3>2, <3>4
  <2>9. drafts[d].kind # "crm"
    <3>1. SUFFICES ASSUME drafts[d].kind = "crm" PROVE FALSE
      OBVIOUS
    <3>2. new = Fill(drafts[d].fields, b.found)
      BY <2>5, <2>6, <2>8, <3>1 DEF Mine, GraftedRecord
    <3>3. new[f] = drafts[d].fields[f]
      BY <1>2, <3>2 DEF Fill
    <3>4. QED
      BY <1>2, <2>8, <3>3
  <2>10. drafts[d].kind = "invoice" /\ new = b.fields
    BY <2>5, <2>6, <2>7, <2>8, <2>9 DEF Row, DraftKinds, Mine, GraftedCustomer
  <2>11. t \in Grafting(d)
    BY <2>4, <2>5, <2>7, <2>8 DEF Grafting
  <2>12. QED
    BY <1>2, <2>5, <2>7, <2>8, <2>10, <2>11
<1>3. EnrichInv /\ [EnrichNext]_enrichVars =>
        [\A d \in Drafts : \A f \in Fields :
          /\ drafts[d] # NoDraft /\ ~Fillable(drafts[d].fields[f])
          /\ drafts'[d].fields[f] # drafts[d].fields[f]
          => \/ spent'.acts # spent.acts
             \/ /\ drafts[d].kind = "invoice"
                /\ \E t \in Grafting(d) :
                      calls'[t] # calls[t] /\ calls[t].fields[f] # drafts[d].fields[f]]_enrichVars
  BY <1>2
<1>4. QED
  BY <1>1, <1>3, EnrichmentIsSafe, PTL DEF EnrichSpec, EditsWin

\* A decided draft is held: only a graft that had passed its check when the decision
\* fell still writes to it.
THEOREM DecisionsHold == EnrichSpec => DecidedIsHeld
<1>1. EnrichConstants
  BY EnrichAssumed
<1>2. ASSUME EnrichInv, [EnrichNext]_enrichVars, NEW d \in Drafts, drafts[d].status \in {"approved", "rejected"},
             drafts'[d] # drafts[d]
      PROVE  <<"late", d>> \in amiss
  <2>1. drafts' # drafts /\ drafts \in [Drafts -> {NoDraft} \cup Row] /\ drafts[d] # NoDraft
    BY <1>2 DEF EnrichInv, EnrichTypeOK, NoDraft
  <2>2. \A b, e : Stage(b, e) /\ e \in Drafts => FALSE
    <3>1. SUFFICES ASSUME NEW b, NEW e \in Drafts, Stage(b, e) PROVE FALSE
      OBVIOUS
    <3>2. drafts[e] = NoDraft /\ \E rec : drafts' = [drafts EXCEPT ![e] = rec]
      BY <3>1 DEF Stage
    <3>3. QED
      BY <1>2, <2>1, <3>2
  <2>3. \A e \in Drafts : ~(Edit(e) \/ Approve(e) \/ Reject(e))
    <3>1. SUFFICES ASSUME NEW e \in Drafts, Edit(e) \/ Approve(e) \/ Reject(e) PROVE FALSE
      OBVIOUS
    <3>2. drafts[e].status = "staged" /\ \E rec : drafts' = [drafts EXCEPT ![e] = rec]
      BY <3>1 DEF Edit, Approve, Reject
    <3>3. QED
      BY <1>2, <2>1, <3>2
  <2>4. PICK t \in Actors : Apply(t)
    BY <1>2, <2>1, <2>2, <2>3, DraftsWriters
  <2>5. PICK b : b = calls[t]
    OBVIOUS
  <2>6. /\ b.pc = "graft" /\ b # Idle /\ b.draft \in Drafts /\ CallSound(t, b)
        /\ \E x : drafts' = [drafts EXCEPT ![b.draft] = x]
    BY <1>2, <2>1, <2>4, <2>5, GraftWrites
  <2>7. b.draft = d
    BY <1>2, <2>1, <2>6
  <2>8. QED
    BY <1>2, <2>6, <2>7 DEF CallSound
<1>3. EnrichInv /\ [EnrichNext]_enrichVars =>
        [\A d \in Drafts : drafts[d].status \in {"approved", "rejected"} =>
          drafts'[d] = drafts[d] \/ <<"late", d>> \in amiss]_enrichVars
  BY <1>2
<1>4. QED
  BY <1>1, <1>3, EnrichmentIsSafe, PTL DEF EnrichSpec, DecidedIsHeld
=============================================================================
