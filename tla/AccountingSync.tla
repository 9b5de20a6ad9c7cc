---------------------------- MODULE AccountingSync ----------------------------
(***************************************************************************)
(* The accounting cache of bos-app (crates/bos-app/src/slices/accounting/):*)
(* the sync thread walks the pages of a QuickBooks company behind durable  *)
(* cursors, under a budget of requests, and fills snapshot tables; it      *)
(* shares one rotating OAuth grant with the outbox courier that records    *)
(* payments.  Operators connect and disconnect companies at any time; the  *)
(* books change meanwhile.                                                 *)
(*                                                                         *)
(* Every write goes through store_core::mutate: a key that was applied     *)
(* before is a replay and writes nothing.  What is read before a provider  *)
(* call and written after it is kept in the thread's call.                 *)
(***************************************************************************)
EXTENDS Integers, Sequences, FiniteSets

CONSTANTS
    Realms,       \* QuickBooks companies
    Walks,        \* the entities walked page by page, in order
    Records,      \* per entity: record ids (numbers), the same in every company
    Entered,      \* the records a company has at the start, entered in this order
    Contents,     \* what a record may say
    Groups,       \* report requests of a cycle, in order: name, cursor, periods
    Complete,     \* the periods whose books are closed: fetched once
    PageSize,     \* ACCOUNTING_MAX_PAGE_SIZE
    RetryAfter,   \* a 429's Retry-After, in ticks of the clock
    Scopes        \* BOS_ACCOUNTING_MAX_REQUESTS_PER_CYCLE with bounds for the rest: the
                  \* threads, cycles, grants, changes of the books, and faults

WalkNames == {Walks[i] : i \in DOMAIN Walks}
Entities == WalkNames \cup {Groups[i].cursor : i \in DOMAIN Groups}
Periods == UNION {Groups[i].periods : i \in DOMAIN Groups}
Threads == {"sync", "courier"}
Scope == [budget : Nat \ {0}, threads : SUBSET Threads, cycles : Nat, grants : Nat,
          updates : Nat, faults : Nat]
\* The time of the last entry made before the start.
Start == CHOOSE n \in Entered \cup {0} : \A r \in Entered : r <= n

ASSUME BudgetAssumption ==
    PageSize \in Nat \ {0} /\ RetryAfter \in Nat \ {0} /\ Scopes \subseteq Scope
ASSUME NamesAssumption ==
    /\ Walks \in Seq(WalkNames) /\ Groups \in Seq({Groups[i] : i \in DOMAIN Groups})
    /\ \A e \in WalkNames : Records[e] \subseteq Nat /\ IsFiniteSet(Records[e])
    /\ Entered \subseteq Nat \ {0} /\ \E n \in Entered \cup {0} : \A r \in Entered : r <= n
    /\ Complete \subseteq Periods /\ "none" \notin Realms
    /\ WalkNames \cap {Groups[i].cursor : i \in DOMAIN Groups} = {}

VARIABLES
    books,    \* provider: each company's records, with the time of their last update
    updates,  \* provider: changes so far
    live,     \* provider: the refresh tokens it accepts
    issued,   \* provider: grants issued so far
    cred,     \* table qbo_credentials
    latch,    \* RECONNECT_LATCH
    rows,     \* the snapshot tables of the walked entities
    reports,  \* tables accounting_pnl_snapshots and accounting_balance_sheet_snapshots
    cursors,  \* table accounting_sync_cursors
    applied,  \* applied receipts, by idempotency key
    calls,    \* per thread: where it stands
    clock,    \* time, one tick per cycle or courier attempt
    refused,  \* history: tokens this process was refused
    amiss,    \* history: what happened that the code does not provide for
    failures, \* failing calls and writes, restarts and dying grants so far
    scope     \* the budget and the bounds of this behaviour

provider == <<books, updates, live, issued>>
cache == <<rows, reports, cursors>>
syncVars ==
    <<provider, cred, latch, cache, applied, calls, clock, refused, amiss, failures, scope>>

Idle == [pc |-> "idle"]
NoCred == [realm |-> "none"]
NoRow == [realm |-> "none"]
NoCursor == [high |-> 0, since |-> 0, max |-> 0, pos |-> 1, done |-> FALSE,
             until |-> 0, err |-> 0]

\* A report tells whose books it is about; other content does not matter here.
Report(realm) == [realm |-> realm]
Snapshot(realm, content) == [realm |-> realm, content |-> content]

Goto(t, call) == calls' = [calls EXCEPT ![t] = call]
Sync == calls["sync"]
Faulty == failures < scope.faults /\ failures' = failures + 1
Busy == \E t \in Threads : calls[t] # Idle

SyncInit ==
    /\ \E content \in Contents :
          books = [realm \in Realms |-> [e \in WalkNames |-> [r \in Records[e] |->
                      IF r \in Entered THEN [content |-> content, at |-> r] ELSE NoRow]]]
    /\ updates = 0 /\ live = {} /\ issued = 0
    /\ cred = NoCred /\ latch = FALSE
    /\ rows = [e \in WalkNames |-> [r \in Records[e] |-> NoRow]]
    /\ reports = [p \in Periods |-> NoRow]
    /\ cursors = [e \in Entities |-> NoCursor]
    /\ applied = {} /\ calls = [t \in Threads |-> Idle]
    /\ clock = 0 /\ refused = {} /\ amiss = {} /\ failures = 0
    /\ scope \in Scopes

-----------------------------------------------------------------------------
\* A record of the company is entered or changed: the provider stamps it with
\* the time, which has the granularity of a second.  A change moves the record
\* to the end of the order the pages are cut from; "shifted" says that this
\* happened to a walk under way.  (The books of a company that is not connected
\* are not looked at, and stay as they are.)
WalkOpen(realm, e) ==
    \/ cursors[e].pos > 1
    \/ Sync.pc \in {"asked", "rows"} /\ Sync.realm = realm /\ Walks[Sync.at] = e

Update(realm, e, r, content) ==
    LET old == books[realm][e][r]
        now == Start + updates + 1
        last == {books[realm][e][q].at : q \in {q \in Records[e] : books[realm][e][q] # NoRow}}
    IN  /\ updates < scope.updates /\ cred # NoCred /\ cred.realm = realm
        /\ updates' = updates + 1
        /\ \E at \in {now} \cup {a \in last : \A b \in last : b <= a} :
              /\ books' = [books EXCEPT ![realm][e][r] = [content |-> content, at |-> at]]
              /\ amiss' = IF WalkOpen(realm, e) /\ (old # NoRow \/ at # now)
                            THEN amiss \cup {"shifted"} ELSE amiss
        /\ UNCHANGED <<live, issued, cred, latch, cache, applied, calls, clock, refused, failures>>

\* A refresh token dies: unused for its term, or rotated out a day ago.  No thread
\* is at work that long.
TokenDies(token) ==
    /\ token \in live /\ ~Busy /\ Faulty
    /\ live' = live \ {token}
    /\ UNCHANGED <<books, updates, issued, cred, latch, cache, applied, calls, clock, refused, amiss>>

\* The company revokes the application: all its grants die.
Revoke(realm) ==
    /\ \E token \in live : token.realm = realm
    /\ Faulty
    /\ live' = {token \in live : token.realm # realm}
    /\ UNCHANGED <<books, updates, issued, cred, latch, cache, applied, calls, clock, refused, amiss>>

-----------------------------------------------------------------------------
\* store_core::mutate, for the idempotency key of a write.
Replayed(key) == key \in applied

\* put_cursor: an unchanged cursor writes nothing, and its key is its content.
CursorKey(e, c) == <<"cursor", e, c>>

PutCursor(e, c) ==
    IF cursors[e] = c \/ Replayed(CursorKey(e, c))
      THEN UNCHANGED <<cursors, applied>>
      ELSE /\ cursors' = [cursors EXCEPT ![e] = c]
           /\ applied' = applied \cup {CursorKey(e, c)}

\* What a reconnection to another company deletes: not the P&L periods.
WipedReports == [p \in Periods |->
    IF \E i \in DOMAIN Groups : Groups[i].cursor = "balance_sheet" /\ p \in Groups[i].periods
      THEN NoRow ELSE reports[p]]

NoRows == [e \in WalkNames |-> [r \in Records[e] |-> NoRow]]
NoCursors == [e \in Entities |-> NoCursor]

\* store_credential: the company is compared with the credential's.
Wiped(realm) ==
    IF cred # NoCred /\ cred.realm # realm
      THEN rows' = NoRows /\ reports' = WipedReports /\ cursors' = NoCursors
      ELSE UNCHANGED cache

\* Snapshots of another company.
Foreign(realm, rs, ps) ==
    \/ \E e \in WalkNames : \E r \in Records[e] : rs[e][r] # NoRow /\ rs[e][r].realm # realm
    \/ \E p \in Periods : ps[p] # NoRow /\ ps[p].realm # realm

\* What store_credential does not see or does not delete: data left behind by a
\* disconnection, and P&L periods.
Outlives(realm) ==
    \/ cred = NoCred /\ Foreign(realm, rows, reports)
    \/ Foreign(realm, NoRows, WipedReports)

\* callback: the code is exchanged for a grant, which is stored.  "crossed": a
\* thread was at work with the credential; "kept": data of another company
\* outlives the connection.
Connect(realm) ==
    LET token == [realm |-> realm, id |-> issued + 1]
    IN  /\ issued < scope.grants
        /\ issued' = issued + 1 /\ live' = live \cup {token}
        /\ cred' = [realm |-> realm, token |-> token, flag |-> FALSE]
        /\ latch' = FALSE
        /\ Wiped(realm)
        /\ amiss' = amiss \cup (IF Busy THEN {"crossed"} ELSE {})
                          \cup (IF Outlives(realm) THEN {"kept"} ELSE {})
        /\ UNCHANGED <<books, updates, applied, calls, clock, refused, failures>>

\* delete_credential, with or without the cached data.  The latch stays.
Disconnect ==
    /\ cred # NoCred
    /\ cred' = NoCred
    /\ \/ UNCHANGED cache
       \/ rows' = NoRows /\ reports' = [p \in Periods |-> NoRow] /\ cursors' = NoCursors
    /\ amiss' = amiss \cup (IF Busy THEN {"crossed"} ELSE {})
    /\ UNCHANGED <<provider, latch, applied, calls, clock, refused, failures>>

-----------------------------------------------------------------------------
\* prepare_qbo_credentials stands down on the durable flag and on the latch.
Usable == cred # NoCred /\ ~cred.flag /\ ~latch

\* Only the thread's own entity is asked.
ThrottledOwnOnly(now) == cursors[Walks[1]].until > now

\* run_sync_cycle: a deadline on any cursor is the account's.
Throttled(now) == \E e \in Entities : cursors[e].until > now

\* The call of a thread that holds a usable access token: the courier posts its
\* payment (ProviderWrites) and is done, the cycle begins unless throttled.
Prepared(t, call) ==
    IF t = "courier" \/ Throttled(call.now) THEN Idle
    ELSE [pc |-> "next", realm |-> call.realm, token |-> call.token, now |-> call.now,
          budget |-> call.budget, at |-> 1, recovered |-> FALSE]

\* Where a cycle goes on after its credential was recovered.
Recovered(call) ==
    [pc |-> "next", realm |-> call.realm, token |-> call.token, now |-> call.now,
     budget |-> call.budget, at |-> call.at, recovered |-> TRUE]

Resumed(t, call) == IF call.at = 0 THEN Prepared(t, call) ELSE Recovered(call)

\* The guard is taken (try_begin_sync) or the courier has claimed a payment: the
\* credential is read, and its access token is fresh, or is to be refreshed.
Begin(t) ==
    LET call == [pc |-> "refresh", realm |-> cred.realm, token |-> cred.token,
                 now |-> clock + 1, budget |-> scope.budget, at |-> 0]
    IN  /\ t \in scope.threads /\ calls[t] = Idle /\ clock < scope.cycles /\ Usable
        /\ clock' = clock + 1
        /\ \/ t = "sync" /\ Goto(t, Prepared(t, call))
           \/ Goto(t, [call EXCEPT !.budget = @ - 1])
        /\ UNCHANGED <<provider, cred, latch, cache, applied, refused, amiss, failures>>

\* The cycle ends with an error; in mid-walk the entity's cursor records it.
FailedCycle(t) ==
    /\ Goto(t, Idle)
    /\ IF calls[t].at = 0 THEN UNCHANGED <<cursors, applied>>
       ELSE LET e == Walks[calls[t].at]
            IN  PutCursor(e, [cursors[e] EXCEPT !.err = calls[t].now])

\* The provider rotates the grant: the old refresh token lives on for a day.
Granted(t) ==
    LET token == [realm |-> calls[t].token.realm, id |-> issued + 1]
    IN  /\ calls[t].pc = "refresh" /\ calls[t].token \in live /\ issued < scope.grants
        /\ issued' = issued + 1 /\ live' = live \cup {token}
        /\ Goto(t, [calls[t] EXCEPT !.pc = "persist", !.token = token])
        /\ UNCHANGED <<books, updates, cred, latch, cache, applied, clock, refused, amiss, failures>>

\* token_request takes every status but 2xx, 429 and 5xx for a rejection.  A dead
\* token is answered with one; that a live one is too (401 over the application's
\* secret, 403, 404) is a fault of the provider or of the configuration,
\* "misjudged".
Rejects(token) ==
    IF token \in live THEN Faulty /\ amiss' = amiss \cup {"misjudged"}
                      ELSE UNCHANGED <<failures, amiss>>

\* Only the write latches.
LatchedByWrite == latch

\* refresh_and_persist latches a rejection before it is written down.
Latched == TRUE

Rejected(t) ==
    /\ calls[t].pc = "refresh" /\ Rejects(calls[t].token)
    /\ latch' = Latched /\ refused' = refused \cup {calls[t].token}
    /\ Goto(t, [calls[t] EXCEPT !.pc = "mark"])
    /\ UNCHANGED <<provider, cred, cache, applied, clock>>

\* A server error, a timeout, a 429 or an answer without tokens of the token endpoint.
RefreshFails(t) ==
    /\ calls[t].pc = "refresh" /\ Faulty
    /\ FailedCycle(t)
    /\ UNCHANGED <<provider, cred, latch, rows, reports, clock, refused, amiss>>

\* update_tokens_after_refresh: the row takes the grant, whatever company it is
\* connected to by now; the key is the time the cycle began.  "unsaved": it is the
\* second grant of a cycle, taken for a replay.
Persist(t) ==
    LET key == <<"refresh", calls[t].now>>
    IN  /\ calls[t].pc = "persist"
        /\ cred' = IF Replayed(key) \/ cred = NoCred THEN cred
                   ELSE [cred EXCEPT !.token = calls[t].token, !.flag = FALSE]
        /\ applied' = applied \cup {key}
        /\ latch' = FALSE
        /\ amiss' = IF Replayed(key) THEN amiss \cup {"unsaved"} ELSE amiss
        /\ Goto(t, Resumed(t, calls[t]))
        /\ UNCHANGED <<provider, cache, clock, refused, failures>>

\* mark_reconnect_required: the key names the client only, so it is applied once.
\* Without a credential the write fails.
Mark(t) ==
    LET key == <<"reconnect_required">>
        written == Replayed(key) \/ cred # NoCred
    IN  /\ calls[t].pc = "mark"
        /\ cred' = IF Replayed(key) \/ cred = NoCred THEN cred ELSE [cred EXCEPT !.flag = TRUE]
        /\ latch' = (latch \/ written)
        /\ Goto(t, [calls[t] EXCEPT !.pc = "failed"])
        /\ applied' = IF written THEN applied \cup {key} ELSE applied
        /\ UNCHANGED <<provider, cache, clock, refused, amiss, failures>>

\* The database stays locked through the retries: the grant, or the flag, is
\* not written.
WriteFails(t) ==
    /\ calls[t].pc \in {"persist", "mark"} /\ Faulty
    /\ Goto(t, [calls[t] EXCEPT !.pc = "failed"])
    /\ UNCHANGED <<provider, cred, latch, cache, applied, clock, refused, amiss>>

Fails(t) ==
    /\ calls[t].pc = "failed"
    /\ FailedCycle(t)
    /\ UNCHANGED <<provider, cred, latch, rows, reports, clock, refused, amiss, failures>>

-----------------------------------------------------------------------------
\* The order the provider cuts pages from: by time of the last update; records of
\* one time are assumed to come in the same order on every request (the query asks
\* for no second key).  A book is what a company has of one entity.
Matching(book, since) == {r \in DOMAIN book : book[r] # NoRow /\ book[r].at >= since}

Before(book, q, r) == book[q].at < book[r].at \/ (book[q].at = book[r].at /\ q < r)

Position(book, since, r) == 1 + Cardinality({q \in Matching(book, since) : Before(book, q, r)})

\* entity_query
Page(book, since, pos) ==
    {r \in Matching(book, since) :
        Position(book, since, r) >= pos /\ Position(book, since, r) < pos + PageSize}

\* A walk in progress keeps its pinned filter.
WalkSince(c) == IF c.pos > 1 THEN c.since ELSE c.high

\* On to the given place of the cycle.
NextOf(call, at) ==
    [pc |-> "next", realm |-> call.realm, token |-> call.token, now |-> call.now,
     budget |-> call.budget, at |-> at, recovered |-> call.recovered]

\* A request for a page, and the cursor it was made for.
AskedOf(call, c) ==
    [pc |-> "asked", realm |-> call.realm, token |-> call.token, now |-> call.now,
     budget |-> call.budget - 1, at |-> call.at, recovered |-> call.recovered,
     cursor |-> c, since |-> WalkSince(c)]

\* The next request of a walk; what the cursor says is read before it.
Ask ==
    /\ Sync.pc = "next" /\ Sync.at <= Len(Walks) /\ Sync.budget > 0
    /\ LET c == cursors[Walks[Sync.at]]
       IN  Goto("sync", IF c.until > Sync.now THEN NextOf(Sync, Sync.at + 1)
                                              ELSE AskedOf(Sync, c))
    /\ UNCHANGED <<provider, cred, latch, cache, applied, clock, refused, amiss, failures>>

\* The rows of a page that are still to be written, whether it was full, and the
\* latest time in this walk.
RowsOf(call, page, full, max) ==
    [pc |-> "rows", realm |-> call.realm, token |-> call.token, now |-> call.now,
     budget |-> call.budget, at |-> call.at, recovered |-> call.recovered,
     cursor |-> call.cursor, since |-> call.since, page |-> page, full |-> full, max |-> max]

\* The page a request is answered with, its rows, and the latest time so far.
BookOf(call) == books[call.realm][Walks[call.at]]
PageOf(call) == Page(BookOf(call), call.since, call.cursor.pos)
EntriesOf(call) == {[rec |-> r, content |-> BookOf(call)[r].content] : r \in PageOf(call)}
LatestOf(call) ==
    LET times == {BookOf(call)[r].at : r \in PageOf(call)} \cup {call.cursor.max}
    IN  CHOOSE a \in times : \A b \in times : b <= a

\* A page arrives.  A token of another company does not get one.
PageArrives ==
    /\ Sync.pc = "asked" /\ Sync.token.realm = Sync.realm
    /\ Goto("sync", RowsOf(Sync, EntriesOf(Sync), Cardinality(PageOf(Sync)) = PageSize,
                           LatestOf(Sync)))
    /\ UNCHANGED <<provider, cred, latch, cache, applied, clock, refused, amiss, failures>>

\* 429: the deadline is stamped and the whole cycle stops.
Limited ==
    /\ Sync.pc = "asked" /\ Faulty
    /\ PutCursor(Walks[Sync.at], [Sync.cursor EXCEPT !.until = Sync.now + RetryAfter,
                                                     !.err = Sync.now])
    /\ Goto("sync", Idle)
    /\ UNCHANGED <<provider, cred, latch, rows, reports, clock, refused, amiss>>

\* 401, always for a token of another company: the credential is recovered once
\* a cycle, if the budget allows.
Expired ==
    /\ Sync.pc = "asked"
    /\ IF Sync.token.realm = Sync.realm THEN Faulty ELSE UNCHANGED failures
    /\ \/ Sync.recovered /\ FailedCycle("sync")
       \/ ~Sync.recovered /\ Sync.budget = 0 /\ Goto("sync", Idle)
          /\ UNCHANGED <<cursors, applied>>
       \/ /\ ~Sync.recovered /\ Sync.budget > 0
          /\ Goto("sync", [pc |-> "refresh", realm |-> Sync.realm, token |-> Sync.token,
                           now |-> Sync.now, budget |-> Sync.budget - 1, at |-> Sync.at])
          /\ UNCHANGED <<cursors, applied>>
    /\ UNCHANGED <<provider, cred, latch, rows, reports, clock, refused, amiss>>

\* Any other failure: recorded, and the next entity is walked.
FetchFails ==
    LET e == Walks[Sync.at]
    IN  /\ Sync.pc = "asked" /\ Faulty
        /\ PutCursor(e, [cursors[e] EXCEPT !.err = Sync.now])
        /\ Goto("sync", NextOf(Sync, Sync.at + 1))
        /\ UNCHANGED <<provider, cred, latch, rows, reports, clock, refused, amiss>>

\* upsert_*_snapshots, one row: an unchanged row is skipped; the key is the
\* content.  "recurred": the record has this content again, and the write is
\* taken for a replay.
Upsert ==
    Sync.pc = "rows" /\ \E entry \in Sync.page :
        LET e == Walks[Sync.at]
            snap == Snapshot(Sync.realm, entry.content)
            key == <<"row", e, entry.rec, snap>>
            same == rows[e][entry.rec] = snap
        IN  /\ rows' = IF same \/ Replayed(key) THEN rows ELSE [rows EXCEPT ![e][entry.rec] = snap]
            /\ applied' = IF same THEN applied ELSE applied \cup {key}
            /\ amiss' = IF ~same /\ Replayed(key) THEN amiss \cup {"recurred"} ELSE amiss
            /\ Goto("sync", [Sync EXCEPT !.page = @ \ {entry}])
            /\ UNCHANGED <<provider, cred, latch, reports, cursors, clock, refused, failures>>

\* Positions are taken to count from 0.
AdvancedOneFar(c, since, max, full) ==
    IF full
      THEN [c EXCEPT !.since = since, !.max = max, !.pos = @ + PageSize + 1, !.until = 0, !.err = 0]
      ELSE [high |-> IF max = 0 THEN c.high ELSE max, since |-> 0, max |-> 0, pos |-> 1,
            done |-> TRUE, until |-> 0, err |-> 0]

\* apply_page: a short page completes the walk and promotes it.
Advanced(c, since, max, full) ==
    IF full
      THEN [c EXCEPT !.since = since, !.max = max, !.pos = @ + PageSize, !.until = 0, !.err = 0]
      ELSE [high |-> IF max = 0 THEN c.high ELSE max, since |-> 0, max |-> 0, pos |-> 1,
            done |-> TRUE, until |-> 0, err |-> 0]

\* The rows are in: the cursor is written, as it was read and advanced.
Advance ==
    /\ Sync.pc = "rows" /\ Sync.page = {}
    /\ PutCursor(Walks[Sync.at], Advanced(Sync.cursor, Sync.since, Sync.max, Sync.full))
    /\ Goto("sync", NextOf(Sync, IF Sync.full THEN Sync.at ELSE Sync.at + 1))
    /\ UNCHANGED <<provider, cred, latch, rows, reports, clock, refused, amiss, failures>>

\* A write fails: the cycle ends, the cursor is where it was.
ApplyFails ==
    /\ Sync.pc = "rows" /\ Faulty
    /\ Goto("sync", Idle)
    /\ UNCHANGED <<provider, cred, latch, cache, applied, clock, refused, amiss>>

-----------------------------------------------------------------------------
\* sync_pnl_periods, sync_daily_revenue, sync_balance_sheet: closed periods are
\* fetched once; each looks at the deadline of its own cursor only.
Group == Groups[Sync.at - Len(Walks)]

ReportsDue == {p \in Group.periods : p \notin Complete \/ reports[p] = NoRow}

ReportsOf(call, c, due) ==
    [pc |-> "reports", realm |-> call.realm, token |-> call.token, now |-> call.now,
     budget |-> call.budget, at |-> call.at, recovered |-> call.recovered,
     cursor |-> c, todo |-> due, wrote |-> FALSE]

ReportsBegin ==
    /\ Sync.pc = "next" /\ Sync.at > Len(Walks) /\ Sync.at <= Len(Walks) + Len(Groups)
    /\ Sync.budget > 0
    /\ LET c == cursors[Group.cursor]
       IN  Goto("sync", IF c.until > Sync.now THEN NextOf(Sync, Sync.at + 1)
                                              ELSE ReportsOf(Sync, c, ReportsDue))
    /\ UNCHANGED <<provider, cred, latch, cache, applied, clock, refused, amiss, failures>>

\* A report arrives and is written, unless unchanged or taken for a replay.
ReportArrives ==
    Sync.pc = "reports" /\ \E p \in Sync.todo :
        LET report == Report(Sync.realm)
            key == <<"report", p, report>>
            same == reports[p] = report
        IN  /\ Sync.budget > 0 /\ Sync.token.realm = Sync.realm
            /\ p \in Complete => Sync.todo \subseteq Complete
            /\ reports' = IF same \/ Replayed(key) THEN reports ELSE [reports EXCEPT ![p] = report]
            /\ applied' = IF same THEN applied ELSE applied \cup {key}
            /\ amiss' = IF ~same /\ Replayed(key) THEN amiss \cup {"recurred"} ELSE amiss
            /\ Goto("sync", [Sync EXCEPT !.todo = @ \ {p}, !.budget = @ - 1,
                                         !.wrote = @ \/ ~same])
            /\ UNCHANGED <<provider, cred, latch, rows, cursors, clock, refused, failures>>

\* A failing request ends its group; a 429 stamps the group's cursor.
ReportFails ==
    /\ Sync.pc = "reports" /\ Sync.todo # {} /\ Sync.budget > 0
    /\ IF Sync.token.realm = Sync.realm THEN Faulty ELSE UNCHANGED failures
    /\ \/ PutCursor(Group.cursor, [Sync.cursor EXCEPT !.until = Sync.now + RetryAfter,
                                                      !.err = Sync.now])
       \/ PutCursor(Group.cursor, [cursors[Group.cursor] EXCEPT !.err = Sync.now])
    /\ Goto("sync", [NextOf(Sync, Sync.at + 1) EXCEPT !.budget = @ - 1])
    /\ UNCHANGED <<provider, cred, latch, rows, reports, clock, refused, amiss>>

\* The daily revenue clears the error if it wrote a day.
Clearing ==
    IF Group.name = "days" THEN Sync.wrote /\ Sync.cursor.err # 0
    ELSE Sync.cursor.err # 0 \/ ~Sync.cursor.done

\* The group is complete and clears its error, or the budget is spent.
ReportsEnd ==
    /\ Sync.pc = "reports" /\ (Sync.todo = {} \/ Sync.budget = 0)
    /\ IF Sync.todo = {} /\ Clearing
         THEN PutCursor(Group.cursor, [Sync.cursor EXCEPT !.err = 0,
                                                          !.done = @ \/ Group.name # "days"])
         ELSE UNCHANGED <<cursors, applied>>
    /\ Goto("sync", NextOf(Sync, Sync.at + 1))
    /\ UNCHANGED <<provider, cred, latch, rows, reports, clock, refused, amiss, failures>>

\* run_guarded_cycle: everything is done, or the budget is spent.
CycleEnds ==
    /\ Sync.pc = "next" /\ (Sync.budget = 0 \/ Sync.at > Len(Walks) + Len(Groups))
    /\ Goto("sync", Idle)
    /\ UNCHANGED <<provider, cred, latch, cache, applied, clock, refused, amiss, failures>>

\* The process restarts: threads and latch are gone.
Restart ==
    /\ Faulty
    /\ calls' = [t \in Threads |-> Idle] /\ latch' = FALSE /\ refused' = {}
    /\ UNCHANGED <<provider, cred, cache, applied, clock, amiss>>

Step ==
    \/ \E realm \in Realms, e \in WalkNames, content \in Contents :
          \E r \in Records[e] : Update(realm, e, r, content)
    \/ \E token \in live : TokenDies(token)
    \/ \E realm \in Realms : Connect(realm) \/ Revoke(realm)
    \/ Disconnect \/ Restart
    \/ \E t \in Threads : \/ Begin(t) \/ Granted(t) \/ Rejected(t) \/ RefreshFails(t)
                          \/ Persist(t) \/ Mark(t) \/ WriteFails(t) \/ Fails(t)
    \/ Ask \/ PageArrives \/ Limited \/ Expired \/ FetchFails \/ Upsert \/ Advance \/ ApplyFails
    \/ ReportsBegin \/ ReportArrives \/ ReportFails \/ ReportsEnd \/ CycleEnds

SyncNext == Step /\ UNCHANGED scope

SyncSpec == SyncInit /\ [][SyncNext]_syncVars

-----------------------------------------------------------------------------
\* Tokens the provider has issued so far, times it has stamped, and cursors: a
\* walk that is not under way pins no filter.
Token == [realm : Realms, id : 1..issued]
Times == 0..(Start + updates)
Cursor == {c \in [high : Times, since : Times, max : Times, pos : Nat \ {0}, done : BOOLEAN,
                  until : 0..(clock + RetryAfter), err : 0..clock] :
              c.pos = 1 => c.since = 0 /\ c.max = 0}

\* Where a thread may stand; the courier only refreshes.
Spent == 0..scope.budget
Refreshing ==
    [pc : {"refresh", "persist", "mark", "failed"}, realm : Realms, token : Token,
     now : 1..clock, budget : Spent, at : 0..Len(Walks)]
Moving ==
    [pc : {"next"}, realm : Realms, token : Token, now : 1..clock, budget : Spent,
     at : 1..(Len(Walks) + Len(Groups) + 1), recovered : BOOLEAN]
Asking ==
    [pc : {"asked"}, realm : Realms, token : Token, now : 1..clock, budget : Spent,
     at : 1..Len(Walks), recovered : BOOLEAN, cursor : Cursor, since : Times]
Entry(e) == [rec : Records[e], content : Contents]
Writing ==
    [pc : {"rows"}, realm : Realms, token : Token, now : 1..clock, budget : Spent,
     at : 1..Len(Walks), recovered : BOOLEAN, cursor : Cursor, since : Times,
     page : SUBSET UNION {Entry(e) : e \in WalkNames}, full : BOOLEAN, max : Times]
Reporting ==
    [pc : {"reports"}, realm : Realms, token : Token, now : 1..clock, budget : Spent,
     at : (Len(Walks) + 1)..(Len(Walks) + Len(Groups)), recovered : BOOLEAN,
     cursor : Cursor, todo : SUBSET Periods, wrote : BOOLEAN]

CallTyped(t, c) ==
    /\ c \in {Idle} \cup Refreshing \cup Moving \cup Asking \cup Writing \cup Reporting
    /\ c.pc = "rows" => c.page \subseteq Entry(Walks[c.at])
    /\ c.pc = "reports" => c.todo \subseteq Groups[c.at - Len(Walks)].periods
    /\ t = "courier" => c \in {Idle} \cup {d \in Refreshing : d.at = 0}

CallsTyped == DOMAIN calls = Threads /\ \A t \in Threads : CallTyped(t, calls[t])

BooksTyped ==
    /\ DOMAIN books = Realms
    /\ \A realm \in Realms : DOMAIN books[realm] = WalkNames
    /\ \A realm \in Realms, e \in WalkNames :
          books[realm][e] \in [Records[e] -> {NoRow} \cup [content : Contents, at : Times]]

GrantTyped ==
    /\ live \subseteq Token /\ refused \subseteq Token /\ latch \in BOOLEAN
    /\ cred \in {NoCred} \cup [realm : Realms, token : Token, flag : BOOLEAN]

CacheTyped ==
    /\ DOMAIN rows = WalkNames
    /\ \A e \in WalkNames :
          rows[e] \in [Records[e] -> {NoRow} \cup [realm : Realms, content : Contents]]
    /\ reports \in [Periods -> {NoRow} \cup [realm : Realms]]
    /\ cursors \in [Entities -> Cursor]

CountsTyped ==
    /\ issued \in 0..scope.grants /\ updates \in 0..scope.updates /\ clock \in 0..scope.cycles
    /\ amiss \subseteq {"shifted", "recurred", "crossed", "kept", "unsaved", "misjudged"}
    /\ failures \in 0..scope.faults /\ scope \in Scopes

\* Types of the books and of the tables; a cycle never spends more than its budget.
SyncTypeOK == CountsTyped /\ BooksTyped /\ GrantTyped /\ CacheTyped /\ CallsTyped

\* "they belong to another company's books" (store.rs): what is cached is the
\* connected company's.
OneCompanysBooks == cred # NoCred => ~Foreign(cred.realm, rows, reports)

\* The same, as long as nobody connects or disconnects while a thread is at
\* work, and no data outlives the connection it belongs to.
CacheIsConnected == amiss \cap {"crossed", "kept"} = {} => OneCompanysBooks

IsCached(realm, book, table, r) == table[r] = Snapshot(realm, book[r].content)

\* What lies before the high-water mark of the cursor, or before the position of
\* the walk under way, is cached as the book has it.
WalkCached(realm, book, table, c) ==
    /\ \A r \in Matching(book, 0) : book[r].at < c.high => IsCached(realm, book, table, r)
    /\ \A r \in Matching(book, c.since) :
          Position(book, c.since, r) < c.pos => IsCached(realm, book, table, r)

\* No record changed in mid-walk, no content recurred, no connection changed hands.
Untroubled == amiss \cap {"shifted", "recurred", "crossed", "kept"} = {}

\* "Promote the walk: everything updated up to walk_max is now cached", and "the
\* cursor only advances after its page's rows commit": whatever lies before the
\* high-water mark, or before the position of the walk under way, is cached as
\* the books have it, over crashes, failing writes, 429s and reconnections.  It
\* takes a record that changes in mid-walk, a content that recurs, or a
\* connection that changes hands, to leave a record behind.
WalkedIsCached ==
    Untroubled /\ cred # NoCred =>
        \A e \in WalkNames : WalkCached(cred.realm, books[cred.realm][e], rows[e], cursors[e])

\* A filter stays pinned to the high-water mark, on disk and on its way.
WalksPinned ==
    /\ \A e \in WalkNames : cursors[e].pos > 1 => cursors[e].since = cursors[e].high
    /\ Sync.pc \in {"asked", "rows"} =>
          /\ Sync.since = Sync.cursor.high
          /\ Sync.cursor.pos > 1 => Sync.cursor.since = Sync.cursor.high

OwnedBy(realm, table) == \A r \in DOMAIN table : table[r] # NoRow => table[r].realm = realm
Filled(table) == \E r \in DOMAIN table : table[r] # NoRow

\* The book reaches the time and, in mid-walk, the position that the cursor tells of.
WalkBacked(book, c) ==
    /\ c.high > 0 => \E q \in Matching(book, 0) : book[q].at >= c.high
    /\ c.pos > 1 => \E q \in Matching(book, c.since) :
                       Position(book, c.since, q) = c.pos - 1 /\ book[q].at >= c.max

\* Connected or not, the cursor of an entity tells of the company whose rows are
\* cached, and of nobody if none are.
WalksSound ==
    Untroubled => \A e \in WalkNames :
        /\ cursors[e].high > 0 \/ cursors[e].pos > 1 => Filled(rows[e])
        /\ \A realm \in Realms : OwnedBy(realm, rows[e]) =>
              /\ WalkCached(realm, books[realm][e], rows[e], cursors[e])
              /\ WalkBacked(books[realm][e], cursors[e])

\* The rows of a page still to be written are the book's; the page is cached but for
\* them, and the book reaches the time and the position the walk will tell of.
PageHeld(call, book, table) ==
    /\ \A entry \in call.page : /\ entry.rec \in Matching(book, call.since)
                                /\ book[entry.rec].content = entry.content
    /\ \A r \in Matching(book, call.since) :
          /\ Position(book, call.since, r) >= call.cursor.pos
          /\ IF call.full THEN Position(book, call.since, r) < call.cursor.pos + PageSize
                           ELSE book[r].at < call.max
          => \/ IsCached(call.realm, book, table, r)
             \/ [rec |-> r, content |-> book[r].content] \in call.page
    /\ call.full \/ call.max > 0 => call.page # {} \/ Filled(table)
    /\ call.max > 0 => \E q \in Matching(book, 0) : book[q].at >= call.max
    /\ call.full => \E q \in Matching(book, call.since) :
                      /\ Position(book, call.since, q) = call.cursor.pos + PageSize - 1
                      /\ book[q].at >= call.max

\* A walk under way stands where its cursor does.
PageSound ==
    Untroubled /\ Sync.pc \in {"asked", "rows"} =>
        /\ Sync.cursor = cursors[Walks[Sync.at]]
        /\ Sync.pc = "rows" => PageHeld(Sync, BookOf(Sync), rows[Walks[Sync.at]])

\* "providers throttle the account, not one entity": no page is asked for while
\* any cursor holds a deadline that lies ahead.
StandsDown ==
    [][Sync.pc = "next" /\ Sync'.pc = "asked" =>
          \A e \in Entities : cursors[e].until <= Sync.now]_syncVars

\* "Process-local latch so a rejected grant is not retried if SQLite failed to
\* persist" (store.rs): a token that was refused stands behind the latch or the
\* durable flag for the rest of the process's life, whatever the other thread does.
RejectedIsNotRetried ==
    cred # NoCred /\ cred.token \in refused => latch \/ cred.flag

\* The same, as long as no cycle refreshes twice: the second grant is not stored,
\* yet the latch is cleared for it.
RefusedIsBlocked == "unsaved" \notin amiss => RejectedIsNotRetried

\* The operator is only sent to reconnect when the stored grant is dead, however
\* cycle and courier refresh it side by side, unless somebody reconnects or
\* disconnects while a rejection is on its way, or the token endpoint has turned
\* down a grant that was alive: the code condemns the grant on any such answer,
\* and only a reconnection or the other thread's refresh clears the flag.
FlagMeansDead ==
    amiss \cap {"crossed", "misjudged"} = {} /\ cred # NoCred /\ cred.flag =>
        cred.token \notin live

\* A refused token is dead, unless misjudged; a grant on its way to the table is
\* nobody else's, and was never refused.
TokensSound ==
    /\ "misjudged" \notin amiss =>
          /\ refused \cap live = {}
          /\ \A t \in Threads : calls[t].pc = "mark" => calls[t].token \notin live
    /\ \A t \in Threads : calls[t].pc = "persist" =>
          /\ calls[t].token \notin refused
          /\ cred # NoCred => cred.token # calls[t].token
          /\ \A u \in Threads \ {t} : calls[u] # Idle => calls[u].token # calls[t].token

\* While threads are at work the stored grant lives and dies with theirs.
SameFate ==
    "crossed" \notin amiss =>
        /\ cred # NoCred => cred.token.realm = cred.realm
        /\ \A t \in Threads : calls[t] # Idle =>
              /\ cred # NoCred
              /\ cred.realm = calls[t].realm /\ cred.realm = calls[t].token.realm
              /\ cred.token \in live <=> calls[t].token \in live

\* In the walks of a cycle no cursor holds a deadline that lies ahead.
WalksUnthrottled ==
    Sync # Idle /\ Sync.at \in 1..Len(Walks) => \A e \in Entities : cursors[e].until <= Sync.now

\* What the caches hold, against the cursors and the connected company.
CacheInv == CacheIsConnected /\ WalkedIsCached /\ WalksPinned /\ WalksSound /\ PageSound

\* The stored grant, the latch and the durable flag agree about what is dead.
GrantInv ==
    /\ SyncTypeOK /\ RefusedIsBlocked /\ FlagMeansDead
    /\ TokensSound /\ SameFate /\ WalksUnthrottled
=============================================================================
