--------------------------- MODULE SocialGeneration ---------------------------
(***************************************************************************)
(* Generation of social post proposals (crates/bos-app/src/slices/         *)
(* social_publishing/): operators ask for a proposal of a published        *)
(* source, or for a redraft of a staged one; a worker thread drafts it     *)
(* with the LLM, stages it and links it to the source.  Kickoffs go        *)
(* through the registry of AsyncKickoff; what survives a restart is the    *)
(* source row with its generation status and run id.                       *)
(*                                                                         *)
(* A request has its own idempotency key and may be sent again, also while *)
(* an earlier sending is still served; the run id and the proposal id are  *)
(* hashes of that key, so both are named by the request.  Every statement  *)
(* that reads or writes the database is a step of its own where another    *)
(* connection can come in between.                                         *)
(***************************************************************************)
EXTENDS AsyncKickoff, FiniteSets

CONSTANTS
    Requests,     \* operator requests: kickoffs and redrafts
    Handlers,     \* threads serving requests
    Workers,      \* generation threads
    MayAbort,     \* may grounding or the channel configuration fail a worker?
    MayPanic,     \* may a thread panic, or fail to start?
    MaxRevision,  \* bound: a source is ingested again up to this revision
    MaxFaults     \* bound: restarts of the process

Sources == Keys

ASSUME BoundsAssumption ==
    MayAbort \in BOOLEAN /\ MayPanic \in BOOLEAN /\ MaxRevision \in Nat /\ MaxFaults \in Nat
ASSUME NamesAssumption ==
    NoRun \notin Requests /\ Handlers \cap Workers = {} /\ IsFiniteSet(Handlers \cup Workers)

VARIABLES
    sources,     \* table social_published_sources with entity revisions
    proposals,   \* table social_post_proposals, by the run that staged them
    applied,     \* applied receipts, by idempotency key
    requests,    \* what each request asks for, once it has been sent
    calls,       \* per handler or worker: where it stands
    restarts     \* restarts so far

vars == <<byKey, byGroup, sources, proposals, applied, requests, calls, restarts>>
db == <<sources, proposals, applied>>

Idle == [pc |-> "idle"]
Unsent == [kind |-> "unsent"]
NoSource == [status |-> "absent", run |-> NoRun, proposal |-> NoRun, revision |-> 0]
NoProposal == [status |-> "absent", revision |-> 0]

Req(a) == requests[calls[a].req]
Src(a) == sources[Req(a).source]

\* The guard of a's request is in a's hands.
HasGuard(a) ==
    \/ a \in Workers /\ calls[a] # Idle
    \/ calls[a].pc \in {"recording", "starting", "spawning"}
Guards == {a \in Handlers \cup Workers : HasGuard(a)}

Done(a) == calls' = [calls EXCEPT ![a] = Idle]
DoneDroppingGuard(a) == Done(a) /\ DropGuard(Req(a).source)

-----------------------------------------------------------------------------
Init ==
    /\ EmptyRegistry
    /\ sources = [s \in Sources |-> NoSource]
    /\ proposals = [c \in Requests |-> NoProposal]
    /\ applied = {}
    /\ requests = [c \in Requests |-> Unsent]
    /\ calls = [a \in Handlers \cup Workers |-> Idle]
    /\ restarts = 0

\* ingest_source_request, ingest_adhoc_source_request: a new source is ready;
\* the metadata of a known one is refreshed, its generation state left alone.
Ingest(s) ==
    /\ sources[s].revision < MaxRevision
    /\ sources' = [sources EXCEPT ![s] =
                     IF @ = NoSource THEN [@ EXCEPT !.status = "ready", !.revision = 1]
                                     ELSE [@ EXCEPT !.revision = sources[s].revision + 1]]
    /\ UNCHANGED <<registry, proposals, applied, requests, calls, restarts>>

\* The operator asks for a proposal of s, at the revision seen; 0 stands for a
\* published source that is not registered yet.
AskKickoff(h, c) ==
    /\ calls[h] = Idle /\ requests[c] = Unsent
    /\ \E s \in Sources :
          requests' = [requests EXCEPT ![c] = [kind |-> "kickoff", source |-> s, of |-> NoRun,
                                               expected |-> sources[s].revision]]
    /\ calls' = [calls EXCEPT ![h] = [pc |-> "kickoff", req |-> c,
                                      expected |-> requests'[c].expected]]
    /\ UNCHANGED <<registry, db, restarts>>

\* The operator asks for a redraft of a proposal, at the revision seen.
AskRedraft(h, c) ==
    /\ calls[h] = Idle /\ requests[c] = Unsent
    /\ \E p \in Requests :
          /\ proposals[p] # NoProposal
          /\ requests' = [requests EXCEPT ![c] = [kind |-> "redraft", of |-> p,
                                                  source |-> requests[p].source,
                                                  expected |-> proposals[p].revision]]
    /\ calls' = [calls EXCEPT ![h] = [pc |-> "redraft", req |-> c]]
    /\ UNCHANGED <<registry, db, restarts>>

\* A client sends a request again: the answer was lost, or a second click.
SendAgain(h, c) ==
    /\ calls[h] = Idle /\ requests[c] # Unsent
    /\ calls' = [calls EXCEPT ![h] =
                   IF requests[c].kind = "redraft" THEN [pc |-> "redraft", req |-> c]
                   ELSE [pc |-> "kickoff", req |-> c, expected |-> requests[c].expected]]
    /\ UNCHANGED <<registry, db, requests, restarts>>

-----------------------------------------------------------------------------
\* redraft_request reads the proposal, its source and its own receipts, and
\* decides what to do.  A replay goes straight on to the kickoff.
RedraftRead(h) ==
    LET c == calls[h].req
        p == Req(h).of
        linked == Src(h).proposal = p /\ Src(h).status # "ready"
        Go(act) == [pc |-> "redrafting", req |-> c, act |-> act, seen |-> Src(h).revision]
    IN  /\ calls[h].pc = "redraft"
        /\ calls' = [calls EXCEPT ![h] =
                       IF {<<"redraft", c>>, <<"reset", c>>} \cap applied # {}
                       THEN [pc |-> "reread", req |-> c]
                       ELSE IF proposals[p].status = "staged" THEN Go("redraft")
                       ELSE IF proposals[p].status = "rejected" /\ linked THEN Go("reset")
                       ELSE Idle]
        /\ UNCHANGED <<registry, db, requests, restarts>>

\* SOURCE_RESET_SQL finds its row: the source still points at the proposal.
Resettable(row, p) ==
    row.proposal = p /\ row.status \in {"proposal_staged", "generation_failed"}

ResetRowKeepingProposal(row) ==
    [status |-> "ready", run |-> NoRun, proposal |-> row.proposal, revision |-> row.revision + 1]

ResetRow(row) ==
    [status |-> "ready", run |-> NoRun, proposal |-> NoRun, revision |-> row.revision + 1]

RedraftableAnyStatus(h) ==
    /\ Resettable(Src(h), Req(h).of)
    /\ Src(h).revision = calls[h].seen

\* What the transaction of redraft_proposal checks: the expected revision, the
\* status, the source row and the revision of the source.
Redraftable(h) ==
    /\ proposals[Req(h).of].revision = Req(h).expected
    /\ proposals[Req(h).of].status = "staged"
    /\ Resettable(Src(h), Req(h).of)
    /\ Src(h).revision = calls[h].seen

\* redraft_proposal: reject and reset together, or neither.
RedraftProposal(h) ==
    LET c == calls[h].req
        p == Req(h).of
    IN  /\ calls[h].pc = "redrafting" /\ calls[h].act = "redraft"
        /\ \/ /\ <<"redraft", c>> \notin applied /\ Redraftable(h)
              /\ applied' = applied \cup {<<"redraft", c>>}
              /\ proposals' = [proposals EXCEPT ![p] = [status |-> "rejected",
                                                        revision |-> @.revision + 1]]
              /\ sources' = [sources EXCEPT ![Req(h).source] = ResetRow(@)]
              /\ calls' = [calls EXCEPT ![h] = [pc |-> "reread", req |-> c]]
           \/ /\ <<"redraft", c>> \in applied
              /\ calls' = [calls EXCEPT ![h] = [pc |-> "reread", req |-> c]]
              /\ UNCHANGED db
           \/ /\ <<"redraft", c>> \notin applied /\ ~Redraftable(h)
              /\ Done(h)
              /\ UNCHANGED db
        /\ UNCHANGED <<registry, requests, restarts>>

\* reset_generation: the self-heal of a source that points at a rejected
\* proposal.
ResetGeneration(h) ==
    LET c == calls[h].req
    IN  /\ calls[h].pc = "redrafting" /\ calls[h].act = "reset"
        /\ \/ /\ <<"reset", c>> \notin applied
              /\ Src(h).revision = calls[h].seen /\ Resettable(Src(h), Req(h).of)
              /\ applied' = applied \cup {<<"reset", c>>}
              /\ sources' = [sources EXCEPT ![Req(h).source] = ResetRow(@)]
              /\ calls' = [calls EXCEPT ![h] = [pc |-> "reread", req |-> c]]
              /\ UNCHANGED proposals
           \/ /\ <<"reset", c>> \in applied
              /\ calls' = [calls EXCEPT ![h] = [pc |-> "reread", req |-> c]]
              /\ UNCHANGED db
           \/ /\ <<"reset", c>> \notin applied
              /\ ~(Src(h).revision = calls[h].seen /\ Resettable(Src(h), Req(h).of))
              /\ Done(h)
              /\ UNCHANGED db
        /\ UNCHANGED <<registry, requests, restarts>>

\* The redraft goes on as a kickoff at the revision of the source it now reads.
Reread(h) ==
    /\ calls[h].pc = "reread"
    /\ calls' = [calls EXCEPT ![h] = [pc |-> "kickoff", req |-> calls[h].req,
                                      expected |-> Src(h).revision]]
    /\ UNCHANGED <<registry, db, requests, restarts>>

-----------------------------------------------------------------------------
\* Nothing to start: a proposal is staged, or another run is at work.
NothingToStart(row, c) ==
    \/ row.status = "proposal_staged"
    \/ row.status = "generating" /\ row.run # c

\* kickoff_generation up to the registry: ensure_source_registered, then the
\* early answer.
KickoffRead(h) ==
    LET c == calls[h].req
        row == IF Src(h) = NoSource THEN [NoSource EXCEPT !.status = "ready", !.revision = 1]
               ELSE Src(h)
        expected == IF Src(h) = NoSource THEN row.revision ELSE calls[h].expected
    IN  /\ calls[h].pc = "kickoff"
        /\ Src(h) = NoSource => calls[h].expected = 0
        /\ sources' = [sources EXCEPT ![Req(h).source] = row]
        /\ calls' = [calls EXCEPT ![h] =
                       IF row.revision = expected /\ NothingToStart(row, c) THEN Idle
                       ELSE [pc |-> "begin", req |-> c, expected |-> expected]]
        /\ UNCHANGED <<registry, proposals, applied, requests, restarts>>

\* async_kickoff::begin
Begin(h) ==
    LET s == Req(h).source
    IN  /\ calls[h].pc = "begin"
        /\ \/ /\ AlreadyRunning(s) \/ CapacityExceeded(s)
              /\ Done(h)
              /\ UNCHANGED registry
           \/ /\ GuardStarted(s, calls[h].req)
              /\ calls' = [calls EXCEPT ![h].pc = "recording"]
        /\ UNCHANGED <<db, requests, restarts>>

\* The recorder reads the source: its run has staged its proposal, or is to be
\* resumed, or has to be started.
RecordRead(h) ==
    LET c == calls[h].req
        mine == Src(h).run = c
    IN  /\ calls[h].pc = "recording"
        /\ \/ /\ mine /\ Src(h).status = "proposal_staged"
              /\ DoneDroppingGuard(h)
           \/ /\ mine /\ Src(h).status = "generating"
              /\ calls' = [calls EXCEPT ![h].pc = "spawning"]
              /\ UNCHANGED registry
           \/ /\ ~(mine /\ Src(h).status \in {"proposal_staged", "generating"})
              /\ calls' = [calls EXCEPT ![h].pc = "starting"]
              /\ UNCHANGED registry
        /\ UNCHANGED <<db, requests, restarts>>

\* What begin_generation asks for: a new key, the expected revision, and a
\* source that is neither generating nor has a proposal.
Startable(h) ==
    /\ <<"start", calls[h].req>> \notin applied
    /\ Src(h).revision = calls[h].expected
    /\ Src(h).status \in {"ready", "generation_failed"}

\* begin_generation; a replay, a conflict and an error all drop the guard.
RecordStart(h) ==
    LET c == calls[h].req
    IN  /\ calls[h].pc = "starting"
        /\ \/ /\ Startable(h)
              /\ applied' = applied \cup {<<"start", c>>}
              /\ sources' = [sources EXCEPT ![Req(h).source] =
                               [@ EXCEPT !.status = "generating", !.run = c,
                                         !.revision = Src(h).revision + 1]]
              /\ calls' = [calls EXCEPT ![h].pc = "spawning"]
              /\ UNCHANGED registry
           \/ /\ ~Startable(h)
              /\ DoneDroppingGuard(h)
              /\ UNCHANGED <<applied, sources>>
        /\ UNCHANGED <<proposals, requests, restarts>>

\* The recorder meets a busy database: the error drops the guard.
RecordFails(h) ==
    /\ calls[h].pc \in {"recording", "starting"}
    /\ DoneDroppingGuard(h)
    /\ UNCHANGED <<db, requests, restarts>>

GuardDropsInHandler(s) == DropGuard(s)

\* The guard is moved into the closure of the worker thread.
GuardMoves(s) == UNCHANGED registry

\* The worker thread starts and takes the guard with it.
Spawn(h, w) ==
    /\ calls[h].pc = "spawning" /\ calls[w] = Idle
    /\ calls' = [calls EXCEPT ![h] = Idle, ![w] = [pc |-> "started", req |-> calls[h].req]]
    /\ GuardMoves(Req(h).source)
    /\ UNCHANGED <<db, requests, restarts>>

\* The thread cannot be created: the guard goes with the closure, and the
\* handler records the failure itself.
SpawnFails(h) ==
    /\ MayPanic /\ calls[h].pc = "spawning"
    /\ DropGuard(Req(h).source)
    /\ calls' = [calls EXCEPT ![h] = [pc |-> "finish", req |-> calls[h].req, staged |-> FALSE,
                                      panicked |-> FALSE]]
    /\ UNCHANGED <<db, requests, restarts>>

-----------------------------------------------------------------------------
\* execute_source_generation, first read: the run must still be the source's.
WorkRead(w) ==
    /\ calls[w].pc = "started"
    /\ \/ /\ Src(w).status = "generating" /\ Src(w).run = calls[w].req
          /\ calls' = [calls EXCEPT ![w].pc = "drafting"]
          /\ UNCHANGED registry
       \/ /\ ~(Src(w).status = "generating" /\ Src(w).run = calls[w].req)
          /\ DoneDroppingGuard(w)
    /\ UNCHANGED <<db, requests, restarts>>

\* source_grounding or configured_channels fails: the worker returns the error,
\* which is logged, and the source stays as it is.
WorkAborts(w) ==
    /\ MayAbort /\ calls[w].pc = "started"
    /\ DoneDroppingGuard(w)
    /\ UNCHANGED <<db, requests, restarts>>

ToFinish(w, staged, panicked) ==
    calls' = [calls EXCEPT ![w] = [pc |-> "finish", req |-> calls[w].req, staged |-> staged,
                                   panicked |-> panicked]]

\* The LLM answers and stage_request stages the proposal of the run; the second
\* time its key replays and the proposal is left as it is.
WorkStages(w) ==
    LET c == calls[w].req
    IN  /\ calls[w].pc = "drafting"
        /\ applied' = applied \cup {<<"stage", c>>}
        /\ proposals' = IF <<"stage", c>> \in applied THEN proposals
                        ELSE [proposals EXCEPT ![c] = [status |-> "staged", revision |-> 1]]
        /\ ToFinish(w, TRUE, FALSE)
        /\ UNCHANGED <<registry, sources, requests, restarts>>

\* Every one of the generation attempts fails.
WorkGivesUp(w) ==
    /\ calls[w].pc = "drafting"
    /\ ToFinish(w, FALSE, FALSE)
    /\ UNCHANGED <<registry, db, requests, restarts>>

\* A panic in PersistencePool::lock is caught once and recorded as a failure;
\* a second one ends the thread.  The guard is dropped either way.
WorkPanics(w) ==
    /\ MayPanic /\ calls[w].pc \in {"started", "drafting", "finish"}
    /\ \/ /\ calls[w].pc = "finish" => ~calls[w].panicked
          /\ ToFinish(w, FALSE, TRUE)
          /\ UNCHANGED registry
       \/ /\ calls[w].pc = "finish" /\ calls[w].panicked
          /\ DoneDroppingGuard(w)
    /\ UNCHANGED <<db, requests, restarts>>

\* finish_generation_state reads the revision it will expect.
FinishRead(a) ==
    /\ calls[a].pc = "finish"
    /\ calls' = [calls EXCEPT ![a] = [pc |-> "finishing", req |-> calls[a].req,
                                      staged |-> calls[a].staged, seen |-> Src(a).revision]]
    /\ UNCHANGED <<registry, db, requests, restarts>>

\* The key is new, nobody wrote in between, and the run is still the source's.
Finishable(a) ==
    /\ <<"finish", calls[a].req>> \notin applied
    /\ Src(a).revision = calls[a].seen
    /\ Src(a).run = calls[a].req

\* finish_generation.  A revision conflict is an Ok outcome nobody looks at.
FinishWrite(a) ==
    LET c == calls[a].req
    IN  /\ calls[a].pc = "finishing"
        /\ \/ /\ Finishable(a)
              /\ applied' = applied \cup {<<"finish", c>>}
              /\ sources' = [sources EXCEPT ![Req(a).source] =
                               [status |-> IF calls[a].staged THEN "proposal_staged"
                                           ELSE "generation_failed",
                                run |-> @.run, proposal |-> IF calls[a].staged THEN c ELSE NoRun,
                                revision |-> @.revision + 1]]
           \/ ~Finishable(a) /\ UNCHANGED <<applied, sources>>
        /\ IF a \in Workers THEN DoneDroppingGuard(a) ELSE Done(a) /\ UNCHANGED registry
        /\ UNCHANGED <<proposals, requests, restarts>>

-----------------------------------------------------------------------------
\* approve_proposal (with its outbox jobs), reject_proposal and update_proposal
\* carry the revision seen and check the status inside their transaction.
Decide(p) ==
    /\ proposals[p].status = "staged"
    /\ \E status \in {"approved", "rejected"} :
          proposals' = [proposals EXCEPT ![p] = [status |-> status, revision |-> @.revision + 1]]
    /\ UNCHANGED <<registry, sources, applied, requests, calls, restarts>>

\* The process restarts: registry, handlers and workers are gone.
Restart ==
    /\ restarts < MaxFaults
    /\ restarts' = restarts + 1
    /\ RegistryLost
    /\ calls' = [a \in Handlers \cup Workers |-> Idle]
    /\ UNCHANGED <<db, requests>>

Next ==
    \/ Restart
    \/ \E s \in Sources : Ingest(s)
    \/ \E p \in Requests : Decide(p)
    \/ \E h \in Handlers :
          \/ \E c \in Requests : AskKickoff(h, c) \/ AskRedraft(h, c) \/ SendAgain(h, c)
          \/ RedraftRead(h) \/ RedraftProposal(h) \/ ResetGeneration(h) \/ Reread(h)
          \/ KickoffRead(h) \/ Begin(h) \/ RecordRead(h) \/ RecordStart(h) \/ RecordFails(h)
          \/ SpawnFails(h) \/ \E w \in Workers : Spawn(h, w)
    \/ \E w \in Workers : \/ WorkRead(w) \/ WorkAborts(w) \/ WorkStages(w)
                          \/ WorkGivesUp(w) \/ WorkPanics(w)
    \/ \E a \in Handlers \cup Workers : FinishRead(a) \/ FinishWrite(a)

Spec == Init /\ [][Next]_vars

-----------------------------------------------------------------------------
Runs == Requests \cup {NoRun}

SourceRow == [status : {"absent", "ready", "generating", "generation_failed", "proposal_staged"},
              run : Runs, proposal : Runs, revision : Nat]

Request == [kind : {"kickoff"}, source : Sources, of : {NoRun}, expected : Nat]
           \cup [kind : {"redraft"}, source : Sources, of : Requests, expected : Nat]

Call == [pc : {"idle"}]
        \cup [pc : {"redraft", "reread", "started", "drafting"}, req : Requests]
        \cup [pc : {"redrafting"}, req : Requests, act : {"redraft", "reset"}, seen : Nat]
        \cup [pc : {"kickoff", "begin", "recording", "starting", "spawning"}, req : Requests,
              expected : Nat]
        \cup [pc : {"finish"}, req : Requests, staged : BOOLEAN, panicked : BOOLEAN]
        \cup [pc : {"finishing"}, req : Requests, staged : BOOLEAN, seen : Nat]

\* Types of every variable; a source points at the proposal its run staged
\* exactly while it says so.
TypeOK ==
    /\ byKey \in [Keys -> Runs] /\ byGroup \in Nat
    /\ sources \in [Sources -> SourceRow]
    /\ proposals \in [Requests -> [status : {"absent", "staged", "approved", "rejected"},
                                   revision : Nat]]
    /\ applied \subseteq {"start", "stage", "finish", "redraft", "reset"} \X Requests
    /\ requests \in [Requests -> {Unsent} \cup Request]
    /\ calls \in [Handlers \cup Workers -> Call]
    /\ \A s \in Sources :
          /\ sources[s].status = "proposal_staged" =>
                sources[s].proposal = sources[s].run /\ sources[s].run # NoRun
          /\ sources[s].proposal # NoRun =>
                /\ sources[s].status = "proposal_staged"
                /\ proposals[sources[s].proposal] # NoProposal

\* Whatever fails, panics or is replayed, the registry says exactly who runs: a
\* key is taken by the one thread that holds its guard, under its run, and the
\* places in use are the guards, never more than the limit.
RegistryExact ==
    /\ byGroup = Cardinality(Guards) /\ byGroup <= Capacity
    /\ \A s \in Sources : byKey[s] # NoRun <=> \E a \in Guards : Req(a).source = s
    /\ \A a \in Guards : byKey[Req(a).source] = calls[a].req
    /\ \A a, b \in Guards : Req(a).source = Req(b).source => a = b

\* A worker that drafts or finishes works for the run the source names, and no
\* other worker has staged a proposal for it: no redraft, reset or second start
\* replaces the run under it, so its proposal is not orphaned.  The source may
\* say generation_failed: a handler whose thread did not start records so
\* without the guard, while another handler resumes the run.
LiveRunIsCurrent ==
    \A w \in Workers : calls[w].pc \in {"drafting", "finish", "finishing"} =>
        Src(w).status \in {"generating", "generation_failed"} /\ Src(w).run = calls[w].req

\* Once the operator has approved the proposal a source points at, no redraft
\* or kickoff that was already under way takes the source back for another one.
ApprovedIsNotRedrafted ==
    [][\A s \in Sources :
          sources[s].proposal # NoRun /\ proposals[sources[s].proposal].status = "approved"
          => sources'[s].proposal = sources[s].proposal]_vars

\* "Either both rows change or neither does": a redraft leaves no source
\* pointing at the proposal it rejected.
RedraftAtomic ==
    \A c \in Requests : <<"redraft", c>> \in applied =>
        \A s \in Sources : sources[s].proposal # requests[c].of

\* Who does what: handlers serve requests that were sent, redrafts are about
\* proposals of their own source, workers generate, and a handler that finishes
\* a run has no proposal for it.
CallsSound ==
    /\ \A a \in Handlers \cup Workers : calls[a] # Idle => Req(a) # Unsent
    /\ \A c \in Requests : requests[c].kind = "redraft" =>
          requests[requests[c].of] # Unsent /\ requests[requests[c].of].source = requests[c].source
    /\ \A h \in Handlers :
          /\ calls[h].pc \notin {"started", "drafting"}
          /\ calls[h].pc \in {"redraft", "redrafting", "reread"} => Req(h).kind = "redraft"
          /\ calls[h].pc \in {"finish", "finishing"} => ~calls[h].staged
    /\ \A w \in Workers : calls[w].pc \in {"idle", "started", "drafting", "finish", "finishing"}

\* What the receipts tell about the rows: a run is staged once and finished
\* once, a proposal is linked by the run that finished, and a redraft was of a
\* proposal whose run is over.
ReceiptsSound ==
    /\ \A s \in Sources :
          /\ sources[s].run # NoRun =>
                requests[sources[s].run] # Unsent /\ requests[sources[s].run].source = s
          /\ sources[s].proposal # NoRun => <<"finish", sources[s].proposal>> \in applied
    /\ \A c \in Requests :
          /\ proposals[c] # NoProposal <=> <<"stage", c>> \in applied
          /\ proposals[c] # NoProposal => proposals[c].status # "absent" /\ requests[c] # Unsent
          /\ <<"redraft", c>> \in applied =>
                requests[c].kind = "redraft" /\ <<"finish", requests[c].of>> \in applied
    /\ \A a \in Handlers \cup Workers :
          /\ calls[a].pc \in {"finish", "finishing"} /\ calls[a].staged =>
                proposals[calls[a].req] # NoProposal
          /\ calls[a].pc = "redrafting" /\ calls[a].act = "reset" =>
                proposals[Req(a).of].status = "rejected"

\* Whoever holds a guard and has recorded the start holds it for the run that
\* the source names: LiveRunIsCurrent, from the record of the start on.
GuardsAreCurrent ==
    \A a \in Guards : calls[a].pc \notin {"recording", "starting"} =>
        Src(a).status \in {"generating", "generation_failed"} /\ Src(a).run = calls[a].req

\* Registry, source rows and proposals agree, whatever fails half way.
GenerationInv ==
    /\ TypeOK /\ RegistryExact /\ RedraftAtomic
    /\ CallsSound /\ ReceiptsSound /\ GuardsAreCurrent
=============================================================================
