------------------------ MODULE SocialGenerationProofs ------------------------
(***************************************************************************)
(* Proofs about SocialGeneration: registry, source rows and proposals      *)
(* agree (GenerationInv), a live worker works for the run its source names *)
(* (LiveRunIsCurrent), and an approved proposal is not taken back          *)
(* (ApprovedIsNotRedrafted), for all sources, requests and threads.        *)
(***************************************************************************)
EXTENDS SocialGeneration, FiniteSetTheorems, TLAPS

Actors == Handlers \cup Workers

\* What a thread's call holds, by place.
LEMMA CallFields ==
    ASSUME TypeOK, NEW a \in Actors
    PROVE  /\ calls[a] \in Call
           /\ calls[a] = Idle <=> calls[a].pc = "idle"
           /\ calls[a].pc # "idle" => calls[a].req \in Requests
           /\ calls[a].pc = "redrafting" => calls[a].act \in {"redraft", "reset"}
           /\ calls[a].pc \in {"kickoff", "begin", "recording", "starting", "spawning"} =>
                 calls[a] \in [pc : {"kickoff", "begin", "recording", "starting", "spawning"},
                               req : Requests, expected : Nat]
           /\ calls[a].pc \in {"finish", "finishing"} => calls[a].staged \in BOOLEAN
<1>1. calls[a] \in Call
  BY DEF TypeOK, Actors
<1>2. calls[a] = Idle <=> calls[a].pc = "idle"
  BY <1>1 DEF Call, Idle
<1>3. calls[a].pc # "idle" => calls[a].req \in Requests
  BY <1>1 DEF Call
<1>4. calls[a].pc = "redrafting" => calls[a].act \in {"redraft", "reset"}
  BY <1>1 DEF Call
<1>5. calls[a].pc \in {"kickoff", "begin", "recording", "starting", "spawning"} =>
         calls[a] \in [pc : {"kickoff", "begin", "recording", "starting", "spawning"},
                       req : Requests, expected : Nat]
  BY <1>1 DEF Call
<1>6. calls[a].pc \in {"finish", "finishing"} => calls[a].staged \in BOOLEAN
  BY <1>1 DEF Call
<1>7. QED
  BY <1>1, <1>2, <1>3, <1>4, <1>5, <1>6

\* A request that was sent.
LEMMA RequestFields ==
    ASSUME TypeOK, NEW c \in Requests
    PROVE  /\ requests[c] # Unsent => requests[c] \in Request /\ requests[c].source \in Sources
           /\ requests[c].kind = "redraft" => requests[c] # Unsent /\ requests[c].of \in Requests
<1>1. requests[c] \in {Unsent} \cup Request
  BY DEF TypeOK
<1>2. QED
  BY <1>1 DEF Unsent, Request

\* What a thread at work works on.
LEMMA AtWork ==
    ASSUME GenerationInv, NEW a \in Actors, calls[a].pc # "idle"
    PROVE  /\ calls[a].req \in Requests /\ Req(a) = requests[calls[a].req]
           /\ Req(a) # Unsent /\ Req(a) \in Request /\ Req(a).source \in Sources
           /\ Src(a) = sources[Req(a).source] /\ Src(a) \in SourceRow
<1>1. TypeOK
  BY DEF GenerationInv
<1>2. calls[a] # Idle /\ calls[a].req \in Requests
  BY <1>1, CallFields
<1>3. Req(a) # Unsent
  BY <1>2 DEF GenerationInv, CallsSound, Actors
<1>4. Req(a) \in Request /\ Req(a).source \in Sources
  BY <1>1, <1>2, <1>3, RequestFields DEF Req
<1>5. QED
  BY <1>1, <1>2, <1>3, <1>4 DEF Req, Src, TypeOK

\* Where a thread holds a guard.
Guarding(a, pc) ==
    (a \in Workers /\ pc # "idle") \/ pc \in {"recording", "starting", "spawning"}

\* Who holds a guard, by place.
LEMMA GuardsAre ==
    ASSUME TypeOK
    PROVE  /\ Guards \subseteq Actors
           /\ \A a \in Actors : a \in Guards <=> Guarding(a, calls[a].pc)
BY CallFields DEF Guards, HasGuard, Guarding, Actors

\* The same after a step.
LEMMA GuardsAfter ==
    ASSUME calls' \in [Actors -> Call]
    PROVE  /\ Guards' \subseteq Actors
           /\ \A a \in Actors : a \in Guards' <=> Guarding(a, calls'[a].pc)
<1>1. ASSUME NEW a \in Actors PROVE calls'[a] = Idle <=> calls'[a].pc = "idle"
  <2>1. calls'[a] \in Call
    OBVIOUS
  <2>2. QED
    BY <2>1 DEF Call, Idle
<1>2. QED
  BY <1>1 DEF Guards, HasGuard, Guarding, Actors

\* The rows of sources and proposals.
LEMMA RowFields ==
    ASSUME TypeOK
    PROVE  /\ \A s \in Sources :
                 /\ sources[s] \in SourceRow /\ sources[s].run \in Runs
                 /\ sources[s].proposal \in Runs /\ sources[s].revision \in Nat
                 /\ sources[s].proposal # NoRun =>
                       /\ sources[s].proposal \in Requests
                       /\ sources[s].status = "proposal_staged"
                       /\ sources[s].proposal = sources[s].run
           /\ \A c \in Requests : proposals[c].revision \in Nat
<1>1. \A s \in Sources : sources[s] \in SourceRow
  BY DEF TypeOK
<1>2. \A s \in Sources : /\ sources[s].run \in Runs /\ sources[s].proposal \in Runs
                         /\ sources[s].revision \in Nat
  BY <1>1 DEF SourceRow
<1>3. \A c \in Requests : proposals[c].revision \in Nat
  BY DEF TypeOK
<1>4. QED
  BY <1>1, <1>2, <1>3 DEF TypeOK, Runs

-----------------------------------------------------------------------------
\* The registry stays as it is, and so do the guards.
LEMMA RegistryStays ==
    ASSUME RegistryExact, UNCHANGED registry, Guards' = Guards,
           \A b \in Guards : calls'[b].req = calls[b].req
                             /\ requests'[calls[b].req] = requests[calls[b].req]
    PROVE  RegistryExact'
<1>1. \A b \in Guards : Req(b)' = Req(b) /\ calls'[b].req = calls[b].req
  BY DEF Req
<1>2. byKey' = byKey /\ byGroup' = byGroup
  BY DEF registry
<1>3. QED
  BY <1>1, <1>2 DEF RegistryExact, Capacity

\* A guard is dropped.
LEMMA RegistryDrops ==
    ASSUME GenerationInv, NEW a \in Guards, DropGuard(Req(a).source), Guards' = Guards \ {a},
           requests' = requests, \A b \in Guards \ {a} : calls'[b] = calls[b]
    PROVE  RegistryExact' /\ byKey' \in [Keys -> Runs] /\ byGroup' \in Nat
<1>1. TypeOK /\ RegistryExact /\ byKey \in [Keys -> Runs] /\ byGroup \in Nat
  BY DEF GenerationInv, TypeOK
<1>2. a \in Actors /\ Guards \subseteq Actors /\ IsFiniteSet(Guards) /\ calls[a].pc # "idle"
  <2>1. a \in Actors /\ Guards \subseteq Actors /\ Guarding(a, calls[a].pc)
    BY <1>1, GuardsAre
  <2>2. IsFiniteSet(Guards)
    BY <2>1, NamesAssumption, FS_Subset DEF Actors
  <2>3. QED
    BY <2>1, <2>2 DEF Guarding
<1> DEFINE s == Req(a).source
<1>3. s \in Keys
  BY <1>2, AtWork DEF Sources
<1>4. Cardinality(Guards) \in Nat /\ Cardinality(Guards') = Cardinality(Guards) - 1
  BY <1>2, FS_CardinalityType, FS_RemoveElement
<1>5. byGroup = Cardinality(Guards) /\ Cardinality(Guards) > 0
  <2>1. Guards # {}
    OBVIOUS
  <2>2. QED
    BY <1>1, <1>2, <1>4, <2>1, FS_EmptySet DEF RegistryExact
<1>6. byGroup' = Cardinality(Guards') /\ byGroup' \in Nat /\ byGroup' <= Capacity
  BY <1>1, <1>4, <1>5, CapacityAssumption DEF DropGuard, RegistryExact, Capacity
<1>7. /\ byKey'[s] = NoRun /\ \A k \in Keys : k # s => byKey'[k] = byKey[k]
      /\ byKey' \in [Keys -> Runs]
  BY <1>1, <1>3 DEF DropGuard, Runs
<1> HIDE DEF s
<1>8. \A b \in Guards' : b \in Guards /\ Req(b)' = Req(b) /\ calls'[b] = calls[b] /\ b # a
  BY DEF Req
<1>9. \A b \in Guards' : Req(b).source # s
  BY <1>1, <1>8 DEF RegistryExact, s
<1>10. ASSUME NEW b \in Guards' PROVE Req(b).source \in Keys
  <2>1. b \in Actors /\ calls[b].pc # "idle"
    BY <1>1, <1>8, GuardsAre DEF Guarding
  <2>2. QED
    BY <2>1, AtWork DEF Sources
<1>11. ASSUME NEW k \in Keys
       PROVE  byKey'[k] # NoRun <=> \E b \in Guards' : Req(b).source = k
  <2>1. CASE k = s
    BY <1>7, <1>9, <2>1
  <2>2. CASE k # s
    <3>1. byKey[k] # NoRun <=> \E b \in Guards : Req(b).source = k
      BY <1>1 DEF RegistryExact, Sources
    <3>2. Req(a).source # k
      BY <2>2 DEF s
    <3>3. QED
      BY <1>7, <2>2, <3>1, <3>2
  <2>3. QED
    BY <2>1, <2>2
<1>12. \A b \in Guards' : byKey'[Req(b).source] = calls'[b].req
  BY <1>1, <1>7, <1>8, <1>9, <1>10 DEF RegistryExact
<1>13. \A b, d \in Guards' : Req(b).source = Req(d).source => b = d
  BY <1>1, <1>8 DEF RegistryExact
<1>14. Capacity' = Capacity
  BY DEF Capacity
<1>15. RegistryExact'
  BY <1>6, <1>8, <1>11, <1>12, <1>13, <1>14 DEF RegistryExact, Sources
<1>16. QED
  BY <1>6, <1>7, <1>15

\* What the place of a thread promises about its request, the sources and the
\* proposals: the parts of the invariant that speak of one thread.
Fits(a, call) ==
    /\ call \in Call
    /\ call.pc # "idle" => requests[call.req] # Unsent
    /\ a \in Handlers =>
          /\ call.pc \notin {"started", "drafting"}
          /\ call.pc \in {"redraft", "redrafting", "reread"} => requests[call.req].kind = "redraft"
          /\ call.pc \in {"finish", "finishing"} => ~call.staged
    /\ a \in Workers => call.pc \in {"idle", "started", "drafting", "finish", "finishing"}
    /\ call.pc \in {"finish", "finishing"} /\ call.staged => proposals[call.req] # NoProposal
    /\ call.pc = "redrafting" /\ call.act = "reset" =>
          proposals[requests[call.req].of].status = "rejected"
    /\ Guarding(a, call.pc) /\ call.pc \notin {"recording", "starting"} =>
          /\ sources[requests[call.req].source].status \in {"generating", "generation_failed"}
          /\ sources[requests[call.req].source].run = call.req

\* The parts of the invariant that speak of the tables alone.
TablesSound ==
    /\ sources \in [Sources -> SourceRow]
    /\ proposals \in [Requests -> [status : {"absent", "staged", "approved", "rejected"},
                                   revision : Nat]]
    /\ applied \subseteq {"start", "stage", "finish", "redraft", "reset"} \X Requests
    /\ requests \in [Requests -> {Unsent} \cup Request]
    /\ \A s \in Sources :
          /\ sources[s].status = "proposal_staged" =>
                sources[s].proposal = sources[s].run /\ sources[s].run # NoRun
          /\ sources[s].proposal # NoRun =>
                /\ sources[s].status = "proposal_staged"
                /\ proposals[sources[s].proposal] # NoProposal
                /\ <<"finish", sources[s].proposal>> \in applied
          /\ sources[s].run # NoRun =>
                requests[sources[s].run] # Unsent /\ requests[sources[s].run].source = s
    /\ \A c \in Requests :
          /\ requests[c].kind = "redraft" =>
                /\ requests[requests[c].of] # Unsent
                /\ requests[requests[c].of].source = requests[c].source
          /\ proposals[c] # NoProposal <=> <<"stage", c>> \in applied
          /\ proposals[c] # NoProposal => proposals[c].status # "absent" /\ requests[c] # Unsent
          /\ <<"redraft", c>> \in applied =>
                /\ requests[c].kind = "redraft" /\ <<"finish", requests[c].of>> \in applied
                /\ \A s \in Sources : sources[s].proposal # requests[c].of

\* The invariant, table by table and thread by thread.
Parts ==
    /\ TablesSound /\ RegistryExact
    /\ byKey \in [Keys -> Runs] /\ byGroup \in Nat
    /\ calls \in [Actors -> Call]
    /\ \A a \in Actors : Fits(a, calls[a])

\* It is the same invariant.
LEMMA InvParts == GenerationInv <=> Parts
<1>1. ASSUME GenerationInv PROVE Parts
  <2>1. TypeOK
    BY <1>1 DEF GenerationInv
  <2>2. TablesSound
    <3>1. ASSUME NEW s \in Sources
          PROVE  /\ sources[s].status = "proposal_staged" =>
                       sources[s].proposal = sources[s].run /\ sources[s].run # NoRun
                 /\ sources[s].proposal # NoRun =>
                       /\ sources[s].status = "proposal_staged"
                       /\ proposals[sources[s].proposal] # NoProposal
                       /\ <<"finish", sources[s].proposal>> \in applied
                 /\ sources[s].run # NoRun =>
                       requests[sources[s].run] # Unsent /\ requests[sources[s].run].source = s
      BY <1>1, <2>1 DEF TypeOK, GenerationInv, ReceiptsSound
    <3>2. ASSUME NEW c \in Requests
          PROVE  /\ requests[c].kind = "redraft" =>
                       /\ requests[requests[c].of] # Unsent
                       /\ requests[requests[c].of].source = requests[c].source
                 /\ proposals[c] # NoProposal <=> <<"stage", c>> \in applied
                 /\ proposals[c] # NoProposal =>
                       proposals[c].status # "absent" /\ requests[c] # Unsent
                 /\ <<"redraft", c>> \in applied =>
                       /\ requests[c].kind = "redraft" /\ <<"finish", requests[c].of>> \in applied
                       /\ \A s \in Sources : sources[s].proposal # requests[c].of
      BY <1>1 DEF GenerationInv, ReceiptsSound, CallsSound, RedraftAtomic
    <3>3. QED
      BY <2>1, <3>1, <3>2 DEF TypeOK, TablesSound
  <2>3. ASSUME NEW a \in Actors PROVE Fits(a, calls[a])
    <3>1. calls[a] \in Call /\ (calls[a] = Idle <=> calls[a].pc = "idle")
      BY <2>1, CallFields
    <3>2. calls[a].pc # "idle" => requests[calls[a].req] # Unsent
      BY <1>1, <3>1 DEF GenerationInv, CallsSound, Actors, Req
    <3>3. a \in Handlers =>
             /\ calls[a].pc \notin {"started", "drafting"}
             /\ calls[a].pc \in {"redraft", "redrafting", "reread"} =>
                   requests[calls[a].req].kind = "redraft"
             /\ calls[a].pc \in {"finish", "finishing"} => ~calls[a].staged
      BY <1>1 DEF GenerationInv, CallsSound, Req
    <3>4. a \in Workers => calls[a].pc \in {"idle", "started", "drafting", "finish", "finishing"}
      BY <1>1 DEF GenerationInv, CallsSound
    <3>5. /\ calls[a].pc \in {"finish", "finishing"} /\ calls[a].staged =>
                proposals[calls[a].req] # NoProposal
          /\ calls[a].pc = "redrafting" /\ calls[a].act = "reset" =>
                proposals[requests[calls[a].req].of].status = "rejected"
      BY <1>1 DEF GenerationInv, ReceiptsSound, Actors, Req
    <3>6. Guarding(a, calls[a].pc) /\ calls[a].pc \notin {"recording", "starting"} =>
             /\ sources[requests[calls[a].req].source].status
                   \in {"generating", "generation_failed"}
             /\ sources[requests[calls[a].req].source].run = calls[a].req
      BY <1>1, <2>1, GuardsAre DEF GenerationInv, GuardsAreCurrent, Src, Req
    <3>7. QED
      BY <3>1, <3>2, <3>3, <3>4, <3>5, <3>6 DEF Fits
  <2>4. QED
    BY <1>1, <2>1, <2>2, <2>3 DEF GenerationInv, TypeOK, Actors, Parts
<1>2. ASSUME Parts PROVE GenerationInv
  <2> TablesSound /\ RegistryExact /\ byKey \in [Keys -> Runs] /\ byGroup \in Nat
    BY <1>2 DEF Parts
  <2> calls \in [Actors -> Call] /\ \A a \in Actors : Fits(a, calls[a])
    BY <1>2 DEF Parts
  <2>1. TypeOK
    BY DEF TablesSound, TypeOK, Actors
  <2>2. RedraftAtomic
    BY DEF TablesSound, RedraftAtomic
  <2>3. ReceiptsSound
    <3>1. ASSUME NEW a \in Actors
          PROVE  /\ calls[a].pc \in {"finish", "finishing"} /\ calls[a].staged =>
                       proposals[calls[a].req] # NoProposal
                 /\ calls[a].pc = "redrafting" /\ calls[a].act = "reset" =>
                       proposals[Req(a).of].status = "rejected"
      BY DEF Fits, Req
    <3>2. QED
      BY <3>1 DEF TablesSound, ReceiptsSound, Actors
  <2>4. CallsSound
    <3>1. ASSUME NEW a \in Actors
          PROVE  /\ calls[a] # Idle => Req(a) # Unsent
                 /\ a \in Handlers =>
                       /\ calls[a].pc \notin {"started", "drafting"}
                       /\ calls[a].pc \in {"redraft", "redrafting", "reread"} =>
                             Req(a).kind = "redraft"
                       /\ calls[a].pc \in {"finish", "finishing"} => ~calls[a].staged
                 /\ a \in Workers =>
                       calls[a].pc \in {"idle", "started", "drafting", "finish", "finishing"}
      BY <2>1, CallFields DEF Fits, Req
    <3>2. QED
      BY <3>1 DEF TablesSound, CallsSound, Actors
  <2>5. GuardsAreCurrent
    BY <2>1, GuardsAre DEF Fits, GuardsAreCurrent, Src, Req
  <2>6. QED
    BY <2>1, <2>2, <2>3, <2>4, <2>5 DEF GenerationInv
<1>3. QED
  BY <1>1, <1>2

\* The same after a step.
LEMMA InvPartsAfter == GenerationInv' <=> Parts'
BY InvParts, PTL

\* One thread moves, and neither takes nor drops a guard.
LEMMA GuardKept ==
    ASSUME GenerationInv, NEW a \in Actors, calls' \in [Actors -> Call],
           \A b \in Actors : b # a => calls'[b] = calls[b],
           \A c \in Requests : requests[c] # Unsent => requests'[c] = requests[c],
           Guarding(a, calls[a].pc) <=> Guarding(a, calls'[a].pc),
           Guarding(a, calls[a].pc) => calls'[a].req = calls[a].req,
           UNCHANGED registry
    PROVE  RegistryExact' /\ byKey' \in [Keys -> Runs] /\ byGroup' \in Nat
<1>1. TypeOK /\ RegistryExact
  BY DEF GenerationInv
<1>2. Guards' = Guards /\ Guards \subseteq Actors
  BY <1>1, GuardsAre, GuardsAfter
<1>3. \A b \in Guards : calls'[b].req = calls[b].req
  BY <1>1, <1>2, GuardsAre
<1>4. ASSUME NEW b \in Guards PROVE requests'[calls[b].req] = requests[calls[b].req]
  <2>1. b \in Actors /\ calls[b].pc # "idle"
    BY <1>1, GuardsAre DEF Guarding
  <2>2. QED
    BY <2>1, AtWork
<1>5. RegistryExact'
  BY <1>1, <1>2, <1>3, <1>4, RegistryStays
<1>6. QED
  BY <1>1, <1>5 DEF TypeOK, registry

\* One thread moves and drops its guard.
LEMMA GuardDropped ==
    ASSUME GenerationInv, NEW a \in Actors, calls' \in [Actors -> Call],
           \A b \in Actors : b # a => calls'[b] = calls[b],
           requests' = requests, DropGuard(Req(a).source),
           Guarding(a, calls[a].pc), ~Guarding(a, calls'[a].pc)
    PROVE  RegistryExact' /\ byKey' \in [Keys -> Runs] /\ byGroup' \in Nat
<1>1. TypeOK
  BY DEF GenerationInv
<1>2. a \in Guards /\ Guards' = Guards \ {a} /\ Guards \subseteq Actors
  BY <1>1, GuardsAre, GuardsAfter
<1>3. QED
  BY <1>2, RegistryDrops

\* Guards exclude each other: two of them are never about one source.
LEMMA GuardsExclude ==
    ASSUME GenerationInv, NEW a \in Actors, NEW b \in Actors, a # b,
           Guarding(a, calls[a].pc), Guarding(b, calls[b].pc)
    PROVE  Req(a).source # Req(b).source
<1>1. a \in Guards /\ b \in Guards
  BY GuardsAre DEF GenerationInv
<1>2. QED
  BY <1>1 DEF GenerationInv, RegistryExact

\* A thread that did not move still fits, if requests that were sent, proposals
\* and the source it has a guard for have not changed under it.
LEMMA StillFits ==
    ASSUME GenerationInv, NEW b \in Actors, calls'[b] = calls[b],
           \A c \in Requests : requests[c] # Unsent => requests'[c] = requests[c],
           \A c \in Requests :
              /\ proposals[c] # NoProposal => proposals'[c] # NoProposal
              /\ proposals[c].status = "rejected" => proposals'[c].status = "rejected",
           /\ Guarding(b, calls[b].pc)
           /\ Src(b).status \in {"generating", "generation_failed"}
           => /\ sources'[Req(b).source].status \in {"generating", "generation_failed"}
              /\ sources'[Req(b).source].run = Src(b).run
    PROVE  Fits(b, calls[b])'
<1>1. TypeOK /\ Fits(b, calls[b])
  BY InvParts DEF GenerationInv, Parts
<1>2. CASE calls[b].pc = "idle"
  BY <1>1, <1>2 DEF Fits, Guarding
<1>3. CASE calls[b].pc # "idle"
  <2>1. /\ calls[b].req \in Requests /\ Req(b) = requests[calls[b].req]
        /\ requests[calls[b].req] # Unsent
        /\ Src(b) = sources[Req(b).source]
    BY <1>3, AtWork
  <2>2. requests'[calls[b].req] = requests[calls[b].req]
    BY <2>1
  <2>3. calls[b].pc = "redrafting" => requests[calls[b].req].of \in Requests
    <3>1. ASSUME calls[b].pc = "redrafting" PROVE requests[calls[b].req].kind = "redraft"
      BY <1>1, <3>1 DEF Fits, Actors
    <3>2. QED
      BY <1>1, <2>1, <3>1, RequestFields
  <2>4. /\ calls[b] \in Call
        /\ calls[b].pc # "idle" => requests'[calls[b].req] # Unsent
        /\ calls[b].pc \in {"finish", "finishing"} /\ calls[b].staged
              => proposals'[calls[b].req] # NoProposal
    BY <1>1, <2>1, <2>2 DEF Fits
  <2>5. calls[b].pc = "redrafting" /\ calls[b].act = "reset" =>
           proposals'[requests'[calls[b].req].of].status = "rejected"
    BY <1>1, <2>2, <2>3 DEF Fits
  <2>6. Guarding(b, calls[b].pc) /\ calls[b].pc \notin {"recording", "starting"} =>
           /\ sources'[requests'[calls[b].req].source].status \in {"generating", "generation_failed"}
           /\ sources'[requests'[calls[b].req].source].run = calls[b].req
    BY <1>1, <2>1, <2>2 DEF Fits
  <2>7. QED
    BY <1>1, <2>2, <2>4, <2>5, <2>6 DEF Fits
<1>4. QED
  BY <1>2, <1>3

\* A step in which one thread moves and the tables stay as they are.
LEMMA Walks ==
    ASSUME GenerationInv, NEW a \in Actors, NEW call, Fits(a, call),
           calls' = [calls EXCEPT ![a] = call], UNCHANGED <<db, requests>>,
           \/ /\ UNCHANGED registry
              /\ Guarding(a, calls[a].pc) <=> Guarding(a, call.pc)
              /\ Guarding(a, calls[a].pc) => call.req = calls[a].req
           \/ /\ DropGuard(Req(a).source)
              /\ Guarding(a, calls[a].pc) /\ ~Guarding(a, call.pc)
    PROVE  GenerationInv'
<1>1. Parts /\ calls \in [Actors -> Call]
  BY InvParts DEF Parts
<1>2. /\ calls' \in [Actors -> Call] /\ calls'[a] = call
      /\ \A b \in Actors : b # a => calls'[b] = calls[b]
  BY <1>1 DEF Fits
<1>3. UNCHANGED <<sources, proposals, applied, requests>>
  BY DEF db
<1>4. TablesSound'
  BY <1>1, <1>3 DEF Parts, TablesSound
<1>5. RegistryExact' /\ byKey' \in [Keys -> Runs] /\ byGroup' \in Nat
  BY <1>2, <1>3, GuardKept, GuardDropped
<1>6. ASSUME NEW b \in Actors PROVE Fits(b, calls[b])'
  <2>1. CASE b = a
    BY <1>2, <1>3, <2>1 DEF Fits
  <2>2. CASE b # a
    BY <1>2, <1>3, <2>2, StillFits DEF Src
  <2>3. QED
    BY <2>1, <2>2
<1>7. QED
  BY <1>2, <1>4, <1>5, <1>6, InvPartsAfter DEF Parts

-----------------------------------------------------------------------------
\* A thread at rest promises nothing.
LEMMA IdleFits ==
    ASSUME NEW a \in Actors
    PROVE  Fits(a, Idle) /\ ~Guarding(a, Idle.pc) /\ Idle.pc = "idle"
BY DEF Fits, Idle, Call, Guarding

\* A handler on its way through a redraft, a kickoff or the recorder.
LEMMA HandlerFits ==
    ASSUME GenerationInv, NEW h \in Handlers, NEW c \in Requests, requests[c] # Unsent,
           NEW n \in Nat
    PROVE  /\ requests[c].kind = "redraft" =>
                 /\ Fits(h, [pc |-> "redraft", req |-> c]) /\ Fits(h, [pc |-> "reread", req |-> c])
                 /\ Fits(h, [pc |-> "redrafting", req |-> c, act |-> "redraft", seen |-> n])
                 /\ proposals[requests[c].of].status = "rejected" =>
                       Fits(h, [pc |-> "redrafting", req |-> c, act |-> "reset", seen |-> n])
           /\ Fits(h, [pc |-> "kickoff", req |-> c, expected |-> n])
           /\ Fits(h, [pc |-> "begin", req |-> c, expected |-> n])
<1>1. h \notin Workers
  BY NamesAssumption
<1>2. /\ requests[c].kind = "redraft" =>
           Fits(h, [pc |-> "redraft", req |-> c]) /\ Fits(h, [pc |-> "reread", req |-> c])
  BY <1>1 DEF Fits, Call, Guarding
<1>3. requests[c].kind = "redraft" =>
         Fits(h, [pc |-> "redrafting", req |-> c, act |-> "redraft", seen |-> n])
  BY <1>1 DEF Fits, Call, Guarding
<1>4. requests[c].kind = "redraft" /\ proposals[requests[c].of].status = "rejected" =>
         Fits(h, [pc |-> "redrafting", req |-> c, act |-> "reset", seen |-> n])
  BY <1>1 DEF Fits, Call, Guarding
<1>5. Fits(h, [pc |-> "kickoff", req |-> c, expected |-> n])
  BY <1>1 DEF Fits, Call, Guarding
<1>6. Fits(h, [pc |-> "begin", req |-> c, expected |-> n])
  BY <1>1 DEF Fits, Call, Guarding
<1>7. QED
  BY <1>2, <1>3, <1>4, <1>5, <1>6

\* A handler without a guard goes on without one.
LEMMA HandlerWalks ==
    ASSUME GenerationInv, NEW h \in Handlers, NEW call, Fits(h, call),
           calls' = [calls EXCEPT ![h] = call], UNCHANGED <<registry, db, requests>>,
           calls[h].pc \notin {"recording", "starting", "spawning"},
           call.pc \notin {"recording", "starting", "spawning"}
    PROVE  GenerationInv'
<1>1. h \in Actors /\ ~Guarding(h, calls[h].pc) /\ ~Guarding(h, call.pc)
  BY NamesAssumption DEF Actors, Guarding
<1>2. QED
  BY <1>1, Walks DEF db, registry

\* Whoever is done drops the guard.
LEMMA DoneKeeps ==
    ASSUME GenerationInv, NEW a \in Actors, DoneDroppingGuard(a), Guarding(a, calls[a].pc),
           UNCHANGED <<db, requests>>
    PROVE  GenerationInv'
<1>1. calls' = [calls EXCEPT ![a] = Idle] /\ DropGuard(Req(a).source)
  BY DEF DoneDroppingGuard, Done
<1>2. QED
  BY <1>1, IdleFits, Walks

\* The steps of a request up to the registry that leave the tables alone.
LEMMA AskingKeeps ==
    ASSUME GenerationInv, NEW h \in Handlers, UNCHANGED <<db, requests>>,
           \/ \E c \in Requests : SendAgain(h, c)
           \/ RedraftRead(h) \/ RedraftProposal(h) \/ ResetGeneration(h) \/ Reread(h)
           \/ Begin(h) /\ UNCHANGED registry
    PROVE  GenerationInv'
<1>1. TypeOK /\ h \in Actors /\ Fits(h, calls[h]) /\ Fits(h, Idle) /\ Idle.pc = "idle"
  BY IdleFits, InvParts DEF GenerationInv, Actors, Parts
<1> DEFINE c == calls[h].req
<1>2. ASSUME calls[h].pc # "idle"
      PROVE  /\ c \in Requests /\ requests[c] # Unsent /\ Req(h) = requests[c]
             /\ Src(h).revision \in Nat
  <2>1. /\ c \in Requests /\ requests[c] # Unsent /\ Req(h) = requests[c]
        /\ Src(h) \in SourceRow
    BY <1>1, <1>2, AtWork
  <2>2. QED
    BY <2>1 DEF SourceRow
<1>3. ASSUME calls[h].pc \in {"redraft", "redrafting", "reread"}
      PROVE  requests[c].kind = "redraft"
  BY <1>1, <1>3 DEF Fits
<1>4. ASSUME NEW d \in Requests, SendAgain(h, d) PROVE GenerationInv'
  <2>1. /\ calls[h].pc = "idle" /\ requests[d] # Unsent /\ UNCHANGED <<registry, db, requests>>
        /\ \/ /\ requests[d].kind = "redraft"
              /\ calls' = [calls EXCEPT ![h] = [pc |-> "redraft", req |-> d]]
           \/ calls' = [calls EXCEPT ![h] = [pc |-> "kickoff", req |-> d,
                                             expected |-> requests[d].expected]]
    <3>1. /\ calls[h] = Idle /\ requests[d] # Unsent /\ UNCHANGED <<registry, db, requests>>
          /\ calls' = [calls EXCEPT ![h] =
                         IF requests[d].kind = "redraft" THEN [pc |-> "redraft", req |-> d]
                         ELSE [pc |-> "kickoff", req |-> d, expected |-> requests[d].expected]]
      BY <1>4 DEF SendAgain
    <3>2. CASE requests[d].kind = "redraft"
      BY <3>1, <3>2 DEF Idle
    <3>3. CASE requests[d].kind # "redraft"
      BY <3>1, <3>3 DEF Idle
    <3>4. QED
      BY <3>2, <3>3
  <2>2. requests[d].expected \in Nat
    <3>1. requests[d] \in Request
      BY <1>1, <2>1, RequestFields
    <3>2. QED
      BY <3>1 DEF Request
  <2>3. PICK call : /\ Fits(h, call) /\ call.pc \in {"redraft", "kickoff"}
                    /\ calls' = [calls EXCEPT ![h] = call]
    BY <2>1, <2>2, HandlerFits
  <2>4. QED
    BY <2>1, <2>3, HandlerWalks
<1>5. CASE RedraftRead(h)
  <2>1. calls[h].pc = "redraft" /\ UNCHANGED <<registry, db, requests>>
    BY <1>5 DEF RedraftRead
  <2>2. \/ calls' = [calls EXCEPT ![h] = [pc |-> "reread", req |-> c]]
        \/ calls' = [calls EXCEPT ![h] = [pc |-> "redrafting", req |-> c, act |-> "redraft",
                                          seen |-> Src(h).revision]]
        \/ /\ proposals[Req(h).of].status = "rejected"
           /\ calls' = [calls EXCEPT ![h] = [pc |-> "redrafting", req |-> c, act |-> "reset",
                                             seen |-> Src(h).revision]]
        \/ calls' = [calls EXCEPT ![h] = Idle]
    BY <1>5 DEF RedraftRead
  <2>3. PICK call : /\ Fits(h, call) /\ call.pc \in {"reread", "redrafting", "idle"}
                    /\ calls' = [calls EXCEPT ![h] = call]
    BY <1>1, <1>2, <1>3, <2>1, <2>2, HandlerFits
  <2>4. QED
    BY <2>1, <2>3, HandlerWalks
<1>6. CASE RedraftProposal(h) \/ ResetGeneration(h)
  <2>1. /\ calls[h].pc = "redrafting" /\ UNCHANGED <<registry, db, requests>>
        /\ \/ calls' = [calls EXCEPT ![h] = [pc |-> "reread", req |-> c]]
           \/ calls' = [calls EXCEPT ![h] = Idle]
    BY <1>6 DEF RedraftProposal, ResetGeneration, Done
  <2>2. PICK call : /\ Fits(h, call) /\ call.pc \in {"reread", "idle"}
                    /\ calls' = [calls EXCEPT ![h] = call]
    BY <1>1, <1>2, <1>3, <2>1, HandlerFits
  <2>3. QED
    BY <2>1, <2>2, HandlerWalks
<1>7. CASE Reread(h)
  <2>1. /\ calls[h].pc = "reread" /\ UNCHANGED <<registry, db, requests>>
        /\ calls' = [calls EXCEPT ![h] = [pc |-> "kickoff", req |-> c,
                                          expected |-> Src(h).revision]]
    BY <1>7 DEF Reread
  <2>2. PICK call : /\ Fits(h, call) /\ call.pc = "kickoff"
                    /\ calls' = [calls EXCEPT ![h] = call]
    BY <1>2, <2>1, HandlerFits
  <2>3. QED
    BY <2>1, <2>2, HandlerWalks
<1>8. CASE Begin(h) /\ UNCHANGED registry
  <2>1. /\ calls[h].pc = "begin" /\ UNCHANGED <<registry, db, requests>>
        /\ calls' = [calls EXCEPT ![h] = Idle]
    <3>1. ~GuardStarted(Req(h).source, calls[h].req)
      <4>1. byGroup \in Nat /\ byGroup' = byGroup
        BY <1>1, <1>8 DEF TypeOK, registry
      <4>2. QED
        BY <4>1 DEF GuardStarted
    <3>2. QED
      BY <1>8, <3>1 DEF Begin, Done
  <2>2. QED
    BY <1>1, <2>1, HandlerWalks
<1>9. QED
  BY <1>4, <1>5, <1>6, <1>7, <1>8

\* The steps of the recorder and of the start of the thread that leave the
\* tables alone.
LEMMA RecorderKeeps ==
    ASSUME GenerationInv, NEW h \in Handlers, UNCHANGED <<db, requests>>,
           RecordRead(h) \/ RecordStart(h) \/ RecordFails(h) \/ SpawnFails(h)
    PROVE  GenerationInv'
<1>1. TypeOK /\ h \in Actors /\ h \notin Workers /\ Fits(h, calls[h])
  BY InvParts, NamesAssumption DEF GenerationInv, Actors, Parts
<1>2. /\ calls[h].pc \in {"recording", "starting", "spawning"}
      /\ Guarding(h, calls[h].pc)
  BY DEF RecordRead, RecordStart, RecordFails, SpawnFails, Guarding
<1>3. /\ calls[h] \in [pc : {"kickoff", "begin", "recording", "starting", "spawning"},
                       req : Requests, expected : Nat]
      /\ calls[h].req \in Requests /\ requests[calls[h].req] # Unsent
      /\ Req(h) = requests[calls[h].req] /\ Src(h) = sources[Req(h).source]
  BY <1>1, <1>2, CallFields, AtWork
<1>4. ASSUME DoneDroppingGuard(h) PROVE GenerationInv'
  BY <1>1, <1>2, <1>4, DoneKeeps
<1>5. ASSUME NEW pc \in {"starting", "spawning"}, UNCHANGED registry,
             calls' = [calls EXCEPT ![h].pc = pc],
             pc = "spawning" => /\ Src(h).status = "generating"
                                /\ Src(h).run = calls[h].req
      PROVE  GenerationInv'
  <2> DEFINE call == [calls[h] EXCEPT !.pc = pc]
  <2>1. calls' = [calls EXCEPT ![h] = call]
    BY <1>1, <1>5 DEF TypeOK, Actors
  <2>2. /\ call \in Call /\ call.pc = pc /\ call.req = calls[h].req
    BY <1>3 DEF Call
  <2> HIDE DEF call
  <2>3. Fits(h, call)
    BY <1>1, <1>3, <1>5, <2>2 DEF Fits
  <2>4. Guarding(h, call.pc)
    BY <2>2 DEF Guarding
  <2>5. QED
    BY <1>1, <1>2, <1>5, <2>1, <2>2, <2>3, <2>4, Walks
<1>6. CASE RecordRead(h)
  BY <1>4, <1>5, <1>6 DEF RecordRead
<1>7. CASE RecordStart(h)
  <2>1. ~Startable(h)
    <3>1. SUFFICES ASSUME Startable(h), applied' = applied \cup {<<"start", calls[h].req>>}
                   PROVE  FALSE
      BY <1>7 DEF RecordStart
    <3>2. QED
      BY <3>1 DEF Startable, db
  <2>2. QED
    BY <1>4, <1>7, <2>1 DEF RecordStart
<1>8. CASE RecordFails(h)
  BY <1>4, <1>8 DEF RecordFails
<1>9. CASE SpawnFails(h)
  <2> DEFINE call == [pc |-> "finish", req |-> calls[h].req, staged |-> FALSE, panicked |-> FALSE]
  <2>1. calls' = [calls EXCEPT ![h] = call] /\ DropGuard(Req(h).source)
    BY <1>9 DEF SpawnFails
  <2>2. call \in Call /\ call.pc = "finish" /\ call.req = calls[h].req /\ ~call.staged
    BY <1>3 DEF Call
  <2> HIDE DEF call
  <2>3. Fits(h, call) /\ ~Guarding(h, call.pc)
    BY <1>1, <1>3, <2>2 DEF Fits, Guarding
  <2>4. QED
    BY <1>1, <1>2, <2>1, <2>3, Walks
<1>10. QED
  BY <1>6, <1>7, <1>8, <1>9

-----------------------------------------------------------------------------
\* A worker that goes on for its run.
LEMMA WorkerFits ==
    ASSUME GenerationInv, NEW w \in Workers, calls[w].pc # "idle",
           /\ Src(w).status \in {"generating", "generation_failed"}
           /\ Src(w).run = calls[w].req,
           NEW call \in Call, call.pc \in {"drafting", "finish", "finishing"},
           call.req = calls[w].req,
           call.pc # "drafting" /\ call.staged => proposals[call.req] # NoProposal
    PROVE  Fits(w, call) /\ Guarding(w, call.pc)
<1>1. /\ w \in Actors /\ w \notin Handlers /\ requests[calls[w].req] # Unsent
      /\ Src(w) = sources[requests[calls[w].req].source]
  BY AtWork, NamesAssumption DEF Actors
<1>2. QED
  BY <1>1 DEF Fits, Guarding

\* What is known of a worker at work.
LEMMA WorkerAt ==
    ASSUME GenerationInv, NEW w \in Workers, calls[w].pc # "idle"
    PROVE  /\ w \in Actors /\ Guarding(w, calls[w].pc) /\ calls[w].req \in Requests
           /\ Src(w).status \in {"generating", "generation_failed"}
           /\ Src(w).run = calls[w].req
           /\ Src(w).revision \in Nat
<1>1. w \in Actors /\ Guarding(w, calls[w].pc) /\ Fits(w, calls[w])
  BY InvParts DEF Actors, Guarding, Parts
<1>2. calls[w].pc \in {"started", "drafting", "finish", "finishing"}
  BY <1>1 DEF Fits
<1>3. Src(w) = sources[requests[calls[w].req].source] /\ Src(w) \in SourceRow
  BY <1>1, AtWork
<1>4. QED
  BY <1>1, <1>2, <1>3, AtWork DEF Fits, SourceRow

\* The steps of a worker that leave the tables alone.
LEMMA WorkerKeeps ==
    ASSUME GenerationInv, NEW w \in Workers, UNCHANGED <<db, requests>>,
           \/ WorkRead(w) \/ WorkAborts(w) \/ WorkGivesUp(w) \/ WorkPanics(w)
           \/ FinishRead(w) \/ FinishWrite(w)
    PROVE  GenerationInv'
<1>1. calls[w].pc \in {"started", "drafting", "finish", "finishing"}
  BY DEF WorkRead, WorkAborts, WorkGivesUp, WorkPanics, FinishRead, FinishWrite
<1>2. /\ w \in Actors /\ Guarding(w, calls[w].pc) /\ calls[w].req \in Requests
      /\ Src(w).status \in {"generating", "generation_failed"}
      /\ Src(w).run = calls[w].req /\ Src(w).revision \in Nat
  BY <1>1, WorkerAt
<1>3. TypeOK /\ calls[w] \in Call /\ Fits(w, calls[w])
  BY <1>2, InvParts, CallFields DEF GenerationInv, Parts
<1>4. ASSUME DoneDroppingGuard(w) PROVE GenerationInv'
  BY <1>2, <1>4, DoneKeeps
<1>5. ASSUME NEW call \in Call, call.pc \in {"drafting", "finish", "finishing"},
             call.req = calls[w].req, UNCHANGED registry,
             call.pc # "drafting" /\ call.staged => proposals[call.req] # NoProposal,
             calls' = [calls EXCEPT ![w] = call]
      PROVE  GenerationInv'
  <2>1. Fits(w, call) /\ Guarding(w, call.pc)
    BY <1>1, <1>2, <1>5, WorkerFits
  <2>2. QED
    BY <1>2, <1>5, <2>1, Walks
<1>6. ASSUME NEW panicked \in BOOLEAN, ToFinish(w, FALSE, panicked), UNCHANGED registry
      PROVE  GenerationInv'
  <2> DEFINE call == [pc |-> "finish", req |-> calls[w].req, staged |-> FALSE,
                      panicked |-> panicked]
  <2>1. /\ calls' = [calls EXCEPT ![w] = call] /\ call \in Call /\ call.pc = "finish"
        /\ call.req = calls[w].req /\ ~call.staged
    BY <1>2, <1>6 DEF ToFinish, Call
  <2> HIDE DEF call
  <2>2. QED
    BY <1>5, <1>6, <2>1
<1>7. CASE WorkRead(w)
  <2>1. SUFFICES ASSUME calls[w].pc = "started", calls' = [calls EXCEPT ![w].pc = "drafting"],
                        UNCHANGED registry
                 PROVE  GenerationInv'
    BY <1>4, <1>7 DEF WorkRead
  <2> DEFINE call == [calls[w] EXCEPT !.pc = "drafting"]
  <2>2. calls[w] \in [pc : {"redraft", "reread", "started", "drafting"}, req : Requests]
    BY <1>3, <2>1 DEF Call
  <2>3. /\ calls' = [calls EXCEPT ![w] = call] /\ call \in Call /\ call.pc = "drafting"
        /\ call.req = calls[w].req
    BY <1>3, <2>1, <2>2 DEF Call
  <2> HIDE DEF call
  <2>4. QED
    BY <1>5, <2>1, <2>3
<1>8. CASE WorkAborts(w)
  BY <1>4, <1>8 DEF WorkAborts
<1>9. CASE WorkGivesUp(w)
  BY <1>6, <1>9 DEF WorkGivesUp
<1>10. CASE WorkPanics(w)
  BY <1>4, <1>6, <1>10 DEF WorkPanics
<1>11. CASE FinishRead(w)
  <2> DEFINE call == [pc |-> "finishing", req |-> calls[w].req, staged |-> calls[w].staged,
                      seen |-> Src(w).revision]
  <2>1. /\ calls[w].pc = "finish" /\ calls' = [calls EXCEPT ![w] = call]
        /\ UNCHANGED registry
    BY <1>11 DEF FinishRead, registry
  <2>2. calls[w].staged \in BOOLEAN
    BY <1>2, <1>3, <2>1, CallFields
  <2>3. /\ call \in Call /\ call.pc = "finishing" /\ call.req = calls[w].req
        /\ call.staged = calls[w].staged
    BY <1>2, <2>2 DEF Call
  <2>4. calls[w].staged => proposals[calls[w].req] # NoProposal
    BY <1>3, <2>1 DEF Fits
  <2> HIDE DEF call
  <2>5. QED
    BY <1>5, <2>1, <2>3, <2>4
<1>12. CASE FinishWrite(w)
  BY <1>4, <1>12 DEF FinishWrite
<1>13. QED
  BY <1>7, <1>8, <1>9, <1>10, <1>11, <1>12

\* A handler that records the failure of a thread that did not start.
LEMMA HandlerFinishKeeps ==
    ASSUME GenerationInv, NEW h \in Handlers, UNCHANGED <<db, requests>>,
           FinishRead(h) \/ FinishWrite(h)
    PROVE  GenerationInv'
<1>1. /\ TypeOK /\ h \in Actors /\ h \notin Workers /\ Fits(h, calls[h])
      /\ Fits(h, Idle) /\ Idle.pc = "idle"
  BY IdleFits, InvParts, NamesAssumption DEF GenerationInv, Actors, Parts
<1>2. calls[h].pc \in {"finish", "finishing"}
  BY DEF FinishRead, FinishWrite
<1>3. /\ calls[h].req \in Requests /\ requests[calls[h].req] # Unsent
      /\ Src(h).revision \in Nat /\ ~calls[h].staged /\ calls[h].staged \in BOOLEAN
  <2>1. calls[h].req \in Requests /\ requests[calls[h].req] # Unsent /\ Src(h) \in SourceRow
    BY <1>1, <1>2, AtWork
  <2>2. QED
    BY <1>1, <1>2, <2>1, CallFields DEF SourceRow, Fits
<1>4. CASE FinishRead(h)
  <2> DEFINE call == [pc |-> "finishing", req |-> calls[h].req, staged |-> calls[h].staged,
                      seen |-> Src(h).revision]
  <2>1. calls' = [calls EXCEPT ![h] = call] /\ UNCHANGED registry
    BY <1>4 DEF FinishRead, registry
  <2>2. /\ call \in Call /\ call.pc = "finishing" /\ call.req = calls[h].req
        /\ call.staged = calls[h].staged
    BY <1>3 DEF Call
  <2> HIDE DEF call
  <2>3. Fits(h, call)
    BY <1>1, <1>3, <2>2 DEF Fits, Guarding
  <2>4. QED
    BY <1>2, <2>1, <2>2, <2>3, HandlerWalks DEF registry, db
<1>5. CASE FinishWrite(h)
  <2>1. calls' = [calls EXCEPT ![h] = Idle] /\ UNCHANGED registry
    BY <1>1, <1>5 DEF FinishWrite, Done
  <2>2. QED
    BY <1>1, <1>2, <2>1, HandlerWalks DEF registry, db
<1>6. QED
  BY <1>4, <1>5

-----------------------------------------------------------------------------
\* A source that is generating, or failed, stays with its run.
RowKept(s) ==
    sources[s].status \in {"generating", "generation_failed"} =>
        /\ sources'[s].status \in {"generating", "generation_failed"}
        /\ sources'[s].run = sources[s].run

\* A step in which one thread moves and one source may change: it keeps its run,
\* or it is guarded by that thread.
LEMMA Moves ==
    ASSUME GenerationInv, NEW a \in Actors, NEW t \in Sources,
           calls' \in [Actors -> Call], \A b \in Actors : b # a => calls'[b] = calls[b],
           \A c \in Requests : requests[c] # Unsent => requests'[c] = requests[c],
           \A c \in Requests :
              /\ proposals[c] # NoProposal => proposals'[c] # NoProposal
              /\ proposals[c].status = "rejected" => proposals'[c].status = "rejected",
           \A s \in Sources : s # t => sources'[s] = sources[s],
           RowKept(t) \/ (Guarding(a, calls[a].pc) /\ Req(a).source = t),
           TablesSound', Fits(a, calls[a])',
           RegistryExact' /\ byKey' \in [Keys -> Runs] /\ byGroup' \in Nat
    PROVE  GenerationInv'
<1>1. ASSUME NEW b \in Actors PROVE Fits(b, calls[b])'
  <2>1. CASE b = a
    BY <2>1
  <2>2. CASE b # a
    <3>1. ASSUME Guarding(b, calls[b].pc), Src(b).status \in {"generating", "generation_failed"}
          PROVE  /\ sources'[Req(b).source].status \in {"generating", "generation_failed"}
                 /\ sources'[Req(b).source].run = Src(b).run
      <4>1. Req(b).source \in Sources /\ Src(b) = sources[Req(b).source]
        BY <3>1, AtWork DEF Guarding
      <4>2. CASE Req(b).source # t
        BY <3>1, <4>1, <4>2
      <4>3. CASE Req(b).source = t
        <5>1. RowKept(t)
          BY <2>2, <3>1, <4>3, GuardsExclude
        <5>2. QED
          BY <3>1, <4>1, <4>3, <5>1 DEF RowKept
      <4>4. QED
        BY <4>2, <4>3
    <3>2. QED
      BY <2>2, <3>1, StillFits
  <2>3. QED
    BY <2>1, <2>2
<1>2. QED
  BY <1>1, InvPartsAfter DEF Parts

\* What the tables promise about the row of a source.
RowSound(s, row) ==
    /\ row \in SourceRow
    /\ row.status = "proposal_staged" => row.proposal = row.run /\ row.run # NoRun
    /\ row.proposal # NoRun =>
          /\ row.status = "proposal_staged" /\ proposals[row.proposal] # NoProposal
          /\ <<"finish", row.proposal>> \in applied
    /\ row.run # NoRun => requests[row.run] # Unsent /\ requests[row.run].source = s
    /\ \A c \in Requests : <<"redraft", c>> \in applied => row.proposal # requests[c].of

\* Every row keeps the promise.
LEMMA RowsAreSound ==
    ASSUME TablesSound, NEW s \in Sources
    PROVE  RowSound(s, sources[s])
<1>1. sources[s] \in SourceRow
  BY DEF TablesSound
<1>2. /\ sources[s].status = "proposal_staged" =>
            sources[s].proposal = sources[s].run /\ sources[s].run # NoRun
      /\ sources[s].proposal # NoRun =>
            /\ sources[s].status = "proposal_staged"
            /\ proposals[sources[s].proposal] # NoProposal
            /\ <<"finish", sources[s].proposal>> \in applied
      /\ sources[s].run # NoRun =>
            requests[sources[s].run] # Unsent /\ requests[sources[s].run].source = s
  BY DEF TablesSound
<1>3. \A c \in Requests : <<"redraft", c>> \in applied => sources[s].proposal # requests[c].of
  BY DEF TablesSound
<1>4. QED
  BY <1>1, <1>2, <1>3 DEF RowSound

\* Rows that keep it, and a receipt that neither stages nor redrafts, make sound
\* tables.
LEMMA RowsMakeTables ==
    ASSUME TablesSound, sources' \in [Sources -> SourceRow],
           \A s \in Sources : RowSound(s, sources[s])',
           UNCHANGED <<proposals, requests>>,
           \/ applied' = applied
           \/ \E kind \in {"start", "finish", "reset"}, c \in Requests :
                 applied' = applied \cup {<<kind, c>>}
    PROVE  TablesSound'
<1>1. /\ applied \subseteq applied'
      /\ applied' \subseteq {"start", "stage", "finish", "redraft", "reset"} \X Requests
      /\ \A d \in Requests : /\ <<"redraft", d>> \in applied' <=> <<"redraft", d>> \in applied
                             /\ <<"stage", d>> \in applied' <=> <<"stage", d>> \in applied
  <2>1. applied \subseteq {"start", "stage", "finish", "redraft", "reset"} \X Requests
    BY DEF TablesSound
  <2>2. QED
    BY <2>1
<1>2. ASSUME NEW s \in Sources
      PROVE  /\ sources'[s].status = "proposal_staged" =>
                   sources'[s].proposal = sources'[s].run /\ sources'[s].run # NoRun
             /\ sources'[s].proposal # NoRun =>
                   /\ sources'[s].status = "proposal_staged"
                   /\ proposals'[sources'[s].proposal] # NoProposal
                   /\ <<"finish", sources'[s].proposal>> \in applied'
             /\ sources'[s].run # NoRun =>
                   requests'[sources'[s].run] # Unsent /\ requests'[sources'[s].run].source = s
             /\ \A d \in Requests : <<"redraft", d>> \in applied' =>
                   sources'[s].proposal # requests'[d].of
  BY DEF RowSound
<1>3. ASSUME NEW d \in Requests
      PROVE  /\ requests'[d].kind = "redraft" =>
                   /\ requests'[requests'[d].of] # Unsent
                   /\ requests'[requests'[d].of].source = requests'[d].source
             /\ proposals'[d] # NoProposal <=> <<"stage", d>> \in applied'
             /\ proposals'[d] # NoProposal =>
                   proposals'[d].status # "absent" /\ requests'[d] # Unsent
             /\ <<"redraft", d>> \in applied' =>
                   requests'[d].kind = "redraft" /\ <<"finish", requests'[d].of>> \in applied'
  BY <1>1 DEF TablesSound
<1>4. QED
  BY <1>1, <1>2, <1>3 DEF TablesSound

\* One source is written, with a receipt that neither stages nor redrafts.
LEMMA SourceWritten ==
    ASSUME GenerationInv, NEW t \in Sources, NEW kind \in {"start", "finish", "reset"},
           NEW c \in Requests, NEW row, sources' = [sources EXCEPT ![t] = row], row \in SourceRow,
           applied' = applied \/ applied' = applied \cup {<<kind, c>>},
           UNCHANGED <<proposals, requests>>, RowSound(t, sources[t])'
    PROVE  TablesSound'
<1>1. TablesSound
  BY InvParts DEF Parts
<1>2. /\ sources' \in [Sources -> SourceRow]
      /\ \A s \in Sources : s # t => sources'[s] = sources[s]
  BY <1>1 DEF TablesSound
<1>3. /\ applied \subseteq applied'
      /\ \A d \in Requests : <<"redraft", d>> \in applied' <=> <<"redraft", d>> \in applied
  OBVIOUS
<1>4. ASSUME NEW s \in Sources PROVE RowSound(s, sources[s])'
  <2>1. CASE s = t
    BY <2>1
  <2>2. CASE s # t
    <3>1. RowSound(s, sources[s])
      BY <1>1, RowsAreSound
    <3>2. sources'[s] = sources[s] /\ proposals' = proposals /\ requests' = requests
      BY <1>2, <2>2
    <3>3. QED
      BY <1>3, <3>1, <3>2 DEF RowSound
  <2>3. QED
    BY <2>1, <2>2
<1>5. QED
  BY <1>1, <1>2, <1>4, RowsMakeTables

\* The same for a row that points at no proposal.
LEMMA RowWritten ==
    ASSUME GenerationInv, NEW t \in Sources, NEW kind \in {"start", "finish", "reset"},
           NEW c \in Requests, NEW row, sources' = [sources EXCEPT ![t] = row], row \in SourceRow,
           applied' = applied \/ applied' = applied \cup {<<kind, c>>},
           UNCHANGED <<proposals, requests>>,
           row.proposal = NoRun, row.status # "proposal_staged",
           row.run # NoRun => requests[row.run] # Unsent /\ requests[row.run].source = t
    PROVE  TablesSound'
<1>1. TablesSound /\ TypeOK
  BY InvParts DEF Parts, GenerationInv
<1>2. sources'[t] = row
  BY <1>1 DEF TablesSound
<1>3. ASSUME NEW d \in Requests, <<"redraft", d>> \in applied'
      PROVE  requests[d].of # NoRun
  <2>1. <<"redraft", d>> \in applied
    BY <1>3
  <2>2. requests[d].kind = "redraft"
    BY <1>1, <2>1 DEF TablesSound
  <2>3. QED
    BY <1>1, <2>2, RequestFields, NamesAssumption
<1>4. RowSound(t, sources[t])'
  BY <1>2, <1>3 DEF RowSound
<1>5. QED
  BY <1>4, SourceWritten

\* ingest_source_request
LEMMA IngestKeeps ==
    ASSUME GenerationInv, NEW s \in Sources, Ingest(s)
    PROVE  GenerationInv'
<1> DEFINE new == [sources[s] EXCEPT !.status = "ready", !.revision = 1]
           seen == [sources[s] EXCEPT !.revision = sources[s].revision + 1]
<1>1. /\ UNCHANGED <<registry, proposals, applied, requests, calls>>
      /\ sources' = [sources EXCEPT ![s] = IF sources[s] = NoSource THEN new ELSE seen]
  BY DEF Ingest
<1>2. Parts /\ TypeOK /\ TablesSound /\ sources[s] \in SourceRow
  BY InvParts DEF Parts, GenerationInv, TablesSound
<1>3. PICK row : /\ sources' = [sources EXCEPT ![s] = row]
                 /\ row \in SourceRow /\ row.run = sources[s].run
                 /\ row.proposal = sources[s].proposal
                 /\ \/ row.status = sources[s].status
                    \/ row.status = "ready" /\ sources[s] = NoSource
  <2>1. sources[s].run \in Runs /\ sources[s].proposal \in Runs /\ sources[s].revision \in Nat
    BY <1>2 DEF SourceRow
  <2>2. /\ new \in SourceRow /\ new.run = sources[s].run
        /\ new.proposal = sources[s].proposal /\ new.status = "ready"
    BY <1>2 DEF SourceRow
  <2>3. /\ seen \in SourceRow /\ seen.run = sources[s].run
        /\ seen.proposal = sources[s].proposal /\ seen.status = sources[s].status
    BY <1>2, <2>1 DEF SourceRow
  <2> HIDE DEF new, seen
  <2>4. QED
    BY <1>1, <2>2, <2>3
<1>4. proposals' = proposals /\ requests' = requests /\ applied' = applied
  BY <1>1
<1>5. sources'[s] = row /\ \A t \in Sources : t # s => sources'[t] = sources[t]
  BY <1>2, <1>3 DEF TablesSound
<1>6. RowSound(s, sources[s])
  BY <1>2, RowsAreSound
<1>7. row.status = sources[s].status \/ (row.status = "ready" /\ row.proposal = NoRun)
  BY <1>3 DEF NoSource
<1>8. RowSound(s, sources[s])'
  BY <1>3, <1>4, <1>5, <1>6, <1>7 DEF RowSound
<1>9. TablesSound'
  <2>1. /\ sources' \in [Sources -> SourceRow]
    BY <1>2, <1>3 DEF TablesSound
  <2>2. ASSUME NEW t \in Sources PROVE RowSound(t, sources[t])'
    <3>1. CASE t = s
      BY <1>8, <3>1
    <3>2. CASE t # s
      <4>1. RowSound(t, sources[t]) /\ sources'[t] = sources[t]
        BY <1>2, <1>5, <3>2, RowsAreSound
      <4>2. QED
        BY <1>4, <4>1 DEF RowSound
    <3>3. QED
      BY <3>1, <3>2
  <2>3. QED
    BY <1>1, <1>2, <2>1, <2>2, RowsMakeTables
<1>10. RegistryExact' /\ byKey' \in [Keys -> Runs] /\ byGroup' \in Nat
  BY <1>1, <1>2 DEF Parts, registry, RegistryExact, Guards, HasGuard, Req, Capacity
<1>11. RowKept(s)
  BY <1>3, <1>5 DEF RowKept, NoSource
<1>12. ASSUME NEW b \in Actors PROVE Fits(b, calls[b])'
  <2>1. ASSUME Guarding(b, calls[b].pc), Src(b).status \in {"generating", "generation_failed"}
        PROVE  /\ sources'[Req(b).source].status \in {"generating", "generation_failed"}
               /\ sources'[Req(b).source].run = Src(b).run
    <3>1. Req(b).source \in Sources /\ Src(b) = sources[Req(b).source]
      BY <2>1, AtWork DEF Guarding
    <3>2. QED
      BY <1>5, <1>11, <2>1, <3>1 DEF RowKept
  <2>2. QED
    BY <1>1, <2>1, StillFits
<1>13. QED
  BY <1>1, <1>2, <1>9, <1>10, <1>12, InvPartsAfter DEF Parts

\* kickoff_generation up to the registry: the source may be registered first.
LEMMA KickoffKeeps ==
    ASSUME GenerationInv, NEW h \in Handlers, KickoffRead(h)
    PROVE  GenerationInv'
<1> DEFINE c == calls[h].req
           t == Req(h).source
           new == [NoSource EXCEPT !.status = "ready", !.revision = 1]
           row == IF Src(h) = NoSource THEN new ELSE Src(h)
           expected == IF Src(h) = NoSource THEN row.revision ELSE calls[h].expected
<1>1. /\ calls[h].pc = "kickoff" /\ UNCHANGED <<registry, proposals, applied, requests>>
      /\ sources' = [sources EXCEPT ![t] = row]
      /\ \/ calls' = [calls EXCEPT ![h] = Idle]
         \/ calls' = [calls EXCEPT ![h] = [pc |-> "begin", req |-> c, expected |-> expected]]
  <2>1. /\ calls[h].pc = "kickoff" /\ UNCHANGED <<registry, proposals, applied, requests>>
        /\ sources' = [sources EXCEPT ![t] = row]
        /\ calls' = [calls EXCEPT ![h] =
                       IF row.revision = expected /\ NothingToStart(row, c) THEN Idle
                       ELSE [pc |-> "begin", req |-> c, expected |-> expected]]
    BY DEF KickoffRead
  <2>2. QED
    BY <2>1
<1>2. /\ TypeOK /\ TablesSound /\ h \in Actors /\ h \notin Workers
      /\ calls \in [Actors -> Call]
  BY InvParts, NamesAssumption DEF GenerationInv, Actors, Parts
<1>3. /\ c \in Requests /\ requests[c] # Unsent /\ Req(h) = requests[c]
      /\ t \in Sources /\ Src(h) = sources[t] /\ sources[t] \in SourceRow
  BY <1>1, <1>2, AtWork
<1>4. expected \in Nat
  <2>1. calls[h].expected \in Nat
    BY <1>1, <1>2, CallFields
  <2>2. new.revision = 1
    BY DEF NoSource
  <2>3. QED
    BY <2>1, <2>2
<1>5. PICK call : /\ Fits(h, call) /\ call.pc \in {"begin", "idle"}
                  /\ calls' = [calls EXCEPT ![h] = call]
  BY <1>1, <1>2, <1>3, <1>4, HandlerFits, IdleFits
<1>6. ~Guarding(h, calls[h].pc) /\ ~Guarding(h, call.pc) /\ call \in Call
  BY <1>1, <1>2, <1>5 DEF Guarding, Fits
<1>7. CASE Src(h) # NoSource
  <2>1. sources' = sources
    BY <1>1, <1>2, <1>3, <1>7 DEF TablesSound
  <2>2. QED
    BY <1>1, <1>5, <2>1, HandlerWalks DEF db
<1>8. CASE Src(h) = NoSource
  <2>1. sources' = [sources EXCEPT ![t] = new]
    BY <1>1, <1>8
  <2>2. new \in SourceRow /\ new.proposal = NoRun /\ new.status = "ready" /\ new.run = NoRun
    BY DEF NoSource, SourceRow, Runs
  <2> HIDE DEF new, t, c
  <2>3. TablesSound'
    BY <1>1, <1>3, <2>1, <2>2, RowWritten
  <2>4. /\ calls' \in [Actors -> Call] /\ calls'[h] = call
        /\ \A b \in Actors : b # h => calls'[b] = calls[b]
    BY <1>2, <1>5, <1>6
  <2>5. Fits(h, calls[h])'
    BY <1>1, <1>2, <1>5, <1>6, <2>4 DEF Fits
  <2>6. RegistryExact' /\ byKey' \in [Keys -> Runs] /\ byGroup' \in Nat
    BY <1>1, <1>2, <1>6, <2>4, GuardKept
  <2>7. RowKept(t)
    BY <1>3, <1>8 DEF RowKept, NoSource
  <2>8. \A s \in Sources : s # t => sources'[s] = sources[s]
    BY <1>2, <2>1 DEF TablesSound
  <2>9. QED
    BY <1>1, <1>2, <1>3, <2>3, <2>4, <2>5, <2>6, <2>7, <2>8, Moves
<1>9. QED
  BY <1>7, <1>8

\* begin_generation records the start.
LEMMA StartKeeps ==
    ASSUME GenerationInv, NEW h \in Handlers, RecordStart(h), Startable(h)
    PROVE  GenerationInv'
<1> DEFINE c == calls[h].req
           t == Req(h).source
           row == [sources[t] EXCEPT !.status = "generating", !.run = c,
                                     !.revision = Src(h).revision + 1]
<1>1. /\ calls[h].pc = "starting" /\ UNCHANGED <<registry, proposals, requests>>
      /\ applied' = applied \cup {<<"start", c>>}
      /\ sources' = [sources EXCEPT ![t] = row]
      /\ calls' = [calls EXCEPT ![h].pc = "spawning"]
  BY DEF RecordStart
<1>2. /\ TypeOK /\ TablesSound /\ h \in Actors /\ h \notin Workers
      /\ calls \in [Actors -> Call] /\ Fits(h, calls[h])
  BY InvParts, NamesAssumption DEF GenerationInv, Actors, Parts
<1>3. /\ c \in Requests /\ requests[c] # Unsent /\ Req(h) = requests[c]
      /\ t \in Sources /\ Src(h) = sources[t] /\ sources[t] \in SourceRow
  BY <1>1, <1>2, AtWork
<1>4. sources[t].status \in {"ready", "generation_failed"} /\ sources[t].proposal = NoRun
  BY <1>2, <1>3, RowFields DEF Startable
<1>5. /\ row \in SourceRow /\ row.status = "generating" /\ row.run = c
      /\ row.proposal = NoRun
  <2>1. Src(h).revision + 1 \in Nat
    BY <1>3 DEF SourceRow
  <2>2. QED
    BY <1>3, <1>4, <2>1 DEF SourceRow, Runs
<1> HIDE DEF row
<1>6. TablesSound'
  BY <1>1, <1>3, <1>5, RowWritten
<1>7. sources'[t] = row /\ \A s \in Sources : s # t => sources'[s] = sources[s]
  BY <1>1, <1>2, <1>3 DEF TablesSound
<1>8. /\ calls' \in [Actors -> Call] /\ calls'[h].pc = "spawning" /\ calls'[h].req = c
      /\ \A b \in Actors : b # h => calls'[b] = calls[b]
  <2> DEFINE call == [calls[h] EXCEPT !.pc = "spawning"]
  <2>1. calls[h] \in [pc : {"kickoff", "begin", "recording", "starting", "spawning"},
                      req : Requests, expected : Nat]
    BY <1>1, <1>2, CallFields
  <2>2. call \in Call /\ call.pc = "spawning" /\ call.req = c
    BY <2>1 DEF Call
  <2>3. calls' = [calls EXCEPT ![h] = call]
    BY <1>1, <1>2
  <2> HIDE DEF call
  <2>4. QED
    BY <1>2, <2>2, <2>3
<1>9. Guarding(h, calls[h].pc) /\ Guarding(h, calls'[h].pc)
  BY <1>1, <1>8 DEF Guarding
<1>10. calls'[h] \in Call
  BY <1>2, <1>8
<1>11. Fits(h, calls[h])'
  BY <1>1, <1>2, <1>3, <1>5, <1>7, <1>8, <1>10 DEF Fits
<1>12. RegistryExact' /\ byKey' \in [Keys -> Runs] /\ byGroup' \in Nat
  BY <1>1, <1>2, <1>8, <1>9, GuardKept
<1> HIDE DEF c, t
<1>13. Req(h).source = t
  BY DEF t
<1>14. QED
  BY <1>1, <1>2, <1>3, <1>6, <1>7, <1>8, <1>9, <1>11, <1>12, <1>13, Moves

\* finish_generation writes the outcome of the run.
LEMMA FinishKeeps ==
    ASSUME GenerationInv, NEW a \in Actors, FinishWrite(a), Finishable(a)
    PROVE  GenerationInv'
<1> DEFINE c == calls[a].req
           t == Req(a).source
           row == [status |-> IF calls[a].staged THEN "proposal_staged" ELSE "generation_failed",
                   run |-> sources[t].run, proposal |-> IF calls[a].staged THEN c ELSE NoRun,
                   revision |-> sources[t].revision + 1]
<1>1. /\ calls[a].pc = "finishing" /\ UNCHANGED <<proposals, requests>>
      /\ applied' = applied \cup {<<"finish", c>>}
      /\ sources' = [sources EXCEPT ![t] = row]
      /\ calls' = [calls EXCEPT ![a] = Idle]
      /\ IF a \in Workers THEN DropGuard(t) ELSE UNCHANGED registry
  BY DEF FinishWrite, DoneDroppingGuard, Done
<1>2. /\ TypeOK /\ TablesSound /\ calls \in [Actors -> Call] /\ Fits(a, calls[a])
  BY InvParts DEF GenerationInv, Parts
<1>3. /\ c \in Requests /\ requests[c] # Unsent /\ Req(a) = requests[c]
      /\ t \in Sources /\ Src(a) = sources[t] /\ sources[t] \in SourceRow
      /\ calls[a].staged \in BOOLEAN /\ requests[c].source = t
  BY <1>1, AtWork, <1>2, CallFields
<1>4. sources[t].run = c /\ <<"finish", c>> \notin applied /\ c # NoRun
  BY <1>3, NamesAssumption DEF Finishable
<1>5. calls[a].staged => proposals[c] # NoProposal
  BY <1>1, <1>2 DEF Fits
<1>6. /\ row \in SourceRow /\ row.run = c
      /\ calls[a].staged => row.status = "proposal_staged" /\ row.proposal = c
      /\ ~calls[a].staged => row.status = "generation_failed" /\ row.proposal = NoRun
  <2>1. sources[t].revision \in Nat /\ sources[t].run \in Runs
    BY <1>3 DEF SourceRow
  <2>2. QED
    BY <1>3, <1>4, <2>1 DEF SourceRow, Runs
<1> HIDE DEF row
<1>7. sources'[t] = row /\ \A s \in Sources : s # t => sources'[s] = sources[s]
  BY <1>1, <1>2, <1>3 DEF TablesSound
<1>8. TablesSound'
  <2>1. CASE ~calls[a].staged
    BY <1>1, <1>3, <1>4, <1>6, <2>1, RowWritten
  <2>2. CASE calls[a].staged
    <3>1. \A d \in Requests : <<"redraft", d>> \in applied' => requests[d].of # c
      <4>1. \A d \in Requests : <<"redraft", d>> \in applied =>
               <<"finish", requests[d].of>> \in applied
        BY <1>2 DEF TablesSound
      <4>2. QED
        BY <1>1, <1>4, <4>1
    <3>2. proposals' = proposals /\ requests' = requests /\ <<"finish", c>> \in applied'
      BY <1>1
    <3>3. PICK u \in Sources : u = t
      BY <1>3
    <3> HIDE DEF t, c
    <3>4. sources'[u] = row /\ requests[c].source = u /\ sources' = [sources EXCEPT ![u] = row]
      BY <1>1, <1>3, <1>7, <3>3
    <3>5. RowSound(u, sources[u])'
      BY <1>3, <1>4, <1>5, <1>6, <2>2, <3>1, <3>2, <3>4 DEF RowSound
    <3>6. QED
      BY <1>1, <1>3, <1>6, <3>4, <3>5, SourceWritten
  <2>3. QED
    BY <1>3, <2>1, <2>2
<1>9. /\ calls' \in [Actors -> Call] /\ calls'[a] = Idle
      /\ \A b \in Actors : b # a => calls'[b] = calls[b]
  <2>1. Idle \in Call
    BY DEF Idle, Call
  <2>2. QED
    BY <1>1, <1>2, <2>1
<1>10. Fits(a, calls[a])' /\ ~Guarding(a, calls'[a].pc)
  BY <1>9 DEF Fits, Idle, Call, Guarding
<1>11. (a \in Workers <=> Guarding(a, calls[a].pc))
  BY <1>1 DEF Guarding
<1>12. RegistryExact' /\ byKey' \in [Keys -> Runs] /\ byGroup' \in Nat
  <2>1. CASE a \in Workers
    <3>1. DropGuard(Req(a).source)
      BY <1>1, <2>1
    <3>2. QED
      BY <1>1, <1>9, <1>10, <1>11, <2>1, <3>1, GuardDropped
  <2>2. CASE a \notin Workers
    BY <1>1, <1>9, <1>10, <1>11, <2>2, GuardKept
  <2>3. QED
    BY <2>1, <2>2
<1>13. RowKept(t) \/ (Guarding(a, calls[a].pc) /\ Req(a).source = t)
  <2>1. CASE a \in Workers
    BY <1>11, <2>1
  <2>2. CASE a \notin Workers
    <3>1. ~calls[a].staged
      BY <1>1, <1>2, <2>2 DEF Fits, Actors
    <3>2. QED
      BY <1>4, <1>6, <1>7, <3>1 DEF RowKept
  <2>3. QED
    BY <2>1, <2>2
<1> HIDE DEF c, t
<1>14. QED
  BY <1>1, <1>3, <1>7, <1>8, <1>9, <1>10, <1>12, <1>13, Moves

-----------------------------------------------------------------------------
\* A request is sent for the first time.
LEMMA RequestSent ==
    ASSUME GenerationInv, NEW c \in Requests, requests[c] = Unsent,
           NEW r \in Request, requests' = [requests EXCEPT ![c] = r],
           r.kind = "redraft" => /\ r.of \in Requests /\ requests[r.of] # Unsent
                                 /\ requests[r.of].source = r.source,
           UNCHANGED db
    PROVE  /\ TablesSound' /\ requests'[c] = r /\ r # Unsent
           /\ \A d \in Requests : requests[d] # Unsent => requests'[d] = requests[d]
<1>1. TablesSound /\ TypeOK
  BY InvParts DEF GenerationInv, Parts
<1>2. UNCHANGED <<sources, proposals, applied>>
  BY DEF db
<1>3. /\ requests' \in [Requests -> {Unsent} \cup Request] /\ requests'[c] = r
      /\ \A d \in Requests : d # c => requests'[d] = requests[d]
  BY <1>1 DEF TablesSound
<1>4. r # Unsent /\ requests[c].kind # "redraft"
  BY DEF Request, Unsent
<1>5. \A d \in Requests : requests[d] # Unsent => d # c /\ requests'[d] = requests[d]
  BY <1>3
<1>6. ASSUME NEW s \in Sources PROVE RowSound(s, sources[s])'
  <2>1. RowSound(s, sources[s]) /\ sources[s].run \in Runs
    BY <1>1, RowsAreSound, RowFields
  <2>2. ASSUME NEW d \in Requests, <<"redraft", d>> \in applied
        PROVE  requests'[d] = requests[d]
    <3>1. requests[d].kind = "redraft"
      BY <1>1, <2>2 DEF TablesSound
    <3>2. QED
      BY <1>3, <1>4, <3>1
  <2>3. \A d \in Requests : <<"redraft", d>> \in applied => sources[s].proposal # requests'[d].of
    BY <2>1, <2>2 DEF RowSound
  <2>4. sources[s].run # NoRun =>
           requests'[sources[s].run] # Unsent /\ requests'[sources[s].run].source = s
    BY <1>5, <2>1 DEF RowSound, Runs
  <2>5. QED
    BY <1>2, <2>1, <2>3, <2>4 DEF RowSound
<1>7. ASSUME NEW d \in Requests
      PROVE  /\ requests'[d].kind = "redraft" =>
                   /\ requests'[requests'[d].of] # Unsent
                   /\ requests'[requests'[d].of].source = requests'[d].source
             /\ proposals[d] # NoProposal => requests'[d] # Unsent
             /\ <<"redraft", d>> \in applied => requests'[d] = requests[d]
  <2>1. proposals[d] # NoProposal => requests'[d] # Unsent
    BY <1>1, <1>5 DEF TablesSound
  <2>2. CASE d = c
    BY <1>1, <1>3, <1>4, <1>5, <2>1, <2>2 DEF TablesSound
  <2>3. CASE d # c
    <3>1. requests'[d] = requests[d]
      BY <1>3, <2>3
    <3>2. requests[d].kind = "redraft" => /\ requests[d].of \in Requests
                                          /\ requests[requests[d].of] # Unsent
                                          /\ requests[requests[d].of].source = requests[d].source
      BY <1>1, RequestFields DEF TablesSound
    <3>3. QED
      BY <1>5, <2>1, <3>1, <3>2
  <2>4. QED
    BY <2>2, <2>3
<1>8. TablesSound'
  <2>1. ASSUME NEW s \in Sources
        PROVE  /\ sources'[s].status = "proposal_staged" =>
                     sources'[s].proposal = sources'[s].run /\ sources'[s].run # NoRun
               /\ sources'[s].proposal # NoRun =>
                     /\ sources'[s].status = "proposal_staged"
                     /\ proposals'[sources'[s].proposal] # NoProposal
                     /\ <<"finish", sources'[s].proposal>> \in applied'
               /\ sources'[s].run # NoRun =>
                     requests'[sources'[s].run] # Unsent /\ requests'[sources'[s].run].source = s
               /\ \A d \in Requests : <<"redraft", d>> \in applied' =>
                     sources'[s].proposal # requests'[d].of
    BY <1>6 DEF RowSound
  <2>2. ASSUME NEW d \in Requests
        PROVE  /\ proposals[d] # NoProposal <=> <<"stage", d>> \in applied
               /\ proposals[d] # NoProposal => proposals[d].status # "absent"
               /\ <<"redraft", d>> \in applied =>
                     requests[d].kind = "redraft" /\ <<"finish", requests[d].of>> \in applied
    BY <1>1 DEF TablesSound
  <2>3. /\ sources' \in [Sources -> SourceRow]
        /\ proposals' \in [Requests -> [status : {"absent", "staged", "approved", "rejected"},
                                        revision : Nat]]
        /\ applied' \subseteq {"start", "stage", "finish", "redraft", "reset"} \X Requests
    BY <1>1, <1>2 DEF TablesSound
  <2>4. ASSUME NEW d \in Requests
        PROVE  /\ requests'[d].kind = "redraft" =>
                     /\ requests'[requests'[d].of] # Unsent
                     /\ requests'[requests'[d].of].source = requests'[d].source
               /\ proposals'[d] # NoProposal <=> <<"stage", d>> \in applied'
               /\ proposals'[d] # NoProposal =>
                     proposals'[d].status # "absent" /\ requests'[d] # Unsent
               /\ <<"redraft", d>> \in applied' =>
                     requests'[d].kind = "redraft" /\ <<"finish", requests'[d].of>> \in applied'
    <3>1. proposals' = proposals /\ applied' = applied
      BY <1>2
    <3>2. /\ proposals'[d] # NoProposal <=> <<"stage", d>> \in applied'
          /\ proposals'[d] # NoProposal =>
                proposals'[d].status # "absent" /\ requests'[d] # Unsent
      BY <1>7, <2>2, <3>1
    <3>3. <<"redraft", d>> \in applied' =>
             requests'[d].kind = "redraft" /\ <<"finish", requests'[d].of>> \in applied'
      <4>1. SUFFICES ASSUME <<"redraft", d>> \in applied
                     PROVE  requests'[d].kind = "redraft" /\ <<"finish", requests'[d].of>> \in applied
        BY <3>1
      <4>2. requests'[d] = requests[d]
        BY <1>7, <4>1
      <4>3. requests[d].kind = "redraft" /\ <<"finish", requests[d].of>> \in applied
        BY <2>2, <4>1
      <4>4. QED
        BY <4>2, <4>3
    <3>4. QED
      BY <1>7, <3>2, <3>3
  <2>5. QED
    BY <1>3, <2>1, <2>3, <2>4 DEF TablesSound
<1>9. QED
  BY <1>3, <1>4, <1>5, <1>8

\* An operator asks.
LEMMA AskKeeps ==
    ASSUME GenerationInv, NEW h \in Handlers, NEW c \in Requests,
           AskKickoff(h, c) \/ AskRedraft(h, c)
    PROVE  GenerationInv'
<1>1. /\ TypeOK /\ TablesSound /\ h \in Actors /\ h \notin Workers
      /\ calls \in [Actors -> Call]
  BY InvParts, NamesAssumption DEF GenerationInv, Actors, Parts
<1>2. calls[h].pc = "idle" /\ requests[c] = Unsent /\ UNCHANGED <<registry, db>>
  BY DEF AskKickoff, AskRedraft, Idle
<1>3. PICK r \in Request, call \in Call :
         /\ requests' = [requests EXCEPT ![c] = r] /\ calls' = [calls EXCEPT ![h] = call]
         /\ r.kind = "redraft" => /\ r.of \in Requests /\ requests[r.of] # Unsent
                                  /\ requests[r.of].source = r.source
         /\ call.req = c /\ call.pc \in {"kickoff", "redraft"}
         /\ call.pc = "redraft" => r.kind = "redraft"
  <2>1. CASE AskKickoff(h, c)
    <3>1. PICK s \in Sources :
             requests' = [requests EXCEPT ![c] = [kind |-> "kickoff", source |-> s, of |-> NoRun,
                                                  expected |-> sources[s].revision]]
      BY <2>1 DEF AskKickoff
    <3> DEFINE r == [kind |-> "kickoff", source |-> s, of |-> NoRun,
                     expected |-> sources[s].revision]
               call == [pc |-> "kickoff", req |-> c, expected |-> sources[s].revision]
    <3>2. sources[s].revision \in Nat
      BY <1>1, RowFields
    <3>3. r \in Request /\ r.kind = "kickoff"
      BY <3>2 DEF Request
    <3>4. call \in Call /\ call.req = c /\ call.pc = "kickoff"
      BY <3>2 DEF Call
    <3>5. requests'[c].expected = sources[s].revision
      BY <1>1, <3>1 DEF TypeOK
    <3>6. calls' = [calls EXCEPT ![h] = call]
      BY <2>1, <3>5 DEF AskKickoff
    <3> HIDE DEF r, call
    <3>7. requests' = [requests EXCEPT ![c] = r]
      BY <3>1 DEF r
    <3>8. QED
      BY <3>3, <3>4, <3>6, <3>7
  <2>2. CASE AskRedraft(h, c)
    <3>1. PICK p \in Requests :
             /\ proposals[p] # NoProposal
             /\ requests' = [requests EXCEPT ![c] = [kind |-> "redraft", of |-> p,
                                                     source |-> requests[p].source,
                                                     expected |-> proposals[p].revision]]
      BY <2>2 DEF AskRedraft
    <3> DEFINE r == [kind |-> "redraft", of |-> p, source |-> requests[p].source,
                     expected |-> proposals[p].revision]
               call == [pc |-> "redraft", req |-> c]
    <3>2. /\ requests[p] # Unsent /\ requests[p].source \in Sources
          /\ proposals[p].revision \in Nat
      BY <1>1, <3>1, RequestFields, RowFields DEF TablesSound
    <3>3. /\ r \in Request /\ r.kind = "redraft" /\ r.of = p
          /\ r.source = requests[p].source
      BY <3>2 DEF Request
    <3>4. call \in Call /\ call.req = c /\ call.pc = "redraft"
      BY DEF Call
    <3>5. calls' = [calls EXCEPT ![h] = call]
      BY <2>2 DEF AskRedraft
    <3>6. requests' = [requests EXCEPT ![c] = r]
      BY <3>1
    <3> HIDE DEF r, call
    <3>7. QED
      BY <3>2, <3>3, <3>4, <3>5, <3>6
  <2>3. QED
    BY <2>1, <2>2
<1>4. /\ TablesSound' /\ requests'[c] = r /\ r # Unsent
      /\ \A d \in Requests : requests[d] # Unsent => requests'[d] = requests[d]
  BY <1>2, <1>3, RequestSent
<1>5. /\ calls' \in [Actors -> Call] /\ calls'[h] = call
      /\ \A b \in Actors : b # h => calls'[b] = calls[b]
  BY <1>1, <1>3
<1>6. Fits(h, calls[h])'
  BY <1>1, <1>3, <1>4, <1>5 DEF Fits, Guarding
<1>7. ~Guarding(h, calls[h].pc) /\ ~Guarding(h, calls'[h].pc)
  BY <1>1, <1>2, <1>3, <1>5 DEF Guarding
<1>8. RegistryExact' /\ byKey' \in [Keys -> Runs] /\ byGroup' \in Nat
  BY <1>1, <1>2, <1>4, <1>5, <1>7, GuardKept
<1>9. r.source \in Sources
  BY <1>3 DEF Request
<1>10. UNCHANGED <<sources, proposals>> /\ RowKept(r.source)
  BY <1>2 DEF db, RowKept
<1>11. QED
  BY <1>1, <1>4, <1>5, <1>6, <1>8, <1>9, <1>10, Moves

\* A proposal is staged, or a staged one decided.
LEMMA ProposalWritten ==
    ASSUME GenerationInv, NEW p \in Requests, requests[p] # Unsent,
           NEW prop \in [status : {"staged", "approved", "rejected"}, revision : Nat],
           proposals' = [proposals EXCEPT ![p] = prop],
           applied' = applied \cup {<<"stage", p>>}, UNCHANGED <<sources, requests>>
    PROVE  TablesSound' /\ \A c \in Requests : proposals[c] # NoProposal => proposals'[c] # NoProposal
<1>1. TablesSound
  BY InvParts DEF Parts
<1>2. /\ proposals' \in [Requests -> [status : {"absent", "staged", "approved", "rejected"},
                                      revision : Nat]]
      /\ proposals'[p] = prop /\ prop # NoProposal /\ prop.status # "absent"
      /\ \A c \in Requests : c # p => proposals'[c] = proposals[c]
  BY <1>1 DEF TablesSound, NoProposal
<1>3. /\ applied \subseteq applied'
      /\ applied' \subseteq {"start", "stage", "finish", "redraft", "reset"} \X Requests
      /\ \A d \in Requests :
            /\ <<"redraft", d>> \in applied' <=> <<"redraft", d>> \in applied
            /\ <<"stage", d>> \in applied' <=> (<<"stage", d>> \in applied \/ d = p)
      /\ \A d : <<"finish", d>> \in applied' <=> <<"finish", d>> \in applied
  <2>1. applied \subseteq {"start", "stage", "finish", "redraft", "reset"} \X Requests
    BY <1>1 DEF TablesSound
  <2>2. QED
    BY <2>1
<1>4. \A c \in Requests : proposals[c] # NoProposal => proposals'[c] # NoProposal
  BY <1>2
<1>5. ASSUME NEW s \in Sources
      PROVE  sources[s].proposal # NoRun => proposals'[sources[s].proposal] # NoProposal
  <2>1. RowSound(s, sources[s]) /\ sources[s].proposal \in Runs
    BY <1>1, RowsAreSound DEF RowSound, SourceRow
  <2>2. QED
    BY <1>4, <2>1 DEF RowSound, Runs
<1>6. ASSUME NEW d \in Requests
      PROVE  /\ proposals'[d] # NoProposal <=> <<"stage", d>> \in applied'
             /\ proposals'[d] # NoProposal =>
                   proposals'[d].status # "absent" /\ requests[d] # Unsent
  <2>1. /\ proposals[d] # NoProposal <=> <<"stage", d>> \in applied
        /\ proposals[d] # NoProposal => proposals[d].status # "absent" /\ requests[d] # Unsent
    BY <1>1 DEF TablesSound
  <2>2. CASE d = p
    BY <1>2, <1>3, <2>2
  <2>3. CASE d # p
    BY <1>2, <1>3, <2>1, <2>3
  <2>4. QED
    BY <2>2, <2>3
<1>7. ASSUME NEW s \in Sources
      PROVE  /\ sources[s].status = "proposal_staged" =>
                   sources[s].proposal = sources[s].run /\ sources[s].run # NoRun
             /\ sources[s].proposal # NoRun =>
                   /\ sources[s].status = "proposal_staged"
                   /\ <<"finish", sources[s].proposal>> \in applied'
             /\ sources[s].run # NoRun =>
                   requests[sources[s].run] # Unsent /\ requests[sources[s].run].source = s
  BY <1>1, <1>3 DEF TablesSound
<1>8. ASSUME NEW d \in Requests
      PROVE  /\ requests[d].kind = "redraft" =>
                   /\ requests[requests[d].of] # Unsent
                   /\ requests[requests[d].of].source = requests[d].source
             /\ <<"redraft", d>> \in applied' =>
                   /\ requests[d].kind = "redraft" /\ <<"finish", requests[d].of>> \in applied'
                   /\ \A s \in Sources : sources[s].proposal # requests[d].of
  BY <1>1, <1>3 DEF TablesSound
<1>9. /\ sources' \in [Sources -> SourceRow]
      /\ requests' \in [Requests -> {Unsent} \cup Request]
  BY <1>1 DEF TablesSound
<1>10. TablesSound'
  BY <1>2, <1>3, <1>5, <1>6, <1>7, <1>8, <1>9 DEF TablesSound
<1>11. QED
  BY <1>4, <1>10

\* stage_request, in the worker.
LEMMA StageKeeps ==
    ASSUME GenerationInv, NEW w \in Workers, WorkStages(w)
    PROVE  GenerationInv'
<1> DEFINE c == calls[w].req
           call == [pc |-> "finish", req |-> calls[w].req, staged |-> TRUE, panicked |-> FALSE]
<1>1. /\ calls[w].pc = "drafting" /\ applied' = applied \cup {<<"stage", c>>}
      /\ proposals' = IF <<"stage", c>> \in applied THEN proposals
                      ELSE [proposals EXCEPT ![c] = [status |-> "staged", revision |-> 1]]
      /\ calls' = [calls EXCEPT ![w] = call] /\ UNCHANGED <<registry, sources, requests>>
  BY DEF WorkStages, ToFinish
<1>2. /\ w \in Actors /\ Guarding(w, calls[w].pc) /\ c \in Requests /\ w \notin Handlers
      /\ Src(w).status \in {"generating", "generation_failed"} /\ Src(w).run = c
  BY <1>1, WorkerAt, NamesAssumption
<1>3. /\ requests[c] # Unsent /\ Req(w) = requests[c] /\ Req(w).source \in Sources
      /\ Src(w) = sources[Req(w).source]
  BY <1>1, <1>2, AtWork
<1>4. TablesSound /\ calls \in [Actors -> Call]
  BY InvParts DEF Parts
<1>5. call \in Call /\ call.pc = "finish" /\ call.req = c
  BY <1>2 DEF Call
<1> HIDE DEF call, c
<1>6. /\ TablesSound' /\ proposals'[c] # NoProposal
      /\ \A d \in Requests : /\ proposals[d] # NoProposal => proposals'[d] # NoProposal
                             /\ proposals[d].status = "rejected" => proposals'[d].status = "rejected"
  <2>1. CASE <<"stage", c>> \in applied
    <3>1. proposals' = proposals /\ applied' = applied
      BY <1>1, <2>1
    <3>2. TablesSound'
      BY <1>1, <1>4, <3>1 DEF TablesSound
    <3>3. proposals[c] # NoProposal
      BY <1>2, <1>4, <2>1 DEF TablesSound
    <3>4. QED
      BY <3>1, <3>2, <3>3
  <2>2. CASE <<"stage", c>> \notin applied
    <3> DEFINE prop == [status |-> "staged", revision |-> 1]
    <3>1. /\ proposals' = [proposals EXCEPT ![c] = prop]
          /\ prop \in [status : {"staged", "approved", "rejected"}, revision : Nat]
      BY <1>1, <2>2
    <3>2. prop.status = "staged" /\ prop # NoProposal
      BY DEF NoProposal
    <3> HIDE DEF prop
    <3>3. /\ TablesSound'
          /\ \A d \in Requests : proposals[d] # NoProposal => proposals'[d] # NoProposal
      BY <1>1, <1>2, <1>3, <3>1, ProposalWritten
    <3>4. /\ proposals'[c] = prop
          /\ \A d \in Requests : d # c => proposals'[d] = proposals[d]
      BY <1>2, <1>4, <3>1 DEF TablesSound
    <3>5. proposals[c] = NoProposal
      BY <1>2, <1>4, <2>2 DEF TablesSound
    <3>6. proposals[c].status # "rejected"
      BY <3>5 DEF NoProposal
    <3>7. QED
      BY <3>2, <3>3, <3>4, <3>6
  <2>3. QED
    BY <2>1, <2>2
<1>7. /\ calls' \in [Actors -> Call] /\ calls'[w] = call
      /\ \A b \in Actors : b # w => calls'[b] = calls[b]
  BY <1>1, <1>2, <1>4, <1>5
<1>8. /\ calls'[w].pc = "finish" /\ calls'[w].req = c /\ calls'[w] \in Call
      /\ Guarding(w, calls'[w].pc)
  BY <1>2, <1>5, <1>7 DEF Guarding
<1>9. sources' = sources /\ requests' = requests
  BY <1>1
<1>10. Fits(w, calls[w])'
  BY <1>2, <1>3, <1>6, <1>8, <1>9 DEF Fits
<1>11. RegistryExact' /\ byKey' \in [Keys -> Runs] /\ byGroup' \in Nat
  BY <1>1, <1>2, <1>7, <1>8, <1>9, GuardKept DEF c
<1>12. QED
  BY <1>2, <1>3, <1>6, <1>7, <1>9, <1>10, <1>11, Moves

\* The operator decides about a staged proposal.
LEMMA DecideKeeps ==
    ASSUME GenerationInv, NEW p \in Requests, Decide(p)
    PROVE  GenerationInv'
<1>1. PICK status \in {"approved", "rejected"} :
         proposals' = [proposals EXCEPT ![p] = [status |-> status, revision |-> @.revision + 1]]
  BY DEF Decide
<1>2. /\ proposals[p].status = "staged"
      /\ UNCHANGED <<registry, sources, applied, requests, calls>>
  BY DEF Decide
<1>3. Parts /\ TablesSound /\ TypeOK
  BY InvParts DEF Parts, GenerationInv
<1> DEFINE prop == [status |-> status, revision |-> proposals[p].revision + 1]
<1>4. prop \in [status : {"staged", "approved", "rejected"}, revision : Nat]
  BY <1>3, RowFields
<1>5. proposals' = [proposals EXCEPT ![p] = prop]
  BY <1>1
<1> HIDE DEF prop
<1>6. proposals[p] # NoProposal
  BY <1>2 DEF NoProposal
<1>7. requests[p] # Unsent /\ <<"stage", p>> \in applied
  BY <1>3, <1>6 DEF TablesSound
<1>8. applied' = applied \cup {<<"stage", p>>}
  BY <1>2, <1>7
<1>9. /\ TablesSound' /\ \A c \in Requests : proposals[c] # NoProposal => proposals'[c] # NoProposal
  BY <1>2, <1>4, <1>5, <1>7, <1>8, ProposalWritten
<1>10. \A c \in Requests : proposals[c].status = "rejected" => proposals'[c].status = "rejected"
  BY <1>2, <1>3, <1>5 DEF TypeOK
<1>11. RegistryExact' /\ byKey' \in [Keys -> Runs] /\ byGroup' \in Nat
  BY <1>2, <1>3 DEF Parts, registry, RegistryExact, Guards, HasGuard, Req, Capacity
<1>12. ASSUME NEW b \in Actors PROVE Fits(b, calls[b])'
  <2>1. calls' = calls /\ sources' = sources /\ requests' = requests
    BY <1>2
  <2>2. QED
    BY <1>9, <1>10, <2>1, StillFits DEF Src
<1>13. QED
  BY <1>2, <1>3, <1>9, <1>11, <1>12, InvPartsAfter DEF Parts

\* What a handler that is about to redraft or to reset knows of its source.
LEMMA ResettableKnows ==
    ASSUME GenerationInv, NEW h \in Handlers, calls[h].pc = "redrafting",
           Resettable(Src(h), Req(h).of)
    PROVE  /\ h \in Actors /\ h \notin Workers /\ calls[h].req \in Requests
           /\ requests[calls[h].req] # Unsent /\ requests[calls[h].req].kind = "redraft"
           /\ Req(h) = requests[calls[h].req]
           /\ Req(h).of \in Requests /\ Req(h).source \in Sources
           /\ Src(h) = sources[Req(h).source] /\ Src(h) \in SourceRow
           /\ Src(h).proposal = Req(h).of /\ Src(h).status = "proposal_staged"
           /\ ResetRow(Src(h)) \in SourceRow /\ ResetRow(Src(h)).proposal = NoRun
           /\ ResetRow(Src(h)).run = NoRun /\ ResetRow(Src(h)).status = "ready"
<1>1. TypeOK /\ h \in Actors /\ h \notin Workers /\ Fits(h, calls[h])
  BY InvParts, NamesAssumption DEF GenerationInv, Actors, Parts
<1>2. /\ calls[h].req \in Requests /\ requests[calls[h].req] # Unsent
      /\ Req(h) = requests[calls[h].req] /\ Req(h).source \in Sources
      /\ Src(h) = sources[Req(h).source] /\ Src(h) \in SourceRow
  BY <1>1, AtWork
<1>3. requests[calls[h].req].kind = "redraft"
  BY <1>1 DEF Fits
<1>4. Req(h).of \in Requests
  BY <1>1, <1>2, <1>3, RequestFields
<1>5. Src(h).proposal = Req(h).of /\ Src(h).proposal # NoRun
  BY <1>4, NamesAssumption DEF Resettable
<1>6. Src(h).status = "proposal_staged"
  BY <1>1, <1>2, <1>5, RowFields
<1>7. Src(h).revision \in Nat
  BY <1>2 DEF SourceRow
<1>8. /\ ResetRow(Src(h)) \in SourceRow /\ ResetRow(Src(h)).proposal = NoRun
      /\ ResetRow(Src(h)).run = NoRun /\ ResetRow(Src(h)).status = "ready"
  BY <1>7 DEF ResetRow, SourceRow, Runs
<1>9. QED
  BY <1>1, <1>2, <1>3, <1>4, <1>5, <1>6, <1>8

\* The handler of a redraft moves on to read the source again.
LEMMA RereadNext ==
    ASSUME GenerationInv, NEW h \in Handlers, calls[h].pc = "redrafting",
           Resettable(Src(h), Req(h).of), UNCHANGED <<registry, requests>>,
           calls' = [calls EXCEPT ![h] = [pc |-> "reread", req |-> calls[h].req]],
           sources' = [sources EXCEPT ![Req(h).source] = ResetRow(@)],
           \A d \in Requests :
              /\ proposals[d] # NoProposal => proposals'[d] # NoProposal
              /\ proposals[d].status = "rejected" => proposals'[d].status = "rejected",
           TablesSound'
    PROVE  GenerationInv'
<1>1. /\ h \in Actors /\ h \notin Workers /\ calls[h].req \in Requests
      /\ requests[calls[h].req] # Unsent /\ requests[calls[h].req].kind = "redraft"
      /\ Req(h).source \in Sources /\ Src(h) = sources[Req(h).source]
      /\ Src(h).status = "proposal_staged"
  BY ResettableKnows
<1>2. calls \in [Actors -> Call] /\ TablesSound
  BY InvParts DEF Parts
<1> DEFINE call == [pc |-> "reread", req |-> calls[h].req]
<1>3. call \in Call /\ call.pc = "reread" /\ call.req = calls[h].req
  BY <1>1 DEF Call
<1> HIDE DEF call
<1>4. /\ calls' \in [Actors -> Call] /\ calls'[h] = call
      /\ \A b \in Actors : b # h => calls'[b] = calls[b]
  BY <1>1, <1>2, <1>3 DEF call
<1>5. Fits(h, calls[h])'
  <2>1. calls'[h] \in Call /\ calls'[h].pc = "reread" /\ calls'[h].req = calls[h].req
    BY <1>3, <1>4
  <2>2. QED
    BY <1>1, <2>1 DEF Fits, Guarding
<1>6. ~Guarding(h, calls[h].pc) /\ ~Guarding(h, calls'[h].pc)
  BY <1>1, <1>3, <1>4 DEF Guarding
<1>7. RegistryExact' /\ byKey' \in [Keys -> Runs] /\ byGroup' \in Nat
  BY <1>1, <1>4, <1>6, GuardKept
<1>8. RowKept(Req(h).source)
  BY <1>1 DEF RowKept
<1>9. \A s \in Sources : s # Req(h).source => sources'[s] = sources[s]
  BY <1>1, <1>2 DEF TablesSound
<1>10. PICK t \in Sources : t = Req(h).source
  BY <1>1
<1>11. RowKept(t) /\ \A s \in Sources : s # t => sources'[s] = sources[s]
  BY <1>8, <1>9, <1>10 DEF RowKept
<1>12. QED
  BY <1>1, <1>4, <1>5, <1>7, <1>11, Moves

\* reset_generation takes a source back from a rejected proposal.
LEMMA ResetKeeps ==
    ASSUME GenerationInv, NEW h \in Handlers, ResetGeneration(h), applied' # applied
    PROVE  GenerationInv'
<1>1. /\ calls[h].pc = "redrafting" /\ Resettable(Src(h), Req(h).of)
      /\ applied' = applied \cup {<<"reset", calls[h].req>>}
      /\ sources' = [sources EXCEPT ![Req(h).source] = ResetRow(@)]
      /\ calls' = [calls EXCEPT ![h] = [pc |-> "reread", req |-> calls[h].req]]
      /\ UNCHANGED <<registry, proposals, requests>>
  BY DEF ResetGeneration, db
<1>2. /\ calls[h].req \in Requests /\ Req(h).source \in Sources
      /\ Src(h) = sources[Req(h).source]
      /\ ResetRow(Src(h)) \in SourceRow /\ ResetRow(Src(h)).proposal = NoRun
      /\ ResetRow(Src(h)).run = NoRun /\ ResetRow(Src(h)).status = "ready"
  BY <1>1, ResettableKnows
<1>3. sources' = [sources EXCEPT ![Req(h).source] = ResetRow(Src(h))]
  BY <1>1, <1>2
<1>4. TablesSound'
  BY <1>1, <1>2, <1>3, RowWritten
<1>5. QED
  BY <1>1, <1>4, RereadNext

\* redraft_proposal rejects the proposal and takes the source back.
LEMMA RedraftKeeps ==
    ASSUME GenerationInv, NEW h \in Handlers, RedraftProposal(h), applied' # applied
    PROVE  GenerationInv'
<1> DEFINE c == calls[h].req
           p == Req(h).of
           t == Req(h).source
<1>1. /\ calls[h].pc = "redrafting" /\ Redraftable(h)
      /\ applied' = applied \cup {<<"redraft", c>>}
      /\ proposals' = [proposals EXCEPT ![p] = [status |-> "rejected", revision |-> @.revision + 1]]
      /\ sources' = [sources EXCEPT ![t] = ResetRow(@)]
      /\ calls' = [calls EXCEPT ![h] = [pc |-> "reread", req |-> calls[h].req]]
      /\ UNCHANGED <<registry, requests>>
  BY DEF RedraftProposal, db
<1>2. Resettable(Src(h), Req(h).of) /\ proposals[p].status = "staged"
  BY <1>1 DEF Redraftable
<1>3. /\ c \in Requests /\ p \in Requests /\ t \in Sources /\ Src(h) = sources[t]
      /\ requests[c].kind = "redraft" /\ requests[c].of = p
      /\ sources[t].proposal = p /\ ResetRow(sources[t]) \in SourceRow
      /\ ResetRow(sources[t]).proposal = NoRun /\ ResetRow(sources[t]).run = NoRun
      /\ ResetRow(sources[t]).status = "ready"
  BY <1>1, <1>2, ResettableKnows
<1>4. TablesSound /\ TypeOK
  BY InvParts DEF Parts, GenerationInv
<1> DEFINE prop == [status |-> "rejected", revision |-> proposals[p].revision + 1]
           row == ResetRow(sources[t])
<1>5. /\ proposals' = [proposals EXCEPT ![p] = prop] /\ sources' = [sources EXCEPT ![t] = row]
      /\ prop \in [status : {"absent", "staged", "approved", "rejected"}, revision : Nat]
      /\ prop.status = "rejected" /\ prop # NoProposal
  BY <1>1, <1>3, <1>4, RowFields DEF NoProposal
<1> HIDE DEF prop, row, c, p, t
<1>6. /\ sources' \in [Sources -> SourceRow] /\ sources'[t].proposal = NoRun
      /\ sources'[t].run = NoRun /\ sources'[t].status = "ready"
      /\ \A s \in Sources : s # t => sources'[s] = sources[s]
  BY <1>3, <1>4, <1>5 DEF TablesSound, row
<1>7. /\ proposals' \in [Requests -> [status : {"absent", "staged", "approved", "rejected"},
                                      revision : Nat]]
      /\ proposals'[p].status = "rejected" /\ proposals'[p] # NoProposal
      /\ \A d \in Requests : d # p => proposals'[d] = proposals[d]
  BY <1>3, <1>4, <1>5 DEF TablesSound
<1>8. /\ applied \subseteq applied'
      /\ applied' \subseteq {"start", "stage", "finish", "redraft", "reset"} \X Requests
      /\ \A d \in Requests :
            /\ <<"redraft", d>> \in applied' <=> (<<"redraft", d>> \in applied \/ d = c)
            /\ <<"stage", d>> \in applied' <=> <<"stage", d>> \in applied
  <2>1. applied \subseteq {"start", "stage", "finish", "redraft", "reset"} \X Requests
    BY <1>4 DEF TablesSound
  <2>2. QED
    BY <1>1, <1>3, <2>1
<1>9. proposals[p] # NoProposal /\ p # NoRun
  BY <1>2, <1>3, NamesAssumption DEF NoProposal, p
<1>10. <<"finish", p>> \in applied /\ requests[p].source = t
  BY <1>3, <1>4, <1>9, RowFields DEF TablesSound
<1>11. \A d \in Requests :
          /\ proposals[d] # NoProposal => proposals'[d] # NoProposal
          /\ proposals[d].status = "rejected" => proposals'[d].status = "rejected"
  BY <1>7
<1>12. ASSUME NEW s \in Sources
       PROVE  /\ sources'[s].status = "proposal_staged" =>
                    sources'[s].proposal = sources'[s].run /\ sources'[s].run # NoRun
              /\ sources'[s].proposal # NoRun =>
                    /\ sources'[s].status = "proposal_staged"
                    /\ proposals'[sources'[s].proposal] # NoProposal
                    /\ <<"finish", sources'[s].proposal>> \in applied'
              /\ sources'[s].run # NoRun =>
                    requests[sources'[s].run] # Unsent /\ requests[sources'[s].run].source = s
              /\ sources'[s].proposal # p
              /\ \A d \in Requests : <<"redraft", d>> \in applied =>
                    sources'[s].proposal # requests[d].of
  <2>1. CASE s = t
    <3>1. \A d \in Requests : <<"redraft", d>> \in applied => requests[d].of # NoRun
      <4>1. \A d \in Requests : <<"redraft", d>> \in applied => requests[d].kind = "redraft"
        BY <1>4 DEF TablesSound
      <4>2. QED
        BY <1>4, <4>1, RequestFields, NamesAssumption
    <3>2. QED
      BY <1>6, <1>9, <2>1, <3>1
  <2>2. CASE s # t
    <3>1. RowSound(s, sources[s]) /\ sources'[s] = sources[s]
      BY <1>4, <1>6, <2>2, RowsAreSound
    <3>2. sources[s].proposal # p
      <4>1. SUFFICES ASSUME sources[s].proposal = p PROVE FALSE
        OBVIOUS
      <4>2. sources[s].run = p
        BY <1>4, <1>9, <4>1, RowFields
      <4>3. QED
        BY <1>9, <1>10, <2>2, <3>1, <4>2 DEF RowSound
    <3>3. sources[s].proposal # NoRun => sources[s].proposal \in Requests
      BY <1>4, RowFields
    <3>4. QED
      BY <1>8, <1>11, <3>1, <3>2, <3>3 DEF RowSound
  <2>3. QED
    BY <2>1, <2>2
<1>13. ASSUME NEW d \in Requests
       PROVE  /\ requests[d].kind = "redraft" =>
                    /\ requests[requests[d].of] # Unsent
                    /\ requests[requests[d].of].source = requests[d].source
              /\ proposals'[d] # NoProposal <=> <<"stage", d>> \in applied'
              /\ proposals'[d] # NoProposal =>
                    proposals'[d].status # "absent" /\ requests[d] # Unsent
  <2>1. /\ requests[d].kind = "redraft" =>
              /\ requests[requests[d].of] # Unsent
              /\ requests[requests[d].of].source = requests[d].source
        /\ proposals[d] # NoProposal <=> <<"stage", d>> \in applied
        /\ proposals[d] # NoProposal => proposals[d].status # "absent" /\ requests[d] # Unsent
    BY <1>4 DEF TablesSound
  <2>2. CASE d = p
    BY <1>7, <1>8, <1>9, <2>1, <2>2
  <2>3. CASE d # p
    BY <1>7, <1>8, <2>1, <2>3
  <2>4. QED
    BY <2>2, <2>3
<1>14. ASSUME NEW d \in Requests, <<"redraft", d>> \in applied'
       PROVE  /\ requests[d].kind = "redraft" /\ <<"finish", requests[d].of>> \in applied'
              /\ \A s \in Sources : sources'[s].proposal # requests[d].of
  <2>1. CASE d = c
    BY <1>3, <1>8, <1>10, <1>12, <2>1
  <2>2. CASE <<"redraft", d>> \in applied
    <3>1. requests[d].kind = "redraft" /\ <<"finish", requests[d].of>> \in applied
      BY <1>4, <2>2 DEF TablesSound
    <3>2. QED
      BY <1>8, <1>12, <2>2, <3>1
  <2>3. QED
    BY <1>8, <1>14, <2>1, <2>2
<1>15. requests' = requests /\ requests \in [Requests -> {Unsent} \cup Request]
  BY <1>1, <1>4 DEF TablesSound
<1>16. TablesSound'
  BY <1>6, <1>7, <1>8, <1>12, <1>13, <1>14, <1>15 DEF TablesSound
<1>17. QED
  BY <1>1, <1>2, <1>11, <1>16, RereadNext DEF t

-----------------------------------------------------------------------------
\* async_kickoff::begin gives a guard.
LEMMA BeginKeeps ==
    ASSUME GenerationInv, NEW h \in Handlers, Begin(h), GuardStarted(Req(h).source, calls[h].req)
    PROVE  GenerationInv'
<1> DEFINE c == calls[h].req
           t == Req(h).source
<1>1. /\ calls[h].pc = "begin" /\ UNCHANGED <<db, requests>>
      /\ calls' = [calls EXCEPT ![h].pc = "recording"]
  <2>1. calls[h].pc = "begin" /\ UNCHANGED <<db, requests>>
    BY DEF Begin
  <2>2. ~(AlreadyRunning(t) \/ CapacityExceeded(t))
    BY DEF GuardStarted, AlreadyRunning, CapacityExceeded
  <2>3. QED
    BY <2>1, <2>2 DEF Begin
<1>2. /\ TypeOK /\ TablesSound /\ RegistryExact /\ h \in Actors /\ h \notin Workers
      /\ calls \in [Actors -> Call] /\ Fits(h, calls[h])
      /\ byKey \in [Keys -> Runs] /\ byGroup \in Nat
  BY InvParts, NamesAssumption DEF GenerationInv, Actors, Parts
<1>3. /\ c \in Requests /\ requests[c] # Unsent /\ Req(h) = requests[c] /\ t \in Keys
  BY <1>1, <1>2, AtWork DEF Sources
<1>4. /\ calls' \in [Actors -> Call] /\ calls'[h].pc = "recording" /\ calls'[h].req = c
      /\ calls'[h] \in Call /\ \A b \in Actors : b # h => calls'[b] = calls[b]
  <2> DEFINE call == [calls[h] EXCEPT !.pc = "recording"]
  <2>1. calls[h] \in [pc : {"kickoff", "begin", "recording", "starting", "spawning"},
                      req : Requests, expected : Nat]
    BY <1>1, <1>2, CallFields
  <2>2. call \in Call /\ call.pc = "recording" /\ call.req = c
    BY <2>1 DEF Call
  <2>3. calls' = [calls EXCEPT ![h] = call]
    BY <1>1, <1>2
  <2> HIDE DEF call
  <2>4. QED
    BY <1>2, <2>2, <2>3
<1>5. UNCHANGED <<sources, proposals, applied>> /\ requests' = requests
  BY <1>1 DEF db
<1>6. TablesSound'
  BY <1>2, <1>5 DEF TablesSound
<1>7. ~Guarding(h, calls[h].pc) /\ Guarding(h, calls'[h].pc)
  BY <1>1, <1>2, <1>4 DEF Guarding
<1>8. Guards \subseteq Actors /\ h \notin Guards /\ Guards' = Guards \cup {h}
  BY <1>2, <1>4, <1>7, GuardsAre, GuardsAfter
<1>9. IsFiniteSet(Guards) /\ Cardinality(Guards) \in Nat
      /\ Cardinality(Guards') = Cardinality(Guards) + 1
  <2>1. IsFiniteSet(Guards)
    BY <1>8, NamesAssumption, FS_Subset DEF Actors
  <2>2. QED
    BY <1>8, <2>1, FS_CardinalityType, FS_AddElement
<1>10. byGroup' = Cardinality(Guards') /\ byGroup' \in Nat /\ byGroup' <= Capacity
  <2>1. Capacity \in Nat /\ Capacity' = Capacity
    BY CapacityAssumption DEF Capacity
  <2>2. byGroup = Cardinality(Guards) /\ byGroup' = byGroup + 1 /\ ~(byGroup >= Capacity)
    BY <1>2 DEF RegistryExact, GuardStarted, Full
  <2>3. QED
    BY <1>9, <2>1, <2>2
<1>11. /\ byKey[t] = NoRun /\ byKey'[t] = c /\ byKey' \in [Keys -> Runs]
       /\ \A k \in Keys : k # t => byKey'[k] = byKey[k]
  BY <1>2, <1>3 DEF GuardStarted, Runs
<1> HIDE DEF c, t
<1>12. ASSUME NEW b \in Guards
       PROVE  /\ Req(b)' = Req(b) /\ calls'[b] = calls[b] /\ Req(b).source \in Keys
              /\ Req(b).source # t
  <2>1. b \in Actors /\ b # h /\ calls[b].pc # "idle"
    BY <1>2, <1>8, GuardsAre DEF Guarding
  <2>2. calls'[b] = calls[b]
    BY <1>4, <2>1
  <2>3. Req(b).source \in Keys
    BY <2>1, AtWork DEF Sources
  <2>4. byKey[Req(b).source] # NoRun
    BY <1>2, <2>3 DEF RegistryExact, Sources
  <2>5. QED
    BY <1>5, <1>11, <2>2, <2>3, <2>4 DEF Req
<1>13. Req(h)' = Req(h) /\ Req(h).source = t /\ calls'[h].req = c
  BY <1>3, <1>4, <1>5 DEF Req, t, c
<1>14. ASSUME NEW k \in Keys
       PROVE  byKey'[k] # NoRun <=> \E b \in Guards' : Req(b)'.source = k
  <2>1. CASE k = t
    BY <1>3, <1>8, <1>11, <1>13, <2>1, NamesAssumption
  <2>2. CASE k # t
    <3>1. byKey[k] # NoRun <=> \E b \in Guards : Req(b).source = k
      BY <1>2 DEF RegistryExact, Sources
    <3>2. QED
      BY <1>8, <1>11, <1>12, <1>13, <2>2, <3>1
  <2>3. QED
    BY <2>1, <2>2
<1>15. ASSUME NEW b \in Guards' PROVE byKey'[Req(b)'.source] = calls'[b].req
  <2>1. CASE b = h
    BY <1>11, <1>13, <2>1
  <2>2. CASE b \in Guards
    BY <1>2, <1>11, <1>12, <2>2 DEF RegistryExact
  <2>3. QED
    BY <1>8, <2>1, <2>2
<1>16. ASSUME NEW b \in Guards', NEW d \in Guards', Req(b)'.source = Req(d)'.source
       PROVE  b = d
  BY <1>2, <1>8, <1>12, <1>13, <1>16 DEF RegistryExact
<1>17. Capacity' = Capacity
  BY DEF Capacity
<1>18. RegistryExact'
  BY <1>10, <1>14, <1>15, <1>16, <1>17 DEF RegistryExact, Sources
<1>19. Fits(h, calls[h])'
  BY <1>2, <1>3, <1>4, <1>5 DEF Fits
<1>20. ASSUME NEW b \in Actors PROVE Fits(b, calls[b])'
  <2>1. CASE b = h
    BY <1>19, <2>1
  <2>2. CASE b # h
    BY <1>4, <1>5, <2>2, StillFits DEF Src
  <2>3. QED
    BY <2>1, <2>2
<1>21. QED
  BY <1>4, <1>6, <1>10, <1>11, <1>18, <1>20, InvPartsAfter DEF Parts

\* The guard moves into the worker thread.
LEMMA SpawnKeeps ==
    ASSUME GenerationInv, NEW h \in Handlers, NEW w \in Workers, Spawn(h, w)
    PROVE  GenerationInv'
<1> DEFINE c == calls[h].req
           call == [pc |-> "started", req |-> c]
<1>1. /\ calls[h].pc = "spawning" /\ calls[w] = Idle
      /\ calls' = [calls EXCEPT ![h] = Idle, ![w] = call] /\ UNCHANGED <<registry, db, requests>>
  BY DEF Spawn, GuardMoves
<1>2. /\ TypeOK /\ TablesSound /\ RegistryExact /\ h \in Actors /\ h \notin Workers
      /\ w \in Actors /\ w \notin Handlers /\ h # w
      /\ calls \in [Actors -> Call] /\ Fits(h, calls[h])
      /\ byKey \in [Keys -> Runs] /\ byGroup \in Nat
  BY InvParts, NamesAssumption DEF GenerationInv, Actors, Parts
<1>3. c \in Requests /\ requests[c] # Unsent /\ Req(h) = requests[c]
  BY <1>1, <1>2, AtWork
<1>4. call \in Call /\ call.pc = "started" /\ call.req = c /\ Idle \in Call /\ Idle.pc = "idle"
  BY <1>3 DEF Call, Idle
<1> HIDE DEF call
<1>5. /\ calls' \in [Actors -> Call] /\ calls'[h] = Idle /\ calls'[w] = call
      /\ \A b \in Actors : b # h /\ b # w => calls'[b] = calls[b]
  BY <1>1, <1>2, <1>4
<1>6. /\ Guarding(h, calls[h].pc) /\ ~Guarding(w, calls[w].pc)
      /\ ~Guarding(h, calls'[h].pc) /\ Guarding(w, calls'[w].pc)
  BY <1>1, <1>2, <1>4, <1>5 DEF Guarding
<1>7. Guards \subseteq Actors /\ h \in Guards /\ w \notin Guards
      /\ Guards' = (Guards \ {h}) \cup {w}
  BY <1>2, <1>5, <1>6, GuardsAre, GuardsAfter
<1>8. Cardinality(Guards') = Cardinality(Guards)
  <2>1. IsFiniteSet(Guards) /\ Cardinality(Guards) \in Nat
    BY <1>7, NamesAssumption, FS_Subset, FS_CardinalityType DEF Actors
  <2>2. IsFiniteSet(Guards \ {h}) /\ Cardinality(Guards \ {h}) = Cardinality(Guards) - 1
    BY <1>7, <2>1, FS_RemoveElement
  <2>3. w \notin Guards \ {h}
    BY <1>7
  <2>4. Cardinality((Guards \ {h}) \cup {w}) = Cardinality(Guards \ {h}) + 1
    BY <2>2, <2>3, FS_AddElement
  <2>5. QED
    BY <1>7, <2>1, <2>2, <2>4
<1>9. UNCHANGED <<sources, proposals, applied, requests, byKey, byGroup>>
  BY <1>1 DEF db, registry
<1>10. ASSUME NEW b \in Guards \ {h} PROVE Req(b)' = Req(b) /\ calls'[b] = calls[b]
  BY <1>5, <1>7, <1>9 DEF Req
<1>11. Req(w)' = Req(h) /\ calls'[w].req = calls[h].req
  BY <1>3, <1>4, <1>5, <1>9 DEF Req
<1> HIDE DEF c
<1>12. /\ \A s \in Sources : byKey[s] # NoRun <=> \E b \in Guards : Req(b).source = s
       /\ \A b \in Guards : byKey[Req(b).source] = calls[b].req
       /\ \A b, d \in Guards : Req(b).source = Req(d).source => b = d
       /\ byGroup = Cardinality(Guards) /\ byGroup <= Capacity
  BY <1>2 DEF RegistryExact
<1>13. ASSUME NEW s \in Sources
       PROVE  (\E b \in Guards : Req(b).source = s) <=> (\E b \in Guards' : Req(b)'.source = s)
  BY <1>7, <1>10, <1>11
<1>14. \A b \in Guards' : byKey[Req(b)'.source] = calls'[b].req
  BY <1>7, <1>10, <1>11, <1>12
<1>15. \A b, d \in Guards' : Req(b)'.source = Req(d)'.source => b = d
  BY <1>7, <1>10, <1>11, <1>12
<1>16. Capacity' = Capacity
  BY DEF Capacity
<1>17. RegistryExact'
  BY <1>8, <1>9, <1>12, <1>13, <1>14, <1>15, <1>16 DEF RegistryExact
<1>18. TablesSound'
  BY <1>2, <1>9 DEF TablesSound
<1>19. Fits(h, calls[h])'
  BY <1>2, <1>4, <1>5, <1>6 DEF Fits
<1>20. Fits(w, calls[w])'
  <2>1. /\ sources[requests[c].source].status \in {"generating", "generation_failed"}
        /\ sources[requests[c].source].run = c
    BY <1>1, <1>2, <1>6 DEF Fits, c
  <2>2. QED
    BY <1>2, <1>3, <1>4, <1>5, <1>9, <2>1 DEF Fits
<1>21. ASSUME NEW b \in Actors PROVE Fits(b, calls[b])'
  <2>1. CASE b = h
    BY <1>19, <2>1
  <2>2. CASE b = w
    BY <1>20, <2>2
  <2>3. CASE b # h /\ b # w
    BY <1>5, <1>9, <2>3, StillFits DEF Src
  <2>4. QED
    BY <2>1, <2>2, <2>3
<1>22. QED
  BY <1>2, <1>5, <1>9, <1>17, <1>18, <1>21, InvPartsAfter DEF Parts

\* After a restart nobody holds a guard.
LEMMA NobodyGuards ==
    ASSUME calls' = [a \in Actors |-> Idle], byKey' = [k \in Keys |-> NoRun], byGroup' = 0
    PROVE  /\ RegistryExact' /\ byKey' \in [Keys -> Runs] /\ byGroup' \in Nat
           /\ calls' \in [Actors -> Call] /\ \A a \in Actors : Fits(a, calls[a])'
<1>1. /\ calls' \in [Actors -> Call]
      /\ \A a \in Actors : calls'[a] = Idle /\ calls'[a].pc = "idle" /\ ~Guarding(a, calls'[a].pc)
  BY DEF Idle, Call, Guarding
<1>2. Guards' = {}
  BY <1>1, GuardsAfter
<1>3. Cardinality(Guards') = 0 /\ Capacity' \in Nat
  BY <1>2, FS_EmptySet, CapacityAssumption DEF Capacity
<1>4. RegistryExact'
  BY <1>2, <1>3 DEF RegistryExact, Sources
<1>5. \A a \in Actors : Fits(a, calls[a])'
  BY <1>1 DEF Fits
<1>6. QED
  BY <1>1, <1>4, <1>5 DEF Runs

\* The process restarts.
LEMMA RestartKeeps ==
    ASSUME GenerationInv, Restart
    PROVE  GenerationInv'
<1>1. /\ calls' = [a \in Actors |-> Idle] /\ byKey' = [k \in Keys |-> NoRun] /\ byGroup' = 0
      /\ UNCHANGED <<sources, proposals, applied, requests>>
  BY DEF Restart, RegistryLost, Actors, db
<1>2. TablesSound
  BY InvParts DEF Parts
<1>3. TablesSound'
  BY <1>1, <1>2 DEF TablesSound
<1>4. QED
  BY <1>1, <1>3, NobodyGuards, InvPartsAfter DEF Parts

\* The invariant holds at the start.
LEMMA InitSound == Init => GenerationInv
<1> SUFFICES ASSUME Init PROVE GenerationInv
  OBVIOUS
<1>1. /\ calls = [a \in Actors |-> Idle] /\ byKey = [k \in Keys |-> NoRun] /\ byGroup = 0
      /\ sources = [s \in Sources |-> NoSource] /\ proposals = [c \in Requests |-> NoProposal]
      /\ applied = {} /\ requests = [c \in Requests |-> Unsent]
  BY DEF Init, EmptyRegistry, Actors
<1>2. /\ calls \in [Actors -> Call]
      /\ \A a \in Actors : calls[a] = Idle /\ calls[a].pc = "idle" /\ ~Guarding(a, calls[a].pc)
  BY <1>1 DEF Idle, Call, Guarding
<1>3. Guards = {}
  BY <1>2 DEF Guards, HasGuard, Guarding, Actors
<1>4. Cardinality(Guards) = 0 /\ Capacity \in Nat
  BY <1>3, FS_EmptySet, CapacityAssumption DEF Capacity
<1>5. RegistryExact
  BY <1>1, <1>3, <1>4 DEF RegistryExact, Sources
<1>6. \A a \in Actors : Fits(a, calls[a])
  BY <1>2 DEF Fits
<1>7. NoSource \in SourceRow /\ NoSource.run = NoRun /\ NoSource.proposal = NoRun
      /\ NoSource.status = "absent" /\ Unsent.kind = "unsent"
  BY DEF NoSource, SourceRow, Runs, Unsent
<1>8. TablesSound
  BY <1>1, <1>7 DEF TablesSound, NoProposal
<1>9. QED
  BY <1>1, <1>2, <1>5, <1>6, <1>8, InvParts DEF Parts, Runs

\* Every step keeps the invariant.
LEMMA NextKeeps == GenerationInv /\ [Next]_vars => GenerationInv'
<1> SUFFICES ASSUME GenerationInv, [Next]_vars PROVE GenerationInv'
  OBVIOUS
<1>1. CASE Restart
  BY <1>1, RestartKeeps
<1>2. ASSUME NEW s \in Sources, Ingest(s) PROVE GenerationInv'
  BY <1>2, IngestKeeps
<1>3. ASSUME NEW p \in Requests, Decide(p) PROVE GenerationInv'
  BY <1>3, DecideKeeps
<1>4. ASSUME NEW h \in Handlers, NEW c \in Requests,
             AskKickoff(h, c) \/ AskRedraft(h, c) \/ SendAgain(h, c)
      PROVE  GenerationInv'
  <2>1. SendAgain(h, c) => UNCHANGED <<db, requests>>
    BY DEF SendAgain
  <2>2. QED
    BY <1>4, <2>1, AskKeeps, AskingKeeps
<1>5. ASSUME NEW h \in Handlers, RedraftRead(h) \/ Reread(h) PROVE GenerationInv'
  <2>1. UNCHANGED <<db, requests>>
    BY <1>5 DEF RedraftRead, Reread
  <2>2. QED
    BY <1>5, <2>1, AskingKeeps
<1>6. ASSUME NEW h \in Handlers, RedraftProposal(h) PROVE GenerationInv'
  <2>1. CASE applied' # applied
    BY <1>6, <2>1, RedraftKeeps
  <2>2. CASE applied' = applied
    <3>1. UNCHANGED <<db, requests>>
      BY <1>6, <2>2 DEF RedraftProposal
    <3>2. QED
      BY <1>6, <3>1, AskingKeeps
  <2>3. QED
    BY <2>1, <2>2
<1>7. ASSUME NEW h \in Handlers, ResetGeneration(h) PROVE GenerationInv'
  <2>1. CASE applied' # applied
    BY <1>7, <2>1, ResetKeeps
  <2>2. CASE applied' = applied
    <3>1. UNCHANGED <<db, requests>>
      BY <1>7, <2>2 DEF ResetGeneration
    <3>2. QED
      BY <1>7, <3>1, AskingKeeps
  <2>3. QED
    BY <2>1, <2>2
<1>8. ASSUME NEW h \in Handlers, KickoffRead(h) PROVE GenerationInv'
  BY <1>8, KickoffKeeps
<1>9. ASSUME NEW h \in Handlers, Begin(h) PROVE GenerationInv'
  <2>1. UNCHANGED <<db, requests>>
    BY <1>9 DEF Begin
  <2>2. UNCHANGED registry \/ GuardStarted(Req(h).source, calls[h].req)
    BY <1>9 DEF Begin
  <2>3. QED
    BY <1>9, <2>1, <2>2, AskingKeeps, BeginKeeps
<1>10. ASSUME NEW h \in Handlers, RecordRead(h) \/ RecordFails(h) \/ SpawnFails(h)
       PROVE  GenerationInv'
  <2>1. UNCHANGED <<db, requests>>
    BY <1>10 DEF RecordRead, RecordFails, SpawnFails
  <2>2. QED
    BY <1>10, <2>1, RecorderKeeps
<1>11. ASSUME NEW h \in Handlers, RecordStart(h) PROVE GenerationInv'
  <2>1. CASE Startable(h)
    BY <1>11, <2>1, StartKeeps
  <2>2. CASE ~Startable(h)
    <3>1. UNCHANGED <<db, requests>>
      BY <1>11, <2>2 DEF RecordStart, db
    <3>2. QED
      BY <1>11, <3>1, RecorderKeeps
  <2>3. QED
    BY <2>1, <2>2
<1>12. ASSUME NEW h \in Handlers, NEW w \in Workers, Spawn(h, w) PROVE GenerationInv'
  BY <1>12, SpawnKeeps
<1>13. ASSUME NEW w \in Workers, WorkRead(w) \/ WorkAborts(w) \/ WorkGivesUp(w) \/ WorkPanics(w)
       PROVE  GenerationInv'
  <2>1. UNCHANGED <<db, requests>>
    BY <1>13 DEF WorkRead, WorkAborts, WorkGivesUp, WorkPanics
  <2>2. QED
    BY <1>13, <2>1, WorkerKeeps
<1>14. ASSUME NEW w \in Workers, WorkStages(w) PROVE GenerationInv'
  BY <1>14, StageKeeps
<1>15. ASSUME NEW a \in Handlers \cup Workers, FinishRead(a) \/ FinishWrite(a)
       PROVE  GenerationInv'
  <2>1. CASE FinishWrite(a) /\ Finishable(a)
    BY <1>15, <2>1, FinishKeeps DEF Actors
  <2>2. CASE FinishRead(a) \/ (FinishWrite(a) /\ ~Finishable(a))
    <3>1. UNCHANGED <<db, requests>>
      BY <2>2 DEF FinishRead, FinishWrite, db
    <3>2. QED
      BY <1>15, <2>2, <3>1, WorkerKeeps, HandlerFinishKeeps
  <2>3. QED
    BY <1>15, <2>1, <2>2
<1>16. CASE UNCHANGED vars
  <2>1. UNCHANGED <<byKey, byGroup, sources, proposals, applied, requests, calls>>
    BY <1>16 DEF vars
  <2>2. QED
    BY <2>1 DEF GenerationInv, TypeOK, RegistryExact, RedraftAtomic, CallsSound, ReceiptsSound,
       GuardsAreCurrent, Guards, HasGuard, Req, Src, Capacity
<1>17. QED
  BY <1>1, <1>2, <1>3, <1>4, <1>5, <1>6, <1>7, <1>8, <1>9, <1>10, <1>11, <1>12, <1>13, <1>14,
     <1>15, <1>16 DEF Next

\* The kickoff registry, the source rows, the proposals and the receipts agree,
\* whatever fails, panics, is replayed or restarted (async_kickoff.rs,
\* social_publishing/service.rs and store.rs).
THEOREM GenerationSafe == Spec => []GenerationInv
<1>1. Init => GenerationInv
  BY InitSound
<1>2. GenerationInv /\ [Next]_vars => GenerationInv'
  BY NextKeeps
<1>3. QED
  BY <1>1, <1>2, PTL DEF Spec

\* execute_source_generation never works for a run its source has left: no
\* redraft, reset or second start replaces the run under a live worker.
THEOREM LiveRunsAreCurrent == Spec => []LiveRunIsCurrent
<1>1. GenerationInv => LiveRunIsCurrent
  <2> SUFFICES ASSUME GenerationInv, NEW w \in Workers,
                      calls[w].pc \in {"drafting", "finish", "finishing"}
               PROVE  Src(w).status \in {"generating", "generation_failed"}
                      /\ Src(w).run = calls[w].req
    BY DEF LiveRunIsCurrent
  <2>1. QED
    BY WorkerAt
<1>2. QED
  BY <1>1, GenerationSafe, PTL

\* Which step changes the proposal a source points at, and what it knew of it.
LEMMA PointerChanges ==
    ASSUME GenerationInv, Next, NEW s \in Sources, sources[s].proposal # NoRun,
           sources'[s].proposal # sources[s].proposal
    PROVE  proposals[sources[s].proposal].status \in {"staged", "rejected"}
<1>1. TypeOK /\ TablesSound /\ sources \in [Sources -> SourceRow] /\ sources' # sources
  BY InvParts DEF Parts, TablesSound, GenerationInv
<1>2. ASSUME NEW t \in Sources, Ingest(t) PROVE FALSE
  <2> DEFINE new == [sources[t] EXCEPT !.status = "ready", !.revision = 1]
             seen == [sources[t] EXCEPT !.revision = sources[t].revision + 1]
  <2>1. sources' = [sources EXCEPT ![t] = IF sources[t] = NoSource THEN new ELSE seen]
    BY <1>2 DEF Ingest
  <2>2. sources[t] \in SourceRow
    BY <1>1
  <2>3. new.proposal = sources[t].proposal /\ seen.proposal = sources[t].proposal
    BY <2>2 DEF SourceRow
  <2> HIDE DEF new, seen
  <2>4. QED
    BY <1>1, <2>1, <2>3
<1>3. ASSUME NEW h \in Handlers, RedraftProposal(h)
      PROVE  proposals[sources[s].proposal].status = "staged"
  <2>1. /\ calls[h].pc = "redrafting" /\ Redraftable(h)
        /\ sources' = [sources EXCEPT ![Req(h).source] = ResetRow(@)]
    BY <1>1, <1>3 DEF RedraftProposal, db
  <2>2. s = Req(h).source
    BY <1>1, <2>1
  <2>3. Resettable(Src(h), Req(h).of) /\ proposals[Req(h).of].status = "staged"
    BY <2>1 DEF Redraftable
  <2>4. QED
    BY <2>2, <2>3 DEF Resettable, Src
<1>4. ASSUME NEW h \in Handlers, ResetGeneration(h)
      PROVE  proposals[sources[s].proposal].status = "rejected"
  <2>1. /\ calls[h].pc = "redrafting" /\ calls[h].act = "reset"
        /\ Resettable(Src(h), Req(h).of)
        /\ sources' = [sources EXCEPT ![Req(h).source] = ResetRow(@)]
    BY <1>1, <1>4 DEF ResetGeneration, db
  <2>2. s = Req(h).source
    BY <1>1, <2>1
  <2>3. proposals[Req(h).of].status = "rejected"
    BY <2>1 DEF GenerationInv, ReceiptsSound
  <2>4. QED
    BY <2>1, <2>2, <2>3 DEF Resettable, Src
<1>5. ASSUME NEW h \in Handlers, KickoffRead(h) PROVE FALSE
  <2> DEFINE new == [NoSource EXCEPT !.status = "ready", !.revision = 1]
  <2>1. /\ calls[h].pc = "kickoff"
        /\ sources' = [sources EXCEPT ![Req(h).source] =
                         IF Src(h) = NoSource THEN new ELSE Src(h)]
    BY <1>5 DEF KickoffRead
  <2>2. Req(h).source \in Sources /\ Src(h) = sources[Req(h).source]
    BY <2>1, AtWork DEF Actors
  <2>3. new.proposal = NoRun /\ NoSource.proposal = NoRun
    BY DEF NoSource
  <2> HIDE DEF new
  <2>4. QED
    BY <1>1, <2>1, <2>2, <2>3
<1>6. ASSUME NEW h \in Handlers, RecordStart(h) PROVE FALSE
  <2> DEFINE t == Req(h).source
             row == [sources[t] EXCEPT !.status = "generating", !.run = calls[h].req,
                                       !.revision = Src(h).revision + 1]
  <2>1. calls[h].pc = "starting" /\ sources' = [sources EXCEPT ![t] = row]
    BY <1>1, <1>6 DEF RecordStart
  <2>2. t \in Sources /\ sources[t] \in SourceRow
    BY <2>1, AtWork DEF Actors
  <2>3. row.proposal = sources[t].proposal
    BY <2>2 DEF SourceRow
  <2> HIDE DEF row
  <2>4. QED
    BY <1>1, <2>1, <2>2, <2>3
<1>7. ASSUME NEW a \in Handlers \cup Workers, FinishWrite(a) PROVE FALSE
  <2> DEFINE t == Req(a).source
  <2>1. /\ calls[a].pc = "finishing" /\ Finishable(a)
        /\ \A u \in Sources : u # t => sources'[u] = sources[u]
    BY <1>1, <1>7 DEF FinishWrite
  <2>2. s = t /\ Src(a) = sources[t]
    BY <2>1 DEF Src
  <2>3. sources[s].run = calls[a].req /\ <<"finish", calls[a].req>> \notin applied
    BY <2>1, <2>2 DEF Finishable
  <2>4. sources[s].proposal = sources[s].run /\ <<"finish", sources[s].proposal>> \in applied
    BY <1>1, RowFields DEF TablesSound
  <2>5. QED
    BY <2>3, <2>4
<1>8. ASSUME NEW h \in Handlers,
             \/ \E c \in Requests : AskKickoff(h, c) \/ AskRedraft(h, c) \/ SendAgain(h, c)
             \/ RedraftRead(h) \/ Reread(h) \/ Begin(h) \/ RecordRead(h) \/ RecordFails(h)
             \/ SpawnFails(h) \/ \E w \in Workers : Spawn(h, w)
      PROVE  FALSE
  BY <1>1, <1>8 DEF AskKickoff, AskRedraft, SendAgain, RedraftRead, Reread, Begin, RecordRead,
     RecordFails, SpawnFails, Spawn, db
<1>9. ASSUME NEW w \in Workers,
             WorkRead(w) \/ WorkAborts(w) \/ WorkStages(w) \/ WorkGivesUp(w) \/ WorkPanics(w)
      PROVE  FALSE
  BY <1>1, <1>9 DEF WorkRead, WorkAborts, WorkStages, WorkGivesUp, WorkPanics, db
<1>10. ASSUME NEW a \in Handlers \cup Workers, FinishRead(a) PROVE FALSE
  BY <1>1, <1>10 DEF FinishRead, db
<1>11. ~Restart /\ \A p \in Requests : ~Decide(p)
  BY <1>1 DEF Restart, Decide, db
<1>12. QED
  BY <1>2, <1>3, <1>4, <1>5, <1>6, <1>7, <1>8, <1>9, <1>10, <1>11 DEF Next

\* Once the operator has approved the proposal a source points at, no redraft,
\* reset or kickoff already under way takes the source back.
THEOREM ApprovedStays == Spec => ApprovedIsNotRedrafted
<1>1. ASSUME GenerationInv, [Next]_vars, NEW s \in Sources, sources[s].proposal # NoRun,
             proposals[sources[s].proposal].status = "approved"
      PROVE  sources'[s].proposal = sources[s].proposal
  <2>1. CASE Next
    BY <1>1, <2>1, PointerChanges
  <2>2. CASE UNCHANGED vars
    BY <2>2 DEF vars
  <2>3. QED
    BY <1>1, <2>1, <2>2
<1>2. GenerationInv /\ [Next]_vars =>
         [\A s \in Sources :
             sources[s].proposal # NoRun /\ proposals[sources[s].proposal].status = "approved"
             => sources'[s].proposal = sources[s].proposal]_vars
  BY <1>1
<1>3. QED
  BY <1>2, GenerationSafe, PTL DEF Spec, ApprovedIsNotRedrafted
=============================================================================
