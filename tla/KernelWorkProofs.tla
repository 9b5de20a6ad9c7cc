--------------------------- MODULE KernelWorkProofs ---------------------------
(***************************************************************************)
(* Proofs about KernelWork: the lease protocol of the store and the        *)
(* runner's registry (LeaseInv), the protection of leases that have not    *)
(* run out (LiveLeaseHonoured) and the refinement of LeasedWork            *)
(* (QueueRefined), for all sets of work, workers and threads and all       *)
(* bounds.                                                                 *)
(***************************************************************************)
EXTENDS KernelWork, FiniteSetTheorems, TLAPS

\* Positions in a finite set of numbers: they lie between 1 and the size of the
\* set, and different elements have different positions.
LEMMA Positions ==
    ASSUME NEW B \in SUBSET Nat, IsFiniteSet(B)
    PROVE  /\ Cardinality(B) \in Nat
           /\ \A w \in B : Cardinality({v \in B : v <= w}) \in 1..Cardinality(B)
           /\ \A u, w \in B : Cardinality({v \in B : v <= u}) = Cardinality({v \in B : v <= w})
                                 => u = w
<1> DEFINE Upto(w) == {v \in B : v <= w}
<1>1. Cardinality(B) \in Nat
  BY FS_CardinalityType
<1>2. ASSUME NEW w \in B
      PROVE  /\ IsFiniteSet(Upto(w)) /\ w \in Upto(w)
             /\ Cardinality(Upto(w)) \in 1..Cardinality(B)
  <2>1. Upto(w) \subseteq B /\ w \in Upto(w)
    OBVIOUS
  <2>2. IsFiniteSet(Upto(w)) /\ Cardinality(Upto(w)) <= Cardinality(B)
    BY <2>1, FS_Subset
  <2>3. Cardinality(Upto(w)) \in Nat /\ Cardinality(Upto(w)) # 0
    BY <2>1, <2>2, FS_CardinalityType, FS_EmptySet
  <2>4. QED
    BY <1>1, <2>1, <2>2, <2>3
<1>3. ASSUME NEW u \in B, NEW w \in B, u < w
      PROVE  Cardinality(Upto(u)) # Cardinality(Upto(w))
  <2> u \in Nat /\ w \in Nat
    OBVIOUS
  <2>1. Upto(u) \subseteq Upto(w) /\ w \notin Upto(u)
    <3>1. \A v \in B : v \in Nat /\ (v <= u => v <= w)
      BY <1>3
    <3>2. ~(w <= u)
      BY <1>3
    <3>3. QED
      BY <3>1, <3>2
  <2>2. Upto(u) # Upto(w)
    BY <1>2, <2>1
  <2>3. QED
    BY <1>2, <2>1, <2>2, FS_Subset
<1>4. ASSUME NEW u \in B, NEW w \in B, Cardinality(Upto(u)) = Cardinality(Upto(w))
      PROVE  u = w
  <2>1. u < w \/ w < u \/ u = w
    OBVIOUS
  <2>2. QED
    BY <1>3, <1>4, <2>1
<1>5. QED
  BY <1>1, <1>2, <1>4

\* What the fields of a record of the store are.
LEMMA WorkFields ==
    ASSUME TypeOK, NEW w \in Works
    PROVE  /\ work[w] \in Work
           /\ work[w].status \in {"absent", "Pending", "InFlight"} \cup Terminal
           /\ work[w].attempt \in Nat /\ work[w].revision \in Nat
           /\ work[w].available \in Nat
           /\ work[w].lease \in Lease
           /\ work[w].lease.id \in Nat /\ work[w].lease.expires \in Nat
           /\ Leased(w) <=> work[w].lease.id # 0
           /\ Leased(w) <=> work[w].status = "InFlight"
<1>1. work[w] \in Work
  BY DEF TypeOK
<1>2. work[w].lease \in Lease
  BY <1>1 DEF Work
<1>3. /\ work[w].lease.id \in Nat /\ work[w].lease.expires \in Nat
      /\ Leased(w) <=> work[w].lease.id # 0
  BY <1>2 DEF Lease, NoLease, Leased
<1>4. QED
  BY <1>1, <1>2, <1>3 DEF TypeOK, Work

\* What a thread's call is.
LEMMA CallFields ==
    ASSUME TypeOK, NEW t \in Threads
    PROVE  /\ calls[t] \in Call
           /\ calls[t].pc \in {"idle", "claimed", "looked", "stored"}
           /\ calls[t].pc = "claimed" => calls[t].claims \in SUBSET RunnerClaim
           /\ calls[t].pc \in {"looked", "stored"} =>
                 /\ calls[t].claim \in RunnerClaim
                 /\ calls[t].claim.work \in Works
                 /\ calls[t].op \in {"renew", "complete", "retry", "dead_letter"}
                 /\ calls[t] \in [pc : {"looked", "stored"}, claim : RunnerClaim,
                                  op : {"renew", "complete", "retry", "dead_letter"}]
BY DEF TypeOK, Call, RunnerClaim

\* The copies of claims there are.
LEMMA CopiesAre ==
    \A c : c \in Copies <=> c \in registry \/ \E t \in Threads : c \in InHand(t)
BY DEF Copies

\* The same after a step.
LEMMA CopiesAreAfter ==
    \A c : c \in Copies' <=> c \in registry' \/ \E t \in Threads : c \in InHand(t)'
BY DEF Copies

\* What a thread has in hand, by the place it has reached.
LEMMA Hands ==
    ASSUME TypeOK, NEW t \in Threads
    PROVE  /\ calls[t].pc = "idle" => InHand(t) = {}
           /\ calls[t].pc = "claimed" => InHand(t) = calls[t].claims
           /\ calls[t].pc \in {"looked", "stored"} => InHand(t) = {calls[t].claim}
BY DEF InHand

\* The same after a step; a thread that did not move has what it had.
LEMMA HandsAfter ==
    ASSUME NEW t \in Threads
    PROVE  /\ calls'[t].pc = "idle" => InHand(t)' = {}
           /\ calls'[t].pc = "claimed" => InHand(t)' = calls'[t].claims
           /\ calls'[t].pc \in {"looked", "stored"} => InHand(t)' = {calls'[t].claim}
           /\ calls'[t] = calls[t] => InHand(t)' = InHand(t)
BY DEF InHand

\* Every copy is a claim with a lease.
LEMMA CopyTypes ==
    ASSUME TypeOK, NEW c \in Copies
    PROVE  /\ c \in RunnerClaim /\ c.work \in Works /\ c.lease \in Nat \ {0}
           /\ c.revision \in Nat
<1>1. c \in RunnerClaim
  <2>1. CASE c \in registry
    BY <2>1 DEF TypeOK
  <2>2. ASSUME NEW t \in Threads, c \in InHand(t) PROVE c \in RunnerClaim
    BY <2>2, Hands, CallFields
  <2>3. QED
    BY <2>1, <2>2, CopiesAre
<1>2. QED
  BY <1>1 DEF RunnerClaim

\* A step in which no copy appears, no lease is granted and every piece of
\* work keeps its lease id, owner and revision or loses its lease.
LEMMA NoGrant ==
    ASSUME LeaseInv, TypeOK', Copies' \subseteq Copies, UNCHANGED <<leases, granted>>,
           \A w \in Works : \/ /\ work'[w].lease.id = work[w].lease.id
                               /\ work'[w].lease.by = work[w].lease.by
                               /\ work'[w].revision = work[w].revision
                            \/ work'[w].lease = NoLease,
           \A n \in honoured' \ honoured :
                n <= leases /\ \A w \in Works : work'[w].lease.id # n
    PROVE  LeaseInv'
<1>1. TypeOK
  BY DEF LeaseInv
<1>2. \A w \in Works : \/ /\ work'[w].lease.id = work[w].lease.id
                          /\ work'[w].lease.by = work[w].lease.by
                          /\ work'[w].revision = work[w].revision
                       \/ work'[w].lease.id = 0
  BY DEF NoLease
<1>3. \A w \in Works : Leased(w)' => work'[w].lease.id # 0
  <2>1. \A w \in Works : work'[w].lease \in Lease
    BY DEF TypeOK, Work
  <2>2. QED
    BY <2>1 DEF Leased, Lease, NoLease
<1>4. LeaseNamesClaim'
  BY DEF LeaseInv, LeaseNamesClaim
<1>5. LiveHolderAccepted'
  BY <1>1, <1>2, CopyTypes DEF LeaseInv, LiveHolderAccepted, Holds
<1>6. LateOutcomesIgnored'
  <2>1. ASSUME NEW w \in Works, Leased(w)'
        PROVE  /\ Leased(w) /\ work'[w].lease.id = work[w].lease.id
    BY <1>1, <1>2, <1>3, <2>1, WorkFields
  <2>2. ASSUME NEW w \in Works, Leased(w)'
        PROVE  work'[w].lease.id \notin honoured' /\ work'[w].lease.id = granted'[w]
    BY <2>1, <2>2 DEF LeaseInv, LateOutcomesIgnored
  <2>3. ASSUME NEW c \in Copies', c.lease < granted'[c.work] PROVE ~Holds(c)'
    BY <1>1, <1>2, <2>3, CopyTypes DEF LeaseInv, LateOutcomesIgnored, Holds
  <2>4. QED
    BY <2>2, <2>3 DEF LateOutcomesIgnored
<1>7. LeasesAreNumbered'
  BY DEF LeaseInv, LeasesAreNumbered
<1>8. QED
  BY <1>4, <1>5, <1>6, <1>7 DEF LeaseInv

\* The work a batch is taken from, and its size.
LEMMA BatchOf ==
    ASSUME NEW queue \in Queues, NEW n, NEW candidates \in SUBSET queue,
           NEW batch \in FirstOf(candidates, n)
    PROVE  /\ batch \subseteq candidates /\ batch \subseteq Works
           /\ batch \in SUBSET Nat /\ IsFiniteSet(batch)
<1>1. batch \subseteq candidates
  BY DEF FirstOf
<1>2. queue \subseteq Works /\ Works \subseteq Nat /\ IsFiniteSet(Works)
  BY WorksAssumption DEF Queues, Works
<1>3. IsFiniteSet(batch)
  BY <1>1, <1>2, FS_Subset
<1>4. QED
  BY <1>1, <1>2, <1>3

\* A time a caller passes has come.
LEMMA TimesPast ==
    ASSUME TypeOK, NEW at \in Times
    PROVE  at \in Nat /\ at <= clock
BY DEF TypeOK, Times

\* A released record.
LEMMA ReleasedType ==
    ASSUME TypeOK, NEW w \in Works, NEW status \in {"Pending"} \cup Terminal,
           NEW available \in Nat, NEW retried \in BOOLEAN
    PROVE  /\ Released(w, status, available, retried) \in Work
           /\ Released(w, status, available, retried).lease = NoLease
           /\ Released(w, status, available, retried).status = status
<1>1. AttemptAfter(w, retried) \in Nat
  BY WorkFields DEF AttemptAfter
<1>2. work[w].revision + 1 \in Nat
  BY WorkFields
<1>3. QED
  BY <1>1, <1>2 DEF Released, Work, Lease

\* What a claim does: the batch is in flight under new leases, one revision on,
\* and the thread has the claims in hand.
LEMMA ClaimEffect ==
    ASSUME TypeOK, NEW t \in Threads, NEW x \in Workers, Claim(t, x)
    PROVE  \E batch \in SUBSET Works :
              /\ batch # {} /\ Cardinality(batch) \in Nat
              /\ leases' = leases + Cardinality(batch)
              /\ \A w \in batch :
                    /\ IsDue(w, clock)
                    /\ Leased(w) => work[w].lease.expires < clock
                    /\ work'[w] \in Work /\ work'[w].status = "InFlight"
                    /\ work'[w].lease # NoLease /\ work'[w].lease.by = x
                    /\ work'[w].lease.id \in Nat
                    /\ leases < work'[w].lease.id /\ work'[w].lease.id <= leases'
                    /\ granted'[w] = work'[w].lease.id
              /\ \A v, w \in batch : work'[v].lease.id = work'[w].lease.id => v = w
              /\ \A w \in Works \ batch : work'[w] = work[w] /\ granted'[w] = granted[w]
              /\ work' = [w \in Works |-> work'[w]] /\ granted' = [w \in Works |-> granted'[w]]
              /\ calls' = [calls EXCEPT ![t] = [pc |-> "claimed",
                                claims |-> {ClaimOf(w, work'[w]) : w \in batch}]]
              /\ UNCHANGED <<clock, registry, honoured>>
<1>1. PICK queue \in Queues, at \in Times :
       \E batch \in FirstOf({w \in queue : IsDue(w, at)}, BatchSize) :
          LET new == [w \in batch |-> Claimed(work[w], NewLease(batch, w, x, at))]
          IN  /\ batch # {}
              /\ work' = [w \in Works |-> IF w \in batch THEN new[w] ELSE work[w]]
              /\ leases' = leases + Cardinality(batch)
              /\ granted' = [w \in Works |-> IF w \in batch THEN new[w].lease.id ELSE granted[w]]
              /\ calls' = [calls EXCEPT ![t] = [pc |-> "claimed",
                                                claims |-> {ClaimOf(w, new[w]) : w \in batch}]]
  BY Zenon DEF Claim
<1>2. PICK batch \in FirstOf({w \in queue : IsDue(w, at)}, BatchSize) :
          LET new == [w \in batch |-> Claimed(work[w], NewLease(batch, w, x, at))]
          IN  /\ batch # {}
              /\ work' = [w \in Works |-> IF w \in batch THEN new[w] ELSE work[w]]
              /\ leases' = leases + Cardinality(batch)
              /\ granted' = [w \in Works |-> IF w \in batch THEN new[w].lease.id ELSE granted[w]]
              /\ calls' = [calls EXCEPT ![t] = [pc |-> "claimed",
                                                claims |-> {ClaimOf(w, new[w]) : w \in batch}]]
  BY <1>1, Zenon
<1> DEFINE new == [w \in batch |-> Claimed(work[w], NewLease(batch, w, x, at))]
<1>3. /\ batch \subseteq {w \in queue : IsDue(w, at)} /\ batch \subseteq Works
      /\ batch \in SUBSET Nat /\ IsFiniteSet(batch)
  BY BatchOf
<1>4. at \in Nat /\ at <= clock /\ clock \in Nat /\ leases \in Nat
  BY TimesPast DEF TypeOK
<1> DEFINE place(w) == Cardinality({v \in batch : v <= w})
<1>5. /\ Cardinality(batch) \in Nat
      /\ \A w \in batch : place(w) \in 1..Cardinality(batch)
      /\ \A u, w \in batch : place(u) = place(w) => u = w
  BY <1>3, Positions
<1>6. ASSUME NEW w \in batch
      PROVE  /\ work'[w] = [work[w] EXCEPT !.status = "InFlight", !.revision = @ + 1,
                                           !.lease = NewLease(batch, w, x, at)]
             /\ granted'[w] = work'[w].lease.id
             /\ work'[w] = Claimed(work[w], NewLease(batch, w, x, at))
  BY <1>2, <1>3 DEF Claimed
<1>7. ASSUME NEW w \in batch
      PROVE  /\ NewLease(batch, w, x, at).id = leases + place(w)
             /\ NewLease(batch, w, x, at).by = x
             /\ NewLease(batch, w, x, at) \in Lease
             /\ NewLease(batch, w, x, at) # NoLease
  <2>1. leases + place(w) \in Nat \ {0} /\ at + Ttl \in Nat
    BY <1>4, <1>5, NumbersAssumption
  <2> DEFINE n == leases + place(w)
             e == at + Ttl
  <2>2. NewLease(batch, w, x, at) = [id |-> n, by |-> x, expires |-> e]
    BY DEF NewLease
  <2>3. n \in Nat \ {0} /\ e \in Nat
    BY <2>1
  <2> HIDE DEF n, e
  <2>4. /\ NewLease(batch, w, x, at).id = n /\ NewLease(batch, w, x, at).by = x
        /\ NewLease(batch, w, x, at) \in Lease
        /\ NewLease(batch, w, x, at) # NoLease
    BY <2>2, <2>3 DEF Lease, NoLease
  <2>5. QED
    BY <2>4 DEF n
<1> HIDE DEF place
<1>8. ASSUME NEW w \in batch
      PROVE  /\ work'[w] \in Work /\ work'[w].status = "InFlight"
             /\ work'[w].lease = NewLease(batch, w, x, at)
  <2>1. work[w] \in Work /\ work[w].revision + 1 \in Nat
    BY <1>3, WorkFields
  <2>2. QED
    BY <1>6, <1>7, <2>1 DEF Work
<1>9. ASSUME NEW w \in batch
      PROVE  IsDue(w, clock) /\ (Leased(w) => work[w].lease.expires < clock)
  <2>1. IsDue(w, at) /\ work[w].available \in Nat /\ work[w].lease.expires \in Nat
    BY <1>3, WorkFields
  <2>2. QED
    BY <1>4, <2>1 DEF IsDue, Expired
<1>10. \A w \in batch : /\ work'[w].lease.id \in Nat
                         /\ leases < work'[w].lease.id /\ work'[w].lease.id <= leases'
  <2>1. leases' = leases + Cardinality(batch)
    BY <1>2, Zenon
  <2>2. ASSUME NEW w \in batch
        PROVE  /\ work'[w].lease.id \in Nat
               /\ leases < work'[w].lease.id /\ work'[w].lease.id <= leases'
    <3>1. work'[w].lease.id = leases + place(w)
      <4>1. work'[w].lease = NewLease(batch, w, x, at)
        BY <1>8, Zenon
      <4>2. NewLease(batch, w, x, at).id = leases + place(w)
        BY <1>7, Zenon
      <4>3. QED
        BY <4>1, <4>2, Zenon
    <3>2. place(w) \in 1..Cardinality(batch) /\ Cardinality(batch) \in Nat
      BY <1>5, Zenon
    <3>3. QED
      BY <1>4, <2>1, <3>1, <3>2
  <2>3. QED
    BY <2>2, Zenon
<1>11. \A v, w \in batch : work'[v].lease.id = work'[w].lease.id => v = w
  <2>1. ASSUME NEW v \in batch, NEW w \in batch, work'[v].lease.id = work'[w].lease.id
        PROVE  v = w
    <3>1. leases + place(v) = leases + place(w) /\ place(v) \in Nat /\ place(w) \in Nat
      BY <1>5, <1>7, <1>8, <2>1
    <3>2. place(v) = place(w)
      BY <1>4, <3>1
    <3>3. QED
      BY <1>5, <3>2
  <2>2. QED
    BY <2>1
<1>12. {ClaimOf(w, new[w]) : w \in batch} = {ClaimOf(w, work'[w]) : w \in batch}
  <2>1. \A w \in batch : new[w] = work'[w]
    BY <1>6
  <2> HIDE DEF new
  <2>2. QED
    BY <2>1
<1>13. /\ \A w \in Works \ batch : work'[w] = work[w] /\ granted'[w] = granted[w]
       /\ work' = [w \in Works |-> work'[w]] /\ granted' = [w \in Works |-> granted'[w]]
       /\ UNCHANGED <<clock, registry, honoured>>
  BY <1>2 DEF Claim
<1>14. /\ \A w \in batch : work'[w].lease # NoLease /\ work'[w].lease.by = x
       /\ calls' = [calls EXCEPT ![t] = [pc |-> "claimed",
                                claims |-> {ClaimOf(w, work'[w]) : w \in batch}]]
  BY <1>2, <1>7, <1>8, <1>12
<1>15. QED
  BY <1>2, <1>3, <1>5, <1>6, <1>8, <1>9, <1>10, <1>11, <1>13, <1>14

\* A claim keeps the lease protocol: its lease ids are new.
LEMMA ClaimKeeps ==
    ASSUME LeaseInv, NEW t \in Threads, NEW x \in Workers, Claim(t, x)
    PROVE  LeaseInv'
<1>1. TypeOK /\ leases \in Nat
  BY DEF LeaseInv, TypeOK
<1>2. PICK batch \in SUBSET Works :
              /\ Cardinality(batch) \in Nat
              /\ leases' = leases + Cardinality(batch)
              /\ \A w \in batch :
                    /\ work'[w] \in Work /\ work'[w].status = "InFlight"
                    /\ work'[w].lease # NoLease /\ work'[w].lease.by = x
                    /\ work'[w].lease.id \in Nat
                    /\ leases < work'[w].lease.id /\ work'[w].lease.id <= leases'
                    /\ granted'[w] = work'[w].lease.id
              /\ \A v, w \in batch : work'[v].lease.id = work'[w].lease.id => v = w
              /\ \A w \in Works \ batch : work'[w] = work[w] /\ granted'[w] = granted[w]
              /\ work' = [w \in Works |-> work'[w]] /\ granted' = [w \in Works |-> granted'[w]]
              /\ calls' = [calls EXCEPT ![t] = [pc |-> "claimed",
                                claims |-> {ClaimOf(w, work'[w]) : w \in batch}]]
              /\ UNCHANGED <<clock, registry, honoured>>
  BY <1>1, ClaimEffect
<1>3. leases' \in Nat /\ leases <= leases'
  BY <1>1, <1>2
<1>4. ASSUME NEW w \in batch
      PROVE  /\ ClaimOf(w, work'[w]) \in RunnerClaim
             /\ ClaimOf(w, work'[w]).work = w
             /\ ClaimOf(w, work'[w]).lease = work'[w].lease.id
             /\ ClaimOf(w, work'[w]).by = work'[w].lease.by
             /\ ClaimOf(w, work'[w]).revision = work'[w].revision
  <2>1. work'[w].lease.id \in Nat \ {0} /\ work'[w].lease.by \in Workers
    BY <1>1, <1>2
  <2>2. work'[w].revision \in Nat
    BY <1>2 DEF Work
  <2>3. QED
    BY <2>1, <2>2 DEF ClaimOf, RunnerClaim
<1>5. \A c \in Copies' : c \in Copies \/ \E w \in batch : c = ClaimOf(w, work'[w])
  <2>1. InHand(t)' = {ClaimOf(w, work'[w]) : w \in batch}
    <3>1. calls'[t] = [pc |-> "claimed", claims |-> {ClaimOf(w, work'[w]) : w \in batch}]
      BY <1>1, <1>2 DEF TypeOK
    <3>2. QED
      BY <3>1, HandsAfter
  <2>2. \A u \in Threads : u # t => InHand(u)' = InHand(u)
    BY <1>1, <1>2, HandsAfter DEF TypeOK
  <2>3. QED
    BY <1>2, <2>1, <2>2, CopiesAre, CopiesAreAfter
<1>6. \A c \in Copies : /\ c.work \in Works /\ c.lease \in Nat \ {0}
                        /\ c.lease <= leases
  BY <1>1, CopyTypes DEF LeaseInv, LeasesAreNumbered
<1>7. TypeOK'
  <2>1. work' \in [Works -> Work]
    BY <1>1, <1>2 DEF TypeOK
  <2>2. granted' \in [Works -> Nat]
    BY <1>1, <1>2 DEF TypeOK
  <2>3. calls' \in [Threads -> Call]
    <3>1. {ClaimOf(w, work'[w]) : w \in batch} \in SUBSET RunnerClaim
      BY <1>4
    <3>2. [pc |-> "claimed", claims |-> {ClaimOf(w, work'[w]) : w \in batch}] \in Call
      BY <3>1 DEF Call
    <3>3. QED
      BY <1>1, <1>2, <3>2 DEF TypeOK
  <2>4. \A w \in Works : Leased(w)' <=> work'[w].status = "InFlight"
    BY <1>1, <1>2 DEF TypeOK, Leased
  <2>5. QED
    BY <1>1, <1>2, <1>3, <2>1, <2>2, <2>3, <2>4 DEF TypeOK
<1>8. LeaseNamesClaim'
  <2>1. ASSUME NEW c \in Copies', NEW d \in Copies', c.lease = d.lease PROVE c = d
    <3>1. CASE c \in Copies /\ d \in Copies
      BY <2>1, <3>1 DEF LeaseInv, LeaseNamesClaim
    <3>2. ASSUME NEW v \in batch, c = ClaimOf(v, work'[v]),
                 NEW w \in batch, d = ClaimOf(w, work'[w])
          PROVE  c = d
      BY <1>2, <1>4, <2>1, <3>2
    <3>3. ASSUME NEW w \in batch, NEW e \in Copies
          PROVE  ClaimOf(w, work'[w]).lease # e.lease
      BY <1>1, <1>2, <1>4, <1>6
    <3>4. QED
      BY <1>5, <2>1, <3>1, <3>2, <3>3
  <2>2. QED
    BY <2>1 DEF LeaseNamesClaim
<1>9. LiveHolderAccepted'
  <2>1. ASSUME NEW c \in Copies', work'[c.work].lease.id = c.lease
        PROVE  /\ Holds(c)' /\ work'[c.work].lease.by = c.by
    <3>1. CASE c \in Copies
      <4>1. c.work \notin batch
        BY <1>1, <1>2, <1>6, <2>1, <3>1
      <4>2. work'[c.work] = work[c.work]
        BY <1>2, <1>6, <3>1, <4>1
      <4>3. QED
        BY <2>1, <3>1, <4>2 DEF LeaseInv, LiveHolderAccepted, Holds
    <3>2. CASE \E w \in batch : c = ClaimOf(w, work'[w])
      BY <1>4, <3>2 DEF Holds
    <3>3. QED
      BY <1>5, <3>1, <3>2
  <2>2. QED
    BY <2>1 DEF LiveHolderAccepted
<1>10. \A w \in Works : Leased(w)' => /\ work'[w].lease.id \notin honoured'
                                      /\ work'[w].lease.id = granted'[w]
  <2>1. ASSUME NEW w \in batch
        PROVE  work'[w].lease.id \notin honoured' /\ work'[w].lease.id = granted'[w]
    <3>1. \A n \in honoured' : n \in Nat /\ n <= leases
      BY <1>1, <1>2 DEF LeaseInv, LeasesAreNumbered, TypeOK
    <3>2. QED
      BY <1>1, <1>2, <3>1
  <2>2. ASSUME NEW w \in Works \ batch, Leased(w)'
        PROVE  work'[w].lease.id \notin honoured' /\ work'[w].lease.id = granted'[w]
    BY <1>2, <2>2 DEF LeaseInv, LateOutcomesIgnored, Leased
  <2>3. QED
    BY <2>1, <2>2
<1>11. LateOutcomesIgnored'
  <2>1. ASSUME NEW c \in Copies', c.lease < granted'[c.work] PROVE ~Holds(c)'
    <3>1. SUFFICES ASSUME Holds(c)' PROVE FALSE
      OBVIOUS
    <3>2. c.work \in Works /\ c.lease \in Nat \ {0}
      BY <1>4, <1>5, <1>6 DEF RunnerClaim
    <3>3. Leased(c.work)'
      BY <3>1, <3>2 DEF Holds, Leased, NoLease
    <3>4. c.lease = granted'[c.work]
      BY <1>10, <3>1, <3>2, <3>3 DEF Holds
    <3>5. QED
      BY <2>1, <3>2, <3>4
  <2>2. QED
    BY <1>10, <2>1 DEF LateOutcomesIgnored
<1>12. LeasesAreNumbered'
  <2>1. \A w \in Works : granted[w] \in Nat /\ granted[w] <= leases
    BY <1>1 DEF LeaseInv, LeasesAreNumbered, TypeOK
  <2>2. \A w \in Works : granted'[w] <= leases'
    BY <1>1, <1>2, <1>3, <2>1
  <2>3. \A c \in Copies' : c.lease <= leases'
    BY <1>1, <1>2, <1>3, <1>4, <1>5, <1>6
  <2>4. \A n \in honoured' : n <= leases'
    BY <1>1, <1>2, <1>3 DEF LeaseInv, LeasesAreNumbered, TypeOK
  <2>5. ASSUME NEW v \in Works, NEW w \in Works, granted'[v] = granted'[w]
        PROVE  v = w \/ granted'[v] = 0
    <3>1. CASE v \notin batch /\ w \notin batch
      BY <1>2, <2>5, <3>1 DEF LeaseInv, LeasesAreNumbered
    <3>2. CASE v \in batch /\ w \in batch
      BY <1>2, <2>5, <3>2
    <3>3. CASE (v \in batch) # (w \in batch)
      BY <1>1, <1>2, <2>1, <2>5, <3>3
    <3>4. QED
      BY <3>1, <3>2, <3>3
  <2>6. QED
    BY <2>2, <2>3, <2>4, <2>5 DEF LeasesAreNumbered
<1>13. QED
  BY <1>7, <1>8, <1>9, <1>11, <1>12 DEF LeaseInv

\* What a resolution leaves behind.
LEMMA Outcomes ==
    ASSUME TypeOK, NEW w \in Works, NEW next \in Nat
    PROVE  /\ Completed(w) \in Work /\ Completed(w).lease = NoLease
           /\ Completed(w).status = "Succeeded"
           /\ Retried(w, next) \in Work /\ Retried(w, next).lease = NoLease
           /\ Retried(w, next).status = "Pending"
           /\ DeadLettered(w) \in Work /\ DeadLettered(w).lease = NoLease
           /\ DeadLettered(w).status = "DeadLettered"
<1>1. work[w].available \in Nat
  BY WorkFields
<1>2. {"Pending", "Succeeded", "DeadLettered"} = {"Pending"} \cup Terminal
  BY DEF Terminal
<1>3. Completed(w) \in Work /\ Completed(w).lease = NoLease /\ Completed(w).status = "Succeeded"
  BY <1>1, <1>2, ReleasedType DEF Completed
<1>4. /\ DeadLettered(w) \in Work /\ DeadLettered(w).lease = NoLease
      /\ DeadLettered(w).status = "DeadLettered"
  BY <1>1, <1>2, ReleasedType DEF DeadLettered
<1>5. /\ Retried(w, next) \in Work /\ Retried(w, next).lease = NoLease
      /\ Retried(w, next).status = "Pending"
  BY <1>2, ReleasedType DEF Retried
<1>6. QED
  BY <1>3, <1>4, <1>5

\* What the recovery of an expired lease leaves behind.
LEMMA Recoveries ==
    ASSUME TypeOK, NEW w \in Works, NEW at \in Nat
    PROVE  /\ Recovered(w, at) \in Work /\ Recovered(w, at).lease = NoLease
           /\ Recovered(w, at).status \in {"Pending", "DeadLettered"}
<1> DEFINE available == IF w \in Messages THEN at ELSE work[w].available
           free == Released(w, "Pending", available, FALSE)
<1>1. available \in Nat /\ work[w].attempt \in Nat
  BY WorkFields
<1> HIDE DEF available
<1>2. free \in Work /\ free.lease = NoLease /\ free.status = "Pending"
  BY <1>1, ReleasedType
<1>3. Recovered(w, at) = DeadLettered(w) \/ Recovered(w, at) = [free EXCEPT !.attempt = work[w].attempt]
  BY DEF Recovered, available
<1> HIDE DEF free
<1>4. CASE Recovered(w, at) = [free EXCEPT !.attempt = work[w].attempt]
  BY <1>1, <1>2, <1>4 DEF Work
<1>5. CASE Recovered(w, at) = DeadLettered(w)
  BY <1>5, Outcomes
<1>6. QED
  BY <1>3, <1>4, <1>5

\* A thread whose store call has returned goes on with the claim it looked up,
\* or gives up.
LEMMA Replied ==
    ASSUME TypeOK, NEW t \in Threads, calls[t].pc = "looked",
           calls' = [calls EXCEPT ![t].pc = "stored"] \/ calls' = [calls EXCEPT ![t] = Idle]
    PROVE  /\ calls' \in [Threads -> Call] /\ InHand(t)' \subseteq {calls[t].claim}
           /\ \A u \in Threads : u # t => InHand(u)' = InHand(u)
<1> DEFINE c == calls[t].claim
<1>1. /\ [calls[t] EXCEPT !.pc = "stored"] \in Call
      /\ [calls[t] EXCEPT !.pc = "stored"].pc = "stored"
      /\ [calls[t] EXCEPT !.pc = "stored"].claim = c
  BY CallFields DEF Call
<1>2. Idle \in Call /\ Idle.pc = "idle"
  BY DEF Idle, Call
<1>3. calls'[t] = [calls[t] EXCEPT !.pc = "stored"] \/ calls'[t] = Idle
  BY DEF TypeOK
<1>4. \A u \in Threads : u # t => calls'[u] = calls[u]
  BY DEF TypeOK
<1>5. calls' \in [Threads -> Call]
  BY <1>1, <1>2 DEF TypeOK
<1>6. InHand(t)' \subseteq {c}
  BY <1>1, <1>2, <1>3, HandsAfter
<1>7. QED
  BY <1>4, <1>5, <1>6, HandsAfter

\* What a resolution that the store accepts does, and what a refused one leaves.
LEMMA FinalizeEffect ==
    ASSUME LeaseInv, NEW t \in Threads, Finalize(t)
    PROVE  LET c == calls[t].claim
           IN  /\ c \in Copies /\ c.work \in Works /\ InHand(t) = {c}
               /\ calls[t].pc = "looked"
               /\ calls' \in [Threads -> Call] /\ InHand(t)' \subseteq {c}
               /\ \A u \in Threads : u # t => InHand(u)' = InHand(u)
               /\ UNCHANGED <<clock, leases, registry, granted>>
               /\ \/ /\ Holds(c) /\ work' \in [Works -> Work] /\ work'[c.work].lease = NoLease
                     /\ work'[c.work].status \in {"Pending", "Succeeded", "DeadLettered"}
                     /\ \A w \in Works : w # c.work => work'[w] = work[w]
                     /\ honoured' = honoured \cup {c.lease}
                  \/ UNCHANGED <<work, honoured>>
<1> DEFINE c == calls[t].claim
<1>1. TypeOK
  BY DEF LeaseInv
<1>2. /\ calls[t].pc = "looked" /\ calls[t].op \in {"complete", "retry", "dead_letter"}
      /\ calls[t] \in [pc : {"looked", "stored"}, claim : RunnerClaim,
                       op : {"renew", "complete", "retry", "dead_letter"}]
      /\ c.work \in Works
  BY <1>1, CallFields DEF Finalize
<1>3. InHand(t) = {c} /\ c \in Copies
  BY <1>1, <1>2, Hands, CopiesAre
<1>4. /\ calls' \in [Threads -> Call] /\ InHand(t)' \subseteq {c}
      /\ \A u \in Threads : u # t => InHand(u)' = InHand(u)
  <2>1. calls' = [calls EXCEPT ![t].pc = "stored"] \/ calls' = [calls EXCEPT ![t] = Idle]
    BY DEF Finalize
  <2>2. QED
    BY <1>1, <1>2, <2>1, Replied
<1>5. ASSUME Holds(c), NEW next \in clock..MaxTime,
             work' = [work EXCEPT ![c.work] =
                               CASE calls[t].op = "complete" -> Completed(c.work)
                                 [] calls[t].op = "retry" -> Retried(c.work, next)
                                 [] calls[t].op = "dead_letter" -> DeadLettered(c.work)]
      PROVE  /\ work' \in [Works -> Work] /\ work'[c.work].lease = NoLease
             /\ work'[c.work].status \in {"Pending", "Succeeded", "DeadLettered"}
             /\ \A w \in Works : w # c.work => work'[w] = work[w]
  <2>1. next \in Nat
    BY <1>1, NumbersAssumption DEF TypeOK
  <2>2. \/ work' = [work EXCEPT ![c.work] = Completed(c.work)]
        \/ work' = [work EXCEPT ![c.work] = Retried(c.work, next)]
        \/ work' = [work EXCEPT ![c.work] = DeadLettered(c.work)]
    BY <1>2, <1>5
  <2>3. work \in [Works -> Work]
    BY <1>1 DEF TypeOK
  <2>4. QED
    BY <1>1, <1>2, <2>1, <2>2, <2>3, Outcomes
<1>6. /\ UNCHANGED <<clock, leases, registry, granted>>
      /\ \/ /\ Holds(c) /\ work' \in [Works -> Work] /\ work'[c.work].lease = NoLease
            /\ work'[c.work].status \in {"Pending", "Succeeded", "DeadLettered"}
            /\ \A w \in Works : w # c.work => work'[w] = work[w]
            /\ honoured' = honoured \cup {c.lease}
         \/ UNCHANGED <<work, honoured>>
  BY <1>5 DEF Finalize
<1>7. QED
  BY <1>2, <1>3, <1>4, <1>6

\* An accepted resolution ends the lease it was accepted for, and no other
\* work has that lease.
LEMMA FinalizeKeeps ==
    ASSUME LeaseInv, NEW t \in Threads, Finalize(t)
    PROVE  LeaseInv'
<1> DEFINE c == calls[t].claim
<1>1. TypeOK
  BY DEF LeaseInv
<1>2. /\ c \in Copies /\ c.work \in Works /\ InHand(t) = {c}
      /\ calls' \in [Threads -> Call] /\ InHand(t)' \subseteq {c}
      /\ \A u \in Threads : u # t => InHand(u)' = InHand(u)
      /\ UNCHANGED <<clock, leases, registry, granted>>
      /\ \/ /\ Holds(c) /\ work' \in [Works -> Work] /\ work'[c.work].lease = NoLease
            /\ work'[c.work].status \in {"Pending", "Succeeded", "DeadLettered"}
            /\ \A w \in Works : w # c.work => work'[w] = work[w]
            /\ honoured' = honoured \cup {c.lease}
         \/ UNCHANGED <<work, honoured>>
  BY FinalizeEffect
<1>3. c.lease \in Nat \ {0} /\ c.lease <= leases
  BY <1>1, <1>2, CopyTypes DEF LeaseInv, LeasesAreNumbered
<1> HIDE DEF c
<1>4. Copies' \subseteq Copies
  BY <1>2, CopiesAre, CopiesAreAfter
<1>5. TypeOK'
  <2>1. work' \in [Works -> Work] /\ honoured' \subseteq Nat
    BY <1>1, <1>2, <1>3 DEF TypeOK
  <2>2. \A w \in Works : Leased(w)' <=> work'[w].status = "InFlight"
    BY <1>1, <1>2 DEF TypeOK, Leased
  <2>3. QED
    BY <1>1, <1>2, <2>1, <2>2 DEF TypeOK
<1>6. CASE UNCHANGED <<work, honoured>>
  BY <1>2, <1>4, <1>5, <1>6, NoGrant
<1>7. CASE /\ Holds(c) /\ work'[c.work].lease = NoLease
           /\ \A w \in Works : w # c.work => work'[w] = work[w]
           /\ honoured' = honoured \cup {c.lease}
  <2>1. work[c.work].lease.id = c.lease
    BY <1>7 DEF Holds
  <2>2. Leased(c.work) /\ granted[c.work] = c.lease
    BY <1>2, <1>3, <2>1 DEF LeaseInv, LateOutcomesIgnored, Leased, NoLease
  <2>3. ASSUME NEW w \in Works PROVE work'[w].lease.id # c.lease
    <3>1. CASE w = c.work
      BY <1>3, <1>7, <3>1 DEF NoLease
    <3>2. CASE w # c.work
      <4>1. SUFFICES ASSUME work[w].lease.id = c.lease PROVE FALSE
        BY <1>7, <3>2
      <4>2. Leased(w) /\ granted[w] = c.lease
        BY <1>3, <4>1 DEF LeaseInv, LateOutcomesIgnored, Leased, NoLease
      <4>3. QED
        BY <1>2, <1>3, <2>2, <3>2, <4>2 DEF LeaseInv, LeasesAreNumbered
    <3>3. QED
      BY <3>1, <3>2
  <2>4. \A n \in honoured' \ honoured : n <= leases /\ \A w \in Works : work'[w].lease.id # n
    BY <1>3, <1>7, <2>3
  <2>5. \A w \in Works : work'[w] = work[w] \/ work'[w].lease = NoLease
    BY <1>7
  <2>6. QED
    BY <1>2, <1>4, <1>5, <2>4, <2>5, NoGrant
<1>8. QED
  BY <1>2, <1>6, <1>7

\* What a renewal does: the lease keeps its id and its owner.
LEMMA RenewEffect ==
    ASSUME LeaseInv, NEW t \in Threads, Renew(t)
    PROVE  /\ \A w \in Works : /\ work'[w] \in Work
                               /\ work'[w].status = work[w].status
                               /\ work'[w].revision = work[w].revision
                               /\ work'[w].lease.id = work[w].lease.id
                               /\ work'[w].lease.by = work[w].lease.by
           /\ work' \in [Works -> Work]
           /\ calls' \in [Threads -> Call] /\ Copies' \subseteq Copies
           /\ UNCHANGED <<clock, leases, registry, honoured, granted>>
<1> DEFINE c == calls[t].claim
<1>1. TypeOK
  BY DEF LeaseInv
<1>2. /\ calls[t].pc = "looked"
      /\ calls[t] \in [pc : {"looked", "stored"}, claim : RunnerClaim,
                       op : {"renew", "complete", "retry", "dead_letter"}]
      /\ c.work \in Works /\ c.lease \in Nat \ {0}
  BY <1>1, CallFields DEF Renew, RunnerClaim
<1>3. InHand(t) = {c}
  BY <1>1, <1>2, Hands
<1>4. /\ calls' \in [Threads -> Call] /\ InHand(t)' \subseteq {c}
      /\ \A u \in Threads : u # t => InHand(u)' = InHand(u)
  <2>1. calls' = [calls EXCEPT ![t].pc = "stored"] \/ calls' = [calls EXCEPT ![t] = Idle]
    BY DEF Renew
  <2>2. QED
    BY <1>1, <1>2, <2>1, Replied
<1>5. ASSUME NEW at \in Times, work[c.work].lease.id = c.lease,
             work' = [work EXCEPT ![c.work] = Renewed(@, at)]
      PROVE  /\ \A w \in Works : /\ work'[w] \in Work
                               /\ work'[w].status = work[w].status
                               /\ work'[w].revision = work[w].revision
                               /\ work'[w].lease.id = work[w].lease.id
                               /\ work'[w].lease.by = work[w].lease.by
             /\ work' \in [Works -> Work]
  <2> DEFINE e == at + Ttl
  <2>1. e \in Nat
    BY <1>1, TimesPast, NumbersAssumption
  <2>2. work'[c.work] = [work[c.work] EXCEPT !.lease = [@ EXCEPT !.expires = e]]
    BY <1>1, <1>2, <1>5 DEF TypeOK, Renewed
  <2> HIDE DEF e
  <2>3. work[c.work].lease \in [id : Nat \ {0}, by : Workers, expires : Nat]
    BY <1>1, <1>2, <1>5, WorkFields DEF Lease, NoLease
  <2> DEFINE l == [work[c.work].lease EXCEPT !.expires = e]
  <2>4. l \in Lease /\ l.id = work[c.work].lease.id /\ l.by = work[c.work].lease.by
    BY <2>1, <2>3 DEF Lease
  <2>5. work'[c.work] = [work[c.work] EXCEPT !.lease = l]
    BY <2>2
  <2> HIDE DEF l
  <2>6. work[c.work] \in Work
    BY <1>1, <1>2 DEF TypeOK
  <2>7. /\ work'[c.work] \in Work /\ work'[c.work].status = work[c.work].status
        /\ work'[c.work].revision = work[c.work].revision /\ work'[c.work].lease = l
    BY <2>4, <2>5, <2>6 DEF Work
  <2>8. /\ \A w \in Works : w # c.work => work'[w] = work[w]
        /\ \A w \in Works : work[w] \in Work
        /\ work' = [w \in Works |-> work'[w]]
    BY <1>1, <1>5 DEF TypeOK
  <2>9. QED
    BY <2>4, <2>7, <2>8
<1>6. /\ UNCHANGED <<clock, leases, registry, honoured, granted>>
      /\ UNCHANGED work \/ \E at \in Times : /\ work[c.work].lease.id = c.lease
                                             /\ work' = [work EXCEPT ![c.work] = Renewed(@, at)]
  BY DEF Renew
<1>7. Copies' \subseteq Copies
  BY <1>3, <1>4, <1>6, CopiesAre, CopiesAreAfter
<1>8. CASE UNCHANGED work
  BY <1>1, <1>4, <1>6, <1>7, <1>8 DEF TypeOK
<1>9. QED
  BY <1>4, <1>5, <1>6, <1>7, <1>8

\* What a recovery does to the work whose lease has run out, and to the rest.
LEMMA RecoverEffect ==
    ASSUME TypeOK, Recover
    PROVE  /\ work' \in [Works -> Work]
           /\ \A w \in Works :
                 \/ work'[w] = work[w]
                 \/ /\ Leased(w) /\ work[w].lease.expires < clock
                    /\ work'[w].lease = NoLease
                    /\ work'[w].status \in {"Pending", "DeadLettered"}
           /\ UNCHANGED <<clock, leases, registry, calls, honoured, granted>>
<1>1. PICK queue \in Queues, at \in Times :
       \E batch \in FirstOf({w \in queue : Expired(w, at)}, RecoverLimit) :
          work' = [w \in Works |-> IF w \in batch THEN Recovered(w, at) ELSE work[w]]
  BY Zenon DEF Recover
<1>2. PICK batch \in FirstOf({w \in queue : Expired(w, at)}, RecoverLimit) :
          work' = [w \in Works |-> IF w \in batch THEN Recovered(w, at) ELSE work[w]]
  BY <1>1
<1>3. batch \subseteq {w \in queue : Expired(w, at)} /\ batch \subseteq Works
  BY BatchOf
<1>4. at \in Nat /\ at <= clock /\ clock \in Nat
  BY TimesPast DEF TypeOK
<1>5. ASSUME NEW w \in batch
      PROVE  /\ work'[w] \in Work /\ work'[w].lease = NoLease
             /\ work'[w].status \in {"Pending", "DeadLettered"}
             /\ Leased(w) /\ work[w].lease.expires < clock
  <2>1. work'[w] = Recovered(w, at) /\ Expired(w, at) /\ work[w].lease.expires \in Nat
    BY <1>2, <1>3, WorkFields
  <2>2. QED
    BY <1>3, <1>4, <2>1, Recoveries DEF Expired
<1>6. ASSUME NEW w \in Works \ batch PROVE work'[w] = work[w] /\ work'[w] \in Work
  BY <1>2 DEF TypeOK
<1>7. /\ work' = [w \in Works |-> work'[w]]
      /\ UNCHANGED <<clock, leases, registry, calls, honoured, granted>>
  BY <1>2 DEF Recover
<1>8. work' \in [Works -> Work]
  BY <1>5, <1>6, <1>7
<1>9. QED
  BY <1>5, <1>6, <1>7, <1>8

\* The runner's own steps move claims between the threads and the registry and
\* leave the store alone.
LEMMA RunnerKeeps ==
    ASSUME LeaseInv, NEW t \in Threads,
           Register(t) \/ Lookup(t) \/ UpdateRegistry(t) \/ ObserveFails(t)
    PROVE  LeaseInv' /\ UNCHANGED store
<1>1. TypeOK
  BY DEF LeaseInv
<1>2. Idle \in Call /\ Idle.pc = "idle"
  BY DEF Idle, Call
<1>3. InHand(t) \subseteq Copies /\ registry \subseteq Copies
  BY CopiesAre
<1>4. ASSUME calls' = [calls EXCEPT ![t] = Idle]
      PROVE  /\ calls' \in [Threads -> Call] /\ InHand(t)' = {}
             /\ \A u \in Threads : u # t => InHand(u)' = InHand(u)
  <2>1. /\ calls' \in [Threads -> Call] /\ calls'[t] = Idle
        /\ \A u \in Threads : u # t => calls'[u] = calls[u]
    BY <1>1, <1>2, <1>4 DEF TypeOK
  <2>2. QED
    BY <1>2, <2>1, HandsAfter
<1>5. /\ UNCHANGED <<clock, store>> /\ calls' \in [Threads -> Call]
      /\ registry' \subseteq Copies /\ InHand(t)' \subseteq Copies
      /\ \A u \in Threads : u # t => InHand(u)' = InHand(u)
  <2>1. CASE Register(t)
    <3>1. InHand(t) = calls[t].claims
      BY <1>1, <2>1, Hands DEF Register
    <3>2. QED
      BY <1>3, <1>4, <2>1, <3>1 DEF Register
  <2>2. CASE Lookup(t)
    <3>1. PICK c \in registry, op \in {"renew", "complete", "retry", "dead_letter"} :
             calls' = [calls EXCEPT ![t] = [pc |-> "looked", op |-> op, claim |-> c]]
      BY <2>2 DEF Lookup
    <3>2. [pc |-> "looked", op |-> op, claim |-> c] \in Call
      BY <1>1 DEF TypeOK, Call
    <3>3. /\ calls' \in [Threads -> Call]
          /\ calls'[t] = [pc |-> "looked", op |-> op, claim |-> c]
          /\ \A u \in Threads : u # t => calls'[u] = calls[u]
      BY <1>1, <3>1, <3>2 DEF TypeOK
    <3>4. InHand(t)' = {c} /\ \A u \in Threads : u # t => InHand(u)' = InHand(u)
      BY <3>3, HandsAfter
    <3>5. QED
      BY <1>3, <2>2, <3>3, <3>4 DEF Lookup
  <2>3. CASE UpdateRegistry(t)
    <3>1. InHand(t) = {calls[t].claim}
      BY <1>1, <2>3, Hands DEF UpdateRegistry
    <3>2. QED
      BY <1>3, <1>4, <2>3, <3>1 DEF UpdateRegistry
  <2>4. CASE ObserveFails(t)
    BY <1>3, <1>4, <2>4 DEF ObserveFails
  <2>5. QED
    BY <2>1, <2>2, <2>3, <2>4
<1>6. Copies' \subseteq Copies
  BY <1>5, CopiesAre, CopiesAreAfter
<1>7. TypeOK'
  <2>1. registry' \subseteq RunnerClaim
    BY <1>1, <1>5, CopyTypes
  <2>2. \A w \in Works : Leased(w)' <=> Leased(w)
    BY <1>5 DEF Leased, store
  <2>3. QED
    BY <1>1, <1>5, <2>1, <2>2 DEF TypeOK, store
<1>8. QED
  BY <1>5, <1>6, <1>7, NoGrant DEF store

\* Copies depend on the registry and the threads' calls alone.
LEMMA SameCopies ==
    ASSUME UNCHANGED <<registry, calls>>
    PROVE  Copies' = Copies
<1>1. \A t \in Threads : InHand(t)' = InHand(t)
  BY HandsAfter
<1>2. QED
  BY <1>1 DEF Copies

\* The lease protocol holds for every number of workers, threads and pieces of
\* work: a lease id names one claim for ever, whoever still has the lease is
\* accepted whatever renewals, recoveries and other resolutions have happened
\* since, and a holder who has lost it is refused (claim_available,
\* renew_lease, finalize and recover_expired_leases with the runner's registry).
THEOREM LeasesAreSafe == Spec => []LeaseInv
<1>1. Init => LeaseInv
  <2> SUFFICES ASSUME Init PROVE LeaseInv
    OBVIOUS
  <2>1. TypeOK
    BY DEF Init, TypeOK, Absent, NoLease, Idle, Work, Lease, Call, Leased
  <2>2. Copies = {}
    <3>1. \A t \in Threads : InHand(t) = {}
      BY <2>1, Hands DEF Init, Idle
    <3>2. QED
      BY <3>1, CopiesAre DEF Init
  <2>3. \A w \in Works : ~Leased(w)
    BY DEF Init, Leased, Absent
  <2>4. LeasesAreNumbered
    BY <2>2 DEF Init, LeasesAreNumbered
  <2>5. QED
    BY <2>1, <2>2, <2>3, <2>4
       DEF LeaseInv, LeaseNamesClaim, LiveHolderAccepted, LateOutcomesIgnored
<1>2. LeaseInv /\ [Next]_vars => LeaseInv'
  <2> SUFFICES ASSUME LeaseInv, [Next]_vars PROVE LeaseInv'
    OBVIOUS
  <2>1. TypeOK
    BY DEF LeaseInv
  <2>2. CASE UNCHANGED vars \/ Tick
    <3>1. clock' \in Nat /\ UNCHANGED <<work, leases, registry, calls, honoured, granted>>
      BY <2>1, <2>2 DEF vars, Tick, store, TypeOK
    <3>2. Copies' = Copies
      BY <3>1, SameCopies
    <3>3. TypeOK'
      BY <2>1, <3>1 DEF TypeOK, Leased
    <3>4. QED
      BY <3>1, <3>2, <3>3, NoGrant
  <2>3. ASSUME NEW w \in Works, Append(w) PROVE LeaseInv'
    <3> DEFINE new == [status |-> "Pending", revision |-> 1, available |-> clock,
                       attempt |-> IF w \in Executions THEN 1 ELSE 0, lease |-> NoLease]
    <3>1. new \in Work /\ new.lease = NoLease /\ new.status = "Pending"
      BY <2>1 DEF TypeOK, Work, Lease
    <3>2. /\ work' = [work EXCEPT ![w] = new]
          /\ UNCHANGED <<clock, leases, registry, calls, honoured, granted>>
      BY <2>3 DEF Append
    <3> HIDE DEF new
    <3>3. /\ work' \in [Works -> Work] /\ work'[w] = new
          /\ \A v \in Works : v # w => work'[v] = work[v]
      BY <2>1, <3>1, <3>2 DEF TypeOK
    <3>4. \A v \in Works : Leased(v)' <=> work'[v].status = "InFlight"
      BY <2>1, <3>1, <3>3 DEF TypeOK, Leased
    <3>5. TypeOK'
      BY <2>1, <3>2, <3>3, <3>4 DEF TypeOK
    <3>6. Copies' = Copies
      BY <3>2, SameCopies
    <3>7. QED
      BY <3>1, <3>2, <3>3, <3>5, <3>6, NoGrant
  <2>4. CASE Recover
    <3>1. /\ work' \in [Works -> Work]
          /\ \A w \in Works : \/ work'[w] = work[w]
                              \/ /\ work'[w].lease = NoLease
                                 /\ work'[w].status \in {"Pending", "DeadLettered"}
          /\ UNCHANGED <<clock, leases, registry, calls, honoured, granted>>
      BY <2>1, <2>4, RecoverEffect
    <3>2. \A v \in Works : Leased(v)' <=> work'[v].status = "InFlight"
      BY <2>1, <3>1 DEF TypeOK, Leased
    <3>3. TypeOK'
      BY <2>1, <3>1, <3>2 DEF TypeOK
    <3>4. Copies' = Copies
      BY <3>1, SameCopies
    <3>5. QED
      BY <3>1, <3>3, <3>4, NoGrant
  <2>5. ASSUME NEW t \in Threads, Renew(t) PROVE LeaseInv'
    <3>1. /\ \A w \in Works : /\ work'[w] \in Work
                              /\ work'[w].status = work[w].status
                              /\ work'[w].revision = work[w].revision
                              /\ work'[w].lease.id = work[w].lease.id
                              /\ work'[w].lease.by = work[w].lease.by
          /\ work' \in [Works -> Work]
          /\ calls' \in [Threads -> Call] /\ Copies' \subseteq Copies
          /\ UNCHANGED <<clock, leases, registry, honoured, granted>>
      BY <2>5, RenewEffect
    <3>2. ASSUME NEW w \in Works PROVE Leased(w)' <=> work'[w].status = "InFlight"
      <4>1. Leased(w)' <=> work'[w].lease.id # 0
        <5>1. work'[w].lease \in Lease
          BY <3>1 DEF Work
        <5>2. QED
          BY <5>1 DEF Leased, Lease, NoLease
      <4>2. QED
        BY <2>1, <3>1, <4>1, WorkFields
    <3>3. TypeOK'
      BY <2>1, <3>1, <3>2 DEF TypeOK
    <3>4. QED
      BY <3>1, <3>3, NoGrant
  <2>6. ASSUME NEW t \in Threads, NEW x \in Workers, Claim(t, x) PROVE LeaseInv'
    BY <2>6, ClaimKeeps
  <2>7. ASSUME NEW t \in Threads, Finalize(t) PROVE LeaseInv'
    BY <2>7, FinalizeKeeps
  <2>8. ASSUME NEW t \in Threads,
               Register(t) \/ Lookup(t) \/ UpdateRegistry(t) \/ ObserveFails(t)
        PROVE  LeaseInv'
    BY <2>8, RunnerKeeps
  <2>9. QED
    BY <2>2, <2>3, <2>4, <2>5, <2>6, <2>7, <2>8 DEF Next
<1>3. QED
  BY <1>1, <1>2, PTL DEF Spec

\* A lease that has not run out ends by its holder's own resolution or not at
\* all: neither a claim by another worker nor a recovery takes the work away,
\* whatever time their callers pass (is_due_at, recover_expired_leases).
THEOREM LiveLeasesAreHonoured == Spec => LiveLeaseHonoured
<1> DEFINE Honoured == \A w \in Works :
              /\ Leased(w) /\ clock <= work[w].lease.expires
              /\ work'[w].lease.id # work[w].lease.id
              => work[w].lease.id \in honoured' /\ ~Leased(w)'
<1>1. LeaseInv /\ [Next]_vars => [Honoured]_vars
  <2> SUFFICES ASSUME LeaseInv, Next,
                      NEW w \in Works, Leased(w), clock <= work[w].lease.expires,
                      work'[w].lease.id # work[w].lease.id
               PROVE  work[w].lease.id \in honoured' /\ ~Leased(w)'
    BY Zenon
  <2>1. TypeOK /\ clock \in Nat /\ work[w].lease.expires \in Nat
    BY WorkFields DEF LeaseInv, TypeOK
  <2>2. ~(work[w].lease.expires < clock)
    BY <2>1
  <2>3. CASE Tick
    BY <2>3 DEF Tick, store
  <2>4. CASE Recover
    BY <2>1, <2>2, <2>4, RecoverEffect
  <2>5. ASSUME NEW v \in Works, Append(v) PROVE FALSE
    <3>1. w # v
      BY <2>5 DEF Append, Leased, Absent
    <3>2. QED
      BY <2>1, <2>5, <3>1 DEF Append, TypeOK
  <2>6. ASSUME NEW t \in Threads, NEW x \in Workers, Claim(t, x) PROVE FALSE
    <3>1. PICK batch \in SUBSET Works :
             /\ \A v \in batch : Leased(v) => work[v].lease.expires < clock
             /\ \A v \in Works \ batch : work'[v] = work[v]
      BY <2>1, <2>6, ClaimEffect
    <3>2. QED
      BY <2>2, <3>1
  <2>7. ASSUME NEW t \in Threads, Finalize(t)
        PROVE  work[w].lease.id \in honoured' /\ ~Leased(w)'
    <3> DEFINE c == calls[t].claim
    <3>1. \/ /\ Holds(c) /\ work'[c.work].lease = NoLease
             /\ \A v \in Works : v # c.work => work'[v] = work[v]
             /\ honoured' = honoured \cup {c.lease}
          \/ work' = work
      BY <2>7, FinalizeEffect
    <3> HIDE DEF c
    <3>2. w = c.work /\ Holds(c) /\ work'[w].lease = NoLease /\ honoured' = honoured \cup {c.lease}
      BY <3>1
    <3>3. QED
      BY <3>2 DEF Holds, Leased
  <2>8. ASSUME NEW t \in Threads, Renew(t) PROVE FALSE
    BY <2>8, RenewEffect
  <2>9. ASSUME NEW t \in Threads,
               Register(t) \/ Lookup(t) \/ UpdateRegistry(t) \/ ObserveFails(t)
        PROVE  FALSE
    <3>1. UNCHANGED store
      BY <2>9, RunnerKeeps
    <3>2. QED
      BY <3>1 DEF store
  <2>10. QED
    BY <2>3, <2>4, <2>5, <2>6, <2>7, <2>8, <2>9 DEF Next
<1>2. QED
  BY <1>1, LeasesAreSafe, PTL DEF Spec, LiveLeaseHonoured

\* The phase of a piece of work, by its status.
LEMMA PhaseOf ==
    ASSUME NEW w \in Works
    PROVE  /\ work[w].status = "absent" => Phase(w) = "absent"
           /\ work[w].status = "Pending" => Phase(w) = "waiting"
           /\ work[w].status = "InFlight" => Phase(w) = "held"
           /\ work[w].status = "Succeeded" => Phase(w) = "done"
           /\ work[w].status = "DeadLettered" => Phase(w) = "dead"
BY DEF Phase

\* The same after a step; work that keeps its status keeps its phase.
LEMMA PhaseAfter ==
    ASSUME NEW w \in Works
    PROVE  /\ work'[w].status = "absent" => Phase(w)' = "absent"
           /\ work'[w].status = "Pending" => Phase(w)' = "waiting"
           /\ work'[w].status = "InFlight" => Phase(w)' = "held"
           /\ work'[w].status = "Succeeded" => Phase(w)' = "done"
           /\ work'[w].status = "DeadLettered" => Phase(w)' = "dead"
           /\ work'[w].status = work[w].status => Phase(w)' = Phase(w)
BY DEF Phase

\* A step that changes no status and grants nothing is not seen by LeasedWork.
LEMMA Unseen ==
    ASSUME granted' = granted, \A w \in Works : work'[w].status = work[w].status
    PROVE  UNCHANGED Queue!vars
<1>1. \A w \in Works : Phase(w)' = Phase(w)
  BY PhaseAfter
<1>2. QED
  BY <1>1 DEF Queue!vars

\* The store implements LeasedWork: grants are numbered upwards across both
\* queues, only leased work is decided, and a decision is final
\* (claim_available, lease_available, finalize, recover_expired_leases).
THEOREM QueueRefinement == Spec => QueueRefined
<1>1. Init => Queue!Init
  <2> SUFFICES ASSUME Init PROVE Queue!Init
    OBVIOUS
  <2>1. \A w \in Works : Phase(w) = "absent"
    BY PhaseOf DEF Init, Absent
  <2>2. QED
    BY <2>1 DEF Init, Queue!Init
<1>2. LeaseInv /\ [Next]_vars => [Queue!Next]_(Queue!vars)
  <2> SUFFICES ASSUME LeaseInv, [Next]_vars
               PROVE  Queue!Next \/ UNCHANGED Queue!vars
    OBVIOUS
  <2> DEFINE phase == [w \in Works |-> Phase(w)]
             phaseAfter == [w \in Works |-> Phase(w)']
  <2>1. TypeOK
    BY DEF LeaseInv
  <2>2. CASE UNCHANGED vars \/ Tick
    BY <2>2, Unseen DEF vars, Tick, store
  <2>3. ASSUME NEW w \in Works, Append(w) PROVE Queue!Next
    <3>1. /\ work[w].status = "absent" /\ work'[w].status = "Pending"
          /\ \A v \in Works : v # w => work'[v] = work[v]
          /\ granted' = granted
      BY <2>1, <2>3 DEF Append, Absent, TypeOK
    <3>2. /\ phase[w] = "absent" /\ Phase(w)' = "waiting"
          /\ \A v \in Works : v # w => Phase(v)' = Phase(v)
      BY <3>1, PhaseOf, PhaseAfter
    <3>3. phaseAfter = [phase EXCEPT ![w] = "waiting"]
      BY <3>2
    <3>4. Queue!Submit(w)
      BY <3>1, <3>2, <3>3 DEF Queue!Submit
    <3>5. QED
      BY <3>4 DEF Queue!Next
  <2>4. CASE Recover
    <3>1. /\ \A w \in Works : \/ work'[w] = work[w]
                              \/ /\ Leased(w)
                                 /\ work'[w].status \in {"Pending", "DeadLettered"}
          /\ granted' = granted
      BY <2>1, <2>4, RecoverEffect
    <3>2. ASSUME NEW w \in Works
          PROVE  \/ phaseAfter[w] = phase[w]
                 \/ phase[w] = "held" /\ phaseAfter[w] \in {"waiting", "dead"}
      BY <2>1, <3>1, PhaseOf, PhaseAfter, WorkFields
    <3>3. Queue!Clear
      BY <3>1, <3>2 DEF Queue!Clear
    <3>4. QED
      BY <3>3 DEF Queue!Next
  <2>5. ASSUME NEW t \in Threads, Renew(t) PROVE UNCHANGED Queue!vars
    BY <2>5, RenewEffect, Unseen
  <2>6. ASSUME NEW t \in Threads, NEW x \in Workers, Claim(t, x) PROVE Queue!Next
    <3>1. PICK batch \in SUBSET Works :
             /\ batch # {}
             /\ \A w \in batch :
                   /\ IsDue(w, clock) /\ work'[w].status = "InFlight"
                   /\ work'[w].lease.id \in Nat /\ leases < work'[w].lease.id
                   /\ granted'[w] = work'[w].lease.id
             /\ \A v, w \in batch : work'[v].lease.id = work'[w].lease.id => v = w
             /\ \A w \in Works \ batch : work'[w] = work[w] /\ granted'[w] = granted[w]
             /\ granted' = [w \in Works |-> granted'[w]]
      BY <2>1, <2>6, ClaimEffect
    <3>2. \A w \in batch : phase[w] \in {"waiting", "held"}
      BY <3>1, PhaseOf DEF IsDue
    <3>3. \A w \in batch, v \in Works : granted'[w] > granted[v]
      <4>1. \A v \in Works : granted[v] \in Nat /\ granted[v] <= leases /\ leases \in Nat
        BY <2>1 DEF LeaseInv, LeasesAreNumbered, TypeOK
      <4>2. QED
        BY <3>1, <4>1
    <3>4. \A v, w \in batch : granted'[v] = granted'[w] => v = w
      BY <3>1
    <3>5. granted' = [w \in Works |-> IF w \in batch THEN granted'[w] ELSE granted[w]]
      BY <3>1
    <3>6. phaseAfter = [w \in Works |-> IF w \in batch THEN "held" ELSE phase[w]]
      BY <3>1, PhaseAfter
    <3>7. Queue!Grant
      BY <3>1, <3>2, <3>3, <3>4, <3>5, <3>6 DEF Queue!Grant
    <3>8. QED
      BY <3>7 DEF Queue!Next
  <2>7. ASSUME NEW t \in Threads, Finalize(t) PROVE Queue!Next \/ UNCHANGED Queue!vars
    <3> DEFINE c == calls[t].claim
    <3>1. /\ c \in Copies /\ c.work \in Works /\ granted' = granted
          /\ \/ /\ Holds(c)
                /\ work'[c.work].status \in {"Pending", "Succeeded", "DeadLettered"}
                /\ \A w \in Works : w # c.work => work'[w] = work[w]
             \/ work' = work
      BY <2>7, FinalizeEffect
    <3> HIDE DEF c
    <3>2. CASE work' = work
      BY <3>1, <3>2, Unseen
    <3>3. CASE /\ Holds(c)
               /\ work'[c.work].status \in {"Pending", "Succeeded", "DeadLettered"}
               /\ \A w \in Works : w # c.work => work'[w] = work[w]
      <4>1. PICK w \in Works : w = c.work
        BY <3>1
      <4>2. work[w].lease.id # 0
        BY <2>1, <3>1, <3>3, <4>1, CopyTypes DEF Holds
      <4>3. phase[w] = "held"
        BY <2>1, <4>2, WorkFields, PhaseOf
      <4>4. PICK p \in {"waiting", "done", "dead"} : phaseAfter = [phase EXCEPT ![w] = p]
        <5>1. Phase(w)' \in {"waiting", "done", "dead"}
          BY <3>3, <4>1, PhaseAfter
        <5>2. \A v \in Works : v # w => Phase(v)' = Phase(v)
          BY <3>3, <4>1, PhaseAfter
        <5>3. phaseAfter = [phase EXCEPT ![w] = Phase(w)']
          BY <5>2
        <5>4. QED
          BY <5>1, <5>3
      <4>5. Queue!Settle(w)
        BY <3>1, <4>3, <4>4 DEF Queue!Settle
      <4>6. QED
        BY <4>5 DEF Queue!Next
    <3>4. QED
      BY <3>1, <3>2, <3>3
  <2>8. ASSUME NEW t \in Threads,
               Register(t) \/ Lookup(t) \/ UpdateRegistry(t) \/ ObserveFails(t)
        PROVE  UNCHANGED Queue!vars
    <3>1. UNCHANGED store
      BY <2>8, RunnerKeeps
    <3>2. QED
      BY <3>1, Unseen DEF store
  <2>9. QED
    BY <2>2, <2>3, <2>4, <2>5, <2>6, <2>7, <2>8 DEF Next
<1>3. QED
  BY <1>1, <1>2, LeasesAreSafe, PTL DEF Spec, QueueRefined, Queue!Spec
=============================================================================
