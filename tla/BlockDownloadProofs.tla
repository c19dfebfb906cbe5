------------------------ MODULE BlockDownloadProofs -------------------------
(***************************************************************************)
(* What BlockDownload keeps true for every block tree, every set of peers, *)
(* whatever they send, and every limit.                                    *)
(***************************************************************************)
EXTENDS BlockDownload, FiniteSetTheorems, WellFoundedInduction, TLAPS

(* Sets of blocks of one chain                                             *)

\* Sets of blocks are finite, and so are sets of peers.
LEMMA Finite ==
  /\ \A S \in SUBSET Blocks : IsFiniteSet(S) /\ Cardinality(S) \in Nat
  /\ \A S \in SUBSET Peers : IsFiniteSet(S) /\ Cardinality(S) \in Nat
  BY BlocksAssumption, PeersAssumption, FS_Subset, FS_CardinalityType

\* A family of sets of blocks has a minimal member.
LEMMA MinimalMember ==
  ASSUME NEW T \in SUBSET (SUBSET Blocks), T # {}
  PROVE  \E U \in T : \A V \in T : ~(V \subseteq U /\ V # U)
<1>1. T \subseteq FiniteSubsetsOf(Blocks)
  BY Finite DEF FiniteSubsetsOf
<1>2. IsWellFoundedOn(StrictSubsetOrdering(Blocks), FiniteSubsetsOf(Blocks))
  BY FS_StrictSubsetOrderingWellFounded
<1>3. PICK U \in T : \A V \in T : <<V, U>> \notin StrictSubsetOrdering(Blocks)
  BY <1>1, <1>2, WFMin
<1>4. QED
  BY <1>3 DEF StrictSubsetOrdering

\* A non-empty set of blocks of one chain has a lowest block.
LEMMA LowestIn ==
  ASSUME NEW c \in Blocks, NEW S \in SUBSET Anc[c], S # {}
  PROVE  Lowest(S) \in S /\ \A a \in S : Lowest(S) \in Anc[a]
<1> DEFINE T == {Anc[b] : b \in S}
<1>1. S \subseteq Blocks
  BY BlocksAssumption
<1>2. T \in SUBSET (SUBSET Blocks) /\ T # {}
  BY <1>1, BlocksAssumption
<1>3. PICK U \in T : \A V \in T : ~(V \subseteq U /\ V # U)
  <2> HIDE DEF T
  <2> QED BY <1>2, MinimalMember
<1>4. PICK b \in S : U = Anc[b]
  OBVIOUS
<1>5. ASSUME NEW a \in S PROVE b \in Anc[a]
  <2>1. CASE b \in Anc[a]
    BY <2>1
  <2>2. CASE a \in Anc[b]
    <3>1. Anc[a] \subseteq Anc[b] /\ Anc[a] \in T
      BY <1>1, <2>2, BlocksAssumption
    <3>2. Anc[a] = Anc[b]
      BY <1>3, <1>4, <3>1
    <3> QED BY <1>1, <3>2, BlocksAssumption
  <2> QED BY <2>1, <2>2, BlocksAssumption
<1>6. QED
  BY <1>5 DEF Lowest

\* A non-empty set of blocks of one chain has a highest block.
LEMMA HighestIn ==
  ASSUME NEW c \in Blocks, NEW S \in SUBSET Anc[c], S # {}
  PROVE  Highest(S) \in S /\ S \subseteq Anc[Highest(S)]
<1> DEFINE T == {Anc[c] \ Anc[b] : b \in S}
<1>1. S \subseteq Blocks
  BY BlocksAssumption
<1>2. T \in SUBSET (SUBSET Blocks) /\ T # {}
  <2>1. Anc[c] \in SUBSET Blocks
    BY BlocksAssumption
  <2>2. PICK b \in S : TRUE
    OBVIOUS
  <2>3. Anc[c] \ Anc[b] \in T
    OBVIOUS
  <2> QED BY <2>1, <2>3
<1>3. PICK U \in T : \A V \in T : ~(V \subseteq U /\ V # U)
  <2> HIDE DEF T
  <2> QED BY <1>2, MinimalMember
<1>4. PICK b \in S : U = Anc[c] \ Anc[b]
  OBVIOUS
<1>5. ASSUME NEW a \in S PROVE a \in Anc[b]
  <2>1. CASE a \in Anc[b]
    BY <2>1
  <2>2. CASE b \in Anc[a]
    <3>1. Anc[b] \subseteq Anc[a] /\ Anc[c] \ Anc[a] \in T
      BY <1>1, <2>2, BlocksAssumption
    <3>2. Anc[c] \ Anc[a] = Anc[c] \ Anc[b]
      BY <1>3, <1>4, <3>1
    <3> QED BY <1>1, <3>2, BlocksAssumption
  <2> QED BY <2>1, <2>2, BlocksAssumption
<1>6. QED
  BY <1>5 DEF Highest

\* The first n blocks of a chain are at most n.
LEMMA FirstOfBounded ==
  ASSUME NEW c \in Blocks, NEW S \in SUBSET Anc[c], NEW n \in Nat
  PROVE  FirstOf(S, n) \subseteq S /\ Cardinality(FirstOf(S, n)) <= n
<1> DEFINE F == FirstOf(S, n)
<1>1. F \subseteq S /\ F \in SUBSET Anc[c]
  BY DEF FirstOf
<1>2. CASE F = {}
  BY <1>2, FS_EmptySet
<1>3. CASE F # {}
  <2>1. Highest(F) \in F /\ F \subseteq Anc[Highest(F)]
    BY <1>1, <1>3, HighestIn
  <2>2. F \subseteq S \cap Anc[Highest(F)]
    BY <1>1, <2>1
  <2>3. S \cap Anc[Highest(F)] \in SUBSET Blocks /\ F \in SUBSET Blocks
    BY <1>1, BlocksAssumption
  <2>4. Cardinality(S \cap Anc[Highest(F)]) <= n
    BY <2>1 DEF FirstOf
  <2>5. /\ Cardinality(F) \in Nat /\ Cardinality(S \cap Anc[Highest(F)]) \in Nat
        /\ Cardinality(F) <= Cardinality(S \cap Anc[Highest(F)])
    BY <2>2, <2>3, Finite, FS_Subset
  <2>6. QED
    BY <1>1, <2>4, <2>5
<1>4. QED
  BY <1>2, <1>3

-----------------------------------------------------------------------------
(* Counting                                                                *)

\* Disjoint sets of blocks are counted one after the other.
LEMMA CountUnion ==
  ASSUME NEW S \in SUBSET Blocks, NEW T \in SUBSET Blocks, S \cap T = {}
  PROVE  Cardinality(S \cup T) = Cardinality(S) + Cardinality(T)
<1>1. IsFiniteSet(S) /\ IsFiniteSet(T) /\ Cardinality(S) \in Nat /\ Cardinality(T) \in Nat
  BY Finite
<1>2. Cardinality(S \cap T) = 0
  BY FS_EmptySet
<1>3. Cardinality(S \cup T) = Cardinality(S) + Cardinality(T) - Cardinality(S \cap T)
  BY <1>1, FS_Union
<1> QED BY <1>1, <1>2, <1>3

\* Taking a block out lowers the count if it was in.
LEMMA CountRemoved ==
  ASSUME NEW S \in SUBSET Blocks, NEW b
  PROVE  Cardinality(S \ {b}) = Cardinality(S) - One(b \in S)
<1>1. IsFiniteSet(S) /\ Cardinality(S) \in Nat
  BY Finite
<1>2. Cardinality(S \ {b}) = IF b \in S THEN Cardinality(S) - 1 ELSE Cardinality(S)
  BY <1>1, FS_RemoveElement
<1> QED BY <1>1, <1>2 DEF One

\* A count is zero when there is nothing to count.
LEMMA CountZero ==
  ASSUME NEW S \in SUBSET Blocks
  PROVE  Cardinality(S) \in Nat /\ (Cardinality(S) = 0 <=> S = {})
  BY Finite, FS_EmptySet

\* Sets of peers that agree but for p differ in size by p.
LEMMA CountPeers ==
  ASSUME NEW A \in SUBSET Peers, NEW B \in SUBSET Peers, NEW p \in Peers,
         \A q \in Peers \ {p} : q \in A <=> q \in B
  PROVE  Cardinality(B) = Cardinality(A) - One(p \in A) + One(p \in B)
<1>1. IsFiniteSet(A) /\ IsFiniteSet(B) /\ Cardinality(A) \in Nat /\ Cardinality(B) \in Nat
  BY Finite
<1>2. A \ {p} = B \ {p}
  OBVIOUS
<1>3. /\ Cardinality(A \ {p}) = IF p \in A THEN Cardinality(A) - 1 ELSE Cardinality(A)
      /\ Cardinality(B \ {p}) = IF p \in B THEN Cardinality(B) - 1 ELSE Cardinality(B)
  BY <1>1, FS_RemoveElement
<1> QED BY <1>1, <1>2, <1>3 DEF One

-----------------------------------------------------------------------------
(* The requests                                                            *)

\* Peers with a validated request, which nPeersWithValidatedDownloads counts
Downloading(d) == {p \in Peers : d.queue[p] \cap d.valid # {}}

\* What every change of the requests preserves
Consistent(d) ==
    /\ d \in Downloads
    /\ \A b \in Blocks, p \in Peers : d.by[b] = p <=> b \in d.queue[p]
    /\ \A b \in d.valid \cup d.partial : InFlight(d, b)
    /\ \A p \in Peers : /\ d.nBlocks[p] = Cardinality(d.queue[p])
                        /\ d.nValid[p] = Cardinality(d.queue[p] \cap d.valid)
                        /\ d.nBlocks[p] <= MaxInTransit
    /\ d.nPeers = Cardinality(Downloading(d))
    /\ \A p \in d.stalling : d.queue[p] # {}
    /\ d.nullPit = {}

\* From d to e requests are only given up, or made to p for blocks that are
\* neither in H nor in flight.
Asks(d, e, p, H) ==
    \A b \in Blocks : \/ e.by[b] = d.by[b]
                      \/ e.by[b] = NULL
                      \/ d.by[b] = NULL /\ b \notin H /\ e.by[b] = p

\* No change requests nothing.
LEMMA AsksNothing ==
  ASSUME NEW d, NEW p, NEW H
  PROVE  Asks(d, d, p, H)
  BY DEF Asks

\* Nothing is requested at the start.
LEMMA IdleConsistent == Consistent(Idle)
<1>1. Idle \in Downloads
  BY DEF Idle, Downloads
<1>2. \A b \in Blocks, p \in Peers : Idle.by[b] = p <=> b \in Idle.queue[p]
  BY PeersAssumption DEF Idle
<1>3. Cardinality({}) = 0
  BY FS_EmptySet
<1>4. Downloading(Idle) = {}
  BY DEF Downloading, Idle
<1>5. \A p \in Peers : /\ Idle.nBlocks[p] = Cardinality(Idle.queue[p])
                       /\ Idle.nValid[p] = Cardinality(Idle.queue[p] \cap Idle.valid)
                       /\ Idle.nBlocks[p] <= MaxInTransit
  BY <1>3, LimitsAssumption DEF Idle
<1> QED BY <1>1, <1>2, <1>3, <1>4, <1>5 DEF Consistent, Idle

\* The fields of the requests, one by one
LEMMA Fields ==
  ASSUME NEW d, Consistent(d)
  PROVE  /\ d.by \in [Blocks -> Peers \cup {NULL}] /\ d.queue \in [Peers -> SUBSET Blocks]
         /\ d.valid \in SUBSET Blocks /\ d.partial \in SUBSET Blocks
         /\ d.nBlocks \in [Peers -> Int] /\ d.nValid \in [Peers -> Int]
         /\ d.nPeers \in Int /\ d.stalling \in SUBSET Peers /\ d.nullPit = {}
  BY DEF Consistent, Downloads

\* Requests whose fields have their types
LEMMA IsDownloads ==
  ASSUME NEW d,
         d = [by |-> d.by, queue |-> d.queue, valid |-> d.valid, partial |-> d.partial,
              nBlocks |-> d.nBlocks, nValid |-> d.nValid, nPeers |-> d.nPeers,
              stalling |-> d.stalling, nullPit |-> d.nullPit],
         d.by \in [Blocks -> Peers \cup {NULL}], d.queue \in [Peers -> SUBSET Blocks],
         d.valid \in SUBSET Blocks, d.partial \in SUBSET Blocks,
         d.nBlocks \in [Peers -> Int], d.nValid \in [Peers -> Int],
         d.nPeers \in Int, d.stalling \in SUBSET Peers, d.nullPit = {}
  PROVE  d \in Downloads
  BY DEF Downloads

\* A received block is no longer in flight, and nothing else changes.
LEMMA Received ==
  ASSUME NEW d, NEW e, Consistent(d), NEW b \in Blocks, e = MarkBlockAsReceived(d, b)
  PROVE  /\ Consistent(e) /\ e.by[b] = NULL
         /\ \A a \in Blocks \ {b} : e.by[a] = d.by[a]
<1> DEFINE p == d.by[b]
           v == b \in d.valid
           n == d.nValid[p] - One(v)
<1>0. /\ d.by \in [Blocks -> Peers \cup {NULL}] /\ d.queue \in [Peers -> SUBSET Blocks]
      /\ d.valid \in SUBSET Blocks /\ d.partial \in SUBSET Blocks
      /\ d.nBlocks \in [Peers -> Int] /\ d.nValid \in [Peers -> Int]
      /\ d.nPeers \in Int /\ d.stalling \in SUBSET Peers /\ d.nullPit = {}
  BY Fields
<1>1. CASE p = NULL
  BY <1>1 DEF MarkBlockAsReceived
<1>2. CASE p # NULL
  <2>1. p \in Peers
    BY <1>2, <1>0
  <2>2. /\ e.by = [d.by EXCEPT ![b] = NULL]
        /\ e.queue = [d.queue EXCEPT ![p] = @ \ {b}]
        /\ e.valid = d.valid \ {b} /\ e.partial = d.partial \ {b}
        /\ e.nBlocks = [d.nBlocks EXCEPT ![p] = @ - 1]
        /\ e.nValid = [d.nValid EXCEPT ![p] = n]
        /\ e.nPeers = d.nPeers - One(n = 0 /\ v)
        /\ e.stalling = d.stalling \ {p} /\ e.nullPit = d.nullPit
    BY <1>2 DEF MarkBlockAsReceived
  <2>3. e = [by |-> e.by, queue |-> e.queue, valid |-> e.valid, partial |-> e.partial,
             nBlocks |-> e.nBlocks, nValid |-> e.nValid, nPeers |-> e.nPeers,
             stalling |-> e.stalling, nullPit |-> e.nullPit]
    BY <1>2, <2>2 DEF MarkBlockAsReceived
  <2>4. n \in Int /\ One(n = 0 /\ v) \in {0, 1}
    BY <2>1, <1>0 DEF One
  <2>5. p = d.by[b] /\ n = d.nValid[p] - One(b \in d.valid)
    OBVIOUS
  <2> HIDE DEF n, p
  <2>6. e \in Downloads
    BY <2>1, <2>2, <2>3, <2>4, <1>0, IsDownloads
  <2>7. b \in d.queue[p] /\ \A q \in Peers \ {p} : b \notin d.queue[q]
    BY <2>1, <2>5 DEF Consistent
  <2>8. \A q \in Peers : e.queue[q] = d.queue[q] \ {b}
    BY <2>1, <2>2, <2>7, <1>0
  <2>9. \A q \in Peers : e.queue[q] \cap e.valid = (d.queue[q] \cap d.valid) \ {b}
    BY <2>2, <2>8
  <2>10. \A a \in Blocks, q \in Peers : e.by[a] = q <=> a \in e.queue[q]
    BY <2>2, <2>8, <1>0, PeersAssumption DEF Consistent
  <2>11. \A a \in e.valid \cup e.partial : InFlight(e, a)
    BY <2>2, <1>0 DEF Consistent, InFlight
  <2>12. ASSUME NEW q \in Peers
         PROVE  /\ e.nBlocks[q] = Cardinality(e.queue[q])
                /\ e.nValid[q] = Cardinality(e.queue[q] \cap e.valid)
                /\ e.nBlocks[q] <= MaxInTransit
    <3>1. /\ d.queue[q] \in SUBSET Blocks /\ d.queue[q] \cap d.valid \in SUBSET Blocks
          /\ d.nBlocks[q] = Cardinality(d.queue[q]) /\ d.nBlocks[q] \in Int
          /\ d.nValid[q] = Cardinality(d.queue[q] \cap d.valid) /\ d.nValid[q] \in Int
          /\ d.nBlocks[q] <= MaxInTransit
      BY <1>0 DEF Consistent
    <3>2. /\ Cardinality(e.queue[q]) = d.nBlocks[q] - One(b \in d.queue[q])
          /\ Cardinality(e.queue[q] \cap e.valid)
                = d.nValid[q] - One(b \in d.queue[q] \cap d.valid)
      BY <2>8, <2>9, <3>1, CountRemoved
    <3>3. /\ e.nBlocks[q] = IF q = p THEN d.nBlocks[q] - 1 ELSE d.nBlocks[q]
          /\ e.nValid[q] = IF q = p THEN n ELSE d.nValid[q]
      BY <2>1, <2>2, <1>0
    <3>4. CASE q = p
      BY <2>5, <2>7, <3>1, <3>2, <3>3, <3>4, LimitsAssumption DEF One
    <3>5. CASE q # p
      BY <2>7, <3>1, <3>2, <3>3, <3>5, LimitsAssumption DEF One
    <3> QED BY <3>4, <3>5
  <2>13. e.nPeers = Cardinality(Downloading(e))
    <3>1. \A q \in Peers \ {p} : q \in Downloading(d) <=> q \in Downloading(e)
      BY <2>7, <2>9 DEF Downloading
    <3>2. Cardinality(Downloading(e)) = Cardinality(Downloading(d))
             - One(p \in Downloading(d)) + One(p \in Downloading(e))
      BY <2>1, <3>1, CountPeers DEF Downloading
    <3>3. n = Cardinality(e.queue[p] \cap e.valid) /\ e.queue[p] \cap e.valid \in SUBSET Blocks
      BY <2>1, <2>2, <1>0, <2>8, <2>12
    <3>4. p \in Downloading(e) <=> n # 0
      BY <2>1, <3>3, CountZero DEF Downloading
    <3>5. v => p \in Downloading(d)
      BY <2>1, <2>5, <2>7 DEF Downloading
    <3>6. ~v => (p \in Downloading(d) <=> p \in Downloading(e))
      BY <2>1, <2>5, <2>9 DEF Downloading
    <3>7. Cardinality(Downloading(d)) \in Nat /\ d.nPeers = Cardinality(Downloading(d))
      BY Finite DEF Downloading, Consistent
    <3> QED BY <2>2, <3>2, <3>4, <3>5, <3>6, <3>7 DEF One
  <2>14. \A q \in e.stalling : e.queue[q] # {}
    BY <2>2, <2>7, <2>8, <1>0 DEF Consistent
  <2>15. Consistent(e)
    BY <1>0, <2>2, <2>6, <2>10, <2>11, <2>12, <2>13, <2>14 DEF Consistent
  <2> QED
    BY <1>0, <2>2, <2>15
<1> QED BY <1>1, <1>2

\* Blocks that nobody was asked for are inserted for p, within its limit.
LEMMA InsertedConsistent ==
  ASSUME NEW d, NEW e, Consistent(d), NEW p \in Peers, NEW S \in SUBSET Blocks,
         NEW validated \in BOOLEAN, NEW withPartial \in BOOLEAN,
         \A b \in S : ~InFlight(d, b),
         Cardinality(S) + d.nBlocks[p] <= MaxInTransit,
         e = Inserted(d, p, S, validated, withPartial)
  PROVE  /\ Consistent(e)
         /\ \A b \in Blocks : e.by[b] = IF b \in S THEN p ELSE d.by[b]
<1> DEFINE n == Cardinality(S)
           v == IF validated THEN n ELSE 0
<1>0. /\ d.by \in [Blocks -> Peers \cup {NULL}] /\ d.queue \in [Peers -> SUBSET Blocks]
      /\ d.valid \in SUBSET Blocks /\ d.partial \in SUBSET Blocks
      /\ d.nBlocks \in [Peers -> Int] /\ d.nValid \in [Peers -> Int]
      /\ d.nPeers \in Int /\ d.stalling \in SUBSET Peers /\ d.nullPit = {}
  BY Fields
<1>1. /\ e.by = [b \in Blocks |-> IF b \in S THEN p ELSE d.by[b]]
      /\ e.queue = [d.queue EXCEPT ![p] = @ \cup S]
      /\ e.valid = IF validated THEN d.valid \cup S ELSE d.valid
      /\ e.partial = IF withPartial THEN d.partial \cup S ELSE d.partial
      /\ e.nBlocks = [d.nBlocks EXCEPT ![p] = @ + n]
      /\ e.nValid = [d.nValid EXCEPT ![p] = @ + v]
      /\ e.nPeers = d.nPeers + One(d.nValid[p] = 0 /\ v > 0)
      /\ e.stalling = d.stalling /\ e.nullPit = d.nullPit
  BY DEF Inserted
<1>2. e = [by |-> e.by, queue |-> e.queue, valid |-> e.valid, partial |-> e.partial,
           nBlocks |-> e.nBlocks, nValid |-> e.nValid, nPeers |-> e.nPeers,
           stalling |-> e.stalling, nullPit |-> e.nullPit]
  BY <1>1 DEF Inserted
<1>3. n \in Nat /\ v \in Nat /\ One(d.nValid[p] = 0 /\ v > 0) \in {0, 1}
  BY Finite DEF One
<1>4. n = Cardinality(S) /\ v = IF validated THEN n ELSE 0
  OBVIOUS
<1> HIDE DEF n, v
<1>5. e \in Downloads
  BY <1>0, <1>1, <1>2, <1>3, IsDownloads
<1>6. /\ \A q \in Peers : S \cap d.queue[q] = {}
      /\ S \cap d.valid = {} /\ S \cap d.partial = {}
  BY <1>0, PeersAssumption DEF Consistent, InFlight
<1>7. \A q \in Peers : e.queue[q] = IF q = p THEN d.queue[q] \cup S ELSE d.queue[q]
  BY <1>0, <1>1
<1>8. \A q \in Peers : e.queue[q] \cap e.valid =
         IF q = p /\ validated THEN (d.queue[q] \cap d.valid) \cup S ELSE d.queue[q] \cap d.valid
  BY <1>1, <1>6, <1>7
<1>9. \A b \in Blocks, q \in Peers : e.by[b] = q <=> b \in e.queue[q]
  BY <1>1, <1>6, <1>7 DEF Consistent
<1>10. \A b \in e.valid \cup e.partial : InFlight(e, b)
  BY <1>0, <1>1, PeersAssumption DEF Consistent, InFlight
<1>11. ASSUME NEW q \in Peers
       PROVE  /\ e.nBlocks[q] = Cardinality(e.queue[q])
              /\ e.nValid[q] = Cardinality(e.queue[q] \cap e.valid)
              /\ e.nBlocks[q] <= MaxInTransit
  <2>1. /\ d.queue[q] \in SUBSET Blocks /\ d.queue[q] \cap d.valid \in SUBSET Blocks
        /\ d.nBlocks[q] = Cardinality(d.queue[q]) /\ d.nBlocks[q] \in Int
        /\ d.nValid[q] = Cardinality(d.queue[q] \cap d.valid) /\ d.nValid[q] \in Int
        /\ d.nBlocks[q] <= MaxInTransit
    BY <1>0 DEF Consistent
  <2>2. /\ Cardinality(d.queue[q] \cup S) = d.nBlocks[q] + n
        /\ Cardinality((d.queue[q] \cap d.valid) \cup S) = d.nValid[q] + n
    <3>1. d.queue[q] \cap S = {} /\ (d.queue[q] \cap d.valid) \cap S = {}
      BY <1>6
    <3> QED BY <1>4, <2>1, <3>1, CountUnion
  <2>3. /\ e.nBlocks[q] = IF q = p THEN d.nBlocks[q] + n ELSE d.nBlocks[q]
        /\ e.nValid[q] = IF q = p THEN d.nValid[q] + v ELSE d.nValid[q]
    BY <1>0, <1>1
  <2>4. CASE q = p
    <3>1. e.nBlocks[q] = d.nBlocks[q] + n /\ e.nValid[q] = d.nValid[q] + v
      BY <2>3, <2>4
    <3>2. e.queue[q] = d.queue[q] \cup S
      BY <1>7, <2>4
    <3>3. d.nBlocks[q] + n <= MaxInTransit
      BY <1>3, <1>4, <2>1, <2>4, LimitsAssumption
    <3>4. CASE validated
      <4>1. e.queue[q] \cap e.valid = (d.queue[q] \cap d.valid) \cup S /\ v = n
        BY <1>4, <1>8, <2>4, <3>4
      <4> QED BY <2>2, <3>1, <3>2, <3>3, <4>1
    <3>5. CASE ~validated
      <4>1. e.queue[q] \cap e.valid = d.queue[q] \cap d.valid /\ v = 0
        BY <1>4, <1>8, <2>4, <3>5
      <4>2. e.nBlocks[q] = Cardinality(e.queue[q]) /\ e.nBlocks[q] <= MaxInTransit
        BY <2>2, <3>1, <3>2, <3>3
      <4>3. d.nValid[q] + v = d.nValid[q]
        BY <2>1, <4>1
      <4>4. e.nValid[q] = Cardinality(e.queue[q] \cap e.valid)
        BY <2>1, <3>1, <4>1, <4>3
      <4> QED BY <4>2, <4>4
    <3> QED BY <3>4, <3>5
  <2>5. CASE q # p
    BY <1>7, <1>8, <2>1, <2>3, <2>5
  <2> QED BY <2>4, <2>5
<1>12. e.nPeers = Cardinality(Downloading(e))
  <2>1. \A q \in Peers \ {p} : q \in Downloading(d) <=> q \in Downloading(e)
    BY <1>8 DEF Downloading
  <2>2. Cardinality(Downloading(e)) = Cardinality(Downloading(d))
           - One(p \in Downloading(d)) + One(p \in Downloading(e))
    BY <2>1, CountPeers DEF Downloading
  <2>3. Cardinality(Downloading(d)) \in Nat /\ d.nPeers = Cardinality(Downloading(d))
    BY Finite DEF Downloading, Consistent
  <2>4. /\ d.queue[p] \cap d.valid \in SUBSET Blocks
        /\ d.nValid[p] = Cardinality(d.queue[p] \cap d.valid)
    BY <1>0 DEF Consistent
  <2>5. p \in Downloading(d) <=> d.nValid[p] # 0
    BY <2>4, CountZero DEF Downloading
  <2>6. v > 0 <=> validated /\ S # {}
    BY <1>3, <1>4, CountZero
  <2>7. p \in Downloading(e) <=> p \in Downloading(d) \/ v > 0
    BY <1>8, <2>6 DEF Downloading
  <2> QED BY <1>1, <2>2, <2>3, <2>5, <2>7 DEF One
<1>13. \A q \in e.stalling : e.queue[q] # {}
  BY <1>0, <1>1, <1>7 DEF Consistent
<1>14. Consistent(e)
  BY <1>0, <1>1, <1>5, <1>9, <1>10, <1>11, <1>12, <1>13 DEF Consistent
<1> QED BY <1>1, <1>14

\* For blocks that nobody was asked for, MarkBlockAsInFlight only inserts.
LEMMA NothingInFlight ==
  ASSUME NEW d, Consistent(d), NEW p \in Peers, NEW S \in SUBSET Blocks,
         NEW validated, NEW withPartial, \A b \in S : ~InFlight(d, b)
  PROVE  MarkBlocksAsInFlight(d, p, S, validated, withPartial)
            = Inserted(d, p, S, validated, withPartial)
<1> DEFINE e == Inserted(d, p, S, validated, withPartial)
<1>1. {b \in S : d.by[b] = p} = {}
  BY PeersAssumption DEF InFlight
<1>2. MarkBlocksAsReceived(d, S) = d
  BY DEF MarkBlocksAsReceived
<1>3. [e EXCEPT !.nullPit = @ \cup {}] = e
  <2>1. \A x : x \cup {} = x
    OBVIOUS
  <2> QED BY <2>1 DEF Inserted
<1>4. S \ {} = S
  OBVIOUS
<1>5. PICK none : none = {}
  OBVIOUS
<1>6. /\ {b \in S : d.by[b] = p} = none /\ S \ none = S
      /\ [e EXCEPT !.nullPit = @ \cup none] = e
  BY <1>1, <1>3, <1>4, <1>5
<1>7. MarkBlocksAsInFlight(d, p, S, validated, withPartial)
         = IF withPartial THEN e ELSE [e EXCEPT !.nullPit = @ \cup none]
  BY <1>2, <1>6 DEF MarkBlocksAsInFlight
<1> HIDE DEF e
<1>8. MarkBlocksAsInFlight(d, p, S, validated, withPartial) = e
  BY <1>6, <1>7
<1> QED BY <1>8 DEF e

\* Blocks that nobody was asked for are requested from p, within its limit.
LEMMA Requested ==
  ASSUME NEW d, NEW e, Consistent(d), NEW p \in Peers, NEW S \in SUBSET Blocks,
         NEW validated \in BOOLEAN, NEW withPartial \in BOOLEAN,
         \A b \in S : ~InFlight(d, b),
         Cardinality(S) + d.nBlocks[p] <= MaxInTransit,
         e = MarkBlocksAsInFlight(d, p, S, validated, withPartial)
  PROVE  /\ Consistent(e)
         /\ \A b \in Blocks : e.by[b] = IF b \in S THEN p ELSE d.by[b]
<1>1. e = Inserted(d, p, S, validated, withPartial)
  BY NothingInFlight
<1> QED BY <1>1, InsertedConsistent

\* A block in flight from p already stays as it is if the caller has a pit.
LEMMA SamePeer ==
  ASSUME NEW d, Consistent(d), NEW p \in Peers, NEW b \in Blocks, d.by[b] = p
  PROVE  MarkBlocksAsInFlight(d, p, {b}, TRUE, TRUE) = d
<1>0. /\ d.by \in [Blocks -> Peers \cup {NULL}] /\ d.queue \in [Peers -> SUBSET Blocks]
      /\ d.nBlocks \in [Peers -> Int] /\ d.nValid \in [Peers -> Int] /\ d.nPeers \in Int
      /\ d.valid \in SUBSET Blocks /\ d.partial \in SUBSET Blocks
  BY Fields
<1>1. PICK none : none = {}
  OBVIOUS
<1>2. {b} \ {a \in {b} : d.by[a] = p} = none
  BY <1>1
<1>3. MarkBlocksAsReceived(d, none) = d
  BY <1>1 DEF MarkBlocksAsReceived
<1>4. MarkBlocksAsInFlight(d, p, {b}, TRUE, TRUE) = Inserted(d, p, none, TRUE, TRUE)
  BY <1>2, <1>3 DEF MarkBlocksAsInFlight
<1>5. Cardinality(none) = 0
  BY <1>1, FS_EmptySet
<1>6. /\ [a \in Blocks |-> IF a \in none THEN p ELSE d.by[a]] = d.by
      /\ [d.queue EXCEPT ![p] = @ \cup none] = d.queue
      /\ d.valid \cup none = d.valid /\ d.partial \cup none = d.partial
  BY <1>0, <1>1
<1>7. [d.nBlocks EXCEPT ![p] = @ + 0] = d.nBlocks /\ [d.nValid EXCEPT ![p] = @ + 0] = d.nValid
  BY <1>0
<1>8. d.nPeers + One(d.nValid[p] = 0 /\ 0 > 0) = d.nPeers
  BY <1>0 DEF One
<1>9. d = [by |-> d.by, queue |-> d.queue, valid |-> d.valid, partial |-> d.partial,
           nBlocks |-> d.nBlocks, nValid |-> d.nValid, nPeers |-> d.nPeers,
           stalling |-> d.stalling, nullPit |-> d.nullPit]
  BY DEF Consistent, Downloads
<1>10. Inserted(d, p, none, TRUE, TRUE) = d
  BY <1>5, <1>6, <1>7, <1>8, <1>9 DEF Inserted
<1> QED BY <1>4, <1>10

\* A peer that leaves takes its requests with it, and no others.
LEMMA Left ==
  ASSUME NEW d, NEW e, Consistent(d), NEW p \in Peers, e = Finalized(d, p)
  PROVE  /\ Consistent(e)
         /\ \A b \in Blocks : e.by[b] = IF d.by[b] = p THEN NULL ELSE d.by[b]
<1>0. /\ d.by \in [Blocks -> Peers \cup {NULL}] /\ d.queue \in [Peers -> SUBSET Blocks]
      /\ d.valid \in SUBSET Blocks /\ d.partial \in SUBSET Blocks
      /\ d.nBlocks \in [Peers -> Int] /\ d.nValid \in [Peers -> Int]
      /\ d.nPeers \in Int /\ d.stalling \in SUBSET Peers /\ d.nullPit = {}
  BY Fields
<1>1. /\ e.by = [b \in Blocks |-> IF b \in d.queue[p] THEN NULL ELSE d.by[b]]
      /\ e.queue = [d.queue EXCEPT ![p] = {}]
      /\ e.valid = d.valid \ d.queue[p] /\ e.partial = d.partial \ d.queue[p]
      /\ e.nBlocks = [d.nBlocks EXCEPT ![p] = 0]
      /\ e.nValid = [d.nValid EXCEPT ![p] = 0]
      /\ e.nPeers = d.nPeers - One(d.nValid[p] # 0)
      /\ e.stalling = d.stalling \ {p} /\ e.nullPit = d.nullPit
  BY DEF Finalized
<1>2. e = [by |-> e.by, queue |-> e.queue, valid |-> e.valid, partial |-> e.partial,
           nBlocks |-> e.nBlocks, nValid |-> e.nValid, nPeers |-> e.nPeers,
           stalling |-> e.stalling, nullPit |-> e.nullPit]
  BY <1>1 DEF Finalized
<1>3. One(d.nValid[p] # 0) \in {0, 1}
  BY DEF One
<1>4. e \in Downloads
  BY <1>0, <1>1, <1>2, <1>3, IsDownloads
<1>5. \A b \in Blocks, q \in Peers : d.by[b] = q <=> b \in d.queue[q]
  BY DEF Consistent
<1>6. \A b \in Blocks : e.by[b] = IF d.by[b] = p THEN NULL ELSE d.by[b]
  BY <1>1, <1>5
<1>7. \A q \in Peers : e.queue[q] = IF q = p THEN {} ELSE d.queue[q]
  BY <1>0, <1>1
<1>8. \A q \in Peers \ {p} : d.queue[q] \cap d.queue[p] = {}
  BY <1>0, <1>5
<1>9. \A q \in Peers : e.queue[q] \cap e.valid = IF q = p THEN {} ELSE d.queue[q] \cap d.valid
  BY <1>1, <1>7, <1>8
<1>10. \A b \in Blocks, q \in Peers : e.by[b] = q <=> b \in e.queue[q]
  BY <1>5, <1>6, <1>7, PeersAssumption
<1>11. \A b \in e.valid \cup e.partial : InFlight(e, b)
  BY <1>0, <1>1, <1>5, <1>6 DEF Consistent, InFlight
<1>12. ASSUME NEW q \in Peers
       PROVE  /\ e.nBlocks[q] = Cardinality(e.queue[q])
              /\ e.nValid[q] = Cardinality(e.queue[q] \cap e.valid)
              /\ e.nBlocks[q] <= MaxInTransit
  <2>1. CASE q = p
    <3>1. e.nBlocks[q] = 0 /\ e.nValid[q] = 0
      BY <1>0, <1>1, <2>1
    <3>2. e.queue[q] = {} /\ e.queue[q] \cap e.valid = {}
      BY <1>7, <1>9, <2>1
    <3>3. Cardinality({}) = 0
      BY FS_EmptySet
    <3> QED BY <3>1, <3>2, <3>3, LimitsAssumption
  <2>2. CASE q # p
    <3>1. e.nBlocks[q] = d.nBlocks[q] /\ e.nValid[q] = d.nValid[q]
      BY <1>0, <1>1, <2>2
    <3>2. e.queue[q] = d.queue[q] /\ e.queue[q] \cap e.valid = d.queue[q] \cap d.valid
      BY <1>7, <1>9, <2>2
    <3> QED BY <3>1, <3>2 DEF Consistent
  <2> QED BY <2>1, <2>2
<1>13. e.nPeers = Cardinality(Downloading(e))
  <2>1. \A q \in Peers \ {p} : q \in Downloading(d) <=> q \in Downloading(e)
    BY <1>9 DEF Downloading
  <2>2. Cardinality(Downloading(e)) = Cardinality(Downloading(d))
           - One(p \in Downloading(d)) + One(p \in Downloading(e))
    BY <2>1, CountPeers DEF Downloading
  <2>3. Cardinality(Downloading(d)) \in Nat /\ d.nPeers = Cardinality(Downloading(d))
    BY Finite DEF Downloading, Consistent
  <2>4. /\ d.queue[p] \cap d.valid \in SUBSET Blocks
        /\ d.nValid[p] = Cardinality(d.queue[p] \cap d.valid)
    BY <1>0 DEF Consistent
  <2>5. p \in Downloading(d) <=> d.nValid[p] # 0
    BY <2>4, CountZero DEF Downloading
  <2>6. p \notin Downloading(e)
    BY <1>9 DEF Downloading
  <2> QED BY <1>1, <2>2, <2>3, <2>5, <2>6 DEF One
<1>14. \A q \in e.stalling : e.queue[q] # {}
  BY <1>0, <1>1, <1>7 DEF Consistent
<1> QED BY <1>0, <1>1, <1>4, <1>6, <1>10, <1>11, <1>12, <1>13, <1>14 DEF Consistent

\* A change of partial and stalling alone touches no request.
LEMMA Marked ==
  ASSUME NEW d, NEW e \in Downloads, Consistent(d),
         e.by = d.by, e.queue = d.queue, e.valid = d.valid,
         e.nBlocks = d.nBlocks, e.nValid = d.nValid, e.nPeers = d.nPeers,
         e.nullPit = d.nullPit,
         \A b \in e.partial : InFlight(d, b), \A q \in e.stalling : d.queue[q] # {}
  PROVE  Consistent(e)
<1>1. Downloading(e) = Downloading(d)
  BY DEF Downloading
<1> QED BY <1>1 DEF Consistent, InFlight

\* Only a peer that owes a block is blamed.
LEMMA BlamedConsistent ==
  ASSUME NEW d, Consistent(d), NEW p \in Peers, NEW staller,
         staller = NULL \/ (staller \in Peers /\ d.queue[staller] # {})
  PROVE  Consistent(Blamed(p, d, staller)) /\ Blamed(p, d, staller).by = d.by
<1> DEFINE e == [d EXCEPT !.stalling = @ \cup {staller}]
<1>1. CASE Blamed(p, d, staller) = d
  BY <1>1
<1>2. CASE staller # NULL /\ Blamed(p, d, staller) = e
  <2>1. d \in Downloads
    BY DEF Consistent
  <2>2. /\ e.by = d.by /\ e.queue = d.queue /\ e.valid = d.valid /\ e.partial = d.partial
        /\ e.nBlocks = d.nBlocks /\ e.nValid = d.nValid /\ e.nPeers = d.nPeers
        /\ e.stalling = d.stalling \cup {staller} /\ e.nullPit = d.nullPit
    BY <2>1 DEF Downloads
  <2>3. e \in Downloads
    BY <1>2, <2>1 DEF Downloads
  <2> HIDE DEF e
  <2>4. (\A b \in e.partial : InFlight(d, b)) /\ \A q \in e.stalling : d.queue[q] # {}
    BY <1>2, <2>2 DEF Consistent
  <2> QED BY <1>2, <2>2, <2>3, <2>4, Marked
<1> QED BY <1>1, <1>2 DEF Blamed

\* A request of a compact block becomes partial.
LEMMA PartialConsistent ==
  ASSUME NEW d, Consistent(d), NEW b \in Blocks, InFlight(d, b)
  PROVE  LET e == [d EXCEPT !.partial = @ \cup {b}]
         IN  Consistent(e) /\ e.by = d.by
<1> DEFINE e == [d EXCEPT !.partial = @ \cup {b}]
<1>1. d \in Downloads
  BY DEF Consistent
<1>2. /\ e.by = d.by /\ e.queue = d.queue /\ e.valid = d.valid
      /\ e.partial = d.partial \cup {b}
      /\ e.nBlocks = d.nBlocks /\ e.nValid = d.nValid /\ e.nPeers = d.nPeers
      /\ e.stalling = d.stalling /\ e.nullPit = d.nullPit
  BY <1>1 DEF Downloads
<1>3. e \in Downloads
  BY <1>1 DEF Downloads
<1> HIDE DEF e
<1>4. (\A a \in e.partial : InFlight(d, a)) /\ \A q \in e.stalling : d.queue[q] # {}
  BY <1>2 DEF Consistent
<1>5. Consistent(e)
  BY <1>2, <1>3, <1>4, Marked
<1> QED BY <1>2, <1>5 DEF e

-----------------------------------------------------------------------------
(* What is known of a peer                                                 *)

\* m is n but for the announced blocks and the ban.
Keeps(n, m) ==
    /\ m \in NodeStates
    /\ m.sync = n.sync /\ m.preferred = n.preferred /\ m.common = n.common

\* Noting a block that a peer announces changes only the announced blocks.
LEMMA Availability ==
  ASSUME NEW n \in NodeStates, NEW K \in SUBSET Blocks, NEW b \in Blocks
  PROVE  /\ Keeps(n, ProcessBlockAvailability(n, K))
         /\ Keeps(n, UpdateBlockAvailability(n, b, K))
<1>1. \A x \in Blocks \cup {NULL}, y \in Blocks : BetterOf(x, y) \in Blocks
  BY DEF BetterOf
<1>2. Keeps(n, ProcessBlockAvailability(n, K))
  <2>1. CASE n.unknown \in K
    <3>1. n.best \in Blocks \cup {NULL} /\ n.unknown \in Blocks
      BY <2>1 DEF NodeStates
    <3> DEFINE y == BetterOf(n.best, n.unknown)
    <3>2. y \in Blocks
      BY <1>1, <3>1
    <3>3. ProcessBlockAvailability(n, K) = [n EXCEPT !.best = y, !.unknown = NULL]
      BY <2>1 DEF ProcessBlockAvailability
    <3> HIDE DEF y
    <3> QED BY <3>2, <3>3 DEF Keeps, NodeStates
  <2>2. CASE n.unknown \notin K
    BY <2>2 DEF ProcessBlockAvailability, Keeps
  <2> QED BY <2>1, <2>2
<1> DEFINE m == ProcessBlockAvailability(n, K)
<1>3. \A k \in NodeStates : /\ Keeps(k, [k EXCEPT !.best = BetterOf(k.best, b)])
                            /\ Keeps(k, [k EXCEPT !.unknown = b])
  BY <1>1 DEF Keeps, NodeStates
<1>4. m \in NodeStates
  BY <1>2 DEF Keeps
<1>5. Keeps(m, UpdateBlockAvailability(n, b, K))
  BY <1>3, <1>4 DEF UpdateBlockAvailability
<1> HIDE DEF m
<1>6. Keeps(n, m)
  BY <1>2 DEF m
<1> QED BY <1>2, <1>5, <1>6 DEF Keeps

\* A penalty changes only the ban.
LEMMA Penalised ==
  ASSUME NEW n \in NodeStates, NEW p, NEW penalty, NEW m \in Misbehaving(n, p, penalty)
  PROVE  Keeps(n, m)
<1>1. Keeps(n, n) /\ Keeps(n, [n EXCEPT !.ban = TRUE])
  BY DEF Keeps, NodeStates
<1>2. m \in {n, [n EXCEPT !.ban = TRUE]}
  BY DEF Misbehaving
<1> QED BY <1>1, <1>2

\* Such changes compose.
LEMMA KeepsTransitive ==
  ASSUME NEW n, NEW m, NEW k, Keeps(n, m), Keeps(m, k)
  PROVE  Keeps(n, k)
  BY DEF Keeps

-----------------------------------------------------------------------------
(* The invariant                                                           *)

\* Blocks are awaited from peers that are connected, and only until they are
\* stored.
AwaitedFromPeers ==
    \A b \in Blocks : InFlight(dl, b) =>
        b \notin haveData /\ status[dl.by[b]] \in {"ready", "closing"}

Preferred == {p \in Peers : node[p].preferred}
Syncing   == {p \in Peers : node[p].sync}

IInv ==
    /\ TypeOK
    /\ Consistent(dl)
    /\ AwaitedFromPeers
    /\ NothingSkipped
    /\ nPreferredDownload = Cardinality(Preferred)
    /\ nSyncStarted = Cardinality(Syncing)
    /\ \A p \in Peers : status[p] = "new" => node[p] = NewNode

\* The action of RequestedOnce
AsksOnce ==
    /\ dl'.nullPit = {}
    /\ \A b \in Blocks : (InFlight(dl, b)' /\ dl.by[b]' # dl.by[b]) =>
          ~InFlight(dl, b) /\ b \notin haveData

ChainTypes ==
    /\ known \subseteq Blocks /\ haveData \subseteq known
    /\ failed \subseteq known \ haveData
    /\ Anc[tip] \subseteq haveData /\ tip \in Blocks
    /\ ibd \in BOOLEAN

\* A block is only stored or marked as failed if it was neither.
LEMMA BlockProcessed ==
  ASSUME ChainTypes, NEW b \in Blocks, NEW requested \in BOOLEAN, NEW corrupt \in BOOLEAN,
         ProcessNewBlock(b, requested, corrupt)
  PROVE  ChainTypes' /\ haveData \subseteq haveData' /\ haveData' \subseteq haveData \cup {b}
<1>1. /\ known' = IF AcceptBlockHeader(b) = "ok" THEN known \cup {b} ELSE known
      /\ haveData' \in {haveData, haveData \cup {b}} /\ failed' \in {failed, failed \cup {b}}
      /\ failed' # failed => haveData' = haveData
      /\ haveData' # haveData \/ failed' # failed => Processes(b, requested)
      /\ tip' \in ActivateBestChain(haveData') /\ ibd' = ibd
  BY DEF ProcessNewBlock
<1>2. Processes(b, requested) => AcceptBlockHeader(b) = "ok" /\ b \notin haveData
  BY DEF Processes
<1>3. AcceptBlockHeader(b) = "ok" => b \notin failed
  BY DEF AcceptBlockHeader, ChainTypes
<1>4. /\ known' \subseteq Blocks /\ haveData' \subseteq known'
      /\ failed' \subseteq known' \ haveData' /\ haveData \subseteq haveData'
  BY <1>1, <1>2, <1>3 DEF ChainTypes
<1>5. tip' = tip \/ tip' \in Linked(haveData')
  BY <1>1 DEF ActivateBestChain
<1>6. tip' \in Blocks /\ Anc[tip'] \subseteq haveData'
  BY <1>4, <1>5 DEF Linked, ChainTypes
<1> QED BY <1>1, <1>4, <1>6 DEF ChainTypes

\* Handling a message of p: p stays, what was kept of it is kept, and blocks
\* that arrive are no longer awaited.
LEMMA MessageStep ==
  ASSUME IInv, NEW p \in Peers, status[p] = "ready", NEW m,
         ChainTypes', haveData \subseteq haveData',
         UNCHANGED <<status, nPreferredDownload, nSyncStarted>>,
         node' = [node EXCEPT ![p] = m], Keeps(node[p], m),
         Consistent(dl'), Asks(dl, dl', p, haveData),
         \A b \in haveData' \ haveData : dl'.by[b] = NULL
  PROVE  IInv' /\ AsksOnce
<1>1. node \in [Peers -> NodeStates] /\ TypeOK
  BY DEF IInv, TypeOK
<1>2. node' \in [Peers -> NodeStates]
  BY <1>1 DEF Keeps
<1>3. \A q \in Peers : /\ node'[q].sync = node[q].sync
                       /\ node'[q].preferred = node[q].preferred
                       /\ node'[q].common = node[q].common
  BY <1>1 DEF Keeps
<1>4. TypeOK'
  BY <1>1, <1>2 DEF ChainTypes, TypeOK, Consistent
<1>5. AwaitedFromPeers'
  <2> SUFFICES ASSUME NEW b \in Blocks, dl'.by[b] # NULL
               PROVE  b \notin haveData' /\ status[dl'.by[b]] \in {"ready", "closing"}
    BY DEF AwaitedFromPeers, InFlight
  <2>1. b \in haveData' => b \in haveData
    OBVIOUS
  <2>2. CASE dl'.by[b] = dl.by[b]
    BY <2>1, <2>2 DEF IInv, AwaitedFromPeers, InFlight
  <2>3. CASE b \notin haveData /\ dl'.by[b] = p
    BY <2>1, <2>3
  <2> QED BY <2>2, <2>3 DEF Asks
<1>6. NothingSkipped'
  BY <1>3 DEF NothingSkipped, IInv
<1>7. Preferred' = Preferred /\ Syncing' = Syncing
  BY <1>3 DEF Preferred, Syncing
<1>8. \A q \in Peers : status'[q] = "new" => node'[q] = NewNode
  BY <1>1 DEF IInv
<1>9. AsksOnce
  BY DEF AsksOnce, Asks, InFlight, Consistent
<1> QED BY <1>4, <1>5, <1>6, <1>7, <1>8, <1>9 DEF IInv

\* What FindNextBlocksToDownload returns: blocks that are neither here nor in
\* flight, no more than asked for; a peer that owes a block; a last common
\* block that is linked.
LEMMA FindNext ==
  ASSUME IInv, NEW p \in Peers, NEW count \in Nat, NEW f,
         f = FindNextBlocksToDownload(p, count)
  PROVE  /\ f.node \in NodeStates
         /\ f.node.sync = node[p].sync /\ f.node.preferred = node[p].preferred
         /\ f.node.common # NULL => Anc[f.node.common] \subseteq haveData
         /\ f.fetch \in SUBSET Blocks /\ Cardinality(f.fetch) <= count
         /\ \A b \in f.fetch : b \notin haveData /\ ~InFlight(dl, b)
         /\ f.staller = NULL \/ (f.staller \in Peers /\ dl.queue[f.staller] # {})
<1> DEFINE
      n      == ProcessBlockAvailability(node[p], known)
      guess  == IF n.common # NULL THEN n.common
                ELSE Highest({a \in Anc[tip] : Height[a] <= Height[n.best]})
      common == LastCommonAncestor(guess, n.best)
      end    == Height[common] + Window
      walk   == {b \in Anc[n.best] \ Anc[common] :
                    Height[b] <= end + 1 /\ Anc[b] \cap failed \subseteq Anc[common]}
      wanted == walk \ haveData
      free   == {b \in wanted : ~InFlight(dl, b)}
      inside == {b \in free : Height[b] <= end}
      held   == wanted \ free
      waits  == IF held = {} THEN NULL ELSE dl.by[Lowest(held)]
<1>1. /\ node[p] \in NodeStates /\ known \in SUBSET Blocks
      /\ tip \in Blocks /\ Anc[tip] \subseteq haveData
  BY BlocksAssumption DEF IInv, TypeOK
<1>2. Keeps(node[p], n)
  BY <1>1, Availability, BlocksAssumption
<1>3. n.common # NULL => Anc[n.common] \subseteq haveData
  BY <1>2 DEF Keeps, IInv, NothingSkipped
<1>4. n \in NodeStates /\ n.sync = node[p].sync /\ n.preferred = node[p].preferred
      /\ n.best \in Blocks \cup {NULL} /\ n.common \in Blocks \cup {NULL}
  BY <1>2 DEF Keeps, NodeStates
<1>5. CASE n.best = NULL \/ Work[n.best] < Work[tip]
  <2>1. f = [node |-> n, fetch |-> {}, staller |-> NULL]
    BY <1>5 DEF FindNextBlocksToDownload
  <2> HIDE DEF n
  <2> QED BY <1>3, <1>4, <2>1, FS_EmptySet
<1>6. CASE ~(n.best = NULL \/ Work[n.best] < Work[tip])
  <2>1. f = [node    |-> [n EXCEPT !.common = LastLinked(common, walk)],
             fetch   |-> FirstOf(inside, count),
             staller |-> IF inside = {} /\ free # {} /\ waits # p THEN waits ELSE NULL]
    BY <1>6 DEF FindNextBlocksToDownload
  <2>2. n.best \in Blocks
    BY <1>4, <1>6
  <2>3. guess \in Blocks /\ Anc[guess] \subseteq haveData
    <3>1. CASE n.common # NULL
      BY <1>3, <1>4, <3>1
    <3>2. CASE n.common = NULL
      <4> DEFINE S == {a \in Anc[tip] : Height[a] <= Height[n.best]}
      <4>1. S \in SUBSET Anc[tip]
        OBVIOUS
      <4>2. Genesis \in S
        <5>1. Height[Genesis] = 0
          <6>1. Cardinality({Genesis}) = 1
            BY FS_Singleton
          <6>2. Height[Genesis] = Cardinality(Anc[Genesis]) - 1 /\ Anc[Genesis] = {Genesis}
            BY BlocksAssumption DEF Height
          <6> QED BY <6>1, <6>2
        <5>2. Anc[n.best] \in SUBSET Blocks /\ n.best \in Anc[n.best]
          BY <2>2, BlocksAssumption
        <5>3. Cardinality(Anc[n.best]) \in Nat /\ Cardinality(Anc[n.best]) # 0
          BY <5>2, CountZero
        <5>4. Height[n.best] = Cardinality(Anc[n.best]) - 1
          BY <2>2 DEF Height
        <5>5. Height[Genesis] <= Height[n.best]
          BY <5>1, <5>3, <5>4
        <5> QED BY <1>1, <5>5, BlocksAssumption
      <4> HIDE DEF S
      <4>3. Highest(S) \in S
        BY <1>1, <4>1, <4>2, HighestIn
      <4>4. guess = Highest(S)
        BY <3>2 DEF S
      <4> HIDE DEF guess
      <4> QED BY <1>1, <4>1, <4>3, <4>4, BlocksAssumption
    <3> QED BY <3>1, <3>2
  <2> HIDE DEF n, guess
  <2>4. common \in Blocks /\ Anc[common] \subseteq haveData
    <3>1. Anc[guess] \cap Anc[n.best] # {}
      BY <2>2, <2>3, BlocksAssumption
    <3>2. Highest(Anc[guess] \cap Anc[n.best]) \in Anc[guess]
      BY <2>2, <2>3, <3>1, HighestIn
    <3>3. common = Highest(Anc[guess] \cap Anc[n.best])
      BY DEF LastCommonAncestor
    <3> HIDE DEF common
    <3>4. common \in Anc[guess]
      BY <3>2, <3>3
    <3> QED BY <2>3, <3>4, BlocksAssumption
  <2>5. walk \in SUBSET Anc[n.best] /\ walk \in SUBSET Blocks
    BY <2>2, BlocksAssumption
  <2> HIDE DEF common
  <2>6. /\ inside \in SUBSET Anc[n.best] /\ inside \in SUBSET Blocks
        /\ \A b \in inside : b \notin haveData /\ ~InFlight(dl, b)
        /\ held \in SUBSET Anc[n.best]
        /\ \A b \in held : b \in Blocks /\ InFlight(dl, b)
    BY <2>5
  <2>7. LastLinked(common, walk) \in Blocks /\ Anc[LastLinked(common, walk)] \subseteq haveData
    <3> HIDE DEF walk
    <3>1. CASE walk \cap Linked(haveData) = {}
      BY <2>4, <3>1 DEF LastLinked
    <3>2. CASE walk \cap Linked(haveData) # {}
      <4>1. Highest(walk \cap Linked(haveData)) \in walk \cap Linked(haveData)
        BY <2>2, <2>5, <3>2, HighestIn
      <4> QED BY <3>2, <4>1 DEF LastLinked, Linked
    <3> QED BY <3>1, <3>2
  <2>8. FirstOf(inside, count) \subseteq inside /\ Cardinality(FirstOf(inside, count)) <= count
    <3> HIDE DEF inside
    <3> QED BY <2>2, <2>6, FirstOfBounded
  <2>9. waits = NULL \/ (waits \in Peers /\ dl.queue[waits] # {})
    <3>1. CASE held # {}
      <4> HIDE DEF held
      <4>1. Lowest(held) \in held
        BY <2>2, <2>6, <3>1, LowestIn
      <4>2. Lowest(held) \in Blocks /\ dl.by[Lowest(held)] # NULL
        BY <2>6, <4>1 DEF InFlight
      <4>3. dl.by \in [Blocks -> Peers \cup {NULL}]
        BY DEF IInv, Consistent, Downloads
      <4>4. dl.by[Lowest(held)] \in Peers
        BY <4>2, <4>3
      <4>5. Lowest(held) \in dl.queue[dl.by[Lowest(held)]]
        BY <4>2, <4>4 DEF IInv, Consistent
      <4> QED BY <3>1, <4>4, <4>5
    <3> QED BY <3>1
  <2> DEFINE c == LastLinked(common, walk)
             F == FirstOf(inside, count)
             st == IF inside = {} /\ free # {} /\ waits # p THEN waits ELSE NULL
  <2>10. st = NULL \/ (st \in Peers /\ dl.queue[st] # {})
    <3> HIDE DEF waits, inside, free
    <3> QED BY <2>9
  <2>11. f.node = [n EXCEPT !.common = c] /\ f.fetch = F /\ f.staller = st
    BY <2>1
  <2>12. c \in Blocks /\ Anc[c] \subseteq haveData
    BY <2>7
  <2>13. /\ F \in SUBSET Blocks /\ Cardinality(F) <= count
         /\ \A b \in F : b \notin haveData /\ ~InFlight(dl, b)
    <3> HIDE DEF inside
    <3> QED BY <2>6, <2>8
  <2> HIDE DEF c, F, st
  <2>14. /\ f.node \in NodeStates /\ f.node.common = c
         /\ f.node.sync = node[p].sync /\ f.node.preferred = node[p].preferred
    BY <1>4, <2>11, <2>12 DEF NodeStates
  <2> QED BY <2>10, <2>11, <2>12, <2>13, <2>14
<1> QED BY <1>5, <1>6

-----------------------------------------------------------------------------
(* Peers come and go, and are asked                                        *)

\* A step that changes the state of p and requests of it, and no block
LEMMA PeerStep ==
  ASSUME IInv, NEW p \in Peers, NEW s \in Statuses \ {"new"}, NEW m \in NodeStates,
         UNCHANGED chain,
         status' = [status EXCEPT ![p] = s], node' = [node EXCEPT ![p] = m],
         m.common # NULL => Anc[m.common] \subseteq haveData,
         nPreferredDownload' = nPreferredDownload - One(node[p].preferred) + One(m.preferred),
         nSyncStarted' = nSyncStarted - One(node[p].sync) + One(m.sync),
         Consistent(dl'), Asks(dl, dl', p, haveData),
         s \in {"ready", "closing"} \/ \A b \in Blocks : dl'.by[b] # p
  PROVE  IInv' /\ AsksOnce
<1>1. /\ node \in [Peers -> NodeStates] /\ status \in [Peers -> Statuses] /\ TypeOK
      /\ nPreferredDownload \in Int /\ nSyncStarted \in Int
  BY DEF IInv, TypeOK
<1>2. node' \in [Peers -> NodeStates] /\ status' \in [Peers -> Statuses]
  BY <1>1
<1>3. /\ node'[p] = m /\ \A q \in Peers \ {p} : node'[q] = node[q]
      /\ status'[p] = s /\ \A q \in Peers \ {p} : status'[q] = status[q]
  BY <1>1
<1>4. nPreferredDownload' \in Int /\ nSyncStarted' \in Int
  BY <1>1 DEF One
<1>5. TypeOK'
  BY <1>1, <1>2, <1>4 DEF TypeOK, chain, Consistent
<1>6. AwaitedFromPeers'
  <2> SUFFICES ASSUME NEW b \in Blocks, dl'.by[b] # NULL
               PROVE  b \notin haveData /\ status'[dl'.by[b]] \in {"ready", "closing"}
    BY DEF AwaitedFromPeers, InFlight, chain
  <2>1. dl'.by[b] \in Peers
    BY DEF Consistent, Downloads
  <2>2. b \notin haveData
    BY DEF Asks, IInv, AwaitedFromPeers, InFlight
  <2>3. CASE dl'.by[b] = p
    BY <1>3, <2>2, <2>3
  <2>4. CASE dl'.by[b] # p
    <3>1. dl'.by[b] = dl.by[b]
      BY <2>4 DEF Asks
    <3>2. status[dl.by[b]] \in {"ready", "closing"}
      BY <3>1 DEF IInv, AwaitedFromPeers, InFlight
    <3> QED BY <1>3, <2>1, <2>2, <2>4, <3>1, <3>2
  <2> QED BY <2>3, <2>4
<1>7. NothingSkipped'
  BY <1>3 DEF NothingSkipped, IInv, chain
<1>8. /\ nPreferredDownload' = Cardinality(Preferred')
      /\ nSyncStarted' = Cardinality(Syncing')
  <2>1. /\ \A q \in Peers \ {p} : q \in Preferred <=> q \in Preferred'
        /\ \A q \in Peers \ {p} : q \in Syncing <=> q \in Syncing'
    BY <1>3 DEF Preferred, Syncing
  <2>2. /\ Preferred \in SUBSET Peers /\ Preferred' \in SUBSET Peers
        /\ Syncing \in SUBSET Peers /\ Syncing' \in SUBSET Peers
    BY DEF Preferred, Syncing
  <2>3. /\ Cardinality(Preferred') = Cardinality(Preferred)
              - One(p \in Preferred) + One(p \in Preferred')
        /\ Cardinality(Syncing') = Cardinality(Syncing)
              - One(p \in Syncing) + One(p \in Syncing')
    BY <2>1, <2>2, CountPeers
  <2>4. /\ p \in Preferred <=> node[p].preferred
        /\ p \in Preferred' <=> m.preferred
        /\ p \in Syncing <=> node[p].sync
        /\ p \in Syncing' <=> m.sync
    BY <1>3 DEF Preferred, Syncing
  <2>5. nPreferredDownload = Cardinality(Preferred) /\ nSyncStarted = Cardinality(Syncing)
    BY DEF IInv
  <2> QED BY <2>3, <2>4, <2>5 DEF One
<1>9. \A q \in Peers : status'[q] = "new" => node'[q] = NewNode
  BY <1>3 DEF IInv
<1>10. AsksOnce
  BY DEF AsksOnce, Asks, InFlight, Consistent
<1> QED BY <1>5, <1>6, <1>7, <1>8, <1>9, <1>10 DEF IInv

\* Nobody who has not sent a version, or has left, is asked for a block.
LEMMA NotAsked ==
  ASSUME IInv, NEW p \in Peers, status[p] \notin {"ready", "closing"}
  PROVE  \A b \in Blocks : dl.by[b] # p
  BY PeersAssumption DEF IInv, AwaitedFromPeers, InFlight

\* The state of a new peer
LEMMA NewNodeIsState ==
  NewNode \in NodeStates /\ NewNode.common = NULL /\ ~NewNode.sync /\ ~NewNode.preferred
  BY DEF NewNode, NodeStates

\* A connection is accepted: its state was already that of a new peer.
LEMMA InitializeNodeStep ==
  ASSUME IInv, NEW p \in Peers, InitializeNode(p)
  PROVE  IInv' /\ AsksOnce
<1>1. node[p] = NewNode /\ nPreferredDownload \in Int /\ nSyncStarted \in Int
  BY DEF InitializeNode, IInv, TypeOK
<1>2. /\ nPreferredDownload' = nPreferredDownload - One(node[p].preferred) + One(NewNode.preferred)
      /\ nSyncStarted' = nSyncStarted - One(node[p].sync) + One(NewNode.sync)
  BY <1>1, NewNodeIsState DEF InitializeNode, One
<1>3. UNCHANGED <<chain, dl>> /\ status[p] = "new"
      /\ status' = [status EXCEPT ![p] = "connected"] /\ node' = [node EXCEPT ![p] = NewNode]
  BY DEF InitializeNode
<1>4. \A b \in Blocks : dl'.by[b] # p
  BY <1>3, NotAsked
<1>5. Consistent(dl') /\ Asks(dl, dl', p, haveData)
  BY <1>3, AsksNothing DEF IInv
<1>6. "connected" \in Statuses \ {"new"}
  BY DEF Statuses
<1> QED BY <1>2, <1>3, <1>4, <1>5, <1>6, NewNodeIsState, PeerStep

\* The version decides whether the peer is preferred, and is counted.
LEMMA VersionStep ==
  ASSUME IInv, NEW p \in Peers, Version(p)
  PROVE  IInv' /\ AsksOnce
<1> DEFINE m == [node[p] EXCEPT !.preferred = p \in Outbound \ Clients]
<1>1. node[p] \in NodeStates /\ node \in [Peers -> NodeStates] /\ nSyncStarted \in Int
  BY DEF IInv, TypeOK
<1>2. /\ m \in NodeStates /\ m.common = node[p].common /\ m.sync = node[p].sync
      /\ m.preferred <=> p \in Outbound \ Clients
  <2>1. \A x \in BOOLEAN :
           LET k == [node[p] EXCEPT !.preferred = x]
           IN  /\ k \in NodeStates /\ k.common = node[p].common /\ k.sync = node[p].sync
               /\ k.preferred = x
    BY <1>1 DEF NodeStates
  <2>2. (p \in Outbound \ Clients) \in BOOLEAN
    OBVIOUS
  <2> QED BY <2>1, <2>2
<1>3. /\ UNCHANGED <<chain, dl, nSyncStarted>>
      /\ status' = [status EXCEPT ![p] = "ready"] /\ node' = [node EXCEPT ![p] = m]
      /\ nPreferredDownload' = nPreferredDownload - One(node[p].preferred)
                                  + One(p \in Outbound \ Clients)
  BY <1>1 DEF Version
<1> HIDE DEF m
<1>4. m.common # NULL => Anc[m.common] \subseteq haveData
  BY <1>2 DEF IInv, NothingSkipped
<1>5. /\ nPreferredDownload' = nPreferredDownload - One(node[p].preferred) + One(m.preferred)
      /\ nSyncStarted' = nSyncStarted - One(node[p].sync) + One(m.sync)
  BY <1>1, <1>2, <1>3 DEF One
<1>6. Consistent(dl') /\ Asks(dl, dl', p, haveData)
  BY <1>3, AsksNothing DEF IInv
<1>7. "ready" \in Statuses \ {"new"}
  BY DEF Statuses
<1> QED BY <1>2, <1>3, <1>4, <1>5, <1>6, <1>7, PeerStep

\* A peer to be disconnected keeps its requests for now.
LEMMA DisconnectStep ==
  ASSUME IInv, NEW p \in Peers, Disconnect(p)
  PROVE  IInv' /\ AsksOnce
<1> DEFINE s == IF status[p] = "ready" THEN "closing" ELSE "refused"
<1>1. /\ node[p] \in NodeStates /\ node \in [Peers -> NodeStates]
      /\ status \in [Peers -> Statuses] /\ nSyncStarted \in Int /\ nPreferredDownload \in Int
  BY DEF IInv, TypeOK
<1>2. /\ UNCHANGED <<chain, dl, nPreferredDownload, nSyncStarted>>
      /\ status[p] \in {"connected", "ready"}
      /\ status' = [status EXCEPT ![p] = s] /\ node' = [node EXCEPT ![p] = node[p]]
  BY <1>1 DEF Disconnect
<1>3. s \in Statuses \ {"new"} /\ (s \in {"ready", "closing"} \/ \A b \in Blocks : dl'.by[b] # p)
  BY <1>2, NotAsked DEF Statuses
<1> HIDE DEF s
<1>4. node[p].common # NULL => Anc[node[p].common] \subseteq haveData
  BY DEF IInv, NothingSkipped
<1>5. /\ nPreferredDownload' = nPreferredDownload - One(node[p].preferred) + One(node[p].preferred)
      /\ nSyncStarted' = nSyncStarted - One(node[p].sync) + One(node[p].sync)
  BY <1>1, <1>2 DEF One
<1>6. Consistent(dl') /\ Asks(dl, dl', p, haveData)
  BY <1>2, AsksNothing DEF IInv
<1> QED BY <1>1, <1>2, <1>3, <1>4, <1>5, <1>6, PeerStep

\* A peer that leaves is no longer counted and owes nothing.
LEMMA FinalizeNodeStep ==
  ASSUME IInv, NEW p \in Peers, FinalizeNode(p)
  PROVE  IInv' /\ AsksOnce
<1>1. /\ nSyncStarted \in Int /\ nPreferredDownload \in Int /\ Consistent(dl)
  BY DEF IInv, TypeOK
<1>2. /\ UNCHANGED chain /\ dl' = Finalized(dl, p)
      /\ status' = [status EXCEPT ![p] = "gone"] /\ node' = [node EXCEPT ![p] = NewNode]
  BY DEF FinalizeNode
<1>3. /\ nPreferredDownload' = nPreferredDownload - One(node[p].preferred) + One(NewNode.preferred)
      /\ nSyncStarted' = nSyncStarted - One(node[p].sync) + One(NewNode.sync)
  BY <1>1, NewNodeIsState DEF FinalizeNode, One
<1>4. Consistent(dl') /\ \A b \in Blocks : dl'.by[b] = IF dl.by[b] = p THEN NULL ELSE dl.by[b]
  BY <1>1, <1>2, Left
<1>5. Asks(dl, dl', p, haveData) /\ \A b \in Blocks : dl'.by[b] # p
  BY <1>4, PeersAssumption DEF Asks
<1>6. "gone" \in Statuses \ {"new"}
  BY DEF Statuses
<1> QED BY <1>2, <1>3, <1>4, <1>5, <1>6, NewNodeIsState, PeerStep

-----------------------------------------------------------------------------
(* Messages                                                                *)

\* Blocks that are neither here nor in flight, within the limit of p
Requestable(p, S) ==
    /\ S \in SUBSET Blocks
    /\ \A b \in S : b \notin haveData /\ ~InFlight(dl, b)
    /\ Cardinality(S) + dl.nBlocks[p] <= MaxInTransit

\* Requesting such blocks is consistent.
LEMMA RequestOK ==
  ASSUME IInv, NEW p \in Peers, NEW S, Requestable(p, S), NEW e,
         NEW validated \in BOOLEAN, NEW withPartial \in BOOLEAN,
         e = MarkBlocksAsInFlight(dl, p, S, validated, withPartial)
  PROVE  /\ Consistent(e) /\ Asks(dl, e, p, haveData)
         /\ \A b \in Blocks : e.by[b] = IF b \in S THEN p ELSE dl.by[b]
<1>1. Consistent(dl)
  BY DEF IInv
<1>2. /\ Consistent(e)
      /\ \A b \in Blocks : e.by[b] = IF b \in S THEN p ELSE dl.by[b]
  BY <1>1, Requested DEF Requestable
<1> QED BY <1>2 DEF Asks, InFlight, Requestable

\* The same for a single block
LEMMA RequestOneOK ==
  ASSUME IInv, NEW p \in Peers, NEW b \in Blocks, NEW e,
         NEW validated \in BOOLEAN, NEW withPartial \in BOOLEAN,
         b \notin haveData, ~InFlight(dl, b), dl.nBlocks[p] < MaxInTransit,
         e = MarkBlocksAsInFlight(dl, p, {b}, validated, withPartial)
  PROVE  Consistent(e) /\ Asks(dl, e, p, haveData) /\ e.by[b] = p
<1>1. Cardinality({b}) = 1
  BY FS_Singleton
<1>2. dl.nBlocks[p] \in Int
  BY DEF IInv, TypeOK, Downloads
<1>3. Cardinality({b}) + dl.nBlocks[p] <= MaxInTransit
  BY <1>1, <1>2, LimitsAssumption
<1>4. Requestable(p, {b})
  BY <1>3 DEF Requestable
<1>5. /\ Consistent(e) /\ Asks(dl, e, p, haveData)
      /\ \A a \in Blocks : e.by[a] = IF a \in {b} THEN p ELSE dl.by[a]
  BY <1>4, RequestOK
<1> QED BY <1>5

\* A received block is given up and, if it is stored, no longer awaited.
LEMMA ReceivedOK ==
  ASSUME NEW d, Consistent(d), NEW p, NEW H, Asks(dl, d, p, H), NEW b \in Blocks, NEW e,
         e = MarkBlockAsReceived(d, b)
  PROVE  Consistent(e) /\ Asks(dl, e, p, H) /\ e.by[b] = NULL
<1>1. Consistent(e) /\ e.by[b] = NULL /\ \A a \in Blocks \ {b} : e.by[a] = d.by[a]
  BY Received
<1> QED BY <1>1 DEF Asks

\* INV requests a block that is not in the index.
LEMMA InvStep ==
  ASSUME IInv, NEW p \in Peers, NEW b \in Blocks, NEW direct \in BOOLEAN, Inv(p, b, direct)
  PROVE  IInv' /\ AsksOnce
<1> DEFINE m == UpdateBlockAvailability(node[p], b, known)
<1>1. /\ node[p] \in NodeStates /\ node \in [Peers -> NodeStates]
      /\ known \in SUBSET Blocks /\ haveData \subseteq known /\ ChainTypes
  BY DEF IInv, TypeOK, ChainTypes
<1>2. Keeps(node[p], m)
  BY <1>1, Availability
<1>3. /\ status[p] = "ready" /\ node' = [node EXCEPT ![p] = m]
      /\ UNCHANGED <<status, nPreferredDownload, nSyncStarted>> /\ UNCHANGED chain
  BY DEF Inv
<1> HIDE DEF m
<1>4. ChainTypes' /\ haveData' = haveData
  BY <1>1, <1>3 DEF ChainTypes, chain
<1>5. Consistent(dl') /\ Asks(dl, dl', p, haveData)
  <2>1. CASE dl' = dl
    BY <2>1, AsksNothing DEF IInv
  <2>2. CASE /\ b \notin known /\ ~InFlight(dl, b) /\ dl.nBlocks[p] < MaxInTransit
             /\ dl' = MarkBlocksAsInFlight(dl, p, {b}, FALSE, FALSE)
    BY <1>1, <2>2, RequestOneOK
  <2> QED BY <2>1, <2>2 DEF Inv
<1> QED BY <1>2, <1>3, <1>4, <1>5, MessageStep

\* The direct fetch of HEADERS stays within the limit.
LEMMA DirectFetchOK ==
  ASSUME IInv, NEW p \in Peers, NEW last \in Blocks
  PROVE  Requestable(p, DirectFetch(p, last))
<1> DEFINE wanted == {b \in Anc[last] \ Anc[tip] :
                         b \notin haveData /\ ~InFlight(dl, b) /\ CanServe(p, Parent[b])}
           room == MaxInTransit - dl.nBlocks[p]
<1>1. dl.nBlocks[p] \in Int /\ dl.nBlocks[p] <= MaxInTransit
  BY DEF IInv, Consistent, Downloads
<1>2. room \in Nat
  BY <1>1, LimitsAssumption
<1>3. wanted \in SUBSET Anc[last] /\ wanted \in SUBSET Blocks
  BY BlocksAssumption
<1>4. DirectFetch(p, last) \in {FirstOf(wanted, room), {}}
  BY DEF DirectFetch
<1>5. \A b \in wanted : b \notin haveData /\ ~InFlight(dl, b)
  OBVIOUS
<1>6. room = MaxInTransit - dl.nBlocks[p]
  OBVIOUS
<1> HIDE DEF wanted, room
<1>7. FirstOf(wanted, room) \subseteq wanted /\ Cardinality(FirstOf(wanted, room)) <= room
  BY <1>2, <1>3, FirstOfBounded
<1>8. CASE DirectFetch(p, last) = {}
  <2>1. Cardinality({}) = 0
    BY FS_EmptySet
  <2> QED BY <1>1, <1>8, <2>1, LimitsAssumption DEF Requestable
<1>9. CASE DirectFetch(p, last) = FirstOf(wanted, room)
  <2>1. Cardinality(FirstOf(wanted, room)) \in Nat
    BY <1>3, <1>7, Finite
  <2>2. Cardinality(FirstOf(wanted, room)) + dl.nBlocks[p] <= MaxInTransit
    BY <1>1, <1>6, <1>7, <2>1, LimitsAssumption
  <2> QED BY <1>3, <1>5, <1>7, <1>9, <2>2 DEF Requestable
<1> QED BY <1>4, <1>8, <1>9

\* HEADERS that connect only request what DirectFetch allows.
LEMMA HeadersAcceptedOK ==
  ASSUME IInv, NEW p \in Peers, NEW last \in Blocks, NEW K \in SUBSET Blocks,
         NEW direct \in BOOLEAN, HeadersAccepted(p, last, K, direct)
  PROVE  /\ node' = [node EXCEPT ![p] = UpdateBlockAvailability(node[p], last, K)]
         /\ Keeps(node[p], UpdateBlockAvailability(node[p], last, K))
         /\ Consistent(dl') /\ Asks(dl, dl', p, haveData)
<1>1. node[p] \in NodeStates /\ node \in [Peers -> NodeStates]
  BY DEF IInv, TypeOK
<1>2. /\ node' = [node EXCEPT ![p] = UpdateBlockAvailability(node[p], last, K)]
      /\ Keeps(node[p], UpdateBlockAvailability(node[p], last, K))
  BY <1>1, Availability DEF HeadersAccepted
<1>3. CASE dl' = dl
  BY <1>2, <1>3, AsksNothing DEF IInv
<1>4. CASE dl' = MarkBlocksAsInFlight(dl, p, DirectFetch(p, last), TRUE, FALSE)
  <2>1. Requestable(p, DirectFetch(p, last))
    BY DirectFetchOK
  <2> DEFINE S == DirectFetch(p, last)
             e == MarkBlocksAsInFlight(dl, p, S, TRUE, FALSE)
  <2>2. Consistent(e) /\ Asks(dl, e, p, haveData)
    <3>1. \A x, y \in BOOLEAN : LET k == MarkBlocksAsInFlight(dl, p, S, x, y)
                                IN  Consistent(k) /\ Asks(dl, k, p, haveData)
      BY <2>1, RequestOK
    <3> QED BY <3>1
  <2> QED BY <1>2, <1>4, <2>2
<1> QED BY <1>3, <1>4 DEF HeadersAccepted

\* HEADERS adds to the index and may request blocks.
LEMMA HeadersStep ==
  ASSUME IInv, NEW p \in Peers, NEW first \in Blocks, NEW last \in Blocks,
         NEW direct \in BOOLEAN, Headers(p, first, last, direct)
  PROVE  IInv' /\ AsksOnce
<1> DEFINE headers  == {b \in Anc[last] : first \in Anc[b]}
           refused  == {b \in headers : AcceptBlockHeader(b) \in {"duplicate", "badparent"}}
           accepted == {b \in headers : Anc[b] \cap refused = {}}
<1>1. /\ node[p] \in NodeStates /\ node \in [Peers -> NodeStates]
      /\ known \in SUBSET Blocks /\ ChainTypes /\ Consistent(dl)
  BY DEF IInv, TypeOK, ChainTypes
<1>2. headers \in SUBSET Blocks /\ accepted \in SUBSET Blocks
  BY BlocksAssumption
<1>3. /\ status[p] = "ready" /\ UNCHANGED <<haveData, failed, tip, ibd>>
      /\ UNCHANGED <<status, nPreferredDownload, nSyncStarted>>
  BY DEF Headers
<1>4. \/ /\ \E n \in Misbehaving(UpdateBlockAvailability(node[p], last, known), p, "some") :
               node' = [node EXCEPT ![p] = n]
         /\ UNCHANGED <<known, dl>>
      \/ /\ known' = known \cup accepted
         /\ \E n \in Misbehaving(node[p], p, HeaderPenalty(first)) : node' = [node EXCEPT ![p] = n]
         /\ UNCHANGED dl
      \/ known' = known \cup headers /\ HeadersAccepted(p, last, known', direct)
  BY DEF Headers
<1> HIDE DEF headers, refused, accepted
<1>5. known' \in SUBSET Blocks /\ known \subseteq known'
  BY <1>1, <1>2, <1>4
<1>6. ChainTypes' /\ haveData \subseteq haveData' /\ haveData' \ haveData = {}
  BY <1>1, <1>3, <1>5 DEF ChainTypes
<1>7. \E m : node' = [node EXCEPT ![p] = m] /\ Keeps(node[p], m)
             /\ Consistent(dl') /\ Asks(dl, dl', p, haveData)
  <2>1. CASE /\ \E n \in Misbehaving(UpdateBlockAvailability(node[p], last, known), p, "some") :
                   node' = [node EXCEPT ![p] = n]
             /\ UNCHANGED <<known, dl>>
    <3> DEFINE u == UpdateBlockAvailability(node[p], last, known)
    <3>1. Keeps(node[p], u)
      BY <1>1, Availability
    <3>2. PICK n \in Misbehaving(u, p, "some") : node' = [node EXCEPT ![p] = n]
      BY <2>1
    <3> HIDE DEF u
    <3>3. Keeps(node[p], n)
      <4>1. u \in NodeStates
        BY <3>1 DEF Keeps
      <4>2. Keeps(u, n)
        BY <4>1, Penalised
      <4> QED BY <3>1, <4>2, KeepsTransitive
    <3> QED BY <1>1, <2>1, <3>2, <3>3, AsksNothing
  <2>2. CASE /\ \E n \in Misbehaving(node[p], p, HeaderPenalty(first)) :
                   node' = [node EXCEPT ![p] = n]
             /\ UNCHANGED dl
    BY <1>1, <2>2, Penalised, AsksNothing
  <2>3. CASE HeadersAccepted(p, last, known', direct)
    BY <1>5, <2>3, HeadersAcceptedOK
  <2> QED BY <1>4, <2>1, <2>2, <2>3
<1> QED BY <1>3, <1>6, <1>7, MessageStep

\* BLOCK takes the block out of flight, whoever was asked for it, before it is stored.
LEMMA BlockStep ==
  ASSUME IInv, NEW p \in Peers, NEW b \in Blocks, NEW corrupt \in BOOLEAN, Block(p, b, corrupt)
  PROVE  IInv' /\ AsksOnce
<1> DEFINE requested == InFlight(dl, b) \/ (p \in Whitelisted /\ ~ibd)
<1>1. node[p] \in NodeStates /\ ChainTypes /\ Consistent(dl)
  BY DEF IInv, TypeOK, ChainTypes
<1>2. /\ status[p] = "ready" /\ UNCHANGED <<status, nPreferredDownload, nSyncStarted>>
      /\ dl' = MarkBlockAsReceived(dl, b)
      /\ \E n \in Misbehaving(node[p], p, BlockPenalty(b, requested, corrupt)) :
            node' = [node EXCEPT ![p] = n]
  BY DEF Block
<1>3. ProcessNewBlock(b, requested, corrupt)
  BY DEF Block
<1>4. requested \in BOOLEAN
  BY DEF InFlight
<1> HIDE DEF requested
<1>5. ChainTypes' /\ haveData \subseteq haveData' /\ haveData' \subseteq haveData \cup {b}
  BY <1>1, <1>3, <1>4, BlockProcessed
<1>6. Consistent(dl') /\ Asks(dl, dl', p, haveData) /\ dl'.by[b] = NULL
  BY <1>1, <1>2, AsksNothing, ReceivedOK
<1>7. \A a \in haveData' \ haveData : dl'.by[a] = NULL
  BY <1>5, <1>6
<1>8. PICK n : node' = [node EXCEPT ![p] = n] /\ Keeps(node[p], n)
  BY <1>1, <1>2, Penalised
<1> QED BY <1>2, <1>5, <1>6, <1>7, <1>8, MessageStep

\* BLOCKTXN, or a compact block that misses nothing, does the same.
LEMMA FillBlockStep ==
  ASSUME IInv, NEW p \in Peers, NEW b \in Blocks, NEW outcome, NEW d, NEW m,
         status[p] = "ready", UNCHANGED <<status, nPreferredDownload, nSyncStarted>>,
         Consistent(d), Asks(dl, d, p, haveData), Keeps(node[p], m),
         FillBlock(d, m, p, b, outcome)
  PROVE  IInv' /\ AsksOnce
<1>1. ChainTypes
  BY DEF IInv, TypeOK, ChainTypes
<1>2. CASE /\ dl' \in {d, MarkBlockAsReceived(d, b)} /\ node' = [node EXCEPT ![p] = m]
           /\ known' = known \cup {b} /\ UNCHANGED <<haveData, failed, tip, ibd>>
  <2>1. ChainTypes' /\ haveData \subseteq haveData' /\ haveData' \ haveData = {}
    BY <1>1, <1>2 DEF ChainTypes
  <2>2. Consistent(dl') /\ Asks(dl, dl', p, haveData)
    BY <1>2, ReceivedOK
  <2> QED BY <1>2, <2>1, <2>2, MessageStep
<1>3. CASE /\ ProcessNewBlock(b, TRUE, FALSE) /\ dl' = MarkBlockAsReceived(d, b)
           /\ \E n \in Misbehaving(m, p, BlockPenalty(b, TRUE, FALSE)) :
                 node' = [node EXCEPT ![p] = n]
  <2>1. ChainTypes' /\ haveData \subseteq haveData' /\ haveData' \subseteq haveData \cup {b}
    BY <1>1, <1>3, BlockProcessed
  <2>2. Consistent(dl') /\ Asks(dl, dl', p, haveData) /\ dl'.by[b] = NULL
    BY <1>3, ReceivedOK
  <2>3. \A a \in haveData' \ haveData : dl'.by[a] = NULL
    BY <2>1, <2>2
  <2>4. m \in NodeStates
    BY DEF Keeps
  <2>5. PICK n : node' = [node EXCEPT ![p] = n] /\ Keeps(m, n)
    BY <1>3, <2>4, Penalised
  <2>6. Keeps(node[p], n)
    BY <2>5, KeepsTransitive
  <2> QED BY <2>1, <2>2, <2>3, <2>5, <2>6, MessageStep
<1> QED BY <1>2, <1>3 DEF FillBlock

\* BLOCKTXN starts from the requests as they are.
LEMMA BlockTxnStep ==
  ASSUME IInv, NEW p \in Peers, NEW b \in Blocks, NEW outcome, BlockTxn(p, b, outcome)
  PROVE  IInv' /\ AsksOnce
<1>1. Consistent(dl) /\ Asks(dl, dl, p, haveData) /\ Keeps(node[p], node[p])
  BY AsksNothing DEF IInv, TypeOK, Keeps
<1>2. /\ status[p] = "ready" /\ UNCHANGED <<status, nPreferredDownload, nSyncStarted>>
      /\ FillBlock(dl, node[p], p, b, outcome)
  BY DEF BlockTxn
<1> QED BY <1>1, <1>2, FillBlockStep

\* So does a block that no peer sent.
LEMMA LocalBlockStep ==
  ASSUME IInv, NEW b \in Blocks, LocalBlock(b)
  PROVE  IInv' /\ AsksOnce
<1>1. ChainTypes /\ TypeOK /\ Consistent(dl)
  BY DEF IInv, TypeOK, ChainTypes
<1>2. ChainTypes' /\ haveData \subseteq haveData' /\ haveData' \subseteq haveData \cup {b}
  BY <1>1, BlockProcessed DEF LocalBlock
<1>3. /\ Consistent(dl') /\ dl'.by[b] = NULL
      /\ \A a \in Blocks \ {b} : dl'.by[a] = dl.by[a]
  BY <1>1, Received DEF LocalBlock
<1>4. UNCHANGED <<status, node, nPreferredDownload, nSyncStarted>>
  BY DEF LocalBlock, peers
<1>5. TypeOK'
  BY <1>1, <1>2, <1>3, <1>4 DEF TypeOK, ChainTypes, Consistent
<1>6. AwaitedFromPeers'
  BY <1>2, <1>3, <1>4 DEF IInv, AwaitedFromPeers, InFlight
<1>7. NothingSkipped'
  BY <1>2, <1>4 DEF IInv, NothingSkipped
<1>8. Preferred' = Preferred /\ Syncing' = Syncing
  BY <1>4 DEF Preferred, Syncing
<1>9. AsksOnce
  BY <1>3 DEF AsksOnce, InFlight, Consistent
<1> QED BY <1>3, <1>4, <1>5, <1>6, <1>7, <1>8, <1>9 DEF IInv

\* CMPCTBLOCK requests a block at most once and turns a request of its own sender
\* into a partial one.
LEMMA CmpctBlockStep ==
  ASSUME IInv, NEW p \in Peers, NEW b \in Blocks, NEW direct \in BOOLEAN, NEW init, NEW outcome,
         CmpctBlock(p, b, direct, init, outcome)
  PROVE  IInv' /\ AsksOnce
<1> DEFINE K == known \cup {b}
           m == UpdateBlockAvailability(node[p], b, K)
           takes == \/ dl.by[b] = NULL /\ dl.nBlocks[p] < MaxInTransit
                    \/ dl.by[b] = p /\ b \notin dl.partial
           e == MarkBlocksAsInFlight(dl, p, {b}, TRUE, TRUE)
           d == IF dl.by[b] = p THEN [e EXCEPT !.partial = @ \cup {b}] ELSE e
<1>1. /\ node[p] \in NodeStates /\ node \in [Peers -> NodeStates]
      /\ K \in SUBSET Blocks /\ ChainTypes /\ Consistent(dl)
  BY DEF IInv, TypeOK, ChainTypes
<1>2. Keeps(node[p], m) /\ m \in NodeStates
  BY <1>1, Availability DEF Keeps
<1>3. status[p] = "ready" /\ UNCHANGED <<status, nPreferredDownload, nSyncStarted>>
  BY DEF CmpctBlock
<1>4. Keeps(node[p], node[p]) /\ Asks(dl, dl, p, haveData)
  BY <1>1, AsksNothing DEF Keeps
<1>5. b \notin haveData /\ takes => Consistent(d) /\ Asks(dl, d, p, haveData)
  <2>1. CASE dl.by[b] = p
    <3>1. InFlight(dl, b)
      BY <2>1, PeersAssumption DEF InFlight
    <3>2. d = [dl EXCEPT !.partial = @ \cup {b}]
      BY <1>1, <2>1, SamePeer
    <3>3. Consistent(d) /\ d.by = dl.by
      BY <1>1, <3>1, <3>2, PartialConsistent
    <3> QED BY <3>3 DEF Asks
  <2>2. CASE dl.by[b] = NULL /\ dl.nBlocks[p] < MaxInTransit /\ b \notin haveData
    <3>1. d = MarkBlocksAsInFlight(dl, p, {b}, TRUE, TRUE) /\ ~InFlight(dl, b)
      BY <2>2, PeersAssumption DEF InFlight
    <3> QED BY <2>2, <3>1, RequestOneOK
  <2> QED BY <2>1, <2>2
<1>6. known' = K /\ UNCHANGED <<haveData, failed, tip, ibd>>
         => ChainTypes' /\ haveData \subseteq haveData' /\ haveData' \ haveData = {}
  BY <1>1 DEF ChainTypes
<1> DEFINE
      Nothing == UNCHANGED <<chain, node, dl>>
      Refused == /\ \E n \in Misbehaving(node[p], p, HeaderPenalty(b)) :
                       node' = [node EXCEPT ![p] = n]
                 /\ UNCHANGED <<chain, dl>>
      Noted == /\ known' = K /\ node' = [node EXCEPT ![p] = m]
               /\ UNCHANGED <<haveData, failed, tip, ibd>> /\ UNCHANGED dl
      AsHeaders == /\ known' = K /\ HeadersAccepted(p, b, K, direct)
                   /\ UNCHANGED <<haveData, failed, tip, ibd>>
      Invalid == /\ b \notin haveData /\ takes
                 /\ dl' = MarkBlockAsReceived(d, b)
                 /\ node' = [node EXCEPT ![p] = [m EXCEPT !.ban = TRUE]]
                 /\ known' = K /\ UNCHANGED <<haveData, failed, tip, ibd>>
      AsksMore == /\ b \notin haveData /\ takes
                  /\ dl' = d
                  /\ known' = K /\ node' = [node EXCEPT ![p] = m]
                  /\ UNCHANGED <<haveData, failed, tip, ibd>>
      Fills == b \notin haveData /\ takes /\ FillBlock(d, m, p, b, outcome)
<1>7. Nothing \/ Refused \/ Noted \/ AsHeaders \/ Invalid \/ AsksMore \/ Fills
  BY DEF CmpctBlock
<1> HIDE DEF m, d, takes, K
<1>8. CASE Nothing
  <2>1. ChainTypes' /\ haveData \subseteq haveData' /\ haveData' \ haveData = {}
    BY <1>1, <1>8 DEF ChainTypes, chain
  <2>2. node' = [node EXCEPT ![p] = node[p]] /\ dl' = dl
    BY <1>1, <1>8
  <2> QED BY <1>1, <1>3, <1>4, <2>1, <2>2, MessageStep
<1>9. CASE Refused
  <2>1. ChainTypes' /\ haveData \subseteq haveData' /\ haveData' \ haveData = {} /\ dl' = dl
    BY <1>1, <1>9 DEF ChainTypes, chain
  <2>2. PICK n : node' = [node EXCEPT ![p] = n] /\ Keeps(node[p], n)
    BY <1>1, <1>9, Penalised
  <2> QED BY <1>1, <1>3, <1>4, <2>1, <2>2, MessageStep
<1>10. CASE Noted
  <2>1. ChainTypes' /\ haveData \subseteq haveData' /\ haveData' \ haveData = {} /\ dl' = dl
    BY <1>6, <1>10
  <2> QED BY <1>1, <1>2, <1>3, <1>4, <1>10, <2>1, MessageStep
<1>11. CASE AsHeaders
  <2>1. ChainTypes' /\ haveData \subseteq haveData' /\ haveData' \ haveData = {}
    BY <1>6, <1>11
  <2>2. /\ node' = [node EXCEPT ![p] = UpdateBlockAvailability(node[p], b, K)]
        /\ Keeps(node[p], UpdateBlockAvailability(node[p], b, K))
        /\ Consistent(dl') /\ Asks(dl, dl', p, haveData)
    BY <1>1, <1>11, HeadersAcceptedOK
  <2> QED BY <1>3, <2>1, <2>2, MessageStep
<1>12. CASE Invalid
  <2>1. ChainTypes' /\ haveData \subseteq haveData' /\ haveData' \ haveData = {}
    BY <1>6, <1>12
  <2>2. Consistent(dl') /\ Asks(dl, dl', p, haveData)
    BY <1>5, <1>12, ReceivedOK
  <2>3. Keeps(m, [m EXCEPT !.ban = TRUE])
    BY <1>2 DEF Keeps, NodeStates
  <2>4. Keeps(node[p], [m EXCEPT !.ban = TRUE])
    BY <1>2, <2>3, KeepsTransitive
  <2> QED BY <1>3, <1>12, <2>1, <2>2, <2>4, MessageStep
<1>13. CASE AsksMore
  <2>1. ChainTypes' /\ haveData \subseteq haveData' /\ haveData' \ haveData = {}
    BY <1>6, <1>13
  <2> QED BY <1>2, <1>3, <1>5, <1>13, <2>1, MessageStep
<1>14. CASE Fills
  BY <1>2, <1>3, <1>5, <1>14, FillBlockStep
<1> QED BY <1>7, <1>8, <1>9, <1>10, <1>11, <1>12, <1>13, <1>14

-----------------------------------------------------------------------------
(* What the node does by itself                                            *)

\* The latch touches nothing else.
LEMMA LeaveInitialBlockDownloadStep ==
  ASSUME IInv, LeaveInitialBlockDownload
  PROVE  IInv' /\ AsksOnce
<1>1. UNCHANGED <<known, haveData, failed, tip, status, node, nPreferredDownload, nSyncStarted>>
      /\ UNCHANGED dl /\ ibd' = FALSE
  BY DEF LeaveInitialBlockDownload, peers
<1>2. TypeOK'
  BY <1>1 DEF IInv, TypeOK
<1>3. Preferred' = Preferred /\ Syncing' = Syncing
  BY <1>1 DEF Preferred, Syncing
<1>4. Consistent(dl') /\ AwaitedFromPeers' /\ NothingSkipped' /\ AsksOnce
  BY <1>1 DEF IInv, AwaitedFromPeers, NothingSkipped, InFlight, AsksOnce, Consistent
<1> QED BY <1>1, <1>2, <1>3, <1>4 DEF IInv

\* What SendMessages works with, whether it asks for blocks or not
LEMMA FoundOK ==
  ASSUME IInv, NEW p \in Peers, NEW asks \in BOOLEAN, asks => dl.nBlocks[p] < MaxInTransit,
         NEW f,
         f = IF asks THEN FindNextBlocksToDownload(p, MaxInTransit - dl.nBlocks[p])
             ELSE [node |-> node[p], fetch |-> {}, staller |-> NULL]
  PROVE  /\ f.node \in NodeStates
         /\ f.node.sync = node[p].sync /\ f.node.preferred = node[p].preferred
         /\ f.node.common # NULL => Anc[f.node.common] \subseteq haveData
         /\ Requestable(p, {b \in f.fetch : CanServe(p, Parent[b])})
         /\ f.staller = NULL \/ (f.staller \in Peers /\ dl.queue[f.staller] # {})
<1> DEFINE S == {b \in f.fetch : CanServe(p, Parent[b])}
<1>1. dl.nBlocks[p] \in Int /\ dl.nBlocks[p] <= MaxInTransit
  BY DEF IInv, Consistent, Downloads
<1>2. CASE asks
  <2> DEFINE count == MaxInTransit - dl.nBlocks[p]
  <2>1. count \in Nat
    BY <1>1, <1>2, LimitsAssumption
  <2>2. f = FindNextBlocksToDownload(p, count)
    BY <1>2
  <2>3. count = MaxInTransit - dl.nBlocks[p]
    OBVIOUS
  <2> HIDE DEF count
  <2>4. /\ f.node \in NodeStates
        /\ f.node.sync = node[p].sync /\ f.node.preferred = node[p].preferred
        /\ f.node.common # NULL => Anc[f.node.common] \subseteq haveData
        /\ f.fetch \in SUBSET Blocks /\ Cardinality(f.fetch) <= count
        /\ \A b \in f.fetch : b \notin haveData /\ ~InFlight(dl, b)
        /\ f.staller = NULL \/ (f.staller \in Peers /\ dl.queue[f.staller] # {})
    BY <2>1, <2>2, FindNext
  <2>5. S \in SUBSET f.fetch /\ S \in SUBSET Blocks
    BY <2>4
  <2> HIDE DEF S
  <2>6. /\ Cardinality(S) \in Nat /\ Cardinality(f.fetch) \in Nat
        /\ Cardinality(S) <= Cardinality(f.fetch)
    BY <2>4, <2>5, Finite, FS_Subset
  <2>7. Cardinality(S) + dl.nBlocks[p] <= MaxInTransit
    BY <1>1, <2>1, <2>3, <2>4, <2>6, LimitsAssumption
  <2>8. Requestable(p, S)
    BY <2>4, <2>5, <2>7 DEF Requestable
  <2> QED BY <2>4, <2>8 DEF S
<1>3. CASE ~asks
  <2>1. f.node = node[p] /\ f.fetch = {} /\ f.staller = NULL
    BY <1>3
  <2>2. S = {} /\ Cardinality({}) = 0
    BY <2>1, FS_EmptySet
  <2>3. Requestable(p, S)
    <3> HIDE DEF S
    <3> QED BY <1>1, <2>2, LimitsAssumption DEF Requestable
  <2>4. node[p] \in NodeStates /\ (node[p].common # NULL => Anc[node[p].common] \subseteq haveData)
    BY DEF IInv, TypeOK, NothingSkipped
  <2> QED BY <2>1, <2>3, <2>4
<1> QED BY <1>2, <1>3

\* SendMessages requests what FindNextBlocksToDownload returned, blames a peer that
\* owes a block, and counts the peer once when it starts to sync.
LEMMA SendMessagesStep ==
  ASSUME IInv, NEW p \in Peers, NEW stalled \in BOOLEAN, NEW late \in BOOLEAN,
         NEW today \in BOOLEAN, SendMessages(p, stalled, late, today)
  PROVE  IInv' /\ AsksOnce
<1> DEFINE fDisconnect == status[p] = "closing" \/ Punished(p) \/ stalled \/ late
           asks == /\ ~fDisconnect /\ p \notin Clients
                   /\ FetchesFrom(p) \/ ~ibd
                   /\ dl.nBlocks[p] < MaxInTransit
           f == IF asks THEN FindNextBlocksToDownload(p, MaxInTransit - dl.nBlocks[p])
                ELSE [node |-> node[p], fetch |-> {}, staller |-> NULL]
           S == {b \in f.fetch : CanServe(p, Parent[b])}
           starts == StartsSync(p, today)
           m == [f.node EXCEPT !.sync = @ \/ starts, !.ban = FALSE]
           e == MarkBlocksAsInFlight(dl, p, S, TRUE, FALSE)
           s == IF fDisconnect THEN "closing" ELSE status[p]
<1>1. /\ node \in [Peers -> NodeStates] /\ status \in [Peers -> Statuses] /\ Consistent(dl)
      /\ nPreferredDownload \in Int /\ nSyncStarted \in Int /\ node[p] \in NodeStates
  BY DEF IInv, TypeOK
<1>2. /\ status[p] \in {"ready", "closing"}
      /\ nSyncStarted' = nSyncStarted + One(starts)
      /\ status' = IF fDisconnect THEN [status EXCEPT ![p] = "closing"] ELSE status
      /\ node' = [node EXCEPT ![p] = m]
      /\ dl' = Blamed(p, e, f.staller)
      /\ UNCHANGED chain /\ UNCHANGED nPreferredDownload
  BY DEF SendMessages
<1>3. /\ f.node \in NodeStates
      /\ f.node.sync = node[p].sync /\ f.node.preferred = node[p].preferred
      /\ f.node.common # NULL => Anc[f.node.common] \subseteq haveData
      /\ Requestable(p, S)
      /\ f.staller = NULL \/ (f.staller \in Peers /\ dl.queue[f.staller] # {})
  <2>1. asks \in BOOLEAN /\ (asks => dl.nBlocks[p] < MaxInTransit)
    BY DEF FetchesFrom
  <2>2. f = IF asks THEN FindNextBlocksToDownload(p, MaxInTransit - dl.nBlocks[p])
            ELSE [node |-> node[p], fetch |-> {}, staller |-> NULL]
    OBVIOUS
  <2> HIDE DEF asks, f
  <2> QED BY <2>1, <2>2, FoundOK
<1>4. s \in {"ready", "closing"} /\ s \in Statuses \ {"new"} /\ status' = [status EXCEPT ![p] = s]
  BY <1>1, <1>2 DEF Statuses
<1> HIDE DEF f, s
<1>5. /\ m \in NodeStates /\ m.common = f.node.common /\ m.preferred = f.node.preferred
      /\ m.sync <=> f.node.sync \/ starts
  <2>1. \A x \in BOOLEAN :
           LET k == [f.node EXCEPT !.sync = x, !.ban = FALSE]
           IN  /\ k \in NodeStates /\ k.common = f.node.common
               /\ k.preferred = f.node.preferred /\ k.sync = x
    BY <1>3 DEF NodeStates
  <2>2. (f.node.sync \/ starts) \in BOOLEAN
    OBVIOUS
  <2>3. m = [f.node EXCEPT !.sync = f.node.sync \/ starts, !.ban = FALSE]
    BY <1>3 DEF NodeStates
  <2> HIDE DEF m, starts
  <2> QED BY <2>1, <2>2, <2>3
<1>6. starts => ~node[p].sync
  BY DEF StartsSync
<1> HIDE DEF m, starts
<1>7. /\ nPreferredDownload' = nPreferredDownload - One(node[p].preferred) + One(m.preferred)
      /\ nSyncStarted' = nSyncStarted - One(node[p].sync) + One(m.sync)
  BY <1>1, <1>2, <1>3, <1>5, <1>6 DEF One
<1>8. /\ Consistent(e) /\ Asks(dl, e, p, haveData)
      /\ \A b \in Blocks : e.by[b] = IF b \in S THEN p ELSE dl.by[b]
  <2> HIDE DEF S
  <2>1. \A x, y \in BOOLEAN :
           LET k == MarkBlocksAsInFlight(dl, p, S, x, y)
           IN  /\ Consistent(k) /\ Asks(dl, k, p, haveData)
               /\ \A b \in Blocks : k.by[b] = IF b \in S THEN p ELSE dl.by[b]
    BY <1>3, RequestOK
  <2> QED BY <2>1
<1>9. f.staller = NULL \/ (f.staller \in Peers /\ e.queue[f.staller] # {})
  <2> SUFFICES ASSUME f.staller # NULL PROVE f.staller \in Peers /\ e.queue[f.staller] # {}
    OBVIOUS
  <2>1. f.staller \in Peers /\ dl.queue[f.staller] \in SUBSET Blocks
    BY <1>1, <1>3 DEF Consistent, Downloads
  <2>2. PICK b \in dl.queue[f.staller] : TRUE
    BY <1>3
  <2>3. b \in Blocks /\ dl.by[b] = f.staller
    BY <1>1, <2>1 DEF Consistent
  <2>4. b \notin S
    <3> HIDE DEF S
    <3> QED BY <1>3, <2>3 DEF Requestable, InFlight
  <2> HIDE DEF S, e
  <2>5. e.by[b] = f.staller
    BY <1>8, <2>3, <2>4
  <2>6. b \in e.queue[f.staller]
    BY <1>8, <2>1, <2>3, <2>5 DEF Consistent
  <2> QED BY <2>1, <2>6
<1> HIDE DEF e
<1>10. Consistent(dl') /\ dl'.by = e.by
  BY <1>2, <1>8, <1>9, BlamedConsistent
<1>11. Asks(dl, dl', p, haveData)
  BY <1>8, <1>10 DEF Asks
<1>12. m.common # NULL => Anc[m.common] \subseteq haveData
  BY <1>3, <1>5
<1> QED BY <1>2, <1>4, <1>5, <1>7, <1>10, <1>11, <1>12, PeerStep

-----------------------------------------------------------------------------
(* Theorems                                                                *)

\* The invariant holds at the start.
LEMMA InitInv == Init => IInv
<1> SUFFICES ASSUME Init PROVE IInv
  OBVIOUS
<1>1. Consistent(dl)
  BY IdleConsistent DEF Init
<1>2. TypeOK
  BY <1>1, NewNodeIsState, BlocksAssumption DEF Init, TypeOK, Statuses, Consistent
<1>3. AwaitedFromPeers
  BY DEF Init, Idle, AwaitedFromPeers, InFlight
<1>4. NothingSkipped
  BY NewNodeIsState DEF Init, NothingSkipped
<1>5. Preferred = {} /\ Syncing = {} /\ Cardinality({}) = 0
  BY NewNodeIsState, FS_EmptySet DEF Init, Preferred, Syncing
<1> QED BY <1>1, <1>2, <1>3, <1>4, <1>5 DEF Init, IInv

\* Every step keeps it and requests no block twice.
LEMMA NextInv == IInv /\ [Next]_vars => IInv' /\ (AsksOnce \/ UNCHANGED vars)
<1> SUFFICES ASSUME IInv, [Next]_vars PROVE IInv' /\ (AsksOnce \/ UNCHANGED vars)
  OBVIOUS
<1>1. CASE UNCHANGED vars
  <2>1. UNCHANGED <<known, haveData, failed, tip, ibd, status, node>>
        /\ UNCHANGED <<nPreferredDownload, nSyncStarted, dl>>
    BY <1>1 DEF vars, chain, peers
  <2>2. TypeOK' /\ AwaitedFromPeers' /\ NothingSkipped' /\ Preferred' = Preferred
        /\ Syncing' = Syncing
    BY <2>1 DEF IInv, TypeOK, AwaitedFromPeers, NothingSkipped, InFlight, Preferred, Syncing
  <2> QED BY <1>1, <2>1, <2>2 DEF IInv
<1>2. ASSUME NEW p \in Peers, InitializeNode(p) \/ Version(p) \/ Disconnect(p) \/ FinalizeNode(p)
      PROVE  IInv' /\ AsksOnce
  BY <1>2, InitializeNodeStep, VersionStep, DisconnectStep, FinalizeNodeStep
<1>3. ASSUME NEW p \in Peers, Message(p)
      PROVE  IInv' /\ AsksOnce
  <2>1. Has[p] \subseteq Blocks
    BY PeersAssumption
  <2>2. CASE \E b \in Has[p], direct \in BOOLEAN : Inv(p, b, direct)
    BY <2>1, <2>2, InvStep
  <2>3. CASE \E first, last \in Has[p], direct \in BOOLEAN : Headers(p, first, last, direct)
    BY <2>1, <2>3, HeadersStep
  <2>4. CASE \E b \in Has[p], corrupt \in BOOLEAN : Block(p, b, corrupt)
    BY <2>1, <2>4, BlockStep
  <2>5. CASE \E b \in Has[p], direct \in BOOLEAN, init, outcome \in
                 {"invalid", "asks", "complete", "failed", "ok"} :
                 CmpctBlock(p, b, direct, init, outcome)
    BY <2>1, <2>5, CmpctBlockStep
  <2>6. CASE \E b \in Has[p], outcome \in {"invalid", "failed", "ok"} : BlockTxn(p, b, outcome)
    BY <2>1, <2>6, BlockTxnStep
  <2> QED BY <1>3, <2>2, <2>3, <2>4, <2>5, <2>6 DEF Message
<1>4. ASSUME NEW p \in Peers, Send(p)
      PROVE  IInv' /\ AsksOnce
  BY <1>4, SendMessagesStep DEF Send
<1>5. ASSUME NEW b \in LocalBlocks, LocalBlock(b)
      PROVE  IInv' /\ AsksOnce
  BY <1>5, LocalBlockStep, BlocksAssumption
<1>6. CASE LeaveInitialBlockDownload
  BY <1>6, LeaveInitialBlockDownloadStep
<1> QED BY <1>1, <1>2, <1>3, <1>4, <1>5, <1>6 DEF Next

\* The strengthened invariant holds whatever the peers send.
THEOREM IInvHolds == Spec => []IInv
  BY InitInv, NextInv, PTL DEF Spec

\* The state of the peers, the block index and the requests keep their types.
THEOREM TypeCorrect == Spec => []TypeOK
<1>1. IInv => TypeOK
  BY DEF IInv
<1> QED BY <1>1, IInvHolds, PTL

\* mapBlocksInFlight and the queues of the peers agree, for every number of
\* peers and blocks, and every entry belongs to a peer in mapNodeState.
THEOREM RequestsAgree == Spec => []InFlightAgrees
<1>1. IInv => InFlightAgrees
  BY DEF IInv, Consistent, AwaitedFromPeers, InFlightAgrees
<1> QED BY <1>1, IInvHolds, PTL

\* Every counter is the number of the things it counts.
THEOREM CountersCorrect == Spec => []CountersAgree
<1>1. IInv => CountersAgree
  BY DEF IInv, Consistent, Downloading, Preferred, Syncing, CountersAgree
<1> QED BY <1>1, IInvHolds, PTL

\* No peer is asked for more than MAX_BLOCKS_IN_TRANSIT_PER_PEER blocks.
THEOREM LimitKept == Spec => []InTransitBounded
<1>1. ASSUME IInv PROVE InTransitBounded
  <2>1. \A p \in Peers : dl.nBlocks[p] = Cardinality(dl.queue[p]) /\ dl.nBlocks[p] <= MaxInTransit
    BY <1>1 DEF IInv, Consistent
  <2> QED BY <2>1 DEF InTransitBounded
<1> QED BY <1>1, IInvHolds, PTL

\* Map, queues, counters and the limit together, as the run block_download checks
\* them.
THEOREM RequestsCorrect == Spec => []RequestsConsistent
  BY TypeCorrect, RequestsAgree, CountersCorrect, LimitKept, PTL DEF RequestsConsistent

\* Whoever is timed as a staller owes a block.
THEOREM StallingIsOwing == Spec => []StallersOweBlocks
<1>1. IInv => StallersOweBlocks
  BY DEF IInv, Consistent, StallersOweBlocks
<1> QED BY <1>1, IInvHolds, PTL

\* The search for blocks to request never starts above a missing block.
THEOREM SearchSkipsNothing == Spec => []NothingSkipped
<1>1. IInv => NothingSkipped
  BY DEF IInv
<1> QED BY <1>1, IInvHolds, PTL

\* No step requests a block that is stored or in flight, be it from another
\* peer or from the one that is asked again.
THEOREM NeverAskedTwice == Spec => RequestedOnce
<1>1. IInv /\ [Next]_vars => [AsksOnce]_vars
  BY NextInv
<1>2. [AsksOnce]_vars <=>
         [/\ dl'.nullPit = {}
          /\ \A b \in Blocks : (InFlight(dl, b)' /\ dl.by[b]' # dl.by[b]) =>
                ~InFlight(dl, b) /\ b \notin haveData]_vars
  BY DEF AsksOnce
<1> QED BY <1>1, <1>2, IInvHolds, PTL DEF Spec, RequestedOnce

=============================================================================
