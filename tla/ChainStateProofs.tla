-------------------------- MODULE ChainStateProofs --------------------------
(***************************************************************************)
(* What ChainState keeps true for every block tree, every outcome of the   *)
(* checks and every number of threads.                                     *)
(***************************************************************************)
EXTENDS ChainState, FiniteSetTheorems, WellFoundedInduction, TLAPS

(* The tree                                                                *)

\* A block is among its own ancestors.
LEMMA AncReflexive == \A b \in Blocks : b \in Anc[b]
  BY TreeAssumption

\* Two blocks are ancestors of each other only when they are the same.
LEMMA AncAntisymmetric ==
  ASSUME NEW x \in Blocks, NEW y \in Blocks, x \in Anc[y], y \in Anc[x]
  PROVE  x = y
<1>1. SUFFICES ASSUME x # y PROVE FALSE
  OBVIOUS
<1>2. y # Genesis
  BY <1>1, TreeAssumption
<1>3. x \in Anc[Parent[y]] /\ y \notin Anc[Parent[y]] /\ Parent[y] \in Blocks
  BY <1>1, <1>2, TreeAssumption
<1>4. Anc[x] \subseteq Anc[Parent[y]]
  BY <1>3, TreeAssumption
<1>5. QED
  BY <1>3, <1>4

\* Ancestors of ancestors are ancestors.
LEMMA AncTransitive ==
  ASSUME NEW x \in Blocks, NEW y \in Blocks, NEW z \in Blocks, x \in Anc[y], y \in Anc[z]
  PROVE  x \in Anc[z]
  BY TreeAssumption

-----------------------------------------------------------------------------
(* Maxima of finite sets                                                   *)

\* A non-empty finite set has an element with nothing above it in a
\* transitive and irreflexive relation R: among the sets of what lies above
\* each element one is minimal, and it is empty.
LEMMA MaximalExists ==
  ASSUME NEW S, IsFiniteSet(S), S # {}, NEW R,
         \A x \in S : <<x, x>> \notin R,
         \A x, y, z \in S : <<x, y>> \in R /\ <<y, z>> \in R => <<x, z>> \in R
  PROVE  \E x \in S : \A y \in S : <<x, y>> \notin R
<1> DEFINE Above(x) == {y \in S : <<x, y>> \in R}
           T == {Above(x) : x \in S}
<1>1. T \subseteq FiniteSubsetsOf(S) /\ T # {}
  <2>1. \A x \in S : Above(x) \in SUBSET S
    OBVIOUS
  <2>2. \A x \in S : IsFiniteSet(Above(x))
    BY <2>1, FS_Subset
  <2>3. ASSUME NEW U \in T PROVE U \in FiniteSubsetsOf(S)
    <3>1. PICK x \in S : U = Above(x)
      OBVIOUS
    <3> HIDE DEF Above
    <3> QED BY <2>1, <2>2, <3>1 DEF FiniteSubsetsOf
  <2>4. T # {}
    <3>1. PICK x \in S : TRUE
      OBVIOUS
    <3>2. Above(x) \in T
      OBVIOUS
    <3> HIDE DEF T
    <3> QED BY <3>2
  <2> HIDE DEF T
  <2> QED BY <2>3, <2>4
<1>2. IsWellFoundedOn(StrictSubsetOrdering(S), FiniteSubsetsOf(S))
  BY FS_StrictSubsetOrderingWellFounded
<1>3. PICK U \in T : \A V \in T : <<V, U>> \notin StrictSubsetOrdering(S)
  <2> HIDE DEF T
  <2> QED BY <1>1, <1>2, WFMin
<1>4. PICK x \in S : U = Above(x)
  OBVIOUS
<1>5. ASSUME NEW y \in S, <<x, y>> \in R PROVE FALSE
  <2>1. Above(y) \subseteq Above(x) /\ y \in Above(x) /\ y \notin Above(y)
    BY <1>5
  <2>2. Above(y) \in T
    BY <1>5
  <2>3. <<Above(y), U>> \in StrictSubsetOrdering(S)
    BY <2>1, <1>4, <2>2, <1>1 DEF StrictSubsetOrdering, FiniteSubsetsOf
  <2> QED BY <2>2, <2>3, <1>3
<1>6. QED
  BY <1>5

\* Highest of some blocks of one chain is one of them and descends from all.
LEMMA HighestIn ==
  ASSUME NEW c \in Blocks, NEW S \in SUBSET Anc[c], S # {}
  PROVE  Highest(S) \in S /\ \A a \in S : a \in Anc[Highest(S)]
<1> DEFINE R == {p \in S \X S : p[1] \in Anc[p[2]] /\ p[1] # p[2]}
<1>1. IsFiniteSet(S) /\ S \subseteq Blocks
  BY FS_Subset, TreeAssumption
<1>2. \A x \in S : <<x, x>> \notin R
  OBVIOUS
<1>3. ASSUME NEW x \in S, NEW y \in S, NEW z \in S, <<x, y>> \in R, <<y, z>> \in R
      PROVE  <<x, z>> \in R
  <2>1. x \in Anc[y] /\ y \in Anc[z] /\ x # y
    BY <1>3
  <2>2. x \in Anc[z] /\ x # z
    BY <2>1, <1>1, AncTransitive, AncAntisymmetric
  <2> QED BY <2>2
<1>4. PICK m \in S : \A y \in S : <<m, y>> \notin R
  <2> HIDE DEF R
  <2> QED BY <1>1, <1>2, <1>3, MaximalExists
<1>5. ASSUME NEW a \in S PROVE a \in Anc[m]
  <2>1. ~(m \in Anc[a] /\ m # a)
    BY <1>4
  <2>2. a \in Anc[m] \/ m \in Anc[a]
    BY TreeAssumption
  <2>3. a \in Anc[a]
    BY <1>1, AncReflexive
  <2> QED BY <2>1, <2>2, <2>3
<1>6. QED
  BY <1>5 DEF Highest

\* Some blocks of one chain have a lowest one.
LEMMA LowestExists ==
  ASSUME NEW c \in Blocks, NEW S \in SUBSET Anc[c], S # {}
  PROVE  \E m \in S : \A y \in S : y \in Anc[m] => y = m
<1> DEFINE R == {p \in S \X S : p[2] \in Anc[p[1]] /\ p[1] # p[2]}
<1>1. IsFiniteSet(S) /\ S \subseteq Blocks
  BY FS_Subset, TreeAssumption
<1>2. \A x \in S : <<x, x>> \notin R
  OBVIOUS
<1>3. ASSUME NEW x \in S, NEW y \in S, NEW z \in S, <<x, y>> \in R, <<y, z>> \in R
      PROVE  <<x, z>> \in R
  <2>1. y \in Anc[x] /\ z \in Anc[y] /\ x # y
    BY <1>3
  <2>2. z \in Anc[x] /\ x # z
    BY <2>1, <1>1, AncTransitive, AncAntisymmetric
  <2> QED BY <2>2
<1>4. PICK m \in S : \A y \in S : <<m, y>> \notin R
  <2> HIDE DEF R
  <2> QED BY <1>1, <1>2, <1>3, MaximalExists
<1>5. QED
  BY <1>4

\* Every block descends from Genesis: the lowest of its ancestors has no
\* parent.
LEMMA GenesisIsAncestor ==
  ASSUME NEW c \in Blocks
  PROVE  Genesis \in Anc[c]
<1>1. PICK m \in Anc[c] : \A y \in Anc[c] : y \in Anc[m] => y = m
  BY AncReflexive, LowestExists
<1>2. ASSUME m # Genesis PROVE FALSE
  <2>1. m \in Blocks /\ Parent[m] \in Blocks /\ Parent[m] \in Anc[m] /\ Parent[m] # m
    BY <1>2, TreeAssumption, AncReflexive
  <2>2. Parent[m] \in Anc[c]
    BY <2>1, TreeAssumption
  <2> QED BY <2>1, <2>2, <1>1
<1>3. QED
  BY <1>2

-----------------------------------------------------------------------------
(* Candidates                                                              *)

\* rbegin of a non-empty set of linked blocks is one of them: the comparator
\* orders them totally, since no two have the same sequence id.
LEMMA BestOfIn ==
  ASSUME TypeOK, SequenceIdsDistinct, NEW S \in SUBSET chainTx, S # {}
  PROVE  BestOf(S) \in S /\ \A d \in S \ {BestOf(S)} : Worse(d, BestOf(S))
<1> DEFINE R == {p \in S \X S : Worse(p[1], p[2])}
<1>1. IsFiniteSet(S) /\ S \subseteq Blocks
  <2>1. S \in SUBSET Blocks
    BY DEF TypeOK
  <2> QED BY <2>1, FS_Subset, TreeAssumption
<1>2. \A x \in S : Work[x] \in Nat /\ seqId[x] \in Nat
  BY <1>1, WorkAssumption DEF TypeOK
<1>3. \A x \in S : <<x, x>> \notin R
  BY <1>2 DEF Worse, WorseBy
<1>4. \A x, y, z \in S : <<x, y>> \in R /\ <<y, z>> \in R => <<x, z>> \in R
  BY <1>2 DEF Worse, WorseBy
<1>5. PICK m \in S : \A y \in S : <<m, y>> \notin R
  <2> HIDE DEF R
  <2> QED BY <1>1, <1>3, <1>4, MaximalExists
<1>6. ASSUME NEW d \in S \ {m} PROVE Worse(d, m)
  <2>1. ~Worse(m, d)
    BY <1>5
  <2>2. seqId[d] # seqId[m]
    BY DEF SequenceIdsDistinct
  <2> QED BY <2>1, <2>2, <1>2 DEF Worse, WorseBy
<1>7. QED
  BY <1>6 DEF BestOf

\* FindMostWorkChain returns a usable candidate, or NULL.
LEMMA MostWorkLinked ==
  ASSUME TypeOK, SequenceIdsDistinct
  PROVE  /\ FindMostWorkChain \in Usable \cup {NULL}
         /\ Usable \subseteq chainTx
<1>1. Usable \in SUBSET chainTx
  BY DEF Usable, TypeOK
<1>2. CASE Usable = {}
  BY <1>1, <1>2 DEF FindMostWorkChain
<1>3. CASE Usable # {}
  <2>1. BestOf(Usable) \in Usable
    BY <1>1, <1>3, BestOfIn
  <2> QED BY <1>1, <1>3, <2>1 DEF FindMostWorkChain
<1>4. QED
  BY <1>2, <1>3

\* What the walk over the candidates marks stays inside the index.
LEMMA WalkTypes ==
  ASSUME TypeOK, LinkedClosed, SequenceIdsDistinct
  PROVE  /\ MarkedChild \subseteq chainTx
         /\ KeptCandidates \subseteq candidates
         /\ MarkedInvalid \in index \cup {NULL}
<1>1. Dropped \in SUBSET candidates /\ candidates \subseteq chainTx /\ chainTx \subseteq index
  BY DEF Dropped, TypeOK
<1>2. MarkedChild \subseteq chainTx
  <2>1. ASSUME NEW c \in Dropped PROVE AboveFailed(c) \subseteq chainTx
    BY <1>1, <2>1 DEF AboveFailed, LinkedClosed
  <2> QED BY <2>1 DEF MarkedChild
<1>3. KeptCandidates \subseteq candidates
  BY DEF KeptCandidates
<1>4. MarkedInvalid \in index \cup {NULL}
  <2>1. bestInvalid \in index \cup {NULL}
    BY DEF TypeOK
  <2>2. CASE Dropped = {}
    BY <2>1, <2>2 DEF MarkedInvalid
  <2>3. CASE Dropped # {}
    <3>1. BestOf(Dropped) \in Dropped
      BY <1>1, <2>3, BestOfIn
    <3> QED BY <3>1, <1>1, <2>1, <2>3 DEF MarkedInvalid, InvalidChainFound
  <2> QED BY <2>2, <2>3
<1>5. QED
  BY <1>2, <1>3, <1>4

-----------------------------------------------------------------------------
(* One step of activation                                                  *)

\* A step towards a linked block connects and refuses linked blocks only, and
\* leaves a linked tip that is not above a refused block.
LEMMA StepLinked ==
  ASSUME TypeOK, LinkedClosed, NEW mw \in chainTx
  PROVE  /\ Connected(mw) \subseteq ToConnect(mw)
         /\ Refused(mw) \subseteq ToConnect(mw)
         /\ ToConnect(mw) \subseteq chainTx
         /\ TipAfter(mw) \in chainTx
         /\ TipAfter(mw) \in Connected(mw) \cup Anc[tip]
         /\ TipAfter(mw) \in Anc[mw]
<1>1. mw \in Blocks /\ tip \in Blocks /\ tip \in chainTx /\ Anc[mw] \subseteq chainTx
  BY DEF TypeOK, LinkedClosed
<1>2. Connected(mw) \subseteq ToConnect(mw) /\ Refused(mw) \subseteq ToConnect(mw)
  BY DEF Connected, Refused, Bad
<1>3. ToConnect(mw) \subseteq Anc[mw]
  BY DEF ToConnect
<1>4. CASE Connected(mw) = {}
  <2>1. Anc[mw] \cap Anc[tip] # {}
    BY <1>1, GenesisIsAncestor
  <2>2. Fork(mw) \in Anc[mw] \cap Anc[tip]
    BY <1>1, <2>1, HighestIn DEF Fork
  <2> QED BY <1>1, <1>2, <1>3, <1>4, <2>2 DEF TipAfter
<1>5. CASE Connected(mw) # {}
  <2>1. Highest(Connected(mw)) \in Connected(mw)
    BY <1>1, <1>2, <1>3, <1>5, HighestIn
  <2> QED BY <1>1, <1>2, <1>3, <1>5, <2>1 DEF TipAfter
<1>6. QED
  BY <1>4, <1>5

\* Whatever pindexMostWork is, the round finds it linked.
LEMMA RoundTypes ==
  ASSUME TypeOK, LinkedClosed, TargetsLinked, SequenceIdsDistinct, NEW t \in Threads
  PROVE  /\ MostWorkOf(t) \in chainTx \cup {NULL}
         /\ ChildOf(t) \subseteq index /\ failedChild \subseteq ChildOf(t)
         /\ CandidatesOf(t) \subseteq candidates
         /\ InvalidOf(t) \in index \cup {NULL}
<1>1. CASE mostWork[t] = NULL
  BY <1>1, MostWorkLinked, WalkTypes DEF MostWorkOf, ChildOf, CandidatesOf, InvalidOf, TypeOK
<1>2. CASE mostWork[t] # NULL
  BY <1>2 DEF MostWorkOf, ChildOf, CandidatesOf, InvalidOf, TypeOK, TargetsLinked
<1>3. QED
  BY <1>1, <1>2

\* What the walk marks descends from a failed block that is not active.
LEMMA MarkedHasFailedAncestor ==
  ASSUME TypeOK, LinkedClosed, NEW x \in MarkedChild
  PROVE  \E y \in failed : y \in Anc[x] /\ y \notin Anc[tip]
<1>1. PICK c \in Dropped : x \in AboveFailed(c)
  BY DEF MarkedChild
<1>2. c \in Blocks /\ c \notin Usable /\ c \in candidates
  BY <1>1 DEF Dropped, TypeOK
<1>3. PICK y \in failed : y \in Anc[c] /\ y \notin Anc[tip]
  BY <1>2 DEF Usable
<1>4. x \in Anc[c] /\ (x \in Anc[y] => y \notin failed)
  BY <1>1, <1>3 DEF AboveFailed
<1>5. y \in Anc[x]
  BY <1>2, <1>3, <1>4, TreeAssumption
<1>6. QED
  BY <1>3, <1>5

\* ActivateBestChain changes the failure flags, the candidates and the tip;
\* the last two stay linked, and only descendants of failed blocks and the
\* refused block are marked.
LEMMA ActivateEffect ==
  ASSUME IInv, NEW t \in Threads, ActivateBestChain(t)
  PROVE  /\ tip' \in chainTx
         /\ candidates' \subseteq candidates
         /\ bestInvalid' \in index \cup {NULL}
         /\ failedValid \subseteq failedValid' /\ failedValid' \subseteq index
         /\ failedChild \subseteq failedChild' /\ failedChild' \subseteq index
         /\ \A b \in failedChild' \ failedChild : \E y \in failed : y \in Anc[b]
         /\ pc' \in [Threads -> {"idle", "activate"}]
         /\ mostWork' \in [Threads -> chainTx \cup {NULL}]
         /\ UNCHANGED <<verdict, index, haveData, chainTx, seqId, nBlockSequenceId,
                        unlinked, bestHeader, nInvalidate, nReconsider>>
<1> USE DEF IInv
<1> DEFINE mw == MostWorkOf(t)
<1>1. /\ mw \in chainTx \cup {NULL}
      /\ ChildOf(t) \subseteq index /\ failedChild \subseteq ChildOf(t)
      /\ CandidatesOf(t) \subseteq candidates
      /\ InvalidOf(t) \in index \cup {NULL}
  BY RoundTypes
<1>2. UNCHANGED <<verdict, index, haveData, chainTx, seqId, nBlockSequenceId,
                  unlinked, bestHeader, nInvalidate, nReconsider>>
  BY DEF ActivateBestChain
<1>3. /\ failedChild \subseteq failedChild' /\ failedChild' \subseteq index
      /\ \A b \in failedChild' \ failedChild : \E y \in failed : y \in Anc[b]
  <2>1. failedChild' = ChildOf(t)
    BY DEF ActivateBestChain
  <2>2. ASSUME NEW b \in failedChild' \ failedChild PROVE b \in MarkedChild
    BY <2>1, <2>2 DEF ChildOf
  <2> QED BY <1>1, <2>1, <2>2, MarkedHasFailedAncestor
<1>4. mostWork \in [Threads -> chainTx \cup {NULL}]
  BY DEF TypeOK, TargetsLinked
<1>5. pc \in [Threads -> {"idle", "activate"}] /\ failedValid \subseteq index /\ tip \in chainTx
      /\ chainTx \subseteq index
  BY DEF TypeOK
<1> DEFINE Changed == /\ tip' \in chainTx
                      /\ candidates' \subseteq candidates
                      /\ bestInvalid' \in index \cup {NULL}
                      /\ failedValid \subseteq failedValid' /\ failedValid' \subseteq index
                      /\ pc' \in [Threads -> {"idle", "activate"}]
                      /\ mostWork' \in [Threads -> chainTx \cup {NULL}]
<1>6. CASE NothingToDo(t)
  <2>1. tip' = tip /\ candidates' = CandidatesOf(t) /\ bestInvalid' = InvalidOf(t)
        /\ failedValid' = failedValid
    BY <1>6 DEF NothingToDo
  <2>2. /\ pc' = [pc EXCEPT ![t] = "idle"]
        /\ mostWork' = [mostWork EXCEPT ![t] = NULL]
    BY <1>6 DEF NothingToDo, Return
  <2>3. Changed
    BY <1>1, <1>4, <1>5, <2>1, <2>2
  <2> QED BY <1>2, <1>3, <2>3
<1>7. CASE /\ mw \notin {NULL, tip}
           /\ \/ StepConnects(t, mw)
              \/ \E f \in Refused(mw) : StepFindsInvalid(t, mw, f) \/ StepFails(t, mw, f)
  <2>1. mw \in chainTx
    BY <1>1, <1>7
  <2>2. /\ TipAfter(mw) \in chainTx
        /\ Refused(mw) \subseteq chainTx
    BY <2>1, StepLinked
  <2>3. PruneBlockIndexCandidates(CandidatesOf(t), mw) \subseteq candidates
    BY <1>1 DEF PruneBlockIndexCandidates
  <2> HIDE DEF mw
  <2>4. CASE StepConnects(t, mw)
    <3>1. /\ tip' = TipAfter(mw) /\ failedValid' = failedValid
          /\ candidates' = PruneBlockIndexCandidates(CandidatesOf(t), mw)
          /\ bestInvalid' = InvalidOf(t)
      BY <2>4 DEF StepConnects
    <3>2. \/ pc' = [pc EXCEPT ![t] = "idle"] /\ mostWork' = [mostWork EXCEPT ![t] = NULL]
          \/ pc' = pc /\ mostWork' = [mostWork EXCEPT ![t] = mw]
      BY <2>4 DEF StepConnects, Return
    <3>3. Changed
      BY <1>1, <1>4, <1>5, <2>1, <2>2, <2>3, <3>1, <3>2
    <3> QED BY <1>2, <1>3, <3>3
  <2>5. ASSUME NEW f \in Refused(mw), StepFindsInvalid(t, mw, f) PROVE Changed
    <3>1. /\ tip' = TipAfter(mw) /\ failedValid' = failedValid \cup {f}
          /\ candidates' = PruneBlockIndexCandidates(CandidatesOf(t), mw) \ {f}
          /\ bestInvalid' = InvalidChainFound(f, InvalidOf(t))
          /\ mostWork' = [mostWork EXCEPT ![t] = NULL] /\ pc' = pc
      BY <2>5 DEF StepFindsInvalid
    <3>2. InvalidChainFound(f, InvalidOf(t)) \in index \cup {NULL}
      BY <1>1, <1>5, <2>2 DEF InvalidChainFound
    <3> QED BY <1>1, <1>4, <1>5, <2>1, <2>2, <2>3, <3>1, <3>2
  <2>6. ASSUME NEW f \in Refused(mw), StepFails(t, mw, f) PROVE Changed
    <3>1. /\ tip' = TipAfter(mw) /\ failedValid' = failedValid
          /\ candidates' = PruneBlockIndexCandidates(CandidatesOf(t), mw)
          /\ bestInvalid' = InvalidOf(t)
          /\ pc' = [pc EXCEPT ![t] = "idle"] /\ mostWork' = [mostWork EXCEPT ![t] = NULL]
      BY <2>6 DEF StepFails, Return
    <3> QED BY <1>1, <1>4, <1>5, <2>1, <2>2, <2>3, <3>1
  <2>7. Changed
    BY <1>7, <2>4, <2>5, <2>6
  <2> QED BY <1>2, <1>3, <2>7
<1>8. QED
  BY <1>6, <1>7 DEF ActivateBestChain

-----------------------------------------------------------------------------
(* Linking                                                                 *)

\* The blocks linked with b are b and waiting descendants of it, together
\* with everything between.
LEMMA LinkedShape ==
  ASSUME TypeOK, LinkedClosed, NEW b \in Blocks, b # Genesis, Parent[b] \in chainTx
  PROVE  /\ Linked(b) \subseteq Blocks /\ b \in Linked(b)
         /\ Linked(b) \subseteq unlinked \cup {b}
         /\ \A d \in Linked(b) : Anc[d] \subseteq chainTx \cup Linked(b)
         /\ \A y \in unlinked : y # Genesis /\ Parent[y] \in Linked(b) => y \in Linked(b)
<1>1. b \in Linked(b) /\ Linked(b) \subseteq Blocks
  BY AncReflexive DEF Linked
<1>2. ASSUME NEW d \in Linked(b), d # b PROVE d \in unlinked
  <2>1. d \in Blocks /\ b \in Anc[d] /\ Anc[d] \ Anc[b] \subseteq unlinked
    BY DEF Linked
  <2>2. d \in Anc[d] /\ d \notin Anc[b]
    BY <1>2, <2>1, AncReflexive, AncAntisymmetric
  <2> QED BY <2>1, <2>2
<1>3. ASSUME NEW d \in Linked(b), NEW a \in Anc[d] PROVE a \in chainTx \cup Linked(b)
  <2>1. d \in Blocks /\ b \in Anc[d] /\ Anc[d] \ Anc[b] \subseteq unlinked /\ a \in Blocks
    BY TreeAssumption DEF Linked
  <2>2. CASE a \in Anc[b]
    <3>1. a = b \/ a \in Anc[Parent[b]]
      BY <2>2, TreeAssumption
    <3> QED BY <3>1, <1>1 DEF LinkedClosed
  <2>3. CASE a \notin Anc[b]
    <3>1. b \in Anc[a] /\ Anc[a] \subseteq Anc[d]
      BY <2>1, <2>3, TreeAssumption
    <3> QED BY <2>1, <3>1 DEF Linked
  <2> QED BY <2>2, <2>3
<1>4. ASSUME NEW y \in unlinked, y # Genesis, Parent[y] \in Linked(b) PROVE y \in Linked(b)
  <2>1. y \in Blocks /\ Parent[y] \in Blocks /\ Anc[y] = Anc[Parent[y]] \cup {y}
    BY <1>4, TreeAssumption DEF TypeOK
  <2>2. b \in Anc[Parent[y]] /\ Anc[Parent[y]] \ Anc[b] \subseteq unlinked
    BY <1>4 DEF Linked
  <2> QED BY <2>1, <2>2 DEF Linked
<1>5. QED
  BY <1>1, <1>2, <1>3, <1>4

\* Receiving the data of a block keeps the index consistent: this is the case
\* where its parent is linked.
LEMMA ReceivedLinks ==
  ASSUME IInv, NEW b \in Blocks \ haveData, b # Genesis, Parent[b] \in chainTx,
         ReceivedBlockTransactions(b), b \in index', index \subseteq index', index' \subseteq Blocks,
         UNCHANGED <<failedValid, failedChild, tip, nReconsider>>
  PROVE  /\ haveData' \subseteq index' /\ chainTx' \subseteq haveData' /\ chainTx \subseteq chainTx'
         /\ seqId' \in [Blocks -> Nat] /\ nBlockSequenceId' \in Nat
         /\ candidates' \subseteq chainTx' /\ unlinked' \subseteq haveData' \ chainTx'
         /\ LinkedClosed' /\ SequenceIdsDistinct' /\ WaitsForParent' /\ WaitingIsUnlinked'
<1> DEFINE L == Linked(b)
<1>1. /\ L \subseteq Blocks /\ b \in L /\ L \subseteq unlinked \cup {b}
      /\ \A d \in L : Anc[d] \subseteq chainTx \cup L
      /\ \A y \in unlinked : y # Genesis /\ Parent[y] \in L => y \in L
  BY LinkedShape DEF IInv
<1>2. /\ haveData' = haveData \cup {b} /\ chainTx' = chainTx \cup L
      /\ nBlockSequenceId' = nBlockSequenceId + Cardinality(L)
      /\ candidates' = candidates \cup {x \in L : ~WorseBy(x, tip, seqId')}
      /\ unlinked' = unlinked \ L
  BY DEF ReceivedBlockTransactions, Unqueued
<1>3. PICK f \in SequenceIds(L) : seqId' = [x \in Blocks |-> IF x \in L THEN f[x] ELSE seqId[x]]
  BY DEF ReceivedBlockTransactions
<1>4. Cardinality(L) \in Nat
  BY <1>1, FS_Subset, FS_CardinalityType, TreeAssumption
<1>5. /\ nBlockSequenceId \in Nat /\ seqId \in [Blocks -> Nat]
      /\ haveData \subseteq index /\ chainTx \subseteq haveData /\ index \subseteq Blocks
      /\ unlinked \subseteq haveData \ chainTx /\ candidates \subseteq chainTx
  BY DEF IInv, TypeOK
<1>6. /\ \A x \in L : f[x] \in Nat /\ nBlockSequenceId <= f[x] /\ f[x] < nBlockSequenceId'
      /\ \A x, y \in L : x # y => f[x] # f[y]
  BY <1>2, <1>3, <1>4, <1>5 DEF SequenceIds
<1> HIDE DEF L
<1>7. L \cap chainTx = {}
  BY <1>1, <1>5
<1>8. /\ haveData' \subseteq index' /\ chainTx' \subseteq haveData' /\ chainTx \subseteq chainTx'
      /\ candidates' \subseteq chainTx' /\ unlinked' \subseteq haveData' \ chainTx'
  BY <1>1, <1>2, <1>5
<1>9. seqId' \in [Blocks -> Nat] /\ nBlockSequenceId' \in Nat
  BY <1>2, <1>3, <1>4, <1>5, <1>6
<1>10. LinkedClosed'
  BY <1>1, <1>2 DEF LinkedClosed, IInv
<1>11. SequenceIdsDistinct'
  <2>1. \A x \in Blocks : seqId'[x] = IF x \in L THEN f[x] ELSE seqId[x]
    BY <1>3
  <2>2. \A x \in Blocks : x \notin chainTx' => seqId'[x] = 0
    BY <1>2, <2>1 DEF SequenceIdsDistinct, IInv
  <2>3. ASSUME NEW x \in chainTx' PROVE x \in Blocks /\ seqId'[x] < nBlockSequenceId'
    <3>1. x \in Blocks
      BY <1>2, <1>1, <1>5
    <3>2. CASE x \in L
      BY <3>1, <3>2, <2>1, <1>6
    <3>3. CASE x \notin L
      <4>1. x \in chainTx /\ seqId'[x] = seqId[x]
        BY <3>1, <3>3, <2>1, <1>2
      <4>2. seqId[x] < nBlockSequenceId /\ seqId[x] \in Nat
        BY <4>1, <3>1, <1>5 DEF SequenceIdsDistinct, IInv
      <4> QED BY <3>1, <4>1, <4>2, <1>2, <1>4, <1>5
    <3> QED BY <3>2, <3>3
  <2>4. ASSUME NEW x \in chainTx', NEW y \in chainTx', x # y PROVE seqId'[x] # seqId'[y]
    <3>1. x \in Blocks /\ y \in Blocks
      BY <2>3
    <3>2. CASE x \in L /\ y \in L
      BY <3>1, <3>2, <2>1, <2>4, <1>6
    <3>3. CASE x \notin L /\ y \notin L
      BY <3>1, <3>3, <2>1, <2>4, <1>2 DEF SequenceIdsDistinct, IInv
    <3>4. CASE x \in L /\ y \notin L
      <4>1. seqId'[y] < nBlockSequenceId /\ seqId'[y] \in Nat
        BY <3>1, <3>4, <2>1, <1>2, <1>5 DEF SequenceIdsDistinct, IInv
      <4>2. seqId'[x] = f[x]
        BY <3>1, <3>4, <2>1
      <4> QED BY <4>1, <4>2, <3>4, <1>5, <1>6
    <3>5. CASE x \notin L /\ y \in L
      <4>1. seqId'[x] < nBlockSequenceId /\ seqId'[x] \in Nat
        BY <3>1, <3>5, <2>1, <1>2, <1>5 DEF SequenceIdsDistinct, IInv
      <4>2. seqId'[y] = f[y]
        BY <3>1, <3>5, <2>1
      <4> QED BY <4>1, <4>2, <3>5, <1>5, <1>6
    <3> QED BY <3>2, <3>3, <3>4, <3>5
  <2> QED BY <2>2, <2>3, <2>4 DEF SequenceIdsDistinct
<1>12. WaitsForParent'
  <2>1. ASSUME NEW y \in unlinked' PROVE Parent[y] \notin chainTx'
    <3>1. y \in unlinked /\ y \notin L /\ Parent[y] \notin chainTx
      BY <1>2 DEF WaitsForParent, IInv
    <3>2. y # Genesis
      BY <3>1, <1>5 DEF LinkedClosed, IInv
    <3> QED BY <3>1, <3>2, <1>1, <1>2
  <2> QED BY <2>1 DEF WaitsForParent
<1>13. WaitingIsUnlinked'
  <2>1. ASSUME NeverReconsidered', NEW x \in haveData' \ chainTx', Anc[x] \cap failedValid' = {}
        PROVE  x \in unlinked'
    <3>1. x \in haveData \ chainTx /\ x \notin L
      BY <1>1, <1>2
    <3>2. x \in unlinked
      BY <2>1, <3>1 DEF WaitingIsUnlinked, NeverReconsidered, IInv
    <3> QED BY <3>1, <3>2, <1>2
  <2> QED BY <2>1 DEF WaitingIsUnlinked
<1>14. QED
  BY <1>8, <1>9, <1>10, <1>11, <1>12, <1>13

\* ... and this the case where it is not: the block is queued unless its parent
\* is failed, and then it has an invalid ancestor.
LEMMA ReceivedWaits ==
  ASSUME IInv, NEW b \in Blocks \ haveData, b # Genesis, Parent[b] \notin chainTx,
         ReceivedBlockTransactions(b), b \in index', index \subseteq index', index' \subseteq Blocks,
         UNCHANGED <<failedValid, failedChild, tip, nReconsider>>
  PROVE  /\ haveData' \subseteq index' /\ chainTx' \subseteq haveData' /\ chainTx \subseteq chainTx'
         /\ seqId' \in [Blocks -> Nat] /\ nBlockSequenceId' \in Nat
         /\ candidates' \subseteq chainTx' /\ unlinked' \subseteq haveData' \ chainTx'
         /\ LinkedClosed' /\ SequenceIdsDistinct' /\ WaitsForParent' /\ WaitingIsUnlinked'
<1>1. /\ haveData' = haveData \cup {b} /\ chainTx' = chainTx /\ seqId' = seqId
      /\ nBlockSequenceId' = nBlockSequenceId /\ candidates' = candidates
      /\ unlinked' = Queued(b)
  BY DEF ReceivedBlockTransactions
<1>2. /\ nBlockSequenceId \in Nat /\ seqId \in [Blocks -> Nat]
      /\ haveData \subseteq index /\ chainTx \subseteq haveData
      /\ unlinked \subseteq haveData \ chainTx /\ candidates \subseteq chainTx
  BY DEF IInv, TypeOK
<1>3. /\ haveData' \subseteq index' /\ chainTx' \subseteq haveData' /\ chainTx \subseteq chainTx'
      /\ seqId' \in [Blocks -> Nat] /\ nBlockSequenceId' \in Nat
      /\ candidates' \subseteq chainTx' /\ unlinked' \subseteq haveData' \ chainTx'
  BY <1>1, <1>2 DEF Queued
<1>4. LinkedClosed' /\ SequenceIdsDistinct'
  BY <1>1 DEF LinkedClosed, SequenceIdsDistinct, IInv
<1>5. WaitsForParent'
  BY <1>1 DEF WaitsForParent, Queued, IInv
<1>6. ASSUME NeverReconsidered', NEW x \in haveData' \ chainTx', Anc[x] \cap failedValid' = {}
      PROVE  x \in unlinked'
  <2>1. CASE x # b
    <3>1. x \in unlinked
      BY <1>1, <1>6, <2>1 DEF WaitingIsUnlinked, NeverReconsidered, IInv
    <3> QED BY <1>1, <3>1 DEF Queued
  <2>2. CASE x = b
    <3>1. Anc[Parent[b]] \subseteq Anc[b]
      BY TreeAssumption
    <3>2. Parent[b] \notin failed
      BY <1>6, <2>2, <3>1 DEF FailureHasCause, NeverReconsidered, IInv
    <3> QED BY <1>1, <2>2, <3>2 DEF Queued
  <2> QED BY <2>1, <2>2
<1>7. QED
  BY <1>3, <1>4, <1>5, <1>6 DEF WaitingIsUnlinked

-----------------------------------------------------------------------------
(* The inductive invariant                                                 *)

\* The invariant holds at the start.
LEMMA InitEstablishes == Init => IInv
<1> SUFFICES ASSUME Init PROVE IInv
  OBVIOUS
<1>1. TypeOK
  BY TreeAssumption, BoundAssumption DEF Init, TypeOK
<1>2. LinkedClosed /\ TargetsLinked /\ SequenceIdsDistinct /\ WaitsForParent
  BY TreeAssumption DEF Init, LinkedClosed, TargetsLinked, SequenceIdsDistinct, WaitsForParent
<1>3. FailureHasCause /\ WaitingIsUnlinked
  BY DEF Init, FailureHasCause, WaitingIsUnlinked, failed
<1>4. QED
  BY <1>1, <1>2, <1>3 DEF IInv

\* A header changes the index and the best header only.
LEMMA HeaderPreserves ==
  ASSUME IInv, NEW b \in Blocks \ {Genesis}, ProcessHeader(b)
  PROVE  IInv'
<1>1. /\ index' = index \cup {b} /\ bestHeader' \in index'
      /\ UNCHANGED <<verdict, haveData, chainTx, seqId, failedValid, failedChild,
                     nBlockSequenceId, candidates, unlinked, tip, bestInvalid,
                     pc, mostWork, nInvalidate, nReconsider>>
  BY DEF ProcessHeader, AddToBlockIndex, IInv, TypeOK
<1>2. TypeOK'
  BY <1>1 DEF IInv, TypeOK
<1>3. (LinkedClosed /\ TargetsLinked /\ SequenceIdsDistinct /\ WaitsForParent)'
  BY <1>1 DEF IInv, LinkedClosed, TargetsLinked, SequenceIdsDistinct, WaitsForParent
<1>4. (FailureHasCause /\ WaitingIsUnlinked)'
  BY <1>1 DEF IInv, FailureHasCause, WaitingIsUnlinked, NeverReconsidered, failed
<1>5. QED
  BY <1>2, <1>3, <1>4 DEF IInv

\* A block whose header is accepted: it is not wanted, or fails its checks, or
\* is stored.
LEMMA BlockPreserves ==
  ASSUME IInv, NEW t \in Threads, NEW b \in Blocks, NEW r \in BOOLEAN, ProcessNewBlock(t, b, r)
  PROVE  IInv'
<1>1. /\ b # Genesis /\ index' = index \cup {b} /\ bestHeader' \in index'
      /\ UNCHANGED <<verdict, failedChild, tip, bestInvalid, nInvalidate, nReconsider>>
  BY DEF ProcessNewBlock, AddToBlockIndex, IInv, TypeOK
<1>2. /\ pc' \in [Threads -> {"idle", "activate"}]
      /\ mostWork' = mostWork
  BY DEF ProcessNewBlock, Activate, IInv, TypeOK
<1>3. CASE /\ UNCHANGED <<haveData, chainTx, seqId, nBlockSequenceId, candidates, unlinked>>
           /\ failedValid' = failedValid \/ failedValid' = failedValid \cup {b}
  <2>1. TypeOK'
    BY <1>1, <1>2, <1>3 DEF IInv, TypeOK
  <2>2. (LinkedClosed /\ TargetsLinked /\ SequenceIdsDistinct /\ WaitsForParent)'
    BY <1>1, <1>2, <1>3 DEF IInv, LinkedClosed, TargetsLinked, SequenceIdsDistinct, WaitsForParent
  <2>3. (FailureHasCause /\ WaitingIsUnlinked)'
    BY <1>1, <1>3, AncReflexive
       DEF IInv, FailureHasCause, WaitingIsUnlinked, NeverReconsidered, failed
  <2> QED BY <2>1, <2>2, <2>3 DEF IInv
<1>4. CASE ~NotWanted(b, r) /\ ReceivedBlockTransactions(b) /\ UNCHANGED failedValid
  <2>1. /\ b \in Blocks \ haveData /\ b \in index' /\ index \subseteq index' /\ index' \subseteq Blocks
        /\ UNCHANGED <<failedValid, failedChild, tip, nReconsider>>
    BY <1>1, <1>4 DEF NotWanted, IInv, TypeOK
  <2>2. /\ haveData' \subseteq index' /\ chainTx' \subseteq haveData' /\ chainTx \subseteq chainTx'
        /\ seqId' \in [Blocks -> Nat] /\ nBlockSequenceId' \in Nat
        /\ candidates' \subseteq chainTx' /\ unlinked' \subseteq haveData' \ chainTx'
        /\ LinkedClosed' /\ SequenceIdsDistinct' /\ WaitsForParent' /\ WaitingIsUnlinked'
    <3>1. CASE Parent[b] \in chainTx
      BY <1>1, <1>4, <2>1, <3>1, ReceivedLinks
    <3>2. CASE Parent[b] \notin chainTx
      BY <1>1, <1>4, <2>1, <3>2, ReceivedWaits
    <3> QED BY <3>1, <3>2
  <2>3. TypeOK'
    <3>1. tip \in chainTx /\ mostWork \in [Threads -> index \cup {NULL}] /\ verdict \in Verdicts
          /\ failedValid \subseteq index /\ failedChild \subseteq index
          /\ bestInvalid \in index \cup {NULL}
          /\ nInvalidate \in 0..MaxInvalidate /\ nReconsider \in 0..MaxReconsider
      BY DEF IInv, TypeOK
    <3>2. mostWork' \in [Threads -> index' \cup {NULL}]
      BY <1>2, <2>1, <3>1
    <3> QED BY <1>1, <1>2, <2>1, <2>2, <3>1, <3>2 DEF TypeOK
  <2>4. TargetsLinked'
    BY <1>2, <2>2 DEF TargetsLinked, IInv
  <2>5. FailureHasCause'
    BY <2>1 DEF FailureHasCause, NeverReconsidered, failed, IInv
  <2> QED BY <2>2, <2>3, <2>4, <2>5 DEF IInv
<1>5. QED
  BY <1>3, <1>4 DEF ProcessNewBlock

\* A round of ActivateBestChain: what it marks failed descends from a failed
\* block, hence from an invalid one.
LEMMA ActivatePreserves ==
  ASSUME IInv, NEW t \in Threads, ActivateBestChain(t)
  PROVE  IInv'
<1>1. /\ tip' \in chainTx
      /\ candidates' \subseteq candidates
      /\ bestInvalid' \in index \cup {NULL}
      /\ failedValid \subseteq failedValid' /\ failedValid' \subseteq index
      /\ failedChild \subseteq failedChild' /\ failedChild' \subseteq index
      /\ \A b \in failedChild' \ failedChild : \E y \in failed : y \in Anc[b]
      /\ pc' \in [Threads -> {"idle", "activate"}]
      /\ mostWork' \in [Threads -> chainTx \cup {NULL}]
      /\ UNCHANGED <<verdict, index, haveData, chainTx, seqId, nBlockSequenceId,
                     unlinked, bestHeader, nInvalidate, nReconsider>>
  BY ActivateEffect
<1>2. TypeOK'
  <2>1. mostWork' \in [Threads -> index' \cup {NULL}]
    BY <1>1 DEF IInv, TypeOK
  <2>2. candidates' \subseteq chainTx'
    BY <1>1 DEF IInv, TypeOK
  <2> QED BY <1>1, <2>1, <2>2 DEF IInv, TypeOK
<1>3. (LinkedClosed /\ TargetsLinked /\ SequenceIdsDistinct /\ WaitsForParent)'
  BY <1>1 DEF IInv, LinkedClosed, TargetsLinked, SequenceIdsDistinct, WaitsForParent
<1>4. WaitingIsUnlinked'
  BY <1>1 DEF IInv, WaitingIsUnlinked, NeverReconsidered
<1>5. FailureHasCause'
  <2>1. ASSUME NeverReconsidered', NEW b \in failed' PROVE Anc[b] \cap failedValid' # {}
    <3>1. b \in Blocks /\ NeverReconsidered
      BY <1>1, <2>1 DEF IInv, TypeOK, failed, NeverReconsidered
    <3>2. CASE b \in failedValid'
      BY <3>1, <3>2, AncReflexive
    <3>3. CASE b \in failed
      BY <1>1, <3>1, <3>3 DEF IInv, FailureHasCause
    <3>4. CASE b \in failedChild' \ failedChild
      <4>1. PICK y \in failed : y \in Anc[b]
        BY <1>1, <3>4
      <4>2. Anc[y] \cap failedValid # {} /\ Anc[y] \subseteq Anc[b]
        BY <3>1, <4>1, TreeAssumption DEF IInv, FailureHasCause
      <4> QED BY <1>1, <4>2
    <3> QED BY <2>1, <3>2, <3>3, <3>4 DEF failed
  <2> QED BY <2>1 DEF FailureHasCause
<1>6. QED
  BY <1>2, <1>3, <1>4, <1>5 DEF IInv

\* invalidateblock: the blocks it disconnects descend from the block it marks.
LEMMA InvalidatePreserves ==
  ASSUME IInv, NEW t \in Threads, NEW b \in Blocks, InvalidateBlock(t, b)
  PROVE  IInv'
<1>1. /\ b \in index /\ b # Genesis /\ nInvalidate < MaxInvalidate
      /\ tip' = (IF Disconnected(b) = {} THEN tip ELSE Parent[b])
      /\ failedChild' = failedChild \cup Disconnected(b)
      /\ failedValid' = failedValid \cup {b}
      /\ candidates' = (candidates \ (Disconnected(b) \cup {b}))
                          \cup BroughtBack(tip', failedValid' \cup failedChild')
      /\ bestInvalid' = InvalidChainFound(b, bestInvalid)
      /\ nInvalidate' = nInvalidate + 1
      /\ pc' = [pc EXCEPT ![t] = "activate"] /\ mostWork' = mostWork
      /\ UNCHANGED <<verdict, index, haveData, chainTx, seqId, nBlockSequenceId,
                     unlinked, bestHeader, nReconsider>>
  BY DEF InvalidateBlock, Activate
<1>2. Disconnected(b) \subseteq Anc[tip] /\ Anc[tip] \subseteq chainTx
  BY DEF Disconnected, IInv, TypeOK, LinkedClosed
<1>3. \A x \in Disconnected(b) : b \in Anc[x]
  <2>1. ASSUME NEW x \in Disconnected(b) PROVE b \in Anc[x]
    <3>1. b \in Anc[tip] /\ x \in Anc[tip] /\ x \notin Anc[Parent[b]] /\ tip \in Blocks
      BY DEF Disconnected, IInv, TypeOK
    <3>2. x \in Anc[b] \/ b \in Anc[x]
      BY <3>1, TreeAssumption
    <3>3. x \in Anc[b] => x = b
      BY <1>1, <3>1, TreeAssumption
    <3> QED BY <3>2, <3>3, AncReflexive
  <2> QED BY <2>1
<1>4. tip' \in chainTx
  <2>1. ASSUME Disconnected(b) # {} PROVE Parent[b] \in chainTx
    <3>1. b \in chainTx
      BY <1>2, <2>1 DEF Disconnected
    <3>2. Parent[b] \in Anc[b]
      BY <1>1, TreeAssumption, AncReflexive
    <3> QED BY <3>1, <3>2 DEF IInv, LinkedClosed
  <2> QED BY <1>1, <2>1 DEF IInv, TypeOK
<1>5. TypeOK'
  <2>1. candidates' \subseteq chainTx
    BY <1>1 DEF BroughtBack, IInv, TypeOK
  <2>2. failedChild' \subseteq index /\ failedValid' \subseteq index
    BY <1>1, <1>2 DEF IInv, TypeOK
  <2>3. bestInvalid' \in index \cup {NULL}
    BY <1>1 DEF InvalidChainFound, IInv, TypeOK
  <2>4. nInvalidate' \in 0..MaxInvalidate
    BY <1>1, BoundAssumption DEF IInv, TypeOK
  <2>5. pc' \in [Threads -> {"idle", "activate"}]
    BY <1>1 DEF IInv, TypeOK
  <2> QED BY <1>1, <1>4, <2>1, <2>2, <2>3, <2>4, <2>5 DEF IInv, TypeOK
<1>6. (LinkedClosed /\ TargetsLinked /\ SequenceIdsDistinct /\ WaitsForParent)'
  BY <1>1 DEF IInv, LinkedClosed, TargetsLinked, SequenceIdsDistinct, WaitsForParent
<1>7. WaitingIsUnlinked'
  BY <1>1 DEF IInv, WaitingIsUnlinked, NeverReconsidered
<1>8. FailureHasCause'
  <2>1. ASSUME NeverReconsidered', NEW x \in failed' PROVE Anc[x] \cap failedValid' # {}
    <3>1. CASE x \in failed
      BY <1>1, <2>1, <3>1 DEF IInv, FailureHasCause, NeverReconsidered
    <3>2. CASE x = b
      BY <1>1, <3>2, AncReflexive
    <3>3. CASE x \in Disconnected(b)
      BY <1>1, <1>3, <3>3
    <3> QED BY <1>1, <2>1, <3>1, <3>2, <3>3 DEF failed
  <2> QED BY <2>1 DEF FailureHasCause
<1>9. QED
  BY <1>5, <1>6, <1>7, <1>8 DEF IInv

\* reconsiderblock only clears flags and adds candidates.
LEMMA ReconsiderPreserves ==
  ASSUME IInv, NEW t \in Threads, NEW b \in Blocks, ReconsiderBlock(t, b)
  PROVE  IInv'
<1>1. /\ nReconsider < MaxReconsider
      /\ failedValid' \subseteq failedValid /\ failedChild' \subseteq failedChild
      /\ candidates' = candidates \cup Restored(b)
      /\ bestInvalid' \in {bestInvalid, NULL}
      /\ nReconsider' = nReconsider + 1
      /\ pc' = [pc EXCEPT ![t] = "activate"] /\ mostWork' = mostWork
      /\ UNCHANGED <<verdict, index, haveData, chainTx, seqId, nBlockSequenceId,
                     unlinked, tip, bestHeader, nInvalidate>>
  BY DEF ReconsiderBlock, Activate
<1>2. nReconsider' \in 0..MaxReconsider /\ ~NeverReconsidered'
  BY <1>1, BoundAssumption DEF IInv, TypeOK, NeverReconsidered
<1>3. TypeOK'
  <2>1. candidates' \subseteq chainTx
    BY <1>1 DEF Restored, IInv, TypeOK
  <2>2. pc' \in [Threads -> {"idle", "activate"}]
    BY <1>1 DEF IInv, TypeOK
  <2> QED BY <1>1, <1>2, <2>1, <2>2 DEF IInv, TypeOK
<1>4. (LinkedClosed /\ TargetsLinked /\ SequenceIdsDistinct /\ WaitsForParent)'
  BY <1>1 DEF IInv, LinkedClosed, TargetsLinked, SequenceIdsDistinct, WaitsForParent
<1>5. (FailureHasCause /\ WaitingIsUnlinked)'
  BY <1>2 DEF FailureHasCause, WaitingIsUnlinked
<1>6. QED
  BY <1>3, <1>4, <1>5 DEF IInv

\* Every step keeps the invariant.
LEMMA NextPreserves == IInv /\ [Next]_vars => IInv'
<1> SUFFICES ASSUME IInv, [Next]_vars PROVE IInv'
  OBVIOUS
<1>1. CASE UNCHANGED vars
  BY <1>1 DEF IInv, TypeOK, LinkedClosed, TargetsLinked, SequenceIdsDistinct, WaitsForParent,
     FailureHasCause, WaitingIsUnlinked, NeverReconsidered, failed, vars, entries, globals
<1>2. CASE \E b \in Blocks \ {Genesis} : ProcessHeader(b)
  BY <1>2, HeaderPreserves
<1>3. CASE \E t \in Threads, b \in Blocks, r \in BOOLEAN : ProcessNewBlock(t, b, r)
  BY <1>3, BlockPreserves
<1>4. CASE \E t \in Threads : ActivateBestChain(t)
  BY <1>4, ActivatePreserves
<1>5. CASE \E t \in Threads, b \in Blocks : InvalidateBlock(t, b)
  BY <1>5, InvalidatePreserves
<1>6. CASE \E t \in Threads, b \in Blocks : ReconsiderBlock(t, b)
  BY <1>6, ReconsiderPreserves
<1>7. QED
  BY <1>1, <1>2, <1>3, <1>4, <1>5, <1>6 DEF Next

\* The inductive invariant holds in every reachable state.
THEOREM IInvHolds == Spec => []IInv
  BY InitEstablishes, NextPreserves, PTL DEF Spec

\* Every field of a block index entry, every global and every thread's local
\* stays in its range; in particular only linked blocks become the tip, a
\* candidate or the target of a thread.
THEOREM TypeCorrect == Spec => []TypeOK
<1>1. IInv => TypeOK
  BY DEF IInv
<1>2. QED
  BY <1>1, IInvHolds, PTL

\* The lowest unlinked ancestor of a block that has all its data would wait for
\* a linked parent, so there is none.
LEMMA InvariantLinks == IInv => LinkedExactly
<1> SUFFICES ASSUME IInv PROVE LinkedExactly
  OBVIOUS
<1>1. \A b \in chainTx : Anc[b] \subseteq haveData
  BY DEF IInv, LinkedClosed, TypeOK
<1>2. ASSUME NeverReconsidered, NEW b \in index, Anc[b] \subseteq haveData,
             Anc[b] \cap failedValid = {}, b \notin chainTx
      PROVE  FALSE
  <2>1. b \in Blocks /\ b \in Anc[b] \ chainTx
    BY <1>2, AncReflexive DEF IInv, TypeOK
  <2>2. PICK m \in Anc[b] \ chainTx : \A y \in Anc[b] \ chainTx : y \in Anc[m] => y = m
    <3> DEFINE S == Anc[b] \ chainTx
    <3>1. S \in SUBSET Anc[b] /\ S # {}
      BY <2>1
    <3>2. \E m \in S : \A y \in S : y \in Anc[m] => y = m
      <4> HIDE DEF S
      <4> QED BY <2>1, <3>1, LowestExists
    <3> QED BY <3>2
  <2>3. m \in Blocks /\ m # Genesis /\ Anc[m] \subseteq Anc[b]
    BY <2>1, <2>2, TreeAssumption DEF IInv, LinkedClosed
  <2>4. m \in unlinked
    BY <1>2, <2>2, <2>3 DEF IInv, WaitingIsUnlinked
  <2>5. Parent[m] \notin chainTx
    BY <2>4 DEF IInv, WaitsForParent
  <2>6. Parent[m] \in Anc[m] /\ Parent[m] # m
    BY <2>3, TreeAssumption, AncReflexive
  <2> QED BY <2>2, <2>3, <2>5, <2>6
<1>3. QED
  BY <1>1, <1>2 DEF LinkedExactly, IInv, SequenceIdsDistinct

\* Blocks and headers arriving in any order, from any number of threads: a
\* block is linked exactly when it and all its ancestors have arrived.
THEOREM LinkingCorrect == Spec => []LinkedExactly
  BY InvariantLinks, IInvHolds, PTL

\* No block is forgotten while it waits for an ancestor.
THEOREM NothingForgotten == Spec => []WaitingIsUnlinked
<1>1. IInv => WaitingIsUnlinked
  BY DEF IInv
<1>2. QED
  BY <1>1, IInvHolds, PTL

\* No block is marked failed without an invalid ancestor.
THEOREM FailuresJustified == Spec => []FailureHasCause
<1>1. IInv => FailureHasCause
  BY DEF IInv
<1>2. QED
  BY <1>1, IInvHolds, PTL

\* The block index is always as CheckBlockIndex wants it, as the run chain_state
\* checks it for one thread.
THEOREM BlockIndexCorrect == Spec => []BlockIndexConsistent
  BY TypeCorrect, LinkingCorrect, NothingForgotten, FailuresJustified, PTL
  DEF BlockIndexConsistent

-----------------------------------------------------------------------------
(* The active chain, when one thread at a time activates                   *)

\* With one thread, marking failed children touches no chain that was free of
\* failed blocks, and the round's target is such a chain.
LEMMA RoundValid ==
  ASSUME IInv, ActiveChainValid, TargetValid, NEW t \in Threads
  PROVE  LET bad == failedValid \cup ChildOf(t) IN
         /\ Anc[tip] \cap bad = {}
         /\ MostWorkOf(t) # NULL => Anc[MostWorkOf(t)] \cap bad = {}
         /\ \A c \in Blocks : Anc[c] \cap failed = {} => Anc[c] \cap bad = {}
<1> DEFINE mw == MostWorkOf(t)
           bad == failedValid \cup ChildOf(t)
<1>1. TypeOK /\ LinkedClosed /\ TargetsLinked /\ SequenceIdsDistinct
  BY DEF IInv
<1>2. mw \in chainTx \cup {NULL} /\ tip \in Blocks /\ chainTx \subseteq Blocks
  BY <1>1, RoundTypes DEF TypeOK
<1>3. CASE mostWork[t] # NULL
  BY <1>3 DEF MostWorkOf, ChildOf, TargetValid, ActiveChainValid, failed
<1>4. CASE mostWork[t] = NULL
  <2>1. mw = FindMostWorkChain /\ ChildOf(t) = failedChild \cup MarkedChild
    BY <1>4 DEF MostWorkOf, ChildOf
  <2>2. mw # NULL => Anc[mw] \cap failed = {}
    BY <1>1, <2>1, MostWorkLinked DEF Usable, ActiveChainValid
  <2>3. ASSUME NEW c \in Blocks, Anc[c] \cap failed = {}, NEW x \in Anc[c] PROVE x \notin MarkedChild
    <3>1. SUFFICES ASSUME x \in MarkedChild PROVE FALSE
      OBVIOUS
    <3>2. PICK y \in failed : y \in Anc[x]
      BY <1>1, <3>1, MarkedHasFailedAncestor
    <3> QED BY <2>3, <3>2, TreeAssumption
  <2>4. Anc[tip] \cap failed = {}
    BY DEF ActiveChainValid
  <2>5. ASSUME NEW c \in Blocks, Anc[c] \cap failed = {} PROVE Anc[c] \cap bad = {}
    BY <2>1, <2>3, <2>5 DEF failed
  <2> HIDE DEF mw, bad
  <2>6. /\ Anc[tip] \cap bad = {}
        /\ mw # NULL => Anc[mw] \cap bad = {}
        /\ \A c \in Blocks : Anc[c] \cap failed = {} => Anc[c] \cap bad = {}
    BY <1>2, <2>2, <2>4, <2>5
  <2> QED BY <2>6 DEF mw, bad
<1>5. QED
  BY <1>3, <1>4

\* A round of activation leaves the tip and its target on valid chains.
LEMMA ActivateKeepsValid ==
  ASSUME IInv, ActiveChainValid, TargetValid, NEW t \in Threads, \A u \in Threads : u = t,
         ActivateBestChain(t)
  PROVE  ActiveChainValid' /\ TargetValid'
<1> DEFINE mw == MostWorkOf(t)
           bad == failedValid \cup ChildOf(t)
<1>1. TypeOK /\ LinkedClosed /\ TargetsLinked /\ SequenceIdsDistinct
  BY DEF IInv
<1>2. mw \in chainTx \cup {NULL} /\ tip \in Blocks /\ chainTx \subseteq Blocks
  BY <1>1, RoundTypes DEF TypeOK
<1>3. Anc[tip] \cap bad = {} /\ (mw # NULL => Anc[mw] \cap bad = {})
  BY RoundValid
<1>4. failedChild' = ChildOf(t)
  BY DEF ActivateBestChain
<1>5. mostWork \in [Threads -> index \cup {NULL}] /\ pc \in [Threads -> {"idle", "activate"}]
  BY <1>1 DEF TypeOK
<1>6. CASE NothingToDo(t)
  <2>1. tip' = tip /\ failedValid' = failedValid /\ mostWork'[t] = NULL
    BY <1>5, <1>6 DEF NothingToDo, Return
  <2> QED BY <1>3, <1>4, <2>1 DEF ActiveChainValid, TargetValid, failed
<1>7. CASE /\ mw \notin {NULL, tip}
           /\ \/ StepConnects(t, mw)
              \/ \E f \in Refused(mw) : StepFindsInvalid(t, mw, f) \/ StepFails(t, mw, f)
  <2>1. mw \in chainTx /\ mw \in Blocks /\ Anc[mw] \cap bad = {}
    BY <1>2, <1>3, <1>7
  <2>2. /\ Refused(mw) \subseteq ToConnect(mw)
        /\ TipAfter(mw) \in Connected(mw) \cup Anc[tip]
        /\ TipAfter(mw) \in Anc[mw]
    BY <1>1, <2>1, StepLinked
  <2>3. Anc[TipAfter(mw)] \subseteq Anc[mw] /\ TipAfter(mw) \in Blocks
    BY <2>1, <2>2, TreeAssumption
  <2>4. ASSUME NEW f \in Refused(mw) PROVE f \notin Anc[TipAfter(mw)]
    <3>1. f \in ToConnect(mw) /\ f \notin Anc[tip] /\ f \in Bad(mw)
      BY <2>2 DEF ToConnect, Refused
    <3>2. CASE TipAfter(mw) \in Connected(mw)
      BY <3>1, <3>2 DEF Connected
    <3>3. CASE TipAfter(mw) \in Anc[tip]
      BY <1>2, <3>1, <3>3, TreeAssumption
    <3> QED BY <2>2, <3>2, <3>3
  <2> HIDE DEF mw
  <2>5. CASE StepConnects(t, mw)
    <3>1. tip' = TipAfter(mw) /\ failedValid' = failedValid
      BY <2>5 DEF StepConnects
    <3>2. mostWork'[t] = NULL \/ (mostWork'[t] = mw /\ pc' = pc)
      BY <1>5, <2>5 DEF StepConnects, Return
    <3>3. pc[t] = "activate"
      BY DEF ActivateBestChain
    <3>4. failed' = bad
      BY <1>4, <3>1 DEF failed
    <3>5. ActiveChainValid'
      BY <2>1, <2>3, <3>1, <3>4 DEF ActiveChainValid
    <3>6. TargetValid'
      BY <2>1, <2>2, <3>1, <3>2, <3>3, <3>4 DEF TargetValid
    <3> QED BY <3>5, <3>6
  <2>6. ASSUME NEW f \in Refused(mw), StepFindsInvalid(t, mw, f)
        PROVE  ActiveChainValid' /\ TargetValid'
    <3>1. tip' = TipAfter(mw) /\ failedValid' = failedValid \cup {f} /\ mostWork'[t] = NULL
      BY <1>5, <2>6 DEF StepFindsInvalid
    <3>2. failed' = bad \cup {f}
      BY <1>4, <3>1 DEF failed
    <3> QED BY <2>1, <2>3, <2>4, <3>1, <3>2 DEF ActiveChainValid, TargetValid
  <2>7. ASSUME NEW f \in Refused(mw), StepFails(t, mw, f)
        PROVE  ActiveChainValid' /\ TargetValid'
    <3>1. tip' = TipAfter(mw) /\ failedValid' = failedValid /\ mostWork'[t] = NULL
      BY <1>5, <2>7 DEF StepFails, Return
    <3>2. failed' = bad
      BY <1>4, <3>1 DEF failed
    <3> QED BY <2>1, <2>3, <3>1, <3>2 DEF ActiveChainValid, TargetValid
  <2> QED BY <1>7, <2>5, <2>6, <2>7
<1>8. QED
  BY <1>6, <1>7 DEF ActivateBestChain

\* With one thread no step leaves a failed block in the active chain or as a target.
LEMMA NextKeepsValid ==
  ASSUME \A t, u \in Threads : t = u
  PROVE  IInv /\ ActiveChainValid /\ TargetValid /\ [Next]_vars
            => ActiveChainValid' /\ TargetValid'
<1> SUFFICES ASSUME IInv, ActiveChainValid, TargetValid, [Next]_vars
             PROVE  ActiveChainValid' /\ TargetValid'
  OBVIOUS
<1> USE DEF ActiveChainValid, TargetValid, failed
<1>1. CASE UNCHANGED vars
  BY <1>1 DEF vars, entries, globals
<1>2. CASE \E b \in Blocks \ {Genesis} : ProcessHeader(b)
  BY <1>2 DEF ProcessHeader
<1>3. ASSUME NEW t \in Threads, NEW b \in Blocks, NEW r \in BOOLEAN, ProcessNewBlock(t, b, r)
      PROVE  ActiveChainValid' /\ TargetValid'
  <2>1. /\ pc[t] = "idle" /\ mostWork' = mostWork
        /\ UNCHANGED <<tip, failedChild>>
        /\ failedValid' = failedValid \/ (b \notin haveData /\ failedValid' = failedValid \cup {b})
    BY <1>3 DEF ProcessNewBlock, Activate, NotWanted
  <2>2. mostWork[t] = NULL
    BY <2>1
  <2>3. Anc[tip] \subseteq haveData
    BY DEF IInv, TypeOK, LinkedClosed
  <2> QED BY <2>1, <2>2, <2>3
<1>4. CASE \E t \in Threads : ActivateBestChain(t)
  BY <1>4, ActivateKeepsValid
<1>5. ASSUME NEW t \in Threads, NEW b \in Blocks, InvalidateBlock(t, b)
      PROVE  ActiveChainValid' /\ TargetValid'
  <2>1. /\ pc[t] = "idle" /\ mostWork' = mostWork /\ b # Genesis
        /\ tip' = (IF Disconnected(b) = {} THEN tip ELSE Parent[b])
        /\ failedChild' = failedChild \cup Disconnected(b)
        /\ failedValid' = failedValid \cup {b}
    BY <1>5 DEF InvalidateBlock, Activate
  <2>2. mostWork[t] = NULL
    BY <2>1
  <2>3. CASE b \in Anc[tip]
    <3>1. Disconnected(b) = Anc[tip] \ Anc[Parent[b]] /\ b \in Disconnected(b)
      BY <2>1, <2>3, TreeAssumption DEF Disconnected
    <3>2. Anc[Parent[b]] \subseteq Anc[tip]
      BY <2>1, <2>3, TreeAssumption DEF IInv, TypeOK
    <3> QED BY <2>1, <2>2, <3>1, <3>2
  <2>4. CASE b \notin Anc[tip]
    <3>1. Disconnected(b) = {}
      BY <2>4 DEF Disconnected
    <3> QED BY <2>1, <2>2, <2>4, <3>1
  <2> QED BY <2>3, <2>4
<1>6. ASSUME NEW t \in Threads, NEW b \in Blocks, ReconsiderBlock(t, b)
      PROVE  ActiveChainValid' /\ TargetValid'
  <2>1. /\ pc[t] = "idle" /\ mostWork' = mostWork /\ tip' = tip
        /\ failedValid' \subseteq failedValid /\ failedChild' \subseteq failedChild
    BY <1>6 DEF ReconsiderBlock, Activate
  <2>2. mostWork[t] = NULL
    BY <2>1
  <2> QED BY <2>1, <2>2
<1>7. QED
  BY <1>1, <1>2, <1>3, <1>4, <1>5, <1>6 DEF Next

\* When one thread at a time is inside ActivateBestChain, no block of the active
\* chain is ever marked failed, whatever fails, is invalidated or reconsidered.
THEOREM ActiveChainStaysValid ==
  ASSUME \A t, u \in Threads : t = u
  PROVE  Spec => []ActiveChainValid
<1>1. Init => ActiveChainValid /\ TargetValid
  BY DEF Init, ActiveChainValid, TargetValid, failed
<1>2. IInv /\ ActiveChainValid /\ TargetValid /\ [Next]_vars => ActiveChainValid' /\ TargetValid'
  BY NextKeepsValid
<1>3. QED
  BY <1>1, <1>2, IInvHolds, PTL DEF Spec

-----------------------------------------------------------------------------
(* Work along a chain and the order of the candidates                      *)

\* A block has more work than each of its proper ancestors: the lowest
\* exception would have a parent with more work already.
LEMMA AncestorWork ==
  ASSUME NEW x \in Blocks, NEW y \in Anc[x]
  PROVE  y = x \/ Work[y] < Work[x]
<1> DEFINE S == {z \in Anc[x] : y \in Anc[z] /\ z # y /\ ~(Work[y] < Work[z])}
<1>1. Anc[x] \subseteq Blocks /\ y \in Blocks
  BY TreeAssumption
<1>2. ASSUME S # {} PROVE FALSE
  <2>1. PICK m \in S : \A z \in S : z \in Anc[m] => z = m
    <3>1. S \in SUBSET Anc[x]
      OBVIOUS
    <3> HIDE DEF S
    <3> QED BY <1>2, <3>1, LowestExists
  <2>2. m \in Anc[x] /\ m \in Blocks /\ y \in Anc[m] /\ m # y /\ ~(Work[y] < Work[m])
    BY <1>1
  <2>3. m # Genesis
    BY <2>2, TreeAssumption
  <2>4. /\ Parent[m] \in Blocks /\ Parent[m] \in Anc[m] /\ Parent[m] # m
        /\ y \in Anc[Parent[m]] /\ Parent[m] \in Anc[x]
    BY <2>2, <2>3, TreeAssumption, AncReflexive
  <2>5. Work[Parent[m]] < Work[m] /\ Work[m] \in Nat /\ Work[Parent[m]] \in Nat /\ Work[y] \in Nat
    BY <1>1, <2>2, <2>3, <2>4, WorkAssumption
  <2>6. Parent[m] \notin S
    BY <2>1, <2>4
  <2>7. Parent[m] = y \/ Work[y] < Work[Parent[m]]
    BY <2>4, <2>6
  <2> QED BY <2>2, <2>5, <2>7
<1>3. QED
  BY <1>2, AncReflexive

\* CBlockIndexWorkComparator is a strict weak order on the index, and a proper
\* ancestor sorts before its descendants.
LEMMA WorseOrder ==
  ASSUME TypeOK
  PROVE  /\ \A x \in Blocks : ~Worse(x, x)
         /\ \A x, y \in Blocks : Worse(x, y) => ~Worse(y, x)
         /\ \A x, y, z \in Blocks : ~Worse(x, y) /\ ~Worse(y, z) => ~Worse(x, z)
         /\ \A x \in Blocks : \A y \in Anc[x] : ~Worse(x, y)
<1>1. \A x \in Blocks : Work[x] \in Nat /\ seqId[x] \in Nat
  BY WorkAssumption DEF TypeOK
<1>2. ASSUME NEW x \in Blocks, NEW y \in Anc[x] PROVE ~Worse(x, y)
  <2>1. y \in Blocks /\ (y = x \/ Work[y] < Work[x])
    BY AncestorWork, TreeAssumption
  <2> QED BY <1>1, <2>1 DEF Worse, WorseBy
<1>3. /\ \A x \in Blocks : ~Worse(x, x)
      /\ \A x, y \in Blocks : Worse(x, y) => ~Worse(y, x)
  BY <1>1 DEF Worse, WorseBy
<1>4. \A x, y, z \in Blocks : ~Worse(x, y) /\ ~Worse(y, z) => ~Worse(x, z)
  BY <1>1 DEF Worse, WorseBy
<1>5. QED
  BY <1>2, <1>3, <1>4

\* A step that refuses nothing reaches its target or a block with more work
\* than the tip it started from.
LEMMA StepReaches ==
  ASSUME TypeOK, LinkedClosed, NEW mw \in chainTx, mw \notin Anc[tip], Refused(mw) = {}
  PROVE  TipAfter(mw) = mw \/ Work[TipAfter(mw)] > Work[tip]
<1> DEFINE T == ToConnect(mw)
           C == Connected(mw)
<1>1. mw \in Blocks /\ tip \in Blocks /\ Anc[mw] \subseteq Blocks
  BY TreeAssumption DEF TypeOK
<1>2. \A x \in Blocks : Work[x] \in Nat
  BY WorkAssumption
<1>3. C \subseteq T /\ T \subseteq Anc[mw] /\ T = Anc[mw] \ Anc[tip] /\ mw \in T
  BY <1>1, AncReflexive DEF Connected, ToConnect
<1>4. \A x \in T : x \in C <=> \A y \in Anc[x] \cap T :
                                  y \notin Bad(mw) /\ (y # x => ~(Work[y] > Work[tip]))
  BY DEF Connected
<1>5. CASE mw \in C
  <2>1. TipAfter(mw) = Highest(C)
    BY <1>5 DEF TipAfter
  <2>2. Highest(C) \in C /\ mw \in Anc[Highest(C)]
    BY <1>1, <1>3, <1>5, HighestIn
  <2>3. Highest(C) \in Anc[mw] /\ Highest(C) \in Blocks
    BY <2>2, <1>1, <1>3
  <2> QED BY <1>1, <2>1, <2>2, <2>3, AncAntisymmetric
<1>6. CASE mw \notin C
  <2> DEFINE S == T \ C
  <2>1. PICK m \in S : \A y \in S : y \in Anc[m] => y = m
    <3>1. S \in SUBSET Anc[mw] /\ S # {}
      BY <1>3, <1>6
    <3> HIDE DEF S
    <3> QED BY <1>1, <3>1, LowestExists
  <2>2. m \in T /\ m \notin C /\ m \in Blocks /\ m \in Anc[mw]
    BY <2>1, <1>1, <1>3
  <2>3. \A y \in (Anc[m] \cap T) \ {m} : y \in C
    BY <2>1
  <2>4. \A y \in (Anc[m] \cap T) \ {m} : y \notin Bad(mw)
    <3>1. ASSUME NEW y \in (Anc[m] \cap T) \ {m} PROVE y \notin Bad(mw)
      <4>1. y \in C /\ y \in Anc[y] \cap T
        BY <2>3, <1>1, <1>3, AncReflexive
      <4> QED BY <4>1, <1>4
    <3> QED BY <3>1
  <2>5. PICK y \in Anc[m] \cap T : y # m /\ y \in C /\ Work[y] > Work[tip]
    <3>1. SUFFICES ASSUME \A y \in (Anc[m] \cap T) \ {m} : ~(Work[y] > Work[tip]) PROVE FALSE
      BY <2>3
    <3>2. m \in Bad(mw)
      BY <1>4, <2>2, <2>4, <3>1
    <3>3. m \in Refused(mw)
      BY <2>3, <3>1, <3>2 DEF Refused
    <3> QED BY <3>3
  <2>6. Highest(C) \in C /\ y \in Anc[Highest(C)]
    BY <1>1, <1>3, <2>5, HighestIn
  <2>7. Highest(C) \in Blocks /\ TipAfter(mw) = Highest(C)
    BY <2>5, <2>6, <1>1, <1>3 DEF TipAfter
  <2>8. y = Highest(C) \/ Work[y] < Work[Highest(C)]
    BY <2>6, <2>7, AncestorWork
  <2>9. y \in Blocks /\ Work[y] \in Nat /\ Work[tip] \in Nat /\ Work[Highest(C)] \in Nat
    BY <1>1, <1>2, <1>3, <2>5, <2>7
  <2> QED BY <2>5, <2>7, <2>8, <2>9
<1>7. QED
  BY <1>5, <1>6

-----------------------------------------------------------------------------
(* What every number of threads keeps true of the candidates and the tip   *)

\* The tip moves to an ancestor, and nothing needs pruning, or PruneBlockIndex-
\* Candidates follows it; a block is connected only when ConnectBlock accepts it.
LEMMA ActivateKeepsOrder ==
  ASSUME IInv, CandidatesNotWorse, ActiveChainConnected, NEW t \in Threads, ActivateBestChain(t)
  PROVE  CandidatesNotWorse' /\ ActiveChainConnected'
<1> DEFINE mw == MostWorkOf(t)
<1>1. TypeOK /\ LinkedClosed /\ TargetsLinked /\ SequenceIdsDistinct
  BY DEF IInv
<1>2. /\ mw \in chainTx \cup {NULL} /\ tip \in Blocks /\ candidates \subseteq Blocks
      /\ CandidatesOf(t) \subseteq candidates
  BY <1>1, RoundTypes DEF TypeOK
<1>3. UNCHANGED <<verdict, seqId>>
  BY DEF ActivateBestChain
<1>4. CASE NothingToDo(t)
  <2>1. tip' = tip /\ candidates' \subseteq candidates
    BY <1>2, <1>4 DEF NothingToDo
  <2> QED BY <1>3, <2>1 DEF CandidatesNotWorse, ActiveChainConnected, Worse
<1>5. CASE /\ mw \notin {NULL, tip}
           /\ \/ StepConnects(t, mw)
              \/ \E f \in Refused(mw) : StepFindsInvalid(t, mw, f) \/ StepFails(t, mw, f)
  <2>1. mw \in chainTx
    BY <1>2, <1>5
  <2>2. /\ tip' = TipAfter(mw)
        /\ candidates' \subseteq PruneBlockIndexCandidates(CandidatesOf(t), mw)
    BY <1>5 DEF StepConnects, StepFindsInvalid, StepFails
  <2>3. /\ Connected(mw) \subseteq ToConnect(mw) /\ TipAfter(mw) \in chainTx
        /\ TipAfter(mw) \in Connected(mw) \cup Anc[tip]
        /\ TipAfter(mw) \in Anc[mw] /\ mw \in Blocks /\ TipAfter(mw) \in Blocks
    BY <1>1, <2>1, StepLinked DEF TypeOK
  <2> HIDE DEF mw
  <2>4. CandidatesNotWorse'
    <3>1. ASSUME NEW c \in candidates' PROVE ~Worse(c, TipAfter(mw))
      <4>1. c \in CandidatesOf(t) /\ c \in candidates /\ c \in Blocks /\ ~Worse(c, tip)
        BY <1>2, <2>2 DEF PruneBlockIndexCandidates, CandidatesNotWorse
      <4>2. CASE Connected(mw) = {}
        <5>1. ~Worse(tip, TipAfter(mw))
          BY <1>1, <1>2, <2>3, <4>2, WorseOrder
        <5> QED BY <1>1, <1>2, <2>3, <4>1, <5>1, WorseOrder
      <4>3. CASE Connected(mw) # {}
        BY <2>2, <4>3 DEF PruneBlockIndexCandidates
      <4> QED BY <4>2, <4>3
    <3> QED BY <1>3, <2>2, <3>1 DEF CandidatesNotWorse, Worse
  <2>5. ActiveChainConnected'
    <3>1. ASSUME NEW y \in Anc[TipAfter(mw)] PROVE verdict[y] = "ok"
      <4>1. CASE y \in Anc[tip]
        BY <4>1 DEF ActiveChainConnected
      <4>2. CASE y \notin Anc[tip]
        <5>1. TipAfter(mw) \in Connected(mw)
          BY <1>2, <2>3, <4>2, TreeAssumption
        <5>2. y \in ToConnect(mw)
          BY <2>3, <4>2, TreeAssumption DEF ToConnect
        <5>3. y \notin Bad(mw)
          BY <5>1, <5>2 DEF Connected
        <5> QED BY <5>2, <5>3 DEF Bad
      <4> QED BY <4>1, <4>2
    <3> QED BY <1>3, <2>2, <3>1 DEF ActiveChainConnected
  <2> QED BY <2>4, <2>5
<1>6. QED
  BY <1>4, <1>5 DEF ActivateBestChain

\* No step of any thread leaves a candidate worse than the tip.
LEMMA NextKeepsOrder ==
  IInv /\ CandidatesNotWorse /\ ActiveChainConnected /\ [Next]_vars
     => CandidatesNotWorse' /\ ActiveChainConnected'
<1> SUFFICES ASSUME IInv, CandidatesNotWorse, ActiveChainConnected, [Next]_vars
             PROVE  CandidatesNotWorse' /\ ActiveChainConnected'
  OBVIOUS
<1>1. TypeOK /\ tip \in chainTx /\ tip \in Blocks /\ chainTx \subseteq Blocks /\ candidates \subseteq chainTx
  BY DEF IInv, TypeOK
<1>2. CASE UNCHANGED vars
  BY <1>2 DEF vars, entries, globals, CandidatesNotWorse, ActiveChainConnected, Worse
<1>3. CASE \E b \in Blocks \ {Genesis} : ProcessHeader(b)
  BY <1>3 DEF ProcessHeader, CandidatesNotWorse, ActiveChainConnected, Worse
<1>4. ASSUME NEW t \in Threads, NEW b \in Blocks, NEW r \in BOOLEAN, ProcessNewBlock(t, b, r)
      PROVE  CandidatesNotWorse' /\ ActiveChainConnected'
  <2>1. UNCHANGED <<verdict, tip>> /\ b # Genesis
    BY <1>4 DEF ProcessNewBlock
  <2>2. CASE UNCHANGED <<seqId, candidates>>
    BY <2>1, <2>2 DEF CandidatesNotWorse, ActiveChainConnected, Worse
  <2>3. CASE b \notin haveData /\ Parent[b] \in chainTx /\ ReceivedBlockTransactions(b)
    <3>1. PICK f \in SequenceIds(Linked(b)) :
             seqId' = [x \in Blocks |-> IF x \in Linked(b) THEN f[x] ELSE seqId[x]]
      BY <2>3 DEF ReceivedBlockTransactions
    <3>2. candidates' = candidates \cup {x \in Linked(b) : ~WorseBy(x, tip, seqId')}
      BY <2>3 DEF ReceivedBlockTransactions
    <3>3. Linked(b) \cap chainTx = {}
      BY <2>1, <2>3, LinkedShape DEF IInv, TypeOK
    <3>4. \A x \in chainTx : seqId'[x] = seqId[x]
      BY <1>1, <3>1, <3>3
    <3>5. ASSUME NEW c \in candidates' PROVE ~WorseBy(c, tip, seqId')
      <4>1. CASE c \in candidates
        <5>1. ~Worse(c, tip) /\ seqId'[c] = seqId[c] /\ seqId'[tip] = seqId[tip]
          BY <1>1, <3>4, <4>1 DEF CandidatesNotWorse
        <5> QED BY <5>1 DEF Worse, WorseBy
      <4> QED BY <3>2, <4>1
    <3> QED BY <2>1, <3>5 DEF CandidatesNotWorse, ActiveChainConnected, Worse
  <2> QED BY <1>4, <2>2, <2>3 DEF ProcessNewBlock, ReceivedBlockTransactions, NotWanted
<1>5. CASE \E t \in Threads : ActivateBestChain(t)
  BY <1>5, ActivateKeepsOrder
<1>6. ASSUME NEW t \in Threads, NEW b \in Blocks, InvalidateBlock(t, b)
      PROVE  CandidatesNotWorse' /\ ActiveChainConnected'
  <2>1. /\ b # Genesis
        /\ tip' = (IF Disconnected(b) = {} THEN tip ELSE Parent[b])
        /\ candidates' \subseteq candidates \cup BroughtBack(tip', failedValid' \cup failedChild')
        /\ UNCHANGED <<verdict, seqId, chainTx>>
    BY <1>6 DEF InvalidateBlock
  <2>2. tip' \in Anc[tip] /\ tip' \in Blocks
    <3>1. CASE Disconnected(b) = {}
      BY <1>1, <2>1, <3>1, AncReflexive
    <3>2. CASE Disconnected(b) # {}
      BY <1>1, <2>1, <3>2, TreeAssumption, AncReflexive DEF Disconnected
    <3> QED BY <3>1, <3>2
  <2>3. ASSUME NEW c \in candidates' PROVE ~Worse(c, tip')
    <3>1. CASE c \in candidates
      <4>1. c \in Blocks /\ ~Worse(c, tip) /\ ~Worse(tip, tip')
        BY <1>1, <2>2, <3>1, WorseOrder DEF CandidatesNotWorse
      <4> QED BY <1>1, <2>2, <4>1, WorseOrder
    <3> QED BY <2>1, <3>1 DEF BroughtBack
  <2>4. CandidatesNotWorse'
    BY <2>1, <2>3 DEF CandidatesNotWorse, Worse
  <2>5. ActiveChainConnected'
    BY <1>1, <2>1, <2>2, TreeAssumption DEF ActiveChainConnected
  <2> QED BY <2>4, <2>5
<1>7. ASSUME NEW t \in Threads, NEW b \in Blocks, ReconsiderBlock(t, b)
      PROVE  CandidatesNotWorse' /\ ActiveChainConnected'
  <2>1. candidates' = candidates \cup Restored(b) /\ UNCHANGED <<verdict, seqId, tip>>
    BY <1>7 DEF ReconsiderBlock
  <2>2. ASSUME NEW c \in candidates' PROVE ~Worse(c, tip)
    <3>1. CASE c \in candidates
      BY <3>1 DEF CandidatesNotWorse
    <3>2. CASE c \in chainTx /\ Worse(tip, c)
      BY <1>1, <3>2, WorseOrder
    <3> QED BY <2>1, <3>1, <3>2 DEF Restored
  <2> QED BY <2>1, <2>2 DEF CandidatesNotWorse, ActiveChainConnected, Worse
<1>8. QED
  BY <1>2, <1>3, <1>4, <1>5, <1>6, <1>7 DEF Next

\* At the start Genesis is the tip and the one candidate.
LEMMA InitOrdered == Init => CandidatesNotWorse /\ ActiveChainConnected
<1> SUFFICES ASSUME Init PROVE CandidatesNotWorse /\ ActiveChainConnected
  OBVIOUS
<1>1. TypeOK
  BY InitEstablishes DEF IInv
<1>2. ~Worse(Genesis, Genesis)
  BY <1>1, WorseOrder, TreeAssumption
<1> QED BY <1>2, TreeAssumption, VerdictAssumption DEF Init, CandidatesNotWorse, ActiveChainConnected

\* At no time, whatever the threads and the operator do and whichever blocks fail,
\* is a candidate worse than the tip: PruneBlockIndexCandidates need not run after
\* a disconnection.
THEOREM NoWorseCandidate == Spec => []CandidatesNotWorse
<1>1. Init => CandidatesNotWorse /\ ActiveChainConnected
  BY InitOrdered
<1>2. QED
  BY <1>1, NextKeepsOrder, IInvHolds, PTL DEF Spec

\* Every block of the active chain has passed ConnectBlock.
THEOREM ActiveChainAccepted == Spec => []ActiveChainConnected
<1>1. Init => CandidatesNotWorse /\ ActiveChainConnected
  BY InitOrdered
<1>2. QED
  BY <1>1, NextKeepsOrder, IInvHolds, PTL DEF Spec

-----------------------------------------------------------------------------
(* The choice of the best chain, when one thread at a time activates and   *)
(* ConnectBlock never fails without a verdict                              *)

\* FindMostWorkChain takes a candidate out of the set only by marking it.
LEMMA RoundKeepsUnmarked ==
  ASSUME IInv, NEW t \in Threads, NEW x \in candidates, x \notin failedValid \cup ChildOf(t)
  PROVE  x \in CandidatesOf(t)
<1>1. CASE mostWork[t] # NULL
  BY <1>1 DEF CandidatesOf
<1>2. CASE mostWork[t] = NULL
  <2>1. x \notin failed /\ x \notin MarkedChild
    BY <1>2 DEF ChildOf, failed
  <2>2. ASSUME NEW c \in Dropped PROVE x \notin AboveFailed(c) \cup {FirstFailed(c)}
    <3>1. x \notin AboveFailed(c)
      BY <2>1 DEF MarkedChild
    <3>2. c \in Blocks /\ (Anc[c] \ Anc[tip]) \cap failed # {}
      BY DEF Dropped, Usable, IInv, TypeOK
    <3>3. FirstFailed(c) \in failed
      <4> DEFINE S == (Anc[c] \ Anc[tip]) \cap failed
      <4>1. S \in SUBSET Anc[c] /\ S # {}
        BY <3>2
      <4>2. Highest(S) \in S
        <5> HIDE DEF S
        <5> QED BY <3>2, <4>1, HighestIn
      <4> QED BY <4>2 DEF FirstFailed
    <3> QED BY <2>1, <3>1, <3>3
  <2> QED BY <1>2, <2>2 DEF CandidatesOf, KeptCandidates
<1>3. QED
  BY <1>1, <1>2

\* The target of a round is a best chain among all linked ones, the candidates
\* are complete from it upwards, and the floor survives the walk.
LEMMA RoundTarget ==
  ASSUME IInv, ActiveChainValid, TargetValid, SelectionInv, NeverReconsidered, NEW t \in Threads
  PROVE  LET bad == failedValid \cup ChildOf(t)
             mw  == MostWorkOf(t) IN
         /\ mw \in chainTx
         /\ \A x \in chainTx \ bad : ~Worse(x, mw) => x \in CandidatesOf(t)
         /\ \A x \in chainTx : Anc[x] \cap failed = {} => ~Worse(mw, x)
         /\ \E c \in CandidatesOf(t) :
               /\ \A y \in Anc[c] : verdict[y] = "ok" /\ y \notin bad
               /\ \A x \in chainTx \ bad : ~Worse(x, c) => x \in CandidatesOf(t)
<1> DEFINE bad == failedValid \cup ChildOf(t)
           mw  == MostWorkOf(t)
<1>1. /\ TypeOK /\ LinkedClosed /\ TargetsLinked /\ SequenceIdsDistinct
      /\ candidates \subseteq chainTx /\ chainTx \subseteq Blocks
  BY DEF IInv, TypeOK
<1>2. failed \subseteq bad
  BY <1>1, RoundTypes DEF failed
<1>3. \A c \in Blocks : Anc[c] \cap failed = {} => Anc[c] \cap bad = {}
  BY RoundValid
<1>4. \A x \in candidates : x \notin bad => x \in CandidatesOf(t)
  BY RoundKeepsUnmarked
<1>5. PICK fl \in candidates : Connectable(fl) /\ Covered(fl)
  BY DEF SelectionInv, FloorKept
<1>6. Anc[fl] \cap failed = {} /\ \A y \in Anc[fl] : verdict[y] = "ok"
  BY <1>5 DEF Connectable
<1>7. fl \in Blocks /\ fl \in chainTx /\ Anc[fl] \cap bad = {} /\ fl \in CandidatesOf(t)
  BY <1>1, <1>3, <1>4, <1>5, <1>6, AncReflexive
<1>8. \A x \in chainTx \ bad : ~Worse(x, fl) => x \in CandidatesOf(t)
  BY <1>2, <1>4, <1>5 DEF Covered
<1>9. /\ mw \in chainTx
      /\ \A x \in chainTx \ bad : ~Worse(x, mw) => x \in CandidatesOf(t)
      /\ \A x \in chainTx : Anc[x] \cap failed = {} => ~Worse(mw, x)
  <2>1. CASE mostWork[t] # NULL
    <3>1. mw = mostWork[t] /\ mw \in chainTx /\ Covered(mw) /\ Unbeaten(mw)
      BY <2>1, <1>1 DEF MostWorkOf, TargetsLinked, SelectionInv
    <3> HIDE DEF mw, bad
    <3> QED BY <1>2, <1>4, <3>1 DEF Covered, Unbeaten
  <2>2. CASE mostWork[t] = NULL
    <3>1. fl \in Usable /\ Usable \in SUBSET chainTx
      BY <1>1, <1>5, <1>6 DEF Usable
    <3>2. mw = BestOf(Usable)
      BY <2>2, <3>1 DEF MostWorkOf, FindMostWorkChain
    <3>3. mw \in Usable /\ \A d \in Usable \ {mw} : Worse(d, mw)
      BY <1>1, <3>1, <3>2, BestOfIn
    <3> HIDE DEF mw, bad
    <3>4. mw \in chainTx /\ mw \in Blocks /\ ~Worse(mw, fl)
      <4>1. mw \in chainTx /\ mw \in Blocks
        BY <1>1, <3>1, <3>3
      <4> QED BY <1>1, <1>7, <3>1, <3>3, <4>1, WorseOrder
    <3>5. ASSUME NEW x \in chainTx \ bad, ~Worse(x, mw) PROVE x \in CandidatesOf(t)
      <4>1. ~Worse(x, fl)
        BY <1>1, <1>7, <3>4, <3>5, WorseOrder
      <4> QED BY <1>8, <4>1
    <3>6. ASSUME NEW x \in chainTx, Anc[x] \cap failed = {}, Worse(mw, x) PROVE FALSE
      <4>1. x \in Blocks /\ x \notin failed /\ ~Worse(x, mw)
        BY <1>1, <3>4, <3>6, AncReflexive, WorseOrder
      <4>2. ~Worse(x, fl)
        BY <1>1, <1>7, <3>4, <4>1, WorseOrder
      <4>3. x \in Usable
        BY <1>5, <3>6, <4>1, <4>2 DEF Covered, Usable
      <4> QED BY <3>3, <3>6, <4>1, <4>3
    <3> QED BY <3>4, <3>5, <3>6
  <2> QED BY <2>1, <2>2
<1>10. /\ fl \in CandidatesOf(t)
       /\ \A y \in Anc[fl] : verdict[y] = "ok" /\ y \notin bad
       /\ \A x \in chainTx \ bad : ~Worse(x, fl) => x \in CandidatesOf(t)
  <2> HIDE DEF bad
  <2> QED BY <1>6, <1>7, <1>8
<1>11. QED
  BY <1>9, <1>10

\* A round of activation keeps a floor; it ends, or works on, at a chain that
\* nothing beats.
LEMMA ActivateKeepsSelection ==
  ASSUME IInv, ActiveChainValid, TargetValid, CandidatesNotWorse, ActiveChainConnected,
         SelectionInv, NEW t \in Threads, \A u \in Threads : u = t,
         \A b \in Blocks : verdict[b] # "error", ActivateBestChain(t)
  PROVE  SelectionInv'
<1> SUFFICES ASSUME NeverReconsidered'
             PROVE  /\ FloorKept'
                    /\ Quiescent' => Covered(tip)' /\ Unbeaten(tip)'
                    /\ mostWork'[t] # NULL => Covered(mostWork[t])' /\ Unbeaten(mostWork[t])'
  BY DEF SelectionInv
<1> DEFINE mw  == MostWorkOf(t)
           bad == failedValid \cup ChildOf(t)
<1>1. UNCHANGED <<verdict, seqId, chainTx, nReconsider>> /\ failedChild' = ChildOf(t)
      /\ pc[t] = "activate"
  BY DEF ActivateBestChain
<1>2. NeverReconsidered
  BY <1>1 DEF NeverReconsidered
<1>3. /\ TypeOK /\ LinkedClosed /\ candidates \subseteq chainTx /\ chainTx \subseteq Blocks
      /\ tip \in Blocks /\ mostWork \in [Threads -> index \cup {NULL}]
      /\ pc \in [Threads -> {"idle", "activate"}]
      /\ CandidatesOf(t) \subseteq candidates
  BY RoundTypes DEF IInv, TypeOK
<1>4. /\ mw \in chainTx
      /\ \A x \in chainTx \ bad : ~Worse(x, mw) => x \in CandidatesOf(t)
      /\ \A x \in chainTx : Anc[x] \cap failed = {} => ~Worse(mw, x)
  BY <1>2, RoundTarget
<1>5. PICK fl \in CandidatesOf(t) :
         /\ \A y \in Anc[fl] : verdict[y] = "ok" /\ y \notin bad
         /\ \A x \in chainTx \ bad : ~Worse(x, fl) => x \in CandidatesOf(t)
  BY <1>2, RoundTarget
<1>6. failed \subseteq bad /\ fl \in chainTx /\ fl \in Blocks
  BY <1>3, <1>5, RoundTypes DEF failed, IInv
<1> HIDE DEF mw, bad
<1>8. CASE NothingToDo(t)
  <2>1. /\ tip' = tip /\ tip = mw /\ candidates' = CandidatesOf(t) /\ failed' = bad
        /\ mostWork'[t] = NULL
    BY <1>1, <1>3, <1>4, <1>8, TreeAssumption DEF NothingToDo, Return, failed, mw, bad
  <2>2. FloorKept'
    BY <1>1, <1>5, <2>1 DEF FloorKept, Connectable, Covered, Worse
  <2>3. Covered(tip)' /\ Unbeaten(tip)'
    BY <1>1, <1>4, <1>6, <2>1 DEF Covered, Unbeaten, Worse
  <2> QED BY <2>1, <2>2, <2>3
<1>9. CASE /\ mw \notin {NULL, tip}
           /\ \/ StepConnects(t, mw)
              \/ \E f \in Refused(mw) : StepFindsInvalid(t, mw, f) \/ StepFails(t, mw, f)
  <2> DEFINE newTip == TipAfter(mw)
             K == PruneBlockIndexCandidates(CandidatesOf(t), mw)
  <2>1. /\ newTip \in chainTx /\ newTip \in Blocks /\ newTip \in Anc[mw]
        /\ mw \in Blocks /\ Refused(mw) \subseteq Bad(mw) /\ Refused(mw) \subseteq Blocks
    BY <1>3, <1>4, StepLinked DEF Refused
  <2>2. tip' = newTip
    BY <1>9 DEF StepConnects, StepFindsInvalid, StepFails
  <2>3. \A x \in CandidatesOf(t) : ~Worse(x, newTip) => x \in K
    BY DEF PruneBlockIndexCandidates
  <2>4. \A y \in Anc[newTip] : verdict[y] = "ok" /\ y \notin failed'
    <3>1. ActiveChainValid' /\ ActiveChainConnected'
      BY ActivateKeepsValid, ActivateKeepsOrder
    <3> QED BY <1>1, <2>2, <3>1 DEF ActiveChainValid, ActiveChainConnected
  <2>5. PICK F \in SUBSET Blocks :
           /\ failed' = bad \cup F /\ candidates' = K \ F
           /\ \A y \in F : verdict[y] # "ok"
    <3>1. CASE StepConnects(t, mw)
      <4> DEFINE none == {x \in Blocks : FALSE}
      <4>1. failed' = bad \cup none /\ candidates' = K \ none /\ \A y \in none : verdict[y] # "ok"
        BY <1>1, <3>1 DEF StepConnects, failed, bad
      <4>2. none \in SUBSET Blocks
        OBVIOUS
      <4> HIDE DEF none
      <4> QED BY <4>1, <4>2
    <3>2. ASSUME NEW f \in Refused(mw), StepFindsInvalid(t, mw, f)
          PROVE  /\ failed' = bad \cup {f} /\ candidates' = K \ {f}
                 /\ \A y \in {f} : verdict[y] # "ok"
      BY <1>1, <3>2 DEF StepFindsInvalid, failed, bad
    <3>3. \A f \in Refused(mw) : {f} \in SUBSET Blocks
      BY <2>1
    <3>4. ASSUME NEW f \in Refused(mw), StepFails(t, mw, f) PROVE FALSE
      BY <2>1, <3>4 DEF StepFails
    <3> QED BY <1>9, <3>1, <3>2, <3>3, <3>4
  <2> HIDE DEF K, newTip
  <2>6. FloorKept'
    <3>1. ASSUME NEW c \in Blocks, ~Worse(c, newTip), ~Worse(c, fl)
          PROVE  \A x \in chainTx \ failed' : ~Worse(x, c) => x \in candidates'
      <4>1. ASSUME NEW x \in chainTx \ failed', ~Worse(x, c) PROVE x \in candidates'
        <5>1. ~Worse(x, fl) /\ ~Worse(x, newTip)
          BY <1>3, <1>6, <2>1, <3>1, <4>1, WorseOrder
        <5>2. x \in K
          BY <1>5, <2>3, <2>5, <5>1
        <5> QED BY <2>5, <5>2
      <4> QED BY <4>1
    <3>2. CASE Worse(fl, newTip)
      <4>1. ~Worse(newTip, fl) /\ ~Worse(newTip, newTip)
        BY <1>3, <1>6, <2>1, <3>2, WorseOrder
      <4>2. newTip \in chainTx \ failed'
        BY <2>1, <2>4, AncReflexive
      <4>3. \A x \in chainTx \ failed' : ~Worse(x, newTip) => x \in candidates'
        BY <2>1, <3>1, <4>1
      <4>4. newTip \in candidates'
        BY <4>1, <4>2, <4>3
      <4> QED BY <1>1, <2>4, <4>3, <4>4 DEF FloorKept, Connectable, Covered, Worse
    <3>3. CASE ~Worse(fl, newTip)
      <4>1. ~Worse(fl, fl)
        BY <1>3, <1>6, WorseOrder
      <4>2. \A y \in Anc[fl] : verdict[y] = "ok" /\ y \notin failed'
        BY <1>5, <2>5
      <4>3. fl \in chainTx \ failed'
        BY <1>6, <4>2, AncReflexive
      <4>4. \A x \in chainTx \ failed' : ~Worse(x, fl) => x \in candidates'
        BY <1>6, <3>1, <3>3, <4>1
      <4>5. fl \in candidates'
        BY <4>1, <4>3, <4>4
      <4> QED BY <1>1, <4>2, <4>4, <4>5 DEF FloorKept, Connectable, Covered, Worse
    <3> QED BY <3>2, <3>3
  <2>7. CASE StepConnects(t, mw)
    <3>1. failed' = bad /\ candidates' = K
      BY <1>1, <2>7 DEF StepConnects, failed, bad, K
    <3>2. ASSUME NEW x \in chainTx \ failed', ~Worse(x, mw) PROVE x \in candidates'
      <4>1. ~Worse(x, newTip)
        BY <1>3, <2>1, <3>2, WorseOrder
      <4> QED BY <1>4, <2>3, <3>1, <3>2, <4>1
    <3>3. \A x \in chainTx : Anc[x] \cap failed' = {} => ~Worse(mw, x)
      BY <1>4, <1>6, <3>1
    <3>4. CASE newTip = mw
      <4>1. tip' = mw /\ mostWork'[t] = NULL
        BY <1>3, <2>2, <2>7, <3>4 DEF StepConnects, Return, newTip
      <4> QED BY <1>1, <2>6, <3>2, <3>3, <4>1 DEF Covered, Unbeaten, Worse
    <3>5. CASE newTip # mw
      <4>1. pc'[t] = "activate" /\ mostWork'[t] = mw
        BY <1>1, <1>3, <2>7, <3>5 DEF StepConnects, newTip
      <4>2. ~Quiescent'
        BY <4>1 DEF Quiescent
      <4> QED BY <1>1, <2>6, <3>2, <3>3, <4>1, <4>2 DEF Covered, Unbeaten, Worse
    <3> QED BY <3>4, <3>5
  <2>8. ASSUME NEW f \in Refused(mw), StepFindsInvalid(t, mw, f)
        PROVE  ~Quiescent' /\ mostWork'[t] = NULL
    <3>1. pc'[t] = "activate" /\ mostWork'[t] = NULL
      BY <1>1, <1>3, <2>8 DEF StepFindsInvalid
    <3> QED BY <3>1 DEF Quiescent
  <2>9. ASSUME NEW f \in Refused(mw), StepFails(t, mw, f) PROVE FALSE
    BY <2>1, <2>9 DEF StepFails
  <2> QED BY <1>9, <2>6, <2>7, <2>8, <2>9
<1>10. QED
  BY <1>8, <1>9 DEF ActivateBestChain, mw

\* Every step keeps the candidates complete and the choice of the chain right.
LEMMA NextKeepsSelection ==
  ASSUME \A t, u \in Threads : t = u, \A v \in Verdicts, b \in Blocks : v[b] # "error"
  PROVE  IInv /\ ActiveChainValid /\ TargetValid /\ CandidatesNotWorse /\ ActiveChainConnected
            /\ SelectionInv /\ [Next]_vars
               => SelectionInv'
<1> SUFFICES ASSUME IInv, ActiveChainValid, TargetValid, CandidatesNotWorse, ActiveChainConnected,
                    SelectionInv, [Next]_vars
             PROVE  SelectionInv'
  OBVIOUS
<1>1. /\ TypeOK /\ tip \in chainTx /\ tip \in Blocks /\ chainTx \subseteq Blocks
      /\ candidates \subseteq chainTx /\ chainTx \subseteq haveData /\ verdict \in Verdicts
      /\ pc \in [Threads -> {"idle", "activate"}]
  BY DEF IInv, TypeOK
<1>2. (ActiveChainValid /\ ActiveChainConnected)'
  BY NextKeepsValid, NextKeepsOrder
<1>3. CASE UNCHANGED vars
  BY <1>3 DEF vars, entries, globals, SelectionInv, NeverReconsidered, FloorKept, Covered, Unbeaten,
     Connectable, Quiescent, Worse, failed
<1>4. CASE \E b \in Blocks \ {Genesis} : ProcessHeader(b)
  BY <1>4 DEF ProcessHeader, SelectionInv, NeverReconsidered, FloorKept, Covered, Unbeaten,
     Connectable, Quiescent, Worse, failed
<1>5. ASSUME NEW t \in Threads, NEW b \in Blocks, NEW r \in BOOLEAN, ProcessNewBlock(t, b, r)
      PROVE  SelectionInv'
  <2>1. /\ pc[t] = "idle" /\ b # Genesis /\ mostWork' = mostWork
        /\ UNCHANGED <<verdict, tip, failedChild, nReconsider>>
    BY <1>5 DEF ProcessNewBlock, Activate
  <2>2. Quiescent /\ mostWork[t] = NULL
    BY <2>1 DEF Quiescent, TargetValid
  <2> SUFFICES ASSUME NeverReconsidered'
               PROVE  FloorKept' /\ (Quiescent' => Covered(tip)' /\ Unbeaten(tip)')
    BY <2>1, <2>2 DEF SelectionInv
  <2>3. NeverReconsidered /\ FloorKept /\ Covered(tip) /\ Unbeaten(tip)
    BY <2>1, <2>2 DEF SelectionInv, NeverReconsidered
  <2>4. CASE /\ UNCHANGED <<haveData, chainTx, seqId, candidates>>
             /\ failedValid' = failedValid \/ (b \notin haveData /\ failedValid' = failedValid \cup {b})
    <3>1. failed \subseteq failed' /\ \A y \in failed' \ failed : y \notin haveData
      BY <2>1, <2>4 DEF failed
    <3>2. PICK fl \in candidates : Connectable(fl) /\ Covered(fl)
      BY <2>3 DEF FloorKept
    <3>3. Anc[fl] \subseteq haveData
      BY <1>1 DEF IInv, LinkedClosed
    <3>4. FloorKept'
      BY <2>1, <2>4, <3>1, <3>2, <3>3 DEF FloorKept, Connectable, Covered, Worse
    <3>5. Covered(tip)' /\ Unbeaten(tip)'
      BY <2>1, <2>3, <2>4, <3>1 DEF Covered, Unbeaten, Worse
    <3> QED BY <3>4, <3>5
  <2>5. CASE /\ b \notin haveData /\ ReceivedBlockTransactions(b) /\ UNCHANGED failedValid
             /\ pc' = [pc EXCEPT ![t] = "activate"]
    <3>1. failed' = failed /\ ~Quiescent'
      BY <1>1, <2>1, <2>5 DEF failed, Quiescent
    <3>2. ASSUME NEW x \in chainTx' \ failed, ~WorseBy(x, tip, seqId') PROVE x \in candidates'
      <4>1. CASE Parent[b] \in chainTx
        <5>1. PICK f \in SequenceIds(Linked(b)) :
                 seqId' = [z \in Blocks |-> IF z \in Linked(b) THEN f[z] ELSE seqId[z]]
          BY <2>5, <4>1 DEF ReceivedBlockTransactions
        <5>2. /\ candidates' = candidates \cup {z \in Linked(b) : ~WorseBy(z, tip, seqId')}
              /\ chainTx' = chainTx \cup Linked(b)
          BY <2>5, <4>1 DEF ReceivedBlockTransactions
        <5>3. Linked(b) \cap chainTx = {}
          BY <2>1, <2>5, <4>1, LinkedShape DEF IInv, TypeOK
        <5>4. \A z \in chainTx : seqId'[z] = seqId[z]
          BY <1>1, <5>1, <5>3
        <5>5. CASE x \in chainTx
          <6>1. ~Worse(x, tip)
            BY <1>1, <3>2, <5>4, <5>5 DEF Worse, WorseBy
          <6> QED BY <2>3, <3>2, <5>2, <5>5, <6>1 DEF Covered
        <5> QED BY <3>2, <5>2, <5>5
      <4>2. CASE Parent[b] \notin chainTx
        <5>1. UNCHANGED <<chainTx, seqId, candidates>>
          BY <2>5, <4>2 DEF ReceivedBlockTransactions
        <5>2. ~Worse(x, tip)
          BY <3>2, <5>1 DEF Worse
        <5> QED BY <2>3, <3>2, <5>1, <5>2 DEF Covered
      <4> QED BY <4>1, <4>2
    <3>3. tip \notin failed /\ Connectable(tip)
      BY <1>1, AncReflexive DEF ActiveChainValid, ActiveChainConnected, Connectable
    <3>4. tip \in candidates'
      <4>1. tip \in candidates
        BY <1>1, <2>3, <3>3, WorseOrder DEF Covered
      <4> QED BY <2>5, <4>1 DEF ReceivedBlockTransactions
    <3>5. FloorKept'
      BY <2>1, <3>1, <3>2, <3>3, <3>4 DEF FloorKept, Connectable, Covered, Worse
    <3> QED BY <3>1, <3>5
  <2> QED BY <1>5, <2>4, <2>5 DEF ProcessNewBlock, NotWanted, Activate
<1>6. ASSUME NEW t \in Threads, ActivateBestChain(t) PROVE SelectionInv'
  <2>1. \A b \in Blocks : verdict[b] # "error"
    BY <1>1
  <2>2. \A u \in Threads : u = t
    OBVIOUS
  <2> QED BY <1>6, <2>1, <2>2, ActivateKeepsSelection
<1>7. ASSUME NEW t \in Threads, NEW b \in Blocks, InvalidateBlock(t, b) PROVE SelectionInv'
  <2>1. /\ pc[t] = "idle" /\ mostWork' = mostWork /\ pc' = [pc EXCEPT ![t] = "activate"]
        /\ BroughtBack(tip', failed') \subseteq candidates'
        /\ UNCHANGED <<verdict, seqId, chainTx>>
    BY <1>7 DEF InvalidateBlock, Activate, failed
  <2>2. mostWork[t] = NULL /\ ~Quiescent'
    BY <1>1, <2>1 DEF Quiescent, TargetValid
  <2>3. tip' \in chainTx /\ tip' \in Blocks
    BY <1>1, <1>7, <2>1, InvalidatePreserves DEF IInv, TypeOK
  <2>4. \A x \in chainTx \ failed' : ~Worse(x, tip') => x \in candidates'
    BY <2>1 DEF BroughtBack
  <2>5. \A y \in Anc[tip'] : verdict[y] = "ok" /\ y \notin failed'
    BY <1>2, <2>1 DEF ActiveChainValid, ActiveChainConnected
  <2>6. tip' \in candidates'
    BY <1>1, <2>3, <2>4, <2>5, AncReflexive, WorseOrder
  <2>7. FloorKept'
    BY <2>1, <2>4, <2>5, <2>6 DEF FloorKept, Connectable, Covered, Worse
  <2> QED BY <2>1, <2>2, <2>7 DEF SelectionInv
<1>8. ASSUME NEW t \in Threads, NEW b \in Blocks, ReconsiderBlock(t, b) PROVE SelectionInv'
  <2>1. nReconsider' = nReconsider + 1 /\ nReconsider \in Nat
    BY <1>1, <1>8, BoundAssumption DEF ReconsiderBlock, TypeOK
  <2> QED BY <2>1 DEF SelectionInv, NeverReconsidered
<1>9. QED
  BY <1>3, <1>4, <1>5, <1>6, <1>7, <1>8 DEF Next

\* All of it together, for the theorems below.
LEMMA SelectionHolds ==
  ASSUME \A t, u \in Threads : t = u, \A v \in Verdicts, b \in Blocks : v[b] # "error"
  PROVE  Spec => [](/\ IInv /\ ActiveChainValid /\ TargetValid /\ CandidatesNotWorse
                    /\ ActiveChainConnected /\ SelectionInv)
<1>1. Init => /\ ActiveChainValid /\ TargetValid /\ CandidatesNotWorse
              /\ ActiveChainConnected /\ SelectionInv
  <2> SUFFICES ASSUME Init PROVE ActiveChainValid /\ TargetValid /\ SelectionInv
    BY InitOrdered
  <2>1. TypeOK
    BY InitEstablishes DEF IInv
  <2>2. ActiveChainValid /\ TargetValid
    BY DEF Init, ActiveChainValid, TargetValid, failed
  <2>3. chainTx = {Genesis} /\ candidates = {Genesis} /\ tip = Genesis /\ failed = {} /\ Genesis \in Blocks
        /\ \A t \in Threads : mostWork[t] = NULL
    BY TreeAssumption DEF Init, failed
  <2>4. Covered(tip) /\ Unbeaten(tip)
    BY <2>1, <2>3, WorseOrder DEF Covered, Unbeaten
  <2>5. Connectable(tip)
    BY <2>3, TreeAssumption, VerdictAssumption DEF Init, Connectable
  <2> QED BY <2>2, <2>3, <2>4, <2>5 DEF SelectionInv, FloorKept
<1>2. IInv /\ ActiveChainValid /\ TargetValid /\ CandidatesNotWorse /\ ActiveChainConnected
         /\ SelectionInv /\ [Next]_vars
      => (ActiveChainValid /\ TargetValid /\ CandidatesNotWorse /\ ActiveChainConnected /\ SelectionInv)'
  BY NextKeepsValid, NextKeepsOrder, NextKeepsSelection
<1>3. QED
  BY <1>1, <1>2, IInvHolds, PTL DEF Spec

\* For one activating thread and blocks ConnectBlock always decides on: when
\* activation is over the candidates are exactly the linked blocks without an
\* invalid ancestor that are at least as good as the tip, and they never run out.
THEOREM CandidatesAlwaysExact ==
  ASSUME \A t, u \in Threads : t = u, \A v \in Verdicts, b \in Blocks : v[b] # "error"
  PROVE  Spec => []CandidatesExact
<1>1. IInv /\ CandidatesNotWorse /\ SelectionInv => CandidatesExact
  <2> SUFFICES ASSUME IInv, CandidatesNotWorse, SelectionInv PROVE CandidatesExact
    OBVIOUS
  <2>1. ASSUME Quiescent, NeverReconsidered, NEW b \in chainTx, ~Worse(b, tip),
               Anc[b] \cap failedValid = {}
        PROVE  b \in candidates
    <3>1. b \notin failed
      BY <2>1 DEF IInv, FailureHasCause
    <3> QED BY <2>1, <3>1 DEF SelectionInv, Covered
  <2>2. NeverReconsidered => candidates # {}
    BY DEF SelectionInv, FloorKept
  <2> QED BY <2>1, <2>2 DEF CandidatesExact, CandidatesNotWorse
<1>2. QED
  BY <1>1, SelectionHolds, PTL

\* Under the same hypotheses and as long as reconsiderblock has not been used,
\* no linked chain free of failed blocks beats the active one when activation is
\* over, whatever arrived, in whatever order, and whatever was invalidated.
THEOREM BestChainIsActive ==
  ASSUME \A t, u \in Threads : t = u, \A v \in Verdicts, b \in Blocks : v[b] # "error"
  PROVE  Spec => []BestChainActive
<1>1. SelectionInv => BestChainActive
  BY DEF SelectionInv, BestChainActive, BestActive, Unbeaten
<1>2. QED
  BY <1>1, SelectionHolds, PTL

\* The first reconsiderblock brings every linked descendant that beats the tip
\* back: those marked failed are restored, and the others never left.
THEOREM ReconsiderBringsBack ==
  ASSUME \A t, u \in Threads : t = u, \A v \in Verdicts, b \in Blocks : v[b] # "error"
  PROVE  Spec => ReconsiderRestores
<1> DEFINE Step == \A t \in Threads, b \in Blocks :
                      NeverReconsidered /\ ReconsiderBlock(t, b) =>
                          \A x \in chainTx :
                              b \in Anc[x] /\ b \in failed /\ Anc[x] \cap (failed)' = {} /\ Worse(tip, x)
                                  => x \in candidates'
<1>1. IInv /\ SelectionInv => Step
  <2> SUFFICES ASSUME IInv, SelectionInv, NEW t \in Threads, NEW b \in Blocks, NeverReconsidered,
                      ReconsiderBlock(t, b), NEW x \in chainTx, b \in Anc[x], Worse(tip, x)
               PROVE  x \in candidates'
    OBVIOUS
  <2>1. pc[t] = "idle" /\ candidates' = candidates \cup Restored(b)
    BY DEF ReconsiderBlock
  <2>2. CASE x \in failed
    <3>1. x \in Reset(b)
      BY <2>2 DEF Reset, IsValid, IInv, TypeOK
    <3> QED BY <2>1, <3>1 DEF Restored
  <2>3. CASE x \notin failed
    <3>1. Quiescent
      BY <2>1 DEF Quiescent
    <3>2. ~Worse(x, tip)
      BY WorseOrder DEF IInv, TypeOK
    <3> QED BY <2>1, <2>3, <3>1, <3>2 DEF SelectionInv, Covered
  <2> QED BY <2>2, <2>3
<1>2. QED
  BY <1>1, SelectionHolds, PTL DEF ReconsiderRestores

\* A round gives up work only when it finds a block invalid.
LEMMA ActivateLosesNoWork ==
  ASSUME IInv, ActiveChainValid, TargetValid, CandidatesNotWorse, NEW t \in Threads,
         \A b \in Blocks : verdict[b] # "error", ActivateBestChain(t), Work[tip'] < Work[tip]
  PROVE  failedValid' # failedValid
<1> DEFINE mw == MostWorkOf(t)
<1>1. /\ TypeOK /\ LinkedClosed /\ tip \in Blocks /\ Work[tip] \in Nat
      /\ mw \in chainTx \cup {NULL} /\ chainTx \subseteq Blocks
  BY RoundTypes, WorkAssumption DEF IInv, TypeOK
<1>2. tip' # tip
  BY <1>1
<1>3. /\ mw \in chainTx /\ mw \in Blocks /\ mw # tip
      /\ StepConnects(t, mw) \/ \E f \in Refused(mw) : StepFindsInvalid(t, mw, f)
  <2>1. ~NothingToDo(t)
    BY <1>2 DEF NothingToDo
  <2>2. ASSUME NEW f \in Refused(mw), mw \in chainTx, StepFails(t, mw, f) PROVE FALSE
    <3>1. f \in Blocks
      BY <1>1, <2>2, StepLinked
    <3> QED BY <2>2, <3>1 DEF StepFails
  <2> QED BY <1>1, <2>1, <2>2 DEF ActivateBestChain
<1>4. CASE \E f \in Refused(mw) : StepFindsInvalid(t, mw, f)
  <2>1. PICK f \in Refused(mw) : StepFindsInvalid(t, mw, f)
    BY <1>4
  <2>2. Anc[mw] \cap failedValid = {}
    BY <1>1, <1>3, RoundValid, TreeAssumption
  <2>3. f \in Anc[mw] /\ failedValid' = failedValid \cup {f}
    BY <1>1, <1>3, <2>1, StepLinked DEF StepFindsInvalid, ToConnect
  <2> QED BY <2>2, <2>3
<1>5. CASE StepConnects(t, mw)
  <2>1. Refused(mw) = {} /\ tip' = TipAfter(mw)
    BY <1>5 DEF StepConnects
  <2>2. mw \notin Anc[tip] /\ ~(Work[mw] < Work[tip])
    <3>1. CASE mostWork[t] = NULL
      <4>1. mw \in candidates
        BY <1>1, <1>3, <3>1, MostWorkLinked, TreeAssumption DEF MostWorkOf, Usable, IInv
      <4>2. ~Worse(mw, tip)
        BY <4>1 DEF CandidatesNotWorse
      <4>3. ~(Work[mw] < Work[tip])
        BY <4>2 DEF Worse, WorseBy
      <4> QED BY <1>1, <1>3, <4>3, AncestorWork
    <3>2. CASE mostWork[t] # NULL
      <4>1. tip \in Anc[mw]
        BY <3>2 DEF TargetValid, MostWorkOf
      <4>2. Work[tip] < Work[mw] /\ Work[mw] \in Nat
        BY <1>1, <1>3, <4>1, AncestorWork, WorkAssumption
      <4> QED BY <1>1, <1>3, <4>1, <4>2, AncAntisymmetric
    <3> QED BY <3>1, <3>2
  <2>3. TipAfter(mw) = mw \/ Work[TipAfter(mw)] > Work[tip]
    BY <1>1, <1>3, <2>1, <2>2, StepReaches
  <2>4. TipAfter(mw) \in Blocks /\ Work[TipAfter(mw)] \in Nat
    BY <1>1, <1>3, StepLinked, WorkAssumption
  <2> HIDE DEF mw
  <2> QED BY <1>1, <2>1, <2>2, <2>3, <2>4
<1>6. QED
  BY <1>3, <1>4, <1>5

\* The active chain gives up work only in a step that marks a block invalid, with
\* any number of uses of both operator commands.
THEOREM WorkNeverLost ==
  ASSUME \A t, u \in Threads : t = u, \A v \in Verdicts, b \in Blocks : v[b] # "error"
  PROVE  Spec => NoWorkLost
<1>1. IInv /\ ActiveChainValid /\ TargetValid /\ CandidatesNotWorse /\ [Next]_vars
         => (Work[tip'] < Work[tip] => failedValid' # failedValid)
  <2> SUFFICES ASSUME IInv, ActiveChainValid, TargetValid, CandidatesNotWorse, [Next]_vars,
                      Work[tip'] < Work[tip]
               PROVE  failedValid' # failedValid
    OBVIOUS
  <2>1. Work[tip] \in Nat /\ verdict \in Verdicts
    BY WorkAssumption DEF IInv, TypeOK
  <2>2. tip' # tip
    BY <2>1
  <2>3. ASSUME NEW t \in Threads, ActivateBestChain(t) PROVE failedValid' # failedValid
    BY <2>1, <2>3, ActivateLosesNoWork
  <2>4. ASSUME NEW t \in Threads, NEW b \in Blocks, InvalidateBlock(t, b)
        PROVE  failedValid' # failedValid
    <3>1. b \in Anc[tip] /\ failedValid' = failedValid \cup {b}
      BY <2>2, <2>4 DEF InvalidateBlock, Disconnected
    <3> QED BY <3>1 DEF ActiveChainValid, failed
  <2> QED BY <2>2, <2>3, <2>4
          DEF Next, ProcessHeader, ProcessNewBlock, ReconsiderBlock, vars, entries, globals
<1>2. QED
  BY <1>1, SelectionHolds, PTL DEF Spec, NoWorkLost

=============================================================================
