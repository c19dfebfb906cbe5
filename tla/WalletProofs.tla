---------------------------- MODULE WalletProofs ----------------------------
(***************************************************************************)
(* Proofs about Wallet: the entries of the wallet are true on whatever     *)
(* branch their blocks are (RecordsInv), and as long as the wallet file is *)
(* not flushed within a reorganisation the wallet knows the active chain   *)
(* and the pool (WalletInv), from which its properties follow.  Last, that *)
(* the conflicts of a connected block reach all they concern.              *)
(***************************************************************************)
EXTENDS Wallet, TLAPS, FiniteSetTheorems, SequenceTheorems, WellFoundedInduction, NaturalsInduction

-----------------------------------------------------------------------------
(* Folds, over sets and sequences.                                         *)

\* A nonempty set of natural numbers has a least element.
LEMMA LeastNat ==
    ASSUME NEW N \in SUBSET Nat, N # {}
    PROVE  \E n \in N : \A m \in N : n <= m
<1>0. N \subseteq Nat /\ N # {}
    OBVIOUS
<1>1. PICK n \in N : \A m \in N : <<m, n>> \notin OpToRel(<, Nat)
    BY <1>0, NatLessThanWellFounded, WFMin
<1>2. ASSUME NEW m \in N PROVE n <= m
  <2>1. m \in Nat /\ n \in Nat
    BY <1>0
  <2>2. ~(m < n)
    BY <1>1, <2>1 DEF OpToRel
  <2>. QED BY <2>1, <2>2
<1>. QED BY <1>2

\* Induction over the subsets of a finite set.
LEMMA StrongSubsetInduction ==
    ASSUME NEW S, IsFiniteSet(S), NEW G,
           \A s \in SUBSET S : (\A r \in SUBSET s : r # s => r \in G) => s \in G
    PROVE  \A s \in SUBSET S : s \in G
<1> SUFFICES ASSUME NEW s0 \in SUBSET S, s0 \notin G PROVE FALSE
    OBVIOUS
<1> DEFINE Bad == {s \in SUBSET S : s \notin G}
           N == {n \in Nat : \E s \in Bad : Cardinality(s) = n}
<1>1. \A s \in SUBSET S : IsFiniteSet(s) /\ Cardinality(s) \in Nat
    BY FS_Subset, FS_CardinalityType
<1>2. N # {}
    BY <1>1
<1>3. PICK n \in N : \A m \in N : n <= m
    BY <1>2, LeastNat
<1>4. PICK s \in Bad : Cardinality(s) = n
    BY <1>3
<1>5. PICK r \in SUBSET s : r # s /\ r \notin G
    BY <1>4
<1>6. Cardinality(r) <= n /\ Cardinality(r) # n
    BY <1>1, <1>4, <1>5, FS_Subset
<1>7. r \in Bad /\ Cardinality(r) \in N
    BY <1>1, <1>4, <1>5
<1>. QED BY <1>3, <1>6, <1>7

\* The same along a choice of elements.
LEMMA SubsetInduction ==
    ASSUME NEW S, IsFiniteSet(S), NEW ch, NEW G,
           \A s \in SUBSET S : s # {} => ch[s] \in s,
           {} \in G,
           \A s \in SUBSET S : s # {} /\ s \ {ch[s]} \in G => s \in G
    PROVE  \A s \in SUBSET S : s \in G
<1>1. ASSUME NEW s \in SUBSET S, \A r \in SUBSET s : r # s => r \in G PROVE s \in G
  <2>1. CASE s = {}
    BY <2>1
  <2>2. CASE s # {}
    <3>1. s \ {ch[s]} \in SUBSET s /\ s \ {ch[s]} # s
        BY <2>2
    <3>. QED BY <1>1, <2>2, <3>1
  <2>. QED BY <2>1, <2>2
<1>. QED BY <1>1, StrongSubsetInduction

\* ch chooses an element of every subset of S.
Chooses(ch, S) == \A s \in SUBSET S : s # {} => ch[s] \in s

\* f folds step over the subsets of S in the order of ch, from p.
Folds(f, S, P, p, step, ch) ==
    /\ f \in [SUBSET S -> P]
    /\ f[{}] = p
    /\ \A s \in SUBSET S : s # {} => f[s] = step[<<f[s \ {ch[s]}], ch[s]>>]

\* The recursion of a fold has a solution.
LEMMA FoldExists ==
    ASSUME NEW S, IsFiniteSet(S), NEW P, NEW p \in P, NEW step \in [P \X S -> P], NEW ch,
           Chooses(ch, S)
    PROVE  \E f : Folds(f, S, P, p, step, ch)
<1> USE DEF Chooses
<1> DEFINE Value(f, s) == IF s = {} THEN p ELSE step[<<f[s \ {ch[s]}], ch[s]>>]
           Upto(n) == \E f \in [SUBSET S -> P] :
                         \A s \in SUBSET S : Cardinality(s) <= n => f[s] = Value(f, s)
           N == {n \in Nat : ~Upto(n)}
<1>1. \A s \in SUBSET S : IsFiniteSet(s) /\ Cardinality(s) \in Nat
    BY FS_Subset, FS_CardinalityType
<1>2. \A f \in [SUBSET S -> P], s \in SUBSET S : Value(f, s) \in P
    OBVIOUS
<1>3. Upto(0)
  <2>1. [s \in SUBSET S |-> p] \in [SUBSET S -> P]
    OBVIOUS
  <2>2. \A s \in SUBSET S : Cardinality(s) <= 0 => s = {}
    BY <1>1, FS_EmptySet
  <2>. QED BY <2>1, <2>2
<1>4. ASSUME NEW n \in Nat, Upto(n) PROVE Upto(n + 1)
  <2>1. PICK f \in [SUBSET S -> P] :
            \A s \in SUBSET S : Cardinality(s) <= n => f[s] = Value(f, s)
    BY <1>4
  <2> DEFINE g == [s \in SUBSET S |-> Value(f, s)]
  <2>2. g \in [SUBSET S -> P]
    BY <1>2, <2>1
  <2>3. ASSUME NEW s \in SUBSET S, Cardinality(s) <= n + 1 PROVE g[s] = Value(g, s)
    <3>1. CASE s = {}
        BY <3>1
    <3>2. CASE s # {}
      <4>1. s \ {ch[s]} \in SUBSET S /\ ch[s] \in s
        BY <3>2
      <4>2. Cardinality(s \ {ch[s]}) <= n
        BY <1>1, <2>3, <4>1, FS_RemoveElement
      <4>3. g[s \ {ch[s]}] = f[s \ {ch[s]}]
        BY <2>1, <4>1, <4>2
      <4>. QED BY <3>2, <4>3
    <3>. QED BY <3>1, <3>2
  <2>. QED BY <2>2, <2>3
<1>5. ASSUME N # {} PROVE FALSE
  <2> HIDE DEF Upto
  <2>1. PICK n \in N : \A m \in N : n <= m
    BY <1>5, LeastNat
  <2>2. n # 0 /\ n - 1 \in Nat
    BY <1>3, <2>1
  <2>3. Upto(n - 1)
    <3>1. n - 1 \notin N
        BY <2>1, <2>2
    <3>. QED BY <2>2, <3>1
  <2>4. Upto(n)
    <3>1. Upto((n - 1) + 1)
        BY <1>4, <2>2, <2>3
    <3>2. (n - 1) + 1 = n
        BY <2>1
    <3>. QED BY <3>1, <3>2
  <2>. QED BY <2>1, <2>4
<1> HIDE DEF Upto
<1>6. Cardinality(S) \in Nat /\ Upto(Cardinality(S))
    BY <1>1, <1>5
<1>7. PICK f \in [SUBSET S -> P] :
          \A s \in SUBSET S : Cardinality(s) <= Cardinality(S) => f[s] = Value(f, s)
    BY <1>6 DEF Upto
<1>8. \A s \in SUBSET S : Cardinality(s) <= Cardinality(S)
    BY FS_Subset
<1>9. \A s \in SUBSET S : f[s] = Value(f, s)
    BY <1>7, <1>8
<1>. QED BY <1>7, <1>9 DEF Folds

\* A nonempty finite set of numbers has a maximum, and Max finds it.
LEMMA MaxIn ==
    ASSUME NEW s \in SUBSET Nat, IsFiniteSet(s), s # {}
    PROVE  Max(s) \in s /\ \A y \in s : Max(s) >= y
<1> DEFINE G == {r \in SUBSET s : r = {} \/ \E x \in r : \A y \in r : x >= y}
<1>1. ASSUME NEW r \in SUBSET s, \A q \in SUBSET r : q # r => q \in G PROVE r \in G
  <2>1. CASE r = {}
    BY <2>1
  <2>2. CASE r # {}
    <3>1. PICK z \in r : TRUE
        BY <2>2
    <3>2. r \ {z} \in G
        BY <1>1, <3>1
    <3>3. CASE r \ {z} = {}
        BY <3>1, <3>3
    <3>4. CASE r \ {z} # {}
      <4>1. PICK x \in r \ {z} : \A y \in r \ {z} : x >= y
        BY <3>2, <3>4
      <4>2. z \in Nat /\ x \in Nat /\ \A y \in r : y \in Nat
        OBVIOUS
      <4>. QED BY <4>1, <4>2
    <3>. QED BY <3>3, <3>4
  <2>. QED BY <2>1, <2>2
<1>2. s \in G
  <2> HIDE DEF G
  <2>. QED BY <1>1, StrongSubsetInduction
<1>3. \E x \in s : \A y \in s : x >= y
    BY <1>2
<1>. QED BY <1>3, Zenon DEF Max

-----------------------------------------------------------------------------
(* The block tree.                                                         *)

\* The chains of a tree of blocks.
LEMMA ChainFacts ==
    ASSUME NEW b \in Blocks
    PROVE  /\ ChainOf[b] \subseteq Blocks /\ b \in ChainOf[b]
           /\ Height[b] \in Nat /\ Height[b] >= 1
           /\ \A c \in ChainOf[b] : /\ ChainOf[c] \subseteq ChainOf[b]
                                    /\ Height[c] \in Nat /\ Height[c] <= Height[b]
           /\ b # Base => /\ Parent[b] \in Blocks
                          /\ ChainOf[b] = ChainOf[Parent[b]] \cup {b}
<1>1. /\ Chain[b] \in Seq(Blocks) /\ Chain[b] # <<>> /\ Chain[b][1] = Base /\ Chain[b][Len(Chain[b])] = b
      /\ \A h \in DOMAIN Chain[b] : Chain[Chain[b][h]] = SubSeq(Chain[b], 1, h)
    BY ChainAssumption
<1>2. Len(Chain[b]) \in Nat /\ Len(Chain[b]) >= 1 /\ DOMAIN Chain[b] = 1..Len(Chain[b])
  <2>1. Chain[b] \in Seq(Blocks) /\ Chain[b] # <<>>
    BY <1>1
  <2>. QED BY <2>1
<1>3. ChainOf[b] = {Chain[b][h] : h \in 1..Len(Chain[b])} /\ Height[b] = Len(Chain[b])
    BY <1>2 DEF ChainOf, Height, ToSet
<1>4. ASSUME NEW h \in 1..Len(Chain[b])
      PROVE  /\ Chain[b][h] \in Blocks
             /\ Height[Chain[b][h]] = h
             /\ ChainOf[Chain[b][h]] = {Chain[b][g] : g \in 1..h}
  <2>1. Chain[b][h] \in Blocks /\ Chain[Chain[b][h]] = SubSeq(Chain[b], 1, h)
    BY <1>1, <1>2
  <2>2. h \in Nat /\ h >= 1 /\ h <= Len(Chain[b])
    BY <1>2
  <2>3. /\ Len(SubSeq(Chain[b], 1, h)) = h
        /\ DOMAIN SubSeq(Chain[b], 1, h) = 1..h
        /\ \A g \in 1..h : SubSeq(Chain[b], 1, h)[g] = Chain[b][g]
    BY <1>1, <1>2, <2>2, SubSeqProperties
  <2>. QED BY <2>1, <2>3 DEF ChainOf, Height, ToSet
<1>5. ASSUME NEW c \in ChainOf[b]
      PROVE  ChainOf[c] \subseteq ChainOf[b] /\ Height[c] \in Nat /\ Height[c] <= Height[b] /\ c \in Blocks
  <2>1. PICK h \in 1..Len(Chain[b]) : c = Chain[b][h]
    BY <1>3
  <2>2. h \in Nat /\ h <= Len(Chain[b]) /\ 1..h \subseteq 1..Len(Chain[b])
    BY <1>2
  <2>3. ChainOf[c] = {Chain[b][g] : g \in 1..h} /\ Height[c] = h /\ c \in Blocks
    BY <1>4, <2>1
  <2>. QED BY <1>3, <2>2, <2>3
<1>6. ASSUME b # Base
      PROVE  Parent[b] \in Blocks /\ ChainOf[b] = ChainOf[Parent[b]] \cup {b}
  <2> DEFINE n == Len(Chain[b])
  <2>1. n # 1
    BY <1>1, <1>6
  <2>2. n - 1 \in 1..n /\ 1..n = (1..(n - 1)) \cup {n}
    <3>1. n \in Nat /\ n >= 1 /\ n # 1
        BY <1>2, <2>1
    <3> HIDE DEF n
    <3>. QED BY <3>1
  <2>3. Parent[b] = Chain[b][n - 1]
    BY <1>6 DEF Parent
  <2>4. ChainOf[Parent[b]] = {Chain[b][g] : g \in 1..(n - 1)} /\ Parent[b] \in Blocks
    BY <1>4, <2>2, <2>3
  <2>5. Chain[b][n] = b /\ ChainOf[b] = {Chain[b][g] : g \in 1..n}
    BY <1>1, <1>3
  <2> HIDE DEF n
  <2>. QED BY <2>2, <2>4, <2>5
<1>7. b \in ChainOf[b]
    BY <1>1, <1>2, <1>3
<1>. QED BY <1>2, <1>3, <1>5, <1>6, <1>7

\* Transactions on a chain: where they are, what they spend, who else spends it.
LEMMA TxsOnChain ==
    ASSUME NEW b \in Blocks
    PROVE  /\ TxsOf[b] \subseteq Txs
           /\ \A t : t \in TxsOf[b] <=> \E c \in ChainOf[b] : t \in ToSet(Vtx[c])
           /\ \A c \in ChainOf[b] : TxsOf[c] \subseteq TxsOf[b] /\ SpentOn[c] \subseteq SpentOn[b]
           /\ \A t \in TxsOf[b] : Inputs[t] \subseteq SpentOn[b]
           /\ \A o \in SpentOn[b] : \E t \in TxsOf[b] : o \in Inputs[t]
           /\ \A t \in TxsOf[b] : Prevs[t] \subseteq TxsOf[b]
           /\ b # Base => TxsOf[b] = TxsOf[Parent[b]] \cup ToSet(Vtx[b])
<1>1. TxsOf[b] = UNION {ToSet(Vtx[c]) : c \in ChainOf[b]}
    BY DEF TxsOf
<1>2. \A t : t \in TxsOf[b] <=> \E c \in ChainOf[b] : t \in ToSet(Vtx[c])
    BY <1>1
<1>3. \A c \in Blocks : ToSet(Vtx[c]) \subseteq Txs
    BY ChainAssumption DEF ToSet
<1>4. TxsOf[b] \subseteq Txs
    BY <1>2, <1>3, ChainFacts
<1>5. ASSUME NEW c \in ChainOf[b] PROVE TxsOf[c] \subseteq TxsOf[b] /\ SpentOn[c] \subseteq SpentOn[b]
  <2>1. c \in Blocks /\ ChainOf[c] \subseteq ChainOf[b]
    BY ChainFacts
  <2>2. TxsOf[c] = UNION {ToSet(Vtx[d]) : d \in ChainOf[c]}
    BY <2>1 DEF TxsOf
  <2>3. TxsOf[c] \subseteq TxsOf[b]
    BY <1>1, <2>1, <2>2
  <2>. QED BY <2>1, <2>3 DEF SpentOn
<1>6. SpentOn[b] = UNION {Inputs[t] : t \in TxsOf[b]}
    BY DEF SpentOn
<1>7. ASSUME NEW t \in TxsOf[b], NEW p \in Prevs[t] PROVE p \in TxsOf[b]
  <2>1. PICK c \in ChainOf[b] : t \in ToSet(Vtx[c])
    BY <1>2
  <2>2. c \in Blocks /\ ChainOf[c] \subseteq ChainOf[b] /\ c \in ChainOf[c]
    BY ChainFacts
  <2>3. PICK o \in Inputs[t] : o[1] = p
    BY <1>4 DEF Prevs
  <2>4. PICK i \in DOMAIN Vtx[c] : Vtx[c][i] = t
    BY <2>1 DEF ToSet
  <2>5. \/ \E d \in ChainOf[c] \ {c} : o[1] \in ToSet(Vtx[d])
        \/ \E j \in 1..(i - 1) : o[1] = Vtx[c][j]
    BY <2>2, <2>3, <2>4, ValidBlocks
  <2>6. ASSUME NEW j \in 1..(i - 1) PROVE Vtx[c][j] \in ToSet(Vtx[c])
    <3>1. Vtx[c] \in Seq(Txs)
        BY <2>2, ChainAssumption
    <3>2. j \in DOMAIN Vtx[c]
        BY <3>1
    <3>. QED BY <3>2 DEF ToSet
  <2>7. \E d \in ChainOf[c] : p \in ToSet(Vtx[d])
    BY <2>2, <2>3, <2>5, <2>6
  <2>. QED BY <1>2, <2>2, <2>7
<1>8. ASSUME b # Base PROVE TxsOf[b] = TxsOf[Parent[b]] \cup ToSet(Vtx[b])
  <2>1. Parent[b] \in Blocks /\ ChainOf[b] = ChainOf[Parent[b]] \cup {b}
    BY <1>8, ChainFacts
  <2>2. TxsOf[Parent[b]] = UNION {ToSet(Vtx[d]) : d \in ChainOf[Parent[b]]}
    BY <2>1 DEF TxsOf
  <2>. QED BY <1>1, <2>1, <2>2
<1>. QED BY <1>2, <1>4, <1>5, <1>6, <1>7, <1>8

\* The sign of a depth.
LEMMA DepthSign ==
    ASSUME NEW w, NEW b \in Blocks, NEW t, w.map[t].inBlock \in BOOLEAN
    PROVE  /\ GetDepthInMainChain(w, b, t) \in Int
           /\ GetDepthInMainChain(w, b, t) > 0 <=> w.map[t].hashBlock \in ChainOf[b] /\ w.map[t].inBlock
           /\ GetDepthInMainChain(w, b, t) < 0 <=> w.map[t].hashBlock \in ChainOf[b] /\ ~w.map[t].inBlock
           /\ GetDepthInMainChain(w, b, t) = 0 <=> w.map[t].hashBlock \notin ChainOf[b]
<1> DEFINE e == w.map[t]
           n == Height[b] - Height[e.hashBlock] + 1
<1>1. CASE e.hashBlock \notin ChainOf[b]
  <2>1. GetDepthInMainChain(w, b, t) = 0
    BY <1>1 DEF GetDepthInMainChain
  <2>. QED BY <1>1, <2>1
<1>2. CASE e.hashBlock \in ChainOf[b]
  <2>1. n \in Int /\ n >= 1
    BY <1>2, ChainFacts
  <2>2. GetDepthInMainChain(w, b, t) = (IF e.inBlock THEN 1 ELSE -1) * n
    BY <1>2 DEF GetDepthInMainChain
  <2> HIDE DEF n
  <2>3. GetDepthInMainChain(w, b, t) = IF e.inBlock THEN n ELSE -n
    BY <2>1, <2>2
  <2>. QED BY <1>2, <2>1, <2>3
<1>. QED BY <1>1, <1>2

-----------------------------------------------------------------------------
(* What the operations on a wallet keep.                                   *)

\* v may come after w: it has the entries of w and perhaps more, caches at most what w
\* cached, still knows what w knew of the chain that ends in d, and has not abandoned
\* a transaction of Q.
Follows(w, v, d, Q) ==
    /\ DOMAIN w.map \subseteq DOMAIN v.map
    /\ \A t \in Txs : v.cache[t] = NotCached \/ v.cache[t] = w.cache[t]
    /\ \A c \in ChainOf[d] : \A t \in ToSet(Vtx[c]) :
          t \in DOMAIN w.map /\ w.map[t] = WalletTx(c) => v.map[t] = WalletTx(c)
    /\ \A t \in Q \cap DOMAIN v.map :
          v.map[t].hashBlock = Abandoned => t \in DOMAIN w.map /\ w.map[t].hashBlock = Abandoned

\* Nothing changes.
LEMMA FollowsItself ==
    ASSUME NEW w, NEW d, NEW Q
    PROVE  Follows(w, w, d, Q)
    BY DEF Follows

\* One change after another.
LEMMA FollowsTwice ==
    ASSUME NEW w, NEW v, NEW x, NEW d, NEW Q, Follows(w, v, d, Q), Follows(v, x, d, Q)
    PROVE  Follows(w, x, d, Q)
<1>1. DOMAIN w.map \subseteq DOMAIN x.map
    BY DEF Follows
<1>2. \A t \in Txs : x.cache[t] = NotCached \/ x.cache[t] = w.cache[t]
    BY DEF Follows
<1>3. ASSUME NEW c \in ChainOf[d], NEW t \in ToSet(Vtx[c]), t \in DOMAIN w.map, w.map[t] = WalletTx(c)
      PROVE  x.map[t] = WalletTx(c)
    BY <1>3 DEF Follows
<1>4. ASSUME NEW t \in Q \cap DOMAIN x.map, x.map[t].hashBlock = Abandoned
      PROVE  t \in DOMAIN w.map /\ w.map[t].hashBlock = Abandoned
    BY <1>4 DEF Follows
<1>. QED BY <1>1, <1>2, <1>3, <1>4 DEF Follows

\* The fields of a wallet.
LEMMA WalletFields ==
    ASSUME NEW w
    PROVE  w \in Wallets <=>
              /\ w = [map |-> w.map, spends |-> w.spends, cache |-> w.cache]
              /\ DOMAIN w.map \in SUBSET Txs /\ w.map \in [DOMAIN w.map -> Entries]
              /\ w.spends \in SUBSET (Outpoints \X Txs)
              /\ w.cache \in [Txs -> {NotCached} \cup SUBSET Outpoints]
<1>1. w.map \in UNION {[D -> Entries] : D \in SUBSET Txs}
         <=> DOMAIN w.map \in SUBSET Txs /\ w.map \in [DOMAIN w.map -> Entries]
    OBVIOUS
<1>. QED BY <1>1 DEF Wallets

\* Dropping cached credits.
LEMMA DirtyFields ==
    ASSUME NEW w \in Wallets, NEW S
    PROVE  /\ MarkDirty(w, S) \in Wallets
           /\ MarkDirty(w, S).map = w.map /\ MarkDirty(w, S).spends = w.spends
           /\ \A t \in Txs : MarkDirty(w, S).cache[t] = IF t \in S THEN NotCached ELSE w.cache[t]
<1> DEFINE k == [t \in Txs |-> IF t \in S THEN NotCached ELSE w.cache[t]]
<1>1. w = [map |-> w.map, spends |-> w.spends, cache |-> w.cache]
      /\ w.cache \in [Txs -> {NotCached} \cup SUBSET Outpoints]
    BY WalletFields
<1>2. k \in [Txs -> {NotCached} \cup SUBSET Outpoints] /\ \A t \in Txs : k[t] = IF t \in S THEN NotCached ELSE w.cache[t]
    BY <1>1
<1> HIDE DEF k
<1>3. MarkDirty(w, S) = [w EXCEPT !.cache = k]
    BY DEF MarkDirty, k
<1>4. [w EXCEPT !.cache = k] = [map |-> w.map, spends |-> w.spends, cache |-> k]
    BY <1>1
<1>. QED BY <1>2, <1>3, <1>4, WalletFields DEF Wallets

\* It keeps a wallet true.
LEMMA DirtyTrue ==
    ASSUME NEW w, WalletTrue(w), NEW S, NEW d, NEW Q
    PROVE  WalletTrue(MarkDirty(w, S)) /\ Follows(w, MarkDirty(w, S), d, Q)
<1> DEFINE v == MarkDirty(w, S)
<1>0. w \in Wallets
    BY DEF WalletTrue
<1>1. /\ v \in Wallets /\ v.map = w.map /\ v.spends = w.spends
      /\ \A t \in Txs : v.cache[t] = IF t \in S THEN NotCached ELSE w.cache[t]
    BY <1>0, DirtyFields
<1> HIDE DEF v
<1>2. MapTrue(v.map)
    BY <1>1 DEF WalletTrue
<1>3. SpendsTrue(v)
    BY <1>1 DEF WalletTrue, SpendsTrue
<1>4. CachesTrue(v)
    BY <1>1 DEF WalletTrue, CachesTrue
<1>5. Follows(w, v, d, Q)
    BY <1>1 DEF Follows
<1>. QED BY <1>1, <1>2, <1>3, <1>4, <1>5 DEF WalletTrue, v

\* What makes an entry true of t.
EntryTrue(t, e) ==
    /\ e \in Entries /\ Concerned(t)
    /\ e.inBlock => e.hashBlock \in Blocks /\ t \in ToSet(Vtx[e.hashBlock])
    /\ ~e.inBlock /\ e.hashBlock \in Blocks => InConflict(t, e.hashBlock)

\* A map is true if its entries are.
LEMMA MapEntries ==
    ASSUME NEW m
    PROVE  MapTrue(m) <=> /\ DOMAIN m \subseteq Txs /\ m \in [DOMAIN m -> Entries]
                          /\ \A t \in DOMAIN m : EntryTrue(t, m[t])
    BY DEF MapTrue, EntryTrue

\* The spends sp are those of the transactions of m.
SpendsOf(m, sp) ==
    /\ sp \in SUBSET (Outpoints \X Txs)
    /\ \A s \in sp : s[2] \in DOMAIN m /\ s[1] \in Inputs[s[2]]
    /\ \A t \in DOMAIN m : \A o \in Inputs[t] \ StakeInputs : <<o, t>> \in sp

\* A wallet with other entries for transactions that it has, and perhaps for a new one.
LEMMA MapChanged ==
    ASSUME NEW w, WalletTrue(w), NEW v, NEW m, MapTrue(m), NEW sp, SpendsOf(m, sp),
           v = [map |-> m, spends |-> sp, cache |-> w.cache],
           DOMAIN w.map \subseteq DOMAIN m
    PROVE  WalletTrue(v) /\ v.map = m /\ v.spends = sp /\ v.cache = w.cache
<1>1. w.cache \in [Txs -> {NotCached} \cup SUBSET Outpoints]
    BY WalletFields DEF WalletTrue
<1>2. v.map = m /\ v.spends = sp /\ v.cache = w.cache
    OBVIOUS
<1>3. DOMAIN m \in SUBSET Txs /\ m \in [DOMAIN m -> Entries]
    BY DEF MapTrue
<1>4. v \in Wallets
    BY <1>1, <1>2, <1>3, WalletFields DEF SpendsOf
<1>5. SpendsTrue(v)
    BY <1>2 DEF SpendsTrue, SpendsOf
<1>6. CachesTrue(v)
    BY <1>2 DEF CachesTrue, WalletTrue
<1>. QED BY <1>2, <1>4, <1>5, <1>6 DEF WalletTrue

\* What a true wallet says of its spends.
LEMMA WalletParts ==
    ASSUME NEW w, WalletTrue(w)
    PROVE  /\ w \in Wallets /\ MapTrue(w.map) /\ SpendsOf(w.map, w.spends)
           /\ w = [map |-> w.map, spends |-> w.spends, cache |-> w.cache]
           /\ DOMAIN w.map \subseteq Txs
           /\ \A t \in DOMAIN w.map : EntryTrue(t, w.map[t])
<1>1. w \in Wallets /\ MapTrue(w.map) /\ SpendsTrue(w)
    BY DEF WalletTrue
<1>2. w.spends \in SUBSET (Outpoints \X Txs)
      /\ w = [map |-> w.map, spends |-> w.spends, cache |-> w.cache]
    BY <1>1, WalletFields
<1>3. SpendsOf(w.map, w.spends)
    BY <1>1, <1>2 DEF SpendsTrue, SpendsOf
<1>. QED BY <1>1, <1>2, <1>3, MapEntries

\* SetEntries, when the entry is true of all it is set for.
LEMMA SetEntriesTrue ==
    ASSUME NEW w, WalletTrue(w), NEW S \in SUBSET DOMAIN w.map, NEW e, \A t \in S : EntryTrue(t, e),
           NEW d, \A c \in ChainOf[d] : \A t \in ToSet(Vtx[c]) \cap S : w.map[t] # WalletTx(c),
           NEW Q, e.hashBlock = Abandoned => Q \cap S = {}
    PROVE  /\ WalletTrue(SetEntries(w, S, e)) /\ Follows(w, SetEntries(w, S, e), d, Q)
           /\ DOMAIN SetEntries(w, S, e).map = DOMAIN w.map
<1> DEFINE m == [t \in DOMAIN w.map |-> IF t \in S THEN e ELSE w.map[t]]
           D == S \cup ((UNION {Prevs[t] : t \in S}) \cap DOMAIN w.map)
           x == [map |-> m, spends |-> w.spends, cache |-> w.cache]
<1>0. /\ w = [map |-> w.map, spends |-> w.spends, cache |-> w.cache]
      /\ MapTrue(w.map) /\ SpendsOf(w.map, w.spends)
    BY WalletParts
<1>1. DOMAIN m = DOMAIN w.map /\ \A t \in DOMAIN w.map : m[t] = IF t \in S THEN e ELSE w.map[t]
    OBVIOUS
<1>2. MapTrue(m)
  <2>1. \A t \in DOMAIN w.map : EntryTrue(t, w.map[t])
    BY <1>0, MapEntries
  <2>2. \A t \in DOMAIN m : EntryTrue(t, m[t])
    BY <1>1, <2>1
  <2>3. DOMAIN m \subseteq Txs
    BY <1>0, <1>1, MapEntries
  <2>4. m \in [DOMAIN m -> Entries]
    BY <2>2 DEF EntryTrue
  <2> HIDE DEF m
  <2>. QED BY <2>2, <2>3, <2>4, MapEntries
<1>3. SetEntries(w, S, e) = MarkDirty([w EXCEPT !.map = m], D)
    BY DEF SetEntries
<1> HIDE DEF m, D
<1>4. [w EXCEPT !.map = m] = x
    BY <1>0
<1> HIDE DEF x
<1>5. WalletTrue(x) /\ x.map = m /\ x.cache = w.cache
  <2>1. SpendsOf(m, w.spends)
    BY <1>0, <1>1 DEF SpendsOf
  <2>2. x = [map |-> m, spends |-> w.spends, cache |-> w.cache]
    BY DEF x
  <2>3. DOMAIN w.map \subseteq DOMAIN m
    BY <1>1
  <2>. QED BY <1>2, <2>1, <2>2, <2>3, MapChanged
<1>7. Follows(w, x, d, Q)
  <2>1. ASSUME NEW c \in ChainOf[d], NEW t \in ToSet(Vtx[c]), t \in DOMAIN w.map, w.map[t] = WalletTx(c)
        PROVE  x.map[t] = WalletTx(c)
    BY <1>1, <1>5, <2>1
  <2>2. ASSUME NEW t \in Q \cap DOMAIN x.map, x.map[t].hashBlock = Abandoned
        PROVE  t \in DOMAIN w.map /\ w.map[t].hashBlock = Abandoned
    BY <1>1, <1>5, <2>2
  <2>. QED BY <1>1, <1>5, <2>1, <2>2 DEF Follows
<1>8. WalletTrue(MarkDirty(x, D)) /\ Follows(x, MarkDirty(x, D), d, Q)
    BY <1>5, DirtyTrue
<1>9. MarkDirty(x, D).map = m
    BY <1>5, DirtyFields DEF WalletTrue
<1>. QED BY <1>1, <1>3, <1>4, <1>7, <1>8, <1>9, FollowsTwice

-----------------------------------------------------------------------------
(* Conflicts.                                                              *)

\* What t builds on.
LEMMA Ancestors ==
    ASSUME NEW t \in Txs
    PROVE  /\ t \in AncestorsOf(t)
           /\ \A p \in Prevs[t] : AncestorsOf(p) \subseteq AncestorsOf(t)
           /\ \A C \in SUBSET Txs : t \in C /\ (\A x \in C : Prevs[x] \subseteq C) => AncestorsOf(t) \subseteq C
    BY DEF AncestorsOf

\* What spends an output of a transaction in conflict is in conflict too.
LEMMA ConflictSpreads ==
    ASSUME NEW t \in Txs, NEW p \in Prevs[t], NEW c, InConflict(p, c)
    PROVE  InConflict(t, c)
    BY Ancestors DEF InConflict

\* Nothing on a chain is in conflict with a block of it.
LEMMA NoConflictOnChain ==
    ASSUME NEW d \in Blocks, NEW c \in ChainOf[d], NEW t \in TxsOf[d]
    PROVE  ~InConflict(t, c)
<1>1. TxsOf[d] \in SUBSET Txs /\ \A x \in TxsOf[d] : Prevs[x] \subseteq TxsOf[d]
    BY TxsOnChain
<1>2. AncestorsOf(t) \subseteq TxsOf[d]
    BY <1>1, Ancestors
<1>3. ToSet(Vtx[c]) \subseteq TxsOf[d]
    BY TxsOnChain
<1>4. \A x, y \in TxsOf[d] : x # y => Inputs[x] \cap Inputs[y] = {}
    BY ValidBlocks
<1>. QED BY <1>2, <1>3, <1>4 DEF InConflict

\* Who spends what in a true wallet.
LEMMA SpendersKnown ==
    ASSUME NEW w, WalletTrue(w)
    PROVE  /\ \A o : Spenders(w, o) = {u \in DOMAIN w.map : <<o, u>> \in w.spends}
           /\ \A o : \A u \in Spenders(w, o) : o \in Inputs[u]
           /\ \A t : \A u \in SpendersOf(w, t) : u \in DOMAIN w.map /\ u \in Txs /\ t \in Prevs[u]
<1>1. SpendsOf(w.map, w.spends) /\ DOMAIN w.map \subseteq Txs
    BY WalletParts
<1>2. \A s \in w.spends : s = <<s[1], s[2]>> /\ s[2] \in DOMAIN w.map /\ s[1] \in Inputs[s[2]]
    BY <1>1 DEF SpendsOf
<1>3. \A s \in w.spends : s[1][1] \in Prevs[s[2]]
    BY <1>1, <1>2 DEF Prevs
<1>4. ASSUME NEW o PROVE Spenders(w, o) = {u \in DOMAIN w.map : <<o, u>> \in w.spends}
    BY <1>2 DEF Spenders
<1>5. ASSUME NEW o, NEW u \in Spenders(w, o) PROVE o \in Inputs[u]
    BY <1>2 DEF Spenders
<1>6. ASSUME NEW t, NEW u \in SpendersOf(w, t) PROVE u \in DOMAIN w.map /\ t \in Prevs[u]
    BY <1>2, <1>3 DEF SpendersOf
<1>. QED BY <1>1, <1>4, <1>5, <1>6

\* MarkConflicted, for a transaction that is in conflict with the block.
LEMMA MarkConflictedTrue ==
    ASSUME NEW w, WalletTrue(w), NEW b \in Blocks, NEW c \in Blocks, NEW t \in DOMAIN w.map,
           InConflict(t, c), NEW d \in Blocks, b \in ChainOf[d], NEW Q
    PROVE  /\ WalletTrue(MarkConflicted(w, b, c, t))
           /\ Follows(w, MarkConflicted(w, b, c, t), d, Q)
           /\ DOMAIN MarkConflicted(w, b, c, t).map = DOMAIN w.map
<1> DEFINE confirms == -(Height[b] - Height[c] + 1)
           Changes(u) == confirms < GetDepthInMainChain(w, b, u)
           todo == {u \in DOMAIN w.map :
                    \A S \in SUBSET DOMAIN w.map :
                        (t \in S /\ \A x \in S : Changes(x) => SpendersOf(w, x) \subseteq S)
                        => u \in S}
           S0 == {u \in DOMAIN w.map : InConflict(u, c)}
           S1 == {u \in todo : Changes(u)}
           e == [hashBlock |-> c, inBlock |-> FALSE]
<1>1. CASE c \notin ChainOf[b]
  <2>1. MarkConflicted(w, b, c, t) = w
    BY <1>1 DEF MarkConflicted
  <2>. QED BY <2>1, FollowsItself
<1>2. CASE c \in ChainOf[b]
  <2>1. MarkConflicted(w, b, c, t) = SetEntries(w, S1, e)
    BY <1>2 DEF MarkConflicted
  <2>2. \A x \in S0 : SpendersOf(w, x) \subseteq S0
    BY SpendersKnown, ConflictSpreads
  <2>3. todo \subseteq S0
    <3> HIDE DEF Changes
    <3>. QED BY <2>2
  <2>4. S1 \in SUBSET DOMAIN w.map /\ \A u \in S1 : InConflict(u, c)
    <3> HIDE DEF Changes
    <3>. QED BY <2>3
  <2> HIDE DEF S1, S0
  <2>5. \A u \in S1 : EntryTrue(u, e)
    <3>1. \A u \in S1 : Concerned(u)
        BY <2>4, WalletParts DEF EntryTrue
    <3>2. e \in Entries /\ e.hashBlock = c /\ e.inBlock = FALSE
        BY DEF Entries
    <3> HIDE DEF e
    <3>. QED BY <2>4, <3>1, <3>2 DEF EntryTrue
  <2>6. ASSUME NEW c1 \in ChainOf[d], NEW u \in ToSet(Vtx[c1]) \cap S1 PROVE w.map[u] # WalletTx(c1)
    <3>1. u \in TxsOf[d] /\ c \in ChainOf[d]
        BY <1>2, TxsOnChain, ChainFacts
    <3>. QED BY <2>4, <3>1, NoConflictOnChain
  <2>7. e.hashBlock # Abandoned
    BY ChainAssumption
  <2> HIDE DEF e
  <2>. QED BY <2>1, <2>4, <2>5, <2>6, <2>7, SetEntriesTrue
<1>. QED BY <1>1, <1>2

-----------------------------------------------------------------------------
(* Transactions that reach the wallet.                                     *)

\* t may be told to the wallet as found in block c, or as found in no block, while
\* the wallet has to remember the chain that ends in d.
Told(t, c, d) == t \in Txs /\ (c = Null \/ (c \in ChainOf[d] /\ t \in ToSet(Vtx[c])))

\* After it the wallet has t, in block c if that is a block.
Recorded(w, t, c) ==
    /\ t \in DOMAIN w.map /\ w.map[t].hashBlock # Abandoned
    /\ c # Null => w.map[t] = WalletTx(c)

\* A transaction is in one block of a chain.
LEMMA OneBlock ==
    ASSUME NEW d \in Blocks, NEW c1 \in ChainOf[d], NEW c2 \in ChainOf[d], NEW t,
           t \in ToSet(Vtx[c1]), t \in ToSet(Vtx[c2])
    PROVE  c1 = c2
    BY ValidBlocks

\* The merged entry of AddToWallet.
LEMMA MergedTrue ==
    ASSUME NEW w, WalletTrue(w), NEW t, Concerned(t), NEW d \in Blocks, NEW c, Told(t, c, d),
           NEW entry,
           LET e == WalletTx(c)
               old == w.map[t]
               merged == [hashBlock |-> IF e.hashBlock # Null \/ old.hashBlock = Abandoned
                                        THEN e.hashBlock ELSE old.hashBlock,
                          inBlock   |-> e.inBlock \/ old.inBlock]
           IN  entry = IF t \in DOMAIN w.map THEN merged ELSE e
    PROVE  /\ EntryTrue(t, entry) /\ entry.hashBlock # Abandoned
           /\ c # Null => entry = WalletTx(c)
           /\ \A c1 \in ChainOf[d] :
                 t \in ToSet(Vtx[c1]) /\ t \in DOMAIN w.map /\ w.map[t] = WalletTx(c1) => entry = WalletTx(c1)
<1> DEFINE old == w.map[t]
<1>0. /\ c # Null => c \in Blocks /\ c # Abandoned /\ t \in ToSet(Vtx[c]) /\ c \in ChainOf[d]
      /\ Null \notin Blocks /\ Abandoned \notin Blocks /\ Null # Abandoned
    BY ChainFacts, ChainAssumption DEF Told
<1>1. ASSUME c # Null PROVE entry = WalletTx(c)
    BY <1>1 DEF WalletTx
<1>2. CASE c # Null
  <2>1. EntryTrue(t, WalletTx(c)) /\ WalletTx(c).hashBlock # Abandoned
    BY <1>0, <1>2 DEF EntryTrue, WalletTx, Entries
  <2>2. \A c1 \in ChainOf[d] : t \in ToSet(Vtx[c1]) => c = c1
    BY <1>0, <1>2, OneBlock
  <2>. QED BY <1>1, <1>2, <2>1, <2>2
<1>3. CASE c = Null /\ t \notin DOMAIN w.map
  <2>1. entry = WalletTx(Null)
    BY <1>3
  <2>2. EntryTrue(t, WalletTx(Null)) /\ WalletTx(Null).hashBlock # Abandoned
    BY <1>0 DEF EntryTrue, WalletTx, Entries
  <2>. QED BY <1>3, <2>1, <2>2
<1>4. CASE c = Null /\ t \in DOMAIN w.map
  <2>1. EntryTrue(t, old)
    BY <1>4, WalletParts
  <2>2. old \in Entries /\ old = [hashBlock |-> old.hashBlock, inBlock |-> old.inBlock]
        /\ old.inBlock \in BOOLEAN
    BY <2>1 DEF EntryTrue, Entries
  <2>3. entry = [hashBlock |-> IF old.hashBlock = Abandoned THEN Null ELSE old.hashBlock,
                 inBlock   |-> old.inBlock]
    BY <1>4, <2>2 DEF WalletTx
  <2>4. CASE old.hashBlock = Abandoned
    <3>1. old.inBlock = FALSE
        BY <1>0, <2>1, <2>2, <2>4 DEF EntryTrue
    <3>2. entry = [hashBlock |-> Null, inBlock |-> FALSE]
        BY <2>3, <2>4, <3>1
    <3>3. EntryTrue(t, entry)
      <4>1. EntryTrue(t, [hashBlock |-> Null, inBlock |-> FALSE])
        BY <1>0 DEF EntryTrue, Entries
      <4>. QED BY <3>2, <4>1
    <3>4. \A c1 \in ChainOf[d] : WalletTx(c1).hashBlock # Abandoned
        BY <1>0, ChainFacts DEF WalletTx
    <3>. QED BY <1>0, <1>4, <2>4, <3>2, <3>3, <3>4
  <2>5. CASE old.hashBlock # Abandoned
    <3>1. entry = old
        BY <2>2, <2>3, <2>5
    <3>. QED BY <1>4, <2>1, <2>5, <3>1
  <2>. QED BY <2>4, <2>5
<1>. QED BY <1>2, <1>3, <1>4

\* AddToWallet.
LEMMA AddToWalletTrue ==
    ASSUME NEW w, WalletTrue(w), NEW t, Concerned(t), NEW d \in Blocks, NEW c, Told(t, c, d), NEW Q
    PROVE  /\ WalletTrue(AddToWallet(w, t, WalletTx(c)))
           /\ Follows(w, AddToWallet(w, t, WalletTx(c)), d, Q)
           /\ Recorded(AddToWallet(w, t, WalletTx(c)), t, c)
<1> DEFINE e == WalletTx(c)
           old == w.map[t]
           merged == [hashBlock |-> IF e.hashBlock # Null \/ old.hashBlock = Abandoned
                                    THEN e.hashBlock ELSE old.hashBlock,
                      inBlock   |-> e.inBlock \/ old.inBlock]
           entry == IF t \in DOMAIN w.map THEN merged ELSE e
           m == [u \in DOMAIN w.map \cup {t} |-> IF u = t THEN entry ELSE w.map[u]]
           sp == IF t \in DOMAIN w.map THEN w.spends ELSE w.spends \cup {<<o, t>> : o \in Inputs[t]}
           x == [map |-> m, spends |-> sp, cache |-> w.cache]
<1>1. /\ EntryTrue(t, entry) /\ entry.hashBlock # Abandoned
      /\ c # Null => entry = WalletTx(c)
      /\ \A c1 \in ChainOf[d] :
            t \in ToSet(Vtx[c1]) /\ t \in DOMAIN w.map /\ w.map[t] = WalletTx(c1) => entry = WalletTx(c1)
    BY MergedTrue
<1>2. AddToWallet(w, t, WalletTx(c))
        = MarkDirty(IF t \in DOMAIN w.map THEN [w EXCEPT !.map = m]
                    ELSE AddToSpends([w EXCEPT !.map = m], t), {t})
    BY DEF AddToWallet
<1> HIDE DEF entry
<1>3. DOMAIN m = DOMAIN w.map \cup {t} /\ m[t] = entry /\ \A u \in DOMAIN w.map : u # t => m[u] = w.map[u]
    OBVIOUS
<1>4. /\ w = [map |-> w.map, spends |-> w.spends, cache |-> w.cache]
      /\ MapTrue(w.map) /\ SpendsOf(w.map, w.spends) /\ DOMAIN w.map \subseteq Txs
      /\ \A u \in DOMAIN w.map : EntryTrue(u, w.map[u])
    BY WalletParts
<1>5. MapTrue(m)
  <2>1. \A u \in DOMAIN m : EntryTrue(u, m[u])
    BY <1>1, <1>3, <1>4
  <2>2. DOMAIN m \subseteq Txs
    BY <1>3, <1>4 DEF Told
  <2>3. m \in [DOMAIN m -> Entries]
    BY <2>1 DEF EntryTrue
  <2> HIDE DEF m
  <2>. QED BY <2>1, <2>2, <2>3, MapEntries
<1> HIDE DEF m
<1>6. x = IF t \in DOMAIN w.map THEN [w EXCEPT !.map = m] ELSE AddToSpends([w EXCEPT !.map = m], t)
    BY <1>4 DEF AddToSpends
<1>7. SpendsOf(m, sp)
  <2>1. t \in Txs /\ Inputs[t] \in SUBSET Outpoints
    BY WalletAssumption DEF Told
  <2>2. CASE t \in DOMAIN w.map
    BY <1>3, <1>4, <2>2 DEF SpendsOf
  <2>3. CASE t \notin DOMAIN w.map
    <3>1. sp = w.spends \cup {<<o, t>> : o \in Inputs[t]}
        BY <2>3
    <3> HIDE DEF sp
    <3>2. sp \in SUBSET (Outpoints \X Txs)
        BY <1>4, <2>1, <3>1 DEF SpendsOf
    <3>3. \A s \in sp : s[2] \in DOMAIN m /\ s[1] \in Inputs[s[2]]
        BY <1>3, <1>4, <3>1 DEF SpendsOf
    <3>4. \A u \in DOMAIN m : \A o \in Inputs[u] \ StakeInputs : <<o, u>> \in sp
        BY <1>3, <1>4, <3>1 DEF SpendsOf
    <3>. QED BY <3>2, <3>3, <3>4 DEF SpendsOf
  <2>. QED BY <2>2, <2>3
<1> HIDE DEF sp
<1>8. WalletTrue(x) /\ x.map = m /\ x.cache = w.cache
  <2>1. x = [map |-> m, spends |-> sp, cache |-> w.cache] /\ DOMAIN w.map \subseteq DOMAIN m
    BY <1>3
  <2> HIDE DEF x
  <2>. QED BY <1>5, <1>7, <2>1, MapChanged
<1> HIDE DEF x
<1>9. Follows(w, x, d, Q)
  <2>1. ASSUME NEW c1 \in ChainOf[d], NEW u \in ToSet(Vtx[c1]), u \in DOMAIN w.map, w.map[u] = WalletTx(c1)
        PROVE  x.map[u] = WalletTx(c1)
    BY <1>1, <1>3, <1>8, <2>1
  <2>2. ASSUME NEW u \in Q \cap DOMAIN x.map, x.map[u].hashBlock = Abandoned
        PROVE  u \in DOMAIN w.map /\ w.map[u].hashBlock = Abandoned
    BY <1>1, <1>3, <1>8, <2>2
  <2>. QED BY <1>3, <1>8, <2>1, <2>2 DEF Follows
<1>10. WalletTrue(MarkDirty(x, {t})) /\ Follows(x, MarkDirty(x, {t}), d, Q)
    BY <1>8, DirtyTrue
<1>11. MarkDirty(x, {t}).map = m
    BY <1>8, DirtyFields DEF WalletTrue
<1>12. AddToWallet(w, t, WalletTx(c)) = MarkDirty(x, {t})
    BY <1>2, <1>6
<1>. QED BY <1>1, <1>3, <1>9, <1>10, <1>11, <1>12, FollowsTwice DEF Recorded

-----------------------------------------------------------------------------
(* Folds of wallets.                                                       *)

\* A fold whose steps stay in P stays in P.
LEMMA FoldStays ==
    ASSUME NEW S, IsFiniteSet(S), NEW P, NEW ch, Chooses(ch, S), NEW g, g[{}] \in P,
           \A s \in SUBSET S : s # {} /\ g[s \ {ch[s]}] \in P => g[s] \in P
    PROVE  g[S] \in P
<1> DEFINE G == {s \in SUBSET S : g[s] \in P}
<1>1. {} \in G
    OBVIOUS
<1>2. ASSUME NEW s \in SUBSET S, s # {}, s \ {ch[s]} \in G PROVE s \in G
    BY <1>2 DEF Chooses
<1>3. \A s \in SUBSET S : s # {} => ch[s] \in s
    BY DEF Chooses
<1> HIDE DEF G
<1>4. \A s \in SUBSET S : s \in G
    BY <1>1, <1>2, <1>3, SubsetInduction
<1>. QED BY <1>4 DEF G

\* What a fold that starts from w may reach.
Reach(w, d, Q) == {v \in Wallets : WalletTrue(v) /\ Follows(w, v, d, Q) /\ DOMAIN v.map = DOMAIN w.map}

\* What else spends an input of t.
Rivals(w, t) == (UNION {Spenders(w, o) : o \in Inputs[t]}) \ {t}

\* g holds the wallets while the rivals of t are marked, in the order of ch.
MarkRun(g, ch, w, b, c, t, d, Q) ==
    /\ IsFiniteSet(Rivals(w, t)) /\ Chooses(ch, Rivals(w, t))
    /\ g[{}] = w /\ MarkConflicts(w, b, c, t) = g[Rivals(w, t)]
    /\ \A s \in SUBSET Rivals(w, t) :
          /\ g[s] \in Reach(w, d, Q)
          /\ s # {} => g[s] = MarkConflicted(g[s \ {ch[s]}], b, c, ch[s])

\* A rival of a transaction of a block is in conflict with the block.
LEMMA RivalsConflict ==
    ASSUME NEW w, WalletTrue(w), NEW c, NEW t \in ToSet(Vtx[c]), NEW u \in Rivals(w, t)
    PROVE  u \in DOMAIN w.map /\ InConflict(u, c)
<1>1. PICK o \in Inputs[t] : u \in Spenders(w, o)
    BY DEF Rivals
<1>2. u \in DOMAIN w.map /\ o \in Inputs[u] /\ u # t
    BY <1>1, SpendersKnown DEF Rivals
<1>3. u \in AncestorsOf(u)
    BY <1>2, WalletParts, Ancestors
<1>. QED BY <1>2, <1>3 DEF InConflict

\* MarkConflicts, rival by rival.
LEMMA MarkConflictsRun ==
    ASSUME NEW w, WalletTrue(w), NEW b \in Blocks, NEW d \in Blocks, b \in ChainOf[d],
           NEW t, NEW c, Told(t, c, d), c # Null, NEW Q
    PROVE  \E g, ch : MarkRun(g, ch, w, b, c, t, d, Q)
<1> DEFINE S == Rivals(w, t)
           First(s) == CHOOSE x \in s : TRUE
           Rec(g) == g = [s \in SUBSET S |->
                             IF s = {} THEN w ELSE MarkConflicted(g[s \ {First(s)}], b, c, First(s))]
           ch == [s \in SUBSET S |-> First(s)]
           P == Reach(w, d, Q)
           step == [z \in P \X S |-> MarkConflicted(z[1], b, c, z[2])]
<1>1. MarkConflicts(w, b, c, t) = (CHOOSE g : Rec(g))[S]
    BY Zenon DEF MarkConflicts, FoldSet, MapThenFoldSet, Rivals
<1>2. c \in Blocks /\ t \in ToSet(Vtx[c]) /\ t \in Txs
    BY ChainFacts DEF Told
<1>3. \A u \in S : u \in DOMAIN w.map /\ InConflict(u, c)
    BY <1>2, RivalsConflict
<1> HIDE DEF S
<1>4. IsFiniteSet(S)
  <2>1. S \subseteq Txs
    BY <1>3, WalletParts
  <2>. QED BY <2>1, WalletAssumption, FS_Subset
<1>5. Chooses(ch, S)
    BY DEF Chooses
<1>6. ASSUME NEW v \in P, NEW u \in S
      PROVE  step[<<v, u>>] = MarkConflicted(v, b, c, u) /\ step[<<v, u>>] \in P
  <2>1. step[<<v, u>>] = MarkConflicted(v, b, c, u)
    OBVIOUS
  <2>2. WalletTrue(v) /\ Follows(w, v, d, Q) /\ DOMAIN v.map = DOMAIN w.map
    BY DEF Reach
  <2> DEFINE x == MarkConflicted(v, b, c, u)
  <2>3. WalletTrue(x) /\ Follows(v, x, d, Q) /\ DOMAIN x.map = DOMAIN w.map
    BY <1>2, <1>3, <2>2, MarkConflictedTrue
  <2> HIDE DEF x
  <2>4. Follows(w, x, d, Q)
    BY <2>2, <2>3, FollowsTwice
  <2>5. x \in P
    BY <2>3, <2>4 DEF Reach, WalletTrue
  <2>. QED BY <2>1, <2>5 DEF x
<1>7. w \in P
    BY FollowsItself DEF Reach, WalletTrue
<1> HIDE DEF P
<1>8. step \in [P \X S -> P]
  <2>1. \A z \in P \X S : z[1] \in P /\ z[2] \in S /\ step[z] = step[<<z[1], z[2]>>]
    OBVIOUS
  <2>2. \A z \in P \X S : step[z] \in P
    <3> HIDE DEF step
    <3>. QED BY <1>6, <2>1
  <2>. QED BY <2>2
<1>9. \E g : Rec(g)
  <2>1. \E f : Folds(f, S, P, w, step, ch)
    <3> HIDE DEF step, ch
    <3>. QED BY <1>4, <1>5, <1>7, <1>8, FoldExists
  <2>2. PICK f : Folds(f, S, P, w, step, ch)
    BY <2>1
  <2>3. f \in [SUBSET S -> P] /\ f[{}] = w
    BY <2>2 DEF Folds
  <2>4. ASSUME NEW s \in SUBSET S, s # {} PROVE f[s] = MarkConflicted(f[s \ {First(s)}], b, c, First(s))
    <3>1. ch[s] = First(s) /\ First(s) \in s
        BY <2>4
    <3>2. f[s] = step[<<f[s \ {First(s)}], First(s)>>]
        BY <2>2, <2>4, <3>1 DEF Folds
    <3>3. f[s \ {First(s)}] \in P /\ First(s) \in S
        BY <2>3, <3>1
    <3> HIDE DEF step, ch, First
    <3>. QED BY <1>6, <3>2, <3>3
  <2>5. f = [s \in SUBSET S |-> f[s]]
    BY <2>3
  <2> HIDE DEF First
  <2>. QED BY <2>3, <2>4, <2>5
<1>10. PICK g : g = CHOOSE h : Rec(h)
    OBVIOUS
<1>11. Rec(g)
  <2> HIDE DEF Rec
  <2>. QED BY <1>9, <1>10, Zenon
<1>12. g[{}] = w
    BY <1>11
<1>13. ASSUME NEW s \in SUBSET S, s # {}
       PROVE  ch[s] \in S /\ g[s] = MarkConflicted(g[s \ {ch[s]}], b, c, ch[s])
  <2>1. ch[s] = First(s) /\ First(s) \in S
    BY <1>13
  <2>2. g[s] = MarkConflicted(g[s \ {First(s)}], b, c, First(s))
    <3> HIDE DEF First
    <3>. QED BY <1>11, <1>13
  <2> HIDE DEF ch, First, Rec
  <2>. QED BY <2>1, <2>2
<1> HIDE DEF ch, Rec
<1>14. ASSUME NEW s \in SUBSET S, s # {}, g[s \ {ch[s]}] \in P PROVE g[s] \in P
  <2>1. step[<<g[s \ {ch[s]}], ch[s]>>] = g[s]
    <3> HIDE DEF step
    <3>. QED BY <1>6, <1>13, <1>14, Zenon
  <2>. QED BY <1>6, <1>13, <1>14, <2>1, Zenon
<1>15. ASSUME NEW s \in SUBSET S PROVE g[s] \in P
  <2>1. IsFiniteSet(s) /\ Chooses(ch, s)
    BY <1>4, <1>5, FS_Subset DEF Chooses
  <2>2. \A r \in SUBSET s : r # {} /\ g[r \ {ch[r]}] \in P => g[r] \in P
    BY <1>14
  <2>. QED BY <1>7, <1>12, <2>1, <2>2, FoldStays
<1>16. MarkConflicts(w, b, c, t) = g[S]
    BY <1>1, <1>10
<1>17. MarkRun(g, ch, w, b, c, t, d, Q)
    BY <1>4, <1>5, <1>12, <1>13, <1>15, <1>16 DEF MarkRun, S, P
<1>. QED BY <1>17

\* MarkConflicts, of a transaction of a block on the chain.
LEMMA MarkConflictsTrue ==
    ASSUME NEW w, WalletTrue(w), NEW b \in Blocks, NEW d \in Blocks, b \in ChainOf[d],
           NEW t, NEW c, Told(t, c, d), NEW Q
    PROVE  MarkConflicts(w, b, c, t) \in Reach(w, d, Q)
<1>1. CASE c = Null
  <2>1. w \in Reach(w, d, Q)
    BY FollowsItself DEF Reach, WalletTrue
  <2>. QED BY <1>1, <2>1 DEF MarkConflicts
<1>2. CASE c # Null
  <2>1. PICK g, ch : MarkRun(g, ch, w, b, c, t, d, Q)
    BY <1>2, MarkConflictsRun, Zenon
  <2>2. Rivals(w, t) \in SUBSET Rivals(w, t)
    OBVIOUS
  <2>. QED BY <2>1, <2>2 DEF MarkRun
<1>. QED BY <1>1, <1>2

-----------------------------------------------------------------------------
(* The handlers of a transaction.                                          *)

\* What a transaction spends are outputs of transactions.
LEMMA PrevsFacts ==
    ASSUME NEW t \in Txs
    PROVE  /\ Prevs[t] \subseteq Txs
           /\ \A o \in Inputs[t] : o[1] \in Prevs[t] /\ o \in OutpointsOf(o[1])
           /\ \A p \in Prevs[t] : \E o \in Inputs[t] : o[1] = p
<1>1. Inputs[t] \in SUBSET Outpoints /\ \A o \in Inputs[t] : o \in OutpointsOf(o[1])
    BY WalletAssumption
<1>2. \A o \in Outpoints : o[1] \in Txs
    BY DEF Outpoints
<1>. QED BY <1>1, <1>2 DEF Prevs

\* A transaction that involves the wallet pays it or spends a coin of it.
LEMMA InvolvedConcerned ==
    ASSUME NEW w, WalletTrue(w), NEW t, Involved(w, t)
    PROVE  Concerned(t)
<1>1. ASSUME t \in DOMAIN w.map PROVE Concerned(t)
    BY <1>1, WalletParts DEF EntryTrue
<1>. QED BY <1>1 DEF Involved, IsFromMe, Concerned

\* AddToWalletIfInvolvingMe.
LEMMA IfInvolvingTrue ==
    ASSUME NEW w, WalletTrue(w), NEW b \in Blocks, NEW d \in Blocks, b \in ChainOf[d],
           NEW t, NEW c, Told(t, c, d), NEW Q
    PROVE  /\ WalletTrue(AddToWalletIfInvolvingMe(w, b, t, c))
           /\ Follows(w, AddToWalletIfInvolvingMe(w, b, t, c), d, Q)
           /\ Involved(w, t) => Recorded(AddToWalletIfInvolvingMe(w, b, t, c), t, c)
<1> DEFINE v == MarkConflicts(w, b, c, t)
<1>1. WalletTrue(v) /\ Follows(w, v, d, Q)
    BY MarkConflictsTrue DEF Reach
<1>2. CASE Involved(w, t)
  <2> DEFINE x == AddToWallet(v, t, WalletTx(c))
  <2>1. Concerned(t)
    BY <1>2, InvolvedConcerned
  <2>2. AddToWalletIfInvolvingMe(w, b, t, c) = x
    BY <1>2 DEF AddToWalletIfInvolvingMe
  <2> HIDE DEF v
  <2>3. WalletTrue(x) /\ Follows(v, x, d, Q) /\ Recorded(x, t, c)
    BY <1>1, <2>1, AddToWalletTrue
  <2> HIDE DEF x
  <2>. QED BY <1>1, <2>2, <2>3, FollowsTwice
<1>3. CASE ~Involved(w, t)
  <2>1. AddToWalletIfInvolvingMe(w, b, t, c) = v
    BY <1>3 DEF AddToWalletIfInvolvingMe
  <2>. QED BY <1>1, <1>3, <2>1
<1>. QED BY <1>2, <1>3

\* AbandonTransaction, which changes nothing of the chain, and nothing of Q if Q has
\* neither the transaction nor what spends it.
LEMMA AbandonTrue ==
    ASSUME NEW w, WalletTrue(w), NEW b \in Blocks, NEW q, NEW t \in DOMAIN w.map, NEW Q,
           CanAbandon(w, b, q, t) => t \notin Q /\ \A u \in SpendersOf(w, t) : u \notin Q
    PROVE  /\ WalletTrue(AbandonTransaction(w, b, q, t))
           /\ Follows(w, AbandonTransaction(w, b, q, t), b, Q)
<1> DEFINE Free(u) == GetDepthInMainChain(w, b, u) = 0 /\ w.map[u].hashBlock # Abandoned
           walked == {t} \cup IF Free(t) THEN SpendersOf(w, t) ELSE {}
           S == {u \in walked : Free(u)}
           e == [hashBlock |-> Abandoned, inBlock |-> FALSE]
<1>1. CASE ~CanAbandon(w, b, q, t)
  <2>1. AbandonTransaction(w, b, q, t) = w
    BY <1>1 DEF AbandonTransaction
  <2>. QED BY <2>1, FollowsItself
<1>2. CASE CanAbandon(w, b, q, t)
  <2>1. AbandonTransaction(w, b, q, t) = SetEntries(w, S, e)
    BY <1>2 DEF AbandonTransaction
  <2>2. walked \subseteq DOMAIN w.map /\ walked \cap Q = {}
    <3> HIDE DEF Free
    <3>. QED BY <1>2, SpendersKnown
  <2>3. \A u \in DOMAIN w.map : EntryTrue(u, w.map[u]) /\ w.map[u].inBlock \in BOOLEAN
    BY WalletParts DEF EntryTrue, Entries
  <2>4. S \in SUBSET DOMAIN w.map /\ S \cap Q = {}
    <3> HIDE DEF Free, walked
    <3>. QED BY <2>2
  <2>5. ASSUME NEW u \in S PROVE w.map[u].hashBlock \notin ChainOf[b]
    <3>1. w.map[u].inBlock \in BOOLEAN /\ Free(u)
        BY <2>3, <2>4
    <3>. QED BY <3>1, DepthSign
  <2> HIDE DEF S
  <2>6. \A u \in S : EntryTrue(u, e)
    <3>1. \A u \in S : Concerned(u)
        BY <2>3, <2>4 DEF EntryTrue
    <3>. QED BY <3>1, ChainAssumption DEF EntryTrue, Entries
  <2>7. ASSUME NEW c \in ChainOf[b], NEW u \in ToSet(Vtx[c]) \cap S PROVE w.map[u] # WalletTx(c)
    BY <2>5 DEF WalletTx
  <2> HIDE DEF e
  <2>. QED BY <2>1, <2>4, <2>6, <2>7, SetEntriesTrue
<1>. QED BY <1>1, <1>2

\* Forgetting the spends of a stake's inputs.
LEMMA ForgetTrue ==
    ASSUME NEW w, WalletTrue(w), NEW t \in Stakes, NEW d, NEW Q
    PROVE  /\ WalletTrue([w EXCEPT !.spends = {s \in @ : s[1] \notin Inputs[t]}])
           /\ Follows(w, [w EXCEPT !.spends = {s \in @ : s[1] \notin Inputs[t]}], d, Q)
<1> DEFINE sp == {s \in w.spends : s[1] \notin Inputs[t]}
           x == [map |-> w.map, spends |-> sp, cache |-> w.cache]
<1>1. /\ w = [map |-> w.map, spends |-> w.spends, cache |-> w.cache]
      /\ MapTrue(w.map) /\ SpendsOf(w.map, w.spends)
    BY WalletParts
<1>2. SpendsOf(w.map, sp)
  <2>1. \A o \in Inputs[t] : o \in StakeInputs
    BY DEF StakeInputs
  <2>2. \A u \in DOMAIN w.map : \A o \in Inputs[u] \ StakeInputs : <<o, u>> \in sp
    BY <1>1, <2>1 DEF SpendsOf
  <2>3. sp \subseteq w.spends
    OBVIOUS
  <2> HIDE DEF sp
  <2>. QED BY <1>1, <2>2, <2>3 DEF SpendsOf
<1> HIDE DEF sp
<1>3. [w EXCEPT !.spends = sp] = x
    BY <1>1
<1>4. WalletTrue(x) /\ x.map = w.map /\ x.cache = w.cache
  <2>1. x = [map |-> w.map, spends |-> sp, cache |-> w.cache]
    OBVIOUS
  <2> HIDE DEF x
  <2>. QED BY <1>1, <1>2, <2>1, MapChanged
<1> HIDE DEF x
<1>5. Follows(w, x, d, Q)
    BY <1>4 DEF Follows
<1>. QED BY <1>3, <1>4, <1>5 DEF sp

\* SyncTransaction.  When a block is disconnected, nothing in Q spends a stake of it.
LEMMA SyncTrue ==
    ASSUME NEW w, WalletTrue(w), NEW b \in Blocks, NEW d \in Blocks, b \in ChainOf[d],
           NEW t, NEW c, Told(t, c, d), NEW Q, NEW q, NEW f \in BOOLEAN,
           ~f => b = d /\ (t \in Stakes => t \notin Q /\ \A u \in Q : t \notin Prevs[u])
    PROVE  /\ WalletTrue(SyncTransaction(w, b, q, t, c, f))
           /\ Follows(w, SyncTransaction(w, b, q, t, c, f), d, Q)
           /\ f /\ Involved(w, t) => /\ Recorded(SyncTransaction(w, b, q, t, c, f), t, c)
                                     /\ \A p \in Prevs[t] : SyncTransaction(w, b, q, t, c, f).cache[p] = NotCached
<1> DEFINE v == AddToWalletIfInvolvingMe(w, b, t, c)
           D == Prevs[t] \cap DOMAIN v.map
           y == MarkDirty(v, D)
           x == IF Involved(w, t) THEN y ELSE v
<1>0. t \in Txs
    BY DEF Told
<1>1. WalletTrue(v) /\ Follows(w, v, d, Q) /\ (Involved(w, t) => Recorded(v, t, c))
    BY IfInvolvingTrue
<1>2. SyncTransaction(w, b, q, t, c, f) =
        IF ~f /\ t \in Stakes /\ IsFromMe(w, t)
        THEN [AbandonTransaction(x, b, q, t) EXCEPT !.spends = {s \in @ : s[1] \notin Inputs[t]}]
        ELSE x
    BY DEF SyncTransaction
<1> HIDE DEF v
<1>3. /\ WalletTrue(y) /\ Follows(v, y, d, Q) /\ y.map = v.map
      /\ \A p \in Txs : y.cache[p] = IF p \in D THEN NotCached ELSE v.cache[p]
    BY <1>1, DirtyTrue, DirtyFields DEF WalletTrue
<1>4. \A p \in Prevs[t] : y.cache[p] = NotCached
  <2>1. \A p \in Txs : v.cache[p] = NotCached \/ p \in DOMAIN v.map
    BY <1>1 DEF WalletTrue, CachesTrue
  <2> HIDE DEF y
  <2>. QED BY <1>0, <1>3, <2>1, PrevsFacts
<1> HIDE DEF y, D
<1>5. /\ WalletTrue(x) /\ Follows(w, x, d, Q)
      /\ Involved(w, t) => Recorded(x, t, c) /\ \A p \in Prevs[t] : x.cache[p] = NotCached
  <2>1. Follows(w, y, d, Q)
    BY <1>1, <1>3, FollowsTwice
  <2>. QED BY <1>1, <1>3, <1>4, <2>1 DEF Recorded
<1> HIDE DEF x
<1>6. CASE ~(~f /\ t \in Stakes /\ IsFromMe(w, t))
    BY <1>2, <1>5, <1>6
<1>7. CASE ~f /\ t \in Stakes /\ IsFromMe(w, t)
  <2> DEFINE a == AbandonTransaction(x, b, q, t)
             z == [a EXCEPT !.spends = {s \in @ : s[1] \notin Inputs[t]}]
  <2>1. t \in DOMAIN x.map
    BY <1>5, <1>7 DEF Involved, Recorded
  <2>2. b = d /\ t \notin Q /\ \A u \in SpendersOf(x, t) : u \notin Q
    BY <1>5, <1>7, SpendersKnown
  <2>3. WalletTrue(a) /\ Follows(x, a, d, Q)
    BY <1>5, <2>1, <2>2, AbandonTrue
  <2> HIDE DEF a
  <2>4. WalletTrue(z) /\ Follows(a, z, d, Q)
    BY <1>7, <2>3, ForgetTrue
  <2>5. SyncTransaction(w, b, q, t, c, f) = z
    BY <1>2, <1>7 DEF a
  <2> HIDE DEF z
  <2>6. Follows(w, z, d, Q)
    BY <1>5, <2>3, <2>4, FollowsTwice
  <2>. QED BY <1>7, <2>4, <2>5, <2>6
<1>. QED BY <1>6, <1>7

-----------------------------------------------------------------------------
(* Sequences of transactions and blocks.                                   *)

\* Counting up to n.
LEMMA CountUp ==
    ASSUME NEW n \in Nat, NEW K, 0 \in K, \A k \in 1..n : k - 1 \in K => k \in K
    PROVE  \A k \in 0..n : k \in K
<1> SUFFICES ASSUME NEW k0 \in 0..n, k0 \notin K PROVE FALSE
    OBVIOUS
<1> DEFINE N == {k \in 0..n : k \notin K}
<1>1. N \in SUBSET Nat /\ N # {}
    OBVIOUS
<1>2. PICK k \in N : \A m \in N : k <= m
    BY <1>1, LeastNat
<1>3. k # 0 /\ k \in 1..n /\ k - 1 \in 0..n /\ ~(k <= k - 1)
    BY <1>2
<1>. QED BY <1>2, <1>3

\* The greatest of the first numbers.
LEMMA MaxUpTo ==
    ASSUME NEW n \in Nat, NEW k \in 1..n
    PROVE  /\ 1..k \in SUBSET (1..n) /\ 1..k # {} /\ (1..k) \ {k} = 1..(k - 1) /\ Max(1..k) = k
           /\ k \in 0..n /\ k - 1 \in 0..n
<1>1. /\ k \in 1..k /\ 1..k \in SUBSET Nat /\ k \in Nat /\ 1..k \in SUBSET (1..n) /\ 1..k # {}
      /\ k \in 0..n /\ k - 1 \in 0..n /\ (1..k) \ {k} = 1..(k - 1)
    OBVIOUS
<1>2. IsFiniteSet(1..k)
    BY <1>1, FS_Interval
<1>3. Max(1..k) \in 1..k /\ \A y \in 1..k : Max(1..k) >= y
    BY <1>1, <1>2, MaxIn
<1>4. Max(1..k) = k
    BY <1>1, <1>3
<1>. QED BY <1>1, <1>4

\* FoldLeft takes the greatest position last.
LEMMA ChoosesMax ==
    ASSUME NEW n \in Nat
    PROVE  Chooses([s \in SUBSET (1..n) |-> Max(s)], 1..n)
<1>1. IsFiniteSet(1..n) /\ 1..n \in SUBSET Nat
    BY FS_Interval
<1>2. ASSUME NEW s \in SUBSET (1..n), s # {} PROVE Max(s) \in s
  <2>1. IsFiniteSet(s) /\ s \in SUBSET Nat
    BY <1>1, FS_Subset
  <2>. QED BY <1>2, <2>1, MaxIn
<1>. QED BY <1>2 DEF Chooses

\* The wallets whose records are true.
TrueWallets == {v \in Wallets : WalletTrue(v)}

\* Every step keeps a true wallet true.
SyncKeeps(b, q, txs, c, fConnect) ==
    \A v \in TrueWallets : \A k \in DOMAIN txs : SyncTransaction(v, b, q, txs[k], c, fConnect) \in TrueWallets

\* g holds the wallets after each of the steps.
SyncRun(g, w, b, q, txs, c, fConnect) ==
    /\ g \in [0..Len(txs) -> TrueWallets]
    /\ g[0] = w
    /\ SyncAll(w, b, q, txs, c, fConnect) = g[Len(txs)]
    /\ \A k \in 1..Len(txs) : g[k] = SyncTransaction(g[k - 1], b, q, txs[k], c, fConnect)

\* SyncAll, position by position.
LEMMA SyncFold ==
    ASSUME NEW w \in TrueWallets, NEW b, NEW q, NEW c, NEW fConnect, NEW txs \in Seq(Txs), SyncKeeps(b, q, txs, c, fConnect)
    PROVE  \E g : SyncRun(g, w, b, q, txs, c, fConnect)
<1> DEFINE S == DOMAIN txs
           n == Len(txs)
           P == TrueWallets
           Rec(f) == f = [s \in SUBSET S |-> IF s = {} THEN w ELSE SyncTransaction(f[s \ {Max(s)}], b, q, txs[Max(s)], c, fConnect)]
           ch == [s \in SUBSET S |-> Max(s)]
           step == [z \in P \X S |-> SyncTransaction(z[1], b, q, txs[z[2]], c, fConnect)]
<1>1. S = 1..n /\ n \in Nat /\ IsFiniteSet(S)
  <2>1. txs \in Seq(Txs)
    OBVIOUS
  <2>2. Len(txs) \in Nat /\ S = 1..Len(txs)
    BY <2>1
  <2>. QED BY <2>2, FS_Interval
<1>2. SyncAll(w, b, q, txs, c, fConnect) = (CHOOSE f : Rec(f))[S]
    BY Zenon DEF SyncAll, FoldLeft, MapThenFoldSet
<1>3. \A v \in P : \A k \in S : step[<<v, k>>] = SyncTransaction(v, b, q, txs[k], c, fConnect) /\ step[<<v, k>>] \in P
    BY DEF SyncKeeps
<1>4. w \in P
    OBVIOUS
<1> HIDE DEF S, P, n
<1>5. Chooses(ch, S)
    BY <1>1, ChoosesMax
<1>6. step \in [P \X S -> P]
  <2>1. \A z \in P \X S : z[1] \in P /\ z[2] \in S /\ step[z] = step[<<z[1], z[2]>>]
    OBVIOUS
  <2>2. \A z \in P \X S : step[z] \in P
    <3> HIDE DEF step
    <3>. QED BY <1>3, <2>1
  <2>. QED BY <2>2
<1>7. PICK f0 : Folds(f0, S, P, w, step, ch)
  <2> HIDE DEF step, ch
  <2>. QED BY <1>1, <1>4, <1>5, <1>6, FoldExists
<1>8. f0 \in [SUBSET S -> P] /\ f0[{}] = w
    BY <1>7 DEF Folds
<1>9. ASSUME NEW s \in SUBSET S, s # {} PROVE f0[s] = SyncTransaction(f0[s \ {Max(s)}], b, q, txs[Max(s)], c, fConnect)
  <2>1. ch[s] = Max(s) /\ Max(s) \in s
    BY <1>5, <1>9 DEF Chooses
  <2>2. f0[s] = step[<<f0[s \ {Max(s)}], Max(s)>>]
    BY <1>7, <1>9, <2>1 DEF Folds
  <2>3. f0[s \ {Max(s)}] \in P /\ Max(s) \in S
    BY <1>8, <2>1
  <2> HIDE DEF step, ch
  <2>. QED BY <1>3, <2>2, <2>3
<1>10. Rec(f0)
  <2>1. f0 = [s \in SUBSET S |-> f0[s]]
    BY <1>8
  <2>. QED BY <1>8, <1>9, <2>1
<1>11. PICK h : h = CHOOSE f : Rec(f)
    OBVIOUS
<1>12. Rec(h) /\ SyncAll(w, b, q, txs, c, fConnect) = h[S]
  <2> HIDE DEF Rec
  <2>. QED BY <1>2, <1>10, <1>11, Zenon
<1>13. h[{}] = w /\ \A s \in SUBSET S : s # {} => h[s] = SyncTransaction(h[s \ {Max(s)}], b, q, txs[Max(s)], c, fConnect)
    BY <1>12
<1> DEFINE g == [k \in 0..n |-> h[1..k]]
<1> HIDE DEF Rec, step, ch
<1>14. g[0] = w /\ g[n] = h[S]
    BY <1>1, <1>13
<1>15. ASSUME NEW k \in 1..n PROVE g[k] = SyncTransaction(g[k - 1], b, q, txs[k], c, fConnect)
  <2>1. /\ 1..k \in SUBSET S /\ 1..k # {} /\ (1..k) \ {k} = 1..(k - 1) /\ Max(1..k) = k
        /\ k \in 0..n /\ k - 1 \in 0..n
    BY <1>1, MaxUpTo
  <2>2. g[k] = h[1..k] /\ g[k - 1] = h[1..(k - 1)]
    BY <2>1
  <2> HIDE DEF g
  <2>. QED BY <1>13, <2>1, <2>2
<1>16. \A k \in 0..n : g[k] \in P
  <2> DEFINE K == {k \in 0..n : g[k] \in P}
  <2>1. 0 \in K
    BY <1>1, <1>4, <1>14
  <2>2. ASSUME NEW k \in 1..n, k - 1 \in K PROVE k \in K
    <3>1. k \in 0..n /\ k \in S /\ g[k - 1] \in P
        BY <1>1, <2>2
    <3> HIDE DEF g, K
    <3>2. g[k] \in P
        BY <1>3, <1>15, <3>1
    <3>. QED BY <3>1, <3>2 DEF K
  <2> HIDE DEF K
  <2>3. \A k \in 0..n : k \in K
    BY <1>1, <2>1, <2>2, CountUp
  <2>. QED BY <2>3 DEF K
<1>17. g \in [0..n -> P]
    BY <1>16
<1> HIDE DEF g
<1>. QED BY <1>12, <1>14, <1>15, <1>17 DEF n, P, SyncRun

\* Every step keeps a true wallet true.
ScanBlockKeeps(b, c) ==
    \A v \in TrueWallets : \A k \in DOMAIN Vtx[c] : AddToWalletIfInvolvingMe(v, b, Vtx[c][k], c) \in TrueWallets

\* g holds the wallets after each of the steps.
ScanBlockRun(g, w, b, c) ==
    /\ g \in [0..Len(Vtx[c]) -> TrueWallets]
    /\ g[0] = w
    /\ ScanBlock(w, b, c) = g[Len(Vtx[c])]
    /\ \A k \in 1..Len(Vtx[c]) : g[k] = AddToWalletIfInvolvingMe(g[k - 1], b, Vtx[c][k], c)

\* ScanBlock, position by position.
LEMMA ScanBlockFold ==
    ASSUME NEW w \in TrueWallets, NEW b, NEW c \in Blocks, ScanBlockKeeps(b, c)
    PROVE  \E g : ScanBlockRun(g, w, b, c)
<1> DEFINE S == DOMAIN Vtx[c]
           n == Len(Vtx[c])
           P == TrueWallets
           Rec(f) == f = [s \in SUBSET S |-> IF s = {} THEN w ELSE AddToWalletIfInvolvingMe(f[s \ {Max(s)}], b, Vtx[c][Max(s)], c)]
           ch == [s \in SUBSET S |-> Max(s)]
           step == [z \in P \X S |-> AddToWalletIfInvolvingMe(z[1], b, Vtx[c][z[2]], c)]
<1>1. S = 1..n /\ n \in Nat /\ IsFiniteSet(S)
  <2>1. Vtx[c] \in Seq(Txs)
    BY ChainAssumption
  <2>2. Len(Vtx[c]) \in Nat /\ S = 1..Len(Vtx[c])
    BY <2>1
  <2>. QED BY <2>2, FS_Interval
<1>2. ScanBlock(w, b, c) = (CHOOSE f : Rec(f))[S]
    BY Zenon DEF ScanBlock, FoldLeft, MapThenFoldSet
<1>3. \A v \in P : \A k \in S : step[<<v, k>>] = AddToWalletIfInvolvingMe(v, b, Vtx[c][k], c) /\ step[<<v, k>>] \in P
    BY DEF ScanBlockKeeps
<1>4. w \in P
    OBVIOUS
<1> HIDE DEF S, P, n
<1>5. Chooses(ch, S)
    BY <1>1, ChoosesMax
<1>6. step \in [P \X S -> P]
  <2>1. \A z \in P \X S : z[1] \in P /\ z[2] \in S /\ step[z] = step[<<z[1], z[2]>>]
    OBVIOUS
  <2>2. \A z \in P \X S : step[z] \in P
    <3> HIDE DEF step
    <3>. QED BY <1>3, <2>1
  <2>. QED BY <2>2
<1>7. PICK f0 : Folds(f0, S, P, w, step, ch)
  <2> HIDE DEF step, ch
  <2>. QED BY <1>1, <1>4, <1>5, <1>6, FoldExists
<1>8. f0 \in [SUBSET S -> P] /\ f0[{}] = w
    BY <1>7 DEF Folds
<1>9. ASSUME NEW s \in SUBSET S, s # {} PROVE f0[s] = AddToWalletIfInvolvingMe(f0[s \ {Max(s)}], b, Vtx[c][Max(s)], c)
  <2>1. ch[s] = Max(s) /\ Max(s) \in s
    BY <1>5, <1>9 DEF Chooses
  <2>2. f0[s] = step[<<f0[s \ {Max(s)}], Max(s)>>]
    BY <1>7, <1>9, <2>1 DEF Folds
  <2>3. f0[s \ {Max(s)}] \in P /\ Max(s) \in S
    BY <1>8, <2>1
  <2> HIDE DEF step, ch
  <2>. QED BY <1>3, <2>2, <2>3
<1>10. Rec(f0)
  <2>1. f0 = [s \in SUBSET S |-> f0[s]]
    BY <1>8
  <2>. QED BY <1>8, <1>9, <2>1
<1>11. PICK h : h = CHOOSE f : Rec(f)
    OBVIOUS
<1>12. Rec(h) /\ ScanBlock(w, b, c) = h[S]
  <2> HIDE DEF Rec
  <2>. QED BY <1>2, <1>10, <1>11, Zenon
<1>13. h[{}] = w /\ \A s \in SUBSET S : s # {} => h[s] = AddToWalletIfInvolvingMe(h[s \ {Max(s)}], b, Vtx[c][Max(s)], c)
    BY <1>12
<1> DEFINE g == [k \in 0..n |-> h[1..k]]
<1> HIDE DEF Rec, step, ch
<1>14. g[0] = w /\ g[n] = h[S]
    BY <1>1, <1>13
<1>15. ASSUME NEW k \in 1..n PROVE g[k] = AddToWalletIfInvolvingMe(g[k - 1], b, Vtx[c][k], c)
  <2>1. /\ 1..k \in SUBSET S /\ 1..k # {} /\ (1..k) \ {k} = 1..(k - 1) /\ Max(1..k) = k
        /\ k \in 0..n /\ k - 1 \in 0..n
    BY <1>1, MaxUpTo
  <2>2. g[k] = h[1..k] /\ g[k - 1] = h[1..(k - 1)]
    BY <2>1
  <2> HIDE DEF g
  <2>. QED BY <1>13, <2>1, <2>2
<1>16. \A k \in 0..n : g[k] \in P
  <2> DEFINE K == {k \in 0..n : g[k] \in P}
  <2>1. 0 \in K
    BY <1>1, <1>4, <1>14
  <2>2. ASSUME NEW k \in 1..n, k - 1 \in K PROVE k \in K
    <3>1. k \in 0..n /\ k \in S /\ g[k - 1] \in P
        BY <1>1, <2>2
    <3> HIDE DEF g, K
    <3>2. g[k] \in P
        BY <1>3, <1>15, <3>1
    <3>. QED BY <3>1, <3>2 DEF K
  <2> HIDE DEF K
  <2>3. \A k \in 0..n : k \in K
    BY <1>1, <2>1, <2>2, CountUp
  <2>. QED BY <2>3 DEF K
<1>17. g \in [0..n -> P]
    BY <1>16
<1> HIDE DEF g
<1>. QED BY <1>12, <1>14, <1>15, <1>17 DEF n, P, ScanBlockRun

\* Every step keeps a true wallet true.
ScanKeeps(b, blocks) ==
    \A v \in TrueWallets : \A k \in DOMAIN blocks : ScanBlock(v, b, blocks[k]) \in TrueWallets

\* g holds the wallets after each of the steps.
ScanRun(g, w, b, blocks) ==
    /\ g \in [0..Len(blocks) -> TrueWallets]
    /\ g[0] = w
    /\ ScanForWalletTransactions(w, b, blocks) = g[Len(blocks)]
    /\ \A k \in 1..Len(blocks) : g[k] = ScanBlock(g[k - 1], b, blocks[k])

\* ScanForWalletTransactions, block by block.
LEMMA ScanFold ==
    ASSUME NEW w \in TrueWallets, NEW b, NEW blocks \in Seq(Blocks), ScanKeeps(b, blocks)
    PROVE  \E g : ScanRun(g, w, b, blocks)
<1> DEFINE S == DOMAIN blocks
           n == Len(blocks)
           P == TrueWallets
           Rec(f) == f = [s \in SUBSET S |-> IF s = {} THEN w ELSE ScanBlock(f[s \ {Max(s)}], b, blocks[Max(s)])]
           ch == [s \in SUBSET S |-> Max(s)]
           step == [z \in P \X S |-> ScanBlock(z[1], b, blocks[z[2]])]
<1>1. S = 1..n /\ n \in Nat /\ IsFiniteSet(S)
  <2>1. blocks \in Seq(Blocks)
    OBVIOUS
  <2>2. Len(blocks) \in Nat /\ S = 1..Len(blocks)
    BY <2>1
  <2>. QED BY <2>2, FS_Interval
<1>2. ScanForWalletTransactions(w, b, blocks) = (CHOOSE f : Rec(f))[S]
    BY Zenon DEF ScanForWalletTransactions, FoldLeft, MapThenFoldSet
<1>3. \A v \in P : \A k \in S : step[<<v, k>>] = ScanBlock(v, b, blocks[k]) /\ step[<<v, k>>] \in P
    BY DEF ScanKeeps
<1>4. w \in P
    OBVIOUS
<1> HIDE DEF S, P, n
<1>5. Chooses(ch, S)
    BY <1>1, ChoosesMax
<1>6. step \in [P \X S -> P]
  <2>1. \A z \in P \X S : z[1] \in P /\ z[2] \in S /\ step[z] = step[<<z[1], z[2]>>]
    OBVIOUS
  <2>2. \A z \in P \X S : step[z] \in P
    <3> HIDE DEF step
    <3>. QED BY <1>3, <2>1
  <2>. QED BY <2>2
<1>7. PICK f0 : Folds(f0, S, P, w, step, ch)
  <2> HIDE DEF step, ch
  <2>. QED BY <1>1, <1>4, <1>5, <1>6, FoldExists
<1>8. f0 \in [SUBSET S -> P] /\ f0[{}] = w
    BY <1>7 DEF Folds
<1>9. ASSUME NEW s \in SUBSET S, s # {} PROVE f0[s] = ScanBlock(f0[s \ {Max(s)}], b, blocks[Max(s)])
  <2>1. ch[s] = Max(s) /\ Max(s) \in s
    BY <1>5, <1>9 DEF Chooses
  <2>2. f0[s] = step[<<f0[s \ {Max(s)}], Max(s)>>]
    BY <1>7, <1>9, <2>1 DEF Folds
  <2>3. f0[s \ {Max(s)}] \in P /\ Max(s) \in S
    BY <1>8, <2>1
  <2> HIDE DEF step, ch
  <2>. QED BY <1>3, <2>2, <2>3
<1>10. Rec(f0)
  <2>1. f0 = [s \in SUBSET S |-> f0[s]]
    BY <1>8
  <2>. QED BY <1>8, <1>9, <2>1
<1>11. PICK h : h = CHOOSE f : Rec(f)
    OBVIOUS
<1>12. Rec(h) /\ ScanForWalletTransactions(w, b, blocks) = h[S]
  <2> HIDE DEF Rec
  <2>. QED BY <1>2, <1>10, <1>11, Zenon
<1>13. h[{}] = w /\ \A s \in SUBSET S : s # {} => h[s] = ScanBlock(h[s \ {Max(s)}], b, blocks[Max(s)])
    BY <1>12
<1> DEFINE g == [k \in 0..n |-> h[1..k]]
<1> HIDE DEF Rec, step, ch
<1>14. g[0] = w /\ g[n] = h[S]
    BY <1>1, <1>13
<1>15. ASSUME NEW k \in 1..n PROVE g[k] = ScanBlock(g[k - 1], b, blocks[k])
  <2>1. /\ 1..k \in SUBSET S /\ 1..k # {} /\ (1..k) \ {k} = 1..(k - 1) /\ Max(1..k) = k
        /\ k \in 0..n /\ k - 1 \in 0..n
    BY <1>1, MaxUpTo
  <2>2. g[k] = h[1..k] /\ g[k - 1] = h[1..(k - 1)]
    BY <2>1
  <2> HIDE DEF g
  <2>. QED BY <1>13, <2>1, <2>2
<1>16. \A k \in 0..n : g[k] \in P
  <2> DEFINE K == {k \in 0..n : g[k] \in P}
  <2>1. 0 \in K
    BY <1>1, <1>4, <1>14
  <2>2. ASSUME NEW k \in 1..n, k - 1 \in K PROVE k \in K
    <3>1. k \in 0..n /\ k \in S /\ g[k - 1] \in P
        BY <1>1, <2>2
    <3> HIDE DEF g, K
    <3>2. g[k] \in P
        BY <1>3, <1>15, <3>1
    <3>. QED BY <3>1, <3>2 DEF K
  <2> HIDE DEF K
  <2>3. \A k \in 0..n : k \in K
    BY <1>1, <2>1, <2>2, CountUp
  <2>. QED BY <2>3 DEF K
<1>17. g \in [0..n -> P]
    BY <1>16
<1> HIDE DEF g
<1>. QED BY <1>12, <1>14, <1>15, <1>17 DEF n, P, ScanRun

\* What LoadWallet does at a transaction of the order.
LoadStep(w, b, m, t) == IF t \in DOMAIN m THEN LoadTx(w, b, t, m[t]) ELSE w

\* Every step keeps a true wallet true.
LoadKeeps(m, b) ==
    \A v \in TrueWallets : \A k \in DOMAIN TxOrder : LoadStep(v, b, m, TxOrder[k]) \in TrueWallets

\* g holds the wallets after each of the steps.
LoadRun(g, m, b) ==
    /\ g \in [0..Len(TxOrder) -> TrueWallets]
    /\ g[0] = EmptyWallet
    /\ LoadWallet(m, b) = g[Len(TxOrder)]
    /\ \A k \in 1..Len(TxOrder) : g[k] = LoadStep(g[k - 1], b, m, TxOrder[k])

\* LoadWallet, record by record.
LEMMA LoadFold ==
    ASSUME NEW m, NEW b, EmptyWallet \in TrueWallets, LoadKeeps(m, b)
    PROVE  \E g : LoadRun(g, m, b)
<1> DEFINE S == DOMAIN TxOrder
           n == Len(TxOrder)
           P == TrueWallets
           Rec(f) == f = [s \in SUBSET S |-> IF s = {} THEN EmptyWallet ELSE LoadStep(f[s \ {Max(s)}], b, m, TxOrder[Max(s)])]
           ch == [s \in SUBSET S |-> Max(s)]
           step == [z \in P \X S |-> LoadStep(z[1], b, m, TxOrder[z[2]])]
<1>1. S = 1..n /\ n \in Nat /\ IsFiniteSet(S)
  <2>1. TxOrder \in Seq(Txs)
    BY WalletAssumption
  <2>2. Len(TxOrder) \in Nat /\ S = 1..Len(TxOrder)
    BY <2>1
  <2>. QED BY <2>2, FS_Interval
<1>2. LoadWallet(m, b) = (CHOOSE f : Rec(f))[S]
    BY Zenon DEF LoadWallet, LoadStep, FoldLeft, MapThenFoldSet
<1>3. \A v \in P : \A k \in S : step[<<v, k>>] = LoadStep(v, b, m, TxOrder[k]) /\ step[<<v, k>>] \in P
    BY DEF LoadKeeps
<1>4. EmptyWallet \in P
    OBVIOUS
<1> HIDE DEF S, P, n
<1>5. Chooses(ch, S)
    BY <1>1, ChoosesMax
<1>6. step \in [P \X S -> P]
  <2>1. \A z \in P \X S : z[1] \in P /\ z[2] \in S /\ step[z] = step[<<z[1], z[2]>>]
    OBVIOUS
  <2>2. \A z \in P \X S : step[z] \in P
    <3> HIDE DEF step
    <3>. QED BY <1>3, <2>1
  <2>. QED BY <2>2
<1>7. PICK f0 : Folds(f0, S, P, EmptyWallet, step, ch)
  <2> HIDE DEF step, ch
  <2>. QED BY <1>1, <1>4, <1>5, <1>6, FoldExists
<1>8. f0 \in [SUBSET S -> P] /\ f0[{}] = EmptyWallet
    BY <1>7 DEF Folds
<1>9. ASSUME NEW s \in SUBSET S, s # {} PROVE f0[s] = LoadStep(f0[s \ {Max(s)}], b, m, TxOrder[Max(s)])
  <2>1. ch[s] = Max(s) /\ Max(s) \in s
    BY <1>5, <1>9 DEF Chooses
  <2>2. f0[s] = step[<<f0[s \ {Max(s)}], Max(s)>>]
    BY <1>7, <1>9, <2>1 DEF Folds
  <2>3. f0[s \ {Max(s)}] \in P /\ Max(s) \in S
    BY <1>8, <2>1
  <2> HIDE DEF step, ch
  <2>. QED BY <1>3, <2>2, <2>3
<1>10. Rec(f0)
  <2>1. f0 = [s \in SUBSET S |-> f0[s]]
    BY <1>8
  <2>. QED BY <1>8, <1>9, <2>1
<1>11. PICK h : h = CHOOSE f : Rec(f)
    OBVIOUS
<1>12. Rec(h) /\ LoadWallet(m, b) = h[S]
  <2> HIDE DEF Rec
  <2>. QED BY <1>2, <1>10, <1>11, Zenon
<1>13. h[{}] = EmptyWallet /\ \A s \in SUBSET S : s # {} => h[s] = LoadStep(h[s \ {Max(s)}], b, m, TxOrder[Max(s)])
    BY <1>12
<1> DEFINE g == [k \in 0..n |-> h[1..k]]
<1> HIDE DEF Rec, step, ch
<1>14. g[0] = EmptyWallet /\ g[n] = h[S]
    BY <1>1, <1>13
<1>15. ASSUME NEW k \in 1..n PROVE g[k] = LoadStep(g[k - 1], b, m, TxOrder[k])
  <2>1. /\ 1..k \in SUBSET S /\ 1..k # {} /\ (1..k) \ {k} = 1..(k - 1) /\ Max(1..k) = k
        /\ k \in 0..n /\ k - 1 \in 0..n
    BY <1>1, MaxUpTo
  <2>2. g[k] = h[1..k] /\ g[k - 1] = h[1..(k - 1)]
    BY <2>1
  <2> HIDE DEF g
  <2>. QED BY <1>13, <2>1, <2>2
<1>16. \A k \in 0..n : g[k] \in P
  <2> DEFINE K == {k \in 0..n : g[k] \in P}
  <2>1. 0 \in K
    BY <1>1, <1>4, <1>14
  <2>2. ASSUME NEW k \in 1..n, k - 1 \in K PROVE k \in K
    <3>1. k \in 0..n /\ k \in S /\ g[k - 1] \in P
        BY <1>1, <2>2
    <3> HIDE DEF g, K
    <3>2. g[k] \in P
        BY <1>3, <1>15, <3>1
    <3>. QED BY <3>1, <3>2 DEF K
  <2> HIDE DEF K
  <2>3. \A k \in 0..n : k \in K
    BY <1>1, <2>1, <2>2, CountUp
  <2>. QED BY <2>3 DEF K
<1>17. g \in [0..n -> P]
    BY <1>16
<1> HIDE DEF g
<1>. QED BY <1>12, <1>14, <1>15, <1>17 DEF n, P, LoadRun

-----------------------------------------------------------------------------
(* Loading the wallet from disk.                                           *)

\* Whether an entry is that of a conflict with a block.
Conflicting(e) == ~e.inBlock /\ e.hashBlock \in Blocks

\* The record e of t as it is read, before the conflicts of its inputs are looked up.
ReadTx(w, t, e) ==
    AddToSpends([w EXCEPT !.map = [u \in DOMAIN w.map \cup {t} |-> IF u = t THEN e ELSE w.map[u]]], t)

\* A record that is read.
LEMMA ReadTrue ==
    ASSUME NEW w, WalletTrue(w), NEW t \in Txs, NEW e, EntryTrue(t, e)
    PROVE  /\ WalletTrue(ReadTx(w, t, e)) /\ ReadTx(w, t, e).cache = w.cache
           /\ DOMAIN ReadTx(w, t, e).map = DOMAIN w.map \cup {t}
           /\ ReadTx(w, t, e).map[t] = e
           /\ \A u \in DOMAIN w.map : u # t => ReadTx(w, t, e).map[u] = w.map[u]
<1> DEFINE m == [u \in DOMAIN w.map \cup {t} |-> IF u = t THEN e ELSE w.map[u]]
           sp == w.spends \cup {<<o, t>> : o \in Inputs[t]}
           x == [map |-> m, spends |-> sp, cache |-> w.cache]
<1>1. /\ w = [map |-> w.map, spends |-> w.spends, cache |-> w.cache]
      /\ MapTrue(w.map) /\ SpendsOf(w.map, w.spends) /\ DOMAIN w.map \subseteq Txs
      /\ \A u \in DOMAIN w.map : EntryTrue(u, w.map[u])
    BY WalletParts
<1>2. DOMAIN m = DOMAIN w.map \cup {t} /\ m[t] = e /\ \A u \in DOMAIN w.map : u # t => m[u] = w.map[u]
    OBVIOUS
<1>3. MapTrue(m)
  <2>1. \A u \in DOMAIN m : EntryTrue(u, m[u])
    BY <1>1, <1>2
  <2>2. DOMAIN m \subseteq Txs
    BY <1>1, <1>2
  <2>3. m \in [DOMAIN m -> Entries]
    BY <2>1 DEF EntryTrue
  <2> HIDE DEF m
  <2>. QED BY <2>1, <2>2, <2>3, MapEntries
<1>4. ReadTx(w, t, e) = AddToSpends([w EXCEPT !.map = m], t)
    BY DEF ReadTx
<1> HIDE DEF m
<1>5. ReadTx(w, t, e) = x
    BY <1>1, <1>4 DEF AddToSpends
<1>6. SpendsOf(m, sp)
  <2>1. Inputs[t] \in SUBSET Outpoints
    BY WalletAssumption
  <2>2. sp \in SUBSET (Outpoints \X Txs)
    BY <1>1, <2>1 DEF SpendsOf
  <2>3. \A s \in sp : s[2] \in DOMAIN m /\ s[1] \in Inputs[s[2]]
    BY <1>1, <1>2 DEF SpendsOf
  <2>4. \A u \in DOMAIN m : \A o \in Inputs[u] \ StakeInputs : <<o, u>> \in sp
    BY <1>1, <1>2 DEF SpendsOf
  <2> HIDE DEF sp
  <2>. QED BY <2>2, <2>3, <2>4 DEF SpendsOf
<1> HIDE DEF sp
<1>7. WalletTrue(x) /\ x.map = m /\ x.cache = w.cache
  <2>1. x = [map |-> m, spends |-> sp, cache |-> w.cache] /\ DOMAIN w.map \subseteq DOMAIN m
    BY <1>2
  <2> HIDE DEF x
  <2>. QED BY <1>3, <1>6, <2>1, MapChanged
<1> HIDE DEF x
<1>. QED BY <1>2, <1>5, <1>7

\* MarkConflicted sets one entry.
LEMMA MarkConflictedMap ==
    ASSUME NEW w, WalletTrue(w), NEW b, NEW c, NEW t, NEW u \in DOMAIN w.map
    PROVE  \/ MarkConflicted(w, b, c, t).map[u] = w.map[u]
           \/ MarkConflicted(w, b, c, t).map[u] = [hashBlock |-> c, inBlock |-> FALSE]
<1>1. w = [map |-> w.map, spends |-> w.spends, cache |-> w.cache]
    BY WalletParts
<1>2. ASSUME NEW S, NEW e PROVE SetEntries(w, S, e).map[u] \in {w.map[u], e}
  <2> DEFINE m == [x \in DOMAIN w.map |-> IF x \in S THEN e ELSE w.map[x]]
  <2>1. m[u] \in {w.map[u], e}
    OBVIOUS
  <2>2. SetEntries(w, S, e).map = m
    BY <1>1 DEF SetEntries, MarkDirty
  <2>. QED BY <2>1, <2>2
<1> DEFINE confirms == -(Height[b] - Height[c] + 1)
           Changes(y) == confirms < GetDepthInMainChain(w, b, y)
           todo == {y \in DOMAIN w.map :
                    \A S \in SUBSET DOMAIN w.map :
                        (t \in S /\ \A x \in S : Changes(x) => SpendersOf(w, x) \subseteq S)
                        => y \in S}
           S1 == {y \in todo : Changes(y)}
           e1 == [hashBlock |-> c, inBlock |-> FALSE]
<1>3. MarkConflicted(w, b, c, t) = w \/ MarkConflicted(w, b, c, t) = SetEntries(w, S1, e1)
    BY DEF MarkConflicted
<1> HIDE DEF S1
<1>. QED BY <1>2, <1>3

\* LoadTx changes a record that is read only by marking conflicts.
LEMMA LoadTxTrue ==
    ASSUME NEW w, WalletTrue(w), NEW t \in Txs, NEW e, EntryTrue(t, e),
           NEW b \in Blocks, NEW d \in Blocks, b \in ChainOf[d]
    PROVE  LoadTx(w, b, t, e) \in Reach(ReadTx(w, t, e), d, {})
<1> DEFINE r == ReadTx(w, t, e)
           S == {p \in Prevs[t] \cap DOMAIN r.map : ~r.map[p].inBlock /\ r.map[p].hashBlock \in Blocks}
           First(s) == CHOOSE x \in s : TRUE
           Rec(g) == g = [s \in SUBSET S |->
                             IF s = {} THEN r
                             ELSE MarkConflicted(g[s \ {First(s)}], b, g[s \ {First(s)}].map[First(s)].hashBlock, t)]
           ch == [s \in SUBSET S |-> First(s)]
           P == {v \in Reach(r, d, {}) : \A p \in S : Conflicting(v.map[p])}
           step == [z \in P \X S |-> MarkConflicted(z[1], b, z[1].map[z[2]].hashBlock, t)]
<1>1. WalletTrue(r) /\ t \in DOMAIN r.map
    BY ReadTrue
<1>2. LoadTx(w, b, t, e) = (CHOOSE g : Rec(g))[S]
    BY Zenon DEF LoadTx, ReadTx, FoldSet, MapThenFoldSet
<1> HIDE DEF r
<1>3. S \subseteq Prevs[t] \cap DOMAIN r.map /\ \A p \in S : Conflicting(r.map[p])
    BY DEF Conflicting
<1>4. IsFiniteSet(S)
  <2>1. S \subseteq Txs
    BY <1>3, PrevsFacts
  <2> HIDE DEF S
  <2>. QED BY <2>1, WalletAssumption, FS_Subset
<1>5. Chooses(ch, S)
    BY DEF Chooses
<1> HIDE DEF S
<1>6. ASSUME NEW v \in P, NEW u \in S
      PROVE  /\ step[<<v, u>>] = MarkConflicted(v, b, v.map[u].hashBlock, t)
             /\ step[<<v, u>>] \in P
  <2> DEFINE c == v.map[u].hashBlock
             x == MarkConflicted(v, b, c, t)
  <2>1. step[<<v, u>>] = x
    OBVIOUS
  <2>2. WalletTrue(v) /\ Follows(r, v, d, {}) /\ DOMAIN v.map = DOMAIN r.map /\ \A p \in S : Conflicting(v.map[p])
    BY DEF Reach
  <2>3. c \in Blocks /\ InConflict(u, c)
    <3>1. u \in DOMAIN v.map /\ Conflicting(v.map[u])
        BY <1>3, <2>2
    <3>2. EntryTrue(u, v.map[u])
        BY <2>2, <3>1, WalletParts
    <3>. QED BY <3>1, <3>2 DEF EntryTrue, Conflicting
  <2>4. InConflict(t, c)
    BY <1>3, <2>3, ConflictSpreads
  <2> HIDE DEF c
  <2>5. WalletTrue(x) /\ Follows(v, x, d, {}) /\ DOMAIN x.map = DOMAIN v.map
    BY <1>1, <2>2, <2>3, <2>4, MarkConflictedTrue
  <2>10. \A p \in DOMAIN v.map : x.map[p] = v.map[p] \/ x.map[p] = [hashBlock |-> c, inBlock |-> FALSE]
    BY <2>2, MarkConflictedMap
  <2> HIDE DEF x
  <2>6. Conflicting([hashBlock |-> c, inBlock |-> FALSE])
    BY <2>3 DEF Conflicting
  <2>7. \A p \in S : Conflicting(x.map[p])
    BY <1>3, <2>2, <2>6, <2>10
  <2>8. Follows(r, x, d, {})
    BY <2>2, <2>5, FollowsTwice
  <2>9. x \in P
    BY <2>2, <2>5, <2>7, <2>8 DEF Reach, WalletTrue
  <2>. QED BY <2>1, <2>9 DEF x, c
<1>7. r \in P
    BY <1>1, <1>3, FollowsItself DEF Reach, WalletTrue
<1>8. P \subseteq Reach(r, d, {})
    OBVIOUS
<1> HIDE DEF P
<1>9. step \in [P \X S -> P]
  <2>1. \A z \in P \X S : z[1] \in P /\ z[2] \in S /\ step[z] = step[<<z[1], z[2]>>]
    OBVIOUS
  <2>2. \A z \in P \X S : step[z] \in P
    <3> HIDE DEF step
    <3>. QED BY <1>6, <2>1
  <2>. QED BY <2>2
<1>10. \E g : Rec(g)
  <2>1. \E f : Folds(f, S, P, r, step, ch)
    <3> HIDE DEF step, ch
    <3>. QED BY <1>4, <1>5, <1>7, <1>9, FoldExists
  <2>2. PICK f : Folds(f, S, P, r, step, ch)
    BY <2>1
  <2>3. f \in [SUBSET S -> P] /\ f[{}] = r
    BY <2>2 DEF Folds
  <2>4. ASSUME NEW s \in SUBSET S, s # {}
        PROVE  f[s] = MarkConflicted(f[s \ {First(s)}], b, f[s \ {First(s)}].map[First(s)].hashBlock, t)
    <3>1. ch[s] = First(s) /\ First(s) \in s
        BY <2>4
    <3>2. f[s] = step[<<f[s \ {First(s)}], First(s)>>]
        BY <2>2, <2>4, <3>1 DEF Folds
    <3>3. f[s \ {First(s)}] \in P /\ First(s) \in S
        BY <2>3, <3>1
    <3> HIDE DEF step, ch, First
    <3>. QED BY <1>6, <3>2, <3>3
  <2>5. f = [s \in SUBSET S |-> f[s]]
    BY <2>3
  <2> HIDE DEF First
  <2>. QED BY <2>3, <2>4, <2>5
<1>11. PICK g : g = CHOOSE h : Rec(h)
    OBVIOUS
<1>12. Rec(g)
  <2> HIDE DEF Rec
  <2>. QED BY <1>10, <1>11, Zenon
<1>13. g[{}] = r
    BY <1>12
<1>14. ASSUME NEW s \in SUBSET S, s # {}, g[s \ {ch[s]}] \in P PROVE g[s] \in P
  <2>1. ch[s] = First(s) /\ First(s) \in S
    BY <1>14
  <2>2. g[s] = MarkConflicted(g[s \ {First(s)}], b, g[s \ {First(s)}].map[First(s)].hashBlock, t)
    <3> HIDE DEF First
    <3>. QED BY <1>12, <1>14
  <2> HIDE DEF step, ch, First, Rec
  <2>. QED BY <1>6, <1>14, <2>1, <2>2
<1> HIDE DEF step, ch, Rec
<1>15. g[S] \in P
    BY <1>4, <1>5, <1>7, <1>13, <1>14, FoldStays
<1>. QED BY <1>2, <1>8, <1>11, <1>15 DEF r

\* The wallet before anything is read.
LEMMA EmptyTrue ==
    /\ WalletTrue(EmptyWallet) /\ EmptyWallet \in TrueWallets
    /\ DOMAIN EmptyWallet.map = {} /\ \A t \in Txs : EmptyWallet.cache[t] = NotCached
<1> DEFINE m == [t \in {} |-> WalletTx(Null)]
           k == [t \in Txs |-> NotCached]
<1>1. DOMAIN m = {} /\ k \in [Txs -> {NotCached} \cup SUBSET Outpoints] /\ \A t \in Txs : k[t] = NotCached
    OBVIOUS
<1>2. EmptyWallet = [map |-> m, spends |-> {}, cache |-> k]
    BY DEF EmptyWallet
<1>3. m \in [DOMAIN m -> Entries]
    OBVIOUS
<1> HIDE DEF m, k
<1>4. EmptyWallet.map = m /\ EmptyWallet.spends = {} /\ EmptyWallet.cache = k
    BY <1>2
<1>5. EmptyWallet \in Wallets
    BY <1>1, <1>2, <1>3, <1>4, WalletFields
<1>6. MapTrue(m)
    BY <1>1, <1>3 DEF MapTrue
<1>7. SpendsTrue(EmptyWallet)
    BY <1>1, <1>4 DEF SpendsTrue
<1>8. CachesTrue(EmptyWallet)
    BY <1>1, <1>4 DEF CachesTrue
<1>. QED BY <1>1, <1>4, <1>5, <1>6, <1>7, <1>8 DEF WalletTrue, TrueWallets

\* v is a wallet read from records of m, and has what they say of the chain that ends in d.
Loaded(v, m, d) ==
    /\ WalletTrue(v) /\ DOMAIN v.map \subseteq DOMAIN m
    /\ \A t \in Txs : v.cache[t] = NotCached
    /\ \A c \in ChainOf[d] : \A t \in ToSet(Vtx[c]) :
          t \in DOMAIN v.map /\ m[t] = WalletTx(c) => v.map[t] = WalletTx(c)

\* One record.
LEMMA LoadStepTrue ==
    ASSUME NEW v, NEW m, MapTrue(m), NEW t \in Txs, NEW b \in Blocks, NEW d \in Blocks, b \in ChainOf[d],
           WalletTrue(v)
    PROVE  /\ WalletTrue(LoadStep(v, b, m, t))
           /\ DOMAIN LoadStep(v, b, m, t).map = DOMAIN v.map \cup ({t} \cap DOMAIN m)
           /\ Loaded(v, m, d) => Loaded(LoadStep(v, b, m, t), m, d)
<1>1. CASE t \notin DOMAIN m
  <2>1. LoadStep(v, b, m, t) = v
    BY <1>1 DEF LoadStep
  <2>. QED BY <1>1, <2>1
<1>2. CASE t \in DOMAIN m
  <2> DEFINE r == ReadTx(v, t, m[t])
             x == LoadTx(v, b, t, m[t])
  <2>1. EntryTrue(t, m[t])
    BY <1>2, MapEntries
  <2>2. /\ r.cache = v.cache /\ DOMAIN r.map = DOMAIN v.map \cup {t} /\ r.map[t] = m[t]
        /\ \A u \in DOMAIN v.map : u # t => r.map[u] = v.map[u]
    BY <2>1, ReadTrue
  <2>3. WalletTrue(x) /\ Follows(r, x, d, {}) /\ DOMAIN x.map = DOMAIN r.map
    BY <2>1, LoadTxTrue DEF Reach
  <2>4. LoadStep(v, b, m, t) = x
    BY <1>2 DEF LoadStep
  <2> HIDE DEF r, x
  <2>5. ASSUME Loaded(v, m, d) PROVE Loaded(x, m, d)
    <3>1. DOMAIN x.map \subseteq DOMAIN m
        BY <1>2, <2>2, <2>3, <2>5 DEF Loaded
    <3>2. \A u \in Txs : x.cache[u] = NotCached
        BY <2>2, <2>3, <2>5 DEF Loaded, Follows
    <3>3. ASSUME NEW c \in ChainOf[d], NEW u \in ToSet(Vtx[c]), u \in DOMAIN x.map, m[u] = WalletTx(c)
          PROVE  x.map[u] = WalletTx(c)
      <4>1. u \in DOMAIN r.map /\ r.map[u] = WalletTx(c)
        BY <2>2, <2>3, <2>5, <3>3 DEF Loaded
      <4>. QED BY <2>3, <4>1 DEF Follows
    <3>. QED BY <2>3, <3>1, <3>2, <3>3 DEF Loaded
  <2>. QED BY <1>2, <2>2, <2>3, <2>4, <2>5
<1>. QED BY <1>1, <1>2

\* LoadWallet.
LEMMA LoadTrue ==
    ASSUME NEW m, MapTrue(m), NEW b \in Blocks, NEW d \in Blocks, b \in ChainOf[d]
    PROVE  Loaded(LoadWallet(m, b), m, d) /\ DOMAIN LoadWallet(m, b).map = DOMAIN m
<1> DEFINE n == Len(TxOrder)
<1>1. n \in Nat /\ DOMAIN TxOrder = 1..n /\ \A k \in 1..n : TxOrder[k] \in Txs
  <2>1. TxOrder \in Seq(Txs)
    BY WalletAssumption
  <2>. QED BY <2>1
<1>2. LoadKeeps(m, b)
  <2>1. ASSUME NEW v \in TrueWallets, NEW k \in DOMAIN TxOrder
        PROVE  LoadStep(v, b, m, TxOrder[k]) \in TrueWallets
    <3>1. WalletTrue(v) /\ TxOrder[k] \in Txs
        BY <1>1 DEF TrueWallets
    <3>2. WalletTrue(LoadStep(v, b, m, TxOrder[k]))
        BY <3>1, LoadStepTrue
    <3>. QED BY <3>2 DEF TrueWallets, WalletTrue
  <2>. QED BY <2>1 DEF LoadKeeps
<1>3. PICK g : LoadRun(g, m, b)
    BY <1>2, EmptyTrue, LoadFold
<1>10. /\ g[0] = EmptyWallet /\ LoadWallet(m, b) = g[n]
       /\ \A k \in 1..n : g[k] = LoadStep(g[k - 1], b, m, TxOrder[k])
    BY <1>3 DEF LoadRun
<1> DEFINE K == {k \in 0..n : /\ Loaded(g[k], m, d)
                              /\ \A i \in 1..k : TxOrder[i] \in DOMAIN m => TxOrder[i] \in DOMAIN g[k].map}
<1> HIDE DEF n
<1>4. 0 \in K
  <2>1. Loaded(EmptyWallet, m, d)
    BY EmptyTrue DEF Loaded
  <2>. QED BY <1>1, <1>10, <2>1
<1>5. ASSUME NEW k \in 1..n, k - 1 \in K PROVE k \in K
  <2>1. k \in 0..n /\ k \in Nat /\ TxOrder[k] \in Txs /\ \A i \in 1..k : i = k \/ i \in 1..(k - 1)
    BY <1>1
  <2>2. WalletTrue(g[k - 1]) /\ Loaded(g[k - 1], m, d)
    BY <1>5 DEF Loaded
  <2>3. Loaded(g[k], m, d) /\ DOMAIN g[k].map = DOMAIN g[k - 1].map \cup ({TxOrder[k]} \cap DOMAIN m)
    <3>1. g[k] = LoadStep(g[k - 1], b, m, TxOrder[k])
        BY <1>10
    <3> HIDE DEF K
    <3>. QED BY <2>1, <2>2, <3>1, LoadStepTrue
  <2>. QED BY <1>5, <2>1, <2>3
<1> HIDE DEF K
<1>6. n \in 0..n /\ \A k \in 0..n : k \in K
  <2>1. n \in Nat
    BY <1>1
  <2>2. n \in 0..n
    BY <2>1
  <2>3. \A k \in 0..n : k \in K
    BY <1>4, <1>5, <2>1, CountUp
  <2>. QED BY <2>2, <2>3
<1>7. n \in K
    BY <1>6
<1>8. Loaded(g[n], m, d) /\ \A i \in 1..n : TxOrder[i] \in DOMAIN m => TxOrder[i] \in DOMAIN g[n].map
    BY <1>7 DEF K
<1>9. DOMAIN m \subseteq DOMAIN g[n].map
  <2>1. \A t \in DOMAIN m : \E i \in 1..n : TxOrder[i] = t
    BY <1>1, WalletAssumption DEF MapTrue, ToSet
  <2>. QED BY <1>8, <2>1
<1>. QED BY <1>8, <1>9, <1>10 DEF Loaded

-----------------------------------------------------------------------------
(* Blocks that reach the wallet.                                           *)

\* The wallet has t as block c says, if it concerns it.
KnowsTx(m, c, t) == Concerned(t) => t \in DOMAIN m /\ m[t] = WalletTx(c)

\* The wallet has what the blocks before c say.
KnowsBelow(m, c) == \A a \in ChainOf[c] \ {c} : \A t \in ToSet(Vtx[a]) : KnowsTx(m, a, t)

\* No credit of what t spends is cached.
Uncached(v, t) == Concerned(t) => \A p \in Prevs[t] : v.cache[p] = NotCached

\* A transaction of a block that concerns a wallet which knows what comes before it
\* involves the wallet.
LEMMA ConcernedInvolved ==
    ASSUME NEW w, NEW c \in Blocks, KnowsBelow(w.map, c), NEW i \in DOMAIN Vtx[c],
           \A j \in 1..(i - 1) : KnowsTx(w.map, c, Vtx[c][j]),
           Concerned(Vtx[c][i])
    PROVE  Involved(w, Vtx[c][i])
<1> DEFINE t == Vtx[c][i]
<1>1. t \in Txs
  <2>1. Vtx[c] \in Seq(Txs)
    BY ChainAssumption
  <2>. QED BY <2>1
<1>2. CASE IsMine(t)
    BY <1>2 DEF Involved
<1>3. CASE Inputs[t] \cap Ours # {}
  <2>1. PICK o \in Inputs[t] : o \in Ours
    BY <1>3
  <2>2. Concerned(o[1])
    <3>1. o \in OutpointsOf(o[1]) \cap Ours
        BY <1>1, <2>1, PrevsFacts
    <3>. QED BY <3>1 DEF Concerned, IsMine
  <2>3. \/ \E a \in ChainOf[c] \ {c} : o[1] \in ToSet(Vtx[a])
        \/ \E j \in 1..(i - 1) : o[1] = Vtx[c][j]
    BY ValidBlocks
  <2>4. o[1] \in DOMAIN w.map
    BY <2>2, <2>3 DEF KnowsBelow, KnowsTx
  <2>. QED BY <2>1, <2>4 DEF Involved, IsFromMe
<1>. QED BY <1>2, <1>3 DEF Concerned

\* What the wallet knows it keeps.
LEMMA FollowsKnows ==
    ASSUME NEW w, NEW v, NEW d \in Blocks, NEW Q, Follows(w, v, d, Q)
    PROVE  /\ \A c \in ChainOf[d] : \A t \in ToSet(Vtx[c]) : KnowsTx(w.map, c, t) => KnowsTx(v.map, c, t)
           /\ \A c \in ChainOf[d] : KnowsBelow(w.map, c) => KnowsBelow(v.map, c)
           /\ \A t \in Txs : Uncached(w, t) => Uncached(v, t)
<1>1. ASSUME NEW c \in ChainOf[d], NEW t \in ToSet(Vtx[c]), KnowsTx(w.map, c, t) PROVE KnowsTx(v.map, c, t)
    BY <1>1 DEF Follows, KnowsTx
<1>2. ASSUME NEW c \in ChainOf[d], KnowsBelow(w.map, c) PROVE KnowsBelow(v.map, c)
  <2>1. ChainOf[c] \subseteq ChainOf[d]
    BY ChainFacts
  <2>. QED BY <1>1, <1>2, <2>1 DEF KnowsBelow
<1>3. ASSUME NEW t \in Txs, Uncached(w, t) PROVE Uncached(v, t)
    BY <1>3, PrevsFacts DEF Uncached, Follows
<1>. QED BY <1>1, <1>2, <1>3

\* Every transaction of txs may be told to the wallet; see SyncTrue.
SyncMay(b, d, txs, c, fConnect, Q) ==
    \A k \in DOMAIN txs :
        /\ Told(txs[k], c, d)
        /\ ~fConnect => b = d /\ (txs[k] \in Stakes => txs[k] \notin Q /\ \A u \in Q : txs[k] \notin Prevs[u])

\* Each of the n wallets after w is true and follows w.
AllFollow(g, n, w, d, Q) == \A k \in 0..n : WalletTrue(g[k]) /\ Follows(w, g[k], d, Q)

\* The wallets while a sequence of transactions is synchronised.
LEMMA SyncRunTrue ==
    ASSUME NEW w, WalletTrue(w), NEW b \in Blocks, NEW d \in Blocks, b \in ChainOf[d], NEW q,
           NEW txs \in Seq(Txs), NEW c, NEW f \in BOOLEAN, NEW Q, SyncMay(b, d, txs, c, f, Q)
    PROVE  \E g : SyncRun(g, w, b, q, txs, c, f) /\ AllFollow(g, Len(txs), w, d, Q)
<1> DEFINE n == Len(txs)
<1>1. n \in Nat /\ DOMAIN txs = 1..n
    OBVIOUS
<1>2. w \in TrueWallets
    BY DEF TrueWallets, WalletTrue
<1>3. ASSUME NEW v, WalletTrue(v), NEW k \in DOMAIN txs
      PROVE  /\ WalletTrue(SyncTransaction(v, b, q, txs[k], c, f))
             /\ Follows(v, SyncTransaction(v, b, q, txs[k], c, f), d, Q)
  <2>1. /\ Told(txs[k], c, d)
        /\ ~f => b = d /\ (txs[k] \in Stakes => txs[k] \notin Q /\ \A u \in Q : txs[k] \notin Prevs[u])
    BY DEF SyncMay
  <2> DEFINE t == txs[k]
  <2> HIDE DEF t
  <2>2. /\ WalletTrue(SyncTransaction(v, b, q, t, c, f))
        /\ Follows(v, SyncTransaction(v, b, q, t, c, f), d, Q)
    <3>1. /\ Told(t, c, d)
          /\ ~f => b = d /\ (t \in Stakes => t \notin Q /\ \A u \in Q : t \notin Prevs[u])
        BY <2>1 DEF t
    <3>. QED BY <1>3, <3>1, SyncTrue
  <2>. QED BY <2>2 DEF t
<1>4. SyncKeeps(b, q, txs, c, f)
    BY <1>3 DEF SyncKeeps, TrueWallets, WalletTrue
<1>5. PICK g : SyncRun(g, w, b, q, txs, c, f)
    BY <1>2, <1>4, SyncFold
<1>6. /\ g \in [0..n -> TrueWallets] /\ g[0] = w
      /\ \A k \in 1..n : g[k] = SyncTransaction(g[k - 1], b, q, txs[k], c, f)
    BY <1>5 DEF SyncRun
<1> HIDE DEF n
<1> DEFINE K == {k \in 0..n : Follows(w, g[k], d, Q)}
<1>7. 0 \in K
    BY <1>1, <1>6, FollowsItself
<1>8. ASSUME NEW k \in 1..n, k - 1 \in K PROVE k \in K
  <2>1. k \in 0..n /\ k - 1 \in 0..n /\ k \in DOMAIN txs
    BY <1>1
  <2>2. WalletTrue(g[k - 1]) /\ g[k] = SyncTransaction(g[k - 1], b, q, txs[k], c, f)
    BY <1>6, <2>1 DEF TrueWallets
  <2>3. Follows(g[k - 1], g[k], d, Q) /\ Follows(w, g[k - 1], d, Q)
    BY <1>3, <1>8, <2>1, <2>2
  <2>4. Follows(w, g[k], d, Q)
    BY <2>3, FollowsTwice
  <2>. QED BY <2>1, <2>4
<1> HIDE DEF K
<1>9. \A k \in 0..n : k \in K
    BY <1>1, <1>7, <1>8, CountUp
<1>10. \A k \in 0..n : WalletTrue(g[k]) /\ Follows(w, g[k], d, Q)
    BY <1>6, <1>9 DEF K, TrueWallets
<1>. QED BY <1>5, <1>10 DEF n, AllFollow

\* SyncAll.
LEMMA SyncAllTrue ==
    ASSUME NEW w, WalletTrue(w), NEW b \in Blocks, NEW d \in Blocks, b \in ChainOf[d], NEW q,
           NEW txs \in Seq(Txs), NEW c, NEW f \in BOOLEAN, NEW Q, SyncMay(b, d, txs, c, f, Q)
    PROVE  WalletTrue(SyncAll(w, b, q, txs, c, f)) /\ Follows(w, SyncAll(w, b, q, txs, c, f), d, Q)
<1>1. PICK g : SyncRun(g, w, b, q, txs, c, f) /\ AllFollow(g, Len(txs), w, d, Q)
    BY SyncRunTrue
<1>2. SyncAll(w, b, q, txs, c, f) = g[Len(txs)]
    BY <1>1 DEF SyncRun
<1>3. Len(txs) \in 0..Len(txs)
  <2>1. Len(txs) \in Nat
    OBVIOUS
  <2>. QED BY <2>1
<1>. QED BY <1>1, <1>2, <1>3 DEF AllFollow

\* A block that is connected: the wallet knows it, and has no cached credit of what it spends.
LEMMA SyncBlockTrue ==
    ASSUME NEW w, WalletTrue(w), NEW b \in Blocks, KnowsBelow(w.map, b), NEW q, NEW Q, NEW v,
           v = SyncAll(w, b, q, Vtx[b], b, TRUE)
    PROVE  /\ WalletTrue(v) /\ Follows(w, v, b, Q) /\ KnowsBelow(v.map, b)
           /\ \A t \in ToSet(Vtx[b]) : KnowsTx(v.map, b, t) /\ Uncached(v, t)
<1> DEFINE n == Len(Vtx[b])
<1>1. n \in Nat /\ DOMAIN Vtx[b] = 1..n /\ Vtx[b] \in Seq(Txs) /\ \A k \in 1..n : Vtx[b][k] \in Txs
  <2>1. Vtx[b] \in Seq(Txs)
    BY ChainAssumption
  <2>. QED BY <2>1
<1>2. b \in ChainOf[b] /\ b # Null
    BY ChainFacts, ChainAssumption
<1>3. SyncMay(b, b, Vtx[b], b, TRUE, Q)
  <2>1. \A k \in 1..n : Vtx[b][k] \in ToSet(Vtx[b])
    BY <1>1 DEF ToSet
  <2>. QED BY <1>1, <1>2, <2>1 DEF SyncMay, Told
<1>4. PICK g : SyncRun(g, w, b, q, Vtx[b], b, TRUE) /\ AllFollow(g, Len(Vtx[b]), w, b, Q)
    BY <1>1, <1>2, <1>3, SyncRunTrue
<1>5. /\ g[0] = w /\ v = g[n]
      /\ \A k \in 1..n : g[k] = SyncTransaction(g[k - 1], b, q, Vtx[b][k], b, TRUE)
      /\ \A k \in 0..n : WalletTrue(g[k]) /\ Follows(w, g[k], b, Q)
    BY <1>4 DEF SyncRun, AllFollow
<1> HIDE DEF n
<1> DEFINE Done(x, t) == KnowsTx(x.map, b, t) /\ Uncached(x, t)
           K == {k \in 0..n : \A i \in 1..k : Done(g[k], Vtx[b][i])}
<1>6. 0 \in K
    BY <1>1
<1>7. ASSUME NEW k \in 1..n, k - 1 \in K PROVE k \in K
  <2> DEFINE t == Vtx[b][k]
  <2>1. /\ k \in 0..n /\ k - 1 \in 0..n /\ k \in Nat /\ t \in Txs /\ k \in DOMAIN Vtx[b]
        /\ \A i \in 1..k : i = k \/ i \in 1..(k - 1)
        /\ \A i \in 1..k : i \in 1..n
    BY <1>1
  <2>2. \A i \in 1..(k - 1) : Done(g[k - 1], Vtx[b][i])
    BY <1>7
  <2>3. WalletTrue(g[k - 1]) /\ Follows(w, g[k - 1], b, Q)
    BY <1>5, <2>1
  <2>4. g[k] = SyncTransaction(g[k - 1], b, q, t, b, TRUE)
    BY <1>5
  <2>5. KnowsBelow(g[k - 1].map, b)
    BY <1>2, <2>3, FollowsKnows
  <2>6. Concerned(t) => Involved(g[k - 1], t)
    BY <2>1, <2>2, <2>5, ConcernedInvolved
  <2>7. Told(t, b, b)
    BY <1>3, <2>1 DEF SyncMay
  <2> HIDE DEF t
  <2>8. /\ Follows(g[k - 1], g[k], b, Q)
        /\ Involved(g[k - 1], t) => Recorded(g[k], t, b) /\ \A p \in Prevs[t] : g[k].cache[p] = NotCached
    <3> DEFINE y == g[k - 1]
               z == SyncTransaction(y, b, q, t, b, TRUE)
    <3> HIDE DEF y
    <3>1. WalletTrue(y)
        BY <2>3 DEF y
    <3>2. /\ Follows(y, z, b, Q)
          /\ Involved(y, t) => Recorded(z, t, b) /\ \A p \in Prevs[t] : z.cache[p] = NotCached
        BY <1>2, <2>7, <3>1, SyncTrue
    <3>. QED BY <2>4, <3>2 DEF y
  <2>9. Done(g[k], t)
    BY <1>2, <2>6, <2>8 DEF KnowsTx, Uncached, Recorded
  <2>10. ASSUME NEW i \in 1..(k - 1) PROVE Done(g[k], Vtx[b][i])
    <3>1. i \in 1..n /\ Vtx[b][i] \in Txs /\ Vtx[b][i] \in ToSet(Vtx[b])
        BY <1>1, <2>1 DEF ToSet
    <3>. QED BY <1>2, <2>2, <2>8, <3>1, FollowsKnows
  <2>11. \A i \in 1..k : Done(g[k], Vtx[b][i])
    BY <2>1, <2>9, <2>10 DEF t
  <2>. QED BY <2>1, <2>11
<1>8. n \in 0..n /\ \A k \in 0..n : k \in K
  <2>1. n \in 0..n
    BY <1>1
  <2> HIDE DEF K
  <2>. QED BY <1>1, <1>6, <1>7, <2>1, CountUp
<1>9. \A i \in 1..n : Done(v, Vtx[b][i])
    BY <1>5, <1>8 DEF K
<1>10. WalletTrue(v) /\ Follows(w, v, b, Q)
    BY <1>5, <1>8
<1>11. KnowsBelow(v.map, b)
    BY <1>2, <1>10, FollowsKnows
<1>12. \A t \in ToSet(Vtx[b]) : \E i \in 1..n : t = Vtx[b][i]
    BY <1>1 DEF ToSet
<1>. QED BY <1>9, <1>10, <1>11, <1>12

-----------------------------------------------------------------------------
(* The rescan.                                                             *)

\* The blocks of a chain by height.
LEMMA ChainPositions ==
    ASSUME NEW b \in Blocks
    PROVE  /\ Height[b] \in Nat /\ Height[b] >= 1 /\ Chain[b][Height[b]] = b
           /\ Chain[b] \in Seq(Blocks) /\ Len(Chain[b]) = Height[b]
           /\ ChainOf[b] = {Chain[b][i] : i \in 1..Height[b]}
           /\ \A j \in 1..Height[b] : /\ Chain[b][j] \in Blocks /\ Height[Chain[b][j]] = j
                                      /\ ChainOf[Chain[b][j]] = {Chain[b][i] : i \in 1..j}
<1>1. /\ Chain[b] \in Seq(Blocks) /\ Chain[b] # <<>> /\ Chain[b][Len(Chain[b])] = b
      /\ \A h \in DOMAIN Chain[b] : Chain[Chain[b][h]] = SubSeq(Chain[b], 1, h)
    BY ChainAssumption
<1>2. Len(Chain[b]) \in Nat /\ Len(Chain[b]) >= 1 /\ DOMAIN Chain[b] = 1..Len(Chain[b])
  <2>1. Chain[b] \in Seq(Blocks) /\ Chain[b] # <<>>
    BY <1>1
  <2>. QED BY <2>1
<1>3. ChainOf[b] = {Chain[b][h] : h \in 1..Len(Chain[b])} /\ Height[b] = Len(Chain[b])
    BY <1>2 DEF ChainOf, Height, ToSet
<1>4. ASSUME NEW h \in 1..Len(Chain[b])
      PROVE  /\ Chain[b][h] \in Blocks
             /\ Height[Chain[b][h]] = h
             /\ ChainOf[Chain[b][h]] = {Chain[b][g] : g \in 1..h}
  <2>1. Chain[b][h] \in Blocks /\ Chain[Chain[b][h]] = SubSeq(Chain[b], 1, h)
    BY <1>1, <1>2
  <2>2. h \in Nat /\ h >= 1 /\ h <= Len(Chain[b])
    BY <1>2
  <2>3. /\ Len(SubSeq(Chain[b], 1, h)) = h
        /\ DOMAIN SubSeq(Chain[b], 1, h) = 1..h
        /\ \A g \in 1..h : SubSeq(Chain[b], 1, h)[g] = Chain[b][g]
    BY <1>1, <1>2, <2>2, SubSeqProperties
  <2>. QED BY <2>1, <2>3 DEF ChainOf, Height, ToSet
<1>. QED BY <1>1, <1>2, <1>3, <1>4

\* The block at a height.
LEMMA ChainAt ==
    ASSUME NEW b \in Blocks, NEW j \in 1..Height[b]
    PROVE  /\ Chain[b][j] \in Blocks /\ Chain[b][j] \in ChainOf[b] /\ Height[Chain[b][j]] = j
           /\ ChainOf[Chain[b][j]] = {Chain[b][i] : i \in 1..j}
<1>1. /\ ChainOf[b] = {Chain[b][i] : i \in 1..Height[b]}
      /\ \A k \in 1..Height[b] : /\ Chain[b][k] \in Blocks /\ Height[Chain[b][k]] = k
                                 /\ ChainOf[Chain[b][k]] = {Chain[b][i] : i \in 1..k}
    BY ChainPositions
<1>2. Chain[b][j] \in ChainOf[b]
    BY <1>1
<1>. QED BY <1>1, <1>2, Zenon

\* The block from which two chains part.
Fork(best, b) ==
    CHOOSE c \in ChainOf[b] \cap ChainOf[best] :
        \A d \in ChainOf[b] \cap ChainOf[best] : Height[d] <= Height[c]

\* It is there, and the chain up to it is part of both.
LEMMA ForkFacts ==
    ASSUME NEW best \in Blocks, NEW b \in Blocks
    PROVE  /\ Fork(best, b) \in ChainOf[b] \cap ChainOf[best]
           /\ Height[Fork(best, b)] \in 1..Height[b]
           /\ Chain[b][Height[Fork(best, b)]] = Fork(best, b)
           /\ \A i \in 1..Height[Fork(best, b)] : Chain[b][i] \in ChainOf[b] \cap ChainOf[best]
<1> DEFINE C == ChainOf[b] \cap ChainOf[best]
           H == {h \in Nat : \E c \in C : Height[c] = h}
<1>1. Base \in C
  <2>1. ASSUME NEW d \in Blocks PROVE Base \in ChainOf[d]
    <3>1. Chain[d][1] = Base /\ 1 \in 1..Height[d]
        BY ChainPositions, ChainAssumption
    <3>. QED BY <3>1, ChainPositions
  <2>. QED BY <2>1
<1>2. ASSUME NEW c \in C PROVE Height[c] \in Nat /\ Height[c] <= Height[b] /\ Height[b] \in Nat
  <2>1. c \in ChainOf[b]
    OBVIOUS
  <2>. QED BY <2>1, ChainFacts
<1>3. H \in SUBSET Nat /\ H # {} /\ IsFiniteSet(H)
  <2>1. H \subseteq 0..Height[b]
    BY <1>2
  <2>2. IsFiniteSet(0..Height[b])
    BY <1>1, <1>2, FS_Interval
  <2>. QED BY <1>1, <1>2, <2>1, <2>2, FS_Subset
<1>4. Max(H) \in H /\ \A y \in H : Max(H) >= y
  <2> HIDE DEF H
  <2>. QED BY <1>3, MaxIn
<1>5. PICK f \in C : Height[f] = Max(H)
    BY <1>4
<1>6. \A d \in C : Height[d] <= Height[f]
    BY <1>2, <1>4, <1>5
<1>7. Fork(best, b) \in C
  <2>1. \E c \in C : \A d \in C : Height[d] <= Height[c]
    BY <1>6
  <2> HIDE DEF C
  <2>2. (CHOOSE c \in C : \A d \in C : Height[d] <= Height[c]) \in C
    BY <2>1
  <2>. QED BY <2>2, Zenon DEF Fork, C
<1> DEFINE k == Fork(best, b)
<1> HIDE DEF k
<1>8. k \in ChainOf[b] /\ k \in ChainOf[best] /\ k \in Blocks
    BY <1>7, ChainFacts DEF k
<1>9. PICK j \in 1..Height[b] : k = Chain[b][j]
    BY <1>8, ChainPositions
<1>10. Height[k] = j /\ ChainOf[k] = {Chain[b][i] : i \in 1..j}
    BY <1>9, ChainAt
<1>11. ChainOf[k] \subseteq ChainOf[b] /\ ChainOf[k] \subseteq ChainOf[best]
    BY <1>8, ChainFacts
<1>12. \A i \in 1..j : Chain[b][i] \in ChainOf[b] \cap ChainOf[best]
    BY <1>10, <1>11
<1>. QED BY <1>8, <1>9, <1>10, <1>12 DEF k

\* A block that is rescanned.
LEMMA ScanBlockTrue ==
    ASSUME NEW w, WalletTrue(w), NEW b \in Blocks, NEW c \in ChainOf[b], NEW v, v = ScanBlock(w, b, c)
    PROVE  /\ WalletTrue(v) /\ Follows(w, v, b, {})
           /\ KnowsBelow(w.map, c) => \A t \in ToSet(Vtx[c]) : KnowsTx(v.map, c, t)
<1> DEFINE n == Len(Vtx[c])
<1>0. c \in Blocks /\ b \in ChainOf[b] /\ c # Null
  <2>1. c \in Blocks /\ b \in ChainOf[b]
    BY ChainFacts
  <2>2. c # Null
    BY <2>1, ChainAssumption
  <2>. QED BY <2>1, <2>2
<1>1. n \in Nat /\ DOMAIN Vtx[c] = 1..n /\ \A k \in 1..n : Vtx[c][k] \in Txs
  <2>1. Vtx[c] \in Seq(Txs)
    BY <1>0, ChainAssumption
  <2>. QED BY <2>1
<1>2. \A k \in 1..n : Told(Vtx[c][k], c, b)
  <2>1. \A k \in 1..n : Vtx[c][k] \in ToSet(Vtx[c])
    BY <1>1 DEF ToSet
  <2>. QED BY <1>1, <2>1 DEF Told
<1>3. ASSUME NEW x, WalletTrue(x), NEW k \in DOMAIN Vtx[c]
      PROVE  /\ WalletTrue(AddToWalletIfInvolvingMe(x, b, Vtx[c][k], c))
             /\ Follows(x, AddToWalletIfInvolvingMe(x, b, Vtx[c][k], c), b, {})
             /\ Involved(x, Vtx[c][k]) => Recorded(AddToWalletIfInvolvingMe(x, b, Vtx[c][k], c), Vtx[c][k], c)
  <2>1. Told(Vtx[c][k], c, b)
    BY <1>1, <1>2
  <2>. QED BY <1>0, <1>3, <2>1, IfInvolvingTrue
<1>4. w \in TrueWallets /\ ScanBlockKeeps(b, c)
    BY <1>3 DEF ScanBlockKeeps, TrueWallets, WalletTrue
<1>5. PICK g : ScanBlockRun(g, w, b, c)
    BY <1>0, <1>4, ScanBlockFold
<1>6. /\ g \in [0..n -> TrueWallets] /\ g[0] = w /\ v = g[n]
      /\ \A k \in 1..n : g[k] = AddToWalletIfInvolvingMe(g[k - 1], b, Vtx[c][k], c)
    BY <1>5 DEF ScanBlockRun
<1> HIDE DEF n
<1> DEFINE Known(x, t) == KnowsTx(x.map, c, t)
           Good(k) == /\ Follows(w, g[k], b, {})
                      /\ KnowsBelow(w.map, c) => \A i \in 1..k : Known(g[k], Vtx[c][i])
           K == {k \in 0..n : Good(k)}
<1>7. 0 \in K
    BY <1>1, <1>6, FollowsItself
<1>8. ASSUME NEW k \in 1..n, k - 1 \in K PROVE k \in K
  <2>1. /\ k \in 0..n /\ k - 1 \in 0..n /\ k \in DOMAIN Vtx[c]
        /\ \A i \in 1..k : i = k \/ i \in 1..(k - 1)
        /\ \A i \in 1..k : i \in 1..n
    BY <1>1
  <2>2. WalletTrue(g[k - 1]) /\ Good(k - 1)
    BY <1>6, <1>8, <2>1 DEF TrueWallets
  <2>3. /\ Follows(g[k - 1], g[k], b, {})
        /\ Involved(g[k - 1], Vtx[c][k]) => Recorded(g[k], Vtx[c][k], c)
    <3>1. g[k] = AddToWalletIfInvolvingMe(g[k - 1], b, Vtx[c][k], c)
        BY <1>6
    <3> HIDE DEF Good
    <3>. QED BY <1>3, <2>1, <2>2, <3>1
  <2>4. Follows(w, g[k], b, {})
    BY <2>2, <2>3, FollowsTwice
  <2>5. ASSUME KnowsBelow(w.map, c), NEW i \in 1..k PROVE Known(g[k], Vtx[c][i])
    <3>1. KnowsBelow(g[k - 1].map, c)
        BY <2>2, <2>5, FollowsKnows
    <3>2. \A j \in 1..(k - 1) : Known(g[k - 1], Vtx[c][j])
        BY <2>2, <2>5
    <3>3. CASE i = k
      <4>1. Concerned(Vtx[c][k]) => Involved(g[k - 1], Vtx[c][k])
        BY <1>0, <2>1, <3>1, <3>2, ConcernedInvolved
      <4>. QED BY <1>0, <2>3, <3>3, <4>1 DEF KnowsTx, Recorded
    <3>4. CASE i \in 1..(k - 1)
      <4>1. Vtx[c][i] \in ToSet(Vtx[c])
        BY <1>1, <2>1 DEF ToSet
      <4>. QED BY <2>3, <3>2, <3>4, <4>1, FollowsKnows
    <3>. QED BY <2>1, <3>3, <3>4
  <2>6. Good(k)
    BY <2>4, <2>5
  <2>. QED BY <2>1, <2>6
<1>9. n \in 0..n /\ \A k \in 0..n : k \in K
  <2>1. n \in 0..n
    BY <1>1
  <2> HIDE DEF K
  <2>. QED BY <1>1, <1>7, <1>8, <2>1, CountUp
<1>10. Good(n) /\ WalletTrue(v)
  <2> HIDE DEF Good
  <2>. QED BY <1>6, <1>9 DEF TrueWallets
<1>11. \A t \in ToSet(Vtx[c]) : \E i \in 1..n : t = Vtx[c][i]
    BY <1>1 DEF ToSet
<1>. QED BY <1>6, <1>10, <1>11

\* The blocks that are rescanned are those of the chain from the fork.
LEMMA RescannedBlocks ==
    ASSUME NEW best \in Blocks, NEW b \in Blocks, Fork(best, b) # b
    PROVE  /\ Rescanned(best, b) \in Seq(Blocks)
           /\ Rescanned(best, b) # <<>>
           /\ Len(Rescanned(best, b)) = Height[b] - Height[Fork(best, b)] + 1
           /\ \A k \in 1..Len(Rescanned(best, b)) :
                 Rescanned(best, b)[k] = Chain[b][Height[Fork(best, b)] + k - 1]
<1> DEFINE h == Height[Fork(best, b)]
           n == Height[b]
<1>1. Rescanned(best, b) = SubSeq(Chain[b], h, n)
    BY Zenon DEF Rescanned, Fork
<1>2. h \in 1..n /\ n \in Nat /\ Chain[b] \in Seq(Blocks) /\ Len(Chain[b]) = n
    BY ForkFacts, ChainPositions
<1> HIDE DEF h, n
<1>3. h \in 1..(n + 1) /\ n \in Nat /\ h \in Nat /\ h <= n /\ h - 1 <= n
    BY <1>2
<1>4. SubSeq(Chain[b], h, n) \in Seq(Blocks)
    BY <1>2, <1>3, SubSeqProperties
<1>5. Len(SubSeq(Chain[b], h, n)) = n - h + 1
    BY <1>2, <1>3, SubSeqProperties
<1>6. \A k \in 1..(n - h + 1) : SubSeq(Chain[b], h, n)[k] = Chain[b][h + k - 1]
    BY <1>2, <1>3, SubSeqProperties
<1>7. SubSeq(Chain[b], h, n) # <<>>
  <2>1. n - h + 1 # 0
    BY <1>3
  <2>. QED BY <1>5, <2>1
<1>. QED BY <1>1, <1>4, <1>5, <1>6, <1>7 DEF h, n

\* The wallet has what the first j blocks of the chain say.
KnowsUpTo(m, b, j) == \A i \in 1..j : \A t \in ToSet(Vtx[Chain[b][i]]) : KnowsTx(m, Chain[b][i], t)

\* Knowing the chain by height, and as a set.
LEMMA KnowsHeights ==
    ASSUME NEW m, NEW b \in Blocks
    PROVE  /\ Knows(m, b) <=> KnowsUpTo(m, b, Height[b])
           /\ \A j \in 1..Height[b] : KnowsUpTo(m, b, j - 1) => KnowsBelow(m, Chain[b][j])
<1>1. Knows(m, b) <=> KnowsUpTo(m, b, Height[b])
    BY ChainPositions DEF Knows, KnowsUpTo, KnowsTx
<1>2. ASSUME NEW j \in 1..Height[b], KnowsUpTo(m, b, j - 1) PROVE KnowsBelow(m, Chain[b][j])
  <2>1. ChainOf[Chain[b][j]] = {Chain[b][i] : i \in 1..j} /\ Height[b] \in Nat
    BY ChainAt, ChainFacts
  <2>2. ASSUME NEW a \in ChainOf[Chain[b][j]] \ {Chain[b][j]}
        PROVE  \A t \in ToSet(Vtx[a]) : KnowsTx(m, a, t)
    <3>1. PICK i \in 1..j : a = Chain[b][i]
        BY <2>1
    <3>2. i \in 1..(j - 1)
      <4>1. i # j
        BY <3>1
      <4>. QED BY <2>1, <4>1
    <3>. QED BY <1>2, <3>1, <3>2 DEF KnowsUpTo
  <2>. QED BY <2>2 DEF KnowsBelow
<1>. QED BY <1>1, <1>2

\* ScanForWalletTransactions.
LEMMA ScanTrue ==
    ASSUME NEW w, WalletTrue(w), NEW best \in Blocks, NEW b \in Blocks, NEW v,
           v = ScanForWalletTransactions(w, b, Rescanned(best, b))
    PROVE  /\ WalletTrue(v) /\ Follows(w, v, b, {})
           /\ Fork(best, b) = b => v = w
           /\ KnowsUpTo(w.map, b, Height[Fork(best, b)]) => Knows(v.map, b)
<1> DEFINE blocks == Rescanned(best, b)
           n == Len(blocks)
           h == Height[Fork(best, b)]
<1>0. h \in 1..Height[b] /\ Height[b] \in Nat
    BY ForkFacts, ChainPositions
<1>1. /\ blocks \in Seq(Blocks) /\ n \in Nat /\ DOMAIN blocks = 1..n
      /\ \A k \in 1..n : h + k - 1 \in 1..Height[b] /\ blocks[k] = Chain[b][h + k - 1]
      /\ IF Fork(best, b) = b THEN n = 0 ELSE n = Height[b] - h + 1
  <2>1. CASE Fork(best, b) = b
    <3>1. blocks = <<>>
        BY <2>1, Zenon DEF Rescanned, Fork
    <3> HIDE DEF blocks
    <3>. QED BY <2>1, <3>1
  <2>2. CASE Fork(best, b) # b
    <3>1. /\ blocks \in Seq(Blocks) /\ n = Height[b] - h + 1
          /\ \A k \in 1..n : blocks[k] = Chain[b][h + k - 1]
        BY <2>2, RescannedBlocks
    <3>2. n \in Nat /\ DOMAIN blocks = 1..n
      <4> HIDE DEF blocks
      <4>1. blocks \in Seq(Blocks)
        BY <3>1
      <4>. QED BY <4>1
    <3> HIDE DEF blocks, n, h
    <3>3. \A k \in 1..n : h + k - 1 \in 1..Height[b]
        BY <1>0, <3>1
    <3>. QED BY <2>2, <3>1, <3>2, <3>3
  <2>. QED BY <2>1, <2>2
<1> HIDE DEF blocks, n, h
<1>2. ASSUME NEW k \in 1..n PROVE blocks[k] \in ChainOf[b]
  <2>1. h + k - 1 \in 1..Height[b] /\ blocks[k] = Chain[b][h + k - 1]
    BY <1>1
  <2>. QED BY <2>1, ChainAt
<1>3. w \in TrueWallets /\ ScanKeeps(b, blocks)
  <2>1. ASSUME NEW x \in TrueWallets, NEW k \in DOMAIN blocks PROVE ScanBlock(x, b, blocks[k]) \in TrueWallets
    <3>1. WalletTrue(x) /\ blocks[k] \in ChainOf[b]
        BY <1>1, <1>2 DEF TrueWallets
    <3>2. WalletTrue(ScanBlock(x, b, blocks[k]))
        BY <3>1, ScanBlockTrue
    <3>. QED BY <3>2 DEF TrueWallets, WalletTrue
  <2>. QED BY <2>1 DEF ScanKeeps, TrueWallets, WalletTrue
<1>4. PICK g : ScanRun(g, w, b, blocks)
    BY <1>1, <1>3, ScanFold
<1>5. /\ g \in [0..n -> TrueWallets] /\ g[0] = w /\ v = g[n]
      /\ \A k \in 1..n : g[k] = ScanBlock(g[k - 1], b, blocks[k])
    BY <1>4 DEF ScanRun, blocks, n
<1> DEFINE Knew == KnowsUpTo(w.map, b, h)
           Good(k) == /\ Follows(w, g[k], b, {})
                      /\ Knew => KnowsUpTo(g[k].map, b, IF k = 0 THEN h ELSE h + k - 1)
           K == {k \in 0..n : Good(k)}
<1>6. 0 \in K
    BY <1>1, <1>5, FollowsItself
<1>7. ASSUME NEW k \in 1..n, k - 1 \in K PROVE k \in K
  <2>1. k \in 0..n /\ k - 1 \in 0..n /\ k # 0
    BY <1>1
  <2>2. WalletTrue(g[k - 1]) /\ Good(k - 1)
    BY <1>5, <1>7, <2>1 DEF TrueWallets
  <2> DEFINE j == h + k - 1
             c == Chain[b][j]
  <2>3. g[k] = ScanBlock(g[k - 1], b, c) /\ c \in ChainOf[b] /\ j \in 1..Height[b]
    BY <1>1, <1>2, <1>5
  <2> HIDE DEF c, Good
  <2>4. /\ WalletTrue(g[k]) /\ Follows(g[k - 1], g[k], b, {})
        /\ KnowsBelow(g[k - 1].map, c) => \A t \in ToSet(Vtx[c]) : KnowsTx(g[k].map, c, t)
    BY <2>2, <2>3, ScanBlockTrue
  <2>5. Follows(w, g[k - 1], b, {}) /\ Follows(w, g[k], b, {})
    BY <2>2, <2>4, FollowsTwice DEF Good
  <2>6. ASSUME Knew PROVE KnowsUpTo(g[k].map, b, j)
    <3>1. KnowsUpTo(g[k - 1].map, b, j - 1)
      <4>1. KnowsUpTo(g[k - 1].map, b, IF k - 1 = 0 THEN h ELSE h + (k - 1) - 1)
        BY <2>2, <2>6 DEF Good
      <4>2. 1..(j - 1) \subseteq 1..(IF k - 1 = 0 THEN h ELSE h + (k - 1) - 1)
        BY <1>0, <1>1
      <4>. QED BY <4>1, <4>2 DEF KnowsUpTo
    <3> HIDE DEF j
    <3>2. KnowsBelow(g[k - 1].map, c)
        BY <2>3, <3>1, KnowsHeights DEF c
    <3>3. ASSUME NEW i \in 1..j, NEW t \in ToSet(Vtx[Chain[b][i]]) PROVE KnowsTx(g[k].map, Chain[b][i], t)
      <4>1. CASE i = j
        BY <2>4, <3>2, <3>3, <4>1 DEF c
      <4>2. CASE i # j
        <5>1. i \in 1..(j - 1) /\ i \in 1..Height[b]
            BY <1>0, <2>3, <4>2
        <5>2. KnowsTx(g[k - 1].map, Chain[b][i], t)
            BY <3>1, <5>1 DEF KnowsUpTo
        <5>3. Chain[b][i] \in ChainOf[b]
            BY <5>1, ChainPositions
        <5>. QED BY <2>4, <5>2, <5>3, FollowsKnows
      <4>. QED BY <4>1, <4>2
    <3>. QED BY <3>3 DEF KnowsUpTo
  <2>7. Good(k)
    BY <2>1, <2>5, <2>6 DEF Good
  <2>. QED BY <2>1, <2>7
<1>8. n \in 0..n /\ \A k \in 0..n : k \in K
  <2>1. n \in 0..n
    BY <1>1
  <2> HIDE DEF K
  <2>. QED BY <1>1, <1>6, <1>7, <2>1, CountUp
<1>9. Good(n) /\ WalletTrue(v)
  <2> HIDE DEF Good
  <2>. QED BY <1>5, <1>8 DEF TrueWallets
<1>10. ASSUME Knew PROVE Knows(v.map, b)
  <2>1. KnowsUpTo(v.map, b, IF n = 0 THEN h ELSE h + n - 1)
    BY <1>5, <1>9, <1>10
  <2>2. (IF n = 0 THEN h ELSE h + n - 1) = Height[b]
    <3>1. Fork(best, b) = b => h = Height[b]
        BY DEF h
    <3>. QED BY <1>0, <1>1, <3>1
  <2>3. KnowsUpTo(v.map, b, Height[b])
    BY <2>1, <2>2
  <2>. QED BY <2>3, KnowsHeights
<1>11. Fork(best, b) = b => v = w
    BY <1>1, <1>5
<1> HIDE DEF Knew
<1>. QED BY <1>5, <1>9, <1>10, <1>11 DEF Knew, h

-----------------------------------------------------------------------------
(* The records are true, whatever happens.                                 *)

\* SetToSeq of a finite set of transactions.
LEMMA SetToSeqType ==
    ASSUME NEW S \in SUBSET Txs
    PROVE  SetToSeq(S) \in Seq(Txs) /\ \A k \in DOMAIN SetToSeq(S) : SetToSeq(S)[k] \in S
<1>1. IsFiniteSet(S)
    BY WalletAssumption, FS_Subset
<1>2. Cardinality(S) \in Nat /\ ExistsBijection(1..Cardinality(S), S)
    BY <1>1, FS_CardinalityType
<1>3. \E f \in [1..Cardinality(S) -> S] : IsInjective(f)
    BY <1>2 DEF ExistsBijection, Bijection, Injection, IsInjective
<1>4. SetToSeq(S) \in [1..Cardinality(S) -> S]
    BY <1>3, Zenon DEF SetToSeq
<1>5. SetToSeq(S) \in [1..Cardinality(S) -> Txs]
    BY <1>4
<1>6. SetToSeq(S) \in Seq(Txs)
    BY <1>2, <1>5, SeqDef
<1>. QED BY <1>4, <1>6

\* The transactions of a block come as a sequence.
LEMMA VtxType ==
    ASSUME NEW b \in Blocks
    PROVE  /\ Vtx[b] \in Seq(Txs) /\ ToSet(Vtx[b]) \subseteq Txs
           /\ \A k \in DOMAIN Vtx[b] : Vtx[b][k] \in ToSet(Vtx[b]) /\ Vtx[b][k] \in Txs
<1>1. Vtx[b] \in Seq(Txs)
    BY ChainAssumption
<1>2. \A k \in DOMAIN Vtx[b] : Vtx[b][k] \in Txs
    BY <1>1
<1>. QED BY <1>1, <1>2 DEF ToSet

\* Transactions of no block may be told while any chain is to be remembered.
LEMMA SyncMayNull ==
    ASSUME NEW b, NEW d, NEW txs \in Seq(Txs), NEW Q
    PROVE  SyncMay(b, d, txs, Null, TRUE, Q)
<1>1. \A k \in DOMAIN txs : txs[k] \in Txs
    OBVIOUS
<1>. QED BY <1>1 DEF SyncMay, Told

\* Init.
LEMMA RecordsInit == Init => RecordsInv
<1> SUFFICES ASSUME Init PROVE RecordsInv
    OBVIOUS
<1>1. KnowsBelow(EmptyWallet.map, Base) /\ Base \in Blocks
  <2>1. Base \in Blocks /\ Chain[Base][1] = Base
    BY ChainAssumption
  <2>2. 1 \in 1..Height[Base]
    BY <2>1, ChainPositions
  <2>3. ChainOf[Base] = {Chain[Base][i] : i \in 1..1}
    BY <2>1, <2>2, ChainAt
  <2>4. ChainOf[Base] \ {Base} = {}
    BY <2>1, <2>3
  <2>. QED BY <2>1, <2>4 DEF KnowsBelow
<1>2. WalletTrue(InitWallet)
    BY <1>1, EmptyTrue, SyncBlockTrue DEF InitWallet
<1>3. MapTrue(InitWallet.map)
    BY <1>2, WalletParts
<1> HIDE DEF InitWallet
<1>. QED BY <1>1, <1>2, <1>3 DEF Init, RecordsInv

\* ConnectTip.
LEMMA ConnectFollows ==
    ASSUME RecordsInv, NEW b \in Blocks, ConnectTip(b), NEW Q
    PROVE  \E x : /\ WalletTrue(x) /\ Follows(wallet, x, b, Q)
                  /\ wallet' = SyncAll(x, b, pool', Vtx[b], b, TRUE)
<1> DEFINE confirmed == ToSet(Vtx[b])
           kept == pool \ confirmed
           conflicts == WithDescendants(kept,
               {u \in kept : \E t \in confirmed : Inputs[u] \cap Inputs[t] # {}})
           x == SyncAll(wallet, b, pool', SetToSeq(conflicts), Null, TRUE)
<1>1. wallet' = SyncAll(x, b, pool', Vtx[b], b, TRUE)
    BY DEF ConnectTip
<1>2. conflicts \in SUBSET Txs
    BY DEF RecordsInv, WithDescendants
<1> HIDE DEF conflicts
<1>3. SetToSeq(conflicts) \in Seq(Txs) /\ SyncMay(b, b, SetToSeq(conflicts), Null, TRUE, Q)
    BY <1>2, SetToSeqType, SyncMayNull
<1>4. WalletTrue(x) /\ Follows(wallet, x, b, Q)
    BY <1>3, ChainFacts, SyncAllTrue DEF RecordsInv
<1>. QED BY <1>1, <1>4

\* The entries after a step whose wallet is true.
LEMMA RecordsKept ==
    ASSUME RecordsInv, WalletTrue(wallet'), tip' \in Blocks, pool' \subseteq Txs,
           disk' = disk, created' \subseteq created
    PROVE  RecordsInv'
    BY DEF RecordsInv

\* A transaction of the pool, or of the user.
LEMMA SyncNull ==
    ASSUME NEW w, WalletTrue(w), NEW t \in Txs, NEW b \in Blocks, NEW q, NEW Q
    PROVE  /\ WalletTrue(SyncTransaction(w, b, q, t, Null, TRUE))
           /\ Follows(w, SyncTransaction(w, b, q, t, Null, TRUE), b, Q)
           /\ Involved(w, t) => Recorded(SyncTransaction(w, b, q, t, Null, TRUE), t, Null)
<1>1. Told(t, Null, b) /\ b \in ChainOf[b]
    BY ChainFacts DEF Told
<1>. QED BY <1>1, SyncTrue

\* What a payment leaves in the wallet.
LEMMA CommitFollows ==
    ASSUME RecordsInv, NEW t \in created, NEW Q, NEW x,
           x = MarkDirty(AddToWallet(wallet, t, WalletTx(Null)), Prevs[t])
    PROVE  /\ t \in Txs /\ WalletTrue(x) /\ Follows(wallet, x, tip, Q) /\ Recorded(x, t, Null)
<1>1. t \in Payments /\ Inputs[t] \subseteq Ours /\ tip \in Blocks /\ WalletTrue(wallet)
    BY DEF RecordsInv
<1>2. t \in Txs /\ Inputs[t] # {}
    BY <1>1, WalletAssumption
<1>3. Concerned(t) /\ Told(t, Null, tip)
    BY <1>1, <1>2 DEF Concerned, Told
<1> DEFINE y == AddToWallet(wallet, t, WalletTx(Null))
<1>4. WalletTrue(y) /\ Follows(wallet, y, tip, Q) /\ Recorded(y, t, Null)
    BY <1>1, <1>3, AddToWalletTrue
<1>5. x = MarkDirty(y, Prevs[t])
    OBVIOUS
<1> HIDE DEF y
<1>6. WalletTrue(x) /\ Follows(y, x, tip, Q) /\ x.map = y.map
    BY <1>4, <1>5, DirtyTrue, DirtyFields DEF WalletTrue
<1>7. Follows(wallet, x, tip, Q)
    BY <1>4, <1>6, FollowsTwice
<1>. QED BY <1>2, <1>4, <1>6, <1>7 DEF Recorded

\* The abandontransaction call.
LEMMA AbandonFollows ==
    ASSUME RecordsInv, NEW t, Abandon(t), NEW Q,
           CanAbandon(wallet, tip, pool, t) => t \notin Q /\ \A u \in SpendersOf(wallet, t) : u \notin Q
    PROVE  WalletTrue(wallet') /\ Follows(wallet, wallet', tip, Q)
<1>1. tip \in Blocks /\ WalletTrue(wallet) /\ t \in DOMAIN wallet.map
      /\ wallet' = AbandonTransaction(wallet, tip, pool, t)
    BY DEF RecordsInv, Abandon
<1>. QED BY <1>1, AbandonTrue

\* DisconnectTip, when nothing in Q spends a stake of the block.
LEMMA DisconnectFollows ==
    ASSUME RecordsInv, DisconnectTip, NEW Q,
           \A t \in ToSet(Vtx[tip]) \cap Stakes : t \notin Q /\ \A u \in Q : t \notin Prevs[u]
    PROVE  WalletTrue(wallet') /\ Follows(wallet, wallet', Parent[tip], Q)
<1> DEFINE b == Parent[tip]
<1>1. tip \in Blocks /\ WalletTrue(wallet) /\ tip # Base /\ wallet' = SyncAll(wallet, b, pool', Vtx[tip], Null, FALSE)
    BY DEF RecordsInv, DisconnectTip
<1>2. b \in Blocks /\ Vtx[tip] \in Seq(Txs)
    BY <1>1, ChainFacts, VtxType
<1> HIDE DEF b
<1>3. b \in ChainOf[b]
    BY <1>2, ChainFacts
<1>4. SyncMay(b, b, Vtx[tip], Null, FALSE, Q)
  <2>1. \A k \in DOMAIN Vtx[tip] : Vtx[tip][k] \in ToSet(Vtx[tip]) /\ Vtx[tip][k] \in Txs
    BY <1>1, VtxType
  <2>. QED BY <2>1 DEF SyncMay, Told
<1>5. WalletTrue(wallet') /\ Follows(wallet, wallet', b, Q)
    BY <1>1, <1>2, <1>3, <1>4, SyncAllTrue
<1>. QED BY <1>5 DEF b

\* What a start makes of the records m and the locator of best, on the chain that ends in b.
LEMMA StartTrue ==
    ASSUME NEW m, MapTrue(m), NEW best \in Blocks, NEW b \in Blocks, NEW v,
           v = ScanForWalletTransactions(LoadWallet(m, b), b, Rescanned(best, b))
    PROVE  /\ WalletTrue(v) /\ \A t \in Txs : v.cache[t] = NotCached
           /\ Knows(m, best) => Knows(v.map, b)
           /\ Knows(m, best) /\ Rescanned(best, b) = <<>> => Knows(v.map, best)
<1> DEFINE w == LoadWallet(m, b)
<1>1. b \in ChainOf[b]
    BY ChainFacts
<1>2. Loaded(w, m, b) /\ DOMAIN w.map = DOMAIN m
    BY <1>1, LoadTrue
<1>3. b \in ChainOf[best] => Loaded(w, m, best)
    BY LoadTrue
<1> HIDE DEF w
<1>4. v = ScanForWalletTransactions(w, b, Rescanned(best, b))
    BY DEF w
<1>5. /\ WalletTrue(v) /\ Follows(w, v, b, {})
      /\ Fork(best, b) = b => v = w
      /\ KnowsUpTo(w.map, b, Height[Fork(best, b)]) => Knows(v.map, b)
    BY <1>2, <1>4, ScanTrue DEF Loaded
<1>6. \A t \in Txs : v.cache[t] = NotCached
    BY <1>2, <1>5 DEF Loaded, Follows
<1>7. ASSUME Knows(m, best) PROVE KnowsUpTo(w.map, b, Height[Fork(best, b)])
  <2>1. ASSUME NEW i \in 1..Height[Fork(best, b)], NEW t \in ToSet(Vtx[Chain[b][i]])
        PROVE  KnowsTx(w.map, Chain[b][i], t)
    <3>1. Chain[b][i] \in ChainOf[b] /\ Chain[b][i] \in ChainOf[best]
        BY ForkFacts
    <3>. QED BY <1>2, <1>7, <3>1 DEF Knows, KnowsTx, Loaded
  <2>. QED BY <2>1 DEF KnowsUpTo
<1>8. ASSUME Knows(m, best), Rescanned(best, b) = <<>> PROVE Knows(v.map, best)
  <2>1. Fork(best, b) = b
    BY <1>8, RescannedBlocks
  <2>2. b \in ChainOf[best] /\ v = w
    BY <1>5, <2>1, ForkFacts
  <2>. QED BY <1>2, <1>3, <1>8, <2>2 DEF Knows, Loaded
<1>. QED BY <1>5, <1>6, <1>7, <1>8

\* The credits that GetBalance caches are of true outputs.
LEMMA BalanceTrue ==
    ASSUME RecordsInv, GetBalance
    PROVE  /\ WalletTrue(wallet') /\ wallet'.map = wallet.map
           /\ \A t \in Txs : \/ wallet'.cache[t] = wallet.cache[t]
                             \/ wallet'.cache[t] = UnspentOf(wallet, tip, t)
<1> DEFINE Counted(t) == /\ t \in DOMAIN wallet.map
                         /\ IsTrusted(wallet, tip, pool, t) /\ ~IsImmature(wallet, tip, t)
           k == [t \in Txs |-> IF Counted(t) /\ wallet.cache[t] = NotCached
                               THEN UnspentOf(wallet, tip, t) ELSE wallet.cache[t]]
           x == [map |-> wallet.map, spends |-> wallet.spends, cache |-> k]
<1>0. WalletTrue(wallet)
    BY DEF RecordsInv
<1>1. /\ wallet = [map |-> wallet.map, spends |-> wallet.spends, cache |-> wallet.cache]
      /\ wallet.cache \in [Txs -> {NotCached} \cup SUBSET Outpoints]
      /\ wallet \in Wallets /\ MapTrue(wallet.map) /\ SpendsTrue(wallet) /\ CachesTrue(wallet)
    BY <1>0, WalletFields DEF WalletTrue
<1>2. \A t \in Txs : /\ UnspentOf(wallet, tip, t) \subseteq OutpointsOf(t) \cap Ours
                     /\ UnspentOf(wallet, tip, t) \in SUBSET Outpoints
    BY WalletAssumption DEF UnspentOf
<1>3. /\ k \in [Txs -> {NotCached} \cup SUBSET Outpoints]
      /\ \A t \in Txs : \/ k[t] = wallet.cache[t]
                        \/ t \in DOMAIN wallet.map /\ k[t] = UnspentOf(wallet, tip, t)
  <2> DEFINE U(t) == UnspentOf(wallet, tip, t)
  <2> HIDE DEF U
  <2>1. k = [t \in Txs |-> IF Counted(t) /\ wallet.cache[t] = NotCached THEN U(t) ELSE wallet.cache[t]]
    BY DEF U
  <2>2. \A t \in Txs : U(t) \in SUBSET Outpoints
    BY <1>2 DEF U
  <2>3. \A t \in Txs : Counted(t) => t \in DOMAIN wallet.map
    OBVIOUS
  <2> HIDE DEF k, Counted
  <2>4. /\ k \in [Txs -> {NotCached} \cup SUBSET Outpoints]
        /\ \A t \in Txs : k[t] = wallet.cache[t] \/ (t \in DOMAIN wallet.map /\ k[t] = U(t))
    BY <1>1, <2>1, <2>2, <2>3
  <2>. QED BY <2>4 DEF U
<1>4. wallet' = [wallet EXCEPT !.cache = k]
    BY DEF GetBalance
<1> HIDE DEF k
<1>5. wallet' = x /\ x.map = wallet.map /\ x.spends = wallet.spends /\ x.cache = k
    BY <1>1, <1>4
<1>6. x \in Wallets
    BY <1>1, <1>3, <1>5, WalletFields
<1>7. SpendsTrue(x)
    BY <1>1, <1>5 DEF SpendsTrue
<1>8. CachesTrue(x)
  <2> HIDE DEF x
  <2>. QED BY <1>1, <1>2, <1>3, <1>5 DEF CachesTrue
<1> HIDE DEF x
<1>9. WalletTrue(x)
    BY <1>1, <1>5, <1>6, <1>7, <1>8 DEF WalletTrue
<1>. QED BY <1>3, <1>5, <1>9

\* A power failure and the start after it.
LEMMA RecordsCrash ==
    ASSUME RecordsInv, NEW coinsFlushed \in BOOLEAN, NEW walletFlushed \in BOOLEAN,
           Crash(coinsFlushed, walletFlushed)
    PROVE  RecordsInv'
<1> DEFINE b == IF coinsFlushed THEN tip ELSE disk.tip
           m == IF walletFlushed THEN wallet.map ELSE disk.map
           v == ScanForWalletTransactions(LoadWallet(m, b), b, Rescanned(disk.best, b))
           best == IF Rescanned(disk.best, b) = <<>> THEN disk.best ELSE b
<1>1. b \in Blocks /\ disk.best \in Blocks
    BY DEF RecordsInv
<1>2. MapTrue(m)
    BY DEF RecordsInv, WalletTrue
<1>3. /\ tip' = b /\ pool' = {} /\ wallet' = v /\ created' = {}
      /\ disk' = [map |-> v.map, best |-> best, tip |-> b]
    BY DEF Crash
<1> HIDE DEF b, m
<1>4. WalletTrue(v)
    BY <1>1, <1>2, StartTrue
<1> HIDE DEF v
<1>5. MapTrue(v.map) /\ best \in Blocks
    BY <1>1, <1>4 DEF WalletTrue
<1> HIDE DEF best
<1>. QED BY <1>1, <1>3, <1>4, <1>5 DEF RecordsInv

\* Every step keeps the records true.
LEMMA RecordsNext == RecordsInv /\ [Next]_vars => RecordsInv'
<1> SUFFICES ASSUME RecordsInv, [Next]_vars PROVE RecordsInv'
    OBVIOUS
<1>0. WalletTrue(wallet) /\ tip \in Blocks /\ pool \subseteq Txs
    BY DEF RecordsInv
<1>1. ASSUME NEW b \in Blocks, ConnectTip(b) PROVE RecordsInv'
  <2>1. PICK x : /\ WalletTrue(x) /\ Follows(wallet, x, b, {})
                 /\ wallet' = SyncAll(x, b, pool', Vtx[b], b, TRUE)
    BY <1>1, ConnectFollows
  <2>2. SyncMay(b, b, Vtx[b], b, TRUE, {}) /\ b \in ChainOf[b] /\ Vtx[b] \in Seq(Txs)
    <3>1. b \in ChainOf[b] /\ b # Null
        BY ChainFacts, ChainAssumption
    <3>. QED BY <3>1, VtxType DEF SyncMay, Told
  <2>3. WalletTrue(wallet')
    BY <2>1, <2>2, SyncAllTrue
  <2>4. tip' = b /\ disk' = disk /\ created' = created
    BY <1>1 DEF ConnectTip
  <2>5. pool' \subseteq pool
    BY <1>1, Zenon DEF ConnectTip
  <2>. QED BY <1>0, <2>3, <2>4, <2>5, RecordsKept
<1>2. ASSUME DisconnectTip PROVE RecordsInv'
  <2>1. WalletTrue(wallet')
    <3>1. \A t \in ToSet(Vtx[tip]) \cap Stakes : t \notin {} /\ \A u \in {} : t \notin Prevs[u]
        OBVIOUS
    <3>2. WalletTrue(wallet') /\ Follows(wallet, wallet', Parent[tip], {})
        BY <1>2, <3>1, DisconnectFollows
    <3>. QED BY <3>2
  <2>2. tip' = Parent[tip] /\ pool' \subseteq pool /\ disk' = disk /\ created' = created /\ tip # Base
    BY <1>2 DEF DisconnectTip
  <2>3. Parent[tip] \in Blocks
    BY <1>0, <2>2, ChainFacts
  <2>. QED BY <1>0, <2>1, <2>2, <2>3, RecordsKept
<1>3. ASSUME NEW t \in Txs, AcceptToMemoryPool(t) PROVE RecordsInv'
  <2>1. /\ wallet' = SyncTransaction(wallet, tip, pool', t, Null, TRUE)
        /\ tip' = tip /\ pool' = pool \cup {t} /\ disk' = disk /\ created' = created
    BY <1>3 DEF AcceptToMemoryPool
  <2>2. WalletTrue(wallet')
    BY <1>0, <2>1, SyncNull
  <2>. QED BY <1>0, <2>1, <2>2, RecordsKept
<1>4. ASSUME NEW t \in Txs, EvictFromPool(t) PROVE RecordsInv'
    BY <1>4, <1>0, RecordsKept DEF EvictFromPool
<1>5. ASSUME NEW t \in Txs, CreateTransaction(t) PROVE RecordsInv'
  <2>1. /\ created' = {t} /\ t \in Payments /\ Inputs[t] \subseteq Ours
        /\ UNCHANGED <<tip, pool, wallet, disk>>
    BY <1>5 DEF CreateTransaction, AvailableCoins
  <2>. QED BY <2>1 DEF RecordsInv
<1>6. ASSUME NEW t \in Txs, CommitTransaction(t) PROVE RecordsInv'
  <2> DEFINE x == MarkDirty(AddToWallet(wallet, t, WalletTx(Null)), Prevs[t])
  <2>1. /\ t \in created /\ created' = {} /\ tip' = tip /\ disk' = disk
        /\ \/ (pool' = pool \cup {t} /\ wallet' = SyncTransaction(x, tip, pool', t, Null, TRUE))
           \/ (pool' = pool /\ wallet' = x)
    BY <1>6, Zenon DEF CommitTransaction
  <2>2. WalletTrue(x)
    BY <2>1, CommitFollows
  <2> HIDE DEF x
  <2>3. WalletTrue(wallet')
    BY <1>0, <2>1, <2>2, SyncNull
  <2>4. pool' \subseteq Txs
    BY <1>0, <2>1
  <2>. QED BY <1>0, <2>1, <2>3, <2>4, RecordsKept
<1>7. ASSUME NEW t \in Txs, Abandon(t) PROVE RecordsInv'
  <2>1. WalletTrue(wallet')
    <3>1. t \notin {} /\ \A u \in SpendersOf(wallet, t) : u \notin {}
        OBVIOUS
    <3>2. WalletTrue(wallet') /\ Follows(wallet, wallet', tip, {})
        BY <1>7, <3>1, AbandonFollows
    <3>. QED BY <3>2
  <2>. QED BY <1>0, <1>7, <2>1, RecordsKept DEF Abandon
<1>8. ASSUME GetBalance PROVE RecordsInv'
  <2>1. WalletTrue(wallet')
    BY <1>8, BalanceTrue
  <2>. QED BY <1>0, <1>8, <2>1, RecordsKept DEF GetBalance
<1>9. ASSUME NEW full \in BOOLEAN, FlushStateToDisk(full) PROVE RecordsInv'
  <2>1. /\ disk' = [map |-> wallet.map, best |-> tip, tip |-> IF full THEN tip ELSE disk.tip]
        /\ UNCHANGED <<tip, pool, wallet, created>>
    BY <1>9 DEF FlushStateToDisk
  <2>2. disk'.map = wallet.map /\ disk'.best = tip /\ disk'.tip \in Blocks
    BY <2>1 DEF RecordsInv
  <2>3. MapTrue(wallet.map)
    BY <1>0 DEF WalletTrue
  <2>. QED BY <2>1, <2>2, <2>3 DEF RecordsInv
<1>10. ASSUME NEW coinsFlushed \in BOOLEAN, NEW walletFlushed \in BOOLEAN, Crash(coinsFlushed, walletFlushed)
       PROVE  RecordsInv'
    BY <1>10, RecordsCrash
<1>11. ASSUME UNCHANGED vars PROVE RecordsInv'
    BY <1>11 DEF vars, RecordsInv
<1>. QED BY <1>1, <1>2, <1>3, <1>4, <1>5, <1>6, <1>7, <1>8, <1>9, <1>10, <1>11, Zenon DEF Next

\* In every reachable state, on every chain and after every crash, an entry of the wallet
\* that is in a block is of a transaction of that block, and one that is in conflict with a
\* block is really in conflict with it (AddToWallet, MarkConflicted and LoadTx).
THEOREM RecordsAlwaysTrue == Spec => []RecordsInv
<1>. QED BY RecordsInit, RecordsNext, PTL DEF Spec

\* MarkConflicted never gives up a transaction that could still be confirmed: whatever has
\* a negative depth conflicts with a block at that depth, or builds on what does.
THEOREM ConflictsAlwaysReal == Spec => []ConflictsReal
<1>1. RecordsInv => ConflictsReal
  <2> SUFFICES ASSUME RecordsInv, NEW t \in DOMAIN wallet.map, GetDepthInMainChain(wallet, tip, t) < 0
               PROVE  InConflict(t, wallet.map[t].hashBlock)
    BY DEF ConflictsReal, InConflict
  <2>1. tip \in Blocks /\ WalletTrue(wallet)
    BY DEF RecordsInv
  <2>2. EntryTrue(t, wallet.map[t]) /\ wallet.map[t].inBlock \in BOOLEAN
    BY <2>1, WalletParts DEF EntryTrue, Entries
  <2>3. wallet.map[t].hashBlock \in ChainOf[tip] /\ ~wallet.map[t].inBlock
    BY <2>1, <2>2, DepthSign
  <2>4. wallet.map[t].hashBlock \in Blocks
    BY <2>1, <2>3, ChainFacts
  <2>. QED BY <2>2, <2>3, <2>4 DEF EntryTrue
<1>. QED BY <1>1, RecordsAlwaysTrue, PTL

-----------------------------------------------------------------------------
(* The pool and the chain.                                                 *)

\* What leaves the pool takes its descendants with it.
LEMMA DescendantsClosed ==
    ASSUME NEW q, NEW S
    PROVE  /\ S \subseteq WithDescendants(q, S) /\ WithDescendants(q, S) \subseteq q \cup S
           /\ \A t \in q : Prevs[t] \cap WithDescendants(q, S) # {} => t \in WithDescendants(q, S)
<1>1. S \subseteq WithDescendants(q, S) /\ WithDescendants(q, S) \subseteq q \cup S
    BY Zenon DEF WithDescendants
<1>2. ASSUME NEW t \in q, NEW p \in Prevs[t], p \in WithDescendants(q, S) PROVE t \in WithDescendants(q, S)
  <2>1. ASSUME NEW R \in SUBSET (q \cup S), S \subseteq R, \A u \in q : Prevs[u] \cap R # {} => u \in R
        PROVE  t \in R
    <3>1. p \in R
        BY <1>2, <2>1, Zenon DEF WithDescendants
    <3>2. Prevs[t] \cap R # {}
        BY <1>2, <3>1
    <3>. QED BY <2>1, <3>2
  <2>. QED BY <2>1, Zenon DEF WithDescendants
<1>. QED BY <1>1, <1>2

\* The pool q could be mined on the chain that ends in b.
Minable(b, q) ==
    /\ q \subseteq Txs \ Generated
    /\ q \cap TxsOf[b] = {}
    /\ \A t \in q : \A o \in Inputs[t] : o \notin SpentOn[b] /\ o[1] \in q \cup TxsOf[b]

\* Taking out what is closed under descendants leaves the pool minable.
LEMMA MinableLess ==
    ASSUME NEW b, NEW q, Minable(b, q), NEW S
    PROVE  Minable(b, q \ WithDescendants(q, S))
<1> DEFINE D == WithDescendants(q, S)
<1>1. \A t \in q : Prevs[t] \cap D # {} => t \in D
    BY DescendantsClosed
<1> HIDE DEF D
<1>2. ASSUME NEW t \in q \ D, NEW o \in Inputs[t] PROVE o \notin SpentOn[b] /\ o[1] \in (q \ D) \cup TxsOf[b]
  <2>1. o \notin SpentOn[b] /\ o[1] \in q \cup TxsOf[b] /\ t \in Txs
    BY DEF Minable
  <2>2. o[1] \in Prevs[t]
    BY <2>1, PrevsFacts
  <2>3. o[1] \notin D
    BY <1>1, <2>2
  <2>. QED BY <2>1, <2>3
<1>3. Minable(b, q \ D)
    BY <1>2 DEF Minable
<1>. QED BY <1>3 DEF D

\* What the pool accepts can be mined after the rest of it.
LEMMA MinableMore ==
    ASSUME NEW b, NEW q, Minable(b, q), NEW t \in Txs, Acceptable(b, q, t)
    PROVE  Minable(b, q \cup {t})
<1>1. t \notin q \cup TxsOf[b] \cup Generated
    BY DEF Acceptable
<1>2. \A o \in Inputs[t] : o \notin SpentOn[b] /\ o[1] \in q \cup TxsOf[b]
    BY DEF Acceptable, CanSpend
<1>. QED BY <1>1, <1>2 DEF Minable

\* ConnectTip.
LEMMA MinableConnect ==
    ASSUME NEW b \in Blocks, ConnectTip(b), PoolInv
    PROVE  Minable(b, pool') /\ pool' \subseteq pool
<1> DEFINE confirmed == ToSet(Vtx[b])
           kept == pool \ confirmed
           rivals == {u \in kept : \E t \in confirmed : Inputs[u] \cap Inputs[t] # {}}
           conflicts == WithDescendants(kept, rivals)
<1>1. pool' = kept \ conflicts /\ b # Base /\ Parent[b] = tip
    BY Zenon DEF ConnectTip
<1>2. TxsOf[b] = TxsOf[tip] \cup confirmed /\ \A o \in SpentOn[b] : \E t \in TxsOf[b] : o \in Inputs[t]
    BY <1>1, TxsOnChain
<1>3. tip \in Blocks /\ \A t \in TxsOf[tip] : Inputs[t] \subseteq SpentOn[tip]
  <2>1. tip \in Blocks
    BY <1>1, ChainFacts
  <2>. QED BY <2>1, TxsOnChain
<1>4. rivals \subseteq conflicts /\ \A t \in kept : Prevs[t] \cap conflicts # {} => t \in conflicts
    BY DescendantsClosed
<1> HIDE DEF conflicts
<1>5. ASSUME NEW t \in pool' PROVE t \in pool /\ t \in kept /\ t \notin conflicts /\ t \in Txs \ Generated /\ t \notin TxsOf[tip]
    BY <1>1 DEF PoolInv
<1>6. ASSUME NEW t \in pool', NEW o \in Inputs[t] PROVE o \notin SpentOn[b] /\ o[1] \in pool' \cup TxsOf[b]
  <2>1. o \notin SpentOn[tip] /\ o[1] \in pool \cup TxsOf[tip]
    BY <1>5 DEF PoolInv
  <2>2. ASSUME o \in SpentOn[b] PROVE FALSE
    <3>1. PICK u \in TxsOf[b] : o \in Inputs[u]
        BY <1>2, <2>2
    <3>2. u \in confirmed
        BY <1>2, <1>3, <2>1, <3>1
    <3>3. t \in rivals
        BY <1>5, <3>1, <3>2
    <3>. QED BY <1>4, <1>5, <3>3
  <2>3. o[1] \in Prevs[t]
    BY <1>5, PrevsFacts
  <2>4. o[1] \notin conflicts
    BY <1>4, <1>5, <2>3
  <2>. QED BY <1>1, <1>2, <2>1, <2>2, <2>4
<1>7. ASSUME NEW t \in pool' PROVE t \notin TxsOf[b]
    BY <1>2, <1>5
<1>. QED BY <1>5, <1>6, <1>7 DEF Minable

\* DisconnectTip and removeForReorg.
LEMMA MinableDisconnect ==
    ASSUME DisconnectTip, PoolInv, tip \in Blocks
    PROVE  Minable(Parent[tip], pool') /\ pool' \subseteq pool
<1> DEFINE b == Parent[tip]
           left == pool \ WithDescendants(pool, ToSet(Vtx[tip]))
           immature == {t \in left : \E o \in Inputs[t] : ~CanSpend(b, left, o)}
           gone == WithDescendants(left, immature)
<1>1. pool' = left \ gone /\ tip # Base
    BY Zenon DEF DisconnectTip
<1>2. TxsOf[b] \subseteq TxsOf[tip] /\ SpentOn[b] \subseteq SpentOn[tip]
  <2>1. b \in ChainOf[tip]
    BY <1>1, ChainFacts
  <2>. QED BY <2>1, TxsOnChain
<1>3. left \subseteq pool
    OBVIOUS
<1> HIDE DEF left
<1>4. immature \subseteq gone /\ \A t \in left : Prevs[t] \cap gone # {} => t \in gone
    BY DescendantsClosed
<1> HIDE DEF gone
<1>5. ASSUME NEW t \in pool' PROVE t \in left /\ t \notin gone /\ t \in Txs \ Generated /\ t \notin TxsOf[b]
    BY <1>1, <1>2, <1>3 DEF PoolInv
<1>6. ASSUME NEW t \in pool', NEW o \in Inputs[t] PROVE o \notin SpentOn[b] /\ o[1] \in pool' \cup TxsOf[b]
  <2>1. t \notin immature
    BY <1>4, <1>5
  <2>2. CanSpend(b, left, o)
    BY <1>5, <2>1
  <2>3. o[1] \in Prevs[t]
    BY <1>5, PrevsFacts
  <2>4. o[1] \notin gone
    BY <1>4, <1>5, <2>3
  <2>. QED BY <1>1, <2>2, <2>4 DEF CanSpend
<1> HIDE DEF immature
<1>7. Minable(b, pool') /\ pool' \subseteq pool
  <2> HIDE DEF b
  <2>. QED BY <1>1, <1>3, <1>5, <1>6 DEF Minable
<1>. QED BY <1>7 DEF b

\* What a minable pool builds on is there, so that no block of the chain is in conflict with it.
LEMMA NoConflictInPool ==
    ASSUME NEW b \in Blocks, NEW q, Minable(b, q), NEW t \in q, NEW c \in ChainOf[b]
    PROVE  ~InConflict(t, c)
<1> DEFINE C == q \cup TxsOf[b]
<1>1. C \in SUBSET Txs /\ t \in Txs
    BY TxsOnChain DEF Minable
<1>2. ASSUME NEW x \in C PROVE Prevs[x] \subseteq C
  <2>1. CASE x \in TxsOf[b]
    BY <2>1, TxsOnChain
  <2>2. CASE x \in q
    <3>1. x \in Txs /\ \A o \in Inputs[x] : o[1] \in C
        BY <2>2 DEF Minable
    <3>. QED BY <3>1 DEF Prevs
  <2>. QED BY <2>1, <2>2
<1>3. AncestorsOf(t) \subseteq C
    BY <1>1, <1>2, Ancestors
<1>4. SUFFICES ASSUME NEW u \in AncestorsOf(t), NEW v \in ToSet(Vtx[c]), u # v, Inputs[u] \cap Inputs[v] # {} PROVE FALSE
    BY DEF InConflict
<1>5. v \in TxsOf[b] /\ Inputs[v] \subseteq SpentOn[b]
    BY TxsOnChain
<1>6. CASE u \in q
    BY <1>4, <1>5, <1>6 DEF Minable
<1>7. CASE u \in TxsOf[b]
    BY <1>4, <1>5, <1>7, ValidBlocks
<1>. QED BY <1>3, <1>6, <1>7

-----------------------------------------------------------------------------
(* The wallet knows the active chain and the pool.                         *)

\* The wallet has what concerns it in q, not abandoned.
Held(q, m) == \A t \in q : Concerned(t) => t \in DOMAIN m /\ m[t].hashBlock # Abandoned

\* What is cached counts nothing that the chain which ends in b spends.
Balanced(w, b) ==
    \A t \in Txs : \/ w.cache[t] = NotCached
                   \/ w.cache[t] \cap SpentOn[b] \subseteq StakeInputs

\* The invariant by its parts.
LEMMA InvParts ==
    /\ WalletInv <=> /\ RecordsInv /\ Minable(tip, pool) /\ Knows(wallet.map, tip)
                     /\ Knows(disk.map, disk.best) /\ Held(pool, wallet.map) /\ Balanced(wallet, tip)
    /\ WalletInv' <=> /\ RecordsInv' /\ Minable(tip', pool') /\ Knows(wallet'.map, tip')
                      /\ Knows(disk'.map, disk'.best) /\ Held(pool', wallet'.map) /\ Balanced(wallet', tip')
<1>1. PoolInv = Minable(tip, pool) /\ PoolKnown = Held(pool, wallet.map) /\ BalanceUnspent = Balanced(wallet, tip)
    BY DEF PoolInv, Minable, PoolKnown, Held, BalanceUnspent, Balanced
<1>2. PoolInv' = Minable(tip', pool') /\ PoolKnown' = Held(pool', wallet'.map) /\ BalanceUnspent' = Balanced(wallet', tip')
    BY DEF PoolInv, Minable, PoolKnown, Held, BalanceUnspent, Balanced
<1>3. Knows(wallet.map, tip)' = Knows(wallet'.map, tip') /\ Knows(disk.map, disk.best)' = Knows(disk'.map, disk'.best)
    BY DEF Knows
<1>. QED BY <1>1, <1>2, <1>3 DEF WalletInv

\* What stays true of a wallet that follows another.
LEMMA FollowsKeeps ==
    ASSUME NEW w, NEW v, NEW d \in Blocks, NEW Q, Follows(w, v, d, Q)
    PROVE  /\ Knows(w.map, d) => Knows(v.map, d)
           /\ Held(Q, w.map) => Held(Q, v.map)
           /\ \A b : Balanced(w, b) => Balanced(v, b)
<1>1. Knows(w.map, d) => Knows(v.map, d)
    BY DEF Follows, Knows
<1>2. ASSUME Held(Q, w.map), NEW t \in Q, Concerned(t) PROVE t \in DOMAIN v.map /\ v.map[t].hashBlock # Abandoned
  <2>1. t \in DOMAIN w.map /\ w.map[t].hashBlock # Abandoned
    BY <1>2 DEF Held
  <2>2. t \in DOMAIN v.map
    BY <2>1 DEF Follows
  <2>. QED BY <2>1, <2>2 DEF Follows
<1>3. \A b : Balanced(w, b) => Balanced(v, b)
    BY DEF Follows, Balanced
<1>. QED BY <1>1, <1>2, <1>3 DEF Held

\* A shorter chain.
LEMMA KnowsLess ==
    ASSUME NEW m, NEW b \in Blocks, NEW c \in ChainOf[b], Knows(m, b)
    PROVE  Knows(m, c)
<1>1. ChainOf[c] \subseteq ChainOf[b]
    BY ChainFacts
<1>. QED BY <1>1 DEF Knows

\* A transaction that concerns the wallet and builds on what the wallet has involves it.
LEMMA PoolInvolved ==
    ASSUME NEW m, NEW w, w.map = m, NEW b \in Blocks, NEW q, Knows(m, b), Held(q, m),
           NEW t \in Txs, \A o \in Inputs[t] : o[1] \in q \cup TxsOf[b], Concerned(t)
    PROVE  Involved(w, t)
<1>1. CASE IsMine(t)
    BY <1>1 DEF Involved
<1>2. CASE Inputs[t] \cap Ours # {}
  <2>1. PICK o \in Inputs[t] : o \in Ours
    BY <1>2
  <2>2. Concerned(o[1])
    <3>1. o \in OutpointsOf(o[1]) \cap Ours
        BY <2>1, PrevsFacts
    <3>. QED BY <3>1 DEF Concerned, IsMine
  <2>3. o[1] \in DOMAIN m
    <3>1. CASE o[1] \in q
        BY <2>2, <3>1 DEF Held
    <3>2. CASE o[1] \in TxsOf[b]
      <4>1. PICK c \in ChainOf[b] : o[1] \in ToSet(Vtx[c])
        BY <3>2, TxsOnChain
      <4>. QED BY <2>2, <4>1 DEF Knows
    <3>. QED BY <3>1, <3>2
  <2>. QED BY <2>1, <2>3 DEF Involved, IsFromMe
<1>. QED BY <1>1, <1>2 DEF Concerned

\* The depth of what a block of the chain confirms.
LEMMA ConfirmedDepth ==
    ASSUME NEW w, NEW b \in Blocks, NEW c \in ChainOf[b], NEW t, w.map[t] = WalletTx(c)
    PROVE  GetDepthInMainChain(w, b, t) > 0
<1>1. c \in Blocks
    BY ChainFacts
<1>2. c # Null
    BY <1>1, ChainAssumption
<1>3. w.map[t] = [hashBlock |-> c, inBlock |-> TRUE]
    BY <1>2 DEF WalletTx
<1>4. GetDepthInMainChain(w, b, t) = 1 * (Height[b] - Height[c] + 1)
    BY <1>3 DEF GetDepthInMainChain
<1>5. Height[b] \in Nat /\ Height[c] \in Nat /\ Height[c] <= Height[b]
    BY ChainFacts
<1>. QED BY <1>4, <1>5

\* A confirmed transaction of the wallet counts as a spender of its inputs.
LEMMA ChainSpends ==
    ASSUME NEW w, WalletTrue(w), NEW b \in Blocks, Knows(w.map, b), NEW o, o \in Ours \ StakeInputs, o \in SpentOn[b]
    PROVE  IsSpent(w, b, o)
<1>1. PICK u \in TxsOf[b] : o \in Inputs[u]
    BY TxsOnChain
<1>2. PICK c \in ChainOf[b] : u \in ToSet(Vtx[c])
    BY TxsOnChain
<1>3. Concerned(u)
    BY <1>1 DEF Concerned
<1>4. u \in DOMAIN w.map /\ w.map[u] = WalletTx(c)
    BY <1>2, <1>3 DEF Knows
<1>5. <<o, u>> \in w.spends
    BY <1>1, <1>4 DEF WalletTrue, SpendsTrue
<1>6. u \in Spenders(w, o) \cap DOMAIN w.map
    BY <1>4, <1>5, SpendersKnown
<1>8. GetDepthInMainChain(w, b, u) > 0
    BY <1>4, ConfirmedDepth
<1>. QED BY <1>6, <1>8 DEF IsSpent

\* A transaction of the pool is unconfirmed and not given up.
LEMMA PoolDepth ==
    ASSUME NEW w, WalletTrue(w), NEW b \in Blocks, NEW q, Minable(b, q), NEW t \in q, t \in DOMAIN w.map
    PROVE  GetDepthInMainChain(w, b, t) = 0
<1>1. EntryTrue(t, w.map[t]) /\ w.map[t].inBlock \in BOOLEAN
    BY WalletParts DEF EntryTrue, Entries
<1>2. ASSUME w.map[t].hashBlock \in ChainOf[b] PROVE FALSE
  <2>1. w.map[t].hashBlock \in Blocks
    BY <1>2, ChainFacts
  <2>2. CASE w.map[t].inBlock
    <3>1. t \in ToSet(Vtx[w.map[t].hashBlock])
        BY <1>1, <2>1, <2>2 DEF EntryTrue
    <3>2. t \in TxsOf[b]
        BY <1>2, <3>1, TxsOnChain
    <3>. QED BY <3>2 DEF Minable
  <2>3. CASE ~w.map[t].inBlock
    <3>1. InConflict(t, w.map[t].hashBlock)
        BY <1>1, <2>1, <2>3 DEF EntryTrue
    <3>. QED BY <1>2, <3>1, NoConflictInPool
  <2>. QED BY <2>2, <2>3
<1>. QED BY <1>1, <1>2, DepthSign

\* A step that keeps the chain and the disk and makes the wallet follow itself.
LEMMA InvFollows ==
    ASSUME WalletInv, tip' = tip, disk' = disk, Minable(tip, pool'), RecordsInv',
           Follows(wallet, wallet', tip, pool), pool' \subseteq pool
    PROVE  WalletInv'
<1>1. /\ tip \in Blocks /\ Knows(wallet.map, tip) /\ Knows(disk.map, disk.best)
      /\ Held(pool, wallet.map) /\ Balanced(wallet, tip)
    BY InvParts DEF RecordsInv
<1>2. Knows(wallet'.map, tip) /\ Held(pool, wallet'.map) /\ Balanced(wallet', tip)
    BY <1>1, FollowsKeeps
<1>3. Held(pool', wallet'.map)
    BY <1>2 DEF Held
<1>. QED BY <1>1, <1>2, <1>3, InvParts

\* ConnectTip.
LEMMA InvConnect ==
    ASSUME WalletInv, RecordsInv', NEW b \in Blocks, ConnectTip(b)
    PROVE  WalletInv'
<1>1. /\ RecordsInv /\ PoolInv /\ tip \in Blocks /\ Knows(wallet.map, tip) /\ Knows(disk.map, disk.best)
      /\ Held(pool, wallet.map) /\ Balanced(wallet, tip) /\ WalletTrue(wallet)
    BY InvParts DEF RecordsInv, WalletInv
<1>2. b # Base /\ Parent[b] = tip /\ tip' = b /\ disk' = disk
    BY DEF ConnectTip
<1>3. ChainOf[b] = ChainOf[tip] \cup {b} /\ b \in ChainOf[b] /\ TxsOf[b] = TxsOf[tip] \cup ToSet(Vtx[b])
    BY <1>2, ChainFacts, TxsOnChain
<1>4. Minable(b, pool') /\ pool' \subseteq pool
    BY <1>1, MinableConnect
<1>5. PICK x : /\ WalletTrue(x) /\ Follows(wallet, x, b, pool)
               /\ wallet' = SyncAll(x, b, pool', Vtx[b], b, TRUE)
    BY <1>1, ConnectFollows
<1>6. KnowsBelow(x.map, b)
  <2>1. KnowsBelow(wallet.map, b)
    BY <1>1, <1>3 DEF Knows, KnowsBelow, KnowsTx
  <2>. QED BY <1>3, <1>5, <2>1, FollowsKnows
<1>7. /\ WalletTrue(wallet') /\ Follows(x, wallet', b, pool) /\ KnowsBelow(wallet'.map, b)
      /\ \A t \in ToSet(Vtx[b]) : KnowsTx(wallet'.map, b, t) /\ Uncached(wallet', t)
    BY <1>5, <1>6, SyncBlockTrue
<1>8. Follows(wallet, wallet', b, pool)
    BY <1>5, <1>7, FollowsTwice
<1>9. Knows(wallet'.map, b)
  <2>1. ASSUME NEW c \in ChainOf[b], NEW t \in ToSet(Vtx[c]) PROVE KnowsTx(wallet'.map, c, t)
    BY <1>7 DEF KnowsBelow
  <2>. QED BY <2>1 DEF Knows, KnowsTx
<1>10. Held(pool', wallet'.map)
  <2>1. Held(pool, wallet'.map)
    BY <1>1, <1>8, FollowsKeeps
  <2>. QED BY <1>4, <2>1 DEF Held
<1>11. Balanced(wallet', b)
  <2>1. Balanced(wallet', tip)
    BY <1>1, <1>8, FollowsKeeps
  <2>2. SUFFICES ASSUME NEW t \in Txs, wallet'.cache[t] # NotCached,
                        NEW o \in wallet'.cache[t], o \in SpentOn[b], o \notin SpentOn[tip]
                 PROVE  FALSE
    BY <2>1 DEF Balanced
  <2>3. PICK u \in TxsOf[b] : o \in Inputs[u]
    BY <2>2, TxsOnChain
  <2>4. u \in ToSet(Vtx[b])
    <3>1. \A y \in TxsOf[tip] : Inputs[y] \subseteq SpentOn[tip]
        BY <1>1, TxsOnChain
    <3>. QED BY <1>3, <2>2, <2>3, <3>1
  <2>5. o \in OutpointsOf(t) \cap Ours
    BY <1>7, <2>2 DEF WalletTrue, CachesTrue
  <2>6. o[1] = t /\ Concerned(u)
    BY <2>3, <2>5 DEF OutpointsOf, Concerned
  <2>7. u \in Txs
    BY <2>4, VtxType
  <2>8. t \in Prevs[u]
    BY <2>3, <2>6, <2>7, PrevsFacts
  <2>. QED BY <1>7, <2>2, <2>4, <2>6, <2>8 DEF Uncached
<1>. QED BY <1>1, <1>2, <1>4, <1>9, <1>10, <1>11, InvParts

\* A block is not on the chain of its parent.
LEMMA ParentHeight ==
    ASSUME NEW b \in Blocks, b # Base
    PROVE  b \notin ChainOf[Parent[b]]
<1> DEFINE n == Len(Chain[b])
<1>1. Chain[b] \in Seq(Blocks) /\ Chain[b] # <<>> /\ Chain[b][1] = Base /\ Chain[b][n] = b
    BY ChainAssumption
<1>2. n \in Nat /\ n >= 1 /\ n # 1
    BY <1>1
<1>3. n - 1 \in 1..n /\ n - 1 \in Nat
  <2> HIDE DEF n
  <2>. QED BY <1>2
<1>4. Parent[b] = Chain[b][n - 1] /\ Height[b] = n
    BY DEF Parent, Height
<1>5. Height[Parent[b]] = n - 1 /\ Parent[b] \in Blocks
    BY <1>3, <1>4, ChainPositions, ChainAt
<1>6. ASSUME b \in ChainOf[Parent[b]] PROVE FALSE
  <2>1. Height[b] <= Height[Parent[b]]
    BY <1>5, <1>6, ChainFacts
  <2> HIDE DEF n
  <2>. QED BY <1>2, <1>4, <1>5, <2>1
<1>. QED BY <1>6

\* DisconnectTip.
LEMMA InvDisconnect ==
    ASSUME WalletInv, RecordsInv', DisconnectTip
    PROVE  WalletInv'
<1> DEFINE b == Parent[tip]
<1>1. /\ RecordsInv /\ PoolInv /\ tip \in Blocks /\ Knows(wallet.map, tip) /\ Knows(disk.map, disk.best)
      /\ Held(pool, wallet.map) /\ Balanced(wallet, tip) /\ WalletTrue(wallet)
    BY InvParts DEF RecordsInv, WalletInv
<1>2. tip # Base /\ tip' = b /\ disk' = disk
    BY DEF DisconnectTip
<1>3. b \in Blocks /\ b \in ChainOf[tip] /\ tip \in ChainOf[tip] /\ tip \notin ChainOf[b]
  <2>1. b \in Blocks /\ ChainOf[tip] = ChainOf[b] \cup {tip}
    BY <1>1, <1>2, ChainFacts
  <2>2. b \in ChainOf[b]
    BY <2>1, ChainFacts
  <2>3. tip \notin ChainOf[b]
    BY <1>1, <1>2, ParentHeight
  <2>. QED BY <2>1, <2>2, <2>3
<1>4. Minable(b, pool') /\ pool' \subseteq pool
    BY <1>1, MinableDisconnect
<1>5. ASSUME NEW t \in ToSet(Vtx[tip]) \cap Stakes PROVE t \notin pool' /\ \A u \in pool' : t \notin Prevs[u]
  <2>1. t \in Generated
    BY DEF Generated
  <2>2. t \notin pool'
    BY <1>4, <2>1 DEF Minable
  <2>3. t \notin TxsOf[b]
    <3>1. SUFFICES ASSUME t \in TxsOf[b] PROVE FALSE
        OBVIOUS
    <3>2. PICK c \in ChainOf[b] : t \in ToSet(Vtx[c])
        BY <1>3, <3>1, TxsOnChain
    <3>3. c \in ChainOf[tip]
        BY <1>1, <1>3, <3>2, ChainFacts
    <3>4. c = tip
        BY <1>1, <1>3, <3>2, <3>3, OneBlock
    <3>. QED BY <1>3, <3>2, <3>4
  <2>4. ASSUME NEW u \in pool', t \in Prevs[u] PROVE FALSE
    <3>1. u \in Txs /\ \A o \in Inputs[u] : o[1] \in pool' \cup TxsOf[b]
        BY <1>4 DEF Minable
    <3>2. PICK o \in Inputs[u] : o[1] = t
        BY <2>4, <3>1, PrevsFacts
    <3>. QED BY <2>2, <2>3, <3>1, <3>2
  <2>. QED BY <2>2, <2>4
<1>6. WalletTrue(wallet') /\ Follows(wallet, wallet', b, pool')
    BY <1>1, <1>5, DisconnectFollows
<1>7. Knows(wallet.map, b) /\ Balanced(wallet, b) /\ Held(pool', wallet.map)
  <2>1. Knows(wallet.map, b)
    BY <1>1, <1>3, KnowsLess
  <2>2. SpentOn[b] \subseteq SpentOn[tip]
    BY <1>1, <1>3, TxsOnChain
  <2>3. Balanced(wallet, b)
    BY <1>1, <2>2 DEF Balanced
  <2>4. Held(pool', wallet.map)
    BY <1>1, <1>4 DEF Held
  <2>. QED BY <2>1, <2>3, <2>4
<1>8. Knows(wallet'.map, b) /\ Balanced(wallet', b) /\ Held(pool', wallet'.map)
    BY <1>3, <1>6, <1>7, FollowsKeeps
<1> HIDE DEF b
<1>. QED BY <1>1, <1>2, <1>4, <1>8, InvParts

\* A transaction comes into the pool and the wallet, whose entries are those of w before.
LEMMA InvAccept ==
    ASSUME WalletInv, RecordsInv', NEW t \in Txs, Acceptable(tip, pool, t),
           NEW w, WalletTrue(w), Follows(wallet, w, tip, pool),
           pool' = pool \cup {t}, wallet' = SyncTransaction(w, tip, pool', t, Null, TRUE),
           tip' = tip, disk' = disk
    PROVE  WalletInv'
<1>1. /\ tip \in Blocks /\ Minable(tip, pool) /\ Knows(wallet.map, tip) /\ Knows(disk.map, disk.best)
      /\ Held(pool, wallet.map) /\ Balanced(wallet, tip)
    BY InvParts DEF RecordsInv
<1>2. Minable(tip, pool')
    BY <1>1, MinableMore
<1>3. Knows(w.map, tip) /\ Held(pool, w.map) /\ Balanced(w, tip)
    BY <1>1, FollowsKeeps
<1>4. /\ Follows(w, wallet', tip, pool)
      /\ Involved(w, t) => Recorded(wallet', t, Null)
    BY <1>1, SyncNull
<1>5. Knows(wallet'.map, tip) /\ Held(pool, wallet'.map) /\ Balanced(wallet', tip)
    BY <1>1, <1>3, <1>4, FollowsKeeps
<1>6. ASSUME Concerned(t) PROVE t \in DOMAIN wallet'.map /\ wallet'.map[t].hashBlock # Abandoned
  <2>1. \A o \in Inputs[t] : o[1] \in pool \cup TxsOf[tip]
    BY DEF Acceptable, CanSpend
  <2>2. Involved(w, t)
    BY <1>1, <1>3, <1>6, <2>1, PoolInvolved
  <2>. QED BY <1>4, <2>2 DEF Recorded
<1>7. Held(pool', wallet'.map)
    BY <1>5, <1>6 DEF Held
<1>. QED BY <1>1, <1>2, <1>5, <1>7, InvParts

\* A payment that is sent.
LEMMA InvCommit ==
    ASSUME WalletInv, RecordsInv', NEW t \in Txs, CommitTransaction(t)
    PROVE  WalletInv'
<1> DEFINE x == MarkDirty(AddToWallet(wallet, t, WalletTx(Null)), Prevs[t])
<1>1. /\ t \in created /\ created' = {} /\ tip' = tip /\ disk' = disk
      /\ \/ /\ Acceptable(tip, pool, t)
            /\ pool' = pool \cup {t}
            /\ wallet' = SyncTransaction(x, tip, pool', t, Null, TRUE)
         \/ (pool' = pool /\ wallet' = x)
    BY Zenon DEF CommitTransaction
<1>2. RecordsInv /\ Minable(tip, pool)
    BY InvParts
<1>3. WalletTrue(x) /\ Follows(wallet, x, tip, pool)
    BY <1>1, <1>2, CommitFollows
<1> HIDE DEF x
<1>4. CASE Acceptable(tip, pool, t) /\ pool' = pool \cup {t} /\ wallet' = SyncTransaction(x, tip, pool', t, Null, TRUE)
    BY <1>1, <1>3, <1>4, InvAccept
<1>5. CASE pool' = pool /\ wallet' = x
  <2>1. Minable(tip, pool') /\ pool' \subseteq pool
    BY <1>2, <1>5
  <2>2. Follows(wallet, wallet', tip, pool)
    BY <1>3, <1>5
  <2>. QED BY <1>1, <2>1, <2>2, InvFollows
<1>. QED BY <1>1, <1>4, <1>5

\* Nothing that abandontransaction may reach is in the pool or in the chain.
LEMMA AbandonReach ==
    ASSUME WalletInv, NEW t \in DOMAIN wallet.map, CanAbandon(wallet, tip, pool, t),
           NEW u \in SpendersOf(wallet, t)
    PROVE  u \notin pool /\ u \notin TxsOf[tip] /\ GetDepthInMainChain(wallet, tip, u) <= 0
<1>1. /\ tip \in Blocks /\ Minable(tip, pool) /\ Knows(wallet.map, tip) /\ WalletTrue(wallet)
      /\ GetDepthInMainChain(wallet, tip, t) <= 0 /\ t \notin pool
    BY InvParts DEF RecordsInv, CanAbandon
<1>2. u \in DOMAIN wallet.map /\ u \in Txs /\ t \in Prevs[u]
    BY <1>1, SpendersKnown
<1>3. t \notin TxsOf[tip]
  <2>1. SUFFICES ASSUME t \in TxsOf[tip] PROVE FALSE
    OBVIOUS
  <2>2. PICK c \in ChainOf[tip] : t \in ToSet(Vtx[c])
    BY <1>1, <2>1, TxsOnChain
  <2>3. Concerned(t)
    BY <1>1, WalletParts DEF EntryTrue
  <2>4. wallet.map[t] = WalletTx(c)
    BY <1>1, <2>2, <2>3 DEF Knows
  <2>5. GetDepthInMainChain(wallet, tip, t) > 0
    BY <1>1, <2>4, ConfirmedDepth
  <2>6. GetDepthInMainChain(wallet, tip, t) \in Int
    <3>1. wallet.map[t].inBlock \in BOOLEAN
        BY <1>1, WalletParts DEF EntryTrue, Entries
    <3>. QED BY <1>1, <3>1, DepthSign
  <2>. QED BY <1>1, <2>5, <2>6
<1>4. u \notin TxsOf[tip]
    BY <1>1, <1>2, <1>3, TxsOnChain
<1>5. u \notin pool
  <2>1. SUFFICES ASSUME u \in pool PROVE FALSE
    OBVIOUS
  <2>2. PICK o \in Inputs[u] : o[1] = t
    BY <1>2, PrevsFacts
  <2>. QED BY <1>1, <1>3, <2>1, <2>2 DEF Minable
<1>6. GetDepthInMainChain(wallet, tip, u) <= 0
  <2>1. EntryTrue(u, wallet.map[u]) /\ wallet.map[u].inBlock \in BOOLEAN
    BY <1>1, <1>2, WalletParts DEF EntryTrue, Entries
  <2>2. GetDepthInMainChain(wallet, tip, u) \in Int
    BY <1>1, <2>1, DepthSign
  <2>3. ASSUME GetDepthInMainChain(wallet, tip, u) > 0 PROVE FALSE
    <3>1. wallet.map[u].hashBlock \in ChainOf[tip] /\ wallet.map[u].inBlock
        BY <1>1, <2>1, <2>3, DepthSign
    <3>2. u \in ToSet(Vtx[wallet.map[u].hashBlock])
        BY <2>1, <3>1 DEF EntryTrue
    <3>3. u \in TxsOf[tip]
        BY <1>1, <3>1, <3>2, TxsOnChain
    <3>. QED BY <1>4, <3>3
  <2>. QED BY <2>2, <2>3
<1>. QED BY <1>4, <1>5, <1>6

\* GetBalance counts no coin that the chain has spent.
LEMMA InvBalance ==
    ASSUME WalletInv, RecordsInv', GetBalance
    PROVE  WalletInv'
<1>1. /\ RecordsInv /\ tip \in Blocks /\ Minable(tip, pool) /\ Knows(wallet.map, tip) /\ Knows(disk.map, disk.best)
      /\ Held(pool, wallet.map) /\ Balanced(wallet, tip) /\ WalletTrue(wallet)
    BY InvParts DEF RecordsInv
<1>2. tip' = tip /\ pool' = pool /\ disk' = disk
    BY DEF GetBalance
<1>3. /\ wallet'.map = wallet.map
      /\ \A t \in Txs : \/ wallet'.cache[t] = wallet.cache[t]
                        \/ wallet'.cache[t] = UnspentOf(wallet, tip, t)
    BY <1>1, BalanceTrue
<1>4. \A t \in Txs : UnspentOf(wallet, tip, t) \cap SpentOn[tip] \subseteq StakeInputs
  <2> SUFFICES ASSUME NEW t \in Txs, NEW o \in UnspentOf(wallet, tip, t), o \in SpentOn[tip], o \notin StakeInputs
               PROVE  FALSE
    OBVIOUS
  <2>1. o \in Ours \ StakeInputs /\ ~IsSpent(wallet, tip, o)
    BY DEF UnspentOf
  <2>. QED BY <1>1, <2>1, ChainSpends
<1>5. Balanced(wallet', tip)
    BY <1>1, <1>3, <1>4 DEF Balanced
<1>. QED BY <1>1, <1>2, <1>3, <1>5, InvParts

\* A power failure, when ThreadFlushWalletDB does not run within a reorganisation.
LEMMA InvCrash ==
    ASSUME ~ReorgFlush, WalletInv, RecordsInv', NEW coinsFlushed \in BOOLEAN, NEW walletFlushed \in BOOLEAN,
           Crash(coinsFlushed, walletFlushed)
    PROVE  WalletInv'
<1> DEFINE b == IF coinsFlushed THEN tip ELSE disk.tip
           m == IF walletFlushed THEN wallet.map ELSE disk.map
           v == ScanForWalletTransactions(LoadWallet(m, b), b, Rescanned(disk.best, b))
           best == IF Rescanned(disk.best, b) = <<>> THEN disk.best ELSE b
<1>1. /\ RecordsInv /\ Knows(wallet.map, tip) /\ Knows(disk.map, disk.best) /\ tip \in Blocks
      /\ b \in Blocks /\ disk.best \in Blocks
    BY InvParts DEF RecordsInv
<1>2. MapTrue(m)
    BY <1>1 DEF RecordsInv, WalletTrue
<1>3. /\ tip' = b /\ pool' = {} /\ wallet' = v
      /\ disk' = [map |-> v.map, best |-> best, tip |-> b]
    BY DEF Crash
<1>4. walletFlushed => disk.best \in ChainOf[tip]
    BY DEF Crash
<1>5. Knows(m, disk.best)
  <2>1. ASSUME walletFlushed PROVE Knows(wallet.map, disk.best)
    BY <1>1, <1>4, <2>1, KnowsLess
  <2>. QED BY <1>1, <2>1
<1> HIDE DEF b, m
<1>6. /\ \A t \in Txs : v.cache[t] = NotCached
      /\ Knows(v.map, b)
      /\ Rescanned(disk.best, b) = <<>> => Knows(v.map, disk.best)
    BY <1>1, <1>2, <1>5, StartTrue
<1> HIDE DEF v
<1>7. Knows(v.map, best)
    BY <1>6
<1> HIDE DEF best
<1>8. disk'.map = v.map /\ disk'.best = best
    BY <1>3
<1>9. Minable(b, {}) /\ Held({}, v.map) /\ Balanced(v, b)
    BY <1>6 DEF Minable, Held, Balanced
<1>. QED BY <1>3, <1>6, <1>7, <1>8, <1>9, InvParts

\* Init.
LEMMA InvInit == Init => WalletInv
<1> SUFFICES ASSUME Init PROVE WalletInv
    OBVIOUS
<1>1. /\ tip = Base /\ pool = {} /\ wallet = InitWallet /\ disk.map = InitWallet.map /\ disk.best = Base
    BY DEF Init
<1>2. Base \in Blocks /\ ChainOf[Base] = {Base}
  <2>1. Base \in Blocks /\ Chain[Base][1] = Base
    BY ChainAssumption
  <2>2. 1 \in 1..Height[Base]
    BY <2>1, ChainPositions
  <2>3. ChainOf[Base] = {Chain[Base][i] : i \in 1..1}
    BY <2>1, <2>2, ChainAt
  <2>. QED BY <2>1, <2>3
<1>3. KnowsBelow(EmptyWallet.map, Base) /\ WalletTrue(EmptyWallet) /\ \A t \in Txs : EmptyWallet.cache[t] = NotCached
    BY <1>2, EmptyTrue DEF KnowsBelow
<1>4. /\ Follows(EmptyWallet, InitWallet, Base, {})
      /\ \A t \in ToSet(Vtx[Base]) : KnowsTx(InitWallet.map, Base, t)
    BY <1>2, <1>3, SyncBlockTrue DEF InitWallet
<1>5. Knows(InitWallet.map, Base)
    BY <1>2, <1>4 DEF Knows, KnowsTx
<1>6. Balanced(InitWallet, Base) /\ Held({}, InitWallet.map) /\ Minable(Base, {})
    BY <1>3, <1>4 DEF Balanced, Follows, Held, Minable
<1> HIDE DEF InitWallet
<1>. QED BY <1>1, <1>5, <1>6, RecordsInit, InvParts

\* Every step keeps the invariant.
LEMMA InvNext == ~ReorgFlush /\ WalletInv /\ [Next]_vars => WalletInv'
<1> SUFFICES ASSUME ~ReorgFlush, WalletInv, [Next]_vars PROVE WalletInv'
    OBVIOUS
<1>0. /\ RecordsInv /\ RecordsInv' /\ tip \in Blocks /\ Minable(tip, pool) /\ Knows(wallet.map, tip)
      /\ Knows(disk.map, disk.best) /\ Held(pool, wallet.map) /\ Balanced(wallet, tip) /\ WalletTrue(wallet)
  <2>1. RecordsInv
    BY InvParts
  <2>. QED BY <2>1, RecordsNext, InvParts DEF RecordsInv
<1>1. ASSUME NEW b \in Blocks, ConnectTip(b) PROVE WalletInv'
    BY <1>0, <1>1, InvConnect
<1>2. ASSUME DisconnectTip PROVE WalletInv'
    BY <1>0, <1>2, InvDisconnect
<1>3. ASSUME NEW t \in Txs, AcceptToMemoryPool(t) PROVE WalletInv'
  <2>1. /\ Acceptable(tip, pool, t) /\ wallet' = SyncTransaction(wallet, tip, pool', t, Null, TRUE)
        /\ tip' = tip /\ pool' = pool \cup {t} /\ disk' = disk
    BY <1>3 DEF AcceptToMemoryPool
  <2>2. Follows(wallet, wallet, tip, pool)
    BY FollowsItself
  <2>. QED BY <1>0, <2>1, <2>2, InvAccept
<1>4. ASSUME NEW t \in Txs, EvictFromPool(t) PROVE WalletInv'
  <2>1. pool' = pool \ WithDescendants(pool, {t}) /\ UNCHANGED <<tip, wallet, disk>>
    BY <1>4 DEF EvictFromPool
  <2>2. Minable(tip, pool') /\ pool' \subseteq pool
    BY <1>0, <2>1, MinableLess
  <2>3. Follows(wallet, wallet', tip, pool)
    BY <2>1, FollowsItself
  <2>. QED BY <1>0, <2>1, <2>2, <2>3, InvFollows
<1>5. ASSUME NEW t \in Txs, CreateTransaction(t) PROVE WalletInv'
    BY <1>0, <1>5, InvParts DEF CreateTransaction
<1>6. ASSUME NEW t \in Txs, CommitTransaction(t) PROVE WalletInv'
    BY <1>0, <1>6, InvCommit
<1>7. ASSUME NEW t \in Txs, Abandon(t) PROVE WalletInv'
  <2>1. t \in DOMAIN wallet.map /\ tip' = tip /\ disk' = disk /\ pool' = pool
    BY <1>7 DEF Abandon
  <2>2. CanAbandon(wallet, tip, pool, t) => t \notin pool /\ \A u \in SpendersOf(wallet, t) : u \notin pool
    BY <2>1, AbandonReach DEF CanAbandon
  <2>3. Follows(wallet, wallet', tip, pool)
    BY <1>0, <1>7, <2>2, AbandonFollows
  <2>. QED BY <1>0, <2>1, <2>3, InvFollows
<1>8. ASSUME GetBalance PROVE WalletInv'
    BY <1>0, <1>8, InvBalance
<1>9. ASSUME NEW full \in BOOLEAN, FlushStateToDisk(full) PROVE WalletInv'
  <2>1. /\ disk' = [map |-> wallet.map, best |-> tip, tip |-> IF full THEN tip ELSE disk.tip]
        /\ UNCHANGED <<tip, pool, wallet>>
    BY <1>9 DEF FlushStateToDisk
  <2>2. disk'.map = wallet.map /\ disk'.best = tip
    BY <2>1
  <2>. QED BY <1>0, <2>1, <2>2, InvParts
<1>10. ASSUME NEW coinsFlushed \in BOOLEAN, NEW walletFlushed \in BOOLEAN, Crash(coinsFlushed, walletFlushed)
       PROVE  WalletInv'
    BY <1>0, <1>10, InvCrash
<1>11. ASSUME UNCHANGED vars PROVE WalletInv'
    BY <1>0, <1>11, InvParts DEF vars
<1>. QED BY <1>1, <1>2, <1>3, <1>4, <1>5, <1>6, <1>7, <1>8, <1>9, <1>10, <1>11, Zenon DEF Next

\* As long as ThreadFlushWalletDB does not run between a reorganisation and the next flush,
\* the wallet knows what the active chain and the pool say to it, the pool can be mined and
\* no cached credit is spent on the chain: over blocks that come and go, payments,
\* abandonments, evictions and power failures at any point.
THEOREM WalletInvariant == ASSUME ~ReorgFlush PROVE Spec => []WalletInv
<1>1. WalletInv /\ [Next]_vars => WalletInv'
    BY InvNext
<1>. QED BY <1>1, InvInit, PTL DEF Spec

\* The wallet's maps are well formed, and have whatever on the active chain pays the wallet
\* or spends a coin of it, as confirmed by its block (SyncTransaction, and the rescan from
\* the locator that SetBestChain wrote).
THEOREM WalletAlwaysConsistent == ASSUME ~ReorgFlush PROVE Spec => []WalletConsistent
<1>1. WalletInv => WalletConsistent
  <2> SUFFICES ASSUME WalletInv PROVE WalletConsistent
    OBVIOUS
  <2>1. /\ RecordsInv /\ WalletTrue(wallet) /\ tip \in Blocks /\ disk.best \in Blocks /\ disk.tip \in Blocks
        /\ PoolInv /\ Knows(wallet.map, tip)
    BY DEF WalletInv, RecordsInv
  <2>2. /\ DOMAIN wallet.map \subseteq Txs
        /\ \A t \in DOMAIN wallet.map : EntryTrue(t, wallet.map[t])
    BY <2>1, WalletParts
  <2>3. \A t \in DOMAIN wallet.map :
            /\ wallet.map[t] \in Entries
            /\ wallet.map[t].inBlock => wallet.map[t].hashBlock \in Blocks
    BY <2>2 DEF EntryTrue
  <2>4. \A s \in wallet.spends : s[2] \in DOMAIN wallet.map /\ s[1] \in Inputs[s[2]]
    BY <2>1 DEF WalletTrue, SpendsTrue
  <2>5. \A t \in Txs : \/ wallet.cache[t] = NotCached
                       \/ wallet.cache[t] \subseteq OutpointsOf(t) \cap Ours
    BY <2>1 DEF WalletTrue, CachesTrue
  <2>6. TypeOK
    BY <2>1, <2>2, <2>3, <2>4, <2>5 DEF TypeOK, PoolInv
  <2>7. ChainKnown
    BY <2>1 DEF ChainKnown, Knows, Concerned
  <2>. QED BY <2>6, <2>7 DEF WalletConsistent
<1>. QED BY <1>1, WalletInvariant, PTL

\* No coin that the active chain or the pool spends is offered for a payment, but those a
\* stake could spend, whose spends SyncTransaction forgets (AvailableCoins, IsSpent).
THEOREM SpentNeverOffered == ASSUME ~ReorgFlush PROVE Spec => []SpentNotOffered
<1>1. WalletInv => SpentNotOffered
  <2> SUFFICES ASSUME WalletInv, NEW o \in AvailableCoins(wallet, tip, pool), o \in SpentNow, o \notin StakeInputs
               PROVE  FALSE
    BY DEF SpentNotOffered
  <2>1. /\ tip \in Blocks /\ Minable(tip, pool) /\ Knows(wallet.map, tip)
        /\ Held(pool, wallet.map) /\ WalletTrue(wallet)
    BY InvParts DEF RecordsInv
  <2>2. o \in Ours /\ ~IsSpent(wallet, tip, o)
    BY DEF AvailableCoins
  <2>3. CASE o \in SpentOn[tip]
    BY <2>1, <2>2, <2>3, ChainSpends
  <2>4. CASE \E u \in pool : o \in Inputs[u]
    <3>1. PICK u \in pool : o \in Inputs[u]
        BY <2>4
    <3>2. Concerned(u)
        BY <2>2, <3>1 DEF Concerned
    <3>3. u \in DOMAIN wallet.map /\ wallet.map[u].hashBlock # Abandoned
        BY <2>1, <3>2 DEF Held
    <3>4. GetDepthInMainChain(wallet, tip, u) = 0
        BY <2>1, <3>3, PoolDepth
    <3>5. <<o, u>> \in wallet.spends
        BY <2>1, <3>1, <3>3 DEF WalletTrue, SpendsTrue
    <3>6. u \in Spenders(wallet, o) \cap DOMAIN wallet.map
        BY <2>1, <3>3, <3>5, SpendersKnown
    <3>. QED BY <2>2, <3>3, <3>4, <3>6 DEF IsSpent
  <2>. QED BY <2>3, <2>4 DEF SpentNow
<1>. QED BY <1>1, WalletInvariant, PTL

\* The balance counts no coin that the active chain has spent, a stake's apart: whatever
\* block spends an output, the credit cached for its transaction is dropped with it.
THEOREM BalanceAlwaysUnspent == ASSUME ~ReorgFlush PROVE Spec => []BalanceUnspent
<1>1. WalletInv => BalanceUnspent
    BY DEF WalletInv
<1>. QED BY <1>1, WalletInvariant, PTL

\* The assertions of AbandonTransaction never fail.
THEOREM AbandonAlwaysSafe == ASSUME ~ReorgFlush PROVE Spec => []AbandonSafe
<1>1. WalletInv => AbandonSafe
    BY AbandonReach DEF AbandonSafe
<1>. QED BY <1>1, WalletInvariant, PTL
-----------------------------------------------------------------------------
(* Conflicts reach whatever they concern.                                  *)

\* t is in conflict with a block of the chain that ends in b; see DepthSign.
Conflicted(w, b, t) == w.map[t].hashBlock \in ChainOf[b] /\ ~w.map[t].inBlock

\* From w to v no conflict is forgotten, and one that is new is passed on to what
\* spends the outputs of the transaction.
Spreads(w, v, b) ==
    /\ DOMAIN w.map \subseteq DOMAIN v.map
    /\ \A t \in DOMAIN w.map : Conflicted(w, b, t) => Conflicted(v, b, t)
    /\ \A t \in DOMAIN w.map : \A p \in Prevs[t] \cap DOMAIN w.map :
          Conflicted(v, b, p) /\ v.map[p] # w.map[p] => Conflicted(v, b, t)

\* Of what w has, v has in conflict whatever spends otherwise what t spends.
RivalsMarked(w, v, b, t) ==
    \A u \in DOMAIN w.map \ {t} :
        ~(Inputs[u] \cap Inputs[t] \subseteq StakeInputs) => Conflicted(v, b, u)

\* Nothing changes.
LEMMA SpreadsItself ==
    ASSUME NEW w, NEW v, NEW b, v.map = w.map
    PROVE  Spreads(w, v, b)
    BY DEF Spreads, Conflicted

\* One change after another.
LEMMA SpreadsTwice ==
    ASSUME NEW w, NEW v, NEW x, NEW b, Spreads(w, v, b), Spreads(v, x, b)
    PROVE  Spreads(w, x, b)
<1>1. DOMAIN w.map \subseteq DOMAIN v.map /\ DOMAIN v.map \subseteq DOMAIN x.map
    BY DEF Spreads
<1>2. \A t \in DOMAIN w.map : Conflicted(w, b, t) => Conflicted(v, b, t)
    BY DEF Spreads
<1>3. \A t \in DOMAIN w.map : Conflicted(v, b, t) => Conflicted(x, b, t)
    BY <1>1 DEF Spreads
<1>4. ASSUME NEW t \in DOMAIN w.map, NEW p \in Prevs[t] \cap DOMAIN w.map,
             Conflicted(x, b, p), x.map[p] # w.map[p]
      PROVE  Conflicted(x, b, t)
  <2>1. CASE x.map[p] # v.map[p]
    BY <1>1, <1>4, <2>1 DEF Spreads
  <2>2. CASE x.map[p] = v.map[p]
    <3>1. Conflicted(v, b, p) /\ v.map[p] # w.map[p]
        BY <1>4, <2>2 DEF Conflicted
    <3>2. Conflicted(v, b, t)
        BY <3>1 DEF Spreads
    <3>. QED BY <1>3, <3>2
  <2>. QED BY <2>1, <2>2
<1>. QED BY <1>1, <1>2, <1>3, <1>4 DEF Spreads

\* MarkConflicted, with the block at the tip.
LEMMA MarkConflictedSpreads ==
    ASSUME StakesSettled, NEW w, WalletTrue(w), NEW b \in Blocks, NEW t \in DOMAIN w.map,
           InConflict(t, b)
    PROVE  /\ Spreads(w, MarkConflicted(w, b, b, t), b)
           /\ Conflicted(MarkConflicted(w, b, b, t), b, t)
<1> DEFINE v == MarkConflicted(w, b, b, t)
           confirms == -(Height[b] - Height[b] + 1)
           Changes(u) == confirms < GetDepthInMainChain(w, b, u)
           todo == {u \in DOMAIN w.map :
                    \A S \in SUBSET DOMAIN w.map :
                        (t \in S /\ \A x \in S : Changes(x) => SpendersOf(w, x) \subseteq S)
                        => u \in S}
           S1 == {u \in todo : Changes(u)}
           e == [hashBlock |-> b, inBlock |-> FALSE]
           m == [u \in DOMAIN w.map |-> IF u \in S1 THEN e ELSE w.map[u]]
<1>1. b \in ChainOf[b] /\ Height[b] \in Nat
    BY ChainFacts
<1>2. v = SetEntries(w, S1, e)
    BY <1>1 DEF MarkConflicted
<1>3. WalletTrue(v) /\ DOMAIN v.map = DOMAIN w.map
  <2>1. PICK none : none = {}
    OBVIOUS
  <2>2. WalletTrue(MarkConflicted(w, b, b, t)) /\ Follows(w, MarkConflicted(w, b, b, t), b, none)
        /\ DOMAIN MarkConflicted(w, b, b, t).map = DOMAIN w.map
    BY <1>1, MarkConflictedTrue
  <2>. QED BY <2>2
<1>4. \A u \in DOMAIN w.map : Changes(u) <=> ~Conflicted(w, b, u)
  <2>1. confirms = -1
    BY <1>1
  <2>2. ASSUME NEW u \in DOMAIN w.map PROVE Changes(u) <=> ~Conflicted(w, b, u)
    <3>1. w.map[u].inBlock \in BOOLEAN
        BY WalletParts DEF EntryTrue, Entries
    <3>2. GetDepthInMainChain(w, b, u) \in Int /\ (GetDepthInMainChain(w, b, u) < 0 <=> Conflicted(w, b, u))
        BY <3>1, DepthSign DEF Conflicted
    <3>3. PICK n \in Int : n = GetDepthInMainChain(w, b, u)
        BY <3>2
    <3>4. (-1 < n) <=> ~(n < 0)
        BY <3>3
    <3>. QED BY <2>1, <3>2, <3>3, <3>4
  <2>. QED BY <2>2
<1>5. t \in todo
    OBVIOUS
<1>6. \A p \in todo : Changes(p) => SpendersOf(w, p) \subseteq todo
  <2>1. \A p : SpendersOf(w, p) \subseteq DOMAIN w.map
    BY SpendersKnown
  <2> HIDE DEF Changes
  <2>. QED BY <2>1
<1>7. \A u \in DOMAIN w.map : v.map[u] = IF u \in todo /\ Changes(u) THEN e ELSE w.map[u]
  <2>1. w = [map |-> w.map, spends |-> w.spends, cache |-> w.cache]
    BY WalletParts
  <2>2. SetEntries(w, S1, e).map = m
    BY <2>1 DEF SetEntries, MarkDirty
  <2> HIDE DEF Changes, todo, v, e
  <2>. QED BY <1>2, <2>2
<1>8. e.hashBlock = b /\ e.inBlock = FALSE
    OBVIOUS
<1>9. todo \subseteq DOMAIN w.map
    OBVIOUS
<1> HIDE DEF v, Changes, todo, S1, e
<1>10. \A u \in todo : Conflicted(v, b, u)
    BY <1>1, <1>4, <1>7, <1>8, <1>9 DEF Conflicted
<1>11. \A u \in DOMAIN w.map : Conflicted(w, b, u) => v.map[u] = w.map[u] /\ Conflicted(v, b, u)
    BY <1>4, <1>7 DEF Conflicted
<1>12. ASSUME NEW u \in DOMAIN w.map, NEW p \in Prevs[u] \cap DOMAIN w.map, v.map[p] # w.map[p]
       PROVE  Conflicted(v, b, u)
  <2>1. p \in todo /\ Changes(p) /\ v.map[p] = e
    BY <1>7, <1>12
  <2>2. InConflict(p, b)
    <3>1. EntryTrue(p, v.map[p])
        BY <1>3, WalletParts
    <3>. QED BY <1>8, <2>1, <3>1 DEF EntryTrue
  <2>3. PICK o \in Inputs[u] : o[1] = p
    BY WalletParts, PrevsFacts
  <2>4. o \notin StakeInputs
    BY <2>2, <2>3 DEF StakesSettled
  <2>5. <<o, u>> \in w.spends
    <3>1. SpendsOf(w.map, w.spends)
        BY WalletParts
    <3>. QED BY <2>3, <2>4, <3>1 DEF SpendsOf
  <2>6. u \in SpendersOf(w, p)
    BY <2>3, <2>5 DEF SpendersOf
  <2>7. u \in todo
    BY <1>6, <2>1, <2>6
  <2>. QED BY <1>10, <2>7
<1>13. Spreads(w, v, b) /\ Conflicted(v, b, t)
    BY <1>3, <1>5, <1>10, <1>11, <1>12 DEF Spreads
<1>. QED BY <1>13 DEF v

\* The sets of G grow, element by element, along ch.
Grows(ch, S, G) == \A s \in SUBSET S : s # {} /\ s \ {ch[s]} \in G => s \in G

\* They grow up to the whole set.
LEMMA GrowsAll ==
    ASSUME NEW S, IsFiniteSet(S), NEW ch, Chooses(ch, S), NEW G, {} \in G, Grows(ch, S, G)
    PROVE  S \in G
<1> DEFINE g == [s \in SUBSET S |-> s]
<1>1. \A s \in SUBSET S : g[s] = s
    OBVIOUS
<1> HIDE DEF g
<1>2. g[{}] \in G
    BY <1>1
<1>3. ASSUME NEW s \in SUBSET S, s # {}, g[s \ {ch[s]}] \in G PROVE g[s] \in G
  <2>1. g[s \ {ch[s]}] = s \ {ch[s]} /\ g[s] = s
    BY <1>1
  <2>. QED BY <1>3, <2>1 DEF Grows
<1>4. g[S] \in G
    BY <1>2, <1>3, FoldStays
<1>. QED BY <1>1, <1>4

\* MarkConflicts, for a transaction of the block at the tip: every rival is marked.
LEMMA MarkConflictsSpreads ==
    ASSUME StakesSettled, NEW w, WalletTrue(w), NEW b \in Blocks, NEW t \in ToSet(Vtx[b])
    PROVE  /\ Spreads(w, MarkConflicts(w, b, b, t), b)
           /\ \A u \in Rivals(w, t) : Conflicted(MarkConflicts(w, b, b, t), b, u)
<1> DEFINE S == Rivals(w, t)
<1>1. b \in ChainOf[b] /\ b # Null /\ Told(t, b, b)
    BY ChainFacts, ChainAssumption, VtxType DEF Told
<1>2. PICK none : none = {}
    OBVIOUS
<1>3. PICK g, ch : MarkRun(g, ch, w, b, b, t, b, none)
    BY <1>1, MarkConflictsRun, Zenon
<1>4. /\ IsFiniteSet(S) /\ Chooses(ch, S) /\ g[{}] = w /\ MarkConflicts(w, b, b, t) = g[S]
      /\ \A s \in SUBSET S : WalletTrue(g[s]) /\ DOMAIN g[s].map = DOMAIN w.map
      /\ \A s \in SUBSET S : s # {} => g[s] = MarkConflicted(g[s \ {ch[s]}], b, b, ch[s])
    BY <1>3 DEF MarkRun, Reach
<1>5. \A u \in S : u \in DOMAIN w.map /\ InConflict(u, b)
    BY RivalsConflict
<1> HIDE DEF S
<1> DEFINE G == {s \in SUBSET S : Spreads(w, g[s], b) /\ \A u \in s : Conflicted(g[s], b, u)}
<1>6. {} \in G
    BY <1>4, SpreadsItself
<1>7. ASSUME NEW s \in SUBSET S, s # {}, s \ {ch[s]} \in G PROVE s \in G
  <2>1. PICK r, u : r = s \ {ch[s]} /\ u = ch[s]
    OBVIOUS
  <2>2. r \in SUBSET S /\ u \in S /\ u \in s /\ \A x \in s : x = u \/ x \in r
    BY <1>4, <1>7, <2>1 DEF Chooses
  <2>3. Spreads(w, g[r], b) /\ \A x \in r : Conflicted(g[r], b, x)
    BY <1>7, <2>1
  <2>4. WalletTrue(g[r]) /\ DOMAIN g[r].map = DOMAIN w.map
    BY <1>4, <2>2
  <2>5. g[s] = MarkConflicted(g[r], b, b, u)
    BY <1>4, <1>7, <2>1
  <2> DEFINE y == g[r]
  <2> HIDE DEF y
  <2>6. Spreads(y, MarkConflicted(y, b, b, u), b) /\ Conflicted(MarkConflicted(y, b, b, u), b, u)
    <3>1. WalletTrue(y) /\ u \in DOMAIN y.map /\ InConflict(u, b)
        BY <1>5, <2>2, <2>4 DEF y
    <3>. QED BY <3>1, MarkConflictedSpreads
  <2>7. Spreads(g[r], g[s], b) /\ Conflicted(g[s], b, u)
    BY <2>5, <2>6 DEF y
  <2>8. Spreads(w, g[s], b)
    BY <2>3, <2>7, SpreadsTwice
  <2>9. \A x \in r : Conflicted(g[s], b, x)
    <3>1. \A x \in r : x \in DOMAIN g[r].map
        BY <1>5, <2>2, <2>4
    <3>. QED BY <2>3, <2>7, <3>1 DEF Spreads
  <2>. QED BY <2>2, <2>7, <2>8, <2>9
<1>8. Grows(ch, S, G)
    BY <1>7 DEF Grows
<1> HIDE DEF G
<1>9. S \in G
    BY <1>4, <1>6, <1>8, GrowsAll
<1>. QED BY <1>4, <1>9 DEF G, S

\* AddToWallet, of a transaction of the block at the tip or of no block.
LEMMA AddToWalletSpreads ==
    ASSUME NEW w, WalletTrue(w), NEW b \in Blocks, NEW t, Concerned(t), NEW c, Told(t, c, b)
    PROVE  Spreads(w, AddToWallet(w, t, WalletTx(c)), b)
<1> DEFINE v == AddToWallet(w, t, WalletTx(c))
<1>1. PICK none : none = {}
    OBVIOUS
<1>2. WalletTrue(v) /\ Follows(w, v, b, none) /\ Recorded(v, t, c)
    BY AddToWalletTrue
<1>3. /\ \A u \in DOMAIN w.map : u # t => v.map[u] = w.map[u]
      /\ t \in DOMAIN w.map /\ c = Null =>
            /\ v.map[t].hashBlock = IF w.map[t].hashBlock = Abandoned THEN Null ELSE w.map[t].hashBlock
            /\ v.map[t].inBlock = (FALSE \/ w.map[t].inBlock)
  <2> DEFINE e == WalletTx(c)
             old == w.map[t]
             merged == [hashBlock |-> IF e.hashBlock # Null \/ old.hashBlock = Abandoned
                                      THEN e.hashBlock ELSE old.hashBlock,
                        inBlock   |-> e.inBlock \/ old.inBlock]
             entry == IF t \in DOMAIN w.map THEN merged ELSE e
             m == [u \in DOMAIN w.map \cup {t} |-> IF u = t THEN entry ELSE w.map[u]]
  <2>1. w = [map |-> w.map, spends |-> w.spends, cache |-> w.cache]
    BY WalletParts
  <2>2. v = MarkDirty(IF t \in DOMAIN w.map THEN [w EXCEPT !.map = m]
                      ELSE AddToSpends([w EXCEPT !.map = m], t), {t})
    BY DEF AddToWallet
  <2>3. \A u \in DOMAIN w.map : u # t => m[u] = w.map[u]
    OBVIOUS
  <2>4. m[t] = entry
    OBVIOUS
  <2>5. t \in DOMAIN w.map /\ c = Null =>
            /\ entry.hashBlock = IF w.map[t].hashBlock = Abandoned THEN Null ELSE w.map[t].hashBlock
            /\ entry.inBlock = (FALSE \/ w.map[t].inBlock)
    BY DEF WalletTx
  <2> HIDE DEF entry, m, v
  <2>6. v.map = m
    BY <2>1, <2>2 DEF MarkDirty, AddToSpends
  <2>. QED BY <2>3, <2>4, <2>5, <2>6
<1>4. DOMAIN w.map \subseteq DOMAIN v.map
    BY <1>2 DEF Follows
<1> HIDE DEF v
<1>5. ASSUME t \in DOMAIN w.map, Conflicted(w, b, t) \/ Conflicted(v, b, t)
      PROVE  v.map[t] = w.map[t]
  <2>1. EntryTrue(t, w.map[t]) /\ EntryTrue(t, v.map[t])
    BY <1>2, <1>4, <1>5, WalletParts
  <2>2. /\ ChainOf[b] \subseteq Blocks /\ Null \notin Blocks /\ Abandoned \notin Blocks
    BY ChainFacts, ChainAssumption
  <2>3. c = Null
    <3>1. ASSUME c # Null PROVE FALSE
      <4>1. c \in ChainOf[b] /\ t \in ToSet(Vtx[c])
        BY <3>1 DEF Told
      <4>2. t \in TxsOf[b]
        BY <4>1, TxsOnChain
      <4>3. v.map[t] = WalletTx(c)
        BY <1>2, <3>1 DEF Recorded
      <4>4. v.map[t].inBlock
        <5>1. WalletTx(c).inBlock = (c # Null)
            BY DEF WalletTx
        <5>. QED BY <3>1, <4>3, <5>1
      <4>5. w.map[t].hashBlock \in ChainOf[b] /\ ~w.map[t].inBlock
        BY <1>5, <4>4 DEF Conflicted
      <4>6. InConflict(t, w.map[t].hashBlock)
        BY <2>1, <2>2, <4>5 DEF EntryTrue
      <4>. QED BY <4>2, <4>5, <4>6, NoConflictOnChain
    <3>. QED BY <3>1
  <2>4. w.map[t].hashBlock # Abandoned
    BY <1>3, <1>5, <2>2, <2>3 DEF Conflicted
  <2>5. w.map[t].inBlock \in BOOLEAN /\ w.map[t] \in Entries /\ v.map[t] \in Entries
    BY <2>1 DEF EntryTrue, Entries
  <2>6. v.map[t].hashBlock = w.map[t].hashBlock /\ v.map[t].inBlock = w.map[t].inBlock
    BY <1>3, <1>5, <2>3, <2>4, <2>5
  <2>. QED BY <2>5, <2>6 DEF Entries
<1>6. ASSUME NEW u \in DOMAIN w.map, Conflicted(w, b, u) \/ Conflicted(v, b, u)
      PROVE  v.map[u] = w.map[u]
    BY <1>3, <1>5, <1>6
<1>7. \A u \in DOMAIN w.map : Conflicted(w, b, u) => Conflicted(v, b, u)
    BY <1>6 DEF Conflicted
<1>8. Spreads(w, v, b)
    BY <1>4, <1>6, <1>7 DEF Spreads
<1>. QED BY <1>8 DEF v

\* SyncTransaction, when a block is connected.
LEMMA SyncSpreads ==
    ASSUME StakesSettled, NEW w, WalletTrue(w), NEW b \in Blocks, NEW q, NEW t, NEW c,
           c = Null \/ c = b, Told(t, c, b)
    PROVE  /\ Spreads(w, SyncTransaction(w, b, q, t, c, TRUE), b)
           /\ c = b => RivalsMarked(w, SyncTransaction(w, b, q, t, c, TRUE), b, t)
<1> DEFINE k == MarkConflicts(w, b, c, t)
           a == AddToWalletIfInvolvingMe(w, b, t, c)
           v == SyncTransaction(w, b, q, t, c, TRUE)
<1>0. b \in ChainOf[b] /\ b # Null
    BY ChainFacts, ChainAssumption
<1>1. /\ Spreads(w, k, b)
      /\ c = b => \A u \in Rivals(w, t) : Conflicted(k, b, u)
  <2>1. CASE c = Null
    <3>1. k = w
        BY <2>1 DEF MarkConflicts
    <3>. QED BY <1>0, <2>1, <3>1, SpreadsItself
  <2>2. CASE c = b
    <3>1. t \in ToSet(Vtx[b])
        BY <1>0, <2>2 DEF Told
    <3>. QED BY <2>2, <3>1, MarkConflictsSpreads
  <2>. QED BY <2>1, <2>2
<1>2. WalletTrue(k)
  <2>1. PICK none : none = {}
    OBVIOUS
  <2>2. MarkConflicts(w, b, c, t) \in Reach(w, b, none)
    BY <1>0, MarkConflictsTrue
  <2>. QED BY <2>2 DEF Reach
<1> HIDE DEF k
<1>3. Spreads(k, a, b) /\ WalletTrue(a)
  <2>1. CASE Involved(w, t)
    <3>1. a = AddToWallet(k, t, WalletTx(c))
        BY <2>1 DEF AddToWalletIfInvolvingMe, k
    <3>2. Concerned(t)
        BY <2>1, InvolvedConcerned
    <3>3. Spreads(k, AddToWallet(k, t, WalletTx(c)), b)
        BY <1>2, <3>2, AddToWalletSpreads
    <3>4. WalletTrue(AddToWallet(k, t, WalletTx(c)))
        BY <1>2, <3>2, AddToWalletTrue
    <3>. QED BY <3>1, <3>3, <3>4
  <2>2. CASE ~Involved(w, t)
    <3>1. a = k
        BY <2>2 DEF AddToWalletIfInvolvingMe, k
    <3>. QED BY <1>2, <3>1, SpreadsItself
  <2>. QED BY <2>1, <2>2
<1>4. v = a \/ v = MarkDirty(a, Prevs[t] \cap DOMAIN a.map)
    BY DEF SyncTransaction
<1> HIDE DEF a, v
<1>5. v.map = a.map
    BY <1>3, <1>4, DirtyFields DEF WalletTrue
<1>6. Spreads(w, v, b) /\ Spreads(k, v, b)
  <2>1. Spreads(a, v, b)
    BY <1>5, SpreadsItself
  <2>. QED BY <1>1, <1>3, <2>1, SpreadsTwice
<1>7. ASSUME c = b PROVE RivalsMarked(w, v, b, t)
  <2>1. SUFFICES ASSUME NEW u \in DOMAIN w.map \ {t}, NEW o \in Inputs[u] \cap Inputs[t], o \notin StakeInputs
                 PROVE  Conflicted(v, b, u)
    BY DEF RivalsMarked
  <2>2. <<o, u>> \in w.spends
    <3>1. SpendsOf(w.map, w.spends)
        BY WalletParts
    <3>2. u \in DOMAIN w.map /\ o \in Inputs[u] \ StakeInputs
        BY <2>1
    <3>. QED BY <3>1, <3>2 DEF SpendsOf
  <2>3. u \in Spenders(w, o)
    BY <2>2, SpendersKnown
  <2>4. u \in Rivals(w, t)
    BY <2>3 DEF Rivals
  <2>5. Conflicted(k, b, u) /\ u \in DOMAIN k.map
    BY <1>1, <1>7, <2>4 DEF Spreads
  <2>. QED BY <1>6, <2>5 DEF Spreads
<1>. QED BY <1>6, <1>7 DEF v

\* SyncAll, when a block is connected.
LEMMA SyncAllSpreads ==
    ASSUME StakesSettled, NEW w, WalletTrue(w), NEW b \in Blocks, NEW q, NEW txs \in Seq(Txs), NEW c,
           c = Null \/ c = b, \A k \in DOMAIN txs : Told(txs[k], c, b)
    PROVE  /\ Spreads(w, SyncAll(w, b, q, txs, c, TRUE), b)
           /\ c = b => \A t \in ToSet(txs) : RivalsMarked(w, SyncAll(w, b, q, txs, c, TRUE), b, t)
<1> DEFINE n == Len(txs)
<1>1. n \in Nat /\ DOMAIN txs = 1..n /\ n \in 0..n
  <2>1. Len(txs) \in Nat /\ DOMAIN txs = 1..Len(txs)
    OBVIOUS
  <2>. QED BY <2>1
<1>2. PICK none : none = {}
    OBVIOUS
<1>3. b \in ChainOf[b] /\ SyncMay(b, b, txs, c, TRUE, none)
    BY ChainFacts DEF SyncMay
<1>4. PICK g : SyncRun(g, w, b, q, txs, c, TRUE) /\ AllFollow(g, Len(txs), w, b, none)
    BY <1>3, SyncRunTrue
<1>5. /\ g[0] = w /\ SyncAll(w, b, q, txs, c, TRUE) = g[n]
      /\ \A k \in 1..n : g[k] = SyncTransaction(g[k - 1], b, q, txs[k], c, TRUE)
      /\ \A k \in 0..n : WalletTrue(g[k])
    BY <1>4 DEF SyncRun, AllFollow
<1> HIDE DEF n
<1> DEFINE K == {k \in 0..n : /\ Spreads(w, g[k], b)
                              /\ c = b => \A i \in 1..k : RivalsMarked(w, g[k], b, txs[i])}
<1>6. 0 \in K
    BY <1>1, <1>5, SpreadsItself
<1>7. ASSUME NEW k \in 1..n, k - 1 \in K PROVE k \in K
  <2>1. /\ k \in 0..n /\ k - 1 \in 0..n /\ k \in DOMAIN txs
        /\ \A i \in 1..k : i = k \/ i \in 1..(k - 1)
    BY <1>1
  <2>2. Spreads(w, g[k - 1], b) /\ (c = b => \A i \in 1..(k - 1) : RivalsMarked(w, g[k - 1], b, txs[i]))
    BY <1>7
  <2>3. PICK y, z, t : y = g[k - 1] /\ z = g[k] /\ t = txs[k]
    OBVIOUS
  <2>4. WalletTrue(y) /\ Told(t, c, b) /\ z = SyncTransaction(y, b, q, t, c, TRUE)
    BY <1>5, <2>1, <2>3
  <2>5. Spreads(y, z, b) /\ (c = b => RivalsMarked(y, z, b, t))
    BY <2>4, SyncSpreads
  <2>6. Spreads(w, z, b)
    BY <2>2, <2>3, <2>5, SpreadsTwice
  <2>7. ASSUME c = b, NEW i \in 1..k PROVE RivalsMarked(w, z, b, txs[i])
    <3>1. DOMAIN w.map \subseteq DOMAIN y.map
        BY <2>2, <2>3 DEF Spreads
    <3>2. CASE i = k
        BY <2>3, <2>5, <2>7, <3>1, <3>2 DEF RivalsMarked
    <3>3. CASE i \in 1..(k - 1)
      <4>1. RivalsMarked(w, y, b, txs[i])
        BY <2>2, <2>3, <2>7, <3>3
      <4>. QED BY <2>5, <3>1, <4>1 DEF RivalsMarked, Spreads
    <3>. QED BY <2>1, <3>2, <3>3
  <2>. QED BY <2>1, <2>3, <2>6, <2>7
<1> HIDE DEF K
<1>8. n \in K
    BY <1>1, <1>6, <1>7, CountUp
<1>9. \A t \in ToSet(txs) : \E i \in 1..n : t = txs[i]
    BY <1>1 DEF ToSet
<1>. QED BY <1>5, <1>8, <1>9 DEF K

\* ConnectTip.
LEMMA ConnectSpreads ==
    ASSUME StakesSettled, RecordsInv, NEW b \in Blocks, ConnectTip(b)
    PROVE  Spreads(wallet, wallet', b) /\ \A t \in ToSet(Vtx[b]) : RivalsMarked(wallet, wallet', b, t)
<1> DEFINE confirmed == ToSet(Vtx[b])
           kept == pool \ confirmed
           conflicts == WithDescendants(kept,
               {u \in kept : \E t \in confirmed : Inputs[u] \cap Inputs[t] # {}})
           x == SyncAll(wallet, b, pool', SetToSeq(conflicts), Null, TRUE)
<1>1. wallet' = SyncAll(x, b, pool', Vtx[b], b, TRUE)
    BY DEF ConnectTip
<1>2. conflicts \in SUBSET Txs
    BY DEF RecordsInv, WithDescendants
<1> HIDE DEF conflicts
<1>3. PICK none : none = {}
    OBVIOUS
<1>4. /\ SetToSeq(conflicts) \in Seq(Txs) /\ SyncMay(b, b, SetToSeq(conflicts), Null, TRUE, none)
      /\ WalletTrue(wallet) /\ b \in ChainOf[b]
    BY <1>2, SetToSeqType, SyncMayNull, ChainFacts DEF RecordsInv
<1>5. WalletTrue(x)
    BY <1>4, SyncAllTrue
<1>6. Spreads(wallet, x, b)
  <2>1. \A k \in DOMAIN SetToSeq(conflicts) : Told(SetToSeq(conflicts)[k], Null, b)
    BY <1>4 DEF SyncMay
  <2>. QED BY <1>4, <2>1, SyncAllSpreads
<1> HIDE DEF x
<1>7. Spreads(x, wallet', b) /\ \A t \in ToSet(Vtx[b]) : RivalsMarked(x, wallet', b, t)
  <2>1. Vtx[b] \in Seq(Txs) /\ \A k \in DOMAIN Vtx[b] : Told(Vtx[b][k], b, b)
    BY <1>4, VtxType DEF Told
  <2>2. /\ Spreads(x, SyncAll(x, b, pool', Vtx[b], b, TRUE), b)
        /\ \A t \in ToSet(Vtx[b]) : RivalsMarked(x, SyncAll(x, b, pool', Vtx[b], b, TRUE), b, t)
    BY <1>5, <2>1, SyncAllSpreads
  <2>. QED BY <1>1, <2>2
<1>8. Spreads(wallet, wallet', b)
    BY <1>6, <1>7, SpreadsTwice
<1>9. \A t \in ToSet(Vtx[b]) : RivalsMarked(wallet, wallet', b, t)
    BY <1>6, <1>7 DEF RivalsMarked, Spreads
<1>. QED BY <1>8, <1>9

\* The action of ConflictsMarked.
MarksConflicts ==
    ConnectTip(tip') =>
        \A t \in DOMAIN wallet.map :
            \/ GetDepthInMainChain(wallet', tip', t) < 0
            \/ /\ \A u \in ToSet(Vtx[tip']) \ {t} : Inputs[t] \cap Inputs[u] \subseteq StakeInputs
               /\ \A p \in Prevs[t] \cap DOMAIN wallet.map :
                     GetDepthInMainChain(wallet', tip', p) < 0 => wallet'.map[p] = wallet.map[p]

\* A block that is connected marks whatever in the wallet it conflicts with, and the
\* conflict is passed on along the spends of the wallet (AddToWalletIfInvolvingMe,
\* MarkConflicted), if what stakes spend is settled: SyncTransaction forgets the spends
\* of a stake that is disconnected, and MarkConflicted cannot follow them.
THEOREM ConflictsAlwaysMarked ==
    ASSUME StakesSettled
    PROVE  Spec => ConflictsMarked
<1>1. RecordsInv /\ [Next]_vars => MarksConflicts
  <2> SUFFICES ASSUME RecordsInv, [Next]_vars, ConnectTip(tip'), NEW t \in DOMAIN wallet.map,
                      ~(GetDepthInMainChain(wallet', tip', t) < 0)
               PROVE  /\ \A u \in ToSet(Vtx[tip']) \ {t} : Inputs[t] \cap Inputs[u] \subseteq StakeInputs
                      /\ \A p \in Prevs[t] \cap DOMAIN wallet.map :
                            GetDepthInMainChain(wallet', tip', p) < 0 => wallet'.map[p] = wallet.map[p]
    BY DEF MarksConflicts
  <2>1. WalletTrue(wallet') /\ tip' \in Blocks
    BY RecordsNext DEF RecordsInv
  <2>2. PICK b, v : b = tip' /\ v = wallet'
    OBVIOUS
  <2>3. b \in Blocks /\ Spreads(wallet, v, b) /\ \A u \in ToSet(Vtx[b]) : RivalsMarked(wallet, v, b, u)
    BY <2>1, <2>2, ConnectSpreads
  <2>4. ASSUME NEW p \in DOMAIN wallet.map
        PROVE  GetDepthInMainChain(v, b, p) < 0 <=> Conflicted(v, b, p)
    <3>1. p \in DOMAIN v.map /\ WalletTrue(v)
        BY <2>1, <2>2, <2>3 DEF Spreads
    <3>2. v.map[p].inBlock \in BOOLEAN
        BY <3>1, WalletParts DEF EntryTrue, Entries
    <3>. QED BY <2>3, <3>2, DepthSign DEF Conflicted
  <2>5. ~Conflicted(v, b, t)
    BY <2>2, <2>4
  <2>6. \A u \in ToSet(Vtx[b]) \ {t} : Inputs[t] \cap Inputs[u] \subseteq StakeInputs
    BY <2>3, <2>5 DEF RivalsMarked
  <2>7. \A p \in Prevs[t] \cap DOMAIN wallet.map : GetDepthInMainChain(v, b, p) < 0 => v.map[p] = wallet.map[p]
    BY <2>3, <2>4, <2>5 DEF Spreads
  <2>. QED BY <2>2, <2>6, <2>7
<1>2. MarksConflicts =>
        [ConnectTip(tip') =>
         LET Bad(t) == GetDepthInMainChain(wallet', tip', t) < 0
         IN  \A t \in DOMAIN wallet.map :
               \/ Bad(t)
               \/ /\ \A u \in ToSet(Vtx[tip']) \ {t} : Inputs[t] \cap Inputs[u] \subseteq StakeInputs
                  /\ \A p \in Prevs[t] \cap DOMAIN wallet.map :
                        Bad(p) => wallet'.map[p] = wallet.map[p]]_vars
    BY DEF MarksConflicts
<1>. QED BY <1>1, <1>2, RecordsAlwaysTrue, PTL DEF Spec, ConflictsMarked
=============================================================================
