---------------------------- MODULE TxPoolProofs ----------------------------
(***************************************************************************)
(* Proofs about TxPool, for any transactions, blocks, peers and limits:    *)
(* the indexes and totals of the memory pool, the spendability of what it  *)
(* holds, the orphan maps and the outcome of the orphan loop.              *)
(***************************************************************************)
EXTENDS TxPool, TLAPS, FiniteSetTheorems, SequenceTheorems, WellFoundedInduction,
        NaturalsInduction

-----------------------------------------------------------------------------
(* Folds: the recursive function behind FoldSet, FoldLeft and              *)
(* MapThenSumSet exists, and what holds of {} and is kept by each step     *)
(* holds of the whole set.                                                 *)

\* A nonempty set of natural numbers has a least element.
LEMMA LeastNat ==
    ASSUME NEW N \in SUBSET Nat, N # {}
    PROVE  \E n \in N : \A m \in N : n <= m
<1>0. N \subseteq Nat /\ N # {}
    OBVIOUS
<1>1. PICK n \in N : \A m \in N : <<m, n>> \notin OpToRel(<, Nat)
    BY <1>0, NatLessThanWellFounded, WFMin
<1>2. ASSUME NEW m \in N PROVE n <= m
  <2>1. m \in Nat /\ n \in Nat
    BY <1>0
  <2>2. ~(m < n)
    BY <1>1, <2>1 DEF OpToRel
  <2>. QED BY <2>1, <2>2
<1>. QED BY <1>2

\* Induction over the subsets of a finite set.
LEMMA StrongSubsetInduction ==
    ASSUME NEW S, IsFiniteSet(S), NEW G,
           \A s \in SUBSET S : (\A r \in SUBSET s : r # s => r \in G) => s \in G
    PROVE  \A s \in SUBSET S : s \in G
<1> SUFFICES ASSUME NEW s0 \in SUBSET S, s0 \notin G PROVE FALSE
    OBVIOUS
<1> DEFINE Bad == {s \in SUBSET S : s \notin G}
           N == {n \in Nat : \E s \in Bad : Cardinality(s) = n}
<1>1. \A s \in SUBSET S : IsFiniteSet(s) /\ Cardinality(s) \in Nat
    BY FS_Subset, FS_CardinalityType
<1>2. N # {}
    BY <1>1
<1>3. PICK n \in N : \A m \in N : n <= m
    BY <1>2, LeastNat
<1>4. PICK s \in Bad : Cardinality(s) = n
    BY <1>3
<1>5. PICK r \in SUBSET s : r # s /\ r \notin G
    BY <1>4
<1>6. Cardinality(r) <= n /\ Cardinality(r) # n
    BY <1>1, <1>4, <1>5, FS_Subset
<1>7. r \in Bad /\ Cardinality(r) \in N
    BY <1>1, <1>4, <1>5
<1>. QED BY <1>3, <1>6, <1>7

\* The same along a choice of elements.
LEMMA SubsetInduction ==
    ASSUME NEW S, IsFiniteSet(S), NEW ch, NEW G,
           \A s \in SUBSET S : s # {} => ch[s] \in s,
           {} \in G,
           \A s \in SUBSET S : s # {} /\ s \ {ch[s]} \in G => s \in G
    PROVE  \A s \in SUBSET S : s \in G
<1>1. ASSUME NEW s \in SUBSET S, \A r \in SUBSET s : r # s => r \in G PROVE s \in G
  <2>1. CASE s = {}
    BY <2>1
  <2>2. CASE s # {}
    <3>1. s \ {ch[s]} \in SUBSET s /\ s \ {ch[s]} # s
        BY <2>2
    <3>. QED BY <1>1, <2>2, <3>1
  <2>. QED BY <2>1, <2>2
<1>. QED BY <1>1, StrongSubsetInduction

\* ch chooses an element of every subset of S.
Chooses(ch, S) == \A s \in SUBSET S : s # {} => ch[s] \in s

\* f folds step over the subsets of S in the order of ch, from p.
Folds(f, S, P, p, step, ch) ==
    /\ f \in [SUBSET S -> P]
    /\ f[{}] = p
    /\ \A s \in SUBSET S : s # {} => f[s] = step[<<f[s \ {ch[s]}], ch[s]>>]

\* The recursion of a fold has a solution.
LEMMA FoldExists ==
    ASSUME NEW S, IsFiniteSet(S), NEW P, NEW p \in P, NEW step \in [P \X S -> P], NEW ch,
           Chooses(ch, S)
    PROVE  \E f : Folds(f, S, P, p, step, ch)
<1> USE DEF Chooses
<1> DEFINE Value(f, s) == IF s = {} THEN p ELSE step[<<f[s \ {ch[s]}], ch[s]>>]
           Upto(n) == \E f \in [SUBSET S -> P] :
                         \A s \in SUBSET S : Cardinality(s) <= n => f[s] = Value(f, s)
           N == {n \in Nat : ~Upto(n)}
<1>1. \A s \in SUBSET S : IsFiniteSet(s) /\ Cardinality(s) \in Nat
    BY FS_Subset, FS_CardinalityType
<1>2. \A f \in [SUBSET S -> P], s \in SUBSET S : Value(f, s) \in P
    OBVIOUS
<1>3. Upto(0)
  <2>1. [s \in SUBSET S |-> p] \in [SUBSET S -> P]
    OBVIOUS
  <2>2. \A s \in SUBSET S : Cardinality(s) <= 0 => s = {}
    BY <1>1, FS_EmptySet
  <2>. QED BY <2>1, <2>2
<1>4. ASSUME NEW n \in Nat, Upto(n) PROVE Upto(n + 1)
  <2>1. PICK f \in [SUBSET S -> P] :
            \A s \in SUBSET S : Cardinality(s) <= n => f[s] = Value(f, s)
    BY <1>4
  <2> DEFINE g == [s \in SUBSET S |-> Value(f, s)]
  <2>2. g \in [SUBSET S -> P]
    BY <1>2, <2>1
  <2>3. ASSUME NEW s \in SUBSET S, Cardinality(s) <= n + 1 PROVE g[s] = Value(g, s)
    <3>1. CASE s = {}
        BY <3>1
    <3>2. CASE s # {}
      <4>1. s \ {ch[s]} \in SUBSET S /\ ch[s] \in s
        BY <3>2
      <4>2. Cardinality(s \ {ch[s]}) <= n
        BY <1>1, <2>3, <4>1, FS_RemoveElement
      <4>3. g[s \ {ch[s]}] = f[s \ {ch[s]}]
        BY <2>1, <4>1, <4>2
      <4>. QED BY <3>2, <4>3
    <3>. QED BY <3>1, <3>2
  <2>. QED BY <2>2, <2>3
<1>5. ASSUME N # {} PROVE FALSE
  <2> HIDE DEF Upto
  <2>1. PICK n \in N : \A m \in N : n <= m
    BY <1>5, LeastNat
  <2>2. n # 0 /\ n - 1 \in Nat
    BY <1>3, <2>1
  <2>3. Upto(n - 1)
    <3>1. n - 1 \notin N
        BY <2>1, <2>2
    <3>. QED BY <2>2, <3>1
  <2>4. Upto(n)
    <3>1. Upto((n - 1) + 1)
        BY <1>4, <2>2, <2>3
    <3>2. (n - 1) + 1 = n
        BY <2>1
    <3>. QED BY <3>1, <3>2
  <2>. QED BY <2>1, <2>4
<1> HIDE DEF Upto
<1>6. Cardinality(S) \in Nat /\ Upto(Cardinality(S))
    BY <1>1, <1>5
<1>7. PICK f \in [SUBSET S -> P] :
          \A s \in SUBSET S : Cardinality(s) <= Cardinality(S) => f[s] = Value(f, s)
    BY <1>6 DEF Upto
<1>8. \A s \in SUBSET S : Cardinality(s) <= Cardinality(S)
    BY FS_Subset
<1>9. \A s \in SUBSET S : f[s] = Value(f, s)
    BY <1>7, <1>8
<1>. QED BY <1>7, <1>9 DEF Folds

-----------------------------------------------------------------------------
(* Sums of fees.                                                           *)

\* f gives the sum of w over every subset of T.
Additive(f, T, w) ==
    /\ f \in [SUBSET T -> Int]
    /\ f[{}] = 0
    /\ \A s \in SUBSET T : \A x \in s : f[s] = w[x] + f[s \ {x}]

\* A solution of the recursion of MapThenSumSet is additive: the order in which the
\* elements are taken does not matter.
LEMMA SumAdditive ==
    ASSUME NEW T, IsFiniteSet(T), NEW w \in [T -> Int], NEW ch, NEW f \in [SUBSET T -> Int],
           \A s \in SUBSET T : s # {} => ch[s] \in s,
           \A s \in SUBSET T : f[s] = IF s = {} THEN 0 ELSE w[ch[s]] + f[s \ {ch[s]}]
    PROVE  Additive(f, T, w)
<1> DEFINE G == {s \in SUBSET T : \A x \in s : f[s] = w[x] + f[s \ {x}]}
<1>1. ASSUME NEW s \in SUBSET T, \A r \in SUBSET s : r # s => r \in G PROVE s \in G
  <2>1. SUFFICES ASSUME NEW x \in s, x # ch[s] PROVE f[s] = w[x] + f[s \ {x}]
    <3>1. \A x \in s : x = ch[s] => f[s] = w[x] + f[s \ {x}]
        OBVIOUS
    <3>. QED BY <2>1, <3>1
  <2> DEFINE y == ch[s]
             r == (s \ {x}) \ {y}
  <2>2. y \in s /\ f[s] = w[y] + f[s \ {y}]
    OBVIOUS
  <2>3. s \ {y} \in G /\ s \ {x} \in G
    <3>1. s \ {y} \in SUBSET s /\ s \ {y} # s /\ s \ {x} \in SUBSET s /\ s \ {x} # s
        BY <2>2
    <3> HIDE DEF G, y
    <3>. QED BY <1>1, <3>1
  <2>4. r = (s \ {y}) \ {x} /\ x \in s \ {y} /\ y \in s \ {x}
    BY <2>1, <2>2
  <2>5. f[s \ {y}] = w[x] + f[r]
    BY <2>3, <2>4
  <2>6. f[s \ {x}] = w[y] + f[r]
    BY <2>3, <2>4
  <2>7. w[x] \in Int /\ w[y] \in Int /\ f[r] \in Int
    BY <2>2
  <2>. QED BY <2>2, <2>5, <2>6, <2>7
<1>2. \A s \in SUBSET T : s \in G
  <2> HIDE DEF G
  <2>. QED BY <1>1, StrongSubsetInduction
<1>3. f[{}] = 0
    OBVIOUS
<1>. QED BY <1>2, <1>3 DEF Additive

\* Two sums agree where their terms do.
LEMMA AdditiveUnique ==
    ASSUME NEW T, NEW U, NEW v, NEW w, NEW f, NEW g, Additive(f, T, v), Additive(g, U, w),
           NEW S \in SUBSET (T \cap U), IsFiniteSet(S), \A x \in S : v[x] = w[x]
    PROVE  f[S] = g[S]
<1> DEFINE G == {s \in SUBSET S : f[s] = g[s]}
<1>1. ASSUME NEW s \in SUBSET S, \A r \in SUBSET s : r # s => r \in G PROVE s \in G
  <2>1. CASE s = {}
    BY <2>1 DEF Additive
  <2>2. CASE s # {}
    <3>1. PICK x \in s : TRUE
        BY <2>2
    <3>2. s \in SUBSET T /\ s \in SUBSET U /\ v[x] = w[x]
        OBVIOUS
    <3>3. f[s] = v[x] + f[s \ {x}] /\ g[s] = w[x] + g[s \ {x}]
        BY <3>2 DEF Additive
    <3>4. f[s \ {x}] = g[s \ {x}]
        BY <1>1
    <3>. QED BY <3>2, <3>3, <3>4
  <2>. QED BY <2>1, <2>2
<1>2. \A s \in SUBSET S : s \in G
  <2> HIDE DEF G
  <2>. QED BY <1>1, StrongSubsetInduction
<1>. QED BY <1>2

\* The sum over two disjoint sets.
LEMMA AdditiveUnion ==
    ASSUME NEW T, NEW w, NEW f, Additive(f, T, w), \A x \in T : w[x] \in Int,
           NEW A \in SUBSET T, NEW B \in SUBSET T, A \cap B = {}, IsFiniteSet(A)
    PROVE  f[A \cup B] = f[A] + f[B]
<1> DEFINE G == {s \in SUBSET A : f[s \cup B] = f[s] + f[B]}
<1>1. ASSUME NEW s \in SUBSET A, \A r \in SUBSET s : r # s => r \in G PROVE s \in G
  <2>1. CASE s = {}
    <3>1. s \cup B = B
        BY <2>1
    <3>. QED BY <2>1, <3>1 DEF Additive
  <2>2. CASE s # {}
    <3>1. PICK x \in s : TRUE
        BY <2>2
    <3>2. s \in SUBSET T /\ s \cup B \in SUBSET T /\ x \in s \cup B
        OBVIOUS
    <3>3. (s \cup B) \ {x} = (s \ {x}) \cup B
        OBVIOUS
    <3>4. f[s] = w[x] + f[s \ {x}] /\ f[s \cup B] = w[x] + f[(s \ {x}) \cup B]
        BY <3>2, <3>3 DEF Additive
    <3>5. f[(s \ {x}) \cup B] = f[s \ {x}] + f[B]
        BY <1>1
    <3>6. w[x] \in Int /\ f[s \ {x}] \in Int /\ f[B] \in Int
        BY <3>2 DEF Additive
    <3>. QED BY <3>4, <3>5, <3>6
  <2>. QED BY <2>1, <2>2
<1>2. \A s \in SUBSET A : s \in G
  <2> HIDE DEF G
  <2>. QED BY <1>1, StrongSubsetInduction
<1>. QED BY <1>2

\* What the sums need of a pool: one entry for a transaction, with the delta that was
\* last set.
FeeShape(p) ==
    /\ \A e \in p.mapTx : e.tx \in Txs /\ e.feeDelta = p.mapDeltas[e.tx]
    /\ \A e, f \in p.mapTx : e.tx = f.tx => e = f
    /\ p.mapDeltas \in [Txs -> Int]

TxFee(p) == [t \in Txs |-> Fee[t] + p.mapDeltas[t]]

\* There are as many entries as transactions in a pool, and they are finitely many.
LEMMA PoolFinite ==
    ASSUME NEW p, \A e \in p.mapTx : e.tx \in Txs, \A e, f \in p.mapTx : e.tx = f.tx => e = f
    PROVE  /\ InPool(p) \in SUBSET Txs
           /\ IsFiniteSet(InPool(p))
           /\ IsFiniteSet(p.mapTx)
           /\ Cardinality(p.mapTx) = Cardinality(InPool(p))
           /\ Cardinality(InPool(p)) \in Nat
<1>1. InPool(p) \in SUBSET Txs
    BY DEF InPool
<1>2. IsFiniteSet(InPool(p)) /\ Cardinality(InPool(p)) \in Nat
    BY <1>1, TxAssumption, FS_Subset, FS_CardinalityType
<1> DEFINE f == [e \in p.mapTx |-> e.tx]
<1>3. f \in [p.mapTx -> InPool(p)] /\ \A x, y \in p.mapTx : f[x] = f[y] => x = y
    BY DEF InPool
<1>4. \A t \in InPool(p) : \E e \in p.mapTx : f[e] = t
    BY DEF InPool
<1> HIDE DEF f
<1>5. f \in Injection(p.mapTx, InPool(p)) /\ f \in Surjection(p.mapTx, InPool(p))
    BY <1>3, <1>4 DEF Injection, Surjection, IsInjective
<1>6. IsFiniteSet(p.mapTx) /\ Cardinality(p.mapTx) = Cardinality(InPool(p))
    BY <1>2, <1>5, FS_Injection
<1>. QED BY <1>1, <1>2, <1>6

\* MapThenSumSet over entries is additive.
LEMMA EntrySum ==
    ASSUME NEW X, IsFiniteSet(X), \A e \in X : GetModifiedFee(e) \in Int
    PROVE  \E f : /\ Additive(f, X, [e \in X |-> GetModifiedFee(e)])
                  /\ \A E \in SUBSET X : MapThenSumSet(GetModifiedFee, E) = f[E]
<1> DEFINE First(s) == CHOOSE x \in s : TRUE
           Rec(g, E) == g = [s \in SUBSET E |->
                                IF s = {} THEN 0
                                ELSE GetModifiedFee(First(s)) + g[s \ {First(s)}]]
           w == [e \in X |-> GetModifiedFee(e)]
<1>1. ASSUME NEW E \in SUBSET X
      PROVE  \E f \in [SUBSET E -> Int] : Rec(f, E)
  <2> DEFINE ch == [s \in SUBSET E |-> First(s)]
             step == [z \in Int \X E |-> GetModifiedFee(z[2]) + z[1]]
  <2>1. IsFiniteSet(E)
    BY <1>1, FS_Subset
  <2>2. step \in [Int \X E -> Int]
    OBVIOUS
  <2>3. Chooses(ch, E)
    BY DEF Chooses
  <2>4. \E f : Folds(f, E, Int, 0, step, ch)
    <3>1. 0 \in Int
        OBVIOUS
    <3> HIDE DEF step, ch
    <3>. QED BY <2>1, <2>2, <2>3, <3>1, FoldExists
  <2>5. PICK f : Folds(f, E, Int, 0, step, ch)
    BY <2>4
  <2>5a. f \in [SUBSET E -> Int]
    BY <2>5 DEF Folds
  <2>6. ASSUME NEW s \in SUBSET E, s # {}
        PROVE  f[s] = GetModifiedFee(First(s)) + f[s \ {First(s)}]
    <3>1. ch[s] = First(s) /\ First(s) \in s
        BY <2>3, <2>6 DEF Chooses
    <3>2. f[s] = step[<<f[s \ {First(s)}], First(s)>>]
        BY <2>5, <2>6, <3>1 DEF Folds
    <3>3. <<f[s \ {First(s)}], First(s)>> \in Int \X E
        BY <2>5a, <3>1
    <3>. QED BY <3>2, <3>3
  <2>7. f[{}] = 0
    BY <2>5 DEF Folds
  <2> HIDE DEF First, step, ch
  <2>8. f = [s \in SUBSET E |-> f[s]]
    BY <2>5a
  <2>. QED BY <2>5a, <2>6, <2>7, <2>8
<1>2. ASSUME NEW E \in SUBSET X, NEW f, Rec(f, E)
      PROVE  Additive(f, E, w)
  <2> DEFINE G == {s \in SUBSET E : f[s] \in Int}
             ch == [s \in SUBSET E |-> First(s)]
  <2>1. \A s \in SUBSET E : s # {} => First(s) \in s
    OBVIOUS
  <2> HIDE DEF First
  <2>2. \A s \in SUBSET E : f[s] = IF s = {} THEN 0 ELSE GetModifiedFee(First(s)) + f[s \ {First(s)}]
    BY <1>2
  <2>3. ASSUME NEW s \in SUBSET E, \A r \in SUBSET s : r # s => r \in G PROVE s \in G
    <3>1. CASE s = {}
      <4>1. f[{}] = 0
        BY <1>2
      <4>. QED BY <3>1, <4>1
    <3>2. CASE s # {}
      <4>1. First(s) \in s /\ First(s) \in X
        BY <2>1, <3>2
      <4>2. s \ {First(s)} \in G
        BY <2>3, <4>1
      <4>3. f[s] = GetModifiedFee(First(s)) + f[s \ {First(s)}]
        BY <2>2, <3>2
      <4>4. GetModifiedFee(First(s)) \in Int /\ f[s \ {First(s)}] \in Int
        BY <4>1, <4>2
      <4>. QED BY <4>3, <4>4
    <3>. QED BY <3>1, <3>2
  <2>4. IsFiniteSet(E)
    BY <1>2, FS_Subset
  <2>5. \A s \in SUBSET E : s \in G
    <3> HIDE DEF G
    <3>. QED BY <2>3, <2>4, StrongSubsetInduction
  <2>6. f \in [SUBSET E -> Int]
    BY <1>2, <2>5
  <2>7. \A s \in SUBSET E : s # {} => ch[s] \in s
    BY <2>1
  <2> DEFINE wE == [e \in E |-> GetModifiedFee(e)]
  <2>8. wE \in [E -> Int]
    OBVIOUS
  <2>9. \A s \in SUBSET E : f[s] = IF s = {} THEN 0 ELSE wE[ch[s]] + f[s \ {ch[s]}]
    BY <2>1, <2>2
  <2>10. Additive(f, E, wE)
    <3> HIDE DEF wE, ch
    <3>. QED BY <2>4, <2>6, <2>7, <2>8, <2>9, SumAdditive
  <2>11. \A x \in E : w[x] = wE[x]
    OBVIOUS
  <2> HIDE DEF w, wE
  <2>. QED BY <2>10, <2>11 DEF Additive
<1>3. PICK f \in [SUBSET X -> Int] : Rec(f, X)
    BY <1>1
<1>4. Additive(f, X, w)
    BY <1>2, <1>3
<1>5. ASSUME NEW E \in SUBSET X PROVE MapThenSumSet(GetModifiedFee, E) = f[E]
  <2>1. PICK g : g = CHOOSE h : Rec(h, E)
    OBVIOUS
  <2>2. MapThenSumSet(GetModifiedFee, E) = g[E]
    BY <2>1, Zenon DEF MapThenSumSet, MapThenFoldSet
  <2>3. Rec(g, E)
    <3> HIDE DEF Rec
    <3>. QED BY <1>1, <2>1, Zenon
  <2>4. Additive(g, E, w)
    BY <1>2, <2>3
  <2>5. IsFiniteSet(E) /\ E \in SUBSET (X \cap E)
    BY FS_Subset
  <2>6. f[E] = g[E]
    <3> HIDE DEF w
    <3>. QED BY <1>4, <2>4, <2>5, AdditiveUnique
  <2>. QED BY <2>2, <2>6
<1>. QED BY <1>4, <1>5

\* ModFees is the sum of the modified fees of transactions of the pool.
LEMMA ModFeesAdditive ==
    ASSUME NEW p, FeeShape(p)
    PROVE  Additive([S \in SUBSET InPool(p) |-> ModFees(p, S)], InPool(p), TxFee(p))
<1> DEFINE X == p.mapTx
           Of(S) == {e \in X : e.tx \in S}
           h == [S \in SUBSET InPool(p) |-> ModFees(p, S)]
           w == [e \in X |-> GetModifiedFee(e)]
<1>1. IsFiniteSet(X) /\ InPool(p) \in SUBSET Txs
    BY PoolFinite DEF FeeShape
<1>2. \A e \in X : e.tx \in Txs /\ GetModifiedFee(e) = TxFee(p)[e.tx] /\ TxFee(p)[e.tx] \in Int
    BY TxAssumption DEF FeeShape, GetModifiedFee, TxFee
<1>3. PICK f : /\ Additive(f, X, w)
               /\ \A E \in SUBSET X : MapThenSumSet(GetModifiedFee, E) = f[E]
  <2>1. \A e \in X : GetModifiedFee(e) \in Int
    BY <1>2
  <2>. QED BY <1>1, <2>1, EntrySum
<1>4. ASSUME NEW S \in SUBSET InPool(p) PROVE h[S] = f[Of(S)] /\ Of(S) \in SUBSET X
    BY <1>3, Zenon DEF ModFees
<1>5. h \in [SUBSET InPool(p) -> Int]
  <2>1. \A S \in SUBSET InPool(p) : h[S] \in Int
    <3> HIDE DEF h, Of
    <3>. QED BY <1>3, <1>4 DEF Additive
  <2>. QED BY <2>1
<1>6. h[{}] = 0
  <2>1. Of({}) = {}
    OBVIOUS
  <2>2. {} \in SUBSET InPool(p)
    OBVIOUS
  <2> HIDE DEF h, Of
  <2>. QED BY <1>3, <1>4, <2>1, <2>2 DEF Additive
<1>7. ASSUME NEW S \in SUBSET InPool(p), NEW x \in S PROVE h[S] = TxFee(p)[x] + h[S \ {x}]
  <2>1. PICK e \in X : e.tx = x
    BY DEF InPool
  <2>2. Of(S) \ {e} = Of(S \ {x}) /\ e \in Of(S)
    BY <2>1 DEF FeeShape
  <2>3. w[e] = TxFee(p)[x]
    BY <1>2, <2>1
  <2>4. S \ {x} \in SUBSET InPool(p)
    OBVIOUS
  <2> HIDE DEF h, Of, w
  <2>5. h[S] = f[Of(S)] /\ h[S \ {x}] = f[Of(S \ {x})] /\ Of(S) \in SUBSET X
    BY <1>4, <2>4
  <2>6. f[Of(S)] = w[e] + f[Of(S) \ {e}]
    BY <1>3, <2>2, <2>5 DEF Additive
  <2>. QED BY <2>2, <2>3, <2>5, <2>6
<1> HIDE DEF h
<1>8. Additive(h, InPool(p), TxFee(p))
    BY <1>5, <1>6, <1>7 DEF Additive
<1>. QED BY <1>8 DEF h

\* The sums of two disjoint sets, and of one more transaction.
LEMMA ModFeesUnion ==
    ASSUME NEW p, FeeShape(p),
           NEW A \in SUBSET InPool(p), NEW B \in SUBSET InPool(p), A \cap B = {}
    PROVE  /\ ModFees(p, A \cup B) = ModFees(p, A) + ModFees(p, B)
           /\ ModFees(p, A) \in Int
           /\ ModFees(p, B) \in Int
<1> DEFINE h == [S \in SUBSET InPool(p) |-> ModFees(p, S)]
<1>1. Additive(h, InPool(p), TxFee(p))
    BY ModFeesAdditive
<1>2. \A x \in InPool(p) : TxFee(p)[x] \in Int
    BY TxAssumption DEF FeeShape, TxFee, InPool
<1>3. IsFiniteSet(A)
    BY PoolFinite, FS_Subset DEF FeeShape
<1>4. h[A] = ModFees(p, A) /\ h[B] = ModFees(p, B) /\ h[A \cup B] = ModFees(p, A \cup B)
    OBVIOUS
<1> HIDE DEF h
<1>5. h[A \cup B] = h[A] + h[B]
    BY <1>1, <1>2, <1>3, AdditiveUnion
<1>6. h[A] \in Int /\ h[B] \in Int
    BY <1>1 DEF Additive
<1>. QED BY <1>4, <1>5, <1>6

\* The sum over one transaction is its modified fee.
LEMMA ModFeesOne ==
    ASSUME NEW p, FeeShape(p), NEW t \in InPool(p)
    PROVE  ModFees(p, {t}) = Fee[t] + p.mapDeltas[t]
<1> DEFINE h == [S \in SUBSET InPool(p) |-> ModFees(p, S)]
<1>1. Additive(h, InPool(p), TxFee(p))
    BY ModFeesAdditive
<1>2. h[{t}] = ModFees(p, {t}) /\ {t} \in SUBSET InPool(p) /\ {t} \ {t} = {}
    OBVIOUS
<1>3. t \in Txs /\ TxFee(p)[t] = Fee[t] + p.mapDeltas[t] /\ TxFee(p)[t] \in Int
    BY TxAssumption DEF FeeShape, TxFee, InPool
<1> HIDE DEF h
<1>4. h[{t}] = TxFee(p)[t] + h[{}] /\ h[{}] = 0
    BY <1>1, <1>2 DEF Additive
<1>. QED BY <1>2, <1>3, <1>4

\* The sum depends on the deltas of the set's own transactions only.
LEMMA ModFeesSame ==
    ASSUME NEW p, FeeShape(p), NEW q, FeeShape(q),
           NEW S \in SUBSET (InPool(p) \cap InPool(q)), \A t \in S : p.mapDeltas[t] = q.mapDeltas[t]
    PROVE  ModFees(p, S) = ModFees(q, S)
<1> DEFINE h == [A \in SUBSET InPool(p) |-> ModFees(p, A)]
           g == [A \in SUBSET InPool(q) |-> ModFees(q, A)]
<1>1. Additive(h, InPool(p), TxFee(p)) /\ Additive(g, InPool(q), TxFee(q))
    BY ModFeesAdditive
<1>2. h[S] = ModFees(p, S) /\ g[S] = ModFees(q, S)
    OBVIOUS
<1>3. \A t \in S : TxFee(p)[t] = TxFee(q)[t]
    BY DEF FeeShape, TxFee, InPool
<1>4. IsFiniteSet(S)
    BY PoolFinite, FS_Subset DEF FeeShape
<1> HIDE DEF h, g
<1>. QED BY <1>1, <1>2, <1>3, <1>4, AdditiveUnique

-----------------------------------------------------------------------------
(* Ancestors and descendants among a set P of transactions, by what the    *)
(* transactions spend.                                                     *)

Spends(u, t) == \E o \in Ins[u] : o[1] = t

ChildClosed(P, C) == \A x \in C, y \in P : Spends(y, x) => y \in C
ParentClosed(P, C) == \A x \in C, y \in P : Spends(x, y) => y \in C

Below(P, S) == {t \in P : \A C \in SUBSET P : S \subseteq C /\ ChildClosed(P, C) => t \in C}
Above(P, S) == {t \in P : \A C \in SUBSET P : S \subseteq C /\ ParentClosed(P, C) => t \in C}

\* The descendants are the smallest set closed under children.
LEMMA BelowFacts ==
    ASSUME NEW P, NEW S \in SUBSET P
    PROVE  /\ S \subseteq Below(P, S)
           /\ Below(P, S) \in SUBSET P
           /\ ChildClosed(P, Below(P, S))
           /\ \A C \in SUBSET P : S \subseteq C /\ ChildClosed(P, C) => Below(P, S) \subseteq C
<1>1. ASSUME NEW x \in Below(P, S), NEW y \in P, Spends(y, x) PROVE y \in Below(P, S)
  <2>1. ASSUME NEW C \in SUBSET P, S \subseteq C, ChildClosed(P, C) PROVE y \in C
    <3>1. x \in C
        BY <2>1 DEF Below
    <3>. QED BY <1>1, <2>1, <3>1 DEF ChildClosed
  <2>. QED BY <2>1 DEF Below
<1>2. ChildClosed(P, Below(P, S))
    BY <1>1 DEF ChildClosed
<1>. QED BY <1>2 DEF Below

\* The ancestors are the smallest set closed under parents.
LEMMA AboveFacts ==
    ASSUME NEW P, NEW S \in SUBSET P
    PROVE  /\ S \subseteq Above(P, S)
           /\ Above(P, S) \in SUBSET P
           /\ ParentClosed(P, Above(P, S))
           /\ \A C \in SUBSET P : S \subseteq C /\ ParentClosed(P, C) => Above(P, S) \subseteq C
<1>1. ASSUME NEW x \in Above(P, S), NEW y \in P, Spends(x, y) PROVE y \in Above(P, S)
  <2>1. ASSUME NEW C \in SUBSET P, S \subseteq C, ParentClosed(P, C) PROVE y \in C
    <3>1. x \in C
        BY <2>1 DEF Above
    <3>. QED BY <1>1, <2>1, <3>1 DEF ParentClosed
  <2>. QED BY <2>1 DEF Above
<1>2. ParentClosed(P, Above(P, S))
    BY <1>1 DEF ParentClosed
<1>. QED BY <1>2 DEF Above

\* d descends from e exactly when e is an ancestor of d.
LEMMA Duality ==
    ASSUME NEW P, NEW d \in P, NEW e \in P
    PROVE  d \in Below(P, {e}) <=> e \in Above(P, {d})
<1>0. \A x \in P : {x} \in SUBSET P
    OBVIOUS
<1>1. ASSUME d \in Below(P, {e}) PROVE e \in Above(P, {d})
  <2> DEFINE C == {x \in P : e \in Above(P, {x})}
  <2>1. {e} \subseteq C
    BY <1>0, AboveFacts
  <2>2. ASSUME NEW x \in C, NEW y \in P, Spends(y, x) PROVE y \in C
    <3>1. y \in Above(P, {y}) /\ ParentClosed(P, Above(P, {y})) /\ Above(P, {y}) \in SUBSET P
        BY <1>0, AboveFacts
    <3>2. {x} \subseteq Above(P, {y})
        BY <2>2, <3>1 DEF ParentClosed
    <3>3. Above(P, {x}) \subseteq Above(P, {y})
        BY <1>0, <3>1, <3>2, AboveFacts
    <3>. QED BY <3>3
  <2>3. ChildClosed(P, C)
    BY <2>2 DEF ChildClosed
  <2>4. C \in SUBSET P
    OBVIOUS
  <2> HIDE DEF C
  <2>5. d \in C
    BY <1>0, <1>1, <2>1, <2>3, <2>4, BelowFacts
  <2>. QED BY <2>5 DEF C
<1>2. ASSUME e \in Above(P, {d}) PROVE d \in Below(P, {e})
  <2> DEFINE C == {x \in P : d \in Below(P, {x})}
  <2>1. {d} \subseteq C
    BY <1>0, BelowFacts
  <2>2. ASSUME NEW x \in C, NEW y \in P, Spends(x, y) PROVE y \in C
    <3>1. y \in Below(P, {y}) /\ ChildClosed(P, Below(P, {y})) /\ Below(P, {y}) \in SUBSET P
        BY <1>0, BelowFacts
    <3>2. {x} \subseteq Below(P, {y})
        BY <2>2, <3>1 DEF ChildClosed
    <3>3. Below(P, {x}) \subseteq Below(P, {y})
        BY <1>0, <3>1, <3>2, BelowFacts
    <3>. QED BY <3>3
  <2>3. ParentClosed(P, C)
    BY <2>2 DEF ParentClosed
  <2>4. C \in SUBSET P
    OBVIOUS
  <2> HIDE DEF C
  <2>5. e \in C
    BY <1>0, <1>2, <2>1, <2>3, <2>4, AboveFacts
  <2>. QED BY <2>5 DEF C
<1>. QED BY <1>1, <1>2

Parents(P, t) == {x \in P : Spends(t, x)}

\* The same without r itself: e is above the parents of r when r is below e.
LEMMA StrictDuality ==
    ASSUME NEW P, NEW r \in P, NEW e \in P, r # e
    PROVE  e \in Above(P, Parents(P, r)) <=> r \in Below(P, {e})
<1>0. {r} \in SUBSET P /\ Parents(P, r) \in SUBSET P
    BY DEF Parents
<1>1. Above(P, Parents(P, r)) \subseteq Above(P, {r})
  <2>1. Above(P, {r}) \in SUBSET P /\ ParentClosed(P, Above(P, {r})) /\ r \in Above(P, {r})
    BY <1>0, AboveFacts
  <2>2. Parents(P, r) \subseteq Above(P, {r})
    BY <2>1 DEF ParentClosed, Parents
  <2>. QED BY <1>0, <2>1, <2>2, AboveFacts
<1>2. Above(P, {r}) \subseteq {r} \cup Above(P, Parents(P, r))
  <2> DEFINE A == Above(P, Parents(P, r))
             C == {r} \cup A
  <2>1. A \in SUBSET P /\ ParentClosed(P, A) /\ Parents(P, r) \subseteq A
    BY <1>0, AboveFacts
  <2>2. ParentClosed(P, C)
    BY <2>1 DEF ParentClosed, Parents
  <2>3. C \in SUBSET P /\ {r} \subseteq C
    BY <2>1
  <2> HIDE DEF C, A
  <2>. QED BY <1>0, <2>2, <2>3, AboveFacts DEF C, A
<1>. QED BY <1>1, <1>2, Duality

\* Ancestors closed off from S are not below it.
LEMMA BelowDisjoint ==
    ASSUME NEW P, NEW S \in SUBSET P, NEW A \in SUBSET P, ParentClosed(P, A), S \cap A = {}
    PROVE  Below(P, S) \cap A = {}
<1>1. P \ A \in SUBSET P /\ S \subseteq P \ A
    OBVIOUS
<1>2. ChildClosed(P, P \ A)
    BY DEF ParentClosed, ChildClosed
<1>. QED BY <1>1, <1>2, BelowFacts

\* Leaving out a set with all descendants: ancestors stay, descendants lose the set.
LEMMA RemoveBelow ==
    ASSUME NEW P, NEW D \in SUBSET P, ChildClosed(P, D)
    PROVE  /\ \A S \in SUBSET (P \ D) : Above(P \ D, S) = Above(P, S)
           /\ \A e \in P \ D : Below(P \ D, {e}) = Below(P, {e}) \ D
<1> DEFINE Q == P \ D
<1>1. Q \in SUBSET P /\ ParentClosed(P, Q)
    BY DEF ParentClosed, ChildClosed
<1>2. ASSUME NEW S \in SUBSET Q PROVE Above(Q, S) = Above(P, S)
  <2>1. S \in SUBSET P /\ S \subseteq Q
    BY <1>1
  <2>2. Above(P, S) \subseteq Q
    BY <1>1, <2>1, AboveFacts
  <2>3. Above(P, S) \subseteq Above(Q, S)
    <3>1. S \subseteq Above(Q, S) /\ Above(Q, S) \in SUBSET Q /\ ParentClosed(Q, Above(Q, S))
        BY <1>2, AboveFacts
    <3>2. Above(Q, S) \in SUBSET P /\ ParentClosed(P, Above(Q, S))
        BY <1>1, <3>1 DEF ParentClosed
    <3>. QED BY <2>1, <3>1, <3>2, AboveFacts
  <2>4. Above(Q, S) \subseteq Above(P, S)
    <3>1. S \subseteq Above(P, S) /\ ParentClosed(P, Above(P, S))
        BY <2>1, AboveFacts
    <3>2. Above(P, S) \in SUBSET Q /\ ParentClosed(Q, Above(P, S))
        BY <1>1, <2>2, <3>1 DEF ParentClosed
    <3>. QED BY <1>2, <3>1, <3>2, AboveFacts
  <2>. QED BY <2>3, <2>4
<1>3. ASSUME NEW e \in Q PROVE Below(Q, {e}) = Below(P, {e}) \ D
  <2>0. {e} \in SUBSET P /\ {e} \in SUBSET Q
    BY <1>1
  <2>1. Below(P, {e}) \in SUBSET P /\ ChildClosed(P, Below(P, {e})) /\ e \in Below(P, {e})
    BY <2>0, BelowFacts
  <2>2. Below(Q, {e}) \in SUBSET Q /\ ChildClosed(Q, Below(Q, {e})) /\ e \in Below(Q, {e})
    BY <2>0, BelowFacts
  <2>3. Below(Q, {e}) \subseteq Below(P, {e}) \ D
    <3> DEFINE C == Below(P, {e}) \ D
    <3>1. C \in SUBSET Q /\ {e} \subseteq C /\ ChildClosed(Q, C)
        BY <2>1 DEF ChildClosed
    <3> HIDE DEF C
    <3>2. Below(Q, {e}) \subseteq C
        BY <2>0, <3>1, BelowFacts
    <3>. QED BY <3>2 DEF C
  <2>4. Below(P, {e}) \subseteq Below(Q, {e}) \cup D
    <3> DEFINE C == Below(Q, {e}) \cup D
    <3>1. C \in SUBSET P /\ {e} \subseteq C /\ ChildClosed(P, C)
        BY <2>2 DEF ChildClosed
    <3> HIDE DEF C
    <3>2. Below(P, {e}) \subseteq C
        BY <2>0, <3>1, BelowFacts
    <3>. QED BY <3>2 DEF C
  <2>. QED BY <2>2, <2>3, <2>4
<1>. QED BY <1>2, <1>3

\* Leaving out a transaction without parents: descendants stay, it is nobody's
\* ancestor any more.
LEMMA RemoveTop ==
    ASSUME NEW P, NEW t \in P, \A x \in P : ~Spends(t, x)
    PROVE  \A e \in P \ {t} : /\ Below(P \ {t}, {e}) = Below(P, {e})
                              /\ Above(P \ {t}, {e}) = Above(P, {e}) \ {t}
<1> DEFINE Q == P \ {t}
<1> SUFFICES ASSUME NEW e \in Q
             PROVE  Below(Q, {e}) = Below(P, {e}) /\ Above(Q, {e}) = Above(P, {e}) \ {t}
    OBVIOUS
<1>0. {e} \in SUBSET P /\ {e} \in SUBSET Q /\ Q \in SUBSET P
    OBVIOUS
<1>1. Below(P, {e}) \in SUBSET P /\ ChildClosed(P, Below(P, {e})) /\ {e} \subseteq Below(P, {e})
    BY <1>0, BelowFacts
<1>2. Below(Q, {e}) \in SUBSET Q /\ ChildClosed(Q, Below(Q, {e})) /\ {e} \subseteq Below(Q, {e})
    BY <1>0, BelowFacts
<1>3. Above(P, {e}) \in SUBSET P /\ ParentClosed(P, Above(P, {e})) /\ {e} \subseteq Above(P, {e})
    BY <1>0, AboveFacts
<1>4. Above(Q, {e}) \in SUBSET Q /\ ParentClosed(Q, Above(Q, {e})) /\ {e} \subseteq Above(Q, {e})
    BY <1>0, AboveFacts
<1>5. Below(P, {e}) \subseteq Below(Q, {e})
  <2>1. ChildClosed(P, Below(Q, {e})) /\ Below(Q, {e}) \in SUBSET P
    BY <1>2 DEF ChildClosed
  <2>. QED BY <1>0, <1>2, <2>1, BelowFacts
<1>6. Below(Q, {e}) \subseteq Below(P, {e})
  <2>1. Below(P, {e}) \in SUBSET Q
    BY <1>2, <1>5
  <2>2. ChildClosed(Q, Below(P, {e}))
    BY <1>1 DEF ChildClosed
  <2>. QED BY <1>0, <1>1, <2>1, <2>2, BelowFacts
<1>7. Above(Q, {e}) \subseteq Above(P, {e}) \ {t}
  <2> DEFINE C == Above(P, {e}) \ {t}
  <2>1. C \in SUBSET Q /\ {e} \subseteq C /\ ParentClosed(Q, C)
    BY <1>3 DEF ParentClosed
  <2> HIDE DEF C
  <2>2. Above(Q, {e}) \subseteq C
    BY <1>0, <2>1, AboveFacts
  <2>. QED BY <2>2 DEF C
<1>8. Above(P, {e}) \subseteq Above(Q, {e}) \cup {t}
  <2> DEFINE C == Above(Q, {e}) \cup {t}
  <2>1. C \in SUBSET P /\ {e} \subseteq C /\ ParentClosed(P, C)
    BY <1>4 DEF ParentClosed
  <2> HIDE DEF C
  <2>2. Above(P, {e}) \subseteq C
    BY <1>0, <2>1, AboveFacts
  <2>. QED BY <2>2 DEF C
<1>. QED BY <1>4, <1>5, <1>6, <1>7, <1>8

\* With t added to P, t is below its ancestors, and nothing else changes.
BottomAdded(P, t) ==
    LET A == Above(P, Parents(P, t))
        Q == P \cup {t}
    IN  /\ Above(Q, {t}) = {t} \cup A
        /\ Below(Q, {t}) = {t}
        /\ \A e \in P : /\ Above(Q, {e}) = Above(P, {e})
                        /\ Below(Q, {e}) = Below(P, {e}) \cup (IF e \in A THEN {t} ELSE {})

\* Adding a transaction that nothing spends: it is below its ancestors.
LEMMA AddBottom ==
    ASSUME NEW P, NEW t, t \notin P, \A y \in P \cup {t} : ~Spends(y, t)
    PROVE  BottomAdded(P, t)
<1> DEFINE Par == Parents(P, t)
           A == Above(P, Par)
           Q == P \cup {t}
<1>0. Par \in SUBSET P /\ {t} \in SUBSET Q /\ P \in SUBSET Q /\ Parents(Q, t) = Par
    BY DEF Parents
<1>1. A \in SUBSET P /\ ParentClosed(P, A) /\ Par \subseteq A
    BY <1>0, AboveFacts
<1>2. ChildClosed(Q, {t}) /\ {t} \in SUBSET Q
    BY DEF ChildClosed
<1>3. Below(Q, {t}) = {t}
    BY <1>2, BelowFacts
<1>4. Q \ {t} = P
    OBVIOUS
<1>5. /\ \A S \in SUBSET P : Above(P, S) = Above(Q, S)
      /\ \A e \in P : Below(P, {e}) = Below(Q, {e}) \ {t}
  <2> HIDE DEF Q
  <2>1. /\ \A S \in SUBSET (Q \ {t}) : Above(Q \ {t}, S) = Above(Q, S)
        /\ \A e \in Q \ {t} : Below(Q \ {t}, {e}) = Below(Q, {e}) \ {t}
    BY <1>2, RemoveBelow, Zenon
  <2>. QED BY <1>4, <2>1, Zenon
<1>6. \A e \in P : Above(Q, {e}) = Above(P, {e})
    BY <1>5
<1>7. ASSUME NEW e \in P PROVE t \in Below(Q, {e}) <=> e \in A
  <2>1. t \in Below(Q, {e}) <=> e \in Above(Q, Par)
    BY <1>0, StrictDuality
  <2>. QED BY <1>0, <1>5, <2>1
<1>8. ASSUME NEW e \in P
      PROVE  Below(Q, {e}) = Below(P, {e}) \cup (IF e \in A THEN {t} ELSE {})
  <2>1. Below(P, {e}) = Below(Q, {e}) \ {t}
    BY <1>5
  <2>. QED BY <1>7, <2>1
<1>9. Above(Q, {t}) = {t} \cup A
  <2>1. t \in Above(Q, {t}) /\ Above(Q, {t}) \in SUBSET Q
    BY <1>0, AboveFacts
  <2>2. ASSUME NEW e \in P PROVE e \in Above(Q, {t}) <=> e \in A
    BY <1>7, Duality
  <2>. QED BY <1>1, <2>1, <2>2
<1> HIDE DEF A, Q
<1>. QED BY <1>3, <1>6, <1>8, <1>9, Zenon DEF A, Q, BottomAdded

-----------------------------------------------------------------------------
(* Pools of the right shape.                                               *)

\* The links of a pool follow from what its transactions spend, and so do the walks
\* along them.
LEMMA IndexedGraph ==
    ASSUME NEW p, FeeShape(p), Indexed(p)
    PROVE  /\ InPool(p) \in SUBSET Txs
           /\ IsFiniteSet(InPool(p))
           /\ \A e \in p.mapTx :
                 /\ e.tx \in InPool(p)
                 /\ e.parents = Parents(InPool(p), e.tx)
                 /\ e.children = {y \in InPool(p) : Spends(y, e.tx)}
           /\ \A S : /\ CalculateDescendants(p, S) = Below(InPool(p), S)
                     /\ CalculateMemPoolAncestors(p, S) = Above(InPool(p), S)
<1> DEFINE P == InPool(p)
<1>1. \A e \in p.mapTx : e.tx \in Txs /\ e.tx \in P
    BY DEF FeeShape, InPool
<1>3. P \in SUBSET Txs /\ IsFiniteSet(P)
    BY PoolFinite DEF FeeShape
<1>4. ASSUME NEW t \in Txs PROVE SearchParents(p, t) = Parents(P, t)
    BY TxAssumption DEF SearchParents, Parents, Spends
<1>5. \A e \in p.mapTx : e.parents = Parents(P, e.tx)
    BY <1>1, <1>4 DEF Indexed
<1>6. ASSUME NEW e \in p.mapTx PROVE e.children = {y \in P : Spends(y, e.tx)}
  <2>1. e.children = {f.tx : f \in {f \in p.mapTx : e.tx \in f.parents}}
    BY DEF Indexed
  <2>2. \A f \in p.mapTx : e.tx \in f.parents <=> Spends(f.tx, e.tx)
    BY <1>1, <1>5 DEF Parents
  <2>. QED BY <2>1, <2>2 DEF InPool
<1>7. ASSUME NEW C \in SUBSET P
      PROVE  /\ (\A e \in p.mapTx : e.tx \in C => e.children \subseteq C) <=> ChildClosed(P, C)
             /\ (\A e \in p.mapTx : e.tx \in C => e.parents \subseteq C) <=> ParentClosed(P, C)
  <2>1. \A x \in C : \E e \in p.mapTx : e.tx = x
    BY DEF InPool
  <2>2. (\A e \in p.mapTx : e.tx \in C => e.children \subseteq C) <=> ChildClosed(P, C)
    BY <1>6, <2>1 DEF ChildClosed
  <2>3. (\A e \in p.mapTx : e.tx \in C => e.parents \subseteq C) <=> ParentClosed(P, C)
    BY <1>5, <2>1 DEF ParentClosed, Parents
  <2>. QED BY <2>2, <2>3
<1>8. ASSUME NEW S PROVE CalculateDescendants(p, S) = Below(P, S)
    BY <1>7 DEF CalculateDescendants, Below
<1>9. ASSUME NEW S PROVE CalculateMemPoolAncestors(p, S) = Above(P, S)
    BY <1>7 DEF CalculateMemPoolAncestors, Above
<1>. QED BY <1>1, <1>3, <1>5, <1>6, <1>8, <1>9

\* So they do in a pool of the right shape.
LEMMA PoolGraph ==
    ASSUME NEW p, PoolShape(p)
    PROVE  /\ FeeShape(p)
           /\ InPool(p) \in SUBSET Txs
           /\ IsFiniteSet(InPool(p))
           /\ \A e \in p.mapTx :
                 /\ e \in Entries
                 /\ e.tx \in InPool(p)
                 /\ e.parents = Parents(InPool(p), e.tx)
                 /\ e.children = {y \in InPool(p) : Spends(y, e.tx)}
           /\ \A S : /\ CalculateDescendants(p, S) = Below(InPool(p), S)
                     /\ CalculateMemPoolAncestors(p, S) = Above(InPool(p), S)
<1>1. \A e \in p.mapTx : e \in Entries /\ e.tx \in Txs /\ e.feeDelta = p.mapDeltas[e.tx]
    BY DEF PoolShape, Entries
<1>2. FeeShape(p) /\ Indexed(p)
    BY <1>1 DEF PoolShape, FeeShape
<1>. QED BY <1>1, <1>2, IndexedGraph

\* The totals of e are those of its descendants and ancestors.
ExactEntry(p, e) ==
    /\ e.nCountWithDescendants = Cardinality(Below(InPool(p), {e.tx}))
    /\ e.nModFeesWithDescendants = ModFees(p, Below(InPool(p), {e.tx}))
    /\ e.nCountWithAncestors = Cardinality(Above(InPool(p), {e.tx}))

\* What makes a pool of the right shape.
LEMMA MakeShape ==
    ASSUME NEW q, FeeShape(q), Indexed(q),
           q = [mapTx |-> q.mapTx, mapNextTx |-> q.mapNextTx, mapDeltas |-> q.mapDeltas],
           q.mapNextTx \in SUBSET [prevout : OutPoints, tx : Txs],
           \A e \in q.mapTx : ExactEntry(q, e) /\ \E d \in Int : \E x \in SUBSET Txs, y \in SUBSET Txs :
              e = [tx |-> e.tx, feeDelta |-> e.feeDelta, parents |-> x, children |-> y,
                   nCountWithDescendants |-> e.nCountWithDescendants,
                   nModFeesWithDescendants |-> e.nModFeesWithDescendants,
                   nCountWithAncestors |-> e.nCountWithAncestors,
                   nModFeesWithAncestors |-> d]
    PROVE  PoolShape(q)
<1> DEFINE Q == InPool(q)
<1>1. Q \in SUBSET Txs /\ IsFiniteSet(Q) /\ \A e \in q.mapTx : e.tx \in Q
    BY IndexedGraph
<1>2. ASSUME NEW t \in Q
      PROVE  /\ Cardinality(Below(Q, {t})) \in Nat
             /\ Cardinality(Above(Q, {t})) \in Nat
             /\ ModFees(q, Below(Q, {t})) \in Int
  <2>1. Below(Q, {t}) \in SUBSET Q /\ Above(Q, {t}) \in SUBSET Q
    BY DEF Below, Above
  <2>2. ModFees(q, Below(Q, {t})) \in Int
    <3>1. {} \in SUBSET Q /\ Below(Q, {t}) \cap {} = {}
        OBVIOUS
    <3> HIDE DEF Q
    <3>. QED BY <2>1, <3>1, ModFeesUnion DEF Q
  <2>. QED BY <1>1, <2>1, <2>2, FS_Subset, FS_CardinalityType
<1>3. ASSUME NEW e \in q.mapTx PROVE e \in Entries
  <2>1. /\ e.tx \in Txs /\ e.feeDelta \in Int
        /\ e.nCountWithDescendants \in Nat
        /\ e.nModFeesWithDescendants \in Int
        /\ e.nCountWithAncestors \in Nat
    BY <1>1, <1>2 DEF ExactEntry, FeeShape
  <2>. QED BY <2>1 DEF Entries
<1>4. Totalled(q)
    BY IndexedGraph DEF Totalled, ExactEntry
<1>5. q \in [mapTx : SUBSET Entries, mapNextTx : SUBSET [prevout : OutPoints, tx : Txs],
             mapDeltas : [Txs -> Int]]
    BY <1>3 DEF FeeShape
<1>. QED BY <1>4, <1>5 DEF PoolShape, FeeShape

\* The entries of a pool of the right shape have exact totals.
LEMMA ShapeExact ==
    ASSUME NEW p, PoolShape(p), NEW e \in p.mapTx
    PROVE  ExactEntry(p, e)
    BY PoolGraph DEF PoolShape, Totalled, ExactEntry

\* The entries that leave with stage and count, above or below, in the totals of e.
GoneAbove(P, stage, u, t) == {r \in stage : u /\ t \in Below(P, {r}) \ {r}}
GoneBelow(P, stage, t) == {r \in stage : t \in Above(P, Parents(P, r))}

\* What becomes of an entry when stage leaves.
LEMMA RemovalEntry ==
    ASSUME NEW p, PoolShape(p), NEW stage \in SUBSET InPool(p), NEW u \in BOOLEAN, NEW e \in p.mapTx
    PROVE  LET P == InPool(p)
               ga == GoneAbove(P, stage, u, e.tx)
               gb == GoneBelow(P, stage, e.tx)
           IN  UpdatedForRemoval(p, stage, u, e) =
                 [tx |-> e.tx, feeDelta |-> e.feeDelta,
                  parents |-> e.parents \ stage, children |-> e.children \ stage,
                  nCountWithDescendants |-> e.nCountWithDescendants - Cardinality(gb),
                  nModFeesWithDescendants |-> e.nModFeesWithDescendants - ModFees(p, gb),
                  nCountWithAncestors |-> e.nCountWithAncestors - Cardinality(ga),
                  nModFeesWithAncestors |-> e.nModFeesWithAncestors - ModFees(p, ga)]
<1> DEFINE P == InPool(p)
           removed == {r \in p.mapTx : r.tx \in stage}
           ga == GoneAbove(P, stage, u, e.tx)
           gb == GoneBelow(P, stage, e.tx)
<1>1. \A r \in p.mapTx : /\ r.tx \in P
                         /\ r.parents = Parents(P, r.tx)
                         /\ r.children = {y \in P : Spends(y, r.tx)}
    BY PoolGraph
<1>2. \A t \in stage : \E r \in removed : r.tx = t
    BY DEF InPool
<1>3. {r.tx : r \in {r \in removed : u /\ e.tx \in CalculateDescendants(p, {r.tx}) \ {r.tx}}} = ga
  <2>1. \A r \in removed : CalculateDescendants(p, {r.tx}) = Below(P, {r.tx})
    BY PoolGraph
  <2>. QED BY <1>2, <2>1 DEF GoneAbove
<1>4. {r.tx : r \in {r \in removed : e.tx \in CalculateMemPoolAncestors(p, r.parents)}} = gb
  <2>1. \A r \in removed : CalculateMemPoolAncestors(p, r.parents) = Above(P, Parents(P, r.tx))
    BY <1>1, PoolGraph
  <2>. QED BY <1>2, <2>1 DEF GoneBelow
<1>5. e.children \ {r.tx : r \in {r \in removed : e.tx \in r.parents}} = e.children \ stage
    BY <1>1, <1>2 DEF Parents
<1>6. e.parents \ {r.tx : r \in {r \in removed : e.tx \in r.children}} = e.parents \ stage
    BY <1>1, <1>2 DEF Parents
<1>7. e \in Entries
    BY PoolGraph
<1> DEFINE cg == {r.tx : r \in {r \in removed : e.tx \in r.parents}}
           pg == {r.tx : r \in {r \in removed : e.tx \in r.children}}
<1>8. UpdatedForRemoval(p, stage, u, e) =
         [e EXCEPT !.nCountWithAncestors = @ - Cardinality(ga),
                   !.nModFeesWithAncestors = @ - ModFees(p, ga),
                   !.nCountWithDescendants = @ - Cardinality(gb),
                   !.nModFeesWithDescendants = @ - ModFees(p, gb),
                   !.children = @ \ cg,
                   !.parents = @ \ pg]
  <2> HIDE DEF ga, gb
  <2>. QED BY <1>3, <1>4, Zenon DEF UpdatedForRemoval
<1>9. e.children \ cg = e.children \ stage /\ e.parents \ pg = e.parents \ stage
    BY <1>5, <1>6
<1> HIDE DEF ga, gb, cg, pg, P
<1>10. UpdatedForRemoval(p, stage, u, e) =
                 [tx |-> e.tx, feeDelta |-> e.feeDelta,
                  parents |-> e.parents \ stage, children |-> e.children \ stage,
                  nCountWithDescendants |-> e.nCountWithDescendants - Cardinality(gb),
                  nModFeesWithDescendants |-> e.nModFeesWithDescendants - ModFees(p, gb),
                  nCountWithAncestors |-> e.nCountWithAncestors - Cardinality(ga),
                  nModFeesWithAncestors |-> e.nModFeesWithAncestors - ModFees(p, ga)]
    BY <1>7, <1>8, <1>9 DEF Entries
<1>. QED BY <1>10 DEF ga, gb, P

\* Leaving out any set of entries keeps the indexes exact.
LEMMA RemoveIndexed ==
    ASSUME NEW p, PoolShape(p), NEW stage \in SUBSET InPool(p), NEW u \in BOOLEAN
    PROVE  LET q == RemoveStaged(p, stage, u)
           IN  /\ q.mapTx = {UpdatedForRemoval(p, stage, u, e) : e \in {f \in p.mapTx : f.tx \notin stage}}
               /\ q.mapDeltas = p.mapDeltas
               /\ q = [mapTx |-> q.mapTx, mapNextTx |-> q.mapNextTx, mapDeltas |-> q.mapDeltas]
               /\ q.mapNextTx \in SUBSET [prevout : OutPoints, tx : Txs]
               /\ InPool(q) = InPool(p) \ stage
               /\ FeeShape(q)
               /\ Indexed(q)
<1> DEFINE q == RemoveStaged(p, stage, u)
           upd(e) == UpdatedForRemoval(p, stage, u, e)
           kept == {e \in p.mapTx : e.tx \notin stage}
           P == InPool(p)
           Q == P \ stage
<1>1. p \in [mapTx : SUBSET Entries, mapNextTx : SUBSET [prevout : OutPoints, tx : Txs],
             mapDeltas : [Txs -> Int]]
    BY DEF PoolShape
<1>2. \A e \in p.mapTx : /\ upd(e).tx = e.tx
                         /\ upd(e).feeDelta = e.feeDelta
                         /\ upd(e).parents = e.parents \ stage
                         /\ upd(e).children = e.children \ stage
    BY RemovalEntry
<1>3. \A e \in p.mapTx : /\ e.tx \in P /\ e.tx \in Txs
                         /\ e.parents = Parents(P, e.tx)
                         /\ e.children = {y \in P : Spends(y, e.tx)}
    BY PoolGraph
<1> HIDE DEF upd
<1>4. /\ q.mapTx = {x \in {upd(e) : e \in p.mapTx} : x.tx \notin stage}
      /\ q.mapNextTx = {n \in p.mapNextTx : \A t \in stage : n.prevout \notin Ins[t]}
      /\ q.mapDeltas = p.mapDeltas
      /\ q = [mapTx |-> q.mapTx, mapNextTx |-> q.mapNextTx, mapDeltas |-> q.mapDeltas]
  <2> DEFINE v == UpdateForRemoveFromMempool(p, stage, u)
  <2>1. v = [p EXCEPT !.mapTx = {upd(e) : e \in p.mapTx}]
    BY <1>1 DEF UpdateForRemoveFromMempool, upd
  <2>2. /\ v.mapTx = {upd(e) : e \in p.mapTx}
        /\ v.mapNextTx = p.mapNextTx
        /\ v.mapDeltas = p.mapDeltas
        /\ v = [mapTx |-> v.mapTx, mapNextTx |-> v.mapNextTx, mapDeltas |-> v.mapDeltas]
    BY <1>1, <2>1
  <2> HIDE DEF v
  <2>3. q = [v EXCEPT !.mapTx = {e \in @ : e.tx \notin stage},
                      !.mapNextTx = {n \in @ : \A t \in stage : n.prevout \notin Ins[t]}]
    BY Zenon DEF RemoveStaged, removeUnchecked, v
  <2>. QED BY <2>2, <2>3
<1> HIDE DEF q
<1>5. q.mapTx = {upd(e) : e \in kept}
    BY <1>2, <1>4
<1>6. InPool(q) = Q
    BY <1>2, <1>5 DEF InPool
<1>7. FeeShape(q)
  <2>1. \A x \in q.mapTx : x.tx \in Txs /\ x.feeDelta = q.mapDeltas[x.tx]
    BY <1>2, <1>3, <1>4, <1>5 DEF PoolShape
  <2>2. ASSUME NEW x \in q.mapTx, NEW y \in q.mapTx, x.tx = y.tx PROVE x = y
    <3>1. PICK e \in kept, f \in kept : x = upd(e) /\ y = upd(f)
        BY <1>5
    <3>2. e = f
        BY <1>2, <2>2, <3>1 DEF PoolShape
    <3>. QED BY <3>1, <3>2
  <2>3. q.mapDeltas \in [Txs -> Int]
    BY <1>1, <1>4
  <2>. QED BY <2>1, <2>2, <2>3 DEF FeeShape
<1>8. q.mapNextTx = UNION {{[prevout |-> o, tx |-> t] : o \in Ins[t]} : t \in InPool(q)}
  <2>1. p.mapNextTx = UNION {{[prevout |-> o, tx |-> t] : o \in Ins[t]} : t \in P}
    BY DEF PoolShape, Indexed
  <2>2. \A n, m \in p.mapNextTx : n.prevout = m.prevout => n = m
    BY DEF PoolShape, Indexed
  <2>3. ASSUME NEW n \in q.mapNextTx
        PROVE  n \in UNION {{[prevout |-> o, tx |-> t] : o \in Ins[t]} : t \in Q}
    <3>1. PICK t \in P : \E o \in Ins[t] : n = [prevout |-> o, tx |-> t]
        BY <1>4, <2>1
    <3>2. t \notin stage
        BY <1>4, <3>1
    <3>. QED BY <3>1, <3>2
  <2>4. ASSUME NEW t \in Q, NEW o \in Ins[t]
        PROVE  [prevout |-> o, tx |-> t] \in q.mapNextTx
    <3> DEFINE n == [prevout |-> o, tx |-> t]
    <3>1. n \in p.mapNextTx
        BY <2>1
    <3>2. ASSUME NEW s \in stage, o \in Ins[s] PROVE FALSE
      <4>1. [prevout |-> o, tx |-> s] \in p.mapNextTx
        BY <2>1, <3>2
      <4>2. n = [prevout |-> o, tx |-> s]
        BY <2>2, <3>1, <4>1
      <4>. QED BY <4>2
    <3>. QED BY <1>4, <3>1, <3>2
  <2>. QED BY <1>6, <2>3, <2>4
<1>9. \A n, m \in q.mapNextTx : n.prevout = m.prevout => n = m
    BY <1>4 DEF PoolShape, Indexed
<1>10. ASSUME NEW x \in q.mapTx
       PROVE  /\ x.parents = SearchParents(q, x.tx)
              /\ x.children = {f.tx : f \in {f \in q.mapTx : x.tx \in f.parents}}
  <2>1. PICK e \in kept : x = upd(e)
    BY <1>5
  <2>2. x.tx = e.tx /\ x.tx \in Q /\ x.parents = Parents(P, e.tx) \ stage
        /\ x.children = {y \in P : Spends(y, e.tx)} \ stage
    BY <1>2, <1>3, <2>1
  <2>3. SearchParents(q, x.tx) = Parents(Q, x.tx)
    BY <1>3, <1>6, <2>1, <2>2, TxAssumption DEF SearchParents, Parents, Spends
  <2>4. x.parents = SearchParents(q, x.tx)
    BY <2>2, <2>3 DEF Parents
  <2>5. \A f \in q.mapTx : f.tx \in Q /\ (x.tx \in f.parents <=> Spends(f.tx, x.tx))
    BY <1>2, <1>3, <1>5, <2>2 DEF Parents
  <2>6. \A y \in Q : \E f \in q.mapTx : f.tx = y
    BY <1>6 DEF InPool
  <2>7. x.children = {f.tx : f \in {f \in q.mapTx : x.tx \in f.parents}}
    BY <2>2, <2>5, <2>6
  <2>. QED BY <2>4, <2>7
<1>11. Indexed(q)
    BY <1>8, <1>9, <1>10 DEF Indexed
<1>12. q.mapNextTx \in SUBSET [prevout : OutPoints, tx : Txs]
    BY <1>1, <1>4
<1>. QED BY <1>4, <1>5, <1>6, <1>7, <1>11, <1>12 DEF q, upd

\* When a set leaves with all its descendants, the totals stay exact.
LEMMA RemoveClosed ==
    ASSUME NEW p, PoolShape(p), NEW stage \in SUBSET InPool(p), ChildClosed(InPool(p), stage)
    PROVE  LET q == RemoveStaged(p, stage, FALSE)
           IN  /\ PoolShape(q)
               /\ InPool(q) = InPool(p) \ stage
               /\ q.mapDeltas = p.mapDeltas
<1> DEFINE q == RemoveStaged(p, stage, FALSE)
           P == InPool(p)
           Q == P \ stage
           upd(e) == UpdatedForRemoval(p, stage, FALSE, e)
           kept == {f \in p.mapTx : f.tx \notin stage}
<1>1. /\ q.mapTx = {upd(e) : e \in kept}
      /\ q.mapDeltas = p.mapDeltas
      /\ q = [mapTx |-> q.mapTx, mapNextTx |-> q.mapNextTx, mapDeltas |-> q.mapDeltas]
      /\ q.mapNextTx \in SUBSET [prevout : OutPoints, tx : Txs]
      /\ InPool(q) = Q
      /\ FeeShape(q)
      /\ Indexed(q)
    BY RemoveIndexed
<1> HIDE DEF q
<1>2. FeeShape(p) /\ P \in SUBSET Txs /\ IsFiniteSet(P)
    BY PoolGraph
<1>3. ASSUME NEW e \in kept
      PROVE  /\ ExactEntry(q, upd(e))
             /\ \E d \in Int : \E x \in SUBSET Txs, y \in SUBSET Txs :
                  upd(e) = [tx |-> upd(e).tx, feeDelta |-> upd(e).feeDelta, parents |-> x, children |-> y,
                       nCountWithDescendants |-> upd(e).nCountWithDescendants,
                       nModFeesWithDescendants |-> upd(e).nModFeesWithDescendants,
                       nCountWithAncestors |-> upd(e).nCountWithAncestors,
                       nModFeesWithAncestors |-> d]
  <2> DEFINE t == e.tx
             B == Below(P, {t})
             ga == GoneAbove(P, stage, FALSE, t)
             gb == GoneBelow(P, stage, t)
  <2>1. t \in Q /\ t \in P /\ e \in Entries /\ e \in p.mapTx
    BY PoolGraph
  <2>2. ga = {} /\ Cardinality(ga) = 0
    BY FS_EmptySet DEF GoneAbove
  <2>3. gb = B \cap stage
    <3>1. \A r \in stage : t \in Above(P, Parents(P, r)) <=> r \in B
        BY <2>1, StrictDuality
    <3>. QED BY <3>1 DEF GoneBelow
  <2>4. B \in SUBSET P /\ IsFiniteSet(B)
    BY <1>2, FS_Subset DEF Below
  <2>5. Below(Q, {t}) = B \ stage /\ Above(Q, {t}) = Above(P, {t})
    <3>1. {t} \in SUBSET (P \ stage)
        BY <2>1
    <3>. QED BY <2>1, <3>1, RemoveBelow
  <2>6. upd(e) =
                 [tx |-> e.tx, feeDelta |-> e.feeDelta,
                  parents |-> e.parents \ stage, children |-> e.children \ stage,
                  nCountWithDescendants |-> e.nCountWithDescendants - Cardinality(gb),
                  nModFeesWithDescendants |-> e.nModFeesWithDescendants - ModFees(p, gb),
                  nCountWithAncestors |-> e.nCountWithAncestors - Cardinality(ga),
                  nModFeesWithAncestors |-> e.nModFeesWithAncestors - ModFees(p, ga)]
    BY <2>1, RemovalEntry
  <2>7. /\ e.nCountWithDescendants = Cardinality(B)
        /\ e.nModFeesWithDescendants = ModFees(p, B)
        /\ e.nCountWithAncestors = Cardinality(Above(P, {t}))
    BY <2>1, ShapeExact DEF ExactEntry
  <2>8. Cardinality(B \ stage) = Cardinality(B) - Cardinality(gb)
    BY <2>3, <2>4, FS_Difference
  <2>9. ModFees(p, B) = ModFees(p, B \ stage) + ModFees(p, gb)
        /\ ModFees(p, B \ stage) \in Int /\ ModFees(p, gb) \in Int
    <3>1. B = (B \ stage) \cup gb /\ (B \ stage) \cap gb = {}
        BY <2>3
    <3>2. B \ stage \in SUBSET P /\ gb \in SUBSET P
        BY <2>3, <2>4
    <3> HIDE DEF B, gb
    <3>. QED BY <1>2, <3>1, <3>2, ModFeesUnion
  <2>10. ModFees(q, B \ stage) = ModFees(p, B \ stage)
    <3>1. B \ stage \in SUBSET (InPool(p) \cap InPool(q))
        BY <1>1, <2>4
    <3> HIDE DEF B
    <3>. QED BY <1>1, <1>2, <3>1, ModFeesSame
  <2>11. ModFees(p, ga) \in Int
    <3>1. ga \in SUBSET P /\ {} \in SUBSET P /\ ga \cap {} = {}
        BY <2>2
    <3> HIDE DEF ga
    <3>. QED BY <1>2, <3>1, ModFeesUnion
  <2> HIDE DEF B, ga, gb, upd
  <2>12. Cardinality(Above(P, {t})) \in Nat
    BY <2>1, <2>7 DEF Entries
  <2>13a. /\ upd(e).tx = e.tx
         /\ upd(e).feeDelta = e.feeDelta
         /\ upd(e).nCountWithDescendants = e.nCountWithDescendants - Cardinality(gb)
         /\ upd(e).nModFeesWithDescendants = e.nModFeesWithDescendants - ModFees(p, gb)
         /\ upd(e).nCountWithAncestors = e.nCountWithAncestors - Cardinality(ga)
    BY <2>6
  <2>13. ExactEntry(q, upd(e))
    <3>0. /\ Below(InPool(q), {upd(e).tx}) = B \ stage
          /\ Above(InPool(q), {upd(e).tx}) = Above(P, {t})
      <4>1. InPool(q) = Q /\ upd(e).tx = t
        BY <1>1, <2>13a
      <4>. QED BY <2>5, <4>1
    <3>1. upd(e).nCountWithDescendants = Cardinality(B \ stage)
        BY <2>13a, <2>7, <2>8
    <3>2. upd(e).nModFeesWithDescendants = ModFees(q, B \ stage)
      <4>1. upd(e).nModFeesWithDescendants = ModFees(p, B) - ModFees(p, gb)
        BY <2>13a, <2>7
      <4>2. ModFees(p, B) - ModFees(p, gb) = ModFees(p, B \ stage)
        BY <2>9
      <4>. QED BY <4>1, <4>2, <2>10
    <3>3. upd(e).nCountWithAncestors = Cardinality(Above(P, {t}))
      <4>1. upd(e).nCountWithAncestors = Cardinality(Above(P, {t})) - 0
        BY <2>2, <2>13a, <2>7
      <4>. QED BY <4>1, <2>12
    <3>. QED BY <3>0, <3>1, <3>2, <3>3 DEF ExactEntry
  <2>14. e.parents \ stage \in SUBSET Txs /\ e.children \ stage \in SUBSET Txs
         /\ e.nModFeesWithAncestors - ModFees(p, ga) \in Int
    BY <2>1, <2>11 DEF Entries
  <2>15. upd(e) = [tx |-> upd(e).tx, feeDelta |-> upd(e).feeDelta,
                  parents |-> e.parents \ stage, children |-> e.children \ stage,
                  nCountWithDescendants |-> upd(e).nCountWithDescendants,
                  nModFeesWithDescendants |-> upd(e).nModFeesWithDescendants,
                  nCountWithAncestors |-> upd(e).nCountWithAncestors,
                  nModFeesWithAncestors |-> e.nModFeesWithAncestors - ModFees(p, ga)]
    BY <2>6
  <2>. QED BY <2>13, <2>14, <2>15, Zenon
<1>4. PoolShape(q)
  <2> HIDE DEF upd
  <2>. QED BY <1>1, <1>3, MakeShape
<1>. QED BY <1>1, <1>4 DEF q

\* When a transaction that has no parents in the pool is mined, the totals stay exact.
LEMMA RemoveMined ==
    ASSUME NEW p, PoolShape(p), NEW t \in InPool(p), \A x \in InPool(p) : ~Spends(t, x)
    PROVE  LET q == RemoveStaged(p, {t}, TRUE)
           IN  /\ PoolShape(q)
               /\ InPool(q) = InPool(p) \ {t}
               /\ q.mapDeltas = p.mapDeltas
<1> DEFINE stage == {t}
           q == RemoveStaged(p, stage, TRUE)
           P == InPool(p)
           Q == P \ stage
           upd(e) == UpdatedForRemoval(p, stage, TRUE, e)
           kept == {f \in p.mapTx : f.tx \notin stage}
<1>0. stage \in SUBSET InPool(p)
    OBVIOUS
<1>1. /\ q.mapTx = {upd(e) : e \in kept}
      /\ q.mapDeltas = p.mapDeltas
      /\ q = [mapTx |-> q.mapTx, mapNextTx |-> q.mapNextTx, mapDeltas |-> q.mapDeltas]
      /\ q.mapNextTx \in SUBSET [prevout : OutPoints, tx : Txs]
      /\ InPool(q) = Q
      /\ FeeShape(q)
      /\ Indexed(q)
  <2> HIDE DEF stage
  <2>. QED BY <1>0, RemoveIndexed
<1> HIDE DEF q
<1>2. FeeShape(p) /\ P \in SUBSET Txs /\ IsFiniteSet(P)
    BY PoolGraph
<1>3. ASSUME NEW e \in kept
      PROVE  /\ ExactEntry(q, upd(e))
             /\ \E d \in Int : \E x \in SUBSET Txs, y \in SUBSET Txs :
                  upd(e) = [tx |-> upd(e).tx, feeDelta |-> upd(e).feeDelta, parents |-> x, children |-> y,
                       nCountWithDescendants |-> upd(e).nCountWithDescendants,
                       nModFeesWithDescendants |-> upd(e).nModFeesWithDescendants,
                       nCountWithAncestors |-> upd(e).nCountWithAncestors,
                       nModFeesWithAncestors |-> d]
  <2> DEFINE z == e.tx
             B == Below(P, {z})
             A == Above(P, {z})
             ga == GoneAbove(P, stage, TRUE, z)
             gb == GoneBelow(P, stage, z)
  <2>1. z \in Q /\ z \in P /\ z # t /\ e \in Entries /\ e \in p.mapTx
    BY PoolGraph
  <2>2. gb = {} /\ Cardinality(gb) = 0
    <3>1. Parents(P, t) = {}
        BY DEF Parents
    <3>2. Above(P, {}) = {}
      <4>1. {} \in SUBSET P /\ ParentClosed(P, {})
        BY DEF ParentClosed
      <4>. QED BY <4>1, AboveFacts
    <3>3. gb = {}
        BY <3>1, <3>2 DEF GoneBelow
    <3>. QED BY <3>3, FS_EmptySet
  <2>3. ga = A \cap {t}
    <3>1. z \in Below(P, {t}) <=> t \in A
        BY <2>1, Duality
    <3>. QED BY <2>1, <3>1 DEF GoneAbove
  <2>4. B \in SUBSET P /\ A \in SUBSET P /\ IsFiniteSet(A)
    BY <1>2, FS_Subset DEF Below, Above
  <2>5. Below(Q, {z}) = B /\ Above(Q, {z}) = A \ {t}
    BY <2>1, RemoveTop
  <2>6. upd(e) =
                 [tx |-> e.tx, feeDelta |-> e.feeDelta,
                  parents |-> e.parents \ stage, children |-> e.children \ stage,
                  nCountWithDescendants |-> e.nCountWithDescendants - Cardinality(gb),
                  nModFeesWithDescendants |-> e.nModFeesWithDescendants - ModFees(p, gb),
                  nCountWithAncestors |-> e.nCountWithAncestors - Cardinality(ga),
                  nModFeesWithAncestors |-> e.nModFeesWithAncestors - ModFees(p, ga)]
    <3> HIDE DEF stage
    <3>. QED BY <1>0, <2>1, RemovalEntry
  <2>7. /\ e.nCountWithDescendants = Cardinality(B)
        /\ e.nModFeesWithDescendants = ModFees(p, B)
        /\ e.nCountWithAncestors = Cardinality(A)
    BY <2>1, ShapeExact DEF ExactEntry
  <2>8. Cardinality(A \ {t}) = Cardinality(A) - Cardinality(ga)
    BY <2>3, <2>4, FS_Difference
  <2>9. ModFees(p, gb) = 0 /\ ModFees(p, ga) \in Int
    <3>1. gb \in SUBSET P /\ ga \in SUBSET P /\ ga \cap gb = {} /\ gb \cup gb = gb /\ gb \cap gb = {}
        BY <2>2, <2>3, <2>4
    <3> HIDE DEF ga, gb, P
    <3>2. ModFees(p, gb) \in Int /\ ModFees(p, ga) \in Int
        BY <1>2, <3>1, ModFeesUnion DEF P
    <3> DEFINE m == ModFees(p, gb)
               k == ModFees(p, gb \cup gb)
    <3>3. k = m + m
        BY <1>2, <3>1, ModFeesUnion DEF P
    <3>4. k = m /\ m \in Int
        BY <3>1, <3>2
    <3>5. m = 0
      <4> HIDE DEF m, k
      <4>. QED BY <3>3, <3>4
    <3>. QED BY <3>2, <3>5
  <2>10. ModFees(q, B) = ModFees(p, B)
    <3>1. B \in SUBSET (InPool(p) \cap InPool(q))
      <4>1. Below(Q, {z}) \in SUBSET Q
        BY DEF Below
      <4>. QED BY <1>1, <2>4, <2>5, <4>1
    <3> HIDE DEF B
    <3>. QED BY <1>1, <1>2, <3>1, ModFeesSame
  <2> HIDE DEF B, A, ga, gb, upd
  <2>11. Cardinality(B) \in Nat /\ ModFees(p, B) \in Int /\ Cardinality(A) \in Nat
    BY <2>1, <2>7 DEF Entries
  <2>12a. /\ upd(e).tx = e.tx
         /\ upd(e).feeDelta = e.feeDelta
         /\ upd(e).nCountWithDescendants = e.nCountWithDescendants - Cardinality(gb)
         /\ upd(e).nModFeesWithDescendants = e.nModFeesWithDescendants - ModFees(p, gb)
         /\ upd(e).nCountWithAncestors = e.nCountWithAncestors - Cardinality(ga)
    BY <2>6
  <2>12. ExactEntry(q, upd(e))
    <3>0. InPool(q) = Q /\ upd(e).tx = z
        BY <1>1, <2>12a
    <3> HIDE DEF P, Q, z, kept
    <3>1. upd(e).nCountWithDescendants = Cardinality(Below(InPool(q), {upd(e).tx}))
        BY <3>0, <2>2, <2>5, <2>12a, <2>7, <2>8, <2>11
    <3>2. upd(e).nModFeesWithDescendants = ModFees(q, Below(InPool(q), {upd(e).tx}))
        BY <3>0, <2>5, <2>12a, <2>7, <2>9, <2>10, <2>11
    <3>3. upd(e).nCountWithAncestors = Cardinality(Above(InPool(q), {upd(e).tx}))
        BY <3>0, <2>2, <2>5, <2>12a, <2>7, <2>8, <2>11
    <3>. QED BY <3>1, <3>2, <3>3 DEF ExactEntry
  <2>13. e.parents \ stage \in SUBSET Txs /\ e.children \ stage \in SUBSET Txs
         /\ e.nModFeesWithAncestors - ModFees(p, ga) \in Int
    BY <2>1, <2>9 DEF Entries
  <2>14. upd(e) = [tx |-> upd(e).tx, feeDelta |-> upd(e).feeDelta,
                  parents |-> e.parents \ stage, children |-> e.children \ stage,
                  nCountWithDescendants |-> upd(e).nCountWithDescendants,
                  nModFeesWithDescendants |-> upd(e).nModFeesWithDescendants,
                  nCountWithAncestors |-> upd(e).nCountWithAncestors,
                  nModFeesWithAncestors |-> e.nModFeesWithAncestors - ModFees(p, ga)]
    BY <2>6
  <2>. QED BY <2>12, <2>13, <2>14, Zenon
<1>4. PoolShape(q)
  <2> HIDE DEF upd
  <2>. QED BY <1>1, <1>3, MakeShape
<1>. QED BY <1>1, <1>4 DEF q

\* A new transaction without conflicts and without spenders, added with its
\* ancestors, keeps indexes and totals exact.
LEMMA AddShape ==
    ASSUME NEW p, PoolShape(p), NEW t \in Txs, t \notin InPool(p),
           \A y \in InPool(p) \cup {t} : ~Spends(y, t),
           \A y \in InPool(p) : Ins[y] \cap Ins[t] = {},
           NEW A, A = Above(InPool(p), Parents(InPool(p), t))
    PROVE  LET q == addUnchecked(p, t, A)
           IN  /\ PoolShape(q)
               /\ InPool(q) = InPool(p) \cup {t}
               /\ q.mapDeltas = p.mapDeltas
<1> DEFINE q == addUnchecked(p, t, A)
           P == InPool(p)
           Q == P \cup {t}
           new == NewEntry(p, t, A)
           upd(e) == UpdatedForAdd(new, A, e)
           modFee == Fee[t] + p.mapDeltas[t]
<1>1. p \in [mapTx : SUBSET Entries, mapNextTx : SUBSET [prevout : OutPoints, tx : Txs],
             mapDeltas : [Txs -> Int]]
    BY DEF PoolShape
<1>2. FeeShape(p) /\ P \in SUBSET Txs /\ IsFiniteSet(P) /\ Q \in SUBSET Txs
    BY PoolGraph
<1>3. modFee \in Int
    BY <1>1, TxAssumption
<1>4. Parents(P, t) \in SUBSET P /\ A \in SUBSET P /\ IsFiniteSet(A) /\ Cardinality(A) \in Nat
  <2>1. Parents(P, t) \in SUBSET P
    BY DEF Parents
  <2>2. A \in SUBSET P
    BY <2>1, AboveFacts
  <2>. QED BY <1>2, <2>1, <2>2, FS_Subset, FS_CardinalityType
<1>5. SearchParents(p, t) = Parents(P, t)
    BY TxAssumption DEF SearchParents, Parents, Spends
<1>6. new = [tx |-> t, feeDelta |-> p.mapDeltas[t], parents |-> Parents(P, t), children |-> {},
             nCountWithDescendants |-> 1, nModFeesWithDescendants |-> modFee,
             nCountWithAncestors |-> 1 + Cardinality(A),
             nModFeesWithAncestors |-> modFee + ModFees(p, A)]
    BY <1>5 DEF NewEntry
<1>7. ModFees(p, A) \in Int
  <2>1. {} \in SUBSET InPool(p) /\ A \cap {} = {}
    OBVIOUS
  <2>. QED BY <1>2, <1>4, <2>1, ModFeesUnion
<1> HIDE DEF new, modFee
<1>8. /\ new.tx = t /\ new.parents = Parents(P, t) /\ new.children = {} /\ new.feeDelta = p.mapDeltas[t]
      /\ GetModifiedFee(new) = modFee
    BY <1>6 DEF GetModifiedFee, modFee
<1>9. ASSUME NEW e \in p.mapTx
      PROVE  upd(e) = [tx |-> e.tx, feeDelta |-> e.feeDelta, parents |-> e.parents,
                       children |-> e.children \cup (IF Spends(t, e.tx) THEN {t} ELSE {}),
                       nCountWithDescendants |-> e.nCountWithDescendants + (IF e.tx \in A THEN 1 ELSE 0),
                       nModFeesWithDescendants |-> e.nModFeesWithDescendants + (IF e.tx \in A THEN modFee ELSE 0),
                       nCountWithAncestors |-> e.nCountWithAncestors,
                       nModFeesWithAncestors |-> e.nModFeesWithAncestors]
  <2>1. e \in Entries /\ e.tx \in P
    BY PoolGraph
  <2>2. e.tx \in new.parents <=> Spends(t, e.tx)
    BY <1>8, <2>1 DEF Parents
  <2>3. upd(e) = [e EXCEPT
            !.children = IF Spends(t, e.tx) THEN e.children \cup {t} ELSE e.children,
            !.nCountWithDescendants = IF e.tx \in A THEN e.nCountWithDescendants + 1 ELSE e.nCountWithDescendants,
            !.nModFeesWithDescendants = IF e.tx \in A THEN e.nModFeesWithDescendants + modFee ELSE e.nModFeesWithDescendants]
    BY <1>8, <2>1, <2>2 DEF UpdatedForAdd, Entries
  <2> DEFINE c == e.children \cup (IF Spends(t, e.tx) THEN {t} ELSE {})
             n == e.nCountWithDescendants + (IF e.tx \in A THEN 1 ELSE 0)
             m == e.nModFeesWithDescendants + (IF e.tx \in A THEN modFee ELSE 0)
  <2>4. c = IF Spends(t, e.tx) THEN e.children \cup {t} ELSE e.children
    OBVIOUS
  <2>5. n = IF e.tx \in A THEN e.nCountWithDescendants + 1 ELSE e.nCountWithDescendants
    BY <2>1 DEF Entries
  <2>6. m = IF e.tx \in A THEN e.nModFeesWithDescendants + modFee ELSE e.nModFeesWithDescendants
    BY <2>1 DEF Entries
  <2> HIDE DEF upd, c, n, m
  <2>7. upd(e) = [e EXCEPT !.children = c, !.nCountWithDescendants = n, !.nModFeesWithDescendants = m]
    BY <2>3, <2>4, <2>5, <2>6, Zenon
  <2>8. upd(e) = [tx |-> e.tx, feeDelta |-> e.feeDelta, parents |-> e.parents, children |-> c,
                  nCountWithDescendants |-> n, nModFeesWithDescendants |-> m,
                  nCountWithAncestors |-> e.nCountWithAncestors,
                  nModFeesWithAncestors |-> e.nModFeesWithAncestors]
    BY <2>1, <2>7 DEF Entries
  <2>. QED BY <2>8 DEF c, n, m
<1>10. /\ q.mapTx = {new} \cup {upd(e) : e \in p.mapTx}
       /\ q.mapNextTx = p.mapNextTx \cup {[prevout |-> o, tx |-> t] : o \in Ins[t]}
       /\ q.mapDeltas = p.mapDeltas
       /\ q = [mapTx |-> q.mapTx, mapNextTx |-> q.mapNextTx, mapDeltas |-> q.mapDeltas]
  <2>1. q = [p EXCEPT !.mapTx = {new} \cup {upd(e) : e \in p.mapTx},
                      !.mapNextTx = p.mapNextTx \cup {[prevout |-> o, tx |-> t] : o \in Ins[t]}]
    BY <1>1 DEF addUnchecked, new
  <2> HIDE DEF q, upd
  <2>. QED BY <1>1, <2>1
<1> HIDE DEF q, upd
<1>11. InPool(q) = Q
    BY <1>8, <1>9, <1>10 DEF InPool
<1>12. FeeShape(q)
  <2>1. \A e \in p.mapTx : upd(e).tx = e.tx /\ upd(e).feeDelta = e.feeDelta /\ e.tx \in Txs
                           /\ e.feeDelta = p.mapDeltas[e.tx] /\ e.tx # t
    BY <1>2, <1>9 DEF FeeShape, InPool
  <2>2. \A x \in q.mapTx : x.tx \in Txs /\ x.feeDelta = q.mapDeltas[x.tx]
    BY <1>8, <1>10, <2>1
  <2>3. ASSUME NEW x \in q.mapTx, NEW y \in q.mapTx, x.tx = y.tx PROVE x = y
    <3>1. CASE x.tx = t
      <4>1. ASSUME NEW z \in q.mapTx, z.tx = t PROVE z = new
        <5>1. z = new \/ \E e \in p.mapTx : z = upd(e)
            BY <1>10
        <5>. QED BY <2>1, <4>1, <5>1
      <4>. QED BY <2>3, <3>1, <4>1
    <3>2. CASE x.tx # t
      <4>1. PICK e \in p.mapTx, f \in p.mapTx : x = upd(e) /\ y = upd(f)
        BY <1>8, <1>10, <2>3, <3>2
      <4>2. e = f
        BY <1>2, <2>1, <2>3, <4>1 DEF FeeShape
      <4>. QED BY <4>1, <4>2
    <3>. QED BY <3>1, <3>2
  <2>. QED BY <1>1, <1>10, <2>2, <2>3 DEF FeeShape
<1>13. Indexed(q)
  <2>1. q.mapNextTx = UNION {{[prevout |-> o, tx |-> y] : o \in Ins[y]} : y \in InPool(q)}
    <3>1. p.mapNextTx = UNION {{[prevout |-> o, tx |-> y] : o \in Ins[y]} : y \in P}
        BY DEF PoolShape, Indexed
    <3>. QED BY <1>10, <1>11, <3>1
  <2>2. ASSUME NEW n \in q.mapNextTx, NEW m \in q.mapNextTx, n.prevout = m.prevout PROVE n = m
    <3>0. \A k, l \in p.mapNextTx : k.prevout = l.prevout => k = l
        BY DEF PoolShape, Indexed
    <3>1. PICK y \in Q : \E o \in Ins[y] : n = [prevout |-> o, tx |-> y]
        BY <1>11, <2>1
    <3>2. PICK z \in Q : \E o \in Ins[z] : m = [prevout |-> o, tx |-> z]
        BY <1>11, <2>1
    <3>3. n.prevout \in Ins[y] /\ m.prevout \in Ins[z]
          /\ n = [prevout |-> n.prevout, tx |-> y] /\ m = [prevout |-> m.prevout, tx |-> z]
        BY <3>1, <3>2
    <3>4. CASE y = t /\ z = t
        BY <2>2, <3>3, <3>4
    <3>5. CASE y # t /\ z # t
      <4>1. n \in p.mapNextTx /\ m \in p.mapNextTx
        BY <3>1, <3>2, <3>5 DEF PoolShape, Indexed
      <4>. QED BY <2>2, <3>0, <4>1
    <3>6. CASE (y = t /\ z # t) \/ (y # t /\ z = t)
        BY <2>2, <3>3, <3>6
    <3>. QED BY <3>4, <3>5, <3>6
  <2>3. \A x \in q.mapTx : x.tx \in Q /\ x.parents = Parents(P, x.tx) /\ x.tx \in Txs
    BY <1>8, <1>9, <1>10, <1>2, PoolGraph
  <2>4. ASSUME NEW x \in q.mapTx
        PROVE  x.children = {y \in Q : Spends(y, x.tx)}
    <3>1. CASE x = new
        BY <1>8, <3>1
    <3>2. CASE x # new
      <4>1. PICK e \in p.mapTx : x = upd(e)
        BY <1>10, <3>2
      <4>2. e.children = {y \in P : Spends(y, e.tx)}
        BY PoolGraph
      <4>3. x.tx = e.tx /\ x.children = e.children \cup (IF Spends(t, e.tx) THEN {t} ELSE {})
        BY <1>9, <4>1
      <4>. QED BY <4>2, <4>3
    <3>. QED BY <3>1, <3>2
  <2>5. \A x \in q.mapTx : SearchParents(q, x.tx) = Parents(Q, x.tx)
    BY <1>11, <2>3, TxAssumption DEF SearchParents, Parents, Spends
  <2>6. \A x \in q.mapTx : Parents(Q, x.tx) = Parents(P, x.tx)
    BY <2>3 DEF Parents
  <2>7. ASSUME NEW x \in q.mapTx
        PROVE  x.children = {f.tx : f \in {f \in q.mapTx : x.tx \in f.parents}}
    <3>1. \A f \in q.mapTx : f.tx \in Q /\ (x.tx \in f.parents <=> Spends(f.tx, x.tx))
        BY <2>3, <2>6 DEF Parents
    <3>2. \A y \in Q : \E f \in q.mapTx : f.tx = y
        BY <1>11 DEF InPool
    <3>. QED BY <2>4, <3>1, <3>2
  <2>. QED BY <2>1, <2>2, <2>3, <2>5, <2>6, <2>7 DEF Indexed
<1>14. /\ Above(Q, {t}) = {t} \cup A
       /\ Below(Q, {t}) = {t}
       /\ \A e \in P : /\ Above(Q, {e}) = Above(P, {e})
                       /\ Below(Q, {e}) = Below(P, {e}) \cup (IF e \in A THEN {t} ELSE {})
  <2> DEFINE A0 == Above(P, Parents(P, t))
  <2>1. /\ Above(Q, {t}) = {t} \cup A0
        /\ Below(Q, {t}) = {t}
        /\ \A e \in P : /\ Above(Q, {e}) = Above(P, {e})
                        /\ Below(Q, {e}) = Below(P, {e}) \cup (IF e \in A0 THEN {t} ELSE {})
    <3>1. t \notin P /\ \A y \in P \cup {t} : ~Spends(y, t)
        OBVIOUS
    <3> HIDE DEF P
    <3>2. BottomAdded(P, t)
        BY <3>1, AddBottom, Zenon
    <3>. QED BY <3>2, Zenon DEF BottomAdded
  <2>2. A = A0
    OBVIOUS
  <2> HIDE DEF A0
  <2>. QED BY <2>1, <2>2
<1>15. \A S \in SUBSET P : ModFees(q, S) = ModFees(p, S) /\ ModFees(p, S) \in Int
  <2>1. ASSUME NEW S \in SUBSET P PROVE ModFees(q, S) = ModFees(p, S) /\ ModFees(p, S) \in Int
    <3>1. S \in SUBSET (InPool(p) \cap InPool(q)) /\ {} \in SUBSET P /\ S \cap {} = {}
        BY <1>11
    <3>2. ModFees(q, S) = ModFees(p, S)
        BY <1>2, <1>10, <1>12, <3>1, ModFeesSame
    <3>. QED BY <1>2, <3>1, <3>2, ModFeesUnion
  <2>. QED BY <2>1
<1>16. ModFees(q, {t}) = modFee
    BY <1>10, <1>11, <1>12, ModFeesOne DEF modFee
<1>17. /\ ExactEntry(q, new)
       /\ \E d \in Int : \E x \in SUBSET Txs, y \in SUBSET Txs :
             new = [tx |-> new.tx, feeDelta |-> new.feeDelta, parents |-> x, children |-> y,
                  nCountWithDescendants |-> new.nCountWithDescendants,
                  nModFeesWithDescendants |-> new.nModFeesWithDescendants,
                  nCountWithAncestors |-> new.nCountWithAncestors,
                  nModFeesWithAncestors |-> d]
  <2>1. Cardinality({t}) = 1
    BY FS_Singleton
  <2>2. Cardinality({t} \cup A) = 1 + Cardinality(A)
    <3>1. t \notin A /\ A \cup {t} = {t} \cup A
        BY <1>4
    <3>2. Cardinality(A \cup {t}) = Cardinality(A) + 1
        BY <1>4, <3>1, FS_AddElement
    <3>3. Cardinality(A) \in Nat
        BY <1>4
    <3>4. Cardinality({t} \cup A) = Cardinality(A) + 1
        BY <3>1, <3>2, Zenon
    <3>. QED BY <3>3, <3>4
  <2>3. ExactEntry(q, new)
    BY <1>6, <1>11, <1>14, <1>16, <2>1, <2>2 DEF ExactEntry
  <2>4. new = [tx |-> new.tx, feeDelta |-> new.feeDelta, parents |-> Parents(P, t), children |-> {},
                  nCountWithDescendants |-> new.nCountWithDescendants,
                  nModFeesWithDescendants |-> new.nModFeesWithDescendants,
                  nCountWithAncestors |-> new.nCountWithAncestors,
                  nModFeesWithAncestors |-> modFee + ModFees(p, A)]
    BY <1>6
  <2>5. modFee + ModFees(p, A) \in Int /\ Parents(P, t) \in SUBSET Txs /\ {} \in SUBSET Txs
    BY <1>2, <1>3, <1>4, <1>7
  <2>. QED BY <2>3, <2>4, <2>5, Zenon
<1>18. ASSUME NEW e \in p.mapTx
       PROVE  /\ ExactEntry(q, upd(e))
              /\ \E d \in Int : \E x \in SUBSET Txs, y \in SUBSET Txs :
                  upd(e) = [tx |-> upd(e).tx, feeDelta |-> upd(e).feeDelta, parents |-> x, children |-> y,
                       nCountWithDescendants |-> upd(e).nCountWithDescendants,
                       nModFeesWithDescendants |-> upd(e).nModFeesWithDescendants,
                       nCountWithAncestors |-> upd(e).nCountWithAncestors,
                       nModFeesWithAncestors |-> d]
  <2> DEFINE B == Below(P, {e.tx})
             ch == e.children \cup (IF Spends(t, e.tx) THEN {t} ELSE {})
  <2>1. e \in Entries /\ e.tx \in P
    BY PoolGraph
  <2>2. /\ upd(e).tx = e.tx
        /\ upd(e).nCountWithDescendants = e.nCountWithDescendants + (IF e.tx \in A THEN 1 ELSE 0)
        /\ upd(e).nModFeesWithDescendants = e.nModFeesWithDescendants + (IF e.tx \in A THEN modFee ELSE 0)
        /\ upd(e).nCountWithAncestors = e.nCountWithAncestors
    BY <1>9
  <2>3. /\ e.nCountWithDescendants = Cardinality(B)
        /\ e.nModFeesWithDescendants = ModFees(p, B)
        /\ e.nCountWithAncestors = Cardinality(Above(P, {e.tx}))
    BY <2>1, ShapeExact DEF ExactEntry
  <2>4. B \in SUBSET P /\ IsFiniteSet(B) /\ t \notin B
    BY <1>2, FS_Subset DEF Below
  <2>5. upd(e).nCountWithAncestors = Cardinality(Above(InPool(q), {upd(e).tx}))
    BY <1>11, <1>14, <2>1, <2>2, <2>3
  <2>6. ASSUME e.tx \in A PROVE ExactEntry(q, upd(e))
    <3>1. Below(InPool(q), {upd(e).tx}) = B \cup {t}
        BY <1>11, <1>14, <2>1, <2>2, <2>6
    <3> HIDE DEF B
    <3>2. Cardinality(B \cup {t}) = Cardinality(B) + 1
        BY <2>4, FS_AddElement
    <3>3. ModFees(q, B \cup {t}) = ModFees(p, B) + modFee
      <4>1. B \in SUBSET InPool(q) /\ {t} \in SUBSET InPool(q) /\ B \cap {t} = {}
        BY <1>11, <2>4
      <4>2. ModFees(q, B \cup {t}) = ModFees(q, B) + ModFees(q, {t})
        BY <1>12, <4>1, ModFeesUnion
      <4>. QED BY <1>15, <1>16, <2>4, <4>2
    <3>4. upd(e).nCountWithDescendants = Cardinality(B \cup {t})
        BY <2>2, <2>3, <2>6, <3>2
    <3>5. upd(e).nModFeesWithDescendants = ModFees(q, B \cup {t})
        BY <2>2, <2>3, <2>6, <3>3
    <3>. QED BY <2>5, <3>1, <3>4, <3>5 DEF ExactEntry
  <2>7. ASSUME e.tx \notin A PROVE ExactEntry(q, upd(e))
    <3>1. Below(InPool(q), {upd(e).tx}) = B
      <4>1. Below(Q, {e.tx}) = B \cup {}
        BY <1>14, <2>1, <2>7
      <4>. QED BY <1>11, <2>2, <4>1
    <3> HIDE DEF B
    <3>2. Cardinality(B) \in Nat /\ ModFees(p, B) \in Int
        BY <1>15, <2>4, FS_CardinalityType
    <3>3. upd(e).nCountWithDescendants = Cardinality(B)
        BY <2>2, <2>3, <2>7, <3>2
    <3>4. upd(e).nModFeesWithDescendants = ModFees(q, B)
      <4>1. upd(e).nModFeesWithDescendants = ModFees(p, B)
        BY <2>2, <2>3, <2>7, <3>2
      <4>. QED BY <1>15, <2>4, <4>1
    <3>. QED BY <2>5, <3>1, <3>3, <3>4 DEF ExactEntry
  <2>8. ExactEntry(q, upd(e))
    BY <2>6, <2>7
  <2>9. upd(e) = [tx |-> upd(e).tx, feeDelta |-> upd(e).feeDelta, parents |-> e.parents, children |-> ch,
                  nCountWithDescendants |-> upd(e).nCountWithDescendants,
                  nModFeesWithDescendants |-> upd(e).nModFeesWithDescendants,
                  nCountWithAncestors |-> upd(e).nCountWithAncestors,
                  nModFeesWithAncestors |-> e.nModFeesWithAncestors]
    <3> HIDE DEF ch
    <3>. QED BY <1>9 DEF ch
  <2>10. e.parents \in SUBSET Txs /\ ch \in SUBSET Txs /\ e.nModFeesWithAncestors \in Int
    BY <2>1 DEF Entries
  <2> HIDE DEF ch
  <2>. QED BY <2>8, <2>9, <2>10, Zenon
<1>19. q.mapNextTx \in SUBSET [prevout : OutPoints, tx : Txs]
    BY <1>1, <1>10, TxAssumption
<1>20. PoolShape(q)
    BY <1>10, <1>12, <1>13, <1>17, <1>18, <1>19, MakeShape
<1>. QED BY <1>10, <1>11, <1>20 DEF q

\* A fee delta is added to the totals of the transaction and of those above it only.
LEMMA DeltaSum ==
    ASSUME NEW p, FeeShape(p), NEW q, FeeShape(q), InPool(p) = InPool(q), NEW t \in Txs, NEW d \in Int,
           q.mapDeltas = [p.mapDeltas EXCEPT ![t] = p.mapDeltas[t] + d],
           NEW B \in SUBSET InPool(p)
    PROVE  /\ ModFees(p, B) \in Int
           /\ ModFees(q, B) = ModFees(p, B) + (IF t \in B THEN d ELSE 0)
<1>1. p.mapDeltas \in [Txs -> Int] /\ InPool(p) \in SUBSET Txs
    BY PoolFinite DEF FeeShape
<1> DEFINE C == B \ {t}
<1>2. C \in SUBSET InPool(p) /\ {} \in SUBSET InPool(p) /\ C \cap {} = {} /\ B \cap {} = {}
    OBVIOUS
<1>3. ModFees(p, C) = ModFees(q, C)
  <2>1. C \in SUBSET (InPool(p) \cap InPool(q)) /\ \A x \in C : p.mapDeltas[x] = q.mapDeltas[x]
    BY <1>1
  <2> HIDE DEF C
  <2>. QED BY <2>1, ModFeesSame
<1>4. ModFees(p, B) \in Int /\ ModFees(p, C) \in Int
  <2> HIDE DEF C
  <2>. QED BY <1>2, ModFeesUnion
<1>5. CASE t \notin B
  <2>1. C = B
    BY <1>5
  <2>. QED BY <1>3, <1>4, <1>5, <2>1
<1>6. CASE t \in B
  <2>1. B = C \cup {t} /\ {t} \in SUBSET InPool(p) /\ C \cap {t} = {}
    BY <1>6
  <2> HIDE DEF C
  <2>2. ModFees(p, B) = ModFees(p, C) + ModFees(p, {t})
    BY <1>2, <2>1, ModFeesUnion
  <2>3. ModFees(q, B) = ModFees(q, C) + ModFees(q, {t})
    BY <1>2, <2>1, ModFeesUnion
  <2>4. ModFees(p, {t}) = Fee[t] + p.mapDeltas[t] /\ ModFees(q, {t}) = Fee[t] + (p.mapDeltas[t] + d)
    <3>1. q.mapDeltas[t] = p.mapDeltas[t] + d
        BY <1>1
    <3>. QED BY <2>1, <3>1, ModFeesOne
  <2>5. Fee[t] \in Int /\ p.mapDeltas[t] \in Int
    BY <1>1, TxAssumption
  <2>. QED BY <1>3, <1>4, <1>6, <2>2, <2>3, <2>4, <2>5
<1>. QED BY <1>5, <1>6

\* PrioritiseTransaction keeps indexes and totals exact.
LEMMA PrioritiseShape ==
    ASSUME NEW p, PoolShape(p), NEW t \in Txs, NEW d \in Int
    PROVE  /\ PoolShape(PrioritisedPool(p, t, d))
           /\ InPool(PrioritisedPool(p, t, d)) = InPool(p)
<1> DEFINE q == PrioritisedPool(p, t, d)
           P == InPool(p)
           upd(e) == IF t \in P THEN UpdatedForDelta(p, t, d, e) ELSE e
           dB(e) == IF t \in Below(P, {e.tx}) THEN d ELSE 0
           dA(e) == IF e.tx = t THEN d ELSE 0
<1>1. p \in [mapTx : SUBSET Entries, mapNextTx : SUBSET [prevout : OutPoints, tx : Txs],
             mapDeltas : [Txs -> Int]]
    BY DEF PoolShape
<1>2. FeeShape(p) /\ P \in SUBSET Txs /\ IsFiniteSet(P)
    BY PoolGraph
<1>3. /\ q.mapTx = {upd(e) : e \in p.mapTx}
      /\ q.mapNextTx = p.mapNextTx
      /\ q.mapDeltas = [p.mapDeltas EXCEPT ![t] = p.mapDeltas[t] + d]
      /\ q = [mapTx |-> q.mapTx, mapNextTx |-> q.mapNextTx, mapDeltas |-> q.mapDeltas]
  <2> DEFINE m == IF t \in P THEN {UpdatedForDelta(p, t, d, e) : e \in p.mapTx} ELSE p.mapTx
             g == [p.mapDeltas EXCEPT ![t] = p.mapDeltas[t] + d]
  <2>1. m = {upd(e) : e \in p.mapTx}
    OBVIOUS
  <2>2. q = [mapTx |-> m, mapNextTx |-> p.mapNextTx, mapDeltas |-> g]
    <3>1. q = [p EXCEPT !.mapDeltas[t] = p.mapDeltas[t] + d, !.mapTx = m]
        BY Zenon DEF PrioritisedPool
    <3> HIDE DEF m, q
    <3>. QED BY <1>1, <3>1
  <2> HIDE DEF m, g, q
  <2>3. q.mapTx = m /\ q.mapNextTx = p.mapNextTx /\ q.mapDeltas = g
    BY <2>2
  <2>. QED BY <2>1, <2>2, <2>3 DEF g
<1>4. ASSUME NEW e \in p.mapTx
      PROVE  /\ e \in Entries /\ e.tx \in P /\ e.feeDelta = p.mapDeltas[e.tx]
             /\ e.parents = Parents(P, e.tx)
    BY <1>2, PoolGraph DEF FeeShape
<1>5. ASSUME NEW e \in p.mapTx
      PROVE  upd(e) = [tx |-> e.tx, feeDelta |-> q.mapDeltas[e.tx],
                       parents |-> e.parents, children |-> e.children,
                       nCountWithDescendants |-> e.nCountWithDescendants,
                       nModFeesWithDescendants |-> e.nModFeesWithDescendants + dB(e),
                       nCountWithAncestors |-> e.nCountWithAncestors,
                       nModFeesWithAncestors |-> e.nModFeesWithAncestors + dA(e)]
  <2>1. e \in Entries /\ e.tx \in P /\ e.feeDelta = p.mapDeltas[e.tx] /\ p.mapDeltas[t] \in Int
    BY <1>1, <1>4
  <2>2. CASE t \notin P
    <3>1. upd(e) = e /\ t \notin Below(P, {e.tx}) /\ e.tx # t /\ q.mapDeltas[e.tx] = e.feeDelta
        BY <1>1, <1>2, <1>3, <2>1, <2>2 DEF Below
    <3> HIDE DEF upd, q
    <3>. QED BY <2>1, <3>1 DEF Entries
  <2>3. CASE t \in P /\ e.tx = t
    <3>1. p.mapDeltas[t] + d - e.feeDelta = d
        BY <2>1, <2>3
    <3>2. upd(e) = [e EXCEPT !.feeDelta = p.mapDeltas[t] + d,
                             !.nModFeesWithAncestors = e.nModFeesWithAncestors + d,
                             !.nModFeesWithDescendants = e.nModFeesWithDescendants + d]
      <4> DEFINE change == p.mapDeltas[t] + d - e.feeDelta
      <4>1. upd(e) = [e EXCEPT !.feeDelta = p.mapDeltas[t] + d,
                             !.nModFeesWithAncestors = e.nModFeesWithAncestors + change,
                             !.nModFeesWithDescendants = e.nModFeesWithDescendants + change]
        BY <2>1, <2>3 DEF UpdatedForDelta, Entries
      <4>2. change = d
        BY <3>1
      <4> HIDE DEF upd, change
      <4>. QED BY <4>1, <4>2
    <3>3. t \in Below(P, {e.tx})
      <4>1. {t} \in SUBSET P
        BY <2>3
      <4>. QED BY <2>3, <4>1, BelowFacts
    <3>4. q.mapDeltas[e.tx] = p.mapDeltas[t] + d
        BY <1>1, <1>3, <2>3
    <3> HIDE DEF upd, q
    <3>. QED BY <2>1, <2>3, <3>2, <3>3, <3>4 DEF Entries
  <2>4. CASE t \in P /\ e.tx # t
    <3>1. Entry(p, t) \in p.mapTx /\ Entry(p, t).tx = t
      <4>1. \E f \in p.mapTx : f.tx = t
        BY <2>4 DEF InPool
      <4>. QED BY <4>1, Zenon DEF Entry
    <3>2. CalculateMemPoolAncestors(p, Entry(p, t).parents) = Above(P, Parents(P, t))
      <4>1. Entry(p, t).parents = Parents(P, t)
        BY <1>4, <3>1
      <4>2. \A S : CalculateMemPoolAncestors(p, S) = Above(P, S)
        BY PoolGraph
      <4>. QED BY <4>1, <4>2
    <3>3. e.tx \in Above(P, Parents(P, t)) <=> t \in Below(P, {e.tx})
        BY <2>1, <2>4, StrictDuality
    <3>4. upd(e) = IF t \in Below(P, {e.tx})
                   THEN [e EXCEPT !.nModFeesWithDescendants = e.nModFeesWithDescendants + d]
                   ELSE e
        BY <2>1, <2>4, <3>2, <3>3 DEF UpdatedForDelta, Entries
    <3>5. q.mapDeltas[e.tx] = e.feeDelta
        BY <1>1, <1>2, <1>3, <2>1, <2>4
    <3> HIDE DEF upd, q
    <3>6. CASE t \in Below(P, {e.tx})
        BY <2>1, <2>4, <3>4, <3>5, <3>6 DEF Entries
    <3>7. CASE t \notin Below(P, {e.tx})
        BY <2>1, <2>4, <3>4, <3>5, <3>7 DEF Entries
    <3>. QED BY <3>6, <3>7
  <2>. QED BY <2>2, <2>3, <2>4
<1> HIDE DEF q, upd, dA, dB
<1>6. \A e \in p.mapTx : /\ upd(e).tx = e.tx /\ upd(e).feeDelta = q.mapDeltas[e.tx]
                         /\ upd(e).parents = e.parents /\ upd(e).children = e.children
    BY <1>5
<1>7. InPool(q) = P
    BY <1>3, <1>6 DEF InPool
<1>8. FeeShape(q)
  <2>1. \A e \in p.mapTx : e.tx \in Txs
    BY <1>2 DEF FeeShape
  <2>2. \A x \in q.mapTx : x.tx \in Txs /\ x.feeDelta = q.mapDeltas[x.tx]
    BY <1>3, <1>6, <2>1
  <2>3. \A x, y \in q.mapTx : x.tx = y.tx => x = y
    BY <1>2, <1>3, <1>6 DEF FeeShape
  <2>4. q.mapDeltas \in [Txs -> Int]
    BY <1>1, <1>3
  <2>. QED BY <2>2, <2>3, <2>4 DEF FeeShape
<1>9. Indexed(q)
  <2>1. Indexed(p)
    BY DEF PoolShape
  <2>2. \A x \in q.mapTx : SearchParents(q, x.tx) = SearchParents(p, x.tx)
    BY <1>7 DEF SearchParents
  <2>3. ASSUME NEW e \in p.mapTx
        PROVE  {f.tx : f \in {f \in q.mapTx : e.tx \in f.parents}}
                  = {f.tx : f \in {f \in p.mapTx : e.tx \in f.parents}}
    BY <1>3, <1>6
  <2>. QED BY <1>3, <1>6, <1>7, <2>1, <2>2, <2>3 DEF Indexed
<1>10. ASSUME NEW e \in p.mapTx
       PROVE  /\ ExactEntry(q, upd(e))
              /\ \E g \in Int : \E x \in SUBSET Txs, y \in SUBSET Txs :
                  upd(e) = [tx |-> upd(e).tx, feeDelta |-> upd(e).feeDelta, parents |-> x, children |-> y,
                       nCountWithDescendants |-> upd(e).nCountWithDescendants,
                       nModFeesWithDescendants |-> upd(e).nModFeesWithDescendants,
                       nCountWithAncestors |-> upd(e).nCountWithAncestors,
                       nModFeesWithAncestors |-> g]
  <2> DEFINE B == Below(P, {e.tx})
             a == e.nModFeesWithAncestors + dA(e)
  <2>1. /\ e.nCountWithDescendants = Cardinality(B)
        /\ e.nModFeesWithDescendants = ModFees(p, B)
        /\ e.nCountWithAncestors = Cardinality(Above(P, {e.tx}))
    BY ShapeExact DEF ExactEntry
  <2>2. B \in SUBSET P
    BY DEF Below
  <2> HIDE DEF B
  <2>3. ModFees(q, B) = ModFees(p, B) + (IF t \in B THEN d ELSE 0)
    BY <1>2, <1>3, <1>7, <1>8, <2>2, DeltaSum
  <2>4. /\ upd(e).tx = e.tx
        /\ upd(e).nCountWithDescendants = e.nCountWithDescendants
        /\ upd(e).nModFeesWithDescendants = e.nModFeesWithDescendants + (IF t \in B THEN d ELSE 0)
        /\ upd(e).nCountWithAncestors = e.nCountWithAncestors
    <3>1. dB(e) = IF t \in B THEN d ELSE 0
        BY DEF B, dB
    <3>. QED BY <1>5, <3>1
  <2>5. ExactEntry(q, upd(e))
    <3>1. Below(InPool(q), {upd(e).tx}) = B /\ Above(InPool(q), {upd(e).tx}) = Above(P, {e.tx})
        BY <1>7, <2>4 DEF B
    <3>. QED BY <2>1, <2>3, <2>4, <3>1 DEF ExactEntry
  <2>6. upd(e) = [tx |-> upd(e).tx, feeDelta |-> upd(e).feeDelta, parents |-> e.parents, children |-> e.children,
                       nCountWithDescendants |-> upd(e).nCountWithDescendants,
                       nModFeesWithDescendants |-> upd(e).nModFeesWithDescendants,
                       nCountWithAncestors |-> upd(e).nCountWithAncestors,
                       nModFeesWithAncestors |-> a]
    <3> HIDE DEF a
    <3>. QED BY <1>5 DEF a
  <2>7. a \in Int /\ e.parents \in SUBSET Txs /\ e.children \in SUBSET Txs
    BY <1>4 DEF Entries, dA
  <2> HIDE DEF a
  <2>. QED BY <2>5, <2>6, <2>7, Zenon
<1>11. q.mapNextTx \in SUBSET [prevout : OutPoints, tx : Txs]
    BY <1>1, <1>3
<1>12. PoolShape(q)
    BY <1>3, <1>8, <1>9, <1>10, <1>11, MakeShape
<1>. QED BY <1>7, <1>12 DEF q

\* Forgetting the delta of a transaction that is not in the pool changes no total.
LEMMA ClearShape ==
    ASSUME NEW p, PoolShape(p), NEW t \in Txs, t \notin InPool(p)
    PROVE  /\ PoolShape(ClearPrioritisation(p, t))
           /\ InPool(ClearPrioritisation(p, t)) = InPool(p)
<1> DEFINE q == ClearPrioritisation(p, t)
           P == InPool(p)
<1>1. p \in [mapTx : SUBSET Entries, mapNextTx : SUBSET [prevout : OutPoints, tx : Txs],
             mapDeltas : [Txs -> Int]]
    BY DEF PoolShape
<1>2. FeeShape(p) /\ P \in SUBSET Txs /\ IsFiniteSet(P)
    BY PoolGraph
<1>3. /\ q.mapTx = p.mapTx
      /\ q.mapNextTx = p.mapNextTx
      /\ q.mapDeltas = [p.mapDeltas EXCEPT ![t] = 0]
      /\ q \in [mapTx : SUBSET Entries, mapNextTx : SUBSET [prevout : OutPoints, tx : Txs],
                mapDeltas : [Txs -> Int]]
    BY <1>1 DEF ClearPrioritisation
<1> HIDE DEF q
<1>4. InPool(q) = P
    BY <1>3 DEF InPool
<1>5. \A e \in p.mapTx : e.tx \in P /\ e.tx # t /\ e.tx \in Txs
    BY <1>2 DEF InPool
<1>6. \A e \in q.mapTx : e.tx \in Txs /\ e.feeDelta = q.mapDeltas[e.tx]
    BY <1>1, <1>2, <1>3, <1>5 DEF FeeShape
<1>7. FeeShape(q)
    BY <1>2, <1>3, <1>6 DEF FeeShape
<1>8. Indexed(q)
    BY <1>3, <1>4 DEF PoolShape, Indexed, SearchParents
<1>9. ASSUME NEW e \in q.mapTx PROVE ExactEntry(q, e)
  <2> DEFINE B == Below(P, {e.tx})
  <2>1. e \in p.mapTx /\ ExactEntry(p, e)
    BY <1>3, ShapeExact
  <2>2. B \in SUBSET P
    BY DEF Below
  <2>3. ModFees(p, B) = ModFees(q, B)
    <3>1. B \in SUBSET (InPool(p) \cap InPool(q)) /\ \A x \in B : p.mapDeltas[x] = q.mapDeltas[x]
        BY <1>1, <1>2, <1>3, <1>4, <2>2
    <3> HIDE DEF B
    <3>. QED BY <1>2, <1>7, <3>1, ModFeesSame
  <2>. QED BY <1>4, <2>1, <2>3 DEF ExactEntry
<1>10. Totalled(q)
    BY <1>7, <1>8, <1>9, IndexedGraph DEF Totalled, ExactEntry
<1>11. PoolShape(q)
    BY <1>3, <1>6, <1>7, <1>8, <1>10 DEF PoolShape, FeeShape
<1>. QED BY <1>4, <1>11 DEF q

-----------------------------------------------------------------------------
(* Removals with all descendants: removeRecursive, Expire, TrimToSize.     *)

Pools == {q \in [mapTx : SUBSET Entries, mapNextTx : SUBSET [prevout : OutPoints, tx : Txs],
                 mapDeltas : [Txs -> Int]] : PoolShape(q)}

\* q is p without some transactions and all their descendants.
Trimmed(p, q) ==
    /\ PoolShape(q)
    /\ InPool(q) \subseteq InPool(p)
    /\ ChildClosed(InPool(p), InPool(p) \ InPool(q))

\* The pools of the right shape are a set.
LEMMA PoolsShape ==
    ASSUME NEW p
    PROVE  p \in Pools <=> PoolShape(p)
    BY DEF Pools, PoolShape

\* Removing twice is removing.
LEMMA TrimmedTwice ==
    ASSUME NEW p, NEW q, NEW r, Trimmed(p, q), Trimmed(q, r)
    PROVE  Trimmed(p, r)
    BY DEF Trimmed, ChildClosed

\* Nothing removed.
LEMMA TrimmedNone ==
    ASSUME NEW p, NEW q, PoolShape(q), InPool(q) = InPool(p)
    PROVE  Trimmed(p, q)
    BY DEF Trimmed, ChildClosed

\* The inputs of what is left are still there.
LEMMA TrimmedInputs ==
    ASSUME NEW p, NEW q, Trimmed(p, q), PoolShape(p),
           NEW t \in InPool(q), NEW o \in Ins[t], o[1] \in InPool(p)
    PROVE  o[1] \in InPool(q)
<1>1. Spends(t, o[1])
    BY DEF Spends
<1>2. t \in InPool(p)
    BY DEF Trimmed
<1>. QED BY <1>1, <1>2 DEF Trimmed, ChildClosed

\* mapNextTx finds the entries that spend one of the outpoints.
LEMMA SpendersFound ==
    ASSUME NEW p, PoolShape(p), NEW O
    PROVE  Spenders(p, O) = {y \in InPool(p) : Ins[y] \cap O # {}}
<1>1. p.mapNextTx = UNION {{[prevout |-> o, tx |-> t] : o \in Ins[t]} : t \in InPool(p)}
    BY DEF PoolShape, Indexed
<1>2. ASSUME NEW y \in Spenders(p, O) PROVE y \in InPool(p) /\ Ins[y] \cap O # {}
  <2>1. PICK n \in p.mapNextTx : n.prevout \in O /\ n.tx = y
    BY DEF Spenders
  <2>2. PICK t \in InPool(p) : \E o \in Ins[t] : n = [prevout |-> o, tx |-> t]
    BY <1>1
  <2>. QED BY <2>1, <2>2
<1>3. ASSUME NEW y \in InPool(p), NEW o \in Ins[y], o \in O PROVE y \in Spenders(p, O)
  <2> DEFINE n == [prevout |-> o, tx |-> y]
  <2>1. n \in p.mapNextTx
    BY <1>1
  <2>2. n.prevout = o /\ n.tx = y
    OBVIOUS
  <2> HIDE DEF n
  <2>. QED BY <1>3, <2>1, <2>2 DEF Spenders
<1>. QED BY <1>2, <1>3

\* Removing the descendants of a set.
LEMMA RemoveDescendants ==
    ASSUME NEW p, PoolShape(p), NEW S \in SUBSET InPool(p),
           NEW q, q = RemoveStaged(p, CalculateDescendants(p, S), FALSE)
    PROVE  Trimmed(p, q) /\ S \cap InPool(q) = {} /\ q.mapDeltas = p.mapDeltas
<1> DEFINE B == Below(InPool(p), S)
<1>1. CalculateDescendants(p, S) = B
    BY PoolGraph
<1>2. B \in SUBSET InPool(p) /\ ChildClosed(InPool(p), B) /\ S \subseteq B
    BY BelowFacts
<1> HIDE DEF B
<1>3. PoolShape(q) /\ InPool(q) = InPool(p) \ B /\ q.mapDeltas = p.mapDeltas
    BY <1>1, <1>2, RemoveClosed
<1>4. InPool(p) \ InPool(q) = B
    BY <1>2, <1>3
<1>. QED BY <1>2, <1>3, <1>4 DEF Trimmed

\* removeRecursive leaves neither the transaction nor anything that spends it.
LEMMA RecursiveShape ==
    ASSUME NEW p, PoolShape(p), NEW u \in Txs, NEW q, q = removeRecursive(p, u)
    PROVE  /\ Trimmed(p, q)
           /\ u \notin InPool(q)
           /\ \A y \in InPool(q) : ~Spends(y, u)
           /\ q.mapDeltas = p.mapDeltas
<1> DEFINE O == {o \in OutPoints : o[1] = u}
           S == IF u \in InPool(p) THEN {u} ELSE Spenders(p, O)
<1>1. q = RemoveStaged(p, CalculateDescendants(p, S), FALSE)
    BY DEF removeRecursive
<1>2. InPool(p) \in SUBSET Txs
    BY PoolGraph
<1>3. Spenders(p, O) = {y \in InPool(p) : Spends(y, u)}
  <2>1. \A y \in InPool(p) : Ins[y] \cap O # {} <=> Spends(y, u)
    BY <1>2, TxAssumption DEF Spends
  <2> HIDE DEF O
  <2>2. Spenders(p, O) = {y \in InPool(p) : Ins[y] \cap O # {}}
    BY SpendersFound
  <2>. QED BY <2>1, <2>2
<1>4. S \in SUBSET InPool(p)
    BY <1>3
<1>5. u \in InPool(p) => S = {u}
    OBVIOUS
<1>6. u \notin InPool(p) => S = {y \in InPool(p) : Spends(y, u)}
    BY <1>3
<1> HIDE DEF S
<1>7. Trimmed(p, q) /\ S \cap InPool(q) = {} /\ q.mapDeltas = p.mapDeltas
    BY <1>1, <1>4, RemoveDescendants
<1>8. u \notin InPool(q)
    BY <1>5, <1>7 DEF Trimmed
<1>9. ASSUME NEW y \in InPool(q), Spends(y, u) PROVE FALSE
  <2>1. y \in InPool(p)
    BY <1>7 DEF Trimmed
  <2>2. CASE u \in InPool(p)
    BY <1>7, <1>8, <1>9, <2>1, <2>2 DEF Trimmed, ChildClosed
  <2>3. CASE u \notin InPool(p)
    BY <1>6, <1>7, <1>9, <2>1, <2>3
  <2>. QED BY <2>2, <2>3
<1>. QED BY <1>7, <1>8, <1>9

\* Expiry and eviction remove with all descendants and bring the pool within its limit.
LEMMA TrimShape ==
    ASSUME NEW p, PoolShape(p), Cardinality(InPool(p)) <= MaxPool + 1, NEW q \in TrimToSize(p)
    PROVE  Trimmed(p, q) /\ Cardinality(InPool(q)) <= MaxPool
<1>1. Cardinality(p.mapTx) = Cardinality(InPool(p)) /\ Cardinality(InPool(p)) \in Nat
      /\ IsFiniteSet(InPool(p))
  <2>1. FeeShape(p)
    BY PoolGraph
  <2>. QED BY <2>1, PoolFinite DEF FeeShape
<1>2. CASE Cardinality(p.mapTx) <= MaxPool
  <2>1. q = p
    BY <1>2 DEF TrimToSize
  <2>. QED BY <1>1, <1>2, <2>1, TrimmedNone
<1>3. CASE ~(Cardinality(p.mapTx) <= MaxPool)
  <2>1. PICK e \in p.mapTx : q = RemoveStaged(p, CalculateDescendants(p, {e.tx}), FALSE)
    BY <1>3 DEF TrimToSize
  <2>2. {e.tx} \in SUBSET InPool(p)
    BY DEF InPool
  <2>3. Trimmed(p, q) /\ {e.tx} \cap InPool(q) = {}
    BY <2>1, <2>2, RemoveDescendants
  <2>4. InPool(q) \subseteq InPool(p) /\ InPool(q) # InPool(p)
    BY <2>2, <2>3 DEF Trimmed
  <2>5. Cardinality(InPool(q)) < Cardinality(InPool(p)) /\ Cardinality(InPool(q)) \in Nat
    <3>1. IsFiniteSet(InPool(q)) /\ Cardinality(InPool(q)) <= Cardinality(InPool(p))
          /\ (Cardinality(InPool(q)) = Cardinality(InPool(p)) => InPool(q) = InPool(p))
        BY <1>1, <2>4, FS_Subset
    <3>. QED BY <1>1, <2>4, <3>1, FS_CardinalityType
  <2>6. Cardinality(InPool(q)) <= MaxPool
    BY <1>1, <2>5, BoundAssumption
  <2>. QED BY <2>3, <2>6
<1>. QED BY <1>2, <1>3

\* LimitMempoolSize: the same after expiry.
LEMMA LimitShape ==
    ASSUME NEW p, PoolShape(p), Cardinality(InPool(p)) <= MaxPool + 1, NEW fresh,
           NEW q \in LimitMempoolSize(p, fresh)
    PROVE  Trimmed(p, q) /\ Cardinality(InPool(q)) <= MaxPool
<1>1. PICK old \in SUBSET (InPool(p) \ fresh) : q \in TrimToSize(Expire(p, old))
    BY DEF LimitMempoolSize
<1> DEFINE r == Expire(p, old)
<1>2. Trimmed(p, r)
  <2>1. old \in SUBSET InPool(p) /\ r = RemoveStaged(p, CalculateDescendants(p, old), FALSE)
    BY DEF Expire
  <2> HIDE DEF r
  <2>. QED BY <2>1, RemoveDescendants
<1> HIDE DEF r
<1>3. Cardinality(InPool(r)) <= MaxPool + 1
  <2>1. IsFiniteSet(InPool(p))
    BY PoolGraph
  <2>2. Cardinality(InPool(r)) <= Cardinality(InPool(p)) /\ IsFiniteSet(InPool(r))
    BY <1>2, <2>1, FS_Subset DEF Trimmed
  <2>3. Cardinality(InPool(r)) \in Nat /\ Cardinality(InPool(p)) \in Nat
    BY <2>1, <2>2, FS_CardinalityType
  <2>. QED BY <2>2, <2>3, BoundAssumption
<1>4. Trimmed(r, q) /\ Cardinality(InPool(q)) <= MaxPool
    BY <1>1, <1>2, <1>3, TrimShape DEF r, Trimmed
<1>. QED BY <1>2, <1>4, TrimmedTwice

\* Every step removes, step x everything in gone[x].
Trims(step, S, gone) ==
    \A q \in Pools, x \in S : /\ Trimmed(q, step[<<q, x>>])
                              /\ gone[x] \cap InPool(step[<<q, x>>]) = {}

\* f is that fold as long as its values are pools.
Unfolds(f, S, p, step, ch) ==
    /\ f[{}] = p
    /\ \A s \in SUBSET S : s # {} /\ f[s \ {ch[s]}] \in Pools
                           => f[s] = step[<<f[s \ {ch[s]}], ch[s]>>]

\* A fold whose steps remove.
LEMMA FoldTrims ==
    ASSUME NEW S, IsFiniteSet(S), NEW ch, Chooses(ch, S), NEW p \in Pools,
           NEW step, NEW gone, Trims(step, S, gone),
           NEW f, Unfolds(f, S, p, step, ch)
    PROVE  Trimmed(p, f[S]) /\ \A x \in S : gone[x] \cap InPool(f[S]) = {}
<1> USE DEF Trims, Unfolds
<1> DEFINE G == {s \in SUBSET S : Trimmed(p, f[s]) /\ \A x \in s : gone[x] \cap InPool(f[s]) = {}}
<1>1. {} \in G
    BY PoolsShape, TrimmedNone
<1>2. ASSUME NEW s \in SUBSET S, s # {}, s \ {ch[s]} \in G PROVE s \in G
  <2> DEFINE r == s \ {ch[s]}
             x == ch[s]
  <2>1. x \in s /\ x \in S /\ Trimmed(p, f[r]) /\ \A y \in r : gone[y] \cap InPool(f[r]) = {}
    BY <1>2 DEF Chooses
  <2>2. f[r] \in Pools
    BY <2>1, PoolsShape DEF Trimmed
  <2>3. f[s] = step[<<f[r], x>>]
    BY <1>2, <2>2
  <2>4. Trimmed(f[r], f[s]) /\ gone[x] \cap InPool(f[s]) = {}
    BY <2>1, <2>2, <2>3
  <2>5. Trimmed(p, f[s])
    BY <2>1, <2>4, TrimmedTwice
  <2>6. ASSUME NEW y \in s PROVE gone[y] \cap InPool(f[s]) = {}
    <3>1. CASE y = x
        BY <2>4, <3>1
    <3>2. CASE y # x
      <4>1. gone[y] \cap InPool(f[r]) = {}
        BY <2>1, <3>2
      <4>. QED BY <2>4, <4>1 DEF Trimmed
    <3>. QED BY <3>1, <3>2
  <2>. QED BY <2>5, <2>6
<1>3. \A s \in SUBSET S : s \in G
  <2> HIDE DEF G, Trims, Unfolds
  <2>. QED BY <1>1, <1>2, SubsetInduction, SMTT(30) DEF Chooses
<1>. QED BY <1>3

\* The step of removeConflicts.
ConflictStep(q, u) == IF u \in InPool(q) THEN ClearPrioritisation(removeRecursive(q, u), u) ELSE q

\* It removes the conflict.
LEMMA ConflictStepShape ==
    ASSUME NEW p \in Pools, NEW u \in Txs
    PROVE  Trimmed(p, ConflictStep(p, u)) /\ u \notin InPool(ConflictStep(p, u))
<1>1. PoolShape(p)
    BY PoolsShape
<1>2. CASE u \notin InPool(p)
    BY <1>1, <1>2, TrimmedNone DEF ConflictStep
<1>3. CASE u \in InPool(p)
  <2> DEFINE r == removeRecursive(p, u)
  <2>1. Trimmed(p, r) /\ u \notin InPool(r)
    BY <1>1, RecursiveShape
  <2>2. ConflictStep(p, u) = ClearPrioritisation(r, u)
    BY <1>3 DEF ConflictStep
  <2> HIDE DEF r
  <2>3. PoolShape(ClearPrioritisation(r, u)) /\ InPool(ClearPrioritisation(r, u)) = InPool(r)
    BY <2>1, ClearShape DEF Trimmed
  <2>4. Trimmed(r, ConflictStep(p, u))
    BY <2>2, <2>3, TrimmedNone
  <2>. QED BY <2>1, <2>2, <2>3, <2>4, TrimmedTwice
<1>. QED BY <1>2, <1>3

\* removeConflicts leaves no other transaction that spends an input of t.
LEMMA ConflictsShape ==
    ASSUME NEW p, PoolShape(p), NEW t \in Txs
    PROVE  /\ Trimmed(p, removeConflicts(p, t))
           /\ \A y \in InPool(removeConflicts(p, t)) : y # t => Ins[y] \cap Ins[t] = {}
<1> DEFINE S == Spenders(p, Ins[t]) \ {t}
           First(s) == CHOOSE x \in s : TRUE
           Rec(g) == g = [s \in SUBSET S |->
                             IF s = {} THEN p ELSE ConflictStep(g[s \ {First(s)}], First(s))]
           ch == [s \in SUBSET S |-> First(s)]
           step == [z \in Pools \X S |-> ConflictStep(z[1], z[2])]
           gone == [x \in S |-> {x}]
<1>1. S = {y \in InPool(p) : Ins[y] \cap Ins[t] # {}} \ {t}
    BY SpendersFound
<1>2. S \in SUBSET Txs /\ IsFiniteSet(S) /\ p \in Pools
  <2>1. InPool(p) \in SUBSET Txs /\ IsFiniteSet(InPool(p))
    BY PoolGraph
  <2>2. S \in SUBSET InPool(p)
    BY <1>1
  <2> HIDE DEF S
  <2>. QED BY <2>1, <2>2, FS_Subset, PoolsShape
<1>3. Chooses(ch, S)
    BY DEF Chooses
<1>4. removeConflicts(p, t) = (CHOOSE g : Rec(g))[S]
    BY Zenon DEF removeConflicts, FoldSet, MapThenFoldSet, ConflictStep
<1> HIDE DEF S
<1>5. ASSUME NEW q \in Pools, NEW x \in S
      PROVE  /\ step[<<q, x>>] = ConflictStep(q, x)
             /\ Trimmed(q, step[<<q, x>>]) /\ step[<<q, x>>] \in Pools
             /\ gone[x] \cap InPool(step[<<q, x>>]) = {}
  <2>1. step[<<q, x>>] = ConflictStep(q, x)
    OBVIOUS
  <2>2. x \in Txs /\ gone[x] = {x}
    BY <1>2
  <2>3. Trimmed(q, ConflictStep(q, x)) /\ x \notin InPool(ConflictStep(q, x))
    BY <2>2, ConflictStepShape
  <2> HIDE DEF step, gone
  <2>. QED BY <2>1, <2>2, <2>3, PoolsShape DEF Trimmed
<1>6. step \in [Pools \X S -> Pools]
  <2>1. \A z \in Pools \X S : z[1] \in Pools /\ z[2] \in S /\ step[z] = step[<<z[1], z[2]>>]
    OBVIOUS
  <2>2. \A z \in Pools \X S : step[z] \in Pools
    <3> HIDE DEF step
    <3>. QED BY <1>5, <2>1
  <2>. QED BY <2>2
<1>7. \E g : Rec(g)
  <2>1. \E f : Folds(f, S, Pools, p, step, ch)
    <3> HIDE DEF step, ch
    <3>. QED BY <1>2, <1>3, <1>6, FoldExists
  <2>2. PICK f : Folds(f, S, Pools, p, step, ch)
    BY <2>1
  <2>3. f \in [SUBSET S -> Pools] /\ f[{}] = p
    BY <2>2 DEF Folds
  <2>4. ASSUME NEW s \in SUBSET S, s # {} PROVE f[s] = ConflictStep(f[s \ {First(s)}], First(s))
    <3>1. ch[s] = First(s) /\ First(s) \in s
        BY <2>4
    <3>2. f[s] = step[<<f[s \ {First(s)}], First(s)>>]
        BY <2>2, <2>4, <3>1 DEF Folds
    <3>3. f[s \ {First(s)}] \in Pools /\ First(s) \in S
        BY <2>3, <3>1
    <3> HIDE DEF step, ch, First
    <3>. QED BY <1>5, <3>2, <3>3
  <2>5. f = [s \in SUBSET S |-> f[s]]
    BY <2>3
  <2> HIDE DEF First
  <2>. QED BY <2>3, <2>4, <2>5
<1>8. PICK g : g = CHOOSE h : Rec(h)
    OBVIOUS
<1>9. Rec(g)
  <2> HIDE DEF Rec
  <2>. QED BY <1>7, <1>8, Zenon
<1>10. g[{}] = p
    BY <1>9
<1>11. ASSUME NEW s \in SUBSET S, s # {}, g[s \ {ch[s]}] \in Pools
       PROVE  g[s] = step[<<g[s \ {ch[s]}], ch[s]>>]
  <2>1. ch[s] = First(s) /\ First(s) \in S
    BY <1>3, <1>11 DEF Chooses
  <2>2. g[s] = ConflictStep(g[s \ {First(s)}], First(s))
    <3> HIDE DEF First
    <3>. QED BY <1>9, <1>11
  <2> HIDE DEF step, ch, First
  <2>. QED BY <1>5, <1>11, <2>1, <2>2
<1>12. Trimmed(p, g[S]) /\ \A x \in S : gone[x] \cap InPool(g[S]) = {}
  <2> HIDE DEF step, ch, gone, Rec
  <2>1. Trims(step, S, gone)
    BY <1>5 DEF Trims
  <2>2. Unfolds(g, S, p, step, ch)
    BY <1>10, <1>11 DEF Unfolds
  <2>. QED BY <1>2, <1>3, <2>1, <2>2, FoldTrims
<1>13. removeConflicts(p, t) = g[S]
  <2> HIDE DEF Rec
  <2>. QED BY <1>4, <1>8, Zenon
<1>14. \A x \in S : x \notin InPool(g[S])
    BY <1>12
<1> HIDE DEF Rec, gone
<1>15. ASSUME NEW y \in InPool(removeConflicts(p, t)), y # t PROVE Ins[y] \cap Ins[t] = {}
  <2>1. y \in InPool(p) /\ y \notin S
    BY <1>12, <1>13, <1>14, <1>15 DEF Trimmed
  <2>. QED BY <1>1, <1>15, <2>1
<1>. QED BY <1>12, <1>13, <1>15

\* removeForReorg leaves no spender of a coinbase that is gone or immature.
LEMMA ReorgShape ==
    ASSUME NEW p, PoolShape(p), NEW c
    PROVE  /\ Trimmed(p, removeForReorg(p, c))
           /\ \A t \in InPool(removeForReorg(p, c)) : \A o \in Ins[t] :
                 ~(o[1] \in Coinbases /\ o[1] \notin InPool(p) /\ PrematureInput(c, o, Len(c) + 1))
<1> DEFINE lost(t) == \E o \in Ins[t] :
                         /\ o[1] \notin InPool(p)
                         /\ ~HaveCoins(c, o[1]) \/ PrematureInput(c, o, Len(c) + 1)
           S == {t \in InPool(p) : (\E o \in Ins[t] : o[1] \in Coinbases) /\ lost(t)}
           First(s) == CHOOSE x \in s : TRUE
           Rec(g) == g = [s \in SUBSET S |->
                             IF s = {} THEN p ELSE removeRecursive(g[s \ {First(s)}], First(s))]
           ch == [s \in SUBSET S |-> First(s)]
           step == [z \in Pools \X S |-> removeRecursive(z[1], z[2])]
           gone == [x \in S |-> {x}]
<1>1. \A t \in InPool(p) : \A o \in Ins[t] :
          o[1] \in Coinbases /\ o[1] \notin InPool(p) /\ PrematureInput(c, o, Len(c) + 1) => t \in S
    OBVIOUS
<1>2. S \in SUBSET Txs /\ IsFiniteSet(S) /\ p \in Pools
  <2>1. InPool(p) \in SUBSET Txs /\ IsFiniteSet(InPool(p))
    BY PoolGraph
  <2>2. S \in SUBSET InPool(p)
    OBVIOUS
  <2> HIDE DEF S
  <2>. QED BY <2>1, <2>2, FS_Subset, PoolsShape
<1>3. Chooses(ch, S)
    BY DEF Chooses
<1>4. removeForReorg(p, c) = (CHOOSE g : Rec(g))[S]
    BY Zenon DEF removeForReorg, FoldSet, MapThenFoldSet
<1> HIDE DEF S
<1>5. ASSUME NEW q \in Pools, NEW x \in S
      PROVE  /\ step[<<q, x>>] = removeRecursive(q, x)
             /\ Trimmed(q, step[<<q, x>>]) /\ step[<<q, x>>] \in Pools
             /\ gone[x] \cap InPool(step[<<q, x>>]) = {}
  <2>1. step[<<q, x>>] = removeRecursive(q, x)
    OBVIOUS
  <2>2. x \in Txs /\ gone[x] = {x} /\ PoolShape(q)
    BY <1>2, PoolsShape
  <2> HIDE DEF step, gone
  <2>3. Trimmed(q, step[<<q, x>>]) /\ x \notin InPool(step[<<q, x>>])
    BY <2>1, <2>2, RecursiveShape
  <2>. QED BY <2>1, <2>2, <2>3, PoolsShape DEF Trimmed
<1>6. step \in [Pools \X S -> Pools]
  <2>1. \A z \in Pools \X S : z[1] \in Pools /\ z[2] \in S /\ step[z] = step[<<z[1], z[2]>>]
    OBVIOUS
  <2>2. \A z \in Pools \X S : step[z] \in Pools
    <3> HIDE DEF step
    <3>. QED BY <1>5, <2>1
  <2>. QED BY <2>2
<1>7. \E g : Rec(g)
  <2>1. \E f : Folds(f, S, Pools, p, step, ch)
    <3> HIDE DEF step, ch
    <3>. QED BY <1>2, <1>3, <1>6, FoldExists
  <2>2. PICK f : Folds(f, S, Pools, p, step, ch)
    BY <2>1
  <2>3. f \in [SUBSET S -> Pools] /\ f[{}] = p
    BY <2>2 DEF Folds
  <2>4. ASSUME NEW s \in SUBSET S, s # {} PROVE f[s] = removeRecursive(f[s \ {First(s)}], First(s))
    <3>1. ch[s] = First(s) /\ First(s) \in s
        BY <1>3, <2>4 DEF Chooses
    <3>2. f[s] = step[<<f[s \ {First(s)}], First(s)>>]
        BY <2>2, <2>4, <3>1 DEF Folds
    <3>3. f[s \ {First(s)}] \in Pools /\ First(s) \in S
        BY <2>3, <3>1
    <3> HIDE DEF step, ch, First
    <3>. QED BY <1>5, <3>2, <3>3
  <2>5. f = [s \in SUBSET S |-> f[s]]
    BY <2>3
  <2> HIDE DEF First
  <2>. QED BY <2>3, <2>4, <2>5
<1>8. PICK g : g = CHOOSE h : Rec(h)
    OBVIOUS
<1>9. Rec(g)
  <2> HIDE DEF Rec
  <2>. QED BY <1>7, <1>8, Zenon
<1>10. g[{}] = p
    BY <1>9
<1>11. ASSUME NEW s \in SUBSET S, s # {}, g[s \ {ch[s]}] \in Pools
       PROVE  g[s] = step[<<g[s \ {ch[s]}], ch[s]>>]
  <2>1. ch[s] = First(s) /\ First(s) \in S
    BY <1>3, <1>11 DEF Chooses
  <2>2. g[s] = removeRecursive(g[s \ {First(s)}], First(s))
    <3> HIDE DEF First
    <3>. QED BY <1>9, <1>11
  <2> HIDE DEF step, ch, First
  <2>. QED BY <1>5, <1>11, <2>1, <2>2
<1>12. Trimmed(p, g[S]) /\ \A x \in S : gone[x] \cap InPool(g[S]) = {}
  <2> HIDE DEF step, ch, gone, Rec
  <2>1. Trims(step, S, gone)
    BY <1>5 DEF Trims
  <2>2. Unfolds(g, S, p, step, ch)
    BY <1>10, <1>11 DEF Unfolds
  <2>. QED BY <1>2, <1>3, <2>1, <2>2, FoldTrims
<1>13. removeForReorg(p, c) = g[S]
  <2> HIDE DEF Rec
  <2>. QED BY <1>4, <1>8, Zenon
<1>14. \A x \in S : x \notin InPool(g[S])
    BY <1>12
<1> HIDE DEF Rec, gone
<1>15. InPool(g[S]) \subseteq InPool(p)
    BY <1>12 DEF Trimmed
<1>. QED BY <1>1, <1>12, <1>13, <1>14, <1>15

\* A nonempty finite set of numbers has a maximum, and Max finds it.
LEMMA MaxIn ==
    ASSUME NEW s \in SUBSET Nat, IsFiniteSet(s), s # {}
    PROVE  Max(s) \in s /\ \A y \in s : Max(s) >= y
<1> DEFINE G == {r \in SUBSET s : r = {} \/ \E x \in r : \A y \in r : x >= y}
<1>1. ASSUME NEW r \in SUBSET s, \A q \in SUBSET r : q # r => q \in G PROVE r \in G
  <2>1. CASE r = {}
    BY <2>1
  <2>2. CASE r # {}
    <3>1. PICK z \in r : TRUE
        BY <2>2
    <3>2. r \ {z} \in G
        BY <1>1, <3>1
    <3>3. CASE r \ {z} = {}
        BY <3>1, <3>3
    <3>4. CASE r \ {z} # {}
      <4>1. PICK x \in r \ {z} : \A y \in r \ {z} : x >= y
        BY <3>2, <3>4
      <4>2. z \in Nat /\ x \in Nat /\ \A y \in r : y \in Nat
        OBVIOUS
      <4>. QED BY <4>1, <4>2
    <3>. QED BY <3>3, <3>4
  <2>. QED BY <2>1, <2>2
<1>2. s \in G
  <2> HIDE DEF G
  <2>. QED BY <1>1, StrongSubsetInduction
<1>3. \E x \in s : \A y \in s : x >= y
    BY <1>2
<1>. QED BY <1>3, Zenon DEF Max

\* Disconnecting a block leaves nothing that spends its transactions.
LEMMA DisconnectShape ==
    ASSUME NEW p, PoolShape(p), NEW b \in Seq(Txs)
    PROVE  /\ Trimmed(p, FoldLeft(removeRecursive, p, b))
           /\ \A y \in InPool(FoldLeft(removeRecursive, p, b)) : \A i \in DOMAIN b : ~Spends(y, b[i])
<1> DEFINE S == DOMAIN b
           First(s) == Max(s)
           Rec(g) == g = [s \in SUBSET S |->
                             IF s = {} THEN p ELSE removeRecursive(g[s \ {First(s)}], b[First(s)])]
           ch == [s \in SUBSET S |-> First(s)]
           step == [z \in Pools \X S |-> removeRecursive(z[1], b[z[2]])]
           gone == [x \in S |-> {y \in Txs : Spends(y, b[x])}]
<1>1. S = 1..Len(b) /\ Len(b) \in Nat
    OBVIOUS
<1>2. S \in SUBSET Nat /\ IsFiniteSet(S) /\ p \in Pools /\ \A x \in S : b[x] \in Txs
  <2>1. IsFiniteSet(1..Len(b))
    BY <1>1, FS_Interval
  <2>. QED BY <1>1, <2>1, PoolsShape
<1>3. Chooses(ch, S)
  <2> HIDE DEF S
  <2>1. ASSUME NEW s \in SUBSET S, s # {} PROVE Max(s) \in s
    BY <1>2, <2>1, FS_Subset, MaxIn
  <2>. QED BY <2>1 DEF Chooses
<1>4. FoldLeft(removeRecursive, p, b) = (CHOOSE g : Rec(g))[S]
    BY Zenon DEF FoldLeft, MapThenFoldSet
<1> HIDE DEF S
<1>5. ASSUME NEW q \in Pools, NEW x \in S
      PROVE  /\ step[<<q, x>>] = removeRecursive(q, b[x])
             /\ Trimmed(q, step[<<q, x>>]) /\ step[<<q, x>>] \in Pools
             /\ gone[x] \cap InPool(step[<<q, x>>]) = {}
  <2>1. step[<<q, x>>] = removeRecursive(q, b[x])
    OBVIOUS
  <2>2. b[x] \in Txs /\ gone[x] = {y \in Txs : Spends(y, b[x])} /\ PoolShape(q)
    BY <1>2, PoolsShape
  <2> HIDE DEF step, gone
  <2>3. Trimmed(q, step[<<q, x>>]) /\ \A y \in InPool(step[<<q, x>>]) : ~Spends(y, b[x])
    BY <2>1, <2>2, RecursiveShape
  <2>. QED BY <2>1, <2>2, <2>3, PoolsShape DEF Trimmed
<1>6. step \in [Pools \X S -> Pools]
  <2>1. \A z \in Pools \X S : z[1] \in Pools /\ z[2] \in S /\ step[z] = step[<<z[1], z[2]>>]
    OBVIOUS
  <2>2. \A z \in Pools \X S : step[z] \in Pools
    <3> HIDE DEF step
    <3>. QED BY <1>5, <2>1
  <2>. QED BY <2>2
<1>7. \E g : Rec(g)
  <2>1. \E f : Folds(f, S, Pools, p, step, ch)
    <3> HIDE DEF step, ch
    <3>. QED BY <1>2, <1>3, <1>6, FoldExists
  <2>2. PICK f : Folds(f, S, Pools, p, step, ch)
    BY <2>1
  <2>3. f \in [SUBSET S -> Pools] /\ f[{}] = p
    BY <2>2 DEF Folds
  <2>4. ASSUME NEW s \in SUBSET S, s # {} PROVE f[s] = removeRecursive(f[s \ {First(s)}], b[First(s)])
    <3>1. ch[s] = First(s) /\ First(s) \in s
        BY <1>3, <2>4 DEF Chooses
    <3>2. f[s] = step[<<f[s \ {First(s)}], First(s)>>]
        BY <2>2, <2>4, <3>1 DEF Folds
    <3>3. f[s \ {First(s)}] \in Pools /\ First(s) \in S
        BY <2>3, <3>1
    <3> HIDE DEF step, ch, First
    <3>. QED BY <1>5, <3>2, <3>3
  <2>5. f = [s \in SUBSET S |-> f[s]]
    BY <2>3
  <2> HIDE DEF First
  <2>. QED BY <2>3, <2>4, <2>5
<1>8. PICK g : g = CHOOSE h : Rec(h)
    OBVIOUS
<1>9. Rec(g)
  <2> HIDE DEF Rec
  <2>. QED BY <1>7, <1>8, Zenon
<1>10. g[{}] = p
    BY <1>9
<1>11. ASSUME NEW s \in SUBSET S, s # {}, g[s \ {ch[s]}] \in Pools
       PROVE  g[s] = step[<<g[s \ {ch[s]}], ch[s]>>]
  <2>1. ch[s] = First(s) /\ First(s) \in S
    BY <1>3, <1>11 DEF Chooses
  <2>2. g[s] = removeRecursive(g[s \ {First(s)}], b[First(s)])
    <3> HIDE DEF First
    <3>. QED BY <1>9, <1>11
  <2> HIDE DEF step, ch, First
  <2>. QED BY <1>5, <1>11, <2>1, <2>2
<1>12. Trimmed(p, g[S]) /\ \A x \in S : gone[x] \cap InPool(g[S]) = {}
  <2> HIDE DEF step, ch, gone, Rec
  <2>1. Trims(step, S, gone)
    BY <1>5 DEF Trims
  <2>2. Unfolds(g, S, p, step, ch)
    BY <1>10, <1>11 DEF Unfolds
  <2>. QED BY <1>2, <1>3, <2>1, <2>2, FoldTrims
<1>13. FoldLeft(removeRecursive, p, b) = g[S]
  <2> HIDE DEF Rec
  <2>. QED BY <1>4, <1>8, Zenon
<1>14. ASSUME NEW y \in InPool(g[S]), NEW i \in S PROVE ~Spends(y, b[i])
  <2>1. InPool(g[S]) \subseteq InPool(p) /\ InPool(p) \in SUBSET Txs
    BY <1>12, PoolGraph DEF Trimmed
  <2>2. gone[i] \cap InPool(g[S]) = {}
    BY <1>12
  <2>. QED BY <2>1, <2>2
<1> HIDE DEF Rec, gone
<1>. QED BY <1>12, <1>13, <1>14 DEF S

\* The step of removeForBlock.
BlockStep(q, t) ==
    LET r == IF t \in InPool(q) THEN RemoveStaged(q, {t}, TRUE) ELSE q
    IN  ClearPrioritisation(removeConflicts(r, t), t)

\* removeForBlock takes the transactions of the block in order.
LEMMA BlockFold ==
    ASSUME NEW p, NEW b \in Seq(Txs)
    PROVE  \E g : /\ removeForBlock(p, b) = g[Len(b)]
                  /\ g[0] = p
                  /\ \A k \in 1..Len(b) : g[k] = BlockStep(g[k - 1], b[k])
<1> DEFINE S == DOMAIN b
           Value(f, s) == IF s = {} THEN p ELSE BlockStep(f[s \ {Max(s)}], b[Max(s)])
           Rec(f) == f = [s \in SUBSET S |-> Value(f, s)]
           Upto(n) == \E f : /\ f = [s \in SUBSET S |-> f[s]]
                             /\ \A s \in SUBSET S : Cardinality(s) <= n => f[s] = Value(f, s)
           N == {n \in Nat : ~Upto(n)}
<1>1. S = 1..Len(b) /\ Len(b) \in Nat /\ IsFiniteSet(S) /\ S \in SUBSET Nat
  <2>1. Len(b) \in Nat /\ S = 1..Len(b)
    OBVIOUS
  <2>. QED BY <2>1, FS_Interval
<1>2. removeForBlock(p, b) = (CHOOSE f : Rec(f))[S]
    BY Zenon DEF removeForBlock, FoldLeft, MapThenFoldSet, BlockStep
<1> HIDE DEF S
<1>3. \A s \in SUBSET S : IsFiniteSet(s) /\ Cardinality(s) \in Nat
    BY <1>1, FS_Subset, FS_CardinalityType
<1>4. \A s \in SUBSET S : s # {} => Max(s) \in s
    BY <1>1, <1>3, MaxIn
<1>5. Upto(0)
  <2> DEFINE f == [s \in SUBSET S |-> p]
  <2>1. f = [s \in SUBSET S |-> f[s]]
    OBVIOUS
  <2>2. \A s \in SUBSET S : Cardinality(s) <= 0 => s = {}
    BY <1>3, FS_EmptySet
  <2>3. \A s \in SUBSET S : f[s] = p
    OBVIOUS
  <2> HIDE DEF f
  <2>4. \A s \in SUBSET S : Cardinality(s) <= 0 => f[s] = Value(f, s)
    BY <2>2, <2>3
  <2>. QED BY <2>1, <2>4
<1>6. ASSUME NEW n \in Nat, Upto(n) PROVE Upto(n + 1)
  <2>1. PICK f : \A s \in SUBSET S : Cardinality(s) <= n => f[s] = Value(f, s)
    BY <1>6
  <2> DEFINE g == [s \in SUBSET S |-> Value(f, s)]
  <2>2. g = [s \in SUBSET S |-> g[s]]
    OBVIOUS
  <2>3. \A s \in SUBSET S : g[s] = Value(f, s)
    OBVIOUS
  <2> HIDE DEF g
  <2>4. ASSUME NEW s \in SUBSET S, Cardinality(s) <= n + 1 PROVE g[s] = Value(g, s)
    <3>1. CASE s = {}
        BY <2>3, <3>1
    <3>2. CASE s # {}
      <4>1. s \ {Max(s)} \in SUBSET S /\ Max(s) \in s
        BY <1>4, <3>2
      <4>2. Cardinality(s \ {Max(s)}) <= n
        BY <1>3, <2>4, <4>1, FS_RemoveElement
      <4>3. g[s \ {Max(s)}] = f[s \ {Max(s)}]
        BY <2>1, <2>3, <4>1, <4>2
      <4>. QED BY <2>3, <3>2, <4>3
    <3>. QED BY <3>1, <3>2
  <2> HIDE DEF Value
  <2>. QED BY <2>2, <2>4
<1>7. ASSUME N # {} PROVE FALSE
  <2> HIDE DEF Upto
  <2>1. PICK n \in N : \A m \in N : n <= m
    BY <1>7, LeastNat
  <2>2. n # 0 /\ n - 1 \in Nat
    BY <1>5, <2>1
  <2>3. Upto(n - 1)
    <3>1. n - 1 \notin N
        BY <2>1, <2>2
    <3>. QED BY <2>2, <3>1
  <2>4. Upto(n)
    <3>1. Upto((n - 1) + 1)
        BY <1>6, <2>2, <2>3
    <3>2. (n - 1) + 1 = n
        BY <2>1
    <3>. QED BY <3>1, <3>2
  <2>. QED BY <2>1, <2>4
<1>8. \E f : Rec(f)
  <2>1. Cardinality(S) \in Nat /\ Upto(Cardinality(S))
    <3> HIDE DEF Upto
    <3>. QED BY <1>3, <1>7
  <2>2. PICK f : /\ f = [s \in SUBSET S |-> f[s]]
                 /\ \A s \in SUBSET S : Cardinality(s) <= Cardinality(S) => f[s] = Value(f, s)
    BY <2>1
  <2> HIDE DEF Value
  <2>3. \A s \in SUBSET S : Cardinality(s) <= Cardinality(S)
    BY <1>1, FS_Subset
  <2>4. \A s \in SUBSET S : f[s] = Value(f, s)
    BY <2>2, <2>3
  <2>. QED BY <2>2, <2>4
<1>9. PICK h : h = CHOOSE f : Rec(f)
    OBVIOUS
<1>10. Rec(h) /\ removeForBlock(p, b) = h[S]
  <2> HIDE DEF Rec
  <2>. QED BY <1>2, <1>8, <1>9, Zenon
<1> DEFINE g == [k \in 0..Len(b) |-> h[1..k]]
<1>11. g[0] = p /\ g[Len(b)] = h[S]
  <2>1. 1..0 = {} /\ {} \in SUBSET S /\ 0 \in 0..Len(b) /\ Len(b) \in 0..Len(b)
    BY <1>1
  <2>2. h[{}] = p
    BY <1>10, <2>1
  <2>. QED BY <1>1, <2>1, <2>2
<1>12. ASSUME NEW k \in 1..Len(b) PROVE g[k] = BlockStep(g[k - 1], b[k])
  <2>1. k \in Nat /\ k \in 1..k /\ 1..k \in SUBSET S /\ 1..k # {} /\ (1..k) \ {k} = 1..(k - 1)
        /\ k \in 0..Len(b) /\ k - 1 \in 0..Len(b)
    BY <1>1
  <2>2. Max(1..k) = k
    <3>1. Max(1..k) \in 1..k /\ \A y \in 1..k : Max(1..k) >= y
        BY <1>1, <1>3, <2>1, MaxIn
    <3>. QED BY <2>1, <3>1
  <2>3. h[1..k] = BlockStep(h[(1..k) \ {k}], b[k])
    BY <1>10, <2>1, <2>2
  <2>4. g[k] = h[1..k] /\ g[k - 1] = h[1..(k - 1)]
    BY <2>1
  <2> HIDE DEF g
  <2>. QED BY <2>1, <2>3, <2>4
<1> HIDE DEF g, Rec
<1>. QED BY <1>10, <1>11, <1>12

-----------------------------------------------------------------------------
(* The chain.                                                              *)

\* What a block confirms.
LEMMA ConfirmedAppend ==
    ASSUME NEW c \in Seq(Seq(Txs)), NEW b \in Seq(Txs)
    PROVE  Confirmed(Append(c, b)) = Confirmed(c) \cup ToSet(b)
<1> DEFINE d == Append(c, b)
<1>1. DOMAIN d = 1..(Len(c) + 1) /\ DOMAIN c = 1..Len(c) /\ Len(c) \in Nat
    OBVIOUS
<1>2. d[Len(c) + 1] = b /\ \A h \in 1..Len(c) : d[h] = c[h]
    OBVIOUS
<1> HIDE DEF d
<1>3. 1..(Len(c) + 1) = (1..Len(c)) \cup {Len(c) + 1}
    BY <1>1
<1>. QED BY <1>1, <1>2, <1>3 DEF Confirmed, d

\* What a transaction of a valid block is, and what it spends.
LEMMA ValidTx ==
    ASSUME NEW c \in Seq(Seq(Txs)), NEW b \in Seq(Txs), ValidBlock(c, b), NEW i \in DOMAIN b
    PROVE  /\ b[i] \notin Confirmed(c)
           /\ \A j \in 1..(i - 1) : b[i] # b[j]
           /\ \A o \in Ins[b[i]] : o[1] \in Confirmed(c) \cup {b[j] : j \in 1..(i - 1)}
           /\ \A o \in Ins[b[i]] : \A t \in Confirmed(c) : o \notin Ins[t]
           /\ b[i] \in Coinbases => i = 1
<1> DEFINE s == SubSeq(b, 1, i - 1)
           before == Append(c, s)
<1>1. i \in 1..Len(b) /\ Len(b) \in Nat
    OBVIOUS
<1>2. s \in Seq(Txs) /\ DOMAIN s = 1..(i - 1) /\ \A j \in 1..(i - 1) : s[j] = b[j]
    BY <1>1
<1>3. ToSet(s) = {b[j] : j \in 1..(i - 1)}
    BY <1>2 DEF ToSet
<1>4. b[i] \notin Confirmed(before) /\ Ins[b[i]] \subseteq Unspent(before) /\ (b[i] \in Coinbases => i = 1)
    BY DEF ValidBlock
<1> HIDE DEF s
<1>5. Confirmed(before) = Confirmed(c) \cup ToSet(s)
    BY <1>2, ConfirmedAppend
<1> HIDE DEF before
<1>6. \A o \in Ins[b[i]] : o[1] \in Confirmed(before) /\ \A t \in Confirmed(before) : o \notin Ins[t]
    BY <1>4 DEF Unspent
<1>. QED BY <1>3, <1>4, <1>5, <1>6

\* What is confirmed below a height is confirmed.
LEMMA ConfirmedBelow ==
    ASSUME NEW c \in Seq(Seq(Txs)), NEW h \in DOMAIN c
    PROVE  /\ SubSeq(c, 1, h - 1) \in Seq(Seq(Txs))
           /\ c[h] \in Seq(Txs)
           /\ Confirmed(SubSeq(c, 1, h - 1)) \subseteq Confirmed(c)
           /\ \A g \in DOMAIN c : g < h => ToSet(c[g]) \subseteq Confirmed(SubSeq(c, 1, h - 1))
           /\ ToSet(c[h]) \subseteq Confirmed(c)
<1> DEFINE s == SubSeq(c, 1, h - 1)
<1>1. h \in 1..Len(c) /\ Len(c) \in Nat /\ DOMAIN c = 1..Len(c)
    OBVIOUS
<1>2. s \in Seq(Seq(Txs)) /\ DOMAIN s = 1..(h - 1) /\ \A g \in 1..(h - 1) : s[g] = c[g]
    BY <1>1
<1> HIDE DEF s
<1>3. \A g \in DOMAIN c : g < h => g \in DOMAIN s
    BY <1>1, <1>2
<1>. QED BY <1>1, <1>2, <1>3 DEF Confirmed, s

\* What a confirmed transaction spends was confirmed, and it is confirmed once.
LEMMA ChainFacts ==
    ASSUME NEW c, ChainValid(c)
    PROVE  /\ Confirmed(c) \subseteq Txs
           /\ \A t \in Confirmed(c) : \A o \in Ins[t] : o[1] \in Confirmed(c)
           /\ \A h, g \in DOMAIN c : \A t : t \in ToSet(c[h]) /\ t \in ToSet(c[g]) => h = g
           /\ \A h \in DOMAIN c : \A t \in ToSet(c[h]) : HeightOf(c, t) = h
<1>1. c \in Seq(Seq(Txs)) /\ \A h \in DOMAIN c : ValidBlock(SubSeq(c, 1, h - 1), c[h])
    BY DEF ChainValid
<1>2. \A h \in DOMAIN c : h \in Nat /\ c[h] \in Seq(Txs)
    BY <1>1
<1>3. Confirmed(c) \subseteq Txs
    BY <1>2 DEF Confirmed, ToSet
<1>4. ASSUME NEW t \in Confirmed(c), NEW o \in Ins[t] PROVE o[1] \in Confirmed(c)
  <2>1. PICK h \in DOMAIN c : \E i \in DOMAIN c[h] : t = c[h][i]
    BY DEF Confirmed, ToSet
  <2>2. PICK i \in DOMAIN c[h] : t = c[h][i]
    BY <2>1
  <2> DEFINE s == SubSeq(c, 1, h - 1)
             b == c[h]
  <2>3. s \in Seq(Seq(Txs)) /\ b \in Seq(Txs) /\ Confirmed(s) \subseteq Confirmed(c) /\ ToSet(b) \subseteq Confirmed(c)
        /\ ValidBlock(s, b)
    BY <1>1, ConfirmedBelow
  <2> HIDE DEF s, b
  <2>4. i \in DOMAIN b /\ o \in Ins[b[i]]
    BY <2>2 DEF b
  <2>5. o[1] \in Confirmed(s) \cup {b[j] : j \in 1..(i - 1)}
    BY <2>3, <2>4, ValidTx
  <2>6. \A j \in 1..(i - 1) : j \in DOMAIN b
    BY <2>3, <2>4
  <2>. QED BY <2>3, <2>5, <2>6 DEF ToSet
<1>5. ASSUME NEW h \in DOMAIN c, NEW g \in DOMAIN c, g < h, NEW t, t \in ToSet(c[h]), t \in ToSet(c[g])
      PROVE  FALSE
  <2>1. PICK i \in DOMAIN c[h] : t = c[h][i]
    BY <1>5 DEF ToSet
  <2> DEFINE s == SubSeq(c, 1, h - 1)
             b == c[h]
  <2>2. s \in Seq(Seq(Txs)) /\ b \in Seq(Txs) /\ ToSet(c[g]) \subseteq Confirmed(s) /\ ValidBlock(s, b)
    BY <1>1, <1>5, ConfirmedBelow
  <2> HIDE DEF s, b
  <2>3. i \in DOMAIN b /\ t = b[i]
    BY <2>1 DEF b
  <2>4. t \notin Confirmed(s)
    BY <2>2, <2>3, ValidTx
  <2>. QED BY <1>5, <2>2, <2>4
<1>6. ASSUME NEW h \in DOMAIN c, NEW g \in DOMAIN c, NEW t, t \in ToSet(c[h]), t \in ToSet(c[g])
      PROVE  h = g
  <2>1. h \in Nat /\ g \in Nat
    BY <1>2
  <2>2. ~(g < h) /\ ~(h < g)
    BY <1>5, <1>6
  <2>. QED BY <2>1, <2>2
<1>7. ASSUME NEW h \in DOMAIN c, NEW t \in ToSet(c[h]) PROVE HeightOf(c, t) = h
  <2>1. HeightOf(c, t) \in DOMAIN c /\ t \in ToSet(c[HeightOf(c, t)])
    BY Zenon DEF HeightOf
  <2>. QED BY <1>6, <2>1
<1>. QED BY <1>3, <1>4, <1>6, <1>7

\* Connecting a valid block.
LEMMA ChainAppend ==
    ASSUME NEW c, ChainValid(c), NEW b \in Seq(Txs), ValidBlock(c, b)
    PROVE  ChainValid(Append(c, b)) /\ Len(Append(c, b)) = Len(c) + 1
<1> DEFINE d == Append(c, b)
<1>1. c \in Seq(Seq(Txs)) /\ \A h \in DOMAIN c : ValidBlock(SubSeq(c, 1, h - 1), c[h])
    BY DEF ChainValid
<1>1a. c \in Seq(Seq(Txs))
    BY <1>1
<1>2. d \in Seq(Seq(Txs)) /\ Len(d) = Len(c) + 1 /\ d # <<>> /\ Len(c) \in Nat /\ DOMAIN d = 1..(Len(c) + 1)
    BY <1>1a, AppendProperties
<1>3. d[Len(c) + 1] = b /\ \A h \in 1..Len(c) : d[h] = c[h]
    BY <1>1a
<1>4. ASSUME NEW h \in 1..(Len(c) + 1) PROVE SubSeq(d, 1, h - 1) = SubSeq(c, 1, h - 1)
  <2> DEFINE n == h - 1
  <2>0. n \in Int /\ 1 \in Int /\ n \in 0..Len(c)
    <3>1. Len(c) \in Nat
        BY <1>2
    <3>. QED BY <3>1
  <2> HIDE DEF n, d
  <2>1. \A i \in 1..n : d[i] = c[i] /\ c[i] \in Seq(Txs)
    BY <1>1, <1>2, <1>3, <2>0
  <2>2. /\ SubSeq(d, 1, n) \in Seq(Seq(Txs)) /\ SubSeq(c, 1, n) \in Seq(Seq(Txs))
        /\ Len(SubSeq(d, 1, n)) = (IF 1 <= n THEN n - 1 + 1 ELSE 0)
        /\ Len(SubSeq(c, 1, n)) = (IF 1 <= n THEN n - 1 + 1 ELSE 0)
        /\ \A i \in 1..(n - 1 + 1) : SubSeq(d, 1, n)[i] = d[1 + i - 1] /\ SubSeq(c, 1, n)[i] = c[1 + i - 1]
    BY <2>0, <2>1, SubSeqProperties
  <2>3. Len(SubSeq(d, 1, n)) = n /\ Len(SubSeq(c, 1, n)) = n
    BY <2>0, <2>2
  <2>4. \A i \in 1..n : SubSeq(d, 1, n)[i] = SubSeq(c, 1, n)[i]
    BY <2>0, <2>1, <2>2
  <2>5. SubSeq(d, 1, n) = SubSeq(c, 1, n)
    BY <2>2, <2>3, <2>4, SeqEqual
  <2>. QED BY <2>5 DEF n
<1>5. SubSeq(c, 1, Len(c)) = c
    BY <1>1
<1> HIDE DEF d
<1>6. ASSUME NEW h \in DOMAIN d PROVE ValidBlock(SubSeq(d, 1, h - 1), d[h])
  <2>1. CASE h = Len(c) + 1
    <3>1. h - 1 = Len(c)
        BY <1>2, <2>1
    <3>2. SubSeq(d, 1, h - 1) = c
        BY <1>2, <1>4, <1>5, <3>1
    <3>. QED BY <1>3, <2>1, <3>2
  <2>2. CASE h # Len(c) + 1
    <3>1. h \in 1..Len(c) /\ h \in DOMAIN c
        BY <1>1, <1>2, <2>2
    <3>2. SubSeq(d, 1, h - 1) = SubSeq(c, 1, h - 1) /\ d[h] = c[h]
        BY <1>2, <1>3, <1>4, <3>1
    <3>. QED BY <1>1, <3>1, <3>2
  <2>. QED BY <2>1, <2>2
<1>. QED BY <1>2, <1>6 DEF ChainValid, d

\* Disconnecting the tip.
LEMMA ChainFront ==
    ASSUME NEW c, ChainValid(c), Len(c) > 1
    PROVE  /\ ChainValid(Front(c))
           /\ Last(c) \in Seq(Txs)
           /\ Confirmed(c) = Confirmed(Front(c)) \cup ToSet(Last(c))
<1> DEFINE d == Front(c)
           b == Last(c)
<1>1. c \in Seq(Seq(Txs)) /\ \A h \in DOMAIN c : ValidBlock(SubSeq(c, 1, h - 1), c[h])
    BY DEF ChainValid
<1>2. Len(c) \in Nat /\ DOMAIN c = 1..Len(c)
    BY <1>1
<1>3. d \in Seq(Seq(Txs)) /\ Len(d) = Len(c) - 1 /\ DOMAIN d = 1..(Len(c) - 1) /\ d # <<>>
    BY <1>1, <1>2 DEF Front
<1>4. b \in Seq(Txs)
    BY <1>1, <1>2 DEF Last
<1>5. ASSUME NEW h \in 1..(Len(c) - 1) PROVE d[h] = c[h] /\ SubSeq(d, 1, h - 1) = SubSeq(c, 1, h - 1)
    BY <1>1, <1>2 DEF Front
<1>6. c = Append(d, b)
    BY <1>1, <1>2 DEF Front, Last
<1> HIDE DEF d, b
<1>7. ASSUME NEW h \in DOMAIN d PROVE ValidBlock(SubSeq(d, 1, h - 1), d[h])
  <2>1. h \in 1..(Len(c) - 1) /\ h \in DOMAIN c
    BY <1>2, <1>3
  <2>2. ValidBlock(SubSeq(c, 1, h - 1), c[h])
    BY <1>1, <2>1
  <2>3. d[h] = c[h] /\ SubSeq(d, 1, h - 1) = SubSeq(c, 1, h - 1)
    BY <1>5, <2>1
  <2>. QED BY <2>2, <2>3
<1>8. Confirmed(c) = Confirmed(d) \cup ToSet(b)
    BY <1>3, <1>4, <1>6, ConfirmedAppend
<1>. QED BY <1>3, <1>4, <1>7, <1>8 DEF ChainValid, d, b

-----------------------------------------------------------------------------
(* The pool and the chain.                                                 *)

\* q is what is left of the pool p after the first k transactions of b are mined on c.
Cleared(p, c, b, k, q) ==
    /\ PoolShape(q)
    /\ InPool(q) \subseteq InPool(p)
    /\ \A i \in 1..k : b[i] \notin InPool(q) /\ \A y \in InPool(q) : Ins[y] \cap Ins[b[i]] = {}
    /\ \A y \in InPool(q) : \A o \in Ins[y] :
          o[1] \in InPool(q) \/ (\E i \in 1..k : o[1] = b[i]) \/ o \in Unspent(c)

\* The next transaction of the block: its parents left the pool before it.
LEMMA BlockStepClears ==
    ASSUME NEW p, NEW c \in Seq(Seq(Txs)), InPool(p) \cap Confirmed(c) = {},
           NEW b \in Seq(Txs), ValidBlock(c, b),
           NEW k \in Nat, k + 1 \in DOMAIN b, NEW q, Cleared(p, c, b, k, q)
    PROVE  Cleared(p, c, b, k + 1, BlockStep(q, b[k + 1]))
<1> DEFINE t == b[k + 1]
           r == IF t \in InPool(q) THEN RemoveStaged(q, {t}, TRUE) ELSE q
           s == removeConflicts(r, t)
           u == ClearPrioritisation(s, t)
<1>1. /\ PoolShape(q) /\ InPool(q) \subseteq InPool(p)
      /\ \A i \in 1..k : b[i] \notin InPool(q) /\ \A y \in InPool(q) : Ins[y] \cap Ins[b[i]] = {}
      /\ \A y \in InPool(q) : \A o \in Ins[y] :
          o[1] \in InPool(q) \/ (\E i \in 1..k : o[1] = b[i]) \/ o \in Unspent(c)
    BY DEF Cleared
<1>2. t \in Txs
    OBVIOUS
<1>3. Parents(InPool(q), t) = {}
  <2>1. (k + 1) - 1 = k
    OBVIOUS
  <2>2. \A o \in Ins[t] : o[1] \in Confirmed(c) \cup {b[j] : j \in 1..k}
    <3>1. \A o \in Ins[b[k + 1]] : o[1] \in Confirmed(c) \cup {b[j] : j \in 1..((k + 1) - 1)}
        BY ValidTx
    <3>. QED BY <2>1, <3>1
  <2> HIDE DEF t
  <2>. QED BY <1>1, <2>2 DEF Parents, Spends
<1>4. BlockStep(q, t) = u
    BY DEF BlockStep
<1> HIDE DEF t
<1>5. PoolShape(r) /\ InPool(r) = InPool(q) \ {t}
  <2>1. CASE t \in InPool(q)
    <3>1. r = RemoveStaged(q, {t}, TRUE)
        BY <2>1
    <3>2. \A x \in InPool(q) : ~Spends(t, x)
        BY <1>3 DEF Parents
    <3> HIDE DEF r
    <3>. QED BY <1>1, <2>1, <3>1, <3>2, RemoveMined
  <2>2. CASE t \notin InPool(q)
    BY <1>1, <2>2
  <2>. QED BY <2>1, <2>2
<1> HIDE DEF r
<1>6. Trimmed(r, s) /\ \A y \in InPool(s) : y # t => Ins[y] \cap Ins[t] = {}
    BY <1>2, <1>5, ConflictsShape
<1> HIDE DEF s
<1>7. PoolShape(s) /\ InPool(s) \subseteq InPool(r) /\ t \notin InPool(s)
    BY <1>5, <1>6 DEF Trimmed
<1>8. PoolShape(u) /\ InPool(u) = InPool(s)
    BY <1>2, <1>7, ClearShape
<1> HIDE DEF u
<1>9. InPool(u) \subseteq InPool(q) /\ t \notin InPool(u)
    BY <1>5, <1>7, <1>8
<1>10. 1..(k + 1) = (1..k) \cup {k + 1}
    OBVIOUS
<1>11. ASSUME NEW i \in 1..(k + 1)
       PROVE  b[i] \notin InPool(u) /\ \A y \in InPool(u) : Ins[y] \cap Ins[b[i]] = {}
  <2>1. CASE i \in 1..k
    BY <1>1, <1>9, <2>1
  <2>2. CASE i = k + 1
    <3>1. b[i] = t
        BY <2>2 DEF t
    <3>. QED BY <1>6, <1>8, <1>9, <3>1
  <2>. QED BY <1>10, <2>1, <2>2
<1>12. ASSUME NEW y \in InPool(u), NEW o \in Ins[y]
       PROVE  o[1] \in InPool(u) \/ (\E i \in 1..(k + 1) : o[1] = b[i]) \/ o \in Unspent(c)
  <2>1. CASE o[1] \in InPool(q)
    <3>1. CASE o[1] = t
      <4>1. k + 1 \in 1..(k + 1)
        OBVIOUS
      <4>. QED BY <3>1, <4>1 DEF t
    <3>2. CASE o[1] # t
      <4>1. o[1] \in InPool(r) /\ y \in InPool(s)
        BY <1>5, <1>8, <2>1, <3>2
      <4>2. o[1] \in InPool(s)
        BY <1>5, <1>6, <4>1, TrimmedInputs
      <4>. QED BY <1>8, <4>2
    <3>. QED BY <3>1, <3>2
  <2>2. CASE \E i \in 1..k : o[1] = b[i]
    BY <1>10, <2>2
  <2>3. CASE o \in Unspent(c)
    BY <2>3
  <2>. QED BY <1>1, <1>9, <2>1, <2>2, <2>3
<1>13. Cleared(p, c, b, k + 1, u)
    BY <1>1, <1>8, <1>9, <1>11, <1>12 DEF Cleared
<1>. QED BY <1>4, <1>13 DEF t

\* A pool that fits the chain fits it with one more block, after removeForBlock.
LEMMA ConnectPool ==
    ASSUME NEW p, NEW c, PoolShape(p), PoolFits(p, c), ChainValid(c), NEW b \in Seq(Txs), ValidBlock(c, b),
           NEW q, q = removeForBlock(p, b)
    PROVE  /\ PoolShape(q)
           /\ InPool(q) \subseteq InPool(p)
           /\ PoolFits(q, Append(c, b))
<1>1. PICK g : /\ removeForBlock(p, b) = g[Len(b)]
               /\ g[0] = p
               /\ \A k \in 1..Len(b) : g[k] = BlockStep(g[k - 1], b[k])
    BY BlockFold
<1>2. c \in Seq(Seq(Txs)) /\ InPool(p) \cap Confirmed(c) = {} /\ Len(b) \in Nat /\ DOMAIN b = 1..Len(b)
    BY DEF ChainValid, PoolFits
<1> DEFINE Bad == {k \in Nat : k <= Len(b) /\ ~Cleared(p, c, b, k, g[k])}
<1>3. Cleared(p, c, b, 0, g[0])
  <2>1. \A i \in 1..0 : FALSE
    OBVIOUS
  <2>. QED BY <1>1, <2>1 DEF Cleared, PoolFits, InputsThere
<1>4. ASSUME Bad # {} PROVE FALSE
  <2>1. PICK n \in Bad : \A m \in Bad : n <= m
    BY <1>4, LeastNat
  <2>2. n \in Nat /\ n <= Len(b) /\ ~Cleared(p, c, b, n, g[n])
    BY <2>1
  <2>3. n # 0
    BY <1>3, <2>2
  <2> DEFINE k == n - 1
  <2>4. k \in Nat /\ k + 1 = n /\ k < n /\ k <= Len(b) /\ n \in 1..Len(b)
    BY <1>2, <2>2, <2>3
  <2>5. g[n] = BlockStep(g[k], b[n])
    BY <1>1, <2>4
  <2> HIDE DEF k
  <2>6. Cleared(p, c, b, k, g[k])
    <3>1. k \notin Bad
        BY <2>1, <2>2, <2>4
    <3>. QED BY <2>4, <3>1
  <2>7. k + 1 \in DOMAIN b
    BY <1>2, <2>4
  <2>8. Cleared(p, c, b, k + 1, BlockStep(g[k], b[k + 1]))
    BY <1>2, <2>4, <2>6, <2>7, BlockStepClears
  <2>. QED BY <2>2, <2>4, <2>5, <2>8
<1>5. Cleared(p, c, b, Len(b), q)
  <2>1. Len(b) \notin Bad
    BY <1>4
  <2>. QED BY <1>1, <1>2, <2>1
<1> HIDE DEF Bad
<1>6. /\ PoolShape(q) /\ InPool(q) \subseteq InPool(p)
      /\ \A i \in 1..Len(b) : b[i] \notin InPool(q) /\ \A y \in InPool(q) : Ins[y] \cap Ins[b[i]] = {}
      /\ \A y \in InPool(q) : \A o \in Ins[y] :
          o[1] \in InPool(q) \/ (\E i \in 1..Len(b) : o[1] = b[i]) \/ o \in Unspent(c)
    BY <1>5 DEF Cleared
<1> DEFINE d == Append(c, b)
<1>7. Confirmed(d) = Confirmed(c) \cup ToSet(b)
    BY <1>2, ConfirmedAppend
<1>8. \A x \in ToSet(b) : \E i \in 1..Len(b) : x = b[i]
    BY <1>2 DEF ToSet
<1>9. \A i \in 1..Len(b) : b[i] \in ToSet(b) /\ b[i] \notin Confirmed(c)
  <2>1. \A i \in DOMAIN b : b[i] \notin Confirmed(c)
    BY <1>2, ValidTx
  <2>. QED BY <1>2, <2>1 DEF ToSet
<1> HIDE DEF d
<1>10. ASSUME NEW y \in InPool(q), NEW o \in Ins[y], o[1] \notin InPool(q) PROVE o \in Unspent(d)
  <2>1. o \in OutPoints
    <3>1. y \in Txs
        BY <1>6, PoolGraph
    <3>. QED BY <3>1, TxAssumption
  <2>2. \A x \in ToSet(b) : o \notin Ins[x]
    BY <1>6, <1>8
  <2>3. CASE o \in Unspent(c)
    BY <1>7, <2>1, <2>2, <2>3 DEF Unspent
  <2>4. CASE \E i \in 1..Len(b) : o[1] = b[i]
    <3>1. o[1] \in ToSet(b) /\ o[1] \notin Confirmed(c)
        BY <1>9, <2>4
    <3>2. \A x \in Confirmed(c) : o \notin Ins[x]
        BY <3>1, ChainFacts
    <3>. QED BY <1>7, <2>1, <2>2, <3>1, <3>2 DEF Unspent
  <2>. QED BY <1>6, <1>10, <2>3, <2>4
<1>11. InputsThere(q, d)
    BY <1>10 DEF InputsThere
<1>12. InPool(q) \cap (Confirmed(d) \cup Coinbases) = {}
    BY <1>6, <1>7, <1>8 DEF PoolFits
<1>. QED BY <1>6, <1>11, <1>12 DEF PoolFits, d

\* Connecting a block makes no coinbase less mature.
LEMMA ConnectMature ==
    ASSUME NEW p, NEW c, PoolFits(p, c), ChainValid(c), NEW b \in Seq(Txs), ValidBlock(c, b),
           NEW t \in InPool(p), ~PrematureSpend(c, t)
    PROVE  ~PrematureSpend(Append(c, b), t)
<1> DEFINE d == Append(c, b)
<1>1. c \in Seq(Seq(Txs)) /\ Len(c) \in Nat /\ DOMAIN c = 1..Len(c)
    BY DEF ChainValid
<1>2. ChainValid(d) /\ Len(d) = Len(c) + 1
    BY ChainAppend
<1>3. DOMAIN d = 1..(Len(c) + 1) /\ \A h \in 1..Len(c) : d[h] = c[h]
    BY <1>1
<1>4. Confirmed(d) = Confirmed(c) \cup ToSet(b)
    BY <1>1, ConfirmedAppend
<1>5. \A x \in ToSet(b) : x \notin Confirmed(c)
    BY <1>1, ValidTx DEF ToSet
<1> HIDE DEF d
<1>s. SUFFICES ASSUME NEW o \in Ins[t], PrematureInput(d, o, Len(d) + 1) PROVE FALSE
    BY DEF PrematureSpend, d
<1>6. o[1] \in Coinbases /\ o[1] \in Confirmed(d) /\ (Len(d) + 1) - HeightOf(d, o[1]) \in 1..(Maturity - 1)
  <2>1. o[1] \in Coinbases \cap Confirmed(d)
    BY <1>s DEF PrematureInput
  <2>2. (Len(d) + 1) - HeightOf(d, o[1]) \in 1..(Maturity - 1)
    BY <1>s, Zenon DEF PrematureInput
  <2>. QED BY <2>1, <2>2
<1>7. o[1] \in Confirmed(c)
  <2>1. o[1] \in InPool(p) \/ o \in Unspent(c)
    BY DEF PoolFits, InputsThere
  <2>2. o[1] \notin InPool(p)
    BY <1>6 DEF PoolFits
  <2>. QED BY <2>1, <2>2 DEF Unspent
<1>8. PICK h \in DOMAIN c : o[1] \in ToSet(c[h])
    BY <1>7 DEF Confirmed
<1>9. HeightOf(c, o[1]) = h
    BY <1>8, ChainFacts
<1>10. HeightOf(d, o[1]) = h
  <2>1. h \in DOMAIN d /\ o[1] \in ToSet(d[h])
    BY <1>1, <1>3, <1>8
  <2>. QED BY <1>2, <2>1, ChainFacts
<1>11. h \in Nat /\ h >= 1 /\ h <= Len(c) /\ Len(c) \in Nat /\ Maturity \in Nat
    BY <1>1, BoundAssumption
<1>12. Len(c) + 1 - h \in 1..(Maturity - 1)
  <2>1. (Len(c) + 1) + 1 - h \in 1..(Maturity - 1)
    <3>1. Len(d) = Len(c) + 1
        BY <1>2
    <3> DEFINE x == (Len(d) + 1) - HeightOf(d, o[1])
    <3>2. x \in 1..(Maturity - 1)
        BY <1>6
    <3>3. x = (Len(c) + 1) + 1 - h
        BY <3>1, <1>10, <1>11
    <3> HIDE DEF x
    <3>. QED BY <3>2, <3>3, Zenon
  <2>. QED BY <1>11, <2>1
<1>13. PrematureInput(c, o, Len(c) + 1)
    BY <1>6, <1>7, <1>9, <1>12 DEF PrematureInput
<1>. QED BY <1>13 DEF PrematureSpend

\* A pool that fits the chain fits it without its last block, after what spends the
\* block was removed.
LEMMA DisconnectPool ==
    ASSUME NEW p, NEW c, PoolShape(p), PoolFits(p, c), ChainValid(c), Len(c) > 1,
           NEW q, q = FoldLeft(removeRecursive, p, Last(c))
    PROVE  Trimmed(p, q) /\ PoolFits(q, Front(c))
<1> DEFINE d == Front(c)
           b == Last(c)
<1>1. b \in Seq(Txs) /\ Confirmed(c) = Confirmed(d) \cup ToSet(b)
    BY ChainFront
<1> HIDE DEF d, b
<1>2. Trimmed(p, q) /\ \A y \in InPool(q) : \A i \in DOMAIN b : ~Spends(y, b[i])
    BY <1>1, DisconnectShape DEF b
<1>3. InPool(q) \subseteq InPool(p)
    BY <1>2 DEF Trimmed
<1>4. ASSUME NEW y \in InPool(q), NEW o \in Ins[y], o[1] \notin InPool(q) PROVE o \in Unspent(d)
  <2>1. o \in Unspent(c)
    <3>1. o[1] \in InPool(p) \/ o \in Unspent(c)
        BY <1>3 DEF PoolFits, InputsThere
    <3>. QED BY <1>2, <1>4, <3>1, TrimmedInputs
  <2>2. o[1] \notin ToSet(b)
    BY <1>2 DEF ToSet, Spends
  <2>. QED BY <1>1, <2>1, <2>2 DEF Unspent
<1>5. InputsThere(q, d)
    BY <1>4 DEF InputsThere
<1>6. InPool(q) \cap (Confirmed(d) \cup Coinbases) = {}
    BY <1>1, <1>3 DEF PoolFits
<1>. QED BY <1>2, <1>5, <1>6 DEF PoolFits, d

\* Removing with all descendants keeps a pool fit.
LEMMA TrimmedFits ==
    ASSUME NEW p, NEW q, NEW c, PoolShape(p), Trimmed(p, q), PoolFits(p, c)
    PROVE  PoolFits(q, c)
<1>1. InPool(q) \subseteq InPool(p)
    BY DEF Trimmed
<1>2. ASSUME NEW y \in InPool(q), NEW o \in Ins[y], o[1] \notin InPool(q) PROVE o \in Unspent(c)
  <2>1. o[1] \in InPool(p) \/ o \in Unspent(c)
    BY <1>1 DEF PoolFits, InputsThere
  <2>. QED BY <1>2, <2>1, TrimmedInputs
<1>. QED BY <1>1, <1>2 DEF PoolFits, InputsThere

\* After removeForReorg nothing spends an immature coinbase.
LEMMA ReorgMature ==
    ASSUME NEW p, NEW c, PoolShape(p), PoolFits(p, c)
    PROVE  /\ Trimmed(p, removeForReorg(p, c))
           /\ \A t \in InPool(removeForReorg(p, c)) : ~PrematureSpend(c, t)
<1> DEFINE q == removeForReorg(p, c)
<1>1. /\ Trimmed(p, q)
      /\ \A t \in InPool(q) : \A o \in Ins[t] :
            ~(o[1] \in Coinbases /\ o[1] \notin InPool(p) /\ PrematureInput(c, o, Len(c) + 1))
    BY ReorgShape
<1> HIDE DEF q
<1>2. ASSUME NEW t \in InPool(q), NEW o \in Ins[t], PrematureInput(c, o, Len(c) + 1) PROVE FALSE
  <2>1. o[1] \in Coinbases /\ o[1] \notin InPool(p)
    BY <1>2 DEF PrematureInput, PoolFits
  <2>. QED BY <1>1, <1>2, <2>1
<1>3. \A t \in InPool(q) : ~PrematureSpend(c, t)
    BY <1>2 DEF PrematureSpend
<1>. QED BY <1>1, <1>3 DEF q

-----------------------------------------------------------------------------
(* AcceptToMemoryPool.                                                     *)

\* Finite and not larger than before.
LEMMA TrimmedSize ==
    ASSUME NEW p, NEW q, PoolShape(p), Trimmed(p, q), NEW n \in Int, Cardinality(InPool(p)) <= n
    PROVE  Cardinality(InPool(q)) <= n /\ Cardinality(InPool(q)) \in Nat /\ IsFiniteSet(InPool(q))
<1>1. IsFiniteSet(InPool(p)) /\ InPool(q) \subseteq InPool(p)
    BY PoolGraph DEF Trimmed
<1>2. IsFiniteSet(InPool(q)) /\ Cardinality(InPool(q)) <= Cardinality(InPool(p))
    BY <1>1, FS_Subset
<1>3. Cardinality(InPool(q)) \in Nat /\ Cardinality(InPool(p)) \in Nat
    BY <1>1, <1>2, FS_CardinalityType
<1>. QED BY <1>2, <1>3

\* A pool p that may be seen while the chain is c.
GoodPool(p, c) ==
    /\ PoolShape(p)
    /\ PoolFits(p, c)

\* A good pool stays good when transactions leave with their descendants.
LEMMA TrimmedGood ==
    ASSUME NEW p, NEW q, NEW c, GoodPool(p, c), Trimmed(p, q)
    PROVE  GoodPool(q, c)
    BY TrimmedFits DEF GoodPool, Trimmed

\* Nothing spends a transaction that is new.
LEMMA NobodySpendsNew ==
    ASSUME NEW p, PoolShape(p), PoolFits(p, chain), NEW t \in Txs,
           NewAndStandard(p, t), NEW y \in InPool(p)
    PROVE  ~Spends(y, t)
<1> SUFFICES ASSUME NEW o \in Ins[y], o[1] = t PROVE FALSE
    BY DEF Spends
<1>1. o[1] \in InPool(p) \/ o \in Unspent(chain)
    BY DEF PoolFits, InputsThere
<1>. QED BY <1>1 DEF NewAndStandard, HaveCoins

\* A transaction that passes all checks is added to a good pool, which stays good.
LEMMA AcceptedGood ==
    ASSUME NEW p, GoodPool(p, chain), ChainValid(chain), NEW t \in Txs, ReachesCheckInputs(p, t),
           NEW a, a = Accepted(p, t)
    PROVE  /\ GoodPool(a, chain)
           /\ t \in InPool(a)
           /\ InPool(a) \subseteq InPool(p) \cup {t}
           /\ ~PrematureSpend(chain, t)
<1> DEFINE P == InPool(p)
           C == setConflicts(p, t)
           D == Below(P, C)
           A == Above(P, Parents(P, t))
           r == RemoveStaged(p, D, FALSE)
           R == P \ D
<1>1. PoolShape(p) /\ PoolFits(p, chain)
    BY DEF GoodPool
<1>2. /\ NewAndStandard(p, t) /\ InputsAvailable(p, t) /\ ~SpendsConflict(p, t) /\ ~PrematureSpend(chain, t)
      /\ t \notin P /\ t \notin Coinbases
    BY DEF ReachesCheckInputs, ReachesConflictCheck, NewAndStandard
<1>3. C = {y \in P : Ins[y] \cap Ins[t] # {}}
    BY <1>1, SpendersFound DEF setConflicts
<1>4. SearchParents(p, t) = Parents(P, t)
    BY TxAssumption DEF SearchParents, Parents, Spends
<1>5. CalculateDescendants(p, C) = D /\ CalculateMemPoolAncestors(p, SearchParents(p, t)) = A
    BY <1>1, <1>4, PoolGraph
<1>6. Parents(P, t) \in SUBSET P /\ C \in SUBSET P
    BY <1>3 DEF Parents
<1>7. A \in SUBSET P /\ ParentClosed(P, A) /\ Parents(P, t) \subseteq A
    BY <1>6, AboveFacts
<1>8. C \cap A = {}
    BY <1>2, <1>5 DEF SpendsConflict
<1> HIDE DEF C
<1>9. D \in SUBSET P /\ ChildClosed(P, D) /\ C \subseteq D
    BY <1>6, BelowFacts
<1>10. D \cap A = {}
    BY <1>6, <1>7, <1>8, BelowDisjoint
<1>11. a = addUnchecked(r, t, A)
    BY <1>5 DEF Accepted, C
<1>12. PoolShape(r) /\ InPool(r) = R
    BY <1>1, <1>9, RemoveClosed
<1>13. Trimmed(p, r)
  <2>1. P \ R = D
    BY <1>9
  <2> HIDE DEF r, D
  <2>. QED BY <1>9, <1>12, <2>1 DEF Trimmed
<1> HIDE DEF r
<1>14. A = Above(InPool(r), Parents(InPool(r), t))
  <2>1. Parents(R, t) = Parents(P, t) /\ Parents(P, t) \in SUBSET R
    BY <1>7, <1>10 DEF Parents
  <2>2. \A S \in SUBSET R : Above(R, S) = Above(P, S)
    <3> HIDE DEF D
    <3>. QED BY <1>9, RemoveBelow
  <2> HIDE DEF R
  <2>. QED BY <1>12, <2>1, <2>2
<1>15. ASSUME NEW y \in InPool(r) \cup {t} PROVE ~Spends(y, t)
  <2>1. CASE y \in InPool(r)
    <3>1. y \in P
        BY <1>12, <2>1
    <3>. QED BY <1>1, <1>2, <3>1, NobodySpendsNew
  <2>2. CASE y = t
    <3> SUFFICES ASSUME NEW o \in Ins[t], o[1] = t PROVE FALSE
        BY <2>2 DEF Spends
    <3>1. o \in Unspent(chain)
        BY <1>2 DEF InputsAvailable
    <3>. QED BY <1>2, <3>1 DEF NewAndStandard, HaveCoins
  <2>. QED BY <2>1, <2>2
<1>16. \A y \in InPool(r) : Ins[y] \cap Ins[t] = {}
    BY <1>3, <1>9, <1>12
<1>17. t \notin InPool(r)
    BY <1>2, <1>12
<1> HIDE DEF A
<1>18. PoolShape(a) /\ InPool(a) = InPool(r) \cup {t}
  <2> HIDE DEF P, R
  <2>1. PoolShape(r)
    BY <1>12
  <2>2. \A y \in InPool(r) \cup {t} : ~Spends(y, t)
    BY <1>15
  <2>. QED BY <1>11, <1>14, <1>16, <1>17, <2>1, <2>2, AddShape
<1>19. PoolFits(r, chain)
    BY <1>1, <1>13, TrimmedFits
<1>20. t \notin Confirmed(chain)
  <2> SUFFICES ASSUME t \in Confirmed(chain) PROVE FALSE
    OBVIOUS
  <2>1. PICK o \in Ins[t] : TRUE
    BY <1>2, TxAssumption
  <2>2. o \notin Unspent(chain)
    BY DEF Unspent
  <2>3. o[1] \in P
    BY <1>2, <2>2 DEF InputsAvailable
  <2>4. o[1] \in Confirmed(chain)
    BY ChainFacts
  <2>. QED BY <1>1, <2>3, <2>4 DEF PoolFits
<1>21. ASSUME NEW o \in Ins[t] PROVE o[1] \in InPool(a) \/ o \in Unspent(chain)
  <2>1. CASE o[1] \in P
    <3>1. o[1] \in Parents(P, t)
        BY <2>1 DEF Parents, Spends
    <3>2. o[1] \in R
        BY <1>7, <1>10, <2>1, <3>1
    <3>. QED BY <1>12, <1>18, <3>2
  <2>2. CASE o[1] \notin P
    BY <1>2, <2>2 DEF InputsAvailable
  <2>. QED BY <2>1, <2>2
<1>22. InputsThere(a, chain)
    BY <1>18, <1>19, <1>21 DEF PoolFits, InputsThere
<1>23. InPool(a) \cap (Confirmed(chain) \cup Coinbases) = {}
    BY <1>2, <1>18, <1>19, <1>20 DEF PoolFits
<1>. QED BY <1>2, <1>12, <1>18, <1>22, <1>23 DEF GoodPool, PoolFits

\* What a call of AcceptToMemoryPool does to a pool.
Outcome(p, t, r) ==
    /\ GoodPool(r.pool, chain)
    /\ Cardinality(InPool(r.pool)) <= MaxPool
    /\ InPool(r.pool) \subseteq InPool(p) \cup {t}
    /\ r.verdict = "ok" => /\ t \in InPool(r.pool)
                           /\ \A y \in InPool(p) : ~Spends(y, t)
    /\ r.verdict # "ok" => InPool(r.pool) \subseteq InPool(p)
    /\ t \in InPool(p) \/ t \notin InPool(r.pool) \/ ~PrematureSpend(chain, t)
    /\ r.verdict = "missing" => r.pool = p /\ MissingInputs(p, t)

\* A refusal changes nothing.
LEMMA RefusalOutcome ==
    ASSUME NEW p, GoodPool(p, chain), Cardinality(InPool(p)) <= MaxPool, NEW t, NEW r,
           \/ r = Verdict("dos", p) \/ r = Verdict("invalid", p)
           \/ r = Verdict("missing", p) /\ MissingInputs(p, t)
    PROVE  Outcome(p, t, r)
<1>1. r.pool = p /\ r.verdict # "ok" /\ (r.verdict = "missing" => MissingInputs(p, t))
    BY DEF Verdict
<1>. QED BY <1>1 DEF Outcome

\* So does every way it may return.
LEMMA AcceptOutcome ==
    ASSUME NEW p, GoodPool(p, chain), ChainValid(chain), Cardinality(InPool(p)) <= MaxPool,
           NEW t \in Txs, NEW r \in AcceptToMemoryPool(p, t)
    PROVE  Outcome(p, t, r)
<1>1. \/ r = Verdict("dos", p) \/ r = Verdict("invalid", p)
      \/ r = Verdict("missing", p) /\ MissingInputs(p, t)
      \/ /\ ReachesCheckInputs(p, t)
         /\ \E q \in LimitMempoolSize(Accepted(p, t), {t}) :
               r = Verdict(IF t \in InPool(q) THEN "ok" ELSE "invalid", q)
    BY DEF AcceptToMemoryPool
<1>2. CASE /\ ReachesCheckInputs(p, t)
           /\ \E q \in LimitMempoolSize(Accepted(p, t), {t}) :
               r = Verdict(IF t \in InPool(q) THEN "ok" ELSE "invalid", q)
  <2>1. PICK q \in LimitMempoolSize(Accepted(p, t), {t}) :
               r = Verdict(IF t \in InPool(q) THEN "ok" ELSE "invalid", q)
    BY <1>2
  <2> DEFINE a == Accepted(p, t)
  <2>2. GoodPool(a, chain) /\ t \in InPool(a) /\ InPool(a) \subseteq InPool(p) \cup {t}
        /\ ~PrematureSpend(chain, t)
    BY <1>2, AcceptedGood
  <2> HIDE DEF a
  <2>3. PoolShape(a) /\ PoolShape(p)
    BY <2>2 DEF GoodPool
  <2>4. Cardinality(InPool(a)) <= MaxPool + 1
    <3>1. IsFiniteSet(InPool(p)) /\ IsFiniteSet(InPool(p) \cup {t})
        BY <2>3, PoolGraph, FS_AddElement
    <3>2. Cardinality(InPool(p) \cup {t}) <= Cardinality(InPool(p)) + 1
      <4>1. CASE t \in InPool(p)
        <5>1. InPool(p) \cup {t} = InPool(p)
            BY <4>1
        <5>2. Cardinality(InPool(p)) \in Nat
            BY <3>1, FS_CardinalityType
        <5>3. Cardinality(InPool(p)) <= Cardinality(InPool(p)) + 1
            BY <5>2
        <5>4. Cardinality(InPool(p) \cup {t}) = Cardinality(InPool(p))
            BY <5>1, Zenon
        <5>. QED BY <5>3, <5>4
      <4>2. CASE t \notin InPool(p)
        <5>1. Cardinality(InPool(p) \cup {t}) = Cardinality(InPool(p)) + 1 /\ Cardinality(InPool(p)) \in Nat
            BY <3>1, <4>2, FS_AddElement, FS_CardinalityType
        <5>. QED BY <5>1
      <4>. QED BY <4>1, <4>2
    <3>3. Cardinality(InPool(a)) <= Cardinality(InPool(p) \cup {t}) /\ IsFiniteSet(InPool(a))
        BY <2>2, <3>1, FS_Subset
    <3>4. Cardinality(InPool(a)) \in Nat /\ Cardinality(InPool(p)) \in Nat /\ Cardinality(InPool(p) \cup {t}) \in Nat
        BY <3>1, <3>3, FS_CardinalityType
    <3>. QED BY <3>2, <3>3, <3>4, BoundAssumption
  <2>5. Trimmed(a, q) /\ Cardinality(InPool(q)) <= MaxPool
    BY <2>1, <2>3, <2>4, LimitShape DEF a
  <2>6. GoodPool(q, chain) /\ InPool(q) \subseteq InPool(p) \cup {t}
    BY <2>2, <2>5, TrimmedGood DEF Trimmed
  <2>7. \A y \in InPool(p) : ~Spends(y, t)
    BY <1>2, NobodySpendsNew DEF GoodPool, ReachesCheckInputs, ReachesConflictCheck
  <2>8. r.pool = q /\ r.verdict = IF t \in InPool(q) THEN "ok" ELSE "invalid"
    BY <2>1 DEF Verdict
  <2>. QED BY <2>2, <2>5, <2>6, <2>7, <2>8 DEF Outcome
<1>. QED BY <1>1, <1>2, RefusalOutcome

-----------------------------------------------------------------------------
(* The pool: PoolInv is inductive.                                         *)

\* The empty pool and the chain of the genesis block.
LEMMA PoolInit ==
    ASSUME Init
    PROVE  PoolInv
<1>1. pool = EmptyPool /\ chain = <<GenesisBlock>>
    BY DEF Init
<1>2. pool.mapTx = {} /\ pool.mapNextTx = {} /\ pool.mapDeltas = [t \in Txs |-> 0]
      /\ pool \in [mapTx : SUBSET Entries, mapNextTx : SUBSET [prevout : OutPoints, tx : Txs],
                   mapDeltas : [Txs -> Int]]
    BY <1>1 DEF EmptyPool
<1>3. InPool(pool) = {}
    BY <1>2 DEF InPool
<1>4. PoolShape(pool)
    BY <1>2, <1>3 DEF PoolShape, Indexed, Totalled
<1>5. PoolFits(pool, chain)
    BY <1>3 DEF PoolFits, InputsThere
<1>6. Cardinality(InPool(pool)) <= MaxPool
    BY <1>3, FS_EmptySet, BoundAssumption
<1>7. ChainValid(chain)
  <2>1. GenesisBlock \in Seq(Txs) /\ ValidBlock(<<>>, GenesisBlock)
    BY GenesisAssumption
  <2>2. chain \in Seq(Seq(Txs)) /\ chain # <<>> /\ DOMAIN chain = {1} /\ chain[1] = GenesisBlock
    BY <1>1, <2>1
  <2>3. SubSeq(chain, 1, 1 - 1) = <<>>
    BY <1>1, <2>1
  <2>. QED BY <2>1, <2>2, <2>3 DEF ChainValid
<1>. QED BY <1>3, <1>4, <1>5, <1>6, <1>7 DEF PoolInv

\* Steps that leave the pool and the chain alone.
LEMMA PoolKept ==
    ASSUME PoolInv, pool' = pool, chain' = chain
    PROVE  PoolInv'
    BY DEF PoolInv

\* Steps that call AcceptToMemoryPool.
LEMMA PoolOffered ==
    ASSUME PoolInv, NEW t, NEW r, Outcome(pool, t, r),
           pool' = r.pool, chain' = chain
    PROVE  PoolInv'
    BY DEF PoolInv, Outcome, GoodPool

\* What such a call does to the pool.
LEMMA PoolOutcome ==
    ASSUME PoolInv, NEW t \in Txs, NEW r,
           r \in AcceptToMemoryPool(pool, t) \/ r = PolicyRefusal(pool)
    PROVE  Outcome(pool, t, r)
<1>1. GoodPool(pool, chain) /\ ChainValid(chain) /\ Cardinality(InPool(pool)) <= MaxPool
    BY DEF PoolInv, GoodPool
<1>2. CASE r \in AcceptToMemoryPool(pool, t)
    BY <1>1, <1>2, AcceptOutcome
<1>3. CASE r = PolicyRefusal(pool)
    BY <1>1, <1>3, RefusalOutcome DEF PolicyRefusal
<1>. QED BY <1>2, <1>3

\* A block that may be connected is a sequence of transactions.
LEMMA BlocksAreSeqs ==
    ASSUME NEW b \in Blocks
    PROVE  b \in Seq(Txs)
<1>1. PICK n \in 0..MaxBlockTxs : b \in [1..n -> Txs]
    BY DEF Blocks
<1>2. n \in Nat
    BY BoundAssumption
<1>. QED BY <1>1, <1>2

\* The TX message.
LEMMA PoolHandler ==
    ASSUME PoolInv,
           \/ \E peer \in Peers, t \in Relayed :
                 \/ ProcessTxAccepted(peer, t)
                 \/ ProcessTxOrphan(peer, t)
                 \/ ProcessTxRejected(peer, t)
           \/ HandlerStep
           \/ \E t \in Submitted : SubmitTx(t)
    PROVE  PoolInv'
<1>0. Relayed \subseteq Txs /\ Submitted \subseteq Txs
    BY InputAssumption
<1>1. ASSUME NEW peer, NEW t \in Relayed, ProcessTxAccepted(peer, t) PROVE PoolInv'
  <2>1. PICK r \in AcceptToMemoryPool(pool, t) : pool' = r.pool
    BY <1>1 DEF ProcessTxAccepted
  <2>2. phase = "free" /\ chain' = chain
    BY <1>1 DEF ProcessTxAccepted
  <2>3. Outcome(pool, t, r)
    BY <1>0, <2>1, <2>2, PoolOutcome
  <2>. QED BY <2>1, <2>2, <2>3, PoolOffered
<1>2. ASSUME NEW peer, NEW t \in Relayed, ProcessTxOrphan(peer, t) PROVE PoolInv'
    BY <1>2, PoolKept DEF ProcessTxOrphan, poolVars
<1>3. ASSUME NEW peer, NEW t \in Relayed, ProcessTxRejected(peer, t) PROVE PoolInv'
  <2>1. phase = "free" /\ chain' = chain /\ phase' = phase
    BY <1>3 DEF ProcessTxRejected
  <2>2. CASE pool' = pool
    BY <2>1, <2>2, PoolKept
  <2>3. CASE \E r : (r \in AcceptToMemoryPool(pool, t) \/ r = PolicyRefusal(pool)) /\ pool' = r.pool
    <3>1. PICK r : (r \in AcceptToMemoryPool(pool, t) \/ r = PolicyRefusal(pool)) /\ pool' = r.pool
        BY <2>3
    <3>2. Outcome(pool, t, r)
        BY <1>0, <2>1, <3>1, PoolOutcome
    <3>. QED BY <2>1, <3>1, <3>2, PoolOffered
  <2>. QED BY <1>3, <2>2, <2>3, Zenon DEF ProcessTxRejected
<1>4. CASE HandlerStep
  <2>1. CASE PopWorkQueue
    BY <2>1, PoolKept DEF PopWorkQueue, poolVars
  <2>2. ASSUME NEW o \in Txs, TryOrphan(o) PROVE PoolInv'
    <3>1. phase = "tx" /\ chain' = chain /\ phase' = phase
        BY <2>2 DEF TryOrphan
    <3>2. CASE pool' = pool
        BY <3>1, <3>2, PoolKept
    <3>3. CASE \E r : (r \in AcceptToMemoryPool(pool, o) \/ r = PolicyRefusal(pool)) /\ pool' = r.pool
      <4>1. PICK r : (r \in AcceptToMemoryPool(pool, o) \/ r = PolicyRefusal(pool)) /\ pool' = r.pool
        BY <3>3
      <4>2. Outcome(pool, o, r)
        BY <3>1, <4>1, PoolOutcome
      <4>. QED BY <3>1, <4>1, <4>2, PoolOffered
    <3>. QED BY <2>2, <3>2, <3>3, Zenon DEF TryOrphan, OrphanTried
  <2>3. CASE EraseProcessed
    BY <2>3, PoolKept DEF EraseProcessed, poolVars
  <2>. QED BY <1>4, <2>1, <2>2, <2>3 DEF HandlerStep
<1>5. ASSUME NEW t \in Submitted, SubmitTx(t) PROVE PoolInv'
  <2>1. PICK r \in AcceptToMemoryPool(pool, t) : pool' = r.pool
    BY <1>5 DEF SubmitTx
  <2>2. phase = "free" /\ chain' = chain
    BY <1>5 DEF SubmitTx
  <2>3. Outcome(pool, t, r)
    BY <1>0, <2>1, <2>2, PoolOutcome
  <2>. QED BY <2>1, <2>2, <2>3, PoolOffered
<1>. QED BY <1>1, <1>2, <1>3, <1>4, <1>5

\* A block is connected.
LEMMA PoolConnect ==
    ASSUME PoolInv, NEW b \in Blocks, ConnectTip(b)
    PROVE  PoolInv'
<1>1. b \in Seq(Txs) /\ ValidBlock(chain, b) /\ pool' = removeForBlock(pool, b) /\ chain' = Append(chain, b)
    BY BlocksAreSeqs DEF ConnectTip
<1>2. PoolShape(pool) /\ PoolFits(pool, chain) /\ ChainValid(chain) /\ Cardinality(InPool(pool)) <= MaxPool
    BY DEF PoolInv
<1>3. PoolShape(pool') /\ InPool(pool') \subseteq InPool(pool) /\ PoolFits(pool', chain')
    BY <1>1, <1>2, ConnectPool
<1>4. ChainValid(chain')
    BY <1>1, <1>2, ChainAppend
<1>5. Cardinality(InPool(pool')) <= MaxPool
  <2>1. IsFiniteSet(InPool(pool))
    BY <1>2, PoolGraph
  <2>2. Cardinality(InPool(pool')) <= Cardinality(InPool(pool)) /\ IsFiniteSet(InPool(pool'))
    BY <1>3, <2>1, FS_Subset
  <2>3. Cardinality(InPool(pool')) \in Nat /\ Cardinality(InPool(pool)) \in Nat
    BY <2>1, <2>2, FS_CardinalityType
  <2>. QED BY <1>2, <2>2, <2>3, BoundAssumption
<1>. QED BY <1>3, <1>4, <1>5 DEF PoolInv

\* A block is disconnected.
LEMMA PoolDisconnect ==
    ASSUME PoolInv, NEW caller \in {"activate", "invalidate"}, DisconnectTip(caller)
    PROVE  PoolInv'
<1>1. Len(chain) > 1 /\ pool' = FoldLeft(removeRecursive, pool, Last(chain)) /\ chain' = Front(chain)
    BY DEF DisconnectTip
<1>2. PoolShape(pool) /\ PoolFits(pool, chain) /\ ChainValid(chain) /\ Cardinality(InPool(pool)) <= MaxPool
    BY DEF PoolInv
<1>3. Trimmed(pool, pool') /\ PoolFits(pool', chain')
    BY <1>1, <1>2, DisconnectPool
<1>4. ChainValid(chain')
    BY <1>1, <1>2, ChainFront
<1>5. Cardinality(InPool(pool')) <= MaxPool
    BY <1>2, <1>3, TrimmedSize, BoundAssumption
<1>. QED BY <1>1, <1>3, <1>4, <1>5 DEF PoolInv, Trimmed

\* A reorganisation ends, in either order of removeForReorg and LimitMempoolSize.
LEMMA PoolReorgEnd ==
    ASSUME PoolInv, ActivateBestChainStepEnd \/ InvalidateBlockEnd
    PROVE  PoolInv' /\ chain' = chain /\ \A t \in InPool(pool') : ~PrematureSpend(chain, t)
<1>1. PoolShape(pool) /\ PoolFits(pool, chain) /\ ChainValid(chain) /\ Cardinality(InPool(pool)) <= MaxPool
    BY DEF PoolInv
<1>2. MaxPool \in Int /\ MaxPool + 1 \in Int
    BY BoundAssumption
<1>3. ASSUME NEW p, Trimmed(pool, p)
      PROVE  PoolShape(p) /\ PoolFits(p, chain) /\ Cardinality(InPool(p)) <= MaxPool
             /\ Cardinality(InPool(p)) <= MaxPool + 1
  <2>1. PoolShape(p) /\ PoolFits(p, chain)
    BY <1>1, <1>3, TrimmedFits DEF Trimmed
  <2>2. Cardinality(InPool(p)) <= MaxPool /\ Cardinality(InPool(p)) \in Nat
    BY <1>1, <1>2, <1>3, TrimmedSize
  <2>. QED BY <1>2, <2>1, <2>2
<1>4. chain' = chain
    BY DEF ActivateBestChainStepEnd, InvalidateBlockEnd
<1>5. Trimmed(pool, pool') /\ \A t \in InPool(pool') : ~PrematureSpend(chain, t)
  <2>1. CASE ActivateBestChainStepEnd
    <3> DEFINE r == removeForReorg(pool, chain)
    <3>1. Trimmed(pool, r) /\ \A t \in InPool(r) : ~PrematureSpend(chain, t)
        BY <1>1, ReorgMature
    <3>2. pool' \in LimitMempoolSize(r, {})
        BY <2>1 DEF ActivateBestChainStepEnd
    <3> HIDE DEF r
    <3>3. Trimmed(r, pool')
        BY <1>3, <3>1, <3>2, LimitShape
    <3>4. Trimmed(pool, pool')
        BY <3>1, <3>3, TrimmedTwice
    <3>. QED BY <3>1, <3>3, <3>4 DEF Trimmed
  <2>2. CASE InvalidateBlockEnd
    <3>1. PICK q \in LimitMempoolSize(pool, {}) : pool' = removeForReorg(q, chain)
        BY <2>2 DEF InvalidateBlockEnd
    <3>2. Trimmed(pool, q)
      <4>1. Cardinality(InPool(pool)) <= MaxPool + 1
        BY <1>1, <1>3, TrimmedNone
      <4>. QED BY <1>1, <3>1, <4>1, LimitShape
    <3>3. Trimmed(q, pool') /\ \A t \in InPool(pool') : ~PrematureSpend(chain, t)
        BY <1>3, <3>1, <3>2, ReorgMature
    <3>. QED BY <3>2, <3>3, TrimmedTwice
  <2>. QED BY <2>1, <2>2
<1>6. PoolShape(pool') /\ PoolFits(pool', chain) /\ Cardinality(InPool(pool')) <= MaxPool
    BY <1>3, <1>5
<1>. QED BY <1>1, <1>4, <1>5, <1>6 DEF PoolInv

\* Every step keeps the pool exact, spendable and bounded.
LEMMA PoolNext ==
    ASSUME PoolInv, [Next]_vars
    PROVE  PoolInv'
<1>1. CASE UNCHANGED vars
    BY <1>1, PoolKept DEF vars, poolVars
<1>2. ASSUME NEW t \in Prioritised, NEW d \in Deltas, PrioritiseTransaction(t, d) PROVE PoolInv'
  <2>1. t \in Txs /\ d \in Int
    BY InputAssumption
  <2>2. pool' = PrioritisedPool(pool, t, d) /\ chain' = chain /\ phase' = phase
    BY <1>2 DEF PrioritiseTransaction
  <2>3. PoolShape(pool') /\ InPool(pool') = InPool(pool)
    BY <2>1, <2>2, PrioritiseShape DEF PoolInv
  <2>. QED BY <2>2, <2>3 DEF PoolInv, PoolFits, InputsThere
<1>3. ASSUME NEW peer \in Peers, PeerLeaves(peer) PROVE PoolInv'
    BY <1>3, PoolKept DEF PeerLeaves, poolVars
<1>4. ASSUME NEW b \in Blocks, ConnectTip(b) PROVE PoolInv'
    BY <1>4, PoolConnect
<1>5. ASSUME NEW caller \in {"activate", "invalidate"}, DisconnectTip(caller) PROVE PoolInv'
    BY <1>5, PoolDisconnect
<1>6. CASE ActivateBestChainStepEnd \/ InvalidateBlockEnd
    BY <1>6, PoolReorgEnd
<1>7. CASE ActivateBestChainStepFails
    BY <1>7, PoolKept DEF ActivateBestChainStepFails, poolVars
<1>. QED BY <1>1, <1>2, <1>3, <1>4, <1>5, <1>6, <1>7, PoolHandler DEF Next

-----------------------------------------------------------------------------
(* The orphan maps.                                                        *)

\* Two maps of the right type, the second the index of the first.
GoodMaps(m) ==
    /\ m.tx \in [Txs -> Peers \cup {NoPeer}]
    /\ m.prev \in [OutPoints -> SUBSET Txs]
    /\ \A o \in OutPoints : m.prev[o] = {t \in Txs : m.tx[t] # NoPeer /\ o \in Ins[t]}

OrphanInv ==
    /\ mapOrphanTransactions \in [Txs -> Peers \cup {NoPeer}]
    /\ mapOrphanTransactionsByPrev \in [OutPoints -> SUBSET Txs]
    /\ OrphanIndexExact
    /\ Cardinality(Orphans) <= MaxOrphans

\* The invariant says this of the two variables.
LEMMA MapsOfState ==
    ASSUME OrphanInv
    PROVE  GoodMaps(OrphanMaps) /\ OrphanSet(OrphanMaps) = Orphans
    BY DEF OrphanInv, OrphanIndexExact, GoodMaps, OrphanMaps, OrphanSet, Orphans, IsOrphan

\* And this establishes it for their next values.
LEMMA StateOfMaps ==
    ASSUME NEW m, GoodMaps(m), Cardinality(OrphanSet(m)) <= MaxOrphans, SetOrphanMaps(m)
    PROVE  OrphanInv' /\ Orphans' = OrphanSet(m)
<1>1. mapOrphanTransactions' = m.tx /\ mapOrphanTransactionsByPrev' = m.prev
    BY DEF SetOrphanMaps
<1>2. Orphans' = OrphanSet(m)
    BY <1>1 DEF Orphans, IsOrphan, OrphanSet
<1>3. OrphanIndexExact'
    BY <1>1 DEF OrphanIndexExact, IsOrphan, GoodMaps
<1>. QED BY <1>1, <1>2, <1>3 DEF OrphanInv, GoodMaps

\* EraseOrphanTx cleans both maps.
LEMMA EraseMaps ==
    ASSUME NEW m, GoodMaps(m), NEW S
    PROVE  GoodMaps(EraseOrphanTx(m, S)) /\ OrphanSet(EraseOrphanTx(m, S)) = OrphanSet(m) \ S
<1> DEFINE n == EraseOrphanTx(m, S)
<1>1. /\ n.tx = [t \in Txs |-> IF t \in S THEN NoPeer ELSE m.tx[t]]
      /\ n.prev = [o \in OutPoints |-> m.prev[o] \ {t \in S : m.tx[t] # NoPeer /\ o \in Ins[t]}]
    BY DEF EraseOrphanTx
<1> HIDE DEF n
<1>2. n.tx \in [Txs -> Peers \cup {NoPeer}] /\ \A t \in Txs : n.tx[t] = IF t \in S THEN NoPeer ELSE m.tx[t]
    BY <1>1 DEF GoodMaps
<1>3. OrphanSet(n) = OrphanSet(m) \ S
    BY <1>2 DEF OrphanSet
<1>4. ASSUME NEW o \in OutPoints
      PROVE  n.prev[o] = {t \in Txs : n.tx[t] # NoPeer /\ o \in Ins[t]} /\ n.prev[o] \in SUBSET Txs
  <2>1. n.prev[o] = m.prev[o] \ {t \in S : m.tx[t] # NoPeer /\ o \in Ins[t]}
    BY <1>1
  <2>2. m.prev[o] = {t \in Txs : m.tx[t] # NoPeer /\ o \in Ins[t]}
    BY DEF GoodMaps
  <2>. QED BY <1>2, <2>1, <2>2
<1>5. n.prev \in [OutPoints -> SUBSET Txs]
    BY <1>1, <1>4
<1>6. GoodMaps(n)
    BY <1>2, <1>4, <1>5 DEF GoodMaps
<1>. QED BY <1>3, <1>6 DEF n

\* AddOrphanTx enters the orphan in both maps.
LEMMA AddMaps ==
    ASSUME NEW m, GoodMaps(m), NEW t \in Txs, NEW peer \in Peers
    PROVE  GoodMaps(AddOrphanTx(m, t, peer)) /\ OrphanSet(AddOrphanTx(m, t, peer)) = OrphanSet(m) \cup {t}
<1>0. peer # NoPeer
    BY InputAssumption
<1>1. CASE m.tx[t] # NoPeer
    BY <1>1 DEF AddOrphanTx, OrphanSet
<1>2. CASE m.tx[t] = NoPeer
  <2> DEFINE n == AddOrphanTx(m, t, peer)
  <2>1. /\ n.tx = [m.tx EXCEPT ![t] = peer]
        /\ n.prev = [o \in OutPoints |-> IF o \in Ins[t] THEN m.prev[o] \cup {t} ELSE m.prev[o]]
    BY <1>2 DEF AddOrphanTx
  <2> HIDE DEF n
  <2>2. n.tx \in [Txs -> Peers \cup {NoPeer}] /\ n.tx[t] = peer /\ \A u \in Txs : u # t => n.tx[u] = m.tx[u]
    BY <2>1 DEF GoodMaps
  <2>3. OrphanSet(n) = OrphanSet(m) \cup {t}
    BY <1>0, <2>2 DEF OrphanSet
  <2>4. ASSUME NEW o \in OutPoints
        PROVE  n.prev[o] = {u \in Txs : n.tx[u] # NoPeer /\ o \in Ins[u]} /\ n.prev[o] \in SUBSET Txs
    <3>1. n.prev[o] = IF o \in Ins[t] THEN m.prev[o] \cup {t} ELSE m.prev[o]
        BY <2>1
    <3>2. m.prev[o] = {u \in Txs : m.tx[u] # NoPeer /\ o \in Ins[u]}
        BY DEF GoodMaps
    <3>. QED BY <1>0, <1>2, <2>2, <3>1, <3>2
  <2>5. n.prev \in [OutPoints -> SUBSET Txs]
    BY <2>1, <2>4
  <2>6. GoodMaps(n)
    BY <2>2, <2>4, <2>5 DEF GoodMaps
  <2>. QED BY <2>3, <2>6 DEF n
<1>. QED BY <1>1, <1>2

\* Erasing orphans.
LEMMA OrphanErased ==
    ASSUME OrphanInv, NEW S, SetOrphanMaps(EraseOrphanTx(OrphanMaps, S))
    PROVE  OrphanInv' /\ Orphans' = Orphans \ S
<1>1. GoodMaps(OrphanMaps) /\ OrphanSet(OrphanMaps) = Orphans
    BY MapsOfState
<1> DEFINE n == EraseOrphanTx(OrphanMaps, S)
<1>2. GoodMaps(n) /\ OrphanSet(n) = Orphans \ S
    BY <1>1, EraseMaps
<1> HIDE DEF n
<1>3. IsFiniteSet(Orphans) /\ Cardinality(Orphans) <= MaxOrphans
    BY TxAssumption, FS_Subset DEF Orphans, OrphanInv
<1>4. Cardinality(OrphanSet(n)) <= MaxOrphans
  <2>1. Cardinality(Orphans \ S) <= Cardinality(Orphans) /\ IsFiniteSet(Orphans \ S)
    BY <1>3, FS_Subset
  <2>2. Cardinality(Orphans \ S) \in Nat /\ Cardinality(Orphans) \in Nat /\ MaxOrphans \in Nat
    BY <1>3, <2>1, FS_CardinalityType, BoundAssumption
  <2>. QED BY <1>2, <1>3, <2>1, <2>2
<1>. QED BY <1>2, <1>4, StateOfMaps DEF n

\* Every step keeps the orphan maps exact and bounded.
LEMMA OrphanNext ==
    ASSUME OrphanInv, [Next]_vars
    PROVE  OrphanInv'
<1>1. ASSUME UNCHANGED orphanVars PROVE OrphanInv'
    BY <1>1 DEF orphanVars, OrphanInv, OrphanIndexExact, Orphans, IsOrphan
<1>2. ASSUME NEW peer \in Peers, NEW t \in Relayed, ProcessTxOrphan(peer, t) PROVE OrphanInv'
  <2>1. CASE UNCHANGED orphanVars
    BY <1>1, <2>1
  <2>2. CASE \E gone \in SUBSET (Orphans \cup {t}) :
                LimitOrphanTxSize(AddOrphanTx(OrphanMaps, t, peer), t, gone)
    <3> DEFINE m == AddOrphanTx(OrphanMaps, t, peer)
    <3>1. PICK gone : LimitOrphanTxSize(m, t, gone)
        BY <2>2
    <3>2. GoodMaps(m)
        BY MapsOfState, AddMaps, InputAssumption
    <3> HIDE DEF m
    <3>3. /\ Cardinality(OrphanSet(m) \ gone) <= MaxOrphans
          /\ SetOrphanMaps(EraseOrphanTx(m, gone))
        BY <3>1 DEF LimitOrphanTxSize
    <3> DEFINE n == EraseOrphanTx(m, gone)
    <3>4. GoodMaps(n) /\ OrphanSet(n) = OrphanSet(m) \ gone
        BY <3>2, EraseMaps
    <3> HIDE DEF n
    <3>. QED BY <3>3, <3>4, StateOfMaps DEF n
  <2>. QED BY <1>2, <2>1, <2>2 DEF ProcessTxOrphan
<1>3. CASE EraseProcessed
    BY <1>3, OrphanErased DEF EraseProcessed
<1>4. ASSUME NEW peer \in Peers, PeerLeaves(peer) PROVE OrphanInv'
    BY <1>4, OrphanErased DEF PeerLeaves
<1>5. ASSUME NEW b \in Blocks, ConnectTip(b) PROVE OrphanInv'
    BY <1>5, OrphanErased DEF ConnectTip
<1>6. CASE UNCHANGED vars
    BY <1>1, <1>6 DEF vars
<1>7. CASE \E peer \in Peers, t \in Relayed : ProcessTxAccepted(peer, t) \/ ProcessTxRejected(peer, t)
    BY <1>1, <1>7 DEF ProcessTxAccepted, ProcessTxRejected
<1>8. CASE HandlerStep /\ ~EraseProcessed
    BY <1>1, <1>8 DEF HandlerStep, PopWorkQueue, TryOrphan
<1>9. CASE (\E t \in Submitted : SubmitTx(t)) \/ (\E t \in Prioritised, d \in Deltas : PrioritiseTransaction(t, d))
    BY <1>1, <1>9 DEF SubmitTx, PrioritiseTransaction
<1>10. CASE \/ \E caller \in {"activate", "invalidate"} : DisconnectTip(caller)
            \/ ActivateBestChainStepEnd \/ ActivateBestChainStepFails \/ InvalidateBlockEnd
    BY <1>1, <1>10 DEF DisconnectTip, ActivateBestChainStepEnd, ActivateBestChainStepFails, InvalidateBlockEnd
<1>. QED BY <1>2, <1>3, <1>4, <1>5, <1>6, <1>7, <1>8, <1>9, <1>10 DEF Next

\* No orphans at the start.
LEMMA OrphanInit ==
    ASSUME Init
    PROVE  OrphanInv
<1>1. /\ mapOrphanTransactions = [t \in Txs |-> NoPeer]
      /\ mapOrphanTransactionsByPrev = [o \in OutPoints |-> {}]
    BY DEF Init
<1>2. Orphans = {} /\ \A t \in Txs : ~IsOrphan(t)
    BY <1>1 DEF Orphans, IsOrphan
<1>3. OrphanIndexExact
    BY <1>1, <1>2 DEF OrphanIndexExact
<1>4. Cardinality(Orphans) <= MaxOrphans
    BY <1>2, FS_EmptySet, BoundAssumption
<1>. QED BY <1>1, <1>3, <1>4 DEF OrphanInv

-----------------------------------------------------------------------------
(* The TX handler: the types of its state, and HandlerInv.                 *)

HandlerType ==
    /\ recentRejects \subseteq Txs
    /\ hashRecentRejectsChainTip \in Seq(Seq(Txs))
    /\ phase \in {"free", "tx", "activate", "connect", "invalidate"}
    /\ tx \in Txs \cup {NoTx}
    /\ vWorkQueue \in Seq(OutPoints)
    /\ todo \subseteq Txs
    /\ vEraseQueue \subseteq Txs
    /\ setMisbehaving \subseteq Peers

\* The outpoints queued for a transaction are those of its outputs.
LEMMA OutPointsQueued ==
    ASSUME NEW t \in Txs
    PROVE  /\ OutPointsOf(t) \in Seq(OutPoints)
           /\ \A i \in OutPoints : i[1] = t <=> i \in ToSet(OutPointsOf(t))
<1>1. Outs[t] \in Nat
    BY TxAssumption
<1>2. \A n \in 1..Outs[t] : <<t, n>> \in OutPoints
    BY DEF OutPoints
<1>3. OutPointsOf(t) \in Seq(OutPoints)
    BY <1>1, <1>2 DEF OutPointsOf
<1>4. ASSUME NEW i \in OutPoints
      PROVE  i[1] = t <=> i \in ToSet(OutPointsOf(t))
  <2>1. PICK u \in Txs : i \in {u} \X (1..Outs[u])
    BY DEF OutPoints
  <2>2. ToSet(OutPointsOf(t)) = {<<t, n>> : n \in 1..Outs[t]}
    BY <1>1 DEF OutPointsOf, ToSet
  <2>. QED BY <2>1, <2>2
<1>. QED BY <1>3, <1>4

\* The elements of a queue that grows at its end and is taken from at its head.
LEMMA QueueElements ==
    ASSUME NEW s \in Seq(OutPoints)
    PROVE  /\ \A r \in Seq(OutPoints) : s \o r \in Seq(OutPoints) /\ ToSet(s \o r) = ToSet(s) \cup ToSet(r)
           /\ s # <<>> => /\ Tail(s) \in Seq(OutPoints) /\ Head(s) \in OutPoints
                          /\ ToSet(s) = {Head(s)} \cup ToSet(Tail(s))
<1>1. ASSUME NEW r \in Seq(OutPoints)
      PROVE  s \o r \in Seq(OutPoints) /\ ToSet(s \o r) = ToSet(s) \cup ToSet(r)
  <2>1. s \o r \in Seq(OutPoints)
    OBVIOUS
  <2>2. DOMAIN (s \o r) = 1..(Len(s) + Len(r)) /\ DOMAIN s = 1..Len(s) /\ DOMAIN r = 1..Len(r)
        /\ Len(s) \in Nat /\ Len(r) \in Nat
    OBVIOUS
  <2>3. \A i \in 1..Len(s) : (s \o r)[i] = s[i] /\ i \in DOMAIN (s \o r)
    BY <2>2
  <2>4. \A i \in 1..Len(r) : (s \o r)[i + Len(s)] = r[i] /\ i + Len(s) \in DOMAIN (s \o r)
    BY <2>2
  <2>5. ASSUME NEW i \in DOMAIN (s \o r)
        PROVE  (s \o r)[i] \in ToSet(s) \cup ToSet(r)
    <3>1. CASE i \in 1..Len(s)
        BY <2>2, <2>3, <3>1 DEF ToSet
    <3>2. CASE i \notin 1..Len(s)
      <4>1. i - Len(s) \in 1..Len(r) /\ (i - Len(s)) + Len(s) = i
        BY <2>2, <3>2
      <4>2. (s \o r)[i] = r[i - Len(s)]
        BY <2>4, <4>1
      <4>. QED BY <2>2, <4>1, <4>2 DEF ToSet
    <3>. QED BY <3>1, <3>2
  <2>6. ToSet(s) \subseteq ToSet(s \o r)
    BY <2>2, <2>3 DEF ToSet
  <2>7. ToSet(r) \subseteq ToSet(s \o r)
    BY <2>2, <2>4 DEF ToSet
  <2>8. ToSet(s \o r) \subseteq ToSet(s) \cup ToSet(r)
    BY <2>5 DEF ToSet
  <2>. QED BY <2>1, <2>6, <2>7, <2>8
<1>2. ASSUME s # <<>>
      PROVE  /\ Tail(s) \in Seq(OutPoints) /\ Head(s) \in OutPoints
             /\ ToSet(s) = {Head(s)} \cup ToSet(Tail(s))
  <2>1. /\ Tail(s) \in Seq(OutPoints) /\ Head(s) \in OutPoints /\ Head(s) = s[1]
        /\ DOMAIN s = 1..Len(s) /\ Len(s) \in Nat /\ Len(s) >= 1
        /\ DOMAIN Tail(s) = 1..(Len(s) - 1)
        /\ \A i \in 1..(Len(s) - 1) : Tail(s)[i] = s[i + 1]
    BY <1>2, HeadTailProperties
  <2>2. ASSUME NEW i \in DOMAIN s
        PROVE  s[i] \in {Head(s)} \cup ToSet(Tail(s))
    <3>1. CASE i = 1
        BY <2>1, <3>1
    <3>2. CASE i # 1
      <4>1. i - 1 \in 1..(Len(s) - 1) /\ (i - 1) + 1 = i
        BY <2>1, <3>2
      <4>2. Tail(s)[i - 1] = s[i] /\ i - 1 \in DOMAIN Tail(s)
        BY <2>1, <4>1
      <4>. QED BY <4>2 DEF ToSet
    <3>. QED BY <3>1, <3>2
  <2>3. ASSUME NEW i \in DOMAIN Tail(s) PROVE Tail(s)[i] \in ToSet(s)
    <3>1. i + 1 \in DOMAIN s /\ Tail(s)[i] = s[i + 1]
        BY <2>1
    <3>. QED BY <3>1 DEF ToSet
  <2>4. Head(s) \in ToSet(s)
    BY <2>1 DEF ToSet
  <2>5. ToSet(s) \subseteq {Head(s)} \cup ToSet(Tail(s))
    BY <2>2 DEF ToSet
  <2>6. ToSet(Tail(s)) \subseteq ToSet(s)
    BY <2>3 DEF ToSet
  <2>. QED BY <2>1, <2>4, <2>5, <2>6
<1>. QED BY <1>1, <1>2

\* While no TX message is handled, its variables are idle.
LEMMA HandlerIdle ==
    ASSUME HandlerInv, PoolInv', phase # "tx", phase' # "tx", UNCHANGED handlerVars
    PROVE  HandlerInv'
<1>1. /\ tx' = NoTx /\ vWorkQueue' = <<>> /\ todo' = {} /\ vEraseQueue' = {} /\ setMisbehaving' = {}
    BY DEF HandlerInv, handlerVars
<1>2. NoTx \notin InPool(pool')
    BY TxAssumption DEF PoolInv, PoolShape, InPool, Entries
<1>3. \A t \in Txs : ~SpendsQueued(t)'
    BY <1>1 DEF SpendsQueued, ToSet
<1>4. Orphans' \subseteq Txs
    BY DEF Orphans
<1>. QED BY <1>1, <1>2, <1>3, <1>4 DEF HandlerInv

\* An accepted transaction queues its outputs, so every orphan that spends it.
LEMMA HandlerAccepted ==
    ASSUME HandlerInv, PoolInv, PoolInv', NEW peer, NEW u \in Txs, ProcessTxAccepted(peer, u)
    PROVE  HandlerInv'
<1>1. /\ tx = NoTx /\ vWorkQueue = <<>> /\ todo = {} /\ vEraseQueue = {} /\ setMisbehaving = {}
    BY DEF HandlerInv, ProcessTxAccepted
<1>2. /\ phase' = "tx" /\ tx' = u /\ vWorkQueue' = OutPointsOf(u) /\ todo' = {} /\ vEraseQueue' = {}
      /\ phase = "free" /\ Orphans' = Orphans /\ mapOrphanTransactions' = mapOrphanTransactions
    BY <1>1 DEF ProcessTxAccepted, orphanVars, Orphans, IsOrphan
<1>3. u \notin Orphans
    BY DEF ProcessTxAccepted, AlreadyHave
<1>4. PICK r \in AcceptToMemoryPool(pool, u) : r.verdict = "ok" /\ pool' = r.pool
    BY DEF ProcessTxAccepted
<1>5. Outcome(pool, u, r)
    BY <1>2, PoolOutcome
<1>6. InPool(pool') \subseteq InPool(pool) \cup {u} /\ \A y \in InPool(pool) : ~Spends(y, u)
    BY <1>4, <1>5 DEF Outcome
<1>7. \A t \in Txs : SpendsQueued(t)' <=> Spends(t, u)
  <2> SUFFICES ASSUME NEW t \in Txs PROVE Ins[t] \cap ToSet(vWorkQueue') # {} <=> Spends(t, u)
    BY DEF SpendsQueued
  <2>1. Ins[t] \subseteq OutPoints
    BY TxAssumption
  <2>. QED BY <1>2, <2>1, OutPointsQueued DEF Spends
<1>8. Orphans \subseteq Txs
    BY DEF Orphans
<1>9. ASSUME NEW t \in InPool(pool') \cap Orphans PROVE ~SpendsQueued(t)'
    BY <1>3, <1>6, <1>7, <1>8, <1>9
<1>10. ASSUME NEW t \in Orphans, NEW i \in Ins[t], i[1] \in ({tx'} \cup vEraseQueue')
       PROVE  SpendsQueued(t)'
  <2>1. Spends(t, u)
    BY <1>2, <1>10 DEF Spends
  <2>. QED BY <1>7, <1>8, <2>1
<1>. QED BY <1>2, <1>9, <1>10 DEF HandlerInv

\* The orphans of the next outpoint are those that spend it.
LEMMA HandlerPop ==
    ASSUME HandlerInv, HandlerType, OrphanInv, PopWorkQueue
    PROVE  HandlerInv'
<1>1. /\ phase = "tx" /\ phase' = "tx" /\ tx' = tx /\ todo = {} /\ vWorkQueue # <<>>
      /\ todo' = mapOrphanTransactionsByPrev[Head(vWorkQueue)] /\ vWorkQueue' = Tail(vWorkQueue)
      /\ vEraseQueue' = vEraseQueue /\ setMisbehaving' = setMisbehaving /\ pool' = pool /\ chain' = chain
      /\ mapOrphanTransactions' = mapOrphanTransactions
    BY DEF PopWorkQueue, poolVars, orphanVars
<1>2. Orphans' = Orphans /\ Orphans \subseteq Txs
    BY <1>1 DEF Orphans, IsOrphan
<1>3. Head(vWorkQueue) \in OutPoints /\ ToSet(vWorkQueue) = {Head(vWorkQueue)} \cup ToSet(Tail(vWorkQueue))
    BY <1>1, QueueElements DEF HandlerType
<1>4. todo' = {t \in Orphans : Head(vWorkQueue) \in Ins[t]}
    BY <1>1, <1>3 DEF OrphanInv, OrphanIndexExact, Orphans
<1>5. \A t \in Orphans : SpendsQueued(t) <=> t \in todo' \/ SpendsQueued(t)'
  <2> SUFFICES ASSUME NEW t \in Orphans
               PROVE  Ins[t] \cap ToSet(vWorkQueue) # {} <=> t \in todo' \/ Ins[t] \cap ToSet(Tail(vWorkQueue)) # {}
    BY <1>1 DEF SpendsQueued
  <2>. QED BY <1>3, <1>4
<1>6. \A t : LacksParent(t)' <=> LacksParent(t)
    BY <1>1 DEF LacksParent
<1>7. todo' \cup vEraseQueue' \subseteq Orphans'
    BY <1>1, <1>2, <1>4 DEF HandlerInv
<1>8. ASSUME NEW t \in InPool(pool) \cap Orphans, t \in todo' \/ SpendsQueued(t)' PROVE t \in vEraseQueue
    BY <1>5, <1>8 DEF HandlerInv
<1>9. ASSUME NEW t \in Orphans \ (vEraseQueue \cup todo'), mapOrphanTransactions[t] \notin setMisbehaving,
             \E o \in Ins[t] : o[1] \in ({tx} \cup vEraseQueue) \cap InPool(pool)
      PROVE  LacksParent(t)' \/ SpendsQueued(t)'
  <2>1. t \in Orphans \ (vEraseQueue \cup todo) /\ t \notin todo'
    BY <1>1
  <2>2. LacksParent(t) \/ SpendsQueued(t)
    BY <1>9, <2>1 DEF HandlerInv
  <2>. QED BY <1>5, <1>6, <2>1, <2>2
<1>. QED BY <1>1, <1>2, <1>7, <1>8, <1>9 DEF HandlerInv

\* An orphan that is tried is accepted and queues its outputs, is refused and will be
\* erased, or lacks a parent.
LEMMA HandlerTried ==
    ASSUME HandlerInv, HandlerType, PoolInv, NEW o \in Txs, phase = "tx", o \in todo,
           todo' = todo \ {o}, NEW r, Outcome(pool, o, r), OrphanTried(o, r),
           UNCHANGED <<chain, orphanVars, phase, tx>>
    PROVE  HandlerInv'
<1>1. /\ phase' = "tx" /\ tx' = tx /\ chain' = chain /\ mapOrphanTransactions' = mapOrphanTransactions
      /\ pool' = r.pool /\ setMisbehaving \subseteq setMisbehaving'
      /\ vWorkQueue' = IF r.verdict = "ok" THEN vWorkQueue \o OutPointsOf(o) ELSE vWorkQueue
      /\ vEraseQueue' = IF r.verdict = "missing" THEN vEraseQueue ELSE vEraseQueue \cup {o}
    BY DEF OrphanTried, orphanVars
<1>2. Orphans' = Orphans /\ Orphans \subseteq Txs /\ o \in Orphans
    BY <1>1 DEF Orphans, IsOrphan, HandlerInv
<1>3. \A t \in Txs : SpendsQueued(t)' <=> SpendsQueued(t) \/ (r.verdict = "ok" /\ Spends(t, o))
  <2> SUFFICES ASSUME NEW t \in Txs
               PROVE  Ins[t] \cap ToSet(vWorkQueue') # {}
                      <=> Ins[t] \cap ToSet(vWorkQueue) # {} \/ (r.verdict = "ok" /\ Spends(t, o))
    BY DEF SpendsQueued
  <2>1. Ins[t] \subseteq OutPoints /\ vWorkQueue \in Seq(OutPoints)
    BY TxAssumption DEF HandlerType
  <2>2. CASE r.verdict # "ok"
    BY <1>1, <2>2
  <2>3. CASE r.verdict = "ok"
    <3>1. vWorkQueue' = vWorkQueue \o OutPointsOf(o)
        BY <1>1, <2>3
    <3>2. ToSet(vWorkQueue') = ToSet(vWorkQueue) \cup ToSet(OutPointsOf(o))
        BY <2>1, <3>1, OutPointsQueued, QueueElements
    <3>3. Spends(t, o) <=> Ins[t] \cap ToSet(OutPointsOf(o)) # {}
        BY <2>1, OutPointsQueued DEF Spends
    <3>. QED BY <2>3, <3>2, <3>3
  <2>. QED BY <2>2, <2>3
<1>4. /\ InPool(pool') \subseteq InPool(pool) \cup {o}
      /\ r.verdict = "ok" => \A y \in InPool(pool) : ~Spends(y, o)
      /\ r.verdict # "ok" => InPool(pool') \subseteq InPool(pool)
      /\ r.verdict = "missing" => pool' = pool /\ MissingInputs(pool, o)
    BY <1>1 DEF Outcome
<1>5. todo' \cup vEraseQueue' \subseteq Orphans'
    BY <1>1, <1>2 DEF HandlerInv
<1>6. ASSUME NEW t \in InPool(pool') \cap Orphans, t \in todo' \/ SpendsQueued(t)'
      PROVE  t \in vEraseQueue'
  <2>1. CASE t = o
    <3>1. CASE r.verdict = "missing"
      <4>1. t \in InPool(pool) \cap Orphans /\ t \in todo
        BY <1>4, <2>1, <3>1
      <4>. QED BY <1>1, <3>1, <4>1 DEF HandlerInv
    <3>. QED BY <1>1, <2>1, <3>1
  <2>2. CASE t # o
    <3>1. t \in InPool(pool) \cap Orphans /\ t \in Txs
        BY <1>2, <1>4, <2>2
    <3>2. t \in todo \/ SpendsQueued(t)
        BY <1>3, <1>4, <1>6, <3>1
    <3>3. t \in vEraseQueue
        BY <3>1, <3>2 DEF HandlerInv
    <3>. QED BY <1>1, <3>3
  <2>. QED BY <2>1, <2>2
<1>7. ASSUME NEW t \in Orphans \ (vEraseQueue' \cup todo'), mapOrphanTransactions[t] \notin setMisbehaving',
             NEW i \in Ins[t], i[1] \in ({tx} \cup vEraseQueue') \cap InPool(pool')
      PROVE  LacksParent(t)' \/ SpendsQueued(t)'
  <2>1. CASE t = o
    <3>1. r.verdict = "missing"
        BY <1>1, <1>7, <2>1
    <3>2. LacksParent(t)
        BY <1>4, <2>1, <3>1 DEF MissingInputs, LacksParent
    <3>. QED BY <1>1, <1>4, <3>1, <3>2 DEF LacksParent
  <2>2. CASE t # o
    <3>1. t \in Orphans \ (vEraseQueue \cup todo) /\ mapOrphanTransactions[t] \notin setMisbehaving /\ t \in Txs
        BY <1>1, <1>2, <1>7, <2>2
    <3>2. CASE i[1] = o
      <4>1. CASE r.verdict = "ok"
        <5>1. Spends(t, o)
            BY <3>2 DEF Spends
        <5>. QED BY <1>3, <3>1, <4>1, <5>1
      <4>2. CASE r.verdict # "ok"
        <5>1. o \in InPool(pool) \cap Orphans
            BY <1>2, <1>4, <1>7, <3>2, <4>2
        <5>2. o \in vEraseQueue
            BY <5>1 DEF HandlerInv
        <5>3. LacksParent(t) \/ SpendsQueued(t)
            BY <3>1, <3>2, <5>1, <5>2 DEF HandlerInv
        <5>4. LacksParent(t) => LacksParent(t)'
            BY <1>1, <1>4, <4>2 DEF LacksParent
        <5>. QED BY <1>3, <3>1, <5>3, <5>4
      <4>. QED BY <4>1, <4>2
    <3>3. CASE i[1] # o
      <4>1. i[1] \in ({tx} \cup vEraseQueue) \cap InPool(pool)
        BY <1>1, <1>4, <1>7, <3>3
      <4>2. LacksParent(t) \/ SpendsQueued(t)
        BY <3>1, <4>1 DEF HandlerInv
      <4>3. ASSUME LacksParent(t) PROVE LacksParent(t)' \/ SpendsQueued(t)'
        <5>1. PICK j \in Ins[t] : j[1] \notin InPool(pool) /\ ~HaveCoins(chain, j[1])
            BY <4>3 DEF LacksParent
        <5>2. CASE j[1] \notin InPool(pool')
            BY <1>1, <5>1, <5>2 DEF LacksParent
        <5>3. CASE j[1] \in InPool(pool')
          <6>1. j[1] = o /\ r.verdict = "ok"
            BY <1>4, <5>1, <5>3
          <6>2. Spends(t, o)
            BY <6>1 DEF Spends
          <6>. QED BY <1>3, <3>1, <6>1, <6>2
        <5>. QED BY <5>2, <5>3
      <4>. QED BY <1>3, <3>1, <4>2, <4>3
    <3>. QED BY <3>2, <3>3
  <2>. QED BY <2>1, <2>2
<1>8. mapOrphanTransactions' = mapOrphanTransactions /\ phase' = "tx" /\ tx' = tx /\ Orphans' = Orphans
    BY <1>1, <1>2
<1>. QED BY <1>5, <1>6, <1>7, <1>8 DEF HandlerInv

\* The orphan loop takes an orphan, tries it or passes over it.
LEMMA HandlerTry ==
    ASSUME HandlerInv, HandlerType, PoolInv, NEW o \in Txs, TryOrphan(o)
    PROVE  HandlerInv'
<1>1. /\ phase = "tx" /\ o \in todo /\ todo' = todo \ {o}
      /\ UNCHANGED <<chain, orphanVars, phase, tx>>
    BY DEF TryOrphan
<1>2. CASE /\ mapOrphanTransactions[o] \in setMisbehaving
           /\ UNCHANGED <<pool, vWorkQueue, vEraseQueue, setMisbehaving>>
  <2>1. /\ mapOrphanTransactions' = mapOrphanTransactions /\ pool' = pool /\ chain' = chain
        /\ vWorkQueue' = vWorkQueue /\ vEraseQueue' = vEraseQueue /\ setMisbehaving' = setMisbehaving
        /\ phase' = "tx" /\ tx' = tx
    BY <1>1, <1>2 DEF orphanVars
  <2>2. Orphans' = Orphans /\ \A t : (LacksParent(t)' <=> LacksParent(t)) /\ (SpendsQueued(t)' <=> SpendsQueued(t))
    BY <2>1 DEF Orphans, IsOrphan, LacksParent, SpendsQueued
  <2>3. ASSUME NEW t \in Orphans \ (vEraseQueue \cup todo'), mapOrphanTransactions[t] \notin setMisbehaving
        PROVE  t \in Orphans \ (vEraseQueue \cup todo)
    BY <1>1, <1>2, <2>3
  <2>. QED BY <1>1, <2>1, <2>2, <2>3 DEF HandlerInv
<1>3. CASE \E r : (r \in AcceptToMemoryPool(pool, o) \/ r = PolicyRefusal(pool)) /\ OrphanTried(o, r)
  <2>1. PICK r : (r \in AcceptToMemoryPool(pool, o) \/ r = PolicyRefusal(pool)) /\ OrphanTried(o, r)
    BY <1>3
  <2>2. Outcome(pool, o, r)
    BY <1>1, <2>1, PoolOutcome
  <2>. QED BY <1>1, <2>1, <2>2, HandlerTried
<1>. QED BY <1>2, <1>3, Zenon DEF TryOrphan

\* The end of the handler leaves it idle.
LEMMA HandlerErase ==
    ASSUME HandlerInv, PoolInv, EraseProcessed
    PROVE  HandlerInv'
<1>1. /\ tx' = NoTx /\ vWorkQueue' = <<>> /\ todo' = {} /\ vEraseQueue' = {} /\ setMisbehaving' = {}
      /\ phase' = "free" /\ pool' = pool
    BY DEF EraseProcessed, IdleHandler, poolVars
<1>2. NoTx \notin InPool(pool)
    BY TxAssumption DEF PoolInv, PoolShape, InPool, Entries
<1>3. \A t : ~SpendsQueued(t)'
    BY <1>1 DEF SpendsQueued, ToSet
<1>. QED BY <1>1, <1>2, <1>3 DEF HandlerInv

\* Every step keeps the bookkeeping of the orphan loop.
LEMMA HandlerNext ==
    ASSUME HandlerInv, HandlerType, PoolInv, PoolInv', OrphanInv, [Next]_vars
    PROVE  HandlerInv'
<1>1. CASE UNCHANGED vars
  <2>1. /\ UNCHANGED handlerVars /\ pool' = pool /\ chain' = chain /\ phase' = phase
        /\ mapOrphanTransactions' = mapOrphanTransactions
    BY <1>1 DEF vars, poolVars, orphanVars
  <2>2. Orphans' = Orphans /\ \A t : (LacksParent(t)' <=> LacksParent(t)) /\ (SpendsQueued(t)' <=> SpendsQueued(t))
    BY <2>1 DEF Orphans, IsOrphan, LacksParent, SpendsQueued, handlerVars
  <2>. QED BY <2>1, <2>2 DEF HandlerInv, handlerVars
<1>2. CASE \E peer \in Peers, t \in Relayed : ProcessTxAccepted(peer, t)
    BY <1>2, HandlerAccepted, InputAssumption
<1>3. CASE \E peer \in Peers, t \in Relayed : ProcessTxOrphan(peer, t) \/ ProcessTxRejected(peer, t)
    BY <1>3, HandlerIdle DEF ProcessTxOrphan, ProcessTxRejected
<1>4. CASE HandlerStep
    BY <1>4, HandlerPop, HandlerTry, HandlerErase DEF HandlerStep
<1>5. CASE (\E t \in Submitted : SubmitTx(t)) \/ (\E t \in Prioritised, d \in Deltas : PrioritiseTransaction(t, d))
    BY <1>5, HandlerIdle DEF SubmitTx, PrioritiseTransaction
<1>6. CASE \E peer \in Peers : PeerLeaves(peer)
    BY <1>6, HandlerIdle DEF PeerLeaves
<1>7. CASE \E b \in Blocks : ConnectTip(b)
    BY <1>7, HandlerIdle DEF ConnectTip
<1>8. CASE \/ \E caller \in {"activate", "invalidate"} : DisconnectTip(caller)
           \/ ActivateBestChainStepEnd \/ ActivateBestChainStepFails \/ InvalidateBlockEnd
    BY <1>8, HandlerIdle DEF DisconnectTip, ActivateBestChainStepEnd, ActivateBestChainStepFails, InvalidateBlockEnd
<1>. QED BY <1>1, <1>2, <1>3, <1>4, <1>5, <1>6, <1>7, <1>8 DEF Next

\* Every step keeps the types of the handler's state.
LEMMA TypesNext ==
    ASSUME HandlerType, HandlerInv, PoolInv, OrphanInv, [Next]_vars
    PROVE  HandlerType'
<1>0. /\ Relayed \subseteq Txs /\ chain \in Seq(Seq(Txs)) /\ FreshRejects \subseteq Txs
      /\ todo \subseteq Orphans
    BY InputAssumption DEF PoolInv, ChainValid, FreshRejects, HandlerType, HandlerInv
<1>1. CASE UNCHANGED <<rejectVars, phase, handlerVars>>
    BY <1>1 DEF HandlerType, rejectVars, handlerVars
<1>2. ASSUME NEW peer \in Peers, NEW t \in Relayed, ProcessTxAccepted(peer, t) PROVE HandlerType'
  <2>1. OutPointsOf(t) \in Seq(OutPoints) /\ t \in Txs
    BY <1>0, OutPointsQueued
  <2>. QED BY <1>0, <1>2, <2>1 DEF ProcessTxAccepted, HandlerType
<1>3. ASSUME NEW peer \in Peers, NEW t \in Relayed, ProcessTxOrphan(peer, t) \/ ProcessTxRejected(peer, t)
      PROVE  HandlerType'
  <2>1. /\ recentRejects' \subseteq FreshRejects \cup {t} /\ hashRecentRejectsChainTip' = chain
        /\ UNCHANGED <<phase, handlerVars>>
    BY <1>3 DEF ProcessTxOrphan, ProcessTxRejected
  <2>. QED BY <1>0, <2>1 DEF HandlerType, handlerVars
<1>4. CASE PopWorkQueue
  <2>1. /\ Tail(vWorkQueue) \in Seq(OutPoints) /\ Head(vWorkQueue) \in OutPoints
    BY <1>4, QueueElements DEF PopWorkQueue, HandlerType
  <2>2. mapOrphanTransactionsByPrev[Head(vWorkQueue)] \subseteq Txs
    BY <2>1 DEF OrphanInv
  <2>. QED BY <1>4, <2>1, <2>2 DEF PopWorkQueue, HandlerType, rejectVars
<1>5. ASSUME NEW o \in Txs, TryOrphan(o) PROVE HandlerType'
  <2>1. /\ UNCHANGED <<phase, tx, hashRecentRejectsChainTip>> /\ todo' \subseteq todo
        /\ mapOrphanTransactions[o] \in Peers
    BY <1>0, <1>5 DEF TryOrphan, Orphans, IsOrphan, OrphanInv
  <2>2. CASE UNCHANGED <<vWorkQueue, vEraseQueue, setMisbehaving, recentRejects>>
    BY <2>1, <2>2 DEF HandlerType
  <2>3. CASE \E r : OrphanTried(o, r)
    <3>1. PICK r : OrphanTried(o, r)
        BY <2>3
    <3>2. vWorkQueue \o OutPointsOf(o) \in Seq(OutPoints)
        BY OutPointsQueued, QueueElements DEF HandlerType
    <3>3. vWorkQueue' \in Seq(OutPoints)
        BY <3>1, <3>2 DEF OrphanTried, HandlerType
    <3>4. vEraseQueue' \subseteq Txs /\ setMisbehaving' \subseteq Peers /\ recentRejects' \subseteq Txs
        BY <2>1, <3>1 DEF OrphanTried, HandlerType
    <3>. QED BY <2>1, <3>3, <3>4 DEF HandlerType
  <2>. QED BY <1>5, <2>2, <2>3, Zenon DEF TryOrphan
<1>6. CASE EraseProcessed
    BY <1>6 DEF EraseProcessed, IdleHandler, HandlerType, rejectVars
<1>7. CASE \E b \in Blocks : ConnectTip(b)
    BY <1>7 DEF ConnectTip, HandlerType, rejectVars, handlerVars
<1>8. CASE \/ \E caller \in {"activate", "invalidate"} : DisconnectTip(caller)
           \/ ActivateBestChainStepEnd \/ ActivateBestChainStepFails \/ InvalidateBlockEnd
    BY <1>8 DEF DisconnectTip, ActivateBestChainStepEnd, ActivateBestChainStepFails, InvalidateBlockEnd,
                HandlerType, rejectVars, handlerVars
<1>9. CASE (\E t \in Submitted : SubmitTx(t)) \/ (\E t \in Prioritised, d \in Deltas : PrioritiseTransaction(t, d))
           \/ \E peer \in Peers : PeerLeaves(peer)
    BY <1>1, <1>9 DEF SubmitTx, PrioritiseTransaction, PeerLeaves
<1>10. CASE UNCHANGED vars
    BY <1>1, <1>10 DEF vars
<1>. QED BY <1>2, <1>3, <1>4, <1>5, <1>6, <1>7, <1>8, <1>9, <1>10 DEF Next, HandlerStep

\* The handler is idle at the start.
LEMMA HandlerInit ==
    ASSUME Init, PoolInv
    PROVE  HandlerType /\ HandlerInv
<1>1. /\ recentRejects = {} /\ hashRecentRejectsChainTip = chain /\ phase = "free" /\ tx = NoTx
      /\ vWorkQueue = <<>> /\ todo = {} /\ vEraseQueue = {} /\ setMisbehaving = {}
    BY DEF Init
<1>2. HandlerType
    BY <1>1 DEF HandlerType, PoolInv, ChainValid
<1>3. NoTx \notin InPool(pool)
    BY TxAssumption DEF PoolInv, PoolShape, InPool, Entries
<1>4. \A t : ~SpendsQueued(t)
    BY <1>1 DEF SpendsQueued, ToSet
<1>. QED BY <1>1, <1>2, <1>3, <1>4 DEF HandlerInv

-----------------------------------------------------------------------------
(* The theorems.                                                           *)

TxInv == PoolInv /\ OrphanInv /\ HandlerType /\ HandlerInv

\* Whatever is relayed, submitted, replaced, evicted, prioritised, mined or
\* disconnected: the chain stays valid, every entry of the pool is indexed and totalled
\* exactly, has its inputs in the pool or in the chain and is not confirmed, the orphan
\* maps agree, and the orphan loop loses no orphan (PoolInv, HandlerInv).
THEOREM TxInvariant == Spec => []TxInv
<1>1. Init => TxInv
    BY PoolInit, OrphanInit, HandlerInit DEF TxInv
<1>2. TxInv /\ [Next]_vars => TxInv'
    BY PoolNext, OrphanNext, HandlerNext, TypesNext DEF TxInv
<1>. QED BY <1>1, <1>2, PTL DEF Spec

\* CTxMemPool never holds a double spend, its indexes mapNextTx and mapLinks are exact and
\* neither it nor the orphans outgrow their limits.
THEOREM PoolAlwaysConsistent == Spec => []PoolConsistent
<1>1. ASSUME TxInv PROVE PoolConsistent
  <2>1. PoolShape(pool) /\ chain \in Seq(Seq(Txs)) /\ Cardinality(InPool(pool)) <= MaxPool
    BY <1>1 DEF TxInv, PoolInv, ChainValid
  <2>2. /\ pool.mapTx \subseteq Entries
        /\ \A e, f \in pool.mapTx : e.tx = f.tx => e = f
        /\ pool.mapNextTx \subseteq [prevout : OutPoints, tx : Txs]
        /\ pool.mapDeltas \in [Txs -> Int]
    BY <2>1 DEF PoolShape
  <2>3. TypeOK
    BY <1>1, <2>1, <2>2 DEF TypeOK, TxInv, HandlerType, OrphanInv
  <2>4. SpendsIndexed
    BY <2>1 DEF SpendsIndexed, PoolShape
  <2>5. \A e \in pool.mapTx : e.tx \in Txs
    BY <2>2 DEF Entries
  <2>6. Cardinality(pool.mapTx) = Cardinality(InPool(pool))
    BY <2>2, <2>5, PoolFinite
  <2>7. PoolsBounded
    BY <1>1, <2>1, <2>6 DEF PoolsBounded, TxInv, OrphanInv
  <2>. QED BY <2>3, <2>4, <2>7 DEF PoolConsistent
<1>. QED BY <1>1, TxInvariant, PTL

\* Of the transactions AcceptToMemoryPool may add to the pool none is premature.
LEMMA OfferedMature ==
    ASSUME PoolInv, NEW t \in Txs, NEW r,
           r \in AcceptToMemoryPool(pool, t) \/ r = PolicyRefusal(pool), pool' = r.pool, chain' = chain,
           NEW x \in InPool(pool'), PrematureSpend(chain', x)
    PROVE  x \in InPool(pool) /\ PrematureSpend(chain, x)
<1>1. Outcome(pool, t, r)
    BY PoolOutcome
<1>2. /\ InPool(pool') \subseteq InPool(pool) \cup {t}
      /\ t \in InPool(pool) \/ t \notin InPool(pool') \/ ~PrematureSpend(chain, t)
    BY <1>1 DEF Outcome
<1>. QED BY <1>2

\* An entry that is premature while no reorganisation is under way was so before the step,
\* and if the step ended a reorganisation, it was by a system error.
LEMMA PrematureBefore ==
    ASSUME PoolInv, Next, phase' \in {"free", "tx"}, NEW x \in InPool(pool'), PrematureSpend(chain', x)
    PROVE  /\ x \in InPool(pool) /\ PrematureSpend(chain, x)
           /\ phase \in {"free", "tx"} \/ ActivateBestChainStepFails
<1> DEFINE Goal == /\ x \in InPool(pool) /\ PrematureSpend(chain, x)
                   /\ phase \in {"free", "tx"} \/ ActivateBestChainStepFails
<1>0. Relayed \subseteq Txs /\ Submitted \subseteq Txs
    BY InputAssumption
<1>1. ASSUME NEW t \in Txs, NEW r, r \in AcceptToMemoryPool(pool, t) \/ r = PolicyRefusal(pool),
             pool' = r.pool, chain' = chain, phase \in {"free", "tx"}
      PROVE  Goal
    BY <1>1, OfferedMature
<1>2. CASE pool' = pool /\ chain' = chain /\ phase \in {"free", "tx"}
    BY <1>2
<1> HIDE DEF Goal
<1>3. ASSUME NEW peer \in Peers, NEW t \in Relayed,
             ProcessTxAccepted(peer, t) \/ ProcessTxOrphan(peer, t) \/ ProcessTxRejected(peer, t)
      PROVE  Goal
  <2>1. t \in Txs
    BY <1>0
  <2>2. CASE ProcessTxAccepted(peer, t)
    BY <1>1, <2>1, <2>2 DEF ProcessTxAccepted, Goal
  <2>3. CASE ProcessTxOrphan(peer, t)
    BY <1>2, <2>3 DEF ProcessTxOrphan, poolVars, Goal
  <2>4. CASE ProcessTxRejected(peer, t)
    <3>1. phase = "free" /\ chain' = chain
        BY <2>4 DEF ProcessTxRejected
    <3>2. \/ pool' = pool
          \/ \E r : (r \in AcceptToMemoryPool(pool, t) \/ r = PolicyRefusal(pool)) /\ pool' = r.pool
        BY <2>4, Zenon DEF ProcessTxRejected
    <3>. QED BY <1>1, <1>2, <2>1, <3>1, <3>2 DEF Goal
  <2>. QED BY <1>3, <2>2, <2>3, <2>4
<1>4. CASE HandlerStep
  <2>1. CASE PopWorkQueue \/ EraseProcessed
    BY <1>2, <2>1 DEF PopWorkQueue, EraseProcessed, poolVars, Goal
  <2>2. ASSUME NEW o \in Txs, TryOrphan(o) PROVE Goal
    <3>1. phase = "tx" /\ chain' = chain
        BY <2>2 DEF TryOrphan
    <3>2. \/ pool' = pool
          \/ \E r : (r \in AcceptToMemoryPool(pool, o) \/ r = PolicyRefusal(pool)) /\ pool' = r.pool
        BY <2>2, Zenon DEF TryOrphan, OrphanTried
    <3>. QED BY <1>1, <1>2, <3>1, <3>2 DEF Goal
  <2>. QED BY <1>4, <2>1, <2>2 DEF HandlerStep, Goal
<1>5. ASSUME NEW t \in Submitted, SubmitTx(t) PROVE Goal
    BY <1>0, <1>1, <1>5 DEF SubmitTx, Goal
<1>6. ASSUME NEW t \in Prioritised, NEW d \in Deltas, PrioritiseTransaction(t, d) PROVE Goal
  <2>1. t \in Txs /\ d \in Int /\ phase = "free" /\ pool' = PrioritisedPool(pool, t, d) /\ chain' = chain
    BY <1>6, InputAssumption DEF PrioritiseTransaction
  <2>2. InPool(pool') = InPool(pool)
    BY <2>1, PrioritiseShape DEF PoolInv
  <2>. QED BY <2>1, <2>2 DEF Goal
<1>7. ASSUME NEW peer \in Peers, PeerLeaves(peer) PROVE Goal
    BY <1>2, <1>7 DEF PeerLeaves, poolVars, Goal
<1>8. ASSUME NEW b \in Blocks, ConnectTip(b) PROVE Goal
  <2>1. /\ b \in Seq(Txs) /\ ValidBlock(chain, b) /\ pool' = removeForBlock(pool, b)
        /\ chain' = Append(chain, b) /\ phase = "free"
    BY <1>8, BlocksAreSeqs DEF ConnectTip
  <2>2. PoolShape(pool) /\ PoolFits(pool, chain) /\ ChainValid(chain)
    BY DEF PoolInv
  <2>3. x \in InPool(pool)
    BY <2>1, <2>2, ConnectPool
  <2>. QED BY <2>1, <2>2, <2>3, ConnectMature DEF Goal
<1>9. CASE \E caller \in {"activate", "invalidate"} : DisconnectTip(caller)
    BY <1>9 DEF DisconnectTip
<1>10. CASE ActivateBestChainStepEnd \/ InvalidateBlockEnd
    BY <1>10, PoolReorgEnd
<1>11. CASE ActivateBestChainStepFails
    BY <1>11 DEF ActivateBestChainStepFails, poolVars, Goal
<1>. QED BY <1>3, <1>4, <1>5, <1>6, <1>7, <1>8, <1>9, <1>10, <1>11 DEF Next, Goal

\* Every input of an entry is an output of another entry or an unspent coin, and mature
\* unless a reorganisation was ended by a system error: replacement, eviction, removeForBlock
\* and removeForReorg never leave an entry that a block could not hold.
THEOREM InputsAlwaysSpendable == Spec => InputsSpendable
<1>1. ASSUME TxInv, TxInv', Next
      PROVE  phase' \in {"free", "tx"} =>
                /\ InputsThere(pool', chain')
                /\ \A t \in InPool(pool') :
                      PrematureSpend(chain', t) =>
                          /\ t \in InPool(pool) /\ PrematureSpend(chain, t)
                          /\ phase \in {"free", "tx"} \/ ActivateBestChainStepFails
  <2>1. InputsThere(pool', chain') /\ PoolInv
    BY <1>1 DEF TxInv, PoolInv, PoolFits
  <2>. QED BY <1>1, <2>1, PrematureBefore
<1>2. TxInv /\ TxInv' /\ [Next]_vars =>
      [phase' \in {"free", "tx"} =>
        /\ InputsThere(pool', chain')
        /\ \A t \in InPool(pool') :
              PrematureSpend(chain', t) =>
                  /\ t \in InPool(pool) /\ PrematureSpend(chain, t)
                  /\ phase \in {"free", "tx"} \/ ActivateBestChainStepFails]_vars
    BY <1>1
<1>. QED BY <1>2, TxInvariant, PTL DEF InputsSpendable, Spec

\* The counts and fees that eviction, replacement and the package limits read from an
\* entry are those of its true descendants and ancestors, whatever order transactions
\* came and left in.
THEOREM TotalsAlwaysExact == Spec => []TotalsExact
<1>1. TxInv => TotalsExact
    BY DEF TxInv, PoolInv, PoolShape, TotalsExact
<1>. QED BY <1>1, TxInvariant, PTL

\* The index of the orphans by outpoint never refers to an orphan that is gone and misses
\* none.
THEOREM OrphanIndexAlwaysExact == Spec => []OrphanIndexExact
<1>1. TxInv => OrphanIndexExact
    BY DEF TxInv, OrphanInv
<1>. QED BY <1>1, TxInvariant, PTL

\* The orphan loop of the TX handler tries every orphan that what it accepted may have
\* completed: one that is left lacks another parent, or its peer misbehaved.
THEOREM OrphansAlwaysResolved == Spec => OrphansResolved
<1>1. ASSUME TxInv, [Next]_vars, phase = "tx", phase' = "free",
             NEW t \in Txs, mapOrphanTransactions'[t] \notin setMisbehaving \cup {NoPeer},
             \E o \in Ins[t] : o[1] \in ({tx} \cup vEraseQueue) \cap InPool(pool)
      PROVE  \E o \in Ins[t] : o[1] \notin InPool(pool) /\ ~HaveCoins(chain, o[1])
  <2>1. EraseProcessed
    BY <1>1 DEF Next, vars, HandlerStep, ProcessTxAccepted, ProcessTxOrphan, ProcessTxRejected,
                PopWorkQueue, TryOrphan, SubmitTx, PrioritiseTransaction, PeerLeaves, ConnectTip,
                DisconnectTip, ActivateBestChainStepEnd, ActivateBestChainStepFails, InvalidateBlockEnd
  <2>2. todo = {} /\ vWorkQueue = <<>>
    BY <2>1 DEF EraseProcessed
  <2>3. mapOrphanTransactions' = [u \in Txs |-> IF u \in vEraseQueue THEN NoPeer ELSE mapOrphanTransactions[u]]
    BY <2>1 DEF EraseProcessed, SetOrphanMaps, EraseOrphanTx, OrphanMaps
  <2>4. t \in Orphans \ (vEraseQueue \cup todo) /\ mapOrphanTransactions[t] \notin setMisbehaving
    BY <1>1, <2>2, <2>3 DEF Orphans, IsOrphan
  <2>5. ~SpendsQueued(t)
    BY <2>2 DEF SpendsQueued, ToSet
  <2>6. LacksParent(t)
    BY <1>1, <2>4, <2>5 DEF TxInv, HandlerInv
  <2>. QED BY <2>6 DEF LacksParent
<1>2. TxInv /\ [Next]_vars =>
      [(phase = "tx" /\ phase' = "free") =>
        \A t \in Txs :
            ( /\ mapOrphanTransactions'[t] \notin setMisbehaving \cup {NoPeer}
              /\ \E o \in Ins[t] : o[1] \in ({tx} \cup vEraseQueue) \cap InPool(pool) )
            => \E o \in Ins[t] : o[1] \notin InPool(pool) /\ ~HaveCoins(chain, o[1])]_vars
    BY <1>1
<1>. QED BY <1>2, TxInvariant, PTL DEF OrphansResolved, Spec
=============================================================================
