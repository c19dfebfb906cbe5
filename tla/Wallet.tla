------------------------------- MODULE Wallet -------------------------------
(***************************************************************************)
(* The wallet's view of its transactions: mapWallet, mapTxSpends, the      *)
(* cached available credit, and how they follow blocks, the memory pool,   *)
(* the user and a restart (wallet/wallet.cpp).                             *)
(*                                                                         *)
(* Every handler runs under cs_main and cs_wallet, so each is one step;    *)
(* what is not atomic is a payment of the graphical interface, prepared in *)
(* one step and sent in another, and what a power failure leaves on disk.  *)
(* Blocks are a fixed tree of valid blocks; amounts are left out, a credit *)
(* is the set of outputs it counts.  The wallet's state is the record      *)
(* wallet, which the operations below take and return.                     *)
(***************************************************************************)
EXTENDS Integers, FiniteSets, FiniteSetsExt, Sequences, SequencesExt

CONSTANTS
    Txs,
    TxOrder,        \* the transactions in the order of their hashes
    Outs,           \* [Txs -> outputs]; an outpoint is <<tx, n>>
    Inputs,         \* [Txs -> SUBSET outpoints]
    Ours,           \* outpoints that pay to keys of the wallet
    Stakes,         \* coinstakes
    Coinbases,
    Payments,       \* bound: transactions the user makes, or abandons, here
    Blocks, Base,
    Chain,          \* [Blocks -> Seq(Blocks)] what chainActive holds with a block as its tip
    Vtx,            \* [Blocks -> Seq(Txs)]
    Null, Abandoned, \* hashBlock values that name no block
    NotCached,
    Maturity,       \* COINBASE_MATURITY
    ReorgFlush      \* whether ThreadFlushWalletDB may run between a reorganisation
                    \* and the next flush of the chain

Outpoints == {<<t, n>> : t \in Txs, n \in UNION {Outs[u] : u \in Txs}}
OutpointsOf(t) == {<<t, n>> : n \in Outs[t]}

ASSUME WalletAssumption ==
    /\ IsFiniteSet(Txs)
    /\ Outs \in [Txs -> SUBSET Nat]
    /\ Inputs \in [Txs -> SUBSET Outpoints]
    /\ \A t \in Txs : \A o \in Inputs[t] : o \in OutpointsOf(o[1])
    /\ Ours \subseteq Outpoints
    /\ Stakes \subseteq Txs /\ Coinbases \subseteq Txs
    /\ Payments \subseteq Txs \ (Stakes \cup Coinbases)
    /\ \A t \in Payments : Inputs[t] # {}
    /\ TxOrder \in Seq(Txs) /\ ToSet(TxOrder) = Txs
    /\ Maturity \in Nat
    /\ ReorgFlush \in BOOLEAN

\* CChain::SetTip: the blocks from the first one to the tip, by pprev.
ASSUME ChainAssumption ==
    /\ Base \in Blocks
    /\ Null # Abandoned /\ {Null, Abandoned} \cap Blocks = {}
    /\ Chain \in [Blocks -> Seq(Blocks)]
    /\ \A b \in Blocks :
          /\ Chain[b] # <<>> /\ Chain[b][1] = Base /\ Chain[b][Len(Chain[b])] = b
          /\ \A h \in DOMAIN Chain[b] : Chain[Chain[b][h]] = SubSeq(Chain[b], 1, h)
    /\ Vtx \in [Blocks -> Seq(Txs)]

VARIABLES
    tip,            \* chainActive.Tip()
    pool,           \* transactions in the memory pool
    wallet,         \* [map, spends, cache], see TypeOK
    created,        \* the payment prepared and not sent yet, if any
    disk            \* what a power failure leaves: [map, best, tip]

vars == <<tip, pool, wallet, created, disk>>

-----------------------------------------------------------------------------
\* The chain that ends in block b, as a set, and what is on it.
ChainOf == [b \in Blocks |-> ToSet(Chain[b])]
Height == [b \in Blocks |-> Len(Chain[b])]
Parent == [b \in Blocks \ {Base} |-> Chain[b][Len(Chain[b]) - 1]]
TxsOf == [b \in Blocks |-> UNION {ToSet(Vtx[c]) : c \in ChainOf[b]}]
SpentOn == [b \in Blocks |-> UNION {Inputs[t] : t \in TxsOf[b]}]

\* What ConnectBlock has checked of every block: an input is an output of an earlier
\* transaction of the chain or of the block, spent nowhere else on the chain, and no
\* transaction comes twice.
ASSUME ValidBlocks ==
    \A b \in Blocks :
        /\ \A i \in DOMAIN Vtx[b] : \A o \in Inputs[Vtx[b][i]] :
              \/ \E c \in ChainOf[b] \ {b} : o[1] \in ToSet(Vtx[c])
              \/ \E j \in 1..(i - 1) : o[1] = Vtx[b][j]
        /\ \A t, u \in TxsOf[b] : t # u => Inputs[t] \cap Inputs[u] = {}
        /\ \A c, d \in ChainOf[b] : ToSet(Vtx[c]) \cap ToSet(Vtx[d]) # {} => c = d

Generated == Stakes \cup Coinbases

\* CMerkleTx::GetDepthInMainChain, for the chain that ends in b
GetDepthInMainChain(w, b, t) ==
    LET e == w.map[t]
    IN  IF e.hashBlock \notin ChainOf[b] THEN 0
        ELSE (IF e.inBlock THEN 1 ELSE -1) * (Height[b] - Height[e.hashBlock] + 1)

\* CMerkleTx::GetBlocksToMaturity() > 0 of a coinbase or coinstake
IsImmature(w, b, t) ==
    t \in Generated /\ GetDepthInMainChain(w, b, t) < Maturity + 1

IsMine(t) == OutpointsOf(t) \cap Ours # {}
IsFromMe(w, t) == \E o \in Inputs[t] : o[1] \in DOMAIN w.map /\ o \in Ours

Spenders(w, o) == {s[2] : s \in {x \in w.spends : x[1] = o}}
SpendersOf(w, t) == {s[2] : s \in {x \in w.spends : x[1][1] = t}}

IsSpent(w, b, o) ==
    \E t \in Spenders(w, o) \cap DOMAIN w.map :
        LET depth == GetDepthInMainChain(w, b, t)
        IN  depth > 0 \/ (depth = 0 /\ w.map[t].hashBlock # Abandoned)

IsTrusted(w, b, q, t) ==
    LET depth == GetDepthInMainChain(w, b, t)
    IN  \/ depth >= 1
        \/ /\ depth = 0
           /\ IsFromMe(w, t)
           /\ t \in q
           /\ \A o \in Inputs[t] : o[1] \in DOMAIN w.map /\ o \in Ours

\* The outputs CWallet::AvailableCoins(fOnlyConfirmed = true) returns.
AvailableCoins(w, b, q) ==
    {o \in Ours :
        /\ o[1] \in DOMAIN w.map
        /\ IsTrusted(w, b, q, o[1])
        /\ ~IsImmature(w, b, o[1])
        /\ GetDepthInMainChain(w, b, o[1]) = 0 => o[1] \in q
        /\ ~IsSpent(w, b, o)}

\* What CWalletTx::GetAvailableCredit computes when it is not cached.
UnspentOf(w, b, t) == {o \in OutpointsOf(t) \cap Ours : ~IsSpent(w, b, o)}

-----------------------------------------------------------------------------
\* Changes of the wallet.

MarkDirty(w, S) ==
    [w EXCEPT !.cache = [t \in Txs |-> IF t \in S THEN NotCached ELSE w.cache[t]]]

\* Transactions whose outputs t spends.
Prevs == [t \in Txs |-> {o[1] : o \in Inputs[t]}]

\* Set the entries of S; the caches of S and of what S spends are dropped.
SetEntries(w, S, e) ==
    MarkDirty([w EXCEPT !.map = [t \in DOMAIN w.map |-> IF t \in S THEN e ELSE w.map[t]]],
              S \cup ((UNION {Prevs[t] : t \in S}) \cap DOMAIN w.map))

\* Mutant: only the transaction itself is marked.
MarkConflictedOnly(w, b, c, t) ==
    LET confirms == -(Height[b] - Height[c] + 1)
    IN  IF c \in ChainOf[b] /\ confirms < GetDepthInMainChain(w, b, t)
        THEN SetEntries(w, {t}, [hashBlock |-> c, inBlock |-> FALSE]) ELSE w

\* CWallet::MarkConflicted: t, and what spends its outputs in the wallet, are
\* in conflict with block c; the walk goes on from what it changes.
MarkConflicted(w, b, c, t) ==
    LET confirms == -(Height[b] - Height[c] + 1)
        Changes(u) == confirms < GetDepthInMainChain(w, b, u)
        todo == {u \in DOMAIN w.map :
                    \A S \in SUBSET DOMAIN w.map :
                        (t \in S /\ \A x \in S : Changes(x) => SpendersOf(w, x) \subseteq S)
                        => u \in S}
    IN  IF c \notin ChainOf[b] THEN w
        ELSE SetEntries(w, {u \in todo : Changes(u)}, [hashBlock |-> c, inBlock |-> FALSE])

\* Mutant: a transaction seen first in a block does not claim its inputs.
AddToSpendsUnconfirmed(w, t) ==
    [w EXCEPT !.spends = @ \cup {<<o, t>> : o \in {i \in Inputs[t] : w.map[t].hashBlock = Null}}]

\* CWallet::AddToSpends; a coinbase has no inputs.
AddToSpends(w, t) == [w EXCEPT !.spends = @ \cup {<<o, t>> : o \in Inputs[t]}]

\* Mutant: the index in the block is set only for a new transaction.
AddToWalletNoIndex(w, t, e) ==
    LET new == t \notin DOMAIN w.map
        block == IF e.hashBlock # Null \/ w.map[t].hashBlock = Abandoned
                 THEN e.hashBlock ELSE w.map[t].hashBlock
        entry == IF new THEN e ELSE [w.map[t] EXCEPT !.hashBlock = block]
        added == [w EXCEPT !.map =
                     [u \in DOMAIN w.map \cup {t} |-> IF u = t THEN entry ELSE w.map[u]]]
    IN  MarkDirty(IF new THEN AddToSpends(added, t) ELSE added, {t})

\* CWallet::AddToWallet of a transaction that is not read from disk.
AddToWallet(w, t, e) ==
    LET old == w.map[t]
        merged == [hashBlock |-> IF e.hashBlock # Null \/ old.hashBlock = Abandoned
                                 THEN e.hashBlock ELSE old.hashBlock,
                   inBlock   |-> e.inBlock \/ old.inBlock]
        entry == IF t \in DOMAIN w.map THEN merged ELSE e
        added == [w EXCEPT !.map =
                     [u \in DOMAIN w.map \cup {t} |-> IF u = t THEN entry ELSE w.map[u]]]
    IN  MarkDirty(IF t \in DOMAIN w.map THEN added ELSE AddToSpends(added, t), {t})

\* The CWalletTx of a transaction that was found in block c, or in no block.
WalletTx(c) == [hashBlock |-> c, inBlock |-> c # Null]

\* What AddToWalletIfInvolvingMe does first with a transaction of a block c:
\* whatever else in the wallet spends one of its inputs is in conflict.
MarkConflicts(w, b, c, t) ==
    LET rivals == (UNION {Spenders(w, o) : o \in Inputs[t]}) \ {t}
    IN  IF c = Null THEN w
        ELSE FoldSet(LAMBDA u, v : MarkConflicted(v, b, c, u), w, rivals)

Involved(w, t) == t \in DOMAIN w.map \/ IsMine(t) \/ IsFromMe(w, t)

\* CWallet::AddToWalletIfInvolvingMe with fUpdate
AddToWalletIfInvolvingMe(w, b, t, c) ==
    LET marked == MarkConflicts(w, b, c, t)
    IN  IF Involved(w, t) THEN AddToWallet(marked, t, WalletTx(c)) ELSE marked

\* The early return of AbandonTransaction.
CanAbandon(w, b, q, t) == GetDepthInMainChain(w, b, t) <= 0 /\ t \notin q

\* CWallet::AbandonTransaction.  The walk looks up what spends the outputs of
\* the first transaction, whatever transaction it has reached, and so ends with
\* the direct spenders.
AbandonTransaction(w, b, q, t) ==
    LET Free(u) == GetDepthInMainChain(w, b, u) = 0 /\ w.map[u].hashBlock # Abandoned
        walked == {t} \cup IF Free(t) THEN SpendersOf(w, t) ELSE {}
    IN  IF CanAbandon(w, b, q, t)
        THEN SetEntries(w, {u \in walked : Free(u)}, [hashBlock |-> Abandoned, inBlock |-> FALSE])
        ELSE w

\* Mutant: the credit of what t spends stays cached.
SyncTransactionKeepCaches(w, b, q, t, c, fConnect) ==
    AddToWalletIfInvolvingMe(w, b, t, c)

\* CWallet::SyncTransaction.  c is the block t is in, if one is passed.
SyncTransaction(w, b, q, t, c, fConnect) ==
    LET added == AddToWalletIfInvolvingMe(w, b, t, c)
        synced == IF Involved(w, t) THEN MarkDirty(added, Prevs[t] \cap DOMAIN added.map)
                  ELSE added
    IN  IF ~fConnect /\ t \in Stakes /\ IsFromMe(w, t)
        THEN [AbandonTransaction(synced, b, q, t) EXCEPT
                 !.spends = {s \in @ : s[1] \notin Inputs[t]}]
        ELSE synced

SyncAll(w, b, q, txs, c, fConnect) ==
    FoldLeft(LAMBDA v, t : SyncTransaction(v, b, q, t, c, fConnect), w, txs)

-----------------------------------------------------------------------------
\* The memory pool, as far as the wallet depends on it.

\* The transactions of q that descend from one of S, and S.
WithDescendants(q, S) ==
    {u \in q \cup S :
        \A R \in SUBSET (q \cup S) :
            (S \subseteq R /\ \A t \in q : Prevs[t] \cap R # {} => t \in R) => u \in R}

DepthOn(b, t) ==
    Height[b] - Height[CHOOSE c \in ChainOf[b] : t \in ToSet(Vtx[c])] + 1

\* An input is there to be spent: on the chain, mature and unspent, or in q.
CanSpend(b, q, o) ==
    /\ o \notin SpentOn[b]
    /\ \/ o[1] \in q
       \/ o[1] \in TxsOf[b] /\ (o[1] \in Generated => DepthOn(b, o[1]) >= Maturity)

\* AcceptToMemoryPool may take t; it may always refuse it (fees, policy).
Acceptable(b, q, t) ==
    /\ t \notin q \cup TxsOf[b] \cup Generated
    /\ \A o \in Inputs[t] : CanSpend(b, q, o) /\ \A u \in q : o \notin Inputs[u]

-----------------------------------------------------------------------------
EmptyWallet ==
    [map |-> [t \in {} |-> WalletTx(Null)], spends |-> {}, cache |-> [t \in Txs |-> NotCached]]

InitWallet == SyncAll(EmptyWallet, Base, {}, Vtx[Base], Base, TRUE)

Init ==
    /\ tip = Base
    /\ pool = {}
    /\ wallet = InitWallet
    /\ created = {}
    /\ disk = [map |-> InitWallet.map, best |-> Base, tip |-> Base]

\* ConnectTip: the pool loses what the block confirms and, with its descendants,
\* what it conflicts with; the wallet hears of the conflicts, then of the block.
ConnectTip(b) ==
    LET confirmed == ToSet(Vtx[b])
        kept == pool \ confirmed
        conflicts == WithDescendants(kept,
            {u \in kept : \E t \in confirmed : Inputs[u] \cap Inputs[t] # {}})
    IN  /\ b # Base /\ Parent[b] = tip
        /\ tip' = b
        /\ pool' = kept \ conflicts
        /\ wallet' = SyncAll(SyncAll(wallet, b, pool', SetToSeq(conflicts), Null, TRUE),
                             b, pool', Vtx[b], b, TRUE)
        /\ UNCHANGED <<created, disk>>

\* Mutant: the pool keeps what depends on the block's transactions.
DisconnectTipOnly ==
    /\ tip # Base
    /\ tip' = Parent[tip]
    /\ pool' = pool
    /\ wallet' = SyncAll(wallet, tip', pool', Vtx[tip], Null, FALSE)
    /\ UNCHANGED <<created, disk>>

\* DisconnectTip, and removeForReorg after it.  The block's transactions are not
\* taken back into the pool, and what depends on them leaves it too.
DisconnectTip ==
    LET b == Parent[tip]
        left == pool \ WithDescendants(pool, ToSet(Vtx[tip]))
        immature == {t \in left : \E o \in Inputs[t] : ~CanSpend(b, left, o)}
    IN  /\ tip # Base
        /\ tip' = b
        /\ pool' = left \ WithDescendants(left, immature)
        /\ wallet' = SyncAll(wallet, b, pool', Vtx[tip], Null, FALSE)
        /\ UNCHANGED <<created, disk>>

\* A transaction from a peer, from sendrawtransaction, or one of the wallet that
\* ReacceptWalletTransactions tries after a start.
AcceptToMemoryPool(t) ==
    /\ Acceptable(tip, pool, t)
    /\ pool' = pool \cup {t}
    /\ wallet' = SyncTransaction(wallet, tip, pool', t, Null, TRUE)
    /\ UNCHANGED <<tip, created, disk>>

\* The pool drops a transaction (TrimToSize, Expire); nobody tells the wallet.
EvictFromPool(t) ==
    /\ t \in pool
    /\ pool' = pool \ WithDescendants(pool, {t})
    /\ UNCHANGED <<tip, wallet, created, disk>>

\* WalletModel::prepareTransaction: coins are selected and the payment signed;
\* the dialog holds one payment at a time.
CreateTransaction(t) ==
    /\ created = {}
    /\ t \in Payments \ DOMAIN wallet.map
    /\ Inputs[t] \subseteq AvailableCoins(wallet, tip, pool)
    /\ created' = {t}
    /\ UNCHANGED <<tip, pool, wallet, disk>>

\* CWallet::CommitTransaction, later, with the coins selected then.
CommitTransaction(t) ==
    LET added == MarkDirty(AddToWallet(wallet, t, WalletTx(Null)), Prevs[t])
    IN  /\ t \in created
        /\ created' = {}
        /\ \/ /\ Acceptable(tip, pool, t)
              /\ pool' = pool \cup {t}
              /\ wallet' = SyncTransaction(added, tip, pool', t, Null, TRUE)
           \/ /\ pool' = pool
              /\ wallet' = added
        /\ UNCHANGED <<tip, disk>>

\* The abandontransaction call.
Abandon(t) ==
    /\ t \in Payments \cap DOMAIN wallet.map
    /\ wallet' = AbandonTransaction(wallet, tip, pool, t)
    /\ UNCHANGED <<tip, pool, created, disk>>

\* CWallet::GetBalance: the credit of every transaction it counts is cached.
GetBalance ==
    LET Counted(t) == /\ t \in DOMAIN wallet.map
                      /\ IsTrusted(wallet, tip, pool, t) /\ ~IsImmature(wallet, tip, t)
        cache == wallet.cache
    IN  /\ wallet' = [wallet EXCEPT !.cache = [t \in Txs |->
                         IF Counted(t) /\ cache[t] = NotCached
                         THEN UnspentOf(wallet, tip, t) ELSE cache[t]]]
        /\ UNCHANGED <<tip, pool, created, disk>>

-----------------------------------------------------------------------------
\* Disk, power failure and restart.

\* FlushStateToDisk: the coins, if it is a full flush, then SetBestChain, which
\* flushes the wallet and is also called without the coins every hour.
FlushStateToDisk(full) ==
    /\ disk' = [map |-> wallet.map, best |-> tip, tip |-> IF full THEN tip ELSE disk.tip]
    /\ UNCHANGED <<tip, pool, wallet, created>>

\* AddToWallet(fFromLoadWallet): a record e of the database for t.
LoadTx(w, b, t, e) ==
    LET read == AddToSpends([w EXCEPT !.map =
                    [u \in DOMAIN w.map \cup {t} |-> IF u = t THEN e ELSE w.map[u]]], t)
        bad == {p \in Prevs[t] \cap DOMAIN read.map :
                    ~read.map[p].inBlock /\ read.map[p].hashBlock \in Blocks}
    IN  FoldSet(LAMBDA p, v : MarkConflicted(v, b, v.map[p].hashBlock, t), read, bad)

LoadWallet(m, b) ==
    FoldLeft(LAMBDA w, t : IF t \in DOMAIN m THEN LoadTx(w, b, t, m[t]) ELSE w,
             EmptyWallet, TxOrder)

\* Mutant: the rescan starts above the height of the locator's first block.
RescanAbove(best, b) == SubSeq(Chain[b], Height[best] + 1, Height[b])

\* The blocks ScanForWalletTransactions reads: from the last block of the
\* locator on the chain, FindForkInGlobalIndex, to the tip.  None if the tip
\* is that block.
Rescanned(best, b) ==
    LET fork == CHOOSE c \in ChainOf[b] \cap ChainOf[best] :
                    \A d \in ChainOf[b] \cap ChainOf[best] : Height[d] <= Height[c]
    IN  IF fork = b THEN <<>> ELSE SubSeq(Chain[b], Height[fork], Height[b])

ScanBlock(w, b, c) ==
    FoldLeft(LAMBDA v, t : AddToWalletIfInvolvingMe(v, b, t, c), w, Vtx[c])

ScanForWalletTransactions(w, b, blocks) ==
    FoldLeft(LAMBDA v, c : ScanBlock(v, b, c), w, blocks)

\* The power fails, perhaps within FlushStateToDisk after the coins and before
\* SetBestChain, perhaps after ThreadFlushWalletDB, and the node starts again:
\* LoadWallet, the rescan, SetBestChain.  The pool is empty; the calls of
\* ReacceptWalletTransactions are steps AcceptToMemoryPool.
Crash(coinsFlushed, walletFlushed) ==
    LET b == IF coinsFlushed THEN tip ELSE disk.tip
        loaded == LoadWallet(IF walletFlushed THEN wallet.map ELSE disk.map, b)
        scanned == ScanForWalletTransactions(loaded, b, Rescanned(disk.best, b))
        best == IF Rescanned(disk.best, b) = <<>> THEN disk.best ELSE b
    IN  /\ walletFlushed => ReorgFlush \/ {disk.best, disk.tip} \subseteq ChainOf[tip]
        /\ tip' = b
        /\ pool' = {}
        /\ wallet' = scanned
        /\ created' = {}
        /\ disk' = [map |-> scanned.map, best |-> best, tip |-> b]

Next ==
    \/ \E b \in Blocks : ConnectTip(b)
    \/ DisconnectTip
    \/ \E t \in Txs : \/ AcceptToMemoryPool(t)
                      \/ EvictFromPool(t)
                      \/ CreateTransaction(t)
                      \/ CommitTransaction(t)
                      \/ Abandon(t)
    \/ GetBalance
    \/ \E full \in BOOLEAN : FlushStateToDisk(full)
    \/ \E coinsFlushed, walletFlushed \in BOOLEAN : Crash(coinsFlushed, walletFlushed)

Spec == Init /\ [][Next]_vars

-----------------------------------------------------------------------------
\* Properties.

Entries == [hashBlock : Blocks \cup {Null, Abandoned}, inBlock : BOOLEAN]

\* The wallet keeps an entry and the spends of known transactions, caches sets
\* of its own outputs, and an entry that names no block is not in one.
TypeOK ==
    /\ tip \in Blocks /\ disk.best \in Blocks /\ disk.tip \in Blocks
    /\ pool \subseteq Txs \ Generated
    /\ DOMAIN wallet.map \subseteq Txs
    /\ \A t \in DOMAIN wallet.map :
          /\ wallet.map[t] \in Entries
          /\ wallet.map[t].inBlock => wallet.map[t].hashBlock \in Blocks
    /\ \A s \in wallet.spends : s[2] \in DOMAIN wallet.map /\ s[1] \in Inputs[s[2]]
    /\ \A t \in Txs : \/ wallet.cache[t] = NotCached
                      \/ wallet.cache[t] \subseteq OutpointsOf(t) \cap Ours

\* Whatever on the active chain pays the wallet or spends a coin of it is in
\* mapWallet, confirmed by the block that holds it, after any reorganisation and
\* after a crash and the rescan from the last SetBestChain.
ChainKnown ==
    \A b \in ChainOf[tip] : \A t \in ToSet(Vtx[b]) :
        IsMine(t) \/ Inputs[t] \cap Ours # {} =>
            /\ t \in DOMAIN wallet.map
            /\ wallet.map[t] = WalletTx(b)

\* The wallet's maps are well formed and have all that the active chain tells them,
\* whatever the order of blocks, payments, abandonments and power failures.
WalletConsistent == TypeOK /\ ChainKnown

StakeInputs == UNION {Inputs[t] : t \in Stakes}
SpentNow == SpentOn[tip] \cup UNION {Inputs[t] : t \in pool}

\* A coin that a transaction of the active chain or of the memory pool spends is
\* not offered for a payment (AvailableCoins), unless a stake of the wallet could
\* spend it too: SyncTransaction forgets all spends of those.
SpentNotOffered == AvailableCoins(wallet, tip, pool) \cap SpentNow \subseteq StakeInputs

\* The same for every coin: "Outpoint is spent if any non-conflicted transaction
\* spends it" (IsSpent).
NoSpentOffered == AvailableCoins(wallet, tip, pool) \cap SpentNow = {}

\* The balance counts no coin that the active chain has spent: the credit cached
\* for a transaction is dropped whenever one of its outputs is spent by a block.
BalanceUnspent ==
    \A t \in Txs : \/ wallet.cache[t] = NotCached
                   \/ wallet.cache[t] \cap SpentOn[tip] \subseteq StakeInputs

\* t and whatever it builds on.
AncestorsOf(t) ==
    {u \in Txs : \A C \in SUBSET Txs : t \in C /\ (\A x \in C : Prevs[x] \subseteq C) => u \in C}

\* A transaction of negative depth cannot be confirmed while the chain stands: a
\* block at that depth spends an input of it or of a transaction it builds on.
ConflictsReal ==
    \A t \in DOMAIN wallet.map : GetDepthInMainChain(wallet, tip, t) < 0 =>
        \E u \in AncestorsOf(t), v \in ToSet(Vtx[wallet.map[t].hashBlock]) :
            u # v /\ Inputs[u] \cap Inputs[v] # {}

\* The assertions of AbandonTransaction hold whenever it may be called: what
\* spends an unconfirmed transaction outside the pool is neither confirmed nor
\* in the pool.
AbandonSafe ==
    \A t \in DOMAIN wallet.map : CanAbandon(wallet, tip, pool, t) =>
        \A u \in SpendersOf(wallet, t) :
            GetDepthInMainChain(wallet, tip, u) <= 0 /\ u \notin pool

\* When a block is connected, each transaction of the wallet that spends a coin
\* the block spends otherwise is in conflict after it, and so is every wallet
\* transaction that spends an output of one whose entry the block has changed to
\* a conflict.
ConflictsMarked ==
    [][ConnectTip(tip') =>
         LET Bad(t) == GetDepthInMainChain(wallet', tip', t) < 0
         IN  \A t \in DOMAIN wallet.map :
               \/ Bad(t)
               \/ /\ \A u \in ToSet(Vtx[tip']) \ {t} : Inputs[t] \cap Inputs[u] \subseteq StakeInputs
                  /\ \A p \in Prevs[t] \cap DOMAIN wallet.map :
                        Bad(p) => wallet'.map[p] = wallet.map[p]]_vars

-----------------------------------------------------------------------------
\* The inductive invariants behind them.

\* t pays the wallet or spends a coin of it.
Concerned(t) == IsMine(t) \/ Inputs[t] \cap Ours # {}

\* Block c spends otherwise what t or a transaction that t builds on spends.
InConflict(t, c) ==
    \E u \in AncestorsOf(t), v \in ToSet(Vtx[c]) : u # v /\ Inputs[u] \cap Inputs[v] # {}

\* What an entry says of its block is true, on whatever branch the block is.
MapTrue(m) ==
    /\ DOMAIN m \subseteq Txs /\ m \in [DOMAIN m -> Entries]
    /\ \A t \in DOMAIN m :
          /\ Concerned(t)
          /\ m[t].inBlock => m[t].hashBlock \in Blocks /\ t \in ToSet(Vtx[m[t].hashBlock])
          /\ ~m[t].inBlock /\ m[t].hashBlock \in Blocks => InConflict(t, m[t].hashBlock)

\* Spends are of transactions of the wallet; none is missing but those of stakes.
SpendsTrue(w) ==
    /\ \A s \in w.spends : s[2] \in DOMAIN w.map /\ s[1] \in Inputs[s[2]]
    /\ \A t \in DOMAIN w.map : \A o \in Inputs[t] \ StakeInputs : <<o, t>> \in w.spends

CachesTrue(w) ==
    \A t \in Txs : \/ w.cache[t] = NotCached
                   \/ t \in DOMAIN w.map /\ w.cache[t] \subseteq OutpointsOf(t) \cap Ours

Wallets ==
    [map : UNION {[D -> Entries] : D \in SUBSET Txs},
     spends : SUBSET (Outpoints \X Txs),
     cache : [Txs -> {NotCached} \cup SUBSET Outpoints]]

WalletTrue(w) == w \in Wallets /\ MapTrue(w.map) /\ SpendsTrue(w) /\ CachesTrue(w)

RecordsInv ==
    /\ WalletTrue(wallet)
    /\ MapTrue(disk.map)
    /\ tip \in Blocks /\ disk.best \in Blocks /\ disk.tip \in Blocks
    /\ pool \subseteq Txs
    /\ \A t \in created : t \in Payments /\ Inputs[t] \subseteq Ours

\* The map has what the chain that ends in b says.
Knows(m, b) ==
    \A c \in ChainOf[b] : \A t \in ToSet(Vtx[c]) :
        Concerned(t) => t \in DOMAIN m /\ m[t] = WalletTx(c)

\* The pool could be mined, and the wallet has what concerns it there, not abandoned.
PoolInv ==
    /\ pool \subseteq Txs \ Generated
    /\ pool \cap TxsOf[tip] = {}
    /\ \A t \in pool : \A o \in Inputs[t] : o \notin SpentOn[tip] /\ o[1] \in pool \cup TxsOf[tip]

PoolKnown ==
    \A t \in pool : Concerned(t) => t \in DOMAIN wallet.map /\ wallet.map[t].hashBlock # Abandoned

WalletInv ==
    /\ RecordsInv
    /\ PoolInv
    /\ Knows(wallet.map, tip)
    /\ Knows(disk.map, disk.best)
    /\ PoolKnown
    /\ BalanceUnspent

\* What a stake spends is settled: no block is in conflict with it.  A coin has to be
\* nStakeMinAge old, four hours on the main chain, before it can stake.
StakesSettled == \A o \in StakeInputs, c \in Blocks : ~InConflict(o[1], c)

=============================================================================
